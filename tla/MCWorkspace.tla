---------------------------- MODULE MCWorkspace -----------------------------
(* Small instances of Workspace for TLC. *)
EXTENDS Workspace, TLC

(* Tickets, rows and callers are interchangeable.                           *)
Symmetry == Permutations(Tickets) \cup Permutations(Rows) \cup Permutations(Callers)
=============================================================================
