----------------------------- MODULE MCHandoff ------------------------------
(* Small instances of Handoff for TLC. *)
EXTENDS Handoff, TLC

(* Processes are interchangeable.                                           *)
Symmetry == Permutations(Callers)
=============================================================================
