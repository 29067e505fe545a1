----------------------------- MODULE MCDispatch -----------------------------
(* Small instances of Dispatch for TLC. *)
EXTENDS Dispatch, TLC

(* Tickets, claims and servers are interchangeable.                         *)
Symmetry == Permutations(Tickets) \cup Permutations(Claims) \cup Permutations(Servers)
=============================================================================
