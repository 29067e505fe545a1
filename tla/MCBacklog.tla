----------------------------- MODULE MCBacklog ------------------------------
(* Small instances of Backlog for TLC. *)
EXTENDS Backlog, DependencyGraph, TLC

(* Processes are interchangeable.                                           *)
Symmetry == Permutations(Syncers)

None == {}

(* A chain, the chain before its last ticket was written, the same with     *)
(* another dependency, a cycle, a ticket that is missing.                   *)
MCFiles == {1 :> None @@ 2 :> {1} @@ 3 :> {2},
            1 :> None @@ 2 :> {1},
            1 :> None @@ 2 :> None @@ 3 :> {1, 2},
            1 :> {3} @@ 2 :> {1} @@ 3 :> {2},
            2 :> None @@ 3 :> {2}}

(* The traversal accepts exactly the graphs the specification takes for     *)
(* valid.                                                                   *)
ASSUME TraversalFindsCycles == \A g \in Graphs : ValidateDependencyGraph(g) <=> Closed(g) /\ Acyclic(g)
=============================================================================
