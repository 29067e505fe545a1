-------------------------- MODULE DependencyGraph ---------------------------
(***************************************************************************)
(* The traversal of src/src/domain/dependency-graph.ts, as it is written:  *)
(* depth first, with the tickets being visited and those done.             *)
(***************************************************************************)
EXTENDS FiniteSetsExt

Unvisited == [visiting |-> {}, visited |-> {}, cycle |-> FALSE]

RECURSIVE Visit(_, _, _)

(* visit: a ticket met again while it is being visited closes a cycle, and  *)
(* the throw ends everything.                                               *)
Visit(g, s, t) ==
    IF s.cycle \/ t \in s.visited THEN s
    ELSE IF t \in s.visiting THEN [s EXCEPT !.cycle = TRUE]
    ELSE LET inside == FoldSet(LAMBDA d, r : Visit(g, r, d),
                               [s EXCEPT !.visiting = @ \cup {t}], g[t])
         IN  [inside EXCEPT !.visiting = @ \ {t}, !.visited = @ \cup {t}]

(* validateDependencyGraph.                                                 *)
ValidateDependencyGraph(g) ==
    /\ \A t \in DOMAIN g : g[t] \subseteq DOMAIN g \ {t}
    /\ ~FoldSet(LAMBDA t, s : Visit(g, s, t), Unvisited, DOMAIN g).cycle
=============================================================================
