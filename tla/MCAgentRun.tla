----------------------------- MODULE MCAgentRun -----------------------------
(* Small instances of AgentRun for TLC. *)
EXTENDS AgentRunLease, TLC

(* One slot per provider: every reservation competes.                       *)
LimitOne == [p \in Providers |-> 1]

(* Runs, invokers and providers are interchangeable; tickets are not.        *)
Symmetry ==
    Permutations(Runs) \cup Permutations(Invokers) \cup Permutations(Providers)
=============================================================================
