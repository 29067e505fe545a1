----------------------------- MODULE SlotLease ------------------------------
(***************************************************************************)
(* What provider capacity promises, with no ledger, no retries and no      *)
(* ticket: a slot is a lease.  A run takes one while its provider has one  *)
(* to give, enters its provider only while it holds it, and gives it back  *)
(* only when nothing of it is alive.  AgentRun implements it.              *)
(***************************************************************************)
EXTENDS Naturals, FiniteSets

CONSTANTS Runs, Providers, Limit, Free

VARIABLES holds,   \* the provider whose slot a run holds, or Free
          live     \* the runs whose provider process is alive

Holders(p) == {r \in Runs : holds[r] = p}

Init == holds = [r \in Runs |-> Free] /\ live = {}

Take(r, p) ==
    /\ holds[r] = Free
    /\ Cardinality(Holders(p)) < Limit[p]
    /\ holds' = [holds EXCEPT ![r] = p]
    /\ UNCHANGED live

Launch(r) ==
    /\ holds[r] # Free
    /\ live' = live \cup {r}
    /\ UNCHANGED holds

Exit(r) ==
    /\ live' = live \ {r}
    /\ UNCHANGED holds

GiveBack(r) ==
    /\ r \notin live
    /\ holds' = [holds EXCEPT ![r] = Free]
    /\ UNCHANGED live

Next == \E r \in Runs :
           \/ \E p \in Providers : Take(r, p)
           \/ Launch(r) \/ Exit(r) \/ GiveBack(r)

Spec == Init /\ [][Next]_<<holds, live>>
=============================================================================
