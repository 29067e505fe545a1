--------------------------- MODULE AgentRunLease ----------------------------
(* AgentRun implements SlotLease, as long as no caller replays a run.       *)
EXTENDS AgentRun

CONSTANT Free
ASSUME FreeAssumption == Free \notin Providers

holds == [r \in Runs |->
             IF reservation[r] = "active" THEN request[r].provider ELSE Free]
live  == {r \in Runs : process[r] = "alive" /\ request[r].routed}

Lease == INSTANCE SlotLease WITH holds <- holds, live <- live

(* Provider capacity is a lease (ADAPTERS.md, releaseProviderCapacity): no  *)
(* interleaving of calls, recoveries, reconciliations and crashes admits a  *)
(* run past the limit, launches one without a slot, or returns the slot of  *)
(* a run that is still alive.                                               *)
ImplementsLease == Lease!Spec

-----------------------------------------------------------------------------
(* Why it holds: what every position of an invoker says about its run. *)

(* A slot belongs to a routed run; a process to a launched one.             *)
Coherent ==
    \A r \in Runs :
        /\ reservation[r] # "none" => status[r] # "ABSENT" /\ request[r].routed
        /\ process[r] # "none" => launched[r]
        /\ launched[r] => status[r] \notin {"ABSENT", "CREATED"}

(* A run is in the hands of at most one call.                               *)
Exclusive ==
    /\ \A i \in Invokers : pc[i] = "idle" <=> cur[i] = NoRun
    /\ \A i, j \in Invokers : cur[i] = cur[j] /\ cur[i] # NoRun => i = j

Position(i) ==
    LET r == cur[i]
    IN  /\ pc[i] \in {"prepared", "unreserved", "reserved", "loaded"} => ~launched[r]
        /\ pc[i] \in {"prepared", "unreserved", "reserved", "retry"} => request[r].routed
        /\ pc[i] \in {"prepared", "unreserved"} => reservation[r] = "none"
        /\ pc[i] = "reserved" => reservation[r] = "active"
        /\ pc[i] = "loaded" /\ request[r].routed /\ Active(r) => reservation[r] = "active"
        /\ pc[i] = "started" => /\ process[r] = "none" /\ launched[r]
                                /\ request[r].routed => reservation[r] = "active"

LeaseInv ==
    /\ Coherent
    /\ Exclusive
    /\ \A i \in Invokers : Position(i)
    /\ LiveProviderHoldsSlot
=============================================================================
