-------------------------- MODULE WorkspaceProofs ---------------------------
(* Theorems about Workspace, for any number of tickets, reservations and   *)
(* callers, any ticket limit and any number of crashes.                     *)
EXTENDS Workspace, FiniteSetTheorems, TLAPS

-----------------------------------------------------------------------------
(* Type correctness, in three parts: what is durable, what is on disk, and  *)
(* where the calls are.                                                     *)

RowTypes ==
    /\ ticket \in [Tickets -> TicketStates]
    /\ status \in [Rows -> RowStates]
    /\ owner \in [Rows -> Tickets \cup {NoTicket}]
    /\ \A r \in Rows : status[r] # "none" => owner[r] \in Tickets
    /\ crashes \in 0..MaxCrashes

DiskTypes ==
    /\ tree \in [Tickets -> TreeStates]
    /\ maker \in [Tickets -> Rows \cup {NoRow}]
    /\ branch \in [Tickets -> BOOLEAN]
    /\ git \in [Rows -> {"none", "adding", "checkout", "done", "failed"}]
    /\ \A r \in Rows : git[r] # "none" => status[r] # "none"

CallTypes ==
    /\ pc \in [Callers -> RowPCs \cup {"idle", "preflight", "checked", "waiting"}]
    /\ goal \in [Callers -> Tickets \cup {NoTicket}]
    /\ \A i \in Callers : pc[i] # "idle" => goal[i] \in Tickets
    /\ mine \in [Callers -> Rows \cup {NoRow}]
    /\ \A i \in Callers :
          pc[i] \in RowPCs =>
              mine[i] \in Rows /\ status[mine[i]] # "none" /\ owner[mine[i]] = goal[i]

(* A row that exists keeps existing, for the same ticket. *)
RowsStay ==
    \A r \in Rows : status[r] # "none" => status'[r] # "none" /\ owner'[r] = owner[r]

LEMMA TypeParts == TypeOK <=> RowTypes /\ DiskTypes /\ CallTypes
BY DEF TypeOK, RowTypes, DiskTypes, CallTypes

(* What a step writes to the tickets and the rows: nothing, a row moved     *)
(* from its expected status, a row made READY with its ticket, a new row,   *)
(* or a ticket moving on.                                                   *)
Marks(r) == \/ Mark(r, "CREATING", "FAILED")
            \/ Mark(r, "CREATING", "NEEDS_HUMAN")
            \/ Mark(r, "READY", "REMOVED")

Reserves(i, r) ==
    /\ status[r] = "none" /\ ticket[goal[i]] = "ELIGIBLE" /\ HasCapacity
    /\ goal[i] \in Tickets
    /\ status' = [status EXCEPT ![r] = "CREATING"]
    /\ owner' = [owner EXCEPT ![r] = goal[i]]

Moves(t) ==
    \/ ticket[t] = "ACTIVE" /\ ticket' = [ticket EXCEPT ![t] = "PR_OPEN"]
    \/ /\ ticket[t] \in {"ELIGIBLE", "ACTIVE"}
       /\ ticket' = [ticket EXCEPT ![t] = "HALTED"]

Writes ==
    \/ UNCHANGED <<ticket, rows>>
    \/ UNCHANGED ticket /\ \E r \in Rows : status[r] # "none" /\ Marks(r)
    \/ \E r \in Rows : owner[r] \in Tickets /\ FinalizeReady(r)
    \/ UNCHANGED ticket /\ \E i \in Callers, r \in Rows : Reserves(i, r)
    \/ UNCHANGED rows /\ \E t \in Tickets : Moves(t)

(* The steps of a call write no more than that. *)
LEMMA CallWrites ==
  ASSUME TypeOK, NEW i \in Callers, BeginCall(i) \/ InCall(i) \/ Crash(i)
  PROVE  Writes
<1>1. CASE BeginCall(i)
  BY <1>1 DEF BeginCall, Begin, BeginExisting, BeginRemove, Writes
<1>2. ASSUME NEW r \in Rows, Reserve(i, r) PROVE Writes
  <2>1. goal[i] \in Tickets
    BY <1>2 DEF Reserve, TypeOK
  <2>2. Reserves(i, r) /\ UNCHANGED ticket
    BY <1>2, <2>1 DEF Reserve, Reserves
  <2> QED
    BY <2>2 DEF Writes
<1>3. CASE \/ CreationFails(i) \/ Unproven(i) \/ Claim(i) \/ RecoverFails(i)
           \/ RecordRemoval(i)
  <2>1. pc[i] \in RowPCs
    BY <1>3 DEF CreationFails, Unproven, Claim, RecoverFails, RecordRemoval, RowPCs
  <2>2. PICK r \in Rows : r = mine[i]
    BY <2>1 DEF TypeOK
  <2>3. status[r] # "none" /\ Marks(r) /\ UNCHANGED ticket
    BY <1>3, <2>1, <2>2 DEF CreationFails, Unproven, Claim, RecoverFails,
       RecordRemoval, Marks, TypeOK
  <2> QED
    BY <2>2, <2>3 DEF Writes
<1>4. CASE Finalize(i) \/ RecoverFinalize(i)
  <2>1. pc[i] \in RowPCs
    BY <1>4 DEF Finalize, RecoverFinalize, RowPCs
  <2>2. PICK r \in Rows : r = mine[i]
    BY <2>1 DEF TypeOK
  <2>3. owner[r] \in Tickets /\ FinalizeReady(r)
    BY <1>4, <2>1, <2>2 DEF Finalize, RecoverFinalize, TypeOK
  <2> QED
    BY <2>2, <2>3 DEF Writes
<1>5. CASE \/ BranchIsFree(i) \/ BranchRefused(i) \/ ReserveRaced(i) \/ ReserveRefused(i)
           \/ AddWorktree(i) \/ Created(i) \/ Verify(i) \/ AfterCreationFails(i)
           \/ ProveOurs(i) \/ ClaimLost(i) \/ Cleanup(i) \/ CleanupFails(i)
           \/ WaitEnds(i) \/ WaitTimesOut(i) \/ RecoverVerify(i) \/ RemoveTree(i)
           \/ RemoveRefused(i) \/ Crash(i)
  BY <1>5 DEF BranchIsFree, BranchRefused, ReserveRaced, ReserveRefused, AddWorktree,
     Created, Verify, AfterCreationFails, ProveOurs, ClaimLost, Cleanup, CleanupFails,
     WaitEnds, WaitTimesOut, RecoverVerify, RemoveTree, RemoveRefused, Crash, Writes
<1> QED
  BY <1>1, <1>2, <1>3, <1>4, <1>5 DEF InCall

LEMMA StepWrites == TypeOK /\ [Next]_vars => Writes
<1> SUFFICES ASSUME TypeOK, [Next]_vars PROVE Writes
  OBVIOUS
<1>1. ASSUME NEW i \in Callers, BeginCall(i) \/ InCall(i) \/ Crash(i) PROVE Writes
  BY <1>1, CallWrites
<1>2. ASSUME NEW r \in Rows, GitRegisters(r) \/ GitChecksOut(r) \/ GitFails(r) PROVE Writes
  BY <1>2 DEF GitRegisters, GitChecksOut, GitFails, Writes
<1>3. ASSUME NEW t \in Tickets, Work(t) \/ Plant(t) PROVE Writes
  BY <1>3 DEF Work, Plant, Writes
<1>4. ASSUME NEW t \in Tickets, Submit(t) \/ Halt(t) PROVE Writes
  <2>1. Moves(t) /\ UNCHANGED rows
    BY <1>4 DEF Submit, Halt, Moves
  <2> QED
    BY <2>1 DEF Writes
<1>5. CASE UNCHANGED vars
  BY <1>5 DEF vars, Writes
<1> QED
  BY <1>1, <1>2, <1>3, <1>4, <1>5 DEF Next

LEMMA RowStep ==
  ASSUME TypeOK, Writes, crashes' \in 0..MaxCrashes
  PROVE  RowTypes' /\ RowsStay
<1>1. CASE UNCHANGED <<ticket, rows>>
  BY <1>1 DEF TypeOK, RowTypes, RowsStay, rows
<1>2. ASSUME NEW r \in Rows, UNCHANGED ticket, status[r] # "none", Marks(r)
      PROVE  RowTypes' /\ RowsStay
  BY <1>2 DEF TypeOK, RowTypes, RowsStay, Marks, Mark, RowStates, OpenStates
<1>3. ASSUME NEW r \in Rows, owner[r] \in Tickets, FinalizeReady(r)
      PROVE  RowTypes' /\ RowsStay
  BY <1>3 DEF TypeOK, RowTypes, RowsStay, FinalizeReady, CanFinalize, RowStates,
     OpenStates, TicketStates
<1>4. ASSUME UNCHANGED ticket, NEW i \in Callers, NEW r \in Rows, Reserves(i, r)
      PROVE  RowTypes' /\ RowsStay
  BY <1>4 DEF TypeOK, RowTypes, RowsStay, Reserves, RowStates, OpenStates
<1>5. ASSUME UNCHANGED rows, NEW t \in Tickets, Moves(t)
      PROVE  RowTypes' /\ RowsStay
  BY <1>5 DEF TypeOK, RowTypes, RowsStay, Moves, rows, TicketStates
<1> QED
  BY <1>1, <1>2, <1>3, <1>4, <1>5 DEF Writes

(* A call that only moves its own position and nothing else that places it. *)
LEMMA Placed ==
  ASSUME TypeOK, RowsStay, NEW i \in Callers,
         \/ UNCHANGED calls
         \/ Leave(i)
         \/ pc[i] \in RowPCs /\ \E to \in RowPCs : Goto(i, to)
         \/ pc[i] # "idle" /\ \E to \in {"checked", "waiting"} : Goto(i, to)
         \/ pc[i] # "idle" /\ \E r \in Rows, to \in RowPCs :
               Take(i, r, to) /\ status'[r] # "none" /\ owner'[r] = goal[i]
  PROVE  CallTypes'
<1>1. CASE UNCHANGED calls
  BY <1>1 DEF TypeOK, CallTypes, RowsStay, calls
<1>2. CASE Leave(i)
  BY <1>2 DEF TypeOK, CallTypes, RowsStay, Leave, RowPCs
<1>3. CASE pc[i] \in RowPCs /\ \E to \in RowPCs : Goto(i, to)
  BY <1>3 DEF TypeOK, CallTypes, RowsStay, Goto, RowPCs
<1>4. CASE pc[i] # "idle" /\ \E to \in {"checked", "waiting"} : Goto(i, to)
  BY <1>4 DEF TypeOK, CallTypes, RowsStay, Goto, RowPCs
<1>5. ASSUME pc[i] # "idle", NEW r \in Rows, NEW to \in RowPCs, Take(i, r, to),
             status'[r] # "none", owner'[r] = goal[i]
      PROVE  CallTypes'
  BY <1>5 DEF TypeOK, CallTypes, RowsStay, Take, RowPCs
<1> QED
  BY <1>1, <1>2, <1>3, <1>4, <1>5

LEMMA BeginTypes ==
  ASSUME TypeOK, RowsStay, NEW i \in Callers, BeginCall(i)
  PROVE  CallTypes' /\ UNCHANGED <<disk, git, crashes>>
<1>1. PICK t \in Tickets : Begin(i, t) \/ BeginExisting(i, t) \/ BeginRemove(i, t)
  BY DEF BeginCall
<1>2. CASE Begin(i, t) \/ BeginExisting(i, t)
  BY <1>1, <1>2 DEF Begin, BeginExisting, TypeOK, CallTypes, RowsStay, rows, RowPCs
<1>3. CASE BeginRemove(i, t)
  <2>1. PICK r \in Rows : /\ owner[r] = t /\ status[r] # "none"
                          /\ mine' = [mine EXCEPT ![i] = r]
    BY <1>3 DEF BeginRemove, OpenRows
  <2> QED
    BY <1>1, <1>3, <2>1 DEF BeginRemove, TypeOK, CallTypes, RowsStay, rows, RowPCs
<1> QED
  BY <1>1, <1>2, <1>3 DEF Begin, BeginExisting, BeginRemove

LEMMA CallPlaced ==
  ASSUME TypeOK, RowsStay, NEW i \in Callers, InCall(i) \/ Crash(i)
  PROVE  CallTypes'
<1>1. ASSUME NEW r \in Rows, Reserve(i, r) PROVE CallTypes'
  <2>1. status'[r] # "none" /\ owner'[r] = goal[i] /\ Take(i, r, "reserved")
    BY <1>1 DEF Reserve, TypeOK
  <2> QED
    BY <1>1, <2>1, Placed DEF Reserve, RowPCs
<1>2. CASE WaitTimesOut(i)
  <2>1. PICK r \in OpenRows(goal[i]) : Take(i, r, "recovering")
    BY <1>2 DEF WaitTimesOut
  <2>2. r \in Rows /\ status'[r] # "none" /\ owner'[r] = goal[i]
    BY <1>2, <2>1 DEF OpenRows, Open, OpenStates, RowsStay, WaitTimesOut
  <2> QED
    BY <1>2, <2>1, <2>2, Placed DEF WaitTimesOut, RowPCs
<1>3. CASE \/ BranchRefused(i) \/ ReserveRefused(i) \/ CreationFails(i) \/ Finalize(i)
           \/ Unproven(i) \/ ClaimLost(i) \/ Cleanup(i) \/ CleanupFails(i) \/ WaitEnds(i)
           \/ RecoverFinalize(i) \/ RecoverFails(i) \/ RemoveRefused(i)
           \/ RecordRemoval(i) \/ Crash(i)
  <2>1. Leave(i)
    BY <1>3 DEF BranchRefused, ReserveRefused, CreationFails, Finalize, Unproven,
       ClaimLost, Cleanup, CleanupFails, WaitEnds, RecoverFinalize, RecoverFails,
       RemoveRefused, RecordRemoval, Crash
  <2> QED
    BY <2>1, Placed
<1>4. CASE \/ AddWorktree(i) \/ Created(i) \/ Verify(i) \/ AfterCreationFails(i)
           \/ ProveOurs(i) \/ Claim(i) \/ RecoverVerify(i) \/ RemoveTree(i)
  <2>1. pc[i] \in RowPCs /\ \E to \in RowPCs : Goto(i, to)
    BY <1>4 DEF AddWorktree, Created, Verify, AfterCreationFails, ProveOurs, Claim,
       RecoverVerify, RemoveTree, RowPCs
  <2> QED
    BY <2>1, Placed
<1>5. CASE BranchIsFree(i) \/ ReserveRaced(i)
  <2>1. pc[i] # "idle" /\ \E to \in {"checked", "waiting"} : Goto(i, to)
    BY <1>5 DEF BranchIsFree, ReserveRaced
  <2> QED
    BY <2>1, Placed
<1> QED
  BY <1>1, <1>2, <1>3, <1>4, <1>5 DEF InCall

LEMMA CallDisk ==
  ASSUME TypeOK, RowsStay, NEW i \in Callers, InCall(i) \/ Crash(i)
  PROVE  DiskTypes' /\ crashes' \in 0..MaxCrashes
<1>1. CASE AddWorktree(i)
  BY <1>1 DEF AddWorktree, TypeOK, DiskTypes, RowsStay, disk, rows, RowPCs
<1>2. CASE Cleanup(i) \/ RemoveTree(i)
  BY <1>2 DEF Cleanup, RemoveTree, GitRemoves, TypeOK, DiskTypes, RowsStay, TreeStates
<1>3. CASE Crash(i)
  BY <1>3, BoundsAssumption DEF Crash, TypeOK, DiskTypes, RowsStay, disk
<1>4. CASE UNCHANGED <<disk, git, crashes>>
  BY <1>4 DEF TypeOK, DiskTypes, RowsStay, disk
<1> QED
  BY <1>1, <1>2, <1>3, <1>4 DEF InCall, Reserve, BranchIsFree, BranchRefused,
     ReserveRaced, ReserveRefused, CreationFails, Created, Verify, Finalize,
     AfterCreationFails, ProveOurs, Unproven, Claim, ClaimLost, CleanupFails, WaitEnds,
     WaitTimesOut, RecoverVerify, RecoverFinalize, RecoverFails, RemoveRefused,
     RecordRemoval

LEMMA WorldTypes ==
  ASSUME TypeOK, RowsStay,
         \/ \E r \in Rows : GitRegisters(r) \/ GitChecksOut(r) \/ GitFails(r)
         \/ \E t \in Tickets : Work(t) \/ Plant(t) \/ Submit(t) \/ Halt(t)
         \/ UNCHANGED vars
  PROVE  DiskTypes' /\ CallTypes' /\ crashes' \in 0..MaxCrashes
<1>1. ASSUME NEW r \in Rows, GitRegisters(r) \/ GitChecksOut(r) \/ GitFails(r)
      PROVE  DiskTypes' /\ UNCHANGED <<calls, crashes>>
  <2>1. owner[r] \in Tickets
    BY <1>1 DEF GitRegisters, GitChecksOut, GitFails, TypeOK
  <2>2. CASE GitRegisters(r)
    BY <2>1, <2>2 DEF GitRegisters, TypeOK, DiskTypes, RowsStay, TreeStates, rows
  <2>3. CASE GitChecksOut(r)
    BY <2>1, <2>3 DEF GitChecksOut, TypeOK, DiskTypes, RowsStay, TreeStates, rows
  <2>4. CASE GitFails(r)
    <3>1. /\ git' = [git EXCEPT ![r] = "failed"] /\ git[r] # "none"
          /\ UNCHANGED <<rows, branch, calls, crashes>>
      BY <2>4 DEF GitFails
    <3>2. tree' \in [Tickets -> TreeStates] /\ maker' \in [Tickets -> Rows \cup {NoRow}]
      BY <2>1, <2>4 DEF GitFails, TypeOK, TreeStates
    <3> QED
      BY <3>1, <3>2 DEF TypeOK, DiskTypes, RowsStay, rows
  <2> QED
    BY <1>1, <2>2, <2>3, <2>4
<1>2. ASSUME NEW t \in Tickets, Work(t) \/ Plant(t) \/ Submit(t) \/ Halt(t)
      PROVE  DiskTypes' /\ UNCHANGED <<calls, crashes>>
  BY <1>2 DEF Work, Plant, Submit, Halt, TypeOK, DiskTypes, RowsStay, TreeStates, rows, disk
<1>3. ASSUME UNCHANGED vars PROVE DiskTypes' /\ UNCHANGED <<calls, crashes>>
  BY <1>3 DEF vars, TypeOK, DiskTypes, RowsStay, disk, rows
<1>4. UNCHANGED <<calls, crashes>> => CallTypes' /\ crashes' \in 0..MaxCrashes
  BY DEF TypeOK, CallTypes, RowsStay, calls
<1> QED
  BY <1>1, <1>2, <1>3, <1>4

LEMMA CrashBound == TypeOK /\ [Next]_vars => crashes' \in 0..MaxCrashes
<1> SUFFICES ASSUME TypeOK, [Next]_vars PROVE crashes' \in 0..MaxCrashes
  OBVIOUS
<1>1. ASSUME NEW i \in Callers, Crash(i) PROVE crashes' \in 0..MaxCrashes
  BY <1>1, BoundsAssumption DEF Crash, TypeOK
<1>2. CASE UNCHANGED crashes
  BY <1>2 DEF TypeOK
<1> QED
  BY <1>1, <1>2 DEF Next, vars, BeginCall, Begin, BeginExisting, BeginRemove, InCall,
     Reserve, BranchIsFree, BranchRefused, ReserveRaced, ReserveRefused, AddWorktree,
     CreationFails, Created, Verify, Finalize, AfterCreationFails, ProveOurs, Unproven,
     Claim, ClaimLost, Cleanup, CleanupFails, WaitEnds, WaitTimesOut, RecoverVerify,
     RecoverFinalize, RecoverFails, RemoveTree, RemoveRefused, RecordRemoval,
     GitRegisters, GitChecksOut, GitFails, Work, Plant, Submit, Halt

LEMMA TypeStep == TypeOK /\ [Next]_vars => TypeOK'
<1> SUFFICES ASSUME TypeOK, [Next]_vars PROVE TypeOK'
  OBVIOUS
<1>1. RowTypes' /\ RowsStay
  BY StepWrites, RowStep, CrashBound
<1>2. ASSUME NEW i \in Callers, BeginCall(i) PROVE DiskTypes' /\ CallTypes'
  <2>1. CallTypes' /\ UNCHANGED <<disk, git>>
    BY <1>1, <1>2, BeginTypes
  <2> QED
    BY <1>1, <2>1 DEF TypeOK, DiskTypes, RowsStay, disk
<1>3. ASSUME NEW i \in Callers, InCall(i) \/ Crash(i) PROVE DiskTypes' /\ CallTypes'
  BY <1>1, <1>3, CallDisk, CallPlaced
<1>4. DiskTypes' /\ CallTypes'
  BY <1>1, <1>2, <1>3, WorldTypes DEF Next
<1> QED
  BY <1>1, <1>4 DEF TypeOK, RowTypes, DiskTypes, CallTypes

(* Every reachable state of the workspace protocol is of its type: a call   *)
(* that works on a reservation works on one of the ticket it was called     *)
(* for, whatever the others did to it meanwhile.                            *)
THEOREM TypeCorrect == Spec => []TypeOK
<1>1. Init => TypeOK
  BY BoundsAssumption DEF Init, TypeOK, TicketStates, RowStates, OpenStates, TreeStates,
     RowPCs
<1> QED
  BY <1>1, TypeStep, PTL DEF Spec

-----------------------------------------------------------------------------
(* Properties. *)

(* No interleaving of creators, recoverers, removals and crashes takes more *)
(* tickets into execution than the configured limit.  It is inductive by    *)
(* itself: a reservation is the only step that adds a ticket to Load, and   *)
(* what its transaction counts is never less than Load.                     *)
LEMMA LoadIsCounted ==
  ASSUME TypeOK
  PROVE  /\ IsFiniteSet(Load)
         /\ Cardinality(Load) <= Cardinality(Active) + Cardinality(Claimed)
         /\ Cardinality(Active) \in Nat /\ Cardinality(Claimed) \in Nat
         /\ Cardinality(Load) \in Nat
<1> DEFINE Owners == {owner[r] : r \in Claimed}
<1>1. IsFiniteSet(Active) /\ IsFiniteSet(Claimed) /\ IsFiniteSet(Load)
  BY FS_Subset, TicketsAssumption, RowsAssumption DEF Active, Claimed, Load
<1>2. IsFiniteSet(Owners) /\ Cardinality(Owners) <= Cardinality(Claimed)
  <2> DEFINE f == [r \in Claimed |-> owner[r]]
  <2>1. f \in Surjection(Claimed, Owners)
    BY DEF Surjection
  <2> QED
    BY <1>1, <2>1, FS_Surjection
<1>3. Load = Active \cup Owners
  <2>1. \A t \in Load : t \in Active \cup Owners
    BY DEF Load, Active, Claimed, OpenRows
  <2>2. \A t \in Active \cup Owners : t \in Load
    BY DEF Load, Active, Claimed, OpenRows, TypeOK, Open, OpenStates
  <2> QED
    BY <2>1, <2>2
<1>4. Cardinality(Load) <= Cardinality(Active) + Cardinality(Owners)
  <2>1. /\ Cardinality(Load) =
              Cardinality(Active) + Cardinality(Owners) - Cardinality(Active \cap Owners)
        /\ Cardinality(Active \cap Owners) \in Nat
    BY <1>1, <1>2, <1>3, FS_Union, FS_Intersection, FS_CardinalityType
  <2> QED
    BY <1>1, <1>2, <2>1, FS_CardinalityType
<1> QED
  BY <1>1, <1>2, <1>4, FS_CardinalityType

LEMMA LoadStep ==
  ASSUME TypeOK, Writes, WithinCapacity PROVE WithinCapacity'
<1>1. /\ IsFiniteSet(Load) /\ Cardinality(Load) \in Nat
      /\ Cardinality(Load) <= Cardinality(Active) + Cardinality(Claimed)
      /\ Cardinality(Active) \in Nat /\ Cardinality(Claimed) \in Nat
  BY LoadIsCounted
<1>2. ASSUME Load' \subseteq Load PROVE WithinCapacity'
  <2>1. Cardinality(Load') <= Cardinality(Load) /\ Cardinality(Load') \in Nat
    BY <1>1, <1>2, FS_Subset, FS_CardinalityType
  <2> QED
    BY <1>1, <2>1, BoundsAssumption DEF WithinCapacity
<1>3. CASE UNCHANGED <<ticket, rows>>
  BY <1>2, <1>3 DEF Load, OpenRows, Open, rows
<1>4. ASSUME NEW r \in Rows, UNCHANGED ticket, Marks(r) PROVE Load' \subseteq Load
  BY <1>4 DEF TypeOK, Load, OpenRows, Open, OpenStates, Marks, Mark
<1>5. ASSUME NEW r \in Rows, owner[r] \in Tickets, FinalizeReady(r)
      PROVE  Load' \subseteq Load
  BY <1>5 DEF TypeOK, Load, OpenRows, Open, OpenStates, FinalizeReady, CanFinalize
<1>6. ASSUME UNCHANGED ticket, NEW i \in Callers, NEW r \in Rows, Reserves(i, r)
      PROVE  WithinCapacity'
  <2>1. PICK t \in Tickets : t = goal[i]
    BY <1>6 DEF Reserves
  <2>2. Load' \subseteq Load \cup {t}
    BY <1>6, <2>1 DEF TypeOK, Load, OpenRows, Open, OpenStates, Reserves
  <2>3. Cardinality(Load) + 1 <= MaxTickets
    BY <1>1, <1>6, BoundsAssumption DEF Reserves, HasCapacity
  <2>4. /\ IsFiniteSet(Load \cup {t})
        /\ Cardinality(Load \cup {t}) =
              IF t \in Load THEN Cardinality(Load) ELSE Cardinality(Load) + 1
    BY <1>1, FS_AddElement
  <2>5. Cardinality(Load') <= Cardinality(Load \cup {t}) /\ Cardinality(Load') \in Nat
    BY <2>2, <2>4, FS_Subset, FS_CardinalityType
  <2>6. Cardinality(Load \cup {t}) <= MaxTickets
    BY <1>1, <2>3, <2>4, BoundsAssumption
  <2> QED
    BY <1>1, <2>4, <2>5, <2>6, FS_CardinalityType, BoundsAssumption DEF WithinCapacity
<1>7. ASSUME UNCHANGED rows, NEW t \in Tickets, Moves(t) PROVE Load' \subseteq Load
  BY <1>7 DEF TypeOK, Load, OpenRows, Open, Moves, rows
<1> QED
  BY <1>2, <1>3, <1>4, <1>5, <1>6, <1>7 DEF Writes

THEOREM CapacityRespected == Spec => []WithinCapacity
<1>1. Init => WithinCapacity
  <2> SUFFICES ASSUME Init PROVE WithinCapacity
    OBVIOUS
  <2>1. Load = {}
    BY DEF Init, Load, OpenRows, Open, OpenStates
  <2> QED
    BY <2>1, FS_EmptySet, BoundsAssumption DEF WithinCapacity
<1>2. TypeOK /\ [Next]_vars /\ WithinCapacity => WithinCapacity'
  BY StepWrites, LoadStep
<1> QED
  BY <1>1, <1>2, TypeCorrect, PTL DEF Spec

(* The workspace is READY and the ticket past admission together or not at  *)
(* all, whichever of a creator and a recoverer commits it.                  *)
THEOREM ReadyWithPlanning == Spec => []AdmittedTogether
<1>1. Init => AdmittedTogether
  BY DEF Init, AdmittedTogether
<1>2. TypeOK /\ [Next]_vars /\ AdmittedTogether => AdmittedTogether'
  <2> SUFFICES ASSUME TypeOK, Writes, AdmittedTogether PROVE AdmittedTogether'
    BY StepWrites
  <2>1. CASE UNCHANGED <<ticket, rows>>
    BY <2>1 DEF AdmittedTogether, rows
  <2>2. ASSUME NEW r \in Rows, UNCHANGED ticket, Marks(r) PROVE AdmittedTogether'
    BY <2>2 DEF TypeOK, AdmittedTogether, Marks, Mark
  <2>3. ASSUME NEW r \in Rows, owner[r] \in Tickets, FinalizeReady(r)
        PROVE  AdmittedTogether'
    BY <2>3 DEF TypeOK, AdmittedTogether, FinalizeReady, CanFinalize
  <2>4. ASSUME UNCHANGED ticket, NEW i \in Callers, NEW r \in Rows, Reserves(i, r)
        PROVE  AdmittedTogether'
    BY <2>4 DEF TypeOK, AdmittedTogether, Reserves
  <2>5. ASSUME UNCHANGED rows, NEW t \in Tickets, Moves(t) PROVE AdmittedTogether'
    BY <2>5 DEF TypeOK, AdmittedTogether, Moves, rows
  <2> QED
    BY <2>1, <2>2, <2>3, <2>4, <2>5 DEF Writes
<1> QED
  BY <1>1, <1>2, TypeCorrect, PTL DEF Spec

(* A READY reservation is ended by a removal only, and an ended one stays   *)
(* ended.                                                                   *)
THEOREM ReadyIsNeverTakenBack == Spec => ReadyIsKept
<1> DEFINE Kept ==
      \A r \in Rows :
         /\ status[r] = "READY" => status'[r] \in {"READY", "REMOVED"}
         /\ status[r] \in {"FAILED", "REMOVED", "NEEDS_HUMAN"} => status'[r] = status[r]
<1>1. TypeOK /\ [Next]_vars => Kept
  <2> SUFFICES ASSUME TypeOK, Writes PROVE Kept
    BY StepWrites
  <2>1. CASE UNCHANGED <<ticket, rows>>
    BY <2>1 DEF rows
  <2>2. ASSUME NEW r \in Rows, Marks(r) PROVE Kept
    BY <2>2 DEF TypeOK, Marks, Mark
  <2>3. ASSUME NEW r \in Rows, FinalizeReady(r) PROVE Kept
    BY <2>3 DEF TypeOK, FinalizeReady, CanFinalize
  <2>4. ASSUME NEW i \in Callers, NEW r \in Rows, Reserves(i, r) PROVE Kept
    BY <2>4 DEF TypeOK, Reserves
  <2>5. CASE UNCHANGED rows
    BY <2>5 DEF rows
  <2> QED
    BY <2>1, <2>2, <2>3, <2>4, <2>5 DEF Writes
<1>2. Kept <=> \A r \in Rows :
          /\ status[r] = "READY" => status'[r] \in {"READY", "REMOVED"}
          /\ status[r] \in {"FAILED", "REMOVED", "NEEDS_HUMAN"} => status'[r] = status[r]
  OBVIOUS
<1> QED
  BY <1>1, TypeCorrect, PTL DEF Spec, ReadyIsKept
=============================================================================
