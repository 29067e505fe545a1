------------------------ MODULE AgentRunLeaseProofs -------------------------
(* AgentRun implements SlotLease: the invariant LeaseInv, and the step      *)
(* simulation it supports, for every instance without replays.              *)
EXTENDS AgentRunLease, AgentRunProofs

-----------------------------------------------------------------------------
(* The invariant, row by row and invoker by invoker. *)

RowOK(r) ==
    /\ reservation[r] # "none" => status[r] # "ABSENT" /\ request[r].routed
    /\ process[r] # "none" => launched[r]
    /\ launched[r] => status[r] \notin {"ABSENT", "CREATED"}
    /\ process[r] = "alive" /\ request[r].routed => reservation[r] = "active"

LEMMA RowsOK == LeaseInv <=> /\ \A r \in Runs : RowOK(r)
                             /\ Exclusive
                             /\ \A i \in Invokers : Position(i)
BY DEF LeaseInv, Coherent, LiveProviderHoldsSlot, RowOK

(* Only the row of r changes. *)
OnlyRow(r) ==
    \A s \in Runs \ {r} :
        /\ status'[s] = status[s] /\ request'[s] = request[s]
        /\ launched'[s] = launched[s] /\ reservation'[s] = reservation[s]
        /\ process'[s] = process[s]

(* Only invoker i moves, and nobody else works on r. *)
OnlyMe(i, r) ==
    \A j \in Invokers \ {i} : pc'[j] = pc[j] /\ cur'[j] = cur[j] /\ cur[j] # r

(* A step of invoker i on its run r has to establish its own part only. *)
LEMMA Assemble ==
  ASSUME TypeOK, LeaseInv, NEW i \in Invokers, NEW r \in Runs,
         OnlyRow(r), OnlyMe(i, r), RowOK(r)', Position(i)',
         cur'[i] \in {r, NoRun}, pc'[i] = "idle" <=> cur'[i] = NoRun
  PROVE  LeaseInv'
<1>1. \A s \in Runs : RowOK(s)'
  BY RowsOK DEF OnlyRow, RowOK
<1>2. Exclusive'
  BY RunsAssumption DEF OnlyMe, LeaseInv, Exclusive
<1>3. ASSUME NEW j \in Invokers, j # i PROVE Position(j)'
  <2>1. Position(j) /\ pc'[j] = pc[j] /\ cur'[j] = cur[j] /\ cur[j] # r
    BY <1>3 DEF OnlyMe, LeaseInv
  <2>2. CASE pc[j] = "idle"
    BY <2>1, <2>2 DEF Position
  <2>3. CASE pc[j] # "idle"
    BY <2>1, <2>3 DEF Position, OnlyRow, TypeOK, Active
  <2> QED
    BY <2>2, <2>3
<1> QED
  BY <1>1, <1>2, <1>3 DEF LeaseInv, Coherent, LiveProviderHoldsSlot, RowOK, Position

(* releaseActiveModelReservation touches one row. *)
LEMMA ReleaseRow ==
  ASSUME TypeOK, NEW r \in Runs, ReleaseSlot(r)
  PROVE  /\ \A s \in Runs \ {r} : reservation'[s] = reservation[s]
         /\ reservation'[r] # "active"
         /\ reservation'[r] # "none" <=> reservation[r] # "none"
BY DEF TypeOK, ReleaseSlot, KeepSlots, slots

(* markRunNeedsHuman touches one row, and releases the slot of a run only   *)
(* when asked to, and only of a run that had not ended.                     *)
LEMMA MarkRow ==
  ASSUME TypeOK, NEW r \in Runs, NEW why, NEW b \in BOOLEAN,
         MarkNeedsHuman(r, why, b), UNCHANGED process
  PROVE  /\ OnlyRow(r)
         /\ request'[r] = request[r] /\ launched'[r] = launched[r]
         /\ status'[r] \in {status[r], "NEEDS_HUMAN"} /\ ~Active(r)'
         /\ status'[r] = "ABSENT" <=> status[r] = "ABSENT"
         /\ status'[r] = "CREATED" => status[r] = "CREATED"
         /\ reservation'[r] # "none" <=> reservation[r] # "none"
         /\ reservation'[r] # reservation[r] => b /\ Active(r)
<1>1. CASE ~Active(r)
  BY <1>1 DEF MarkNeedsHuman, OnlyRow, run, slots, Active
<1>2. CASE Active(r)
  <2>1. /\ status' = [status EXCEPT ![r] = "NEEDS_HUMAN"]
        /\ request' = request /\ launched' = launched
        /\ IF b THEN ReleaseSlot(r) ELSE KeepSlots
    BY <1>2 DEF MarkNeedsHuman
  <2>2. /\ \A s \in Runs \ {r} : reservation'[s] = reservation[s]
        /\ reservation'[r] # "none" <=> reservation[r] # "none"
        /\ reservation'[r] # reservation[r] => b
    BY <2>1, ReleaseRow DEF KeepSlots, slots
  <2> QED
    BY <1>2, <2>1, <2>2 DEF OnlyRow, Active, ActiveStates, TypeOK
<1> QED
  BY <1>1, <1>2

(* Ending a run keeps its row in order, if no live process loses its slot.  *)
LEMMA MarkKeepsRow ==
  ASSUME TypeOK, LeaseInv, NEW r \in Runs, NEW why, NEW b \in BOOLEAN,
         MarkNeedsHuman(r, why, b), UNCHANGED process,
         b /\ Active(r) => process[r] # "alive"
  PROVE  RowOK(r)'
BY MarkRow, RowsOK DEF RowOK

-----------------------------------------------------------------------------
(* Steps of an invoker. *)

(* A step that changes no table: the invoker moves on, or leaves. *)
LEMMA MoveKeeps ==
  ASSUME TypeOK, LeaseInv, NEW i \in Invokers, pc[i] # "idle",
         UNCHANGED <<run, slots, process>>,
         \/ Leave(i)
         \/ (\E to \in PCs \ {"idle"} : Goto(i, to)) /\ Position(i)'
  PROVE  LeaseInv'
<1>1. PICK r \in Runs : r = cur[i] /\ r # NoRun
  BY RunsAssumption DEF TypeOK
<1>2. OnlyRow(r) /\ RowOK(r)'
  BY <1>1, RowsOK DEF OnlyRow, RowOK, run, slots
<1>3. OnlyMe(i, r) /\ cur'[i] \in {r, NoRun} /\ (pc'[i] = "idle" <=> cur'[i] = NoRun)
  BY <1>1 DEF OnlyMe, LeaseInv, Exclusive, Leave, Goto, TypeOK
<1>4. Position(i)'
  BY DEF Leave, Position, TypeOK
<1> QED
  BY <1>1, <1>2, <1>3, <1>4, Assemble

(* A step that ends the invoker's run and moves to a place that promises    *)
(* nothing.                                                                 *)
LEMMA MarkKeeps ==
  ASSUME TypeOK, LeaseInv, NEW i \in Invokers, pc[i] # "idle", UNCHANGED process,
         NEW why, NEW b \in BOOLEAN, MarkNeedsHuman(cur[i], why, b),
         b /\ Active(cur[i]) => process[cur[i]] # "alive",
         \/ Leave(i)
         \/ Goto(i, "done")
         \/ Goto(i, "retry") /\ request[cur[i]].routed
  PROVE  LeaseInv'
<1>1. PICK r \in Runs : r = cur[i] /\ r # NoRun
  BY RunsAssumption DEF TypeOK
<1>2. OnlyRow(r) /\ RowOK(r)'
  BY <1>1, MarkRow, MarkKeepsRow
<1>3. OnlyMe(i, r) /\ cur'[i] \in {r, NoRun} /\ (pc'[i] = "idle" <=> cur'[i] = NoRun)
  BY <1>1 DEF OnlyMe, LeaseInv, Exclusive, Leave, Goto, TypeOK
<1>4. Position(i)'
  BY <1>1, MarkRow DEF Leave, Goto, Position, TypeOK
<1> QED
  BY <1>1, <1>2, <1>3, <1>4, Assemble

(* Preparing a run puts it into one pair of hands. *)
LEMMA PrepareKeeps ==
  ASSUME TypeOK, LeaseInv, NEW i \in Invokers, NEW r \in Runs, NEW req \in Requests,
         PersistCreatedRun(r, req),
         NEW to \in PCs, to = IF req.routed THEN "prepared" ELSE "loaded",
         Enter(i, r, to)
  PROVE  LeaseInv'
<1>1. /\ status[r] = "ABSENT" /\ status' = [status EXCEPT ![r] = "CREATED"]
      /\ request' = [request EXCEPT ![r] = req]
      /\ UNCHANGED <<launched, reservation, process>>
  BY DEF PersistCreatedRun, slots
<1>2. reservation[r] = "none" /\ process[r] = "none" /\ ~launched[r]
  BY <1>1, RowsOK DEF RowOK, TypeOK
<1>3. OnlyRow(r) /\ RowOK(r)'
  BY <1>1, <1>2 DEF OnlyRow, RowOK, TypeOK
<1>4. OnlyMe(i, r)
  BY <1>1, RunsAssumption DEF OnlyMe, Enter, TypeOK, LeaseInv, Exclusive
<1>5. cur'[i] = r /\ pc'[i] = to /\ r # NoRun
  BY RunsAssumption DEF Enter, TypeOK
<1>6. Position(i)'
  BY <1>1, <1>2, <1>5 DEF Position, TypeOK
<1> QED
  BY <1>3, <1>4, <1>5, <1>6, Assemble

(* A fallback asks for the same thing of another provider. *)
LEMMA Rerouted ==
  ASSUME NEW q \in Requests, NEW p \in Providers
  PROVE  /\ [q EXCEPT !.provider = p] \in Requests
         /\ [q EXCEPT !.provider = p].routed = q.routed
<1>1. [q EXCEPT !.provider = p] \in Requests
  BY DEF Requests
<1>2. [q EXCEPT !.provider = p].routed = q.routed
  BY DEF Requests
<1> QED
  BY <1>1, <1>2

(* Every step of a call keeps the invariant. *)
LEMMA InCallKeeps ==
  ASSUME TypeOK, LeaseInv, NEW i \in Invokers, InCall(i)
  PROVE  LeaseInv'
<1>0. PICK r \in Runs : /\ r = cur[i] /\ r # NoRun /\ pc[i] # "idle"
                        /\ request[r] \in Requests /\ RowOK(r) /\ Position(i)
  <2>1. pc[i] # "idle"
    BY DEF InCall, PrepareFallback, GiveUp, Reserve, ReserveRefused,
       Abandon, AbandonRefused, Fallback, Return, Load, WorkspaceRefused,
       BindingRefused, RefuseLaunch, Start, StartFails, Spawn, SpawnFails,
       Finish, FinishFails
  <2> QED
    BY <2>1, RowsOK, RunsAssumption DEF TypeOK
<1>1. ASSUME NEW s \in Runs, PrepareFallback(i, s) PROVE LeaseInv'
  <2>1. PICK p \in Providers :
            PersistCreatedRun(s, [request[r] EXCEPT !.provider = p])
    BY <1>0, <1>1 DEF PrepareFallback
  <2>2. request[r].routed /\ Enter(i, s, "prepared") /\ "prepared" \in PCs
    BY <1>0, <1>1 DEF PrepareFallback, Position, PCs
  <2>3. PICK req : req = [request[r] EXCEPT !.provider = p]
    OBVIOUS
  <2>4. req \in Requests /\ req.routed
    BY <1>0, <2>1, <2>2, <2>3, Rerouted
  <2>5. PersistCreatedRun(s, req)
    BY <2>1, <2>3
  <2> QED
    BY <2>2, <2>4, <2>5, PrepareKeeps
<1>2. CASE \/ GiveUp(i) \/ ReserveRefused(i) \/ AbandonRefused(i) \/ Fallback(i)
           \/ Return(i) \/ Load(i) \/ BindingRefused(i) \/ SpawnFails(i)
  <2>1. UNCHANGED <<run, slots, process>>
    BY <1>2 DEF GiveUp, ReserveRefused, AbandonRefused, Fallback, Return, Load,
                BindingRefused, SpawnFails
  <2>2. ASSUME NEW to \in PCs \ {"idle"}, Goto(i, to), \/ ReserveRefused(i) \/ Load(i)
                                                   \/ Fallback(i) \/ SpawnFails(i)
        PROVE  Position(i)'
    BY <1>0, <2>1, <2>2 DEF Goto, Position, TypeOK, Active, run, slots,
       ReserveRefused, Load, Fallback, SpawnFails
  <2>3. CASE ReserveRefused(i) \/ Load(i) \/ Fallback(i) \/ SpawnFails(i)
    <3>1. \E to \in PCs \ {"idle"} : Goto(i, to)
      BY <2>3 DEF ReserveRefused, Load, Fallback, SpawnFails, PCs
    <3> QED
      BY <1>0, <2>1, <2>2, <2>3, <3>1, MoveKeeps
  <2>4. CASE GiveUp(i) \/ AbandonRefused(i) \/ Return(i) \/ BindingRefused(i)
    <3>1. Leave(i)
      BY <2>4 DEF GiveUp, AbandonRefused, Return, BindingRefused
    <3> QED
      BY <1>0, <2>1, <3>1, MoveKeeps
  <2> QED
    BY <1>2, <2>3, <2>4
<1>3. CASE Reserve(i)
  <2>1. OnlyRow(r) /\ RowOK(r)'
    BY <1>0, <1>3 DEF Reserve, OnlyRow, RowOK, Position, TypeOK, run
  <2>2. OnlyMe(i, r) /\ cur'[i] = r /\ pc'[i] = "reserved"
    BY <1>0, <1>3 DEF Reserve, OnlyMe, LeaseInv, Exclusive, Goto, TypeOK
  <2>3. Position(i)'
    BY <1>0, <1>3, <2>2 DEF Reserve, Position, TypeOK, run
  <2> QED
    BY <1>0, <2>1, <2>2, <2>3, Assemble
<1>4. CASE \/ Abandon(i) \/ WorkspaceRefused(i) \/ RefuseLaunch(i)
           \/ StartFails(i) \/ FinishFails(i)
  <2>1. CASE Abandon(i)
    BY <1>0, <2>1, MarkKeeps DEF Abandon, Position
  <2>2. CASE WorkspaceRefused(i)
    BY <1>0, <2>2, MarkKeeps DEF WorkspaceRefused, Position, RowOK
  <2>3. CASE RefuseLaunch(i)
    BY <1>0, <2>3, MarkKeeps DEF RefuseLaunch, Position, RowOK
  <2>4. CASE StartFails(i)
    BY <1>0, <2>4, MarkKeeps DEF StartFails, Position, RowOK
  <2>5. CASE FinishFails(i)
    BY <1>0, <2>5, MarkKeeps DEF FinishFails, Answers
  <2> QED
    BY <1>4, <2>1, <2>2, <2>3, <2>4, <2>5
<1>5. CASE Start(i)
  <2>1. OnlyRow(r) /\ RowOK(r)'
    BY <1>0, <1>5 DEF Start, OnlyRow, RowOK, Position, TypeOK, slots
  <2>2. OnlyMe(i, r) /\ cur'[i] = r /\ pc'[i] = "started"
    BY <1>0, <1>5 DEF Start, OnlyMe, LeaseInv, Exclusive, Goto, TypeOK
  <2>3. Position(i)'
    BY <1>0, <1>5, <2>2 DEF Start, Position, RowOK, TypeOK, slots, Active, ActiveStates
  <2> QED
    BY <1>0, <2>1, <2>2, <2>3, Assemble
<1>6. CASE Spawn(i)
  <2>1. OnlyRow(r) /\ RowOK(r)'
    BY <1>0, <1>6 DEF Spawn, OnlyRow, RowOK, Position, TypeOK, run, slots
  <2>2. OnlyMe(i, r) /\ cur'[i] = r /\ pc'[i] = "spawned"
    BY <1>0, <1>6 DEF Spawn, OnlyMe, LeaseInv, Exclusive, Goto, TypeOK
  <2>3. Position(i)'
    BY <2>2 DEF Position
  <2> QED
    BY <1>0, <2>1, <2>2, <2>3, Assemble
<1>7. CASE Finish(i)
  <2>1. PICK a \in Answers(r) :
            /\ status' = [status EXCEPT ![r] = a.outcome]
            /\ IF a.stopped THEN ReleaseSlot(r) ELSE KeepSlots
    BY <1>0, <1>7 DEF Finish
  <2>2. a.outcome \in TerminalStates /\ (a.stopped => process[r] # "alive")
    BY <2>1 DEF Answers
  <2>3. UNCHANGED <<request, launched, process>>
    BY <1>7 DEF Finish
  <2>4. /\ \A s \in Runs \ {r} : reservation'[s] = reservation[s]
        /\ reservation'[r] # "none" <=> reservation[r] # "none"
        /\ reservation'[r] # reservation[r] => a.stopped
    BY <1>0, <2>1, ReleaseRow DEF KeepSlots, slots
  <2>5. OnlyRow(r) /\ RowOK(r)'
    BY <1>0, <2>1, <2>2, <2>3, <2>4 DEF OnlyRow, RowOK, TypeOK, TerminalStates
  <2>6. OnlyMe(i, r) /\ cur'[i] = r /\ pc'[i] = "done"
    BY <1>0, <1>7 DEF Finish, OnlyMe, LeaseInv, Exclusive, Goto, TypeOK
  <2>7. Position(i)'
    BY <2>6 DEF Position
  <2> QED
    BY <1>0, <2>5, <2>6, <2>7, Assemble
<1> QED
  BY <1>1, <1>2, <1>3, <1>4, <1>5, <1>6, <1>7 DEF InCall

-----------------------------------------------------------------------------
(* Steps of the world, and the theorem. *)

(* Without a replay, a call can only begin on a run it creates. *)
LEMMA BeginKeeps ==
  ASSUME ~Replays, TypeOK, LeaseInv, NEW i \in Invokers, BeginCall(i)
  PROVE  LeaseInv'
<1>1. PICK r \in Runs : PrepareFirst(i, r) \/ PrepareUnrouted(i, r)
  BY DEF BeginCall, Replay
<1>2. CASE PrepareFirst(i, r)
  <2> DEFINE asked(t, k, p) ==
        [ticket |-> t, task |-> k, provider |-> p, routed |-> TRUE]
  <2>0. PICK t \in Tickets, k \in Tasks, p \in Providers : PersistCreatedRun(r, asked(t, k, p))
    BY <1>2 DEF PrepareFirst
  <2>1. asked(t, k, p) \in Requests /\ asked(t, k, p).routed = TRUE
    BY DEF Requests
  <2>2. Enter(i, r, "prepared") /\ "prepared" \in PCs
    BY <1>2 DEF PrepareFirst, PCs
  <2> QED
    BY <2>0, <2>1, <2>2, PrepareKeeps
<1>3. CASE PrepareUnrouted(i, r)
  <2> DEFINE asked(t, k, p) ==
        [ticket |-> t, task |-> k, provider |-> p, routed |-> FALSE]
  <2>0. PICK t \in Tickets, k \in Tasks, p \in Providers : PersistCreatedRun(r, asked(t, k, p))
    BY <1>3 DEF PrepareUnrouted
  <2>1. asked(t, k, p) \in Requests /\ asked(t, k, p).routed = FALSE
    BY DEF Requests
  <2>2. Enter(i, r, "loaded") /\ "loaded" \in PCs
    BY <1>3 DEF PrepareUnrouted, PCs
  <2> QED
    BY <2>0, <2>1, <2>2, PrepareKeeps
<1> QED
  BY <1>1, <1>2, <1>3

(* Exits, recoveries and reconciliations of one run, by no invoker. *)
LEMMA WorldKeeps ==
  ASSUME TypeOK, LeaseInv, NEW r \in Runs,
         ProcessExits(r) \/ Recover(r) \/ Reconcile(r)
  PROVE  LeaseInv'
<1>1. OnlyRow(r) /\ RowOK(r)' /\ UNCHANGED <<pc, cur>>
  <2>1. CASE ProcessExits(r)
    BY <2>1, RowsOK DEF ProcessExits, OnlyRow, RowOK, TypeOK, run, slots, locals
  <2>2. CASE Recover(r)
    BY <2>2, MarkRow, MarkKeepsRow DEF Recover, locals
  <2>3. CASE Reconcile(r)
    <3>1. /\ UNCHANGED <<status, request, launched, process, pc, cur>>
          /\ process[r] # "alive" /\ ReleaseSlot(r)
      BY <2>3 DEF Reconcile, run, locals
    <3> QED
      BY <3>1, ReleaseRow, RowsOK DEF OnlyRow, RowOK
  <2> QED
    BY <2>1, <2>2, <2>3
<1>2. ASSUME NEW i \in Invokers PROVE Position(i)'
  <2>1. Position(i)
    BY DEF LeaseInv
  <2>2. CASE pc[i] = "idle"
    BY <1>1, <2>2 DEF Position
  <2>3. CASE pc[i] # "idle" /\ cur[i] # r
    BY <1>1, <2>1, <2>3 DEF OnlyRow, Position, TypeOK, Active
  <2>4. CASE pc[i] # "idle" /\ cur[i] = r
    <3>1. CASE ProcessExits(r)
      BY <1>1, <2>1, <2>4, <3>1 DEF ProcessExits, Position, TypeOK, Active, run, slots
    <3>2. CASE Recover(r)
      BY <1>1, <2>1, <2>4, <3>2, MarkRow DEF Recover, Position, TypeOK, Active
    <3>3. CASE Reconcile(r)
      BY <2>4, <3>3 DEF Reconcile, Working
    <3> QED
      BY <3>1, <3>2, <3>3
  <2> QED
    BY <2>2, <2>3, <2>4
<1>3. Exclusive'
  BY <1>1 DEF LeaseInv, Exclusive
<1> QED
  BY <1>1, <1>2, <1>3, RowsOK DEF LeaseInv, Coherent, LiveProviderHoldsSlot, RowOK, OnlyRow

(* Steps that leave the tables and every invoker alone. *)
LEMMA IdleKeeps ==
  ASSUME LeaseInv, UNCHANGED <<run, slots, process, locals>>
  PROVE  LeaseInv'
<1>1. UNCHANGED <<status, request, launched, reservation, process, pc, cur>>
  BY DEF run, slots, locals
<1> QED
  BY <1>1 DEF LeaseInv, Coherent, Exclusive, Position, LiveProviderHoldsSlot, Active

(* Every step keeps the invariant, whoever takes it. *)
LEMMA LeaseStep ==
  ASSUME ~Replays, TypeOK, LeaseInv, [Next]_vars
  PROVE  LeaseInv'
<1>1. CASE UNCHANGED vars
  BY <1>1, IdleKeeps DEF vars
<1>2. ASSUME NEW i \in Invokers, Crash(i) PROVE LeaseInv'
  BY <1>2, MoveKeeps DEF Crash
<1>3. ASSUME NEW t \in Tickets, Advance(t) \/ Halt(t) PROVE LeaseInv'
  BY <1>3, IdleKeeps DEF Advance, Halt
<1> QED
  BY <1>1, <1>2, <1>3, BeginKeeps, InCallKeeps, WorldKeeps DEF Next

(* The invariant holds in every behaviour without replays. *)
LEMMA LeaseInvariant == ASSUME ~Replays PROVE Spec => []LeaseInv
<1>1. Init => LeaseInv
  BY DEF Init, LeaseInv, Coherent, Exclusive, Position, LiveProviderHoldsSlot
<1>2. TypeOK /\ LeaseInv /\ [Next]_vars => LeaseInv'
  BY LeaseStep
<1> QED
  BY <1>1, <1>2, TypeCorrect, PTL DEF Spec

(* As long as no caller replays a run, a live provider process of a routed  *)
(* run always holds its capacity slot, for every number of concurrent       *)
(* calls, fallbacks, crashes, recoveries and reconciliations.               *)
THEOREM LiveProvidersHoldSlots == ASSUME ~Replays PROVE Spec => []LiveProviderHoldsSlot
<1>1. LeaseInv => LiveProviderHoldsSlot
  BY DEF LeaseInv
<1> QED
  BY <1>1, LeaseInvariant, PTL

-----------------------------------------------------------------------------
(* The step simulation. *)

(* A provider process starts or ends in a step that touches no table.       *)
LEMMA ProcessSteps ==
  ASSUME TypeOK, [Next]_vars
  PROVE  \/ UNCHANGED process
         \/ /\ UNCHANGED <<run, slots>>
            /\ \E r \in Runs, to \in {"alive", "gone"} : process' = [process EXCEPT ![r] = to]
<1>1. ASSUME NEW i \in Invokers, BeginCall(i) PROVE UNCHANGED process
  BY <1>1 DEF BeginCall, PrepareFirst, PrepareUnrouted, PersistCreatedRun, Replay
<1>2. ASSUME NEW i \in Invokers, InCall(i), ~Spawn(i) PROVE UNCHANGED process
  BY <1>2 DEF InCall, PrepareFallback, PersistCreatedRun, GiveUp, Reserve,
     ReserveRefused, Abandon, AbandonRefused, Fallback, Return, Load,
     WorkspaceRefused, BindingRefused, RefuseLaunch, Start, StartFails,
     SpawnFails, Finish, FinishFails
<1>3. ASSUME NEW i \in Invokers, Spawn(i)
      PROVE  /\ UNCHANGED <<run, slots>>
             /\ \E r \in Runs : process' = [process EXCEPT ![r] = "alive"]
  BY <1>3 DEF Spawn, TypeOK
<1>4. ASSUME NEW i \in Invokers, Crash(i) PROVE UNCHANGED process
  BY <1>4 DEF Crash
<1>5. ASSUME NEW r \in Runs, Recover(r) \/ Reconcile(r) PROVE UNCHANGED process
  BY <1>5 DEF Recover, Reconcile
<1>6. ASSUME NEW r \in Runs, ProcessExits(r)
      PROVE  UNCHANGED <<run, slots>> /\ process' = [process EXCEPT ![r] = "gone"]
  BY <1>6 DEF ProcessExits
<1>7. ASSUME NEW t \in Tickets, Advance(t) \/ Halt(t) PROVE UNCHANGED process
  BY <1>7 DEF Advance, Halt
<1>8. CASE UNCHANGED vars
  BY <1>8 DEF vars
<1> QED
  BY <1>1, <1>2, <1>3, <1>4, <1>5, <1>6, <1>7, <1>8 DEF Next

(* What AgentRun holds for a provider is what the ledger counts. *)
LEMMA HoldersAreSlots ==
  ASSUME NEW p \in Providers PROVE Lease!Holders(p) = SlotsOf(p)
BY FreeAssumption DEF Lease!Holders, holds, SlotsOf

LEMMA Simulation ==
  ASSUME TypeOK, CapacityLedger, LeaseInv, LeaseInv', [Next]_vars
  PROVE  [Lease!Next]_<<holds, live>>
<1>0. RequestsFixed /\ Effect
  BY RequestsStayFixed, StepEffect
<1>f. ASSUME NEW r \in Runs, reservation[r] # "none" \/ process[r] # "none"
      PROVE  request'[r] = request[r]
  BY <1>0, <1>f DEF RequestsFixed, LeaseInv, Coherent
<1>1. CASE UNCHANGED process
  <2>0. live' = live
    BY <1>f, <1>1 DEF live, TypeOK
  <2>1. CASE UNCHANGED slots
    <3>1. holds' = holds
      BY <1>f, <2>1 DEF holds, slots
    <3> QED
      BY <2>0, <3>1
  <2>2. ASSUME NEW r \in Runs, Taken(r) PROVE Lease!Next
    <3>1. PICK p \in Providers : p = request[r].provider
      BY <2>2 DEF Taken, TypeOK, Requests
    <3>2. holds[r] = Free /\ holds' = [holds EXCEPT ![r] = p]
      BY <2>2, <3>1 DEF Taken, holds, run, TypeOK
    <3>3. Cardinality(Lease!Holders(p)) < Limit[p]
      BY <2>2, <3>1, HoldersAreSlots DEF Taken, CapacityLedger
    <3>4. Lease!Cardinality(Lease!Holders(p)) = Cardinality(Lease!Holders(p))
      BY DEF Lease!Cardinality, Cardinality
    <3>5. Lease!Take(r, p)
      BY <2>0, <3>2, <3>3, <3>4 DEF Lease!Take
    <3> QED
      BY <3>1, <3>5 DEF Lease!Next
  <2>3. ASSUME NEW r \in Runs, Freed(r) PROVE Lease!Next
    <3>1. holds' = [holds EXCEPT ![r] = Free]
      BY <2>3 DEF Freed, ReleaseSlot, holds, TypeOK
    <3>2. r \notin live
      <4>1. reservation'[r] # "active" /\ request'[r] = request[r] /\ process'[r] = process[r]
        BY <1>1, <2>3 DEF Freed, ReleaseSlot, TypeOK
      <4> QED
        BY <4>1 DEF LeaseInv, LiveProviderHoldsSlot, live
    <3> QED
      BY <2>0, <3>1, <3>2 DEF Lease!Next, Lease!GiveBack
  <2> QED
    BY <1>0, <2>1, <2>2, <2>3 DEF Effect
<1>2. ASSUME UNCHANGED <<run, slots>>, NEW r \in Runs, NEW to \in {"alive", "gone"},
             process' = [process EXCEPT ![r] = to]
      PROVE  [Lease!Next]_<<holds, live>>
  <2>1. holds' = holds /\ request' = request /\ reservation' = reservation
    BY <1>2 DEF holds, run, slots
  <2>2. CASE to = "alive" /\ request[r].routed
    <3>1. live' = live \cup {r}
      BY <1>2, <2>1, <2>2 DEF live, TypeOK
    <3>2. reservation[r] = "active" /\ status[r] # "ABSENT"
      BY <1>2, <2>1, <2>2 DEF LeaseInv, LiveProviderHoldsSlot, Coherent, TypeOK
    <3>3. holds[r] # Free
      BY <3>2, FreeAssumption DEF holds, TypeOK, Requests
    <3> QED
      BY <2>1, <3>1, <3>3 DEF Lease!Next, Lease!Launch
  <2>3. CASE to = "alive" /\ ~request[r].routed
    <3>1. live' = live
      BY <1>2, <2>1, <2>3 DEF live, TypeOK
    <3> QED
      BY <2>1, <3>1
  <2>4. CASE to = "gone"
    <3>1. live' = live \ {r}
      BY <1>2, <2>1, <2>4 DEF live, TypeOK
    <3> QED
      BY <2>1, <3>1 DEF Lease!Next, Lease!Exit
  <2> QED
    BY <2>2, <2>3, <2>4
<1> QED
  BY <1>1, <1>2, ProcessSteps

(* Provider capacity is a lease, in every instance without replays: the     *)
(* ledger, the reservations and the detached processes of AgentRun          *)
(* implement SlotLease under the mapping of AgentRunLease.                  *)
THEOREM LeaseImplemented == ASSUME ~Replays PROVE Spec => ImplementsLease
<1>1. Init => Lease!Init
  BY DEF Init, Lease!Init, holds, live
<1>2. TypeOK /\ CapacityLedger /\ LeaseInv /\ LeaseInv' /\ [Next]_vars
         => [Lease!Next]_<<holds, live>>
  BY Simulation
<1> QED
  BY <1>1, <1>2, TypeCorrect, LedgerExact, LeaseInvariant, PTL
     DEF Spec, Lease!Spec, ImplementsLease
=============================================================================
