--------------------------- MODULE AgentRunProofs ---------------------------
(* Theorems about AgentRun, for any number of tickets, runs, providers and *)
(* invokers, and any limits.                                                *)
EXTENDS AgentRun, FiniteSetTheorems, TLAPS

-----------------------------------------------------------------------------
(* Type correctness. *)

RunTypes ==
    /\ status \in [Runs -> {"ABSENT"} \cup ActiveStates \cup TerminalStates]
    /\ request \in [Runs -> Requests \cup {NoRequest}]
    /\ \A r \in Runs : status[r] # "ABSENT" => request[r] \in Requests
    /\ category \in [Runs -> Categories]
    /\ launched \in [Runs -> BOOLEAN]
    /\ reservation \in [Runs -> {"none", "active", "released"}]
    /\ activeRuns \in [Providers -> Int]

LocalTypes ==
    /\ pc \in [Invokers -> PCs]
    /\ cur \in [Invokers -> Runs \cup {NoRun}]
    /\ \A i \in Invokers : pc[i] # "idle" => cur[i] \in Runs /\ status[cur[i]] # "ABSENT"
    /\ attempts \in [Invokers -> SUBSET Runs]

(* A run that exists keeps existing. *)
Existence == \A r \in Runs : status[r] # "ABSENT" => status'[r] # "ABSENT"

(* releaseActiveModelReservation writes slots of the right type. *)
LEMMA ReleaseTypes ==
  ASSUME RunTypes, NEW r \in Runs, request[r] \in Requests, ReleaseSlot(r)
  PROVE  /\ reservation' \in [Runs -> {"none", "active", "released"}]
         /\ activeRuns' \in [Providers -> Int]
BY DEF RunTypes, ReleaseSlot, KeepSlots, slots, Requests

(* markRunNeedsHuman writes rows of the right type and creates none. *)
LEMMA MarkTypes ==
  ASSUME RunTypes, NEW r \in Runs, status[r] # "ABSENT",
         NEW why \in Categories, NEW b \in BOOLEAN, MarkNeedsHuman(r, why, b)
  PROVE  RunTypes' /\ Existence
<1>1. CASE ~Active(r)
  BY <1>1 DEF MarkNeedsHuman, RunTypes, Existence, run, slots
<1>2. CASE Active(r)
  <2>1. /\ status' = [status EXCEPT ![r] = "NEEDS_HUMAN"]
        /\ category' = [category EXCEPT ![r] = why]
        /\ request' = request /\ launched' = launched
        /\ IF b THEN ReleaseSlot(r) ELSE KeepSlots
    BY <1>2 DEF MarkNeedsHuman
  <2>2. /\ reservation' \in [Runs -> {"none", "active", "released"}]
        /\ activeRuns' \in [Providers -> Int]
    BY <2>1, ReleaseTypes DEF RunTypes, KeepSlots, slots
  <2> QED
    BY <2>1, <2>2 DEF RunTypes, Existence, TerminalStates
<1> QED
  BY <1>1, <1>2

(* persistCreatedRun writes rows of the right type. *)
LEMMA PersistTypes ==
  ASSUME RunTypes, NEW r \in Runs, NEW req \in Requests, PersistCreatedRun(r, req)
  PROVE  RunTypes' /\ Existence /\ status'[r] # "ABSENT"
BY DEF PersistCreatedRun, RunTypes, Existence, ActiveStates, run, slots

(* The three ways an invoker moves keep its locals typed. *)
LEMMA LocalStep ==
  ASSUME LocalTypes, NEW i \in Invokers, Existence,
         \/ Leave(i)
         \/ pc[i] # "idle" /\ \E to \in PCs : Goto(i, to)
         \/ \E r \in Runs, to \in PCs : status'[r] # "ABSENT" /\ Enter(i, r, to)
  PROVE  LocalTypes'
BY DEF LocalTypes, Existence, Leave, Goto, Enter, PCs

(* A step that leaves the locals alone keeps them typed. *)
LEMMA LocalStutter ==
  ASSUME LocalTypes, Existence, UNCHANGED locals
  PROVE  LocalTypes'
BY DEF LocalTypes, Existence, locals

(* Any step leaves every table and every local in its type; a call that is  *)
(* under way always works on a run that exists.                             *)
LEMMA TypeStep ==
  ASSUME TypeOK, [Next]_vars
  PROVE  TypeOK' /\ Existence
<1>0. RunTypes /\ LocalTypes
  BY DEF RunTypes, LocalTypes, TypeOK
<1>1. ASSUME RunTypes', LocalTypes', Existence,
             ticket' \in [Tickets -> TicketStates],
             process' \in [Runs -> {"none", "alive", "gone"}]
      PROVE  TypeOK' /\ Existence
  BY <1>1 DEF RunTypes, LocalTypes, TypeOK
<1>2. ASSUME UNCHANGED <<run, slots>> PROVE RunTypes' /\ Existence
  BY <1>0, <1>2 DEF RunTypes, Existence, run, slots
<1>3. ASSUME NEW i \in Invokers, pc[i] # "idle"
      PROVE  /\ cur[i] \in Runs /\ status[cur[i]] # "ABSENT"
             /\ request[cur[i]] \in Requests
  BY <1>0, <1>3 DEF RunTypes, LocalTypes
<1>4. CASE UNCHANGED vars
  BY <1>0, <1>1, <1>2, <1>4, LocalStutter DEF vars, TypeOK
<1>5. ASSUME NEW i \in Invokers, BeginCall(i) PROVE TypeOK' /\ Existence
  <2>1. ASSUME NEW r \in Runs, PrepareFirst(i, r) \/ PrepareUnrouted(i, r)
        PROVE  TypeOK' /\ Existence
    <3>1. PICK req \in Requests : PersistCreatedRun(r, req)
      BY <2>1 DEF PrepareFirst, PrepareUnrouted, Requests
    <3>2. RunTypes' /\ Existence /\ status'[r] # "ABSENT"
      BY <1>0, <3>1, PersistTypes
    <3>3. \E to \in PCs : Enter(i, r, to)
      BY <2>1 DEF PrepareFirst, PrepareUnrouted, PCs
    <3> QED
      BY <1>0, <1>1, <3>1, <3>2, <3>3, LocalStep DEF PersistCreatedRun, TypeOK
  <2>2. ASSUME NEW r \in Runs, Replay(i, r) PROVE TypeOK' /\ Existence
    <3>1. /\ RunTypes' /\ Existence /\ status'[r] # "ABSENT"
          /\ \E to \in PCs : Enter(i, r, to)
      BY <1>2, <2>2 DEF Replay, PCs, run, slots
    <3> QED
      BY <1>0, <1>1, <2>2, <3>1, LocalStep DEF Replay, TypeOK
  <2> QED
    BY <1>5, <2>1, <2>2 DEF BeginCall
<1>6. ASSUME NEW i \in Invokers, InCall(i) PROVE TypeOK' /\ Existence
  <2>0. pc[i] # "idle" /\ cur[i] \in Runs /\ status[cur[i]] # "ABSENT"
        /\ request[cur[i]] \in Requests
    BY <1>3, <1>6 DEF InCall, PrepareFallback, GiveUp, Reserve, ReserveRefused,
       Abandon, AbandonRefused, Fallback, Return, Load, WorkspaceRefused,
       BindingRefused, RefuseLaunch, Start, StartFails, Spawn, SpawnFails,
       Finish, FinishFails
  <2>m. ASSUME Leave(i) \/ \E to \in PCs : Goto(i, to), Existence
        PROVE  LocalTypes'
    BY <1>0, <2>0, <2>m, LocalStep
  <2>1. ASSUME NEW r \in Runs, PrepareFallback(i, r) PROVE TypeOK' /\ Existence
    <3>1. PICK p \in Providers :
              PersistCreatedRun(r, [request[cur[i]] EXCEPT !.provider = p])
      BY <2>1 DEF PrepareFallback
    <3>2. [request[cur[i]] EXCEPT !.provider = p] \in Requests
      BY <2>0 DEF Requests
    <3>3. RunTypes' /\ Existence /\ status'[r] # "ABSENT"
      BY <1>0, <3>1, <3>2, PersistTypes
    <3>4. \E to \in PCs : Enter(i, r, to)
      BY <2>1 DEF PrepareFallback, PCs
    <3> QED
      BY <1>0, <1>1, <3>1, <3>3, <3>4, LocalStep DEF PersistCreatedRun, TypeOK
  <2>2. CASE \/ GiveUp(i) \/ ReserveRefused(i) \/ AbandonRefused(i) \/ Fallback(i)
             \/ Return(i) \/ Load(i) \/ BindingRefused(i) \/ SpawnFails(i)
    <3>1. /\ UNCHANGED <<ticket, run, slots, process>>
          /\ Leave(i) \/ \E to \in PCs : Goto(i, to)
      BY <2>2 DEF GiveUp, ReserveRefused, AbandonRefused, Fallback, Return, Load,
                  BindingRefused, SpawnFails, PCs
    <3> QED
      BY <1>1, <1>2, <2>m, <3>1 DEF TypeOK
  <2>3. CASE Reserve(i)
    <3>1. RunTypes' /\ Existence
      BY <1>0, <2>0, <2>3 DEF Reserve, RunTypes, Existence, Requests, run
    <3> QED
      BY <1>1, <2>3, <2>m, <3>1 DEF Reserve, PCs, TypeOK
  <2>4. CASE \/ Abandon(i) \/ WorkspaceRefused(i) \/ RefuseLaunch(i)
             \/ StartFails(i) \/ FinishFails(i)
    <3>1. /\ UNCHANGED <<ticket, process>>
          /\ Leave(i) \/ \E to \in PCs : Goto(i, to)
          /\ \E why \in Categories, b \in BOOLEAN : MarkNeedsHuman(cur[i], why, b)
      BY <2>4 DEF Abandon, WorkspaceRefused, RefuseLaunch, StartFails, FinishFails,
                  Answers, PCs, Categories
    <3>2. RunTypes' /\ Existence
      BY <1>0, <2>0, <3>1, MarkTypes
    <3> QED
      BY <1>1, <2>m, <3>1, <3>2 DEF TypeOK
  <2>5. CASE Start(i)
    <3>1. RunTypes' /\ Existence
      BY <1>0, <2>0, <2>5 DEF Start, RunTypes, Existence, ActiveStates, slots
    <3>2. ticket' \in [Tickets -> TicketStates]
      BY <2>0, <2>5 DEF Start, TypeOK, TicketStates
    <3> QED
      BY <1>1, <2>5, <2>m, <3>1, <3>2 DEF Start, PCs, TypeOK
  <2>6. CASE Spawn(i)
    <3>1. RunTypes' /\ Existence
      BY <1>2, <2>6 DEF Spawn
    <3> QED
      BY <1>1, <2>0, <2>6, <2>m, <3>1 DEF Spawn, PCs, TypeOK
  <2>7. CASE Finish(i)
    <3>1. PICK a \in Answers(cur[i]) :
              /\ status' = [status EXCEPT ![cur[i]] = a.outcome]
              /\ \E why \in {"prelaunch", "other"} :
                    category' = [category EXCEPT ![cur[i]] =
                                    IF a.outcome = "SUCCEEDED" THEN "none" ELSE why]
              /\ IF a.stopped THEN ReleaseSlot(cur[i]) ELSE KeepSlots
      BY <2>7 DEF Finish
    <3>2. a.outcome \in TerminalStates
      BY <3>1 DEF Answers
    <3>3. /\ reservation' \in [Runs -> {"none", "active", "released"}]
          /\ activeRuns' \in [Providers -> Int]
      BY <1>0, <2>0, <3>1, ReleaseTypes DEF RunTypes, KeepSlots, slots
    <3>4. PICK what \in Categories : category' = [category EXCEPT ![cur[i]] = what]
      BY <3>1 DEF Categories
    <3>5. request' = request /\ launched' = launched
      BY <2>7 DEF Finish
    <3>6. RunTypes' /\ Existence
      BY <1>0, <2>0, <3>1, <3>2, <3>3, <3>4, <3>5
         DEF RunTypes, Existence, TerminalStates
    <3> QED
      BY <1>1, <2>7, <2>m, <3>6 DEF Finish, PCs, TypeOK
  <2> QED
    BY <1>6, <2>1, <2>2, <2>3, <2>4, <2>5, <2>6, <2>7 DEF InCall
<1>7. ASSUME NEW i \in Invokers, Crash(i) PROVE TypeOK' /\ Existence
  BY <1>0, <1>1, <1>2, <1>7, LocalStep DEF Crash, TypeOK
<1>8. ASSUME NEW r \in Runs, ProcessExits(r) \/ Recover(r) \/ Reconcile(r)
      PROVE  TypeOK' /\ Existence
  <2>1. CASE ProcessExits(r)
    BY <1>0, <1>1, <1>2, <2>1, LocalStutter DEF ProcessExits, TypeOK
  <2>2. CASE Recover(r)
    <3>1. RunTypes' /\ Existence
      BY <1>0, <2>2, MarkTypes DEF Recover, Active, ActiveStates, Categories
    <3> QED
      BY <1>0, <1>1, <2>2, <3>1, LocalStutter DEF Recover, TypeOK
  <2>3. CASE Reconcile(r)
    <3>1. RunTypes' /\ Existence
      BY <1>0, <2>3, ReleaseTypes
         DEF Reconcile, RunTypes, Existence, TerminalStates, run
    <3> QED
      BY <1>0, <1>1, <2>3, <3>1, LocalStutter DEF Reconcile, TypeOK
  <2> QED
    BY <1>8, <2>1, <2>2, <2>3
<1>9. ASSUME NEW t \in Tickets, Advance(t) \/ Halt(t) PROVE TypeOK' /\ Existence
  <2>1. UNCHANGED <<run, slots, process, locals>>
    BY <1>9 DEF Advance, Halt
  <2>2. ticket' \in [Tickets -> TicketStates]
    BY <1>9 DEF Advance, Halt, TypeOK, TicketStates
  <2> QED
    BY <1>0, <1>1, <1>2, <2>1, <2>2, LocalStutter DEF TypeOK
<1> QED
  BY <1>4, <1>5, <1>6, <1>7, <1>8, <1>9 DEF Next

(* TypeOK of AgentRun, for every instance: the tables keep their types, and *)
(* no call is ever left holding a run that does not exist.                  *)
THEOREM TypeCorrect == Spec => []TypeOK
<1>1. Init => TypeOK
  BY DEF Init, TypeOK, TicketStates, Categories, PCs
<1>2. TypeOK /\ [Next]_vars => TypeOK'
  BY TypeStep
<1> QED
  BY <1>1, <1>2, PTL DEF Spec

-----------------------------------------------------------------------------
(* What a step can do to the tables, whichever handler takes it. *)

Created(r) == \E req \in Requests : PersistCreatedRun(r, req)

Ended(r) ==
    /\ Active(r)
    /\ \E s \in TerminalStates : status' = [status EXCEPT ![r] = s]
    /\ UNCHANGED <<request, launched>>

Started(r) ==
    /\ status[r] = "CREATED"
    /\ request[r].task = "implementation" =>
           /\ ticket[request[r].ticket] = "PLANNING"
           /\ ticket'[request[r].ticket] # "PLANNING"
    /\ status' = [status EXCEPT ![r] = "RUNNING"]
    /\ launched' = [launched EXCEPT ![r] = TRUE]
    /\ request' = request

Untouched == UNCHANGED <<status, request, launched>>

Taken(r) ==
    LET p == request[r].provider
    IN  /\ status[r] = "CREATED" /\ reservation[r] = "none"
        /\ activeRuns[p] < Limit[p]
        /\ reservation' = [reservation EXCEPT ![r] = "active"]
        /\ activeRuns' = [activeRuns EXCEPT ![p] = @ + 1]
        /\ UNCHANGED run

Freed(r) == reservation[r] = "active" /\ ReleaseSlot(r) /\ request' = request

(* A PLANNING ticket was PLANNING before: nothing moves a ticket back.      *)
NoReplanning == \A t \in Tickets : ticket'[t] = "PLANNING" => ticket[t] = "PLANNING"

Effect ==
    /\ Untouched \/ \E r \in Runs : Created(r) \/ Ended(r) \/ Started(r)
    /\ UNCHANGED slots \/ \E r \in Runs : Taken(r) \/ Freed(r)
    /\ NoReplanning

(* markRunNeedsHuman ends an active run, or does nothing. *)
LEMMA MarkEffect ==
  ASSUME NEW r \in Runs, NEW why, NEW b \in BOOLEAN, MarkNeedsHuman(r, why, b),
         UNCHANGED ticket
  PROVE  Effect
BY DEF MarkNeedsHuman, Effect, Untouched, Ended, Freed, ReleaseSlot, KeepSlots,
       slots, run, NoReplanning, TerminalStates

(* Every step has one of the effects above. *)
LEMMA StepEffect ==
  ASSUME TypeOK, [Next]_vars
  PROVE  Effect
<1>1. ASSUME UNCHANGED <<ticket, run, slots>> PROVE Effect
  BY <1>1 DEF Effect, Untouched, NoReplanning, run
<1>2. ASSUME NEW r \in Runs, NEW req \in Requests, PersistCreatedRun(r, req)
      PROVE  Effect
  BY <1>2 DEF PersistCreatedRun, Effect, Created, NoReplanning
<1>3. CASE UNCHANGED vars
  BY <1>1, <1>3 DEF vars
<1>4. ASSUME NEW i \in Invokers, BeginCall(i) PROVE Effect
  <2>1. ASSUME NEW r \in Runs, PrepareFirst(i, r) \/ PrepareUnrouted(i, r)
        PROVE  Effect
    BY <1>2, <2>1 DEF PrepareFirst, PrepareUnrouted, Requests
  <2>2. ASSUME NEW r \in Runs, Replay(i, r) PROVE Effect
    BY <1>1, <2>2 DEF Replay
  <2> QED
    BY <1>4, <2>1, <2>2 DEF BeginCall
<1>5. ASSUME NEW i \in Invokers, InCall(i) PROVE Effect
  <2>0. cur[i] \in Runs /\ request[cur[i]] \in Requests
    BY <1>5 DEF TypeOK, InCall, PrepareFallback, GiveUp, Reserve, ReserveRefused,
       Abandon, AbandonRefused, Fallback, Return, Load, WorkspaceRefused,
       BindingRefused, RefuseLaunch, Start, StartFails, Spawn, SpawnFails,
       Finish, FinishFails
  <2>1. ASSUME NEW r \in Runs, PrepareFallback(i, r) PROVE Effect
    <3>1. PICK p \in Providers :
              PersistCreatedRun(r, [request[cur[i]] EXCEPT !.provider = p])
      BY <2>1 DEF PrepareFallback
    <3>2. [request[cur[i]] EXCEPT !.provider = p] \in Requests
      BY <2>0 DEF Requests
    <3> QED
      BY <1>2, <3>1, <3>2
  <2>2. CASE \/ GiveUp(i) \/ ReserveRefused(i) \/ AbandonRefused(i) \/ Fallback(i)
             \/ Return(i) \/ Load(i) \/ BindingRefused(i) \/ SpawnFails(i) \/ Spawn(i)
    BY <1>1, <2>2 DEF GiveUp, ReserveRefused, AbandonRefused, Fallback, Return, Load,
                      BindingRefused, SpawnFails, Spawn
  <2>3. CASE Reserve(i)
    BY <2>0, <2>3 DEF Reserve, Effect, Taken, Untouched, NoReplanning, run
  <2>4. CASE \/ Abandon(i) \/ WorkspaceRefused(i) \/ RefuseLaunch(i)
             \/ StartFails(i) \/ FinishFails(i)
    <3>1. /\ UNCHANGED ticket
          /\ \E why \in Categories, b \in BOOLEAN : MarkNeedsHuman(cur[i], why, b)
      BY <2>4 DEF Abandon, WorkspaceRefused, RefuseLaunch, StartFails, FinishFails,
                  Answers, Categories
    <3> QED
      BY <2>0, <3>1, MarkEffect
  <2>5. CASE Start(i)
    <3>1. Started(cur[i]) /\ UNCHANGED slots
      BY <2>0, <2>5 DEF Start, Started, Requests, TypeOK
    <3>2. NoReplanning
      BY <2>0, <2>5 DEF Start, NoReplanning, TypeOK
    <3> QED
      BY <2>0, <3>1, <3>2 DEF Effect
  <2>6. CASE Finish(i)
    <3>1. PICK a \in Answers(cur[i]) :
              /\ status' = [status EXCEPT ![cur[i]] = a.outcome]
              /\ IF a.stopped THEN ReleaseSlot(cur[i]) ELSE KeepSlots
      BY <2>6 DEF Finish
    <3>2. a.outcome \in TerminalStates
      BY <3>1 DEF Answers
    <3>3. Ended(cur[i]) /\ UNCHANGED ticket /\ request' = request
      BY <2>6, <3>1, <3>2 DEF Finish, Ended, Active, ActiveStates
    <3>4. UNCHANGED slots \/ Freed(cur[i])
      BY <3>1, <3>3 DEF Freed, ReleaseSlot, KeepSlots
    <3> QED
      BY <2>0, <3>3, <3>4 DEF Effect, NoReplanning
  <2> QED
    BY <1>5, <2>1, <2>2, <2>3, <2>4, <2>5, <2>6 DEF InCall
<1>6. ASSUME NEW i \in Invokers, Crash(i) PROVE Effect
  BY <1>1, <1>6 DEF Crash
<1>7. ASSUME NEW r \in Runs, ProcessExits(r) \/ Recover(r) \/ Reconcile(r)
      PROVE  Effect
  <2>1. CASE ProcessExits(r)
    BY <1>1, <2>1 DEF ProcessExits
  <2>2. CASE Recover(r)
    BY <2>2, MarkEffect DEF Recover
  <2>3. CASE Reconcile(r)
    BY <2>3 DEF Reconcile, Effect, Untouched, Freed, NoReplanning, run
  <2> QED
    BY <1>7, <2>1, <2>2, <2>3
<1>8. ASSUME NEW t \in Tickets, Advance(t) \/ Halt(t) PROVE Effect
  BY <1>8 DEF Advance, Halt, Effect, Untouched, NoReplanning, TypeOK, run
<1> QED
  BY <1>3, <1>4, <1>5, <1>6, <1>7, <1>8 DEF Next

-----------------------------------------------------------------------------
(* One active run per ticket. *)

(* At most one run of a ticket is active, in every instance, with replays   *)
(* or without: persistCreatedRun is the only way to an active run, and it   *)
(* looks first.                                                             *)
THEOREM AtMostOneActiveRun == Spec => []SingleActiveRun
<1>1. Init => SingleActiveRun
  BY DEF Init, SingleActiveRun, Active, ActiveStates
<1>2. ASSUME TypeOK, SingleActiveRun, [Next]_vars PROVE SingleActiveRun'
  <2>1. Untouched \/ \E r \in Runs : Created(r) \/ Ended(r) \/ Started(r)
    BY <1>2, StepEffect DEF Effect
  <2>2. CASE Untouched
    BY <1>2, <2>2 DEF Untouched, SingleActiveRun, Active
  <2>3. ASSUME NEW r \in Runs, Created(r) PROVE SingleActiveRun'
    <3>1. PICK req \in Requests : PersistCreatedRun(r, req)
      BY <2>3 DEF Created
    <3> QED
      BY <1>2, <3>1
         DEF PersistCreatedRun, SingleActiveRun, Active, ActiveStates, TypeOK
  <2>4. ASSUME NEW r \in Runs, Ended(r) PROVE SingleActiveRun'
    BY <1>2, <2>4 DEF Ended, SingleActiveRun, Active, ActiveStates, TerminalStates, TypeOK
  <2>5. ASSUME NEW r \in Runs, Started(r) PROVE SingleActiveRun'
    BY <1>2, <2>5 DEF Started, SingleActiveRun, Active, ActiveStates, TypeOK
  <2> QED
    BY <2>1, <2>2, <2>3, <2>4, <2>5
<1> QED
  BY <1>1, <1>2, TypeCorrect, PTL DEF Spec

-----------------------------------------------------------------------------
(* The capacity ledger. *)

(* Only a run that exists owns a slot. *)
SlotsAreOwned == \A r \in Runs : reservation[r] # "none" => status[r] # "ABSENT"

LedgerInv == SlotsAreOwned /\ CapacityLedger

(* What a run was created for never changes. *)
RequestsFixed == \A r \in Runs : status[r] # "ABSENT" => request'[r] = request[r]

(* Rows that keep their reservation and their provider keep the count. *)
LEMMA SlotsFrame ==
  ASSUME SlotsAreOwned, UNCHANGED reservation, RequestsFixed, NEW p \in Providers
  PROVE  SlotsOf(p)' = SlotsOf(p)
BY DEF SlotsOf, SlotsAreOwned, RequestsFixed

LEMMA SlotsFinite ==
  ASSUME NEW p PROVE IsFiniteSet(SlotsOf(p)) /\ Cardinality(SlotsOf(p)) \in Nat
BY RunsAssumption, FS_Subset, FS_CardinalityType DEF SlotsOf

LEMMA RequestsStayFixed ==
  ASSUME TypeOK, [Next]_vars
  PROVE  RequestsFixed
<1>1. ASSUME NEW s \in Runs, Created(s) PROVE RequestsFixed
  BY <1>1 DEF Created, PersistCreatedRun, TypeOK, RequestsFixed
<1> QED
  BY <1>1, StepEffect DEF Effect, Untouched, Ended, Started, RequestsFixed

LEMMA LedgerStep ==
  ASSUME TypeOK, LedgerInv, [Next]_vars
  PROVE  LedgerInv'
<1>0. Existence /\ Effect
  BY TypeStep, StepEffect
<1>1. UNCHANGED slots \/ \E r \in Runs : Taken(r) \/ Freed(r)
  BY <1>0 DEF Effect
<1>2. RequestsFixed
  BY RequestsStayFixed
<1>3. SlotsAreOwned'
  BY <1>0, <1>1 DEF LedgerInv, SlotsAreOwned, Existence, slots, Taken, Freed,
                    ReleaseSlot, TypeOK
<1> DEFINE Exact(p) ==
      activeRuns'[p] = Cardinality(SlotsOf(p)') /\ activeRuns'[p] <= Limit[p]
<1>4. ASSUME NEW p \in Providers PROVE Exact(p)
  <2>0. /\ activeRuns[p] = Cardinality(SlotsOf(p)) /\ activeRuns[p] <= Limit[p]
        /\ Limit[p] \in Nat /\ activeRuns \in [Providers -> Int]
        /\ IsFiniteSet(SlotsOf(p)) /\ Cardinality(SlotsOf(p)) \in Nat
    BY SlotsFinite, LimitAssumption DEF LedgerInv, CapacityLedger, TypeOK
  <2>1. CASE UNCHANGED slots
    BY <1>2, <2>0, <2>1, SlotsFrame DEF slots, LedgerInv
  <2>2. ASSUME NEW r \in Runs, Taken(r) PROVE Exact(p)
    <3>1. request[r].provider \in Providers
      BY <2>2 DEF Taken, TypeOK, Requests
    <3>2. CASE request[r].provider = p
      <4>1. SlotsOf(p)' = SlotsOf(p) \cup {r} /\ r \notin SlotsOf(p)
        BY <2>2, <3>2 DEF Taken, SlotsOf, TypeOK, run
      <4>2. Cardinality(SlotsOf(p)') = Cardinality(SlotsOf(p)) + 1
        BY <2>0, <4>1, FS_AddElement
      <4>3. activeRuns'[p] = activeRuns[p] + 1 /\ activeRuns[p] < Limit[p]
        BY <2>0, <2>2, <3>2 DEF Taken
      <4> QED
        BY <2>0, <4>2, <4>3
    <3>3. CASE request[r].provider # p
      <4>1. SlotsOf(p)' = SlotsOf(p)
        BY <2>2, <3>3 DEF Taken, SlotsOf, TypeOK, run
      <4>2. activeRuns'[p] = activeRuns[p]
        BY <2>0, <2>2, <3>3 DEF Taken
      <4> QED
        BY <2>0, <4>1, <4>2
    <3> QED
      BY <3>2, <3>3
  <2>3. ASSUME NEW r \in Runs, Freed(r) PROVE Exact(p)
    <3>1. /\ reservation[r] = "active" /\ request' = request
          /\ reservation' = [reservation EXCEPT ![r] = "released"]
          /\ activeRuns' = [activeRuns EXCEPT ![request[r].provider] = @ - 1]
      BY <2>3 DEF Freed, ReleaseSlot
    <3>2. CASE request[r].provider = p
      <4>1. SlotsOf(p)' = SlotsOf(p) \ {r} /\ r \in SlotsOf(p)
        BY <3>1, <3>2 DEF SlotsOf, TypeOK
      <4>2. Cardinality(SlotsOf(p)') = Cardinality(SlotsOf(p)) - 1
        BY <2>0, <4>1, FS_RemoveElement
      <4>3. activeRuns'[p] = activeRuns[p] - 1
        BY <2>0, <3>1, <3>2
      <4> QED
        BY <2>0, <4>2, <4>3
    <3>3. CASE request[r].provider # p
      <4>1. SlotsOf(p)' = SlotsOf(p)
        BY <3>1, <3>3 DEF SlotsOf, TypeOK
      <4>2. activeRuns'[p] = activeRuns[p]
        BY <2>0, <3>1, <3>3
      <4> QED
        BY <2>0, <4>1, <4>2
    <3> QED
      BY <3>2, <3>3
  <2> QED
    BY <1>1, <2>1, <2>2, <2>3
<1> QED
  BY <1>3, <1>4 DEF LedgerInv, CapacityLedger, SlotsOf

(* active_runs is exactly the number of slots held and never exceeds the    *)
(* provider's limit, for every number of runs, providers and concurrent     *)
(* callers, with crashes, recoveries and replays.                           *)
THEOREM LedgerExact == Spec => []CapacityLedger
<1>1. Init => LedgerInv
  <2> SUFFICES ASSUME Init PROVE LedgerInv
    OBVIOUS
  <2>1. \A p \in Providers : SlotsOf(p) = {}
    BY DEF Init, SlotsOf
  <2>2. SlotsAreOwned
    BY DEF Init, SlotsAreOwned
  <2>3. \A p \in Providers : activeRuns[p] = 0
    BY DEF Init
  <2>4. CapacityLedger
    BY <2>1, <2>3, FS_EmptySet, LimitAssumption DEF CapacityLedger
  <2> QED
    BY <2>2, <2>4 DEF LedgerInv
<1>2. TypeOK /\ LedgerInv /\ [Next]_vars => LedgerInv'
  BY LedgerStep
<1>3. LedgerInv => CapacityLedger
  BY DEF LedgerInv
<1> QED
  BY <1>1, <1>2, <1>3, TypeCorrect, PTL DEF Spec

-----------------------------------------------------------------------------
(* One launch of an implementation per ticket. *)

(* An implementation that was launched took its ticket out of PLANNING.     *)
LaunchLeavesPlanning ==
    \A r \in Runs :
        launched[r] =>
            /\ status[r] # "ABSENT"
            /\ request[r].task = "implementation" => ticket[request[r].ticket] # "PLANNING"

LaunchInv == LaunchLeavesPlanning /\ OneImplementationLaunch

LEMMA LaunchStep ==
  ASSUME TypeOK, LaunchInv, [Next]_vars
  PROVE  LaunchInv'
<1>1. Existence /\ NoReplanning /\ TypeOK'
  BY TypeStep, StepEffect DEF Effect
<1>2. Untouched \/ \E r \in Runs : Created(r) \/ Ended(r) \/ Started(r)
  BY StepEffect DEF Effect
<1>3. CASE Untouched
  BY <1>1, <1>3 DEF Untouched, LaunchInv, LaunchLeavesPlanning,
                    OneImplementationLaunch, NoReplanning, TypeOK, Requests
<1>4. ASSUME NEW r \in Runs, Created(r) PROVE LaunchInv'
  <2>1. PICK req \in Requests : PersistCreatedRun(r, req)
    BY <1>4 DEF Created
  <2>2. /\ launched' = launched /\ ticket' = ticket /\ ~launched[r]
        /\ \A s \in Runs : s # r => request'[s] = request[s] /\ status'[s] = status[s]
    BY <2>1 DEF PersistCreatedRun, LaunchInv, LaunchLeavesPlanning, TypeOK
  <2> QED
    BY <1>1, <2>2 DEF LaunchInv, LaunchLeavesPlanning, OneImplementationLaunch, Existence
<1>5. ASSUME NEW r \in Runs, Ended(r) PROVE LaunchInv'
  BY <1>1, <1>5 DEF Ended, LaunchInv, LaunchLeavesPlanning, OneImplementationLaunch,
                    NoReplanning, Existence, TypeOK, Requests
<1>6. ASSUME NEW r \in Runs, Started(r) PROVE LaunchInv'
  <2>1. /\ request' = request /\ launched' = [launched EXCEPT ![r] = TRUE]
        /\ status'[r] # "ABSENT"
        /\ request[r].task = "implementation" =>
              /\ ticket[request[r].ticket] = "PLANNING"
              /\ ticket'[request[r].ticket] # "PLANNING"
    BY <1>6 DEF Started, TypeOK
  <2>2. LaunchLeavesPlanning'
    BY <1>1, <2>1 DEF LaunchInv, LaunchLeavesPlanning, NoReplanning, Existence,
                      TypeOK, Requests
  <2>3. OneImplementationLaunch'
    BY <2>1 DEF LaunchInv, LaunchLeavesPlanning, OneImplementationLaunch, TypeOK
  <2> QED
    BY <2>2, <2>3 DEF LaunchInv
<1> QED
  BY <1>2, <1>3, <1>4, <1>5, <1>6

(* Of all the implementation runs a ticket ever has, at most one was        *)
(* launched, however its calls, fallbacks and recoveries interleave.        *)
THEOREM ImplementationLaunchedOnce == Spec => []OneImplementationLaunch
<1>1. Init => LaunchInv
  BY DEF Init, LaunchInv, LaunchLeavesPlanning, OneImplementationLaunch
<1>2. TypeOK /\ LaunchInv /\ [Next]_vars => LaunchInv'
  BY LaunchStep
<1>3. LaunchInv => OneImplementationLaunch
  BY DEF LaunchInv
<1> QED
  BY <1>1, <1>2, <1>3, TypeCorrect, PTL DEF Spec

-----------------------------------------------------------------------------
(* What a call leaves behind. *)

(* A run that ended before its provider was entered: nobody launches it now.*)
Dead(r) == status[r] \in TerminalStates /\ ~launched[r]

(* Only a launched run has a process; a call holds, besides the run it is   *)
(* working on, dead ones only.                                              *)
RunsSeen ==
    \A r \in Runs :
        /\ process[r] # "none" => launched[r]
        /\ status[r] \in {"ABSENT", "CREATED"} => ~launched[r]

CallsSeen ==
    \A i \in Invokers :
        /\ pc[i] = "idle" => attempts[i] = {}
        /\ pc[i] \in {"started", "spawned"} => launched[cur[i]]
        /\ pc[i] = "retry" => Dead(cur[i])
        /\ \A r \in attempts[i] : r = cur[i] \/ Dead(r)

CallInv == RunsSeen /\ CallsSeen

(* The dead stay dead, and what was launched stays launched.                *)
Settled == \A r \in Runs : (Dead(r) => Dead(r)') /\ (launched[r] => launched'[r])

LEMMA StepSettled ==
  ASSUME TypeOK, [Next]_vars
  PROVE  Settled
<1>1. Untouched \/ \E r \in Runs : Created(r) \/ Ended(r) \/ Started(r)
  BY StepEffect DEF Effect
<1>2. CASE Untouched
  BY <1>2 DEF Untouched, Settled, Dead
<1>3. ASSUME NEW s \in Runs, Created(s) PROVE Settled
  BY <1>3 DEF Created, PersistCreatedRun, Settled, Dead, TerminalStates, TypeOK
<1>4. ASSUME NEW s \in Runs, Ended(s) PROVE Settled
  BY <1>4 DEF Ended, Settled, Dead, Active, ActiveStates, TerminalStates, TypeOK
<1>5. ASSUME NEW s \in Runs, Started(s) PROVE Settled
  BY <1>5 DEF Started, Settled, Dead, TerminalStates, TypeOK
<1> QED
  BY <1>1, <1>2, <1>3, <1>4, <1>5

(* A process is spawned by a call that has started its run.                 *)
LEMMA RunsSeenStep ==
  ASSUME TypeOK, CallInv, [Next]_vars
  PROVE  RunsSeen'
<1>0. Settled
  BY StepSettled
<1>1. \A r \in Runs : status'[r] \in {"ABSENT", "CREATED"} => ~launched'[r]
  <2>1. Untouched \/ \E r \in Runs : Created(r) \/ Ended(r) \/ Started(r)
    BY StepEffect DEF Effect
  <2>2. CASE Untouched
    BY <2>2 DEF Untouched, CallInv, RunsSeen
  <2>3. ASSUME NEW s \in Runs, Created(s)
        PROVE  \A r \in Runs : status'[r] \in {"ABSENT", "CREATED"} => ~launched'[r]
    BY <2>3 DEF Created, PersistCreatedRun, CallInv, RunsSeen, TypeOK
  <2>4. ASSUME NEW s \in Runs, Ended(s)
        PROVE  \A r \in Runs : status'[r] \in {"ABSENT", "CREATED"} => ~launched'[r]
    BY <2>4 DEF Ended, CallInv, RunsSeen, TerminalStates, TypeOK
  <2>5. ASSUME NEW s \in Runs, Started(s)
        PROVE  \A r \in Runs : status'[r] \in {"ABSENT", "CREATED"} => ~launched'[r]
    BY <2>5 DEF Started, CallInv, RunsSeen, TypeOK
  <2> QED
    BY <2>1, <2>2, <2>3, <2>4, <2>5
<1>2. \/ UNCHANGED process
      \/ \E r \in Runs : ProcessExits(r)
      \/ \E i \in Invokers : Spawn(i)
  <2>1. CASE UNCHANGED vars
    BY <2>1 DEF vars
  <2>2. ASSUME NEW i \in Invokers, BeginCall(i) PROVE UNCHANGED process
    BY <2>2 DEF BeginCall, PrepareFirst, PrepareUnrouted, Replay, PersistCreatedRun
  <2>3. ASSUME NEW i \in Invokers, InCall(i) PROVE UNCHANGED process \/ Spawn(i)
    <3>1. ASSUME NEW r \in Runs, PrepareFallback(i, r) PROVE UNCHANGED process
      BY <3>1 DEF PrepareFallback, PersistCreatedRun
    <3> QED
      BY <2>3, <3>1 DEF InCall, GiveUp, Reserve, ReserveRefused, Abandon, AbandonRefused,
         Fallback, Return, Load, WorkspaceRefused, BindingRefused, RefuseLaunch, Start,
         StartFails, SpawnFails, Finish, FinishFails
  <2>4. ASSUME NEW i \in Invokers, Crash(i) PROVE UNCHANGED process
    BY <2>4 DEF Crash
  <2>5. ASSUME NEW r \in Runs, Recover(r) \/ Reconcile(r) PROVE UNCHANGED process
    BY <2>5 DEF Recover, Reconcile
  <2>6. ASSUME NEW t \in Tickets, Advance(t) \/ Halt(t) PROVE UNCHANGED process
    BY <2>6 DEF Advance, Halt
  <2> QED
    BY <2>1, <2>2, <2>3, <2>4, <2>5, <2>6 DEF Next
<1>3. \A r \in Runs : process'[r] # "none" => launched[r]
  <2>1. CASE UNCHANGED process
    BY <2>1 DEF CallInv, RunsSeen
  <2>2. ASSUME NEW s \in Runs, ProcessExits(s)
        PROVE  \A r \in Runs : process'[r] # "none" => launched[r]
    BY <2>2 DEF ProcessExits, CallInv, RunsSeen, TypeOK
  <2>3. ASSUME NEW i \in Invokers, Spawn(i)
        PROVE  \A r \in Runs : process'[r] # "none" => launched[r]
    BY <2>3 DEF Spawn, CallInv, RunsSeen, CallsSeen, TypeOK
  <2> QED
    BY <1>2, <2>1, <2>2, <2>3
<1> QED
  BY <1>0, <1>1, <1>3 DEF RunsSeen, Settled

(* Of one invoker: it leaves, it moves on, or it takes up another run.      *)
LEMMA CallsSeenMove ==
  ASSUME TypeOK, CallInv, Settled, NEW i \in Invokers,
         \/ Leave(i)
         \/ /\ pc[i] # "idle" /\ \E to \in PCs \ {"idle"} : Goto(i, to)
            /\ pc'[i] \in {"started", "spawned"} => launched'[cur[i]]
            /\ pc'[i] = "retry" => Dead(cur[i])'
         \/ /\ pc[i] \in {"idle", "retry"}
            /\ \E r \in Runs, to \in {"prepared", "loaded", "reserved"} : Enter(i, r, to)
  PROVE  CallsSeen'
<1>0. /\ pc \in [Invokers -> PCs] /\ attempts \in [Invokers -> SUBSET Runs]
      /\ cur \in [Invokers -> Runs \cup {NoRun}]
      /\ \A j \in Invokers : pc[j] # "idle" => cur[j] \in Runs
  BY DEF TypeOK
<1> DEFINE Seen(j) ==
        /\ pc[j] = "idle" => attempts[j] = {}
        /\ pc[j] \in {"started", "spawned"} => launched[cur[j]]
        /\ pc[j] = "retry" => Dead(cur[j])
        /\ \A r \in attempts[j] : r = cur[j] \/ Dead(r)
<1>1. \A j \in Invokers : Seen(j)
  BY DEF CallInv, CallsSeen
<1>2. ASSUME NEW j \in Invokers, j # i PROVE Seen(j)'
  <2>1. pc'[j] = pc[j] /\ cur'[j] = cur[j] /\ attempts'[j] = attempts[j]
    BY <1>0, <1>2 DEF Leave, Goto, Enter
  <2>2. Seen(j) /\ attempts[j] \subseteq Runs /\ (pc[j] # "idle" => cur[j] \in Runs)
    BY <1>0, <1>1
  <2> QED
    BY <2>1, <2>2 DEF Settled
<1>3. Seen(i)'
  <2>0. Seen(i) /\ attempts[i] \subseteq Runs
    BY <1>0, <1>1
  <2>1. CASE Leave(i)
    BY <1>0, <2>1 DEF Leave
  <2>2. CASE /\ pc[i] # "idle" /\ \E to \in PCs \ {"idle"} : Goto(i, to)
             /\ pc'[i] \in {"started", "spawned"} => launched'[cur[i]]
             /\ pc'[i] = "retry" => Dead(cur[i])'
    <3>1. pc'[i] # "idle" /\ cur'[i] = cur[i] /\ attempts'[i] = attempts[i]
      BY <1>0, <2>2 DEF Goto
    <3>2. \A r \in attempts[i] : r = cur[i] \/ Dead(r)'
      BY <2>0 DEF Settled
    <3>3. pc'[i] = "retry" => Dead(cur[i])'
      BY <2>2
    <3>4. pc'[i] \in {"started", "spawned"} => launched'[cur'[i]]
      BY <2>2, <3>1
    <3> QED
      BY <3>1, <3>2, <3>3, <3>4
  <2>3. ASSUME pc[i] \in {"idle", "retry"},
               NEW r \in Runs, NEW to \in {"prepared", "loaded", "reserved"}, Enter(i, r, to)
        PROVE  Seen(i)'
    <3>1. pc'[i] = to /\ cur'[i] = r /\ attempts'[i] = attempts[i] \cup {r}
      BY <1>0, <2>3 DEF Enter
    <3>2. \A s \in attempts[i] : Dead(s)
      BY <2>0, <2>3
    <3>3. \A s \in attempts[i] : Dead(s)'
      BY <2>0, <3>2 DEF Settled
    <3> QED
      BY <3>1, <3>3
  <2> QED
    BY <2>1, <2>2, <2>3
<1> QED
  BY <1>2, <1>3 DEF CallsSeen

LEMMA CallsSeenStep ==
  ASSUME TypeOK, CallInv, [Next]_vars
  PROVE  CallsSeen'
<1>0. Settled
  BY StepSettled
<1>1. ASSUME UNCHANGED locals PROVE CallsSeen'
  <2>1. \A j \in Invokers : attempts[j] \subseteq Runs /\ (pc[j] # "idle" => cur[j] \in Runs)
    BY DEF TypeOK
  <2> QED
    BY <1>0, <1>1, <2>1 DEF CallInv, CallsSeen, Settled, locals
<1>2. CASE \/ UNCHANGED vars
           \/ \E r \in Runs : ProcessExits(r) \/ Recover(r) \/ Reconcile(r)
           \/ \E t \in Tickets : Advance(t) \/ Halt(t)
  BY <1>1, <1>2 DEF vars, ProcessExits, Recover, Reconcile, Advance, Halt
<1>3. ASSUME NEW i \in Invokers, BeginCall(i) PROVE CallsSeen'
  <2>1. /\ pc[i] \in {"idle", "retry"}
        /\ \E r \in Runs, to \in {"prepared", "loaded", "reserved"} : Enter(i, r, to)
    BY <1>3 DEF BeginCall, PrepareFirst, PrepareUnrouted, Replay
  <2> QED
    BY <1>0, <2>1, CallsSeenMove
<1>4. ASSUME NEW i \in Invokers, Crash(i) PROVE CallsSeen'
  BY <1>0, <1>4, CallsSeenMove DEF Crash
<1>5. ASSUME NEW i \in Invokers, InCall(i) PROVE CallsSeen'
  <2>0. pc[i] \in PCs /\ (pc[i] # "idle" => cur[i] \in Runs)
    BY DEF TypeOK
  <2>1. ASSUME NEW r \in Runs, PrepareFallback(i, r) PROVE CallsSeen'
    <3>1. /\ pc[i] \in {"idle", "retry"}
          /\ \E s \in Runs, to \in {"prepared", "loaded", "reserved"} : Enter(i, s, to)
      BY <2>1 DEF PrepareFallback
    <3> QED
      BY <1>0, <3>1, CallsSeenMove
  <2>2. CASE \/ GiveUp(i) \/ AbandonRefused(i) \/ Return(i) \/ BindingRefused(i)
             \/ StartFails(i)
    <3>1. Leave(i)
      BY <2>2 DEF GiveUp, AbandonRefused, Return, BindingRefused, StartFails
    <3> QED
      BY <1>0, <3>1, CallsSeenMove
  <2>3. CASE \/ Reserve(i) \/ ReserveRefused(i) \/ Load(i) \/ WorkspaceRefused(i)
             \/ RefuseLaunch(i) \/ Finish(i) \/ FinishFails(i)
    <3>1. PICK to \in {"reserved", "unreserved", "loaded", "done"} : Goto(i, to)
      BY <2>3 DEF Reserve, ReserveRefused, Load, WorkspaceRefused, RefuseLaunch, Finish,
                  FinishFails
    <3>2. pc[i] # "idle"
      BY <2>3 DEF Reserve, ReserveRefused, Load, WorkspaceRefused, RefuseLaunch, Finish,
                  FinishFails
    <3>3. pc'[i] = to /\ to \in PCs \ {"idle"}
      BY <3>1 DEF Goto, TypeOK, PCs
    <3> QED
      BY <1>0, <3>1, <3>2, <3>3, CallsSeenMove
  <2>4. CASE Abandon(i) \/ Fallback(i)
    <3>1. Goto(i, "retry") /\ pc[i] # "idle" /\ pc'[i] = "retry" /\ "retry" \in PCs \ {"idle"}
      BY <2>4 DEF Abandon, Fallback, Goto, TypeOK, PCs
    <3>2. cur[i] \in Runs
      BY <2>0, <3>1
    <3>3. Dead(cur[i])'
      <4>1. CASE Abandon(i)
        <5>1. status[cur[i]] = "CREATED" /\ MarkNeedsHuman(cur[i], "other", FALSE)
              /\ cur'[i] = cur[i]
          BY <4>1, <3>1 DEF Abandon, Goto
        <5>2. ~launched[cur[i]] /\ launched' = launched /\ status'[cur[i]] = "NEEDS_HUMAN"
          BY <3>2, <5>1 DEF MarkNeedsHuman, Active, ActiveStates, CallInv, RunsSeen, TypeOK
        <5> QED
          BY <5>1, <5>2 DEF Dead, TerminalStates
      <4>2. CASE Fallback(i)
        BY <3>1, <4>2 DEF Fallback, ProvenPreLaunchFailure, Dead, TerminalStates, run, Goto
      <4> QED
        BY <2>4, <4>1, <4>2
    <3> QED
      BY <1>0, <3>1, <3>3, CallsSeenMove
  <2>5. CASE Start(i) \/ Spawn(i) \/ SpawnFails(i)
    <3>1. PICK to \in {"started", "spawned"} : Goto(i, to)
      BY <2>5 DEF Start, Spawn, SpawnFails
    <3>2. pc[i] # "idle"
      BY <2>5 DEF Start, Spawn, SpawnFails
    <3>3. pc'[i] = to /\ to \in PCs \ {"idle"}
      BY <3>1 DEF Goto, TypeOK, PCs
    <3>4. launched'[cur[i]]
      <4>1. CASE Start(i)
        BY <2>0, <3>2, <4>1 DEF Start, TypeOK
      <4>2. CASE Spawn(i) \/ SpawnFails(i)
        BY <4>2 DEF Spawn, SpawnFails, CallInv, CallsSeen, run
      <4> QED
        BY <2>5, <4>1, <4>2
    <3> QED
      BY <1>0, <3>1, <3>2, <3>3, <3>4, CallsSeenMove
  <2> QED
    BY <1>5, <2>1, <2>2, <2>3, <2>4, <2>5 DEF InCall
<1> QED
  BY <1>2, <1>3, <1>4, <1>5 DEF Next

LEMMA CallInvariance == Spec => [](TypeOK /\ CallInv)
<1>1. Init => CallInv
  BY DEF Init, CallInv, RunsSeen, CallsSeen
<1>2. TypeOK /\ CallInv /\ [Next]_vars => CallInv'
  BY RunsSeenStep, CallsSeenStep DEF CallInv
<1> QED
  BY <1>1, <1>2, TypeCorrect, PTL DEF Spec

(* Of all the runs one call of executeRoutedAgentTask prepares, at most one *)
(* ever enters its provider: every run it left behind was dead when it      *)
(* turned to the next provider, and stays dead, even if another caller      *)
(* replays it.                                                              *)
THEOREM CallLaunchesOnce == Spec => []OneLaunchPerCall
<1>1. TypeOK /\ CallInv => OneLaunchPerCall
  <2> SUFFICES ASSUME TypeOK, CallInv, NEW i \in Invokers,
                      NEW r \in attempts[i], NEW s \in attempts[i],
                      process[r] # "none", process[s] # "none"
               PROVE  r = s
    BY DEF OneLaunchPerCall
  <2>1. r \in Runs /\ s \in Runs
    BY DEF TypeOK
  <2>2. launched[r] /\ launched[s]
    BY <2>1 DEF CallInv, RunsSeen
  <2> QED
    BY <2>2 DEF CallInv, CallsSeen, Dead
<1> QED
  BY <1>1, CallInvariance, PTL

-----------------------------------------------------------------------------
(* How a run ends, and what becomes of its slot. *)

(* What a step can do to one run.                                           *)
Fate(r) ==
    /\ ~Active(r) => category'[r] = category[r]
    /\ ~Active(r) /\ status[r] # "ABSENT" => status'[r] = status[r]
    /\ reservation[r] = "active" /\ reservation'[r] # "active"
          => Active(r) \/ (process[r] # "alive" /\ ~Working(r))
    /\ reservation'[r] = "active" => reservation[r] = "active" \/ Active(r)'
    /\ Active(r) /\ ~Active(r)' /\ reservation'[r] = "active"
          => launched[r] \/ category'[r] = "stale"

(* markRunNeedsHuman: only an operator's recovery and a launched run's      *)
(* missing proof of termination keep the slot.                              *)
LEMMA MarkFate ==
  ASSUME TypeOK, NEW r \in Runs, NEW why \in Categories, NEW b \in BOOLEAN,
         MarkNeedsHuman(r, why, b),
         b \/ launched[r] \/ why = "stale" \/ reservation[r] # "active"
  PROVE  \A s \in Runs : Fate(s)
<1>1. CASE ~Active(r)
  BY <1>1 DEF MarkNeedsHuman, Fate, Active, run, slots
<1>2. CASE Active(r)
  <2>1. /\ status' = [status EXCEPT ![r] = "NEEDS_HUMAN"]
        /\ category' = [category EXCEPT ![r] = why]
        /\ IF b THEN ReleaseSlot(r) ELSE KeepSlots
    BY <1>2 DEF MarkNeedsHuman
  <2>2. reservation' = reservation \/ reservation' = [reservation EXCEPT ![r] = "released"]
    BY <2>1 DEF ReleaseSlot, KeepSlots, slots
  <2>3. b => reservation'[r] # "active"
    BY <2>1 DEF ReleaseSlot, KeepSlots, slots, TypeOK
  <2>4. ASSUME NEW s \in Runs, s # r PROVE Fate(s)
    BY <2>1, <2>2, <2>4 DEF Fate, Active, TypeOK
  <2>5. Fate(r)
    BY <1>2, <2>1, <2>2, <2>3 DEF Fate, Active, TypeOK
  <2> QED
    BY <2>4, <2>5
<1> QED
  BY <1>1, <1>2

LEMMA StepFate ==
  ASSUME TypeOK, CallInv, [Next]_vars
  PROVE  \A r \in Runs : Fate(r)
<1>1. ASSUME UNCHANGED <<run, slots>> PROVE \A r \in Runs : Fate(r)
  BY <1>1 DEF Fate, Active, run, slots
<1>2. ASSUME NEW s \in Runs, NEW req, PersistCreatedRun(s, req)
      PROVE  \A r \in Runs : Fate(r)
  BY <1>2 DEF PersistCreatedRun, Fate, Active, ActiveStates, TypeOK, slots
<1>3. CASE UNCHANGED vars
  BY <1>1, <1>3 DEF vars
<1>4. ASSUME NEW i \in Invokers, BeginCall(i) PROVE \A r \in Runs : Fate(r)
  BY <1>1, <1>2, <1>4 DEF BeginCall, PrepareFirst, PrepareUnrouted, Replay
<1>5. ASSUME NEW i \in Invokers, InCall(i) PROVE \A r \in Runs : Fate(r)
  <2>0. pc[i] # "idle" => cur[i] \in Runs
    BY DEF TypeOK
  <2>1. ASSUME NEW r \in Runs, PrepareFallback(i, r) PROVE \A s \in Runs : Fate(s)
    BY <1>2, <2>1 DEF PrepareFallback
  <2>2. CASE \/ GiveUp(i) \/ ReserveRefused(i) \/ AbandonRefused(i) \/ Fallback(i)
             \/ Return(i) \/ Load(i) \/ BindingRefused(i) \/ SpawnFails(i) \/ Spawn(i)
    BY <1>1, <2>2 DEF GiveUp, ReserveRefused, AbandonRefused, Fallback, Return, Load,
                      BindingRefused, SpawnFails, Spawn
  <2>3. CASE Reserve(i)
    BY <2>0, <2>3 DEF Reserve, Fate, Active, ActiveStates, TypeOK, run
  <2>4. CASE Abandon(i) \/ WorkspaceRefused(i) \/ RefuseLaunch(i) \/ StartFails(i)
    <3>1. cur[i] \in Runs
      BY <2>0, <2>4 DEF Abandon, WorkspaceRefused, RefuseLaunch, StartFails
    <3>2. \E why \in Categories, b \in BOOLEAN :
             MarkNeedsHuman(cur[i], why, b) /\ (b \/ reservation[cur[i]] # "active")
      BY <2>4 DEF Abandon, WorkspaceRefused, RefuseLaunch, StartFails, Categories
    <3> QED
      BY <3>1, <3>2, MarkFate
  <2>5. CASE FinishFails(i)
    <3>1. cur[i] \in Runs /\ launched[cur[i]]
      BY <2>0, <2>5 DEF FinishFails, CallInv, CallsSeen
    <3>2. PICK a \in Answers(cur[i]) : MarkNeedsHuman(cur[i], "other", a.stopped)
      BY <2>5 DEF FinishFails
    <3>3. a.stopped \in BOOLEAN /\ "other" \in Categories
      BY DEF Answers, Categories
    <3> QED
      BY <3>1, <3>2, <3>3, MarkFate
  <2>6. CASE Start(i)
    BY <2>0, <2>6 DEF Start, Fate, Active, ActiveStates, TypeOK, slots
  <2>7. CASE Finish(i)
    <3>1. cur[i] \in Runs /\ launched[cur[i]] /\ status[cur[i]] = "RUNNING"
      BY <2>0, <2>7 DEF Finish, CallInv, CallsSeen
    <3>2. PICK a \in Answers(cur[i]) :
              /\ status' = [status EXCEPT ![cur[i]] = a.outcome]
              /\ \E why \in {"prelaunch", "other"} :
                    category' = [category EXCEPT ![cur[i]] =
                                    IF a.outcome = "SUCCEEDED" THEN "none" ELSE why]
              /\ IF a.stopped THEN ReleaseSlot(cur[i]) ELSE KeepSlots
      BY <2>7 DEF Finish
    <3>3. \A s \in Runs : s # cur[i] => status'[s] = status[s] /\ category'[s] = category[s]
      BY <3>2 DEF TypeOK
    <3>4. /\ \A s \in Runs : s # cur[i] => reservation'[s] = reservation[s]
          /\ reservation'[cur[i]] = "active" => reservation[cur[i]] = "active"
      BY <3>1, <3>2 DEF ReleaseSlot, KeepSlots, slots, TypeOK
    <3>5. ASSUME NEW s \in Runs, s # cur[i] PROVE Fate(s)
      BY <3>3, <3>4, <3>5 DEF Fate, Active
    <3>6. Fate(cur[i])
      BY <3>1, <3>4 DEF Fate, Active, ActiveStates
    <3> QED
      BY <3>5, <3>6
  <2> QED
    BY <1>5, <2>1, <2>2, <2>3, <2>4, <2>5, <2>6, <2>7 DEF InCall
<1>6. ASSUME NEW i \in Invokers, Crash(i) PROVE \A r \in Runs : Fate(r)
  BY <1>1, <1>6 DEF Crash
<1>7. ASSUME NEW s \in Runs, ProcessExits(s) \/ Recover(s) \/ Reconcile(s)
      PROVE  \A r \in Runs : Fate(r)
  <2>1. CASE ProcessExits(s)
    BY <1>1, <2>1 DEF ProcessExits
  <2>2. CASE Recover(s)
    BY <2>2, MarkFate DEF Recover, Categories
  <2>3. CASE Reconcile(s)
    BY <2>3 DEF Reconcile, ReleaseSlot, Fate, Active, ActiveStates, TerminalStates, TypeOK, run
  <2> QED
    BY <1>7, <2>1, <2>2, <2>3
<1>8. ASSUME NEW t \in Tickets, Advance(t) \/ Halt(t) PROVE \A r \in Runs : Fate(r)
  BY <1>1, <1>8 DEF Advance, Halt
<1> QED
  BY <1>3, <1>4, <1>5, <1>6, <1>7, <1>8 DEF Next

(* A slot outlives its run only when the run was launched or an operator    *)
(* recovered it: every refusal that ends a run before its launch, whoever   *)
(* replays it, gives the slot back (markRunNeedsHuman).  A refusal that     *)
(* throws leaves the run active, and is not meant.                          *)
THEOREM RefusedRunsHoldNoSlot == Spec => []RefusedRunHoldsNoSlot
<1>1. Init => RefusedRunHoldsNoSlot
  BY DEF Init, RefusedRunHoldsNoSlot
<1>2. ASSUME TypeOK, CallInv, RefusedRunHoldsNoSlot, [Next]_vars
      PROVE  RefusedRunHoldsNoSlot'
  <2>1. SUFFICES ASSUME NEW r \in Runs, reservation'[r] = "active"
                 PROVE  Active(r)' \/ launched'[r] \/ category'[r] = "stale"
    BY DEF RefusedRunHoldsNoSlot
  <2>2. Fate(r) /\ (launched[r] => launched'[r])
    BY <1>2, StepFate, StepSettled DEF Settled
  <2>3. reservation[r] = "active" => Active(r) \/ launched[r] \/ category[r] = "stale"
    BY <1>2 DEF RefusedRunHoldsNoSlot
  <2> QED
    BY <2>1, <2>2, <2>3 DEF Fate
<1> QED
  BY <1>1, <1>2, CallInvariance, PTL DEF Spec

(* What recoverAgentRun recorded stands, however late the provider answers, *)
(* and the slot it kept is given back only when nothing of the run is left  *)
(* (finalizeRun's expected states).                                         *)
THEOREM RecoveredRunsAreInert == Spec => RecoveredRunIsInert
<1>1. ASSUME TypeOK, CallInv, [Next]_vars
      PROVE  \A r \in Runs :
                status[r] = "NEEDS_HUMAN" /\ category[r] = "stale" =>
                    /\ status'[r] = "NEEDS_HUMAN" /\ category'[r] = "stale"
                    /\ reservation[r] = "active" /\ reservation'[r] # "active" =>
                          process[r] # "alive" /\ ~Working(r)
  <2>1. SUFFICES ASSUME NEW r \in Runs, status[r] = "NEEDS_HUMAN", category[r] = "stale"
                 PROVE  /\ status'[r] = "NEEDS_HUMAN" /\ category'[r] = "stale"
                        /\ reservation[r] = "active" /\ reservation'[r] # "active" =>
                              process[r] # "alive" /\ ~Working(r)
    OBVIOUS
  <2>2. ~Active(r) /\ status[r] # "ABSENT"
    BY <2>1 DEF Active, ActiveStates
  <2>3. Fate(r)
    BY <1>1, StepFate
  <2> QED
    BY <2>1, <2>2, <2>3 DEF Fate
<1> QED
  BY <1>1, CallInvariance, PTL DEF Spec, RecoveredRunIsInert
=============================================================================
