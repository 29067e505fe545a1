------------------------------ MODULE AgentRun ------------------------------
(***************************************************************************)
(* The durable life of a provider run and of the capacity slot it holds.   *)
(*                                                                         *)
(* src/src/execution/service.ts  (AGENT-001) creates, starts, finalizes,   *)
(*     recovers and reconciles runs;                                       *)
(* src/src/model/service.ts      (MODEL-001) picks a provider, binds its   *)
(*     slot to the run, executes it and falls back to another one;         *)
(* src/src/persistence           holds the tables both write.              *)
(*                                                                         *)
(* Three kinds of state live side by side: what SQLite keeps (ticket, run, *)
(* reservation, active_runs), what a ShipGraph process keeps in memory and *)
(* loses in a crash (an invoker's position in executeRoutedAgentTask), and *)
(* the provider processes themselves, which are detached and survive the   *)
(* death of the ShipGraph process.  One action is one SQLite transaction,  *)
(* or the code between two awaits.                                         *)
(***************************************************************************)
EXTENDS Integers, FiniteSets

CONSTANTS Tickets,      \* tickets with a READY workspace
          Implemented,  \* those among them whose implementation is done already
          Runs,         \* the pool of run ids: bounds how many are ever created
          Providers,
          Invokers,     \* concurrent calls of executeRoutedAgentTask/executeAgentTask
          Limit,        \* maxConcurrentRuns of each provider (unknown counts as 1)
          Replays,      \* TRUE: a caller may execute a run another caller prepared
          NoRun         \* what an invoker outside a call works on

ASSUME RunsAssumption == IsFiniteSet(Runs) /\ NoRun \notin Runs
ASSUME LimitAssumption == Limit \in [Providers -> Nat \ {0}]
ASSUME ReplaysAssumption == Replays \in BOOLEAN

(* STARTING is not here: startRun passes through it inside one transaction. *)
(* FAILED stands for TIMED_OUT and CANCELLED too: nothing modelled here     *)
(* tells the three apart.                                                   *)
ActiveStates   == {"CREATED", "RUNNING"}
TerminalStates == {"SUCCEEDED", "FAILED", "NEEDS_HUMAN"}

Tasks == {"implementation", "review", "repair"}

(* HALTED is every state terminalize() may leave a ticket in (PAUSED,       *)
(* BLOCKED, FAILED, NEEDS_HUMAN): no task may be prepared in any of them.   *)
TicketStates == {"PLANNING", "IMPLEMENTING", "VERIFYING", "REPAIRING", "HALTED"}

RequiredTicketState ==
    [implementation |-> "PLANNING", review |-> "VERIFYING", repair |-> "REPAIRING"]

(* Failure categories, as far as the code tells them apart: "prelaunch" is  *)
(* executable_missing, executable_unavailable or adapter_error; "stale" is  *)
(* stale_run, written by recovery only.                                     *)
Categories == {"none", "prelaunch", "stale", "other"}

VARIABLES
    ticket,       \* SQLite tickets.status
    status,       \* SQLite runs.status
    request,      \* SQLite runs: what the run was created for, immutable
    category,     \* SQLite runs.failure_category
    launched,     \* SQLite events: a run.state_changed to RUNNING exists
    reservation,  \* SQLite provider_capacity_reservations.status
    activeRuns,   \* SQLite provider_health.active_runs
    process,      \* the provider process group the run's adapter spawned
    pc,           \* an invoker's position in its call
    cur,          \* the run it is working on
    attempts      \* the runs its call has prepared so far

run    == <<status, request, category, launched>>
slots  == <<reservation, activeRuns>>
locals == <<pc, cur, attempts>>
vars   == <<ticket, run, slots, process, locals>>

Requests  == [ticket : Tickets, task : Tasks, provider : Providers, routed : BOOLEAN]
NoRequest == [ticket |-> "none"]

(* Where an invoker waits between two transactions.                         *)
PCs == {"idle",        \* not in a call
        "prepared",    \* run CREATED, its slot not yet requested
        "unreserved",  \* the slot was refused: the run must be abandoned
        "reserved",    \* route() bound the slot to the run
        "loaded",      \* loadPreparedRun accepted it; gates and probes follow
        "started",     \* RUNNING is durable, adapter.execute not yet entered
        "spawned",     \* inside adapter.execute
        "done",        \* executeAgentTask returned: fall back or return
        "retry"}       \* the loop is about to try another provider

TypeOK ==
    /\ ticket \in [Tickets -> TicketStates]
    /\ status \in [Runs -> {"ABSENT"} \cup ActiveStates \cup TerminalStates]
    /\ request \in [Runs -> Requests \cup {NoRequest}]
    /\ \A r \in Runs : status[r] # "ABSENT" => request[r] \in Requests
    /\ category \in [Runs -> Categories]
    /\ launched \in [Runs -> BOOLEAN]
    /\ reservation \in [Runs -> {"none", "active", "released"}]
    /\ activeRuns \in [Providers -> Int]
    /\ process \in [Runs -> {"none", "alive", "gone"}]
    /\ pc \in [Invokers -> PCs]
    /\ cur \in [Invokers -> Runs \cup {NoRun}]
    /\ \A i \in Invokers : pc[i] # "idle" => cur[i] \in Runs /\ status[cur[i]] # "ABSENT"
    /\ attempts \in [Invokers -> SUBSET Runs]

(* Runs of an implemented ticket that ended long ago, and hold no slot, are  *)
(* left out.                                                                 *)
Init ==
    /\ ticket = [t \in Tickets |-> IF t \in Implemented THEN "VERIFYING" ELSE "PLANNING"]
    /\ status = [r \in Runs |-> "ABSENT"]
    /\ request = [r \in Runs |-> NoRequest]
    /\ category = [r \in Runs |-> "none"]
    /\ launched = [r \in Runs |-> FALSE]
    /\ reservation = [r \in Runs |-> "none"]
    /\ activeRuns = [p \in Providers |-> 0]
    /\ process = [r \in Runs |-> "none"]
    /\ pc = [i \in Invokers |-> "idle"]
    /\ cur = [i \in Invokers |-> NoRun]
    /\ attempts = [i \in Invokers |-> {}]

-----------------------------------------------------------------------------
(* Helpers shared by the handlers. *)

Active(r) == status[r] \in ActiveStates

Goto(i, to) == pc' = [pc EXCEPT ![i] = to] /\ UNCHANGED <<cur, attempts>>

(* The call returns or throws: nothing of it survives.                      *)
Leave(i) ==
    /\ pc' = [pc EXCEPT ![i] = "idle"]
    /\ cur' = [cur EXCEPT ![i] = NoRun]
    /\ attempts' = [attempts EXCEPT ![i] = {}]

KeepSlots == UNCHANGED slots

(* Mutant of ReleaseSlot: the reservation is closed, the count is not.      *)
ReleaseSlotUncounted(r) ==
    IF reservation[r] = "active"
    THEN reservation' = [reservation EXCEPT ![r] = "released"] /\ UNCHANGED activeRuns
    ELSE KeepSlots

(* releaseActiveModelReservation: a no-op when the run owns no slot.        *)
ReleaseSlot(r) ==
    IF reservation[r] = "active"
    THEN /\ reservation' = [reservation EXCEPT ![r] = "released"]
         /\ activeRuns' = [activeRuns EXCEPT ![request[r].provider] = @ - 1]
    ELSE KeepSlots

(* The run ends in NEEDS_HUMAN, if it is still active, and the slot goes    *)
(* back if the caller says so; a run that already ended is left untouched,  *)
(* its slot included.                                                       *)
MarkNeedsHuman(r, why, release) ==
    IF Active(r)
    THEN /\ status' = [status EXCEPT ![r] = "NEEDS_HUMAN"]
         /\ category' = [category EXCEPT ![r] = why]
         /\ IF release THEN ReleaseSlot(r) ELSE KeepSlots
         /\ UNCHANGED <<request, launched>>
    ELSE UNCHANGED <<run, slots>>

(* Mutant of PersistCreatedRun: the ticket is checked, its active run is not.*)
PersistCreatedRunUnchecked(r, req) ==
    /\ status[r] = "ABSENT"
    /\ ticket[req.ticket] = RequiredTicketState[req.task]
    /\ status' = [status EXCEPT ![r] = "CREATED"]
    /\ request' = [request EXCEPT ![r] = req]
    /\ UNCHANGED <<ticket, category, launched, slots, process>>

(* persistCreatedRun: one transaction that re-checks the ticket and that no *)
(* run of the ticket is active.                                             *)
PersistCreatedRun(r, req) ==
    /\ status[r] = "ABSENT"
    /\ ticket[req.ticket] = RequiredTicketState[req.task]
    /\ \A s \in Runs : Active(s) => request[s].ticket # req.ticket
    /\ status' = [status EXCEPT ![r] = "CREATED"]
    /\ request' = [request EXCEPT ![r] = req]
    /\ UNCHANGED <<ticket, category, launched, slots, process>>

(* Mutant of Enter: the id of the prepared run is not handed on.            *)
EnterWithoutRun(i, r, to) ==
    /\ pc' = [pc EXCEPT ![i] = to]
    /\ attempts' = [attempts EXCEPT ![i] = @ \cup {r}]
    /\ UNCHANGED cur

Enter(i, r, to) ==
    /\ pc' = [pc EXCEPT ![i] = to]
    /\ cur' = [cur EXCEPT ![i] = r]
    /\ attempts' = [attempts EXCEPT ![i] = @ \cup {r}]

-----------------------------------------------------------------------------
(* MODEL-001: choose a provider, bind its slot, fall back.                  *)

(* The first preview of a call, and the run prepared for what it chose.     *)
(* The preview's view of capacity may be stale by then, so it guards        *)
(* nothing: Reserve re-checks it.                                           *)
PrepareFirst(i, r) ==
    /\ pc[i] = "idle"
    /\ \E t \in Tickets, k \in Tasks, p \in Providers :
          PersistCreatedRun(r, [ticket |-> t, task |-> k, provider |-> p, routed |-> TRUE])
    /\ Enter(i, r, "prepared")

(* The next preview excludes every provider this call has tried.            *)
Excluded(i) == {request[r].provider : r \in attempts[i]}

PrepareFallback(i, r) ==
    /\ pc[i] = "retry"
    /\ \E p \in Providers \ Excluded(i) :
          PersistCreatedRun(r, [request[cur[i]] EXCEPT !.provider = p])
    /\ Enter(i, r, "prepared")

(* The preview finds no candidate, or the preparation is refused.           *)
GiveUp(i) ==
    /\ pc[i] = "retry"
    /\ Leave(i)
    /\ UNCHANGED <<ticket, run, slots, process>>

(* A caller of executeAgentTask that names no run: created and loaded in    *)
(* the same breath, without a slot.                                         *)
PrepareUnrouted(i, r) ==
    /\ pc[i] = "idle"
    /\ \E t \in Tickets, k \in Tasks, p \in Providers :
          PersistCreatedRun(r, [ticket |-> t, task |-> k, provider |-> p, routed |-> FALSE])
    /\ Enter(i, r, "loaded")

(* Mutant of Reserve: the preview's view of the capacity is trusted.        *)
ReserveOnPreview(i) ==
    LET r == cur[i]
    IN  /\ pc[i] = "prepared"
        /\ status[r] = "CREATED"
        /\ reservation[r] = "none"
        /\ reservation' = [reservation EXCEPT ![r] = "active"]
        /\ activeRuns' = [activeRuns EXCEPT ![request[r].provider] = @ + 1]
        /\ Goto(i, "reserved")
        /\ UNCHANGED <<ticket, run, process>>

(* route() with a run id: the slot and the durable decision, in one         *)
(* transaction that re-reads the run and the provider's count.              *)
Reserve(i) ==
    LET r == cur[i]
        p == request[r].provider
    IN  /\ pc[i] = "prepared"
        /\ status[r] = "CREATED"
        /\ reservation[r] = "none"
        /\ activeRuns[p] < Limit[p]
        /\ reservation' = [reservation EXCEPT ![r] = "active"]
        /\ activeRuns' = [activeRuns EXCEPT ![p] = @ + 1]
        /\ Goto(i, "reserved")
        /\ UNCHANGED <<ticket, run, process>>

(* The provider's health, catalog or count no longer admits the run, or the *)
(* run is no longer CREATED.                                                *)
ReserveRefused(i) ==
    /\ pc[i] = "prepared"
    /\ Goto(i, "unreserved")
    /\ UNCHANGED <<ticket, run, slots, process>>

(* abandonPreparedAgentTaskRun: only a CREATED run that owns no slot.       *)
Abandon(i) ==
    LET r == cur[i]
    IN  /\ pc[i] = "unreserved"
        /\ status[r] = "CREATED"
        /\ reservation[r] # "active"
        /\ MarkNeedsHuman(r, "other", FALSE)
        /\ Goto(i, "retry")
        /\ UNCHANGED <<ticket, process>>

AbandonRefused(i) ==
    /\ pc[i] = "unreserved"
    /\ Leave(i)
    /\ UNCHANGED <<ticket, run, slots, process>>

(* route() with the id of a run that already owns its slot answers with the *)
(* recorded decision, and executeSelectedAgentTask accepts it.              *)
Replay(i, r) ==
    /\ Replays
    /\ pc[i] = "idle"
    /\ status[r] = "CREATED"
    /\ reservation[r] = "active"
    /\ Enter(i, r, "reserved")
    /\ UNCHANGED <<ticket, run, slots, process>>

(* Mutant of ProvenPreLaunchFailure: the events are not searched for RUNNING.*)
FailureLooksPreLaunch(r) ==
    /\ status[r] = "NEEDS_HUMAN"
    /\ category[r] = "prelaunch"
    /\ reservation[r] # "active"

(* isProvenPreLaunchProviderFailure.  A recorded process or session id      *)
(* implies the RUNNING event, so that conjunct of the code is subsumed.     *)
ProvenPreLaunchFailure(r) ==
    /\ status[r] = "NEEDS_HUMAN"
    /\ category[r] = "prelaunch"
    /\ ~launched[r]
    /\ reservation[r] # "active"

Fallback(i) ==
    /\ pc[i] = "done"
    /\ request[cur[i]].routed
    /\ ProvenPreLaunchFailure(cur[i])
    /\ Goto(i, "retry")
    /\ UNCHANGED <<ticket, run, slots, process>>

Return(i) ==
    /\ pc[i] = "done"
    /\ ~(request[cur[i]].routed /\ ProvenPreLaunchFailure(cur[i]))
    /\ Leave(i)
    /\ UNCHANGED <<ticket, run, slots, process>>

-----------------------------------------------------------------------------
(* AGENT-001: executeAgentTaskInternal. *)

(* verifyExecutionBinding, the workspace proof and loadPreparedRun.         *)
Load(i) ==
    /\ pc[i] = "reserved"
    /\ reservation[cur[i]] = "active"
    /\ status[cur[i]] = "CREATED"
    /\ Goto(i, "loaded")
    /\ UNCHANGED <<ticket, run, slots, process>>

(* Mutant of WorkspaceRefused: the slot is kept as after a launch.          *)
WorkspaceRefusedKeepingSlot(i) ==
    /\ pc[i] = "reserved"
    /\ status[cur[i]] = "CREATED"
    /\ MarkNeedsHuman(cur[i], "other", FALSE)
    /\ Goto(i, "done")
    /\ UNCHANGED <<ticket, process>>

(* The workspace proof fails: markPreparedRunNeedsHumanBeforeLaunch proves  *)
(* CREATED again in the transaction that ends the run.                      *)
WorkspaceRefused(i) ==
    /\ pc[i] = "reserved"
    /\ status[cur[i]] = "CREATED"
    /\ MarkNeedsHuman(cur[i], "other", TRUE)
    /\ Goto(i, "done")
    /\ UNCHANGED <<ticket, process>>

(* The binding is not current (a refresh lost the authentication, the slot  *)
(* was reconciled), or the run is not CREATED: the call throws.             *)
BindingRefused(i) ==
    /\ pc[i] = "reserved"
    /\ Leave(i)
    /\ UNCHANGED <<ticket, run, slots, process>>

(* A safety gate, the second workspace proof or the last probe refuses.     *)
RefuseLaunch(i) ==
    /\ pc[i] = "loaded"
    /\ \E why \in {"prelaunch", "other"} : MarkNeedsHuman(cur[i], why, TRUE)
    /\ Goto(i, "done")
    /\ UNCHANGED <<ticket, process>>

(* Mutant of Start: the ticket stays in PLANNING.                           *)
StartWithoutTicket(i) ==
    /\ pc[i] = "loaded"
    /\ status[cur[i]] = "CREATED"
    /\ status' = [status EXCEPT ![cur[i]] = "RUNNING"]
    /\ launched' = [launched EXCEPT ![cur[i]] = TRUE]
    /\ Goto(i, "started")
    /\ UNCHANGED <<ticket, request, category, slots, process>>

(* startRun: RUNNING, its event and, for an implementation, the ticket's    *)
(* PLANNING -> IMPLEMENTING, in one transaction.                            *)
Start(i) ==
    LET r == cur[i]
        t == request[r].ticket
    IN  /\ pc[i] = "loaded"
        /\ status[r] = "CREATED"
        /\ request[r].task = "implementation" => ticket[t] = "PLANNING"
        /\ status' = [status EXCEPT ![r] = "RUNNING"]
        /\ launched' = [launched EXCEPT ![r] = TRUE]
        /\ ticket' = IF request[r].task = "implementation"
                     THEN [ticket EXCEPT ![t] = "IMPLEMENTING"] ELSE ticket
        /\ Goto(i, "started")
        /\ UNCHANGED <<request, category, slots, process>>

(* That transaction throws; the handler ends the run and rethrows.          *)
StartFails(i) ==
    /\ pc[i] = "loaded"
    /\ MarkNeedsHuman(cur[i], "other", TRUE)
    /\ Leave(i)
    /\ UNCHANGED <<ticket, process>>

(* adapter.execute spawns a detached group.  If the run is no longer        *)
(* RUNNING its onProcessStarted throws and the adapter terminates the group *)
(* it has just spawned, which Finish then reports, proven or not.           *)
Spawn(i) ==
    /\ pc[i] = "started"
    /\ process' = [process EXCEPT ![cur[i]] = "alive"]
    /\ Goto(i, "spawned")
    /\ UNCHANGED <<ticket, run, slots>>

SpawnFails(i) ==
    /\ pc[i] = "started"
    /\ Goto(i, "spawned")
    /\ UNCHANGED <<ticket, run, slots, process>>

(* The adapter answers (or throws) and the answer is recorded.  stopped is  *)
(* its proof that the owned group is gone: it never lies, but it may be     *)
(* missing, except from a success.  A success can be turned into            *)
(* NEEDS_HUMAN by the safety limits and by a malformed review.              *)
Answers(r) ==
    {a \in [outcome : TerminalStates, stopped : BOOLEAN] :
        /\ a.stopped => process[r] # "alive"
        /\ a.outcome = "SUCCEEDED" => a.stopped /\ process[r] = "gone"}

(* Mutant of Finish: the run is overwritten whatever its state.             *)
FinishUnconditionally(i) ==
    LET r == cur[i]
    IN  /\ pc[i] = "spawned"
        /\ \E a \in Answers(r) :
              /\ status' = [status EXCEPT ![r] = a.outcome]
              /\ category' = [category EXCEPT ![r] = "other"]
              /\ IF a.stopped THEN ReleaseSlot(r) ELSE KeepSlots
        /\ Goto(i, "done")
        /\ UNCHANGED <<ticket, request, launched, process>>

Finish(i) ==
    LET r == cur[i]
    IN  /\ pc[i] = "spawned"
        /\ status[r] = "RUNNING"
        /\ \E a \in Answers(r) :
              /\ status' = [status EXCEPT ![r] = a.outcome]
              /\ \E why \in {"prelaunch", "other"} :
                    category' = [category EXCEPT ![r] =
                                    IF a.outcome = "SUCCEEDED" THEN "none" ELSE why]
              /\ IF a.stopped THEN ReleaseSlot(r) ELSE KeepSlots
        /\ Goto(i, "done")
        /\ UNCHANGED <<ticket, request, launched, process>>

(* The run changed underneath, or the transaction throws: the fallback      *)
(* transaction ends the run, if it can, under the same proof.               *)
FinishFails(i) ==
    /\ pc[i] = "spawned"
    /\ \E a \in Answers(cur[i]) : MarkNeedsHuman(cur[i], "other", a.stopped)
    /\ Goto(i, "done")
    /\ UNCHANGED <<ticket, process>>

-----------------------------------------------------------------------------
(* The world around a call. *)

ProcessExits(r) ==
    /\ process[r] = "alive"
    /\ process' = [process EXCEPT ![r] = "gone"]
    /\ UNCHANGED <<ticket, run, slots, locals>>

(* The ShipGraph process dies; SQLite and the provider processes do not.    *)
Crash(i) ==
    /\ pc[i] # "idle"
    /\ Leave(i)
    /\ UNCHANGED <<ticket, run, slots, process>>

(* Mutants of Recover: the slot is released; a CREATED run is overlooked.   *)
RecoverReleasing(r) ==
    /\ Active(r)
    /\ MarkNeedsHuman(r, "stale", TRUE)
    /\ UNCHANGED <<ticket, process, locals>>

RecoverOnlyRunning(r) ==
    /\ status[r] = "RUNNING"
    /\ MarkNeedsHuman(r, "stale", FALSE)
    /\ UNCHANGED <<ticket, process, locals>>

(* recoverAgentRun: an operator ends a run, and keeps its slot.             *)
Recover(r) ==
    /\ Active(r)
    /\ MarkNeedsHuman(r, "stale", FALSE)
    /\ UNCHANGED <<ticket, process, locals>>

Working(r) == \E i \in Invokers : cur[i] = r

(* reconcileAgentRun --execution-stopped.  The code takes the operator's    *)
(* word; the operator of this model looks before giving it: no process of   *)
(* the run is alive and no ShipGraph process is about to spawn one.         *)
Reconcile(r) ==
    /\ status[r] \in TerminalStates
    /\ reservation[r] = "active"
    /\ process[r] # "alive" /\ ~Working(r)
    /\ ReleaseSlot(r)
    /\ UNCHANGED <<ticket, run, process, locals>>

(* What EXEC-001 and the repair loop do to the ticket between runs.         *)
Advance(t) ==
    /\ \/ /\ ticket[t] = "IMPLEMENTING"
          /\ \E r \in Runs : /\ status[r] = "SUCCEEDED"
                             /\ request[r].ticket = t
                             /\ request[r].task = "implementation"
          /\ ticket' = [ticket EXCEPT ![t] = "VERIFYING"]
       \/ /\ ticket[t] = "VERIFYING"
          /\ ticket' = [ticket EXCEPT ![t] = "REPAIRING"]
       \/ /\ ticket[t] = "REPAIRING"
          /\ ticket' = [ticket EXCEPT ![t] = "VERIFYING"]
    /\ UNCHANGED <<run, slots, process, locals>>

Halt(t) ==
    /\ ticket[t] # "HALTED"
    /\ ticket' = [ticket EXCEPT ![t] = "HALTED"]
    /\ UNCHANGED <<run, slots, process, locals>>

(* Every step an invoker takes once it is in a call.                        *)
InCall(i) ==
    \/ \E r \in Runs : PrepareFallback(i, r)
    \/ GiveUp(i)         \/ Reserve(i)        \/ ReserveRefused(i)
    \/ Abandon(i)        \/ AbandonRefused(i) \/ Fallback(i)
    \/ Return(i)         \/ Load(i)           \/ WorkspaceRefused(i)
    \/ BindingRefused(i) \/ RefuseLaunch(i)   \/ Start(i)
    \/ StartFails(i)     \/ Spawn(i)          \/ SpawnFails(i)
    \/ Finish(i)         \/ FinishFails(i)

BeginCall(i) ==
    \E r \in Runs : PrepareFirst(i, r) \/ PrepareUnrouted(i, r) \/ Replay(i, r)

Next ==
    \/ \E i \in Invokers : BeginCall(i) \/ InCall(i) \/ Crash(i)
    \/ \E r \in Runs : ProcessExits(r) \/ Recover(r) \/ Reconcile(r)
    \/ \E t \in Tickets : Advance(t) \/ Halt(t)

Spec == Init /\ [][Next]_vars

(* Timeouts bound every adapter call, so a call that is not killed goes on. *)
CallFairness == \A i \in Invokers : WF_vars(InCall(i))

(* The slot of a run nobody works on is given back by an operator only, who *)
(* recovers the run if it is still active, and ends its process.            *)
OperatorFairness ==
    \A r \in Runs : /\ WF_vars(Active(r) /\ ~Working(r) /\ Recover(r))
                    /\ WF_vars(ProcessExits(r))
                    /\ WF_vars(Reconcile(r))

FairSpec == Spec /\ CallFairness /\ OperatorFairness

-----------------------------------------------------------------------------
(* Safety. *)

(* At most one run of a ticket is CREATED or RUNNING, whatever the calls,   *)
(* operators and crashes do (persistCreatedRun, idx_runs_single_active).    *)
SingleActiveRun ==
    \A r, s \in Runs :
        Active(r) /\ Active(s) /\ request[r].ticket = request[s].ticket => r = s

SlotsOf(p) == {r \in Runs : reservation[r] = "active" /\ request[r].provider = p}

(* provider_health.active_runs is the number of slots held, and never more  *)
(* than the provider's limit: no path releases a slot twice, forgets one or *)
(* admits past the limit.                                                   *)
CapacityLedger ==
    \A p \in Providers :
        activeRuns[p] = Cardinality(SlotsOf(p)) /\ activeRuns[p] <= Limit[p]

(* While the provider process of a routed run is alive, its slot is held,   *)
(* so no other run can be admitted in its place: the reservation is given   *)
(* back "only when the adapter proves that its owned provider process group *)
(* stopped", and recovery keeps it (src/docs/architecture/ADAPTERS.md).  It *)
(* holds as long as a prepared run is executed by its creator only, and     *)
(* fails with Replays (releaseActiveModelReservation).                      *)
LiveProviderHoldsSlot ==
    \A r \in Runs :
        process[r] = "alive" /\ request[r].routed => reservation[r] = "active"

(* A run that was refused before its launch and is no longer active holds   *)
(* no slot: a slot outlives its run only when the run was launched or an    *)
(* operator recovered it (markRunNeedsHuman).  A binding that is refused    *)
(* throws, and leaves a CREATED run with its slot to the operator.          *)
RefusedRunHoldsNoSlot ==
    \A r \in Runs :
        reservation[r] = "active" =>
            Active(r) \/ launched[r] \/ category[r] = "stale"

(* One call of executeRoutedAgentTask falls back before a launch only: of   *)
(* all the runs it prepares, at most one ever entered its provider.         *)
OneLaunchPerCall ==
    \A i \in Invokers :
        \A r, s \in attempts[i] :
            process[r] # "none" /\ process[s] # "none" => r = s

(* A ticket's implementation is launched at most once, across calls,        *)
(* fallbacks, recoveries and crashes: the launch moves the ticket out of    *)
(* PLANNING in the transaction that makes it RUNNING.                       *)
OneImplementationLaunch ==
    \A r, s \in Runs :
        /\ launched[r] /\ request[r].task = "implementation"
        /\ launched[s] /\ request[s].task = "implementation"
        /\ request[r].ticket = request[s].ticket
        => r = s

(* A late answer never overwrites what recovery recorded, and never frees   *)
(* the slot recovery kept: only an operator does, once nothing of the run   *)
(* is left (finalizeRun's expected states against recoverAgentRun).         *)
RecoveredRunIsInert ==
    [][\A r \in Runs :
          status[r] = "NEEDS_HUMAN" /\ category[r] = "stale" =>
              /\ status'[r] = "NEEDS_HUMAN" /\ category'[r] = "stale"
              /\ reservation[r] = "active" /\ reservation'[r] # "active" =>
                    process[r] # "alive" /\ ~Working(r)]_vars

(* Liveness. *)

(* Every slot taken is given back, although recovery keeps it and crashes   *)
(* orphan it: some documented path always leads to its release.             *)
EverySlotReturns ==
    \A r \in Runs : reservation[r] = "active" ~> reservation[r] = "released"

=============================================================================
