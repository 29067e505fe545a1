# ShipGraph in TLA+

ShipGraph takes an approved ticket from a Linear webhook to an open pull request:
it claims the delivery, prepares an isolated git worktree, runs a coding agent of
some provider in it, repairs and reviews the result, checks readiness and hands
the branch to GitHub. It stops at `PR_OPEN`. This directory models the part of that
which is concurrent or has to survive a crash, model-checks it with TLC on small
instances, and proves its main invariants with TLAPS for every instance.

All paths below are relative to the repository; the program is `src/`.
(In `PROJECT.json` they carry one more `src/` in front.)

## 1. The system

```
Linear webhook ──► dispatch server ──claim──► executeTicket ──► createWorkspace
   (redelivered)     (KAR-13)                   (KAR-12)           (WORK-001, git)
                        │                          │
                        │                          ├─► routed implementation run ─► provider process
                        │                          │      (MODEL-001, AGENT-001)     (detached)
                        │                          ├─► repair / review / verification (KAR-10, KAR-9)
                        │                          ├─► readiness (KAR-11)
                        ◄── dispatch.completed ────┴─► push, PR, receipt, PR_OPEN (KAR-8)
```

Everything durable is in one SQLite database that several processes may open: CLI
commands, and dispatch servers. Three kinds of state fail differently:

- SQLite rows and events: a transaction happens or does not;
- memory of a ShipGraph process (who is in which call, which claims a server has in
  flight): lost in a crash;
- the world outside: git worktrees and branches, provider processes (spawned detached,
  so they outlive the process that spawned them), GitHub. No transaction covers it.

| Component | State | Operations | Makes it correct |
|---|---|---|---|
| Provider runs `execution/service.ts` | `runs`, run events, process evidence | prepare, start, finalize, abandon, recover, reconcile | one active run of a ticket; a recovered run stays recovered; one launched implementation |
| Provider capacity `model/service.ts`, `model-repositories.ts` | reservations, `provider_health.active_runs` | preview, reserve, execute, fall back, release | the counter is the number of reservations, within the limit; a live process has its slot |
| Provider process `adapters/agent/process.ts`, `command.ts` | the process group | spawn, stop, prove stopped | (external to SQLite) |
| Workspaces `workspace/service.ts`, `git/service.ts` | workspace rows, worktree, branch | create, wait, recover, compensate, verify, remove | the ticket limit; READY and PLANNING together; no reservation left behind |
| Dispatch `dispatch/service.ts`, `server.ts` | claims, completions; in-flight set | handle webhook, schedule, recover, complete | every claim completed, on evidence only |
| Ticket execution `execution/ticket.ts` | binding, started, terminal evidence | executeTicket | one execution of a ticket; final evidence |
| Ticket state machine `core/state-machine`, `ticket-state-store.ts` | `tickets.status`, revision | persistTicketTransition | only transitions of the table, compare-and-set |
| Repair, review, readiness `repair`, `review`, `readiness` | attempts, findings, verdicts per SHA | runPrePrRepair, runPrePrReviews, evaluatePrePrReadiness | evidence belongs to the exact candidate SHA; bounded attempts |
| GitHub handoff `github/service.ts`, `adapters/git-host` | PR evidence, receipt | createGitHubPullRequest | one PR of a branch, retried safely |
| Routing `model/router.ts`, `registry.ts`, `ledger.ts` | discovered models, scores | rank, discover | hard exclusions before scores |
| Backlog and eligibility `backlog`, `scheduler`, `backlog-sync.ts`, `dependency-graph.ts` | tickets, dependencies, eligibility | import, reconcile, select ready | eligibility follows the graph |
| Persistence, events, CLI, configuration | tables, indexes, schemas | | |

What is hard here: several servers drive one claim; every `await` inside
`executeTicket` is a place where another call moves the ticket; a run is refused
after its slot was taken; a provider answers after an operator gave its run up; a
creator of a worktree cannot tell a slow colleague from a dead one; a crash may fall
between any two transactions, and between a transaction and the git command or the
process it stands for. `PROJECT.json` lists these hazards at their lines.

## 2. The modules

| Module | Models | Extends |
|---|---|---|
| `AgentRun` | runs, slots, routed calls and provider processes | |
| `SlotLease` | what provider capacity promises: an abstract lease | |
| `AgentRunLease` | the refinement mapping AgentRun → SlotLease, and its invariant | `AgentRun` |
| `Workspace` | worktree creation, recovery, compensation, removal | |
| `Dispatch` | claims, servers and `executeTicket`, stage by stage | |
| `ExecutionLog` | what the events of claims and executions promise: an abstract history | |
| `Candidate` | verification, reviews, repairs and readiness of a commit | |
| `Handoff` | push, pull request, evidence, receipt, `PR_OPEN` | |
| `Router` | the score of a provider and the choice, as functions | |
| `Routing` | registry, health, refreshes, reservations and usage over time | `Router` |
| `Backlog` | import, approval, eligibility, ready queue, admission | |
| `DependencyGraph` | the graph traversal as it is written | |
| `MC...` | constants and symmetry for TLC; `MCRouting`, `MCBacklog` compare functions with reference definitions | their module |
| `AgentRunProofs`, `AgentRunLeaseProofs`, `WorkspaceProofs`, `DispatchProofs`, `CandidateProofs`, `HandoffProofs`, `RoutingProofs`, `BacklogProofs` | theorems | their module, `TLAPS` |

How they fit: `Dispatch` is the whole of `executeTicket` with each stage a few steps;
`Workspace` opens its admission, `AgentRun` its provider runs, `Candidate` its way from an
implemented commit to readiness, `Handoff` its way from readiness to `PR_OPEN`. `Backlog`
is where its tickets come from, `Routing` where the providers of `AgentRun` come from.
Each opened stage keeps the interface the other modules use: a ticket status, a status
of a run, a count of reservations.

Some definitions stand beside the action they vary and are used by no specification
(`ReserveOnPreview`, `DelayedNever`, `ClearOrCancelled` and the like): they are wrong
versions of it, and `PROJECT.json` pairs each property with one that TLC catches with it.

### AgentRun

`ticket`, `status`, `request`, `category`, `launched`, `reservation`, `activeRuns` are
columns (or the existence of an event); `process` is the world; `pc`, `cur`, `attempts`
are the memory of a call of `executeRoutedAgentTask` or `executeAgentTask`. One action
is one transaction or the code between two awaits:

| Code | Definitions |
|---|---|
| `executeRoutedAgentTaskInternal`: candidate, preparation, fallback, return | `PrepareFirst`, `PrepareFallback`, `GiveUp`, `Enter`, `Fallback`, `Return` |
| `prepareAgentTaskRun`, `abandonPreparedAgentTaskRun` | `PersistCreatedRun`, `Abandon`, `AbandonRefused` |
| `route` and `reserveProviderCapacityAndAppendRoutingDecision` | `Reserve`, `ReserveRefused`, `Replay` |
| `executeAgentTaskInternal`: load, workspace, binding, gates | `PrepareUnrouted`, `Load`, `WorkspaceRefused`, `BindingRefused`, `RefuseLaunch` |
| `startRun`, the adapter call, `finalizeRun` | `Start`, `StartFails`, `Spawn`, `SpawnFails`, `Finish`, `FinishFails`, `ProcessExits` |
| `markRunNeedsHuman`, `releaseProviderCapacity` (within the above) | `MarkNeedsHuman`, `ReleaseSlot` |
| `recoverAgentRun`, `reconcileAgentRun` | `Recover`, `Reconcile` |
| tickets moved by the rest of the program; death of a process | `Advance`, `Halt`; `Crash` |

`Replays` says whether a caller may execute a run another caller prepared (the durable
run id is a replay key). Not modelled: `maxAttempts = 0`, the Windows proof of a stop,
budgets, usage. `FAILED` stands for `TIMED_OUT` and `CANCELLED` too.

`Reconcile` has the guard an operator asserts with `--execution-stopped`: no call is
working on the run and its process is not alive. The operator who asserts it wrongly is
not modelled.

### Workspace

`ticket`, `status`, `owner` are rows; `tree`, `maker`, `branch`, `git` are disk and the git
command in progress; `pc`, `goal`, `mine` are callers. Path and branch are functions of the
ticket, so all reservations of a ticket name the same two: that is where the difficulty
comes from. A creator reserves, adds the worktree in two steps git may be interrupted
between, proves it, and finalizes READY with PLANNING in one commit; a waiter times out
and takes the reservation over; a failed creator claims its row and cleans up. Any call
may die at any step (`MaxCrashes`); its git command may go on. A git command that reports a failure
may have left nothing, half of its work or all of it (`GitFails`).

### Dispatch

`issue`, `completed`, `bound`, `started`, `terminal`, `run`, `repairs`, `reviewed`, `room`, `pr` are
rows or events read back for a decision; `server`, `listed`, `call` are the memory of dispatch
servers, lost in `Crash`. A call's position is the await `executeTicket` is at. The code
between two awaits is one action also with several servers, since SQLite serializes it
and Node does not interleave it, except where a crash between two transactions matters:
`Record` (terminal evidence), `Settle` (ticket), `Complete` (claim) are three.

A run and a workspace are a step each here; AgentRun and Workspace open them.
Abstractions: a ticket has one contract revision; `NO_CAPACITY` is a BLOCKED for the
workspace limit and `CONFLICT` a NEEDS_HUMAN for the binding; BUDGET_EXHAUSTED is handled
like NEEDS_HUMAN everywhere and is one here; `MaxFallbacks` stands for the router's
maximum of attempts. After an interrupted repair attempt both its resume and its giving
up are possible, because which of its runs existed is not kept.

`ExecutionLog` is what a reader of the events may rely on: no server, no call and no ticket
status. Its variables are those of Dispatch but `worked`, the claims with a run, and `raised`, which is
`pr`. It has six actions (issue, bind, work, publish, conclude, close), and the stages
between two of them are stutters.

### Candidate

`head` and `clean` are the worktree; `log`, `repairs`, `reviews`, `ready` are the events and run
rows the services read back; `call` is one call of `runPrePrRepair` followed by readiness,
lost in `Crash` and then begun again. Every look at the worktree is a step of its own,
because `Move` (a person, another provider) may come between any two of them. The steps
follow `repair/service.ts` from `Begin` (resume or refuse) over `ExactCleanHead`, `Verify`,
`Reviews` with `Snapshot`, `RequestReview`, `FinishReview`, to `Evaluate`, `StartRepair`, the
routed repair (`RouteRepair`, `LaunchRepair`, `FallBack`, `FinishRepair`), `InspectRepair`,
`VerifyTargeted` and `VerifyFinal`; then `Assess` and `Expose` of
`readiness/service.ts`, which looks for PASSED evidence with every command observed on the very
commit (`Verified`, `Result`): an event that names a commit only as the origin of a repair is
no verification of it. A commit is a number and descends from the smaller ones.

An attempt is not a run: it prepares one (`RouteRepair`), and if its slot is refused or its
provider fails before the launch (`FallBack`, status `REFUSED`) the attempt prepares another one,
as long as `attempt + fallbacks` stays within the limit. The attempt's evidence names the last
only. `Begin`, as the code, takes a run no evidence names for an interrupted repair, also if it
is one an attempt fell back from. A review row stands for the last run of its request, since
earlier ones report nothing and are no reason to refuse; a request that was made before is
answered by that run, or refused because its reservation was released.

### Handoff

`branch`, `prs`, `comments` are GitHub, `recorded`, `receipted`, `terminal` the events, `call` the
position of a caller of `executeTicket`. One action is one answer of git or GitHub, or one
write, with what the call does next: `Revalidate`, `Prove`, `Lookup`, `Push`, `Reread`, `Reprove`,
`Find` or `Create`, `Inspect`, `FindEvidence`, `AppendEvidence`, `FindReceipt`, `ListComments`,
`Post`, `AppendReceipt`, `OpenTicket`, `Record`. `Create` and `Post` may take effect
without their answer arriving. `MoveWorktree`, `PushForeign`, `EndPullRequest`, `ChangeTelemetry`
are the rest of the world. The evidence and the receipt are read and appended outside a
transaction, in two steps here as there. A comment has two names on GitHub: `postComment` takes the
number of the REST answer, `listComments` the number or else the node id. `listing` is which of them
this `gh` lists, unknown and the same for ever; `named` is how a receipt's comment was recorded.

### Router and Routing

`Router` has the whole arithmetic of `router.ts`: quota, reset, quality, latency,
concurrency, retries, family, and the choice with its ties. `Routing` has time: the stamp a
probe was started with (`BeginProbe`), what the programs answered (`ProbeVersion`,
`ProbeAuthentication`), the health row that was read before (`ReadPrevious`), and the
transaction that decides which of them to keep (`Persist`), beside `Snapshot`, `Select`,
`Reserve`, `Release` and `RecordUsage`. `truth` is what a provider really is. Stamps are taken
before a transaction and the transaction may wait: `Tick` may come in between.
`overtaken` remembers that a row's time went backwards, `seen` what the refreshes since a
change have seen.

### Backlog

`file` is the repository's file, `loaded` a sync's copy of it, the rest rows. `Load` and
`Sync` are two steps, `Sync` one transaction: drift, conflict and removal are refusals that
roll back (`Refuse`), else `Import` writes and promotes. `Check`, `Reserve` and `Start` are the
three looks `createWorkspace` and its callers take before a ticket is ACTIVE. `Transition`
is everything else that moves a ticket. Of the static contract the dependencies
are kept, which drift and conflict compare. `DependencyGraph` is the recursive traversal;
`MCBacklog` has TLC compare it with `Closed` and `Acyclic` on every graph of the instance.

## 3. The runs

| Run | Instance | States | Shows |
|---|---|---|---|
| `agent_run_safety` | 1 implemented ticket, 2 runs, 2 providers of 1 slot, 2 callers, replays | 528 k | type, `SingleActiveRun`, `CapacityLedger`, `RefusedRunHoldsNoSlot`, `OneLaunchPerCall`, `RecoveredRunIsInert` |
| `agent_run_liveness` | 1 ticket to implement, 2 runs, 2 providers, 2 callers, no replays, fair | 126 k | `LiveProviderHoldsSlot`, `OneImplementationLaunch`, `EverySlotReturns`, the refinement `ImplementsLease` |
| `workspace_safety` | 2 tickets, 2 rows, 2 callers, limit 1, 1 crash | 329 k | type, `WithinCapacity`, `AdmittedTogether`, `ReadyIsKept` |
| `workspace_resolves` | 1 ticket, 2 rows, 2 callers, 1 crash, fair | 47 k | `ReservationResolves` |
| `dispatch_servers` | 1 ticket, 2 claims, 2 servers, 1 repair, 1 fallback, 1 fault | 1.15 M | type, `OneImplementer`, `OnlyTheBoundRuns`, `ImplementsLog` |
| `dispatch_completes` | 2 tickets, 2 claims, 1 server, limit 1, 1 fault, fair | 305 k | `DispatchWithinCapacity`, `RaisedMeansOpen`, `EveryClaimCompletes` |
| `candidate_safety` | 1 command, 2 attempts, 2 commits, 1 crash, 1 move, fair | 2.47 M | type, `ReadyIsEarned`, `RepairsAreBounded`, `RepairsAreShown`, `CandidateSettles` |
| `handoff_safety` | 2 callers, 2 commits, 1 fault, 1 change, fair | 683 k | type, `RaisedIsProven`, `NothingTwice`, `CrashesAreRecovered` |
| `routing_safety` | 1 provider, 2 runs, 2 processes, clock 2 to 4, 1 change, 1 usage record | 3.02 M | type, `ActiveRunsAreReservations`, `RefreshRevokes`, `FailuresAreKept`; `RouterFollowsReference`, `QualityIsMonotone` as assumptions |
| `backlog_safety` | 3 tickets, 5 files, 2 syncs, limit 1, 2 edits, 1 suggestion | 291 k | type, `SyncedIsApproved`, `NothingStartsEarly`, `SomebodyCanGo`; `TraversalFindsCycles` as an assumption |
| `workspace_cleanup` | 1 ticket, 2 rows, 3 callers, 1 crash | | violates `CleanupSparesReady` |
| `dispatch_redrive` | 2 tickets, 3 claims, 1 server, limit 1 | | violates `RedriveIsNoConflict` |

Why these bounds. A race needs two actors, and two callers, processes or servers give
every pair; the third row, claim or caller is there where a hazard needs one more: a
re-drive beside a duplicate (3 claims), a waiter beside a dying creator and its successor
(3 callers). A limit of 1 makes every second request meet a full pool. Two tickets or
three appear where the property relates tickets: capacity, dependencies (three make a
cycle that is not a pair, and a chain to break in the middle). Two commits are the one
before and the one after a move or a repair. Two repair attempts let one be lost in a
crash and another one be tried. One provider is enough in `routing_safety`, whose
properties are about one row; the choice between two is `RouterFollowsReference`, over
every pair of candidates of its cases. Three clock readings put a probe, a reservation
and a usage record before, at and after each other's stamps. One crash or error at any point covers
each "dies between A and B". Symmetry is used in runs without a temporal property
under fairness only.

Deadlock is checked for the runs of Dispatch. Everywhere else it is off: pools of
run ids, rows, commits or clock ticks bound the exploration and are used up in the
end, and a handoff, a candidate or a halted ticket is really finished.

### Fairness

- *AgentRun*, `CallFairness`: timeouts bound every adapter call, so a call that is not
  killed goes on. `OperatorFairness`: a run of a dead call is recovered, its process ends,
  its slot is reconciled; nothing in the program does this by itself, and without it
  slots are retained, by design (ADAPTERS.md). Only runs nobody is working on are
  recovered fairly; recovery of others may happen.
- *Workspace*, `CallFairness`: calls and git commands that are not dead go on.
  `RetryFairness`: the execution of a ticket calls `createWorkspace` again and again; it is
  strong, because being able to begin a call is interrupted by other calls.
- *Dispatch*, `ServerFairness`: a dead server is started again and drives what it finds.
  `WorldFairness`: deliveries are repeated by the outer scheduler (README), and an
  operator recovers runs that no live call drives.
- *Candidate*: `WF(Step)`. A call that is not killed goes on, timeouts bound its providers,
  and `executeTicket` is driven again after a crash (that is Dispatch's `ServerFairness`). A
  run left active by a dead call need not be recovered: the next call settles without.
- *Handoff*: `WF(Step)` and `WF(Start)` of each caller, for the same reason.
- *Routing*, *Backlog*: none. Nothing there promises to happen; a sync is a command.

## 4. Disagreements with docs and comments

Two are runs that check one property, quoted in `PROJECT.json`, and end in a counterexample.

- `workspace_cleanup`: a failed creator removes the tree after it gave up its row; in
  between another reservation of the same path may become READY over that tree.
- `dispatch_redrive`: a ticket refused for capacity stays bound to the refused execution,
  so its re-drive is a conflict and pauses it.

Other behaviours of the code the models have and a reader should know of. No property
claims the contrary; where one would, the text says what it is conditional on.

*Runs and workspaces*

- Two callers execute one prepared run and both load it CREATED. One launches its provider; the
  refusal of the other (a gate, or the clean-up after `startRun` at `execution/service.ts:389`) marks
  the run NEEDS_HUMAN and releases the slot the live process uses, since
  `releaseActiveModelReservation` always says that execution stopped. ADAPTERS.md:120-124 retains the
  slot until that is proven. TLC finds it with one run, two callers and `Replays = TRUE`; hence
  `~Replays` in `agent_run_liveness` and in the theorems about the lease.
- A binding refused with an error (`model/service.ts:579-620`) leaves the run CREATED with its slot.
  `RefusedRunHoldsNoSlot` is about runs that are no longer active; this one waits for recovery.
- A run that ended without proof that its process stopped keeps its slot, but not its
  workspace: the next review axis or repair may start another provider there.
- READY workspaces of `PR_OPEN` tickets are counted with the reservations nobody has
  finished (`workspace/service.ts:332`) and fill the ticket limit.

*Dispatch*

- `RaisedMeansOpen` is checked with one server because it fails with two: a call that
  fails after another server raised the pull request gets the PR_RAISED evidence back from
  `appendTerminal`, and `terminalize` moves the ticket from PR_OPEN to NEEDS_HUMAN. In the same
  way a second failing call moves it from NEEDS_HUMAN to PAUSED.
- A crash between `Record` and `Settle` leaves a ticket active that no later call settles,
  and a FAILED execution of a PLANNING ticket has no allowed transition.
- A ticket the scheduler picks outside the first free places of ShipGraph's own queue is
  refused as "capacity is full" although there is room.

*Candidate and handoff*

- The runs an attempt fell back from are named by no evidence. If a later attempt dies while the
  ticket is REPAIRING, the next call takes the newest of them for an interrupted repair and asks a
  human, although no provider ever worked in it (`Begin`, `Unevidenced`).
- A crash after REPAIRED and before PASSED: the next call takes the repaired commit for one
  that needed no repair (`RepairsAreShown` is conditional on no crash). Two crashes can make
  a review that FAILED be asked again.
- A lost answer to the creation of the pull request ends in NEEDS_HUMAN with a pull request
  open (`CrashesAreRecovered` is conditional on no answer lost, no change by others, no overlap of
  calls, and one name for a comment).
- If listings name comments by node id (`adapters/git-host/github.ts:118-122`), a receipt recorded by
  number (`:146`) is never confirmed (`github/service.ts:474`). A crash between its evidence and
  PR_OPEN, or between PR_OPEN and the terminal evidence, then ends in NEEDS_HUMAN, although
  nothing was lost and nobody changed anything. This is a condition of `CrashesAreRecovered`
  (`unconfirmable`), which TLC violates with one crash without it. What `gh` lists is
  outside the repository. `NothingTwice` does not need it: a receipt is found by its marker.
- A receipt is found again by equality of its whole content, usage and health of the
  moment included: after a crash an unrelated run makes the retry a conflict.
- Two overlapping calls may record evidence and receipt twice (`NothingTwice` is about
  calls one after the other).

*Routing*

- A reservation, a release or a usage record during a refresh makes the health row newer
  than the refresh, and its "unauthenticated" is then discarded although
  `registry.ts:431-434` wants an ambiguous probe to revoke at once. `RefreshRevokes` is about a
  provider that disappeared, and about one logged out when nobody else wrote its health.
- Reservation and release read the clock before their transaction, so the time of a row can
  go backwards, and a refresh may then erase a failure (`FailuresAreKept`, `overtaken`).
- No probe reports a concurrency limit, so the limit of every provider is 1. Usage has no
  writer in the program but its public interface. A preference for another review family
  is 100 points, which other scores can outweigh in principle.

*Backlog*

- A ticket whose dependencies complete becomes eligible at the next sync only, and a drifted
  or removed ticket in the file refuses that sync for all of them.

## 5. What is proved

For every set of tickets, runs, callers, servers, commits, providers and every limit, number
of crashes and of changes by others, assuming only what the `ASSUME`s of the modules say: the
pools are finite, limits are naturals (positive where the configuration schema says so) and
the null values are outside the sets. The two theorems of Dispatch about one server say so.

| Theorem | States |
|---|---|
| `TypeCorrect` of every proof module but `AgentRunLeaseProofs` | `TypeOK`; in Dispatch and Candidate with the bound on repair attempts |
| `AgentRunProofs!AtMostOneActiveRun` | `SingleActiveRun` |
| `AgentRunProofs!LedgerExact` | `CapacityLedger` |
| `AgentRunProofs!ImplementationLaunchedOnce` | `OneImplementationLaunch`, replays included |
| `AgentRunProofs!CallLaunchesOnce` | `OneLaunchPerCall`, replays included |
| `AgentRunProofs!RefusedRunsHoldNoSlot` | `RefusedRunHoldsNoSlot` |
| `AgentRunProofs!RecoveredRunsAreInert` | `RecoveredRunIsInert` |
| `AgentRunLeaseProofs!LiveProvidersHoldSlots` | `LiveProviderHoldsSlot`, if `~Replays` |
| `AgentRunLeaseProofs!LeaseImplemented` | `ImplementsLease`, if `~Replays` |
| `WorkspaceProofs!CapacityRespected` | `WithinCapacity` |
| `WorkspaceProofs!ReadyWithPlanning` | `AdmittedTogether` |
| `WorkspaceProofs!ReadyIsNeverTakenBack` | `ReadyIsKept` |
| `DispatchProofs!OneImplementerAlways` | `OneImplementer` |
| `DispatchProofs!BoundRunsOnly` | `OnlyTheBoundRuns` |
| `DispatchProofs!CompletionHasEvidence` | `CompletedHasEvidence`: a completed claim has terminal evidence; no run repeats it |
| `DispatchProofs!TerminalNeverRevised` | `TerminalIsFinal`: terminal evidence is never revised; `ImplementsLog` includes it and no run repeats it |
| `DispatchProofs!LogImplemented` | `ImplementsLog`, for any number of servers |
| `DispatchProofs!OneServerWithinCapacity` | `DispatchWithinCapacity`, if there is one server |
| `DispatchProofs!RaisedStaysOpen` | `RaisedMeansOpen`, if there is one server |
| `CandidateProofs!ReadyEarned` | `ReadyIsEarned` |
| `CandidateProofs!RepairsBounded` | `RepairsAreBounded` |
| `CandidateProofs!RepairsAlwaysShown` | `RepairsAreShown` |
| `HandoffProofs!RaisedAlwaysProven` | `RaisedIsProven` |
| `HandoffProofs!NothingPublishedTwice` | `NothingTwice` |
| `RoutingProofs!ReservationsCounted` | `ActiveRunsAreReservations` |
| `RoutingProofs!RevokedIsNeverGranted` | `RefreshRevokes` |
| `RoutingProofs!FailuresStay` | `FailuresAreKept` |
| `BacklogProofs!ApprovedAsSynced` | `SyncedIsApproved` |
| `BacklogProofs!StartsInOrder` | `NothingStartsEarly` |
| `BacklogProofs!NoWaitingCycle` | `SomebodyCanGo` |

`~Replays` is needed: section 4 has the counterexample. So is one server: with two,
`decideClaim` of one and `createWorkspace` of the other count different things, and a late failure
moves a PR_OPEN ticket.

The arguments:

- *Runs.* Every step has one of four effects on the run table (`Untouched`, `Created`,
  `Ended`, `Started`; lemma `StepEffect`), and the invariants need only the effects.
  `SingleActiveRun` needs nothing more. The ledger needs that a slot belongs to an existing run
  (`SlotsAreOwned`), since the count is over requests, which are fixed only for existing
  runs. One implementation launch needs that a launched one has left PLANNING behind
  (`LaunchLeavesPlanning`), and no step returns a ticket there. For one launch of a call,
  `CallInv` says that every run a call has left behind is settled: it ended, nothing of it
  ever ran, and no later step, a replay by another caller included, starts it (`StepSettled`).
- *Lease.* `LeaseInv` says for each position of a call what its run looks like: no slot yet,
  a slot, a slot and no process. It needs that a run is in the hands of one call
  (`Exclusive`), which is exactly what a replay breaks. The refinement then maps each step
  of AgentRun to one of Take, Launch, Exit, GiveBack or a stutter (lemma `Simulation`).
- *Workspaces.* The load grows in one action only, and that action counts first in the
  same transaction; every other write to rows and tickets (`Writes`) keeps or lowers it.
- *Dispatch.* `DispatchInv` adds to the properties what makes them inductive: a call past
  the binding drives the bound execution (`DrivesTheBound`), bindings are of issued claims,
  a call in an implementing position has set `started` (`ImplementerStarted`), a repairing call
  has an attempt left, and a concluding call carries an outcome the ticket's
  transitions can record. The proof groups the forty actions by the few ways they
  touch evidence, ticket and call (the `...Shape` and `...Step` lemmas). With one server,
  `SoloInv` adds that a call about to record an outcome finds none recorded, and that an
  active ticket belongs to a claim the server counts.
- *Log.* Every step of Dispatch writes at most one kind of evidence, so it maps to one action of
  `ExecutionLog` or a stutter (`CallSimulates`, `OthersSimulate`). That the guards of
  these actions hold is `Told`: a call past its implementation belongs to an execution that has
  a run, one that opens the pull request finds its evidence, and what a call is about to
  record is CONFLICT exactly when the ticket is another's, PR_RAISED only with run and pull
  request. `EverBound` keeps what was told true: no binding changes once it is there. No
  assumption on the number of servers is needed, since evidence is only ever added.
- *Candidate.* Each of the 22 actions is one of 14 kinds of steps (`Steps`, lemma `EveryStep`): a
  call begins, ends for a human, looks, retries, prepares, launches or gives up a run, records
  what became of it. `Accounted` counts attempts, not rows: the evidence names every launched run
  but the last, and that one too whenever another may be prepared; launched runs have different
  attempts (`Spread`), all of which the events have used, and a call that may launch one is on
  an attempt no event has used yet, within the limit. How many rows an attempt prepares does not
  enter. `Earned` carries what was assessed over to the moment it is exposed, `Shown` says that
  without a crash the first candidate is evaluated before anything is recorded.
- *Handoff.* A call's position says what it has proven (`CallProven`), and what is written
  was proven when it was written (`EvidenceProven`). Nothing written is ever taken back
  (`Grows`), so both survive whatever others do. For calls one after the other, what a call
  found missing is still missing when it writes (`StillMissing`).
- *Routing.* `CallOK` relates the stamp and the failures a refresh carries to the row it
  will compare with, `RowsOK` the rows to the clock and to the provider, and `TrueSince` says that
  from the begin of a refresh that saw a provider's last change on, every answer at least as
  young is true, and once it is done every answer that would still be written.
  Probes take time: an answer is younger than its stamp.
- *Backlog.* A step leaves the rows alone, moves one status, adds a suggestion or imports a
  file (`StepEffect`). `GraphKept` says that every loaded, synced and stored graph is valid;
  an import passes because the union it checked is the graph it writes
  (`ImportedGraph`). A COMPLETE ticket is never moved, which carries `NothingStartsEarly`.
  `SomebodyCanGo` is not inductive and follows: dependencies of approved tickets are
  approved (the file is closed), and of those waiting one depends on none of them.

Every invariant and action property the passing runs check is a theorem. Model-checked only:
liveness (`EverySlotReturns`, `ReservationResolves`, `EveryClaimCompletes`,
`CrashesAreRecovered`, `CandidateSettles`), which under fairness is out of the proof system's
reach; the comparisons of `Router` and `DependencyGraph` with their reference definitions,
the second of which is a recursive operator; and the disagreements.

## 6. Not modelled, and the plan

Not modelled: output parsing and provider command lines, signatures and payload schemas,
migrations and row mapping, CLI arguments and output, configuration parsing, path
checks, catalogs and quotas as the providers report them, safety budgets and the
compaction of usage, the texts of instructions, pull requests and receipts. They decide
whether a call is made, or how something reads, not what order things happen in.

What is left, in the order of what it adds:

1. `AgentRun` and `Workspace` composed: a tree is not removed under a live process, and the
   next task does not start beside one that was not proven stopped.
2. `ExecutionLog` with the pull request itself, implemented by Dispatch and Handoff together:
   in Dispatch the evidence of a pull request is one step.

## 7. Running it

`tlc -config <run's cfg> <module>` in this directory with the community modules on the
library path, e.g. `tlc -config Dispatch_servers.cfg MCDispatch`; `tlapm DispatchProofs.tla`.
Every run takes between some seconds and about three minutes with two workers,
`candidate_safety`, `dispatch_completes` and `routing_safety` the longest; each proof module up to
three minutes.
