------------------------------ MODULE Dispatch ------------------------------
(***************************************************************************)
(* KAR-13 and KAR-12: from a webhook delivery to durable terminal evidence *)
(* (src/src/dispatch/service.ts, src/src/execution/ticket.ts).             *)
(*                                                                         *)
(* A dispatch server turns a delivery into a durable claim, which is also  *)
(* the identity of the execution, and drives executeTicket for it in the   *)
(* background.  The claim survives the server: another start, or another   *)
(* delivery, drives it again, and only events in SQLite tell the new call  *)
(* how far the old one came.  Which claims a server drives right now is in *)
(* its memory only (inFlight).                                             *)
(*                                                                         *)
(* A provider run and a workspace are one step each here: AgentRun and     *)
(* Workspace open them.  A ticket has one contract revision.  One action   *)
(* is the code between two awaits, or one transaction where a crash        *)
(* between two of them matters.                                            *)
(***************************************************************************)
EXTENDS Naturals, FiniteSets

CONSTANTS Tickets,      \* approved tickets, dependency-valid
          Claims,       \* the pool of claims, each with its execution id
          Servers,      \* processes that run a dispatch server
          MaxTickets,   \* execution.maxConcurrentTickets
          MaxRepairs,   \* execution.maxRepairIterations
          MaxFallbacks, \* provider fallbacks within one routed execution
          MaxFaults,    \* crashes and unexpected errors
          NoTicket, NoClaim

ASSUME TicketsAssumption == IsFiniteSet(Tickets) /\ NoTicket \notin Tickets
ASSUME ClaimsAssumption  == IsFiniteSet(Claims) /\ NoClaim \notin Claims
ASSUME BoundsAssumption  ==
    /\ MaxTickets \in Nat \ {0}
    /\ MaxRepairs \in Nat /\ MaxFallbacks \in Nat /\ MaxFaults \in Nat

TicketStates == {"ELIGIBLE", "PLANNING", "IMPLEMENTING", "VERIFYING", "REPAIRING",
                 "PR_OPEN", "PAUSED", "FAILED", "NEEDS_HUMAN"}

ActiveStates == {"PLANNING", "IMPLEMENTING", "VERIFYING", "REPAIRING"}

(* The table's row of each state above, without the states nothing of the   *)
(* program moves a ticket to.                                               *)
allowedTransitions ==
    [ELIGIBLE     |-> {"PLANNING", "PAUSED"},
     PLANNING     |-> {"IMPLEMENTING", "PAUSED"},
     IMPLEMENTING |-> {"VERIFYING", "PAUSED", "FAILED"},
     VERIFYING    |-> {"PR_OPEN", "REPAIRING", "FAILED", "NEEDS_HUMAN"},
     REPAIRING    |-> {"VERIFYING", "FAILED", "NEEDS_HUMAN"},
     PR_OPEN      |-> {"NEEDS_HUMAN"},
     PAUSED       |-> {"ELIGIBLE"},
     FAILED       |-> {"REPAIRING", "NEEDS_HUMAN"},
     NEEDS_HUMAN  |-> {"PAUSED"}]

(* What execution.terminal may say.  NO_CAPACITY is a BLOCKED whose reason  *)
(* is the workspace's capacity, CONFLICT a NEEDS_HUMAN whose reason is that *)
(* the ticket is bound to another execution; a BUDGET_EXHAUSTED is handled  *)
(* like NEEDS_HUMAN everywhere and is one here.                             *)
Outcomes == {"PR_RAISED", "NEEDS_HUMAN", "CONFLICT", "FAILED", "BLOCKED", "NO_CAPACITY"}

(* The execution's latest implementation run; "assisted" is a succeeded one *)
(* with a review or repair run of the same execution active.                *)
RunStates == {"none", "created", "running", "succeeded", "assisted", "failed", "needsHuman"}

VARIABLES
    ticket,     \* SQLite tickets.status
    issue,      \* SQLite dispatch.claimed: the ticket of a claim
    completed,  \* SQLite dispatch.completed
    bound,      \* SQLite execution.contract_bound: the execution of a ticket
    started,    \* SQLite execution.started
    terminal,   \* SQLite execution.terminal
    run,        \* SQLite runs of an execution
    repairs,    \* SQLite repair.attempt_recorded: completed attempts
    reviewed,   \* SQLite runs: executions whose candidate SHA has both reviews
    room,       \* SQLite workspaces: the ticket's row
    pr,         \* SQLite github.pr_recorded: tickets with PR evidence
    server,     \* a server's phase
    listed,     \* claims its startup recovery has still to look at
    call,       \* its executeTicket calls, by claim
    faults

evidence == <<issue, completed, bound, started, terminal, run, repairs, reviewed, pr>>
memory   == <<server, listed, call>>
vars     == <<ticket, evidence, room, memory, faults>>

Positions ==
    {"idle", "scheduled", "acquire", "acquired", "routing", "running", "ran",
     "verifying", "reviewing", "reviewed", "repairing", "ready",
     "handoff", "opening", "recovering", "reopening", "record", "settle", "complete"}

(* The locals of executeTicket: the ticket and the run it read at the start,*)
(* the fallbacks of its routed execution, the outcome it is about to record.*)
Calls == [at : Positions, eligible : BOOLEAN, run : RunStates,
          fallbacks : 0..MaxFallbacks, want : Outcomes \cup {"none"}]

Idle == [at |-> "idle", eligible |-> FALSE, run |-> "none", fallbacks |-> 0, want |-> "none"]

TypeOK ==
    /\ ticket \in [Tickets -> TicketStates]
    /\ issue \in [Claims -> Tickets \cup {NoTicket}]
    /\ completed \in SUBSET Claims
    /\ bound \in [Tickets -> Claims \cup {NoClaim}]
    /\ started \in SUBSET Claims
    /\ terminal \in [Claims -> Outcomes \cup {"none"}]
    /\ run \in [Claims -> RunStates]
    /\ repairs \in [Claims -> 0..MaxRepairs]
    /\ reviewed \in SUBSET Claims
    /\ room \in [Tickets -> {"none", "ready", "removed"}]
    /\ pr \in SUBSET Tickets
    /\ server \in [Servers -> {"down", "recovering", "listening"}]
    /\ listed \in [Servers -> SUBSET Claims]
    /\ call \in [Servers -> [Claims -> Calls]]
    /\ \A s \in Servers, c \in Claims :
          c \in listed[s] \/ call[s][c].at # "idle" => issue[c] \in Tickets
    /\ faults \in 0..MaxFaults

Init ==
    /\ ticket = [t \in Tickets |-> "ELIGIBLE"]
    /\ issue = [c \in Claims |-> NoTicket]
    /\ completed = {}
    /\ bound = [t \in Tickets |-> NoClaim]
    /\ started = {}
    /\ terminal = [c \in Claims |-> "none"]
    /\ run = [c \in Claims |-> "none"]
    /\ repairs = [c \in Claims |-> 0]
    /\ reviewed = {}
    /\ room = [t \in Tickets |-> "none"]
    /\ pr = {}
    /\ server = [s \in Servers |-> "down"]
    /\ listed = [s \in Servers |-> {}]
    /\ call = [s \in Servers |-> [c \in Claims |-> Idle]]
    /\ faults = 0

-----------------------------------------------------------------------------
(* What the durable state says. *)

Issued == {c \in Claims : issue[c] # NoTicket}

(* activeClaims: no completion and no terminal evidence.                    *)
ActiveClaims == {c \in Issued : c \notin completed /\ terminal[c] = "none"}

Active == {t \in Tickets : ticket[t] \in ActiveStates}

(* findActiveByTicket: implementation, review or repair.                    *)
RunActive(t) ==
    \E c \in Claims : issue[c] = t /\ run[c] \in {"created", "running", "assisted"}

(* Mutant of DispatchCapacity: claims whose ticket is not active yet.       *)
DispatchCapacityOfActive == Cardinality(Active) < MaxTickets

(* decideClaim counts the active tickets, and the others with a claim.      *)
DispatchCapacity ==
    Cardinality(Active \cup {issue[c] : c \in ActiveClaims}) < MaxTickets

(* createWorkspace counts the active tickets, and the rows of the others.   *)
WorkspaceCapacity ==
    Cardinality(Active \cup {t \in Tickets : room[t] = "ready"}) < MaxTickets

CanTransition(t, next) == next \in allowedTransitions[ticket[t]]

Transition(t, next) == ticket' = [ticket EXCEPT ![t] = next]

(* runOutcome, of an implementation run that did not succeed.               *)
RunOutcome(status) == IF status = "needsHuman" THEN "NEEDS_HUMAN" ELSE "FAILED"

At(s, c, places) == call[s][c].at \in places

Goto(s, c, to) ==
    call' = [call EXCEPT ![s][c].at = to] /\ UNCHANGED <<server, listed>>

(* On the way to appendTerminal.                                            *)
Conclude(s, c, outcome) ==
    /\ call' = [call EXCEPT ![s][c] = [@ EXCEPT !.at = "record", !.want = outcome]]
    /\ UNCHANGED <<server, listed>>

Leave(s, c) == call' = [call EXCEPT ![s][c] = Idle] /\ UNCHANGED <<server, listed>>

(* A stage starts by looking for terminal evidence somebody else recorded.  *)
Continue(s, c, to) == Goto(s, c, IF terminal[c] # "none" THEN "complete" ELSE to)

-----------------------------------------------------------------------------
(* The dispatch server. *)

(* scheduleClaim: a server drives a claim once at a time.                   *)
Schedule(s, c) ==
    /\ call[s][c].at = "idle"
    /\ Goto(s, c, "scheduled")

(* Mutant of Reconciled: nothing is reconciled.                             *)
ReconciledNothing == completed

(* Mutant of Reconciled: an execution that started counts as over.          *)
ReconciledStarted == completed \cup {c \in Issued : c \in started}

(* reconcileCompletedClaims.                                                *)
Reconciled == completed \cup {c \in Issued : terminal[c] # "none"}

(* startLinearDispatchServer: recoverIncompleteClaims reconciles and lists. *)
StartServer(s) ==
    /\ server[s] = "down"
    /\ server' = [server EXCEPT ![s] = "recovering"]
    /\ listed' = [listed EXCEPT ![s] = ActiveClaims]
    /\ completed' = Reconciled
    /\ UNCHANGED <<ticket, issue, bound, started, terminal, run, repairs, reviewed, pr, room, call, faults>>

(* recoverClaim: Linear and the resolver are asked first, so the claim may  *)
(* have changed since it was listed; a claim they no longer vouch for, or   *)
(* whose ticket has an active run, is passed over.                          *)
RecoverClaim(s, c) ==
    /\ server[s] = "recovering"
    /\ c \in listed[s]
    /\ listed' = [listed EXCEPT ![s] = @ \ {c}]
    /\ \/ UNCHANGED call
       \/ /\ ~RunActive(issue[c])
          /\ call[s][c].at = "idle"
          /\ call' = [call EXCEPT ![s][c].at = "scheduled"]
    /\ UNCHANGED <<ticket, evidence, room, server, faults>>

Listen(s) ==
    /\ server[s] = "recovering"
    /\ listed[s] = {}
    /\ server' = [server EXCEPT ![s] = "listening"]
    /\ UNCHANGED <<ticket, evidence, room, listed, call, faults>>

(* Every delivery reconciles before it is looked at.                        *)
Reconcile(s) ==
    /\ server[s] = "listening"
    /\ completed' = Reconciled
    /\ UNCHANGED <<ticket, issue, bound, started, terminal, run, repairs, reviewed, pr, room, memory, faults>>

(* decideClaim: the ticket, its claims, its runs and the capacity, in one   *)
(* transaction.                                                             *)
Claim(s, t, c) ==
    /\ server[s] = "listening"
    /\ issue[c] = NoTicket
    /\ ticket[t] = "ELIGIBLE"
    /\ \A d \in ActiveClaims : issue[d] # t
    /\ ~RunActive(t)
    /\ DispatchCapacity
    /\ issue' = [issue EXCEPT ![c] = t]
    /\ Schedule(s, c)
    /\ UNCHANGED <<ticket, completed, bound, started, terminal, run, repairs, reviewed, pr, room, faults>>

(* A delivery for a ticket that has an active claim resumes it, unless it   *)
(* is in flight here or one of its runs is active.                          *)
Redeliver(s, c) ==
    /\ server[s] = "listening"
    /\ c \in ActiveClaims
    /\ ~RunActive(issue[c])
    /\ Schedule(s, c)
    /\ UNCHANGED <<ticket, evidence, room, faults>>

-----------------------------------------------------------------------------
(* executeTicket: binding and admission. *)

(* Mutant of Binding: the latest execution takes over.                      *)
BindingOfLatest(t, c) == c

(* bindExecution: the first execution of the ticket's contract revision     *)
(* keeps it for good.                                                       *)
Binding(t, c) == IF bound[t] = NoClaim THEN c ELSE bound[t]

(* Everything up to the first await.                                        *)
Begin(s, c) ==
    LET t == issue[c]
        resume == [call[s][c] EXCEPT !.eligible = (ticket[t] = "ELIGIBLE"), !.run = run[c]]
        enter(to) == call' = [call EXCEPT ![s][c] = [resume EXCEPT !.at = to]]
                        /\ UNCHANGED <<server, listed>>
    IN  /\ At(s, c, {"scheduled"})
        /\ bound' = [bound EXCEPT ![t] = Binding(t, c)]
        /\ IF Binding(t, c) # c
           THEN IF terminal[c] # "none" THEN Leave(s, c) ELSE Conclude(s, c, "CONFLICT")
           ELSE IF terminal[c] # "none" THEN enter("complete")
           ELSE IF ticket[t] = "PR_OPEN" THEN enter("recovering")
           ELSE IF ticket[t] \in {"PAUSED", "NEEDS_HUMAN"} THEN Conclude(s, c, "NEEDS_HUMAN")
           ELSE IF ticket[t] = "FAILED" THEN Conclude(s, c, "FAILED")
           ELSE enter("acquire")
        /\ UNCHANGED <<ticket, issue, completed, started, terminal, run, repairs, reviewed, pr, room, faults>>

(* createWorkspace for a ticket it read as ELIGIBLE: READY and PLANNING     *)
(* together; a removed workspace leaves its branch behind, which refuses.   *)
CreateWorkspace(s, c) ==
    LET t == issue[c]
    IN  /\ At(s, c, {"acquire"})
        /\ call[s][c].eligible
        /\ room[t] = "none" /\ ticket[t] = "ELIGIBLE" /\ WorkspaceCapacity
        /\ room' = [room EXCEPT ![t] = "ready"]
        /\ Transition(t, "PLANNING")
        /\ Goto(s, c, "acquired")
        /\ UNCHANGED <<evidence, faults>>

(* The workspace there is is verified and reused.                           *)
ReuseWorkspace(s, c) ==
    /\ At(s, c, {"acquire"})
    /\ room[issue[c]] = "ready"
    /\ Goto(s, c, "acquired")
    /\ UNCHANGED <<ticket, evidence, room, faults>>

CapacityRefused(s, c) ==
    /\ At(s, c, {"acquire"})
    /\ call[s][c].eligible
    /\ room[issue[c]] # "ready" /\ ~WorkspaceCapacity
    /\ Conclude(s, c, "NO_CAPACITY")
    /\ UNCHANGED <<ticket, evidence, room, faults>>

AcquireFails(s, c) ==
    /\ At(s, c, {"acquire"})
    /\ \/ Conclude(s, c, "NEEDS_HUMAN")
       \/ call[s][c].eligible /\ Conclude(s, c, "BLOCKED")
    /\ UNCHANGED <<ticket, evidence, room, faults>>

(* Mutant of Admit: whether somebody started before is not asked.           *)
AdmitAnyone(s, c) ==
    LET t == issue[c]
        known == call[s][c].run
    IN  /\ At(s, c, {"acquired"})
        /\ started' = started \cup {c}
        /\ IF RunActive(t) THEN Conclude(s, c, "NEEDS_HUMAN")
           ELSE IF known # "none" THEN Goto(s, c, "ran")
           ELSE IF ticket[t] \in {"PLANNING", "IMPLEMENTING"} THEN Goto(s, c, "routing")
           ELSE Conclude(s, c, "NEEDS_HUMAN")
        /\ UNCHANGED <<ticket, issue, completed, bound, terminal, run, repairs, reviewed, pr, room, faults>>

(* appendStarted and the decision that follows it.  The run is the one read *)
(* before the workspace was acquired.                                       *)
Admit(s, c) ==
    LET t == issue[c]
        known == call[s][c].run
    IN  /\ At(s, c, {"acquired"})
        /\ started' = started \cup {c}
        /\ IF RunActive(t) THEN Conclude(s, c, "NEEDS_HUMAN")
           ELSE IF c \in started /\ known = "none" THEN Conclude(s, c, "NEEDS_HUMAN")
           ELSE IF known # "none" THEN Goto(s, c, "ran")
           ELSE IF ticket[t] \in {"PLANNING", "IMPLEMENTING"} THEN Goto(s, c, "routing")
           ELSE Conclude(s, c, "NEEDS_HUMAN")
        /\ UNCHANGED <<ticket, issue, completed, bound, terminal, run, repairs, reviewed, pr, room, faults>>

-----------------------------------------------------------------------------
(* executeTicket: the implementation, through executeRoutedAgentTask.       *)

SetRun(c, status) == run' = [run EXCEPT ![c] = status]

KeepButRun == UNCHANGED <<issue, completed, bound, started, terminal, repairs, reviewed, pr, room, faults>>

Prepare(s, c) ==
    /\ At(s, c, {"routing"})
    /\ ticket[issue[c]] = "PLANNING" /\ ~RunActive(issue[c])
    /\ SetRun(c, "created")
    /\ Goto(s, c, "running")
    /\ UNCHANGED ticket /\ KeepButRun

(* No provider, a refused preparation, a lost slot: the routed execution    *)
(* throws, and the outcome depends on what it leaves behind.                *)
RoutingThrows(s, c) ==
    /\ At(s, c, {"routing", "running"})
    /\ Conclude(s, c, IF RunActive(issue[c]) THEN "NEEDS_HUMAN" ELSE "FAILED")
    /\ UNCHANGED <<ticket, evidence, room, faults>>

Launch(s, c) ==
    /\ At(s, c, {"running"})
    /\ run[c] = "created" /\ ticket[issue[c]] = "PLANNING"
    /\ SetRun(c, "running")
    /\ Transition(issue[c], "IMPLEMENTING")
    /\ UNCHANGED memory /\ KeepButRun

(* Refused before its launch: another provider is tried, or the run is the  *)
(* result.                                                                  *)
LaunchRefused(s, c) ==
    /\ At(s, c, {"running"})
    /\ run[c] = "created"
    /\ SetRun(c, "needsHuman")
    /\ \/ /\ call[s][c].fallbacks < MaxFallbacks
          /\ call' = [call EXCEPT ![s][c] =
                [@ EXCEPT !.at = "routing", !.fallbacks = call[s][c].fallbacks + 1]]
       \/ call' = [call EXCEPT ![s][c] = [@ EXCEPT !.at = "ran", !.run = "needsHuman"]]
    /\ UNCHANGED <<ticket, server, listed>> /\ KeepButRun

(* The provider answers; a run that recovery ended meanwhile stays as it is.*)
RunEnds(s, c) ==
    /\ At(s, c, {"running"})
    /\ run[c] \in {"running", "needsHuman"}
    /\ \E status \in {"succeeded", "failed", "needsHuman"} :
          /\ run[c] = "needsHuman" => status = "needsHuman"
          /\ SetRun(c, status)
          /\ call' = [call EXCEPT ![s][c] = [@ EXCEPT !.at = "ran", !.run = status]]
    /\ UNCHANGED <<ticket, server, listed>> /\ KeepButRun

(* recoverAgentRun, by an operator, on a run of a crashed server or a live. *)
RecoverRun(c) ==
    /\ run[c] \in {"created", "running", "assisted"}
    /\ SetRun(c, IF run[c] = "assisted" THEN "succeeded" ELSE "needsHuman")
    /\ UNCHANGED <<ticket, memory>> /\ KeepButRun

(* Between the implementation and its verification, without an await.  A    *)
(* spent budget ends the execution here.                                    *)
Ran(s, c) ==
    LET t == issue[c]
    IN  /\ At(s, c, {"ran"})
        /\ IF call[s][c].run \notin {"succeeded", "assisted"}
           THEN Conclude(s, c, RunOutcome(call[s][c].run)) /\ UNCHANGED ticket
           ELSE \/ Conclude(s, c, "NEEDS_HUMAN") /\ UNCHANGED ticket
                \/ /\ Continue(s, c, "verifying")
                   /\ IF terminal[c] = "none" /\ ticket[t] = "IMPLEMENTING"
                      THEN Transition(t, "VERIFYING") ELSE UNCHANGED ticket
        /\ UNCHANGED <<evidence, room, faults>>

-----------------------------------------------------------------------------
(* executeTicket: runPrePrRepair and runPrePrReadiness.                     *)

(* An interrupted attempt that had not created its run yet is verified      *)
(* again; one that had is given up (RepairGivesUp).  Which of the two it    *)
(* was is not kept here: both are open.                                     *)
ResumeRepair(s, c) ==
    /\ At(s, c, {"verifying"})
    /\ ticket[issue[c]] = "REPAIRING" /\ ~RunActive(issue[c])
    /\ Transition(issue[c], "VERIFYING")
    /\ UNCHANGED <<evidence, room, memory, faults>>

Review(s, c) ==
    /\ At(s, c, {"verifying"})
    /\ ticket[issue[c]] = "VERIFYING" /\ ~RunActive(issue[c])
    /\ SetRun(c, "assisted")
    /\ Goto(s, c, "reviewing")
    /\ UNCHANGED ticket /\ KeepButRun

AssistantEnds(c) == SetRun(c, IF run[c] = "assisted" THEN "succeeded" ELSE run[c])

(* Two authoritative reports, or not.                                       *)
ReviewEnds(s, c) ==
    /\ At(s, c, {"reviewing"})
    /\ AssistantEnds(c)
    /\ \/ run[c] = "assisted" /\ reviewed' = reviewed \cup {c}
       \/ UNCHANGED reviewed
    /\ Goto(s, c, "reviewed")
    /\ UNCHANGED <<ticket, issue, completed, bound, started, terminal, repairs, pr, room, faults>>

(* Both axes were already reviewed at this SHA.                             *)
ReviewsAreCurrent(s, c) ==
    /\ At(s, c, {"verifying"})
    /\ ticket[issue[c]] = "VERIFYING" /\ c \in reviewed
    /\ Goto(s, c, "reviewed")
    /\ UNCHANGED <<ticket, evidence, room, faults>>

(* Mutant of Repair: the attempts are not counted.                          *)
RepairWithoutLimit(s, c) ==
    /\ At(s, c, {"reviewed"})
    /\ c \in reviewed
    /\ CanTransition(issue[c], "REPAIRING") /\ ~RunActive(issue[c])
    /\ Transition(issue[c], "REPAIRING")
    /\ SetRun(c, "assisted")
    /\ Goto(s, c, "repairing")
    /\ KeepButRun

(* Something blocks the candidate and an attempt is left.                   *)
Repair(s, c) ==
    /\ At(s, c, {"reviewed"})
    /\ c \in reviewed
    /\ repairs[c] < MaxRepairs
    /\ CanTransition(issue[c], "REPAIRING") /\ ~RunActive(issue[c])
    /\ Transition(issue[c], "REPAIRING")
    /\ SetRun(c, "assisted")
    /\ Goto(s, c, "repairing")
    /\ KeepButRun

(* The attempt's evidence and the way back to VERIFYING, at another SHA or, *)
(* if the repair run changed nothing, at the same.                          *)
Repaired(s, c) ==
    /\ At(s, c, {"repairing"})
    /\ CanTransition(issue[c], "VERIFYING")
    /\ repairs' = [repairs EXCEPT ![c] = @ + 1]
    /\ reviewed' = reviewed \ {c} \/ UNCHANGED reviewed
    /\ AssistantEnds(c)
    /\ Transition(issue[c], "VERIFYING")
    /\ Goto(s, c, "verifying")
    /\ UNCHANGED <<issue, completed, bound, started, terminal, pr, room, faults>>

(* The evidence of failure moves the ticket itself.  An active run is left  *)
(* to its owner.                                                            *)
RepairGivesUp(s, c) ==
    /\ At(s, c, {"verifying", "reviewed", "repairing"})
    /\ CanTransition(issue[c], "NEEDS_HUMAN")
    /\ Transition(issue[c], "NEEDS_HUMAN")
    /\ IF At(s, c, {"repairing"}) THEN AssistantEnds(c) ELSE UNCHANGED run
    /\ Conclude(s, c, "NEEDS_HUMAN")
    /\ KeepButRun

(* The ticket is not where KAR-10 expects it, or an unexpected error.       *)
RepairThrows(s, c) ==
    /\ At(s, c, {"verifying", "reviewing", "reviewed", "repairing"})
    /\ IF At(s, c, {"reviewing", "repairing"}) THEN AssistantEnds(c) ELSE UNCHANGED run
    /\ Conclude(s, c, "FAILED")
    /\ UNCHANGED ticket /\ KeepButRun

(* Verification and reviews pass; nobody looks at the ticket.               *)
Passed(s, c) ==
    /\ At(s, c, {"reviewed"})
    /\ c \in reviewed
    /\ Continue(s, c, "ready")
    /\ UNCHANGED <<ticket, evidence, room, faults>>

ReadinessPasses(s, c) ==
    /\ At(s, c, {"ready"})
    /\ ticket[issue[c]] = "VERIFYING"
    /\ Continue(s, c, "handoff")
    /\ UNCHANGED <<ticket, evidence, room, faults>>

ReadinessFails(s, c) ==
    /\ At(s, c, {"ready"})
    /\ \E outcome \in {"NEEDS_HUMAN", "FAILED"} : Conclude(s, c, outcome)
    /\ UNCHANGED <<ticket, evidence, room, faults>>

-----------------------------------------------------------------------------
(* executeTicket: createGitHubPullRequest, and once more if it fails after  *)
(* it left evidence of a pull request.                                      *)

RecordPR(s, c) ==
    LET t == issue[c]
    IN  /\ At(s, c, {"handoff", "recovering"})
        /\ At(s, c, {"recovering"}) => run[c] \in {"succeeded", "assisted"}
        /\ ticket[t] \in {"VERIFYING", "PR_OPEN"} /\ room[t] = "ready"
        /\ pr' = pr \cup {t}
        /\ Goto(s, c, IF At(s, c, {"handoff"}) THEN "opening" ELSE "reopening")
        /\ UNCHANGED <<ticket, issue, completed, bound, started, terminal, run, repairs, reviewed, room, faults>>

(* Mutant of OpenPR: the ticket is left in VERIFYING.                       *)
OpenPRWithoutTicket(s, c) ==
    LET t == issue[c]
    IN  /\ At(s, c, {"opening", "reopening"})
        /\ ticket[t] = "PR_OPEN" \/ CanTransition(t, "PR_OPEN")
        /\ Conclude(s, c, "PR_RAISED")
        /\ UNCHANGED <<ticket, evidence, room, faults>>

OpenPR(s, c) ==
    LET t == issue[c]
    IN  /\ At(s, c, {"opening", "reopening"})
        /\ ticket[t] = "PR_OPEN" \/ CanTransition(t, "PR_OPEN")
        /\ Transition(t, "PR_OPEN")
        /\ Conclude(s, c, "PR_RAISED")
        /\ UNCHANGED <<evidence, room, faults>>

HandoffFails(s, c) ==
    /\ At(s, c, {"handoff", "opening"})
    /\ IF issue[c] \in pr THEN Goto(s, c, "recovering") ELSE Conclude(s, c, "NEEDS_HUMAN")
    /\ UNCHANGED <<ticket, evidence, room, faults>>

RecoveryFails(s, c) ==
    /\ At(s, c, {"recovering", "reopening"})
    /\ Conclude(s, c, "NEEDS_HUMAN")
    /\ UNCHANGED <<ticket, evidence, room, faults>>

-----------------------------------------------------------------------------
(* executeTicket: terminal evidence, the ticket's transition, completion.   *)

(* Mutant of Record: the last word counts.                                  *)
RecordLast(s, c) ==
    /\ At(s, c, {"record"})
    /\ terminal' = [terminal EXCEPT ![c] = call[s][c].want]
    /\ Goto(s, c, IF call[s][c].want = "PR_RAISED" THEN "complete" ELSE "settle")
    /\ UNCHANGED <<ticket, issue, completed, bound, started, run, repairs, reviewed, pr, room, faults>>

(* appendTerminal: the first word counts.                                   *)
Record(s, c) ==
    /\ At(s, c, {"record"})
    /\ terminal' = [terminal EXCEPT ![c] = IF @ = "none" THEN call[s][c].want ELSE @]
    /\ Goto(s, c, IF call[s][c].want = "PR_RAISED" THEN "complete" ELSE "settle")
    /\ UNCHANGED <<ticket, issue, completed, bound, started, run, repairs, reviewed, pr, room, faults>>

(* The state terminalize aims at: by the recorded outcome, not by its own.  *)
Target(outcome) ==
    CASE outcome \in {"BLOCKED", "NO_CAPACITY"} -> "BLOCKED"
      [] outcome = "FAILED"                     -> "FAILED"
      [] OTHER                                  -> "NEEDS_HUMAN"

Settle(s, c) ==
    LET t == issue[c]
        pausing == terminal[c] \in {"NEEDS_HUMAN", "CONFLICT"} /\ CanTransition(t, "PAUSED")
    IN  /\ At(s, c, {"settle"})
        /\ IF CanTransition(t, Target(terminal[c])) THEN Transition(t, Target(terminal[c]))
           ELSE IF pausing THEN Transition(t, "PAUSED")
           ELSE UNCHANGED ticket
        /\ Goto(s, c, "complete")
        /\ UNCHANGED <<evidence, room, faults>>

(* completeClaim.                                                           *)
Complete(s, c) ==
    /\ At(s, c, {"complete"})
    /\ completed' = completed \cup {c}
    /\ Leave(s, c)
    /\ UNCHANGED <<ticket, issue, bound, started, terminal, run, repairs, reviewed, pr, room, faults>>

-----------------------------------------------------------------------------
(* The world around. *)

(* An error nobody catches (a busy database): the claim is left as it is.   *)
Throw(s, c) ==
    /\ At(s, c, {"scheduled", "acquired", "ran", "ready", "record", "settle", "complete"})
    /\ faults < MaxFaults
    /\ faults' = faults + 1
    /\ Leave(s, c)
    /\ UNCHANGED <<ticket, evidence, room>>

Crash(s) ==
    /\ server[s] # "down"
    /\ faults < MaxFaults
    /\ faults' = faults + 1
    /\ server' = [server EXCEPT ![s] = "down"]
    /\ listed' = [listed EXCEPT ![s] = {}]
    /\ call' = [call EXCEPT ![s] = [c \in Claims |-> Idle]]
    /\ UNCHANGED <<ticket, evidence, room>>

(* removeWorkspace, by an operator.                                         *)
RemoveWorkspace(t) ==
    /\ room[t] = "ready"
    /\ room' = [room EXCEPT ![t] = "removed"]
    /\ UNCHANGED <<ticket, evidence, memory, faults>>

(* Every step of a call.                                                    *)
Execute(s, c) ==
    \/ Begin(s, c)
    \/ CreateWorkspace(s, c) \/ ReuseWorkspace(s, c)
    \/ CapacityRefused(s, c) \/ AcquireFails(s, c) \/ Admit(s, c)
    \/ Prepare(s, c) \/ RoutingThrows(s, c) \/ Launch(s, c)
    \/ LaunchRefused(s, c) \/ RunEnds(s, c) \/ Ran(s, c)
    \/ ResumeRepair(s, c) \/ Review(s, c) \/ ReviewEnds(s, c)
    \/ ReviewsAreCurrent(s, c) \/ Repair(s, c) \/ Repaired(s, c)
    \/ RepairGivesUp(s, c) \/ RepairThrows(s, c) \/ Passed(s, c)
    \/ ReadinessPasses(s, c) \/ ReadinessFails(s, c)
    \/ RecordPR(s, c) \/ OpenPR(s, c) \/ HandoffFails(s, c) \/ RecoveryFails(s, c)
    \/ Record(s, c) \/ Settle(s, c) \/ Complete(s, c)

Next ==
    \/ \E s \in Servers : StartServer(s) \/ Listen(s) \/ Reconcile(s) \/ Crash(s)
    \/ \E s \in Servers, c \in Claims :
          \/ RecoverClaim(s, c) \/ Redeliver(s, c) \/ Execute(s, c) \/ Throw(s, c)
          \/ \E t \in Tickets : Claim(s, t, c)
    \/ \E c \in Claims : RecoverRun(c)
    \/ \E t \in Tickets : RemoveWorkspace(t)

Spec == Init /\ [][Next]_vars

Driven(c) == \E s \in Servers : call[s][c].at # "idle"

(* A call that is not killed goes on: provider runs, verification commands  *)
(* and requests have timeouts.                                              *)
ServerFairness ==
    \A s \in Servers, c \in Claims : WF_vars(Execute(s, c))

(* A dead server is started again and drives what it finds; the outer       *)
(* scheduler delivers again what is not done; an operator recovers the runs *)
(* of a dead server.  What is joined here are phases of one server.         *)
WorldFairness ==
    /\ \A s \in Servers :
          /\ WF_vars(StartServer(s) \/ Listen(s) \/ Reconcile(s))
          /\ \A c \in Claims : WF_vars(RecoverClaim(s, c) \/ Redeliver(s, c))
    /\ \A c \in Claims : WF_vars(~Driven(c) /\ RecoverRun(c))

FairSpec == Spec /\ ServerFairness /\ WorldFairness

-----------------------------------------------------------------------------
(* Safety. *)

(* However many servers drive an execution, one call at most ever gets to   *)
(* run its implementation (execution.started; README: one ticket, one       *)
(* active execution).                                                       *)
Implementing(s, c) == At(s, c, {"routing", "running"})

OneImplementer ==
    \A s, r \in Servers, c, d \in Claims :
        Implementing(s, c) /\ Implementing(r, d) /\ issue[c] = issue[d]
        => s = r /\ c = d

(* Of all the executions a ticket was ever claimed for, the one bound first *)
(* is the only one that ever has a provider run.                            *)
OnlyTheBoundRuns ==
    \A c \in Claims : run[c] # "none" => bound[issue[c]] = c

(* What a ticket's execution came to is said once: no retry, second server  *)
(* or late failure revises it (appendTerminal).                             *)
TerminalIsFinal ==
    [][\A c \in Claims : terminal[c] # "none" => terminal'[c] = terminal[c]]_vars

(* A claim is closed on durable evidence only, so that no crash between a   *)
(* result and its record loses an execution.                                *)
CompletedHasEvidence == \A c \in completed : terminal[c] # "none"

(* One server never has more tickets in work, claimed or active, than       *)
(* execution.maxConcurrentTickets (decideClaim counts what createWorkspace  *)
(* will count only later).                                                  *)
DispatchWithinCapacity ==
    Cardinality(Active \cup {issue[c] : c \in ActiveClaims}) <= MaxTickets

(* Once the evidence says PR_RAISED the ticket is PR_OPEN and stays so:     *)
(* with one server, nothing that runs late, again or after a crash moves it.*)
RaisedMeansOpen ==
    \A c \in Claims : terminal[c] = "PR_RAISED" => ticket[issue[c]] = "PR_OPEN"

(* What the durable evidence is to a reader of it.                          *)
Worked == {c \in Claims : run[c] # "none"}

Log == INSTANCE ExecutionLog WITH worked <- Worked, raised <- pr

(* Whatever crashes, is delivered twice or driven by several servers, the   *)
(* events in SQLite read as one orderly history of every claim: bound once, *)
(* worked and published by the bound execution alone, concluded once and    *)
(* truthfully (PR_RAISED only after its run and its pull request, CONFLICT  *)
(* only if the ticket is another's), closed last.                           *)
ImplementsLog == Log!Spec

(* Liveness. *)

(* Every claim is closed in the end, whatever crashed on the way.           *)
EveryClaimCompletes == \A c \in Claims : c \in Issued ~> c \in completed

-----------------------------------------------------------------------------
(* What the documentation says and the code does not ensure. *)

(* README.md: if capacity is unavailable ShipGraph acknowledges the webhook *)
(* and "the outer Scheduler owns a later re-drive"; but the refused ticket  *)
(* stays bound to the refused execution, so the re-drive is a conflict.     *)
RedriveIsNoConflict ==
    \A c, d \in Claims :
        ~(terminal[c] = "NO_CAPACITY" /\ terminal[d] = "CONFLICT" /\ issue[c] = issue[d])
=============================================================================
