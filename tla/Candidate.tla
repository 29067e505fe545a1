----------------------------- MODULE Candidate ------------------------------
(***************************************************************************)
(* KAR-9, KAR-10 and KAR-11: how a committed candidate becomes ready.      *)
(* Verification, two reviews, a bounded number of repairs                  *)
(* (src/src/repair/service.ts, src/src/review/service.ts), and the         *)
(* readiness that reads their evidence back (src/src/readiness/service.ts).*)
(*                                                                         *)
(* All evidence is bound to a commit, but the commit is whatever a worktree*)
(* shared with providers and people has checked out at the moment of each  *)
(* look.  A call that dies is repeated from the start and has only the     *)
(* evidence to go by: how many attempts are used, which run was the last,  *)
(* which review still counts.                                              *)
(*                                                                         *)
(* One attempt may fall back over several providers and then owns several  *)
(* runs, of which its evidence names the last (MODEL-001).                 *)
(*                                                                         *)
(* One ticket, one execution, one call at a time.  A commit is a number    *)
(* and descends from the smaller ones.  Budgets, limits on sizes and a     *)
(* ticket without commands end like every refusal here, in NEEDS_HUMAN,    *)
(* and are left out.                                                       *)
(***************************************************************************)
EXTENDS Naturals, Sequences, FiniteSets

CONSTANTS Commands,  \* the ticket's verification commands
          Limit,     \* effective limit of repair attempts
          MaxSha,    \* commits of the branch
          MaxFaults, \* crashes
          MaxMoves   \* changes of the worktree by somebody else

Axes == {"contract", "engineering"}

ASSUME CommandsAssumption == IsFiniteSet(Commands) /\ Commands # {} /\ Commands \cap Axes = {}
ASSUME BoundsAssumption ==
    Limit \in Nat /\ MaxSha \in Nat \ {0} /\ MaxFaults \in Nat /\ MaxMoves \in Nat

Shas  == 1..MaxSha
NoSha == 0

(* A review run: FAIL without findings is VAGUE, a run without an           *)
(* authoritative report says NONE.                                          *)
Reports  == {"PASS", "FAIL", "VAGUE", "NONE"}
Outcomes == {"PASSED", "REPAIRED", "BLOCKED", "NEEDS_HUMAN"}

(* A repair run: REFUSED says NEEDS_HUMAN without ever having been RUNNING. *)
Active   == {"CREATED", "RUNNING"}
Ended    == {"SUCCEEDED", "FAILED", "NEEDS_HUMAN"}
Statuses == Active \cup Ended \cup {"REFUSED"}

VARIABLES
    head, clean, \* the worktree
    ticket,      \* SQLite tickets.status
    log,         \* SQLite repair.attempt_recorded, in order
    repairs,     \* SQLite runs: repair runs, in order
    reviews,     \* SQLite runs: review runs, in order
    ready,       \* SQLite pre_pr.readiness_recorded with PASS, in order
    call,        \* the locals of the call
    faults, moves

worktree == <<head, clean>>
counters == <<faults, moves>>
vars     == <<worktree, ticket, log, repairs, reviews, ready, call, counters>>

Positions ==
    {"idle", "head", "verify", "reviews", "snapshot", "contract", "engineering", "reviewing",
     "evaluate", "repair", "route", "prepared", "repairing", "repaired", "targeted", "final",
     "exhausted", "passed", "expose", "ready"}

None == [a \in Axes |-> "unset"]

Idle == [at |-> "idle", attempt |-> 0, fallbacks |-> 0,
         from |-> NoSha, sha |-> NoSha, snap |-> NoSha, failed |-> {}, blockers |-> {},
         axis |-> "contract", old |-> None, got |-> None]

Entries == [attempt : 0..(Limit + 1), from : Shas, to : Shas \cup {NoSha}, outcome : Outcomes,
            blockers : SUBSET (Commands \cup Axes), passed : SUBSET Commands, run : Nat]

TypeOK ==
    /\ head \in Shas /\ clean \in BOOLEAN
    /\ ticket \in {"VERIFYING", "REPAIRING", "NEEDS_HUMAN"}
    /\ log \in Seq(Entries)
    /\ repairs \in Seq([base : Shas, attempt : 1..Limit, status : Statuses])
    /\ reviews \in Seq([axis : Axes, attempt : 0..Limit, candidate : Shas, sha : Shas,
                        says : Reports \cup {"RUNNING"}])
    /\ ready \in Seq([sha : Shas, repaired : BOOLEAN])
    /\ call \in [at : Positions, attempt : 0..Limit, fallbacks : 0..Limit,
                 from : Shas \cup {NoSha}, sha : Shas \cup {NoSha}, snap : Shas \cup {NoSha},
                 failed : SUBSET Commands, blockers : SUBSET (Commands \cup Axes), axis : Axes,
                 old : [Axes -> Reports \cup {"unset"}], got : [Axes -> Reports \cup {"unset"}]]
    /\ faults \in 0..MaxFaults /\ moves \in 0..MaxMoves

Init ==
    /\ head = 1 /\ clean = TRUE /\ ticket = "VERIFYING"
    /\ log = <<>> /\ repairs = <<>> /\ reviews = <<>> /\ ready = <<>>
    /\ call = Idle /\ faults = 0 /\ moves = 0

-----------------------------------------------------------------------------
(* What the durable evidence says. *)

Numbers(set) == set \cup {0}
Latest(set)  == CHOOSE m \in Numbers(set) : \A n \in set : n <= m

(* Mutant of AttemptsUsed: attempts of dead calls are not counted.          *)
AttemptsOfThisCall == 0

AttemptsUsed == Latest({log[i].attempt : i \in DOMAIN log})

ActiveRepairs == {i \in DOMAIN repairs : repairs[i].status \in Active}

RunActive ==
    \/ ActiveRepairs # {}
    \/ \E i \in DOMAIN reviews : reviews[i].says = "RUNNING"

(* Repair runs no attempt's evidence names: an attempt names the run it went*)
(* on with, not those it fell back from.                                    *)
Unevidenced == DOMAIN repairs \ {log[i].run : i \in DOMAIN log}

(* Events of a commit: it is their candidate or their result.               *)
Applicable(s) == {i \in DOMAIN log : s \in {log[i].from, log[i].to}}

ReviewsOf(a, s) == {i \in DOMAIN reviews : reviews[i].axis = a /\ reviews[i].sha = s}

(* listCurrentPrePrReviewEvidence: the last report on this commit.          *)
Current(a, s) ==
    LET reported == {i \in ReviewsOf(a, s) : reviews[i].says \in {"PASS", "FAIL", "VAGUE"}}
    IN  IF reported = {} THEN "unset" ELSE reviews[Latest(reported)].says

-----------------------------------------------------------------------------
(* The ways a call goes on or ends. *)

Holds(s) == clean /\ head = s

Goto(place) == call' = [call EXCEPT !.at = place]

Entry(attempt, from, to, outcome, passed, run) ==
    [attempt |-> attempt, from |-> from, to |-> to, outcome |-> outcome,
     blockers |-> call.blockers, passed |-> passed, run |-> run]

(* recordAttemptAndTransition NEEDS_HUMAN, in one transaction.              *)
Human(entry) ==
    /\ log' = Append(log, entry)
    /\ ticket' = "NEEDS_HUMAN"
    /\ call' = Idle

(* needsHuman: evidence without a run.  A candidate that just came out of a *)
(* repair is recorded with its attempt.                                     *)
GiveUp ==
    IF call.from = NoSha
    THEN Human(Entry(call.attempt, call.sha, NoSha, "NEEDS_HUMAN", {}, 0))
    ELSE Human(Entry(call.attempt, call.from, call.sha, "NEEDS_HUMAN", {}, Len(repairs)))

Stay == UNCHANGED <<ticket, log>>

(* Mutant of NextAttempt: the loop has no end.                              *)
AnotherAttempt(blockers) ==
    call' = [Idle EXCEPT !.sha = call.sha, !.blockers = blockers,
                         !.attempt = call.attempt + 1, !.at = "repair"]

(* The loop over attempts, once an attempt left these blockers.             *)
NextAttempt(blockers) ==
    call' = [Idle EXCEPT !.sha = call.sha, !.blockers = blockers,
                         !.attempt = IF call.attempt < Limit THEN call.attempt + 1 ELSE Limit,
                         !.at = IF call.attempt < Limit THEN "repair" ELSE "exhausted"]

-----------------------------------------------------------------------------
(* runPrePrRepair, up to the first evaluation. *)

(* Mutant of Begin: only a VERIFYING ticket is taken up.                    *)
BeginVerifying ==
    /\ call.at = "idle" /\ ticket = "VERIFYING"
    /\ call' = [Idle EXCEPT !.at = "head", !.attempt = AttemptsUsed]
    /\ UNCHANGED <<worktree, ticket, log, repairs, reviews, ready, counters>>

(* A REPAIRING ticket was left behind by a dead call.  A run is active, or  *)
(* some run has no evidence, be it one an earlier attempt fell back from,   *)
(* and that is for a human; or every run is named by the evidence, and the  *)
(* candidate is evaluated again.                                            *)
Begin ==
    LET used == AttemptsUsed
        enter == call' = [Idle EXCEPT !.at = "head", !.attempt = used]
        refuse(from, to, run) ==
            Human([Entry(used + 1, from, to, "NEEDS_HUMAN", {}, run) EXCEPT !.blockers = {}])
    IN  /\ call.at = "idle"
        /\ \/ ticket = "VERIFYING" /\ enter /\ Stay
           \/ /\ ticket = "REPAIRING"
              /\ IF RunActive THEN refuse(head, NoSha, Latest(ActiveRepairs))
                 ELSE IF Unevidenced # {}
                      THEN refuse(repairs[Latest(Unevidenced)].base, head, Latest(Unevidenced))
                 ELSE enter /\ ticket' = "VERIFYING" /\ UNCHANGED log
        /\ UNCHANGED <<worktree, repairs, reviews, ready, counters>>

ExactCleanHead ==
    /\ call.at = "head"
    /\ IF clean /\ call.attempt <= Limit
       THEN call' = [call EXCEPT !.at = "verify", !.sha = head] /\ Stay
       ELSE Human(Entry(call.attempt, head, NoSha, "NEEDS_HUMAN", {}, 0))
    /\ UNCHANGED <<worktree, repairs, reviews, ready, counters>>

(* runVerification: the worktree is looked at again after every command;    *)
(* commands fail as they like, or end in a timeout.                         *)
Verify ==
    /\ call.at = "verify"
    /\ \/ /\ Holds(call.sha)
          /\ \E failed \in SUBSET Commands :
                call' = [call EXCEPT !.at = "reviews", !.failed = failed]
          /\ Stay
       \/ GiveUp
    /\ UNCHANGED <<worktree, repairs, reviews, ready, counters>>

(* currentOrFreshReviews: both axes have reported on this commit, or both   *)
(* are asked.                                                               *)
Reviews ==
    LET current == [a \in Axes |-> Current(a, call.sha)]
    IN  /\ call.at = "reviews"
        /\ IF ~Holds(call.sha) THEN GiveUp
           ELSE /\ call' = [call EXCEPT !.old = current, !.snap = call.sha, !.at =
                               IF \E a \in Axes : current[a] = "unset" THEN "snapshot" ELSE "evaluate"]
                /\ Stay
        /\ UNCHANGED <<worktree, repairs, reviews, ready, counters>>

-----------------------------------------------------------------------------
(* runPrePrReviews: one axis after the other, against one snapshot. *)

Snapshot ==
    /\ call.at = "snapshot"
    /\ IF clean THEN call' = [call EXCEPT !.at = "contract", !.snap = head] /\ Stay ELSE GiveUp
    /\ UNCHANGED <<worktree, repairs, reviews, ready, counters>>

(* The request's replay key: reviews before any repair share one.           *)
ReviewAttempt == IF call.from = NoSha THEN 0 ELSE call.attempt

(* After the contract axis the engineering axis, then both are known.       *)
Reported(axis, says) ==
    call' = [call EXCEPT !.got[axis] = says,
                         !.at = IF axis = "contract" THEN "engineering" ELSE "evaluate"]

(* A request that was made before is answered by its run, or refused because*)
(* its reservation was released; a new one needs that no run of the ticket  *)
(* is active.                                                               *)
RequestReview(axis) ==
    LET same == {i \in DOMAIN reviews : /\ reviews[i].axis = axis
                                        /\ reviews[i].attempt = ReviewAttempt
                                        /\ reviews[i].candidate = call.sha}
        replay == reviews[Latest(same)]
    IN  /\ call.at = axis
        /\ IF ~Holds(call.snap) THEN GiveUp /\ UNCHANGED reviews
           ELSE IF same # {}
                THEN /\ \/ /\ replay.says # "RUNNING" /\ replay.sha = call.snap
                           /\ Reported(axis, replay.says) /\ Stay
                        \/ GiveUp
                     /\ UNCHANGED reviews
           ELSE IF RunActive THEN GiveUp /\ UNCHANGED reviews
           ELSE /\ reviews' = Append(reviews, [axis |-> axis, attempt |-> ReviewAttempt,
                       candidate |-> call.sha, sha |-> call.snap, says |-> "RUNNING"])
                /\ call' = [call EXCEPT !.at = "reviewing", !.axis = axis]
                /\ Stay
        /\ UNCHANGED <<worktree, repairs, ready, counters>>

(* The provider reports, or its run ends without a report; then the         *)
(* worktree is looked at again.                                             *)
FinishReview ==
    /\ call.at = "reviewing"
    /\ \E says \in Reports :
          /\ reviews' = [reviews EXCEPT ![Len(reviews)].says = says]
          /\ IF Holds(call.snap) THEN Reported(call.axis, says) /\ Stay ELSE GiveUp
    /\ UNCHANGED <<worktree, repairs, ready, counters>>

-----------------------------------------------------------------------------
(* The evaluation of a candidate. *)

(* An earlier FAIL of this commit outlives a repeated review.               *)
Verdict(axis) ==
    IF call.old[axis] \in {"FAIL", "VAGUE"} \/ call.got[axis] = "unset"
    THEN call.old[axis] ELSE call.got[axis]

Blockers == call.failed \cup {a \in Axes : Verdict(a) = "FAIL"}

(* Mutant of Evidence: only the commit is recorded, not where it came from. *)
EvidenceOfCommit(outcome) ==
    Entry(call.attempt, call.sha, NoSha, outcome, Commands \ call.failed, 0)

Evidence(outcome) ==
    IF call.from = NoSha
    THEN Entry(call.attempt, call.sha, NoSha, outcome, Commands \ call.failed, 0)
    ELSE Entry(call.attempt, call.from, call.sha, outcome, Commands \ call.failed, Len(repairs))

(* PASSED; or one more repair, if there are concrete blockers and attempts. *)
Evaluate ==
    /\ call.at = "evaluate"
    /\ IF \/ call.snap # call.sha
          \/ \E a \in Axes : Verdict(a) = "NONE"
          \/ Blockers = {} /\ \E a \in Axes : Verdict(a) = "VAGUE"
       THEN GiveUp
       ELSE IF Blockers = {}
            THEN /\ log' = Append(log, Evidence("PASSED"))
                 /\ call' = [Idle EXCEPT !.at = "passed"]
                 /\ UNCHANGED ticket
       ELSE IF call.from # NoSha
            THEN log' = Append(log, Evidence("BLOCKED")) /\ NextAttempt(Blockers) /\ UNCHANGED ticket
       ELSE IF call.attempt >= Limit
            THEN GiveUp
       ELSE NextAttempt(Blockers) /\ Stay
    /\ UNCHANGED <<worktree, repairs, reviews, ready, counters>>

Exhausted ==
    /\ call.at = "exhausted"
    /\ GiveUp
    /\ UNCHANGED <<worktree, repairs, reviews, ready, counters>>

-----------------------------------------------------------------------------
(* One repair attempt. *)

StartRepair ==
    /\ call.at = "repair"
    /\ ticket' = "REPAIRING"
    /\ Goto("route")
    /\ UNCHANGED <<worktree, log, repairs, reviews, ready, counters>>

(* A run is prepared on whatever is checked out, or not at all.             *)
RouteRepair ==
    /\ call.at = "route"
    /\ \/ /\ ~RunActive
          /\ repairs' = Append(repairs,
                [base |-> head, attempt |-> call.attempt, status |-> "CREATED"])
          /\ Goto("prepared") /\ Stay
       \/ GiveUp /\ UNCHANGED repairs
    /\ UNCHANGED <<worktree, reviews, ready, counters>>

Becomes(status) == repairs' = [repairs EXCEPT ![Len(repairs)].status = status]

(* The prepared run takes its slot and is launched, or its binding is       *)
(* refused with an error.                                                   *)
LaunchRepair ==
    /\ call.at = "prepared"
    /\ \/ Becomes("RUNNING") /\ Goto("repairing") /\ Stay
       \/ GiveUp /\ UNCHANGED repairs
    /\ UNCHANGED <<worktree, reviews, ready, counters>>

(* Its slot is refused, or its provider fails before the launch: the next   *)
(* provider, as long as there is one and the attempt and its fallbacks stay *)
(* within the limit; else this run is the attempt's.                        *)
FallBack ==
    /\ call.at = "prepared"
    /\ Becomes("REFUSED")
    /\ \/ /\ call.attempt + call.fallbacks < Limit
          /\ call' = [call EXCEPT !.at = "route", !.fallbacks = call.fallbacks + 1]
       \/ Goto("repaired")
    /\ Stay
    /\ UNCHANGED <<worktree, reviews, ready, counters>>

FinishRepair ==
    /\ call.at = "repairing"
    /\ \E status \in Ended : Becomes(status)
    /\ head' \in Shas /\ clean' \in BOOLEAN
    /\ Goto("repaired") /\ Stay
    /\ UNCHANGED <<reviews, ready, counters>>

(* validateRepairBoundary: it comes after the candidate; that it changes    *)
(* something and stays in scope is the repair's choice.                     *)
Descends(sha, from) == sha > from

(* A run that did not succeed must have left the worktree alone; one that   *)
(* did must have committed, cleanly and within bounds.                      *)
InspectRepair ==
    LET run == Len(repairs)
        succeeded == repairs[run].status = "SUCCEEDED"
        entry(outcome) == Entry(call.attempt, call.sha, IF head = call.sha THEN NoSha ELSE head,
                                outcome, {}, run)
    IN  /\ call.at = "repaired"
        /\ \/ /\ ~succeeded /\ Holds(call.sha)
              /\ repairs[run].status = "FAILED" /\ call.attempt < Limit
              /\ log' = Append(log, entry("BLOCKED"))
              /\ ticket' = "VERIFYING"
              /\ NextAttempt(call.blockers)
           \/ /\ ~succeeded
              /\ ~(Holds(call.sha) /\ repairs[run].status = "FAILED" /\ call.attempt < Limit)
              /\ Human(entry("NEEDS_HUMAN"))
           \/ /\ succeeded /\ clean /\ Descends(head, call.sha)
              /\ call' = [call EXCEPT !.at = "targeted", !.from = call.sha, !.sha = head]
              /\ Stay
           \/ succeeded /\ Human(entry("NEEDS_HUMAN"))
        /\ UNCHANGED <<worktree, repairs, reviews, ready, counters>>

(* The commands that failed, or all of them.                                *)
Targeted == IF call.blockers \cap Commands = {} THEN Commands ELSE call.blockers \cap Commands

(* The attempt's evidence is recorded together with the ticket's way back to*)
(* VERIFYING.                                                               *)
VerifyTargeted ==
    LET entry(outcome) == Entry(call.attempt, call.from, call.sha, outcome, {}, Len(repairs))
    IN  /\ call.at = "targeted"
        /\ \/ /\ Holds(call.sha)
              /\ \E failed \in SUBSET Targeted :
                    IF failed = {}
                    THEN log' = Append(log, entry("REPAIRED")) /\ Goto("final")
                    ELSE /\ log' = Append(log, entry("BLOCKED"))
                         /\ NextAttempt((call.blockers \cap Axes) \cup failed)
              /\ ticket' = "VERIFYING"
           \/ GiveUp
        /\ UNCHANGED <<worktree, repairs, reviews, ready, counters>>

(* Then all of them, and fresh reviews of the new commit.                   *)
VerifyFinal ==
    /\ call.at = "final"
    /\ \/ /\ Holds(call.sha)
          /\ \E failed \in SUBSET Commands :
                IF failed = {}
                THEN Goto("snapshot") /\ UNCHANGED log
                ELSE /\ log' = Append(log, Entry(call.attempt, call.from, call.sha, "BLOCKED",
                                                 Commands \ failed, Len(repairs)))
                     /\ NextAttempt(failed)
          /\ UNCHANGED ticket
       \/ GiveUp
    /\ UNCHANGED <<worktree, repairs, reviews, ready, counters>>

-----------------------------------------------------------------------------
(* runPrePrReadiness. *)

(* A repair counts as such if it is this commit's way from another one.     *)
RepairOf(s) == {i \in Applicable(s) : log[i].outcome = "PASSED" /\ log[i].attempt > 0 /\ log[i].to = s}

(* The commit whose commands an attempt ran at its end.                     *)
Result(entry) == IF entry.to = NoSha THEN entry.from ELSE entry.to

(* Mutant of Verified: whose commands these are is not compared.            *)
VerifiedByAny(s) ==
    /\ Applicable(s) # {}
    /\ LET last == log[Latest(Applicable(s))] IN last.outcome = "PASSED" /\ last.passed = Commands

(* The last event of this commit is PASSED, with every command run on it.   *)
Verified(s) ==
    /\ Applicable(s) # {}
    /\ LET last == log[Latest(Applicable(s))]
       IN  last.outcome = "PASSED" /\ last.passed = Commands /\ Result(last) = s

(* The last run of each axis, in the order of their creation, reported PASS.*)
Reviewed(s) ==
    \A a \in Axes : ReviewsOf(a, s) # {} /\ reviews[Latest(ReviewsOf(a, s))].says = "PASS"

(* The run of a repair succeeded.                                           *)
Safe(s) == RepairOf(s) # {} => repairs[log[Latest(RepairOf(s))].run].status = "SUCCEEDED"

(* readinessAssessment.  The red-capable evidence of a bug repair is written*)
(* together with its PASSED event, complete, and always found.              *)
Assessment(s) == Verified(s) /\ Reviewed(s) /\ Safe(s) /\ ticket = "VERIFYING"

(* Not ready: executeTicket ends in NEEDS_HUMAN.                            *)
NotReady == ticket' = "NEEDS_HUMAN" /\ call' = Idle

Assess ==
    /\ call.at = "passed"
    /\ IF clean /\ Assessment(head)
       THEN call' = [call EXCEPT !.at = "expose", !.sha = head] /\ UNCHANGED ticket
       ELSE NotReady
    /\ UNCHANGED <<worktree, log, repairs, reviews, ready, counters>>

(* The worktree is looked at once more before PASS is recorded.             *)
Expose ==
    /\ call.at = "expose"
    /\ IF Holds(call.sha)
       THEN /\ ready' = Append(ready, [sha |-> call.sha, repaired |-> RepairOf(call.sha) # {}])
            /\ Goto("ready")
            /\ UNCHANGED ticket
       ELSE NotReady /\ UNCHANGED ready
    /\ UNCHANGED <<worktree, log, repairs, reviews, counters>>

-----------------------------------------------------------------------------
(* Around the call. *)

Crash ==
    /\ call.at # "idle" /\ faults < MaxFaults
    /\ call' = Idle /\ faults' = faults + 1
    /\ UNCHANGED <<worktree, ticket, log, repairs, reviews, ready, moves>>

(* AGENT-001 recovery of a run whose call died: its outcome is unknown.     *)
RecoverRun ==
    /\ call.at \notin {"reviewing", "prepared", "repairing"}
    /\ RunActive
    /\ repairs' = [i \in DOMAIN repairs |->
          IF i \notin ActiveRepairs THEN repairs[i]
          ELSE [repairs[i] EXCEPT !.status = IF @ = "CREATED" THEN "REFUSED" ELSE "NEEDS_HUMAN"]]
    /\ reviews' = [i \in DOMAIN reviews |->
          IF reviews[i].says = "RUNNING" THEN [reviews[i] EXCEPT !.says = "NONE"] ELSE reviews[i]]
    /\ UNCHANGED <<worktree, ticket, log, ready, call, counters>>

(* Somebody else, or an orphaned provider, works in the worktree.           *)
Move ==
    /\ moves < MaxMoves
    /\ head' \in Shas /\ clean' \in BOOLEAN
    /\ moves' = moves + 1
    /\ UNCHANGED <<ticket, log, repairs, reviews, ready, call, faults>>

Step ==
    \/ Begin \/ ExactCleanHead \/ Verify \/ Reviews \/ Snapshot
    \/ (\E a \in Axes : RequestReview(a)) \/ FinishReview \/ Evaluate \/ Exhausted
    \/ StartRepair \/ RouteRepair \/ LaunchRepair \/ FallBack \/ FinishRepair
    \/ InspectRepair \/ VerifyTargeted \/ VerifyFinal
    \/ Assess \/ Expose

Next == Step \/ Crash \/ RecoverRun \/ Move

Spec == Init /\ [][Next]_vars

(* A call goes on: providers and commands have timeouts; a claim without    *)
(* terminal evidence is driven again (KAR-13).                              *)
FairSpec == Spec /\ WF_vars(Step)

-----------------------------------------------------------------------------
(* Properties. *)

(* When a commit is recorded as ready, all of this is true of it at once:   *)
(* the worktree is at it and clean, the last evidence that names it is a    *)
(* full passing verification of it and not of a commit that came out of it, *)
(* and on each axis the last run that reported on it passed, although the   *)
(* worktree moves between all the looks at it and the evidence of other     *)
(* commits lies next to its own (runPrePrReadiness).                        *)
ReadyIsEarned ==
    [][ready' # ready =>
          LET s == ready'[Len(ready')].sha
          IN  /\ Holds(s)
              /\ \E j \in Applicable(s) :
                    /\ log[j].outcome = "PASSED" /\ log[j].passed = Commands
                    /\ log[j].to = s \/ (log[j].from = s /\ log[j].to = NoSha)
                    /\ \A k \in Applicable(s) : k <= j
              /\ \A a \in Axes : Current(a, s) = "PASS"]_vars

(* Repairs a provider has worked on.                                        *)
Launched == {i \in DOMAIN repairs : repairs[i].status \in Ended \cup {"RUNNING"}}

(* Calls that die cannot buy attempts, and neither can fallbacks: over all  *)
(* calls of the execution no more repairs are launched than the limit, each *)
(* for an attempt of its own, however many runs an attempt prepares; and a  *)
(* repair is launched only when each earlier one is named by the evidence   *)
(* of its attempt ("A logical attempt can own multiple provider runs",      *)
(* src/src/repair/service.ts).                                              *)
RepairsAreBounded ==
    /\ Cardinality(Launched) <= Limit
    /\ \A i, j \in Launched : repairs[i].attempt = repairs[j].attempt => i = j
    /\ \A i \in Launched \cap Unevidenced : i = Len(repairs)

(* A ready commit that a repair of this execution produced is shown as      *)
(* repaired, so that the proof a bug repair needs is asked for ("requires   *)
(* red-capable evidence or an explicit KAR-10 infeasibility reason for bug  *)
(* repairs", src/tests/integration/review.test.ts).  Not so after a crash:  *)
(* the call that follows it passes the repair's result as a candidate that  *)
(* needed none, whose PASSED evidence names no result.                      *)
RepairsAreShown ==
    faults = 0 =>
        \A i \in DOMAIN ready :
            (\E j \in DOMAIN log : log[j].outcome = "REPAIRED" /\ log[j].to = ready[i].sha)
                => ready[i].repaired

(* Every candidate gets an answer: it is ready, or a human is asked, even   *)
(* if calls die in the middle of a repair or a review.                      *)
CandidateSettles == <>(call.at = "ready" \/ ticket = "NEEDS_HUMAN")
=============================================================================
