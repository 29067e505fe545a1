--------------------------- MODULE DispatchProofs ---------------------------
(***************************************************************************)
(* What Dispatch guarantees for any number of tickets, claims and servers, *)
(* crashes and repeated deliveries included.                               *)
(***************************************************************************)
EXTENDS Dispatch, FiniteSetTheorems, TLAPS

(* Positions after the binding was found to be the claim's own.             *)
Driving == {"acquire", "acquired", "routing", "running", "ran", "verifying", "reviewing",
            "reviewed", "repairing", "ready", "handoff", "opening", "recovering", "reopening"}

(* A call past the binding works for the execution its ticket is bound to,  *)
(* and so does every run.                                                   *)
DrivesTheBound ==
    /\ \A s \in Servers, c \in Claims :
          call[s][c].at \in Driving => bound[issue[c]] = c
    /\ \A c \in Claims : run[c] # "none" => issue[c] \in Tickets /\ bound[issue[c]] = c

(* A ticket is in REPAIRING only during an attempt the limit allowed.       *)
AttemptLeft ==
    \A t \in Tickets :
        ticket[t] = "REPAIRING" => bound[t] \in Claims /\ repairs[bound[t]] < MaxRepairs

(* What a call on its way out carries or has left behind.                   *)
Concluding ==
    \A s \in Servers, c \in Claims :
        /\ call[s][c].at = "record" => call[s][c].want # "none"
        /\ call[s][c].at \in {"settle", "complete"} => terminal[c] # "none"

(* Only the call that appended execution.started gets to the routing.       *)
ImplementerStarted ==
    /\ \A s \in Servers, c \in Claims : Implementing(s, c) => c \in started
    /\ \A s, r \in Servers, c \in Claims : Implementing(s, c) /\ Implementing(r, c) => s = r

(* A binding names a claim of its ticket.                                   *)
BindingIssued == \A t \in Tickets : bound[t] # NoClaim => issue[bound[t]] = t

(* States no transition of the program returns to.                          *)
Early == {"ELIGIBLE", "PLANNING", "IMPLEMENTING"}

RepairingIsLate ==
    \A s \in Servers, c \in Claims :
        call[s][c].at = "repairing" => ticket[issue[c]] \notin Early

DispatchInv ==
    /\ TypeOK
    /\ DrivesTheBound
    /\ BindingIssued
    /\ AttemptLeft
    /\ RepairingIsLate
    /\ Concluding
    /\ ImplementerStarted
    /\ CompletedHasEvidence

-----------------------------------------------------------------------------
(* How a step of a call changes the calls. *)

CallsTyped == call' \in [Servers -> [Claims -> Calls]]

(* Nobody else's call changes, and this one becomes r.                      *)
Moves(s, c, r) ==
    /\ CallsTyped
    /\ call'[s][c] = r
    /\ \A x \in Servers, d \in Claims : x # s \/ d # c => call'[x][d] = call[x][d]

(* Replacing one call by another keeps the calls typed (every handler).     *)
LEMMA MoveCall ==
    ASSUME TypeOK, NEW s \in Servers, NEW c \in Claims, NEW r \in Calls,
           call' = [call EXCEPT ![s][c] = r]
    PROVE  Moves(s, c, r)
  <1> USE DEF TypeOK
  <1>1. call \in [Servers -> [Claims -> Calls]]
    OBVIOUS
  <1>2. call[s] \in [Claims -> Calls]
    BY <1>1
  <1>3. call' = [call EXCEPT ![s] = [call[s] EXCEPT ![c] = r]]
    OBVIOUS
  <1>4. [call[s] EXCEPT ![c] = r] \in [Claims -> Calls]
    BY <1>2
  <1> QED
    BY <1>1, <1>2, <1>3, <1>4 DEF Moves, CallsTyped

LEMMA CallTyped ==
    ASSUME TypeOK, NEW s \in Servers, NEW c \in Claims
    PROVE  call[s][c] \in Calls
  BY DEF TypeOK

(* Goto: the position changes and nothing else.                             *)
LEMMA GotoMoves ==
    ASSUME TypeOK, NEW s \in Servers, NEW c \in Claims, NEW to \in Positions,
           Goto(s, c, to)
    PROVE  Moves(s, c, [call[s][c] EXCEPT !.at = to])
  <1>1. [call[s][c] EXCEPT !.at = to] \in Calls
    BY CallTyped DEF Calls
  <1>2. call' = [call EXCEPT ![s][c] = [call[s][c] EXCEPT !.at = to]]
    BY DEF Goto
  <1> QED
    BY <1>1, <1>2, MoveCall

(* Conclude: the call is about to record its outcome.                       *)
LEMMA ConcludeMoves ==
    ASSUME TypeOK, NEW s \in Servers, NEW c \in Claims, NEW outcome \in Outcomes,
           Conclude(s, c, outcome)
    PROVE  Moves(s, c, [call[s][c] EXCEPT !.at = "record", !.want = outcome])
  <1>1. [call[s][c] EXCEPT !.at = "record", !.want = outcome] \in Calls
    BY CallTyped DEF Calls, Positions
  <1>2. call' = [call EXCEPT ![s][c] = [call[s][c] EXCEPT !.at = "record", !.want = outcome]]
    BY DEF Conclude
  <1> QED
    BY <1>1, <1>2, MoveCall

(* Leave: the call is over.                                                 *)
LEMMA LeaveMoves ==
    ASSUME TypeOK, NEW s \in Servers, NEW c \in Claims, Leave(s, c)
    PROVE  Moves(s, c, Idle)
  <1>1. Idle \in Calls
    BY BoundsAssumption DEF Idle, Calls, Positions, RunStates
  <1> QED
    BY <1>1, MoveCall DEF Leave

(* allowedTransitions: where the program's transitions lead.                *)
LEMMA Transitions ==
    ASSUME TypeOK, NEW t \in Tickets, NEW next, CanTransition(t, next)
    PROVE  /\ next \in TicketStates
           /\ next = "VERIFYING" => ticket[t] \in {"IMPLEMENTING", "REPAIRING"}
  <1>1. ticket[t] \in TicketStates
    BY DEF TypeOK
  <1> QED
    BY <1>1 DEF CanTransition, allowedTransitions, TicketStates
-----------------------------------------------------------------------------
(* What a step of a call after its binding may do. *)

Drives(s, c) ==
    \/ CreateWorkspace(s, c) \/ ReuseWorkspace(s, c)
    \/ CapacityRefused(s, c) \/ AcquireFails(s, c) \/ Admit(s, c)
    \/ Prepare(s, c) \/ RoutingThrows(s, c) \/ Launch(s, c)
    \/ LaunchRefused(s, c) \/ RunEnds(s, c) \/ Ran(s, c)
    \/ ResumeRepair(s, c) \/ Review(s, c) \/ ReviewEnds(s, c)
    \/ ReviewsAreCurrent(s, c) \/ Repair(s, c) \/ Repaired(s, c)
    \/ RepairGivesUp(s, c) \/ RepairThrows(s, c) \/ Passed(s, c)
    \/ ReadinessPasses(s, c) \/ ReadinessFails(s, c)
    \/ RecordPR(s, c) \/ OpenPR(s, c) \/ HandoffFails(s, c) \/ RecoveryFails(s, c)
    \/ Record(s, c) \/ Settle(s, c) \/ Complete(s, c)

(* Its evidence: what is bound stays bound, what is recorded stays          *)
(* recorded, and runs change for a call past the binding only.              *)
EvidenceShape(s, c) ==
    /\ issue' = issue /\ bound' = bound
    /\ terminal' \in [Claims -> Outcomes \cup {"none"}]
    /\ \A d \in Claims : terminal[d] # "none" => terminal'[d] = terminal[d]
    /\ run' \in [Claims -> RunStates]
    /\ \A d \in Claims : run'[d] # run[d] => d = c /\ call[s][c].at \in Driving
    /\ completed' \in SUBSET Claims
    /\ \A d \in completed' : d \in completed \/ terminal[d] # "none"
    /\ started' \in SUBSET Claims /\ started \subseteq started'
    /\ reviewed' \in SUBSET Claims /\ pr' \in SUBSET Tickets
    /\ room' \in [Tickets -> {"none", "ready", "removed"}]
    /\ faults' = faults

(* Its ticket: no way back to an early state, and into REPAIRING only while *)
(* an attempt is left, which the attempt's evidence then uses up.           *)
TicketShape(s, c) ==
    /\ ticket' \in [Tickets -> TicketStates]
    /\ \A t \in Tickets : ticket'[t] \in Early => ticket[t] \in Early
    /\ \A t \in Tickets : ticket'[t] = "REPAIRING" =>
          \/ ticket[t] = "REPAIRING"
          \/ /\ t = issue[c] /\ call[s][c].at \in Driving
             /\ repairs[c] < MaxRepairs
    /\ \/ repairs' = repairs
       \/ /\ call[s][c].at \in Driving
          /\ ticket[issue[c]] = "REPAIRING" /\ ticket'[issue[c]] = "VERIFYING"
          /\ repairs' = [repairs EXCEPT ![c] = @ + 1]

(* No stage of executeTicket touches the evidence but in this way.          *)
LEMMA EvidenceStep ==
    ASSUME DispatchInv, NEW s \in Servers, NEW c \in Claims, Drives(s, c)
    PROVE  EvidenceShape(s, c)
  <1> USE DEF DispatchInv, TypeOK, evidence, memory, At, SetRun, AssistantEnds, KeepButRun
  <1> USE DEF EvidenceShape, Outcomes, RunStates, Driving, Calls, Concluding
  <1>1. CASE CreateWorkspace(s, c)
    BY <1>1 DEF CreateWorkspace
  <1>2. CASE ReuseWorkspace(s, c)
    BY <1>2 DEF ReuseWorkspace
  <1>3. CASE CapacityRefused(s, c)
    BY <1>3 DEF CapacityRefused
  <1>4. CASE AcquireFails(s, c)
    BY <1>4 DEF AcquireFails
  <1>5. CASE Admit(s, c)
    BY <1>5 DEF Admit
  <1>6. CASE Prepare(s, c)
    BY <1>6 DEF Prepare
  <1>7. CASE RoutingThrows(s, c)
    BY <1>7 DEF RoutingThrows
  <1>8. CASE Launch(s, c)
    BY <1>8 DEF Launch
  <1>9. CASE LaunchRefused(s, c)
    BY <1>9 DEF LaunchRefused
  <1>10. CASE RunEnds(s, c)
    BY <1>10 DEF RunEnds
  <1>11. CASE Ran(s, c)
    BY <1>11 DEF Ran
  <1>12. CASE ResumeRepair(s, c)
    BY <1>12 DEF ResumeRepair
  <1>13. CASE Review(s, c)
    BY <1>13 DEF Review
  <1>14. CASE ReviewEnds(s, c)
    BY <1>14 DEF ReviewEnds
  <1>15. CASE ReviewsAreCurrent(s, c)
    BY <1>15 DEF ReviewsAreCurrent
  <1>16. CASE Repair(s, c)
    BY <1>16 DEF Repair
  <1>17. CASE Repaired(s, c)
    BY <1>17 DEF Repaired
  <1>18. CASE RepairGivesUp(s, c)
    <2>1. /\ UNCHANGED <<issue, completed, bound, started, terminal, reviewed, pr, room, faults>>
          /\ call[s][c].at \in Driving
      BY <1>18 DEF RepairGivesUp
    <2>2. run' = run \/ run' = [run EXCEPT ![c] = IF run[c] = "assisted" THEN "succeeded" ELSE run[c]]
      BY <1>18 DEF RepairGivesUp
    <2> QED
      BY <2>1, <2>2
  <1>19. CASE RepairThrows(s, c)
    BY <1>19 DEF RepairThrows
  <1>20. CASE Passed(s, c)
    BY <1>20 DEF Passed
  <1>21. CASE ReadinessPasses(s, c)
    BY <1>21 DEF ReadinessPasses
  <1>22. CASE ReadinessFails(s, c)
    BY <1>22 DEF ReadinessFails
  <1>23. CASE RecordPR(s, c)
    BY <1>23 DEF RecordPR
  <1>24. CASE OpenPR(s, c)
    BY <1>24 DEF OpenPR
  <1>25. CASE HandoffFails(s, c)
    BY <1>25 DEF HandoffFails
  <1>26. CASE RecoveryFails(s, c)
    BY <1>26 DEF RecoveryFails
  <1>27. CASE Record(s, c)
    BY <1>27 DEF Record
  <1>28. CASE Settle(s, c)
    BY <1>28 DEF Settle
  <1>29. CASE Complete(s, c)
    BY <1>29 DEF Complete
  <1> QED
    BY <1>1, <1>2, <1>3, <1>4, <1>5, <1>6, <1>7, <1>8, <1>9, <1>10, <1>11, <1>12, <1>13, <1>14, <1>15, <1>16, <1>17, <1>18, <1>19, <1>20, <1>21, <1>22, <1>23, <1>24, <1>25, <1>26, <1>27, <1>28, <1>29 DEF Drives

(* A transition to a state that is not REPAIRING and no way back.           *)
LEMMA TicketMoves ==
    ASSUME TypeOK, NEW t \in Tickets, NEW next \in TicketStates, Transition(t, next),
           next \in Early => ticket[t] \in Early, next # "REPAIRING"
    PROVE  /\ ticket' \in [Tickets -> TicketStates]
           /\ \A u \in Tickets : ticket'[u] \in Early => ticket[u] \in Early
           /\ \A u \in Tickets : ticket'[u] = "REPAIRING" => ticket[u] = "REPAIRING"
  <1>1. ticket \in [Tickets -> TicketStates]
    BY DEF TypeOK
  <1> QED
    BY <1>1 DEF Transition

(* No stage of executeTicket moves a ticket but in this way.                *)
LEMMA TicketStep ==
    ASSUME DispatchInv, NEW s \in Servers, NEW c \in Claims, Drives(s, c)
    PROVE  TicketShape(s, c)
  <1> USE DEF TicketShape, Early, evidence, memory, KeepButRun
  <1>0. TypeOK /\ RepairingIsLate
    BY DEF DispatchInv
  <1>a. issue[c] \in Tickets
    <2>1. call[s][c].at # "idle"
      BY DEF Drives, At, CreateWorkspace, ReuseWorkspace, CapacityRefused, AcquireFails, Admit, Prepare, RoutingThrows, Launch, LaunchRefused, RunEnds, Ran, ResumeRepair, Review, ReviewEnds, ReviewsAreCurrent, Repair, Repaired, RepairGivesUp, RepairThrows, Passed, ReadinessPasses, ReadinessFails, RecordPR, OpenPR, HandoffFails, RecoveryFails, Record, Settle, Complete
    <2> QED
      BY <1>0, <2>1 DEF TypeOK
  <1>1. CASE CreateWorkspace(s, c)
    <2>1. /\ Transition(issue[c], "PLANNING") /\ UNCHANGED repairs
          /\ ticket[issue[c]] = "ELIGIBLE"
      BY <1>1 DEF CreateWorkspace
    <2>2. "PLANNING" \in TicketStates /\ ("PLANNING" \in Early => ticket[issue[c]] \in Early)
      BY <2>1 DEF TicketStates
    <2> QED
      BY <1>0, <1>a, <2>1, <2>2, TicketMoves
  <1>2. CASE ReuseWorkspace(s, c)
    <2>1. UNCHANGED <<ticket, repairs>>
      BY <1>2 DEF ReuseWorkspace, KeepButRun, evidence
    <2> QED
      BY <1>0, <2>1 DEF TypeOK
  <1>3. CASE CapacityRefused(s, c)
    <2>1. UNCHANGED <<ticket, repairs>>
      BY <1>3 DEF CapacityRefused, KeepButRun, evidence
    <2> QED
      BY <1>0, <2>1 DEF TypeOK
  <1>4. CASE AcquireFails(s, c)
    <2>1. UNCHANGED <<ticket, repairs>>
      BY <1>4 DEF AcquireFails, KeepButRun, evidence
    <2> QED
      BY <1>0, <2>1 DEF TypeOK
  <1>5. CASE Admit(s, c)
    <2>1. UNCHANGED <<ticket, repairs>>
      BY <1>5 DEF Admit, KeepButRun, evidence
    <2> QED
      BY <1>0, <2>1 DEF TypeOK
  <1>6. CASE Prepare(s, c)
    <2>1. UNCHANGED <<ticket, repairs>>
      BY <1>6 DEF Prepare, KeepButRun, evidence
    <2> QED
      BY <1>0, <2>1 DEF TypeOK
  <1>7. CASE RoutingThrows(s, c)
    <2>1. UNCHANGED <<ticket, repairs>>
      BY <1>7 DEF RoutingThrows, KeepButRun, evidence
    <2> QED
      BY <1>0, <2>1 DEF TypeOK
  <1>8. CASE Launch(s, c)
    <2>1. /\ Transition(issue[c], "IMPLEMENTING") /\ UNCHANGED repairs
          /\ ticket[issue[c]] = "PLANNING"
      BY <1>8 DEF Launch
    <2>2. "IMPLEMENTING" \in TicketStates /\ ("IMPLEMENTING" \in Early => ticket[issue[c]] \in Early)
      BY <2>1 DEF TicketStates
    <2> QED
      BY <1>0, <1>a, <2>1, <2>2, TicketMoves
  <1>9. CASE LaunchRefused(s, c)
    <2>1. UNCHANGED <<ticket, repairs>>
      BY <1>9 DEF LaunchRefused, KeepButRun, evidence
    <2> QED
      BY <1>0, <2>1 DEF TypeOK
  <1>10. CASE RunEnds(s, c)
    <2>1. UNCHANGED <<ticket, repairs>>
      BY <1>10 DEF RunEnds, KeepButRun, evidence
    <2> QED
      BY <1>0, <2>1 DEF TypeOK
  <1>11. CASE Ran(s, c)
    <2>1. UNCHANGED repairs /\ (ticket' = ticket \/ Transition(issue[c], "VERIFYING"))
      BY <1>11 DEF Ran
    <2>2. CASE ticket' = ticket
      BY <1>0, <2>1, <2>2 DEF TypeOK
    <2>3. CASE Transition(issue[c], "VERIFYING")
      <3>1. "VERIFYING" \in TicketStates
        BY DEF TicketStates
      <3> QED
        BY <1>0, <1>a, <2>1, <2>3, <3>1, TicketMoves
    <2> QED
      BY <2>1, <2>2, <2>3
  <1>12. CASE ResumeRepair(s, c)
    <2>1. /\ Transition(issue[c], "VERIFYING") /\ UNCHANGED repairs
          /\ ticket[issue[c]] = "REPAIRING"
      BY <1>12 DEF ResumeRepair
    <2>2. "VERIFYING" \in TicketStates /\ ("VERIFYING" \in Early => ticket[issue[c]] \in Early)
      BY <2>1 DEF TicketStates
    <2> QED
      BY <1>0, <1>a, <2>1, <2>2, TicketMoves
  <1>13. CASE Review(s, c)
    <2>1. UNCHANGED <<ticket, repairs>>
      BY <1>13 DEF Review, KeepButRun, evidence
    <2> QED
      BY <1>0, <2>1 DEF TypeOK
  <1>14. CASE ReviewEnds(s, c)
    <2>1. UNCHANGED <<ticket, repairs>>
      BY <1>14 DEF ReviewEnds, KeepButRun, evidence
    <2> QED
      BY <1>0, <2>1 DEF TypeOK
  <1>15. CASE ReviewsAreCurrent(s, c)
    <2>1. UNCHANGED <<ticket, repairs>>
      BY <1>15 DEF ReviewsAreCurrent, KeepButRun, evidence
    <2> QED
      BY <1>0, <2>1 DEF TypeOK
  <1>16. CASE Repair(s, c)
    <2>1. Transition(issue[c], "REPAIRING") /\ UNCHANGED repairs
      BY <1>16 DEF Repair
    <2>2. repairs[c] < MaxRepairs /\ call[s][c].at \in Driving
      BY <1>16 DEF Repair, At, Driving
    <2>3. ticket \in [Tickets -> TicketStates] /\ "REPAIRING" \in TicketStates
      BY <1>0 DEF TypeOK, TicketStates
    <2> QED
      BY <2>1, <2>2, <2>3 DEF Transition
  <1>17. CASE Repaired(s, c)
    <2>1. /\ Transition(issue[c], "VERIFYING") /\ CanTransition(issue[c], "VERIFYING")
          /\ repairs' = [repairs EXCEPT ![c] = @ + 1]
          /\ call[s][c].at = "repairing"
      BY <1>17 DEF Repaired, At
    <2>2. "VERIFYING" \in TicketStates
      BY DEF TicketStates
    <2>3. ticket[issue[c]] = "REPAIRING"
      BY <1>0, <1>a, <2>1, Transitions DEF RepairingIsLate
    <2>4. ticket'[issue[c]] = "VERIFYING"
      BY <1>0, <1>a, <2>1 DEF Transition, TypeOK
    <2>5. call[s][c].at \in Driving
      BY <2>1 DEF Driving
    <2> QED
      BY <1>0, <1>a, <2>1, <2>2, <2>3, <2>4, <2>5, TicketMoves
  <1>18. CASE RepairGivesUp(s, c)
    <2>1. /\ Transition(issue[c], "NEEDS_HUMAN") /\ UNCHANGED repairs
          /\ CanTransition(issue[c], "NEEDS_HUMAN")
      BY <1>18 DEF RepairGivesUp
    <2>2. "NEEDS_HUMAN" \in TicketStates /\ ("NEEDS_HUMAN" \in Early => ticket[issue[c]] \in Early)
      BY <2>1 DEF TicketStates
    <2> QED
      BY <1>0, <1>a, <2>1, <2>2, TicketMoves
  <1>19. CASE RepairThrows(s, c)
    <2>1. UNCHANGED <<ticket, repairs>>
      BY <1>19 DEF RepairThrows, KeepButRun, evidence
    <2> QED
      BY <1>0, <2>1 DEF TypeOK
  <1>20. CASE Passed(s, c)
    <2>1. UNCHANGED <<ticket, repairs>>
      BY <1>20 DEF Passed, KeepButRun, evidence
    <2> QED
      BY <1>0, <2>1 DEF TypeOK
  <1>21. CASE ReadinessPasses(s, c)
    <2>1. UNCHANGED <<ticket, repairs>>
      BY <1>21 DEF ReadinessPasses, KeepButRun, evidence
    <2> QED
      BY <1>0, <2>1 DEF TypeOK
  <1>22. CASE ReadinessFails(s, c)
    <2>1. UNCHANGED <<ticket, repairs>>
      BY <1>22 DEF ReadinessFails, KeepButRun, evidence
    <2> QED
      BY <1>0, <2>1 DEF TypeOK
  <1>23. CASE RecordPR(s, c)
    <2>1. UNCHANGED <<ticket, repairs>>
      BY <1>23 DEF RecordPR, KeepButRun, evidence
    <2> QED
      BY <1>0, <2>1 DEF TypeOK
  <1>24. CASE OpenPR(s, c)
    <2>1. /\ Transition(issue[c], "PR_OPEN") /\ UNCHANGED repairs
          /\ TRUE
      BY <1>24 DEF OpenPR
    <2>2. "PR_OPEN" \in TicketStates /\ ("PR_OPEN" \in Early => ticket[issue[c]] \in Early)
      BY <2>1 DEF TicketStates
    <2> QED
      BY <1>0, <1>a, <2>1, <2>2, TicketMoves
  <1>25. CASE HandoffFails(s, c)
    <2>1. UNCHANGED <<ticket, repairs>>
      BY <1>25 DEF HandoffFails, KeepButRun, evidence
    <2> QED
      BY <1>0, <2>1 DEF TypeOK
  <1>26. CASE RecoveryFails(s, c)
    <2>1. UNCHANGED <<ticket, repairs>>
      BY <1>26 DEF RecoveryFails, KeepButRun, evidence
    <2> QED
      BY <1>0, <2>1 DEF TypeOK
  <1>27. CASE Record(s, c)
    <2>1. UNCHANGED <<ticket, repairs>>
      BY <1>27 DEF Record, KeepButRun, evidence
    <2> QED
      BY <1>0, <2>1 DEF TypeOK
  <1>28. CASE Settle(s, c)
    <2>1. UNCHANGED repairs
      BY <1>28 DEF Settle
    <2>2. \/ ticket' = ticket
          \/ \E next \in {"BLOCKED", "FAILED", "NEEDS_HUMAN", "PAUSED"} :
                CanTransition(issue[c], next) /\ Transition(issue[c], next)
      BY <1>28 DEF Settle, Target
    <2>3. CASE ticket' = ticket
      BY <1>0, <2>1, <2>3 DEF TypeOK
    <2>4. ASSUME NEW next \in {"BLOCKED", "FAILED", "NEEDS_HUMAN", "PAUSED"},
                 CanTransition(issue[c], next), Transition(issue[c], next)
          PROVE  TicketShape(s, c)
      <3>1. next \in TicketStates
        BY <1>0, <1>a, <2>4, Transitions
      <3> QED
        BY <1>0, <1>a, <2>1, <2>4, <3>1, TicketMoves
    <2> QED
      BY <2>2, <2>3, <2>4
  <1>29. CASE Complete(s, c)
    <2>1. UNCHANGED <<ticket, repairs>>
      BY <1>29 DEF Complete, KeepButRun, evidence
    <2> QED
      BY <1>0, <2>1 DEF TypeOK
  <1> QED
    BY <1>1, <1>2, <1>3, <1>4, <1>5, <1>6, <1>7, <1>8, <1>9, <1>10, <1>11, <1>12, <1>13, <1>14, <1>15, <1>16, <1>17, <1>18, <1>19, <1>20, <1>21, <1>22, <1>23, <1>24, <1>25, <1>26, <1>27, <1>28, <1>29 DEF Drives

(* The calls: only this one moves, it gets past the binding, to the routing *)
(* or to its end only where the invariant allows.                           *)
CallShape(s, c) ==
    /\ Moves(s, c, call'[s][c])
    /\ UNCHANGED <<server, listed>>
    /\ call[s][c].at # "idle"
    /\ call'[s][c].at \in Driving => call[s][c].at \in Driving
    /\ call'[s][c].at = "record" => call'[s][c].want # "none"
    /\ call'[s][c].at \in {"settle", "complete"} => terminal'[c] # "none"
    /\ call'[s][c].at \in {"routing", "running"} =>
          Implementing(s, c) \/ (c \notin started /\ c \in started')
    /\ call'[s][c].at = "repairing" => ticket'[issue[c]] = "REPAIRING"

(* CallShape for a Goto.                                                    *)
LEMMA GotoShape ==
    ASSUME TypeOK, NEW s \in Servers, NEW c \in Claims, NEW to \in Positions \ {"record"},
           Goto(s, c, to), call[s][c].at # "idle",
           to \in Driving => call[s][c].at \in Driving,
           to \in {"settle", "complete"} => terminal'[c] # "none",
           to \in {"routing", "running"} =>
              Implementing(s, c) \/ (c \notin started /\ c \in started'),
           to = "repairing" => ticket'[issue[c]] = "REPAIRING"
    PROVE  CallShape(s, c)
  <1>1. Moves(s, c, [call[s][c] EXCEPT !.at = to])
    BY GotoMoves
  <1>2. call'[s][c] = [call[s][c] EXCEPT !.at = to] /\ call[s][c] \in Calls
    BY <1>1, CallTyped DEF Moves
  <1>3. call'[s][c].at = to
    BY <1>2 DEF Calls
  <1> QED
    BY <1>1, <1>2, <1>3 DEF CallShape, Goto

(* CallShape for a Conclude.                                                *)
LEMMA ConcludeShape ==
    ASSUME TypeOK, NEW s \in Servers, NEW c \in Claims, NEW outcome \in Outcomes,
           Conclude(s, c, outcome), call[s][c].at # "idle"
    PROVE  CallShape(s, c)
  <1>1. Moves(s, c, [call[s][c] EXCEPT !.at = "record", !.want = outcome])
    BY ConcludeMoves
  <1>2. /\ call'[s][c] = [call[s][c] EXCEPT !.at = "record", !.want = outcome]
        /\ call[s][c] \in Calls
    BY <1>1, CallTyped DEF Moves
  <1>3. call'[s][c].at = "record" /\ call'[s][c].want = outcome
    BY <1>2 DEF Calls
  <1> QED
    BY <1>1, <1>2, <1>3 DEF CallShape, Conclude, Outcomes, Driving

(* CallShape for a call that does not move.                                 *)
LEMMA StayShape ==
    ASSUME TypeOK, NEW s \in Servers, NEW c \in Claims, UNCHANGED memory,
           call[s][c].at \in {"running", "verifying"}
    PROVE  CallShape(s, c)
  <1>1. UNCHANGED <<server, listed, call>>
    BY DEF memory
  <1>2. Moves(s, c, call'[s][c])
    BY <1>1 DEF Moves, CallsTyped, TypeOK
  <1> QED
    BY <1>1, <1>2 DEF CallShape, Implementing, At

(* No stage of executeTicket moves a call but in this way.                  *)
LEMMA CallStep ==
    ASSUME DispatchInv, NEW s \in Servers, NEW c \in Claims, Drives(s, c)
    PROVE  CallShape(s, c)
  <1> USE DEF At, evidence, KeepButRun
  <1>0. TypeOK
    BY DEF DispatchInv
  <1>b. Concluding
    BY DEF DispatchInv
  <1>1. CASE CreateWorkspace(s, c)
    <2>1. Goto(s, c, "acquired") /\ (call[s][c].at = "acquire")
      BY <1>1 DEF CreateWorkspace
    <2> QED
      BY <1>0, <2>1, GotoShape DEF Positions, Driving
  <1>2. CASE ReuseWorkspace(s, c)
    <2>1. Goto(s, c, "acquired") /\ (call[s][c].at = "acquire")
      BY <1>2 DEF ReuseWorkspace
    <2> QED
      BY <1>0, <2>1, GotoShape DEF Positions, Driving
  <1>3. CASE CapacityRefused(s, c)
    <2>1. PICK outcome \in {"NO_CAPACITY"} : Conclude(s, c, outcome)
      BY <1>3 DEF CapacityRefused
    <2>2. call[s][c].at # "idle"
      BY <1>3 DEF CapacityRefused
    <2>3. outcome \in Outcomes
      BY <2>1 DEF Outcomes
    <2> QED
      BY <1>0, <2>1, <2>2, <2>3, ConcludeShape
  <1>4. CASE AcquireFails(s, c)
    <2>1. PICK outcome \in {"NEEDS_HUMAN", "BLOCKED"} : Conclude(s, c, outcome)
      BY <1>4 DEF AcquireFails
    <2>2. call[s][c].at # "idle"
      BY <1>4 DEF AcquireFails
    <2>3. outcome \in Outcomes
      BY <2>1 DEF Outcomes
    <2> QED
      BY <1>0, <2>1, <2>2, <2>3, ConcludeShape
  <1>5. CASE Admit(s, c)
    <2>1. /\ \/ Conclude(s, c, "NEEDS_HUMAN") \/ Goto(s, c, "ran")
             \/ Goto(s, c, "routing") /\ c \notin started
          /\ call[s][c].at = "acquired" /\ c \in started'
      BY <1>5 DEF Admit
    <2>2. CASE Conclude(s, c, "NEEDS_HUMAN")
      <3>1. "NEEDS_HUMAN" \in Outcomes
        BY DEF Outcomes
      <3> QED
        BY <1>0, <2>1, <2>2, <3>1, ConcludeShape
    <2>3. CASE Goto(s, c, "ran")
      BY <1>0, <2>1, <2>3, GotoShape DEF Positions, Driving
    <2>4. CASE Goto(s, c, "routing") /\ c \notin started
      BY <1>0, <2>1, <2>4, GotoShape DEF Positions, Driving
    <2> QED
      BY <2>1, <2>2, <2>3, <2>4
  <1>6. CASE Prepare(s, c)
    <2>1. Goto(s, c, "running") /\ call[s][c].at = "routing"
      BY <1>6 DEF Prepare
    <2>2. Implementing(s, c)
      BY <2>1 DEF Implementing, At
    <2> QED
      BY <1>0, <2>1, <2>2, GotoShape DEF Positions, Driving
  <1>7. CASE RoutingThrows(s, c)
    <2>1. PICK outcome \in {"NEEDS_HUMAN", "FAILED"} : Conclude(s, c, outcome)
      BY <1>7 DEF RoutingThrows
    <2>2. call[s][c].at # "idle"
      BY <1>7 DEF RoutingThrows
    <2>3. outcome \in Outcomes
      BY <2>1 DEF Outcomes
    <2> QED
      BY <1>0, <2>1, <2>2, <2>3, ConcludeShape
  <1>8. CASE Launch(s, c)
    <2>1. UNCHANGED memory /\ call[s][c].at \in {"running", "verifying"}
      BY <1>8 DEF Launch
    <2> QED
      BY <1>0, <2>1, StayShape
  <1>9. CASE LaunchRefused(s, c)
    <2>1. UNCHANGED <<server, listed>> /\ call[s][c].at = "running"
      BY <1>9 DEF LaunchRefused
    <2>2. call[s][c] \in Calls /\ Implementing(s, c)
      BY <1>0, <2>1, CallTyped DEF Implementing, At
    <2>3. ASSUME NEW r \in Calls, r.at \in {"routing", "ran"},
                 call' = [call EXCEPT ![s][c] = r]
          PROVE  CallShape(s, c)
      <3>1. Moves(s, c, r)
        BY <1>0, <2>3, MoveCall
      <3>2. call'[s][c] = r
        BY <3>1 DEF Moves
      <3> QED
        BY <2>1, <2>2, <2>3, <3>1, <3>2 DEF CallShape, Driving
    <2>4. CASE /\ call[s][c].fallbacks < MaxFallbacks
               /\ call' = [call EXCEPT ![s][c] =
                     [@ EXCEPT !.at = "routing", !.fallbacks = call[s][c].fallbacks + 1]]
      <3> DEFINE n == call[s][c].fallbacks + 1
                 r == [call[s][c] EXCEPT !.at = "routing", !.fallbacks = n]
      <3>1. n \in 0..MaxFallbacks
        BY <2>2, <2>4, BoundsAssumption DEF Calls
      <3>2. call' = [call EXCEPT ![s][c] = r]
        BY <2>4
      <3> HIDE DEF n
      <3>3. r \in Calls /\ r.at = "routing"
        BY <2>2, <3>1 DEF Calls, Positions
      <3> HIDE DEF r
      <3> QED
        BY <2>3, <3>2, <3>3
    <2>5. CASE call' = [call EXCEPT ![s][c] = [@ EXCEPT !.at = "ran", !.run = "needsHuman"]]
      <3> DEFINE r == [call[s][c] EXCEPT !.at = "ran", !.run = "needsHuman"]
      <3>1. r \in Calls /\ r.at = "ran"
        BY <2>2 DEF Calls, Positions, RunStates
      <3> QED
        BY <2>3, <2>5, <3>1
    <2> QED
      BY <1>9, <2>4, <2>5 DEF LaunchRefused
  <1>10. CASE RunEnds(s, c)
    <2>1. PICK status \in {"succeeded", "failed", "needsHuman"} :
                call' = [call EXCEPT ![s][c] = [@ EXCEPT !.at = "ran", !.run = status]]
      BY <1>10 DEF RunEnds
    <2>2. UNCHANGED <<server, listed>> /\ call[s][c].at = "running"
      BY <1>10 DEF RunEnds
    <2> DEFINE r == [call[s][c] EXCEPT !.at = "ran", !.run = status]
    <2>3. r \in Calls /\ r.at = "ran"
      BY <1>0, <2>1, CallTyped DEF Calls, Positions, RunStates
    <2>4. Moves(s, c, r)
      BY <1>0, <2>1, <2>3, MoveCall
    <2>5. call'[s][c] = r
      BY <2>4 DEF Moves
    <2> HIDE DEF r
    <2> QED
      BY <2>2, <2>3, <2>4, <2>5 DEF CallShape, Driving
  <1>11. CASE Ran(s, c)
    <2>1. /\ \/ \E outcome \in {"NEEDS_HUMAN", "FAILED"} : Conclude(s, c, outcome)
             \/ Goto(s, c, IF terminal[c] # "none" THEN "complete" ELSE "verifying")
          /\ call[s][c].at = "ran" /\ terminal' = terminal
      BY <1>11 DEF Ran, Continue, RunOutcome
    <2>2. ASSUME NEW outcome \in {"NEEDS_HUMAN", "FAILED"}, Conclude(s, c, outcome)
          PROVE  CallShape(s, c)
      <3>1. outcome \in Outcomes
        BY DEF Outcomes
      <3> QED
        BY <1>0, <2>1, <2>2, <3>1, ConcludeShape
    <2>3. CASE Goto(s, c, IF terminal[c] # "none" THEN "complete" ELSE "verifying")
      BY <1>0, <2>1, <2>3, GotoShape DEF Positions, Driving
    <2> QED
      BY <2>1, <2>2, <2>3
  <1>12. CASE ResumeRepair(s, c)
    <2>1. UNCHANGED memory /\ call[s][c].at \in {"running", "verifying"}
      BY <1>12 DEF ResumeRepair
    <2> QED
      BY <1>0, <2>1, StayShape
  <1>13. CASE Review(s, c)
    <2>1. Goto(s, c, "reviewing") /\ (call[s][c].at = "verifying")
      BY <1>13 DEF Review
    <2> QED
      BY <1>0, <2>1, GotoShape DEF Positions, Driving
  <1>14. CASE ReviewEnds(s, c)
    <2>1. Goto(s, c, "reviewed") /\ (call[s][c].at = "reviewing")
      BY <1>14 DEF ReviewEnds
    <2> QED
      BY <1>0, <2>1, GotoShape DEF Positions, Driving
  <1>15. CASE ReviewsAreCurrent(s, c)
    <2>1. Goto(s, c, "reviewed") /\ (call[s][c].at = "verifying")
      BY <1>15 DEF ReviewsAreCurrent
    <2> QED
      BY <1>0, <2>1, GotoShape DEF Positions, Driving
  <1>16. CASE Repair(s, c)
    <2>1. /\ Goto(s, c, "repairing") /\ call[s][c].at = "reviewed"
          /\ Transition(issue[c], "REPAIRING")
      BY <1>16 DEF Repair
    <2>2. ticket'[issue[c]] = "REPAIRING"
      BY <1>0, <2>1 DEF Transition, TypeOK
    <2> QED
      BY <1>0, <2>1, <2>2, GotoShape DEF Positions, Driving
  <1>17. CASE Repaired(s, c)
    <2>1. Goto(s, c, "verifying") /\ (call[s][c].at = "repairing")
      BY <1>17 DEF Repaired
    <2> QED
      BY <1>0, <2>1, GotoShape DEF Positions, Driving
  <1>18. CASE RepairGivesUp(s, c)
    <2>1. PICK outcome \in {"NEEDS_HUMAN"} : Conclude(s, c, outcome)
      BY <1>18 DEF RepairGivesUp
    <2>2. call[s][c].at # "idle"
      BY <1>18 DEF RepairGivesUp
    <2>3. outcome \in Outcomes
      BY <2>1 DEF Outcomes
    <2> QED
      BY <1>0, <2>1, <2>2, <2>3, ConcludeShape
  <1>19. CASE RepairThrows(s, c)
    <2>1. PICK outcome \in {"FAILED"} : Conclude(s, c, outcome)
      BY <1>19 DEF RepairThrows
    <2>2. call[s][c].at # "idle"
      BY <1>19 DEF RepairThrows
    <2>3. outcome \in Outcomes
      BY <2>1 DEF Outcomes
    <2> QED
      BY <1>0, <2>1, <2>2, <2>3, ConcludeShape
  <1>20. CASE Passed(s, c)
    <2>1. /\ Goto(s, c, IF terminal[c] # "none" THEN "complete" ELSE "ready")
          /\ call[s][c].at = "reviewed" /\ terminal' = terminal
      BY <1>20 DEF Passed, Continue
    <2> QED
      BY <1>0, <2>1, GotoShape DEF Positions, Driving
  <1>21. CASE ReadinessPasses(s, c)
    <2>1. /\ Goto(s, c, IF terminal[c] # "none" THEN "complete" ELSE "handoff")
          /\ call[s][c].at = "ready" /\ terminal' = terminal
      BY <1>21 DEF ReadinessPasses, Continue
    <2> QED
      BY <1>0, <2>1, GotoShape DEF Positions, Driving
  <1>22. CASE ReadinessFails(s, c)
    <2>1. PICK outcome \in {"NEEDS_HUMAN", "FAILED"} : Conclude(s, c, outcome)
      BY <1>22 DEF ReadinessFails
    <2>2. call[s][c].at # "idle"
      BY <1>22 DEF ReadinessFails
    <2>3. outcome \in Outcomes
      BY <2>1 DEF Outcomes
    <2> QED
      BY <1>0, <2>1, <2>2, <2>3, ConcludeShape
  <1>23. CASE RecordPR(s, c)
    <2>1. /\ Goto(s, c, "opening") \/ Goto(s, c, "reopening")
          /\ call[s][c].at \in {"handoff", "recovering"}
      BY <1>23 DEF RecordPR
    <2> QED
      BY <1>0, <2>1, GotoShape DEF Positions, Driving
  <1>24. CASE OpenPR(s, c)
    <2>1. PICK outcome \in {"PR_RAISED"} : Conclude(s, c, outcome)
      BY <1>24 DEF OpenPR
    <2>2. call[s][c].at # "idle"
      BY <1>24 DEF OpenPR
    <2>3. outcome \in Outcomes
      BY <2>1 DEF Outcomes
    <2> QED
      BY <1>0, <2>1, <2>2, <2>3, ConcludeShape
  <1>25. CASE HandoffFails(s, c)
    <2>1. /\ Goto(s, c, "recovering") \/ Conclude(s, c, "NEEDS_HUMAN")
          /\ call[s][c].at \in {"handoff", "opening"}
      BY <1>25 DEF HandoffFails
    <2>2. "NEEDS_HUMAN" \in Outcomes
      BY DEF Outcomes
    <2>3. CASE Conclude(s, c, "NEEDS_HUMAN")
      BY <1>0, <2>1, <2>2, <2>3, ConcludeShape
    <2>4. CASE Goto(s, c, "recovering")
      BY <1>0, <2>1, <2>4, GotoShape DEF Positions, Driving
    <2> QED
      BY <2>1, <2>3, <2>4
  <1>26. CASE RecoveryFails(s, c)
    <2>1. PICK outcome \in {"NEEDS_HUMAN"} : Conclude(s, c, outcome)
      BY <1>26 DEF RecoveryFails
    <2>2. call[s][c].at # "idle"
      BY <1>26 DEF RecoveryFails
    <2>3. outcome \in Outcomes
      BY <2>1 DEF Outcomes
    <2> QED
      BY <1>0, <2>1, <2>2, <2>3, ConcludeShape
  <1>27. CASE Record(s, c)
    <2>1. /\ Goto(s, c, "complete") \/ Goto(s, c, "settle")
          /\ call[s][c].at = "record"
          /\ terminal' = [terminal EXCEPT ![c] = IF @ = "none" THEN call[s][c].want ELSE @]
      BY <1>27 DEF Record
    <2>2. terminal'[c] # "none"
      BY <1>0, <1>b, <2>1 DEF Concluding, TypeOK
    <2> QED
      BY <1>0, <2>1, <2>2, GotoShape DEF Positions, Driving
  <1>28. CASE Settle(s, c)
    <2>1. Goto(s, c, "complete") /\ call[s][c].at = "settle" /\ terminal' = terminal
      BY <1>28 DEF Settle
    <2>2. terminal'[c] # "none"
      BY <1>b, <2>1 DEF Concluding
    <2> QED
      BY <1>0, <2>1, <2>2, GotoShape DEF Positions, Driving
  <1>29. CASE Complete(s, c)
    <2>1. Leave(s, c) /\ call[s][c].at = "complete"
      BY <1>29 DEF Complete
    <2>2. Moves(s, c, Idle) /\ UNCHANGED <<server, listed>>
      BY <1>0, <2>1, LeaveMoves DEF Leave
    <2>3. call'[s][c].at = "idle" /\ call'[s][c] = Idle
      BY <2>2 DEF Moves, Idle
    <2> QED
      BY <2>1, <2>2, <2>3 DEF CallShape, Driving
  <1> QED
    BY <1>1, <1>2, <1>3, <1>4, <1>5, <1>6, <1>7, <1>8, <1>9, <1>10, <1>11, <1>12, <1>13, <1>14, <1>15, <1>16, <1>17, <1>18, <1>19, <1>20, <1>21, <1>22, <1>23, <1>24, <1>25, <1>26, <1>27, <1>28, <1>29 DEF Drives

-----------------------------------------------------------------------------
(* The steps preserve the invariant. *)

(* A stage of executeTicket.                                                *)
LEMMA DriveStep ==
    ASSUME DispatchInv, NEW s \in Servers, NEW c \in Claims, Drives(s, c)
    PROVE  DispatchInv'
  <1>1. EvidenceShape(s, c) /\ TicketShape(s, c) /\ CallShape(s, c)
    BY EvidenceStep, TicketStep, CallStep
  <1>2. issue[c] \in Tickets /\ issue' = issue /\ bound' = bound
    BY <1>1 DEF EvidenceShape, CallShape, DispatchInv, TypeOK
  <1>3. \A x \in Servers, d \in Claims : x # s \/ d # c => call'[x][d] = call[x][d]
    BY <1>1 DEF CallShape, Moves
  <1>4. call[s][c].at \in Driving => bound[issue[c]] = c
    BY DEF DispatchInv, DrivesTheBound
  <1>5. TypeOK'
    <2>1. repairs' \in [Claims -> 0..MaxRepairs]
      <3>1. CASE repairs' = repairs
        BY <3>1 DEF DispatchInv, TypeOK
      <3>2. CASE /\ call[s][c].at \in Driving /\ ticket[issue[c]] = "REPAIRING"
                 /\ repairs' = [repairs EXCEPT ![c] = @ + 1]
        <4>1. repairs[c] < MaxRepairs
          BY <1>2, <1>4, <3>2 DEF DispatchInv, AttemptLeft
        <4>2. repairs \in [Claims -> 0..MaxRepairs]
          BY DEF DispatchInv, TypeOK
        <4>3. repairs[c] + 1 \in 0..MaxRepairs
          BY <4>1, <4>2, BoundsAssumption
        <4> QED
          BY <3>2, <4>2, <4>3
      <3> QED
        BY <1>1, <3>1, <3>2 DEF TicketShape
    <2>2. /\ issue' \in [Claims -> Tickets \cup {NoTicket}]
          /\ bound' \in [Tickets -> Claims \cup {NoClaim}]
          /\ faults' \in 0..MaxFaults
      BY <1>1 DEF EvidenceShape, DispatchInv, TypeOK
    <2>3. /\ server' \in [Servers -> {"down", "recovering", "listening"}]
          /\ listed' \in [Servers -> SUBSET Claims]
          /\ listed' = listed
      BY <1>1 DEF CallShape, DispatchInv, TypeOK
    <2>4. call' \in [Servers -> [Claims -> Calls]]
      BY <1>1 DEF CallShape, Moves, CallsTyped
    <2>5. \A x \in Servers, d \in Claims :
             d \in listed'[x] \/ call'[x][d].at # "idle" => issue'[d] \in Tickets
      BY <1>1, <1>2, <1>3, <2>3 DEF DispatchInv, TypeOK
    <2> QED
      BY <1>1, <2>1, <2>2, <2>3, <2>4, <2>5 DEF EvidenceShape, TicketShape, TypeOK
  <1>6. DrivesTheBound'
    <2>1. ASSUME NEW x \in Servers, NEW d \in Claims, call'[x][d].at \in Driving
          PROVE  bound'[issue'[d]] = d
      <3>1. call[x][d].at \in Driving
        BY <1>1, <1>3, <2>1 DEF CallShape
      <3> QED
        BY <1>2, <3>1 DEF DispatchInv, DrivesTheBound
    <2>2. ASSUME NEW d \in Claims, run'[d] # "none"
          PROVE  issue'[d] \in Tickets /\ bound'[issue'[d]] = d
      BY <1>1, <1>2, <1>4, <2>2 DEF EvidenceShape, DispatchInv, DrivesTheBound
    <2> QED
      BY <2>1, <2>2 DEF DrivesTheBound
  <1>7. BindingIssued'
    BY <1>2 DEF DispatchInv, BindingIssued
  <1>8. AttemptLeft'
    <2>1. SUFFICES ASSUME NEW t \in Tickets, ticket'[t] = "REPAIRING"
                   PROVE  bound[t] \in Claims /\ repairs'[bound[t]] < MaxRepairs
      BY <1>2 DEF AttemptLeft
    <2>2. CASE ticket[t] = "REPAIRING"
      <3>1. bound[t] \in Claims /\ repairs[bound[t]] < MaxRepairs
        BY <2>2 DEF DispatchInv, AttemptLeft
      <3>2. issue[bound[t]] = t
        BY <3>1, ClaimsAssumption DEF DispatchInv, BindingIssued
      <3>3. repairs'[bound[t]] = repairs[bound[t]]
        BY <1>1, <2>1, <3>1, <3>2 DEF TicketShape, DispatchInv, TypeOK
      <3> QED
        BY <3>1, <3>3
    <2>3. CASE /\ t = issue[c] /\ call[s][c].at \in Driving
               /\ repairs[c] < MaxRepairs
      BY <1>1, <1>4, <2>1, <2>3 DEF TicketShape
    <2> QED
      BY <1>1, <2>1, <2>2, <2>3 DEF TicketShape
  <1>9. RepairingIsLate'
    <2>1. SUFFICES ASSUME NEW x \in Servers, NEW d \in Claims,
                          call'[x][d].at = "repairing"
                   PROVE  ticket'[issue[d]] \notin Early
      BY <1>2 DEF RepairingIsLate
    <2>2. CASE x = s /\ d = c
      BY <1>1, <2>1, <2>2 DEF CallShape, Early
    <2>3. CASE x # s \/ d # c
      <3>1. call[x][d].at = "repairing"
        BY <1>3, <2>1, <2>3
      <3>2. issue[d] \in Tickets /\ ticket[issue[d]] \notin Early
        BY <3>1 DEF DispatchInv, TypeOK, RepairingIsLate
      <3> QED
        BY <1>1, <3>2 DEF TicketShape
    <2> QED
      BY <2>2, <2>3
  <1>10. Concluding'
    <2>1. ASSUME NEW x \in Servers, NEW d \in Claims, x # s \/ d # c
          PROVE  /\ call'[x][d].at = "record" => call'[x][d].want # "none"
                 /\ call'[x][d].at \in {"settle", "complete"} => terminal'[d] # "none"
      <3>1. call'[x][d] = call[x][d]
        BY <1>3, <2>1
      <3>2. terminal[d] # "none" => terminal'[d] # "none"
        BY <1>1 DEF EvidenceShape
      <3> QED
        BY <3>1, <3>2 DEF DispatchInv, Concluding
    <2>2. /\ call'[s][c].at = "record" => call'[s][c].want # "none"
          /\ call'[s][c].at \in {"settle", "complete"} => terminal'[c] # "none"
      BY <1>1 DEF CallShape
    <2> QED
      BY <2>1, <2>2 DEF Concluding
  <1>11. ImplementerStarted'
    <2>1. started \subseteq started'
      BY <1>1 DEF EvidenceShape
    <2>2. \A x \in Servers, d \in Claims :
             x # s \/ d # c => (Implementing(x, d)' <=> Implementing(x, d))
      BY <1>3 DEF Implementing, At
    <2>3. Implementing(s, c)' => Implementing(s, c) \/ (c \notin started /\ c \in started')
      BY <1>1 DEF CallShape, Implementing, At
    <2> QED
      BY <2>1, <2>2, <2>3 DEF DispatchInv, ImplementerStarted
  <1>12. CompletedHasEvidence'
    BY <1>1 DEF EvidenceShape, DispatchInv, CompletedHasEvidence
  <1> QED
    BY <1>5, <1>6, <1>7, <1>8, <1>9, <1>10, <1>11, <1>12 DEF DispatchInv

(* Where a call is after bindExecution and the early returns behind it.     *)
BeginShape(s, c) ==
    /\ Moves(s, c, call'[s][c]) /\ UNCHANGED <<server, listed>>
    /\ call'[s][c].at \in {"complete", "recovering", "acquire", "record", "idle"}
    /\ call'[s][c].at \in {"acquire", "recovering"} => Binding(issue[c], c) = c
    /\ call'[s][c].at \in {"acquire", "recovering", "record"} => terminal[c] = "none"
    /\ call'[s][c].at = "record" => call'[s][c].want \in {"CONFLICT", "NEEDS_HUMAN", "FAILED"}
    /\ call'[s][c].at = "complete" => terminal[c] # "none"
    /\ call'[s][c].at = "record" =>
          (call'[s][c].want = "CONFLICT" <=> Binding(issue[c], c) # c)
    /\ call'[s][c].at \in {"acquire", "recovering"} => call'[s][c].run = run[c]

LEMMA BeginCall ==
    ASSUME DispatchInv, NEW s \in Servers, NEW c \in Claims, Begin(s, c)
    PROVE  BeginShape(s, c)
  <1> USE DEF BeginShape
  <1> DEFINE t == issue[c]
             b == Binding(t, c)
             places == {"complete", "recovering", "acquire"}
  <1>0. TypeOK /\ call[s][c].at = "scheduled" /\ t \in Tickets
    BY DEF Begin, At, DispatchInv, TypeOK
  <1> DEFINE resume == [call[s][c] EXCEPT !.eligible = (ticket[t] = "ELIGIBLE"),
                                          !.run = run[c]]
             enter(to) == call' = [call EXCEPT ![s][c] = [resume EXCEPT !.at = to]]
                             /\ UNCHANGED <<server, listed>>
  <1>1. \/ Leave(s, c)
        \/ /\ \E outcome \in {"CONFLICT", "NEEDS_HUMAN", "FAILED"} :
                 /\ Conclude(s, c, outcome)
                 /\ outcome = "CONFLICT" <=> b # c
           /\ terminal[c] = "none"
        \/ b = c /\ enter("complete") /\ terminal[c] # "none"
        \/ b = c /\ enter("recovering") /\ terminal[c] = "none"
        \/ b = c /\ enter("acquire") /\ terminal[c] = "none"
    BY DEF Begin
  <1>2. CASE Leave(s, c)
    <2>1. Moves(s, c, Idle) /\ UNCHANGED <<server, listed>>
      BY <1>0, <1>2, LeaveMoves DEF Leave
    <2>2. call'[s][c] = Idle /\ Idle.at = "idle"
      BY <2>1 DEF Moves, Idle
    <2> QED
      BY <2>1, <2>2
  <1>3. ASSUME NEW outcome \in {"CONFLICT", "NEEDS_HUMAN", "FAILED"},
               Conclude(s, c, outcome)
        PROVE  /\ Moves(s, c, call'[s][c]) /\ UNCHANGED <<server, listed>>
               /\ call'[s][c].at = "record" /\ call'[s][c].want = outcome
    <2>1. outcome \in Outcomes
      BY DEF Outcomes
    <2>2. CallShape(s, c)
      BY <1>0, <1>3, <2>1, ConcludeShape
    <2>3. Moves(s, c, [call[s][c] EXCEPT !.at = "record", !.want = outcome])
      BY <1>0, <1>3, <2>1, ConcludeMoves
    <2>4. call'[s][c].at = "record" /\ call'[s][c].want = outcome
      BY <1>0, <2>3, CallTyped DEF Moves, Calls
    <2> QED
      BY <2>2, <2>4 DEF CallShape
  <1>4. ASSUME NEW to \in places, enter(to)
        PROVE  /\ Moves(s, c, call'[s][c]) /\ UNCHANGED <<server, listed>>
               /\ call'[s][c].at = to /\ call'[s][c].run = run[c]
    <2>1. /\ [resume EXCEPT !.at = to] \in Calls /\ [resume EXCEPT !.at = to].at = to
          /\ [resume EXCEPT !.at = to].run = run[c]
      <3>1. run[c] \in RunStates /\ call[s][c] \in Calls /\ to \in Positions
        BY <1>0, CallTyped DEF TypeOK, Positions
      <3> QED
        BY <3>1 DEF Calls
    <2> HIDE DEF resume
    <2>2. Moves(s, c, [resume EXCEPT !.at = to])
      BY <1>0, <1>4, <2>1, MoveCall
    <2> QED
      BY <1>4, <2>1, <2>2 DEF Moves
  <1> HIDE DEF enter, resume
  <1>5. CASE b = c /\ enter("complete") /\ terminal[c] # "none"
    BY <1>4, <1>5
  <1>6. CASE b = c /\ enter("recovering") /\ terminal[c] = "none"
    BY <1>4, <1>6
  <1>7. CASE b = c /\ enter("acquire") /\ terminal[c] = "none"
    BY <1>4, <1>7
  <1> QED
    BY <1>1, <1>2, <1>3, <1>5, <1>6, <1>7

(* bindExecution and the early returns behind it.                           *)
LEMMA BeginStep ==
    ASSUME DispatchInv, NEW s \in Servers, NEW c \in Claims, Begin(s, c)
    PROVE  DispatchInv'
  <1> DEFINE t == issue[c]
             b == Binding(t, c)
             places == {"complete", "recovering", "acquire"}
  <1>0. TypeOK /\ call[s][c].at = "scheduled" /\ t \in Tickets
    BY DEF Begin, At, DispatchInv, TypeOK
  <1>1. /\ UNCHANGED <<ticket, issue, completed, started, terminal, run, repairs,
                       reviewed, pr, room, faults>>
        /\ bound' = [bound EXCEPT ![t] = b]
    BY DEF Begin
  <1>2. b \in Claims /\ (bound[t] # NoClaim => b = bound[t])
    BY <1>0 DEF Binding, TypeOK
  <1>3. issue[b] = t
    BY <1>0, <1>2 DEF Binding, DispatchInv, BindingIssued
  <1>4. /\ Moves(s, c, call'[s][c]) /\ UNCHANGED <<server, listed>>
        /\ call'[s][c].at \in places \cup {"record", "idle"}
        /\ call'[s][c].at \in {"acquire", "recovering"} => b = c
        /\ call'[s][c].at = "record" => call'[s][c].want # "none"
        /\ call'[s][c].at = "complete" => terminal[c] # "none"
    BY BeginCall DEF BeginShape
  <1>5. \A x \in Servers, d \in Claims : x # s \/ d # c => call'[x][d] = call[x][d]
    BY <1>4 DEF Moves
  <1>6. \A u \in Tickets : bound[u] # NoClaim => bound'[u] = bound[u]
    BY <1>0, <1>1, <1>2 DEF TypeOK
  <1>7. bound'[t] = b /\ bound' \in [Tickets -> Claims \cup {NoClaim}]
    BY <1>0, <1>1, <1>2 DEF TypeOK
  <1>8. \A d \in Claims : issue[d] \in Tickets /\ bound[issue[d]] = d => bound'[issue[d]] = d
    BY <1>6, ClaimsAssumption
  <1> HIDE DEF t, b, places
  <1>9. TypeOK'
    <2>1. \A x \in Servers, d \in Claims :
             d \in listed[x] \/ call'[x][d].at # "idle" => issue[d] \in Tickets
      BY <1>0, <1>5 DEF TypeOK, t
    <2>2. call' \in [Servers -> [Claims -> Calls]]
      BY <1>4 DEF Moves, CallsTyped
    <2> QED
      BY <1>0, <1>1, <1>4, <1>7, <2>1, <2>2 DEF TypeOK
  <1>10. DrivesTheBound'
    <2>1. ASSUME NEW x \in Servers, NEW d \in Claims, call'[x][d].at \in Driving
          PROVE  bound'[issue[d]] = d
      <3>1. CASE x = s /\ d = c
        BY <1>4, <1>7, <2>1, <3>1 DEF Driving, t, places
      <3>2. CASE x # s \/ d # c
        <4>1. call[x][d].at \in Driving
          BY <1>5, <2>1, <3>2
        <4>2. issue[d] \in Tickets /\ bound[issue[d]] = d
          BY <1>0, <4>1 DEF DispatchInv, DrivesTheBound, TypeOK, Driving
        <4> QED
          BY <1>8, <4>2
      <3> QED
        BY <3>1, <3>2
    <2>2. ASSUME NEW d \in Claims, run[d] # "none"
          PROVE  issue[d] \in Tickets /\ bound'[issue[d]] = d
      BY <1>8, <2>2 DEF DispatchInv, DrivesTheBound
    <2> QED
      BY <1>1, <2>1, <2>2 DEF DrivesTheBound
  <1>11. BindingIssued'
    <2>1. \A u \in Tickets : u # t => bound'[u] = bound[u]
      BY <1>0, <1>1 DEF TypeOK
    <2> QED
      BY <1>1, <1>3, <1>7, <2>1 DEF DispatchInv, BindingIssued
  <1>12. AttemptLeft'
    BY <1>1, <1>6, ClaimsAssumption DEF DispatchInv, AttemptLeft
  <1>13. RepairingIsLate'
    BY <1>1, <1>4, <1>5 DEF DispatchInv, RepairingIsLate, places
  <1>14. Concluding'
    BY <1>1, <1>4, <1>5 DEF DispatchInv, Concluding, places
  <1>15. ImplementerStarted'
    <2>1. \A x \in Servers, d \in Claims : Implementing(x, d)' => Implementing(x, d)
      BY <1>4, <1>5 DEF Implementing, At, places
    <2> QED
      BY <1>1, <2>1 DEF DispatchInv, ImplementerStarted
  <1>16. CompletedHasEvidence'
    BY <1>1 DEF DispatchInv, CompletedHasEvidence
  <1> QED
    BY <1>9, <1>10, <1>11, <1>12, <1>13, <1>14, <1>15, <1>16 DEF DispatchInv

(* What the steps outside executeTicket may do: schedule a call or end it,  *)
(* issue a claim, end a run, complete what has evidence.                    *)
Outside ==
    /\ UNCHANGED <<ticket, bound, started, terminal, repairs, reviewed, pr>>
    /\ room' \in [Tickets -> {"none", "ready", "removed"}]
    /\ faults' \in 0..MaxFaults
    /\ server' \in [Servers -> {"down", "recovering", "listening"}]
    /\ listed' \in [Servers -> SUBSET Claims]
    /\ completed' \in SUBSET Claims
    /\ \A d \in completed' : d \in completed \/ terminal[d] # "none"
    /\ run' \in [Claims -> RunStates]
    /\ \A d \in Claims : run'[d] # "none" <=> run[d] # "none"
    /\ CallsTyped
    /\ \A x \in Servers, d \in Claims :
          call'[x][d] = call[x][d] \/ call'[x][d].at \in {"idle", "scheduled"}
    /\ issue' \in [Claims -> Tickets \cup {NoTicket}]
    /\ \A d \in Claims : issue[d] \in Tickets => issue'[d] = issue[d]
    /\ \A x \in Servers, d \in Claims :
          d \in listed'[x] \/ call'[x][d].at # "idle" => issue'[d] \in Tickets

LEMMA OutsideStep ==
    ASSUME DispatchInv, Outside
    PROVE  DispatchInv'
  <1>1. TypeOK'
    BY DEF DispatchInv, TypeOK, Outside, CallsTyped
  <1>2. \A x \in Servers, d \in Claims :
           call'[x][d].at \notin {"idle", "scheduled"} =>
              /\ call'[x][d] = call[x][d]
              /\ issue[d] \in Tickets /\ issue'[d] = issue[d]
    BY DEF DispatchInv, TypeOK, Outside
  <1>3. DrivesTheBound'
    <2>1. ASSUME NEW x \in Servers, NEW d \in Claims, call'[x][d].at \in Driving
          PROVE  bound'[issue'[d]] = d
      BY <1>2, <2>1 DEF DispatchInv, DrivesTheBound, Outside, Driving
    <2>2. ASSUME NEW d \in Claims, run'[d] # "none"
          PROVE  issue'[d] \in Tickets /\ bound'[issue'[d]] = d
      BY <2>2 DEF DispatchInv, DrivesTheBound, Outside
    <2> QED
      BY <2>1, <2>2 DEF DrivesTheBound
  <1>4. BindingIssued'
    <2>1. SUFFICES ASSUME NEW t \in Tickets, bound[t] # NoClaim
                   PROVE  issue'[bound[t]] = t
      BY DEF BindingIssued, Outside
    <2>2. bound[t] \in Claims /\ issue[bound[t]] = t
      BY <2>1 DEF DispatchInv, BindingIssued, TypeOK
    <2> QED
      BY <2>2 DEF Outside
  <1>5. AttemptLeft'
    BY DEF DispatchInv, AttemptLeft, Outside
  <1>6. RepairingIsLate'
    BY <1>2 DEF DispatchInv, RepairingIsLate, Outside
  <1>7. Concluding'
    BY <1>2 DEF DispatchInv, Concluding, Outside
  <1>8. ImplementerStarted'
    <2>1. \A x \in Servers, d \in Claims : Implementing(x, d)' => Implementing(x, d)
      BY <1>2 DEF Implementing, At
    <2> QED
      BY <2>1 DEF DispatchInv, ImplementerStarted, Outside
  <1>9. CompletedHasEvidence'
    BY DEF DispatchInv, CompletedHasEvidence, Outside
  <1> QED
    BY <1>1, <1>3, <1>4, <1>5, <1>6, <1>7, <1>8, <1>9 DEF DispatchInv

(* Outside for a step that leaves a call, or schedules it.                  *)
LEMMA CallOutside ==
    ASSUME DispatchInv, NEW s \in Servers, NEW c \in Claims,
           \/ Leave(s, c)
           \/ Goto(s, c, "scheduled") /\ issue'[c] \in Tickets,
           issue' \in [Claims -> Tickets \cup {NoTicket}],
           \A d \in Claims : issue[d] \in Tickets => issue'[d] = issue[d]
    PROVE  /\ CallsTyped
           /\ \A x \in Servers, d \in Claims :
                 call'[x][d] = call[x][d] \/ call'[x][d].at \in {"idle", "scheduled"}
           /\ \A x \in Servers, d \in Claims :
                 d \in listed'[x] \/ call'[x][d].at # "idle" => issue'[d] \in Tickets
           /\ UNCHANGED <<server, listed>>
  <1>0. TypeOK
    BY DEF DispatchInv
  <1>1. \A x \in Servers, d \in Claims :
           d \in listed[x] \/ call[x][d].at # "idle" => issue'[d] \in Tickets
    BY <1>0 DEF TypeOK
  <1>2. CASE Leave(s, c)
    <2>1. Moves(s, c, Idle) /\ UNCHANGED <<server, listed>>
      BY <1>0, <1>2, LeaveMoves DEF Leave
    <2>2. Idle.at = "idle"
      BY DEF Idle
    <2> QED
      BY <1>1, <2>1, <2>2 DEF Moves
  <1>3. CASE Goto(s, c, "scheduled") /\ issue'[c] \in Tickets
    <2>1. "scheduled" \in Positions
      BY DEF Positions
    <2>2. /\ Moves(s, c, [call[s][c] EXCEPT !.at = "scheduled"])
          /\ UNCHANGED <<server, listed>>
      BY <1>0, <1>3, <2>1, GotoMoves DEF Goto
    <2>3. call'[s][c].at = "scheduled"
      BY <1>0, <2>2, CallTyped DEF Moves, Calls
    <2> QED
      BY <1>1, <1>3, <2>2, <2>3 DEF Moves
  <1> QED
    BY <1>2, <1>3

(* Everything else that happens.                                            *)
LEMMA OtherSteps ==
    ASSUME DispatchInv
    PROVE  /\ \A s \in Servers :
                 StartServer(s) \/ Listen(s) \/ Reconcile(s) \/ Crash(s) => Outside
           /\ \A s \in Servers, c \in Claims :
                 RecoverClaim(s, c) \/ Redeliver(s, c) \/ Throw(s, c) => Outside
           /\ \A s \in Servers, c \in Claims, t \in Tickets : Claim(s, t, c) => Outside
           /\ \A c \in Claims : RecoverRun(c) => Outside
           /\ \A t \in Tickets : RemoveWorkspace(t) => Outside
           /\ UNCHANGED vars => Outside
  <1> USE DEF evidence, memory
  <1>0. TypeOK
    BY DEF DispatchInv
  <1>a. /\ Reconciled \in SUBSET Claims /\ ActiveClaims \in SUBSET Claims
        /\ \A d \in Reconciled : d \in completed \/ terminal[d] # "none"
        /\ \A d \in ActiveClaims : issue[d] \in Tickets
    BY <1>0 DEF TypeOK, Reconciled, ActiveClaims, Issued
  <1>1. ASSUME NEW s \in Servers, StartServer(s)
        PROVE  Outside
    <2>1. /\ UNCHANGED <<ticket, issue, bound, started, terminal, run, repairs, reviewed,
                         pr, room, call, faults>>
          /\ server' = [server EXCEPT ![s] = "recovering"]
          /\ listed' = [listed EXCEPT ![s] = ActiveClaims]
          /\ completed' = Reconciled
      BY <1>1 DEF StartServer
    <2>2. \A x \in Servers : listed'[x] = listed[x] \/ listed'[x] = ActiveClaims
      BY <1>0, <2>1 DEF TypeOK
    <2>3. \A x \in Servers, d \in Claims :
             d \in listed'[x] \/ call'[x][d].at # "idle" => issue'[d] \in Tickets
      BY <1>0, <1>a, <2>1, <2>2 DEF TypeOK
    <2> QED
      BY <1>0, <1>a, <2>1, <2>3 DEF Outside, TypeOK, CallsTyped
  <1>2. ASSUME NEW s \in Servers, Listen(s)
        PROVE  Outside
    BY <1>0, <1>2 DEF Listen, Outside, TypeOK, CallsTyped
  <1>3. ASSUME NEW s \in Servers, Reconcile(s)
        PROVE  Outside
    BY <1>0, <1>a, <1>3 DEF Reconcile, Outside, TypeOK, CallsTyped
  <1>4. ASSUME NEW s \in Servers, Crash(s)
        PROVE  Outside
    <2>1. /\ UNCHANGED <<ticket, issue, completed, bound, started, terminal, run, repairs,
                         reviewed, pr, room>>
          /\ server' = [server EXCEPT ![s] = "down"]
          /\ listed' = [listed EXCEPT ![s] = {}]
          /\ faults < MaxFaults /\ faults' = faults + 1
          /\ call' = [call EXCEPT ![s] = [c \in Claims |-> Idle]]
      BY <1>4 DEF Crash
    <2>2. faults' \in 0..MaxFaults
      BY <1>0, <2>1, BoundsAssumption DEF TypeOK
    <2>3. Idle \in Calls /\ Idle.at = "idle"
      BY BoundsAssumption DEF Idle, Calls, Positions, RunStates
    <2>4. CallsTyped
      BY <1>0, <2>1, <2>3 DEF TypeOK, CallsTyped
    <2>5. \A x \in Servers, d \in Claims :
             call'[x][d] = call[x][d] \/ call'[x][d].at = "idle"
      BY <1>0, <2>1, <2>3 DEF TypeOK
    <2>6. \A x \in Servers : listed'[x] \subseteq listed[x]
      BY <1>0, <2>1 DEF TypeOK
    <2>7. \A x \in Servers, d \in Claims :
             d \in listed'[x] \/ call'[x][d].at # "idle" => issue'[d] \in Tickets
      BY <1>0, <2>1, <2>5, <2>6 DEF TypeOK
    <2> QED
      BY <1>0, <2>1, <2>2, <2>4, <2>5, <2>7 DEF Outside, TypeOK
  <1>5. ASSUME NEW s \in Servers, NEW c \in Claims, RecoverClaim(s, c)
        PROVE  Outside
    <2>1. /\ UNCHANGED <<ticket, issue, completed, bound, started, terminal, run, repairs,
                         reviewed, pr, room, server, faults>>
          /\ c \in listed[s] /\ listed' = [listed EXCEPT ![s] = @ \ {c}]
          /\ call' = call \/ call' = [call EXCEPT ![s][c].at = "scheduled"]
      BY <1>5 DEF RecoverClaim
    <2>2. issue[c] \in Tickets
      BY <1>0, <2>1 DEF TypeOK
    <2>3. /\ listed' \in [Servers -> SUBSET Claims]
          /\ \A x \in Servers : listed'[x] \subseteq listed[x]
      BY <1>0, <2>1 DEF TypeOK
    <2>4. /\ CallsTyped
          /\ \A x \in Servers, d \in Claims :
                \/ call'[x][d] = call[x][d]
                \/ d = c /\ call'[x][d].at = "scheduled"
      <3>1. CASE call' = call
        BY <1>0, <3>1 DEF TypeOK, CallsTyped
      <3>2. CASE call' = [call EXCEPT ![s][c].at = "scheduled"]
        <4> DEFINE r == [call[s][c] EXCEPT !.at = "scheduled"]
        <4>1. r \in Calls /\ r.at = "scheduled"
          BY <1>0, CallTyped DEF Calls, Positions
        <4>2. call' = [call EXCEPT ![s][c] = r]
          BY <3>2
        <4> HIDE DEF r
        <4>3. Moves(s, c, r)
          BY <1>0, <4>1, <4>2, MoveCall
        <4> QED
          BY <4>1, <4>3 DEF Moves
      <3> QED
        BY <2>1, <3>1, <3>2
    <2>5. \A x \in Servers, d \in Claims :
             d \in listed'[x] \/ call'[x][d].at # "idle" => issue'[d] \in Tickets
      BY <1>0, <2>1, <2>2, <2>3, <2>4 DEF TypeOK
    <2> QED
      BY <1>0, <2>1, <2>3, <2>4, <2>5 DEF Outside, TypeOK
  <1>6. ASSUME NEW s \in Servers, NEW c \in Claims, Redeliver(s, c)
        PROVE  Outside
    <2>1. UNCHANGED <<ticket, issue, completed, bound, started, terminal, run, repairs,
                      reviewed, pr, room, faults>>
      BY <1>6 DEF Redeliver
    <2>2. Goto(s, c, "scheduled") /\ issue'[c] \in Tickets
      BY <1>a, <1>6, <2>1 DEF Redeliver, Schedule
    <2>3. issue' \in [Claims -> Tickets \cup {NoTicket}]
      BY <1>0, <2>1 DEF TypeOK
    <2> QED
      BY <1>0, <2>1, <2>2, <2>3, CallOutside DEF Outside, TypeOK
  <1>7. ASSUME NEW s \in Servers, NEW c \in Claims, Throw(s, c)
        PROVE  Outside
    <2>1. /\ UNCHANGED <<ticket, issue, completed, bound, started, terminal, run, repairs,
                         reviewed, pr, room>>
          /\ faults < MaxFaults /\ faults' = faults + 1
          /\ Leave(s, c)
      BY <1>7 DEF Throw
    <2>2. faults' \in 0..MaxFaults
      BY <1>0, <2>1, BoundsAssumption DEF TypeOK
    <2>3. issue' \in [Claims -> Tickets \cup {NoTicket}]
      BY <1>0, <2>1 DEF TypeOK
    <2> QED
      BY <1>0, <2>1, <2>2, <2>3, CallOutside DEF Outside, TypeOK
  <1>8. ASSUME NEW s \in Servers, NEW c \in Claims, NEW t \in Tickets, Claim(s, t, c)
        PROVE  Outside
    <2>1. /\ UNCHANGED <<ticket, completed, bound, started, terminal, run, repairs,
                         reviewed, pr, room, faults>>
          /\ issue[c] = NoTicket /\ issue' = [issue EXCEPT ![c] = t]
          /\ Goto(s, c, "scheduled")
      BY <1>8 DEF Claim, Schedule
    <2>2. /\ issue' \in [Claims -> Tickets \cup {NoTicket}]
          /\ issue'[c] \in Tickets
          /\ \A d \in Claims : issue[d] \in Tickets => issue'[d] = issue[d]
      BY <1>0, <2>1, TicketsAssumption DEF TypeOK
    <2> QED
      BY <1>0, <2>1, <2>2, CallOutside DEF Outside, TypeOK
  <1>9. ASSUME NEW c \in Claims, RecoverRun(c)
        PROVE  Outside
    <2>1. /\ UNCHANGED <<ticket, issue, completed, bound, started, terminal, repairs, reviewed,
                         pr, room, faults, server, listed, call>>
          /\ run[c] # "none"
          /\ run' = [run EXCEPT ![c] =
                        IF run[c] = "assisted" THEN "succeeded" ELSE "needsHuman"]
      BY <1>9 DEF RecoverRun, KeepButRun, SetRun
    <2>2. /\ run' \in [Claims -> RunStates]
          /\ \A d \in Claims : run'[d] # "none" <=> run[d] # "none"
      BY <1>0, <2>1 DEF TypeOK, RunStates
    <2> QED
      BY <1>0, <2>1, <2>2 DEF Outside, TypeOK, CallsTyped
  <1>10. ASSUME NEW t \in Tickets, RemoveWorkspace(t)
         PROVE  Outside
    BY <1>0, <1>10 DEF RemoveWorkspace, Outside, TypeOK, CallsTyped
  <1>11. ASSUME UNCHANGED vars
         PROVE  Outside
    BY <1>0, <1>11 DEF vars, Outside, TypeOK, CallsTyped
  <1> QED
    BY <1>1, <1>2, <1>3, <1>4, <1>5, <1>6, <1>7, <1>8, <1>9, <1>10, <1>11

-----------------------------------------------------------------------------
(* Theorems. *)

LEMMA InitDispatch == ASSUME Init PROVE DispatchInv
  <1>1. \A x \in Servers, d \in Claims : call[x][d] = Idle
    BY DEF Init
  <1>2. Idle \in Calls /\ Idle.at = "idle"
    BY BoundsAssumption DEF Idle, Calls, Positions, RunStates
  <1>3. TypeOK
    BY <1>1, <1>2, BoundsAssumption DEF Init, TypeOK, TicketStates, Outcomes, RunStates
  <1>4. DrivesTheBound /\ RepairingIsLate /\ Concluding
    BY <1>1, <1>2 DEF Init, DrivesTheBound, RepairingIsLate, Concluding, Driving
  <1>5. BindingIssued /\ AttemptLeft /\ CompletedHasEvidence
    BY DEF Init, BindingIssued, AttemptLeft, CompletedHasEvidence
  <1>6. ImplementerStarted
    BY <1>1, <1>2 DEF ImplementerStarted, Implementing, At
  <1> QED
    BY <1>3, <1>4, <1>5, <1>6 DEF DispatchInv

LEMMA Inductive == Spec => []DispatchInv
  <1>1. Init => DispatchInv
    BY InitDispatch
  <1>2. DispatchInv /\ [Next]_vars => DispatchInv'
    <2> SUFFICES ASSUME DispatchInv, [Next]_vars PROVE DispatchInv'
      OBVIOUS
    <2>1. ASSUME NEW s \in Servers, NEW c \in Claims, Execute(s, c)
          PROVE  DispatchInv'
      <3>1. Begin(s, c) \/ Drives(s, c)
        BY <2>1 DEF Execute, Drives
      <3> QED
        BY <3>1, BeginStep, DriveStep
    <2>2. \/ \E s \in Servers, c \in Claims : Execute(s, c)
          \/ Outside
      BY OtherSteps DEF Next
    <2> QED
      BY <2>1, <2>2, OutsideStep
  <1> QED
    BY <1>1, <1>2, PTL DEF Spec

(* Every call, claim, ticket and run stays in the states the code has.      *)
THEOREM TypeCorrect == Spec => []TypeOK
  <1>1. DispatchInv => TypeOK
    BY DEF DispatchInv
  <1> QED
    BY <1>1, Inductive, PTL

(* However many servers, claims, crashes and deliveries there are, no two   *)
(* calls ever run the implementation of one ticket at the same time         *)
(* (bindExecution and execution.started).                                   *)
THEOREM OneImplementerAlways == Spec => []OneImplementer
  <1>1. DispatchInv => OneImplementer
    <2> SUFFICES ASSUME DispatchInv, NEW s \in Servers, NEW r \in Servers,
                        NEW c \in Claims, NEW d \in Claims,
                        Implementing(s, c), Implementing(r, d), issue[c] = issue[d]
                 PROVE  s = r /\ c = d
      BY DEF OneImplementer
    <2>1. call[s][c].at \in Driving /\ call[r][d].at \in Driving
      BY DEF Implementing, At, Driving
    <2>2. bound[issue[c]] = c /\ bound[issue[d]] = d
      BY <2>1 DEF DispatchInv, DrivesTheBound
    <2>3. c = d
      BY <2>2
    <2> QED
      BY <2>3 DEF DispatchInv, ImplementerStarted
  <1> QED
    BY <1>1, Inductive, PTL

(* Only the execution a ticket is bound to ever has a provider run.         *)
THEOREM BoundRunsOnly == Spec => []OnlyTheBoundRuns
  <1>1. DispatchInv => OnlyTheBoundRuns
    BY DEF DispatchInv, DrivesTheBound, OnlyTheBoundRuns
  <1> QED
    BY <1>1, Inductive, PTL

(* A claim is completed on terminal evidence only.                          *)
THEOREM CompletionHasEvidence == Spec => []CompletedHasEvidence
  <1>1. DispatchInv => CompletedHasEvidence
    BY DEF DispatchInv
  <1> QED
    BY <1>1, Inductive, PTL

(* Terminal evidence is written once (appendTerminal), by whichever call    *)
(* gets there first.                                                        *)
THEOREM TerminalNeverRevised == Spec => TerminalIsFinal
  <1>1. DispatchInv /\ [Next]_vars
           => [\A c \in Claims : terminal[c] # "none" => terminal'[c] = terminal[c]]_vars
    <2> SUFFICES ASSUME DispatchInv, [Next]_vars, NEW c \in Claims, terminal[c] # "none"
                 PROVE  terminal'[c] = terminal[c]
      OBVIOUS
    <2>1. CASE Outside
      BY <2>1 DEF Outside
    <2>2. ASSUME NEW s \in Servers, NEW d \in Claims, Execute(s, d)
          PROVE  terminal'[c] = terminal[c]
      <3>1. CASE Begin(s, d)
        BY <3>1 DEF Begin
      <3>2. CASE Drives(s, d)
        BY <3>2, EvidenceStep DEF EvidenceShape
      <3> QED
        BY <2>2, <3>1, <3>2 DEF Execute, Drives
    <2>3. \/ \E s \in Servers, d \in Claims : Execute(s, d)
          \/ Outside
      BY OtherSteps DEF Next
    <2> QED
      BY <2>1, <2>2, <2>3
  <1> QED
    BY <1>1, Inductive, PTL DEF Spec, TerminalIsFinal
-----------------------------------------------------------------------------
(* One server.  Its capacity and the finality of PR_OPEN rest on nobody     *)
(* else driving the same claims: two servers break both.                    *)

OneServer == \A s, r \in Servers : s = r

(* What a step of a call does to its own ticket and evidence, and where it  *)
(* goes.                                                                    *)
DrivingShape(s, c) ==
    /\ call[s][c].at \in Driving
    /\ terminal' = terminal
    /\ call'[s][c].at \in Driving \cup {"record", "complete"}
    /\ call'[s][c].at = "record" /\ call'[s][c].want = "PR_RAISED" =>
          ticket'[issue[c]] = "PR_OPEN"

RecordShape(s, c) ==
    /\ call[s][c].at = "record"
    /\ ticket' = ticket
    /\ terminal' = [terminal EXCEPT ![c] = IF @ = "none" THEN call[s][c].want ELSE @]
    /\ call'[s][c].at = IF call[s][c].want = "PR_RAISED" THEN "complete" ELSE "settle"

SettleShape(s, c) ==
    /\ call[s][c].at \in {"settle", "complete"}
    /\ terminal' = terminal
    /\ call'[s][c].at \in {"complete", "idle"}
    /\ call[s][c].at = "complete" => ticket' = ticket
    /\ ticket'[issue[c]] \in ActiveStates => ticket[issue[c]] \in ActiveStates

OwnShape(s, c) ==
    /\ \A t \in Tickets : t # issue[c] => ticket'[t] = ticket[t]
    /\ DrivingShape(s, c) \/ RecordShape(s, c) \/ SettleShape(s, c)

(* A transition of one ticket leaves the others alone.                      *)
LEMMA OwnTicket ==
    ASSUME TypeOK, NEW u \in Tickets, ticket' = ticket \/ \E next : Transition(u, next)
    PROVE  \A t \in Tickets : t # u => ticket'[t] = ticket[t]
  BY DEF TypeOK, Transition

(* Where Goto, Conclude and Leave take a call.                              *)
LEMMA GotoLeads ==
    ASSUME TypeOK, NEW s \in Servers, NEW c \in Claims, NEW to \in Positions,
           Goto(s, c, to)
    PROVE  call'[s][c].at = to
  <1>1. Moves(s, c, [call[s][c] EXCEPT !.at = to]) /\ call[s][c] \in Calls
    BY GotoMoves, CallTyped
  <1> QED
    BY <1>1 DEF Moves, Calls

LEMMA ConcludeLeads ==
    ASSUME TypeOK, NEW s \in Servers, NEW c \in Claims, NEW outcome \in Outcomes,
           Conclude(s, c, outcome)
    PROVE  call'[s][c].at = "record" /\ call'[s][c].want = outcome
  <1>1. /\ Moves(s, c, [call[s][c] EXCEPT !.at = "record", !.want = outcome])
        /\ call[s][c] \in Calls
    BY ConcludeMoves, CallTyped
  <1> QED
    BY <1>1 DEF Moves, Calls

LEMMA LeaveLeads ==
    ASSUME TypeOK, NEW s \in Servers, NEW c \in Claims, Leave(s, c)
    PROVE  call'[s][c].at = "idle"
  BY LeaveMoves DEF Moves, Idle

(* A stage that goes on, or gives up without a pull request.                *)
LEMMA StageShape ==
    ASSUME TypeOK, NEW s \in Servers, NEW c \in Claims, issue[c] \in Tickets,
           call[s][c].at \in Driving, terminal' = terminal,
           ticket' = ticket \/ \E next : Transition(issue[c], next),
           \/ \E to \in Driving \cup {"complete"} : Goto(s, c, to)
           \/ \E outcome \in Outcomes \ {"PR_RAISED"} : Conclude(s, c, outcome)
           \/ call' = call
    PROVE  OwnShape(s, c)
  <1>1. \A t \in Tickets : t # issue[c] => ticket'[t] = ticket[t]
    BY OwnTicket
  <1>2. CASE call' = call
    BY <1>1, <1>2 DEF OwnShape, DrivingShape, Driving
  <1>3. ASSUME NEW to \in Driving \cup {"complete"}, Goto(s, c, to)
        PROVE  OwnShape(s, c)
    <2>1. to \in Positions
      BY DEF Driving, Positions
    <2>2. call'[s][c].at = to
      BY <1>3, <2>1, GotoLeads
    <2> QED
      BY <1>1, <2>2 DEF OwnShape, DrivingShape, Driving
  <1>4. ASSUME NEW outcome \in Outcomes \ {"PR_RAISED"}, Conclude(s, c, outcome)
        PROVE  OwnShape(s, c)
    <2>1. call'[s][c].at = "record" /\ call'[s][c].want = outcome
      BY <1>4, ConcludeLeads
    <2> QED
      BY <1>1, <2>1 DEF OwnShape, DrivingShape, Driving
  <1> QED
    BY <1>2, <1>3, <1>4

(* Every stage of executeTicket.                                            *)
LEMMA OwnStep ==
    ASSUME DispatchInv, NEW s \in Servers, NEW c \in Claims, Drives(s, c)
    PROVE  OwnShape(s, c)
  <1> USE DEF At, evidence, memory, KeepButRun
  <1>0. TypeOK
    BY DEF DispatchInv
  <1>a. issue[c] \in Tickets
    <2>1. call[s][c].at # "idle"
      BY CallStep DEF CallShape
    <2> QED
      BY <1>0, <2>1 DEF TypeOK
  <1> DEFINE Stage == /\ call[s][c].at \in Driving /\ terminal' = terminal
                      /\ ticket' = ticket \/ \E next : Transition(issue[c], next)
                      /\ \/ \E to \in Driving \cup {"complete"} : Goto(s, c, to)
                         \/ \E outcome \in Outcomes \ {"PR_RAISED"} : Conclude(s, c, outcome)
                         \/ call' = call
  <1>b. Stage => OwnShape(s, c)
    BY <1>0, <1>a, StageShape
  <1>1. CASE CreateWorkspace(s, c)
    BY <1>1, <1>b DEF CreateWorkspace, Driving, Outcomes
  <1>2. CASE ReuseWorkspace(s, c)
    BY <1>2, <1>b DEF ReuseWorkspace, Driving, Outcomes
  <1>3. CASE CapacityRefused(s, c)
    BY <1>3, <1>b DEF CapacityRefused, Driving, Outcomes
  <1>4. CASE AcquireFails(s, c)
    BY <1>4, <1>b DEF AcquireFails, Driving, Outcomes
  <1>5. CASE Admit(s, c)
    BY <1>5, <1>b DEF Admit, Driving, Outcomes
  <1>6. CASE Prepare(s, c)
    BY <1>6, <1>b DEF Prepare, Driving, Outcomes
  <1>7. CASE RoutingThrows(s, c)
    BY <1>7, <1>b DEF RoutingThrows, Driving, Outcomes
  <1>8. CASE Launch(s, c)
    BY <1>8, <1>b DEF Launch, Driving, Outcomes
  <1>9. CASE Ran(s, c)
    BY <1>9, <1>b DEF Ran, Continue, RunOutcome, Driving, Outcomes
  <1>10. CASE ResumeRepair(s, c)
    BY <1>10, <1>b DEF ResumeRepair, Driving, Outcomes
  <1>11. CASE Review(s, c)
    BY <1>11, <1>b DEF Review, Driving, Outcomes
  <1>12. CASE ReviewEnds(s, c)
    BY <1>12, <1>b DEF ReviewEnds, Driving, Outcomes
  <1>13. CASE ReviewsAreCurrent(s, c)
    BY <1>13, <1>b DEF ReviewsAreCurrent, Driving, Outcomes
  <1>14. CASE Repair(s, c)
    BY <1>14, <1>b DEF Repair, Driving, Outcomes
  <1>15. CASE Repaired(s, c)
    BY <1>15, <1>b DEF Repaired, Driving, Outcomes
  <1>16. CASE RepairGivesUp(s, c)
    BY <1>16, <1>b DEF RepairGivesUp, Driving, Outcomes
  <1>17. CASE RepairThrows(s, c)
    BY <1>17, <1>b DEF RepairThrows, Driving, Outcomes
  <1>18. CASE Passed(s, c)
    BY <1>18, <1>b DEF Passed, Continue, Driving, Outcomes
  <1>19. CASE ReadinessPasses(s, c)
    BY <1>19, <1>b DEF ReadinessPasses, Continue, Driving, Outcomes
  <1>20. CASE ReadinessFails(s, c)
    BY <1>20, <1>b DEF ReadinessFails, Driving, Outcomes
  <1>21. CASE RecordPR(s, c)
    BY <1>21, <1>b DEF RecordPR, Driving, Outcomes
  <1>22. CASE HandoffFails(s, c)
    BY <1>22, <1>b DEF HandoffFails, Driving, Outcomes
  <1>23. CASE RecoveryFails(s, c)
    BY <1>23, <1>b DEF RecoveryFails, Driving, Outcomes
  <1>24. CASE LaunchRefused(s, c) \/ RunEnds(s, c)
    <2>1. /\ call[s][c].at = "running" /\ UNCHANGED <<ticket, terminal>>
          /\ \/ \E n : call' = [call EXCEPT ![s][c] = [@ EXCEPT !.at = "routing", !.fallbacks = n]]
             \/ \E status : call' = [call EXCEPT ![s][c] = [@ EXCEPT !.at = "ran", !.run = status]]
      BY <1>24 DEF LaunchRefused, RunEnds
    <2>2. call \in [Servers -> [Claims -> Calls]] /\ call[s][c] \in Calls
      BY <1>0 DEF TypeOK
    <2>3. call'[s][c].at \in {"routing", "ran"}
      <3>1. ASSUME NEW n,
                   call' = [call EXCEPT ![s][c] = [@ EXCEPT !.at = "routing", !.fallbacks = n]]
            PROVE  call'[s][c].at = "routing"
        BY <2>2, <3>1 DEF Calls
      <3>2. ASSUME NEW status,
                   call' = [call EXCEPT ![s][c] = [@ EXCEPT !.at = "ran", !.run = status]]
            PROVE  call'[s][c].at = "ran"
        BY <2>2, <3>2 DEF Calls
      <3> QED
        BY <2>1, <3>1, <3>2
    <2> QED
      BY <2>1, <2>3 DEF OwnShape, DrivingShape, Driving
  <1>25. CASE OpenPR(s, c)
    <2>1. /\ call[s][c].at \in {"opening", "reopening"} /\ terminal' = terminal
          /\ Transition(issue[c], "PR_OPEN") /\ Conclude(s, c, "PR_RAISED")
      BY <1>25 DEF OpenPR
    <2>2. \A t \in Tickets : t # issue[c] => ticket'[t] = ticket[t]
      BY <1>0, <1>a, <2>1, OwnTicket
    <2>3. ticket'[issue[c]] = "PR_OPEN"
      BY <1>0, <1>a, <2>1 DEF TypeOK, Transition
    <2>4. call'[s][c].at = "record"
      BY <1>0, <2>1, ConcludeLeads DEF Outcomes
    <2> QED
      BY <2>1, <2>2, <2>3, <2>4 DEF OwnShape, DrivingShape, Driving
  <1>26. CASE Record(s, c)
    <2> DEFINE to == IF call[s][c].want = "PR_RAISED" THEN "complete" ELSE "settle"
    <2>1. /\ call[s][c].at = "record" /\ ticket' = ticket /\ Goto(s, c, to)
          /\ terminal' = [terminal EXCEPT ![c] = IF @ = "none" THEN call[s][c].want ELSE @]
      BY <1>26 DEF Record
    <2>2. to \in Positions
      BY DEF Positions
    <2>3. call'[s][c].at = to
      BY <1>0, <2>1, <2>2, GotoLeads
    <2> QED
      BY <2>1, <2>3 DEF OwnShape, RecordShape
  <1>27. CASE Settle(s, c)
    <2>1. /\ call[s][c].at = "settle" /\ terminal' = terminal /\ Goto(s, c, "complete")
          /\ \/ ticket' = ticket
             \/ \E next \in {"BLOCKED", "FAILED", "NEEDS_HUMAN", "PAUSED"} :
                   Transition(issue[c], next)
      BY <1>27 DEF Settle, Target
    <2>2. \A t \in Tickets : t # issue[c] => ticket'[t] = ticket[t]
      BY <1>0, <1>a, <2>1, OwnTicket
    <2>3. ticket'[issue[c]] \in ActiveStates => ticket[issue[c]] \in ActiveStates
      BY <1>0, <1>a, <2>1 DEF TypeOK, Transition, ActiveStates
    <2>4. call'[s][c].at = "complete"
      BY <1>0, <2>1, GotoLeads DEF Positions
    <2> QED
      BY <2>1, <2>2, <2>3, <2>4 DEF OwnShape, SettleShape
  <1>28. CASE Complete(s, c)
    <2>1. /\ call[s][c].at = "complete" /\ UNCHANGED <<ticket, terminal>> /\ Leave(s, c)
      BY <1>28 DEF Complete
    <2>2. call'[s][c].at = "idle"
      BY <1>0, <2>1, LeaveLeads
    <2> QED
      BY <2>1, <2>2 DEF OwnShape, SettleShape
  <1> QED
    BY <1>1, <1>2, <1>3, <1>4, <1>5, <1>6, <1>7, <1>8, <1>9, <1>10, <1>11, <1>12, <1>13, <1>14, <1>15, <1>16, <1>17, <1>18, <1>19, <1>20, <1>21, <1>22, <1>23, <1>24, <1>25, <1>26, <1>27, <1>28 DEF Drives

(* A call that is not over finds no terminal evidence: nobody else recorded *)
(* it.                                                                      *)
Unrecorded ==
    \A s \in Servers, c \in Claims :
        call[s][c].at \in Driving \cup {"record"} => terminal[c] = "none"

(* A claim that was ever driven belongs to a bound ticket.                  *)
EverBound ==
    /\ \A s \in Servers, c \in Claims :
          call[s][c].at \notin {"idle", "scheduled"} => bound[issue[c]] # NoClaim
    /\ \A c \in Claims :
          terminal[c] # "none" => issue[c] \in Tickets /\ bound[issue[c]] # NoClaim

(* A ticket has one open claim; while its execution is open, or after it    *)
(* raised a pull request, it has no other claim at all.                     *)
Sole ==
    /\ \A c, d \in Claims :
          /\ issue[c] \in Tickets /\ issue[c] = issue[d]
          /\ terminal[c] = "none" /\ terminal[d] = "none"
          => c = d
    /\ \A t \in Tickets :
          bound[t] # NoClaim /\ terminal[bound[t]] \in {"none", "PR_RAISED"}
          => \A d \in Claims : issue[d] = t => d = bound[t]

(* A raised pull request, recorded or about to be.                          *)
Raised ==
    /\ \A s \in Servers, c \in Claims :
          /\ call[s][c].at = "record" /\ call[s][c].want = "PR_RAISED" =>
                ticket[issue[c]] = "PR_OPEN" /\ bound[issue[c]] = c
          /\ call[s][c].at = "settle" => terminal[c] # "PR_RAISED"
    /\ \A c \in Claims : terminal[c] = "PR_RAISED" =>
          ticket[issue[c]] = "PR_OPEN" /\ bound[issue[c]] = c

Load == Active \cup {issue[c] : c \in ActiveClaims}

SoloInv ==
    /\ DispatchInv
    /\ Unrecorded
    /\ EverBound
    /\ Sole
    /\ Raised
    /\ DispatchWithinCapacity

(* The active claims are those without terminal evidence.                   *)
Open(c) == issue[c] \in Tickets /\ terminal[c] = "none"

LEMMA OpenClaims ==
    ASSUME TypeOK, CompletedHasEvidence
    PROVE  /\ ActiveClaims = {c \in Claims : Open(c)}
           /\ Load \in SUBSET Tickets
  BY TicketsAssumption
  DEF ActiveClaims, Issued, Open, TypeOK, CompletedHasEvidence, Load, Active

(* A step that takes up no ticket keeps within the capacity.                *)
LEMMA LoadShrinks ==
    ASSUME SoloInv, DispatchInv',
           \A t \in Tickets : ticket'[t] \in ActiveStates =>
              \/ ticket[t] \in ActiveStates
              \/ \E c \in Claims : issue[c] = t /\ Open(c),
           \A c \in Claims : Open(c)' => Open(c) /\ issue'[c] = issue[c]
    PROVE  DispatchWithinCapacity'
  <1>1. ActiveClaims = {c \in Claims : Open(c)} /\ Load \in SUBSET Tickets
    BY OpenClaims DEF SoloInv, DispatchInv
  <1>2. ActiveClaims' \subseteq {c \in Claims : Open(c)'}
    BY DEF DispatchInv, TypeOK, ActiveClaims, Issued, Open
  <1>3. Load' \subseteq Load
    BY <1>1, <1>2 DEF Load, Active, Open
  <1>4. IsFiniteSet(Load)
    BY <1>1, TicketsAssumption, FS_Subset
  <1>5. Load' \in SUBSET Load
    BY <1>3
  <1>6. /\ Cardinality(Load) \in Nat /\ Cardinality(Load') \in Nat
        /\ Cardinality(Load') <= Cardinality(Load)
    BY <1>4, <1>5, FS_Subset, FS_CardinalityType
  <1>7. Cardinality(Load) <= MaxTickets
    BY DEF SoloInv, DispatchWithinCapacity, Load
  <1>8. MaxTickets \in Nat
    BY BoundsAssumption
  <1>9. Cardinality(Load') <= MaxTickets
    BY <1>6, <1>7, <1>8
  <1> QED
    BY <1>9 DEF DispatchWithinCapacity, Load

(* A stage of executeTicket.                                                *)
LEMMA SoloDrive ==
    ASSUME OneServer, SoloInv, NEW s \in Servers, NEW c \in Claims, Drives(s, c)
    PROVE  SoloInv'
  <1>0. DispatchInv /\ TypeOK /\ Unrecorded /\ EverBound /\ Sole /\ Raised
    BY DEF SoloInv, DispatchInv
  <1>1. DispatchInv'
    BY <1>0, DriveStep
  <1>2. /\ EvidenceShape(s, c) /\ TicketShape(s, c) /\ CallShape(s, c) /\ OwnShape(s, c)
    BY <1>0, EvidenceStep, TicketStep, CallStep, OwnStep
  <1>3. /\ UNCHANGED <<issue, bound>>
        /\ call[s][c].at \notin {"idle", "scheduled"} /\ issue[c] \in Tickets
        /\ \A x \in Servers, d \in Claims : x # s \/ d # c => call'[x][d] = call[x][d]
        /\ \A t \in Tickets : t # issue[c] => ticket'[t] = ticket[t]
    <2>1. call[s][c].at \notin {"idle", "scheduled"}
      BY <1>2 DEF OwnShape, DrivingShape, RecordShape, SettleShape, Driving
    <2> QED
      BY <1>0, <1>2, <2>1 DEF EvidenceShape, CallShape, Moves, OwnShape, TypeOK
  <1>4. /\ call[s][c].at \in Driving \cup {"record"} => terminal[c] = "none"
        /\ bound[issue[c]] # NoClaim
    BY <1>0, <1>3 DEF Unrecorded, EverBound
  <1>5. \A d \in Claims : d # c => terminal'[d] = terminal[d]
    BY <1>0, <1>2 DEF OwnShape, DrivingShape, RecordShape, SettleShape, TypeOK
  <1>6. \A d \in Claims : terminal[d] # "none" => terminal'[d] = terminal[d]
    BY <1>2 DEF EvidenceShape
  <1>7. Unrecorded'
    <2> SUFFICES ASSUME NEW x \in Servers, NEW d \in Claims,
                        call'[x][d].at \in Driving \cup {"record"}
                 PROVE  terminal'[d] = "none"
      BY DEF Unrecorded
    <2>1. CASE d = c
      <3>1. x = s
        BY DEF OneServer
      <3>2. call[s][c].at \in Driving /\ terminal' = terminal
        BY <1>2, <2>1, <3>1
        DEF OwnShape, DrivingShape, RecordShape, SettleShape, Driving
      <3> QED
        BY <1>4, <2>1, <3>2
    <2>2. CASE d # c
      BY <1>0, <1>3, <1>5, <2>2 DEF Unrecorded
    <2> QED
      BY <2>1, <2>2
  <1>8. EverBound'
    <2>1. ASSUME NEW x \in Servers, NEW d \in Claims,
                 call'[x][d].at \notin {"idle", "scheduled"}
          PROVE  bound[issue[d]] # NoClaim
      <3>1. CASE d = c
        BY <1>4, <3>1
      <3>2. CASE d # c
        BY <1>0, <1>3, <2>1, <3>2 DEF EverBound
      <3> QED
        BY <3>1, <3>2
    <2>2. ASSUME NEW d \in Claims, terminal'[d] # "none"
          PROVE  issue[d] \in Tickets /\ bound[issue[d]] # NoClaim
      <3>1. CASE d = c
        BY <1>3, <1>4, <3>1
      <3>2. CASE d # c
        BY <1>0, <1>5, <2>2, <3>2 DEF EverBound
      <3> QED
        BY <3>1, <3>2
    <2> QED
      BY <1>3, <2>1, <2>2 DEF EverBound
  <1>9. \A d \in Claims : terminal'[d] = "PR_RAISED" =>
           /\ terminal[d] \in {"none", "PR_RAISED"}
           /\ bound[issue[d]] = d /\ issue[d] \in Tickets
    <2> SUFFICES ASSUME NEW d \in Claims, terminal'[d] = "PR_RAISED"
                 PROVE  /\ terminal[d] \in {"none", "PR_RAISED"}
                        /\ bound[issue[d]] = d /\ issue[d] \in Tickets
      OBVIOUS
    <2>1. CASE terminal[d] # "none"
      BY <1>0, <1>6, <2>1 DEF Raised, EverBound
    <2>2. CASE terminal[d] = "none"
      <3>1. d = c /\ call[s][c].at = "record" /\ call[s][c].want = "PR_RAISED"
        BY <1>0, <1>2, <1>5, <2>2
        DEF OwnShape, DrivingShape, RecordShape, SettleShape, TypeOK
      <3> QED
        BY <1>0, <1>3, <2>2, <3>1 DEF Raised
    <2> QED
      BY <2>1, <2>2
  <1>10. Sole'
    <2>1. ASSUME NEW d \in Claims, NEW e \in Claims,
                 issue[d] \in Tickets, issue[d] = issue[e],
                 terminal'[d] = "none", terminal'[e] = "none"
          PROVE  d = e
      BY <1>0, <1>6, <2>1 DEF Sole
    <2>2. ASSUME NEW t \in Tickets, bound[t] # NoClaim,
                 terminal'[bound[t]] \in {"none", "PR_RAISED"},
                 NEW d \in Claims, issue[d] = t
          PROVE  d = bound[t]
      <3>1. bound[t] \in Claims
        BY <1>0, <2>2 DEF TypeOK
      <3>2. terminal[bound[t]] \in {"none", "PR_RAISED"}
        BY <1>6, <1>9, <2>2, <3>1
      <3> QED
        BY <1>0, <2>2, <3>2 DEF Sole
    <2> QED
      BY <1>3, <2>1, <2>2 DEF Sole
  <1>11. Raised'
    <2>1. ASSUME NEW x \in Servers, NEW d \in Claims,
                 call'[x][d].at = "record", call'[x][d].want = "PR_RAISED"
          PROVE  ticket'[issue[d]] = "PR_OPEN" /\ bound[issue[d]] = d
      <3>1. CASE d = c
        <4>1. x = s
          BY DEF OneServer
        <4>2. DrivingShape(s, c)
          BY <1>2, <2>1, <3>1, <4>1 DEF OwnShape, RecordShape, SettleShape
        <4>3. ticket'[issue[c]] = "PR_OPEN" /\ call[s][c].at \in Driving
          BY <2>1, <3>1, <4>1, <4>2 DEF DrivingShape
        <4> QED
          BY <1>0, <3>1, <4>3 DEF DispatchInv, DrivesTheBound
      <3>2. CASE d # c
        <4>1. call[x][d].at = "record" /\ call[x][d].want = "PR_RAISED"
          BY <1>3, <2>1, <3>2
        <4>2. /\ ticket[issue[d]] = "PR_OPEN" /\ bound[issue[d]] = d
              /\ terminal[d] = "none" /\ issue[d] \in Tickets
          BY <1>0, <4>1 DEF Raised, Unrecorded, TypeOK
        <4>3. issue[c] # issue[d]
          BY <1>0, <3>2, <4>2, ClaimsAssumption DEF Sole
        <4> QED
          BY <1>3, <4>2, <4>3
      <3> QED
        BY <3>1, <3>2
    <2>2. ASSUME NEW x \in Servers, NEW d \in Claims, call'[x][d].at = "settle"
          PROVE  terminal'[d] # "PR_RAISED"
      <3>1. CASE d = c
        <4>1. x = s
          BY DEF OneServer
        <4>2. RecordShape(s, c) /\ call[s][c].want # "PR_RAISED"
          BY <1>2, <2>2, <3>1, <4>1
          DEF OwnShape, DrivingShape, RecordShape, SettleShape, Driving
        <4>3. terminal[c] = "none"
          BY <1>4, <4>2 DEF RecordShape
        <4> QED
          BY <1>0, <3>1, <4>2, <4>3 DEF RecordShape, TypeOK
      <3>2. CASE d # c
        BY <1>0, <1>3, <1>5, <2>2, <3>2 DEF Raised
      <3> QED
        BY <3>1, <3>2
    <2>3. ASSUME NEW d \in Claims, terminal'[d] = "PR_RAISED"
          PROVE  ticket'[issue[d]] = "PR_OPEN" /\ bound[issue[d]] = d
      <3>1. /\ terminal[d] \in {"none", "PR_RAISED"}
            /\ bound[issue[d]] = d /\ issue[d] \in Tickets
        BY <1>9, <2>3
      <3>2. CASE d # c
        <4>1. ticket[issue[d]] = "PR_OPEN"
          BY <1>0, <1>5, <2>3, <3>2 DEF Raised
        <4>2. issue[c] # issue[d]
          BY <1>0, <3>1, <3>2, ClaimsAssumption DEF Sole
        <4> QED
          BY <1>3, <3>1, <4>1, <4>2
      <3>3. CASE d = c
        <4>1. CASE RecordShape(s, c)
          <5>1. call[s][c].want = "PR_RAISED" \/ terminal[c] = "PR_RAISED"
            BY <1>0, <2>3, <3>3, <4>1 DEF RecordShape, TypeOK
          <5>2. ticket[issue[c]] = "PR_OPEN" /\ ticket' = ticket
            BY <1>0, <4>1, <5>1 DEF RecordShape, Raised
          <5> QED
            BY <3>1, <3>3, <5>2
        <4>2. CASE DrivingShape(s, c)
          BY <1>4, <2>3, <3>3, <4>2 DEF DrivingShape
        <4>3. CASE SettleShape(s, c)
          <5>1. terminal[c] = "PR_RAISED"
            BY <2>3, <3>3, <4>3 DEF SettleShape
          <5>2. call[s][c].at # "settle" /\ ticket[issue[c]] = "PR_OPEN"
            BY <1>0, <5>1 DEF Raised
          <5> QED
            BY <3>1, <3>3, <4>3, <5>2 DEF SettleShape
        <4> QED
          BY <1>2, <4>1, <4>2, <4>3 DEF OwnShape
      <3> QED
        BY <3>2, <3>3
    <2> QED
      BY <1>3, <2>1, <2>2, <2>3 DEF Raised
  <1>12. DispatchWithinCapacity'
    <2>1. ASSUME NEW t \in Tickets, ticket'[t] \in ActiveStates
          PROVE  \/ ticket[t] \in ActiveStates
                 \/ \E d \in Claims : issue[d] = t /\ Open(d)
      <3>1. CASE t # issue[c]
        BY <1>3, <2>1, <3>1
      <3>2. CASE t = issue[c] /\ DrivingShape(s, c)
        BY <1>3, <1>4, <3>2 DEF DrivingShape, Open
      <3>3. CASE t = issue[c] /\ (RecordShape(s, c) \/ SettleShape(s, c))
        BY <2>1, <3>3 DEF RecordShape, SettleShape
      <3> QED
        BY <1>2, <3>1, <3>2, <3>3 DEF OwnShape
    <2>2. \A d \in Claims : Open(d)' => Open(d) /\ issue'[d] = issue[d]
      BY <1>3, <1>6 DEF Open
    <2> QED
      BY <1>1, <2>1, <2>2, LoadShrinks
  <1> QED
    BY <1>1, <1>7, <1>8, <1>10, <1>11, <1>12 DEF SoloInv

(* bindExecution.                                                           *)
LEMMA SoloBegin ==
    ASSUME OneServer, SoloInv, NEW s \in Servers, NEW c \in Claims, Begin(s, c)
    PROVE  SoloInv'
  <1>0. DispatchInv /\ TypeOK /\ Unrecorded /\ EverBound /\ Sole /\ Raised
    BY DEF SoloInv, DispatchInv
  <1>1. DispatchInv'
    BY <1>0, BeginStep
  <1>2. /\ UNCHANGED <<ticket, issue, terminal>>
        /\ bound' = [bound EXCEPT ![issue[c]] = Binding(issue[c], c)]
        /\ issue[c] \in Tickets
    BY <1>0 DEF Begin, At, TypeOK
  <1>3. BeginShape(s, c)
    BY <1>0, BeginCall
  <1>4. /\ \A x \in Servers, d \in Claims : x # s \/ d # c => call'[x][d] = call[x][d]
        /\ \A x \in Servers : x = s
    BY <1>3 DEF BeginShape, Moves, OneServer
  <1>5. /\ bound'[issue[c]] # NoClaim
        /\ \A t \in Tickets : bound[t] # NoClaim => bound'[t] = bound[t]
        /\ \A t \in Tickets : bound'[t] # bound[t] => t = issue[c] /\ bound'[t] = c
    BY <1>0, <1>2, ClaimsAssumption DEF Binding, TypeOK
  <1>6. Unrecorded'
    BY <1>0, <1>2, <1>3, <1>4 DEF Unrecorded, BeginShape, Driving
  <1>7. EverBound'
    <2>1. ASSUME NEW x \in Servers, NEW d \in Claims,
                 call'[x][d].at \notin {"idle", "scheduled"}
          PROVE  bound'[issue[d]] # NoClaim
      <3>1. CASE d = c
        BY <1>5, <3>1
      <3>2. CASE d # c
        <4>1. bound[issue[d]] # NoClaim /\ issue[d] \in Tickets
          BY <1>0, <1>4, <2>1, <3>2 DEF EverBound, TypeOK
        <4> QED
          BY <1>5, <4>1
      <3> QED
        BY <3>1, <3>2
    <2>2. ASSUME NEW d \in Claims, terminal[d] # "none"
          PROVE  issue[d] \in Tickets /\ bound'[issue[d]] # NoClaim
      BY <1>0, <1>5, <2>2 DEF EverBound
    <2> QED
      BY <1>2, <2>1, <2>2 DEF EverBound
  <1>8. Sole'
    <2>1. ASSUME NEW t \in Tickets, bound'[t] # NoClaim,
                 terminal[bound'[t]] \in {"none", "PR_RAISED"},
                 NEW d \in Claims, issue[d] = t
          PROVE  d = bound'[t]
      <3>1. CASE bound'[t] = bound[t]
        BY <1>0, <2>1, <3>1 DEF Sole
      <3>2. CASE bound'[t] # bound[t]
        <4>1. t = issue[c] /\ bound'[t] = c /\ bound[t] = NoClaim
          BY <1>5, <3>2
        <4>2. terminal[c] = "none" /\ terminal[d] = "none"
          BY <1>0, <2>1, <4>1 DEF EverBound
        <4> QED
          BY <1>0, <2>1, <4>1, <4>2 DEF Sole
      <3> QED
        BY <3>1, <3>2
    <2> QED
      BY <1>0, <1>2, <2>1 DEF Sole
  <1>9. Raised'
    <2>1. \A d \in Claims : issue[d] \in Tickets /\ bound[issue[d]] = d => bound'[issue[d]] = d
      BY <1>5, ClaimsAssumption
    <2>2. ASSUME NEW x \in Servers, NEW d \in Claims
          PROVE  /\ call'[x][d].at = "record" /\ call'[x][d].want = "PR_RAISED" =>
                       ticket[issue[d]] = "PR_OPEN" /\ bound'[issue[d]] = d
                 /\ call'[x][d].at = "settle" => terminal[d] # "PR_RAISED"
      <3>1. CASE d = c
        BY <1>3, <1>4, <3>1 DEF BeginShape
      <3>2. CASE d # c
        BY <1>0, <1>4, <2>1, <3>2 DEF Raised, TypeOK
      <3> QED
        BY <3>1, <3>2
    <2>3. ASSUME NEW d \in Claims, terminal[d] = "PR_RAISED"
          PROVE  ticket[issue[d]] = "PR_OPEN" /\ bound'[issue[d]] = d
      BY <1>0, <2>1, <2>3 DEF Raised, EverBound
    <2> QED
      BY <1>2, <2>2, <2>3 DEF Raised
  <1>10. DispatchWithinCapacity'
    BY <1>1, <1>2, LoadShrinks DEF Open
  <1> QED
    BY <1>1, <1>6, <1>7, <1>8, <1>9, <1>10 DEF SoloInv

(* Steps outside executeTicket that issue no claim.                         *)
LEMMA SoloOutside ==
    ASSUME SoloInv, Outside, issue' = issue
    PROVE  SoloInv'
  <1>0. DispatchInv /\ TypeOK /\ Unrecorded /\ EverBound /\ Sole /\ Raised
    BY DEF SoloInv, DispatchInv
  <1>1. DispatchInv'
    BY <1>0, OutsideStep
  <1>2. /\ UNCHANGED <<ticket, bound, terminal, issue>>
        /\ \A x \in Servers, d \in Claims :
              call'[x][d] = call[x][d] \/ call'[x][d].at \in {"idle", "scheduled"}
    BY DEF Outside
  <1>3. Unrecorded' /\ EverBound' /\ Raised'
    BY <1>0, <1>2 DEF Unrecorded, EverBound, Raised, Driving
  <1>4. Sole'
    BY <1>0, <1>2 DEF Sole
  <1>5. DispatchWithinCapacity'
    BY <1>1, <1>2, LoadShrinks DEF Open
  <1> QED
    BY <1>1, <1>3, <1>4, <1>5 DEF SoloInv

(* decideClaim: a ticket is claimed only when it has no open execution and  *)
(* the capacity has room for it.                                            *)
LEMMA SoloClaim ==
    ASSUME SoloInv, NEW s \in Servers, NEW t \in Tickets, NEW c \in Claims, Claim(s, t, c)
    PROVE  SoloInv'
  <1>0. DispatchInv /\ TypeOK /\ Unrecorded /\ EverBound /\ Sole /\ Raised
    BY DEF SoloInv, DispatchInv
  <1>1. Outside /\ DispatchInv'
    BY <1>0, OtherSteps, OutsideStep
  <1>2. /\ UNCHANGED <<ticket, bound, terminal>>
        /\ \A x \in Servers, d \in Claims :
              call'[x][d] = call[x][d] \/ call'[x][d].at \in {"idle", "scheduled"}
    BY <1>1 DEF Outside
  <1>3. /\ issue[c] = NoTicket /\ ticket[t] = "ELIGIBLE"
        /\ issue' = [issue EXCEPT ![c] = t]
        /\ \A d \in ActiveClaims : issue[d] # t
        /\ Cardinality(Load) < MaxTickets
    BY DEF Claim, DispatchCapacity, Load
  <1>4. /\ ActiveClaims = {d \in Claims : Open(d)} /\ Load \in SUBSET Tickets
        /\ CompletedHasEvidence
    BY <1>0, OpenClaims DEF DispatchInv
  <1>5. /\ issue'[c] = t
        /\ \A d \in Claims : d # c => issue'[d] = issue[d]
        /\ \A d \in Claims : issue[d] \in Tickets => d # c /\ issue'[d] = issue[d]
    BY <1>0, <1>3, TicketsAssumption DEF TypeOK
  <1>6. \A d \in Claims : issue[d] = t => terminal[d] # "none"
    BY <1>3, <1>4 DEF Open
  <1>7. terminal[c] = "none"
    BY <1>0, <1>3, TicketsAssumption DEF EverBound
  <1>8. \A x \in Servers, d \in Claims : call[x][d].at # "idle" => issue[d] \in Tickets
    BY <1>0 DEF TypeOK
  <1>9. Unrecorded'
    BY <1>0, <1>2 DEF Unrecorded, Driving
  <1>10. EverBound'
    <2>1. ASSUME NEW x \in Servers, NEW d \in Claims,
                 call'[x][d].at \notin {"idle", "scheduled"}
          PROVE  bound[issue'[d]] # NoClaim
      BY <1>0, <1>2, <1>5, <1>8, <2>1 DEF EverBound
    <2>2. ASSUME NEW d \in Claims, terminal[d] # "none"
          PROVE  issue'[d] \in Tickets /\ bound[issue'[d]] # NoClaim
      BY <1>0, <1>5, <2>2 DEF EverBound
    <2> QED
      BY <1>2, <2>1, <2>2 DEF EverBound
  <1>11. Sole'
    <2>1. ASSUME NEW d \in Claims, NEW e \in Claims, d # e,
                 issue'[d] \in Tickets, issue'[d] = issue'[e],
                 terminal[d] = "none", terminal[e] = "none"
          PROVE  FALSE
      <3>1. CASE d = c
        BY <1>5, <1>6, <2>1, <3>1
      <3>2. CASE e = c
        BY <1>5, <1>6, <2>1, <3>2
      <3>3. CASE d # c /\ e # c
        BY <1>0, <1>5, <2>1, <3>3 DEF Sole
      <3> QED
        BY <3>1, <3>2, <3>3
    <2>2. ASSUME NEW u \in Tickets, bound[u] # NoClaim,
                 terminal[bound[u]] \in {"none", "PR_RAISED"},
                 NEW d \in Claims, issue'[d] = u
          PROVE  d = bound[u]
      <3>1. bound[u] \in Claims /\ issue[bound[u]] = u
        BY <1>0, <2>2 DEF DispatchInv, BindingIssued, TypeOK
      <3>2. CASE d # c
        BY <1>0, <1>5, <2>2, <3>2 DEF Sole
      <3>3. CASE d = c
        <4>1. u = t
          BY <1>5, <2>2, <3>3
        <4>2. terminal[bound[u]] = "PR_RAISED"
          BY <1>6, <2>2, <3>1, <4>1
        <4>3. ticket[t] = "PR_OPEN"
          BY <1>0, <3>1, <4>1, <4>2 DEF Raised
        <4> QED
          BY <1>3, <4>3
      <3> QED
        BY <3>2, <3>3
    <2> QED
      BY <1>2, <2>1, <2>2 DEF Sole
  <1>12. Raised'
    <2>1. ASSUME NEW x \in Servers, NEW d \in Claims
          PROVE  /\ call'[x][d].at = "record" /\ call'[x][d].want = "PR_RAISED" =>
                       ticket[issue'[d]] = "PR_OPEN" /\ bound[issue'[d]] = d
                 /\ call'[x][d].at = "settle" => terminal[d] # "PR_RAISED"
      BY <1>0, <1>2, <1>5, <1>8 DEF Raised
    <2>2. ASSUME NEW d \in Claims, terminal[d] = "PR_RAISED"
          PROVE  ticket[issue'[d]] = "PR_OPEN" /\ bound[issue'[d]] = d
      BY <1>0, <1>5, <2>2 DEF Raised, EverBound
    <2> QED
      BY <1>2, <2>1, <2>2 DEF Raised
  <1>13. DispatchWithinCapacity'
    <2>1. ActiveClaims' \subseteq {d \in Claims : Open(d)'}
      BY <1>1 DEF DispatchInv, TypeOK, ActiveClaims, Issued, Open
    <2>2. \A d \in Claims : Open(d)' => d = c \/ Open(d)
      BY <1>2, <1>5 DEF Open
    <2>3. Load' \subseteq Load \cup {t}
      BY <1>2, <1>4, <1>5, <2>1, <2>2 DEF Load, Active, Open
    <2>4. IsFiniteSet(Load)
      BY <1>4, TicketsAssumption, FS_Subset
    <2>5. /\ IsFiniteSet(Load \cup {t})
          /\ Cardinality(Load) \in Nat
          /\ Cardinality(Load \cup {t}) =
                IF t \in Load THEN Cardinality(Load) ELSE Cardinality(Load) + 1
      BY <2>4, FS_AddElement, FS_CardinalityType
    <2>6. Load' \in SUBSET (Load \cup {t})
      BY <2>3
    <2>7. /\ Cardinality(Load') \in Nat
          /\ Cardinality(Load') <= Cardinality(Load \cup {t})
      BY <2>5, <2>6, FS_Subset, FS_CardinalityType
    <2>8. MaxTickets \in Nat
      BY BoundsAssumption
    <2>9. Cardinality(Load') <= MaxTickets
      BY <1>3, <2>5, <2>7, <2>8
    <2> QED
      BY <2>9 DEF DispatchWithinCapacity, Load
  <1> QED
    BY <1>1, <1>9, <1>10, <1>11, <1>12, <1>13 DEF SoloInv

LEMMA SoloInductive ==
    ASSUME OneServer
    PROVE  Spec => []SoloInv
  <1>1. Init => SoloInv
    <2> SUFFICES ASSUME Init PROVE SoloInv
      OBVIOUS
    <2>1. DispatchInv
      BY InitDispatch
    <2>2. Idle.at = "idle" /\ \A x \in Servers, d \in Claims : call[x][d] = Idle
      BY DEF Init, Idle
    <2>3. Unrecorded /\ EverBound /\ Raised
      BY <2>2 DEF Init, Unrecorded, EverBound, Raised, Driving
    <2>4. Sole
      BY TicketsAssumption DEF Init, Sole
    <2>5. Load = {}
      BY TicketsAssumption DEF Init, Load, Active, ActiveStates, ActiveClaims, Issued
    <2>6. DispatchWithinCapacity
      BY <2>5, FS_EmptySet, BoundsAssumption DEF DispatchWithinCapacity, Load
    <2> QED
      BY <2>1, <2>3, <2>4, <2>6 DEF SoloInv
  <1>2. SoloInv /\ [Next]_vars => SoloInv'
    <2> SUFFICES ASSUME SoloInv, [Next]_vars PROVE SoloInv'
      OBVIOUS
    <2> USE DEF evidence, memory
    <2>0. DispatchInv
      BY DEF SoloInv
    <2>1. ASSUME NEW s \in Servers, NEW c \in Claims, Execute(s, c)
          PROVE  SoloInv'
      <3>1. Begin(s, c) \/ Drives(s, c)
        BY <2>1 DEF Execute, Drives
      <3> QED
        BY <3>1, SoloBegin, SoloDrive
    <2>2. ASSUME NEW s \in Servers, StartServer(s) \/ Listen(s) \/ Reconcile(s) \/ Crash(s)
          PROVE  SoloInv'
      <3>1. Outside
        BY <2>0, <2>2, OtherSteps
      <3>2. issue' = issue
        BY <2>2 DEF StartServer, Listen, Reconcile, Crash
      <3> QED
        BY <3>1, <3>2, SoloOutside
    <2>3. ASSUME NEW s \in Servers, NEW c \in Claims,
                 RecoverClaim(s, c) \/ Redeliver(s, c) \/ Throw(s, c)
          PROVE  SoloInv'
      <3>1. Outside
        BY <2>0, <2>3, OtherSteps
      <3>2. issue' = issue
        BY <2>3 DEF RecoverClaim, Redeliver, Throw
      <3> QED
        BY <3>1, <3>2, SoloOutside
    <2>4. ASSUME NEW s \in Servers, NEW c \in Claims, NEW t \in Tickets, Claim(s, t, c)
          PROVE  SoloInv'
      BY <2>4, SoloClaim
    <2>5. ASSUME NEW c \in Claims, RecoverRun(c)
          PROVE  SoloInv'
      <3>1. Outside
        BY <2>0, <2>5, OtherSteps
      <3>2. issue' = issue
        BY <2>5 DEF RecoverRun, KeepButRun
      <3> QED
        BY <3>1, <3>2, SoloOutside
    <2>6. ASSUME NEW t \in Tickets, RemoveWorkspace(t)
          PROVE  SoloInv'
      <3>1. Outside
        BY <2>0, <2>6, OtherSteps
      <3>2. issue' = issue
        BY <2>6 DEF RemoveWorkspace
      <3> QED
        BY <3>1, <3>2, SoloOutside
    <2>7. CASE UNCHANGED vars
      <3>1. Outside
        BY <2>0, <2>7, OtherSteps
      <3>2. issue' = issue
        BY <2>7 DEF vars
      <3> QED
        BY <3>1, <3>2, SoloOutside
    <2> QED
      BY <2>1, <2>2, <2>3, <2>4, <2>5, <2>6, <2>7 DEF Next
  <1> QED
    BY <1>1, <1>2, PTL DEF Spec

(* One server never has more tickets in work, claimed or active, than       *)
(* execution.maxConcurrentTickets, whatever crashes, is delivered again or  *)
(* is recovered (decideClaim).                                              *)
THEOREM OneServerWithinCapacity ==
    ASSUME OneServer
    PROVE  Spec => []DispatchWithinCapacity
  <1>1. SoloInv => DispatchWithinCapacity
    BY DEF SoloInv
  <1> QED
    BY <1>1, SoloInductive, PTL

(* With one server, a ticket whose evidence says PR_RAISED is PR_OPEN and   *)
(* stays so (appendTerminal, terminalize, bindExecution).                   *)
THEOREM RaisedStaysOpen ==
    ASSUME OneServer
    PROVE  Spec => []RaisedMeansOpen
  <1>1. SoloInv => RaisedMeansOpen
    BY DEF SoloInv, Raised, RaisedMeansOpen
  <1> QED
    BY <1>1, SoloInductive, PTL

-----------------------------------------------------------------------------
(* ExecutionLog.  Every step writes at most one kind of evidence; what is   *)
(* left to show is that what a call is about to write is true, which its    *)
(* position and its locals tell (Told).                                     *)

(* Positions of a call whose execution has a run.                           *)
Working == {"running", "ran", "verifying", "reviewing", "reviewed", "repairing", "ready",
            "handoff", "opening", "reopening"}

Told ==
    \A s \in Servers, c \in Claims :
        /\ call[s][c].at \in Working => run[c] # "none"
        /\ call[s][c].at \in Driving /\ call[s][c].run # "none" => run[c] # "none"
        /\ call[s][c].at \in {"opening", "reopening"} => issue[c] \in pr
        /\ call[s][c].at = "record" =>
              /\ call[s][c].want = "CONFLICT" <=> bound[issue[c]] # c
              /\ call[s][c].want = "PR_RAISED" => run[c] # "none" /\ issue[c] \in pr

LogInv == DispatchInv /\ EverBound /\ Told

(* What a stage past the binding leaves in its call.                        *)
Tells(s, c) ==
    /\ call'[s][c].at \in Working => run'[c] # "none"
    /\ call'[s][c].at \in Driving /\ call'[s][c].run # "none" => run'[c] # "none"
    /\ call'[s][c].at \in {"opening", "reopening"} => issue[c] \in pr'
    /\ call'[s][c].at = "record" =>
          /\ call'[s][c].want # "CONFLICT"
          /\ call'[s][c].want = "PR_RAISED" => run'[c] # "none" /\ issue[c] \in pr'

(* A stage goes on, gives up, or stays where it is.                         *)
LEMMA StageTells ==
    ASSUME TypeOK, Told, NEW s \in Servers, NEW c \in Claims,
           call[s][c].at \in Driving,
           run[c] # "none" => run'[c] # "none", pr \subseteq pr',
           \/ \E to \in Positions \ {"record"} :
                 /\ Goto(s, c, to)
                 /\ to \in Working => run'[c] # "none"
                 /\ to \in {"opening", "reopening"} => issue[c] \in pr'
           \/ \E outcome \in Outcomes \ {"CONFLICT"} :
                 /\ Conclude(s, c, outcome)
                 /\ outcome = "PR_RAISED" => run'[c] # "none" /\ issue[c] \in pr'
           \/ call' = call
    PROVE  Tells(s, c)
  <1>0. /\ call[s][c].at \in Working \/ call[s][c].run # "none" => run[c] # "none"
        /\ call[s][c].at # "record"
        /\ call[s][c].at \in {"opening", "reopening"} => issue[c] \in pr
        /\ call[s][c] \in Calls
    BY CallTyped DEF Told, Driving
  <1>1. CASE call' = call
    BY <1>0, <1>1 DEF Tells
  <1>2. ASSUME NEW to \in Positions \ {"record"}, Goto(s, c, to),
               to \in Working => run'[c] # "none",
               to \in {"opening", "reopening"} => issue[c] \in pr'
        PROVE  Tells(s, c)
    <2>1. Moves(s, c, [call[s][c] EXCEPT !.at = to])
      BY <1>2, GotoMoves
    <2>2. call'[s][c].at = to /\ call'[s][c].run = call[s][c].run
      BY <1>0, <2>1 DEF Moves, Calls
    <2> QED
      BY <1>0, <1>2, <2>2 DEF Tells
  <1>3. ASSUME NEW outcome \in Outcomes \ {"CONFLICT"}, Conclude(s, c, outcome),
               outcome = "PR_RAISED" => run'[c] # "none" /\ issue[c] \in pr'
        PROVE  Tells(s, c)
    <2>1. Moves(s, c, [call[s][c] EXCEPT !.at = "record", !.want = outcome])
      <3>1. outcome \in Outcomes /\ Conclude(s, c, outcome)
        BY <1>3
      <3> QED
        BY <3>1, ConcludeMoves
    <2>2. /\ call'[s][c].at = "record" /\ call'[s][c].want = outcome
          /\ call'[s][c].run = call[s][c].run
      BY <1>0, <2>1 DEF Moves, Calls
    <2> QED
      BY <1>0, <1>3, <2>2 DEF Tells, Working
  <1> QED
    BY <1>1, <1>2, <1>3

(* What a stage past the binding adds to the log: a run, or the evidence of *)
(* a pull request once there is one.                                        *)
StageLog(s, c) ==
    /\ call[s][c].at \in Driving
    /\ UNCHANGED <<issue, bound, terminal, completed>>
    /\ run[c] # "none" => run'[c] # "none"
    /\ \/ pr' = pr
       \/ pr' = pr \cup {issue[c]} /\ run' = run /\ run[c] # "none"
    /\ Tells(s, c)

LEMMA StageStep ==
    ASSUME LogInv, NEW s \in Servers, NEW c \in Claims, Drives(s, c)
    PROVE  StageLog(s, c) \/ Record(s, c) \/ Settle(s, c) \/ Complete(s, c)
  <1> USE DEF At, evidence, memory, KeepButRun
  <1>0. TypeOK /\ Told
    BY DEF LogInv, DispatchInv
  <1>t. /\ call[s][c].at \in Working => run[c] # "none"
        /\ call[s][c].at \in Driving /\ call[s][c].run # "none" => run[c] # "none"
        /\ call[s][c].at \in {"opening", "reopening"} => issue[c] \in pr
    BY <1>0 DEF Told
  <1>r. run \in [Claims -> RunStates] /\ call[s][c] \in Calls
    BY <1>0, CallTyped DEF TypeOK
  <1> DEFINE Stage ==
        /\ call[s][c].at \in Driving
        /\ UNCHANGED <<issue, bound, terminal, completed>>
        /\ run[c] # "none" => run'[c] # "none"
        /\ \/ pr' = pr
           \/ pr' = pr \cup {issue[c]} /\ run' = run /\ run[c] # "none"
        /\ \/ \E to \in Positions \ {"record"} :
                 /\ Goto(s, c, to)
                 /\ to \in Working => run'[c] # "none"
                 /\ to \in {"opening", "reopening"} => issue[c] \in pr'
           \/ \E outcome \in Outcomes \ {"CONFLICT"} :
                 /\ Conclude(s, c, outcome)
                 /\ outcome = "PR_RAISED" => run'[c] # "none" /\ issue[c] \in pr'
           \/ call' = call
  <1>b. Stage => StageLog(s, c)
    <2> SUFFICES ASSUME Stage PROVE StageLog(s, c)
      OBVIOUS
    <2>1. pr \subseteq pr'
      OBVIOUS
    <2>2. Tells(s, c)
      BY <1>0, <2>1, StageTells
    <2> QED
      BY <2>2 DEF StageLog
  <1>1. CASE CreateWorkspace(s, c)
    BY <1>t, <1>r, <1>1, <1>b DEF CreateWorkspace, Driving, Working, Positions, Outcomes
  <1>2. CASE ReuseWorkspace(s, c)
    BY <1>t, <1>r, <1>2, <1>b DEF ReuseWorkspace, Driving, Working, Positions, Outcomes
  <1>3. CASE CapacityRefused(s, c)
    BY <1>t, <1>r, <1>3, <1>b DEF CapacityRefused, Driving, Working, Positions, Outcomes
  <1>4. CASE AcquireFails(s, c)
    BY <1>t, <1>r, <1>4, <1>b DEF AcquireFails, Driving, Working, Positions, Outcomes
  <1>5. CASE Admit(s, c)
    BY <1>t, <1>r, <1>5, <1>b DEF Admit, Driving, Working, Positions, Outcomes
  <1>6. CASE Prepare(s, c)
    BY <1>t, <1>r, <1>6, <1>b DEF Prepare, SetRun, Driving, Working, Positions, Outcomes
  <1>7. CASE RoutingThrows(s, c)
    BY <1>t, <1>r, <1>7, <1>b DEF RoutingThrows, Driving, Working, Positions, Outcomes
  <1>8. CASE Launch(s, c)
    BY <1>t, <1>r, <1>8, <1>b DEF Launch, SetRun, Driving, Working, Positions, Outcomes
  <1>9. CASE Ran(s, c)
    BY <1>t, <1>r, <1>9, <1>b DEF Ran, Continue, RunOutcome, Driving, Working, Positions, Outcomes
  <1>10. CASE ResumeRepair(s, c)
    BY <1>t, <1>r, <1>10, <1>b DEF ResumeRepair, Driving, Working, Positions, Outcomes
  <1>11. CASE Review(s, c)
    BY <1>t, <1>r, <1>11, <1>b DEF Review, SetRun, Driving, Working, Positions, Outcomes
  <1>12. CASE ReviewEnds(s, c)
    BY <1>t, <1>r, <1>12, <1>b DEF ReviewEnds, AssistantEnds, SetRun, Driving, Working, Positions, Outcomes
  <1>13. CASE ReviewsAreCurrent(s, c)
    BY <1>t, <1>r, <1>13, <1>b DEF ReviewsAreCurrent, Driving, Working, Positions, Outcomes
  <1>14. CASE Repair(s, c)
    BY <1>t, <1>r, <1>14, <1>b DEF Repair, SetRun, Driving, Working, Positions, Outcomes
  <1>15. CASE Repaired(s, c)
    BY <1>t, <1>r, <1>15, <1>b DEF Repaired, AssistantEnds, SetRun, Driving, Working, Positions, Outcomes
  <1>16. CASE RepairGivesUp(s, c)
    BY <1>t, <1>r, <1>16, <1>b DEF RepairGivesUp, AssistantEnds, SetRun, Driving, Working, Positions, Outcomes
  <1>17. CASE RepairThrows(s, c)
    BY <1>t, <1>r, <1>17, <1>b DEF RepairThrows, AssistantEnds, SetRun, Driving, Working, Positions, Outcomes
  <1>18. CASE Passed(s, c)
    BY <1>t, <1>r, <1>18, <1>b DEF Passed, Continue, Driving, Working, Positions, Outcomes
  <1>19. CASE ReadinessPasses(s, c)
    BY <1>t, <1>r, <1>19, <1>b DEF ReadinessPasses, Continue, Driving, Working, Positions, Outcomes
  <1>20. CASE ReadinessFails(s, c)
    BY <1>t, <1>r, <1>20, <1>b DEF ReadinessFails, Driving, Working, Positions, Outcomes
  <1>21. CASE RecordPR(s, c)
    BY <1>t, <1>r, <1>21, <1>b DEF RecordPR, Driving, Working, Positions, Outcomes
  <1>22. CASE OpenPR(s, c)
    BY <1>t, <1>r, <1>22, <1>b DEF OpenPR, Driving, Working, Positions, Outcomes
  <1>23. CASE HandoffFails(s, c)
    BY <1>t, <1>r, <1>23, <1>b DEF HandoffFails, Driving, Working, Positions, Outcomes
  <1>24. CASE RecoveryFails(s, c)
    BY <1>t, <1>r, <1>24, <1>b DEF RecoveryFails, Driving, Working, Positions, Outcomes
  <1>25. CASE LaunchRefused(s, c) \/ RunEnds(s, c)
    <2>1. /\ call[s][c].at = "running"
          /\ UNCHANGED <<issue, bound, terminal, completed, pr>>
          /\ run'[c] # "none"
          /\ \/ \E k : call' = [call EXCEPT ![s][c] = [@ EXCEPT !.at = "routing", !.fallbacks = k]]
             \/ \E status : call' = [call EXCEPT ![s][c] = [@ EXCEPT !.at = "ran", !.run = status]]
      BY <1>r, <1>25 DEF LaunchRefused, RunEnds, SetRun
    <2>2. call'[s][c].at \in {"routing", "ran"}
      <3>0. call \in [Servers -> [Claims -> Calls]]
        BY <1>0 DEF TypeOK
      <3>1. ASSUME NEW k,
                   call' = [call EXCEPT ![s][c] = [@ EXCEPT !.at = "routing", !.fallbacks = k]]
            PROVE  call'[s][c].at = "routing"
        BY <1>r, <3>0, <3>1 DEF Calls
      <3>2. ASSUME NEW status,
                   call' = [call EXCEPT ![s][c] = [@ EXCEPT !.at = "ran", !.run = status]]
            PROVE  call'[s][c].at = "ran"
        BY <1>r, <3>0, <3>2 DEF Calls
      <3> QED
        BY <2>1, <3>1, <3>2
    <2> QED
      BY <2>1, <2>2 DEF StageLog, Tells, Driving
  <1> QED
    BY <1>1, <1>2, <1>3, <1>4, <1>5, <1>6, <1>7, <1>8, <1>9, <1>10, <1>11, <1>12, <1>13, <1>14, <1>15, <1>16, <1>17, <1>18, <1>19, <1>20, <1>21, <1>22, <1>23, <1>24, <1>25 DEF Drives

(* A binding is kept, and every call past the scheduling has one: what is   *)
(* true of the calls a step leaves alone stays true.                        *)
LEMMA OthersTold ==
    ASSUME LogInv, NEW s \in Servers, NEW c \in Claims,
           \A x \in Servers, d \in Claims : x # s \/ d # c => call'[x][d] = call[x][d],
           issue' = issue, pr \subseteq pr',
           \A d \in Claims : run[d] # "none" => run'[d] # "none",
           \A t \in Tickets : bound[t] # NoClaim => bound'[t] = bound[t],
           /\ call'[s][c].at \in Working => run'[c] # "none"
           /\ call'[s][c].at \in Driving /\ call'[s][c].run # "none" => run'[c] # "none"
           /\ call'[s][c].at \in {"opening", "reopening"} => issue[c] \in pr'
           /\ call'[s][c].at = "record" =>
                 /\ call'[s][c].want = "CONFLICT" <=> bound'[issue[c]] # c
                 /\ call'[s][c].want = "PR_RAISED" => run'[c] # "none" /\ issue[c] \in pr'
    PROVE  Told'
  <1> SUFFICES ASSUME NEW x \in Servers, NEW d \in Claims, x # s \/ d # c
               PROVE  /\ call'[x][d].at \in Working => run'[d] # "none"
                      /\ call'[x][d].at \in Driving /\ call'[x][d].run # "none" => run'[d] # "none"
                      /\ call'[x][d].at \in {"opening", "reopening"} => issue[d] \in pr'
                      /\ call'[x][d].at = "record" =>
                            /\ call'[x][d].want = "CONFLICT" <=> bound'[issue[d]] # d
                            /\ call'[x][d].want = "PR_RAISED" => run'[d] # "none" /\ issue[d] \in pr'
    BY DEF Told
  <1>1. call'[x][d] = call[x][d]
    OBVIOUS
  <1>2. call[x][d].at = "record" => bound'[issue[d]] = bound[issue[d]]
    BY DEF LogInv, EverBound, DispatchInv, TypeOK
  <1> QED
    BY <1>1, <1>2 DEF LogInv, Told

(* EverBound survives whatever keeps the bindings and binds before it goes  *)
(* on.                                                                      *)
LEMMA OthersBound ==
    ASSUME LogInv, NEW s \in Servers, NEW c \in Claims, issue[c] \in Tickets,
           \A x \in Servers, d \in Claims : x # s \/ d # c => call'[x][d] = call[x][d],
           issue' = issue,
           \A t \in Tickets : bound[t] # NoClaim => bound'[t] = bound[t],
           bound'[issue[c]] # NoClaim,
           \A d \in Claims : d # c => terminal'[d] = terminal[d]
    PROVE  EverBound'
  <1>1. ASSUME NEW x \in Servers, NEW d \in Claims,
               call'[x][d].at \notin {"idle", "scheduled"}, d # c
        PROVE  bound'[issue[d]] # NoClaim
    BY <1>1 DEF LogInv, EverBound, DispatchInv, TypeOK
  <1>2. ASSUME NEW d \in Claims, terminal[d] # "none"
        PROVE  issue[d] \in Tickets /\ bound'[issue[d]] # NoClaim
    BY <1>2 DEF LogInv, EverBound
  <1> QED
    BY <1>1, <1>2 DEF EverBound

(* Every step of a call keeps LogInv.                                       *)
LEMMA CallKeepsLog ==
    ASSUME LogInv, NEW s \in Servers, NEW c \in Claims, Begin(s, c) \/ Drives(s, c)
    PROVE  LogInv'
  <1>0. DispatchInv /\ TypeOK /\ EverBound /\ Told
    BY DEF LogInv, DispatchInv
  <1>1. DispatchInv'
    BY <1>0, BeginStep, DriveStep
  <1>2. CASE Begin(s, c)
    <2>1. /\ UNCHANGED <<issue, terminal, run, pr>>
          /\ bound' = [bound EXCEPT ![issue[c]] = Binding(issue[c], c)]
          /\ issue[c] \in Tickets
      BY <1>0, <1>2 DEF Begin, At, TypeOK
    <2>2. BeginShape(s, c)
      BY <1>0, <1>2, BeginCall
    <2>3. \A x \in Servers, d \in Claims : x # s \/ d # c => call'[x][d] = call[x][d]
      BY <2>2 DEF BeginShape, Moves
    <2>4. /\ bound'[issue[c]] = Binding(issue[c], c)
          /\ bound'[issue[c]] # NoClaim
          /\ \A t \in Tickets : bound[t] # NoClaim => bound'[t] = bound[t]
      BY <1>0, <2>1, ClaimsAssumption DEF Binding, TypeOK
    <2>5. Told'
      <3>1. /\ call'[s][c].at \notin Working
            /\ call'[s][c].at \in Driving /\ call'[s][c].run # "none" => run[c] # "none"
            /\ call'[s][c].at \notin {"opening", "reopening"}
            /\ call'[s][c].at = "record" =>
                  /\ call'[s][c].want = "CONFLICT" <=> bound'[issue[c]] # c
                  /\ call'[s][c].want # "PR_RAISED"
        BY <2>2, <2>4 DEF BeginShape, Working, Driving
      <3> QED
        BY <2>1, <2>3, <2>4, <3>1, OthersTold
    <2>6. EverBound'
      BY <2>1, <2>3, <2>4, OthersBound
    <2> QED
      BY <1>1, <2>5, <2>6 DEF LogInv
  <1>3. CASE Drives(s, c)
    <2>1. EvidenceShape(s, c) /\ CallShape(s, c)
      BY <1>0, <1>3, EvidenceStep, CallStep
    <2>2. /\ UNCHANGED <<issue, bound>> /\ issue[c] \in Tickets
          /\ call[s][c].at \notin {"idle", "scheduled"}
          /\ \A x \in Servers, d \in Claims : x # s \/ d # c => call'[x][d] = call[x][d]
      BY <1>0, <1>3, <2>1, OwnStep DEF EvidenceShape, CallShape, Moves, TypeOK, OwnShape,
         DrivingShape, RecordShape, SettleShape, Driving
    <2>3. bound[issue[c]] # NoClaim
      BY <1>0, <2>2 DEF EverBound
    <2>4. \A d \in Claims : d # c => terminal'[d] = terminal[d]
      BY <1>0, <1>3, OwnStep DEF OwnShape, DrivingShape, RecordShape, SettleShape, TypeOK
    <2>5. EverBound'
      BY <2>2, <2>3, <2>4, OthersBound
    <2>6. CASE StageLog(s, c)
      <3>1. /\ pr \subseteq pr' /\ Tells(s, c) /\ bound[issue[c]] = c
            /\ \A d \in Claims : run[d] # "none" => run'[d] # "none"
        BY <1>0, <2>1, <2>6 DEF StageLog, EvidenceShape, DispatchInv, DrivesTheBound
      <3>2. Told'
        BY <2>2, <3>1, OthersTold DEF Tells
      <3> QED
        BY <1>1, <2>5, <3>2 DEF LogInv
    <2>7. CASE Record(s, c) \/ Settle(s, c) \/ Complete(s, c)
      <3>1. UNCHANGED <<run, pr>>
        BY <2>7 DEF Record, Settle, Complete, evidence
      <3>2. call'[s][c].at \in {"settle", "complete", "idle"}
        BY <1>0, <1>3, <2>7, OwnStep DEF OwnShape, DrivingShape, RecordShape, SettleShape,
           Driving, Record, Settle, Complete, At
      <3>3. Told'
        BY <2>2, <3>1, <3>2, OthersTold DEF Working, Driving
      <3> QED
        BY <1>1, <2>5, <3>3 DEF LogInv
    <2> QED
      BY <1>3, <2>6, <2>7, StageStep
  <1> QED
    BY <1>2, <1>3

(* So does everything else.                                                 *)
LEMMA OutsideKeepsLog ==
    ASSUME LogInv, Outside
    PROVE  LogInv'
  <1>0. DispatchInv /\ TypeOK /\ EverBound /\ Told
    BY DEF LogInv, DispatchInv
  <1>1. DispatchInv'
    BY <1>0, OutsideStep
  <1>2. \A x \in Servers, d \in Claims :
           call'[x][d].at \notin {"idle", "scheduled"} =>
              call'[x][d] = call[x][d] /\ issue'[d] = issue[d] /\ issue[d] \in Tickets
    BY <1>0 DEF Outside, TypeOK
  <1>3. UNCHANGED <<bound, terminal, pr>> /\ \A d \in Claims : run'[d] # "none" <=> run[d] # "none"
    BY DEF Outside
  <1>4. EverBound'
    <2>1. \A d \in Claims :
             terminal[d] # "none" => issue'[d] \in Tickets /\ bound[issue'[d]] # NoClaim
      BY <1>0 DEF EverBound, Outside
    <2> QED
      BY <1>0, <1>2, <1>3, <2>1 DEF EverBound
  <1>5. Told'
    BY <1>0, <1>2, <1>3 DEF Told, Working, Driving
  <1> QED
    BY <1>1, <1>4, <1>5 DEF LogInv

LEMMA LogInductive == Spec => []LogInv
  <1>1. Init => LogInv
    <2> SUFFICES ASSUME Init PROVE LogInv
      OBVIOUS
    <2>1. Idle.at = "idle" /\ \A x \in Servers, d \in Claims : call[x][d] = Idle
      BY DEF Init, Idle
    <2>2. EverBound /\ Told
      BY <2>1 DEF Init, EverBound, Told, Working, Driving
    <2> QED
      BY <2>2, InitDispatch DEF LogInv
  <1>2. LogInv /\ [Next]_vars => LogInv'
    <2> SUFFICES ASSUME LogInv, [Next]_vars PROVE LogInv'
      OBVIOUS
    <2>1. DispatchInv
      BY DEF LogInv
    <2>2. ASSUME NEW s \in Servers, NEW c \in Claims, Execute(s, c)
          PROVE  LogInv'
      <3>1. Begin(s, c) \/ Drives(s, c)
        BY <2>2 DEF Execute, Drives
      <3> QED
        BY <3>1, CallKeepsLog
    <2>3. (\E s \in Servers, c \in Claims : Execute(s, c)) \/ Outside
      BY <2>1, OtherSteps DEF Next
    <2> QED
      BY <2>2, <2>3, OutsideKeepsLog
  <1> QED
    BY <1>1, <1>2, PTL DEF Spec

(* A stage of executeTicket writes a run, a pull request or nothing.        *)
LEMMA StageSimulates ==
    ASSUME LogInv, NEW s \in Servers, NEW c \in Claims,
           StageLog(s, c), EvidenceShape(s, c)
    PROVE  [Log!Next]_(Log!log)
  <1>0. /\ UNCHANGED <<issue, bound, terminal, completed>>
        /\ \A d \in Claims : d # c => run'[d] = run[d]
        /\ run[c] # "none" => run'[c] # "none"
    BY DEF StageLog, EvidenceShape
  <1>1. Log!Holds(c)
    BY DEF LogInv, DispatchInv, DrivesTheBound, TypeOK, StageLog, Driving, Log!Holds
  <1>2. CASE pr' = pr /\ run'[c] # "none" /\ run[c] = "none"
    <2>1. Worked' = Worked \cup {c}
      BY <1>0, <1>2 DEF Worked
    <2>2. Log!Work(c)
      BY <1>0, <1>1, <1>2, <2>1 DEF Log!Work
    <2> QED
      BY <2>2 DEF Log!Next
  <1>3. CASE pr' = pr /\ (run'[c] = "none" <=> run[c] = "none")
    <2>1. Worked' = Worked
      BY <1>0, <1>3 DEF Worked
    <2> QED
      BY <1>0, <1>3, <2>1 DEF Log!log
  <1>4. CASE pr' = pr \cup {issue[c]} /\ run' = run /\ run[c] # "none"
    <2>1. Worked' = Worked /\ c \in Worked
      BY <1>4 DEF Worked
    <2>2. Log!Publish(c)
      BY <1>0, <1>1, <1>4, <2>1 DEF Log!Publish
    <2> QED
      BY <2>2 DEF Log!Next
  <1> QED
    BY <1>0, <1>2, <1>3, <1>4 DEF StageLog

(* Closing claims that have an outcome, or none.                            *)
LEMMA ClosingSimulates ==
    ASSUME NEW closed \in SUBSET Claims, \A d \in closed : terminal[d] # "none",
           completed' = completed \cup closed,
           UNCHANGED <<issue, bound, pr, terminal>>, Worked' = Worked
    PROVE  Log!Next
  <1>1. Log!Close(closed)
    BY DEF Log!Close
  <1> QED
    BY <1>1 DEF Log!Next

(* bindExecution, appendTerminal, completeClaim and the stages.             *)
LEMMA CallSimulates ==
    ASSUME LogInv, NEW s \in Servers, NEW c \in Claims, Begin(s, c) \/ Drives(s, c)
    PROVE  [Log!Next]_(Log!log)
  <1>0. DispatchInv /\ TypeOK /\ EverBound /\ Told
    BY DEF LogInv, DispatchInv
  <1>1. CASE Begin(s, c)
    <2>1. /\ UNCHANGED <<issue, terminal, run, pr, completed>>
          /\ bound' = [bound EXCEPT ![issue[c]] = Binding(issue[c], c)]
          /\ issue[c] \in Tickets
      BY <1>0, <1>1 DEF Begin, At, TypeOK
    <2>2. Worked' = Worked
      BY <2>1 DEF Worked
    <2>3. CASE bound[issue[c]] = NoClaim
      <3>1. terminal[c] = "none" /\ bound' = [bound EXCEPT ![issue[c]] = c]
        BY <1>0, <2>1, <2>3 DEF EverBound, Binding
      <3>2. Log!Bind(c)
        BY <2>1, <2>2, <2>3, <3>1 DEF Log!Bind
      <3> QED
        BY <3>2 DEF Log!Next
    <2>4. CASE bound[issue[c]] # NoClaim
      <3>1. bound' = bound
        BY <1>0, <2>1, <2>4 DEF Binding, TypeOK
      <3> QED
        BY <2>1, <2>2, <3>1 DEF Log!log
    <2> QED
      BY <2>3, <2>4
  <1>2. CASE Drives(s, c) /\ StageLog(s, c)
    BY <1>0, <1>2, EvidenceStep, StageSimulates
  <1>3. CASE Record(s, c)
    <2>1. /\ UNCHANGED <<issue, bound, run, pr, completed>> /\ call[s][c].at = "record"
          /\ terminal' = [terminal EXCEPT ![c] =
                             IF terminal[c] = "none" THEN call[s][c].want ELSE terminal[c]]
      BY <1>3 DEF Record, At
    <2>2. Worked' = Worked
      BY <2>1 DEF Worked
    <2>3. CASE terminal[c] # "none"
      <3>1. terminal' = terminal
        BY <1>0, <2>1, <2>3 DEF TypeOK
      <3> QED
        BY <2>1, <2>2, <3>1 DEF Log!log
    <2>4. CASE terminal[c] = "none"
      <3> DEFINE outcome == call[s][c].want
      <3>1. outcome \in Outcomes
        BY <1>0, <2>1, CallTyped DEF DispatchInv, Concluding, Calls
      <3>2. issue[c] \in Tickets /\ bound[issue[c]] # NoClaim
        BY <1>0, <2>1 DEF TypeOK, EverBound
      <3>3. /\ outcome = "CONFLICT" <=> ~Log!Holds(c)
            /\ outcome = "PR_RAISED" => c \in Worked /\ issue[c] \in pr
        BY <1>0, <2>1, <3>2 DEF Told, Log!Holds, Worked
      <3>4. Log!Conclude(c, outcome)
        BY <2>1, <2>2, <2>4, <3>2, <3>3 DEF Log!Conclude
      <3> QED
        BY <3>1, <3>4 DEF Log!Next
    <2> QED
      BY <2>3, <2>4
  <1>4. CASE Settle(s, c)
    <2>1. UNCHANGED <<issue, bound, run, pr, terminal, completed>>
      BY <1>4 DEF Settle, evidence
    <2> QED
      BY <2>1 DEF Log!log, Worked
  <1>5. CASE Complete(s, c)
    <2>1. /\ UNCHANGED <<issue, bound, run, pr, terminal>> /\ call[s][c].at = "complete"
          /\ completed' = completed \cup {c}
      BY <1>5 DEF Complete, At
    <2>2. terminal[c] # "none" /\ Worked' = Worked
      BY <1>0, <2>1 DEF DispatchInv, Concluding, Worked
    <2>3. {c} \in SUBSET Claims /\ \A d \in {c} : terminal[d] # "none"
      BY <2>2
    <2> QED
      BY <2>1, <2>2, <2>3, ClosingSimulates
  <1> QED
    BY <1>1, <1>2, <1>3, <1>4, <1>5, StageStep

(* Servers that start, crash and reconcile, deliveries, recoveries.         *)
LEMMA OthersSimulate ==
    ASSUME LogInv, Outside,
           \/ \E s \in Servers : StartServer(s) \/ Listen(s) \/ Reconcile(s) \/ Crash(s)
           \/ \E s \in Servers, c \in Claims :
                 RecoverClaim(s, c) \/ Redeliver(s, c) \/ Throw(s, c)
           \/ \E s \in Servers, c \in Claims, t \in Tickets : Claim(s, t, c)
           \/ \E c \in Claims : RecoverRun(c)
           \/ \E t \in Tickets : RemoveWorkspace(t)
           \/ UNCHANGED vars
    PROVE  [Log!Next]_(Log!log)
  <1> USE DEF evidence, memory
  <1>1. UNCHANGED <<bound, terminal, pr>> /\ Worked' = Worked
    BY DEF Outside, Worked
  <1>2. ASSUME NEW s \in Servers, StartServer(s) \/ Reconcile(s)
        PROVE  Log!Next
    <2> DEFINE closed == {c \in Issued : terminal[c] # "none"}
    <2>1. issue' = issue /\ completed' = completed \cup closed
      BY <1>2 DEF StartServer, Reconcile, Reconciled
    <2>2. closed \in SUBSET Claims /\ \A d \in closed : terminal[d] # "none"
      BY DEF Issued
    <2> HIDE DEF closed
    <2> QED
      BY <1>1, <2>1, <2>2, ClosingSimulates
  <1>3. ASSUME NEW s \in Servers, NEW c \in Claims, NEW t \in Tickets, Claim(s, t, c)
        PROVE  Log!Next
    <2>1. /\ issue[c] = NoTicket /\ issue' = [issue EXCEPT ![c] = t] /\ UNCHANGED completed
      BY <1>3 DEF Claim
    <2>2. Log!Issue(c, t)
      BY <1>1, <2>1 DEF Log!Issue
    <2> QED
      BY <2>2 DEF Log!Next
  <1>4. CASE \/ \E s \in Servers : Listen(s) \/ Crash(s)
             \/ \E s \in Servers, c \in Claims :
                   RecoverClaim(s, c) \/ Redeliver(s, c) \/ Throw(s, c)
             \/ \E c \in Claims : RecoverRun(c)
             \/ \E t \in Tickets : RemoveWorkspace(t)
             \/ UNCHANGED vars
    <2>1. UNCHANGED <<issue, completed>>
      BY <1>4 DEF Listen, Crash, RecoverClaim, Redeliver, Throw, RecoverRun, KeepButRun,
         RemoveWorkspace, vars
    <2> QED
      BY <1>1, <2>1 DEF Log!log
  <1> QED
    BY <1>2, <1>3, <1>4

(* For any number of servers, claims and crashes, what Dispatch leaves in   *)
(* SQLite is a history of ExecutionLog: one binding per ticket, runs and    *)
(* pull requests of the bound execution only, one outcome per claim, with   *)
(* PR_RAISED behind its run and its pull request and CONFLICT exactly for   *)
(* another's ticket, and no claim closed without one (bindExecution,        *)
(* appendTerminal, completeClaim, reconcileCompletedClaims).                *)
THEOREM LogImplemented == Spec => ImplementsLog
  <1>1. Init => Log!Init
    <2> SUFFICES ASSUME Init PROVE Log!Init
      OBVIOUS
    <2>1. Worked = {}
      BY DEF Init, Worked
    <2> QED
      BY <2>1 DEF Init, Log!Init
  <1>2. LogInv /\ [Next]_vars => [Log!Next]_(Log!log)
    <2> SUFFICES ASSUME LogInv, [Next]_vars PROVE [Log!Next]_(Log!log)
      OBVIOUS
    <2>1. DispatchInv
      BY DEF LogInv
    <2>2. ASSUME NEW s \in Servers, NEW c \in Claims, Execute(s, c)
          PROVE  [Log!Next]_(Log!log)
      <3>1. Begin(s, c) \/ Drives(s, c)
        BY <2>2 DEF Execute, Drives
      <3> QED
        BY <3>1, CallSimulates
    <2>3. CASE \/ \E s \in Servers : StartServer(s) \/ Listen(s) \/ Reconcile(s) \/ Crash(s)
               \/ \E s \in Servers, c \in Claims :
                     RecoverClaim(s, c) \/ Redeliver(s, c) \/ Throw(s, c)
               \/ \E s \in Servers, c \in Claims, t \in Tickets : Claim(s, t, c)
               \/ \E c \in Claims : RecoverRun(c)
               \/ \E t \in Tickets : RemoveWorkspace(t)
               \/ UNCHANGED vars
      <3>1. Outside
        BY <2>1, <2>3, OtherSteps
      <3> QED
        BY <2>3, <3>1, OthersSimulate
    <2> QED
      BY <2>2, <2>3 DEF Next
  <1> QED
    BY <1>1, <1>2, LogInductive, PTL DEF Spec, Log!Spec, ImplementsLog
=============================================================================
