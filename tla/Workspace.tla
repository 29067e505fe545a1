----------------------------- MODULE Workspace ------------------------------
(***************************************************************************)
(* WORK-001: the isolated worktree of a ticket, from its reservation to    *)
(* its removal (src/src/workspace/service.ts, src/src/git/service.ts).     *)
(*                                                                         *)
(* Git and SQLite share no transaction.  A creator reserves a row as       *)
(* CREATING, lets git create branch and worktree, proves them, and makes   *)
(* the row READY and the ticket PLANNING in one commit; if that fails it   *)
(* compensates.  Another creator of the same ticket waits for it, and      *)
(* takes its reservation over when it has waited long enough: it cannot    *)
(* tell a slow creator from a dead one.  Path and branch are derived from  *)
(* the ticket, so every reservation of a ticket names the same two.        *)
(***************************************************************************)
EXTENDS Naturals, FiniteSets

CONSTANTS Tickets,     \* approved tickets, dependency-valid
          Rows,        \* the pool of workspace ids: bounds the reservations
          Callers,     \* concurrent createWorkspace / removeWorkspace calls
          MaxTickets,  \* execution.maxConcurrentTickets
          MaxCrashes,  \* how many calls may die half-way
          NoTicket, NoRow

ASSUME TicketsAssumption == IsFiniteSet(Tickets) /\ NoTicket \notin Tickets
ASSUME RowsAssumption    == IsFiniteSet(Rows) /\ NoRow \notin Rows
ASSUME BoundsAssumption  == MaxTickets \in Nat \ {0} /\ MaxCrashes \in Nat

(* ACTIVE stands for ACTIVE_CAPACITY_STATES (PLANNING, IMPLEMENTING,        *)
(* VERIFYING, REPAIRING); HALTED for PAUSED, BLOCKED, FAILED, NEEDS_HUMAN   *)
(* and CANCELLED.                                                           *)
TicketStates == {"ELIGIBLE", "ACTIVE", "PR_OPEN", "HALTED"}

OpenStates == {"CREATING", "READY", "NEEDS_HUMAN"}
RowStates  == {"none", "FAILED", "REMOVED"} \cup OpenStates

(* What is at the ticket's deterministic path.  "clean" is what             *)
(* verifyReadyWorkspace accepts, "partial" a checkout in progress,          *)
(* "committed" a clean tree whose HEAD has left the base commit.            *)
TreeStates == {"absent", "foreign", "partial", "clean", "dirty", "committed"}

VARIABLES
    ticket,   \* SQLite tickets.status
    status,   \* SQLite workspaces.status
    owner,    \* SQLite workspaces.ticket_id
    tree,     \* disk: what is at a ticket's worktree path
    maker,    \* disk: the reservation whose git created it
    branch,   \* git: does the ticket's branch exist
    git,      \* the `git worktree add` a creator started for its row
    pc,       \* a caller's position
    goal,     \* the ticket it was called for
    mine,     \* the row it works on
    crashes   \* calls that died so far

rows  == <<status, owner>>
disk  == <<tree, maker, branch>>
calls == <<pc, goal, mine>>
vars  == <<ticket, rows, disk, git, calls, crashes>>

RowPCs == {"reserved", "adding", "created", "verified", "compensate", "proven",
           "cleanup", "recovering", "recovered", "removing", "removed"}

TypeOK ==
    /\ ticket \in [Tickets -> TicketStates]
    /\ status \in [Rows -> RowStates]
    /\ owner \in [Rows -> Tickets \cup {NoTicket}]
    /\ \A r \in Rows : status[r] # "none" => owner[r] \in Tickets
    /\ tree \in [Tickets -> TreeStates]
    /\ maker \in [Tickets -> Rows \cup {NoRow}]
    /\ branch \in [Tickets -> BOOLEAN]
    /\ git \in [Rows -> {"none", "adding", "checkout", "done", "failed"}]
    /\ \A r \in Rows : git[r] # "none" => status[r] # "none"
    /\ pc \in [Callers -> RowPCs \cup {"idle", "preflight", "checked", "waiting"}]
    /\ goal \in [Callers -> Tickets \cup {NoTicket}]
    /\ \A i \in Callers : pc[i] # "idle" => goal[i] \in Tickets
    /\ mine \in [Callers -> Rows \cup {NoRow}]
    /\ \A i \in Callers :
          pc[i] \in RowPCs =>
              mine[i] \in Rows /\ status[mine[i]] # "none" /\ owner[mine[i]] = goal[i]
    /\ crashes \in 0..MaxCrashes

Init ==
    /\ ticket = [t \in Tickets |-> "ELIGIBLE"]
    /\ status = [r \in Rows |-> "none"]
    /\ owner = [r \in Rows |-> NoTicket]
    /\ tree = [t \in Tickets |-> "absent"]
    /\ maker = [t \in Tickets |-> NoRow]
    /\ branch = [t \in Tickets |-> FALSE]
    /\ git = [r \in Rows |-> "none"]
    /\ pc = [i \in Callers |-> "idle"]
    /\ goal = [i \in Callers |-> NoTicket]
    /\ mine = [i \in Callers |-> NoRow]
    /\ crashes = 0

-----------------------------------------------------------------------------
(* Helpers shared by the handlers. *)

Open(r) == status[r] \in OpenStates

(* findActiveByTicket.                                                      *)
OpenRows(t) == {r \in Rows : Open(r) /\ owner[r] = t}

Goto(i, to) == pc' = [pc EXCEPT ![i] = to] /\ UNCHANGED <<goal, mine>>

Take(i, r, to) ==
    pc' = [pc EXCEPT ![i] = to] /\ mine' = [mine EXCEPT ![i] = r] /\ UNCHANGED goal

(* The call returns or throws.                                              *)
Leave(i) ==
    /\ pc' = [pc EXCEPT ![i] = "idle"]
    /\ goal' = [goal EXCEPT ![i] = NoTicket]
    /\ mine' = [mine EXCEPT ![i] = NoRow]

(* Mutant of Mark: the row is moved from wherever it is.                    *)
MarkAnyway(r, from, to) ==
    /\ status' = [status EXCEPT ![r] = to]
    /\ UNCHANGED owner

(* markWorkspaceStatus: the row is moved only from the expected status; if  *)
(* it has left it, nothing is written.                                      *)
Mark(r, from, to) ==
    /\ status' = IF status[r] = from THEN [status EXCEPT ![r] = to] ELSE status
    /\ UNCHANGED owner

Active == {t \in Tickets : ticket[t] = "ACTIVE"}

(* The reservations a new one has to leave room for: open, and their ticket *)
(* not among those calculateReady counts already.                           *)
Claimed == {r \in Rows : Open(r) /\ owner[r] \notin Active}

(* Mutant of HasCapacity: only the tickets calculateReady counts.           *)
HasReadyCapacity == Cardinality(Active) < MaxTickets

HasCapacity == Cardinality(Active) + Cardinality(Claimed) < MaxTickets

(* finalizeReadyWorkspace: READY and ELIGIBLE -> PLANNING, or neither.      *)
CanFinalize(r) == status[r] = "CREATING" /\ ticket[owner[r]] = "ELIGIBLE"

(* Mutant of FinalizeReady: the ticket's transition is left out.            *)
FinalizeRowOnly(r) ==
    /\ CanFinalize(r)
    /\ status' = [status EXCEPT ![r] = "READY"]
    /\ UNCHANGED <<ticket, owner>>

FinalizeReady(r) ==
    /\ CanFinalize(r)
    /\ status' = [status EXCEPT ![r] = "READY"]
    /\ ticket' = [ticket EXCEPT ![owner[r]] = "ACTIVE"]
    /\ UNCHANGED owner

-----------------------------------------------------------------------------
(* createWorkspace. *)

(* No open row: eligible, dispatchable, and nothing at the path.            *)
Begin(i, t) ==
    /\ pc[i] = "idle"
    /\ OpenRows(t) = {}
    /\ ticket[t] = "ELIGIBLE"
    /\ Cardinality(Active) < MaxTickets
    /\ tree[t] = "absent"
    /\ pc' = [pc EXCEPT ![i] = "preflight"]
    /\ goal' = [goal EXCEPT ![i] = t]
    /\ UNCHANGED <<ticket, rows, disk, git, mine, crashes>>

(* An open row takes precedence: a CREATING one is waited for, a READY one  *)
(* is verified and returned and any other refused, which changes nothing.   *)
BeginExisting(i, t) ==
    /\ pc[i] = "idle"
    /\ \E r \in OpenRows(t) : status[r] = "CREATING"
    /\ pc' = [pc EXCEPT ![i] = "waiting"]
    /\ goal' = [goal EXCEPT ![i] = t]
    /\ UNCHANGED <<ticket, rows, disk, git, mine, crashes>>

(* resolveCommitSha is awaited; an existing branch is never reused.         *)
BranchIsFree(i) ==
    /\ pc[i] = "preflight"
    /\ ~branch[goal[i]]
    /\ Goto(i, "checked")
    /\ UNCHANGED <<ticket, rows, disk, git, crashes>>

BranchRefused(i) ==
    /\ pc[i] = "preflight"
    /\ Leave(i)
    /\ UNCHANGED <<ticket, rows, disk, git, crashes>>

(* reserveWorkspace: admission is proved again inside the transaction, and  *)
(* the unique indexes allow one open row per ticket.                        *)
Reserve(i, r) ==
    /\ pc[i] = "checked"
    /\ status[r] = "none"
    /\ ticket[goal[i]] = "ELIGIBLE"
    /\ HasCapacity
    /\ OpenRows(goal[i]) = {}
    /\ status' = [status EXCEPT ![r] = "CREATING"]
    /\ owner' = [owner EXCEPT ![r] = goal[i]]
    /\ Take(i, r, "reserved")
    /\ UNCHANGED <<ticket, disk, git, crashes>>

(* The race is lost: converge on the winner's reservation.                  *)
ReserveRaced(i) ==
    /\ pc[i] = "checked"
    /\ \E r \in OpenRows(goal[i]) : status[r] = "CREATING"
    /\ Goto(i, "waiting")
    /\ UNCHANGED <<ticket, rows, disk, git, crashes>>

(* Not admitted any more, or the winner's row is READY or NEEDS_HUMAN.      *)
ReserveRefused(i) ==
    /\ pc[i] = "checked"
    /\ Leave(i)
    /\ UNCHANGED <<ticket, rows, disk, git, crashes>>

(* The last look at the path, then `git worktree add -b`.                   *)
AddWorktree(i) ==
    /\ pc[i] = "reserved"
    /\ tree[goal[i]] = "absent"
    /\ git' = [git EXCEPT ![mine[i]] = "adding"]
    /\ Goto(i, "adding")
    /\ UNCHANGED <<ticket, rows, disk, crashes>>

(* A path appeared, the repository changed, or git answered with an error:  *)
(* nothing is deleted.                                                      *)
CreationFails(i) ==
    /\ \/ pc[i] = "reserved"
       \/ pc[i] = "adding" /\ git[mine[i]] = "failed"
    /\ Mark(mine[i], "CREATING", "FAILED")
    /\ Leave(i)
    /\ UNCHANGED <<ticket, disk, git, crashes>>

Created(i) ==
    /\ pc[i] = "adding"
    /\ git[mine[i]] = "done"
    /\ Goto(i, "created")
    /\ UNCHANGED <<ticket, rows, disk, git, crashes>>

(* verifyReadyWorkspace.                                                    *)
Verify(i) ==
    /\ pc[i] = "created"
    /\ tree[goal[i]] = "clean"
    /\ Goto(i, "verified")
    /\ UNCHANGED <<ticket, rows, disk, git, crashes>>

Finalize(i) ==
    /\ pc[i] = "verified"
    /\ FinalizeReady(mine[i])
    /\ Leave(i)
    /\ UNCHANGED <<disk, git, crashes>>

(* The proof or the commit fails, for its own reason or another (a git      *)
(* command that fails, a busy database).                                    *)
AfterCreationFails(i) ==
    /\ pc[i] \in {"created", "verified"}
    /\ Goto(i, "compensate")
    /\ UNCHANGED <<ticket, rows, disk, git, crashes>>

(* compensateCreation: prove the worktree first, ...                        *)
ProveOurs(i) ==
    /\ pc[i] = "compensate"
    /\ tree[goal[i]] = "clean"
    /\ Goto(i, "proven")
    /\ UNCHANGED <<ticket, rows, disk, git, crashes>>

Unproven(i) ==
    /\ pc[i] = "compensate"
    /\ Mark(mine[i], "CREATING", "NEEDS_HUMAN")
    /\ Leave(i)
    /\ UNCHANGED <<ticket, disk, git, crashes>>

(* ... then claim the right to delete it, ...                               *)
Claim(i) ==
    /\ pc[i] = "proven"
    /\ status[mine[i]] = "CREATING"
    /\ Mark(mine[i], "CREATING", "FAILED")
    /\ Goto(i, "cleanup")
    /\ UNCHANGED <<ticket, disk, git, crashes>>

ClaimLost(i) ==
    /\ pc[i] = "proven"
    /\ status[mine[i]] # "CREATING"
    /\ Leave(i)
    /\ UNCHANGED <<ticket, rows, disk, git, crashes>>

(* `git worktree remove` deletes a registered worktree with nothing         *)
(* uncommitted in it and refuses everything else; the branch stays.         *)
GitRemoves(t) ==
    /\ tree[t] \in {"clean", "committed"}
    /\ tree' = [tree EXCEPT ![t] = "absent"]
    /\ maker' = [maker EXCEPT ![t] = NoRow]
    /\ UNCHANGED branch

(* ... and delete it, whoever's it is by then.                              *)
Cleanup(i) ==
    /\ pc[i] = "cleanup"
    /\ GitRemoves(goal[i])
    /\ Leave(i)
    /\ UNCHANGED <<ticket, rows, git, crashes>>

CleanupFails(i) ==
    /\ pc[i] = "cleanup"
    /\ Leave(i)
    /\ UNCHANGED <<ticket, rows, disk, git, crashes>>

-----------------------------------------------------------------------------
(* Another creator's reservation: waitForActiveResolution re-reads the open *)
(* row of the ticket, which need not be the row it started to wait for.     *)

WaitEnds(i) ==
    /\ pc[i] = "waiting"
    /\ \A r \in OpenRows(goal[i]) : status[r] # "CREATING"
    /\ Leave(i)
    /\ UNCHANGED <<ticket, rows, disk, git, crashes>>

(* Mutant of WaitTimesOut: the row it found is not handed on.               *)
WaitTimesOutEmptyHanded(i) ==
    /\ pc[i] = "waiting"
    /\ \E r \in OpenRows(goal[i]) : status[r] = "CREATING"
    /\ Goto(i, "recovering")
    /\ UNCHANGED <<ticket, rows, disk, git, crashes>>

WaitTimesOut(i) ==
    /\ pc[i] = "waiting"
    /\ \E r \in OpenRows(goal[i]) : status[r] = "CREATING" /\ Take(i, r, "recovering")
    /\ UNCHANGED <<ticket, rows, disk, git, crashes>>

(* recoverCreatingReservation.                                              *)
RecoverVerify(i) ==
    /\ pc[i] = "recovering"
    /\ tree[goal[i]] = "clean"
    /\ Goto(i, "recovered")
    /\ UNCHANGED <<ticket, rows, disk, git, crashes>>

RecoverFinalize(i) ==
    /\ pc[i] = "recovered"
    /\ FinalizeReady(mine[i])
    /\ Leave(i)
    /\ UNCHANGED <<disk, git, crashes>>

(* Mutant of RecoverFails: the stale reservation is only reported.          *)
RecoverFailsUnmarked(i) ==
    /\ pc[i] \in {"recovering", "recovered"}
    /\ Leave(i)
    /\ UNCHANGED <<ticket, rows, disk, git, crashes>>

RecoverFails(i) ==
    /\ pc[i] \in {"recovering", "recovered"}
    /\ Mark(mine[i], "CREATING", "NEEDS_HUMAN")
    /\ Leave(i)
    /\ UNCHANGED <<ticket, disk, git, crashes>>

-----------------------------------------------------------------------------
(* removeWorkspace: git first, SQLite second. *)

BeginRemove(i, t) ==
    /\ pc[i] = "idle"
    /\ \E r \in OpenRows(t) :
          /\ status[r] = "READY"
          /\ mine' = [mine EXCEPT ![i] = r]
    /\ pc' = [pc EXCEPT ![i] = "removing"]
    /\ goal' = [goal EXCEPT ![i] = t]
    /\ UNCHANGED <<ticket, rows, disk, git, crashes>>

RemoveTree(i) ==
    /\ pc[i] = "removing"
    /\ GitRemoves(goal[i])
    /\ Goto(i, "removed")
    /\ UNCHANGED <<ticket, rows, git, crashes>>

RemoveRefused(i) ==
    /\ pc[i] = "removing"
    /\ Leave(i)
    /\ UNCHANGED <<ticket, rows, disk, git, crashes>>

RecordRemoval(i) ==
    /\ pc[i] = "removed"
    /\ Mark(mine[i], "READY", "REMOVED")
    /\ Leave(i)
    /\ UNCHANGED <<ticket, disk, git, crashes>>

-----------------------------------------------------------------------------
(* Git itself, agents and people. *)

(* `git worktree add` registers branch and worktree, then checks out; its   *)
(* creator may be dead by then.                                             *)
GitRegisters(r) ==
    LET t == owner[r]
    IN  /\ git[r] = "adding"
        /\ ~branch[t] /\ tree[t] = "absent"
        /\ git' = [git EXCEPT ![r] = "checkout"]
        /\ tree' = [tree EXCEPT ![t] = "partial"]
        /\ maker' = [maker EXCEPT ![t] = r]
        /\ branch' = [branch EXCEPT ![t] = TRUE]
        /\ UNCHANGED <<ticket, rows, calls, crashes>>

GitChecksOut(r) ==
    LET t == owner[r]
    IN  /\ git[r] = "checkout"
        /\ git' = [git EXCEPT ![r] = "done"]
        /\ tree' = [tree EXCEPT ![t] = IF @ = "partial" THEN "clean" ELSE @]
        /\ UNCHANGED <<ticket, rows, maker, branch, calls, crashes>>

(* An error, or the timeout of the runner.  Git takes back an unfinished    *)
(* worktree, not the branch, unless it is killed before it can; and it may  *)
(* be killed when the worktree is finished.                                 *)
GitFails(r) ==
    LET t == owner[r]
        unfinished == git[r] = "checkout" /\ tree[t] = "partial"
    IN  /\ git[r] \in {"adding", "checkout"}
        /\ git' = [git EXCEPT ![r] = "failed"]
        /\ \/ UNCHANGED <<tree, maker>>
           \/ /\ unfinished
              /\ tree' = [tree EXCEPT ![t] = "absent"]
              /\ maker' = [maker EXCEPT ![t] = NoRow]
           \/ /\ unfinished
              /\ tree' = [tree EXCEPT ![t] = "clean"]
              /\ UNCHANGED maker
        /\ UNCHANGED <<ticket, rows, branch, calls, crashes>>

(* A worktree is an ordinary directory: it gets work, which gets committed. *)
Work(t) ==
    /\ \/ tree[t] \in {"clean", "committed"} /\ tree' = [tree EXCEPT ![t] = "dirty"]
       \/ tree[t] = "dirty" /\ tree' = [tree EXCEPT ![t] = "committed"]
    /\ UNCHANGED <<ticket, rows, maker, branch, git, calls, crashes>>

Plant(t) ==
    /\ tree[t] = "absent"
    /\ tree' = [tree EXCEPT ![t] = "foreign"]
    /\ UNCHANGED <<ticket, rows, maker, branch, git, calls, crashes>>

(* The ticket moves on, to its pull request or out of the flow.  No code    *)
(* brings it back to ELIGIBLE.                                              *)
Submit(t) ==
    /\ ticket[t] = "ACTIVE"
    /\ ticket' = [ticket EXCEPT ![t] = "PR_OPEN"]
    /\ UNCHANGED <<rows, disk, git, calls, crashes>>

Halt(t) ==
    /\ ticket[t] \in {"ELIGIBLE", "ACTIVE"}
    /\ ticket' = [ticket EXCEPT ![t] = "HALTED"]
    /\ UNCHANGED <<rows, disk, git, calls, crashes>>

Crash(i) ==
    /\ pc[i] # "idle"
    /\ crashes < MaxCrashes
    /\ crashes' = crashes + 1
    /\ Leave(i)
    /\ UNCHANGED <<ticket, rows, disk, git>>

InCall(i) ==
    \/ \E r \in Rows : Reserve(i, r)
    \/ BranchIsFree(i)   \/ BranchRefused(i) \/ ReserveRaced(i)
    \/ ReserveRefused(i) \/ AddWorktree(i)   \/ CreationFails(i)
    \/ Created(i)        \/ Verify(i)        \/ Finalize(i)
    \/ AfterCreationFails(i) \/ ProveOurs(i) \/ Unproven(i)
    \/ Claim(i)          \/ ClaimLost(i)     \/ Cleanup(i)
    \/ CleanupFails(i)   \/ WaitEnds(i)      \/ WaitTimesOut(i)
    \/ RecoverVerify(i)  \/ RecoverFinalize(i) \/ RecoverFails(i)
    \/ RemoveTree(i)     \/ RemoveRefused(i) \/ RecordRemoval(i)

BeginCall(i) ==
    \E t \in Tickets : Begin(i, t) \/ BeginExisting(i, t) \/ BeginRemove(i, t)

Next ==
    \/ \E i \in Callers : BeginCall(i) \/ InCall(i) \/ Crash(i)
    \/ \E r \in Rows : GitRegisters(r) \/ GitChecksOut(r) \/ GitFails(r)
    \/ \E t \in Tickets : Work(t) \/ Plant(t) \/ Submit(t) \/ Halt(t)

Spec == Init /\ [][Next]_vars

(* Git is killed by the runner's timeout and the wait for another creator   *)
(* has a deadline, so a call that does not die goes on; and somebody        *)
(* creates the workspace of a CREATING row again (EXEC-001 does whenever    *)
(* it is driven for an ELIGIBLE ticket).                                    *)
CallFairness ==
    /\ \A i \in Callers : WF_vars(InCall(i))
    /\ \A r \in Rows : WF_vars(GitRegisters(r) \/ GitChecksOut(r) \/ GitFails(r))

RetryFairness ==
    \A t \in Tickets : SF_vars(\E i \in Callers : BeginExisting(i, t))

FairSpec == Spec /\ CallFairness /\ RetryFairness

-----------------------------------------------------------------------------
(* Safety. *)

(* Every ticket that counts against maxConcurrentTickets: executing, or     *)
(* holding a reservation that is not removed.                               *)
Load == {t \in Tickets : ticket[t] = "ACTIVE" \/ OpenRows(t) # {}}

(* Concurrent creators of different tickets never admit more tickets than   *)
(* the configured limit, although each looks long before it reserves, and   *)
(* the tickets and rows it counts keep changing                             *)
(* (assertDispatchableAndClaimCapacityInTx).                                *)
WithinCapacity == Cardinality(Load) <= MaxTickets

(* READY and PLANNING are one commit, whoever makes it: a ticket is past    *)
(* admission exactly when a reservation of its own was made READY, even if  *)
(* a creator and a recoverer finish the same reservation                    *)
(* (finalizeReadyWorkspace).                                                *)
AdmittedTogether ==
    /\ \A t \in Tickets :
          ticket[t] \in {"ACTIVE", "PR_OPEN"} =>
              \E r \in Rows : owner[r] = t /\ status[r] \in {"READY", "REMOVED"}
    /\ \A r \in Rows : status[r] \in {"READY", "REMOVED"} => ticket[owner[r]] # "ELIGIBLE"

(* A creator that loses its reservation to a recoverer cannot take READY    *)
(* back, whether it fails, compensates or escalates; only an operator's     *)
(* removal ends a READY reservation, and nothing ends a terminal one        *)
(* (markWorkspaceStatus's expected status).                                 *)
ReadyIsKept ==
    [][\A r \in Rows :
          /\ status[r] = "READY" => status'[r] \in {"READY", "REMOVED"}
          /\ status[r] \in {"FAILED", "REMOVED", "NEEDS_HUMAN"} => status'[r] = status[r]]_vars

(* Liveness: no reservation stays CREATING for ever, whether its creator    *)
(* lives, is slow, or dies at any step: it finishes, or the next creator    *)
(* finishes or escalates it (recoverCreatingReservation).                   *)
ReservationResolves == \A r \in Rows : status[r] = "CREATING" ~> status[r] # "CREATING"

-----------------------------------------------------------------------------
(* What comments and docs say and the code does not ensure. *)

(* compensateCreation: "deletion follows the winning claim, at which point  *)
(* no other process can finalize anymore"; a reservation that was finalized *)
(* keeps its worktree until an operator removes it.                         *)
CleanupSparesReady ==
    [][\A t \in Tickets :
          /\ \E r \in OpenRows(t) : status[r] = "READY"
          /\ tree[t] # "absent" /\ tree'[t] = "absent"
          => \E i \in Callers : pc[i] = "removing" /\ pc'[i] = "removed"]_vars
=============================================================================
