------------------------------ MODULE Handoff -------------------------------
(***************************************************************************)
(* KAR-8: from a ready candidate to one pull request with one usage        *)
(* receipt (src/src/github/service.ts), and what executeTicket makes of a  *)
(* handoff that fails (src/src/execution/ticket.ts).                       *)
(*                                                                         *)
(* Nothing here is a transaction: the candidate is in a worktree, the      *)
(* branch on a remote, the pull request and its comments on GitHub, the    *)
(* evidence in SQLite.  A call that died is repeated from the start, and   *)
(* finds what the dead one left by looking for it.  Meanwhile the worktree *)
(* may move, a human may push to the branch or close the pull request, and *)
(* the telemetry the receipt is made of changes with every other run.      *)
(*                                                                         *)
(* One ticket, one execution, one contract revision.  A commit is a        *)
(* number, and descends from the smaller ones.  One action is one answer   *)
(* of git, GitHub or SQLite, and what the call does with it.               *)
(***************************************************************************)
EXTENDS Naturals, Sequences, FiniteSets

CONSTANTS Callers,     \* processes that execute the ticket
          MaxSha,      \* commits of the branch
          MaxFaults,   \* crashes and lost replies
          MaxChanges   \* changes by somebody else

ASSUME CallersAssumption == IsFiniteSet(Callers)
ASSUME BoundsAssumption ==
    /\ MaxSha \in Nat \ {0}
    /\ MaxFaults \in Nat /\ MaxChanges \in Nat

Shas  == 1..MaxSha
NoSha == 0
States == {"OPEN", "CLOSED", "MERGED"}

(* What GitHub names a comment by: the number its REST answers carry, or    *)
(* the node identity of its GraphQL listings.                               *)
Names == {"number", "node"}

VARIABLES
    head,      \* the worktree's HEAD
    clean,     \* nothing uncommitted in the worktree
    ready,     \* commits whose readiness PASS, and all it refers to, stands
    ticket,    \* SQLite tickets.status
    branch,    \* the ticket's branch on the remote
    prs,       \* GitHub: the branch's pull requests, by number; was: the
               \* commits one has been at so far
    comments,  \* GitHub: receipts posted on them
    telemetry, \* SQLite usage, health and routing: what a receipt shows
    recorded,  \* SQLite github.pr_recorded
    receipted, \* SQLite github.usage_receipt_recorded
    terminal,  \* SQLite execution.terminal
    call,      \* a process's executeTicket
    listing,   \* what this gh names listed comments by: it never changes
    faults, lost, changes,
    overlapped \* two calls were under way at once

worktree == <<head, clean>>
github   == <<branch, prs, comments>>
sqlite   == <<ticket, recorded, receipted, terminal>>
world    == <<ready, telemetry, listing, faults, lost, changes, overlapped>>
vars     == <<worktree, github, sqlite, call, world>>

Positions ==
    {"idle", "revalidate", "prove", "lookup", "push", "reread", "reprove", "find", "create",
     "inspect", "evidence", "append", "receipts", "comments", "post", "receipt", "open",
     "record", "failed", "human"}

(* recovering: called by recoverOpenPullRequest; persisted: the receipt     *)
(* evidence found before the comments were listed, or 0; named: what the    *)
(* identity of that comment, or of the call's own, is written as.           *)
Calls == [at : Positions, recovering : BOOLEAN, sha : Shas \cup {NoSha}, shows : 0..MaxChanges,
          pr : Nat, persisted : Nat, comment : Nat, named : Names]

Idle == [at |-> "idle", recovering |-> FALSE, sha |-> NoSha, shows |-> 0,
         pr |-> 0, persisted |-> 0, comment |-> 0, named |-> "number"]

Receipts == [pr : Nat, sha : Shas, shows : 0..MaxChanges]

TypeOK ==
    /\ head \in Shas /\ clean \in BOOLEAN /\ ready \in SUBSET Shas
    /\ ticket \in {"VERIFYING", "PR_OPEN", "NEEDS_HUMAN", "PAUSED"}
    /\ branch \in Shas \cup {NoSha}
    /\ prs \in Seq([state : States, sha : Shas, was : SUBSET Shas])
    /\ comments \in Seq(Receipts)
    /\ recorded \in Seq([pr : DOMAIN prs, sha : Shas])
    /\ receipted \in Seq([pr : DOMAIN prs, sha : Shas, comment : DOMAIN comments, named : Names])
    /\ terminal \in {"none", "PR_RAISED", "NEEDS_HUMAN"}
    /\ call \in [Callers -> Calls]
    /\ listing \in Names
    /\ telemetry \in 0..MaxChanges /\ changes \in 0..MaxChanges /\ telemetry <= changes
    /\ faults \in 0..MaxFaults /\ lost \in BOOLEAN /\ overlapped \in BOOLEAN

Init ==
    /\ head = 1 /\ clean = TRUE /\ ready \in {r \in SUBSET Shas : 1 \in r}
    /\ ticket = "VERIFYING"
    /\ branch = NoSha /\ prs = <<>> /\ comments = <<>>
    /\ recorded = <<>> /\ receipted = <<>> /\ terminal = "none"
    /\ call = [c \in Callers |-> Idle]
    /\ listing \in Names
    /\ telemetry = 0 /\ changes = 0 /\ faults = 0 /\ lost = FALSE /\ overlapped = FALSE

At(c, place) == call[c].at = place
Goto(c, place) == call' = [call EXCEPT ![c].at = place]
Throw(c) == call' = [call EXCEPT ![c] = [Idle EXCEPT !.at = "failed", !.recovering = call[c].recovering]]
Leave(c) == call' = [call EXCEPT ![c] = Idle]

(* A push to the branch moves its open pull request.                        *)
Moved(s) ==
    [n \in DOMAIN prs |->
        IF prs[n].state = "OPEN" THEN [prs[n] EXCEPT !.sha = s, !.was = @ \cup {s}] ELSE prs[n]]

-----------------------------------------------------------------------------
(* executeTicket, around the handoff. *)

Start(c) ==
    /\ At(c, "idle")
    /\ terminal = "none" /\ ticket \in {"VERIFYING", "PR_OPEN"}
    /\ call' = [call EXCEPT ![c].at = IF ticket = "PR_OPEN" THEN "prove" ELSE "revalidate",
                            ![c].recovering = (ticket = "PR_OPEN")]
    /\ overlapped' = (overlapped \/ \E d \in Callers \ {c} : ~At(d, "idle"))
    /\ UNCHANGED <<worktree, github, sqlite, ready, telemetry, listing, faults, lost, changes>>

(* getCurrentPrePrReadinessEvidence of the worktree as it is now.           *)
Ready == clean /\ head \in ready

(* The PASS executeTicket just recorded may no longer be the worktree's:    *)
(* that ends the execution, whatever a dead call left on GitHub.            *)
Revalidate(c) ==
    /\ At(c, "revalidate")
    /\ Goto(c, IF terminal # "none" THEN "idle"
               ELSE IF Ready /\ ticket = "VERIFYING" THEN "prove" ELSE "human")
    /\ UNCHANGED <<worktree, github, sqlite, world>>

(* A throw: with evidence of a pull request the handoff is tried once more, *)
(* by recoverOpenPullRequest, whose own failure ends the execution.         *)
Catch(c) ==
    /\ At(c, "failed")
    /\ call' = IF recorded # <<>> /\ ~call[c].recovering
               THEN [call EXCEPT ![c] = [Idle EXCEPT !.at = "prove", !.recovering = TRUE]]
               ELSE [call EXCEPT ![c].at = "human"]
    /\ UNCHANGED <<worktree, github, sqlite, world>>

(* terminalize NEEDS_HUMAN: the first terminal evidence stands, but the     *)
(* ticket moves all the same, and once more if it was NEEDS_HUMAN already.  *)
Terminalize(c) ==
    /\ At(c, "human")
    /\ terminal' = IF terminal = "none" THEN "NEEDS_HUMAN" ELSE terminal
    /\ ticket' = CASE ticket \in {"VERIFYING", "PR_OPEN"} -> "NEEDS_HUMAN"
                   [] ticket = "NEEDS_HUMAN" /\ terminal' = "NEEDS_HUMAN" -> "PAUSED"
                   [] OTHER -> ticket
    /\ Leave(c)
    /\ UNCHANGED <<worktree, github, recorded, receipted, world>>

(* appendTerminal PR_RAISED.                                                *)
Record(c) ==
    /\ At(c, "record")
    /\ terminal' = IF terminal = "none" THEN "PR_RAISED" ELSE terminal
    /\ Leave(c)
    /\ UNCHANGED <<worktree, github, ticket, recorded, receipted, world>>

-----------------------------------------------------------------------------
(* createGitHubPullRequest: the branch. *)

(* assertCurrentReadyCandidate, as of its last look at the worktree.        *)
Candidate == Ready /\ ticket \in {"VERIFYING", "PR_OPEN"}

Prove(c) ==
    /\ At(c, "prove")
    /\ IF Candidate
       THEN call' = [call EXCEPT ![c].at = "lookup", ![c].sha = head]
       ELSE Throw(c)
    /\ UNCHANGED <<worktree, github, sqlite, world>>

Lookup(c) ==
    /\ At(c, "lookup")
    /\ CASE branch = NoSha       -> Goto(c, "push")
         [] branch = call[c].sha -> Goto(c, "reprove")
         [] OTHER                -> Throw(c)
    /\ UNCHANGED <<worktree, github, sqlite, world>>

(* pushExactCommit: never forced, so a branch somebody else put there since *)
(* only moves forward.                                                      *)
Push(c) ==
    /\ At(c, "push")
    /\ IF branch <= call[c].sha
       THEN /\ branch' = call[c].sha
            /\ prs' = Moved(call[c].sha)
            /\ \/ Goto(c, "reread") /\ UNCHANGED <<faults, lost>>
               \/ /\ faults < MaxFaults /\ faults' = faults + 1 /\ lost' = TRUE
                  /\ Throw(c)
       ELSE Throw(c) /\ UNCHANGED <<branch, prs, faults, lost>>
    /\ UNCHANGED <<worktree, comments, sqlite, ready, telemetry, listing, changes, overlapped>>

Reread(c) ==
    /\ At(c, "reread")
    /\ IF branch = call[c].sha THEN Goto(c, "reprove") ELSE Throw(c)
    /\ UNCHANGED <<worktree, github, sqlite, world>>

(* The second proof, against the branch as it was last read, and the        *)
(* receipt of this moment.                                                  *)
Reprove(c) ==
    /\ At(c, "reprove")
    /\ IF Candidate /\ head = call[c].sha
       THEN call' = [call EXCEPT ![c].at = "find", ![c].shows = telemetry]
       ELSE Throw(c)
    /\ UNCHANGED <<worktree, github, sqlite, world>>

-----------------------------------------------------------------------------
(* createGitHubPullRequest: the pull request. *)

OpenAt(n, s) == prs[n].state = "OPEN" /\ prs[n].sha = s

(* Mutant of Find: a pull request that is there is somebody else's.         *)
FindOrRefuse(c) ==
    /\ At(c, "find")
    /\ IF prs = <<>> THEN Goto(c, "create") ELSE Throw(c)
    /\ UNCHANGED <<worktree, github, sqlite, world>>

(* findOrCreatePullRequest: there is one of any state, or none.             *)
Find(c) ==
    /\ At(c, "find")
    /\ CASE prs = <<>> -> Goto(c, "create")
         [] Len(prs) = 1 /\ OpenAt(1, call[c].sha) ->
               call' = [call EXCEPT ![c].at = "inspect", ![c].pr = 1]
         [] OTHER -> Throw(c)
    /\ UNCHANGED <<worktree, github, sqlite, world>>

(* GitHub opens it at whatever the branch is by then, and refuses a second  *)
(* open one for the same branch.                                            *)
Create(c) ==
    /\ At(c, "create")
    /\ IF \A n \in DOMAIN prs : prs[n].state # "OPEN"
       THEN /\ prs' = Append(prs, [state |-> "OPEN", sha |-> branch, was |-> {branch}])
            /\ \/ /\ call' = [call EXCEPT ![c].at = "inspect", ![c].pr = Len(prs')]
                  /\ UNCHANGED <<faults, lost>>
               \/ /\ faults < MaxFaults /\ faults' = faults + 1 /\ lost' = TRUE
                  /\ Throw(c)
       ELSE Throw(c) /\ UNCHANGED <<prs, faults, lost>>
    /\ UNCHANGED <<worktree, branch, comments, sqlite, ready, telemetry, listing, changes, overlapped>>

(* Mutant of Inspect: open is enough.                                       *)
InspectState(c) ==
    /\ At(c, "inspect")
    /\ IF prs[call[c].pr].state = "OPEN" THEN Goto(c, "evidence") ELSE Throw(c)
    /\ UNCHANGED <<worktree, github, sqlite, world>>

(* proveOpenPullRequest.                                                    *)
Inspect(c) ==
    /\ At(c, "inspect")
    /\ IF OpenAt(call[c].pr, call[c].sha) THEN Goto(c, "evidence") ELSE Throw(c)
    /\ UNCHANGED <<worktree, github, sqlite, world>>

(* persistPrEvidence: it reads, and appends afterwards.                     *)
Evidence(c) == [pr |-> call[c].pr, sha |-> call[c].sha]

FindEvidence(c) ==
    /\ At(c, "evidence")
    /\ CASE recorded = <<>>            -> Goto(c, "append")
         [] recorded = <<Evidence(c)>> -> Goto(c, "receipts")
         [] OTHER                      -> Throw(c)
    /\ UNCHANGED <<worktree, github, sqlite, world>>

AppendEvidence(c) ==
    /\ At(c, "append")
    /\ recorded' = Append(recorded, Evidence(c))
    /\ Goto(c, "receipts")
    /\ UNCHANGED <<worktree, github, ticket, receipted, terminal, world>>

-----------------------------------------------------------------------------
(* createGitHubPullRequest: the receipt. *)

(* ensureUsageReceipt, before the comments are listed.                      *)
FindReceipt(c) ==
    LET matching(i) == receipted[i].pr = call[c].pr /\ receipted[i].sha = call[c].sha
    IN  /\ At(c, "receipts")
        /\ IF Len(receipted) <= 1 /\ \A i \in DOMAIN receipted : matching(i)
           THEN call' = [call EXCEPT ![c].at = "comments",
                   ![c].persisted = IF receipted = <<>> THEN 0 ELSE receipted[1].comment,
                   ![c].named = IF receipted = <<>> THEN @ ELSE receipted[1].named]
           ELSE Throw(c)
        /\ UNCHANGED <<worktree, github, sqlite, world>>

Receipt(c) == [pr |-> call[c].pr, sha |-> call[c].sha, shows |-> call[c].shows]

(* The receipts on the pull request, by their positions.                    *)
Posted(c) == {i \in DOMAIN comments : comments[i].pr = call[c].pr}

(* Mutant of ListComments: what is on the pull request is not looked at.    *)
ListNothing(c) ==
    /\ At(c, "comments")
    /\ Goto(c, IF call[c].persisted = 0 THEN "post" ELSE "open")
    /\ UNCHANGED <<worktree, github, sqlite, world>>

(* Mutant of Post: the comment GitHub answers with is not kept.             *)
PostBlind(c) ==
    /\ At(c, "post")
    /\ comments' = Append(comments, Receipt(c))
    /\ Goto(c, "receipt")
    /\ UNCHANGED <<worktree, branch, prs, sqlite, world>>

(* findCurrentReceipt: a receipt of this ticket is this very receipt or it  *)
(* is in conflict with it.  Evidence of a receipt is confirmed by the       *)
(* identity of its comment: a listing that names comments otherwise than    *)
(* the answer it was taken from confirms nothing.                           *)
ListComments(c) ==
    LET current == IF Posted(c) = {} THEN 0 ELSE CHOOSE i \in Posted(c) : TRUE
    IN  /\ At(c, "comments")
        /\ IF \/ \E i \in Posted(c) : comments[i] # Receipt(c)
              \/ Cardinality(Posted(c)) > 1
              \/ call[c].persisted # 0 /\
                    (call[c].persisted # current \/ call[c].named # listing)
           THEN Throw(c)
           ELSE call' = [call EXCEPT ![c].comment = current, ![c].named = listing,
                            ![c].at = IF call[c].persisted # 0 THEN "open"
                                      ELSE IF current # 0 THEN "receipt" ELSE "post"]
        /\ UNCHANGED <<worktree, github, sqlite, world>>

Post(c) ==
    /\ At(c, "post")
    /\ comments' = Append(comments, Receipt(c))
    /\ \/ /\ call' = [call EXCEPT ![c].at = "receipt", ![c].comment = Len(comments'),
                            ![c].named = "number"]
          /\ UNCHANGED <<faults, lost>>
       \/ /\ faults < MaxFaults /\ faults' = faults + 1 /\ lost' = TRUE
          /\ Throw(c)
    /\ UNCHANGED <<worktree, branch, prs, sqlite, ready, telemetry, listing, changes, overlapped>>

AppendReceipt(c) ==
    /\ At(c, "receipt")
    /\ receipted' = Append(receipted,
           [pr |-> call[c].pr, sha |-> call[c].sha,
            comment |-> call[c].comment, named |-> call[c].named])
    /\ Goto(c, "open")
    /\ UNCHANGED <<worktree, github, ticket, recorded, terminal, world>>

(* Only VERIFYING may become PR_OPEN.                                       *)
OpenTicket(c) ==
    /\ At(c, "open")
    /\ CASE ticket = "PR_OPEN"   -> Goto(c, "record") /\ UNCHANGED ticket
         [] ticket = "VERIFYING" -> Goto(c, "record") /\ ticket' = "PR_OPEN"
         [] OTHER                -> Throw(c) /\ UNCHANGED ticket
    /\ UNCHANGED <<worktree, github, recorded, receipted, terminal, world>>

-----------------------------------------------------------------------------
(* What happens to a call, and around it. *)

Crash(c) ==
    /\ ~At(c, "idle") /\ faults < MaxFaults
    /\ Leave(c)
    /\ faults' = faults + 1
    /\ UNCHANGED <<worktree, github, sqlite, ready, telemetry, listing, lost, changes, overlapped>>

(* Somebody works in the worktree; pushes to the branch; closes or merges   *)
(* the pull request; another run changes usage, health or routing.          *)
MoveWorktree ==
    /\ head' \in Shas /\ clean' \in BOOLEAN
    /\ UNCHANGED <<github, telemetry>>

PushForeign ==
    /\ branch # NoSha
    /\ \E s \in Shas : s > branch /\ branch' = s
    /\ prs' = Moved(branch')
    /\ UNCHANGED <<worktree, comments, telemetry>>

EndPullRequest ==
    /\ \E n \in DOMAIN prs, s \in States \ {"OPEN"} :
          prs[n].state = "OPEN" /\ prs' = [prs EXCEPT ![n].state = s]
    /\ UNCHANGED <<worktree, branch, comments, telemetry>>

ChangeTelemetry ==
    /\ telemetry' = telemetry + 1
    /\ UNCHANGED <<worktree, github>>

Change ==
    /\ changes < MaxChanges
    /\ changes' = changes + 1
    /\ MoveWorktree \/ PushForeign \/ EndPullRequest \/ ChangeTelemetry
    /\ UNCHANGED <<sqlite, call, ready, listing, faults, lost, overlapped>>

Step(c) ==
    \/ Revalidate(c) \/ Catch(c) \/ Terminalize(c) \/ Record(c)
    \/ Prove(c) \/ Lookup(c) \/ Push(c) \/ Reread(c) \/ Reprove(c)
    \/ Find(c) \/ Create(c) \/ Inspect(c) \/ FindEvidence(c) \/ AppendEvidence(c)
    \/ FindReceipt(c) \/ ListComments(c) \/ Post(c) \/ AppendReceipt(c) \/ OpenTicket(c)

Next == (\E c \in Callers : Start(c) \/ Step(c) \/ Crash(c)) \/ Change

Spec == Init /\ [][Next]_vars

(* A call that is not crashed goes on, and a dead one is repeated: KAR-13   *)
(* drives a claim without terminal evidence again.                          *)
FairSpec == Spec /\ \A c \in Callers : WF_vars(Step(c)) /\ WF_vars(Start(c))

-----------------------------------------------------------------------------
(* Properties. *)

(* A ticket is PR_OPEN, or its execution PR_RAISED, only with evidence of a *)
(* ready commit the pull request has really been at, and of one receipt of  *)
(* that very commit on that pull request, however calls overlap and whoever *)
(* else pushes or moves the worktree (the order of createGitHubPullRequest's*)
(* proofs and writes).                                                      *)
RaisedIsProven ==
    ticket = "PR_OPEN" \/ terminal = "PR_RAISED" =>
        \E i \in DOMAIN recorded, j \in DOMAIN receipted :
            LET e == recorded[i]
                r == receipted[j]
            IN  /\ e.sha \in ready /\ e.sha \in prs[e.pr].was
                /\ r.pr = e.pr /\ r.sha = e.sha
                /\ comments[r.comment].pr = e.pr /\ comments[r.comment].sha = e.sha

(* Calls that die or lose an answer anywhere, and are repeated one after    *)
(* the other, publish one pull request, one receipt and one evidence of     *)
(* each: "looking up the deterministic branch/receipt instead of creating   *)
(* duplicates" (createGitHubPullRequest).                                   *)
NothingTwice ==
    ~overlapped => /\ Len(prs) <= 1 /\ Len(comments) <= 1
                   /\ Len(recorded) <= 1 /\ Len(receipted) <= 1

(* Calls that die anywhere end in PR_RAISED once one of them is let finish, *)
(* as long as GitHub's answers arrive, nobody changes what the handoff      *)
(* looks at, and no receipt is recorded by a number while listings name     *)
(* comments by node (createGitHubPullRequest, GitHubAdapter.listComments).  *)
CrashesAreRecovered ==
    LET unconfirmable == \E i \in DOMAIN receipted : receipted[i].named # listing
    IN  <>(terminal = "PR_RAISED") \/ <>(lost \/ changes > 0 \/ overlapped \/ unconfirmable)
=============================================================================
