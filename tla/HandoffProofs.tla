--------------------------- MODULE HandoffProofs ----------------------------
(***************************************************************************)
(* Theorems about Handoff: for any number of processes, commits, faults    *)
(* and changes by others.                                                  *)
(*                                                                         *)
(* A call carries what it has proven so far in its position (CallProven).  *)
(* Nothing that is written is ever taken back (Grows), so what a call has  *)
(* proven stays proven, whatever the others do.                            *)
(***************************************************************************)
EXTENDS Handoff, SequenceTheorems, FiniteSetTheorems, TLAPS

(* Positions, by what a call has behind it when it is there.                *)
Receipted == {"open", "record"}
Evidenced == {"receipts", "comments", "post", "receipt"} \cup Receipted
Inspected == {"evidence", "append"} \cup Evidenced
Opened    == {"inspect"} \cup Inspected
Pushed    == {"reread", "reprove", "find", "create"} \cup Opened
Proved    == {"lookup", "push"} \cup Pushed

HasEvidence(c) == \E i \in DOMAIN recorded : recorded[i] = Evidence(c)

HasReceipt(c) ==
    \E j \in DOMAIN receipted :
        receipted[j].pr = call[c].pr /\ receipted[j].sha = call[c].sha

HoldsComment(c) ==
    /\ call[c].comment \in DOMAIN comments
    /\ comments[call[c].comment].pr = call[c].pr
    /\ comments[call[c].comment].sha = call[c].sha

(* What a call has proven where it is.                                      *)
CallProven(c) ==
    /\ call[c].at \in Proved => call[c].sha \in ready
    /\ call[c].at \in Pushed => branch # NoSha
    /\ call[c].at \in Opened => call[c].pr \in DOMAIN prs
    /\ call[c].at \in Inspected => call[c].sha \in prs[call[c].pr].was
    /\ call[c].at \in Evidenced => HasEvidence(c)
    /\ At(c, "comments") /\ call[c].persisted # 0 => HasReceipt(c)
    /\ At(c, "receipt") => HoldsComment(c)
    /\ call[c].at \in Receipted => HasReceipt(c)

(* What is written was proven when it was written.                          *)
EvidenceProven ==
    /\ \A n \in DOMAIN prs : prs[n].sha \in prs[n].was
    /\ \A i \in DOMAIN comments : comments[i].pr \in DOMAIN prs
    /\ \A i \in DOMAIN recorded :
          recorded[i].sha \in ready /\ recorded[i].sha \in prs[recorded[i].pr].was
    /\ \A j \in DOMAIN receipted :
          /\ comments[receipted[j].comment].pr = receipted[j].pr
          /\ comments[receipted[j].comment].sha = receipted[j].sha

(* While calls come one after the other, what a call found missing is still *)
(* missing when it writes it.                                               *)
StillMissing(c) ==
    /\ At(c, "create") => prs = <<>>
    /\ At(c, "append") => recorded = <<>>
    /\ At(c, "post") => comments = <<>>
    /\ At(c, "comments") /\ call[c].persisted = 0 => receipted = <<>>
    /\ call[c].at \in {"post", "receipt"} => receipted = <<>>

OneByOne ==
    ~overlapped =>
        /\ \A c, d \in Callers : ~At(c, "idle") /\ ~At(d, "idle") => c = d
        /\ \A c \in Callers : StillMissing(c)

HandoffInv ==
    /\ TypeOK
    /\ \A c \in Callers : CallProven(c)
    /\ EvidenceProven
    /\ OneByOne
    /\ RaisedIsProven
    /\ NothingTwice

-----------------------------------------------------------------------------
(* Sequences, as far as the handoff uses them. *)

PullRequests == [state : States, sha : Shas, was : SUBSET Shas]

LEMMA Lengths ==
    ASSUME TypeOK
    PROVE  /\ Len(prs) \in Nat /\ DOMAIN prs = 1..Len(prs)
           /\ Len(comments) \in Nat /\ DOMAIN comments = 1..Len(comments)
           /\ Len(recorded) \in Nat /\ DOMAIN recorded = 1..Len(recorded)
           /\ Len(receipted) \in Nat /\ DOMAIN receipted = 1..Len(receipted)
           /\ \A n \in DOMAIN prs : prs[n] \in PullRequests
           /\ \A i \in DOMAIN comments : comments[i] \in Receipts
           /\ \A i \in DOMAIN recorded : recorded[i] \in [pr : DOMAIN prs, sha : Shas]
           /\ \A j \in DOMAIN receipted :
                 receipted[j] \in [pr : DOMAIN prs, sha : Shas, comment : DOMAIN comments, named : Names]
  <1>1. /\ prs \in Seq(PullRequests)
        /\ comments \in Seq(Receipts)
        /\ recorded \in Seq([pr : DOMAIN prs, sha : Shas])
        /\ receipted \in Seq([pr : DOMAIN prs, sha : Shas, comment : DOMAIN comments, named : Names])
    BY DEF TypeOK, PullRequests
  <1>2. ASSUME NEW S, NEW s \in Seq(S)
        PROVE  Len(s) \in Nat /\ DOMAIN s = 1..Len(s) /\ \A i \in DOMAIN s : s[i] \in S
    BY LenProperties, ElementOfSeq
  <1>3. Len(prs) \in Nat /\ DOMAIN prs = 1..Len(prs) /\ \A n \in DOMAIN prs : prs[n] \in PullRequests
    BY <1>1, <1>2
  <1>4. Len(comments) \in Nat /\ DOMAIN comments = 1..Len(comments)
        /\ \A i \in DOMAIN comments : comments[i] \in Receipts
    BY <1>1, <1>2
  <1>5. Len(recorded) \in Nat /\ DOMAIN recorded = 1..Len(recorded)
        /\ \A i \in DOMAIN recorded : recorded[i] \in [pr : DOMAIN prs, sha : Shas]
    BY <1>1, <1>2
  <1>6. Len(receipted) \in Nat /\ DOMAIN receipted = 1..Len(receipted)
        /\ \A j \in DOMAIN receipted :
              receipted[j] \in [pr : DOMAIN prs, sha : Shas, comment : DOMAIN comments, named : Names]
    BY <1>1, <1>2
  <1> QED
    BY <1>3, <1>4, <1>5, <1>6

(* Appending adds one element at the end and keeps the others.              *)
LEMMA Appended ==
    ASSUME NEW S, NEW s \in Seq(S), NEW e \in S
    PROVE  /\ Append(s, e) \in Seq(S)
           /\ Len(s) \in Nat /\ Len(Append(s, e)) = Len(s) + 1
           /\ DOMAIN s = 1..Len(s) /\ DOMAIN Append(s, e) = 1..(Len(s) + 1)
           /\ \A i \in DOMAIN s : Append(s, e)[i] = s[i]
           /\ Append(s, e)[Len(s) + 1] = e
           /\ s = <<>> => Len(Append(s, e)) = 1
  <1>1. /\ Append(s, e) \in Seq(S) /\ Len(Append(s, e)) = Len(s) + 1
        /\ \A i \in 1..Len(s) : Append(s, e)[i] = s[i]
        /\ Append(s, e)[Len(s) + 1] = e
    BY AppendProperties
  <1>2. /\ Len(s) \in Nat /\ DOMAIN s = 1..Len(s)
        /\ DOMAIN Append(s, e) = 1..Len(Append(s, e))
    BY <1>1, LenProperties
  <1>3. s = <<>> => Len(s) = 0
    BY EmptySeq
  <1> QED
    BY <1>1, <1>2, <1>3

(* A wider set of elements.                                                 *)
LEMMA Widened ==
    ASSUME NEW S, NEW T, S \subseteq T, NEW s \in Seq(S)
    PROVE  s \in Seq(T)
  BY SeqMonotonic

(* A push moves open pull requests and nothing else: the commits they have  *)
(* been at only become more.                                                *)
LEMMA MovedShape ==
    ASSUME TypeOK, NEW s \in Shas
    PROVE  /\ Moved(s) \in Seq(PullRequests)
           /\ DOMAIN Moved(s) = DOMAIN prs /\ Len(Moved(s)) = Len(prs)
           /\ \A n \in DOMAIN prs :
                 /\ prs[n].was \subseteq Moved(s)[n].was
                 /\ prs[n].sha \in prs[n].was => Moved(s)[n].sha \in Moved(s)[n].was
  <1>1. /\ Len(prs) \in Nat /\ DOMAIN prs = 1..Len(prs)
        /\ \A n \in DOMAIN prs : prs[n] \in PullRequests
    BY Lengths
  <1>2. Moved(s) \in [1..Len(prs) -> PullRequests]
    BY <1>1 DEF Moved, PullRequests
  <1>3. Moved(s) \in Seq(PullRequests)
    BY <1>1, <1>2, SeqDef
  <1>4. DOMAIN Moved(s) = DOMAIN prs /\ Len(Moved(s)) = Len(prs)
    BY <1>1, <1>2, <1>3, LenProperties
  <1>5. ASSUME NEW n \in DOMAIN prs
        PROVE  /\ prs[n].was \subseteq Moved(s)[n].was
               /\ prs[n].sha \in prs[n].was => Moved(s)[n].sha \in Moved(s)[n].was
    BY <1>1, <1>5 DEF Moved, PullRequests
  <1> QED
    BY <1>3, <1>4, <1>5

-----------------------------------------------------------------------------
(* What a step does. *)

(* Everything others wrote stays.                                           *)
Kept(s, t) == DOMAIN s \subseteq DOMAIN t /\ \A i \in DOMAIN s : t[i] = s[i]

Grows ==
    /\ DOMAIN prs \subseteq DOMAIN prs'
    /\ \A n \in DOMAIN prs : prs[n].was \subseteq prs'[n].was
    /\ Kept(comments, comments') /\ Kept(recorded, recorded') /\ Kept(receipted, receipted')
    /\ ready' = ready
    /\ branch # NoSha => branch' # NoSha

(* A step of a call moves that call only.                                   *)
Moves(c) == \E k \in Calls : call' = [call EXCEPT ![c] = k]

LEMMA ThrowMoves ==
    ASSUME TypeOK, NEW c \in Callers, Throw(c) \/ Leave(c)
    PROVE  /\ Moves(c)
           /\ call'[c].at \in {"failed", "idle"}
  <1>1. call \in [Callers -> Calls]
    BY DEF TypeOK
  <1>2. 0 \in 0..MaxChanges
    BY BoundsAssumption
  <1>3. Idle \in Calls
    BY <1>2 DEF Idle, Calls, Positions, Names
  <1>4. CASE Leave(c)
    BY <1>1, <1>3, <1>4 DEF Leave, Moves, Idle
  <1>5. CASE Throw(c)
    <2>1. [Idle EXCEPT !.at = "failed", !.recovering = call[c].recovering] \in Calls
      BY <1>1, <1>2 DEF Idle, Calls, Positions, Names
    <2> QED
      BY <1>1, <1>5, <2>1 DEF Throw, Moves, Idle
  <1> QED
    BY <1>4, <1>5

LEMMA GotoMoves ==
    ASSUME TypeOK, NEW c \in Callers, NEW place \in Positions, Goto(c, place)
    PROVE  /\ Moves(c)
           /\ call' = [call EXCEPT ![c] = [call[c] EXCEPT !.at = place]]
           /\ call'[c].at = place
           /\ \A f \in {"sha", "pr", "shows", "persisted", "comment"} : call'[c][f] = call[c][f]
  <1>1. /\ call \in [Callers -> Calls]
        /\ call' = [call EXCEPT ![c].at = place]
    BY DEF TypeOK, Goto
  <1>2. call' = [call EXCEPT ![c] = [call[c] EXCEPT !.at = place]]
    BY <1>1
  <1>3. [call[c] EXCEPT !.at = place] \in Calls
    BY <1>1 DEF Calls
  <1> QED
    BY <1>1, <1>2, <1>3 DEF Moves, Calls

(* What is asked of a step of c, whatever its action.                       *)
Carries(c) ==
    /\ TypeOK' /\ EvidenceProven' /\ NothingTwice'
    /\ Grows
    /\ Moves(c) /\ CallProven(c)'
    /\ ~overlapped => StillMissing(c)'

(* A call that has proven nothing owes nothing.                             *)
LEMMA Unproven ==
    ASSUME NEW c \in Callers, call'[c].at \notin Proved
    PROVE  CallProven(c)' /\ StillMissing(c)'
  BY DEF CallProven, StillMissing, At, Proved, Pushed, Opened, Inspected, Evidenced, Receipted

LEMMA MovesTyped ==
    ASSUME NEW c \in Callers, call \in [Callers -> Calls], Moves(c)
    PROVE  /\ call' \in [Callers -> Calls]
           /\ \A d \in Callers \ {c} : call'[d] = call[d]
  BY DEF Moves

(* A step that only reads.                                                  *)
LEMMA Reads ==
    ASSUME HandoffInv, NEW c \in Callers, Moves(c), UNCHANGED <<worktree, github, sqlite, world>>
    PROVE  TypeOK' /\ EvidenceProven' /\ NothingTwice' /\ Grows
  <1>1. TypeOK /\ EvidenceProven /\ NothingTwice
    BY DEF HandoffInv
  <1>2. call' \in [Callers -> Calls]
    BY <1>1, MovesTyped DEF TypeOK
  <1>3. TypeOK'
    BY <1>1, <1>2 DEF TypeOK, worktree, github, sqlite, world
  <1>4. EvidenceProven' /\ NothingTwice'
    BY <1>1 DEF EvidenceProven, NothingTwice, github, sqlite, world
  <1>5. Grows
    BY DEF Grows, Kept, github, sqlite, world
  <1> QED
    BY <1>3, <1>4, <1>5

(* A step that gives up.                                                    *)
LEMMA GivesUp ==
    ASSUME HandoffInv, NEW c \in Callers, Throw(c) \/ Leave(c),
           UNCHANGED <<worktree, github, sqlite, world>>
    PROVE  Carries(c)
  <1>1. Moves(c) /\ call'[c].at \in {"failed", "idle"}
    BY ThrowMoves DEF HandoffInv
  <1>2. CallProven(c)' /\ StillMissing(c)'
    BY <1>1, Unproven DEF Proved, Pushed, Opened, Inspected, Evidenced, Receipted
  <1> QED
    BY <1>1, <1>2, Reads DEF Carries

LEMMA RevalidateCarries ==
    ASSUME HandoffInv, NEW c \in Callers, Revalidate(c)
    PROVE  Carries(c)
  <1>1. PICK place \in {"idle", "prove", "human"} : Goto(c, place)
    BY DEF Revalidate
  <1>2. Moves(c) /\ call'[c].at = place
    BY <1>1, GotoMoves DEF HandoffInv, Positions
  <1>3. CallProven(c)' /\ StillMissing(c)'
    BY <1>2, Unproven DEF Proved, Pushed, Opened, Inspected, Evidenced, Receipted
  <1> QED
    BY <1>2, <1>3, Reads DEF Carries, Revalidate

LEMMA CatchCarries ==
    ASSUME HandoffInv, NEW c \in Callers, Catch(c)
    PROVE  Carries(c)
  <1>1. call \in [Callers -> Calls]
    BY DEF HandoffInv, TypeOK
  <1>2. 0 \in 0..MaxChanges
    BY BoundsAssumption
  <1>3. /\ [Idle EXCEPT !.at = "prove", !.recovering = TRUE] \in Calls
        /\ [call[c] EXCEPT !.at = "human"] \in Calls
    BY <1>1, <1>2 DEF Idle, Calls, Positions, Names
  <1>4. Moves(c) /\ call'[c].at \in {"prove", "human"}
    <2>1. CASE call' = [call EXCEPT ![c] = [Idle EXCEPT !.at = "prove", !.recovering = TRUE]]
      BY <1>1, <1>3, <2>1 DEF Moves, Idle
    <2>2. CASE call' = [call EXCEPT ![c].at = "human"]
      BY <1>1, <1>3, <2>2 DEF Moves, Calls
    <2> QED
      BY <2>1, <2>2 DEF Catch
  <1>5. CallProven(c)' /\ StillMissing(c)'
    BY <1>4, Unproven DEF Proved, Pushed, Opened, Inspected, Evidenced, Receipted
  <1> QED
    BY <1>4, <1>5, Reads DEF Carries, Catch

LEMMA TerminalizeCarries ==
    ASSUME HandoffInv, NEW c \in Callers, Terminalize(c)
    PROVE  Carries(c)
  <1>1. Moves(c) /\ call'[c].at \in {"failed", "idle"}
    BY ThrowMoves DEF HandoffInv, Terminalize
  <1>2. CallProven(c)' /\ StillMissing(c)'
    BY <1>1, Unproven DEF Proved, Pushed, Opened, Inspected, Evidenced, Receipted
  <1>3. call' \in [Callers -> Calls]
    BY <1>1, MovesTyped DEF HandoffInv, TypeOK
  <1>4. /\ UNCHANGED <<worktree, github, recorded, receipted, world>>
        /\ ticket' \in {ticket, "NEEDS_HUMAN", "PAUSED"} /\ terminal' \in {terminal, "NEEDS_HUMAN"}
    BY DEF Terminalize
  <1>5. TypeOK'
    BY <1>3, <1>4 DEF HandoffInv, TypeOK, worktree, github, world
  <1>6. EvidenceProven' /\ NothingTwice' /\ Grows
    BY <1>4 DEF HandoffInv, EvidenceProven, NothingTwice, Grows, Kept, github, world
  <1> QED
    BY <1>1, <1>2, <1>5, <1>6 DEF Carries

LEMMA RecordCarries ==
    ASSUME HandoffInv, NEW c \in Callers, Record(c)
    PROVE  Carries(c)
  <1>1. Moves(c) /\ call'[c].at \in {"failed", "idle"}
    BY ThrowMoves DEF HandoffInv, Record
  <1>2. CallProven(c)' /\ StillMissing(c)'
    BY <1>1, Unproven DEF Proved, Pushed, Opened, Inspected, Evidenced, Receipted
  <1>3. call' \in [Callers -> Calls]
    BY <1>1, MovesTyped DEF HandoffInv, TypeOK
  <1>4. /\ UNCHANGED <<worktree, github, ticket, recorded, receipted, world>>
        /\ terminal' \in {terminal, "PR_RAISED"}
    BY DEF Record
  <1>5. TypeOK'
    BY <1>3, <1>4 DEF HandoffInv, TypeOK, worktree, github, world
  <1>6. EvidenceProven' /\ NothingTwice' /\ Grows
    BY <1>4 DEF HandoffInv, EvidenceProven, NothingTwice, Grows, Kept, github, world
  <1> QED
    BY <1>1, <1>2, <1>5, <1>6 DEF Carries

LEMMA ProveCarries ==
    ASSUME HandoffInv, NEW c \in Callers, Prove(c)
    PROVE  Carries(c)
  <1>1. CASE Throw(c)
    BY <1>1, GivesUp DEF Prove
  <1>2. CASE Candidate /\ call' = [call EXCEPT ![c].at = "lookup", ![c].sha = head]
    <2>1. call \in [Callers -> Calls] /\ head \in Shas /\ head \in ready
      BY <1>2 DEF HandoffInv, TypeOK, Candidate, Ready
    <2>2. [call[c] EXCEPT !.at = "lookup", !.sha = head] \in Calls
      BY <2>1 DEF Calls, Positions
    <2>3. Moves(c) /\ call'[c].at = "lookup" /\ call'[c].sha = head
      BY <1>2, <2>1, <2>2 DEF Moves, Calls
    <2>4. UNCHANGED <<worktree, github, sqlite, world>>
      BY DEF Prove
    <2>5. CallProven(c)' /\ StillMissing(c)'
      BY <2>1, <2>3, <2>4
         DEF CallProven, StillMissing, At, Proved, Pushed, Opened, Inspected, Evidenced, Receipted, world
    <2> QED
      BY <2>3, <2>4, <2>5, Reads DEF Carries
  <1> QED
    BY <1>1, <1>2 DEF Prove

LEMMA LookupCarries ==
    ASSUME HandoffInv, NEW c \in Callers, Lookup(c)
    PROVE  Carries(c)
  <1>0. UNCHANGED <<worktree, github, sqlite, world>> /\ At(c, "lookup")
    BY DEF Lookup
  <1>1. CASE Throw(c)
    BY <1>0, <1>1, GivesUp
  <1>2. ASSUME NEW place \in {"push", "reprove"}, Goto(c, place),
               place = "reprove" => branch = call[c].sha
        PROVE  Carries(c)
    <2>1. /\ Moves(c) /\ call'[c].at = place
          /\ call'[c].sha = call[c].sha
      BY <1>2, GotoMoves DEF HandoffInv, Positions
    <2>2. call[c].sha \in ready /\ ready \subseteq Shas /\ NoSha \notin Shas
      BY <1>0, BoundsAssumption DEF HandoffInv, TypeOK, CallProven, At, Proved, Shas, NoSha
    <2>3. CallProven(c)' /\ StillMissing(c)'
      BY <1>0, <1>2, <2>1, <2>2
         DEF CallProven, StillMissing, At, Proved, Pushed, Opened, Inspected, Evidenced, Receipted,
             world, github
    <2> QED
      BY <1>0, <2>1, <2>3, Reads DEF Carries
  <1> QED
    BY <1>1, <1>2 DEF Lookup

LEMMA RereadCarries ==
    ASSUME HandoffInv, NEW c \in Callers, Reread(c)
    PROVE  Carries(c)
  <1>0. UNCHANGED <<worktree, github, sqlite, world>> /\ At(c, "reread")
    BY DEF Reread
  <1>1. CASE Throw(c)
    BY <1>0, <1>1, GivesUp
  <1>2. CASE Goto(c, "reprove")
    <2>1. Moves(c) /\ call'[c].at = "reprove" /\ call'[c].sha = call[c].sha
      BY <1>2, GotoMoves DEF HandoffInv, Positions
    <2>2. call[c].sha \in ready /\ branch # NoSha
      BY <1>0 DEF HandoffInv, CallProven, At, Proved, Pushed
    <2>3. CallProven(c)' /\ StillMissing(c)'
      BY <1>0, <2>1, <2>2
         DEF CallProven, StillMissing, At, Proved, Pushed, Opened, Inspected, Evidenced, Receipted,
             world, github
    <2> QED
      BY <1>0, <2>1, <2>3, Reads DEF Carries
  <1> QED
    BY <1>1, <1>2 DEF Reread

LEMMA ReproveCarries ==
    ASSUME HandoffInv, NEW c \in Callers, Reprove(c)
    PROVE  Carries(c)
  <1>0. UNCHANGED <<worktree, github, sqlite, world>> /\ At(c, "reprove")
    BY DEF Reprove
  <1>1. CASE Throw(c)
    BY <1>0, <1>1, GivesUp
  <1>2. CASE call' = [call EXCEPT ![c].at = "find", ![c].shows = telemetry]
    <2>1. call \in [Callers -> Calls] /\ telemetry \in 0..MaxChanges
      BY DEF HandoffInv, TypeOK
    <2>2. [call[c] EXCEPT !.at = "find", !.shows = telemetry] \in Calls
      BY <2>1 DEF Calls, Positions
    <2>3. Moves(c) /\ call'[c].at = "find" /\ call'[c].sha = call[c].sha
      BY <1>2, <2>1, <2>2 DEF Moves, Calls
    <2>4. call[c].sha \in ready /\ branch # NoSha
      BY <1>0 DEF HandoffInv, CallProven, At, Proved, Pushed
    <2>5. CallProven(c)' /\ StillMissing(c)'
      BY <1>0, <2>3, <2>4
         DEF CallProven, StillMissing, At, Proved, Pushed, Opened, Inspected, Evidenced, Receipted,
             world, github
    <2> QED
      BY <1>0, <2>3, <2>5, Reads DEF Carries
  <1> QED
    BY <1>1, <1>2 DEF Reprove

LEMMA FindCarries ==
    ASSUME HandoffInv, NEW c \in Callers, Find(c)
    PROVE  Carries(c)
  <1>0. UNCHANGED <<worktree, github, sqlite, world>> /\ At(c, "find")
    BY DEF Find
  <1>3. call[c].sha \in ready /\ branch # NoSha
    BY <1>0 DEF HandoffInv, CallProven, At, Proved, Pushed
  <1>1. CASE Throw(c)
    BY <1>0, <1>1, GivesUp
  <1>2. CASE prs = <<>> /\ Goto(c, "create")
    <2>1. Moves(c) /\ call'[c].at = "create" /\ call'[c].sha = call[c].sha
      BY <1>2, GotoMoves DEF HandoffInv, Positions
    <2>3. CallProven(c)' /\ StillMissing(c)'
      BY <1>0, <1>2, <1>3, <2>1
         DEF CallProven, StillMissing, At, Proved, Pushed, Opened, Inspected, Evidenced, Receipted,
             world, github
    <2> QED
      BY <1>0, <2>1, <2>3, Reads DEF Carries
  <1>4. CASE Len(prs) = 1 /\ call' = [call EXCEPT ![c].at = "inspect", ![c].pr = 1]
    <2>1. call \in [Callers -> Calls] /\ 1 \in DOMAIN prs
      BY <1>4, Lengths DEF HandoffInv, TypeOK
    <2>2. [call[c] EXCEPT !.at = "inspect", !.pr = 1] \in Calls
      BY <2>1 DEF Calls, Positions
    <2>3. Moves(c) /\ call'[c].at = "inspect" /\ call'[c].sha = call[c].sha /\ call'[c].pr = 1
      BY <1>4, <2>1, <2>2 DEF Moves, Calls
    <2>5. CallProven(c)' /\ StillMissing(c)'
      BY <1>0, <1>3, <2>1, <2>3
         DEF CallProven, StillMissing, At, Proved, Pushed, Opened, Inspected, Evidenced, Receipted,
             world, github
    <2> QED
      BY <1>0, <2>3, <2>5, Reads DEF Carries
  <1> QED
    BY <1>1, <1>2, <1>4 DEF Find

LEMMA InspectCarries ==
    ASSUME HandoffInv, NEW c \in Callers, Inspect(c)
    PROVE  Carries(c)
  <1>0. UNCHANGED <<worktree, github, sqlite, world>> /\ At(c, "inspect")
    BY DEF Inspect
  <1>1. CASE Throw(c)
    BY <1>0, <1>1, GivesUp
  <1>2. CASE OpenAt(call[c].pr, call[c].sha) /\ Goto(c, "evidence")
    <2>1. /\ Moves(c) /\ call'[c].at = "evidence"
          /\ call'[c].sha = call[c].sha /\ call'[c].pr = call[c].pr
      BY <1>2, GotoMoves DEF HandoffInv, Positions
    <2>2. call[c].sha \in ready /\ branch # NoSha /\ call[c].pr \in DOMAIN prs
      BY <1>0 DEF HandoffInv, CallProven, At, Proved, Pushed, Opened
    <2>3. call[c].sha \in prs[call[c].pr].was
      BY <1>2, <2>2 DEF HandoffInv, EvidenceProven, OpenAt
    <2>4. CallProven(c)' /\ StillMissing(c)'
      BY <1>0, <2>1, <2>2, <2>3
         DEF CallProven, StillMissing, At, Proved, Pushed, Opened, Inspected, Evidenced, Receipted,
             world, github
    <2> QED
      BY <1>0, <2>1, <2>4, Reads DEF Carries
  <1> QED
    BY <1>1, <1>2 DEF Inspect

(* What a call in one of these positions has proven.                        *)
LEMMA BehindIt ==
    ASSUME HandoffInv, NEW c \in Callers, call[c].at \in Inspected
    PROVE  /\ call[c] \in Calls
           /\ call[c].sha \in ready /\ branch # NoSha /\ call[c].pr \in DOMAIN prs
           /\ call[c].sha \in prs[call[c].pr].was
           /\ ready \subseteq Shas /\ call[c].sha \in Shas
           /\ call[c].at \in Evidenced => HasEvidence(c)
           /\ call[c].at \in Receipted => HasReceipt(c)
  <1>1. CallProven(c) /\ TypeOK
    BY DEF HandoffInv
  <1>2. call[c].at \in Opened /\ call[c].at \in Pushed /\ call[c].at \in Proved
    BY DEF Opened, Pushed, Proved
  <1>3. call[c] \in Calls /\ ready \subseteq Shas
    BY <1>1 DEF TypeOK
  <1> QED
    BY <1>1, <1>2, <1>3 DEF CallProven

LEMMA FindEvidenceCarries ==
    ASSUME HandoffInv, NEW c \in Callers, FindEvidence(c)
    PROVE  Carries(c)
  <1>0. UNCHANGED <<worktree, github, sqlite, world>> /\ At(c, "evidence")
    BY DEF FindEvidence
  <1>1. CASE Throw(c)
    BY <1>0, <1>1, GivesUp
  <1>3. /\ call[c].sha \in ready /\ branch # NoSha /\ call[c].pr \in DOMAIN prs
        /\ call[c].sha \in prs[call[c].pr].was
    BY <1>0, BehindIt DEF At, Inspected
  <1>2. ASSUME NEW place \in {"append", "receipts"}, Goto(c, place),
               place = "append" => recorded = <<>>,
               place = "receipts" => recorded = <<Evidence(c)>>
        PROVE  Carries(c)
    <2>1. /\ Moves(c) /\ call'[c].at = place
          /\ call'[c].sha = call[c].sha /\ call'[c].pr = call[c].pr
      BY <1>2, GotoMoves DEF HandoffInv, Positions
    <2>2. place = "receipts" => HasEvidence(c)'
      <3>1. SUFFICES ASSUME place = "receipts" PROVE HasEvidence(c)'
        OBVIOUS
      <3>2. recorded' = <<Evidence(c)>> /\ Evidence(c)' = Evidence(c)
        BY <1>0, <1>2, <2>1, <3>1 DEF Evidence, sqlite
      <3>3. 1 \in DOMAIN recorded' /\ recorded'[1] = Evidence(c)
        BY <3>2
      <3> QED
        BY <3>2, <3>3 DEF HasEvidence
    <2>4. CallProven(c)' /\ StillMissing(c)'
      BY <1>0, <1>2, <1>3, <2>1, <2>2
         DEF CallProven, StillMissing, At, Proved, Pushed, Opened, Inspected, Evidenced, Receipted,
             world, github, sqlite
    <2> QED
      BY <1>0, <2>1, <2>4, Reads DEF Carries
  <1> QED
    BY <1>1, <1>2 DEF FindEvidence

(* What was proven stays proven for a call that is at the same commit and   *)
(* pull request.                                                            *)
LEMMA StaysProven ==
    ASSUME Grows, NEW d \in Callers,
           call'[d].sha = call[d].sha, call'[d].pr = call[d].pr
    PROVE  /\ call[d].sha \in ready => call'[d].sha \in ready'
           /\ branch # NoSha => branch' # NoSha
           /\ call[d].pr \in DOMAIN prs => call'[d].pr \in DOMAIN prs'
           /\ call[d].pr \in DOMAIN prs /\ call[d].sha \in prs[call[d].pr].was
                 => call'[d].sha \in prs'[call'[d].pr].was
           /\ HasEvidence(d) => HasEvidence(d)'
           /\ HasReceipt(d) => HasReceipt(d)'
  <1>1. HasEvidence(d) => HasEvidence(d)'
    BY DEF HasEvidence, Evidence, Grows, Kept
  <1>2. HasReceipt(d) => HasReceipt(d)'
    BY DEF HasReceipt, Grows, Kept
  <1> QED
    BY <1>1, <1>2 DEF Grows

LEMMA AppendEvidenceCarries ==
    ASSUME HandoffInv, NEW c \in Callers, AppendEvidence(c)
    PROVE  Carries(c)
  <1>0. /\ UNCHANGED <<worktree, github, ticket, receipted, terminal, world>>
        /\ At(c, "append") /\ Goto(c, "receipts")
        /\ recorded' = Append(recorded, Evidence(c))
    BY DEF AppendEvidence
  <1>1. /\ Moves(c) /\ call'[c].at = "receipts"
        /\ call'[c].sha = call[c].sha /\ call'[c].pr = call[c].pr
    BY <1>0, GotoMoves DEF HandoffInv, Positions
  <1>2. /\ call[c].sha \in ready /\ branch # NoSha /\ call[c].pr \in DOMAIN prs
        /\ call[c].sha \in prs[call[c].pr].was /\ call[c].sha \in Shas
    BY <1>0, BehindIt DEF At, Inspected
  <1>3. Evidence(c) \in [pr : DOMAIN prs, sha : Shas] /\ recorded \in Seq([pr : DOMAIN prs, sha : Shas])
    BY <1>2 DEF Evidence, HandoffInv, TypeOK
  <1>4. /\ recorded' \in Seq([pr : DOMAIN prs, sha : Shas])
        /\ Len(recorded) \in Nat /\ DOMAIN recorded = 1..Len(recorded)
        /\ Len(recorded') = Len(recorded) + 1 /\ DOMAIN recorded' = 1..(Len(recorded) + 1)
        /\ \A i \in DOMAIN recorded : recorded'[i] = recorded[i]
        /\ recorded'[Len(recorded) + 1] = Evidence(c)
        /\ recorded = <<>> => Len(recorded') = 1
    BY <1>0, <1>3, Appended
  <1>5. Grows
    BY <1>0, <1>4 DEF Grows, Kept, github, world
  <1>6. call' \in [Callers -> Calls]
    BY <1>1, MovesTyped DEF HandoffInv, TypeOK
  <1>7. TypeOK'
    BY <1>0, <1>4, <1>6 DEF HandoffInv, TypeOK, worktree, github, world
  <1>8. EvidenceProven'
    <2>1. ASSUME NEW i \in DOMAIN recorded'
          PROVE  recorded'[i].sha \in ready /\ recorded'[i].sha \in prs[recorded'[i].pr].was
      <3>1. CASE i \in DOMAIN recorded
        BY <1>4, <3>1 DEF HandoffInv, EvidenceProven
      <3>2. CASE i = Len(recorded) + 1
        BY <1>2, <1>4, <3>2 DEF Evidence
      <3> QED
        BY <1>4, <3>1, <3>2
    <2> QED
      BY <1>0, <2>1 DEF HandoffInv, EvidenceProven, github, world
  <1>9. HasEvidence(c)'
    <2>1. Len(recorded) + 1 \in DOMAIN recorded'
      BY <1>4
    <2>2. Evidence(c)' = Evidence(c)
      BY <1>1 DEF Evidence
    <2> QED
      BY <1>4, <2>1, <2>2 DEF HasEvidence
  <1>10. CallProven(c)' /\ StillMissing(c)'
    BY <1>0, <1>1, <1>2, <1>9
       DEF CallProven, StillMissing, At, Proved, Pushed, Opened, Inspected, Evidenced, Receipted,
           world, github
  <1>11. NothingTwice'
    <2>1. ~overlapped => recorded = <<>>
      BY <1>0 DEF HandoffInv, OneByOne, StillMissing
    <2> QED
      BY <1>0, <1>4, <2>1 DEF HandoffInv, NothingTwice, github, world
  <1> QED
    BY <1>1, <1>5, <1>7, <1>8, <1>10, <1>11 DEF Carries

LEMMA FindReceiptCarries ==
    ASSUME HandoffInv, NEW c \in Callers, FindReceipt(c)
    PROVE  Carries(c)
  <1>0. UNCHANGED <<worktree, github, sqlite, world>> /\ At(c, "receipts")
    BY DEF FindReceipt
  <1>1. CASE Throw(c)
    BY <1>0, <1>1, GivesUp
  <1>2. CASE /\ Len(receipted) <= 1
             /\ \A i \in DOMAIN receipted :
                   receipted[i].pr = call[c].pr /\ receipted[i].sha = call[c].sha
             /\ call' = [call EXCEPT ![c].at = "comments",
                    ![c].persisted = IF receipted = <<>> THEN 0 ELSE receipted[1].comment,
                    ![c].named = IF receipted = <<>> THEN @ ELSE receipted[1].named]
    <2> DEFINE found == IF receipted = <<>> THEN 0 ELSE receipted[1].comment
    <2> DEFINE name == IF receipted = <<>> THEN call[c].named ELSE receipted[1].named
    <2>1. call \in [Callers -> Calls]
      BY DEF HandoffInv, TypeOK
    <2>2. /\ DOMAIN receipted = 1..Len(receipted) /\ Len(receipted) \in Nat
          /\ DOMAIN comments = 1..Len(comments) /\ Len(comments) \in Nat
          /\ \A j \in DOMAIN receipted :
                receipted[j].comment \in DOMAIN comments /\ receipted[j].named \in Names
      BY Lengths DEF HandoffInv
    <2>3. receipted # <<>> => 1 \in DOMAIN receipted
      <3>1. receipted \in Seq([pr : DOMAIN prs, sha : Shas, comment : DOMAIN comments, named : Names])
        BY DEF HandoffInv, TypeOK
      <3>2. Len(receipted) = 0 => receipted = <<>>
        BY <3>1, EmptySeq
      <3> QED
        BY <2>2, <3>2
    <2>4. found \in Nat /\ (found = 0 => receipted = <<>>) /\ (found # 0 => 1 \in DOMAIN receipted)
      BY <2>2, <2>3
    <2>5. [call[c] EXCEPT !.at = "comments", !.persisted = found, !.named = name] \in Calls
      <3>1. call[c].named \in Names
        BY <2>1 DEF Calls
      <3>2. name \in Names
        BY <2>2, <2>3, <3>1
      <3>3. found \in Nat
        BY <2>4
      <3> HIDE DEF found, name
      <3> QED
        BY <2>1, <3>2, <3>3 DEF Calls, Positions
    <2>6. /\ Moves(c) /\ call'[c].at = "comments" /\ call'[c].persisted = found
          /\ call'[c].sha = call[c].sha /\ call'[c].pr = call[c].pr
      <3>1. call' = [call EXCEPT ![c] =
                        [call[c] EXCEPT !.at = "comments", !.persisted = found, !.named = name]]
        BY <1>2
      <3>2. call'[c] = [call[c] EXCEPT !.at = "comments", !.persisted = found, !.named = name]
        BY <2>1, <3>1
      <3>3. call[c] \in Calls
        BY <2>1
      <3> HIDE DEF found, name
      <3> QED
        BY <2>5, <3>1, <3>2, <3>3 DEF Moves, Calls
    <2>7. /\ call[c].sha \in ready /\ branch # NoSha /\ call[c].pr \in DOMAIN prs
          /\ call[c].sha \in prs[call[c].pr].was /\ HasEvidence(c)
      BY <1>0, BehindIt DEF At, Inspected, Evidenced
    <2>8. found # 0 => HasReceipt(c)
      BY <1>2, <2>4 DEF HasReceipt
    <2>9. Grows
      BY <1>0, <2>6, Reads
    <2>10. HasEvidence(c)' /\ (found # 0 => HasReceipt(c)')
      BY <2>6, <2>7, <2>8, <2>9, StaysProven
    <2>11. CallProven(c)' /\ StillMissing(c)'
      BY <1>0, <2>4, <2>6, <2>7, <2>10
         DEF CallProven, StillMissing, At, Proved, Pushed, Opened, Inspected, Evidenced, Receipted,
             world, github, sqlite
    <2> QED
      BY <1>0, <2>6, <2>11, Reads DEF Carries
  <1> QED
    BY <1>1, <1>2 DEF FindReceipt

(* While calls come one after the other there is one pull request, and what *)
(* is not on it is nowhere.                                                 *)
LEMMA NothingPosted ==
    ASSUME HandoffInv, NEW c \in Callers, ~overlapped,
           call[c].pr \in DOMAIN prs, Posted(c) = {}
    PROVE  comments = <<>>
  <1>1. /\ Len(prs) \in Nat /\ DOMAIN prs = 1..Len(prs)
        /\ Len(comments) \in Nat /\ DOMAIN comments = 1..Len(comments)
    BY Lengths DEF HandoffInv
  <1>2. Len(prs) <= 1
    BY DEF HandoffInv, NothingTwice
  <1>3. \A n \in DOMAIN prs : n = call[c].pr
    BY <1>1, <1>2
  <1>4. \A i \in DOMAIN comments : i \in Posted(c)
    BY <1>3 DEF HandoffInv, EvidenceProven, Posted
  <1>5. Len(comments) = 0
    <2>1. 1 \notin DOMAIN comments
      BY <1>4
    <2> QED
      BY <1>1, <2>1
  <1>6. comments \in Seq(Receipts)
    BY DEF HandoffInv, TypeOK
  <1> QED
    BY <1>5, <1>6, EmptySeq

LEMMA ListCommentsCarries ==
    ASSUME HandoffInv, NEW c \in Callers, ListComments(c)
    PROVE  Carries(c)
  <1> DEFINE current == IF Posted(c) = {} THEN 0 ELSE CHOOSE i \in Posted(c) : TRUE
  <1> DEFINE place == IF call[c].persisted # 0 THEN "open"
                      ELSE IF current # 0 THEN "receipt" ELSE "post"
  <1>0. UNCHANGED <<worktree, github, sqlite, world>> /\ At(c, "comments")
    BY DEF ListComments
  <1>1. CASE Throw(c)
    BY <1>0, <1>1, GivesUp
  <1>2. CASE /\ ~\E i \in Posted(c) : comments[i] # Receipt(c)
             /\ call' = [call EXCEPT ![c].comment = current, ![c].named = listing, ![c].at = place]
    <2>1. call \in [Callers -> Calls] /\ listing \in Names
      BY DEF HandoffInv, TypeOK
    <2>2. /\ DOMAIN comments = 1..Len(comments) /\ Len(comments) \in Nat
      BY Lengths DEF HandoffInv
    <2>3. Posted(c) # {} => current \in Posted(c)
      OBVIOUS
    <2>4. Posted(c) \subseteq DOMAIN comments
      BY DEF Posted
    <2>5. current \in Nat /\ (current = 0 => Posted(c) = {})
      BY <2>2, <2>3, <2>4
    <2> HIDE DEF current
    <2>6. place \in {"open", "receipt", "post"}
      OBVIOUS
    <2>7. [call[c] EXCEPT !.comment = current, !.named = listing, !.at = place] \in Calls
      BY <2>1, <2>5, <2>6 DEF Calls, Positions
    <2>8. /\ Moves(c) /\ call'[c].at = place /\ call'[c].comment = current
          /\ call'[c].sha = call[c].sha /\ call'[c].pr = call[c].pr
      <3>1. call' = [call EXCEPT ![c] = [call[c] EXCEPT !.comment = current, !.named = listing, !.at = place]]
        BY <1>2
      <3>2. call'[c] = [call[c] EXCEPT !.comment = current, !.named = listing, !.at = place]
        BY <2>1, <3>1
      <3>3. call[c] \in Calls
        BY <2>1
      <3> HIDE DEF place
      <3> QED
        BY <2>7, <3>1, <3>2, <3>3 DEF Moves, Calls
    <2>9. /\ call[c].sha \in ready /\ branch # NoSha /\ call[c].pr \in DOMAIN prs
          /\ call[c].sha \in prs[call[c].pr].was /\ HasEvidence(c)
      BY <1>0, BehindIt DEF At, Inspected, Evidenced
    <2>10. call[c].persisted # 0 => HasReceipt(c)
      BY <1>0 DEF HandoffInv, CallProven
    <2>11. Grows
      BY <1>0, <2>8, Reads
    <2>12. HasEvidence(c)' /\ (call[c].persisted # 0 => HasReceipt(c)')
      BY <2>8, <2>9, <2>10, <2>11, StaysProven
    <2>13. place = "receipt" => HoldsComment(c)'
      <3>1. SUFFICES ASSUME place = "receipt" PROVE HoldsComment(c)'
        OBVIOUS
      <3>2. current \in Posted(c) /\ comments[current] = Receipt(c)
        BY <1>2, <2>3, <3>1 DEF current
      <3> QED
        BY <1>0, <2>4, <2>8, <3>2 DEF HoldsComment, Receipt, github
    <2>14. CallProven(c)'
      BY <1>0, <2>6, <2>8, <2>9, <2>12, <2>13
         DEF CallProven, At, Proved, Pushed, Opened, Inspected, Evidenced, Receipted,
             world, github, sqlite
    <2>15. ~overlapped => StillMissing(c)'
      <3>1. SUFFICES ASSUME ~overlapped PROVE StillMissing(c)'
        OBVIOUS
      <3>2. call[c].persisted = 0 => receipted = <<>>
        BY <1>0, <3>1 DEF HandoffInv, OneByOne, StillMissing
      <3>3. place = "post" => comments = <<>>
        BY <2>5, <2>9, <3>1, NothingPosted
      <3> QED
        BY <1>0, <2>6, <2>8, <3>2, <3>3 DEF StillMissing, At, github, sqlite
    <2> QED
      BY <1>0, <2>8, <2>14, <2>15, Reads DEF Carries
  <1> QED
    BY <1>1, <1>2 DEF ListComments

(* A lost reply is counted, within the bound.                               *)
LEMMA Faulty ==
    ASSUME TypeOK,
           \/ UNCHANGED <<faults, lost>>
           \/ faults < MaxFaults /\ faults' = faults + 1 /\ lost' \in {lost, TRUE}
    PROVE  faults' \in 0..MaxFaults /\ lost' \in BOOLEAN
  <1>1. faults \in 0..MaxFaults /\ lost \in BOOLEAN
    BY DEF TypeOK
  <1>2. CASE UNCHANGED <<faults, lost>>
    BY <1>1, <1>2
  <1>3. CASE faults < MaxFaults /\ faults' = faults + 1 /\ lost' \in {lost, TRUE}
    <2>1. MaxFaults \in Nat
      BY BoundsAssumption
    <2>2. faults' \in 0..MaxFaults
      BY <1>1, <1>3, <2>1
    <2> QED
      BY <1>1, <1>3, <2>2
  <1> QED
    BY <1>2, <1>3

LEMMA PostCarries ==
    ASSUME HandoffInv, NEW c \in Callers, Post(c)
    PROVE  Carries(c)
  <1>0. /\ At(c, "post") /\ comments' = Append(comments, Receipt(c))
        /\ UNCHANGED <<worktree, branch, prs, sqlite, ready, telemetry, listing, changes, overlapped>>
    BY DEF Post
  <1>1. /\ call[c] \in Calls
        /\ call[c].sha \in ready /\ branch # NoSha /\ call[c].pr \in DOMAIN prs
        /\ call[c].sha \in prs[call[c].pr].was /\ call[c].sha \in Shas /\ HasEvidence(c)
    BY <1>0, BehindIt DEF At, Inspected, Evidenced
  <1>2. call \in [Callers -> Calls] /\ comments \in Seq(Receipts)
    BY DEF HandoffInv, TypeOK
  <1>3. DOMAIN prs \subseteq Nat
    BY Lengths DEF HandoffInv
  <1>4. Receipt(c) \in Receipts
    BY <1>1, <1>3 DEF Receipt, Receipts, Calls
  <1>5. /\ comments' \in Seq(Receipts)
        /\ Len(comments) \in Nat /\ DOMAIN comments = 1..Len(comments)
        /\ Len(comments') = Len(comments) + 1 /\ DOMAIN comments' = 1..(Len(comments) + 1)
        /\ \A i \in DOMAIN comments : comments'[i] = comments[i]
        /\ comments'[Len(comments) + 1] = Receipt(c)
        /\ comments = <<>> => Len(comments') = 1
    BY <1>0, <1>2, <1>4, Appended
  <1>6. Grows
    BY <1>0, <1>5 DEF Grows, Kept, sqlite
  <1>7. Moves(c) /\ CallProven(c)' /\ (~overlapped => StillMissing(c)')
    <2>1. CASE Throw(c)
      <3>1. Moves(c) /\ call'[c].at \in {"failed", "idle"}
        BY <2>1, ThrowMoves DEF HandoffInv
      <3> QED
        BY <3>1, Unproven DEF Proved, Pushed, Opened, Inspected, Evidenced, Receipted
    <2>2. CASE call' = [call EXCEPT ![c].at = "receipt", ![c].comment = Len(comments'),
                                    ![c].named = "number"]
      <3>0. Len(comments') \in Nat
        BY <1>5
      <3>1. [call[c] EXCEPT !.at = "receipt", !.comment = Len(comments'), !.named = "number"]
               \in Calls
        BY <1>1, <3>0 DEF Calls, Positions, Names
      <3>2. /\ Moves(c) /\ call'[c].at = "receipt" /\ call'[c].comment = Len(comments) + 1
            /\ call'[c].sha = call[c].sha /\ call'[c].pr = call[c].pr
        BY <1>1, <1>2, <1>5, <2>2, <3>1 DEF Moves, Calls
      <3>3. HoldsComment(c)'
        BY <1>5, <3>2 DEF HoldsComment, Receipt
      <3>4. HasEvidence(c)'
        BY <1>1, <1>6, <3>2, StaysProven
      <3>5. CallProven(c)'
        BY <1>0, <1>1, <3>2, <3>3, <3>4
           DEF CallProven, At, Proved, Pushed, Opened, Inspected, Evidenced, Receipted
      <3>6. ~overlapped => StillMissing(c)'
        BY <1>0, <3>2 DEF HandoffInv, OneByOne, StillMissing, At, sqlite
      <3> QED
        BY <3>2, <3>5, <3>6
    <2> QED
      BY <2>1, <2>2 DEF Post
  <1>8. call' \in [Callers -> Calls]
    BY <1>2, <1>7, MovesTyped
  <1>9. faults' \in 0..MaxFaults /\ lost' \in BOOLEAN
    BY Faulty DEF HandoffInv, Post
  <1>10. receipted \in Seq([pr : DOMAIN prs, sha : Shas, comment : DOMAIN comments', named : Names])
    <2>1. [pr : DOMAIN prs, sha : Shas, comment : DOMAIN comments, named : Names]
              \subseteq [pr : DOMAIN prs, sha : Shas, comment : DOMAIN comments', named : Names]
      BY <1>6 DEF Grows, Kept
    <2>2. receipted \in Seq([pr : DOMAIN prs, sha : Shas, comment : DOMAIN comments, named : Names])
      BY DEF HandoffInv, TypeOK
    <2> QED
      BY <2>1, <2>2, Widened
  <1>11. TypeOK'
    BY <1>0, <1>5, <1>8, <1>9, <1>10 DEF HandoffInv, TypeOK, worktree, sqlite
  <1>12. EvidenceProven'
    <2>1. ASSUME NEW i \in DOMAIN comments'
          PROVE  comments'[i].pr \in DOMAIN prs
      <3>1. CASE i \in DOMAIN comments
        BY <1>5, <3>1 DEF HandoffInv, EvidenceProven
      <3>2. CASE i = Len(comments) + 1
        BY <1>1, <1>5, <3>2 DEF Receipt
      <3> QED
        BY <1>5, <3>1, <3>2
    <2>2. ASSUME NEW j \in DOMAIN receipted
          PROVE  comments'[receipted[j].comment] = comments[receipted[j].comment]
      BY <1>5, Lengths DEF HandoffInv
    <2> QED
      BY <1>0, <2>1, <2>2 DEF HandoffInv, EvidenceProven, sqlite
  <1>13. NothingTwice'
    <2>1. ~overlapped => comments = <<>>
      BY <1>0 DEF HandoffInv, OneByOne, StillMissing
    <2> QED
      BY <1>0, <1>5, <2>1 DEF HandoffInv, NothingTwice, sqlite
  <1> QED
    BY <1>6, <1>7, <1>11, <1>12, <1>13 DEF Carries

LEMMA AppendReceiptCarries ==
    ASSUME HandoffInv, NEW c \in Callers, AppendReceipt(c)
    PROVE  Carries(c)
  <1> DEFINE evidence == [pr |-> call[c].pr, sha |-> call[c].sha,
                          comment |-> call[c].comment, named |-> call[c].named]
  <1> DEFINE Evidences == [pr : DOMAIN prs, sha : Shas, comment : DOMAIN comments, named : Names]
  <1>0. /\ UNCHANGED <<worktree, github, ticket, recorded, terminal, world>>
        /\ At(c, "receipt") /\ Goto(c, "open")
        /\ receipted' = Append(receipted, evidence)
    BY DEF AppendReceipt
  <1>1. /\ Moves(c) /\ call'[c].at = "open"
        /\ call'[c].sha = call[c].sha /\ call'[c].pr = call[c].pr
    BY <1>0, GotoMoves DEF HandoffInv, Positions
  <1>2. /\ call[c].sha \in ready /\ branch # NoSha /\ call[c].pr \in DOMAIN prs
        /\ call[c].sha \in prs[call[c].pr].was /\ call[c].sha \in Shas /\ HasEvidence(c)
    BY <1>0, BehindIt DEF At, Inspected, Evidenced
  <1>3. HoldsComment(c)
    BY <1>0 DEF HandoffInv, CallProven
  <1>4. evidence \in Evidences /\ receipted \in Seq(Evidences)
    <2>1. call[c].named \in Names
      BY DEF HandoffInv, TypeOK, Calls
    <2> QED
      BY <1>2, <1>3, <2>1 DEF HandoffInv, TypeOK, HoldsComment
  <1>5. /\ receipted' \in Seq(Evidences)
        /\ Len(receipted) \in Nat /\ DOMAIN receipted = 1..Len(receipted)
        /\ Len(receipted') = Len(receipted) + 1 /\ DOMAIN receipted' = 1..(Len(receipted) + 1)
        /\ \A i \in DOMAIN receipted : receipted'[i] = receipted[i]
        /\ receipted'[Len(receipted) + 1] = evidence
        /\ receipted = <<>> => Len(receipted') = 1
    <2> HIDE DEF evidence, Evidences
    <2> QED
      BY <1>0, <1>4, Appended
  <1>6. Grows
    BY <1>0, <1>5 DEF Grows, Kept, github, world
  <1>7. call' \in [Callers -> Calls]
    BY <1>1, MovesTyped DEF HandoffInv, TypeOK
  <1>8. TypeOK'
    BY <1>0, <1>5, <1>7 DEF HandoffInv, TypeOK, worktree, github, world
  <1>9. EvidenceProven'
    <2>1. ASSUME NEW j \in DOMAIN receipted'
          PROVE  /\ comments[receipted'[j].comment].pr = receipted'[j].pr
                 /\ comments[receipted'[j].comment].sha = receipted'[j].sha
      <3>1. CASE j \in DOMAIN receipted
        BY <1>5, <3>1 DEF HandoffInv, EvidenceProven
      <3>2. CASE j = Len(receipted) + 1
        BY <1>3, <1>5, <3>2 DEF HoldsComment
      <3> QED
        BY <1>5, <3>1, <3>2
    <2> QED
      BY <1>0, <2>1 DEF HandoffInv, EvidenceProven, github, world
  <1>10. HasEvidence(c)'
    BY <1>1, <1>2, <1>6, StaysProven
  <1>11. HasReceipt(c)'
    <2>1. Len(receipted) + 1 \in DOMAIN receipted'
      BY <1>5
    <2>2. receipted'[Len(receipted) + 1].pr = call'[c].pr
          /\ receipted'[Len(receipted) + 1].sha = call'[c].sha
      BY <1>1, <1>5
    <2> QED
      BY <2>1, <2>2 DEF HasReceipt
  <1>12. CallProven(c)' /\ StillMissing(c)'
    BY <1>0, <1>1, <1>2, <1>10, <1>11
       DEF CallProven, StillMissing, At, Proved, Pushed, Opened, Inspected, Evidenced, Receipted,
           world, github
  <1>13. NothingTwice'
    <2>1. ~overlapped => receipted = <<>>
      BY <1>0 DEF HandoffInv, OneByOne, StillMissing, At
    <2> QED
      BY <1>0, <1>5, <2>1 DEF HandoffInv, NothingTwice, github, world
  <1> QED
    BY <1>1, <1>6, <1>8, <1>9, <1>12, <1>13 DEF Carries

LEMMA OpenTicketCarries ==
    ASSUME HandoffInv, NEW c \in Callers, OpenTicket(c)
    PROVE  Carries(c)
  <1>0. /\ UNCHANGED <<worktree, github, recorded, receipted, terminal, world>>
        /\ At(c, "open") /\ ticket' \in {ticket, "PR_OPEN"}
        /\ Throw(c) \/ Goto(c, "record")
    BY DEF OpenTicket
  <1>1. /\ call[c].sha \in ready /\ branch # NoSha /\ call[c].pr \in DOMAIN prs
        /\ call[c].sha \in prs[call[c].pr].was /\ HasEvidence(c) /\ HasReceipt(c)
    BY <1>0, BehindIt DEF At, Inspected, Evidenced, Receipted
  <1>2. Grows
    BY <1>0 DEF Grows, Kept, github, world
  <1>3. Moves(c) /\ CallProven(c)' /\ StillMissing(c)'
    <2>1. CASE Throw(c)
      <3>1. Moves(c) /\ call'[c].at \in {"failed", "idle"}
        BY <2>1, ThrowMoves DEF HandoffInv
      <3> QED
        BY <3>1, Unproven DEF Proved, Pushed, Opened, Inspected, Evidenced, Receipted
    <2>2. CASE Goto(c, "record")
      <3>1. /\ Moves(c) /\ call'[c].at = "record"
            /\ call'[c].sha = call[c].sha /\ call'[c].pr = call[c].pr
        BY <2>2, GotoMoves DEF HandoffInv, Positions
      <3>2. HasEvidence(c)' /\ HasReceipt(c)'
        BY <1>1, <1>2, <3>1, StaysProven
      <3> QED
        BY <1>0, <1>1, <3>1, <3>2
           DEF CallProven, StillMissing, At, Proved, Pushed, Opened, Inspected, Evidenced,
               Receipted, world, github
    <2> QED
      BY <1>0, <2>1, <2>2
  <1>4. call' \in [Callers -> Calls]
    BY <1>3, MovesTyped DEF HandoffInv, TypeOK
  <1>5. TypeOK'
    BY <1>0, <1>4 DEF HandoffInv, TypeOK, worktree, github, world
  <1>6. EvidenceProven' /\ NothingTwice'
    BY <1>0 DEF HandoffInv, EvidenceProven, NothingTwice, github, world
  <1> QED
    BY <1>2, <1>3, <1>5, <1>6 DEF Carries

(* A push, by a call or by somebody else.                                   *)
LEMMA PushedOn ==
    ASSUME HandoffInv, NEW s \in Shas, branch' = s, prs' = Moved(s),
           UNCHANGED <<comments, sqlite, ready, overlapped>>
    PROVE  /\ Grows /\ EvidenceProven' /\ NothingTwice'
           /\ DOMAIN prs' = DOMAIN prs
           /\ prs' \in Seq([state : States, sha : Shas, was : SUBSET Shas])
  <1>1. /\ Moved(s) \in Seq(PullRequests)
        /\ DOMAIN Moved(s) = DOMAIN prs /\ Len(Moved(s)) = Len(prs)
        /\ \A n \in DOMAIN prs :
              /\ prs[n].was \subseteq Moved(s)[n].was
              /\ prs[n].sha \in prs[n].was => Moved(s)[n].sha \in Moved(s)[n].was
    BY MovedShape DEF HandoffInv
  <1>2. s # NoSha
    BY BoundsAssumption DEF Shas, NoSha
  <1>3. Grows
    BY <1>1, <1>2 DEF Grows, Kept, sqlite
  <1>4. EvidenceProven'
    <2>1. \A n \in DOMAIN prs' : prs'[n].sha \in prs'[n].was
      BY <1>1 DEF HandoffInv, EvidenceProven
    <2>2. \A i \in DOMAIN comments' : comments'[i].pr \in DOMAIN prs'
      BY <1>1 DEF HandoffInv, EvidenceProven
    <2>3. ASSUME NEW i \in DOMAIN recorded'
          PROVE  recorded'[i].sha \in ready' /\ recorded'[i].sha \in prs'[recorded'[i].pr].was
      <3>1. recorded[i].pr \in DOMAIN prs /\ i \in DOMAIN recorded /\ recorded' = recorded
        BY <2>3, Lengths DEF HandoffInv, sqlite
      <3> QED
        BY <1>1, <3>1 DEF HandoffInv, EvidenceProven
    <2> QED
      BY <2>1, <2>2, <2>3 DEF HandoffInv, EvidenceProven, sqlite
  <1>5. NothingTwice'
    BY <1>1 DEF HandoffInv, NothingTwice, sqlite
  <1> QED
    BY <1>1, <1>3, <1>4, <1>5 DEF PullRequests

LEMMA PushCarries ==
    ASSUME HandoffInv, NEW c \in Callers, Push(c)
    PROVE  Carries(c)
  <1>0. /\ At(c, "push")
        /\ UNCHANGED <<worktree, comments, sqlite, ready, telemetry, listing, changes, overlapped>>
    BY DEF Push
  <1>1. /\ call[c].sha \in ready /\ call[c].sha \in Shas
        /\ call \in [Callers -> Calls]
    BY <1>0 DEF HandoffInv, TypeOK, CallProven, At, Proved
  <1>2. CASE Throw(c) /\ UNCHANGED <<branch, prs, faults, lost>>
    <2>1. UNCHANGED <<worktree, github, sqlite, world>>
      BY <1>0, <1>2 DEF github, world
    <2> QED
      BY <1>2, <2>1, GivesUp
  <1>3. CASE /\ branch' = call[c].sha /\ prs' = Moved(call[c].sha)
             /\ \/ Goto(c, "reread") /\ UNCHANGED <<faults, lost>>
                \/ faults < MaxFaults /\ faults' = faults + 1 /\ lost' = TRUE /\ Throw(c)
    <2>1. /\ Grows /\ EvidenceProven' /\ NothingTwice'
          /\ DOMAIN prs' = DOMAIN prs
          /\ prs' \in Seq([state : States, sha : Shas, was : SUBSET Shas])
      BY <1>0, <1>1, <1>3, PushedOn
    <2>2. Moves(c) /\ CallProven(c)' /\ StillMissing(c)'
      <3>1. CASE Throw(c)
        <4>1. Moves(c) /\ call'[c].at \in {"failed", "idle"}
          BY <3>1, ThrowMoves DEF HandoffInv
        <4> QED
          BY <4>1, Unproven DEF Proved, Pushed, Opened, Inspected, Evidenced, Receipted
      <3>2. CASE Goto(c, "reread")
        <4>1. Moves(c) /\ call'[c].at = "reread" /\ call'[c].sha = call[c].sha
          BY <3>2, GotoMoves DEF HandoffInv, Positions
        <4>2. branch' # NoSha
          BY <1>1, <1>3, BoundsAssumption DEF Shas, NoSha
        <4> QED
          BY <1>0, <1>1, <4>1, <4>2
             DEF CallProven, StillMissing, At, Proved, Pushed, Opened, Inspected, Evidenced, Receipted
      <3> QED
        BY <1>3, <3>1, <3>2
    <2>3. call' \in [Callers -> Calls]
      BY <1>1, <2>2, MovesTyped
    <2>4. faults' \in 0..MaxFaults /\ lost' \in BOOLEAN
      BY <1>3, Faulty DEF HandoffInv
    <2>5. TypeOK'
      BY <1>0, <1>1, <1>3, <2>1, <2>3, <2>4 DEF HandoffInv, TypeOK, worktree, sqlite
    <2> QED
      BY <2>1, <2>2, <2>5 DEF Carries
  <1> QED
    BY <1>2, <1>3 DEF Push

LEMMA CreateCarries ==
    ASSUME HandoffInv, NEW c \in Callers, Create(c)
    PROVE  Carries(c)
  <1> DEFINE new == [state |-> "OPEN", sha |-> branch, was |-> {branch}]
  <1>0. /\ At(c, "create")
        /\ UNCHANGED <<worktree, branch, comments, sqlite, ready, telemetry, listing, changes, overlapped>>
    BY DEF Create
  <1>1. /\ call[c].sha \in ready /\ branch # NoSha /\ branch \in Shas
        /\ call \in [Callers -> Calls] /\ call[c] \in Calls
        /\ prs \in Seq(PullRequests)
    BY <1>0 DEF HandoffInv, TypeOK, CallProven, At, Proved, Pushed, PullRequests
  <1>2. CASE Throw(c) /\ UNCHANGED <<prs, faults, lost>>
    <2>1. UNCHANGED <<worktree, github, sqlite, world>>
      BY <1>0, <1>2 DEF github, world
    <2> QED
      BY <1>2, <2>1, GivesUp
  <1>3. CASE /\ prs' = Append(prs, new)
             /\ \/ /\ call' = [call EXCEPT ![c].at = "inspect", ![c].pr = Len(prs')]
                   /\ UNCHANGED <<faults, lost>>
                \/ faults < MaxFaults /\ faults' = faults + 1 /\ lost' = TRUE /\ Throw(c)
    <2>1. new \in PullRequests /\ new.sha \in new.was
      BY <1>1 DEF PullRequests, States
    <2>2. /\ prs' \in Seq(PullRequests)
          /\ Len(prs) \in Nat /\ DOMAIN prs = 1..Len(prs)
          /\ Len(prs') = Len(prs) + 1 /\ DOMAIN prs' = 1..(Len(prs) + 1)
          /\ \A n \in DOMAIN prs : prs'[n] = prs[n]
          /\ prs'[Len(prs) + 1] = new
          /\ prs = <<>> => Len(prs') = 1
      <3> HIDE DEF new
      <3> QED
        BY <1>1, <1>3, <2>1, Appended
    <2> HIDE DEF new
    <2>3. DOMAIN prs \subseteq DOMAIN prs'
      BY <2>2
    <2>4. Grows
      BY <1>0, <2>2, <2>3 DEF Grows, Kept, sqlite
    <2>5. Moves(c) /\ CallProven(c)' /\ StillMissing(c)'
      <3>1. CASE Throw(c)
        <4>1. Moves(c) /\ call'[c].at \in {"failed", "idle"}
          BY <3>1, ThrowMoves DEF HandoffInv
        <4> QED
          BY <4>1, Unproven DEF Proved, Pushed, Opened, Inspected, Evidenced, Receipted
      <3>2. CASE call' = [call EXCEPT ![c].at = "inspect", ![c].pr = Len(prs')]
        <4>0. Len(prs') \in Nat /\ Len(prs') \in DOMAIN prs'
          BY <2>2
        <4>1. [call[c] EXCEPT !.at = "inspect", !.pr = Len(prs')] \in Calls
          BY <1>1, <4>0 DEF Calls, Positions
        <4>2. /\ Moves(c) /\ call'[c].at = "inspect" /\ call'[c].pr = Len(prs')
              /\ call'[c].sha = call[c].sha
          BY <1>1, <3>2, <4>1 DEF Moves, Calls
        <4> QED
          BY <1>0, <1>1, <4>0, <4>2
             DEF CallProven, StillMissing, At, Proved, Pushed, Opened, Inspected, Evidenced, Receipted
      <3> QED
        BY <1>3, <3>1, <3>2
    <2>6. call' \in [Callers -> Calls]
      BY <1>1, <2>5, MovesTyped
    <2>7. faults' \in 0..MaxFaults /\ lost' \in BOOLEAN
      BY <1>3, Faulty DEF HandoffInv
    <2>8. /\ recorded \in Seq([pr : DOMAIN prs', sha : Shas])
          /\ receipted \in Seq([pr : DOMAIN prs', sha : Shas, comment : DOMAIN comments, named : Names])
      <3>1. /\ [pr : DOMAIN prs, sha : Shas] \subseteq [pr : DOMAIN prs', sha : Shas]
            /\ [pr : DOMAIN prs, sha : Shas, comment : DOMAIN comments, named : Names]
                  \subseteq [pr : DOMAIN prs', sha : Shas, comment : DOMAIN comments, named : Names]
        BY <2>3
      <3>2. /\ recorded \in Seq([pr : DOMAIN prs, sha : Shas])
            /\ receipted \in Seq([pr : DOMAIN prs, sha : Shas, comment : DOMAIN comments, named : Names])
        BY DEF HandoffInv, TypeOK
      <3> QED
        BY <3>1, <3>2, Widened
    <2>9. TypeOK'
      BY <1>0, <2>2, <2>6, <2>7, <2>8 DEF HandoffInv, TypeOK, worktree, sqlite, PullRequests
    <2>10. EvidenceProven'
      <3>1. ASSUME NEW n \in DOMAIN prs'
            PROVE  prs'[n].sha \in prs'[n].was
        <4>1. CASE n \in DOMAIN prs
          BY <2>2, <4>1 DEF HandoffInv, EvidenceProven
        <4>2. CASE n = Len(prs) + 1
          BY <2>1, <2>2, <4>2
        <4> QED
          BY <2>2, <4>1, <4>2
      <3>2. ASSUME NEW i \in DOMAIN recorded
            PROVE  prs'[recorded[i].pr] = prs[recorded[i].pr]
        BY <2>2, Lengths DEF HandoffInv
      <3> QED
        BY <1>0, <2>3, <3>1, <3>2 DEF HandoffInv, EvidenceProven, sqlite
    <2>11. NothingTwice'
      <3>1. ~overlapped => prs = <<>>
        BY <1>0 DEF HandoffInv, OneByOne, StillMissing
      <3> QED
        BY <1>0, <2>2, <3>1 DEF HandoffInv, NothingTwice, sqlite
    <2> QED
      BY <2>4, <2>5, <2>9, <2>10, <2>11 DEF Carries
  <1> QED
    BY <1>2, <1>3 DEF Create

-----------------------------------------------------------------------------
(* The other steps. *)

LEMMA StartCarries ==
    ASSUME HandoffInv, NEW c \in Callers, Start(c)
    PROVE  /\ TypeOK' /\ EvidenceProven' /\ NothingTwice' /\ Grows
           /\ Moves(c) /\ CallProven(c)' /\ StillMissing(c)'
           /\ ~overlapped' => ~overlapped /\ \A d \in Callers \ {c} : At(d, "idle")
  <1> DEFINE place == IF ticket = "PR_OPEN" THEN "prove" ELSE "revalidate"
  <1> DEFINE retry == (ticket = "PR_OPEN")
  <1>0. /\ UNCHANGED <<worktree, github, sqlite, ready, telemetry, listing, faults, lost, changes>>
        /\ overlapped' = (overlapped \/ \E d \in Callers \ {c} : ~At(d, "idle"))
        /\ call' = [call EXCEPT ![c].at = place, ![c].recovering = retry]
    BY DEF Start
  <1>1. call \in [Callers -> Calls] /\ call[c] \in Calls /\ overlapped \in BOOLEAN
    BY DEF HandoffInv, TypeOK
  <1>2. place \in {"prove", "revalidate"} /\ retry \in BOOLEAN
    OBVIOUS
  <1> HIDE DEF place, retry
  <1>3. [call[c] EXCEPT !.at = place, !.recovering = retry] \in Calls
    BY <1>1, <1>2 DEF Calls, Positions
  <1>4. Moves(c) /\ call'[c].at = place
    BY <1>0, <1>1, <1>3 DEF Moves, Calls
  <1>5. CallProven(c)' /\ StillMissing(c)'
    BY <1>2, <1>4, Unproven DEF Proved, Pushed, Opened, Inspected, Evidenced, Receipted
  <1>6. call' \in [Callers -> Calls]
    BY <1>1, <1>4, MovesTyped
  <1>7. /\ overlapped' \in BOOLEAN
        /\ ~overlapped' => ~overlapped /\ \A d \in Callers \ {c} : At(d, "idle")
    BY <1>0, <1>1
  <1>8. TypeOK'
    BY <1>0, <1>6, <1>7 DEF HandoffInv, TypeOK, worktree, github, sqlite
  <1>9. EvidenceProven' /\ NothingTwice' /\ Grows
    BY <1>0, <1>7 DEF HandoffInv, EvidenceProven, NothingTwice, Grows, Kept, github, sqlite
  <1> QED
    BY <1>4, <1>5, <1>7, <1>8, <1>9

LEMMA CrashCarries ==
    ASSUME HandoffInv, NEW c \in Callers, Crash(c)
    PROVE  Carries(c)
  <1>0. /\ Leave(c) /\ faults < MaxFaults /\ faults' = faults + 1 /\ UNCHANGED lost
        /\ UNCHANGED <<worktree, github, sqlite, ready, telemetry, listing, changes, overlapped>>
    BY DEF Crash
  <1>1. Moves(c) /\ call'[c].at \in {"failed", "idle"}
    BY <1>0, ThrowMoves DEF HandoffInv
  <1>2. CallProven(c)' /\ StillMissing(c)'
    BY <1>1, Unproven DEF Proved, Pushed, Opened, Inspected, Evidenced, Receipted
  <1>3. call' \in [Callers -> Calls]
    BY <1>1, MovesTyped DEF HandoffInv, TypeOK
  <1>4. faults' \in 0..MaxFaults /\ lost' \in BOOLEAN
    BY <1>0, Faulty DEF HandoffInv
  <1>5. TypeOK'
    BY <1>0, <1>3, <1>4 DEF HandoffInv, TypeOK, worktree, github, sqlite
  <1>6. EvidenceProven' /\ NothingTwice' /\ Grows
    BY <1>0 DEF HandoffInv, EvidenceProven, NothingTwice, Grows, Kept, github, sqlite
  <1> QED
    BY <1>1, <1>2, <1>5, <1>6 DEF Carries

(* Closing a pull request changes its state only.                           *)
LEMMA EndedShape ==
    ASSUME TypeOK, EndPullRequest
    PROVE  /\ prs' \in Seq(PullRequests)
           /\ DOMAIN prs' = DOMAIN prs /\ Len(prs') = Len(prs)
           /\ \A n \in DOMAIN prs : prs'[n].was = prs[n].was /\ prs'[n].sha = prs[n].sha
  <1>1. PICK n \in DOMAIN prs, s \in States \ {"OPEN"} : prs' = [prs EXCEPT ![n].state = s]
    BY DEF EndPullRequest
  <1>2. /\ Len(prs) \in Nat /\ DOMAIN prs = 1..Len(prs)
        /\ \A m \in DOMAIN prs : prs[m] \in PullRequests
    BY Lengths
  <1>3. /\ DOMAIN prs' = DOMAIN prs
        /\ \A m \in DOMAIN prs :
              prs'[m] = IF m = n THEN [prs[n] EXCEPT !.state = s] ELSE prs[m]
    BY <1>1
  <1>4. [prs[n] EXCEPT !.state = s] \in PullRequests
    BY <1>2 DEF PullRequests
  <1>5. \A m \in DOMAIN prs :
           prs'[m] \in PullRequests /\ prs'[m].was = prs[m].was /\ prs'[m].sha = prs[m].sha
    BY <1>2, <1>3, <1>4 DEF PullRequests
  <1>6. prs' \in [1..Len(prs) -> PullRequests]
    <2>1. prs \in [1..Len(prs) -> PullRequests]
      <3>1. prs \in Seq(PullRequests)
        BY DEF TypeOK, PullRequests
      <3> QED
        BY <3>1, LenProperties
    <2> QED
      BY <1>1, <1>4, <2>1
  <1>7. prs' \in Seq(PullRequests)
    BY <1>2, <1>6, SeqDef
  <1>8. Len(prs') = Len(prs)
    BY <1>2, <1>3, <1>7, LenProperties
  <1> QED
    BY <1>3, <1>5, <1>7, <1>8

LEMMA ChangeSettles ==
    ASSUME HandoffInv, Change
    PROVE  TypeOK' /\ EvidenceProven' /\ NothingTwice' /\ Grows /\ UNCHANGED call
  <1>0. /\ changes < MaxChanges /\ changes' = changes + 1
        /\ UNCHANGED <<sqlite, call, ready, listing, faults, lost, overlapped>>
    BY DEF Change
  <1>1. /\ telemetry \in 0..MaxChanges /\ changes \in 0..MaxChanges /\ telemetry <= changes
        /\ MaxChanges \in Nat
    BY BoundsAssumption DEF HandoffInv, TypeOK
  <1>2. telemetry' \in {telemetry, telemetry + 1}
    BY DEF Change, MoveWorktree, PushForeign, EndPullRequest, ChangeTelemetry
  <1>3. telemetry' \in 0..MaxChanges /\ changes' \in 0..MaxChanges /\ telemetry' <= changes'
    BY <1>0, <1>1, <1>2
  <1>4. CASE MoveWorktree
    <2>1. TypeOK'
      BY <1>0, <1>3, <1>4 DEF HandoffInv, TypeOK, MoveWorktree, github, sqlite
    <2>2. EvidenceProven' /\ NothingTwice' /\ Grows
      BY <1>0, <1>4
         DEF HandoffInv, EvidenceProven, NothingTwice, Grows, Kept, MoveWorktree, github, sqlite
    <2> QED
      BY <1>0, <2>1, <2>2
  <1>5. CASE PushForeign
    <2>1. PICK s \in Shas : branch' = s /\ prs' = Moved(s)
      BY <1>5 DEF PushForeign
    <2>2. UNCHANGED <<worktree, comments>>
      BY <1>5 DEF PushForeign
    <2>3. /\ Grows /\ EvidenceProven' /\ NothingTwice'
          /\ DOMAIN prs' = DOMAIN prs
          /\ prs' \in Seq([state : States, sha : Shas, was : SUBSET Shas])
      BY <1>0, <2>1, <2>2, PushedOn
    <2>4. TypeOK'
      BY <1>0, <1>3, <2>1, <2>2, <2>3 DEF HandoffInv, TypeOK, worktree, sqlite
    <2> QED
      BY <1>0, <2>3, <2>4
  <1>6. CASE EndPullRequest
    <2>1. /\ prs' \in Seq(PullRequests)
          /\ DOMAIN prs' = DOMAIN prs /\ Len(prs') = Len(prs)
          /\ \A n \in DOMAIN prs : prs'[n].was = prs[n].was /\ prs'[n].sha = prs[n].sha
      BY <1>6, EndedShape DEF HandoffInv
    <2>2. UNCHANGED <<worktree, branch, comments>>
      BY <1>6 DEF EndPullRequest
    <2>3. TypeOK'
      BY <1>0, <1>3, <2>1, <2>2 DEF HandoffInv, TypeOK, worktree, sqlite, PullRequests
    <2>4. Grows /\ NothingTwice'
      BY <1>0, <2>1, <2>2 DEF HandoffInv, NothingTwice, Grows, Kept, sqlite
    <2>5. EvidenceProven'
      <3>1. ASSUME NEW i \in DOMAIN recorded
            PROVE  prs'[recorded[i].pr].was = prs[recorded[i].pr].was
        BY <2>1, Lengths DEF HandoffInv
      <3> QED
        BY <1>0, <2>1, <2>2, <3>1 DEF HandoffInv, EvidenceProven, sqlite
    <2> QED
      BY <1>0, <2>3, <2>4, <2>5
  <1>7. CASE ChangeTelemetry
    <2>1. TypeOK'
      BY <1>0, <1>3, <1>7 DEF HandoffInv, TypeOK, ChangeTelemetry, worktree, github, sqlite
    <2>2. EvidenceProven' /\ NothingTwice' /\ Grows
      BY <1>0, <1>7
         DEF HandoffInv, EvidenceProven, NothingTwice, Grows, Kept, ChangeTelemetry, github, sqlite
    <2> QED
      BY <1>0, <2>1, <2>2
  <1> QED
    BY <1>4, <1>5, <1>6, <1>7 DEF Change

LEMMA StepCarries ==
    ASSUME HandoffInv, NEW c \in Callers, Step(c)
    PROVE  Carries(c)
  BY RevalidateCarries, CatchCarries, TerminalizeCarries, RecordCarries, ProveCarries,
     LookupCarries, PushCarries, RereadCarries, ReproveCarries, FindCarries, CreateCarries,
     InspectCarries, FindEvidenceCarries, AppendEvidenceCarries, FindReceiptCarries,
     ListCommentsCarries, PostCarries, AppendReceiptCarries, OpenTicketCarries
     DEF Step

-----------------------------------------------------------------------------
(* The invariant. *)

LEMMA OthersProven ==
    ASSUME HandoffInv, Grows, NEW d \in Callers, call'[d] = call[d]
    PROVE  CallProven(d)'
  <1>1. CallProven(d)
    BY DEF HandoffInv
  <1>2. HoldsComment(d) => HoldsComment(d)'
    BY DEF HoldsComment, Grows, Kept
  <1>3. /\ call[d].sha \in ready => call'[d].sha \in ready'
        /\ branch # NoSha => branch' # NoSha
        /\ call[d].pr \in DOMAIN prs => call'[d].pr \in DOMAIN prs'
        /\ call[d].pr \in DOMAIN prs /\ call[d].sha \in prs[call[d].pr].was
              => call'[d].sha \in prs'[call'[d].pr].was
        /\ HasEvidence(d) => HasEvidence(d)'
        /\ HasReceipt(d) => HasReceipt(d)'
    BY StaysProven
  <1>4. call[d].at \in Inspected => call[d].at \in Opened
    BY DEF Opened
  <1> QED
    BY <1>1, <1>2, <1>3, <1>4 DEF CallProven, At

(* The evidence RaisedIsProven asks for.                                    *)
Raisable ==
    \E i \in DOMAIN recorded, j \in DOMAIN receipted :
        /\ recorded[i].sha \in ready /\ recorded[i].sha \in prs[recorded[i].pr].was
        /\ receipted[j].pr = recorded[i].pr /\ receipted[j].sha = recorded[i].sha
        /\ comments[receipted[j].comment].pr = recorded[i].pr
        /\ comments[receipted[j].comment].sha = recorded[i].sha

LEMMA ReceiptedIsRaisable ==
    ASSUME HandoffInv, NEW c \in Callers, call[c].at \in Receipted
    PROVE  Raisable
  <1>1. HasEvidence(c) /\ HasReceipt(c)
    BY BehindIt DEF Inspected, Evidenced
  <1>2. PICK i \in DOMAIN recorded : recorded[i].pr = call[c].pr /\ recorded[i].sha = call[c].sha
    BY <1>1 DEF HasEvidence, Evidence
  <1>3. PICK j \in DOMAIN receipted : receipted[j].pr = call[c].pr /\ receipted[j].sha = call[c].sha
    BY <1>1 DEF HasReceipt
  <1> QED
    BY <1>2, <1>3 DEF Raisable, HandoffInv, EvidenceProven

LEMMA RaisableStays ==
    ASSUME HandoffInv, Grows, Raisable
    PROVE  Raisable'
  <1>1. PICK i \in DOMAIN recorded, j \in DOMAIN receipted :
           /\ recorded[i].sha \in ready /\ recorded[i].sha \in prs[recorded[i].pr].was
           /\ receipted[j].pr = recorded[i].pr /\ receipted[j].sha = recorded[i].sha
           /\ comments[receipted[j].comment].pr = recorded[i].pr
           /\ comments[receipted[j].comment].sha = recorded[i].sha
    BY DEF Raisable
  <1>2. recorded[i].pr \in DOMAIN prs /\ receipted[j].comment \in DOMAIN comments
    BY Lengths DEF HandoffInv
  <1>3. /\ i \in DOMAIN recorded' /\ recorded'[i] = recorded[i]
        /\ j \in DOMAIN receipted' /\ receipted'[j] = receipted[j]
        /\ comments'[receipted[j].comment] = comments[receipted[j].comment]
        /\ prs[recorded[i].pr].was \subseteq prs'[recorded[i].pr].was
        /\ ready' = ready
    BY <1>2 DEF Grows, Kept
  <1> QED
    BY <1>1, <1>3 DEF Raisable

LEMMA RaisedStaysProven ==
    ASSUME HandoffInv, Grows,
           \/ ticket' = "PR_OPEN" \/ terminal' = "PR_RAISED"
                 => ticket = "PR_OPEN" \/ terminal = "PR_RAISED"
           \/ \E c \in Callers : call[c].at \in Receipted
    PROVE  RaisedIsProven'
  <1>1. RaisedIsProven <=> (ticket = "PR_OPEN" \/ terminal = "PR_RAISED" => Raisable)
    BY DEF RaisedIsProven, Raisable
  <1>2. RaisedIsProven' <=> (ticket' = "PR_OPEN" \/ terminal' = "PR_RAISED" => Raisable')
    BY DEF RaisedIsProven, Raisable
  <1> QED
    BY <1>1, <1>2, ReceiptedIsRaisable, RaisableStays DEF HandoffInv

LEMMA InitInv ==
    ASSUME Init
    PROVE  HandoffInv
  <1>1. MaxSha \in Nat \ {0} /\ MaxFaults \in Nat /\ MaxChanges \in Nat
    BY BoundsAssumption
  <1>2. 1 \in Shas /\ 0 \in 0..MaxChanges /\ 0 \in 0..MaxFaults
    BY <1>1 DEF Shas
  <1>3. Idle \in Calls
    BY <1>2 DEF Idle, Calls, Positions, Names
  <1>4. call \in [Callers -> Calls]
    BY <1>3 DEF Init
  <1>5. /\ prs = <<>> /\ comments = <<>> /\ recorded = <<>> /\ receipted = <<>>
        /\ DOMAIN prs = {} /\ DOMAIN comments = {} /\ DOMAIN recorded = {} /\ DOMAIN receipted = {}
        /\ Len(prs) = 0 /\ Len(comments) = 0 /\ Len(recorded) = 0 /\ Len(receipted) = 0
    BY DEF Init
  <1>6. ASSUME NEW S
        PROVE  <<>> \in Seq(S)
    BY EmptySeq
  <1>7. /\ prs \in Seq([state : States, sha : Shas, was : SUBSET Shas])
        /\ comments \in Seq(Receipts)
        /\ recorded \in Seq([pr : DOMAIN prs, sha : Shas])
        /\ receipted \in Seq([pr : DOMAIN prs, sha : Shas, comment : DOMAIN comments, named : Names])
    BY <1>5, <1>6
  <1>8. TypeOK
    <2>1. /\ head \in Shas /\ clean \in BOOLEAN /\ ready \in SUBSET Shas
          /\ branch \in Shas \cup {NoSha}
          /\ lost \in BOOLEAN /\ overlapped \in BOOLEAN /\ listing \in Names
      BY <1>2 DEF Init
    <2>2. ticket = "VERIFYING" /\ terminal = "none"
      BY DEF Init
    <2>3. /\ telemetry \in 0..MaxChanges /\ changes \in 0..MaxChanges /\ telemetry <= changes
          /\ faults \in 0..MaxFaults
      BY <1>2 DEF Init
    <2> QED
      BY <1>4, <1>7, <2>1, <2>2, <2>3 DEF TypeOK
  <1>9. ASSUME NEW c \in Callers
        PROVE  CallProven(c) /\ StillMissing(c) /\ At(c, "idle")
    <2>1. call[c].at = "idle"
      BY DEF Init, Idle
    <2> QED
      BY <2>1 DEF CallProven, StillMissing, At, Proved, Pushed, Opened, Inspected, Evidenced,
                  Receipted
  <1>10. OneByOne
    BY <1>9 DEF OneByOne
  <1>11. EvidenceProven /\ NothingTwice
    BY <1>5 DEF EvidenceProven, NothingTwice
  <1>12. RaisedIsProven
    BY DEF Init, RaisedIsProven
  <1> QED
    BY <1>8, <1>9, <1>10, <1>11, <1>12 DEF HandoffInv

(* A step of a call is taken while the call is under way, and keeps what    *)
(* the others have proven.                                                  *)
LEMMA CallStep ==
    ASSUME HandoffInv, NEW c \in Callers, Start(c) \/ Step(c) \/ Crash(c)
    PROVE  HandoffInv'
  <1>1. /\ TypeOK' /\ EvidenceProven' /\ NothingTwice' /\ Grows /\ Moves(c) /\ CallProven(c)'
        /\ ~overlapped' => StillMissing(c)' /\ ~overlapped
                           /\ \A d \in Callers \ {c} : At(d, "idle")
    <2>1. CASE Start(c)
      BY <2>1, StartCarries
    <2>2. CASE Step(c) \/ Crash(c)
      <3>1. ~At(c, "idle") /\ overlapped' = overlapped
        BY <2>2 DEF Step, Crash, Revalidate, Catch, Terminalize, Record, Prove, Lookup, Push,
                    Reread, Reprove, Find, Create, Inspect, FindEvidence, AppendEvidence,
                    FindReceipt, ListComments, Post, AppendReceipt, OpenTicket, At, world
      <3>2. ~overlapped => \A d \in Callers \ {c} : At(d, "idle")
        BY <3>1 DEF HandoffInv, OneByOne
      <3>3. Carries(c)
        BY <2>2, StepCarries, CrashCarries
      <3> QED
        BY <3>1, <3>2, <3>3 DEF Carries
    <2> QED
      BY <2>1, <2>2
  <1>2. \A d \in Callers \ {c} : call'[d] = call[d]
    BY <1>1, MovesTyped DEF HandoffInv, TypeOK
  <1>3. \A d \in Callers : CallProven(d)'
    BY <1>1, <1>2, OthersProven
  <1>4. OneByOne'
    <2>1. SUFFICES ASSUME ~overlapped'
                   PROVE  /\ \A d, e \in Callers : ~At(d, "idle")' /\ ~At(e, "idle")' => d = e
                          /\ \A d \in Callers : StillMissing(d)'
      BY DEF OneByOne
    <2>2. \A d \in Callers \ {c} : At(d, "idle")'
      BY <1>1, <1>2, <2>1 DEF At
    <2>3. \A d \in Callers \ {c} : StillMissing(d)'
      BY <2>2, Unproven DEF At, Proved, Pushed, Opened, Inspected, Evidenced, Receipted
    <2> QED
      BY <1>1, <2>1, <2>2, <2>3
  <1>5. RaisedIsProven'
    <2>1. \/ ticket' = "PR_OPEN" \/ terminal' = "PR_RAISED"
                => ticket = "PR_OPEN" \/ terminal = "PR_RAISED"
          \/ call[c].at \in Receipted
      <3>1. CASE OpenTicket(c) \/ Record(c)
        BY <3>1 DEF OpenTicket, Record, At, Receipted
      <3>2. CASE Terminalize(c)
        BY <3>2 DEF Terminalize
      <3>3. CASE Start(c) \/ Crash(c)
        BY <3>3 DEF Start, Crash, sqlite
      <3>4. CASE \/ Revalidate(c) \/ Catch(c) \/ Prove(c) \/ Lookup(c) \/ Push(c) \/ Reread(c)
                 \/ Reprove(c) \/ Find(c) \/ Create(c) \/ Inspect(c) \/ FindEvidence(c)
                 \/ AppendEvidence(c) \/ FindReceipt(c) \/ ListComments(c) \/ Post(c)
                 \/ AppendReceipt(c)
        BY <3>4 DEF Revalidate, Catch, Prove, Lookup, Push, Reread, Reprove, Find, Create,
                    Inspect, FindEvidence, AppendEvidence, FindReceipt, ListComments, Post,
                    AppendReceipt, sqlite
      <3> QED
        BY <3>1, <3>2, <3>3, <3>4 DEF Step
    <2> QED
      BY <1>1, <2>1, RaisedStaysProven
  <1> QED
    BY <1>1, <1>3, <1>4, <1>5 DEF HandoffInv

LEMMA NextInv ==
    ASSUME HandoffInv, [Next]_vars
    PROVE  HandoffInv'
  <1>1. CASE \E c \in Callers : Start(c) \/ Step(c) \/ Crash(c)
    BY <1>1, CallStep
  <1>2. CASE Change
    <2>1. TypeOK' /\ EvidenceProven' /\ NothingTwice' /\ Grows /\ UNCHANGED call
      BY <1>2, ChangeSettles
    <2>2. UNCHANGED <<sqlite, overlapped>>
      BY <1>2 DEF Change
    <2>3. \A d \in Callers : CallProven(d)'
      BY <2>1, OthersProven
    <2>4. RaisedIsProven'
      BY <2>1, <2>2, RaisedStaysProven DEF sqlite
    <2>5. prs = <<>> => prs' = <<>>
      <3>1. /\ prs' \in Seq([state : States, sha : Shas, was : SUBSET Shas])
            /\ prs \in Seq([state : States, sha : Shas, was : SUBSET Shas])
        BY <2>1 DEF HandoffInv, TypeOK
      <3>2. prs = <<>> => Len(prs') = 0
        <4>1. CASE EndPullRequest
          BY <4>1, <3>1, EndedShape, EmptySeq DEF HandoffInv
        <4>2. CASE PushForeign
          BY <4>2, <3>1, MovedShape, EmptySeq DEF HandoffInv, PushForeign
        <4>3. CASE MoveWorktree \/ ChangeTelemetry
          BY <4>3, <3>1, EmptySeq DEF MoveWorktree, ChangeTelemetry, github
        <4> QED
          BY <1>2, <4>1, <4>2, <4>3 DEF Change
      <3> QED
        BY <3>1, <3>2, EmptySeq
    <2>6. comments' = comments
      BY <1>2 DEF Change, MoveWorktree, PushForeign, EndPullRequest, ChangeTelemetry, github
    <2>7. OneByOne'
      BY <2>1, <2>2, <2>5, <2>6 DEF HandoffInv, OneByOne, StillMissing, At, sqlite
    <2> QED
      BY <2>1, <2>3, <2>4, <2>7 DEF HandoffInv
  <1>3. CASE UNCHANGED vars
    <2>1. /\ TypeOK' /\ EvidenceProven' /\ RaisedIsProven' /\ NothingTwice'
      BY <1>3 DEF HandoffInv, TypeOK, EvidenceProven, RaisedIsProven, NothingTwice, vars,
                  worktree, github, sqlite, world
    <2>2. Grows /\ UNCHANGED <<call, prs, comments, recorded, receipted, overlapped>>
      BY <1>3 DEF Grows, Kept, vars, github, sqlite, world
    <2>3. \A d \in Callers : CallProven(d)'
      BY <2>2, OthersProven
    <2>4. OneByOne'
      BY <2>2 DEF HandoffInv, OneByOne, StillMissing, At
    <2> QED
      BY <2>1, <2>3, <2>4 DEF HandoffInv
  <1> QED
    BY <1>1, <1>2, <1>3 DEF Next

(* The invariant holds in every state, however calls overlap, die and are   *)
(* repeated, and whatever others do to the worktree, the branch and the     *)
(* pull request.                                                            *)
THEOREM Invariance == Spec => []HandoffInv
  <1>1. Init => HandoffInv
    BY InitInv
  <1>2. HandoffInv /\ [Next]_vars => HandoffInv'
    BY NextInv
  <1> QED
    BY <1>1, <1>2, PTL DEF Spec

(* Every variable keeps its type: no evidence names a pull request or a     *)
(* comment that does not exist (createGitHubPullRequest).                   *)
THEOREM TypeCorrect == Spec => []TypeOK
  <1>1. HandoffInv => TypeOK
    BY DEF HandoffInv
  <1> QED
    BY <1>1, Invariance, PTL

(* A ticket is PR_OPEN, or its execution PR_RAISED, only with evidence of a *)
(* ready commit the pull request has really been at and of one receipt of   *)
(* that commit on it: for any number of overlapping calls, crashes, lost    *)
(* answers and changes by others (createGitHubPullRequest, executeTicket).  *)
THEOREM RaisedAlwaysProven == Spec => []RaisedIsProven
  <1>1. HandoffInv => RaisedIsProven
    BY DEF HandoffInv
  <1> QED
    BY <1>1, Invariance, PTL

(* Calls that die or lose an answer anywhere, any number of times, and are  *)
(* repeated one after the other, publish one pull request, one receipt and  *)
(* one evidence of each (createGitHubPullRequest).                          *)
THEOREM NothingPublishedTwice == Spec => []NothingTwice
  <1>1. HandoffInv => NothingTwice
    BY DEF HandoffInv
  <1> QED
    BY <1>1, Invariance, PTL

(* What has been written to GitHub or recorded in SQLite is never taken     *)
(* back or rewritten by any step: a call's proof outlives everybody else's  *)
(* steps (the append-only events of persistence, and a pull request that    *)
(* keeps having been at the commits it was at).                             *)
THEOREM NothingWrittenIsLost == Spec => [][Grows]_vars
  <1>1. ASSUME HandoffInv, [Next]_vars
        PROVE  [Grows]_vars
    <2>1. CASE \E c \in Callers : Start(c) \/ Step(c) \/ Crash(c)
      BY <1>1, <2>1, StartCarries, StepCarries, CrashCarries DEF Carries
    <2>2. CASE Change
      BY <1>1, <2>2, ChangeSettles
    <2> QED
      BY <1>1, <2>1, <2>2 DEF Next
  <1> QED
    BY <1>1, Invariance, PTL DEF Spec
=============================================================================
