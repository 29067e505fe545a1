--------------------------- MODULE CandidateProofs ---------------------------
(***************************************************************************)
(* What Candidate guarantees for any commands, limit of repairs, commits,  *)
(* crashes and moves of the worktree.                                      *)
(***************************************************************************)
EXTENDS Candidate, SequenceTheorems, FiniteSetTheorems, WellFoundedInduction, TLAPS

(* Where a call is. *)
InHand     == {"prepared", "repairing", "repaired", "targeted"}
Repairing  == {"route"} \cup InHand
Attempting == {"repair"} \cup Repairing
Evaluating == {"snapshot", "contract", "engineering", "reviewing", "evaluate"}
First      == {"head", "verify", "reviews"}
Passed     == {"passed", "expose", "ready"}

(* The call works on a commit; it comes from another one only while a       *)
(* repaired candidate is evaluated.                                         *)
CallOK ==
    /\ call.at \notin {"idle", "head", "passed"} => call.sha \in Shas
    /\ call.at \in {"targeted", "final"} => call.from \in Shas
    /\ call.at \notin {"targeted", "final"} \cup Evaluating => call.from = NoSha
    /\ call.from # NoSha \/ call.at \in Attempting => call.attempt > 0

(* The launched repairs belong to different attempts, and the evidence      *)
(* misses at most the last.                                                 *)
Spread ==
    /\ \A i, j \in Launched : repairs[i].attempt = repairs[j].attempt => i = j
    /\ \A i \in Launched \cap Unevidenced : i = Len(repairs)

(* The last run belongs to the attempt in hand; it is launched once.        *)
OneInHand ==
    /\ call.at \in InHand =>
          Len(repairs) \in DOMAIN repairs /\ repairs[Len(repairs)].attempt = call.attempt
    /\ call.at = "prepared" =>
          Len(repairs) \in Unevidenced /\ repairs[Len(repairs)].status = "CREATED"
    /\ call.at = "repairing" => Len(repairs) \in Launched

(* A repair run and its attempt: every launched run but the last is named by*)
(* the evidence of an attempt of its own, so the attempts used are beyond   *)
(* those of all launched runs when the next one is prepared.                *)
Accounted ==
    /\ \A i \in DOMAIN log : log[i].run <= Len(repairs)
    /\ call.at # "idle" => ticket = IF call.at \in Repairing THEN "REPAIRING" ELSE "VERIFYING"
    /\ ticket = "VERIFYING" \/ call.at \in {"route", "prepared"} => Launched \cap Unevidenced = {}
    /\ ticket # "NEEDS_HUMAN" =>
          /\ AttemptsUsed <= Limit
          /\ \A i \in Launched \ Unevidenced : repairs[i].attempt <= AttemptsUsed
    /\ call.at \notin {"idle"} \cup Passed => AttemptsUsed <= call.attempt
    /\ call.at \in Attempting => AttemptsUsed < call.attempt
    /\ Spread
    /\ OneInHand

(* What was assessed is still so when it is exposed.                        *)
Earned == call.at = "expose" => Verified(call.sha) /\ Reviewed(call.sha)

(* Without a crash there is one call: it evaluates the first candidate      *)
(* before it records anything, and passes once, at its end.                 *)
OneCall ==
    /\ call.at = "idle" => log = <<>> \/ ticket = "NEEDS_HUMAN"
    /\ call.at \in First \cup Evaluating /\ call.from = NoSha => log = <<>>
    /\ call.at \notin {"idle"} \cup Passed => \A i \in DOMAIN log : log[i].outcome # "PASSED"
    /\ \A i, j \in DOMAIN log :
          log[i].outcome = "PASSED" /\ log[i].to = NoSha => log[j].outcome # "REPAIRED"
    /\ ready # <<>> => call.at = "ready"

Shown ==
    /\ \A i \in DOMAIN log :
          log[i].outcome = "PASSED" /\ log[i].to # NoSha => log[i].attempt > 0
    /\ faults = 0 => OneCall
    /\ RepairsAreShown

CandidateInv == TypeOK /\ CallOK /\ Accounted /\ Earned /\ Shown

-----------------------------------------------------------------------------
(* The latest of a set of numbers. *)

(* A set of numbers below a bound has a latest one, or none and that is 0.  *)
LEMMA LatestOf ==
    ASSUME NEW n \in Nat, NEW S \in SUBSET (0..n)
    PROVE  /\ Latest(S) \in S \cup {0}
           /\ \A m \in S : m <= Latest(S)
           /\ Latest(S) \in Nat
  <1> DEFINE Bounds == {b \in Nat : \A m \in S : m <= b}
  <1>1. n \in Bounds
    OBVIOUS
  <1>2. PICK b \in Bounds : \A c \in Bounds : <<c, b>> \notin OpToRel(<, Nat)
    <2>1. Bounds \in SUBSET Nat /\ Bounds # {}
      BY <1>1
    <2> HIDE DEF Bounds
    <2> QED
      BY <2>1, NatLessThanWellFounded, WFMin
  <1>3. \A c \in Bounds : ~(c < b)
    <2> SUFFICES ASSUME NEW c \in Bounds PROVE ~(c < b)
      OBVIOUS
    <2> DEFINE e == <<c, b>>
    <2>1. e \in Nat \X Nat /\ e[1] = c /\ e[2] = b
      BY <1>2
    <2>2. e \notin OpToRel(<, Nat)
      BY <1>2
    <2> HIDE DEF e, Bounds
    <2> QED
      BY <2>1, <2>2 DEF OpToRel
  <1>4. b \in S \cup {0}
    <2> SUFFICES ASSUME b \notin S, b # 0 PROVE FALSE
      OBVIOUS
    <2>1. b - 1 \in Bounds
      OBVIOUS
    <2> QED
      BY <1>3, <2>1
  <1>5. b \in Numbers(S) /\ \A m \in S : m <= b
    BY <1>4 DEF Numbers
  <1>6. Latest(S) \in Numbers(S) /\ \A m \in S : m <= Latest(S)
    BY <1>5 DEF Latest
  <1>7. S \cup {0} \subseteq Nat
    OBVIOUS
  <1> QED
    BY <1>6, <1>7 DEF Numbers

-----------------------------------------------------------------------------
(* Sequences. *)

(* Appending adds one element at the end and keeps the others.              *)
LEMMA Appended ==
    ASSUME NEW S, NEW s \in Seq(S), NEW e \in S
    PROVE  /\ Append(s, e) \in Seq(S) /\ Append(s, e) # <<>>
           /\ Len(s) \in Nat /\ Len(Append(s, e)) = Len(s) + 1
           /\ DOMAIN s = 1..Len(s) /\ DOMAIN Append(s, e) = 1..(Len(s) + 1)
           /\ \A i \in DOMAIN s : s[i] \in S /\ Append(s, e)[i] = s[i]
           /\ Append(s, e)[Len(s) + 1] = e
  <1>1. /\ Append(s, e) \in Seq(S) /\ Len(Append(s, e)) = Len(s) + 1
        /\ \A i \in 1..Len(s) : Append(s, e)[i] = s[i]
        /\ Append(s, e)[Len(s) + 1] = e
    BY AppendProperties
  <1>2. /\ Len(s) \in Nat /\ DOMAIN s = 1..Len(s)
        /\ DOMAIN Append(s, e) = 1..Len(Append(s, e))
        /\ \A i \in 1..Len(s) : s[i] \in S
    BY <1>1, LenProperties, ElementOfSeq
  <1>3. Append(s, e) # <<>>
    <2>1. Len(Append(s, e)) # 0
      BY <1>1, <1>2
    <2> QED
      BY <2>1, EmptySeq
  <1> QED
    BY <1>1, <1>2, <1>3
(* Changing one element, if there is one at that place.                     *)
LEMMA Changed ==
    ASSUME NEW S, NEW s \in Seq(S), NEW i, NEW e, i \in DOMAIN s => e \in S
    PROVE  /\ [s EXCEPT ![i] = e] \in Seq(S)
           /\ Len([s EXCEPT ![i] = e]) = Len(s)
  <1>1. CASE i \in DOMAIN s
    <2>1. DOMAIN s = 1..Len(s)
      BY LenProperties
    <2> QED
      BY <1>1, <2>1, ExceptSeq
  <1>2. CASE i \notin DOMAIN s
    <2>1. s = [j \in DOMAIN s |-> s[j]]
      BY LenProperties
    <2>2. [s EXCEPT ![i] = e] = s
      BY <1>2, <2>1
    <2> QED
      BY <2>2
  <1> QED
    BY <1>1, <1>2

-----------------------------------------------------------------------------
(* Types, and what is logged. *)

Calls == [at : Positions, attempt : 0..Limit, fallbacks : 0..Limit,
          from : Shas \cup {NoSha}, sha : Shas \cup {NoSha}, snap : Shas \cup {NoSha},
          failed : SUBSET Commands, blockers : SUBSET (Commands \cup Axes), axis : Axes,
          old : [Axes -> Reports \cup {"unset"}], got : [Axes -> Reports \cup {"unset"}]]

RepairRuns == [base : Shas, attempt : 1..Limit, status : Statuses]
ReviewRuns == [axis : Axes, attempt : 0..Limit, candidate : Shas, sha : Shas,
               says : Reports \cup {"RUNNING"}]
Marks      == [sha : Shas, repaired : BOOLEAN]

LEMMA Typed ==
    TypeOK <=> /\ head \in Shas /\ clean \in BOOLEAN
               /\ ticket \in {"VERIFYING", "REPAIRING", "NEEDS_HUMAN"}
               /\ log \in Seq(Entries) /\ repairs \in Seq(RepairRuns)
               /\ reviews \in Seq(ReviewRuns) /\ ready \in Seq(Marks)
               /\ call \in Calls
               /\ faults \in 0..MaxFaults /\ moves \in 0..MaxMoves
  BY DEF TypeOK, Calls, RepairRuns, ReviewRuns, Marks

LEMMA TypedNext ==
    TypeOK' <=> /\ head' \in Shas /\ clean' \in BOOLEAN
                /\ ticket' \in {"VERIFYING", "REPAIRING", "NEEDS_HUMAN"}
                /\ log' \in Seq(Entries) /\ repairs' \in Seq(RepairRuns)
                /\ reviews' \in Seq(ReviewRuns) /\ ready' \in Seq(Marks)
                /\ call' \in Calls
                /\ faults' \in 0..MaxFaults /\ moves' \in 0..MaxMoves
  BY DEF TypeOK, Calls, RepairRuns, ReviewRuns, Marks

LEMMA ShasAreNumbers ==
    Shas \subseteq Nat \ {0} /\ NoSha \notin Shas /\ 1 \in Shas
  BY BoundsAssumption DEF Shas, NoSha

LEMMA NoneTyped ==
    None \in [Axes -> Reports \cup {"unset"}]
  BY DEF None

LEMMA IdleTyped ==
    /\ Idle \in Calls
    /\ Idle.at = "idle" /\ Idle.from = NoSha /\ Idle.sha = NoSha /\ Idle.attempt = 0
  BY NoneTyped, BoundsAssumption DEF Idle, Calls, Positions, Axes

(* The attempts used are at least those of every event.                     *)
LEMMA Used ==
    ASSUME NEW l \in Seq(Entries)
    PROVE  LET used == Latest({l[i].attempt : i \in DOMAIN l})
           IN  /\ used \in Nat
               /\ \A i \in DOMAIN l : l[i] \in Entries /\ l[i].attempt <= used
               /\ used # 0 => \E i \in DOMAIN l : l[i].attempt = used
  <1> DEFINE S == {l[i].attempt : i \in DOMAIN l}
  <1>1. \A i \in DOMAIN l : l[i] \in Entries
    BY LenProperties, ElementOfSeq
  <1>2. S \in SUBSET (0..(Limit + 1)) /\ Limit + 1 \in Nat
    BY <1>1, BoundsAssumption DEF Entries
  <1>3. Latest(S) \in S \cup {0} /\ (\A m \in S : m <= Latest(S)) /\ Latest(S) \in Nat
    <2> HIDE DEF S
    <2> QED
      BY <1>2, LatestOf
  <1> QED
    BY <1>1, <1>3

LEMMA Logged ==
    ASSUME log \in Seq(Entries)
    PROVE  /\ AttemptsUsed \in Nat
           /\ \A i \in DOMAIN log : log[i] \in Entries /\ log[i].attempt <= AttemptsUsed
           /\ AttemptsUsed # 0 => \E i \in DOMAIN log : log[i].attempt = AttemptsUsed
  BY Used DEF AttemptsUsed

(* One more event.                                                          *)
LEMMA Recorded ==
    ASSUME log \in Seq(Entries), NEW e \in Entries, log' = Append(log, e),
           DOMAIN repairs' = DOMAIN repairs
    PROVE  /\ log' \in Seq(Entries)
           /\ AttemptsUsed' \in Nat
           /\ AttemptsUsed <= AttemptsUsed' /\ e.attempt <= AttemptsUsed'
           /\ AttemptsUsed' \in {AttemptsUsed, e.attempt}
           /\ Unevidenced' = Unevidenced \ {e.run}
  <1>1. /\ log' \in Seq(Entries) /\ Len(log) \in Nat
        /\ DOMAIN log = 1..Len(log) /\ DOMAIN log' = 1..(Len(log) + 1)
        /\ \A i \in DOMAIN log : log'[i] = log[i]
        /\ log'[Len(log) + 1] = e
    BY Appended
  <1>2. /\ AttemptsUsed' \in Nat
        /\ \A i \in DOMAIN log' : log'[i].attempt <= AttemptsUsed'
        /\ AttemptsUsed' # 0 => \E i \in DOMAIN log' : log'[i].attempt = AttemptsUsed'
    <2>1. log' \in Seq(Entries)
      BY <1>1
    <2> QED
      BY <2>1, Used DEF AttemptsUsed
  <1>3. /\ AttemptsUsed \in Nat
        /\ \A i \in DOMAIN log : log[i].attempt <= AttemptsUsed
        /\ AttemptsUsed # 0 => \E i \in DOMAIN log : log[i].attempt = AttemptsUsed
    BY Logged
  <1>4. e.attempt \in Nat /\ e.attempt <= AttemptsUsed'
    <2>1. e.attempt \in 0..(Limit + 1) /\ Limit \in Nat
      BY BoundsAssumption DEF Entries
    <2>2. Len(log) + 1 \in DOMAIN log'
      BY <1>1
    <2> QED
      BY <1>1, <1>2, <2>1, <2>2
  <1>5. AttemptsUsed <= AttemptsUsed'
    BY <1>1, <1>2, <1>3
  <1>6. AttemptsUsed' \in {AttemptsUsed, e.attempt}
    <2>1. CASE AttemptsUsed' = 0
      BY <1>2, <1>3, <1>5, <2>1
    <2>2. CASE AttemptsUsed' # 0
      <3>1. PICK i \in DOMAIN log' : log'[i].attempt = AttemptsUsed'
        BY <1>2, <2>2
      <3>2. CASE i \in DOMAIN log
        BY <1>1, <1>2, <1>3, <1>5, <3>1, <3>2
      <3>3. CASE i = Len(log) + 1
        BY <1>1, <3>1, <3>3
      <3> QED
        BY <1>1, <3>2, <3>3
    <2> QED
      BY <2>1, <2>2
  <1>7. Unevidenced' = Unevidenced \ {e.run}
    <2>1. {log'[i].run : i \in DOMAIN log'} = {log[i].run : i \in DOMAIN log} \cup {e.run}
      BY <1>1
    <2> QED
      BY <2>1 DEF Unevidenced
  <1> QED
    BY <1>1, <1>2, <1>4, <1>5, <1>6, <1>7

-----------------------------------------------------------------------------
(* Kinds of steps. *)

RunsKept ==
    /\ DOMAIN repairs' = DOMAIN repairs /\ Len(repairs') = Len(repairs)
    /\ Launched' = Launched
    /\ \A i \in DOMAIN repairs : repairs'[i].attempt = repairs[i].attempt

Kept     == UNCHANGED <<log, ready, faults>> /\ RunsKept

(* Around the call; what was reviewed stays so.                             *)
Rests  == /\ UNCHANGED <<ticket, call>> /\ Kept
          /\ call.at = "prepared" => repairs' = repairs
          /\ \A s \in Shas : Reviewed(s) => Reviewed(s)'
Dies   == /\ call' = Idle /\ faults' = faults + 1
          /\ UNCHANGED <<ticket, log, ready>> /\ RunsKept

(* A call begins; it ends with an event or without one, for a human.        *)
Enters  == /\ call.at = "idle" /\ ticket # "NEEDS_HUMAN" /\ Launched \cap Unevidenced = {}
           /\ ticket' = "VERIFYING" /\ Kept
           /\ call'.at = "head" /\ call'.attempt = AttemptsUsed
Ends    == /\ call.at \notin Passed
           /\ \E e \in Entries : /\ e.outcome = "NEEDS_HUMAN" /\ e.run <= Len(repairs)
                                 /\ log' = Append(log, e)
           /\ ticket' = "NEEDS_HUMAN" /\ call' = Idle
           /\ UNCHANGED <<ready, faults>> /\ RunsKept
Refuses == /\ call.at \in {"passed", "expose"}
           /\ ticket' = "NEEDS_HUMAN" /\ call' = Idle /\ Kept

(* It evaluates a candidate, or tries one more repair.                      *)
Looks    == /\ call.at \in First \cup {"final"} \cup Evaluating
            /\ call'.at \in (First \ {"head"}) \cup Evaluating
            /\ call'.attempt = call.attempt /\ call'.from = call.from
            /\ UNCHANGED ticket /\ Kept
Retries  == /\ call.at = "evaluate" /\ call.attempt < Limit
            /\ call'.at = "repair" /\ call'.attempt = call.attempt + 1
            /\ UNCHANGED ticket /\ Kept
Starts   == /\ call.at = "repair" /\ call'.at = "route" /\ call'.attempt = call.attempt
            /\ ticket' = "REPAIRING" /\ Kept
Prepares == /\ call.at = "route" /\ call'.at = "prepared" /\ call'.attempt = call.attempt
            /\ \E run \in RepairRuns :
                  /\ run.attempt = call.attempt /\ run.status = "CREATED"
                  /\ repairs' = Append(repairs, run)
            /\ UNCHANGED <<ticket, log, ready, faults>>
Launches == /\ call.at = "prepared" /\ call'.at = "repairing" /\ call'.attempt = call.attempt
            /\ DOMAIN repairs' = DOMAIN repairs /\ Len(repairs') = Len(repairs)
            /\ Launched' = Launched \cup {Len(repairs)}
            /\ \A i \in DOMAIN repairs : repairs'[i].attempt = repairs[i].attempt
            /\ UNCHANGED <<ticket, log, ready, faults>>
Mends    == /\ call.at \in InHand /\ call'.at \in {"route", "repaired", "targeted"}
            /\ call'.at = "route" => call.at = "prepared"
            /\ call'.attempt = call.attempt
            /\ UNCHANGED ticket /\ Kept

(* What became of an attempt, and how the call goes on.                     *)
Follows(e) ==
    \/ /\ e.outcome = "BLOCKED" /\ call'.at = "repair"
       /\ call.attempt < Limit /\ call'.attempt = call.attempt + 1
    \/ /\ e.outcome = "BLOCKED" /\ call'.at = "exhausted" /\ call'.attempt = Limit
    \/ /\ e.outcome = "REPAIRED" /\ call.at = "targeted"
       /\ call'.at = "final" /\ call'.attempt = call.attempt
    \/ /\ e.outcome = "PASSED" /\ call.at = "evaluate" /\ call'.at = "passed"
       /\ IF call.from = NoSha THEN e.to = NoSha ELSE e.to # NoSha /\ e.attempt > 0

Records == /\ call.at \in {"evaluate", "repaired", "targeted", "final"}
           /\ \E e \in Entries : /\ log' = Append(log, e) /\ e.attempt = call.attempt
                                 /\ e.run <= Len(repairs)
                                 /\ call.at \in Repairing => e.run = Len(repairs)
                                 /\ Follows(e)
           /\ ticket' = "VERIFYING"
           /\ UNCHANGED <<ready, faults>> /\ RunsKept

(* The candidate passed.                                                    *)
Assesses == /\ call.at = "passed" /\ call'.at = "expose"
            /\ \E s \in Shas : call'.sha = s /\ Verified(s) /\ Reviewed(s)
            /\ UNCHANGED <<repairs, reviews>>
            /\ UNCHANGED ticket /\ Kept
Exposes  == /\ call.at = "expose" /\ call'.at = "ready"
            /\ ready' = Append(ready, [sha |-> call.sha, repaired |-> RepairOf(call.sha) # {}])
            /\ UNCHANGED <<ticket, log, faults>> /\ RunsKept

Steps ==
    \/ Rests \/ Dies \/ Enters \/ Ends \/ Refuses \/ Looks \/ Retries \/ Starts \/ Prepares
    \/ Launches \/ Mends \/ Records \/ Assesses \/ Exposes

(* A well-typed step of one of these kinds.                                 *)
Good == TypeOK' /\ CallOK' /\ Steps

LEMMA SameRuns ==
    repairs' = repairs => RunsKept
  BY DEF RunsKept, Launched

LEMMA EntryTyped ==
    ASSUME TypeOK, NEW attempt \in 0..(Limit + 1), NEW from \in Shas,
           NEW to \in Shas \cup {NoSha}, NEW outcome \in Outcomes,
           NEW passed \in SUBSET Commands, NEW run \in Nat
    PROVE  LET e == Entry(attempt, from, to, outcome, passed, run)
           IN  /\ e \in Entries
               /\ e.attempt = attempt /\ e.from = from /\ e.to = to /\ e.outcome = outcome
               /\ e.run = run
  <1>1. call.blockers \in SUBSET (Commands \cup Axes)
    BY Typed DEF Calls
  <1> QED
    BY <1>1 DEF Entry, Entries

LEMMA EndStep ==
    ASSUME TypeOK, NEW e \in Entries, e.outcome = "NEEDS_HUMAN", e.run <= Len(repairs),
           Human(e), call.at \notin Passed,
           UNCHANGED <<worktree, repairs, ready, counters>>, reviews' \in Seq(ReviewRuns)
    PROVE  Good
  <1>1. /\ log' = Append(log, e) /\ ticket' = "NEEDS_HUMAN" /\ call' = Idle
        /\ head' = head /\ clean' = clean /\ repairs' = repairs /\ ready' = ready
        /\ faults' = faults /\ moves' = moves
    BY DEF Human, worktree, counters
  <1>2. log' \in Seq(Entries)
    BY <1>1, Typed, Appended
  <1>3. TypeOK'
    BY <1>1, <1>2, Typed, TypedNext, IdleTyped
  <1>4. CallOK'
    BY <1>1, IdleTyped DEF CallOK, Evaluating, Attempting, Repairing, InHand
  <1>5. Ends
    BY <1>1, SameRuns DEF Ends
  <1> QED
    BY <1>3, <1>4, <1>5 DEF Good, Steps

LEMMA GiveUpStep ==
    ASSUME TypeOK, CallOK, GiveUp, call.at \notin {"idle", "head"} \cup Passed,
           UNCHANGED <<worktree, repairs, ready, counters>>, reviews' \in Seq(ReviewRuns)
    PROVE  Good
  <1>1. /\ call.sha \in Shas /\ call \in Calls /\ repairs \in Seq(RepairRuns)
        /\ call.attempt \in 0..(Limit + 1) /\ Len(repairs) \in Nat /\ 0 <= Len(repairs)
    <2>0. call.at \notin {"idle", "head", "passed"}
      BY DEF Passed
    <2>1. call.sha \in Shas /\ call \in Calls /\ repairs \in Seq(RepairRuns)
      BY <2>0, Typed DEF CallOK
    <2>2. Len(repairs) \in Nat
      BY <2>1, LenProperties
    <2>3. call.attempt \in 0..Limit
      BY <2>1 DEF Calls
    <2> QED
      BY <2>1, <2>2, <2>3, BoundsAssumption
  <1>2. {} \in SUBSET Commands /\ "NEEDS_HUMAN" \in Outcomes /\ NoSha \in Shas \cup {NoSha}
    BY DEF Outcomes
  <1>3. CASE call.from = NoSha
    <2> DEFINE e == Entry(call.attempt, call.sha, NoSha, "NEEDS_HUMAN", {}, 0)
    <2>1. e = [attempt |-> call.attempt, from |-> call.sha, to |-> NoSha,
               outcome |-> "NEEDS_HUMAN", blockers |-> call.blockers, passed |-> {}, run |-> 0]
      BY DEF Entry
    <2>2. Human(e)
      BY <1>3 DEF GiveUp
    <2>3. call.blockers \in SUBSET (Commands \cup Axes)
      BY <1>1 DEF Calls
    <2>4. e \in Entries /\ e.outcome = "NEEDS_HUMAN" /\ e.run <= Len(repairs)
      BY <1>1, <1>2, <2>1, <2>3 DEF Entries
    <2> HIDE DEF e
    <2> QED
      BY <2>2, <2>4, EndStep
  <1>4. CASE call.from # NoSha
    <2> DEFINE e == Entry(call.attempt, call.from, call.sha, "NEEDS_HUMAN", {}, Len(repairs))
    <2>1. call.from \in Shas /\ call.sha \in Shas \cup {NoSha}
      BY <1>1, <1>4 DEF Calls
    <2>2. e \in Entries /\ e.outcome = "NEEDS_HUMAN" /\ e.run = Len(repairs)
      BY <1>1, <1>2, <2>1, EntryTyped
    <2>3. Human(e)
      BY <1>4 DEF GiveUp
    <2> HIDE DEF e
    <2> QED
      BY <1>1, <2>2, <2>3, EndStep
  <1> QED
    BY <1>3, <1>4

-----------------------------------------------------------------------------
(* Each action is a well-typed step of one of these kinds. *)

(* A nonempty set of positions has a latest one.                            *)
LEMMA LatestIn ==
    ASSUME NEW n \in Nat, NEW S \in SUBSET (1..n), S # {}
    PROVE  Latest(S) \in S /\ \A m \in S : m <= Latest(S)
  <1>1. S \in SUBSET (0..n)
    OBVIOUS
  <1>2. Latest(S) \in S \cup {0} /\ (\A m \in S : m <= Latest(S)) /\ Latest(S) \in Nat
    BY <1>1, LatestOf
  <1>3. PICK m \in S : TRUE
    OBVIOUS
  <1>4. m \in Nat /\ m # 0 /\ m <= Latest(S)
    BY <1>2
  <1>5. Latest(S) # 0
    BY <1>2, <1>4
  <1> QED
    BY <1>2, <1>5

LEMMA CurrentTyped ==
    ASSUME TypeOK, NEW a \in Axes, NEW s
    PROVE  Current(a, s) \in {"PASS", "FAIL", "VAGUE", "unset"}
  <1> DEFINE reported == {i \in ReviewsOf(a, s) : reviews[i].says \in {"PASS", "FAIL", "VAGUE"}}
  <1>1. Current(a, s) = IF reported = {} THEN "unset" ELSE reviews[Latest(reported)].says
    BY DEF Current
  <1>2. reviews \in Seq(ReviewRuns)
    BY Typed
  <1>3. Len(reviews) \in Nat /\ DOMAIN reviews = 1..Len(reviews)
    BY <1>2, LenProperties
  <1>4. reported \in SUBSET (1..Len(reviews))
    BY <1>3 DEF ReviewsOf
  <1>5. CASE reported # {}
    <2>1. Latest(reported) \in reported
      <3> HIDE DEF reported
      <3> QED
        BY <1>3, <1>4, <1>5, LatestIn
    <2> QED
      BY <1>1, <1>5, <2>1
  <1> QED
    BY <1>1, <1>5

LEMMA NextAttemptStep ==
    ASSUME TypeOK, call.sha \in Shas, NEW b \in SUBSET (Commands \cup Axes), NextAttempt(b)
    PROVE  /\ call' \in Calls /\ CallOK'
           /\ \/ call'.at = "repair" /\ call.attempt < Limit /\ call'.attempt = call.attempt + 1
              \/ call'.at = "exhausted" /\ call.attempt >= Limit /\ call'.attempt = Limit
  <1>1. call.attempt \in 0..Limit /\ Limit \in Nat
    BY Typed, BoundsAssumption DEF Calls
  <1>2. CASE call.attempt < Limit
    <2>1. call' = [Idle EXCEPT !.sha = call.sha, !.blockers = b,
                               !.attempt = call.attempt + 1, !.at = "repair"]
      BY <1>2 DEF NextAttempt
    <2>2. call.attempt + 1 \in 0..Limit
      BY <1>1, <1>2
    <2>3. /\ call'.at = "repair" /\ call'.attempt = call.attempt + 1
          /\ call'.from = NoSha /\ call'.sha = call.sha
      BY <2>1, IdleTyped DEF Calls
    <2>4. call' \in Calls
      BY <2>1, <2>2, IdleTyped DEF Calls, Positions
    <2>5. CallOK'
      BY <1>1, <2>3 DEF CallOK, Attempting, Evaluating
    <2> QED
      BY <1>2, <2>3, <2>4, <2>5
  <1>3. CASE ~(call.attempt < Limit)
    <2>1. call' = [Idle EXCEPT !.sha = call.sha, !.blockers = b,
                               !.attempt = Limit, !.at = "exhausted"]
      BY <1>3 DEF NextAttempt
    <2>2. Limit \in 0..Limit
      BY <1>1
    <2>3. /\ call'.at = "exhausted" /\ call'.attempt = Limit
          /\ call'.from = NoSha /\ call'.sha = call.sha
      BY <2>1, IdleTyped DEF Calls
    <2>4. call' \in Calls
      BY <2>1, <2>2, IdleTyped DEF Calls, Positions
    <2>5. CallOK'
      BY <2>3 DEF CallOK, Attempting, Evaluating, Repairing, InHand
    <2> QED
      BY <1>1, <1>3, <2>3, <2>4, <2>5
  <1> QED
    BY <1>2, <1>3

(* A step that records nothing and starts nothing.                          *)
LEMMA QuietStep ==
    ASSUME TypeOK, call' \in Calls, reviews' \in Seq(ReviewRuns),
           ticket' \in {"VERIFYING", "REPAIRING", "NEEDS_HUMAN"},
           UNCHANGED <<worktree, log, repairs, ready, counters>>
    PROVE  TypeOK' /\ Kept
  <1>1. /\ head' = head /\ clean' = clean /\ log' = log /\ repairs' = repairs /\ ready' = ready
        /\ faults' = faults /\ moves' = moves
    BY DEF worktree, counters
  <1>2. TypeOK'
    BY <1>1, Typed, TypedNext
  <1>3. Kept
    BY <1>1, SameRuns DEF Kept
  <1> QED
    BY <1>2, <1>3

(* A step of the evaluation of a candidate.                                 *)
LEMMA LookStep ==
    ASSUME TypeOK, CallOK, call' \in Calls, reviews' \in Seq(ReviewRuns),
           call.at \in First \cup {"final"} \cup Evaluating,
           call'.at \in (First \ {"head"}) \cup Evaluating,
           call'.attempt = call.attempt, call'.from = call.from, call'.sha \in Shas,
           call'.at \in First => call.from = NoSha,
           UNCHANGED <<worktree, ticket, log, repairs, ready, counters>>
    PROVE  Good
  <1>1. ticket' \in {"VERIFYING", "REPAIRING", "NEEDS_HUMAN"} /\ ticket' = ticket
    BY Typed
  <1>2. TypeOK' /\ Kept
    BY <1>1, QuietStep
  <1>3. CallOK'
    BY DEF CallOK, First, Evaluating, Attempting, Repairing, InHand
  <1>4. Looks
    BY <1>1, <1>2 DEF Looks
  <1> QED
    BY <1>2, <1>3, <1>4 DEF Good, Steps

(* A step that records what became of an attempt.                           *)
LEMMA RecordStep ==
    ASSUME TypeOK, call' \in Calls, CallOK', NEW e \in Entries, log' = Append(log, e),
           call.at \in {"evaluate", "repaired", "targeted", "final"},
           e.attempt = call.attempt, e.run <= Len(repairs),
           call.at \in Repairing => e.run = Len(repairs), Follows(e), ticket' = "VERIFYING",
           UNCHANGED <<worktree, repairs, reviews, ready, counters>>
    PROVE  Good
  <1>1. /\ head' = head /\ clean' = clean /\ repairs' = repairs /\ reviews' = reviews
        /\ ready' = ready /\ faults' = faults /\ moves' = moves
    BY DEF worktree, counters
  <1>2. log' \in Seq(Entries)
    BY Typed, Appended
  <1>3. TypeOK'
    BY <1>1, <1>2, Typed, TypedNext
  <1>4. Records
    BY <1>1, SameRuns DEF Records
  <1> QED
    BY <1>3, <1>4 DEF Good, Steps

LEMMA CallTyped ==
    TypeOK => /\ call \in Calls /\ call.attempt \in 0..Limit /\ call.attempt \in Nat
              /\ call.attempt \in 0..(Limit + 1) /\ Limit \in Nat
              /\ call.from \in Shas \cup {NoSha} /\ call.sha \in Shas \cup {NoSha}
              /\ call.blockers \in SUBSET (Commands \cup Axes) /\ call.failed \in SUBSET Commands
              /\ call.axis \in Axes
              /\ head \in Shas /\ repairs \in Seq(RepairRuns) /\ reviews \in Seq(ReviewRuns)
              /\ Len(repairs) \in Nat /\ DOMAIN repairs = 1..Len(repairs)
              /\ Len(reviews) \in Nat /\ DOMAIN reviews = 1..Len(reviews)
  <1> SUFFICES ASSUME TypeOK
               PROVE  /\ call \in Calls /\ call.attempt \in 0..Limit /\ call.attempt \in Nat
                      /\ call.attempt \in 0..(Limit + 1) /\ Limit \in Nat
                      /\ call.from \in Shas \cup {NoSha} /\ call.sha \in Shas \cup {NoSha}
                      /\ call.blockers \in SUBSET (Commands \cup Axes)
                      /\ call.failed \in SUBSET Commands /\ call.axis \in Axes
                      /\ head \in Shas /\ repairs \in Seq(RepairRuns)
                      /\ reviews \in Seq(ReviewRuns)
                      /\ Len(repairs) \in Nat /\ DOMAIN repairs = 1..Len(repairs)
                      /\ Len(reviews) \in Nat /\ DOMAIN reviews = 1..Len(reviews)
    OBVIOUS
  <1>1. /\ call \in Calls /\ head \in Shas /\ repairs \in Seq(RepairRuns)
        /\ reviews \in Seq(ReviewRuns)
    BY Typed
  <1>2. /\ Len(repairs) \in Nat /\ DOMAIN repairs = 1..Len(repairs)
        /\ Len(reviews) \in Nat /\ DOMAIN reviews = 1..Len(reviews)
    BY <1>1, LenProperties
  <1>3. call.attempt \in 0..Limit /\ Limit \in Nat
    BY <1>1, BoundsAssumption DEF Calls
  <1>4. call.attempt \in Nat /\ call.attempt \in 0..(Limit + 1)
    BY <1>3
  <1>5. /\ call.from \in Shas \cup {NoSha} /\ call.sha \in Shas \cup {NoSha}
        /\ call.blockers \in SUBSET (Commands \cup Axes) /\ call.failed \in SUBSET Commands
        /\ call.axis \in Axes
    BY <1>1 DEF Calls
  <1> QED
    BY <1>1, <1>2, <1>3, <1>4, <1>5

LEMMA BeginStep ==
    ASSUME TypeOK, Accounted, Begin
    PROVE  Good
  <1> DEFINE used == AttemptsUsed
             enter == call' = [Idle EXCEPT !.at = "head", !.attempt = used]
             base(from, to, run) == Entry(used + 1, from, to, "NEEDS_HUMAN", {}, run)
             refuse(from, to, run) == Human([base(from, to, run) EXCEPT !.blockers = {}])
  <1>1. /\ call.at = "idle"
        /\ UNCHANGED <<worktree, repairs, reviews, ready, counters>>
    BY DEF Begin
  <1>2. \/ ticket = "VERIFYING" /\ enter /\ ticket' = ticket /\ log' = log
        \/ ticket = "REPAIRING" /\ refuse(head, NoSha, Latest(ActiveRepairs))
        \/ /\ ticket = "REPAIRING" /\ Unevidenced # {}
           /\ refuse(repairs[Latest(Unevidenced)].base, head, Latest(Unevidenced))
        \/ /\ ticket = "REPAIRING" /\ Unevidenced = {}
           /\ enter /\ ticket' = "VERIFYING" /\ log' = log
    <2>1. \/ ticket = "VERIFYING" /\ enter /\ Stay
          \/ /\ ticket = "REPAIRING"
             /\ IF RunActive THEN refuse(head, NoSha, Latest(ActiveRepairs))
                ELSE IF Unevidenced # {}
                     THEN refuse(repairs[Latest(Unevidenced)].base, head, Latest(Unevidenced))
                ELSE enter /\ ticket' = "VERIFYING" /\ UNCHANGED log
      BY DEF Begin
    <2> HIDE DEF enter, refuse
    <2> QED
      BY <2>1 DEF Stay
  <1>3. used \in Nat /\ (ticket # "NEEDS_HUMAN" => used <= Limit) /\ Limit \in Nat
    BY Logged, Typed, BoundsAssumption DEF Accounted
  <1>4. ASSUME ticket # "NEEDS_HUMAN", Launched \cap Unevidenced = {}, enter, ticket' = "VERIFYING", log' = log
        PROVE  Good
    <2>1. call' \in Calls /\ call'.at = "head" /\ call'.attempt = used /\ call'.from = NoSha
      <3>1. used \in 0..Limit
        BY <1>3, <1>4
      <3> HIDE DEF used
      <3> QED
        BY <1>4, <3>1, IdleTyped DEF Calls, Positions
    <2>2. TypeOK' /\ Kept
      <3>1. UNCHANGED <<worktree, log, repairs, ready, counters>> /\ reviews' = reviews
        BY <1>1, <1>4
      <3> QED
        BY <1>4, <2>1, <3>1, Typed, QuietStep
    <2>3. CallOK'
      BY <2>1 DEF CallOK, Evaluating, Attempting, Repairing, InHand
    <2>4. Enters
      BY <1>1, <1>4, <2>1, <2>2 DEF Enters
    <2> QED
      BY <2>2, <2>3, <2>4 DEF Good, Steps
  <1>5. ASSUME NEW from \in Shas, NEW to \in Shas \cup {NoSha}, NEW run \in Nat,
               run <= Len(repairs), ticket = "REPAIRING", refuse(from, to, run)
        PROVE  Good
    <2> DEFINE e == [base(from, to, run) EXCEPT !.blockers = {}]
    <2>1. base(from, to, run) = [attempt |-> used + 1, from |-> from, to |-> to,
              outcome |-> "NEEDS_HUMAN", blockers |-> call.blockers, passed |-> {}, run |-> run]
      BY DEF Entry
    <2>2. e = [attempt |-> used + 1, from |-> from, to |-> to, outcome |-> "NEEDS_HUMAN",
               blockers |-> {}, passed |-> {}, run |-> run]
      BY <2>1
    <2>3. used + 1 \in 0..(Limit + 1)
      BY <1>3, <1>5
    <2>4. e \in Entries /\ e.outcome = "NEEDS_HUMAN" /\ e.run = run
      <3> HIDE DEF e
      <3> QED
        BY <2>2, <2>3 DEF Entries, Outcomes
    <2>5. Human(e)
      BY <1>5
    <2>6. call.at \notin Passed /\ reviews' \in Seq(ReviewRuns)
      BY <1>1, Typed DEF Passed
    <2>7. UNCHANGED <<worktree, repairs, ready, counters>>
      BY <1>1
    <2> HIDE DEF e
    <2> QED
      BY <1>5, <2>4, <2>5, <2>6, <2>7, EndStep
  <1>6. CASE ticket = "VERIFYING" /\ enter /\ ticket' = ticket /\ log' = log
    <2>1. Launched \cap Unevidenced = {}
      BY <1>6 DEF Accounted
    <2> HIDE DEF enter
    <2> QED
      BY <1>4, <1>6, <2>1
  <1>7. CASE ticket = "REPAIRING" /\ refuse(head, NoSha, Latest(ActiveRepairs))
    <2> DEFINE run == Latest(ActiveRepairs)
    <2>1. head \in Shas /\ NoSha \in Shas \cup {NoSha}
      BY CallTyped
    <2>2. run \in Nat /\ run <= Len(repairs)
      <3>1. ActiveRepairs \in SUBSET (0..Len(repairs)) /\ Len(repairs) \in Nat
        BY CallTyped DEF ActiveRepairs
      <3>2. run \in ActiveRepairs \cup {0} /\ run \in Nat
        BY <3>1, LatestOf
      <3> HIDE DEF run
      <3> QED
        BY <3>1, <3>2
    <2>3. refuse(head, NoSha, run)
      BY <1>7
    <2> HIDE DEF refuse, run
    <2> QED
      BY <1>5, <1>7, <2>1, <2>2, <2>3
  <1>8. CASE /\ ticket = "REPAIRING" /\ Unevidenced # {}
             /\ refuse(repairs[Latest(Unevidenced)].base, head, Latest(Unevidenced))
    <2> DEFINE run  == Latest(Unevidenced)
               from == repairs[run].base
    <2>1. run \in 1..Len(repairs)
      <3>1. Unevidenced \in SUBSET (1..Len(repairs)) /\ Len(repairs) \in Nat
        BY CallTyped DEF Unevidenced
      <3> QED
        BY <1>8, <3>1, LatestIn
    <2>2. from \in Shas
      <3>1. repairs[run] \in RepairRuns
        <4> HIDE DEF run
        <4> QED
          BY <2>1, CallTyped, ElementOfSeq
      <3> QED
        BY <3>1 DEF RepairRuns
    <2>3. refuse(from, head, run) /\ head \in Shas \cup {NoSha}
      BY <1>8, CallTyped
    <2>4. run \in Nat /\ run <= Len(repairs)
      BY <2>1, CallTyped
    <2> HIDE DEF run, from, refuse
    <2> QED
      BY <1>5, <1>8, <2>2, <2>3, <2>4
  <1>9. CASE ticket = "REPAIRING" /\ Unevidenced = {} /\ enter /\ ticket' = "VERIFYING" /\ log' = log
    <2>1. Launched \cap Unevidenced = {}
      BY <1>9
    <2> HIDE DEF enter
    <2> QED
      BY <1>4, <1>9, <2>1
  <1> HIDE DEF enter, refuse
  <1> QED
    BY <1>2, <1>6, <1>7, <1>8, <1>9

LEMMA HeadStep ==
    ASSUME TypeOK, CallOK, ExactCleanHead
    PROVE  Good
  <1>1. call.at = "head" /\ UNCHANGED <<worktree, repairs, reviews, ready, counters>>
    BY DEF ExactCleanHead
  <1>2. CASE call' = [call EXCEPT !.at = "verify", !.sha = head] /\ Stay
    <2>1. /\ call' \in Calls /\ call'.at = "verify" /\ call'.sha = head
          /\ call'.attempt = call.attempt /\ call'.from = call.from
      BY <1>2, CallTyped DEF Calls, Positions
    <2>2. call.from = NoSha
      BY <1>1 DEF CallOK, Evaluating
    <2>3. UNCHANGED <<worktree, ticket, log, repairs, ready, counters>>
      BY <1>1, <1>2 DEF Stay
    <2>4. reviews' \in Seq(ReviewRuns) /\ call'.sha \in Shas
      BY <1>1, <2>1, CallTyped
    <2>5. call.at \in First /\ call'.at \in First \ {"head"}
      BY <1>1, <2>1 DEF First
    <2> QED
      BY <2>1, <2>2, <2>3, <2>4, <2>5, LookStep
  <1>3. CASE Human(Entry(call.attempt, head, NoSha, "NEEDS_HUMAN", {}, 0))
    <2> DEFINE e == Entry(call.attempt, head, NoSha, "NEEDS_HUMAN", {}, 0)
    <2>1. e = [attempt |-> call.attempt, from |-> head, to |-> NoSha,
               outcome |-> "NEEDS_HUMAN", blockers |-> call.blockers, passed |-> {}, run |-> 0]
      BY DEF Entry
    <2>2. e \in Entries /\ e.outcome = "NEEDS_HUMAN" /\ e.run <= Len(repairs)
      BY <2>1, CallTyped DEF Entries, Outcomes
    <2>3. call.at \notin Passed /\ reviews' \in Seq(ReviewRuns)
      BY <1>1, CallTyped DEF Passed
    <2>4. Human(e) /\ UNCHANGED <<worktree, repairs, ready, counters>>
      BY <1>1, <1>3
    <2> HIDE DEF e
    <2> QED
      BY <2>2, <2>3, <2>4, EndStep
  <1> QED
    BY <1>2, <1>3 DEF ExactCleanHead

LEMMA VerifyStep ==
    ASSUME TypeOK, CallOK, Verify
    PROVE  Good
  <1>1. /\ call.at = "verify" /\ UNCHANGED <<worktree, repairs, reviews, ready, counters>>
        /\ reviews' \in Seq(ReviewRuns)
    BY CallTyped DEF Verify
  <1>2. CASE GiveUp
    BY <1>1, <1>2, GiveUpStep DEF Passed
  <1>3. ASSUME NEW failed \in SUBSET Commands,
               call' = [call EXCEPT !.at = "reviews", !.failed = failed], Stay
        PROVE  Good
    <2>1. /\ call' \in Calls /\ call'.at = "reviews" /\ call'.sha = call.sha
          /\ call'.attempt = call.attempt /\ call'.from = call.from
      BY <1>3, CallTyped DEF Calls, Positions
    <2>2. call.from = NoSha /\ call'.sha \in Shas
      BY <1>1, <2>1 DEF CallOK, Evaluating
    <2>3. UNCHANGED <<worktree, ticket, log, repairs, ready, counters>>
      BY <1>1, <1>3 DEF Stay
    <2>4. call.at \in First /\ call'.at \in First \ {"head"}
      BY <1>1, <2>1 DEF First
    <2> QED
      BY <1>1, <2>1, <2>2, <2>3, <2>4, LookStep
  <1> QED
    BY <1>2, <1>3 DEF Verify

LEMMA ReviewsStep ==
    ASSUME TypeOK, CallOK, Reviews
    PROVE  Good
  <1> DEFINE current == [a \in Axes |-> Current(a, call.sha)]
             place   == IF \E a \in Axes : current[a] = "unset" THEN "snapshot" ELSE "evaluate"
  <1>1. /\ call.at = "reviews" /\ UNCHANGED <<worktree, repairs, reviews, ready, counters>>
        /\ reviews' \in Seq(ReviewRuns)
        /\ GiveUp \/ (call' = [call EXCEPT !.old = current, !.snap = call.sha, !.at = place] /\ Stay)
    BY CallTyped DEF Reviews
  <1>2. CASE GiveUp
    BY <1>1, <1>2, GiveUpStep DEF Passed
  <1>3. CASE call' = [call EXCEPT !.old = current, !.snap = call.sha, !.at = place] /\ Stay
    <2>1. current \in [Axes -> Reports \cup {"unset"}]
      BY CurrentTyped DEF Reports
    <2>2. place \in {"snapshot", "evaluate"}
      OBVIOUS
    <2> HIDE DEF current, place
    <2>3. /\ call' \in Calls /\ call'.at = place /\ call'.sha = call.sha
          /\ call'.attempt = call.attempt /\ call'.from = call.from
      BY <1>3, <2>1, <2>2, CallTyped DEF Calls, Positions
    <2>4. call.from = NoSha /\ call'.sha \in Shas
      BY <1>1, <2>3 DEF CallOK, Evaluating
    <2>5. UNCHANGED <<worktree, ticket, log, repairs, ready, counters>>
      BY <1>1, <1>3 DEF Stay
    <2>6. call.at \in First /\ call'.at \in Evaluating
      BY <1>1, <2>2, <2>3 DEF First, Evaluating
    <2> QED
      BY <1>1, <2>3, <2>4, <2>5, <2>6, LookStep
  <1> HIDE DEF current, place
  <1> QED
    BY <1>1, <1>2, <1>3

LEMMA SnapshotStep ==
    ASSUME TypeOK, CallOK, Snapshot
    PROVE  Good
  <1>1. /\ call.at = "snapshot" /\ UNCHANGED <<worktree, repairs, reviews, ready, counters>>
        /\ reviews' \in Seq(ReviewRuns)
    BY CallTyped DEF Snapshot
  <1>2. CASE GiveUp
    BY <1>1, <1>2, GiveUpStep DEF Passed
  <1>3. CASE call' = [call EXCEPT !.at = "contract", !.snap = head] /\ Stay
    <2>1. /\ call' \in Calls /\ call'.at = "contract" /\ call'.sha = call.sha
          /\ call'.attempt = call.attempt /\ call'.from = call.from
      BY <1>3, CallTyped DEF Calls, Positions
    <2>2. call'.sha \in Shas
      BY <1>1, <2>1 DEF CallOK
    <2>3. UNCHANGED <<worktree, ticket, log, repairs, ready, counters>>
      BY <1>1, <1>3 DEF Stay
    <2>4. call.at \in Evaluating /\ call'.at \in Evaluating /\ call'.at \notin First
      BY <1>1, <2>1 DEF Evaluating, First
    <2> QED
      BY <1>1, <2>1, <2>2, <2>3, <2>4, LookStep
  <1> QED
    BY <1>2, <1>3 DEF Snapshot

(* A review has reported.                                                   *)
LEMMA ReportedStep ==
    ASSUME TypeOK, CallOK, call.at \in {"contract", "engineering", "reviewing"},
           NEW a \in Axes, NEW says \in Reports, Reported(a, says), Stay,
           UNCHANGED <<worktree, repairs, ready, counters>>, reviews' \in Seq(ReviewRuns)
    PROVE  Good
  <1> DEFINE place == IF a = "contract" THEN "engineering" ELSE "evaluate"
  <1>1. call' = [call EXCEPT !.got[a] = says, !.at = place]
    BY DEF Reported
  <1>2. place \in {"engineering", "evaluate"}
    OBVIOUS
  <1> HIDE DEF place
  <1>3. [call.got EXCEPT ![a] = says] \in [Axes -> Reports \cup {"unset"}]
    BY CallTyped DEF Calls
  <1>4. /\ call' \in Calls /\ call'.at = place /\ call'.sha = call.sha
        /\ call'.attempt = call.attempt /\ call'.from = call.from
    BY <1>1, <1>2, <1>3, CallTyped DEF Calls, Positions
  <1>5. call'.sha \in Shas
    BY <1>4 DEF CallOK
  <1>6. UNCHANGED <<worktree, ticket, log, repairs, ready, counters>>
    BY DEF Stay
  <1>7. call.at \in Evaluating /\ call'.at \in Evaluating /\ call'.at \notin First
    BY <1>2, <1>4 DEF Evaluating, First
  <1> QED
    BY <1>4, <1>5, <1>6, <1>7, LookStep

LEMMA RequestReviewStep ==
    ASSUME TypeOK, CallOK, NEW a \in Axes, RequestReview(a)
    PROVE  Good
  <1> DEFINE same == {i \in DOMAIN reviews : /\ reviews[i].axis = a
                                             /\ reviews[i].attempt = ReviewAttempt
                                             /\ reviews[i].candidate = call.sha}
             replay == reviews[Latest(same)]
             run == [axis |-> a, attempt |-> ReviewAttempt,
                     candidate |-> call.sha, sha |-> call.snap, says |-> "RUNNING"]
  <1>1. call.at = a /\ UNCHANGED <<worktree, repairs, ready, counters>>
    BY DEF RequestReview
  <1>2. \/ GiveUp /\ reviews' = reviews
        \/ same # {} /\ replay.says # "RUNNING" /\ Reported(a, replay.says) /\ Stay /\ reviews' = reviews
        \/ /\ Holds(call.snap) /\ reviews' = Append(reviews, run)
           /\ call' = [call EXCEPT !.at = "reviewing", !.axis = a] /\ Stay
    BY Zenon DEF RequestReview
  <1>3. call.at \in {"contract", "engineering"} /\ call.sha \in Shas
    BY <1>1 DEF Axes, CallOK
  <1>4. CASE GiveUp /\ reviews' = reviews
    <2>1. reviews' \in Seq(ReviewRuns) /\ call.at \notin {"idle", "head"} \cup Passed
      BY <1>3, <1>4, CallTyped DEF Passed
    <2> QED
      BY <1>1, <1>4, <2>1, GiveUpStep
  <1>5. CASE same # {} /\ replay.says # "RUNNING" /\ Reported(a, replay.says) /\ Stay /\ reviews' = reviews
    <2>1. same \in SUBSET (1..Len(reviews)) /\ Len(reviews) \in Nat
      BY CallTyped
    <2>2. Latest(same) \in same
      <3> HIDE DEF same
      <3> QED
        BY <1>5, <2>1, LatestIn
    <2>3. replay \in ReviewRuns
      <3> DEFINE i == Latest(same)
      <3>1. i \in 1..Len(reviews) /\ reviews \in Seq(ReviewRuns)
        BY <2>1, <2>2, CallTyped
      <3> HIDE DEF i, same
      <3>2. reviews[i] \in ReviewRuns
        BY <3>1, ElementOfSeq
      <3> QED
        BY <3>2 DEF i
    <2> DEFINE says == replay.says
    <2> HIDE DEF same, replay
    <2>4. says \in Reports
      BY <1>5, <2>3 DEF ReviewRuns
    <2>5. Reported(a, says) /\ Stay /\ reviews' \in Seq(ReviewRuns)
      BY <1>5, CallTyped
    <2> HIDE DEF says
    <2> QED
      BY <1>1, <1>3, <2>4, <2>5, ReportedStep
  <1>6. CASE /\ Holds(call.snap) /\ reviews' = Append(reviews, run)
             /\ call' = [call EXCEPT !.at = "reviewing", !.axis = a] /\ Stay
    <2>1. run \in ReviewRuns
      <3>1. ReviewAttempt \in 0..Limit
        <4>1. 0 \in 0..Limit /\ call.attempt \in 0..Limit
          BY CallTyped
        <4> QED
          BY <4>1 DEF ReviewAttempt
      <3>2. call.snap \in Shas
        BY <1>6, CallTyped DEF Holds
      <3> QED
        BY <1>3, <3>1, <3>2 DEF ReviewRuns
    <2> HIDE DEF run
    <2>2. reviews' \in Seq(ReviewRuns)
      BY <1>6, <2>1, CallTyped, Appended
    <2>3. /\ call' \in Calls /\ call'.at = "reviewing" /\ call'.sha = call.sha
          /\ call'.attempt = call.attempt /\ call'.from = call.from
      BY <1>6, CallTyped DEF Calls, Positions
    <2>4. UNCHANGED <<worktree, ticket, log, repairs, ready, counters>>
      BY <1>1, <1>6 DEF Stay
    <2>5. call.at \in Evaluating /\ call'.at \in Evaluating /\ call'.at \notin First
      BY <1>3, <2>3 DEF Evaluating, First
    <2> QED
      BY <1>3, <2>2, <2>3, <2>4, <2>5, LookStep
  <1> HIDE DEF same, replay, run
  <1> QED
    BY <1>2, <1>4, <1>5, <1>6

LEMMA FinishReviewStep ==
    ASSUME TypeOK, CallOK, FinishReview
    PROVE  Good
  <1>1. /\ call.at = "reviewing" /\ UNCHANGED <<worktree, repairs, ready, counters>>
        /\ \E says \in Reports :
              /\ reviews' = [reviews EXCEPT ![Len(reviews)].says = says]
              /\ GiveUp \/ (Reported(call.axis, says) /\ Stay)
    BY Zenon DEF FinishReview
  <1>2. PICK says \in Reports : /\ reviews' = [reviews EXCEPT ![Len(reviews)].says = says]
                                /\ GiveUp \/ (Reported(call.axis, says) /\ Stay)
    BY <1>1
  <1>3. reviews' \in Seq(ReviewRuns)
    <2> DEFINE n == Len(reviews)
               e == [reviews[n] EXCEPT !.says = says]
    <2>1. n \in DOMAIN reviews => e \in ReviewRuns
      <3> HIDE DEF n
      <3> SUFFICES ASSUME n \in DOMAIN reviews PROVE e \in ReviewRuns
        OBVIOUS
      <3>1. reviews[n] \in ReviewRuns
        BY CallTyped, ElementOfSeq
      <3> QED
        BY <3>1 DEF ReviewRuns
    <2>2. reviews' = [reviews EXCEPT ![n] = e]
      BY <1>2
    <2> HIDE DEF n, e
    <2> QED
      BY <2>1, <2>2, Changed, CallTyped
  <1>4. call.axis \in Axes /\ call.at \notin {"idle", "head"} \cup Passed
    BY <1>1, CallTyped DEF Passed
  <1>5. CASE GiveUp
    BY <1>1, <1>3, <1>4, <1>5, GiveUpStep
  <1>6. CASE Reported(call.axis, says) /\ Stay
    <2> DEFINE a == call.axis
    <2>1. a \in Axes /\ Reported(a, says) /\ Stay
      BY <1>4, <1>6
    <2> HIDE DEF a
    <2> QED
      BY <1>1, <1>2, <1>3, <2>1, ReportedStep
  <1> QED
    BY <1>2, <1>5, <1>6

(* The evidence of an attempt.                                              *)
LEMMA EvidenceTyped ==
    ASSUME TypeOK, call.sha \in Shas, NEW outcome \in Outcomes
    PROVE  /\ Evidence(outcome) \in Entries
           /\ Evidence(outcome).attempt = call.attempt /\ Evidence(outcome).outcome = outcome
           /\ Evidence(outcome).run <= Len(repairs)
           /\ Evidence(outcome).to = IF call.from = NoSha THEN NoSha ELSE call.sha
  <1> DEFINE e == Evidence(outcome)
             ran == Commands \ call.failed
  <1>1. CASE call.from = NoSha
    <2>1. e = [attempt |-> call.attempt, from |-> call.sha, to |-> NoSha, outcome |-> outcome,
               blockers |-> call.blockers, passed |-> ran, run |-> 0]
      BY <1>1 DEF Evidence, Entry
    <2> HIDE DEF e
    <2>2. /\ e \in Entries /\ e.attempt = call.attempt /\ e.outcome = outcome
          /\ e.run <= Len(repairs) /\ e.to = NoSha
      BY <2>1, CallTyped DEF Entries
    <2> QED
      BY <1>1, <2>2 DEF e
  <1>2. CASE call.from # NoSha
    <2>1. e = [attempt |-> call.attempt, from |-> call.from, to |-> call.sha, outcome |-> outcome,
               blockers |-> call.blockers, passed |-> ran, run |-> Len(repairs)]
      BY <1>2 DEF Evidence, Entry
    <2> HIDE DEF e
    <2>2. /\ e \in Entries /\ e.attempt = call.attempt /\ e.outcome = outcome
          /\ e.run <= Len(repairs) /\ e.to = call.sha
      BY <1>2, <2>1, CallTyped DEF Entries
    <2> QED
      BY <1>2, <2>2 DEF e
  <1> QED
    BY <1>1, <1>2

LEMMA EvaluateStep ==
    ASSUME TypeOK, CallOK, Accounted, Evaluate
    PROVE  Good
  <1>1. /\ call.at = "evaluate" /\ UNCHANGED <<worktree, repairs, reviews, ready, counters>>
        /\ call.sha \in Shas /\ ticket = "VERIFYING"
    BY DEF Evaluate, CallOK, Accounted, Repairing, InHand
  <1>2. \/ GiveUp
        \/ /\ log' = Append(log, Evidence("PASSED")) /\ call' = [Idle EXCEPT !.at = "passed"]
           /\ ticket' = ticket
        \/ log' = Append(log, Evidence("BLOCKED")) /\ NextAttempt(Blockers) /\ ticket' = ticket
        \/ ~(call.attempt >= Limit) /\ NextAttempt(Blockers) /\ Stay
    BY Zenon DEF Evaluate
  <1>3. Blockers \in SUBSET (Commands \cup Axes)
    BY CallTyped DEF Blockers
  <1>4. CASE GiveUp
    BY <1>1, <1>4, GiveUpStep, CallTyped DEF Passed
  <1>5. CASE /\ log' = Append(log, Evidence("PASSED")) /\ call' = [Idle EXCEPT !.at = "passed"]
             /\ ticket' = ticket
    <2> DEFINE e == Evidence("PASSED")
    <2>1. /\ e \in Entries /\ e.attempt = call.attempt /\ e.outcome = "PASSED"
          /\ e.run <= Len(repairs) /\ e.to = IF call.from = NoSha THEN NoSha ELSE call.sha
      <3>1. "PASSED" \in Outcomes
        BY DEF Outcomes
      <3> QED
        BY <1>1, <3>1, EvidenceTyped
    <2>2. log' = Append(log, e) /\ ticket' = "VERIFYING"
      BY <1>1, <1>5
    <2>3. /\ call' \in Calls /\ call'.at = "passed" /\ call'.from = NoSha
      BY <1>5, IdleTyped DEF Calls, Positions
    <2>4. CallOK'
      BY <2>3 DEF CallOK, Attempting, Repairing, InHand, Evaluating
    <2> HIDE DEF e
    <2>5. IF call.from = NoSha THEN e.to = NoSha ELSE e.to # NoSha /\ e.attempt > 0
      BY <1>1, <2>1, ShasAreNumbers DEF CallOK
    <2>6. Follows(e)
      BY <1>1, <2>1, <2>3, <2>5 DEF Follows
    <2>7. call.at \notin Repairing
      BY <1>1 DEF Repairing, InHand
    <2> QED
      BY <1>1, <2>1, <2>2, <2>3, <2>4, <2>6, <2>7, RecordStep
  <1>6. CASE log' = Append(log, Evidence("BLOCKED")) /\ NextAttempt(Blockers) /\ ticket' = ticket
    <2> DEFINE e == Evidence("BLOCKED")
    <2>1. /\ e \in Entries /\ e.attempt = call.attempt /\ e.outcome = "BLOCKED"
          /\ e.run <= Len(repairs)
      <3>1. "BLOCKED" \in Outcomes
        BY DEF Outcomes
      <3> QED
        BY <1>1, <3>1, EvidenceTyped
    <2>2. log' = Append(log, e) /\ ticket' = "VERIFYING"
      BY <1>1, <1>6
    <2>3. /\ call' \in Calls /\ CallOK'
          /\ \/ call'.at = "repair" /\ call.attempt < Limit /\ call'.attempt = call.attempt + 1
             \/ call'.at = "exhausted" /\ call'.attempt = Limit
      BY <1>1, <1>3, <1>6, NextAttemptStep
    <2> HIDE DEF e
    <2>4. Follows(e)
      BY <2>1, <2>3 DEF Follows
    <2>5. call.at \notin Repairing
      BY <1>1 DEF Repairing, InHand
    <2> QED
      BY <1>1, <2>1, <2>2, <2>3, <2>4, <2>5, RecordStep
  <1>7. CASE ~(call.attempt >= Limit) /\ NextAttempt(Blockers) /\ Stay
    <2>1. /\ call' \in Calls /\ CallOK'
          /\ \/ call'.at = "repair" /\ call.attempt < Limit /\ call'.attempt = call.attempt + 1
             \/ call'.at = "exhausted" /\ call.attempt >= Limit /\ call'.attempt = Limit
      BY <1>1, <1>3, <1>7, NextAttemptStep
    <2>2. UNCHANGED <<worktree, log, repairs, ready, counters>> /\ ticket' = ticket
      BY <1>1, <1>7 DEF Stay
    <2>3. TypeOK' /\ Kept
      BY <1>1, <2>1, <2>2, Typed, QuietStep
    <2>4. Retries
      BY <1>1, <1>7, <2>1, <2>2, <2>3 DEF Retries
    <2> QED
      BY <2>1, <2>3, <2>4 DEF Good, Steps
  <1> QED
    BY <1>2, <1>4, <1>5, <1>6, <1>7

LEMMA ExhaustedStep ==
    ASSUME TypeOK, CallOK, Exhausted
    PROVE  Good
  <1>1. /\ call.at = "exhausted" /\ UNCHANGED <<worktree, repairs, ready, counters>> /\ GiveUp
        /\ reviews' \in Seq(ReviewRuns)
    BY CallTyped DEF Exhausted
  <1> QED
    BY <1>1, GiveUpStep DEF Passed

LEMMA StartRepairStep ==
    ASSUME TypeOK, CallOK, StartRepair
    PROVE  Good
  <1>1. /\ call.at = "repair" /\ ticket' = "REPAIRING" /\ call' = [call EXCEPT !.at = "route"]
        /\ UNCHANGED <<worktree, log, repairs, reviews, ready, counters>>
    BY DEF StartRepair, Goto
  <1>2. /\ call' \in Calls /\ call'.at = "route" /\ call'.attempt = call.attempt
        /\ call'.from = call.from /\ call'.sha = call.sha
    BY <1>1, CallTyped DEF Calls, Positions
  <1>3. TypeOK' /\ Kept
    BY <1>1, <1>2, CallTyped, QuietStep
  <1>4. CallOK'
    BY <1>1, <1>2 DEF CallOK, Attempting, Repairing, InHand, Evaluating
  <1>5. Starts
    BY <1>1, <1>2, <1>3 DEF Starts
  <1> QED
    BY <1>3, <1>4, <1>5 DEF Good, Steps

LEMMA RouteRepairStep ==
    ASSUME TypeOK, CallOK, RouteRepair
    PROVE  Good
  <1> DEFINE run == [base |-> head, attempt |-> call.attempt, status |-> "CREATED"]
  <1>1. /\ call.at = "route" /\ UNCHANGED <<worktree, reviews, ready, counters>>
        /\ \/ /\ repairs' = Append(repairs, run) /\ call' = [call EXCEPT !.at = "prepared"]
              /\ ticket' = ticket /\ log' = log
           \/ GiveUp /\ repairs' = repairs
    BY DEF RouteRepair, Goto, Stay
  <1>2. CASE GiveUp /\ repairs' = repairs
    <2>1. /\ reviews' \in Seq(ReviewRuns) /\ UNCHANGED <<worktree, repairs, ready, counters>>
          /\ call.at \notin {"idle", "head"} \cup Passed
      BY <1>1, <1>2, CallTyped DEF Passed
    <2> QED
      BY <1>2, <2>1, GiveUpStep
  <1>3. CASE /\ repairs' = Append(repairs, run) /\ call' = [call EXCEPT !.at = "prepared"]
             /\ ticket' = ticket /\ log' = log
    <2>1. run \in RepairRuns /\ run.attempt = call.attempt /\ run.status = "CREATED"
      <3>1. call.attempt \in 1..Limit
        BY <1>1, CallTyped DEF CallOK, Attempting, Repairing, InHand
      <3> QED
        BY <3>1, CallTyped DEF RepairRuns, Statuses, Active
    <2> HIDE DEF run
    <2>2. repairs' \in Seq(RepairRuns)
      BY <1>3, <2>1, CallTyped, Appended
    <2>3. /\ call' \in Calls /\ call'.at = "prepared" /\ call'.attempt = call.attempt
          /\ call'.from = call.from /\ call'.sha = call.sha
      BY <1>3, CallTyped DEF Calls, Positions
    <2>4. /\ head' = head /\ clean' = clean /\ reviews' = reviews /\ ready' = ready
          /\ faults' = faults /\ moves' = moves
      BY <1>1 DEF worktree, counters
    <2>5. TypeOK'
      BY <1>3, <2>2, <2>3, <2>4, Typed, TypedNext
    <2>6. CallOK'
      BY <1>1, <2>3 DEF CallOK, Attempting, Repairing, InHand, Evaluating
    <2>7. Prepares
      BY <1>1, <1>3, <2>1, <2>3, <2>4 DEF Prepares
    <2> QED
      BY <2>5, <2>6, <2>7 DEF Good, Steps
  <1> HIDE DEF run
  <1> QED
    BY <1>1, <1>2, <1>3

(* The last run changes its status and nothing else.                        *)
LEMMA LastBecomes ==
    ASSUME TypeOK, NEW status \in Statuses, Becomes(status), Len(repairs) \in DOMAIN repairs
    PROVE  /\ repairs' \in Seq(RepairRuns)
           /\ Len(repairs') = Len(repairs) /\ DOMAIN repairs' = DOMAIN repairs
           /\ \A i \in DOMAIN repairs : repairs'[i].attempt = repairs[i].attempt
           /\ Launched' = IF status \in Ended \cup {"RUNNING"} THEN Launched \cup {Len(repairs)}
                          ELSE Launched \ {Len(repairs)}
  <1> DEFINE n == Len(repairs)
             e == [repairs[n] EXCEPT !.status = status]
  <1>1. repairs' = [repairs EXCEPT ![n] = e] /\ n \in DOMAIN repairs
    BY DEF Becomes
  <1>2. repairs[n] \in RepairRuns
    BY CallTyped, ElementOfSeq
  <1>3. e \in RepairRuns /\ e.attempt = repairs[n].attempt /\ e.status = status
    BY <1>2 DEF RepairRuns
  <1> HIDE DEF n, e
  <1>4. /\ repairs' \in Seq(RepairRuns)
        /\ Len(repairs') = Len(repairs)
    BY <1>1, <1>3, Changed, CallTyped
  <1>5. DOMAIN repairs' = DOMAIN repairs
    BY <1>1
  <1>6. \A i \in DOMAIN repairs : repairs'[i] = IF i = n THEN e ELSE repairs[i]
    BY <1>1, CallTyped
  <1>7. Launched' = IF status \in Ended \cup {"RUNNING"} THEN Launched \cup {n} ELSE Launched \ {n}
    BY <1>1, <1>3, <1>5, <1>6 DEF Launched
  <1> QED
    BY <1>3, <1>4, <1>5, <1>6, <1>7 DEF n

LEMMA LaunchRepairStep ==
    ASSUME TypeOK, CallOK, Accounted, LaunchRepair
    PROVE  Good
  <1>1. /\ call.at = "prepared" /\ UNCHANGED <<worktree, reviews, ready, counters>>
        /\ \/ Becomes("RUNNING") /\ call' = [call EXCEPT !.at = "repairing"] /\ Stay
           \/ GiveUp /\ repairs' = repairs
    BY DEF LaunchRepair, Goto
  <1>2. CASE GiveUp /\ repairs' = repairs
    <2>1. /\ reviews' \in Seq(ReviewRuns) /\ UNCHANGED <<worktree, repairs, ready, counters>>
          /\ call.at \notin {"idle", "head"} \cup Passed
      BY <1>1, <1>2, CallTyped DEF Passed
    <2> QED
      BY <1>2, <2>1, GiveUpStep
  <1>3. CASE Becomes("RUNNING") /\ call' = [call EXCEPT !.at = "repairing"] /\ Stay
    <2>1. Len(repairs) \in DOMAIN repairs
      BY <1>1 DEF Accounted, OneInHand, InHand
    <2>2. "RUNNING" \in Statuses
      BY DEF Statuses, Active
    <2>3. /\ repairs' \in Seq(RepairRuns)
          /\ Len(repairs') = Len(repairs) /\ DOMAIN repairs' = DOMAIN repairs
          /\ \A i \in DOMAIN repairs : repairs'[i].attempt = repairs[i].attempt
          /\ Launched' = Launched \cup {Len(repairs)}
      BY <1>3, <2>1, <2>2, LastBecomes
    <2>4. /\ call' \in Calls /\ call'.at = "repairing" /\ call'.attempt = call.attempt
          /\ call'.from = call.from /\ call'.sha = call.sha
      BY <1>3, CallTyped DEF Calls, Positions
    <2>5. /\ head' = head /\ clean' = clean /\ reviews' = reviews /\ ready' = ready
          /\ faults' = faults /\ moves' = moves /\ ticket' = ticket /\ log' = log
      BY <1>1, <1>3 DEF worktree, counters, Stay
    <2>6. TypeOK'
      BY <2>3, <2>4, <2>5, Typed, TypedNext
    <2>7. CallOK'
      BY <1>1, <2>4 DEF CallOK, Attempting, Repairing, InHand, Evaluating
    <2>8. Launches
      BY <1>1, <2>3, <2>4, <2>5 DEF Launches
    <2> QED
      BY <2>6, <2>7, <2>8 DEF Good, Steps
  <1> QED
    BY <1>1, <1>2, <1>3

LEMMA FallBackStep ==
    ASSUME TypeOK, CallOK, Accounted, FallBack
    PROVE  Good
  <1>1. /\ call.at = "prepared" /\ Becomes("REFUSED")
        /\ head' = head /\ clean' = clean /\ reviews' = reviews /\ ready' = ready
        /\ faults' = faults /\ moves' = moves /\ ticket' = ticket /\ log' = log
        /\ \/ /\ call.attempt + call.fallbacks < Limit
              /\ call' = [call EXCEPT !.at = "route", !.fallbacks = call.fallbacks + 1]
           \/ call' = [call EXCEPT !.at = "repaired"]
    BY DEF FallBack, Goto, worktree, counters, Stay
  <1>2. /\ Len(repairs) \in DOMAIN repairs /\ Len(repairs) \notin Launched
        /\ "REFUSED" \in Statuses /\ "REFUSED" \notin Ended \cup {"RUNNING"}
    BY <1>1 DEF Accounted, OneInHand, InHand, Launched, Ended, Statuses
  <1>3. repairs' \in Seq(RepairRuns) /\ RunsKept
    BY <1>1, <1>2, LastBecomes DEF RunsKept
  <1>4. /\ call' \in Calls /\ call'.at \in {"route", "repaired"} /\ call'.attempt = call.attempt
        /\ call'.from = call.from /\ call'.sha = call.sha
    <2>1. CASE /\ call.attempt + call.fallbacks < Limit
               /\ call' = [call EXCEPT !.at = "route", !.fallbacks = call.fallbacks + 1]
      <3>1. call.fallbacks + 1 \in 0..Limit
        BY <2>1, CallTyped DEF Calls
      <3> QED
        BY <2>1, <3>1, CallTyped DEF Calls, Positions
    <2>2. CASE call' = [call EXCEPT !.at = "repaired"]
      BY <2>2, CallTyped DEF Calls, Positions
    <2> QED
      BY <1>1, <2>1, <2>2
  <1>5. TypeOK'
    BY <1>1, <1>3, <1>4, Typed, TypedNext
  <1>6. CallOK'
    BY <1>1, <1>4 DEF CallOK, Attempting, Repairing, InHand, Evaluating
  <1>7. Mends
    BY <1>1, <1>3, <1>4 DEF Mends, Kept, InHand
  <1> QED
    BY <1>5, <1>6, <1>7 DEF Good, Steps

LEMMA FinishRepairStep ==
    ASSUME TypeOK, CallOK, Accounted, FinishRepair
    PROVE  Good
  <1>1. /\ call.at = "repairing" /\ call' = [call EXCEPT !.at = "repaired"]
        /\ head' \in Shas /\ clean' \in BOOLEAN
        /\ ticket' = ticket /\ log' = log /\ reviews' = reviews /\ ready' = ready
        /\ faults' = faults /\ moves' = moves
    BY DEF FinishRepair, Goto, Stay, counters
  <1>2. PICK status \in Ended : Becomes(status)
    BY DEF FinishRepair
  <1>3. Len(repairs) \in DOMAIN repairs /\ Len(repairs) \in Launched /\ status \in Statuses
    BY <1>1 DEF Accounted, OneInHand, InHand, Statuses
  <1>4. repairs' \in Seq(RepairRuns) /\ RunsKept
    BY <1>2, <1>3, LastBecomes DEF RunsKept
  <1>5. /\ call' \in Calls /\ call'.at = "repaired" /\ call'.attempt = call.attempt
        /\ call'.from = call.from /\ call'.sha = call.sha
    BY <1>1, CallTyped DEF Calls, Positions
  <1>6. TypeOK'
    BY <1>1, <1>4, <1>5, Typed, TypedNext
  <1>7. CallOK'
    BY <1>1, <1>5 DEF CallOK, Attempting, Repairing, InHand, Evaluating
  <1>8. Mends
    BY <1>1, <1>4, <1>5 DEF Mends, Kept, InHand
  <1> QED
    BY <1>6, <1>7, <1>8 DEF Good, Steps

LEMMA InspectRepairStep ==
    ASSUME TypeOK, CallOK, InspectRepair
    PROVE  Good
  <1> DEFINE run == Len(repairs)
             to  == IF head = call.sha THEN NoSha ELSE head
             entry(outcome) == Entry(call.attempt, call.sha, to, outcome, {}, run)
  <1>1. /\ call.at = "repaired" /\ UNCHANGED <<worktree, repairs, reviews, ready, counters>>
        /\ call.sha \in Shas /\ call.attempt > 0
    BY DEF InspectRepair, CallOK, Attempting, Repairing, InHand
  <1>2. \/ /\ log' = Append(log, entry("BLOCKED")) /\ ticket' = "VERIFYING"
           /\ NextAttempt(call.blockers)
        \/ Human(entry("NEEDS_HUMAN"))
        \/ call' = [call EXCEPT !.at = "targeted", !.from = call.sha, !.sha = head] /\ Stay
    BY Zenon DEF InspectRepair
  <1>3. ASSUME NEW outcome \in Outcomes
        PROVE  /\ entry(outcome) \in Entries /\ entry(outcome).attempt = call.attempt
               /\ entry(outcome).outcome = outcome /\ entry(outcome).run = Len(repairs)
    <2> DEFINE e == entry(outcome)
    <2>1. e = [attempt |-> call.attempt, from |-> call.sha, to |-> to, outcome |-> outcome,
               blockers |-> call.blockers, passed |-> {}, run |-> run]
      BY DEF Entry
    <2>2. to \in Shas \cup {NoSha}
      BY CallTyped
    <2> HIDE DEF e, to
    <2>3. /\ e \in Entries /\ e.attempt = call.attempt /\ e.outcome = outcome
          /\ e.run = Len(repairs)
      BY <1>1, <2>1, <2>2, CallTyped DEF Entries
    <2> QED
      BY <2>3 DEF e
  <1>4. "BLOCKED" \in Outcomes /\ "NEEDS_HUMAN" \in Outcomes
    BY DEF Outcomes
  <1>5. CASE /\ log' = Append(log, entry("BLOCKED")) /\ ticket' = "VERIFYING"
             /\ NextAttempt(call.blockers)
    <2> DEFINE e == entry("BLOCKED")
               blockers == call.blockers
    <2>1. /\ e \in Entries /\ e.attempt = call.attempt /\ e.outcome = "BLOCKED"
          /\ e.run = Len(repairs) /\ e.run <= Len(repairs)
      BY <1>3, <1>4, CallTyped
    <2>2. blockers \in SUBSET (Commands \cup Axes) /\ NextAttempt(blockers)
      BY <1>5, CallTyped
    <2>3. /\ call' \in Calls /\ CallOK'
          /\ \/ call'.at = "repair" /\ call.attempt < Limit /\ call'.attempt = call.attempt + 1
             \/ call'.at = "exhausted" /\ call'.attempt = Limit
      <3> HIDE DEF blockers
      <3> QED
        BY <1>1, <2>2, NextAttemptStep
    <2>4. log' = Append(log, e) /\ ticket' = "VERIFYING"
      BY <1>5
    <2> HIDE DEF e
    <2>5. Follows(e)
      BY <2>1, <2>3 DEF Follows
    <2> QED
      BY <1>1, <2>1, <2>3, <2>4, <2>5, RecordStep
  <1>6. CASE Human(entry("NEEDS_HUMAN"))
    <2> DEFINE e == entry("NEEDS_HUMAN")
    <2>1. /\ e \in Entries /\ e.outcome = "NEEDS_HUMAN" /\ e.run <= Len(repairs)
      BY <1>3, <1>4, CallTyped
    <2>2. call.at \notin Passed /\ reviews' \in Seq(ReviewRuns)
      BY <1>1, CallTyped DEF Passed
    <2>3. Human(e) /\ UNCHANGED <<worktree, repairs, ready, counters>>
      BY <1>1, <1>6
    <2> HIDE DEF e
    <2> QED
      BY <2>1, <2>2, <2>3, EndStep
  <1>7. CASE call' = [call EXCEPT !.at = "targeted", !.from = call.sha, !.sha = head] /\ Stay
    <2>1. /\ call' \in Calls /\ call'.at = "targeted" /\ call'.attempt = call.attempt
          /\ call'.from = call.sha /\ call'.sha = head
      BY <1>7, CallTyped DEF Calls, Positions
    <2>2. UNCHANGED <<worktree, log, repairs, ready, counters>> /\ ticket' = ticket
      BY <1>1, <1>7 DEF Stay
    <2>3. TypeOK' /\ Kept
      BY <1>1, <2>1, <2>2, Typed, QuietStep
    <2>4. CallOK'
      BY <1>1, <2>1, CallTyped DEF CallOK, Attempting, Repairing, InHand
    <2>5. Mends
      BY <1>1, <2>1, <2>2, <2>3 DEF Mends, InHand
    <2> QED
      BY <2>3, <2>4, <2>5 DEF Good, Steps
  <1> HIDE DEF entry
  <1> QED
    BY <1>2, <1>5, <1>6, <1>7

LEMMA VerifyTargetedStep ==
    ASSUME TypeOK, CallOK, VerifyTargeted
    PROVE  Good
  <1> DEFINE entry(outcome) == Entry(call.attempt, call.from, call.sha, outcome, {}, Len(repairs))
  <1>1. /\ call.at = "targeted" /\ UNCHANGED <<worktree, repairs, reviews, ready, counters>>
        /\ call.sha \in Shas /\ call.from \in Shas
    BY DEF VerifyTargeted, CallOK
  <1>2. \/ GiveUp
        \/ /\ log' = Append(log, entry("REPAIRED")) /\ Goto("final") /\ ticket' = "VERIFYING"
        \/ \E failed \in SUBSET Targeted :
              /\ log' = Append(log, entry("BLOCKED")) /\ ticket' = "VERIFYING"
              /\ NextAttempt((call.blockers \cap Axes) \cup failed)
    BY Zenon DEF VerifyTargeted
  <1>3. ASSUME NEW outcome \in Outcomes
        PROVE  /\ entry(outcome) \in Entries /\ entry(outcome).attempt = call.attempt
               /\ entry(outcome).outcome = outcome /\ entry(outcome).run = Len(repairs)
               /\ entry(outcome).run <= Len(repairs)
    <2> DEFINE e == entry(outcome)
    <2>1. e = [attempt |-> call.attempt, from |-> call.from, to |-> call.sha, outcome |-> outcome,
               blockers |-> call.blockers, passed |-> {}, run |-> Len(repairs)]
      BY DEF Entry
    <2> HIDE DEF e
    <2>2. /\ e \in Entries /\ e.attempt = call.attempt /\ e.outcome = outcome
          /\ e.run = Len(repairs) /\ e.run <= Len(repairs)
      BY <1>1, <2>1, CallTyped DEF Entries
    <2> QED
      BY <2>2 DEF e
  <1>4. "BLOCKED" \in Outcomes /\ "REPAIRED" \in Outcomes
    BY DEF Outcomes
  <1>5. CASE GiveUp
    BY <1>1, <1>5, GiveUpStep, CallTyped DEF Passed
  <1>6. CASE log' = Append(log, entry("REPAIRED")) /\ Goto("final") /\ ticket' = "VERIFYING"
    <2> DEFINE e == entry("REPAIRED")
    <2>1. /\ e \in Entries /\ e.attempt = call.attempt /\ e.outcome = "REPAIRED"
          /\ e.run = Len(repairs) /\ e.run <= Len(repairs)
      BY <1>3, <1>4
    <2>2. /\ call' \in Calls /\ call'.at = "final" /\ call'.attempt = call.attempt
          /\ call'.from = call.from /\ call'.sha = call.sha
      BY <1>6, CallTyped DEF Goto, Calls, Positions
    <2>3. CallOK'
      BY <1>1, <2>2 DEF CallOK, Attempting, Repairing, InHand
    <2>4. log' = Append(log, e) /\ ticket' = "VERIFYING"
      BY <1>6
    <2> HIDE DEF e
    <2>5. Follows(e)
      BY <1>1, <2>1, <2>2 DEF Follows
    <2> QED
      BY <1>1, <2>1, <2>2, <2>3, <2>4, <2>5, RecordStep
  <1>7. ASSUME NEW failed \in SUBSET Targeted,
               log' = Append(log, entry("BLOCKED")), ticket' = "VERIFYING",
               NextAttempt((call.blockers \cap Axes) \cup failed)
        PROVE  Good
    <2> DEFINE e == entry("BLOCKED")
               blockers == (call.blockers \cap Axes) \cup failed
    <2>1. /\ e \in Entries /\ e.attempt = call.attempt /\ e.outcome = "BLOCKED"
          /\ e.run = Len(repairs) /\ e.run <= Len(repairs)
      BY <1>3, <1>4
    <2>2. blockers \in SUBSET (Commands \cup Axes) /\ NextAttempt(blockers)
      BY <1>7 DEF Targeted
    <2>3. /\ call' \in Calls /\ CallOK'
          /\ \/ call'.at = "repair" /\ call.attempt < Limit /\ call'.attempt = call.attempt + 1
             \/ call'.at = "exhausted" /\ call'.attempt = Limit
      <3> HIDE DEF blockers
      <3> QED
        BY <1>1, <2>2, NextAttemptStep
    <2>4. log' = Append(log, e) /\ ticket' = "VERIFYING"
      BY <1>7
    <2> HIDE DEF e
    <2>5. Follows(e)
      BY <2>1, <2>3 DEF Follows
    <2> QED
      BY <1>1, <2>1, <2>3, <2>4, <2>5, RecordStep
  <1> HIDE DEF entry
  <1> QED
    BY <1>2, <1>5, <1>6, <1>7

LEMMA VerifyFinalStep ==
    ASSUME TypeOK, CallOK, Accounted, VerifyFinal
    PROVE  Good
  <1> DEFINE entry(failed) ==
                Entry(call.attempt, call.from, call.sha, "BLOCKED", Commands \ failed, Len(repairs))
  <1>1. /\ call.at = "final" /\ UNCHANGED <<worktree, repairs, reviews, ready, counters>>
        /\ call.sha \in Shas /\ call.from \in Shas /\ ticket = "VERIFYING"
    BY DEF VerifyFinal, CallOK, Accounted, Repairing, InHand
  <1>2. \/ GiveUp
        \/ Goto("snapshot") /\ log' = log /\ ticket' = ticket
        \/ \E failed \in SUBSET Commands :
              log' = Append(log, entry(failed)) /\ ticket' = ticket /\ NextAttempt(failed)
    BY Zenon DEF VerifyFinal
  <1>3. CASE GiveUp
    BY <1>1, <1>3, GiveUpStep, CallTyped DEF Passed
  <1>4. CASE Goto("snapshot") /\ log' = log /\ ticket' = ticket
    <2>1. /\ call' \in Calls /\ call'.at = "snapshot" /\ call'.attempt = call.attempt
          /\ call'.from = call.from /\ call'.sha = call.sha
      BY <1>4, CallTyped DEF Goto, Calls, Positions
    <2>2. UNCHANGED <<worktree, ticket, log, repairs, ready, counters>>
      BY <1>1, <1>4
    <2>3. call'.at \in Evaluating /\ call'.at \notin First /\ reviews' \in Seq(ReviewRuns)
      BY <1>1, <2>1, CallTyped DEF Evaluating, First
    <2> QED
      BY <1>1, <2>1, <2>2, <2>3, LookStep
  <1>5. ASSUME NEW failed \in SUBSET Commands,
               log' = Append(log, entry(failed)), ticket' = ticket, NextAttempt(failed)
        PROVE  Good
    <2> DEFINE e == entry(failed)
    <2>1. e = [attempt |-> call.attempt, from |-> call.from, to |-> call.sha, outcome |-> "BLOCKED",
               blockers |-> call.blockers, passed |-> Commands \ failed, run |-> Len(repairs)]
      BY DEF Entry
    <2>2. log' = Append(log, e) /\ ticket' = "VERIFYING"
      BY <1>1, <1>5
    <2> HIDE DEF e
    <2>3. /\ e \in Entries /\ e.attempt = call.attempt /\ e.outcome = "BLOCKED"
          /\ e.run <= Len(repairs)
      BY <1>1, <2>1, CallTyped DEF Entries, Outcomes
    <2>4. failed \in SUBSET (Commands \cup Axes)
      OBVIOUS
    <2>5. /\ call' \in Calls /\ CallOK'
          /\ \/ call'.at = "repair" /\ call.attempt < Limit /\ call'.attempt = call.attempt + 1
             \/ call'.at = "exhausted" /\ call'.attempt = Limit
      BY <1>1, <1>5, <2>4, NextAttemptStep
    <2>6. Follows(e)
      BY <2>3, <2>5 DEF Follows
    <2>7. call.at \notin Repairing
      BY <1>1 DEF Repairing, InHand
    <2> QED
      BY <1>1, <2>2, <2>3, <2>5, <2>6, <2>7, RecordStep
  <1> HIDE DEF entry
  <1> QED
    BY <1>2, <1>3, <1>4, <1>5

LEMMA AssessStep ==
    ASSUME TypeOK, CallOK, Assess
    PROVE  Good
  <1>1. /\ call.at = "passed" /\ UNCHANGED <<worktree, log, repairs, reviews, ready, counters>>
        /\ \/ /\ Verified(head) /\ Reviewed(head) /\ ticket' = ticket
              /\ call' = [call EXCEPT !.at = "expose", !.sha = head]
           \/ ticket' = "NEEDS_HUMAN" /\ call' = Idle
    BY Zenon DEF Assess, Assessment, NotReady
  <1>2. CASE ticket' = "NEEDS_HUMAN" /\ call' = Idle
    <2>1. TypeOK' /\ Kept
      BY <1>1, <1>2, IdleTyped, CallTyped, QuietStep
    <2>2. CallOK'
      BY <1>2, IdleTyped DEF CallOK, Evaluating, Attempting, Repairing, InHand
    <2>3. Refuses
      BY <1>1, <1>2, <2>1 DEF Refuses
    <2> QED
      BY <2>1, <2>2, <2>3 DEF Good, Steps
  <1>3. CASE /\ Verified(head) /\ Reviewed(head) /\ ticket' = ticket
             /\ call' = [call EXCEPT !.at = "expose", !.sha = head]
    <2>1. /\ call' \in Calls /\ call'.at = "expose" /\ call'.sha = head /\ call'.from = call.from
      BY <1>3, CallTyped DEF Calls, Positions
    <2>2. TypeOK' /\ Kept
      BY <1>1, <1>3, <2>1, Typed, QuietStep
    <2>3. CallOK'
      <3>1. call.from = NoSha /\ head \in Shas
        BY <1>1, CallTyped DEF CallOK, Evaluating
      <3> QED
        BY <2>1, <3>1 DEF CallOK, Evaluating, Attempting, Repairing, InHand
    <2>4. Assesses
      BY <1>1, <1>3, <2>1, <2>2, CallTyped DEF Assesses
    <2> QED
      BY <2>2, <2>3, <2>4 DEF Good, Steps
  <1> QED
    BY <1>1, <1>2, <1>3

LEMMA ExposeStep ==
    ASSUME TypeOK, CallOK, Expose
    PROVE  Good
  <1> DEFINE mark == [sha |-> call.sha, repaired |-> RepairOf(call.sha) # {}]
  <1>1. /\ call.at = "expose" /\ UNCHANGED <<worktree, log, repairs, reviews, counters>>
        /\ \/ /\ ready' = Append(ready, mark) /\ ticket' = ticket
              /\ call' = [call EXCEPT !.at = "ready"]
           \/ ticket' = "NEEDS_HUMAN" /\ call' = Idle /\ ready' = ready
    BY Zenon DEF Expose, NotReady, Goto
  <1>2. CASE ticket' = "NEEDS_HUMAN" /\ call' = Idle /\ ready' = ready
    <2>0. UNCHANGED <<worktree, log, repairs, ready, counters>> /\ reviews' = reviews
      BY <1>1, <1>2
    <2>1. TypeOK' /\ Kept
      BY <1>2, <2>0, IdleTyped, CallTyped, QuietStep
    <2>2. CallOK'
      BY <1>2, IdleTyped DEF CallOK, Evaluating, Attempting, Repairing, InHand
    <2>3. Refuses
      BY <1>1, <1>2, <2>1 DEF Refuses
    <2> QED
      BY <2>1, <2>2, <2>3 DEF Good, Steps
  <1>3. CASE /\ ready' = Append(ready, mark) /\ ticket' = ticket
             /\ call' = [call EXCEPT !.at = "ready"]
    <2>1. mark \in Marks
      <3>1. call.sha \in Shas /\ (RepairOf(call.sha) # {}) \in BOOLEAN
        BY <1>1 DEF CallOK
      <3> QED
        BY <3>1 DEF Marks
    <2>2. /\ call' \in Calls /\ call'.at = "ready" /\ call'.sha = call.sha /\ call'.from = call.from
      BY <1>3, CallTyped DEF Calls, Positions
    <2>3. ready' \in Seq(Marks)
      <3> HIDE DEF mark
      <3> QED
        BY <1>3, <2>1, Typed, Appended
    <2>4. /\ head' = head /\ clean' = clean /\ log' = log /\ repairs' = repairs
          /\ reviews' = reviews /\ faults' = faults /\ moves' = moves
      BY <1>1 DEF worktree, counters
    <2>5. TypeOK'
      BY <1>3, <2>2, <2>3, <2>4, Typed, TypedNext
    <2>6. CallOK'
      BY <1>1, <2>2 DEF CallOK, Evaluating, Attempting, Repairing, InHand
    <2>7. Exposes
      BY <1>1, <1>3, <2>2, <2>4, SameRuns DEF Exposes
    <2> QED
      BY <2>5, <2>6, <2>7 DEF Good, Steps
  <1> HIDE DEF mark
  <1> QED
    BY <1>1, <1>2, <1>3

LEMMA CrashStep ==
    ASSUME TypeOK, CallOK, Crash
    PROVE  Good
  <1>1. /\ call' = Idle /\ faults' = faults + 1 /\ faults < MaxFaults
        /\ head' = head /\ clean' = clean /\ ticket' = ticket /\ log' = log
        /\ repairs' = repairs /\ reviews' = reviews /\ ready' = ready /\ moves' = moves
    BY DEF Crash, worktree
  <1>2. faults' \in 0..MaxFaults
    BY <1>1, Typed, BoundsAssumption
  <1>3. TypeOK'
    BY <1>1, <1>2, IdleTyped, Typed, TypedNext
  <1>4. CallOK'
    BY <1>1, IdleTyped DEF CallOK, Evaluating, Attempting, Repairing, InHand
  <1>5. Dies
    BY <1>1, SameRuns DEF Dies
  <1> QED
    BY <1>3, <1>4, <1>5 DEF Good, Steps

(* A step that leaves the call and its evidence as they are.                *)
LEMMA RestStep ==
    ASSUME CallOK, TypeOK', UNCHANGED <<ticket, log, ready, call, faults>>, RunsKept,
           call.at = "prepared" => repairs' = repairs,
           \A s \in Shas : Reviewed(s) => Reviewed(s)'
    PROVE  Good
  <1>1. CallOK'
    BY DEF CallOK
  <1>2. Rests
    BY DEF Rests, Kept
  <1> QED
    BY <1>1, <1>2 DEF Good, Steps

(* Each element of a sequence is replaced.                                  *)
LEMMA Replaced ==
    ASSUME NEW S, NEW s \in Seq(S), NEW t, t \in [DOMAIN s -> S]
    PROVE  t \in Seq(S) /\ Len(t) = Len(s) /\ DOMAIN t = DOMAIN s
  <1>1. Len(s) \in Nat /\ DOMAIN s = 1..Len(s)
    BY LenProperties
  <1>2. t \in Seq(S)
    BY <1>1, SeqDef
  <1>3. Len(t) \in Nat /\ DOMAIN t = 1..Len(t)
    BY <1>2, LenProperties
  <1> QED
    BY <1>1, <1>2, <1>3

LEMMA RecoverRunStep ==
    ASSUME TypeOK, CallOK, RecoverRun
    PROVE  Good
  <1>1. /\ head' = head /\ clean' = clean /\ UNCHANGED <<ticket, log, ready, call, faults>>
        /\ moves' = moves
        /\ repairs' = [i \in DOMAIN repairs |->
              IF i \notin ActiveRepairs THEN repairs[i]
              ELSE [repairs[i] EXCEPT !.status = IF @ = "CREATED" THEN "REFUSED" ELSE "NEEDS_HUMAN"]]
        /\ reviews' = [i \in DOMAIN reviews |->
              IF reviews[i].says = "RUNNING"
              THEN [reviews[i] EXCEPT !.says = "NONE"] ELSE reviews[i]]
    BY DEF RecoverRun, worktree, counters
  <1>2. repairs' \in Seq(RepairRuns) /\ RunsKept
    <2>1. ASSUME NEW i \in DOMAIN repairs
          PROVE  /\ repairs'[i] \in RepairRuns /\ repairs'[i].attempt = repairs[i].attempt
                 /\ i \in Launched <=> repairs'[i].status \in Ended \cup {"RUNNING"}
      <3>1. repairs[i] \in RepairRuns
        BY CallTyped, ElementOfSeq
      <3>2. CASE repairs[i].status = "CREATED"
        <4>1. repairs'[i] = [repairs[i] EXCEPT !.status = "REFUSED"]
          BY <1>1, <3>2 DEF ActiveRepairs, Active
        <4> QED
          BY <3>1, <3>2, <4>1 DEF RepairRuns, Statuses, Active, Ended, Launched
      <3>3. CASE repairs[i].status = "RUNNING"
        <4>1. repairs'[i] = [repairs[i] EXCEPT !.status = "NEEDS_HUMAN"]
          BY <1>1, <3>3 DEF ActiveRepairs, Active
        <4> QED
          BY <3>1, <3>3, <4>1 DEF RepairRuns, Statuses, Active, Ended, Launched
      <3>4. CASE repairs[i].status \notin Active
        <4>1. repairs'[i] = repairs[i]
          BY <1>1, <3>4 DEF ActiveRepairs
        <4> QED
          BY <3>1, <4>1 DEF Launched
      <3> QED
        BY <3>2, <3>3, <3>4 DEF Active
    <2>2. repairs' \in [DOMAIN repairs -> RepairRuns]
      BY <1>1, <2>1
    <2>3. /\ repairs' \in Seq(RepairRuns) /\ Len(repairs') = Len(repairs)
          /\ DOMAIN repairs' = DOMAIN repairs
      BY <2>2, CallTyped, Replaced
    <2>4. Launched' = Launched
      BY <2>1, <2>3 DEF Launched
    <2> QED
      BY <2>1, <2>3, <2>4 DEF RunsKept
  <1>3. ASSUME NEW i \in DOMAIN reviews
        PROVE  /\ reviews[i] \in ReviewRuns /\ reviews'[i] \in ReviewRuns
               /\ reviews'[i].axis = reviews[i].axis /\ reviews'[i].sha = reviews[i].sha
               /\ reviews[i].says = "PASS" => reviews'[i].says = "PASS"
    <2>1. reviews[i] \in ReviewRuns
      BY CallTyped, ElementOfSeq
    <2>2. CASE reviews[i].says = "RUNNING"
      <3>1. reviews'[i] = [reviews[i] EXCEPT !.says = "NONE"]
        BY <1>1, <2>2
      <3>2. reviews'[i] \in ReviewRuns
        BY <2>1, <3>1 DEF ReviewRuns, Reports
      <3> QED
        BY <2>1, <2>2, <3>1, <3>2 DEF ReviewRuns
    <2>3. CASE reviews[i].says # "RUNNING"
      BY <1>1, <2>1, <2>3
    <2> QED
      BY <2>2, <2>3
  <1>4. reviews' \in Seq(ReviewRuns) /\ DOMAIN reviews' = DOMAIN reviews
    <2>1. reviews' \in [DOMAIN reviews -> ReviewRuns]
      BY <1>1, <1>3
    <2> QED
      BY <2>1, CallTyped, Replaced
  <1>5. TypeOK'
    BY <1>1, <1>2, <1>4, Typed, TypedNext
  <1>6. ASSUME NEW s \in Shas, Reviewed(s) PROVE Reviewed(s)'
    <2>1. ASSUME NEW a \in Axes
          PROVE  ReviewsOf(a, s)' # {} /\ reviews'[Latest(ReviewsOf(a, s))'].says = "PASS"
      <3> DEFINE l == Latest(ReviewsOf(a, s))
      <3>1. ReviewsOf(a, s) # {} /\ reviews[l].says = "PASS"
        BY <1>6 DEF Reviewed
      <3>2. ReviewsOf(a, s)' = ReviewsOf(a, s)
        BY <1>3, <1>4 DEF ReviewsOf
      <3>3. l \in DOMAIN reviews
        <4>1. /\ ReviewsOf(a, s) \in SUBSET (1..Len(reviews)) /\ Len(reviews) \in Nat
              /\ ReviewsOf(a, s) \subseteq DOMAIN reviews
          BY CallTyped DEF ReviewsOf
        <4> QED
          BY <3>1, <4>1, LatestIn
      <3>4. Latest(ReviewsOf(a, s))' = l
        BY <3>2 DEF Latest, Numbers
      <3> HIDE DEF l
      <3>5. reviews'[l].says = "PASS"
        BY <1>3, <3>1, <3>3
      <3> QED
        BY <3>1, <3>2, <3>4, <3>5
    <2> QED
      BY <2>1 DEF Reviewed
  <1> QED
    BY <1>1, <1>2, <1>5, <1>6, RestStep DEF RecoverRun

LEMMA MoveStep ==
    ASSUME TypeOK, CallOK, Move
    PROVE  Good
  <1>1. /\ moves < MaxMoves /\ moves' = moves + 1 /\ head' \in Shas /\ clean' \in BOOLEAN
        /\ UNCHANGED <<ticket, log, ready, call, faults>> /\ repairs' = repairs /\ reviews' = reviews
    BY DEF Move
  <1>2. moves' \in 0..MaxMoves
    BY <1>1, Typed, BoundsAssumption
  <1>3. TypeOK'
    BY <1>1, <1>2, Typed, TypedNext
  <1>4. RunsKept /\ \A s \in Shas : Reviewed(s) => Reviewed(s)'
    BY <1>1, SameRuns DEF Reviewed, ReviewsOf, Latest, Numbers
  <1> QED
    BY <1>1, <1>3, <1>4, RestStep

LEMMA Stutter ==
    ASSUME TypeOK, CallOK, UNCHANGED vars
    PROVE  Good
  <1>1. /\ head' = head /\ clean' = clean /\ UNCHANGED <<ticket, log, ready, call, faults>>
        /\ repairs' = repairs /\ reviews' = reviews /\ moves' = moves
    BY DEF vars, worktree, counters
  <1>2. TypeOK'
    BY <1>1, Typed, TypedNext
  <1>3. RunsKept /\ \A s \in Shas : Reviewed(s) => Reviewed(s)'
    BY <1>1, SameRuns DEF Reviewed, ReviewsOf, Latest, Numbers
  <1> QED
    BY <1>1, <1>2, <1>3, RestStep

LEMMA EveryStep ==
    ASSUME TypeOK, CallOK, Accounted, [Next]_vars
    PROVE  Good
  <1>1. CASE Begin
    BY <1>1, BeginStep
  <1>2. CASE ExactCleanHead
    BY <1>2, HeadStep
  <1>3. CASE Verify
    BY <1>3, VerifyStep
  <1>4. CASE Reviews
    BY <1>4, ReviewsStep
  <1>5. CASE Snapshot
    BY <1>5, SnapshotStep
  <1>6. ASSUME NEW a \in Axes, RequestReview(a) PROVE Good
    BY <1>6, RequestReviewStep
  <1>7. CASE FinishReview
    BY <1>7, FinishReviewStep
  <1>8. CASE Evaluate
    BY <1>8, EvaluateStep
  <1>9. CASE Exhausted
    BY <1>9, ExhaustedStep
  <1>10. CASE StartRepair
    BY <1>10, StartRepairStep
  <1>11. CASE RouteRepair
    BY <1>11, RouteRepairStep
  <1>12. CASE LaunchRepair
    BY <1>12, LaunchRepairStep
  <1>13. CASE FallBack
    BY <1>13, FallBackStep
  <1>14. CASE FinishRepair
    BY <1>14, FinishRepairStep
  <1>15. CASE InspectRepair
    BY <1>15, InspectRepairStep
  <1>16. CASE VerifyTargeted
    BY <1>16, VerifyTargetedStep
  <1>17. CASE VerifyFinal
    BY <1>17, VerifyFinalStep
  <1>18. CASE Assess
    BY <1>18, AssessStep
  <1>19. CASE Expose
    BY <1>19, ExposeStep
  <1>20. CASE Crash
    BY <1>20, CrashStep
  <1>21. CASE RecoverRun
    BY <1>21, RecoverRunStep
  <1>22. CASE Move
    BY <1>22, MoveStep
  <1>23. CASE UNCHANGED vars
    BY <1>23, Stutter
  <1> QED
    BY <1>1, <1>2, <1>3, <1>4, <1>5, <1>6, <1>7, <1>8, <1>9, <1>10, <1>11, <1>12, <1>13,
       <1>14, <1>15, <1>16, <1>17, <1>18, <1>19, <1>20, <1>21, <1>22, <1>23
       DEF Next, Step

-----------------------------------------------------------------------------
(* What the kinds of steps keep. *)

(* Without an event, a run or a crash the evidence is what it was.          *)
LEMMA EvidenceKept ==
    ASSUME UNCHANGED log, RunsKept
    PROVE  /\ AttemptsUsed' = AttemptsUsed /\ Unevidenced' = Unevidenced
           /\ \A s : Verified(s)' <=> Verified(s)
           /\ Spread => Spread'
           /\ Len(repairs') = Len(repairs) /\ Launched' = Launched
           /\ \A i \in Launched : i \in DOMAIN repairs /\ repairs'[i].attempt = repairs[i].attempt
  <1>1. AttemptsUsed' = AttemptsUsed
    BY DEF AttemptsUsed, Latest, Numbers
  <1>2. Unevidenced' = Unevidenced
    BY DEF Unevidenced, RunsKept
  <1>3. ASSUME NEW s PROVE Verified(s)' <=> Verified(s)
    BY DEF Verified, Applicable, Result, Latest, Numbers
  <1>4. \A i \in Launched : i \in DOMAIN repairs /\ repairs'[i].attempt = repairs[i].attempt
    BY DEF Launched, RunsKept
  <1>5. Spread => Spread'
    BY <1>2, <1>4 DEF Spread, RunsKept
  <1> QED
    BY <1>1, <1>2, <1>3, <1>4, <1>5 DEF RunsKept

(* The attempt goes on with the run it has, if it has one.                  *)
Continues ==
    call'.at \in InHand =>
        /\ call.at \in InHand /\ call'.attempt = call.attempt
        /\ call'.at = "prepared" => call.at = "prepared" /\ repairs' = repairs
        /\ call'.at = "repairing" => call.at = "repairing"

(* Unfolded, for the steps that keep the evidence.                          *)
LEMMA AccountedKept ==
    ASSUME Accounted, UNCHANGED log, RunsKept, ticket' \in {"VERIFYING", "REPAIRING", "NEEDS_HUMAN"},
           call'.at # "idle" =>
              ticket' = IF call'.at \in Repairing THEN "REPAIRING" ELSE "VERIFYING",
           ticket' = "VERIFYING" \/ call'.at \in {"route", "prepared"} => Launched \cap Unevidenced = {},
           ticket' # "NEEDS_HUMAN" => ticket # "NEEDS_HUMAN",
           call'.at \notin {"idle"} \cup Passed => AttemptsUsed <= call'.attempt,
           call'.at \in Attempting => AttemptsUsed < call'.attempt,
           Continues
    PROVE  Accounted'
  <1>1. /\ AttemptsUsed' = AttemptsUsed /\ Unevidenced' = Unevidenced /\ Launched' = Launched
        /\ Spread' /\ Len(repairs') = Len(repairs) /\ log' = log
        /\ \A i \in Launched : repairs'[i].attempt = repairs[i].attempt
    BY EvidenceKept DEF Accounted
  <1>2. \A i \in DOMAIN log' : log'[i].run <= Len(repairs')
    BY <1>1 DEF Accounted
  <1>3. ticket' # "NEEDS_HUMAN" =>
          /\ AttemptsUsed' <= Limit
          /\ \A i \in Launched' \ Unevidenced' : repairs'[i].attempt <= AttemptsUsed'
    BY <1>1 DEF Accounted
  <1>4. OneInHand'
    BY <1>1 DEF Accounted, OneInHand, Continues, RunsKept, InHand
  <1>5. ticket' = "VERIFYING" \/ call'.at \in {"route", "prepared"} => Launched' \cap Unevidenced' = {}
    BY <1>1
  <1>6. /\ call'.at \notin {"idle"} \cup Passed => AttemptsUsed' <= call'.attempt
        /\ call'.at \in Attempting => AttemptsUsed' < call'.attempt
    BY <1>1
  <1> QED
    BY <1>1, <1>2, <1>3, <1>4, <1>5, <1>6 DEF Accounted

(* Events name runs there are.                                              *)
LEMMA RunsNamed ==
    ASSUME TypeOK, Accounted, NEW e \in Entries, log' = Append(log, e), e.run <= Len(repairs),
           Len(repairs') = Len(repairs)
    PROVE  \A i \in DOMAIN log' : log'[i].run <= Len(repairs')
  <1>1. /\ DOMAIN log = 1..Len(log) /\ DOMAIN log' = 1..(Len(log) + 1) /\ Len(log) \in Nat
        /\ \A i \in DOMAIN log : log'[i] = log[i]
        /\ log'[Len(log) + 1] = e
    BY Typed, Appended
  <1>2. ASSUME NEW i \in DOMAIN log' PROVE log'[i].run <= Len(repairs')
    <2>1. CASE i \in DOMAIN log
      BY <1>1, <2>1 DEF Accounted
    <2>2. CASE i = Len(log) + 1
      BY <1>1, <2>2
    <2> QED
      BY <1>1, <2>1, <2>2
  <1> QED
    BY <1>2

LEMMA AccountedRecords ==
    ASSUME TypeOK, CallOK, Accounted, Records, call' \in Calls
    PROVE  Accounted'
  <1>1. PICK e \in Entries : /\ log' = Append(log, e) /\ e.attempt = call.attempt
                             /\ e.run <= Len(repairs)
                             /\ call.at \in Repairing => e.run = Len(repairs)
                             /\ Follows(e)
    BY DEF Records
  <1>2. /\ ticket' = "VERIFYING" /\ RunsKept /\ Len(repairs') = Len(repairs)
        /\ DOMAIN repairs' = DOMAIN repairs /\ Launched' = Launched
        /\ \A i \in Launched : repairs'[i].attempt = repairs[i].attempt
        /\ call.at \in {"evaluate", "repaired", "targeted", "final"}
    BY DEF Records, RunsKept, Launched
  <1>3. call.at \notin {"idle"} \cup Passed
    BY <1>2 DEF Passed
  <1>4. /\ AttemptsUsed <= call.attempt
        /\ ticket = IF call.at \in Repairing THEN "REPAIRING" ELSE "VERIFYING"
        /\ ticket # "NEEDS_HUMAN"
        /\ call.at \in Repairing => AttemptsUsed < call.attempt
    BY <1>3 DEF Accounted, Attempting
  <1>5. /\ AttemptsUsed' \in Nat /\ AttemptsUsed <= AttemptsUsed' /\ call.attempt <= AttemptsUsed'
        /\ AttemptsUsed' \in {AttemptsUsed, call.attempt}
        /\ Unevidenced' = Unevidenced \ {e.run}
    BY <1>1, <1>2, Typed, Recorded
  <1>6. AttemptsUsed \in Nat /\ call.attempt \in Nat /\ call.attempt <= Limit /\ Limit \in Nat
        /\ Len(repairs) \in Nat
    BY CallTyped, Typed, Logged
  <1>7. Launched \cap Unevidenced' = {}
    <2>1. CASE call.at \in Repairing
      BY <1>1, <1>5, <2>1 DEF Accounted, Spread
    <2>2. CASE call.at \notin Repairing
      BY <1>4, <1>5, <2>2 DEF Accounted
    <2> QED
      BY <2>1, <2>2
  <1>8. AttemptsUsed' = call.attempt
    BY <1>4, <1>5, <1>6
  <1>9. ASSUME NEW i \in Launched PROVE repairs[i].attempt <= AttemptsUsed'
    <2>1. i \in DOMAIN repairs /\ repairs[i].attempt \in Nat
      <3>1. i \in DOMAIN repairs
        BY DEF Launched
      <3>2. repairs[i] \in RepairRuns
        BY <3>1, CallTyped, ElementOfSeq
      <3> QED
        BY <1>6, <3>1, <3>2 DEF RepairRuns
    <2>2. CASE i \notin Unevidenced
      <3>1. repairs[i].attempt <= AttemptsUsed
        BY <1>4, <2>2 DEF Accounted
      <3> QED
        BY <1>5, <1>6, <2>1, <3>1
    <2>3. CASE i \in Unevidenced
      <3>1. call.at \in Repairing
        BY <1>4, <2>3 DEF Accounted
      <3>2. i = Len(repairs) /\ call.at \in InHand
        BY <1>2, <2>3, <3>1 DEF Accounted, Spread, InHand, Repairing
      <3>3. repairs[i].attempt = call.attempt
        BY <3>2 DEF Accounted, OneInHand
      <3> QED
        BY <1>5, <3>3
    <2> QED
      BY <2>2, <2>3
  <1>10. \/ call'.at = "repair" /\ call'.attempt = call.attempt + 1
         \/ call'.at = "exhausted" /\ call'.attempt = Limit
         \/ call'.at = "final" /\ call'.attempt = call.attempt
         \/ call'.at = "passed"
    BY <1>1 DEF Follows
  <1>11. call'.at \notin {"idle"} \cup Passed => AttemptsUsed' <= call'.attempt
    BY <1>6, <1>8, <1>10 DEF Passed
  <1>12. call'.at \in Attempting => AttemptsUsed' < call'.attempt
    BY <1>6, <1>8, <1>10 DEF Attempting, Repairing, InHand
  <1>13. call'.at \notin Repairing /\ call'.at \notin InHand
    BY <1>10 DEF Repairing, InHand
  <1>14. \A i \in DOMAIN log' : log'[i].run <= Len(repairs')
    BY <1>1, <1>2, RunsNamed
  <1>15. Spread' /\ OneInHand'
    <2>1. \A i, j \in Launched : repairs[i].attempt = repairs[j].attempt => i = j
      BY DEF Accounted, Spread
    <2>2. Spread'
      BY <1>2, <1>7, <2>1 DEF Spread
    <2> QED
      BY <1>13, <2>2 DEF OneInHand, InHand
  <1>16. AttemptsUsed' <= Limit /\ \A i \in Launched' : repairs'[i].attempt <= AttemptsUsed'
    BY <1>2, <1>6, <1>8, <1>9
  <1>17. Launched' \cap Unevidenced' = {}
    BY <1>2, <1>7
  <1> QED
    BY <1>2, <1>11, <1>12, <1>13, <1>14, <1>15, <1>16, <1>17 DEF Accounted

LEMMA AccountedEnds ==
    ASSUME TypeOK, Accounted, Ends
    PROVE  Accounted'
  <1>1. PICK e \in Entries : log' = Append(log, e) /\ e.run <= Len(repairs)
    BY DEF Ends
  <1>2. /\ ticket' = "NEEDS_HUMAN" /\ call'.at = "idle" /\ Len(repairs') = Len(repairs)
        /\ DOMAIN repairs' = DOMAIN repairs /\ Launched' = Launched
        /\ \A i \in Launched : repairs'[i].attempt = repairs[i].attempt
    BY IdleTyped DEF Ends, RunsKept, Launched
  <1>3. \A i \in DOMAIN log' : log'[i].run <= Len(repairs')
    BY <1>1, <1>2, RunsNamed
  <1>4. Unevidenced' = Unevidenced \ {e.run}
    BY <1>1, <1>2, Typed, Recorded
  <1>5. Spread' /\ OneInHand'
    BY <1>2, <1>4 DEF Accounted, Spread, OneInHand, InHand
  <1> QED
    BY <1>2, <1>3, <1>5 DEF Accounted, Attempting, Repairing, InHand

(* One more run, that nothing names yet.                                    *)
LEMMA AccountedPrepares ==
    ASSUME TypeOK, CallOK, Accounted, Prepares
    PROVE  Accounted'
  <1>1. PICK run \in RepairRuns : /\ run.attempt = call.attempt /\ run.status = "CREATED"
                                  /\ repairs' = Append(repairs, run)
    BY DEF Prepares
  <1>2. /\ call.at = "route" /\ call'.at = "prepared" /\ call'.attempt = call.attempt
        /\ ticket' = ticket /\ log' = log
    BY DEF Prepares
  <1> DEFINE n == Len(repairs) + 1
  <1>3. /\ Len(repairs) \in Nat /\ Len(repairs') = n
        /\ DOMAIN repairs = 1..Len(repairs) /\ DOMAIN repairs' = 1..n
        /\ \A i \in DOMAIN repairs : repairs'[i] = repairs[i]
        /\ repairs'[n] = run
    BY <1>1, Typed, Appended
  <1>4. /\ ticket = "REPAIRING" /\ Launched \cap Unevidenced = {} /\ AttemptsUsed < call.attempt
        /\ \A i \in DOMAIN log : log[i].run <= Len(repairs)
        /\ AttemptsUsed <= Limit /\ Spread
        /\ \A i \in Launched \ Unevidenced : repairs[i].attempt <= AttemptsUsed
    BY <1>2 DEF Accounted, Attempting, Repairing
  <1>5. AttemptsUsed' = AttemptsUsed /\ AttemptsUsed \in Nat /\ call.attempt \in Nat
    BY <1>2, Logged, Typed, CallTyped DEF AttemptsUsed, Latest, Numbers
  <1>6. \A i \in DOMAIN log : log[i] \in Entries /\ log[i].run \in Nat
    BY Typed, Logged DEF Entries
  <1>7. Unevidenced' = Unevidenced \cup {n}
    <2> DEFINE named == {log[i].run : i \in DOMAIN log}
    <2>1. Unevidenced' = DOMAIN repairs' \ named /\ Unevidenced = DOMAIN repairs \ named
      BY <1>2 DEF Unevidenced
    <2>2. n \notin named
      BY <1>3, <1>4, <1>6
    <2> HIDE DEF named
    <2> QED
      BY <1>3, <2>1, <2>2
  <1>8. Launched' = Launched /\ n \notin Launched /\ n \in DOMAIN repairs'
        /\ \A i \in Launched : repairs'[i].attempt = repairs[i].attempt
    BY <1>1, <1>3 DEF Launched, Ended
  <1>9. \A i \in DOMAIN log' : log'[i].run <= Len(repairs')
    BY <1>2, <1>3, <1>4, <1>6
  <1>10. Launched' \cap Unevidenced' = {}
    BY <1>4, <1>7, <1>8
  <1>11. Spread'
    <2>1. \A i, j \in Launched : repairs[i].attempt = repairs[j].attempt => i = j
      BY <1>4 DEF Spread
    <2> QED
      BY <1>8, <1>10, <2>1 DEF Spread
  <1>12. OneInHand'
    BY <1>1, <1>2, <1>3, <1>7, <1>8 DEF OneInHand
  <1>13. \A i \in Launched' \ Unevidenced' : repairs'[i].attempt <= AttemptsUsed'
    BY <1>4, <1>5, <1>7, <1>8
  <1>14. AttemptsUsed' <= call'.attempt /\ AttemptsUsed' < call'.attempt /\ AttemptsUsed' <= Limit
    BY <1>2, <1>4, <1>5
  <1>15. ticket' = "REPAIRING" /\ call'.at \in Repairing
    BY <1>2, <1>4 DEF Repairing, InHand
  <1> HIDE DEF n
  <1> QED
    BY <1>2, <1>9, <1>10, <1>11, <1>12, <1>13, <1>14, <1>15 DEF Accounted

(* The launched runs before it belong to attempts that are used up.         *)
LEMMA AccountedLaunches ==
    ASSUME TypeOK, CallOK, Accounted, Launches
    PROVE  Accounted'
  <1> DEFINE n == Len(repairs)
  <1>1. /\ call.at = "prepared" /\ call'.at = "repairing" /\ call'.attempt = call.attempt
        /\ ticket' = ticket /\ log' = log
        /\ DOMAIN repairs' = DOMAIN repairs /\ Len(repairs') = n
        /\ Launched' = Launched \cup {n}
        /\ \A i \in DOMAIN repairs : repairs'[i].attempt = repairs[i].attempt
    BY DEF Launches
  <1>2. /\ ticket = "REPAIRING" /\ Launched \cap Unevidenced = {} /\ AttemptsUsed < call.attempt
        /\ \A i \in DOMAIN log : log[i].run <= n
        /\ AttemptsUsed <= Limit /\ Spread
        /\ \A i \in Launched \ Unevidenced : repairs[i].attempt <= AttemptsUsed
        /\ n \in DOMAIN repairs /\ repairs[n].attempt = call.attempt /\ n \in Unevidenced
    BY <1>1 DEF Accounted, OneInHand, Attempting, Repairing, InHand
  <1>3. AttemptsUsed' = AttemptsUsed /\ AttemptsUsed \in Nat /\ call.attempt \in Nat
    BY <1>1, Logged, Typed, CallTyped DEF AttemptsUsed, Latest, Numbers
  <1>4. Unevidenced' = Unevidenced
    BY <1>1 DEF Unevidenced
  <1>5. ASSUME NEW i \in Launched
        PROVE  i # n /\ repairs'[i].attempt = repairs[i].attempt /\ repairs[i].attempt # call.attempt
    <2>1. i \in DOMAIN repairs /\ i \notin Unevidenced
      BY <1>2 DEF Launched
    <2>2. repairs[i].attempt <= AttemptsUsed
      BY <1>2, <2>1
    <2>3. repairs[i].attempt \in Nat
      <3>1. repairs[i] \in RepairRuns
        BY <2>1, CallTyped, ElementOfSeq
      <3> QED
        BY <3>1, BoundsAssumption DEF RepairRuns
    <2> HIDE DEF n
    <2> QED
      BY <1>1, <1>2, <1>3, <2>1, <2>2, <2>3
  <1> HIDE DEF n
  <1>6. Spread'
    <2>1. \A i, j \in Launched : repairs[i].attempt = repairs[j].attempt => i = j
      BY <1>2 DEF Spread
    <2>2. repairs'[n].attempt = call.attempt
      BY <1>1, <1>2
    <2>3. \A i, j \in Launched' : repairs'[i].attempt = repairs'[j].attempt => i = j
      BY <1>1, <1>5, <2>1, <2>2
    <2>4. \A i \in Launched' \cap Unevidenced' : i = Len(repairs')
      BY <1>1, <1>2, <1>4
    <2> QED
      BY <2>3, <2>4 DEF Spread
  <1>7. OneInHand'
    BY <1>1, <1>2 DEF OneInHand
  <1>8. \A i \in Launched' \ Unevidenced' : repairs'[i].attempt <= AttemptsUsed'
    BY <1>1, <1>2, <1>3, <1>4, <1>5
  <1>9. \A i \in DOMAIN log' : log'[i].run <= Len(repairs')
    BY <1>1, <1>2
  <1>10. /\ AttemptsUsed' <= call'.attempt /\ AttemptsUsed' < call'.attempt /\ AttemptsUsed' <= Limit
         /\ ticket' = "REPAIRING" /\ call'.at \in Repairing /\ call'.at \notin {"route", "prepared"}
    BY <1>1, <1>2, <1>3 DEF Repairing, InHand
  <1> QED
    BY <1>6, <1>7, <1>8, <1>9, <1>10 DEF Accounted

LEMMA Elsewhere ==
    call'.at \notin Repairing => Continues /\ call'.at \notin {"route", "prepared"}
  BY DEF Repairing, InHand, Continues

LEMMA AccountedStep ==
    ASSUME TypeOK, CallOK, Accounted, Good
    PROVE  Accounted'
  <1>1. /\ call' \in Calls /\ call.attempt \in Nat /\ AttemptsUsed \in Nat
        /\ ticket' \in {"VERIFYING", "REPAIRING", "NEEDS_HUMAN"}
        /\ ticket \in {"VERIFYING", "REPAIRING", "NEEDS_HUMAN"}
    BY TypedNext, CallTyped, Typed, Logged DEF Good
  <1>2. CASE Rests
    <2>1. UNCHANGED <<ticket, call, log>> /\ RunsKept /\ Continues
      BY <1>2 DEF Rests, Kept, Continues
    <2> QED
      BY <1>1, <2>1, AccountedKept DEF Accounted
  <1>3. CASE Dies
    <2>1. UNCHANGED <<ticket, log>> /\ RunsKept /\ call'.at = "idle"
      BY <1>3, IdleTyped DEF Dies
    <2>2. call'.at \notin Attempting /\ call'.at \notin Repairing
      BY <2>1 DEF Attempting, Repairing, InHand
    <2> QED
      BY <1>1, <2>1, <2>2, AccountedKept, Elsewhere DEF Accounted
  <1>4. CASE Enters
    <2>1. /\ UNCHANGED log /\ RunsKept /\ call'.at = "head" /\ call'.attempt = AttemptsUsed
          /\ ticket' = "VERIFYING" /\ ticket # "NEEDS_HUMAN" /\ Launched \cap Unevidenced = {}
      BY <1>4 DEF Enters, Kept
    <2>2. call'.at \notin Attempting /\ call'.at \notin Repairing
      BY <2>1 DEF Attempting, Repairing, InHand
    <2> QED
      BY <1>1, <2>1, <2>2, AccountedKept, Elsewhere
  <1>5. CASE Ends
    BY <1>5, AccountedEnds
  <1>6. CASE Refuses
    <2>1. UNCHANGED log /\ RunsKept /\ call'.at = "idle" /\ ticket' = "NEEDS_HUMAN"
      BY <1>6, IdleTyped DEF Refuses, Kept
    <2>2. call'.at \notin Attempting /\ call'.at \notin Repairing
      BY <2>1 DEF Attempting, Repairing, InHand
    <2> QED
      BY <1>1, <2>1, <2>2, AccountedKept, Elsewhere
  <1>7. CASE Looks
    <2>1. /\ UNCHANGED <<ticket, log>> /\ RunsKept
          /\ call.at \in First \cup {"final"} \cup Evaluating
          /\ call'.at \in (First \ {"head"}) \cup Evaluating
          /\ call'.attempt = call.attempt
      BY <1>7 DEF Looks, Kept
    <2>2. call.at \notin {"idle"} \cup Passed /\ call.at \notin Repairing
      BY <2>1 DEF First, Evaluating, Passed, Repairing, InHand
    <2>3. call'.at \notin {"idle"} \cup Passed /\ call'.at \notin Attempting
          /\ call'.at \notin Repairing
      BY <2>1 DEF First, Evaluating, Passed, Attempting, Repairing, InHand
    <2>4. ticket = "VERIFYING" /\ Launched \cap Unevidenced = {} /\ AttemptsUsed <= call.attempt
      BY <2>2 DEF Accounted
    <2> QED
      BY <1>1, <2>1, <2>3, <2>4, AccountedKept, Elsewhere
  <1>8. CASE Retries
    <2>1. /\ UNCHANGED <<ticket, log>> /\ RunsKept /\ call.at = "evaluate"
          /\ call'.at = "repair" /\ call'.attempt = call.attempt + 1
      BY <1>8 DEF Retries, Kept
    <2>2. call.at \notin {"idle"} \cup Passed /\ call.at \notin Repairing
      BY <2>1 DEF Passed, Repairing, InHand
    <2>3. ticket = "VERIFYING" /\ Launched \cap Unevidenced = {} /\ AttemptsUsed <= call.attempt
      BY <2>1, <2>2 DEF Accounted
    <2>4. call'.at \notin Repairing /\ AttemptsUsed < call'.attempt
      BY <1>1, <2>1, <2>3 DEF Repairing, InHand
    <2>5. AttemptsUsed <= call'.attempt
      BY <1>1, <2>1, <2>3
    <2> QED
      BY <1>1, <2>1, <2>3, <2>4, <2>5, AccountedKept, Elsewhere
  <1>9. CASE Starts
    <2>1. /\ UNCHANGED log /\ RunsKept /\ call.at = "repair" /\ ticket' = "REPAIRING"
          /\ call'.at = "route" /\ call'.attempt = call.attempt
      BY <1>9 DEF Starts, Kept
    <2>2. call.at \notin {"idle"} \cup Passed /\ call.at \notin Repairing /\ call.at \in Attempting
      BY <2>1 DEF Passed, Repairing, InHand, Attempting
    <2>3. ticket = "VERIFYING" /\ Launched \cap Unevidenced = {}
      BY <2>2 DEF Accounted
    <2>4. AttemptsUsed < call.attempt /\ AttemptsUsed <= call.attempt
      BY <2>2 DEF Accounted
    <2>5. call'.at \in Repairing /\ Continues
      BY <2>1 DEF Repairing, InHand, Continues
    <2> QED
      BY <1>1, <2>1, <2>3, <2>4, <2>5, AccountedKept
  <1>10. CASE Prepares
    BY <1>10, AccountedPrepares
  <1>11. CASE Launches
    BY <1>11, AccountedLaunches
  <1>12. CASE Mends
    <2>1. /\ UNCHANGED <<ticket, log>> /\ RunsKept
          /\ call.at \in InHand /\ call'.at \in {"route", "repaired", "targeted"}
          /\ call'.at = "route" => call.at = "prepared"
          /\ call'.attempt = call.attempt
      BY <1>12 DEF Mends, Kept
    <2>2. /\ call.at \notin {"idle"} \cup Passed /\ call.at \in Repairing /\ call.at \in Attempting
          /\ call'.at \in Repairing /\ Continues
      BY <2>1 DEF Passed, Repairing, InHand, Attempting, Continues
    <2>3. ticket = "REPAIRING" /\ AttemptsUsed < call.attempt /\ AttemptsUsed <= call.attempt
      BY <2>2 DEF Accounted
    <2>4. call'.at \in {"route", "prepared"} => Launched \cap Unevidenced = {}
      BY <2>1 DEF Accounted
    <2> QED
      BY <1>1, <2>1, <2>2, <2>3, <2>4, AccountedKept
  <1>13. CASE Records
    BY <1>1, <1>13, AccountedRecords
  <1>14. CASE Assesses
    <2>1. /\ UNCHANGED <<ticket, log>> /\ RunsKept /\ call.at = "passed" /\ call'.at = "expose"
      BY <1>14 DEF Assesses, Kept
    <2>2. /\ call'.at \in Passed /\ call'.at \notin Attempting /\ call'.at \notin Repairing
          /\ call.at \notin Repairing
      BY <2>1 DEF Passed, Attempting, Repairing, InHand
    <2>3. ticket = "VERIFYING" /\ Launched \cap Unevidenced = {}
      BY <2>1, <2>2 DEF Accounted
    <2> QED
      BY <1>1, <2>1, <2>2, <2>3, AccountedKept, Elsewhere
  <1>15. CASE Exposes
    <2>1. /\ UNCHANGED <<ticket, log>> /\ RunsKept /\ call.at = "expose" /\ call'.at = "ready"
      BY <1>15 DEF Exposes
    <2>2. /\ call'.at \in Passed /\ call'.at \notin Attempting /\ call'.at \notin Repairing
          /\ call.at \notin Repairing
      BY <2>1 DEF Passed, Attempting, Repairing, InHand
    <2>3. ticket = "VERIFYING" /\ Launched \cap Unevidenced = {}
      BY <2>1, <2>2 DEF Accounted
    <2> QED
      BY <1>1, <2>1, <2>2, <2>3, AccountedKept, Elsewhere
  <1> QED
    BY <1>2, <1>3, <1>4, <1>5, <1>6, <1>7, <1>8, <1>9, <1>10, <1>11, <1>12, <1>13, <1>14, <1>15
       DEF Good, Steps

(* Only Assess makes a commit one to expose.                                *)
LEMMA EarnedStep ==
    ASSUME TypeOK, CallOK, Earned, Good
    PROVE  Earned'
  <1>1. CASE Rests
    <2>1. /\ call' = call /\ UNCHANGED log /\ RunsKept
          /\ \A s \in Shas : Reviewed(s) => Reviewed(s)'
      BY <1>1 DEF Rests, Kept
    <2>2. call.at = "expose" => call.sha \in Shas
      BY DEF CallOK
    <2>3. call.at = "expose" => Verified(call.sha)' /\ Reviewed(call.sha)'
      BY <2>1, <2>2, EvidenceKept DEF Earned
    <2> QED
      BY <2>1, <2>3 DEF Earned
  <1>2. CASE Assesses
    <2>1. PICK s \in Shas : call'.sha = s /\ Verified(s) /\ Reviewed(s)
      BY <1>2 DEF Assesses
    <2>2. UNCHANGED <<log, repairs, reviews>>
      BY <1>2 DEF Assesses, Kept
    <2>3. Verified(s)' /\ Reviewed(s)'
      BY <2>1, <2>2 DEF Verified, Applicable, Result, Latest, Numbers, Reviewed, ReviewsOf
    <2> QED
      BY <2>1, <2>3 DEF Earned
  <1>3. CASE ~Rests /\ ~Assesses
    <2>1. call'.at # "expose"
      <3>1. CASE Dies \/ Ends \/ Refuses
        BY <3>1, IdleTyped DEF Dies, Ends, Refuses
      <3>2. CASE Enters \/ Retries \/ Starts \/ Prepares \/ Launches \/ Mends \/ Exposes
        BY <3>2 DEF Enters, Retries, Starts, Prepares, Launches, Mends, Exposes
      <3>3. CASE Looks
        BY <3>3 DEF Looks, First, Evaluating
      <3>4. CASE Records
        BY <3>4 DEF Records, Follows
      <3> QED
        BY <1>3, <3>1, <3>2, <3>3, <3>4 DEF Good, Steps
    <2> QED
      BY <2>1 DEF Earned
  <1> QED
    BY <1>1, <1>2, <1>3

(* One more event, element by element.                                      *)
LEMMA Extended ==
    ASSUME TypeOK, NEW e \in Entries, log' = Append(log, e)
    PROVE  \A i \in DOMAIN log' : (i \in DOMAIN log /\ log'[i] = log[i]) \/ log'[i] = e
  BY Typed, Appended

LEMMA NothingIn ==
    \A i : i \notin DOMAIN <<>>
  OBVIOUS

(* A PASSED event with a result is of a repair.                             *)
LEMMA PassedStep ==
    ASSUME TypeOK, CallOK, Shown, Good
    PROVE  \A i \in DOMAIN log' :
              log'[i].outcome = "PASSED" /\ log'[i].to # NoSha => log'[i].attempt > 0
  <1>1. CASE log' = log
    BY <1>1 DEF Shown
  <1>2. ASSUME NEW e \in Entries, log' = Append(log, e),
               e.outcome = "PASSED" /\ e.to # NoSha => e.attempt > 0
        PROVE  \A i \in DOMAIN log' :
                  log'[i].outcome = "PASSED" /\ log'[i].to # NoSha => log'[i].attempt > 0
    BY <1>2, Extended DEF Shown
  <1>3. CASE Ends
    <2>1. PICK e \in Entries : log' = Append(log, e) /\ e.outcome = "NEEDS_HUMAN"
      BY <1>3 DEF Ends
    <2> QED
      BY <1>2, <2>1
  <1>4. CASE Records
    <2>1. PICK e \in Entries : log' = Append(log, e) /\ Follows(e)
      BY <1>4 DEF Records
    <2>2. e.outcome = "PASSED" /\ e.to # NoSha => e.attempt > 0
      BY <2>1 DEF Follows
    <2> QED
      BY <1>2, <2>1, <2>2
  <1>5. ~Ends /\ ~Records => log' = log
    BY DEF Good, Steps, Rests, Dies, Enters, Refuses, Looks, Retries, Starts, Prepares, Launches, Mends,
           Assesses, Exposes, Kept
  <1> QED
    BY <1>1, <1>3, <1>4, <1>5

LEMMA OneCallKept ==
    ASSUME OneCall, UNCHANGED log,
           call'.at = "idle" => log = <<>> \/ ticket' = "NEEDS_HUMAN",
           call'.at \in First \cup Evaluating /\ call'.from = NoSha => log = <<>>,
           call'.at \notin {"idle"} \cup Passed => \A i \in DOMAIN log : log[i].outcome # "PASSED",
           ready' # <<>> => call'.at = "ready"
    PROVE  OneCall'
  BY DEF OneCall

(* While the call goes on, nothing is ready.                                *)
LEMMA OneCallStep ==
    ASSUME TypeOK, CallOK, OneCall, Good, ~Dies
    PROVE  OneCall'
  <1>1. CASE Rests
    <2>1. UNCHANGED <<ticket, call, log, ready>>
      BY <1>1 DEF Rests, Kept
    <2> QED
      BY <2>1 DEF OneCall
  <1>2. CASE Enters
    <2>1. /\ call.at = "idle" /\ ticket # "NEEDS_HUMAN" /\ call'.at = "head"
          /\ UNCHANGED <<log, ready>>
      BY <1>2 DEF Enters, Kept
    <2>2. log = <<>> /\ ready' = <<>>
      BY <2>1 DEF OneCall
    <2>3. \A i \in DOMAIN log : log[i].outcome # "PASSED"
      BY <2>2, NothingIn
    <2> QED
      BY <2>1, <2>2, <2>3, OneCallKept
  <1>3. CASE Ends
    <2>1. PICK e \in Entries : log' = Append(log, e) /\ e.outcome = "NEEDS_HUMAN"
      BY <1>3 DEF Ends
    <2>2. /\ call.at \notin Passed /\ call'.at = "idle" /\ ticket' = "NEEDS_HUMAN"
          /\ UNCHANGED ready
      BY <1>3, IdleTyped DEF Ends
    <2>3. ready' = <<>>
      BY <2>2 DEF OneCall, Passed
    <2>4. \A i, j \in DOMAIN log' :
              log'[i].outcome = "PASSED" /\ log'[i].to = NoSha => log'[j].outcome # "REPAIRED"
      BY <2>1, Extended DEF OneCall
    <2>5. call'.at \notin First \cup Evaluating
      BY <2>2 DEF First, Evaluating
    <2> QED
      BY <2>2, <2>3, <2>4, <2>5 DEF OneCall
  <1>4. CASE Refuses
    <2>1. /\ call.at \in {"passed", "expose"} /\ call'.at = "idle" /\ ticket' = "NEEDS_HUMAN"
          /\ UNCHANGED <<log, ready>>
      BY <1>4, IdleTyped DEF Refuses, Kept
    <2>2. ready' = <<>> /\ call'.at \notin First \cup Evaluating
      BY <2>1 DEF OneCall, First, Evaluating
    <2> QED
      BY <2>1, <2>2, OneCallKept
  <1>5. CASE Looks
    <2>1. /\ call.at \in First \cup {"final"} \cup Evaluating
          /\ call'.at \in (First \ {"head"}) \cup Evaluating
          /\ call'.from = call.from /\ UNCHANGED <<log, ready>>
      BY <1>5 DEF Looks, Kept
    <2>2. call.at \notin {"idle"} \cup Passed /\ call.at # "ready" /\ call'.at # "idle"
      BY <2>1 DEF First, Evaluating, Passed
    <2>3. ready' = <<>> /\ \A i \in DOMAIN log : log[i].outcome # "PASSED"
      BY <2>1, <2>2 DEF OneCall
    <2>4. call'.from = NoSha => log = <<>>
      <3>1. call.at = "final" => call.from # NoSha
        BY ShasAreNumbers DEF CallOK
      <3> QED
        BY <2>1, <3>1 DEF OneCall
    <2> QED
      BY <2>1, <2>2, <2>3, <2>4, OneCallKept
  <1>6. CASE Retries \/ Starts \/ Prepares \/ Launches \/ Mends
    <2>1. /\ call.at \in {"evaluate"} \cup Attempting /\ call'.at \in Attempting
          /\ UNCHANGED <<log, ready>>
      BY <1>6 DEF Retries, Starts, Prepares, Launches, Mends, Kept, Attempting, Repairing, InHand
    <2>2. call.at \notin {"idle"} \cup Passed /\ call.at # "ready" /\ call'.at # "idle"
          /\ call'.at \notin First \cup Evaluating
      BY <2>1 DEF First, Evaluating, Passed, Attempting, Repairing, InHand
    <2>3. ready' = <<>> /\ \A i \in DOMAIN log : log[i].outcome # "PASSED"
      BY <2>1, <2>2 DEF OneCall
    <2> QED
      BY <2>1, <2>2, <2>3, OneCallKept
  <1>7. CASE Records
    <2>1. PICK e \in Entries : log' = Append(log, e) /\ Follows(e)
      BY <1>7 DEF Records
    <2>2. call.at \in {"evaluate", "repaired", "targeted", "final"} /\ UNCHANGED ready
      BY <1>7 DEF Records
    <2>3. call.at \notin {"idle"} \cup Passed /\ call.at # "ready"
      BY <2>2 DEF Passed
    <2>4. ready' = <<>> /\ \A i \in DOMAIN log : log[i].outcome # "PASSED"
      BY <2>2, <2>3 DEF OneCall
    <2>5. call'.at \in {"repair", "exhausted", "final", "passed"}
      BY <2>1 DEF Follows
    <2>6. call'.at \notin Passed => e.outcome # "PASSED"
      BY <2>1, <2>5 DEF Follows, Passed
    <2>7. call'.at \notin {"idle"} \cup Passed =>
              \A i \in DOMAIN log' : log'[i].outcome # "PASSED"
      BY <2>1, <2>4, <2>6, Extended
    <2>8. ASSUME NEW i \in DOMAIN log', NEW j \in DOMAIN log',
                 log'[i].outcome = "PASSED", log'[i].to = NoSha
          PROVE  log'[j].outcome # "REPAIRED"
      <3>1. log'[i] = e
        BY <2>1, <2>4, <2>8, Extended
      <3>2. call.at = "evaluate" /\ call.from = NoSha
        BY <2>1, <2>8, <3>1 DEF Follows
      <3>3. log = <<>>
        BY <3>2 DEF OneCall, Evaluating
      <3>4. j \notin DOMAIN log
        BY <3>3, NothingIn
      <3>5. log'[j] = e
        BY <2>1, <3>4, Extended
      <3> QED
        BY <2>8, <3>1, <3>5
    <2>9. call'.at \notin First \cup Evaluating /\ call'.at # "idle"
      BY <2>5 DEF First, Evaluating
    <2> QED
      BY <2>4, <2>7, <2>8, <2>9 DEF OneCall
  <1>8. CASE Assesses \/ Exposes
    <2>1. /\ call'.at \in {"expose", "ready"} /\ UNCHANGED log
          /\ ready' # <<>> => call'.at = "ready"
      <3>1. CASE Assesses
        BY <3>1 DEF Assesses, Kept, OneCall
      <3>2. CASE Exposes
        BY <3>2 DEF Exposes
      <3> QED
        BY <1>8, <3>1, <3>2
    <2>2. call'.at \notin First \cup Evaluating /\ call'.at # "idle" /\ call'.at \in Passed
      BY <2>1 DEF First, Evaluating, Passed
    <2> QED
      BY <2>1, <2>2, OneCallKept
  <1> QED
    BY <1>1, <1>2, <1>3, <1>4, <1>5, <1>6, <1>7, <1>8 DEF Good, Steps

(* A commit whose last evidence is a verification after a repair of this    *)
(* one call came out of that repair.                                        *)
LEMMA RepairIsSeen ==
    ASSUME TypeOK, OneCall, NEW s \in Shas, Verified(s), NEW j \in DOMAIN log,
           log[j].outcome = "REPAIRED",
           \A i \in DOMAIN log :
              log[i].outcome = "PASSED" /\ log[i].to # NoSha => log[i].attempt > 0
    PROVE  RepairOf(s) # {}
  <1> DEFINE l == Latest(Applicable(s))
  <1>1. l \in Applicable(s)
    <2>1. /\ Applicable(s) \in SUBSET (1..Len(log)) /\ Len(log) \in Nat /\ Applicable(s) # {}
      BY Typed, LenProperties DEF Applicable, Verified
    <2> QED
      BY <2>1, LatestIn
  <1>2. log[l].outcome = "PASSED" /\ Result(log[l]) = s /\ l \in DOMAIN log
    BY <1>1 DEF Verified, Applicable
  <1> HIDE DEF l
  <1>3. log[l].to # NoSha
    BY <1>2 DEF OneCall
  <1>4. log[l].to = s /\ log[l].attempt > 0
    BY <1>2, <1>3 DEF Result
  <1> QED
    BY <1>1, <1>2, <1>4 DEF RepairOf

LEMMA RepairsShownStep ==
    ASSUME TypeOK, CallOK, Earned, Shown, Good, faults = 0, ~Dies
    PROVE  RepairsAreShown'
  <1>1. OneCall /\ RepairsAreShown
    BY DEF Shown
  <1>2. CASE UNCHANGED <<log, ready>>
    BY <1>1, <1>2 DEF RepairsAreShown
  <1>3. CASE Ends \/ Records
    <2>1. call.at # "ready" /\ UNCHANGED ready
      BY <1>3 DEF Ends, Records, Passed
    <2>2. ready' = <<>>
      BY <1>1, <2>1 DEF OneCall
    <2> QED
      BY <2>2, NothingIn DEF RepairsAreShown
  <1>4. CASE Exposes
    <2> DEFINE mark == [sha |-> call.sha, repaired |-> RepairOf(call.sha) # {}]
    <2>1. call.at = "expose" /\ ready' = Append(ready, mark) /\ log' = log
      BY <1>4 DEF Exposes
    <2>2. ready = <<>> /\ call.sha \in Shas /\ Verified(call.sha)
      BY <1>1, <2>1 DEF OneCall, CallOK, Earned
    <2>3. ready' = <<mark>>
      BY <2>1, <2>2
    <2>4. ASSUME NEW i \in DOMAIN ready', NEW j \in DOMAIN log',
                 log'[j].outcome = "REPAIRED", log'[j].to = ready'[i].sha
          PROVE  ready'[i].repaired
      <3>1. ready'[i] = mark
        BY <2>3
      <3>2. j \in DOMAIN log /\ log[j].outcome = "REPAIRED"
        BY <2>1, <2>4
      <3>3. RepairOf(call.sha) # {}
        BY <1>1, <2>2, <3>2, RepairIsSeen DEF Shown
      <3>4. mark.repaired = (RepairOf(call.sha) # {})
        BY Zenon
      <3> HIDE DEF mark
      <3>5. mark.repaired
        BY <3>3, <3>4, Zenon
      <3> QED
        BY <3>1, <3>5, Zenon
    <2> QED
      BY <2>4 DEF RepairsAreShown
  <1>5. ~Ends /\ ~Records /\ ~Exposes => UNCHANGED <<log, ready>>
    BY DEF Good, Steps, Rests, Enters, Refuses, Looks, Retries, Starts, Prepares, Launches, Mends,
           Assesses, Kept
  <1> QED
    BY <1>2, <1>3, <1>4, <1>5

LEMMA ShownStep ==
    ASSUME TypeOK, CallOK, Earned, Shown, Good
    PROVE  Shown'
  <1>1. \A i \in DOMAIN log' :
            log'[i].outcome = "PASSED" /\ log'[i].to # NoSha => log'[i].attempt > 0
    BY PassedStep
  <1>2. ASSUME faults' = 0 PROVE faults = 0 /\ ~Dies
    <2>1. faults \in Nat
      BY Typed, BoundsAssumption
    <2>2. Dies => faults' = faults + 1
      BY DEF Dies
    <2>3. ~Dies => faults' = faults
      BY DEF Good, Steps, Rests, Enters, Ends, Refuses, Looks, Retries, Starts, Prepares, Launches, Mends,
             Records, Assesses, Exposes, Kept
    <2> QED
      BY <1>2, <2>1, <2>2, <2>3
  <1>3. faults' = 0 => OneCall'
    BY <1>2, OneCallStep DEF Shown
  <1>4. RepairsAreShown'
    <2>1. faults' = 0 => RepairsAreShown'
      BY <1>2, RepairsShownStep
    <2>2. faults' # 0 => RepairsAreShown'
      BY DEF RepairsAreShown
    <2> QED
      BY <2>1, <2>2
  <1> QED
    BY <1>1, <1>3, <1>4 DEF Shown

-----------------------------------------------------------------------------
(* The invariant, and what it says. *)

LEMMA Initially == Init => CandidateInv
  <1> SUFFICES ASSUME Init PROVE CandidateInv
    OBVIOUS
  <1>1. /\ head = 1 /\ clean = TRUE /\ ticket = "VERIFYING" /\ log = <<>> /\ repairs = <<>>
        /\ reviews = <<>> /\ ready = <<>> /\ call = Idle /\ faults = 0 /\ moves = 0
    BY DEF Init
  <1>2. TypeOK
    BY <1>1, IdleTyped, ShasAreNumbers, EmptySeq, BoundsAssumption, Typed
  <1>3. CallOK
    BY <1>1, IdleTyped DEF CallOK, Evaluating, Attempting, Repairing, InHand
  <1>4. Accounted
    <2>1. Launched = {}
      BY <1>1, NothingIn DEF Launched
    <2>2. AttemptsUsed = 0
      <3>1. AttemptsUsed # 0 => \E i \in DOMAIN log : log[i].attempt = AttemptsUsed
        BY <1>2, Typed, Logged
      <3> QED
        BY <1>1, <3>1, NothingIn
    <2>3. Limit \in Nat
      BY BoundsAssumption
    <2>4. \A i \in DOMAIN log : log[i].run <= Len(repairs)
      BY <1>1, NothingIn
    <2>5. Spread /\ OneInHand
      BY <1>1, IdleTyped, <2>1 DEF Spread, OneInHand, InHand
    <2> QED
      BY <1>1, IdleTyped, <2>1, <2>2, <2>3, <2>4, <2>5 DEF Accounted, Attempting, Repairing, InHand
  <1>5. Earned
    BY <1>1, IdleTyped DEF Earned
  <1>6. Shown
    <2>1. OneCall
      BY <1>1, IdleTyped, NothingIn DEF OneCall, First, Evaluating
    <2> QED
      BY <1>1, <2>1, NothingIn DEF Shown, RepairsAreShown
  <1> QED
    BY <1>2, <1>3, <1>4, <1>5, <1>6 DEF CandidateInv

LEMMA Inductive == CandidateInv /\ [Next]_vars => CandidateInv'
  <1> SUFFICES ASSUME CandidateInv, [Next]_vars PROVE CandidateInv'
    OBVIOUS
  <1>1. TypeOK /\ CallOK /\ Accounted /\ Earned /\ Shown
    BY DEF CandidateInv
  <1>2. Good
    BY <1>1, EveryStep
  <1>3. TypeOK' /\ CallOK'
    BY <1>2 DEF Good
  <1>4. Accounted'
    BY <1>1, <1>2, AccountedStep
  <1>5. Earned'
    BY <1>1, <1>2, EarnedStep
  <1>6. Shown'
    BY <1>1, <1>2, ShownStep
  <1> QED
    BY <1>3, <1>4, <1>5, <1>6 DEF CandidateInv

(* The evidence of a call, its repair runs and what was assessed agree.     *)
THEOREM Invariance == Spec => []CandidateInv
  BY Initially, Inductive, PTL DEF Spec

(* Whatever dies and moves, the evidence, the runs and the locals of a call *)
(* keep their types; no attempt beyond the limit is ever given to a run.    *)
THEOREM TypeCorrect == Spec => []TypeOK
  <1>1. CandidateInv => TypeOK
    BY DEF CandidateInv
  <1> QED
    BY <1>1, Invariance, PTL

(* Launched repairs of different attempts are no more than the attempts.    *)
LEMMA SpreadIsBounded ==
    ASSUME TypeOK, Spread
    PROVE  RepairsAreBounded
  <1> DEFINE f == [i \in Launched |-> repairs[i].attempt]
  <1>1. \A i \in Launched : repairs[i].attempt \in 1..Limit
    <2> SUFFICES ASSUME NEW i \in Launched PROVE repairs[i].attempt \in 1..Limit
      OBVIOUS
    <2>1. repairs[i] \in RepairRuns
      BY CallTyped, ElementOfSeq DEF Launched
    <2> QED
      BY <2>1 DEF RepairRuns
  <1>2. \A i, j \in Launched : repairs[i].attempt = repairs[j].attempt => i = j
    BY DEF Spread
  <1>3. f \in Injection(Launched, 1..Limit)
    BY <1>1, <1>2 DEF Injection, IsInjective
  <1>4. IsFiniteSet(1..Limit) /\ Cardinality(1..Limit) = Limit
    <2>1. Limit \in Nat
      BY BoundsAssumption
    <2> QED
      BY <2>1, FS_Interval
  <1>5. Cardinality(Launched) <= Limit
    <2> HIDE DEF f
    <2> QED
      BY <1>3, <1>4, FS_Injection
  <1> QED
    BY <1>5 DEF Spread, RepairsAreBounded

(* For any limit, any number of crashes and any fallback over providers: no *)
(* more repairs are launched than the limit allows, each for an attempt of  *)
(* its own, and at most the last one lacks evidence.                        *)
THEOREM RepairsBounded == Spec => []RepairsAreBounded
  <1>1. CandidateInv => RepairsAreBounded
    BY SpreadIsBounded DEF CandidateInv, Accounted
  <1> QED
    BY <1>1, Invariance, PTL

(* As long as no call died, a ready commit that came out of a repair is     *)
(* shown as repaired, however the worktree moved.                           *)
THEOREM RepairsAlwaysShown == Spec => []RepairsAreShown
  <1>1. CandidateInv => RepairsAreShown
    BY DEF CandidateInv, Shown
  <1> QED
    BY <1>1, Invariance, PTL

(* The last report on a commit passed if the last run on it did.            *)
LEMMA ReviewedIsCurrent ==
    ASSUME TypeOK, NEW s, Reviewed(s), NEW a \in Axes
    PROVE  Current(a, s) = "PASS"
  <1> DEFINE reported == {i \in ReviewsOf(a, s) : reviews[i].says \in {"PASS", "FAIL", "VAGUE"}}
             last == Latest(ReviewsOf(a, s))
             l == Latest(reported)
  <1>1. /\ ReviewsOf(a, s) \in SUBSET (1..Len(reviews)) /\ Len(reviews) \in Nat
        /\ ReviewsOf(a, s) # {} /\ reviews[last].says = "PASS"
    BY CallTyped DEF ReviewsOf, Reviewed
  <1>2. last \in ReviewsOf(a, s) /\ \A i \in ReviewsOf(a, s) : i <= last
    BY <1>1, LatestIn
  <1>3. last \in reported /\ reported \in SUBSET (1..Len(reviews)) /\ reported # {}
    BY <1>1, <1>2
  <1>4. l \in reported /\ \A i \in reported : i <= l
    <2> HIDE DEF reported, last
    <2> QED
      BY <1>1, <1>3, LatestIn
  <1>5. l \in ReviewsOf(a, s) /\ last <= l /\ l <= last
    <2> HIDE DEF l, last
    <2> QED
      BY <1>2, <1>3, <1>4
  <1>6. l = last
    <2>1. l \in Nat /\ last \in Nat
      <3> HIDE DEF l, last
      <3> QED
        BY <1>1, <1>2, <1>5
    <2> HIDE DEF l, last
    <2> QED
      BY <1>5, <2>1
  <1>7. Current(a, s) = IF reported = {} THEN "unset" ELSE reviews[l].says
    BY DEF Current
  <1> HIDE DEF reported, l, last
  <1> QED
    BY <1>1, <1>3, <1>6, <1>7

(* Nothing but Expose records a commit as ready.                            *)
LEMMA OnlyExpose ==
    ASSUME [Next]_vars, ready' # ready
    PROVE  Expose
  <1>1. ~(Begin \/ ExactCleanHead \/ Verify \/ Reviews \/ Snapshot \/ FinishReview)
    BY DEF Begin, ExactCleanHead, Verify, Reviews, Snapshot, FinishReview
  <1>2. ~(\E a \in Axes : RequestReview(a))
    BY DEF RequestReview
  <1>3. ~(Evaluate \/ Exhausted \/ StartRepair \/ RouteRepair)
    BY DEF Evaluate, Exhausted, StartRepair, RouteRepair
  <1>4. ~(LaunchRepair \/ FallBack \/ FinishRepair)
    BY DEF LaunchRepair, FallBack, FinishRepair
  <1>5. ~(InspectRepair \/ VerifyTargeted \/ VerifyFinal \/ Assess)
    BY DEF InspectRepair, VerifyTargeted, VerifyFinal, Assess
  <1>6. ~(Crash \/ RecoverRun \/ Move \/ UNCHANGED vars)
    BY DEF Crash, RecoverRun, Move, vars
  <1> QED
    BY <1>1, <1>2, <1>3, <1>4, <1>5, <1>6 DEF Next, Step

(* A commit is recorded as ready only while the worktree is at it and clean,*)
(* after a full passing verification of it, with the last report of each    *)
(* review axis passing: Assess and Expose look at two moments, and what     *)
(* other actors do between them does not get through.                       *)
THEOREM ReadyEarned == Spec => ReadyIsEarned
  <1> DEFINE Earns ==
        LET s == ready'[Len(ready')].sha
        IN  /\ Holds(s)
            /\ \E j \in Applicable(s) :
                  /\ log[j].outcome = "PASSED" /\ log[j].passed = Commands
                  /\ log[j].to = s \/ (log[j].from = s /\ log[j].to = NoSha)
                  /\ \A k \in Applicable(s) : k <= j
            /\ \A a \in Axes : Current(a, s) = "PASS"
  <1>1. ASSUME CandidateInv, [Next]_vars, ready' # ready PROVE Earns
    <2>1. Expose /\ TypeOK /\ CallOK /\ Earned
      BY <1>1, OnlyExpose DEF CandidateInv
    <2> DEFINE mark == [sha |-> call.sha, repaired |-> RepairOf(call.sha) # {}]
               s == call.sha
    <2>2. call.at = "expose" /\ Holds(s) /\ ready' = Append(ready, mark)
      BY <1>1, <2>1 DEF Expose
    <2>3. s \in Shas /\ Verified(s) /\ Reviewed(s)
      BY <2>1, <2>2 DEF CallOK, Earned
    <2>4. ready'[Len(ready')].sha = s
      <3>1. mark \in Marks
        <4>1. (RepairOf(s) # {}) \in BOOLEAN
          OBVIOUS
        <4> QED
          BY <2>3, <4>1 DEF Marks
      <3>2. mark.sha = s
        OBVIOUS
      <3> HIDE DEF mark
      <3>3. Len(ready') = Len(ready) + 1 /\ ready'[Len(ready) + 1] = mark
        BY <2>1, <2>2, <3>1, Typed, Appended
      <3> QED
        BY <3>2, <3>3
    <2> HIDE DEF s, mark
    <2>5. \E j \in Applicable(s) :
              /\ log[j].outcome = "PASSED" /\ log[j].passed = Commands
              /\ log[j].to = s \/ (log[j].from = s /\ log[j].to = NoSha)
              /\ \A k \in Applicable(s) : k <= j
      <3> DEFINE j == Latest(Applicable(s))
      <3>1. j \in Applicable(s) /\ \A k \in Applicable(s) : k <= j
        <4>1. /\ Applicable(s) \in SUBSET (1..Len(log)) /\ Len(log) \in Nat
              /\ Applicable(s) # {}
          BY <2>1, <2>3, Typed, LenProperties DEF Applicable, Verified
        <4> QED
          BY <4>1, LatestIn
      <3>2. log[j].outcome = "PASSED" /\ log[j].passed = Commands /\ Result(log[j]) = s
        BY <2>3 DEF Verified
      <3>3. log[j].to = s \/ (log[j].from = s /\ log[j].to = NoSha)
        BY <3>2 DEF Result
      <3> HIDE DEF j
      <3> QED
        BY <3>1, <3>2, <3>3
    <2>6. \A a \in Axes : Current(a, s) = "PASS"
      BY <2>1, <2>3, ReviewedIsCurrent
    <2> QED
      BY <2>2, <2>4, <2>5, <2>6
  <1>2. CandidateInv /\ [Next]_vars => [ready' # ready => Earns]_vars
    BY <1>1
  <1>3. [][ready' # ready => Earns]_vars <=> ReadyIsEarned
    BY DEF ReadyIsEarned
  <1> HIDE DEF Earns
  <1> QED
    BY <1>2, <1>3, Invariance, PTL DEF Spec
=============================================================================
