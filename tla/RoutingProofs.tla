---------------------------- MODULE RoutingProofs ----------------------------
(***************************************************************************)
(* What Routing guarantees for any number of providers, runs, processes,   *)
(* usage records and changes, in every order of refreshes and routes.      *)
(***************************************************************************)
EXTENDS Routing, FiniteSetTheorems, TLAPS

(* A refresh is at a provider; the programs it asked have answered.         *)
Probing(c)  == proc[c].at \in {"probe", "read", "persist"}
Answered(c) == proc[c].at \in {"read", "persist"}

(* What a refresh found agrees with its provider as it is now.              *)
Truthful(c) ==
    /\ truth[proc[c].p] = "gone" => ~proc[c].usable
    /\ truth[proc[c].p] = "out" => proc[c].auth # "authenticated"

(* One call: its provider and its run, its time stamp (probes take time, so *)
(* that an answer is younger than its stamp), the failures it will write    *)
(* back, and, if nobody interfered, that it will be written.                *)
CallOK(c) ==
    /\ Probing(c) \/ proc[c].at = "reserve" => proc[c].p \in Providers
    /\ proc[c].at \in {"idle", "begin", "select"} => proc[c].p = Nobody
    /\ proc[c].at \in {"select", "reserve"} => proc[c].run # NoRun
    /\ proc[c].run # NoRun => holder[proc[c].run] = Nobody
    /\ proc[c].current \/ proc[c].alone => Probing(c)
    /\ proc[c].at \in {"probe", "reserve"} => proc[c].stamp <= clock
    /\ Answered(c) => proc[c].stamp < clock
    /\ proc[c].previous.failures <= used
    /\ /\ proc[c].at = "persist" /\ ~overtaken
       /\ health[proc[c].p].updatedAt < proc[c].stamp
       => proc[c].previous.failures = health[proc[c].p].failures
    /\ proc[c].alone =>
          /\ health[proc[c].p].updatedAt < proc[c].stamp
          /\ registry[proc[c].p].checkedAt < proc[c].stamp

(* One provider's rows: older than the clock, failures counted from usage,  *)
(* and true of the provider once a refresh saw its last change.             *)
RowsOK(p) ==
    /\ registry[p].checkedAt < clock /\ health[p].updatedAt <= clock
    /\ health[p].failures <= used
    /\ seen[p] # "none" /\ truth[p] = "gone" => ~registry[p].usable
    /\ seen[p] = "alone" /\ truth[p] = "out" => health[p].auth # "authenticated"

(* A run is routed by one call at a time.                                   *)
OneCallPerRun ==
    \A c, d \in Procs : proc[c].run # NoRun /\ proc[c].run = proc[d].run => c = d

(* From the begin of a refresh that saw the last change, every answer at    *)
(* least as young as it is true; once it is done, every answer that will    *)
(* still be written.                                                        *)
TrueSince ==
    /\ \A c \in Procs : proc[c].current =>
          /\ registry[proc[c].p].checkedAt >= proc[c].stamp =>
                (truth[proc[c].p] = "gone" => ~registry[proc[c].p].usable)
          /\ \A d \in Procs :
                Answered(d) /\ proc[d].p = proc[c].p /\ proc[d].stamp >= proc[c].stamp
                => Truthful(d)
    /\ \A p \in Providers, d \in Procs :
          /\ seen[p] # "none" /\ Answered(d) /\ proc[d].p = p
          /\ proc[d].stamp > registry[p].checkedAt
          => Truthful(d)

RoutingInv ==
    /\ TypeOK
    /\ clock \in 2..MaxTime
    /\ \A c \in Procs : CallOK(c)
    /\ \A p \in Providers : RowsOK(p)
    /\ OneCallPerRun
    /\ TrueSince
    /\ ActiveRunsAreReservations

-----------------------------------------------------------------------------
(* The best of a finite set. *)

(* A finite set has an element that none of a strict order precedes.        *)
LEMMA BestOf ==
    ASSUME NEW S, IsFiniteSet(S), S # {}, NEW R,
           \A x \in S : <<x, x>> \notin R,
           \A x, y, z \in S : <<x, y>> \in R /\ <<y, z>> \in R => <<x, z>> \in R
    PROVE  \E x \in S : \A y \in S : <<y, x>> \notin R
  <1> DEFINE Better(x) == {y \in S : <<y, x>> \in R}
             Sets == {Better(x) : x \in S}
  <1>1. \A x \in S : Better(x) \subseteq S /\ IsFiniteSet(Better(x))
    BY FS_Subset
  <1>2. Sets \subseteq FiniteSubsetsOf(S) /\ Sets # {}
    <2> HIDE DEF Better
    <2>1. \A x \in S : Better(x) \in FiniteSubsetsOf(S)
      BY <1>1 DEF FiniteSubsetsOf
    <2> QED
      BY <2>1
  <1>3. IsWellFoundedOn(StrictSubsetOrdering(S), FiniteSubsetsOf(S))
    BY FS_StrictSubsetOrderingWellFounded
  <1>4. PICK B \in Sets : \A C \in Sets : <<C, B>> \notin StrictSubsetOrdering(S)
    <2> HIDE DEF Sets
    <2> QED
      BY <1>2, <1>3, WFMin
  <1>5. PICK x \in S : B = Better(x)
    BY <1>4
  <1>6. ASSUME NEW y \in S, <<y, x>> \in R
        PROVE  FALSE
    <2>1. Better(y) \subseteq Better(x) /\ y \in Better(x) /\ y \notin Better(y)
      BY <1>6
    <2>2. <<Better(y), B>> \in StrictSubsetOrdering(S)
      <3>1. Better(y) \in SUBSET S /\ B \in SUBSET S /\ Better(y) \subseteq B /\ Better(y) # B
        BY <1>1, <1>5, <2>1
      <3> HIDE DEF Better
      <3> QED
        BY <3>1 DEF StrictSubsetOrdering
    <2>3. Better(y) \in Sets
      BY <1>6
    <2> QED
      BY <1>4, <2>2, <2>3
  <1> QED
    BY <1>6

(* BeginProbe: the first provider of a set of them.                         *)
LEMMA FirstOf ==
    ASSUME NEW S \in SUBSET Providers, S # {}
    PROVE  (CHOOSE q \in S : \A q2 \in S : q <= q2) \in S
  <1> DEFINE R == {e \in S \X S : e[1] < e[2]}
  <1>1. S \subseteq Nat /\ IsFiniteSet(S)
    BY ProvidersAssumption, FS_Subset
  <1>2. ASSUME NEW x \in S, NEW y \in S
        PROVE  <<x, y>> \in R <=> x < y
    <2>1. <<x, y>> \in S \X S /\ <<x, y>>[1] = x /\ <<x, y>>[2] = y
      OBVIOUS
    <2> DEFINE e == <<x, y>>
    <2>2. e \in R <=> e[1] < e[2]
      <3> HIDE DEF e
      <3> QED
        BY <2>1 DEF e
    <2> QED
      BY <2>1, <2>2
  <1>3. /\ \A x \in S : <<x, x>> \notin R
        /\ \A x, y, z \in S : <<x, y>> \in R /\ <<y, z>> \in R => <<x, z>> \in R
    BY <1>1, <1>2
  <1> HIDE DEF R
  <1>4. \E x \in S : \A y \in S : <<y, x>> \notin R
    BY <1>1, <1>3, BestOf
  <1>5. \E x \in S : \A y \in S : x <= y
    <2>1. PICK x \in S : \A y \in S : <<y, x>> \notin R
      BY <1>4
    <2>2. \A y \in S : ~(y < x)
      BY <1>2, <2>1
    <2>3. \A y \in S : x <= y
      BY <1>1, <2>2
    <2> QED
      BY <2>3
  <1> QED
    BY <1>5

-----------------------------------------------------------------------------
(* The router's choice. *)

(* ScoreCandidate, of what a snapshot shows, is a number.                   *)
LEMMA ScoreTyped ==
    ASSUME TypeOK, NEW p \in Providers, NEW family, NEW alternatives \in BOOLEAN
    PROVE  ScoreCandidate([mode |-> "balanced", risk |-> "low", family |-> family],
                          Snapshot[p], alternatives) \in Int
  <1> DEFINE request == [mode |-> "balanced", risk |-> "low", family |-> family]
             c == Snapshot[p]
  <1>1. /\ c.failures \in Nat /\ c.active \in Nat
        /\ c.pressure = "unknown" /\ c.quality = "unknown"
        /\ c.retries = 0 /\ c.latency = NoLatency
    <2>1. health[p].failures \in 0..MaxUsage /\ health[p].active \in 0..Limit
      BY DEF TypeOK
    <2>2. MaxUsage \in Nat /\ Limit \in Nat
      BY BoundsAssumption DEF Limit
    <2> QED
      BY <2>1, <2>2 DEF Snapshot
  <1>2. request.mode = "balanced" /\ request.risk = "low"
    OBVIOUS
  <1> HIDE DEF request, c
  <1>3. QuotaScore("balanced", "unknown") = 0
    BY DEF QuotaScore
  <1>4. QuotaResetScore("balanced", c) = 0
    BY <1>1 DEF QuotaResetScore
  <1>5. QualityScore("unknown", "low") = 0
    BY DEF QualityScore
  <1>6. LatencyScore("balanced", c.latency) = 0
    BY <1>1 DEF LatencyScore
  <1>7. /\ AtMost(50, 5 * c.failures) \in Int /\ AtMost(20, 2 * c.retries) \in Int
        /\ ConcurrencyScore(c.active) \in Int
    BY <1>1 DEF AtMost, AtLeast, ConcurrencyScore
  <1>8. FamilyScore(request, c, alternatives) \in Int
    BY DEF FamilyScore
  <1> QED
    BY <1>1, <1>2, <1>3, <1>4, <1>5, <1>6, <1>7, <1>8 DEF ScoreCandidate, request, c

(* Selected: if there is a candidate, one of them.                          *)
LEMMA SelectedIsCandidate ==
    ASSUME TypeOK, NEW family, NEW excluded,
           Candidates(Snapshot, excluded) # {}
    PROVE  Selected([mode |-> "balanced", risk |-> "low", family |-> family],
                    Snapshot, excluded) \in Candidates(Snapshot, excluded)
  <1> DEFINE request == [mode |-> "balanced", risk |-> "low", family |-> family]
             C == Candidates(Snapshot, excluded)
             alternatives == FamilyAlternatives(request, Snapshot, excluded)
             score(p) == ScoreCandidate(request, Snapshot[p], alternatives)
             R == {e \in C \X C : score(e[1]) > score(e[2])
                                  \/ (score(e[1]) = score(e[2]) /\ e[1] < e[2])}
  <1>1. C \subseteq Providers /\ C \subseteq Nat /\ IsFiniteSet(C)
    <2>1. C \in SUBSET Providers
      BY DEF Candidates, Snapshot
    <2> QED
      BY <2>1, ProvidersAssumption, FS_Subset
  <1>2. \A p \in C : score(p) \in Int
    <2>1. alternatives \in BOOLEAN
      BY DEF FamilyAlternatives
    <2> HIDE DEF alternatives
    <2> QED
      BY <1>1, <2>1, ScoreTyped
  <1>3. Selected(request, Snapshot, excluded) =
           CHOOSE p \in C : \A q \in C :
               score(p) > score(q) \/ (score(p) = score(q) /\ p <= q)
    BY DEF Selected
  <1>4. C # {}
    OBVIOUS
  <1> HIDE DEF C, score, request, alternatives
  <1>5. ASSUME NEW p \in C, NEW q \in C
        PROVE  <<p, q>> \in R <=>
                  score(p) > score(q) \/ (score(p) = score(q) /\ p < q)
    <2>1. <<p, q>> \in C \X C /\ <<p, q>>[1] = p /\ <<p, q>>[2] = q
      OBVIOUS
    <2> QED
      BY <2>1
  <1> HIDE DEF R
  <1>6. \A p \in C : <<p, p>> \notin R
    BY <1>1, <1>2, <1>5
  <1>7. \A x, y, z \in C : <<x, y>> \in R /\ <<y, z>> \in R => <<x, z>> \in R
    BY <1>1, <1>2, <1>5
  <1>8. \E p \in C : \A q \in C : <<q, p>> \notin R
    BY <1>1, <1>4, <1>6, <1>7, BestOf
  <1>9. \E p \in C : \A q \in C : score(p) > score(q) \/ (score(p) = score(q) /\ p <= q)
    <2>1. PICK p \in C : \A q \in C : <<q, p>> \notin R
      BY <1>8
    <2>2. \A q \in C : ~(score(q) > score(p)) /\ ~(score(q) = score(p) /\ q < p)
      BY <1>5, <2>1
    <2>3. \A q \in C : score(p) > score(q) \/ (score(p) = score(q) /\ p <= q)
      BY <1>1, <1>2, <2>2
    <2> QED
      BY <2>3
  <1>10. Selected(request, Snapshot, excluded) \in C
    BY <1>3, <1>9
  <1> QED
    BY <1>10 DEF C, request

-----------------------------------------------------------------------------
(* Calls. *)

Statuses == {"healthy", "degraded", "unavailable", "unknown"}
Auths    == {"authenticated", "unauthenticated", "unknown"}
Previous == [status : Statuses, failures : 0..MaxUsage, active : 0..Limit]
Row      == [status : Statuses, auth : Auths, failures : 0..MaxUsage, active : 0..Limit,
             updatedAt : Times]
Call     == [at : {"idle", "begin", "probe", "read", "persist", "select", "reserve"},
             todo : SUBSET Providers, run : Runs \cup {NoRun},
             tries : 0..Cardinality(Providers), p : Providers \cup {Nobody},
             stamp : Times, available : {"available", "unavailable", "unknown"},
             auth : Auths, usable : BOOLEAN, previous : Previous,
             current : BOOLEAN, alone : BOOLEAN]

CallsTyped == proc' \in [Procs -> Call]

LEMMA Typed ==
    ASSUME TypeOK
    PROVE  proc \in [Procs -> Call] /\ health \in [Providers -> Row]
  BY DEF TypeOK, Call, Row, Previous, Statuses, Auths

(* A call that went on unharmed, though perhaps not alone or current any    *)
(* more.                                                                    *)
SameAnswer(a, b) ==
    a.p = b.p /\ a.stamp = b.stamp /\ a.auth = b.auth /\ a.usable = b.usable

Like(a, b) ==
    /\ SameAnswer(a, b)
    /\ a.at = b.at /\ a.run = b.run /\ a.previous = b.previous
    /\ a.current => b.current
    /\ a.alone => b.alone

(* A call that starts or ends, without a run.                               *)
Plain(c) ==
    /\ proc[c].at \in {"idle", "begin"} /\ proc[c].run = NoRun /\ proc[c].p = Nobody
    /\ ~proc[c].current /\ ~proc[c].alone /\ proc[c].previous = Unread

LEMMA IdleTyped ==
    Idle \in Call /\ Unread \in Previous
  <1>1. /\ 0 \in 0..MaxUsage /\ 0 \in 0..Limit /\ 0 \in Times
        /\ 0 \in 0..Cardinality(Providers)
    <2>1. Cardinality(Providers) \in Nat
      BY ProvidersAssumption, FS_CardinalityType
    <2> QED
      BY <2>1, BoundsAssumption DEF Limit, Times
  <1> QED
    BY <1>1 DEF Idle, Unread, Call, Previous, Statuses, Auths

(* Disturbed: the refreshes of p are not alone any more.                    *)
LEMMA DisturbedCalls ==
    ASSUME TypeOK, NEW p
    PROVE  /\ Disturbed(p) \in [Procs -> Call]
           /\ \A c \in Procs :
                 /\ Like(Disturbed(p)[c], proc[c])
                 /\ proc[c].p = p => ~Disturbed(p)[c].alone
  <1>1. proc \in [Procs -> Call]
    BY Typed
  <1>2. ASSUME NEW c \in Procs
        PROVE  /\ Disturbed(p)[c] \in Call
               /\ Like(Disturbed(p)[c], proc[c])
               /\ proc[c].p = p => ~Disturbed(p)[c].alone
    <2>1. CASE proc[c].p = p
      <3>1. Disturbed(p)[c] = [proc[c] EXCEPT !.alone = FALSE]
        BY <2>1 DEF Disturbed
      <3>2. proc[c] \in Call
        BY <1>1
      <3>3. Disturbed(p)[c] \in Call
        BY <3>1, <3>2 DEF Call
      <3>4. Like(Disturbed(p)[c], proc[c]) /\ ~Disturbed(p)[c].alone
        BY <3>1, <3>2 DEF Call, Like, SameAnswer
      <3> QED
        BY <3>3, <3>4
    <2>2. CASE proc[c].p # p
      <3>1. Disturbed(p)[c] = proc[c]
        BY <2>2 DEF Disturbed
      <3> QED
        BY <1>1, <2>2, <3>1 DEF Like, SameAnswer
    <2> QED
      BY <2>1, <2>2
  <1> QED
    BY <1>2 DEF Disturbed

(* A call that is left alone, with its provider's rows, stays in order.     *)
LEMMA LikeOK ==
    ASSUME RoutingInv, NEW c \in Procs, Like(proc'[c], proc[c]),
           proc[c].run # NoRun => holder'[proc[c].run] = Nobody,
           proc[c].p \in Providers =>
              health'[proc[c].p] = health[proc[c].p] /\ registry'[proc[c].p] = registry[proc[c].p],
           clock \in Nat, clock' \in Nat, clock <= clock',
           used \in Nat, used' \in Nat, used <= used',
           overtaken => overtaken'
    PROVE  CallOK(c)'
  <1>1. CallOK(c) /\ proc[c] \in Call
    BY Typed DEF RoutingInv
  <1>2. proc[c].stamp \in Nat /\ proc[c].previous.failures \in Nat
    BY <1>1, BoundsAssumption DEF Call, Previous, Times
  <1> QED
    BY <1>1, <1>2 DEF CallOK, Like, SameAnswer, Probing, Answered

(* A call that starts or ends is in order.                                  *)
LEMMA PlainOK ==
    ASSUME NEW c \in Procs, Plain(c)', used' \in Nat
    PROVE  CallOK(c)' /\ ~proc'[c].current /\ ~Answered(c)' /\ proc'[c].run = NoRun
  BY DEF Plain, CallOK, Probing, Answered, Unread

(* Numbers. *)
LEMMA Numbers ==
    ASSUME RoutingInv
    PROVE  /\ clock \in Nat /\ used \in Nat /\ MaxUsage \in Nat /\ MaxTime \in Nat
           /\ 0..clock \subseteq Times
           /\ \A p \in Providers :
                 /\ registry[p].checkedAt \in Nat /\ health[p].updatedAt \in Nat
                 /\ health[p].failures \in Nat /\ health[p].active \in Nat
           /\ \A c \in Procs : proc[c].stamp \in Nat /\ proc[c].previous.failures \in Nat
  <1>1. MaxUsage \in Nat /\ MaxTime \in Nat /\ Limit \in Nat
    BY BoundsAssumption DEF Limit
  <1>2. TypeOK /\ clock \in 2..MaxTime
    BY DEF RoutingInv
  <1>3. proc \in [Procs -> Call] /\ health \in [Providers -> Row]
    BY <1>2, Typed
  <1>4. clock \in Nat /\ used \in Nat /\ 0..clock \subseteq Times /\ Times \subseteq Nat
    BY <1>1, <1>2 DEF TypeOK, Times
  <1>5. \A p \in Providers : registry[p].checkedAt \in Nat
    BY <1>2, <1>4 DEF TypeOK
  <1>6. ASSUME NEW p \in Providers
        PROVE  health[p].updatedAt \in Nat /\ health[p].failures \in Nat /\ health[p].active \in Nat
    <2>1. health[p] \in Row
      BY <1>3
    <2>2. 0..MaxUsage \subseteq Nat /\ 0..Limit \subseteq Nat
      BY <1>1
    <2> QED
      BY <1>4, <2>1, <2>2 DEF Row
  <1>7. ASSUME NEW c \in Procs
        PROVE  proc[c].stamp \in Nat /\ proc[c].previous.failures \in Nat
    <2>1. proc[c] \in Call
      BY <1>3
    <2>2. 0..MaxUsage \subseteq Nat
      BY <1>1
    <2> QED
      BY <1>4, <2>1, <2>2 DEF Call, Previous
  <1> QED
    BY <1>1, <1>4, <1>5, <1>6, <1>7

-----------------------------------------------------------------------------
(* Kinds of steps. *)

(* A step of a call that writes nothing: what the call has become is in     *)
(* order, its run is no other call's, what it was answered is true, and a   *)
(* refresh that begins is younger than every answer and every row.          *)
LEMMA PrivateStep ==
    ASSUME RoutingInv, NEW c \in Procs, CallsTyped,
           UNCHANGED <<truth, registry, health, holder, used, changes, seen, overtaken>>,
           clock' \in clock..MaxTime,
           \A d \in Procs : d # c => proc'[d] = proc[d],
           CallOK(c)',
           proc'[c].run # NoRun => \A d \in Procs : d # c => proc[d].run # proc'[c].run,
           Answered(c)' =>
              \/ Truthful(c)'
              \/ Answered(c) /\ SameAnswer(proc'[c], proc[c]),
           proc'[c].current =>
              \/ proc[c].current /\ proc'[c].p = proc[c].p /\ proc'[c].stamp = proc[c].stamp
              \/ proc'[c].stamp = clock
    PROVE  RoutingInv'
  <1> USE DEF CallsTyped
  <1>0. /\ TypeOK /\ clock \in 2..MaxTime /\ OneCallPerRun /\ TrueSince
        /\ \A d \in Procs : CallOK(d)
        /\ \A p \in Providers : RowsOK(p)
        /\ ActiveRunsAreReservations
    BY DEF RoutingInv
  <1>1. /\ clock \in Nat /\ clock' \in Nat /\ clock <= clock' /\ used \in Nat
        /\ clock' \in 2..MaxTime /\ clock' \in Times
        /\ \A p \in Providers : registry[p].checkedAt \in Nat /\ health[p].updatedAt \in Nat
        /\ \A d \in Procs : proc[d].stamp \in Nat
    BY <1>0, Numbers, BoundsAssumption DEF Times
  <1>2. TypeOK'
    BY <1>0, <1>1 DEF TypeOK, Call, Previous, Statuses, Auths
  <1>3. \A d \in Procs : CallOK(d)'
    <2> SUFFICES ASSUME NEW d \in Procs, d # c PROVE CallOK(d)'
      OBVIOUS
    <2>1. proc'[d] = proc[d]
      OBVIOUS
    <2>2. Like(proc'[d], proc[d])
      BY <2>1 DEF Like, SameAnswer
    <2>3. proc[d].run # NoRun => holder'[proc[d].run] = Nobody
      BY <1>0 DEF CallOK
    <2> QED
      BY <1>1, <2>2, <2>3, LikeOK
  <1>4. \A p \in Providers : RowsOK(p)'
    BY <1>0, <1>1 DEF RowsOK
  <1>5. OneCallPerRun'
    BY <1>0 DEF OneCallPerRun
  <1>6. ASSUME NEW d \in Procs, Answered(d)'
        PROVE  \/ Truthful(d)'
               \/ Answered(d) /\ SameAnswer(proc'[d], proc[d]) /\ (Truthful(d) => Truthful(d)')
    <2>1. CASE d = c
      BY <1>6, <2>1 DEF Truthful, SameAnswer
    <2>2. CASE d # c
      BY <1>6, <2>2 DEF Truthful, SameAnswer, Answered
    <2> QED
      BY <2>1, <2>2
  <1>7. ASSUME NEW e \in Procs, proc'[e].current
        PROVE  \/ /\ proc[e].current
                  /\ proc'[e].p = proc[e].p /\ proc'[e].stamp = proc[e].stamp
               \/ proc'[e].stamp = clock /\ proc'[e].p \in Providers
    <2>1. CASE e = c
      BY <1>7, <2>1 DEF CallOK, Probing
    <2>2. CASE e # c
      BY <1>7, <2>2
    <2> QED
      BY <2>1, <2>2
  <1>8. TrueSince'
    <2>1. ASSUME NEW e \in Procs, proc'[e].current,
                 registry[proc'[e].p].checkedAt >= proc'[e].stamp
          PROVE  truth[proc'[e].p] = "gone" => ~registry[proc'[e].p].usable
      <3>1. CASE proc'[e].stamp = clock /\ proc'[e].p \in Providers
        BY <1>0, <1>1, <2>1, <3>1 DEF RowsOK
      <3>2. CASE /\ proc[e].current
                 /\ proc'[e].p = proc[e].p /\ proc'[e].stamp = proc[e].stamp
        BY <1>0, <2>1, <3>2 DEF TrueSince
      <3> QED
        BY <1>7, <2>1, <3>1, <3>2
    <2>2. ASSUME NEW e \in Procs, proc'[e].current, NEW d \in Procs, Answered(d)',
                 proc'[d].p = proc'[e].p, proc'[d].stamp >= proc'[e].stamp
          PROVE  Truthful(d)'
      <3>1. CASE Answered(d) /\ SameAnswer(proc'[d], proc[d]) /\ (Truthful(d) => Truthful(d)')
        <4>1. proc[d].stamp < clock
          BY <1>0, <3>1 DEF CallOK
        <4>2. proc[d].stamp = proc'[d].stamp /\ proc[d].p = proc'[d].p
          BY <3>1 DEF SameAnswer
        <4>3. CASE proc'[e].stamp = clock
          BY <1>1, <2>2, <4>1, <4>2, <4>3
        <4>4. CASE /\ proc[e].current
                   /\ proc'[e].p = proc[e].p /\ proc'[e].stamp = proc[e].stamp
          BY <1>0, <2>2, <3>1, <4>2, <4>4 DEF TrueSince
        <4> QED
          BY <1>7, <2>2, <4>3, <4>4
      <3> QED
        BY <1>6, <2>2, <3>1
    <2>3. ASSUME NEW p \in Providers, NEW d \in Procs, seen[p] # "none", Answered(d)',
                 proc'[d].p = p, proc'[d].stamp > registry[p].checkedAt
          PROVE  Truthful(d)'
      <3>1. CASE Answered(d) /\ SameAnswer(proc'[d], proc[d]) /\ (Truthful(d) => Truthful(d)')
        BY <1>0, <2>3, <3>1 DEF TrueSince, SameAnswer
      <3> QED
        BY <1>6, <2>3, <3>1
    <2> QED
      BY <2>1, <2>2, <2>3 DEF TrueSince
  <1>9. ActiveRunsAreReservations'
    BY <1>0 DEF ActiveRunsAreReservations
  <1> QED
    BY <1>1, <1>2, <1>3, <1>4, <1>5, <1>8, <1>9 DEF RoutingInv

(* A step that writes p's health and is no refresh: it makes it younger or  *)
(* keeps its failures, and no provider authenticated; the refreshes of p    *)
(* are not alone any more.                                                  *)
LEMMA WriteStep ==
    ASSUME RoutingInv, NEW p \in Providers, NEW row \in Row, NEW t \in 0..clock,
           Write(p, row, t),
           row.auth \in {health[p].auth, "unauthenticated"},
           row.failures <= used', row.failures = health[p].failures \/ t = clock,
           UNCHANGED <<clock, truth, registry, changes, seen>>,
           used' \in used..MaxUsage,
           CallsTyped,
           \A d \in Procs :
              \/ Plain(d)'
              \/ Like(proc'[d], proc[d]) /\ (proc[d].p = p => ~proc'[d].alone),
           holder' \in [Runs -> {Nobody, Released} \cup Providers],
           \A r \in Runs : holder'[r] \in Providers => registry[holder'[r]].checkedAt > 0,
           \A d \in Procs : proc'[d].run # NoRun => holder'[proc'[d].run] = Nobody,
           ActiveRunsAreReservations'
    PROVE  RoutingInv'
  <1> USE DEF CallsTyped
  <1>0. /\ TypeOK /\ clock \in 2..MaxTime /\ OneCallPerRun /\ TrueSince
        /\ \A d \in Procs : CallOK(d)
        /\ \A q \in Providers : RowsOK(q)
    BY DEF RoutingInv
  <1>1. /\ clock \in Nat /\ used \in Nat /\ used' \in Nat /\ used <= used' /\ t \in Nat
        /\ t <= clock /\ t \in Times /\ MaxUsage \in Nat
        /\ \A q \in Providers :
              /\ registry[q].checkedAt \in Nat /\ health[q].updatedAt \in Nat
              /\ health[q].failures \in Nat
        /\ \A d \in Procs : proc[d].stamp \in Nat /\ proc[d].previous.failures \in Nat
    BY Numbers
  <1>2. /\ health' \in [Providers -> Row]
        /\ health'[p] = [row EXCEPT !.updatedAt = t]
        /\ \A q \in Providers : q # p => health'[q] = health[q]
        /\ overtaken' = (overtaken \/ t < health[p].updatedAt)
    <2>1. health \in [Providers -> Row]
      BY <1>0, Typed
    <2>2. [row EXCEPT !.updatedAt = t] \in Row
      BY <1>1 DEF Row
    <2> QED
      BY <2>1, <2>2 DEF Write
  <1>3. /\ health'[p].updatedAt = t /\ health'[p].failures = row.failures
        /\ health'[p].auth = row.auth
    BY <1>2 DEF Row
  <1>4. TypeOK'
    <2>1. overtaken' \in BOOLEAN /\ used' \in 0..MaxUsage
      BY <1>0, <1>1, <1>2 DEF TypeOK
    <2> QED
      BY <1>0, <1>2, <2>1 DEF TypeOK, Call, Row, Previous, Statuses, Auths
  <1>5. ASSUME NEW d \in Procs, ~Plain(d)'
        PROVE  /\ Like(proc'[d], proc[d]) /\ (proc[d].p = p => ~proc'[d].alone)
               /\ CallOK(d)'
    <2>1. Like(proc'[d], proc[d]) /\ (proc[d].p = p => ~proc'[d].alone)
      BY <1>5
    <2>2. proc[d].run # NoRun => holder'[proc[d].run] = Nobody
      BY <2>1 DEF Like, SameAnswer
    <2>3. CASE proc[d].p # p
      <3>1. overtaken => overtaken'
        BY <1>2
      <3> QED
        BY <1>1, <1>2, <2>1, <2>2, <2>3, <3>1, LikeOK
    <2>4. CASE proc[d].p = p
      <3>1. CallOK(d)
        BY <1>0
      <3>2. ASSUME proc'[d].at = "persist", ~overtaken',
                   health'[p].updatedAt < proc'[d].stamp
            PROVE  proc'[d].previous.failures = health'[p].failures
        <4>0. ~(overtaken \/ t < health[p].updatedAt)
          BY <1>2, <3>2, Zenon
        <4>1. /\ ~overtaken /\ health[p].updatedAt <= t /\ t < proc[d].stamp
              /\ proc[d].at = "persist"
          BY <1>1, <1>3, <2>1, <3>2, <4>0 DEF Like, SameAnswer
        <4>2. proc[d].stamp < clock
          BY <3>1, <4>1 DEF CallOK, Answered
        <4>3. row.failures = health[p].failures
          BY <1>1, <4>1, <4>2
        <4>4. health[p].updatedAt < proc[d].stamp
          BY <1>1, <4>1
        <4>5. proc[d].previous.failures = health[p].failures
          BY <2>4, <3>1, <4>1, <4>4 DEF CallOK
        <4> QED
          BY <1>3, <2>1, <4>3, <4>5 DEF Like, SameAnswer
      <3>3. proc'[d].previous.failures <= used'
        <4>1. proc[d].previous.failures <= used
          BY <3>1 DEF CallOK
        <4> QED
          BY <1>1, <2>1, <4>1 DEF Like, SameAnswer
      <3>4. /\ proc'[d].at = proc[d].at /\ proc'[d].run = proc[d].run /\ proc'[d].p = p
            /\ proc'[d].stamp = proc[d].stamp /\ ~proc'[d].alone
            /\ proc'[d].current => proc[d].current
        BY <2>1, <2>4 DEF Like, SameAnswer
      <3>5. /\ Probing(d)' \/ proc'[d].at = "reserve" => proc'[d].p \in Providers
            /\ proc'[d].at \in {"idle", "begin", "select"} => proc'[d].p = Nobody
            /\ proc'[d].at \in {"select", "reserve"} => proc'[d].run # NoRun
            /\ proc'[d].current => Probing(d)'
            /\ proc'[d].at \in {"probe", "reserve"} => proc'[d].stamp <= clock'
            /\ Answered(d)' => proc'[d].stamp < clock'
        BY <2>4, <3>1, <3>4 DEF CallOK, Probing, Answered
      <3> QED
        BY <2>1, <2>2, <3>2, <3>3, <3>4, <3>5 DEF CallOK
    <2> QED
      BY <2>1, <2>3, <2>4
  <1>6. ASSUME NEW d \in Procs, Plain(d)'
        PROVE  CallOK(d)' /\ ~proc'[d].current /\ ~Answered(d)' /\ proc'[d].run = NoRun
    BY <1>1, <1>6, PlainOK
  <1>7. \A d \in Procs : CallOK(d)'
    BY <1>5, <1>6
  <1>8. \A q \in Providers : RowsOK(q)'
    <2>1. ASSUME NEW q \in Providers, q # p
          PROVE  RowsOK(q)'
      BY <1>0, <1>1, <1>2, <2>1 DEF RowsOK
    <2>2. RowsOK(p)'
      BY <1>0, <1>1, <1>3 DEF RowsOK
    <2> QED
      BY <2>1, <2>2
  <1>9. OneCallPerRun'
    <2>1. \A d \in Procs : proc'[d].run # NoRun => proc'[d].run = proc[d].run
      BY <1>5, <1>6 DEF Like, SameAnswer
    <2> QED
      BY <1>0, <2>1 DEF OneCallPerRun
  <1>10. TrueSince'
    <2>1. \A d \in Procs : proc'[d].current =>
             proc[d].current /\ proc'[d].p = proc[d].p /\ proc'[d].stamp = proc[d].stamp
      BY <1>5, <1>6 DEF Like, SameAnswer
    <2>2. \A d \in Procs : Answered(d)' =>
             /\ Answered(d) /\ proc'[d].p = proc[d].p /\ proc'[d].stamp = proc[d].stamp
             /\ Truthful(d) => Truthful(d)'
      BY <1>5, <1>6 DEF Like, SameAnswer, Answered, Truthful
    <2> QED
      BY <1>0, <2>1, <2>2 DEF TrueSince
  <1> QED
    BY <1>0, <1>4, <1>7, <1>8, <1>9, <1>10 DEF RoutingInv

(* Replacing one call by another.                                           *)
LEMMA PutCall ==
    ASSUME NEW c \in Procs, NEW base \in [Procs -> Call], NEW r \in Call,
           proc' = [base EXCEPT ![c] = r]
    PROVE  /\ CallsTyped
           /\ proc'[c] = r
           /\ \A d \in Procs : d # c => proc'[d] = base[d]
  BY DEF CallsTyped

(* A step of a call that ends there, or starts without a run.               *)
LEMMA PlainStep ==
    ASSUME RoutingInv, NEW c \in Procs, NEW r \in Call, proc' = [proc EXCEPT ![c] = r],
           UNCHANGED <<clock, truth, registry, health, holder, used, changes, seen, overtaken>>,
           r.at \in {"idle", "begin"}, r.run = NoRun, r.p = Nobody,
           ~r.current, ~r.alone, r.previous = Unread
    PROVE  RoutingInv'
  <1>1. proc \in [Procs -> Call]
    BY Typed DEF RoutingInv
  <1>2. /\ CallsTyped /\ proc'[c] = r
        /\ \A d \in Procs : d # c => proc'[d] = proc[d]
    BY <1>1, PutCall
  <1>3. clock' \in clock..MaxTime /\ used' \in Nat
    BY Numbers DEF RoutingInv
  <1>4. Plain(c)'
    BY <1>2 DEF Plain
  <1>5. CallOK(c)' /\ ~proc'[c].current /\ ~Answered(c)' /\ proc'[c].run = NoRun
    BY <1>3, <1>4, PlainOK
  <1> QED
    BY <1>2, <1>3, <1>5, PrivateStep

-----------------------------------------------------------------------------
(* The handlers. *)

LEMMA RefreshStep ==
    ASSUME RoutingInv, NEW c \in Procs, Refresh(c)
    PROVE  RoutingInv'
  <1>1. PICK todo \in SUBSET Providers :
           proc' = [proc EXCEPT ![c] = [Idle EXCEPT !.at = "begin", !.todo = todo]]
    BY DEF Refresh
  <1> DEFINE r == [Idle EXCEPT !.at = "begin", !.todo = todo]
  <1>2. /\ r \in Call /\ r.at = "begin" /\ r.run = NoRun /\ r.p = Nobody
        /\ ~r.current /\ ~r.alone /\ r.previous = Unread
    BY IdleTyped DEF Call, Idle
  <1>3. UNCHANGED <<clock, truth, registry, health, holder, used, changes, seen, overtaken>>
    BY DEF Refresh
  <1> HIDE DEF r
  <1>4. proc' = [proc EXCEPT ![c] = r]
    BY <1>1 DEF r
  <1> QED
    BY <1>2, <1>3, <1>4, PlainStep

LEMMA IdleStep ==
    ASSUME RoutingInv, NEW c \in Procs, proc' = [proc EXCEPT ![c] = Idle],
           UNCHANGED <<clock, truth, registry, health, holder, used, changes, seen, overtaken>>
    PROVE  RoutingInv'
  <1>1. /\ Idle \in Call /\ Idle.at = "idle" /\ Idle.run = NoRun /\ Idle.p = Nobody
        /\ ~Idle.current /\ ~Idle.alone /\ Idle.previous = Unread
    BY IdleTyped DEF Idle
  <1> QED
    BY <1>1, PlainStep

LEMMA BeginProbeStep ==
    ASSUME RoutingInv, NEW c \in Procs, BeginProbe(c)
    PROVE  RoutingInv'
  <1> DEFINE job == proc[c]
             p == CHOOSE q \in job.todo : \A q2 \in job.todo : q <= q2
             stamp == AtLeast(clock, registry[p].checkedAt + 1)
             alone == stamp > health[p].updatedAt
  <1>0. /\ TypeOK /\ clock \in 2..MaxTime /\ CallOK(c) /\ job \in Call
        /\ OneCallPerRun /\ proc \in [Procs -> Call]
        /\ \A q \in Providers : RowsOK(q)
    BY Typed DEF RoutingInv
  <1>1. /\ job.at = "begin"
        /\ UNCHANGED <<clock, truth, registry, health, holder, used, changes, seen, overtaken>>
        /\ proc' = [proc EXCEPT ![c] =
              IF job.todo # {}
              THEN [job EXCEPT !.at = "probe", !.p = p, !.todo = @ \ {p}, !.stamp = stamp,
                               !.current = TRUE, !.alone = alone]
              ELSE IF job.run # NoRun THEN [job EXCEPT !.at = "select"] ELSE Idle]
    BY DEF BeginProbe
  <1>2. /\ job.p = Nobody /\ ~job.current /\ ~job.alone
        /\ job.run # NoRun => holder[job.run] = Nobody
        /\ job.previous.failures <= used
    BY <1>0, <1>1 DEF CallOK, Probing
  <1>3. clock' \in clock..MaxTime /\ clock \in Times /\ clock \in Nat
    BY <1>0, <1>1, Numbers, BoundsAssumption DEF Times
  <1>4. job.run # NoRun => \A d \in Procs : d # c => proc[d].run # job.run
    BY <1>0 DEF OneCallPerRun
  <1>5. CASE job.todo # {}
    <2>1. p \in job.todo /\ job.todo \in SUBSET Providers
      <3>1. job.todo \in SUBSET Providers
        BY <1>0 DEF Call
      <3> QED
        BY <1>5, <3>1, FirstOf
    <2>2. /\ p \in Providers /\ registry[p].checkedAt \in Nat /\ health[p].updatedAt \in Nat
          /\ registry[p].checkedAt < clock
      BY <1>0, <2>1, Numbers DEF RowsOK
    <2> HIDE DEF p
    <2>3. stamp = clock
      BY <1>3, <2>2 DEF AtLeast
    <2>4. alone \in BOOLEAN /\ (alone => health[p].updatedAt < clock)
      BY <1>3, <2>2, <2>3
    <2> HIDE DEF alone, stamp, job
    <2> DEFINE r == [job EXCEPT !.at = "probe", !.p = p, !.todo = @ \ {p}, !.stamp = stamp,
                                !.current = TRUE, !.alone = alone]
    <2>5. /\ r.at = "probe" /\ r.p = p /\ r.stamp = clock /\ r.run = job.run
          /\ r.current = TRUE /\ r.alone = alone /\ r.previous = job.previous
      BY <1>0, <2>3 DEF Call
    <2>6. r \in Call
      BY <1>0, <1>3, <2>1, <2>2, <2>3, <2>4 DEF Call
    <2> HIDE DEF r
    <2>7. /\ CallsTyped /\ proc'[c] = r
          /\ \A d \in Procs : d # c => proc'[d] = proc[d]
      <3>1. proc' = [proc EXCEPT ![c] = r]
        BY <1>1, <1>5 DEF r
      <3> QED
        BY <1>0, <2>6, <3>1, PutCall
    <2>8. CallOK(c)'
      <3>1. r.alone => health[p].updatedAt < clock
        BY <2>4, <2>5, Zenon
      <3>2. /\ proc'[c].at = "probe" /\ proc'[c].p \in Providers /\ proc'[c].stamp = clock
            /\ proc'[c].run # NoRun => holder'[proc'[c].run] = Nobody
            /\ proc'[c].previous.failures <= used'
        BY <1>1, <1>2, <2>2, <2>5, <2>7
      <3>3. proc'[c].alone =>
               /\ health'[proc'[c].p].updatedAt < proc'[c].stamp
               /\ registry'[proc'[c].p].checkedAt < proc'[c].stamp
        BY <1>1, <2>2, <2>5, <2>7, <3>1
      <3>4. clock' = clock
        BY <1>1
      <3> QED
        BY <1>3, <3>2, <3>3, <3>4 DEF CallOK, Probing, Answered
    <2>9. ~Answered(c)'
      BY <2>5, <2>7 DEF Answered
    <2>10. proc'[c].stamp = clock /\ proc'[c].run = job.run
      BY <2>5, <2>7
    <2> QED
      BY <1>1, <1>3, <1>4, <2>7, <2>8, <2>9, <2>10, PrivateStep
  <1>6. CASE job.todo = {} /\ job.run # NoRun
    <2> DEFINE r == [job EXCEPT !.at = "select"]
    <2>1. /\ r \in Call /\ r.at = "select" /\ r.p = job.p /\ r.run = job.run
          /\ r.current = job.current /\ r.alone = job.alone /\ r.previous = job.previous
      BY <1>0 DEF Call
    <2>2. proc' = [proc EXCEPT ![c] = r]
      BY <1>1, <1>6
    <2> HIDE DEF r, p, stamp, alone
    <2>3. /\ CallsTyped /\ proc'[c] = r
          /\ \A d \in Procs : d # c => proc'[d] = proc[d]
      BY <1>0, <2>1, <2>2, PutCall
    <2> HIDE DEF job
    <2>4. CallOK(c)' /\ ~Answered(c)' /\ ~proc'[c].current
      BY <1>1, <1>2, <1>6, <2>1, <2>3 DEF CallOK, Probing, Answered
    <2> QED
      BY <1>1, <1>3, <1>4, <2>1, <2>3, <2>4, PrivateStep
  <1>7. CASE job.todo = {} /\ job.run = NoRun
    <2>1. proc' = [proc EXCEPT ![c] = Idle]
      BY <1>1, <1>7
    <2> QED
      BY <1>1, <2>1, IdleStep
  <1> QED
    BY <1>5, <1>6, <1>7

LEMMA ProbeStep ==
    ASSUME RoutingInv, NEW c \in Procs, Probe(c)
    PROVE  RoutingInv'
  <1> DEFINE job == proc[c]
  <1>0. /\ TypeOK /\ clock \in 2..MaxTime /\ CallOK(c) /\ job \in Call
        /\ OneCallPerRun /\ proc \in [Procs -> Call]
    BY Typed DEF RoutingInv
  <1>1. /\ job.at = "probe" /\ clock < MaxTime /\ clock' = clock + 1
        /\ UNCHANGED <<truth, registry, health, holder, used, changes, seen, overtaken>>
    BY DEF Probe
  <1>2. PICK available \in {"available", "unavailable", "unknown"}, auth \in Auths,
             usable \in BOOLEAN :
           /\ proc' = [proc EXCEPT ![c] = [@ EXCEPT
                 !.at = "read", !.available = available, !.auth = auth, !.usable = usable]]
           /\ truth[job.p] = "gone" => ~usable
           /\ truth[job.p] = "out" => auth # "authenticated"
    <2>1. PICK available \in ProbeVersion(job.p) :
             \E auth \in IF available = "available" THEN ProbeAuthentication(job.p) ELSE {"unknown"},
                usable \in IF available = "available" THEN BOOLEAN ELSE {FALSE} :
                proc' = [proc EXCEPT ![c] = [@ EXCEPT
                   !.at = "read", !.available = available, !.auth = auth, !.usable = usable]]
      BY DEF Probe
    <2>2. PICK auth \in IF available = "available" THEN ProbeAuthentication(job.p) ELSE {"unknown"},
               usable \in IF available = "available" THEN BOOLEAN ELSE {FALSE} :
             proc' = [proc EXCEPT ![c] = [@ EXCEPT
                !.at = "read", !.available = available, !.auth = auth, !.usable = usable]]
      BY <2>1
    <2>3. job.p \in Providers /\ truth[job.p] \in {"in", "out", "gone"}
      BY <1>0, <1>1 DEF CallOK, Probing, TypeOK
    <2>4. /\ available \in {"available", "unavailable", "unknown"}
          /\ truth[job.p] = "gone" => available # "available"
      BY <2>1 DEF ProbeVersion
    <2>5. usable \in BOOLEAN /\ (available # "available" => ~usable)
      BY <2>2
    <2>6. /\ auth \in Auths
          /\ truth[job.p] = "out" => auth # "authenticated"
      <3>1. CASE available # "available"
        BY <2>2, <3>1 DEF Auths
      <3>2. CASE available = "available"
        <4>1. auth \in ProbeAuthentication(job.p)
          BY <2>2, <3>2
        <4>2. CASE truth[job.p] = "in"
          BY <4>1, <4>2 DEF ProbeAuthentication, Auths
        <4>3. CASE truth[job.p] = "out"
          BY <4>1, <4>3 DEF ProbeAuthentication, Auths
        <4>4. CASE truth[job.p] = "gone"
          BY <4>1, <4>4 DEF ProbeAuthentication, Auths
        <4> QED
          BY <2>3, <4>2, <4>3, <4>4
      <3> QED
        BY <3>1, <3>2
    <2> QED
      BY <2>2, <2>4, <2>5, <2>6
  <1> DEFINE r == [job EXCEPT !.at = "read", !.available = available, !.auth = auth,
                              !.usable = usable]
  <1>3. /\ r.at = "read" /\ r.run = job.run /\ r.p = job.p /\ r.stamp = job.stamp
        /\ r.auth = auth /\ r.usable = usable /\ r.previous = job.previous
        /\ r.current = job.current /\ r.alone = job.alone
    BY <1>0 DEF Call
  <1>4. r \in Call
    BY <1>0 DEF Call
  <1>5. proc' = [proc EXCEPT ![c] = r]
    BY <1>2
  <1> HIDE DEF r
  <1>6. /\ CallsTyped /\ proc'[c] = r
        /\ \A d \in Procs : d # c => proc'[d] = proc[d]
    BY <1>0, <1>4, <1>5, PutCall
  <1>7. /\ clock \in Nat /\ MaxTime \in Nat /\ job.stamp \in Nat /\ clock' \in clock..MaxTime
    BY <1>1, Numbers
  <1>8. CallOK(c)'
    <2> HIDE DEF job
    <2>1. CallOK(c) /\ job = proc[c]
      BY <1>0 DEF job
    <2> QED
      BY <1>1, <1>3, <1>6, <1>7, <2>1 DEF CallOK, Probing, Answered
  <1>9. Truthful(c)'
    BY <1>1, <1>2, <1>3, <1>6 DEF Truthful
  <1>10. job.run # NoRun => \A d \in Procs : d # c => proc[d].run # job.run
    BY <1>0 DEF OneCallPerRun
  <1> QED
    BY <1>1, <1>3, <1>6, <1>7, <1>8, <1>9, <1>10, PrivateStep

LEMMA ReadPreviousStep ==
    ASSUME RoutingInv, NEW c \in Procs, ReadPrevious(c)
    PROVE  RoutingInv'
  <1> DEFINE job == proc[c]
             row == health[job.p]
             previous == [status |-> row.status, failures |-> row.failures, active |-> row.active]
             r == [job EXCEPT !.at = "persist", !.previous = previous]
  <1>0. /\ TypeOK /\ clock \in 2..MaxTime /\ CallOK(c) /\ job \in Call
        /\ OneCallPerRun /\ proc \in [Procs -> Call] /\ health \in [Providers -> Row]
        /\ \A q \in Providers : RowsOK(q)
    BY Typed DEF RoutingInv
  <1>1. /\ job.at = "read"
        /\ UNCHANGED <<clock, truth, registry, health, holder, used, changes, seen, overtaken>>
        /\ proc' = [proc EXCEPT ![c] = r]
    BY DEF ReadPrevious
  <1>2. job.p \in Providers /\ row \in Row /\ row.failures <= used
    BY <1>0, <1>1 DEF CallOK, Probing, RowsOK
  <1>3. previous \in Previous /\ previous.failures = row.failures
    BY <1>2 DEF Row, Previous
  <1> HIDE DEF previous
  <1>4. /\ r.at = "persist" /\ r.run = job.run /\ r.p = job.p /\ r.stamp = job.stamp
        /\ r.auth = job.auth /\ r.usable = job.usable /\ r.previous = previous
        /\ r.current = job.current /\ r.alone = job.alone
    BY <1>0 DEF Call
  <1>5. r \in Call
    BY <1>0, <1>3 DEF Call
  <1> HIDE DEF r
  <1>6. /\ CallsTyped /\ proc'[c] = r
        /\ \A d \in Procs : d # c => proc'[d] = proc[d]
    BY <1>0, <1>1, <1>5, PutCall
  <1>7. clock' \in clock..MaxTime
    BY <1>0, <1>1, Numbers
  <1>8. CallOK(c)'
    <2> HIDE DEF job, row
    <2>1. CallOK(c) /\ job = proc[c] /\ row = health[job.p]
      BY <1>0 DEF job, row
    <2> QED
      BY <1>1, <1>2, <1>3, <1>4, <1>6, <2>1 DEF CallOK, Probing, Answered
  <1>9. SameAnswer(proc'[c], proc[c]) /\ Answered(c)
    BY <1>1, <1>4, <1>6 DEF SameAnswer, Answered
  <1>10. job.run # NoRun => \A d \in Procs : d # c => proc[d].run # job.run
    BY <1>0 DEF OneCallPerRun
  <1> QED
    BY <1>1, <1>4, <1>6, <1>7, <1>8, <1>9, <1>10, PrivateStep

LEMMA RouteStep ==
    ASSUME RoutingInv, NEW c \in Procs, NEW run \in Runs, Route(c, run)
    PROVE  RoutingInv'
  <1>0. /\ TypeOK /\ clock \in 2..MaxTime /\ proc \in [Procs -> Call]
    BY Typed DEF RoutingInv
  <1>1. /\ holder[run] = Nobody /\ \A d \in Procs : proc[d].run # run
        /\ UNCHANGED <<clock, truth, registry, health, holder, used, changes, seen, overtaken>>
    BY DEF Route
  <1>2. PICK r \in Call : /\ proc' = [proc EXCEPT ![c] = r]
                          /\ r.at \in {"begin", "select"} /\ r.run = run /\ r.p = Nobody
                          /\ ~r.current /\ ~r.alone /\ r.previous = Unread
    <2> DEFINE r1 == [Idle EXCEPT !.at = "begin", !.run = run, !.todo = Providers]
               r2 == [Idle EXCEPT !.at = "select", !.run = run]
    <2>1. /\ r1 \in Call /\ r1.at = "begin" /\ r1.run = run /\ r1.p = Nobody
          /\ ~r1.current /\ ~r1.alone /\ r1.previous = Unread
      BY IdleTyped DEF Call, Idle
    <2>2. /\ r2 \in Call /\ r2.at = "select" /\ r2.run = run /\ r2.p = Nobody
          /\ ~r2.current /\ ~r2.alone /\ r2.previous = Unread
      BY IdleTyped DEF Call, Idle
    <2>3. proc' = [proc EXCEPT ![c] = r1] \/ proc' = [proc EXCEPT ![c] = r2]
      BY DEF Route
    <2> HIDE DEF r1, r2
    <2> QED
      BY <2>1, <2>2, <2>3
  <1>3. /\ CallsTyped /\ proc'[c] = r
        /\ \A d \in Procs : d # c => proc'[d] = proc[d]
    BY <1>0, <1>2, PutCall
  <1>4. clock' \in clock..MaxTime /\ used' \in Nat
    BY <1>0, <1>1, Numbers
  <1>5. CallOK(c)' /\ ~Answered(c)' /\ ~proc'[c].current
    BY <1>1, <1>2, <1>3, <1>4, RunsAssumption DEF CallOK, Probing, Answered, Unread
  <1> QED
    BY <1>1, <1>2, <1>3, <1>4, <1>5, PrivateStep

LEMMA SelectStep ==
    ASSUME RoutingInv, NEW c \in Procs, Select(c)
    PROVE  RoutingInv'
  <1> DEFINE job == proc[c]
  <1>0. /\ TypeOK /\ clock \in 2..MaxTime /\ CallOK(c) /\ job \in Call
        /\ OneCallPerRun /\ proc \in [Procs -> Call]
    BY Typed DEF RoutingInv
  <1>1. /\ job.at = "select"
        /\ UNCHANGED <<clock, truth, registry, health, holder, used, changes, seen, overtaken>>
    BY DEF Select
  <1>2. \/ proc' = [proc EXCEPT ![c] = Idle]
        \/ \E p \in Providers :
              proc' = [proc EXCEPT ![c] = [@ EXCEPT !.at = "reserve", !.stamp = clock, !.p = p]]
    <2>1. PICK excluded \in SUBSET Providers \ {Providers},
               family \in {"none"} \cup {Family[p] : p \in Providers} :
             LET request == [mode |-> "balanced", risk |-> "low", family |-> family]
             IN  proc' = [proc EXCEPT ![c] =
                   IF Candidates(Snapshot, excluded) = {} THEN Idle
                   ELSE [@ EXCEPT !.at = "reserve", !.stamp = clock,
                                  !.p = Selected(request, Snapshot, excluded)]]
      BY DEF Select
    <2> DEFINE request == [mode |-> "balanced", risk |-> "low", family |-> family]
               p == Selected(request, Snapshot, excluded)
    <2>2. CASE Candidates(Snapshot, excluded) = {}
      BY <2>1, <2>2
    <2>3. CASE Candidates(Snapshot, excluded) # {}
      <3>1. p \in Candidates(Snapshot, excluded)
        BY <1>0, <2>3, SelectedIsCandidate
      <3>2. p \in Providers
        BY <3>1 DEF Candidates, Snapshot
      <3> QED
        BY <2>1, <2>3, <3>2
    <2> QED
      BY <2>2, <2>3
  <1>3. CASE proc' = [proc EXCEPT ![c] = Idle]
    BY <1>1, <1>3, IdleStep
  <1>4. ASSUME NEW p \in Providers,
               proc' = [proc EXCEPT ![c] = [@ EXCEPT !.at = "reserve", !.stamp = clock, !.p = p]]
        PROVE  RoutingInv'
    <2> DEFINE r == [job EXCEPT !.at = "reserve", !.stamp = clock, !.p = p]
    <2>1. clock \in Times /\ clock \in Nat /\ clock' \in clock..MaxTime
      BY <1>0, <1>1, Numbers, BoundsAssumption DEF Times
    <2>2. /\ r \in Call /\ r.at = "reserve" /\ r.p = p /\ r.stamp = clock /\ r.run = job.run
          /\ r.current = job.current /\ r.alone = job.alone /\ r.previous = job.previous
      BY <1>0, <2>1 DEF Call
    <2>3. proc' = [proc EXCEPT ![c] = r]
      BY <1>4
    <2> HIDE DEF r
    <2>4. /\ CallsTyped /\ proc'[c] = r
          /\ \A d \in Procs : d # c => proc'[d] = proc[d]
      BY <1>0, <2>2, <2>3, PutCall
    <2>5. /\ job.run # NoRun /\ holder[job.run] = Nobody
          /\ ~job.current /\ ~job.alone /\ job.previous.failures <= used
      BY <1>0, <1>1 DEF CallOK, Probing
    <2>6. CallOK(c)' /\ ~Answered(c)' /\ ~proc'[c].current
      BY <1>1, <2>1, <2>2, <2>4, <2>5 DEF CallOK, Probing, Answered
    <2>7. \A d \in Procs : d # c => proc[d].run # job.run
      BY <1>0, <2>5 DEF OneCallPerRun
    <2> QED
      BY <1>1, <2>1, <2>2, <2>4, <2>6, <2>7, PrivateStep
  <1> QED
    BY <1>2, <1>3, <1>4

(* A reservation takes a provider nobody holds, since its limit is one.     *)
LEMMA ReserveStep ==
    ASSUME RoutingInv, NEW c \in Procs, Reserve(c)
    PROVE  RoutingInv'
  <1> DEFINE job == proc[c]
             p == job.p
  <1>0. /\ TypeOK /\ clock \in 2..MaxTime /\ CallOK(c) /\ job \in Call
        /\ OneCallPerRun /\ proc \in [Procs -> Call] /\ health \in [Providers -> Row]
        /\ \A q \in Providers : RowsOK(q)
        /\ ActiveRunsAreReservations
    BY Typed DEF RoutingInv
  <1>1. /\ job.at = "reserve"
        /\ UNCHANGED <<clock, truth, registry, used, changes, seen>>
    BY DEF Reserve
  <1>2. /\ p \in Providers /\ job.run \in Runs /\ holder[job.run] = Nobody
        /\ job.run # NoRun
        /\ ~job.current /\ ~job.alone /\ job.stamp \in 0..clock
        /\ job.previous.failures <= used
    <2>1. /\ p \in Providers /\ job.run # NoRun /\ holder[job.run] = Nobody
          /\ ~job.current /\ ~job.alone /\ job.stamp <= clock
          /\ job.previous.failures <= used
      BY <1>0, <1>1 DEF CallOK, Probing
    <2>2. job.run \in Runs
      BY <1>0, <2>1 DEF Call
    <2>3. job.stamp \in Nat /\ clock \in Nat
      BY Numbers
    <2> QED
      BY <2>1, <2>2, <2>3
  <1>3. clock' \in clock..MaxTime /\ used \in Nat /\ MaxUsage \in Nat
    BY <1>0, <1>1, Numbers
  <1>4. \A d \in Procs : d # c => proc[d].run # job.run
    BY <1>0, <1>2 DEF OneCallPerRun
  <1>5. CASE ~Admissible(p)
    <2>1. UNCHANGED <<holder, health, overtaken>>
      BY <1>5 DEF Reserve
    <2> DEFINE n == job.tries + 1
               r == [job EXCEPT !.at = "select", !.tries = n, !.p = Nobody, !.stamp = 0]
    <2>2. \/ proc' = [proc EXCEPT ![c] = Idle]
          \/ job.tries < Cardinality(Providers) /\ proc' = [proc EXCEPT ![c] = r]
      BY <1>5 DEF Reserve
    <2>3. CASE proc' = [proc EXCEPT ![c] = Idle]
      BY <1>1, <2>1, <2>3, IdleStep
    <2>4. CASE job.tries < Cardinality(Providers) /\ proc' = [proc EXCEPT ![c] = r]
      <3>1. Cardinality(Providers) \in Nat /\ job.tries \in 0..Cardinality(Providers)
        BY <1>0, ProvidersAssumption, FS_CardinalityType DEF Call
      <3>2. n \in 0..Cardinality(Providers)
        BY <2>4, <3>1
      <3> HIDE DEF n
      <3>3. 0 \in Times
        BY BoundsAssumption DEF Times
      <3>4. /\ r \in Call /\ r.at = "select" /\ r.p = Nobody /\ r.run = job.run
            /\ r.current = job.current /\ r.alone = job.alone /\ r.previous = job.previous
        BY <1>0, <3>2, <3>3 DEF Call
      <3> HIDE DEF r
      <3>5. /\ CallsTyped /\ proc'[c] = r
            /\ \A d \in Procs : d # c => proc'[d] = proc[d]
        BY <1>0, <2>4, <3>4, PutCall
      <3>6. CallOK(c)' /\ ~Answered(c)' /\ ~proc'[c].current
        BY <1>1, <1>2, <2>1, <3>4, <3>5 DEF CallOK, Probing, Answered
      <3> QED
        BY <1>1, <1>3, <1>4, <2>1, <3>4, <3>5, <3>6, PrivateStep
    <2> QED
      BY <2>2, <2>3, <2>4
  <1>6. CASE Admissible(p)
    <2> DEFINE row == [health[p] EXCEPT !.active = @ + 1]
    <2>1. /\ holder' = [holder EXCEPT ![job.run] = p]
          /\ Write(p, row, job.stamp)
          /\ proc' = [Disturbed(p) EXCEPT ![c] = Idle]
      BY <1>6 DEF Reserve
    <2>2. health[p] \in Row /\ health[p].active = 0 /\ registry[p].checkedAt > 0
      <3>1. Known(p) /\ ~(health[p].active >= Limit)
        BY <1>2, <1>6 DEF Admissible, UsableProvider, ProviderAtCapacity, Snapshot
      <3>2. health[p] \in Row
        BY <1>0, <1>2
      <3> QED
        BY <3>1, <3>2 DEF Known, Row, Limit
    <2>3. row \in Row /\ row.auth = health[p].auth /\ row.failures = health[p].failures
      BY <2>2 DEF Row, Limit
    <2>4. row.active = 1
      BY <2>2 DEF Row
    <2> HIDE DEF row
    <2>5. Disturbed(p) \in [Procs -> Call] /\ Idle \in Call
      BY <1>0, DisturbedCalls, IdleTyped
    <2>6. /\ CallsTyped /\ proc'[c] = Idle
          /\ \A d \in Procs : d # c => proc'[d] = Disturbed(p)[d]
      BY <2>1, <2>5, PutCall
    <2>7. Plain(c)'
      BY <2>6 DEF Plain, Idle
    <2>8. \A d \in Procs :
             \/ Plain(d)'
             \/ Like(proc'[d], proc[d]) /\ (proc[d].p = p => ~proc'[d].alone)
      BY <1>0, <2>6, <2>7, DisturbedCalls
    <2>9. /\ holder' \in [Runs -> {Nobody, Released} \cup Providers]
          /\ holder'[job.run] = p
          /\ \A r \in Runs : r # job.run => holder'[r] = holder[r]
      BY <1>0, <1>2, <2>1 DEF TypeOK
    <2>10. \A r \in Runs : holder'[r] \in Providers => registry[holder'[r]].checkedAt > 0
      BY <1>0, <2>2, <2>9 DEF TypeOK
    <2>11. ASSUME NEW d \in Procs, proc'[d].run # NoRun
           PROVE  holder'[proc'[d].run] = Nobody
      <3>1. d # c
        BY <2>7, <2>11 DEF Plain
      <3>2. proc'[d].run = proc[d].run
        BY <2>8, <2>11 DEF Plain, Like, SameAnswer
      <3>3. proc[d].run \in Runs /\ proc[d].run # job.run /\ holder[proc[d].run] = Nobody
        <4>1. CallOK(d) /\ proc[d] \in Call
          BY <1>0 DEF RoutingInv
        <4> QED
          BY <1>4, <2>11, <3>1, <3>2, <4>1 DEF CallOK, Call
      <3> QED
        BY <2>9, <3>2, <3>3
    <2>12. ActiveRunsAreReservations'
      <3>1. health'[p].active = 1 /\ \A q \in Providers : q # p => health'[q] = health[q]
        BY <1>0, <1>2, <2>1, <2>3, <2>4 DEF Write, Row
      <3>2. {r \in Runs : holder[r] = p} = {}
        <4>1. IsFiniteSet({r \in Runs : holder[r] = p})
          BY RunsAssumption, FS_Subset
        <4>2. Cardinality({r \in Runs : holder[r] = p}) = 0
          BY <1>0, <1>2, <2>2 DEF ActiveRunsAreReservations
        <4> QED
          BY <4>1, <4>2, FS_EmptySet
      <3>3. {r \in Runs : holder'[r] = p} = {job.run}
        BY <1>2, <2>9, <3>2
      <3>4. Cardinality({job.run}) = 1
        BY FS_Singleton
      <3>5. ASSUME NEW q \in Providers, q # p
            PROVE  {r \in Runs : holder'[r] = q} = {r \in Runs : holder[r] = q}
        <4>1. q # Nobody
          BY ProvidersAssumption DEF Nobody
        <4> QED
          BY <1>2, <2>9, <3>5, <4>1
      <3>6. ASSUME NEW q \in Providers
            PROVE  LET holders == {r \in Runs : holder'[r] = q}
                   IN  health'[q].active = Cardinality(holders) /\ Cardinality(holders) <= Limit
        <4>1. CASE q = p
          BY <3>1, <3>3, <3>4, <4>1 DEF Limit
        <4>2. CASE q # p
          BY <1>0, <3>1, <3>5, <4>2 DEF ActiveRunsAreReservations
        <4> QED
          BY <4>1, <4>2
      <3> QED
        BY <3>6 DEF ActiveRunsAreReservations
    <2>13. row.failures <= used' /\ used' \in used..MaxUsage
      <3>1. used \in 0..MaxUsage /\ health[p].failures <= used
        BY <1>0, <1>2 DEF TypeOK, RowsOK
      <3> QED
        BY <1>1, <1>3, <2>3, <3>1
    <2> QED
      BY <1>1, <1>2, <2>1, <2>3, <2>6, <2>8, <2>9, <2>10, <2>11, <2>12, <2>13, WriteStep
  <1> QED
    BY <1>5, <1>6

(* A release takes the only run off a provider's count, since its limit is  *)
(* one.                                                                     *)
LEMMA ReleaseStep ==
    ASSUME RoutingInv, NEW run \in Runs, Release(run)
    PROVE  RoutingInv'
  <1> DEFINE p == holder[run]
             row == [health[p] EXCEPT !.active = @ - 1]
  <1>0. /\ TypeOK /\ clock \in 2..MaxTime /\ health \in [Providers -> Row]
        /\ \A d \in Procs : CallOK(d) /\ proc[d] \in Call
        /\ \A q \in Providers : RowsOK(q)
        /\ ActiveRunsAreReservations
    BY Typed DEF RoutingInv
  <1>1. /\ p \in Providers
        /\ holder' = [holder EXCEPT ![run] = Released]
        /\ proc' = Disturbed(p)
        /\ UNCHANGED <<clock, truth, registry, used, changes, seen>>
    BY DEF Release
  <1>2. PICK t \in 1..clock : Write(p, row, t)
    BY DEF Release
  <1>3. /\ used \in Nat /\ clock \in Nat /\ MaxUsage \in Nat /\ used \in 0..MaxUsage
        /\ health[p].active \in Nat
    BY <1>0, <1>1, Numbers DEF TypeOK
  <1>4. p # Nobody /\ p # Released /\ Released \notin Providers
    BY <1>1, ProvidersAssumption DEF Nobody, Released
  <1>5. {r \in Runs : holder[r] = p} = {run} /\ health[p].active = 1
    <2> DEFINE holders == {r \in Runs : holder[r] = p}
    <2>1. IsFiniteSet(holders) /\ run \in holders
      BY RunsAssumption, FS_Subset
    <2>2. health[p].active = Cardinality(holders) /\ Cardinality(holders) <= Limit
      BY <1>0, <1>1 DEF ActiveRunsAreReservations
    <2> HIDE DEF holders
    <2>3. Cardinality(holders \ {run}) = Cardinality(holders) - 1 /\ IsFiniteSet(holders \ {run})
      BY <2>1, FS_RemoveElement
    <2>4. Cardinality(holders) \in Nat /\ Cardinality(holders \ {run}) \in Nat
      BY <2>1, <2>3, FS_CardinalityType
    <2>5. Cardinality(holders \ {run}) = 0 /\ Cardinality(holders) = 1
      BY <2>2, <2>3, <2>4 DEF Limit
    <2>6. holders \ {run} = {}
      BY <2>3, <2>5, FS_EmptySet
    <2>7. holders = {run}
      BY <2>1, <2>6
    <2> QED
      BY <2>2, <2>5, <2>7 DEF holders
  <1>6. /\ row \in Row /\ row.auth = health[p].auth /\ row.failures = health[p].failures
        /\ row.active = 0
    BY <1>0, <1>1, <1>5 DEF Row, Limit
  <1> HIDE DEF row
  <1>7. /\ holder' \in [Runs -> {Nobody, Released} \cup Providers]
        /\ holder'[run] = Released
        /\ \A r \in Runs : r # run => holder'[r] = holder[r]
    BY <1>0, <1>1 DEF TypeOK
  <1>8. \A r \in Runs : holder'[r] \in Providers => registry[holder'[r]].checkedAt > 0
    BY <1>0, <1>4, <1>7 DEF TypeOK
  <1>9. /\ CallsTyped
        /\ \A d \in Procs : Like(proc'[d], proc[d]) /\ (proc[d].p = p => ~proc'[d].alone)
    BY <1>0, <1>1, DisturbedCalls DEF CallsTyped
  <1>10. ASSUME NEW d \in Procs, proc'[d].run # NoRun
         PROVE  holder'[proc'[d].run] = Nobody
    <2>1. proc'[d].run = proc[d].run
      BY <1>9 DEF Like
    <2>2. proc[d].run \in Runs /\ holder[proc[d].run] = Nobody
      BY <1>0, <1>10, <2>1 DEF CallOK, Call
    <2> QED
      BY <1>4, <1>7, <2>1, <2>2
  <1>11. ActiveRunsAreReservations'
    <2>1. health'[p].active = 0 /\ \A q \in Providers : q # p => health'[q] = health[q]
      BY <1>0, <1>1, <1>2, <1>6 DEF Write, Row
    <2>2. {r \in Runs : holder'[r] = p} = {}
      BY <1>4, <1>5, <1>7
    <2>3. ASSUME NEW q \in Providers, q # p
          PROVE  {r \in Runs : holder'[r] = q} = {r \in Runs : holder[r] = q}
      BY <1>4, <1>7, <2>3
    <2>4. ASSUME NEW q \in Providers
          PROVE  LET holders == {r \in Runs : holder'[r] = q}
                 IN  health'[q].active = Cardinality(holders) /\ Cardinality(holders) <= Limit
      <3>1. CASE q = p
        BY <2>1, <2>2, <3>1, FS_EmptySet DEF Limit
      <3>2. CASE q # p
        BY <1>0, <2>1, <2>3, <3>2 DEF ActiveRunsAreReservations
      <3> QED
        BY <3>1, <3>2
    <2> QED
      BY <2>4 DEF ActiveRunsAreReservations
  <1>12. /\ row.failures <= used' /\ used' \in used..MaxUsage
         /\ t \in 0..clock
    BY <1>0, <1>1, <1>3, <1>6 DEF RowsOK
  <1>13. row.auth \in {health[p].auth, "unauthenticated"}
    BY <1>6
  <1> HIDE DEF p
  <1> QED
    BY <1>1, <1>2, <1>6, <1>7, <1>8, <1>9, <1>10, <1>11, <1>12, <1>13, WriteStep

(* A usage record counts a failure or takes one back; it is stamped with    *)
(* the time it is written, younger than every answer.                       *)
LEMMA RecordUsageStep ==
    ASSUME RoutingInv, NEW c \in Procs, NEW p \in Providers, RecordUsage(c, p)
    PROVE  RoutingInv'
  <1>0. /\ TypeOK /\ clock \in 2..MaxTime /\ health \in [Providers -> Row]
        /\ \A d \in Procs : CallOK(d) /\ proc[d] \in Call
        /\ \A q \in Providers : RowsOK(q)
        /\ ActiveRunsAreReservations
    BY Typed DEF RoutingInv
  <1>1. /\ used < MaxUsage /\ used' = used + 1
        /\ UNCHANGED <<clock, truth, registry, holder, changes, seen>>
    BY DEF RecordUsage
  <1>2. PICK failed \in BOOLEAN, error \in {"none", "authentication", "removed"} :
           /\ Write(p, [health[p] EXCEPT
                 !.failures = IF failed THEN @ + 1 ELSE AtLeast(0, @ - 1),
                 !.status = IF error # "none" THEN "unavailable"
                            ELSE IF failed THEN "degraded"
                            ELSE IF @ \in {"unavailable", "unknown"} THEN "healthy" ELSE @,
                 !.auth = IF error = "authentication" THEN "unauthenticated" ELSE @], clock)
           /\ proc' = [Disturbed(p) EXCEPT ![c] =
                 IF error = "none" THEN Idle ELSE [Idle EXCEPT !.at = "begin", !.todo = {p}]]
    BY DEF RecordUsage
  <1>3. /\ used \in Nat /\ clock \in Nat /\ MaxUsage \in Nat
        /\ health[p].failures \in Nat /\ health[p].failures <= used /\ health[p] \in Row
    BY <1>0, Numbers DEF RowsOK
  <1> DEFINE failures == IF failed THEN health[p].failures + 1
                         ELSE AtLeast(0, health[p].failures - 1)
             status == IF error # "none" THEN "unavailable"
                       ELSE IF failed THEN "degraded"
                       ELSE IF health[p].status \in {"unavailable", "unknown"} THEN "healthy"
                       ELSE health[p].status
             auth == IF error = "authentication" THEN "unauthenticated" ELSE health[p].auth
             row == [health[p] EXCEPT !.failures = failures, !.status = status, !.auth = auth]
             job == IF error = "none" THEN Idle ELSE [Idle EXCEPT !.at = "begin", !.todo = {p}]
  <1>4. Write(p, row, clock) /\ proc' = [Disturbed(p) EXCEPT ![c] = job]
    BY <1>2
  <1>5. failures \in 0..MaxUsage /\ failures <= used'
    BY <1>1, <1>3 DEF AtLeast
  <1>6. status \in Statuses /\ auth \in Auths /\ auth \in {health[p].auth, "unauthenticated"}
    BY <1>3 DEF Row, Statuses, Auths
  <1>7. /\ job \in Call /\ job.at \in {"idle", "begin"} /\ job.run = NoRun /\ job.p = Nobody
        /\ ~job.current /\ ~job.alone /\ job.previous = Unread
    BY IdleTyped DEF Call, Idle
  <1> HIDE DEF failures, status, auth, job
  <1>8. /\ row \in Row /\ row.auth = auth /\ row.failures = failures
        /\ row.active = health[p].active
    BY <1>3, <1>5, <1>6 DEF Row
  <1> HIDE DEF row
  <1>9. Disturbed(p) \in [Procs -> Call]
    BY <1>0, DisturbedCalls
  <1>10. /\ CallsTyped /\ proc'[c] = job
         /\ \A d \in Procs : d # c => proc'[d] = Disturbed(p)[d]
    BY <1>4, <1>7, <1>9, PutCall
  <1>11. Plain(c)'
    BY <1>7, <1>10 DEF Plain
  <1>12. \A d \in Procs :
            \/ Plain(d)'
            \/ Like(proc'[d], proc[d]) /\ (proc[d].p = p => ~proc'[d].alone)
    BY <1>0, <1>10, <1>11, DisturbedCalls
  <1>13. ASSUME NEW d \in Procs, proc'[d].run # NoRun
         PROVE  holder'[proc'[d].run] = Nobody
    <2>1. proc'[d].run = proc[d].run
      BY <1>12, <1>13 DEF Plain, Like
    <2> QED
      BY <1>0, <1>1, <1>13, <2>1 DEF CallOK
  <1>14. ActiveRunsAreReservations'
    <2>1. \A q \in Providers : health'[q].active = health[q].active
      BY <1>0, <1>4, <1>8 DEF Write, Row
    <2> QED
      BY <1>0, <1>1, <2>1 DEF ActiveRunsAreReservations
  <1>15. /\ holder' \in [Runs -> {Nobody, Released} \cup Providers]
         /\ \A r \in Runs : holder'[r] \in Providers => registry[holder'[r]].checkedAt > 0
    BY <1>0, <1>1 DEF TypeOK
  <1>16. /\ used' \in used..MaxUsage /\ clock \in 0..clock
         /\ row.failures <= used' /\ row.auth \in {health[p].auth, "unauthenticated"}
    BY <1>1, <1>3, <1>5, <1>6, <1>8
  <1> QED
    BY <1>1, <1>4, <1>8, <1>10, <1>12, <1>13, <1>14, <1>15, <1>16, WriteStep

-----------------------------------------------------------------------------
(* The end of a refresh. *)

(* HealthToPersist: a younger row stays; an older one is replaced by the    *)
(* answers of the refresh, with the count of runs as it is now and, unless  *)
(* a row was overtaken, with the failures as they are now.                  *)
LEMMA Persisted ==
    ASSUME RoutingInv, NEW c \in Procs, proc[c].at = "persist"
    PROVE  LET row == health[proc[c].p]
               new == HealthToPersist(c)
           IN  /\ new \in Row /\ new.active = row.active
               /\ new.updatedAt <= clock /\ row.updatedAt <= new.updatedAt
               /\ new.failures <= used
               /\ ~overtaken => new.failures = row.failures
               /\ \/ new = row /\ row.updatedAt >= proc[c].stamp
                  \/ new.auth = proc[c].auth /\ row.updatedAt < proc[c].stamp
  <1> DEFINE job == proc[c]
             row == health[job.p]
             new == HealthToPersist(c)
  <1>0. /\ TypeOK /\ CallOK(c) /\ job \in Call /\ health \in [Providers -> Row]
        /\ \A q \in Providers : RowsOK(q)
    BY Typed DEF RoutingInv
  <1>1. job.p \in Providers /\ row \in Row
    BY <1>0 DEF CallOK, Probing
  <1>2. /\ row.updatedAt \in Nat /\ job.stamp \in Nat /\ clock \in Nat /\ job.stamp < clock
        /\ row.updatedAt <= clock /\ row.failures <= used
        /\ job.previous.failures <= used
    BY <1>0, <1>1, Numbers DEF CallOK, RowsOK, Answered
  <1>3. CASE row.updatedAt >= job.stamp
    <2>1. new = row
      BY <1>3 DEF HealthToPersist
    <2> QED
      BY <1>1, <1>2, <1>3, <2>1
  <1>4. CASE row.updatedAt < job.stamp
    <2> DEFINE built == BuildHealth(c)
    <2>1. /\ built \in Row /\ built.failures = job.previous.failures
          /\ built.auth = job.auth /\ built.updatedAt = job.stamp
      <3>1. job.previous \in Previous /\ job.auth \in Auths /\ job.stamp \in Times
        BY <1>0 DEF Call
      <3> DEFINE marred == \/ job.previous.status = "unavailable"
                           \/ job.previous.status = "degraded" /\ job.previous.failures > 0
                 status == CASE job.available # "available" -> job.available
                             [] marred -> "degraded"
                             [] OTHER  -> "healthy"
      <3>2. status \in Statuses
        <4>1. job.available \in {"available", "unavailable", "unknown"}
          BY <1>0 DEF Call
        <4> HIDE DEF marred
        <4>2. CASE job.available # "available"
          <5>1. job.available \in {"unavailable", "unknown"}
            BY <4>1, <4>2
          <5>2. status = job.available \/ (marred /\ status = "degraded")
            BY <4>2
          <5> QED
            BY <5>1, <5>2 DEF Statuses
        <4>3. CASE job.available = "available" /\ marred
          <5>1. status = "degraded"
            BY <4>3
          <5> QED
            BY <5>1 DEF Statuses
        <4>4. CASE job.available = "available" /\ ~marred
          <5>1. status = "healthy"
            BY <4>4
          <5> QED
            BY <5>1 DEF Statuses
        <4> QED
          BY <4>2, <4>3, <4>4
      <3>3. built = [status |-> status, auth |-> job.auth,
                     failures |-> job.previous.failures, active |-> job.previous.active,
                     updatedAt |-> job.stamp]
        BY DEF BuildHealth
      <3> HIDE DEF status, built
      <3> QED
        BY <3>1, <3>2, <3>3 DEF Row, Previous
    <2>2. new = [built EXCEPT !.active = row.active]
      BY <1>2, <1>4 DEF HealthToPersist
    <2> HIDE DEF built, new
    <2>3. /\ new \in Row /\ new.active = row.active /\ new.failures = job.previous.failures
          /\ new.auth = job.auth /\ new.updatedAt = job.stamp
      BY <1>1, <2>1, <2>2 DEF Row
    <2>4. ~overtaken => job.previous.failures = row.failures
      BY <1>0, <1>4 DEF CallOK
    <2> QED
      BY <1>2, <1>4, <2>3, <2>4 DEF new
  <1> QED
    BY <1>2, <1>3, <1>4

(* A refresh that ends writes what is true of its provider, if it or one    *)
(* before it began after the provider's last change.                        *)
LEMMA PersistStep ==
    ASSUME RoutingInv, NEW c \in Procs, Persist(c)
    PROVE  RoutingInv'
  <1> DEFINE job == proc[c]
             p == job.p
             r == [job EXCEPT !.at = "begin", !.p = Nobody, !.stamp = 0, !.available = "unknown",
                              !.auth = "unknown", !.usable = FALSE, !.previous = Unread,
                              !.current = FALSE, !.alone = FALSE]
             verdict == IF job.current
                        THEN IF job.alone \/ seen[p] = "alone" THEN "alone" ELSE "one"
                        ELSE seen[p]
  <1>0. /\ TypeOK /\ clock \in 2..MaxTime /\ OneCallPerRun /\ TrueSince
        /\ \A d \in Procs : CallOK(d) /\ proc[d] \in Call
        /\ \A q \in Providers : RowsOK(q)
        /\ ActiveRunsAreReservations
        /\ proc \in [Procs -> Call] /\ health \in [Providers -> Row]
    BY Typed DEF RoutingInv
  <1>1. /\ job.at = "persist"
        /\ UNCHANGED <<clock, truth, holder, used, changes, overtaken>>
        /\ seen' = [seen EXCEPT ![p] = verdict]
        /\ proc' = [(IF Delayed(c) THEN proc ELSE Disturbed(p)) EXCEPT ![c] = r]
    BY DEF Persist
  <1>2. /\ p \in Providers /\ job.stamp < clock /\ Answered(c)
        /\ job.run # NoRun => holder[job.run] = Nobody
    BY <1>0, <1>1 DEF CallOK, Probing, Answered
  <1>3. /\ clock \in Nat /\ used \in Nat
        /\ \A q \in Providers :
              registry[q].checkedAt \in Nat /\ health[q].updatedAt \in Nat
        /\ \A d \in Procs : proc[d].stamp \in Nat
    BY Numbers
  <1>4. r \in Call
    <2>1. 0 \in Times /\ Unread \in Previous /\ "unknown" \in Auths
      BY IdleTyped, BoundsAssumption DEF Times, Auths
    <2> QED
      BY <1>0, <2>1 DEF Call
  <1>5. /\ r.at = "begin" /\ r.run = job.run /\ r.p = Nobody
        /\ ~r.current /\ ~r.alone /\ r.previous = Unread
    BY <1>0 DEF Call
  <1> HIDE DEF r
  <1>6. /\ CallsTyped /\ proc'[c] = r
        /\ \A d \in Procs : d # c =>
              /\ Like(proc'[d], proc[d])
              /\ ~Delayed(c) /\ proc[d].p = p => ~proc'[d].alone
    <2>1. CASE Delayed(c)
      <3>1. proc' = [proc EXCEPT ![c] = r]
        BY <1>1, <2>1
      <3>2. /\ CallsTyped /\ proc'[c] = r
            /\ \A d \in Procs : d # c => proc'[d] = proc[d]
        BY <1>0, <1>4, <3>1, PutCall
      <3> QED
        BY <2>1, <3>2 DEF Like, SameAnswer
    <2>2. CASE ~Delayed(c)
      <3>1. proc' = [Disturbed(p) EXCEPT ![c] = r]
        BY <1>1, <2>2
      <3>2. Disturbed(p) \in [Procs -> Call]
        BY <1>0, DisturbedCalls
      <3>3. /\ CallsTyped /\ proc'[c] = r
            /\ \A d \in Procs : d # c => proc'[d] = Disturbed(p)[d]
        BY <1>4, <3>1, <3>2, PutCall
      <3> QED
        BY <1>0, <3>3, DisturbedCalls
    <2> QED
      BY <2>1, <2>2
  <1>7. /\ ~proc'[c].current /\ ~Answered(c)' /\ proc'[c].run = job.run
        /\ CallOK(c)'
    <2>1. holder' = holder /\ used' = used
      BY <1>1
    <2> HIDE DEF job
    <2> QED
      BY <1>2, <1>3, <1>5, <1>6, <2>1 DEF CallOK, Probing, Answered, Unread
  <1>8. OneCallPerRun'
    <2>1. \A d \in Procs : proc'[d].run = proc[d].run
      BY <1>6, <1>7 DEF Like
    <2> QED
      BY <1>0, <2>1 DEF OneCallPerRun
  (* Who was current or answered before, is so no less than it is now.      *)
  <1>9. /\ \A d \in Procs : proc'[d].current =>
              proc[d].current /\ proc'[d].p = proc[d].p /\ proc'[d].stamp = proc[d].stamp
        /\ \A d \in Procs : Answered(d)' =>
              /\ Answered(d) /\ proc'[d].p = proc[d].p /\ proc'[d].stamp = proc[d].stamp
              /\ Truthful(d) => Truthful(d)'
    <2>1. truth' = truth
      BY <1>1
    <2> QED
      BY <1>6, <1>7, <2>1 DEF Like, SameAnswer, Answered, Truthful
  <1>10. /\ seen' \in [Providers -> {"none", "one", "alone"}]
         /\ \A q \in Providers : q # p => seen'[q] = seen[q]
         /\ seen'[p] # "none" => seen[p] # "none" \/ job.current
         /\ seen'[p] = "alone" => seen[p] = "alone" \/ job.alone
    <2>1. seen \in [Providers -> {"none", "one", "alone"}]
      BY <1>0 DEF TypeOK
    <2>2. /\ verdict \in {"none", "one", "alone"}
          /\ verdict # "none" => seen[p] # "none" \/ job.current
          /\ verdict = "alone" => seen[p] = "alone" \/ job.alone
      <3>1. seen[p] \in {"none", "one", "alone"}
        BY <1>2, <2>1
      <3>2. CASE job.current /\ (job.alone \/ seen[p] = "alone")
        <4>1. verdict = "alone"
          BY <3>2
        <4> HIDE DEF verdict
        <4> QED
          BY <3>2, <4>1
      <3>3. CASE job.current /\ ~(job.alone \/ seen[p] = "alone")
        <4>1. verdict = "one"
          BY <3>3
        <4> HIDE DEF verdict
        <4> QED
          BY <3>3, <4>1
      <3>4. CASE ~job.current
        <4>1. verdict = seen[p]
          BY <3>4
        <4> HIDE DEF verdict
        <4> QED
          BY <3>1, <4>1
      <3> QED
        BY <3>2, <3>3, <3>4
    <2> HIDE DEF verdict
    <2> QED
      BY <1>1, <1>2, <2>1, <2>2
  (* Every answer about p that is written after this one is true.           *)
  <1>11. ASSUME NEW d \in Procs, seen'[p] # "none", Answered(d), proc[d].p = p,
                proc[d].stamp >= job.stamp, proc[d].stamp > registry[p].checkedAt
         PROVE  Truthful(d)
    BY <1>0, <1>2, <1>10, <1>11 DEF TrueSince
  <1>12. CASE Delayed(c)
    <2>1. UNCHANGED <<registry, health>> /\ registry[p].checkedAt >= job.stamp
      BY <1>12 DEF Persist, Delayed
    <2>2. TypeOK'
      BY <1>0, <1>1, <1>6, <1>10, <2>1
         DEF TypeOK, CallsTyped, Call, Previous, Statuses, Auths
    <2>3. \A d \in Procs : CallOK(d)'
      <3> SUFFICES ASSUME NEW d \in Procs, d # c PROVE CallOK(d)'
        BY <1>7
      <3>1. Like(proc'[d], proc[d]) /\ (proc[d].run # NoRun => holder'[proc[d].run] = Nobody)
        BY <1>0, <1>1, <1>6 DEF CallOK
      <3>2. /\ health' = health /\ registry' = registry
            /\ clock' = clock /\ used' = used /\ overtaken' = overtaken
        BY <1>1, <2>1
      <3> QED
        BY <1>3, <3>1, <3>2, LikeOK
    <2>4. ASSUME NEW q \in Providers
          PROVE  RowsOK(q)'
      <3>1. RowsOK(q)
        BY <1>0
      <3>2. CASE q # p
        BY <1>1, <1>10, <2>1, <3>1, <3>2 DEF RowsOK
      <3>3. CASE q = p
        <4>1. seen'[p] # "none" /\ truth[p] = "gone" => ~registry[p].usable
          BY <1>0, <1>10, <2>1, <3>1, <3>3 DEF RowsOK, TrueSince
        <4>2. ~job.alone
          BY <1>0, <1>3, <1>2, <2>1 DEF CallOK
        <4>3. seen'[p] = "alone" => seen[p] = "alone"
          BY <1>10, <4>2
        <4> QED
          BY <1>1, <2>1, <3>1, <3>3, <4>1, <4>3 DEF RowsOK
      <3> QED
        BY <3>2, <3>3
    <2>5. TrueSince'
      <3>1. ASSUME NEW d \in Procs, seen'[p] # "none", Answered(d)', proc'[d].p = p,
                   proc'[d].stamp > registry[p].checkedAt
            PROVE  Truthful(d)'
        <4>1. /\ Answered(d) /\ proc[d].p = p /\ proc[d].stamp > registry[p].checkedAt
              /\ Truthful(d) => Truthful(d)'
          BY <1>9, <3>1
        <4>2. proc[d].stamp >= job.stamp
          BY <1>2, <1>3, <2>1, <4>1
        <4> QED
          BY <1>11, <3>1, <4>1, <4>2
      <3>2. truth' = truth /\ registry' = registry
        BY <1>1, <2>1
      <3>3. ASSUME NEW q \in Providers, NEW d \in Procs, seen'[q] # "none", Answered(d)',
                   proc'[d].p = q, proc'[d].stamp > registry[q].checkedAt
            PROVE  Truthful(d)'
        <4>1. CASE q = p
          BY <3>1, <3>3, <4>1
        <4>2. CASE q # p
          BY <1>0, <1>9, <1>10, <3>3, <4>2 DEF TrueSince
        <4> QED
          BY <4>1, <4>2
      <3>4. ASSUME NEW e \in Procs, proc'[e].current
            PROVE  /\ registry[proc'[e].p].checkedAt >= proc'[e].stamp =>
                         (truth[proc'[e].p] = "gone" => ~registry[proc'[e].p].usable)
                   /\ \A d \in Procs :
                         Answered(d)' /\ proc'[d].p = proc'[e].p /\ proc'[d].stamp >= proc'[e].stamp
                         => Truthful(d)'
        BY <1>0, <1>9, <3>4 DEF TrueSince
      <3> QED
        BY <3>2, <3>3, <3>4 DEF TrueSince
    <2>6. ActiveRunsAreReservations'
      BY <1>0, <1>1, <2>1 DEF ActiveRunsAreReservations
    <2>7. clock' \in 2..MaxTime
      BY <1>0, <1>1
    <2> QED
      BY <1>8, <2>2, <2>3, <2>4, <2>5, <2>6, <2>7 DEF RoutingInv
  <1>13. CASE ~Delayed(c)
    <2> DEFINE new == HealthToPersist(c)
               entry == [checkedAt |-> job.stamp, usable |-> job.usable]
    <2>1. /\ registry' = [registry EXCEPT ![p] = entry]
          /\ health' = [health EXCEPT ![p] = new]
          /\ ~(registry[p].checkedAt >= job.stamp)
      BY <1>13 DEF Persist, Delayed
    <2>2. registry[p].checkedAt < job.stamp /\ job.stamp > 0
      BY <1>2, <1>3, <2>1
    <2>3. /\ new \in Row /\ new.active = health[p].active
          /\ new.updatedAt <= clock /\ health[p].updatedAt <= new.updatedAt
          /\ new.failures <= used
          /\ ~overtaken => new.failures = health[p].failures
          /\ \/ new = health[p] /\ health[p].updatedAt >= job.stamp
             \/ new.auth = job.auth /\ health[p].updatedAt < job.stamp
      BY <1>1, Persisted
    <2> HIDE DEF new
    <2>4. entry \in [checkedAt : Times, usable : BOOLEAN]
      BY <1>0 DEF Call
    <2>5. entry.checkedAt = job.stamp /\ entry.usable = job.usable
      OBVIOUS
    <2> HIDE DEF entry
    <2>6. /\ registry' \in [Providers -> [checkedAt : Times, usable : BOOLEAN]]
          /\ registry'[p] = entry
          /\ \A q \in Providers : q # p => registry'[q] = registry[q]
      BY <1>0, <1>2, <2>1, <2>4 DEF TypeOK
    <2>7. /\ health' \in [Providers -> Row]
          /\ health'[p] = new
          /\ \A q \in Providers : q # p => health'[q] = health[q]
      BY <1>0, <1>2, <2>1, <2>3
    <2>8. TypeOK'
      <3>1. \A s \in Runs : holder'[s] \in Providers => registry'[holder'[s]].checkedAt > 0
        BY <1>0, <1>1, <2>2, <2>5, <2>6 DEF TypeOK
      <3> QED
        BY <1>0, <1>1, <1>6, <1>10, <2>6, <2>7, <3>1
           DEF TypeOK, CallsTyped, Call, Row, Previous, Statuses, Auths
    <2>9. ASSUME NEW d \in Procs
          PROVE  CallOK(d)'
      <3>0. CASE d = c
        BY <1>7, <3>0
      <3>1. CASE d # c /\ proc[d].p # p
        <4>1. Like(proc'[d], proc[d]) /\ (proc[d].run # NoRun => holder'[proc[d].run] = Nobody)
          BY <1>0, <1>1, <1>6, <3>1 DEF CallOK
        <4>2. proc[d].p \in Providers =>
                 health'[proc[d].p] = health[proc[d].p] /\ registry'[proc[d].p] = registry[proc[d].p]
          BY <2>6, <2>7, <3>1
        <4>3. clock' = clock /\ used' = used /\ overtaken' = overtaken
          BY <1>1
        <4> QED
          BY <1>3, <4>1, <4>2, <4>3, LikeOK
      <3>2. CASE d # c /\ proc[d].p = p
        <4>1. /\ CallOK(d) /\ Like(proc'[d], proc[d]) /\ ~proc'[d].alone
          BY <1>0, <1>6, <1>13, <3>2
        <4>2. ASSUME proc'[d].at = "persist", ~overtaken',
                     health'[p].updatedAt < proc'[d].stamp
              PROVE  proc'[d].previous.failures = health'[p].failures
          <5>1. ~overtaken
            BY <1>1, <4>2
          <5>2. health[p].updatedAt < proc[d].stamp /\ proc[d].at = "persist"
            <6>1. new.updatedAt < proc[d].stamp /\ new.updatedAt \in Nat
              <7>1. new.updatedAt \in Times /\ Times \subseteq Nat
                BY <2>3, BoundsAssumption DEF Row, Times
              <7> QED
                BY <2>7, <4>1, <4>2, <7>1 DEF Like, SameAnswer
            <6> QED
              BY <1>2, <1>3, <2>3, <4>1, <4>2, <6>1 DEF Like
          <5>3. proc[d].previous.failures = health[p].failures
            BY <3>2, <4>1, <5>1, <5>2 DEF CallOK
          <5> QED
            BY <2>3, <2>7, <4>1, <5>1, <5>3 DEF Like
        <4>3. /\ proc'[d].at = proc[d].at /\ proc'[d].run = proc[d].run /\ proc'[d].p = p
              /\ proc'[d].stamp = proc[d].stamp /\ proc'[d].previous = proc[d].previous
              /\ proc'[d].current => proc[d].current
          BY <3>2, <4>1 DEF Like, SameAnswer
        <4>4. clock' = clock /\ used' = used /\ holder' = holder
          BY <1>1
        <4>5. /\ Probing(d)' \/ proc'[d].at = "reserve" => proc'[d].p \in Providers
              /\ proc'[d].at \in {"idle", "begin", "select"} => proc'[d].p = Nobody
              /\ proc'[d].at \in {"select", "reserve"} => proc'[d].run # NoRun
              /\ proc'[d].run # NoRun => holder'[proc'[d].run] = Nobody
              /\ proc'[d].current => Probing(d)'
              /\ proc'[d].at \in {"probe", "reserve"} => proc'[d].stamp <= clock'
              /\ Answered(d)' => proc'[d].stamp < clock'
              /\ proc'[d].previous.failures <= used'
          BY <3>2, <4>1, <4>3, <4>4 DEF CallOK, Probing, Answered
        <4> QED
          BY <4>1, <4>2, <4>3, <4>5 DEF CallOK
      <3> QED
        BY <3>0, <3>1, <3>2
    (* What is written is true, if it is said to be.                        *)
    <2>10. seen'[p] # "none" => Truthful(c)
      BY <1>2, <1>3, <1>11, <2>2
    <2>11. ASSUME NEW q \in Providers
           PROVE  RowsOK(q)'
      <3>1. RowsOK(q)
        BY <1>0
      <3>2. CASE q # p
        BY <1>1, <1>10, <2>6, <2>7, <3>1, <3>2 DEF RowsOK
      <3>3. CASE q = p
        <4>1. registry'[p].checkedAt < clock' /\ health'[p].updatedAt <= clock'
              /\ health'[p].failures <= used'
          BY <1>1, <1>2, <2>3, <2>5, <2>6, <2>7
        <4>2. seen'[p] # "none" /\ truth'[p] = "gone" => ~registry'[p].usable
          BY <1>1, <2>5, <2>6, <2>10 DEF Truthful
        <4>3. ASSUME seen'[p] = "alone", truth'[p] = "out"
              PROVE  health'[p].auth # "authenticated"
          <5>1. Truthful(c) /\ truth[p] = "out"
            BY <1>1, <2>10, <4>3
          <5>2. CASE new.auth = job.auth
            BY <2>7, <5>1, <5>2 DEF Truthful
          <5>3. CASE new = health[p] /\ health[p].updatedAt >= job.stamp
            <6>1. ~job.alone
              BY <1>0, <1>2, <1>3, <5>3 DEF CallOK
            <6>2. seen[p] = "alone"
              BY <1>10, <4>3, <6>1
            <6> QED
              BY <2>7, <3>1, <3>3, <5>1, <5>3, <6>2 DEF RowsOK
          <5> QED
            BY <2>3, <5>2, <5>3
        <4> QED
          BY <3>3, <4>1, <4>2, <4>3 DEF RowsOK
      <3> QED
        BY <3>2, <3>3
    <2>12. TrueSince'
      <3>1. truth' = truth
        BY <1>1
      <3>2. ASSUME NEW q \in Providers, NEW d \in Procs, seen'[q] # "none", Answered(d)',
                   proc'[d].p = q, proc'[d].stamp > registry'[q].checkedAt
            PROVE  Truthful(d)'
        <4>0. /\ Answered(d) /\ proc[d].p = q /\ proc[d].stamp = proc'[d].stamp
              /\ Truthful(d) => Truthful(d)'
          BY <1>9, <3>2
        <4>1. CASE q = p
          <5>1. proc[d].stamp > job.stamp
            BY <2>5, <2>6, <3>2, <4>0, <4>1
          <5>2. proc[d].stamp >= job.stamp /\ proc[d].stamp > registry[p].checkedAt
            BY <1>2, <1>3, <2>2, <5>1
          <5> QED
            BY <1>11, <3>2, <4>0, <4>1, <5>2
        <4>2. CASE q # p
          BY <1>0, <1>10, <2>6, <3>2, <4>0, <4>2 DEF TrueSince
        <4> QED
          BY <4>1, <4>2
      <3>3. ASSUME NEW e \in Procs, proc'[e].current
            PROVE  registry'[proc'[e].p].checkedAt >= proc'[e].stamp =>
                         (truth[proc'[e].p] = "gone" => ~registry'[proc'[e].p].usable)
        <4>0. /\ proc[e].current /\ proc'[e].p = proc[e].p /\ proc'[e].stamp = proc[e].stamp
              /\ proc[e].p \in Providers
          BY <1>0, <1>9, <3>3 DEF CallOK
        <4>1. CASE proc[e].p = p
          <5>1. job.stamp >= proc[e].stamp => Truthful(c)
            BY <1>0, <1>2, <4>0, <4>1 DEF TrueSince
          <5> QED
            BY <2>5, <2>6, <4>0, <4>1, <5>1 DEF Truthful
        <4>2. CASE proc[e].p # p
          BY <1>0, <2>6, <4>0, <4>2 DEF TrueSince
        <4> QED
          BY <4>1, <4>2
      <3>4. ASSUME NEW e \in Procs, proc'[e].current, NEW d \in Procs,
                   Answered(d)', proc'[d].p = proc'[e].p, proc'[d].stamp >= proc'[e].stamp
            PROVE  Truthful(d)'
        BY <1>0, <1>9, <3>4 DEF TrueSince
      <3> QED
        BY <3>1, <3>2, <3>3, <3>4 DEF TrueSince
    <2>13. ActiveRunsAreReservations'
      <3>1. \A q \in Providers : health'[q].active = health[q].active
        BY <2>3, <2>7
      <3>2. holder' = holder
        BY <1>1
      <3> QED
        BY <1>0, <3>1, <3>2 DEF ActiveRunsAreReservations
    <2>14. clock' \in 2..MaxTime
      BY <1>0, <1>1
    <2> QED
      BY <1>8, <2>8, <2>9, <2>11, <2>12, <2>13, <2>14 DEF RoutingInv
  <1> QED
    BY <1>12, <1>13

-----------------------------------------------------------------------------
(* What happens around the calls. *)

(* Once a provider changes, no refresh has seen its last change.            *)
LEMMA ChangeStep ==
    ASSUME RoutingInv, NEW p \in Providers, Change(p)
    PROVE  RoutingInv'
  <1>0. /\ TypeOK /\ clock \in 2..MaxTime /\ OneCallPerRun /\ TrueSince
        /\ \A d \in Procs : CallOK(d) /\ proc[d] \in Call
        /\ \A q \in Providers : RowsOK(q)
        /\ ActiveRunsAreReservations
    BY Typed DEF RoutingInv
  <1>1. /\ changes < MaxChanges /\ changes' = changes + 1
        /\ seen' = [seen EXCEPT ![p] = "none"]
        /\ proc' = [d \in Procs |->
              IF proc[d].p = p THEN [proc[d] EXCEPT !.current = FALSE] ELSE proc[d]]
        /\ UNCHANGED <<clock, registry, health, holder, used, overtaken>>
    BY DEF Change
  <1>2. PICK t \in {"in", "out", "gone"} : truth' = [truth EXCEPT ![p] = t]
    BY DEF Change
  <1>3. clock \in Nat /\ used \in Nat
    BY Numbers
  <1>4. ASSUME NEW d \in Procs
        PROVE  /\ proc'[d] \in Call /\ Like(proc'[d], proc[d])
               /\ proc[d].p = p => ~proc'[d].current
    <2>1. CASE proc[d].p = p
      <3>1. proc'[d] = [proc[d] EXCEPT !.current = FALSE]
        BY <1>1, <2>1
      <3>2. proc'[d] \in Call
        BY <1>0, <3>1 DEF Call
      <3>3. Like(proc'[d], proc[d]) /\ ~proc'[d].current
        BY <1>0, <3>1 DEF Call, Like, SameAnswer
      <3> QED
        BY <3>2, <3>3
    <2>2. CASE proc[d].p # p
      <3>1. proc'[d] = proc[d]
        BY <1>1, <2>2
      <3> QED
        BY <1>0, <2>2, <3>1 DEF Like, SameAnswer
    <2> QED
      BY <2>1, <2>2
  <1>5. proc' \in [Procs -> Call]
    BY <1>1, <1>4
  <1>6. TypeOK'
    <2>1. changes' \in 0..MaxChanges
      BY <1>0, <1>1, BoundsAssumption DEF TypeOK
    <2>2. seen' \in [Providers -> {"none", "one", "alone"}]
      BY <1>0, <1>1 DEF TypeOK
    <2>3. truth' \in [Providers -> {"in", "out", "gone"}]
      BY <1>0, <1>2 DEF TypeOK
    <2> QED
      BY <1>0, <1>1, <1>5, <2>1, <2>2, <2>3 DEF TypeOK, Call, Previous, Statuses, Auths
  <1>7. \A d \in Procs : CallOK(d)'
    <2> SUFFICES ASSUME NEW d \in Procs PROVE CallOK(d)'
      OBVIOUS
    <2>1. proc[d].run # NoRun => holder'[proc[d].run] = Nobody
      BY <1>0, <1>1 DEF CallOK
    <2>2. /\ health' = health /\ registry' = registry
          /\ clock' = clock /\ used' = used /\ overtaken' = overtaken
      BY <1>1
    <2> QED
      BY <1>3, <1>4, <2>1, <2>2, LikeOK
  <1>8. /\ seen'[p] = "none"
        /\ \A q \in Providers : q # p => seen'[q] = seen[q] /\ truth'[q] = truth[q]
    BY <1>0, <1>1, <1>2 DEF TypeOK
  <1>9. \A q \in Providers : RowsOK(q)'
    BY <1>0, <1>1, <1>8 DEF RowsOK
  <1>10. OneCallPerRun'
    <2>1. \A d \in Procs : proc'[d].run = proc[d].run
      BY <1>4 DEF Like
    <2> QED
      BY <1>0, <2>1 DEF OneCallPerRun
  <1>11. TrueSince'
    <2>1. \A e \in Procs : proc'[e].current =>
             /\ proc[e].current /\ proc'[e].p = proc[e].p /\ proc'[e].stamp = proc[e].stamp
             /\ proc[e].p \in Providers /\ proc[e].p # p
      BY <1>0, <1>4 DEF Like, SameAnswer, CallOK
    <2>2. \A d \in Procs : Answered(d)' =>
             Answered(d) /\ proc'[d].p = proc[d].p /\ proc'[d].stamp = proc[d].stamp
      BY <1>4 DEF Like, SameAnswer, Answered
    <2>3. ASSUME NEW d \in Procs, proc[d].p \in Providers, proc[d].p # p
          PROVE  Truthful(d) => Truthful(d)'
      BY <1>4, <1>8, <2>3 DEF Like, SameAnswer, Truthful
    <2>4. ASSUME NEW e \in Procs, proc'[e].current
          PROVE  /\ registry[proc'[e].p].checkedAt >= proc'[e].stamp =>
                       (truth'[proc'[e].p] = "gone" => ~registry[proc'[e].p].usable)
                 /\ \A d \in Procs :
                       Answered(d)' /\ proc'[d].p = proc'[e].p /\ proc'[d].stamp >= proc'[e].stamp
                       => Truthful(d)'
      BY <1>0, <1>8, <2>1, <2>2, <2>3, <2>4 DEF TrueSince
    <2>5. ASSUME NEW q \in Providers, NEW d \in Procs, seen'[q] # "none", Answered(d)',
                 proc'[d].p = q, proc'[d].stamp > registry[q].checkedAt
          PROVE  Truthful(d)'
      <3>1. q # p
        BY <1>8, <2>5
      <3> QED
        BY <1>0, <1>8, <2>2, <2>3, <2>5, <3>1 DEF TrueSince
    <2>6. registry' = registry
      BY <1>1
    <2> QED
      BY <2>4, <2>5, <2>6 DEF TrueSince
  <1>12. ActiveRunsAreReservations'
    BY <1>0, <1>1 DEF ActiveRunsAreReservations
  <1>13. clock' \in 2..MaxTime
    BY <1>0, <1>1
  <1> QED
    BY <1>6, <1>7, <1>9, <1>10, <1>11, <1>12, <1>13 DEF RoutingInv

(* The clock may only help: what is compared with it gets older.            *)
LEMMA TickStep ==
    ASSUME RoutingInv,
           UNCHANGED <<truth, registry, health, holder, proc, used, seen, overtaken>>,
           changes' = changes, clock' \in clock..MaxTime
    PROVE  RoutingInv'
  <1>0. /\ TypeOK /\ clock \in 2..MaxTime /\ OneCallPerRun /\ TrueSince
        /\ \A d \in Procs : CallOK(d)
        /\ \A q \in Providers : RowsOK(q)
        /\ ActiveRunsAreReservations
    BY DEF RoutingInv
  <1>1. /\ clock \in Nat /\ clock' \in Nat /\ clock <= clock' /\ used \in Nat
        /\ clock' \in 2..MaxTime /\ clock' \in Times
        /\ \A p \in Providers : registry[p].checkedAt \in Nat /\ health[p].updatedAt \in Nat
    BY <1>0, Numbers, BoundsAssumption DEF Times
  <1>2. TypeOK'
    BY <1>0, <1>1 DEF TypeOK
  <1>3. ASSUME NEW d \in Procs
        PROVE  CallOK(d)'
    <2>1. /\ Like(proc'[d], proc[d])
          /\ proc[d].run # NoRun => holder'[proc[d].run] = Nobody
      BY <1>0 DEF Like, SameAnswer, CallOK
    <2> QED
      BY <1>1, <2>1, LikeOK
  <1>4. \A p \in Providers : RowsOK(p)'
    BY <1>0, <1>1 DEF RowsOK
  <1>5. OneCallPerRun' /\ TrueSince' /\ ActiveRunsAreReservations'
    BY <1>0 DEF OneCallPerRun, TrueSince, Truthful, Answered, ActiveRunsAreReservations
  <1> QED
    BY <1>1, <1>2, <1>3, <1>4, <1>5 DEF RoutingInv

-----------------------------------------------------------------------------
(* The invariant. *)

LEMMA InitInv ==
    ASSUME Init
    PROVE  RoutingInv
  <1>1. /\ clock = 2 /\ clock \in Times /\ 0 \in Times /\ 1 \in Times
        /\ clock \in 2..MaxTime /\ 0 \in 0..MaxUsage /\ 0 \in 0..Limit /\ 0 \in 0..MaxChanges
    BY BoundsAssumption DEF Init, Times, Limit
  <1>2. proc \in [Procs -> Call] /\ \A c \in Procs : proc[c] = Idle
    BY IdleTyped DEF Init
  <1>3. /\ \A r \in Runs : holder[r] = Nobody
        /\ holder \in [Runs -> {Nobody, Released} \cup Providers]
        /\ used = 0 /\ changes = 0
        /\ truth \in [Providers -> {"in", "out", "gone"}]
        /\ seen \in [Providers -> {"none", "one", "alone"}]
        /\ \A p \in Providers : seen[p] = "none"
        /\ overtaken = FALSE
    BY DEF Init
  <1>4. /\ registry \in [Providers -> [checkedAt : Times, usable : BOOLEAN]]
        /\ health \in [Providers -> Row]
        /\ \A p \in Providers :
              /\ registry[p].checkedAt \in {0, 1} /\ health[p].updatedAt \in {0, 1}
              /\ health[p].failures = 0 /\ health[p].active = 0
    <2>1. PICK t \in {0, 1}, usable \in BOOLEAN, status \in Statuses, auth \in Auths :
             /\ registry = [p \in Providers |-> [checkedAt |-> t, usable |-> usable]]
             /\ health = [p \in Providers |-> [status |-> status, auth |-> auth,
                                               failures |-> 0, active |-> 0, updatedAt |-> t]]
      BY DEF Init, Statuses, Auths
    <2>2. \A p \in Providers :
             /\ registry[p] = [checkedAt |-> t, usable |-> usable]
             /\ health[p] = [status |-> status, auth |-> auth,
                             failures |-> 0, active |-> 0, updatedAt |-> t]
      BY <2>1
    <2>3. registry \in [Providers -> [checkedAt : Times, usable : BOOLEAN]]
      BY <1>1, <2>1
    <2>4. health \in [Providers -> Row]
      BY <1>1, <2>1 DEF Row
    <2> QED
      BY <2>2, <2>3, <2>4
  <1>5. Nobody \notin Providers
    BY ProvidersAssumption DEF Nobody
  <1>6. TypeOK
    BY <1>1, <1>2, <1>3, <1>4, <1>5 DEF TypeOK, Call, Row, Previous, Statuses, Auths
  <1>7. \A c \in Procs : CallOK(c) /\ ~proc[c].current /\ ~Answered(c) /\ proc[c].run = NoRun
    BY <1>2, <1>3 DEF CallOK, Probing, Answered, Idle, Unread
  <1>8. \A p \in Providers : RowsOK(p)
    BY <1>1, <1>3, <1>4 DEF RowsOK
  <1>9. OneCallPerRun /\ TrueSince
    BY <1>3, <1>7 DEF OneCallPerRun, TrueSince
  <1>10. ActiveRunsAreReservations
    <2>1. \A p \in Providers : {r \in Runs : holder[r] = p} = {}
      BY <1>3, <1>5
    <2>2. Cardinality({}) = 0
      BY FS_EmptySet
    <2>3. ASSUME NEW p \in Providers
          PROVE  LET holders == {r \in Runs : holder[r] = p}
                 IN  health[p].active = Cardinality(holders) /\ Cardinality(holders) <= Limit
      <3>1. health[p].active = 0 /\ {r \in Runs : holder[r] = p} = {}
        BY <1>4, <2>1
      <3> QED
        BY <2>2, <3>1 DEF Limit
    <2> QED
      BY <2>3 DEF ActiveRunsAreReservations
  <1> QED
    BY <1>1, <1>6, <1>7, <1>8, <1>9, <1>10 DEF RoutingInv

LEMMA Inductive ==
    ASSUME RoutingInv, [Next]_vars
    PROVE  RoutingInv'
  <1>1. CASE UNCHANGED vars
    <2>1. clock' \in clock..MaxTime
      BY <1>1, Numbers DEF vars, RoutingInv
    <2> QED
      BY <1>1, <2>1, TickStep DEF vars
  <1>2. ASSUME NEW c \in Procs,
               \/ Refresh(c) \/ BeginProbe(c) \/ Probe(c)
               \/ ReadPrevious(c) \/ Persist(c) \/ Select(c) \/ Reserve(c) \/ Crash(c)
        PROVE  RoutingInv'
    <2>1. CASE Crash(c)
      BY <2>1, IdleStep DEF Crash
    <2> QED
      BY <1>2, <2>1, RefreshStep, BeginProbeStep, ProbeStep, ReadPreviousStep, PersistStep,
         SelectStep, ReserveStep
  <1>3. ASSUME NEW c \in Procs, NEW r \in Runs, Route(c, r)
        PROVE  RoutingInv'
    BY <1>3, RouteStep
  <1>4. ASSUME NEW c \in Procs, NEW p \in Providers, RecordUsage(c, p)
        PROVE  RoutingInv'
    BY <1>4, RecordUsageStep
  <1>5. ASSUME NEW r \in Runs, Release(r)
        PROVE  RoutingInv'
    BY <1>5, ReleaseStep
  <1>6. ASSUME NEW p \in Providers, Change(p)
        PROVE  RoutingInv'
    BY <1>6, ChangeStep
  <1>7. CASE Tick
    <2>1. clock' \in clock..MaxTime
      BY <1>7, Numbers DEF Tick
    <2> QED
      BY <1>7, <2>1, TickStep DEF Tick
  <1> QED
    BY <1>1, <1>2, <1>3, <1>4, <1>5, <1>6, <1>7 DEF Next

(* What holds of rows, calls and reservations in every state.               *)
THEOREM Invariance == Spec => []RoutingInv
  <1>1. Init => RoutingInv
    BY InitInv
  <1>2. RoutingInv /\ [Next]_vars => RoutingInv'
    BY Inductive
  <1> QED
    BY <1>1, <1>2, PTL DEF Spec

(* Every row, call and count keeps its type; a reserved provider has rows.  *)
THEOREM TypeCorrect == Spec => []TypeOK
  <1>1. RoutingInv => TypeOK
    BY DEF RoutingInv
  <1> QED
    BY <1>1, Invariance, PTL

(* The count a provider's health shows is the number of runs that hold a    *)
(* reservation of it, at most one, whatever refreshes write back            *)
(* (replaceProviderSnapshot).                                               *)
THEOREM ReservationsCounted == Spec => []ActiveRunsAreReservations
  <1>1. RoutingInv => ActiveRunsAreReservations
    BY DEF RoutingInv
  <1> QED
    BY <1>1, Invariance, PTL

-----------------------------------------------------------------------------
(* What a step may never do. *)

(* Only Reserve gives a run a provider, and the transaction has just found  *)
(* it registered, authenticated and not unavailable.                        *)
LEMMA GrantedWhenUsable ==
    ASSUME RoutingInv, [Next]_vars, NEW r \in Runs, NEW p \in Providers,
           holder[r] = Nobody, holder'[r] = p
    PROVE  registry[p].usable /\ health[p].auth = "authenticated"
  <1>0. /\ holder \in [Runs -> {Nobody, Released} \cup Providers]
        /\ \A c \in Procs : CallOK(c) /\ proc[c] \in Call
    BY Typed DEF RoutingInv, TypeOK
  <1>1. p # Nobody /\ p # Released /\ holder' # holder
    BY ProvidersAssumption DEF Nobody, Released
  <1>2. ASSUME NEW run \in Runs, Release(run)
        PROVE  FALSE
    <2>1. holder' = [holder EXCEPT ![run] = Released]
      BY <1>2 DEF Release
    <2> QED
      BY <1>0, <1>1, <2>1
  <1>3. PICK c \in Procs : Reserve(c)
    BY <1>1, <1>2 DEF Next, vars, Refresh, BeginProbe, Probe, ReadPrevious, Persist, Select,
       Crash, Route, RecordUsage, Change, Tick
  <1>4. Admissible(proc[c].p) /\ holder' = [holder EXCEPT ![proc[c].run] = proc[c].p]
    BY <1>1, <1>3 DEF Reserve
  <1>5. p = proc[c].p
    BY <1>0, <1>1, <1>4
  <1> QED
    BY <1>4, <1>5 DEF Admissible, UsableProvider, Snapshot

(* Once a refresh that began after a provider's last change is done, no run *)
(* gets a provider that is gone; nor one that is logged out, if nobody else *)
(* wrote its health during that refresh (replaceProviderSnapshot,           *)
(* buildHealth, reserveProviderCapacityAndAppendRoutingDecision).           *)
THEOREM RevokedIsNeverGranted == Spec => RefreshRevokes
<1> DEFINE Grants ==
      \A r \in Runs, p \in Providers :
          holder[r] = Nobody /\ holder'[r] = p =>
              ~(seen[p] # "none" /\ truth[p] = "gone") /\ ~(seen[p] = "alone" /\ truth[p] = "out")
<1>1. RoutingInv /\ [Next]_vars => Grants
  <2> SUFFICES ASSUME RoutingInv, [Next]_vars, NEW r \in Runs, NEW p \in Providers,
                      holder[r] = Nobody, holder'[r] = p
               PROVE  /\ ~(seen[p] # "none" /\ truth[p] = "gone")
                      /\ ~(seen[p] = "alone" /\ truth[p] = "out")
    OBVIOUS
  <2>1. registry[p].usable /\ health[p].auth = "authenticated"
    BY GrantedWhenUsable
  <2>2. RowsOK(p)
    BY DEF RoutingInv
  <2> QED
    BY <2>1, <2>2 DEF RowsOK
<1>2. Grants <=> \A r \in Runs, p \in Providers :
          holder[r] = Nobody /\ holder'[r] = p =>
              ~(seen[p] # "none" /\ truth[p] = "gone") /\ ~(seen[p] = "alone" /\ truth[p] = "out")
  OBVIOUS
<1> QED
  BY <1>1, Invariance, PTL DEF Spec, RefreshRevokes

(* Only a recorded success takes a failure of a provider back, whatever     *)
(* refreshes write that read its health before, as long as no row was       *)
(* given an older time than it had (replaceProviderSnapshot).               *)
THEOREM FailuresStay == Spec => FailuresAreKept
<1> DEFINE Kept ==
      \A p \in Providers :
          health'[p].failures < health[p].failures => overtaken \/ used' # used
<1>1. RoutingInv /\ [Next]_vars => Kept
  <2> SUFFICES ASSUME RoutingInv, [Next]_vars, NEW p \in Providers,
                      health'[p].failures < health[p].failures
               PROVE  overtaken \/ used' # used
    OBVIOUS
  <2>0. /\ health \in [Providers -> Row] /\ health[p].failures \in Nat /\ used \in Nat
        /\ \A c \in Procs : CallOK(c)
    BY Typed, Numbers DEF RoutingInv
  <2>1. health' # health
    BY <2>0
  <2>2. ASSUME NEW c \in Procs, Persist(c)
        PROVE  overtaken
    <3>1. proc[c].p \in Providers /\ proc[c].at = "persist"
      BY <2>0, <2>2 DEF Persist, CallOK, Probing
    <3>2. health' = [health EXCEPT ![proc[c].p] = HealthToPersist(c)]
      BY <2>1, <2>2 DEF Persist
    <3>3. p = proc[c].p /\ health'[p] = HealthToPersist(c)
      BY <2>0, <3>1, <3>2
    <3>4. ~overtaken => HealthToPersist(c).failures = health[p].failures
      BY <3>1, <3>3, Persisted
    <3> QED
      BY <2>0, <3>3, <3>4
  <2>3. ASSUME NEW c \in Procs, Reserve(c)
        PROVE  FALSE
    <3> DEFINE q == proc[c].p
               row == [health[q] EXCEPT !.active = @ + 1]
    <3>1. Write(q, row, proc[c].stamp) /\ q \in Providers
      BY <2>0, <2>1, <2>3 DEF Reserve, CallOK
    <3> QED
      BY <2>0, <3>1 DEF Write, Row
  <2>4. ASSUME NEW r \in Runs, Release(r)
        PROVE  FALSE
    <3> DEFINE q == holder[r]
               row == [health[q] EXCEPT !.active = @ - 1]
    <3>1. PICK t \in 1..clock : Write(q, row, t) /\ q \in Providers
      BY <2>4 DEF Release
    <3> QED
      BY <2>0, <3>1 DEF Write, Row
  <2>5. ASSUME NEW c \in Procs, NEW q \in Providers, RecordUsage(c, q)
        PROVE  used' # used
    <3>1. used' = used + 1
      BY <2>5 DEF RecordUsage
    <3> QED
      BY <2>0, <3>1
  <2> QED
    BY <2>1, <2>2, <2>3, <2>4, <2>5 DEF Next, vars, Refresh, BeginProbe, Probe, ReadPrevious,
       Select, Crash, Route, Change, Tick
<1>2. Kept <=> \A p \in Providers :
          health'[p].failures < health[p].failures => overtaken \/ used' # used
  OBVIOUS
<1> QED
  BY <1>1, Invariance, PTL DEF Spec, FailuresAreKept
=============================================================================
