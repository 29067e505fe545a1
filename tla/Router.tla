------------------------------- MODULE Router -------------------------------
(***************************************************************************)
(* MODEL-001's choice of a provider (src/src/model/router.ts): a function  *)
(* of a request and a snapshot of what is known of the providers.          *)
(*                                                                         *)
(* A candidate is a record: what its health, its usage and its family say. *)
(* Providers are numbered in the order of their names; each has one model. *)
(* Elapsed times are in seconds, NoLatency when there is no usage.         *)
(***************************************************************************)
EXTENDS Integers, Sequences, SequencesExt

Modes     == {"eco", "balanced", "max"}
Risks     == {"low", "medium", "high", "critical"}
Pressures == {"low", "medium", "unknown", "high"}
Qualities == {"excellent", "good", "unknown", "poor"}
Resets    == {"unknown", "past", "hour", "day", "later"}
NoLatency == -1

AtMost(a, b) == IF a < b THEN a ELSE b
AtLeast(a, b) == IF a > b THEN a ELSE b

(* observedStats: the average over the last 20 entries, rounded to a class. *)
ObservedQuality(entries) ==
    LET recent == SubSeq(entries, AtLeast(1, Len(entries) - 19), Len(entries))
        worth  == [excellent |-> 3, good |-> 2, unknown |-> 1, poor |-> 0]
        n      == Len(recent)
        sum    == FoldSeq(LAMBDA q, s : worth[q] + s, 0, recent)
    IN  IF n > 0 /\ 2 * sum >= 5 * n THEN "excellent"
        ELSE IF n > 0 /\ 2 * sum >= 3 * n THEN "good"
        ELSE IF n > 0 /\ sum < n THEN "poor" ELSE "unknown"

QuotaScore(mode, pressure) ==
    [eco      |-> [low |-> 45, medium |-> 20, unknown |-> 0, high |-> -50],
     balanced |-> [low |-> 30, medium |-> 15, unknown |-> 0, high |-> -25],
     max      |-> [low |-> 10, medium |-> 5, unknown |-> 0, high |-> -5]][mode][pressure]

(* A quota under pressure that is reset soon, or not for long.              *)
QuotaResetScore(mode, c) ==
    IF mode = "max" \/ c.pressure # "high" THEN 0
    ELSE [unknown |-> 0, past |-> 0, hour |-> 10, day |-> 0, later |-> -10][c.reset]

QualityScore(quality, risk) ==
    IF risk = "critical" THEN [excellent |-> 90, good |-> 50, unknown |-> 0, poor |-> -60][quality]
    ELSE IF risk = "high" THEN [excellent |-> 68, good |-> 38, unknown |-> 0, poor |-> -45][quality]
    ELSE [excellent |-> 45, good |-> 25, unknown |-> 0, poor |-> -30][quality]

LatencyScore(mode, latency) ==
    IF latency = NoLatency \/ mode = "max" THEN 0 ELSE AtLeast(-25, 20 - latency)

ConcurrencyScore(active) == IF active = 0 THEN 10 ELSE AtLeast(-20, 10 - 5 * active)

(* A review prefers another family than the implementation's, if there is   *)
(* one that could take it.                                                  *)
FamilyScore(request, c, alternatives) ==
    IF request.family = "none" \/ ~alternatives THEN 0
    ELSE IF c.family # request.family THEN 100 ELSE -100

ScoreCandidate(request, c, alternatives) ==
    (IF c.status = "healthy" THEN 80 ELSE 50)
    + (IF c.auth = "authenticated" THEN 20 ELSE 0)
    + QuotaScore(request.mode, c.pressure) + QuotaResetScore(request.mode, c)
    - AtMost(50, 5 * c.failures)
    + QualityScore(c.quality, request.risk) - AtMost(20, 2 * c.retries)
    + LatencyScore(request.mode, c.latency) + ConcurrencyScore(c.active)
    + FamilyScore(request, c, alternatives)

(* isUsableProvider; the registry part is one fact, c.registered.           *)
UsableProvider(c) ==
    /\ c.registered
    /\ c.status \in {"healthy", "degraded"} /\ c.auth = "authenticated"
    /\ ~c.exhausted

ProviderAtCapacity(c) == c.active >= c.limit

(* Candidates and alternatives: of the snapshot s, less the excluded.       *)
Candidates(s, excluded) ==
    {p \in DOMAIN s \ excluded : UsableProvider(s[p]) /\ ~ProviderAtCapacity(s[p])}

FamilyAlternatives(request, s, excluded) ==
    request.family # "none" /\ \E p \in Candidates(s, excluded) : s[p].family # request.family

(* The best score, and the first name among equals.                         *)
Selected(request, s, excluded) ==
    LET score(p) == ScoreCandidate(request, s[p], FamilyAlternatives(request, s, excluded))
    IN  CHOOSE p \in Candidates(s, excluded) :
            \A q \in Candidates(s, excluded) :
                score(p) > score(q) \/ (score(p) = score(q) /\ p <= q)

(* The reference: p is better than q in something and worse in nothing; an  *)
(* unknown quality is better than a poor one, an unknown pressure than a    *)
(* high one.                                                                *)
Rank == [pressure |-> [low |-> 3, medium |-> 2, unknown |-> 1, high |-> 0],
         quality  |-> [excellent |-> 3, good |-> 2, unknown |-> 1, poor |-> 0],
         status   |-> [healthy |-> 1, degraded |-> 0]]

Dominates(p, q) ==
    LET betters == {Rank.status[p.status] - Rank.status[q.status],
                    Rank.pressure[p.pressure] - Rank.pressure[q.pressure],
                    Rank.quality[p.quality] - Rank.quality[q.quality],
                    q.failures - p.failures, q.retries - p.retries, q.active - p.active}
    IN  /\ \A b \in betters : b >= 0
        /\ \E b \in betters : b > 0
        /\ p.latency = q.latency /\ p.reset = q.reset /\ p.family = q.family
=============================================================================
