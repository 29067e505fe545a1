------------------------------ MODULE Routing -------------------------------
(***************************************************************************)
(* MODEL-001: what is known of the providers, and who gets one             *)
(* (src/src/model/registry.ts, src/src/model/service.ts,                   *)
(* src/src/persistence/model-repositories.ts, and the probes of            *)
(* src/src/adapters/model/adapter.ts).                                     *)
(*                                                                         *)
(* A refresh asks a provider's programs one after the other, reads the     *)
(* provider's health and writes both back, while routes reserve, runs end, *)
(* usage is recorded and other refreshes do the same, in any process.      *)
(* Which of them knows better is decided by time stamps.  A transaction    *)
(* may have waited for its turn after the clock was read.                  *)
(*                                                                         *)
(* Each run is routed once and releases once (AgentRun has the rest of its *)
(* life, replays and fallbacks).  Quotas and catalogs are left out: a      *)
(* refresh knows a provider's registry row as usable or not.               *)
(***************************************************************************)
EXTENDS Router, FiniteSets

CONSTANTS Providers,   \* numbered in the order of their names
          Family,      \* their families
          Runs, NoRun,
          Procs,       \* processes that refresh and route
          StaleAfter,  \* age of a registry row that asks for a refresh
          MaxTime,     \* readings of the clock
          MaxChanges,  \* changes of a provider
          MaxUsage     \* usage records

ASSUME ProvidersAssumption ==
    /\ Providers \subseteq Nat \ {0} /\ IsFiniteSet(Providers)
    /\ DOMAIN Family = Providers
ASSUME RunsAssumption == IsFiniteSet(Runs) /\ NoRun \notin Runs
ASSUME BoundsAssumption ==
    /\ {StaleAfter, MaxTime, MaxChanges, MaxUsage} \subseteq Nat
    /\ MaxTime >= 2   \* what the clock shows first

Nobody   == 0
Released == -1
Limit    == 1   \* UNKNOWN_PROVIDER_CONCURRENCY_LIMIT: no probe reports another

VARIABLES
    clock,
    truth,     \* a provider is logged in, logged out, or gone
    registry,  \* SQLite provider_registry: row 0 is no row
    health,    \* SQLite provider_health
    holder,    \* SQLite provider_capacity_reservations, by run
    proc,      \* a call of refresh or route
    used, changes,
    seen,      \* refreshes since the provider last changed: none, one, or
               \* one during which nobody else wrote its health
    overtaken  \* a health row was given an older time than it had

vars == <<clock, truth, registry, health, holder, proc, used, changes, seen, overtaken>>

Times == 0..(MaxTime + 1)

Unread == [status |-> "unknown", failures |-> 0, active |-> 0]
Idle   == [at |-> "idle", todo |-> {}, run |-> NoRun, tries |-> 0, p |-> Nobody, stamp |-> 0,
           available |-> "unknown", auth |-> "unknown", usable |-> FALSE,
           previous |-> Unread, current |-> FALSE, alone |-> FALSE]

(* An active reservation belongs to a provider that has rows.               *)
TypeOK ==
    /\ clock \in Times
    /\ truth \in [Providers -> {"in", "out", "gone"}]
    /\ registry \in [Providers -> [checkedAt : Times, usable : BOOLEAN]]
    /\ health \in [Providers -> [status : {"healthy", "degraded", "unavailable", "unknown"},
                                 auth : {"authenticated", "unauthenticated", "unknown"},
                                 failures : 0..MaxUsage, active : 0..Limit, updatedAt : Times]]
    /\ holder \in [Runs -> {Nobody, Released} \cup Providers]
    /\ \A r \in Runs : holder[r] \in Providers => registry[holder[r]].checkedAt > 0
    /\ proc \in [Procs -> [at : {"idle", "begin", "probe", "read", "persist", "select", "reserve"},
                           todo : SUBSET Providers, run : Runs \cup {NoRun},
                           tries : 0..Cardinality(Providers), p : Providers \cup {Nobody},
                           stamp : Times, available : {"available", "unavailable", "unknown"},
                           auth : {"authenticated", "unauthenticated", "unknown"}, usable : BOOLEAN,
                           previous : [status : {"healthy", "degraded", "unavailable", "unknown"},
                                       failures : 0..MaxUsage, active : 0..Limit],
                           current : BOOLEAN, alone : BOOLEAN]]
    /\ used \in 0..MaxUsage /\ changes \in 0..MaxChanges
    /\ seen \in [Providers -> {"none", "one", "alone"}] /\ overtaken \in BOOLEAN

(* Nothing is known yet, or a first refresh found the providers in order.   *)
Init ==
    /\ clock = 2
    /\ truth = [p \in Providers |-> "in"]
    /\ \/ /\ registry = [p \in Providers |-> [checkedAt |-> 0, usable |-> FALSE]]
          /\ health = [p \in Providers |-> [status |-> "unknown", auth |-> "unknown",
                                            failures |-> 0, active |-> 0, updatedAt |-> 0]]
       \/ /\ registry = [p \in Providers |-> [checkedAt |-> 1, usable |-> TRUE]]
          /\ health = [p \in Providers |-> [status |-> "healthy", auth |-> "authenticated",
                                            failures |-> 0, active |-> 0, updatedAt |-> 1]]
    /\ holder = [r \in Runs |-> Nobody]
    /\ proc = [c \in Procs |-> Idle]
    /\ used = 0 /\ changes = 0
    /\ seen = [p \in Providers |-> "none"] /\ overtaken = FALSE

Known(p) == registry[p].checkedAt > 0

(* A write of p's health by others than a refresh, stamped t.               *)
Write(p, row, t) ==
    /\ health' = [health EXCEPT ![p] = [row EXCEPT !.updatedAt = t]]
    /\ overtaken' = (overtaken \/ t < health[p].updatedAt)

(* The refreshes of p under way are no longer alone with it.                *)
Disturbed(p) ==
    [c \in Procs |-> IF proc[c].p = p THEN [proc[c] EXCEPT !.alone = FALSE] ELSE proc[c]]

-----------------------------------------------------------------------------
(* refresh and ensureFresh. *)

(* refresh of one provider, or of all of them.                              *)
Refresh(c) ==
    /\ proc[c].at = "idle"
    /\ \E todo \in {Providers} \cup {{p} : p \in Providers} :
          proc' = [proc EXCEPT ![c] = [Idle EXCEPT !.at = "begin", !.todo = todo]]
    /\ UNCHANGED <<clock, truth, registry, health, holder, used, changes, seen, overtaken>>

(* nextCheckedAt: later than the row that is there.                         *)
BeginProbe(c) ==
    LET job == proc[c]
        p   == CHOOSE q \in job.todo : \A q2 \in job.todo : q <= q2
        stamp == AtLeast(clock, registry[p].checkedAt + 1)
    IN  /\ job.at = "begin"
        /\ proc' = [proc EXCEPT ![c] =
              IF job.todo # {}
              THEN [job EXCEPT !.at = "probe", !.p = p, !.todo = @ \ {p}, !.stamp = stamp,
                               !.current = TRUE, !.alone = stamp > health[p].updatedAt]
              ELSE IF job.run # NoRun THEN [job EXCEPT !.at = "select"] ELSE Idle]
        /\ UNCHANGED <<clock, truth, registry, health, holder, used, changes, seen, overtaken>>

(* What a version probe answers: it may time out or lose its executable to  *)
(* a probe of the same adapter, and an installed program may fail in it.    *)
ProbeVersion(p) ==
    {"unknown", "unavailable"} \cup (IF truth[p] = "gone" THEN {} ELSE {"available"})

(* The adapter's probe of an executable that has a version.                 *)
ProbeAuthentication(p) ==
    {"unknown", [in |-> "authenticated", out |-> "unauthenticated", gone |-> "unknown"][truth[p]]}

(* probe, the execution adapter's probe and discoverModels.  They take time.*)
Probe(c) ==
    LET p == proc[c].p
    IN  /\ proc[c].at = "probe" /\ clock < MaxTime
        /\ clock' = clock + 1
        /\ \E available \in ProbeVersion(p) :
           \E auth \in IF available = "available" THEN ProbeAuthentication(p) ELSE {"unknown"},
              usable \in IF available = "available" THEN BOOLEAN ELSE {FALSE} :
              proc' = [proc EXCEPT ![c] = [@ EXCEPT
                          !.at = "read", !.available = available, !.auth = auth, !.usable = usable]]
        /\ UNCHANGED <<truth, registry, health, holder, used, changes, seen, overtaken>>

(* refreshAdapter, between its probes and its transaction.                  *)
ReadPrevious(c) ==
    /\ proc[c].at = "read"
    /\ LET row == health[proc[c].p]
       IN  proc' = [proc EXCEPT ![c] = [@ EXCEPT !.at = "persist",
                        !.previous = [status |-> row.status, failures |-> row.failures,
                                      active |-> row.active]]]
    /\ UNCHANGED <<clock, truth, registry, health, holder, used, changes, seen, overtaken>>

(* buildHealth: history is taken over, authentication is not.               *)
BuildHealth(c) ==
    LET was == proc[c].previous
        marred == was.status = "unavailable" \/ (was.status = "degraded" /\ was.failures > 0)
    IN  [status    |-> CASE proc[c].available # "available" -> proc[c].available
                         [] marred -> "degraded"
                         [] OTHER  -> "healthy",
         auth      |-> proc[c].auth,
         failures  |-> was.failures,
         active    |-> was.active,
         updatedAt |-> proc[c].stamp]

(* Mutant of Delayed: the last refresh to finish wins.                      *)
DelayedNever(c) == FALSE

(* A delayed probe never overwrites a newer one.                            *)
Delayed(c) == registry[proc[c].p].checkedAt >= proc[c].stamp

(* Mutants of HealthToPersist: a snapshot replaces whatever there is, or    *)
(* its count of runs does.                                                  *)
HealthSnapshot(c) == [BuildHealth(c) EXCEPT !.active = health[proc[c].p].active]
HealthCounting(c) ==
    IF health[proc[c].p].updatedAt >= proc[c].stamp THEN health[proc[c].p] ELSE BuildHealth(c)

(* Newer health stays as it is; otherwise the reservations' count stays.    *)
HealthToPersist(c) ==
    LET current == health[proc[c].p]
    IN  IF current.updatedAt >= proc[c].stamp THEN current
        ELSE [BuildHealth(c) EXCEPT !.active = current.active]

(* replaceProviderSnapshot, and on to the next provider.                    *)
Persist(c) ==
    LET p == proc[c].p
    IN  /\ proc[c].at = "persist"
        /\ IF Delayed(c) THEN UNCHANGED <<registry, health>>
           ELSE /\ registry' = [registry EXCEPT ![p] =
                       [checkedAt |-> proc[c].stamp, usable |-> proc[c].usable]]
                /\ health' = [health EXCEPT ![p] = HealthToPersist(c)]
        /\ seen' = [seen EXCEPT ![p] =
              IF proc[c].current
              THEN IF proc[c].alone \/ @ = "alone" THEN "alone" ELSE "one" ELSE @]
        /\ proc' = [(IF Delayed(c) THEN proc ELSE Disturbed(p)) EXCEPT ![c] =
              [proc[c] EXCEPT !.at = "begin", !.p = Nobody, !.stamp = 0, !.available = "unknown",
                              !.auth = "unknown", !.usable = FALSE, !.previous = Unread,
                              !.current = FALSE, !.alone = FALSE]]
        /\ UNCHANGED <<clock, truth, holder, used, changes, overtaken>>

-----------------------------------------------------------------------------
(* route. *)

Stale ==
    \E p \in Providers : ~Known(p) \/ clock - registry[p].checkedAt > StaleAfter

Route(c, r) ==
    /\ proc[c].at = "idle"
    /\ holder[r] = Nobody /\ \A d \in Procs : proc[d].run # r
    /\ proc' = [proc EXCEPT ![c] = IF Stale
          THEN [Idle EXCEPT !.at = "begin", !.run = r, !.todo = Providers]
          ELSE [Idle EXCEPT !.at = "select", !.run = r]]
    /\ UNCHANGED <<clock, truth, registry, health, holder, used, changes, seen, overtaken>>

(* snapshot().                                                              *)
Snapshot ==
    [p \in Providers |->
        [registered |-> Known(p) /\ registry[p].usable,
         status |-> health[p].status, auth |-> health[p].auth, exhausted |-> FALSE,
         failures |-> health[p].failures, active |-> health[p].active, limit |-> Limit,
         pressure |-> "unknown", reset |-> "unknown", quality |-> "unknown",
         retries |-> 0, latency |-> NoLatency, family |-> Family[p]]]

(* What the request asks for matters here and is chosen here: providers a   *)
(* fallback excludes, a family a review avoids.  The decision gets its time.*)
Select(c) ==
    /\ proc[c].at = "select"
    /\ \E excluded \in SUBSET Providers \ {Providers},
          family \in {"none"} \cup {Family[p] : p \in Providers} :
          LET request == [mode |-> "balanced", risk |-> "low", family |-> family]
          IN  proc' = [proc EXCEPT ![c] =
                IF Candidates(Snapshot, excluded) = {} THEN Idle
                ELSE [@ EXCEPT !.at = "reserve", !.stamp = clock,
                               !.p = Selected(request, Snapshot, excluded)]]
    /\ UNCHANGED <<clock, truth, registry, health, holder, used, changes, seen, overtaken>>

(* Mutant of Admissible: what the router saw is good enough.                *)
AdmissibleThen(p) == TRUE

(* What the router saw is only a hint: the transaction looks again.         *)
Admissible(p) ==
    UsableProvider(Snapshot[p]) /\ ~ProviderAtCapacity(Snapshot[p])

(* reserveProviderCapacityAndAppendRoutingDecision, and the loop around it. *)
Reserve(c) ==
    LET p == proc[c].p
    IN  /\ proc[c].at = "reserve"
        /\ IF Admissible(p)
           THEN /\ holder' = [holder EXCEPT ![proc[c].run] = p]
                /\ Write(p, [health[p] EXCEPT !.active = @ + 1], proc[c].stamp)
                /\ proc' = [Disturbed(p) EXCEPT ![c] = Idle]
           ELSE /\ proc' = [proc EXCEPT ![c] =
                       IF proc[c].tries < Cardinality(Providers)
                       THEN [proc[c] EXCEPT !.at = "select", !.tries = @ + 1,
                                            !.p = Nobody, !.stamp = 0]
                       ELSE Idle]
                /\ UNCHANGED <<holder, health, overtaken>>
        /\ UNCHANGED <<clock, truth, registry, used, changes, seen>>

-----------------------------------------------------------------------------
(* What else is written, and what happens. *)

(* releaseProviderCapacity, when the run has ended.                         *)
Release(r) ==
    LET p == holder[r]
    IN  /\ p \in Providers
        /\ holder' = [holder EXCEPT ![r] = Released]
        /\ \E t \in 1..clock : Write(p, [health[p] EXCEPT !.active = @ - 1], t)
        /\ proc' = Disturbed(p)
        /\ UNCHANGED <<clock, truth, registry, used, changes, seen>>

(* recordUsage for a run that was routed, and healthAfterUsage; an error of *)
(* the provider is followed by a refresh.                                   *)
RecordUsage(c, p) ==
    LET row == health[p]
    IN  /\ proc[c].at = "idle" /\ Known(p) /\ used < MaxUsage
        /\ \E r \in Runs : holder[r] \in {p, Released}
        /\ used' = used + 1
        /\ \E failed \in BOOLEAN, error \in {"none", "authentication", "removed"} :
              /\ Write(p, [row EXCEPT
                    !.failures = IF failed THEN @ + 1 ELSE AtLeast(0, @ - 1),
                    !.status = IF error # "none" THEN "unavailable"
                               ELSE IF failed THEN "degraded"
                               ELSE IF @ \in {"unavailable", "unknown"} THEN "healthy" ELSE @,
                    !.auth = IF error = "authentication" THEN "unauthenticated" ELSE @], clock)
              /\ proc' = [Disturbed(p) EXCEPT ![c] =
                    IF error = "none" THEN Idle ELSE [Idle EXCEPT !.at = "begin", !.todo = {p}]]
        /\ UNCHANGED <<clock, truth, registry, holder, changes, seen>>

Tick ==
    /\ clock < MaxTime /\ clock' = clock + 1
    /\ UNCHANGED <<truth, registry, health, holder, proc, used, changes, seen, overtaken>>

(* Somebody logs in or out, removes or installs the provider.               *)
Change(p) ==
    /\ changes < MaxChanges /\ changes' = changes + 1
    /\ \E t \in {"in", "out", "gone"} \ {truth[p]} : truth' = [truth EXCEPT ![p] = t]
    /\ seen' = [seen EXCEPT ![p] = "none"]
    /\ proc' = [c \in Procs |->
          IF proc[c].p = p THEN [proc[c] EXCEPT !.current = FALSE] ELSE proc[c]]
    /\ UNCHANGED <<clock, registry, health, holder, used, overtaken>>

Crash(c) ==
    /\ proc[c].at # "idle"
    /\ proc' = [proc EXCEPT ![c] = Idle]
    /\ UNCHANGED <<clock, truth, registry, health, holder, used, changes, seen, overtaken>>

Next ==
    \/ \E c \in Procs :
          \/ Refresh(c) \/ BeginProbe(c) \/ Probe(c)
          \/ ReadPrevious(c) \/ Persist(c) \/ Select(c) \/ Reserve(c) \/ Crash(c)
          \/ \E r \in Runs : Route(c, r)
          \/ \E p \in Providers : RecordUsage(c, p)
    \/ \E r \in Runs : Release(r)
    \/ \E p \in Providers : Change(p)
    \/ Tick

Spec == Init /\ [][Next]_vars

-----------------------------------------------------------------------------
(* Properties. *)

(* The count a provider's health shows is the number of runs that hold a    *)
(* reservation of it, never more than its limit, although refreshes write   *)
(* back rows they built before reservations and releases                    *)
(* (replaceProviderSnapshot: "Probe snapshots do not own provider           *)
(* concurrency").                                                           *)
ActiveRunsAreReservations ==
    \A p \in Providers :
        LET holders == {r \in Runs : holder[r] = p}
        IN  health[p].active = Cardinality(holders) /\ Cardinality(holders) <= Limit

(* Once a refresh that began after a provider disappeared is done, no run   *)
(* gets the provider, however late other probes, selections and writes      *)
(* arrive; nor after one that began when it was logged out, if nobody else  *)
(* wrote its health in the meantime (replaceProviderSnapshot and            *)
(* buildHealth: "a fresh ambiguous probe must immediately revoke            *)
(* routability").                                                           *)
RefreshRevokes ==
    [][\A r \in Runs, p \in Providers :
          holder[r] = Nobody /\ holder'[r] = p =>
              ~(seen[p] # "none" /\ truth[p] = "gone") /\ ~(seen[p] = "alone" /\ truth[p] = "out")]_vars

(* Only a recorded success takes a failure back: no refresh that read the   *)
(* health before writes it over a failure recorded since.  It may once a    *)
(* transaction that waited for its turn gave the row an older time, which   *)
(* is what the comparison of times goes by (replaceProviderSnapshot).       *)
FailuresAreKept ==
    [][\A p \in Providers :
          health'[p].failures < health[p].failures => overtaken \/ used' # used]_vars

=============================================================================
