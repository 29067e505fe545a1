------------------------------ MODULE Backlog -------------------------------
(***************************************************************************)
(* CORE-002: from the repository's backlog file to a ticket that starts    *)
(* (src/src/backlog/schema.ts, src/src/persistence/backlog-sync.ts,        *)
(* src/src/scheduler, and the admission in src/src/workspace/service.ts).  *)
(*                                                                         *)
(* A sync is one transaction, but the file is read before it: by then the  *)
(* file, another sync or a suggestion may be newer.  Eligibility is stored *)
(* by a sync and used much later, while tickets are paused, cancelled,     *)
(* resumed and completed.                                                  *)
(*                                                                         *)
(* One project.  Tickets are numbered in the order of the ready queue      *)
(* (priority, then ID).  Of a ticket's static contract only the            *)
(* dependencies are kept: they are what a drift could do harm to.  States  *)
(* nobody here tells apart are one: ACTIVE is PLANNING to REPAIRING,       *)
(* REVIEW is PR_OPEN to MERGED, STOPPED is FAILED and NEEDS_HUMAN.         *)
(***************************************************************************)
EXTENDS Naturals, FiniteSets

CONSTANTS Tickets,        \* ticket IDs, as numbers
          Files,          \* what the backlog file may say: ID -> dependencies
          Syncers,        \* processes that run `shipgraph backlog sync`
          MaxConcurrent,  \* execution.maxConcurrentTickets
          MaxEdits,       \* changes of the file
          MaxSuggestions  \* tickets persisted without approval

Graphs == UNION {[S -> SUBSET Tickets] : S \in SUBSET Tickets}

ASSUME TicketsAssumption == Tickets \subseteq Nat /\ IsFiniteSet(Tickets)
ASSUME FilesAssumption   == Files \subseteq Graphs
ASSUME BoundsAssumption  ==
    MaxConcurrent \in Nat \ {0} /\ MaxEdits \in Nat /\ MaxSuggestions \in Nat

VARIABLES
    file,      \* the file in the repository
    loaded,    \* a sync's copy of it: at most one
    status,    \* SQLite tickets.status
    deps,      \* SQLite ticket_dependencies
    approved,  \* SQLite approved_backlog_tickets
    synced,    \* SQLite backlog_syncs: at most one
    admission, \* a createWorkspace of the ticket: how far it is
    edits, suggestions

vars == <<file, loaded, status, deps, approved, synced, admission, edits, suggestions>>

Statuses == {"QUEUED", "ELIGIBLE", "ACTIVE", "REVIEW", "STOPPED",
             "PAUSED", "BLOCKED", "COMPLETE", "CANCELLED"}

Persisted == {t \in Tickets : status[t] # "ABSENT"}
Graph     == [t \in Persisted |-> deps[t]]

(* Approved tickets and dependencies are persisted tickets.                 *)
TypeOK ==
    /\ file \in Files
    /\ loaded \in [Syncers -> SUBSET Files] /\ \A s \in Syncers : Cardinality(loaded[s]) <= 1
    /\ status \in [Tickets -> Statuses \cup {"ABSENT"}]
    /\ deps \in [Tickets -> SUBSET Persisted]
    /\ approved \subseteq Persisted
    /\ synced \subseteq Files /\ Cardinality(synced) <= 1
    /\ admission \in [Tickets -> {"none", "checked", "reserved"}]
    /\ edits \in 0..MaxEdits /\ suggestions \in 0..MaxSuggestions

Init ==
    /\ file \in Files /\ loaded = [s \in Syncers |-> {}]
    /\ status = [t \in Tickets |-> "ABSENT"] /\ deps = [t \in Tickets |-> {}]
    /\ approved = {} /\ synced = {}
    /\ admission = [t \in Tickets |-> "none"]
    /\ edits = 0 /\ suggestions = 0

-----------------------------------------------------------------------------
(* validateDependencyGraph. *)

Closed(g) == \A t \in DOMAIN g : g[t] \subseteq DOMAIN g

(* Whatever tickets are left, one of them depends on none of the others     *)
(* (nor on itself): there is no cycle.                                      *)
Acyclic(g) ==
    \A S \in SUBSET DOMAIN g : S # {} => \E t \in S : g[t] \cap S = {}

(* Mutant of Valid: dependencies exist, whichever way they lead.            *)
ValidReferences(g) == Closed(g)

Valid(g) == Closed(g) /\ Acyclic(g)

-----------------------------------------------------------------------------
(* evaluateEligibility and calculateReady, on the approved tickets. *)

(* Mutant of Clear: a cancelled dependency is not waited for.               *)
ClearOrCancelled(d) == status[d] \in {"COMPLETE", "CANCELLED"}

Clear(d) == status[d] = "COMPLETE"

Unblocked(t) == \A d \in deps[t] : d \in approved /\ Clear(d)

Eligible == {t \in approved : status[t] = "ELIGIBLE" /\ Unblocked(t)}

Active == Cardinality({t \in approved : status[t] = "ACTIVE"})

Available == IF Active < MaxConcurrent THEN MaxConcurrent - Active ELSE 0

(* The prefix of the eligible tickets that fits the capacity.               *)
Dispatchable == {t \in Eligible : Cardinality({u \in Eligible : u < t}) < Available}

-----------------------------------------------------------------------------
(* syncBacklogProject. *)

(* validateBacklog refuses a file before the database is opened.            *)
Load(s) ==
    /\ loaded[s] = {}
    /\ Valid(file)
    /\ loaded' = [loaded EXCEPT ![s] = {file}]
    /\ UNCHANGED <<file, status, deps, approved, synced, admission, edits, suggestions>>

Drifted(f) == \E t \in Persisted \cap DOMAIN f : deps[t] # f[t]

(* createMany checks the new tickets together with the stored ones.         *)
Conflicting(f) ==
    ~Valid([t \in Persisted \cup DOMAIN f |-> IF t \in Persisted THEN deps[t] ELSE f[t]])

(* Mutant of Removed: what the file no longer names is left as it is.       *)
RemovedNothing(f) == FALSE

Removed(f) == approved \ DOMAIN f # {}

(* A transaction that throws leaves nothing behind.                         *)
RolledBack == UNCHANGED <<status, deps, approved, synced>>

(* Mutant of Refuse: what was approved before the drift was found stays.    *)
RefuseTooLate(f) == approved' = approved \cup DOMAIN f /\ UNCHANGED <<status, deps, synced>>

Refuse(f) == RolledBack

(* createMany for the new tickets, approval of all of them, and             *)
(* reconcileEligibility over the result.                                    *)
Import(f) ==
    LET created    == DOMAIN f \ Persisted
        queued(t)  == t \in created \/ status[t] = "QUEUED"
        complete(d) == d \notin created /\ Clear(d)
        eligible(t) == queued(t) /\ \A d \in f[t] : complete(d)
    IN  /\ deps' = [t \in Tickets |-> IF t \in created THEN f[t] ELSE deps[t]]
        /\ status' = [t \in Tickets |->
              IF t \notin DOMAIN f THEN status[t]
              ELSE IF eligible(t) THEN "ELIGIBLE"
              ELSE IF t \in created THEN "QUEUED" ELSE status[t]]
        /\ approved' = DOMAIN f \cup approved
        /\ synced' = {f}

(* syncApprovedBacklog.                                                     *)
Sync(s) ==
    /\ loaded[s] # {}
    /\ \E f \in loaded[s] : 
          IF Removed(f) \/ Drifted(f) \/ Conflicting(f) THEN Refuse(f) ELSE Import(f)
    /\ loaded' = [loaded EXCEPT ![s] = {}]
    /\ UNCHANGED <<file, admission, edits, suggestions>>

-----------------------------------------------------------------------------
(* createWorkspace, as far as the backlog goes. *)

(* assertTicketDispatchable, before anything is reserved.                   *)
Check(t) ==
    /\ admission[t] = "none" /\ t \in Dispatchable
    /\ admission' = [admission EXCEPT ![t] = "checked"]
    /\ UNCHANGED <<file, loaded, status, deps, approved, synced, edits, suggestions>>

(* assertDispatchableAndClaimCapacityInTx: the same again, but for the      *)
(* order; a workspace reserved for a ticket that is not active counts.      *)
Reserve(t) ==
    LET reserved == {u \in Tickets : admission[u] = "reserved" /\ status[u] # "ACTIVE"}
    IN  /\ admission[t] = "checked"
        /\ admission' = [admission EXCEPT ![t] =
              IF t \in Eligible /\ Active + Cardinality(reserved) < MaxConcurrent
              THEN "reserved" ELSE "none"]
        /\ UNCHANGED <<file, loaded, status, deps, approved, synced, edits, suggestions>>

(* finalizeReadyWorkspace: only an ELIGIBLE ticket may become PLANNING.     *)
Start(t) ==
    /\ admission[t] = "reserved"
    /\ status' = [status EXCEPT ![t] = IF @ = "ELIGIBLE" THEN "ACTIVE" ELSE @]
    /\ admission' = [admission EXCEPT ![t] = "none"]
    /\ UNCHANGED <<file, loaded, deps, approved, synced, edits, suggestions>>

-----------------------------------------------------------------------------
(* Everybody else. *)

Edit ==
    /\ edits < MaxEdits /\ edits' = edits + 1
    /\ file' \in Files \ {file}
    /\ UNCHANGED <<loaded, status, deps, approved, synced, admission, suggestions>>

(* createMany of one ticket nobody approved: its dependencies are known.    *)
Suggest(t) ==
    /\ suggestions < MaxSuggestions /\ suggestions' = suggestions + 1
    /\ status[t] = "ABSENT"
    /\ \E d \in SUBSET Persisted :
          /\ Valid([u \in Persisted \cup {t} |-> IF u = t THEN d ELSE deps[u]])
          /\ deps' = [deps EXCEPT ![t] = d]
    /\ status' = [status EXCEPT ![t] = "QUEUED"]
    /\ UNCHANGED <<file, loaded, approved, synced, admission, edits>>

(* allowedTransitions, but for the two that are a sync's and an admission's *)
Allowed ==
    [QUEUED   |-> {"BLOCKED", "CANCELLED"},
     ELIGIBLE |-> {"PAUSED", "CANCELLED"},
     ACTIVE   |-> {"REVIEW", "STOPPED", "PAUSED", "CANCELLED"},
     REVIEW   |-> {"ACTIVE", "STOPPED", "COMPLETE"},
     STOPPED  |-> {"ACTIVE", "PAUSED", "CANCELLED"},
     PAUSED   |-> {"ELIGIBLE", "CANCELLED"},
     BLOCKED  |-> {"QUEUED", "CANCELLED"},
     COMPLETE |-> {}, CANCELLED |-> {}, ABSENT |-> {}]

(* persistTicketTransition, by the ticket's execution or by a person.       *)
Transition(t) ==
    /\ \E next \in Allowed[status[t]] : status' = [status EXCEPT ![t] = next]
    /\ UNCHANGED <<file, loaded, deps, approved, synced, admission, edits, suggestions>>

Next ==
    \/ \E s \in Syncers : Load(s) \/ Sync(s)
    \/ \E t \in Tickets : Check(t) \/ Reserve(t) \/ Start(t) \/ Suggest(t) \/ Transition(t)
    \/ Edit

Spec == Init /\ [][Next]_vars

-----------------------------------------------------------------------------
(* Properties. *)

(* What is approved is what the last sync's file says, ticket by ticket and *)
(* contract by contract, even when that sync read its file before another   *)
(* sync, or a suggestion, wrote ("Persisted work is never removed by YAML   *)
(* edits", syncApprovedBacklog).                                            *)
SyncedIsApproved ==
    \A f \in synced : approved = DOMAIN f /\ \A t \in approved : deps[t] = f[t]

(* A ticket that was ever let go had all it depends on COMPLETE, and still  *)
(* has, whatever became of the file, the other tickets and its own state    *)
(* since its eligibility was stored (evaluateEligibility: "stale persisted  *)
(* eligibility fails closed").                                              *)
NothingStartsEarly ==
    \A t \in Persisted :
        status[t] \notin {"QUEUED", "BLOCKED", "CANCELLED"} =>
            t \in approved /\ \A d \in deps[t] : status[d] = "COMPLETE"

(* Tickets never wait for each other: while every approved ticket is        *)
(* waiting or COMPLETE, one of those waiting has nothing left to wait for,  *)
(* however many syncs and suggestions the graph was put together by         *)
(* (validateDependencyGraph, for the file and for the stored tickets).      *)
SomebodyCanGo ==
    LET waiting == {t \in approved : status[t] # "COMPLETE"}
    IN  waiting # {} /\ (\A t \in waiting : status[t] \in {"QUEUED", "ELIGIBLE"})
            => \E t \in waiting : Unblocked(t)
=============================================================================
