--------------------------- MODULE BacklogProofs ----------------------------
(***************************************************************************)
(* Theorems about Backlog: for every set of tickets and syncers, whatever  *)
(* the backlog file says and however often it is edited.                   *)
(*                                                                         *)
(* The invariant beside the four properties is GraphKept: a file that is   *)
(* loaded or synced was valid when it was read, the stored graph is valid, *)
(* and nothing is approved that no sync approved.                          *)
(***************************************************************************)
EXTENDS Backlog, FiniteSetTheorems, TLAPS

GraphKept ==
    /\ \A s \in Syncers : \A f \in loaded[s] : Valid(f)
    /\ \A f \in synced : Valid(f)
    /\ synced = {} => approved = {}
    /\ Valid(Graph)

BacklogInv == TypeOK /\ GraphKept /\ SyncedIsApproved /\ NothingStartsEarly

-----------------------------------------------------------------------------
(* What a step does to the rows. *)

(* A ticket's status moves on, as an admission or a transition moves it.    *)
Moves(t) ==
    /\ \E next \in Statuses :
          /\ status' = [status EXCEPT ![t] = next]
          /\ \/ next = status[t]
             \/ status[t] # "ABSENT" /\ next \in {"BLOCKED", "CANCELLED", "QUEUED"}
                   /\ status[t] \notin {"COMPLETE", "CANCELLED"}
             \/ status[t] \notin {"ABSENT", "QUEUED", "BLOCKED", "CANCELLED", "COMPLETE"}
    /\ UNCHANGED <<deps, approved, synced>>

(* An import happens on a valid file that takes nothing back and drifts     *)
(* from nothing stored.                                                     *)
Imports(s, f) ==
    /\ f \in loaded[s] /\ loaded' = [loaded EXCEPT ![s] = {}]
    /\ ~Removed(f) /\ ~Drifted(f) /\ ~Conflicting(f)
    /\ Import(f)

(* A file of the configuration is a graph over tickets.                     *)
LEMMA FileShape ==
    ASSUME NEW f \in Files
    PROVE  /\ DOMAIN f \subseteq Tickets
           /\ f \in [DOMAIN f -> SUBSET Tickets]
  BY FilesAssumption DEF Graphs

(* The stored graph after an import is the union whose validity the import  *)
(* checked, and its tickets are the old ones and the file's.                *)
LEMMA ImportedGraph ==
    ASSUME BacklogInv, NEW s \in Syncers, NEW f, Imports(s, f)
    PROVE  /\ f \in Files /\ Valid(f)
           /\ DOMAIN f \subseteq Tickets
           /\ Persisted' = Persisted \cup DOMAIN f
           /\ \A t \in DOMAIN f : deps'[t] = f[t]
           /\ \A t \in Persisted : deps'[t] = deps[t]
           /\ Valid(Graph')
  <1>1. f \in Files /\ Valid(f)
    BY DEF BacklogInv, TypeOK, GraphKept, Imports
  <1>2. DOMAIN f \subseteq Tickets /\ f \in [DOMAIN f -> SUBSET Tickets]
    BY <1>1, FileShape
  <1>3. Persisted' = Persisted \cup DOMAIN f
    BY <1>2 DEF Persisted, Imports, Import, BacklogInv, TypeOK, Statuses
  <1>4. /\ \A t \in DOMAIN f : deps'[t] = f[t]
        /\ \A t \in Persisted : deps'[t] = deps[t]
    BY <1>2 DEF Imports, Import, Drifted, Persisted
  <1>5. Graph' = [t \in Persisted \cup DOMAIN f |-> IF t \in Persisted THEN deps[t] ELSE f[t]]
    BY <1>3, <1>4 DEF Graph
  <1>6. Valid(Graph')
    BY <1>5 DEF Imports, Conflicting
  <1> QED
    BY <1>1, <1>2, <1>3, <1>4, <1>6

(* A sync imports, or leaves the rows alone.                                *)
LEMMA SyncEffect ==
    ASSUME NEW s \in Syncers, Sync(s)
    PROVE  \/ \E f \in loaded[s] : Imports(s, f)
           \/ UNCHANGED <<status, deps, approved, synced>>
  BY DEF Sync, Imports, Refuse, RolledBack

(* Starts and transitions move one status; what is stored of it allows.     *)
LEMMA MoveEffect ==
    ASSUME TypeOK, NEW t \in Tickets, Start(t) \/ Transition(t)
    PROVE  Moves(t) \/ UNCHANGED <<status, deps, approved, synced>>
  <1>1. CASE Start(t)
    <2>1. status \in [Tickets -> Statuses \cup {"ABSENT"}]
      BY DEF TypeOK
    <2>2. CASE status[t] = "ELIGIBLE"
      BY <1>1, <2>2 DEF Start, Moves, Statuses
    <2>3. CASE status[t] # "ELIGIBLE"
      BY <1>1, <2>1, <2>3 DEF Start
    <2> QED
      BY <2>2, <2>3
  <1>2. CASE Transition(t)
    <2>1. PICK next \in Allowed[status[t]] : status' = [status EXCEPT ![t] = next]
      BY <1>2 DEF Transition
    <2>2. status[t] \in Statuses \cup {"ABSENT"}
      BY DEF TypeOK
    <2>3. /\ next \in Statuses
          /\ status[t] \notin {"ABSENT", "COMPLETE", "CANCELLED"}
          /\ next \in {"BLOCKED", "CANCELLED", "QUEUED"}
                \/ status[t] \notin {"QUEUED", "BLOCKED"}
      BY <2>2 DEF Allowed, Statuses
    <2> QED
      BY <1>2, <2>1, <2>3 DEF Moves, Transition
  <1> QED
    BY <1>1, <1>2

(* What persists keeps persisting when a status moves.                      *)
LEMMA MovedPersist ==
    ASSUME TypeOK, NEW t \in Tickets, Moves(t)
    PROVE  Persisted' = Persisted /\ Graph' = Graph
  <1>1. status \in [Tickets -> Statuses \cup {"ABSENT"}]
    BY DEF TypeOK
  <1>2. PICK next \in Statuses : /\ status' = [status EXCEPT ![t] = next]
                                 /\ next = status[t] \/ status[t] # "ABSENT"
    BY DEF Moves
  <1>3. \A u \in Tickets : (status'[u] = "ABSENT") <=> (status[u] = "ABSENT")
    BY <1>1, <1>2 DEF Statuses
  <1>4. Persisted' = Persisted
    BY <1>3 DEF Persisted
  <1> QED
    BY <1>4 DEF Moves, Graph

(* A suggestion adds one ticket in a valid graph.                           *)
LEMMA SuggestedGraph ==
    ASSUME TypeOK, NEW t \in Tickets, Suggest(t)
    PROVE  /\ Persisted' = Persisted \cup {t} /\ t \notin Persisted
           /\ deps' \in [Tickets -> SUBSET Persisted']
           /\ \A u \in Persisted : deps'[u] = deps[u]
           /\ Valid(Graph')
  <1>1. /\ status \in [Tickets -> Statuses \cup {"ABSENT"}]
        /\ deps \in [Tickets -> SUBSET Persisted]
    BY DEF TypeOK
  <1>2. PICK d \in SUBSET Persisted :
            /\ Valid([u \in Persisted \cup {t} |-> IF u = t THEN d ELSE deps[u]])
            /\ deps' = [deps EXCEPT ![t] = d]
    BY DEF Suggest
  <1>3. Persisted' = Persisted \cup {t} /\ t \notin Persisted
    BY <1>1 DEF Suggest, Persisted
  <1>4. deps' \in [Tickets -> SUBSET Persisted']
    BY <1>1, <1>2, <1>3
  <1>5. Graph' = [u \in Persisted \cup {t} |-> IF u = t THEN d ELSE deps[u]]
    <2>1. \A u \in Persisted \cup {t} : deps'[u] = IF u = t THEN d ELSE deps[u]
      BY <1>1, <1>2 DEF Persisted
    <2> QED
      BY <1>3, <2>1 DEF Graph
  <1> QED
    BY <1>1, <1>2, <1>3, <1>4, <1>5 DEF Persisted

-----------------------------------------------------------------------------
(* Type correctness. *)

LEMMA InitTyped == Init => TypeOK
  <1> SUFFICES ASSUME Init PROVE TypeOK
    OBVIOUS
  <1>1. Cardinality({}) = 0
    BY FS_EmptySet
  <1> QED
    BY <1>1, BoundsAssumption DEF Init, TypeOK, Persisted

LEMMA NextTyped ==
    ASSUME BacklogInv, [Next]_vars
    PROVE  TypeOK'
  <1>1. CASE UNCHANGED vars
    BY <1>1 DEF vars, BacklogInv, TypeOK, Persisted
  <1>2. ASSUME NEW s \in Syncers, Load(s) PROVE TypeOK'
    <2>1. Cardinality({file}) = 1
      BY FS_Singleton
    <2> QED
      BY <1>2, <2>1 DEF Load, BacklogInv, TypeOK, Persisted
  <1>3. ASSUME NEW s \in Syncers, Sync(s) PROVE TypeOK'
    <2>1. Cardinality({}) = 0
      BY FS_EmptySet
    <2>2. /\ file' \in Files /\ admission' \in [Tickets -> {"none", "checked", "reserved"}]
          /\ loaded' \in [Syncers -> SUBSET Files]
          /\ \A c \in Syncers : Cardinality(loaded'[c]) <= 1
          /\ edits' \in 0..MaxEdits /\ suggestions' \in 0..MaxSuggestions
      <3>1. loaded \in [Syncers -> SUBSET Files] /\ loaded' = [loaded EXCEPT ![s] = {}]
        BY <1>3 DEF Sync, BacklogInv, TypeOK
      <3>2. \A c \in Syncers : loaded'[c] = loaded[c] \/ loaded'[c] = {}
        BY <3>1
      <3> QED
        BY <1>3, <2>1, <3>2 DEF Sync, BacklogInv, TypeOK
    <2>3. CASE UNCHANGED <<status, deps, approved, synced>>
      BY <2>2, <2>3 DEF BacklogInv, TypeOK, Persisted
    <2>4. ASSUME NEW f \in loaded[s], Imports(s, f) PROVE TypeOK'
      <3>1. /\ f \in Files /\ Valid(f) /\ DOMAIN f \subseteq Tickets
            /\ Persisted' = Persisted \cup DOMAIN f
        BY <2>4, ImportedGraph
      <3>2. status' \in [Tickets -> Statuses \cup {"ABSENT"}]
        BY <2>4 DEF Imports, Import, BacklogInv, TypeOK, Statuses
      <3>3. \A t \in DOMAIN f : f[t] \subseteq DOMAIN f
        BY <3>1 DEF Valid, Closed
      <3>4. deps' \in [Tickets -> SUBSET Persisted']
        <4>1. deps' = [t \in Tickets |-> IF t \in DOMAIN f \ Persisted THEN f[t] ELSE deps[t]]
          BY <2>4 DEF Imports, Import
        <4>2. \A t \in Tickets : deps[t] \subseteq Persisted
          BY DEF BacklogInv, TypeOK
        <4> QED
          BY <3>1, <3>3, <4>1, <4>2
      <3>5. /\ approved' \subseteq Persisted'
            /\ synced' \subseteq Files /\ Cardinality(synced') <= 1
        <4>1. Cardinality({f}) = 1
          BY FS_Singleton
        <4>2. approved' = DOMAIN f \cup approved /\ synced' = {f}
          BY <2>4 DEF Imports, Import
        <4>3. approved \subseteq Persisted
          BY DEF BacklogInv, TypeOK
        <4> QED
          BY <3>1, <4>1, <4>2, <4>3
      <3> QED
        BY <2>2, <3>2, <3>4, <3>5 DEF TypeOK
    <2> QED
      BY <1>3, <2>3, <2>4, SyncEffect
  <1>4. ASSUME NEW t \in Tickets, Check(t) \/ Reserve(t) PROVE TypeOK'
    BY <1>4 DEF Check, Reserve, BacklogInv, TypeOK, Persisted
  <1>5. ASSUME NEW t \in Tickets, Start(t) \/ Transition(t) PROVE TypeOK'
    <2>1. /\ file' \in Files /\ admission' \in [Tickets -> {"none", "checked", "reserved"}]
          /\ loaded' \in [Syncers -> SUBSET Files]
          /\ \A c \in Syncers : Cardinality(loaded'[c]) <= 1
          /\ edits' \in 0..MaxEdits /\ suggestions' \in 0..MaxSuggestions
      BY <1>5 DEF Start, Transition, BacklogInv, TypeOK
    <2>2. CASE UNCHANGED <<status, deps, approved, synced>>
      BY <2>1, <2>2 DEF BacklogInv, TypeOK, Persisted
    <2>3. CASE Moves(t)
      <3>1. Persisted' = Persisted
        BY <2>3, MovedPersist DEF BacklogInv
      <3>2. status' \in [Tickets -> Statuses \cup {"ABSENT"}]
        BY <2>3 DEF Moves, BacklogInv, TypeOK
      <3> QED
        BY <2>1, <2>3, <3>1, <3>2 DEF Moves, BacklogInv, TypeOK
    <2> QED
      BY <1>5, <2>2, <2>3, MoveEffect DEF BacklogInv
  <1>6. ASSUME NEW t \in Tickets, Suggest(t) PROVE TypeOK'
    <2>1. /\ Persisted' = Persisted \cup {t}
          /\ deps' \in [Tickets -> SUBSET Persisted']
      BY <1>6, SuggestedGraph DEF BacklogInv
    <2>2. status' \in [Tickets -> Statuses \cup {"ABSENT"}]
      BY <1>6 DEF Suggest, BacklogInv, TypeOK, Statuses
    <2>3. suggestions' \in 0..MaxSuggestions
      BY <1>6, BoundsAssumption DEF Suggest, BacklogInv, TypeOK
    <2> QED
      BY <1>6, <2>1, <2>2, <2>3 DEF Suggest, BacklogInv, TypeOK
  <1>7. CASE Edit
    <2>1. edits' \in 0..MaxEdits
      BY <1>7, BoundsAssumption DEF Edit, BacklogInv, TypeOK
    <2> QED
      BY <1>7, <2>1 DEF Edit, BacklogInv, TypeOK, Persisted
  <1> QED
    BY <1>1, <1>2, <1>3, <1>4, <1>5, <1>6, <1>7 DEF Next

-----------------------------------------------------------------------------
(* The rest of the invariant, by what a step does to the rows: nothing, a   *)
(* move, a suggestion or an import.                                         *)

(* A step that leaves the rows alone keeps loaded files valid: Load reads   *)
(* none that is not.                                                        *)
LEMMA LoadedValid ==
    ASSUME BacklogInv, [Next]_vars
    PROVE  \A s \in Syncers : \A f \in loaded'[s] : Valid(f)
  <1>1. \A s \in Syncers : \A f \in loaded[s] : Valid(f)
    BY DEF BacklogInv, GraphKept
  <1>2. \/ loaded' = loaded
        \/ \E s \in Syncers : loaded' = [loaded EXCEPT ![s] = {}]
        \/ Valid(file) /\ \E s \in Syncers : loaded' = [loaded EXCEPT ![s] = {file}]
    BY DEF Next, vars, Load, Sync, Check, Reserve, Start, Suggest, Transition, Edit
  <1>3. loaded \in [Syncers -> SUBSET Files]
    BY DEF BacklogInv, TypeOK
  <1>4. CASE loaded' = loaded
    BY <1>1, <1>4
  <1>5. ASSUME NEW s \in Syncers, loaded' = [loaded EXCEPT ![s] = {}]
        PROVE  \A c \in Syncers : \A f \in loaded'[c] : Valid(f)
    BY <1>1, <1>3, <1>5
  <1>6. ASSUME NEW s \in Syncers, Valid(file), loaded' = [loaded EXCEPT ![s] = {file}]
        PROVE  \A c \in Syncers : \A f \in loaded'[c] : Valid(f)
    BY <1>1, <1>3, <1>6
  <1> QED
    BY <1>2, <1>4, <1>5, <1>6

(* The four effects.                                                        *)
LEMMA StepEffect ==
    ASSUME BacklogInv, [Next]_vars
    PROVE  \/ UNCHANGED <<status, deps, approved, synced>>
           \/ \E t \in Tickets : Moves(t)
           \/ \E t \in Tickets : Suggest(t)
           \/ \E s \in Syncers : \E f \in loaded[s] : Imports(s, f)
  <1>1. CASE UNCHANGED vars \/ Edit \/ \E s \in Syncers : Load(s)
    BY <1>1 DEF vars, Edit, Load
  <1>2. CASE \E t \in Tickets : Check(t) \/ Reserve(t)
    BY <1>2 DEF Check, Reserve
  <1>3. CASE \E t \in Tickets : Start(t) \/ Transition(t)
    BY <1>3, MoveEffect DEF BacklogInv
  <1>4. CASE \E t \in Tickets : Suggest(t)
    BY <1>4
  <1>5. CASE \E s \in Syncers : Sync(s)
    BY <1>5, SyncEffect
  <1> QED
    BY <1>1, <1>2, <1>3, <1>4, <1>5 DEF Next

LEMMA GraphStays ==
    ASSUME BacklogInv, [Next]_vars
    PROVE  GraphKept'
  <1>0. \A s \in Syncers : \A f \in loaded'[s] : Valid(f)
    BY LoadedValid
  <1>1. /\ \A f \in synced : Valid(f)
        /\ synced = {} => approved = {}
        /\ Valid(Graph)
    BY DEF BacklogInv, GraphKept
  <1>2. CASE UNCHANGED <<status, deps, approved, synced>>
    <2>1. Graph' = Graph
      BY <1>2 DEF Graph, Persisted
    <2> QED
      BY <1>0, <1>1, <1>2, <2>1 DEF GraphKept
  <1>3. CASE \E t \in Tickets : Moves(t)
    <2>1. Graph' = Graph
      BY <1>3, MovedPersist DEF BacklogInv
    <2>2. UNCHANGED <<approved, synced>>
      BY <1>3 DEF Moves
    <2> QED
      BY <1>0, <1>1, <2>1, <2>2 DEF GraphKept
  <1>4. CASE \E t \in Tickets : Suggest(t)
    <2>1. Valid(Graph')
      BY <1>4, SuggestedGraph DEF BacklogInv
    <2>2. UNCHANGED <<approved, synced>>
      BY <1>4 DEF Suggest
    <2> QED
      BY <1>0, <1>1, <2>1, <2>2 DEF GraphKept
  <1>5. ASSUME NEW s \in Syncers, NEW f \in loaded[s], Imports(s, f) PROVE GraphKept'
    <2>1. Valid(f) /\ Valid(Graph')
      BY <1>5, ImportedGraph
    <2>2. synced' = {f}
      BY <1>5 DEF Imports, Import
    <2> QED
      BY <1>0, <2>1, <2>2 DEF GraphKept
  <1> QED
    BY <1>2, <1>3, <1>4, <1>5, StepEffect

LEMMA SyncedStays ==
    ASSUME BacklogInv, [Next]_vars
    PROVE  SyncedIsApproved'
  <1>1. /\ approved \subseteq Persisted
        /\ \A f \in synced : approved = DOMAIN f /\ \A t \in approved : deps[t] = f[t]
    BY DEF BacklogInv, TypeOK, SyncedIsApproved
  <1>2. CASE UNCHANGED <<status, deps, approved, synced>>
    BY <1>1, <1>2 DEF SyncedIsApproved
  <1>3. CASE \E t \in Tickets : Moves(t)
    BY <1>1, <1>3 DEF SyncedIsApproved, Moves
  <1>4. CASE \E t \in Tickets : Suggest(t)
    <2>1. \A u \in Persisted : deps'[u] = deps[u]
      BY <1>4, SuggestedGraph DEF BacklogInv
    <2>2. UNCHANGED <<approved, synced>>
      BY <1>4 DEF Suggest
    <2> QED
      BY <1>1, <2>1, <2>2 DEF SyncedIsApproved
  <1>5. ASSUME NEW s \in Syncers, NEW f \in loaded[s], Imports(s, f) PROVE SyncedIsApproved'
    <2>1. \A t \in DOMAIN f : deps'[t] = f[t]
      BY <1>5, ImportedGraph
    <2>2. synced' = {f} /\ approved' = DOMAIN f \cup approved /\ approved \subseteq DOMAIN f
      BY <1>5 DEF Imports, Import, Removed
    <2> QED
      BY <2>1, <2>2 DEF SyncedIsApproved
  <1> QED
    BY <1>2, <1>3, <1>4, <1>5, StepEffect

(* A COMPLETE ticket stays COMPLETE; a ticket that is let go by an import   *)
(* has its dependencies COMPLETE and is approved by it.                     *)
LEMMA NothingEarlyStays ==
    ASSUME BacklogInv, [Next]_vars
    PROVE  NothingStartsEarly'
  <1>1. /\ status \in [Tickets -> Statuses \cup {"ABSENT"}]
        /\ deps \in [Tickets -> SUBSET Persisted]
        /\ \A t \in Persisted :
              status[t] \notin {"QUEUED", "BLOCKED", "CANCELLED"} =>
                  t \in approved /\ \A d \in deps[t] : status[d] = "COMPLETE"
    BY DEF BacklogInv, TypeOK, NothingStartsEarly
  <1>2. CASE UNCHANGED <<status, deps, approved, synced>>
    BY <1>1, <1>2 DEF NothingStartsEarly, Persisted
  <1>3. ASSUME NEW t \in Tickets, Moves(t) PROVE NothingStartsEarly'
    <2>1. Persisted' = Persisted /\ UNCHANGED <<deps, approved>>
      BY <1>3, MovedPersist DEF BacklogInv, Moves
    <2>2. PICK next \in Statuses :
            /\ status' = [status EXCEPT ![t] = next]
            /\ \/ next = status[t]
               \/ status[t] # "ABSENT" /\ next \in {"BLOCKED", "CANCELLED", "QUEUED"}
                     /\ status[t] \notin {"COMPLETE", "CANCELLED"}
               \/ status[t] \notin {"ABSENT", "QUEUED", "BLOCKED", "CANCELLED", "COMPLETE"}
      BY <1>3 DEF Moves
    <2>3. \A u \in Tickets : status[u] = "COMPLETE" => status'[u] = "COMPLETE"
      BY <1>1, <2>2
    <2>4. \A u \in Persisted : status'[u] \notin {"QUEUED", "BLOCKED", "CANCELLED"} =>
                                 status[u] \notin {"QUEUED", "BLOCKED", "CANCELLED"}
      BY <1>1, <2>2 DEF Persisted
    <2>5. \A u \in Persisted : deps[u] \subseteq Tickets
      BY <1>1 DEF Persisted
    <2> QED
      BY <1>1, <2>1, <2>3, <2>4, <2>5 DEF NothingStartsEarly
  <1>4. ASSUME NEW t \in Tickets, Suggest(t) PROVE NothingStartsEarly'
    <2>1. /\ Persisted' = Persisted \cup {t} /\ t \notin Persisted
          /\ \A u \in Persisted : deps'[u] = deps[u]
      BY <1>4, SuggestedGraph DEF BacklogInv
    <2>2. status' = [status EXCEPT ![t] = "QUEUED"] /\ approved' = approved
      BY <1>4 DEF Suggest
    <2>3. \A u \in Persisted : status'[u] = status[u]
      BY <1>1, <2>1, <2>2 DEF Persisted
    <2>4. status'[t] = "QUEUED"
      BY <1>1, <2>2
    <2>5. \A u \in Persisted : deps[u] \subseteq Persisted
      BY <1>1 DEF Persisted
    <2> QED
      BY <1>1, <2>1, <2>2, <2>3, <2>4, <2>5 DEF NothingStartsEarly
  <1>5. ASSUME NEW s \in Syncers, NEW f \in loaded[s], Imports(s, f) PROVE NothingStartsEarly'
    <2>1. /\ DOMAIN f \subseteq Tickets
          /\ Persisted' = Persisted \cup DOMAIN f
          /\ \A t \in DOMAIN f : deps'[t] = f[t]
          /\ \A t \in Persisted : deps'[t] = deps[t]
          /\ f \in Files
      BY <1>5, ImportedGraph
    <2>2. approved' = DOMAIN f \cup approved
      BY <1>5 DEF Imports, Import
    <2> DEFINE created  == DOMAIN f \ Persisted
               ready(t) == /\ t \in created \/ status[t] = "QUEUED"
                           /\ \A d \in f[t] : d \notin created /\ status[d] = "COMPLETE"
    <2>3. \A t \in Tickets :
             status'[t] = IF t \notin DOMAIN f THEN status[t]
                          ELSE IF ready(t) THEN "ELIGIBLE"
                          ELSE IF t \in created THEN "QUEUED" ELSE status[t]
      BY <1>5 DEF Imports, Import, Clear
    <2>4. \A d \in Persisted : status[d] = "COMPLETE" => status'[d] = "COMPLETE"
      BY <2>3 DEF Persisted
    <2>5. ASSUME NEW t \in Persisted', status'[t] \notin {"QUEUED", "BLOCKED", "CANCELLED"}
          PROVE  t \in approved' /\ \A d \in deps'[t] : status'[d] = "COMPLETE"
      <3>1. CASE t \in DOMAIN f /\ ready(t)
        <4>1. f[t] \subseteq Tickets
          BY <2>1, <3>1, FileShape
        <4>2. \A d \in f[t] : status[d] = "COMPLETE"
          BY <3>1
        <4>3. \A d \in f[t] : d \in Persisted
          BY <4>1, <4>2 DEF Persisted
        <4> QED
          BY <2>1, <2>2, <2>4, <3>1, <4>2, <4>3
      <3>2. CASE ~(t \in DOMAIN f /\ ready(t))
        <4>1. t \in Persisted /\ status'[t] = status[t]
          BY <2>1, <2>3, <2>5, <3>2 DEF Persisted
        <4>2. t \in approved /\ \A d \in deps[t] : status[d] = "COMPLETE"
          BY <1>1, <2>5, <4>1
        <4>3. deps[t] \subseteq Persisted
          BY <1>1, <4>1 DEF Persisted
        <4> QED
          BY <2>1, <2>2, <2>4, <4>1, <4>2, <4>3
      <3> QED
        BY <3>1, <3>2
    <2> QED
      BY <2>5 DEF NothingStartsEarly
  <1> QED
    BY <1>2, <1>3, <1>4, <1>5, StepEffect

-----------------------------------------------------------------------------
(* The theorems. *)

LEMMA InitInv == Init => BacklogInv
  <1> SUFFICES ASSUME Init PROVE BacklogInv
    OBVIOUS
  <1>1. TypeOK
    BY InitTyped
  <1>2. Persisted = {}
    BY DEF Init, Persisted
  <1>3. Valid(Graph)
    BY <1>2 DEF Valid, Closed, Acyclic, Graph
  <1> QED
    BY <1>1, <1>2, <1>3 DEF Init, BacklogInv, GraphKept, SyncedIsApproved, NothingStartsEarly

LEMMA Invariance == Spec => []BacklogInv
  <1>1. BacklogInv /\ [Next]_vars => BacklogInv'
    BY NextTyped, GraphStays, SyncedStays, NothingEarlyStays DEF BacklogInv
  <1> QED
    BY <1>1, InitInv, PTL DEF Spec

(* What is approved depends on what is approved only, and nothing that is   *)
(* left of it goes round in a circle.                                       *)
LEMMA InvSomebody == BacklogInv => SomebodyCanGo
  <1> SUFFICES ASSUME BacklogInv PROVE SomebodyCanGo
    OBVIOUS
  <1> DEFINE waiting == {t \in approved : status[t] # "COMPLETE"}
  <1>1. approved \subseteq Persisted
    BY DEF BacklogInv, TypeOK
  <1>2. \A t \in approved : deps[t] \subseteq approved
    <2>1. CASE synced = {}
      BY <2>1 DEF BacklogInv, GraphKept
    <2>2. ASSUME NEW f \in synced PROVE \A t \in approved : deps[t] \subseteq approved
      BY <2>2 DEF BacklogInv, SyncedIsApproved, GraphKept, Valid, Closed
    <2> QED
      BY <2>1, <2>2
  <1>3. ASSUME waiting # {} PROVE \E t \in waiting : Unblocked(t)
    <2>1. waiting \in SUBSET DOMAIN Graph
      BY <1>1 DEF Graph
    <2>2. PICK t \in waiting : Graph[t] \cap waiting = {}
      BY <1>3, <2>1 DEF BacklogInv, GraphKept, Valid, Acyclic
    <2>3. Graph[t] = deps[t]
      BY <1>1 DEF Graph
    <2>4. \A d \in deps[t] : d \in approved /\ status[d] = "COMPLETE"
      BY <1>2, <2>2, <2>3
    <2> QED
      BY <2>4 DEF Unblocked, Clear
  <1> QED
    BY <1>3 DEF SomebodyCanGo

(* Every reachable state has its type (the tables the sync, the admission   *)
(* and the transitions write).                                              *)
THEOREM TypeCorrect == Spec => []TypeOK
  <1>1. BacklogInv => TypeOK
    BY DEF BacklogInv
  <1> QED
    BY <1>1, Invariance, PTL

(* The approved tickets and their contracts are those of the file synced    *)
(* last, although syncs overlap and the file is edited (syncApprovedBacklog)*)
THEOREM ApprovedAsSynced == Spec => []SyncedIsApproved
  <1>1. BacklogInv => SyncedIsApproved
    BY DEF BacklogInv
  <1> QED
    BY <1>1, Invariance, PTL

(* No ticket goes before all it depends on is COMPLETE, at any later state  *)
(* either (evaluateEligibility and the admission to a workspace).           *)
THEOREM StartsInOrder == Spec => []NothingStartsEarly
  <1>1. BacklogInv => NothingStartsEarly
    BY DEF BacklogInv
  <1> QED
    BY <1>1, Invariance, PTL

(* Approved tickets never all wait for each other: the stored graph has no  *)
(* cycle, however it was put together (validateDependencyGraph).            *)
THEOREM NoWaitingCycle == Spec => []SomebodyCanGo
  <1> QED
    BY InvSomebody, Invariance, PTL
=============================================================================
