------------------------- MODULE EventCatalogProofs -------------------------
(***************************************************************************)
(* The life cycle and the versions of the cached list, for any number of   *)
(* editors and readers and any number of updates.                          *)
(***************************************************************************)
EXTENDS EventCatalog, FiniteSetTheorems, TLAPS

Fields ==
    /\ status \in EventStatus
    /\ revision \in 1..MaxRevision
    /\ versionKey \in Nat
    /\ cached \in [Versions -> Lists \cup {None}]
    /\ editor \in [Editors -> [at: {"idle", "update", "invalidate", "cancel", "scan", "delete"},
                               seen: EventStatus \cup {None},
                               found: SUBSET Versions,
                               foundVersion: BOOLEAN]]
    /\ reader \in [Readers -> [at: {"idle", "get", "query", "key", "set"},
                               version: Versions \cup {None},
                               list: Lists \cup {None}]]

\* A reader that is to use a key or a list has one.
Stages ==
    \A d \in Readers :
        /\ reader[d].at \in {"get", "set"} => reader[d].version \in Versions
        /\ reader[d].at \in {"key", "set"} => reader[d].list \in Lists

\* The invalidations that are still to come.
Invalidating == {e \in Editors : editor[e].at = "invalidate"}

\* The changes of status so far that invalidate, at most.
Credit == CASE status \in {"CLOSED", "CANCELLED"} -> 2
            [] status = "PUBLISHED" -> 1
            [] OTHER -> 0

\* Each invalidation, done or still to come, has its own update or change of
\* status behind it.
Counted ==
    /\ IsFiniteSet(Invalidating)
    /\ versionKey + Cardinality(Invalidating) <= (revision - 1) + Credit

\* Until the event is cancelled the version key only grows, so that nothing
\* belongs to a version it has not reached.
Ahead ==
    status # "CANCELLED" =>
        /\ \A v \in Versions : v > versionKey => cached[v] = None
        /\ \A d \in Readers : reader[d].version # None => reader[d].version <= versionKey
        /\ \A e \in Editors : editor[e].at \notin {"scan", "delete"}

CatalogInv == Fields /\ Stages /\ Counted /\ Ahead

\* What is counted is a number, and small enough for the versions of the model.
LEMMA VersionBound ==
    ASSUME Fields, Counted
    PROVE  /\ Cardinality(Invalidating) \in Nat
           /\ versionKey \in Versions
           /\ Invalidating # {} => versionKey + 1 \in Versions
<1>1. Cardinality(Invalidating) \in Nat
    BY FS_CardinalityType DEF Counted
<1>2. Invalidating # {} => Cardinality(Invalidating) # 0
    BY FS_EmptySet DEF Counted
<1> QED
    BY <1>1, <1>2, MaxRevisionAssumption DEF Counted, Credit, Versions, Fields

\* Nothing can be cached under the empty version or the empty list by mistake:
\* None is neither.
LEMMA NoneIsNothing == None \notin Nat /\ None \notin EventStatus
BY NoneAssumption

\* The version key after a step, and the status.
LEMMA NextKeys ==
    ASSUME Fields, Counted, [Next]_vars
    PROVE  /\ versionKey' \in Nat
           /\ status' \in EventStatus
           /\ revision' \in 1..MaxRevision
<1> USE MaxRevisionAssumption DEF Fields
<1>1. ASSUME NEW e \in Editors, LifecycleStep(e) \/ CancelStep(e)
      PROVE  versionKey' \in Nat /\ status' \in EventStatus /\ revision' \in 1..MaxRevision
    <2>2. CASE SubmitForApproval(e) \/ Reject(e) \/ Approve(e) \/ Close(e)
        BY <2>2 DEF SubmitForApproval, Reject, Approve, Close, Transition, EventStatus, cache
    <2>3. CASE WriteUpdate(e)
        BY <2>3 DEF WriteUpdate, cache
    <2>4. CASE Invalidate(e)
        BY <2>4 DEF Invalidate, event
    <2>5. CASE WriteCancelled(e)
        BY <2>5 DEF WriteCancelled, cache, EventStatus
    <2>6. CASE DeleteKeys(e)
        BY <2>6 DEF DeleteKeys, event
    <2>7. CASE UNCHANGED <<event, cache>>
        BY <2>7 DEF event, cache
    <2> QED
        BY <1>1, <2>2, <2>3, <2>4, <2>5, <2>6, <2>7
        DEF LifecycleStep, BeginUpdate, EditorFails, CancelStep, BeginCancel, ScanKeys, event, cache
<1>2. ASSUME NEW d \in Readers, ReaderStep(d)
      PROVE  UNCHANGED <<status, revision, versionKey>>
    BY <1>2 DEF ReaderStep, BuildKeyToGet, Hit, Miss, FindPublished, BuildKeyToSet, SetEntry,
       ReaderFails, event, cache
<1> QED
    BY <1>1, <1>2 DEF Next, EntryExpires, vars, event, cache

\* What a step does to the editors: one of them moves.
LEMMA EditorsStep ==
    ASSUME Fields, NEW e \in Editors, LifecycleStep(e) \/ CancelStep(e)
    PROVE  /\ editor' \in [Editors -> [at: {"idle", "update", "invalidate", "cancel", "scan", "delete"},
                                       seen: EventStatus \cup {None},
                                       found: SUBSET Versions,
                                       foundVersion: BOOLEAN]]
           /\ \A f \in Editors : f # e => editor'[f] = editor[f]
<1> DEFINE Records == [at: {"idle", "update", "invalidate", "cancel", "scan", "delete"},
                       seen: EventStatus \cup {None},
                       found: SUBSET Versions,
                       foundVersion: BOOLEAN]
<1>1. editor \in [Editors -> Records]
    BY DEF Fields
<1>2. editor[e] \in Records
    BY <1>1
<1>3. IdleEditor \in Records
    BY DEF IdleEditor
<1>4. CASE UNCHANGED editor
    BY <1>1, <1>4
<1>5. CASE EditorResponds(e)
    BY <1>1, <1>3, <1>5 DEF EditorResponds
<1>6. CASE \E w \in {"invalidate", "cancel", "scan"} : EditorAwaits(e, w)
    <2>1. PICK w \in {"invalidate", "cancel", "scan"} : editor' = [editor EXCEPT ![e].at = w]
        BY <1>6 DEF EditorAwaits
    <2>2. editor'[e] \in Records
        BY <1>1, <1>2, <2>1
    <2> QED
        BY <1>1, <2>1, <2>2
<1>7. CASE BeginUpdate(e)
    <2>1. editor' = [editor EXCEPT ![e].at = "update", ![e].seen = status]
        BY <1>7 DEF BeginUpdate
    <2>2. editor'[e] \in Records
        BY <1>1, <1>2, <2>1 DEF Fields
    <2>3. \A f \in Editors : f # e => editor'[f] = editor[f]
        BY <1>1, <2>1
    <2> QED
        BY <1>1, <2>1, <2>2, <2>3
<1>8. CASE ScanKeys(e)
    <2>1. PICK fo \in SUBSET Versions, fv \in BOOLEAN :
              editor' = [editor EXCEPT ![e].at = "delete", ![e].found = fo, ![e].foundVersion = fv]
        <3>1. {v \in Versions : cached[v] # None} \in SUBSET Versions
              /\ (versionKey > 0) \in BOOLEAN
            OBVIOUS
        <3> QED
            BY <1>8, <3>1, Zenon DEF ScanKeys
    <2>3. editor'[e] \in Records
        BY <1>1, <1>2, <2>1
    <2>4. \A f \in Editors : f # e => editor'[f] = editor[f]
        BY <1>1, <2>1
    <2> QED
        BY <1>1, <2>1, <2>3, <2>4
<1> QED
    BY <1>4, <1>5, <1>6, <1>7, <1>8
    DEF LifecycleStep, SubmitForApproval, Reject, Approve, Close, WriteUpdate, Invalidate,
        EditorFails, CancelStep, BeginCancel, WriteCancelled, DeleteKeys

\* What a step does to the readers.
LEMMA ReadersStep ==
    ASSUME Fields, Counted, Stages, NEW d \in Readers, ReaderStep(d)
    PROVE  /\ reader' \in [Readers -> [at: {"idle", "get", "query", "key", "set"},
                                       version: Versions \cup {None},
                                       list: Lists \cup {None}]]
           /\ \A f \in Readers : f # d => reader'[f] = reader[f]
           /\ reader'[d].at \in {"get", "set"} => reader'[d].version \in Versions
           /\ reader'[d].at \in {"key", "set"} => reader'[d].list \in Lists
           /\ reader'[d].version \in {None, versionKey, reader[d].version}
<1> DEFINE Records == [at: {"idle", "get", "query", "key", "set"},
                       version: Versions \cup {None},
                       list: Lists \cup {None}]
<1>1. reader \in [Readers -> Records] /\ reader[d] \in Records
    BY DEF Fields
<1>2. versionKey \in Versions
    BY VersionBound
<1>3. PublishedEvents \in Lists
    BY DEF PublishedEvents, Lists, Fields
<1>4. /\ reader[d].at \in {"get", "set"} => reader[d].version \in Versions
      /\ reader[d].at \in {"key", "set"} => reader[d].list \in Lists
    BY DEF Stages
<1>5. CASE reader' = [reader EXCEPT ![d] = IdleReader]
    <2>1. IdleReader \in Records /\ IdleReader.at = "idle" /\ IdleReader.version = None
        BY DEF IdleReader
    <2> QED
        BY <1>1, <1>5, <2>1
<1>6. CASE BuildKeyToGet(d)
    <2>1. reader' = [reader EXCEPT ![d] = [IdleReader EXCEPT !.at = "get", !.version = versionKey]]
        BY <1>6 DEF BuildKeyToGet
    <2>2. /\ [IdleReader EXCEPT !.at = "get", !.version = versionKey] \in Records
          /\ [IdleReader EXCEPT !.at = "get", !.version = versionKey].at = "get"
          /\ [IdleReader EXCEPT !.at = "get", !.version = versionKey].version = versionKey
        BY <1>2 DEF IdleReader
    <2> QED
        BY <1>1, <1>2, <2>1, <2>2
<1>7. CASE Miss(d)
    <2>1. reader' = [reader EXCEPT ![d] = [IdleReader EXCEPT !.at = "query"]]
        BY <1>7 DEF Miss
    <2>2. /\ [IdleReader EXCEPT !.at = "query"] \in Records
          /\ [IdleReader EXCEPT !.at = "query"].at = "query"
          /\ [IdleReader EXCEPT !.at = "query"].version = None
        BY DEF IdleReader
    <2> QED
        BY <1>1, <2>1, <2>2
<1>8. CASE FindPublished(d)
    <2>1. reader' = [reader EXCEPT ![d].at = "key", ![d].list = PublishedEvents]
        BY <1>8 DEF FindPublished
    <2>2. /\ reader'[d] \in Records
          /\ reader'[d].at = "key"
          /\ reader'[d].list \in Lists
          /\ reader'[d].version = reader[d].version
        BY <1>1, <1>3, <2>1
    <2>3. \A f \in Readers : f # d => reader'[f] = reader[f]
        BY <1>1, <2>1
    <2> QED
        BY <1>1, <2>1, <2>2, <2>3
<1>9. CASE BuildKeyToSet(d)
    <2>1. /\ reader' = [reader EXCEPT ![d].at = "set", ![d].version = versionKey]
          /\ reader[d].at = "key"
        BY <1>9 DEF BuildKeyToSet
    <2>2. /\ reader'[d] \in Records
          /\ reader'[d].at = "set"
          /\ reader'[d].list \in Lists
          /\ reader'[d].version = versionKey
        BY <1>1, <1>2, <1>4, <2>1
    <2>3. \A f \in Readers : f # d => reader'[f] = reader[f]
        BY <1>1, <2>1
    <2> QED
        BY <1>1, <1>2, <2>1, <2>2, <2>3
<1> QED
    BY <1>5, <1>6, <1>7, <1>8, <1>9 DEF ReaderStep, Hit, SetEntry, ReaderFails

\* Types and stages are preserved by every step.
LEMMA FieldsStep ==
    ASSUME Fields, Stages, Counted, [Next]_vars
    PROVE  Fields' /\ Stages'
<1>1. ASSUME NEW e \in Editors, LifecycleStep(e) \/ CancelStep(e)
      PROVE  Fields' /\ Stages'
    <2>1. UNCHANGED reader
        BY <1>1 DEF LifecycleStep, SubmitForApproval, Reject, Approve, Close, BeginUpdate,
           WriteUpdate, Invalidate, EditorFails, CancelStep, BeginCancel, WriteCancelled,
           ScanKeys, DeleteKeys
    <2>2. cached' \in [Versions -> Lists \cup {None}]
        <3>1. CASE DeleteKeys(e)
            BY <3>1 DEF DeleteKeys, Fields
        <3>2. CASE UNCHANGED cached
            BY <3>2 DEF Fields
        <3> QED
            BY <1>1, <3>1, <3>2 DEF LifecycleStep, SubmitForApproval, Reject, Approve, Close,
               BeginUpdate, WriteUpdate, Invalidate, EditorFails, CancelStep, BeginCancel,
               WriteCancelled, ScanKeys, cache
    <2>3. [Next]_vars
        OBVIOUS
    <2>4. versionKey' \in Nat /\ status' \in EventStatus /\ revision' \in 1..MaxRevision
        BY NextKeys
    <2> QED
        BY <1>1, <2>1, <2>2, <2>4, EditorsStep DEF Fields, Stages
<1>2. ASSUME NEW d \in Readers, ReaderStep(d)
      PROVE  Fields' /\ Stages'
    <2>1. UNCHANGED <<event, versionKey, editor>>
        BY <1>2 DEF ReaderStep, BuildKeyToGet, Hit, Miss, FindPublished, BuildKeyToSet,
           SetEntry, ReaderFails, cache
    <2>2. cached' \in [Versions -> Lists \cup {None}]
        <3>1. CASE SetEntry(d)
            BY <3>1 DEF SetEntry, Fields, Stages
        <3>2. CASE UNCHANGED cached
            BY <3>2 DEF Fields
        <3> QED
            BY <1>2, <3>1, <3>2 DEF ReaderStep, BuildKeyToGet, Hit, Miss, FindPublished,
               BuildKeyToSet, ReaderFails, cache
    <2>3. Stages'
        BY <1>2, ReadersStep DEF Stages
    <2> QED
        BY <1>2, <2>1, <2>2, <2>3, ReadersStep DEF Fields, event
<1>3. ASSUME NEW v \in Versions, EntryExpires(v)
      PROVE  Fields' /\ Stages'
    BY <1>3 DEF EntryExpires, Fields, Stages, event
<1>4. CASE UNCHANGED vars
    BY <1>4 DEF vars, event, cache, Fields, Stages
<1> QED
    BY <1>1, <1>2, <1>3, <1>4 DEF Next

\* An editor that comes to wait for its invalidation adds one, an editor that
\* stops waiting takes one away, and nobody else counts.
LEMMA Recount ==
    ASSUME Fields, IsFiniteSet(Invalidating), NEW e \in Editors,
           \A f \in Editors : f # e => editor'[f] = editor[f]
    PROVE  /\ IsFiniteSet(Invalidating')
           /\ Cardinality(Invalidating) \in Nat
           /\ Cardinality(Invalidating') <= Cardinality(Invalidating) + 1
           /\ editor'[e].at # "invalidate" => Cardinality(Invalidating') <= Cardinality(Invalidating)
           /\ editor[e].at = "invalidate" /\ editor'[e].at # "invalidate" =>
                  Cardinality(Invalidating') = Cardinality(Invalidating) - 1
<1>0. /\ Cardinality(Invalidating) \in Nat
      /\ IsFiniteSet(Invalidating \cup {e})
      /\ Cardinality(Invalidating \cup {e}) =
             IF e \in Invalidating THEN Cardinality(Invalidating)
                                   ELSE Cardinality(Invalidating) + 1
      /\ IsFiniteSet(Invalidating \ {e})
      /\ Cardinality(Invalidating \ {e}) =
             IF e \in Invalidating THEN Cardinality(Invalidating) - 1
                                   ELSE Cardinality(Invalidating)
    BY FS_AddElement, FS_RemoveElement, FS_CardinalityType
<1>1. CASE editor'[e].at = "invalidate"
    <2>1. Invalidating' = Invalidating \cup {e}
        BY <1>1 DEF Invalidating
    <2> QED
        BY <1>0, <1>1, <2>1
<1>2. CASE editor'[e].at # "invalidate"
    <2>1. Invalidating' = Invalidating \ {e}
        BY <1>2 DEF Invalidating
    <2>2. editor[e].at = "invalidate" <=> e \in Invalidating
        BY DEF Invalidating
    <2> QED
        BY <1>0, <1>2, <2>1, <2>2
<1> QED
    BY <1>1, <1>2

\* Whatever invalidates has a new revision or a status behind it that no step
\* takes back.
LEMMA CountedStep ==
    ASSUME Fields, Counted, [Next]_vars
    PROVE  Counted'
<1> DEFINE n == Cardinality(Invalidating)
           m == Cardinality(Invalidating')
<1>1. ASSUME NEW e \in Editors, LifecycleStep(e) \/ CancelStep(e)
      PROVE  Counted'
    <2>1. /\ IsFiniteSet(Invalidating')
          /\ n \in Nat
          /\ m \in Nat
          /\ m <= n + 1
          /\ editor'[e].at # "invalidate" => m <= n
          /\ editor[e].at = "invalidate" /\ editor'[e].at # "invalidate" => m = n - 1
        BY <1>1, EditorsStep, Recount, FS_CardinalityType DEF Counted
    <2>2. /\ versionKey \in Nat
          /\ versionKey' \in Nat
          /\ revision \in Nat
          /\ versionKey + n <= (revision - 1) + Credit
        BY NextKeys DEF Fields, Counted
    <2>3. \A w : EditorAwaits(e, w) => editor'[e].at = w
        BY DEF EditorAwaits, Fields
    <2>4. EditorResponds(e) => editor'[e].at = "idle"
        BY DEF EditorResponds, IdleEditor, Fields
    <2> HIDE DEF n, m
    <2>5. CASE Approve(e) \/ Close(e)
        <3>1. /\ Credit' = Credit + 1
              /\ Credit \in Nat
              /\ UNCHANGED <<revision, versionKey>>
            BY <2>5 DEF Approve, Close, Transition, Credit, cache
        <3>2. versionKey' + m <= (revision' - 1) + Credit'
            BY <2>1, <2>2, <3>1
        <3> QED
            BY <2>1, <3>2 DEF Counted, m
    <2>6. CASE SubmitForApproval(e) \/ Reject(e)
        <3>1. /\ Credit' = Credit
              /\ UNCHANGED <<revision, versionKey, editor>>
            BY <2>6 DEF SubmitForApproval, Reject, Transition, Credit, cache
        <3>2. Invalidating' = Invalidating
            BY <3>1 DEF Invalidating
        <3> QED
            BY <3>1, <3>2 DEF Counted
    <2>7. CASE WriteUpdate(e)
        <3>1. /\ Credit' = Credit
              /\ Credit \in Nat
              /\ revision' = revision + 1
              /\ UNCHANGED versionKey
            BY <2>7 DEF WriteUpdate, Credit, cache
        <3>2. versionKey' + m <= (revision' - 1) + Credit'
            BY <2>1, <2>2, <3>1
        <3> QED
            BY <2>1, <3>2 DEF Counted, m
    <2>8. CASE Invalidate(e)
        <3>1. /\ editor[e].at = "invalidate"
              /\ editor'[e].at # "invalidate"
              /\ versionKey' = versionKey + 1
              /\ UNCHANGED <<status, revision>>
            BY <2>4, <2>8 DEF Invalidate, event
        <3>2. Credit' = Credit /\ Credit \in Nat
            BY <3>1 DEF Credit
        <3>3. versionKey' + m <= (revision' - 1) + Credit'
            BY <2>1, <2>2, <3>1, <3>2
        <3> QED
            BY <2>1, <3>3 DEF Counted, m
    <2>9. CASE WriteCancelled(e)
        <3>1. /\ editor'[e].at # "invalidate"
              /\ UNCHANGED <<revision, versionKey>>
              /\ status' = "CANCELLED"
            BY <2>3, <2>9 DEF WriteCancelled, cache
        <3>2. Credit' = 2 /\ Credit \in 0..2
            BY <3>1 DEF Credit
        <3>3. versionKey' + m <= (revision' - 1) + Credit'
            BY <2>1, <2>2, <3>1, <3>2
        <3> QED
            BY <2>1, <3>3 DEF Counted, m
    <2>10. CASE DeleteKeys(e)
        <3>1. /\ editor'[e].at # "invalidate"
              /\ versionKey' <= versionKey
              /\ UNCHANGED <<status, revision>>
            BY <2>2, <2>4, <2>10 DEF DeleteKeys, event
        <3>2. Credit' = Credit /\ Credit \in Nat
            BY <3>1 DEF Credit
        <3>3. versionKey' + m <= (revision' - 1) + Credit'
            <4>1. /\ m \in Nat /\ n \in Nat /\ m <= n
                  /\ versionKey' \in Nat /\ versionKey \in Nat /\ versionKey' <= versionKey
                  /\ revision' \in Nat /\ revision' = revision /\ Credit' \in Nat
                  /\ versionKey + n <= (revision' - 1) + Credit'
                BY <2>1, <2>2, <3>1, <3>2
            <4>2. \A a, b, c, d, x, y \in Nat :
                      a <= b /\ c <= d /\ b + d <= (x - 1) + y => a + c <= (x - 1) + y
                OBVIOUS
            <4> QED
                BY <4>1, <4>2, Zenon
        <3> QED
            BY <2>1, <3>3 DEF Counted, m
    <2>11. CASE BeginUpdate(e) \/ EditorFails(e) \/ BeginCancel(e) \/ ScanKeys(e)
        <3>1. /\ editor'[e].at # "invalidate"
              /\ UNCHANGED <<status, revision, versionKey>>
            <4>1. BeginUpdate(e) => editor'[e].at = "update"
                BY DEF BeginUpdate, Fields
            <4>2. ScanKeys(e) => editor'[e].at = "delete"
                <5> SUFFICES ASSUME ScanKeys(e) PROVE editor'[e].at = "delete"
                    OBVIOUS
                <5>1. PICK fo, fv : editor' = [editor EXCEPT ![e].at = "delete",
                                                             ![e].found = fo,
                                                             ![e].foundVersion = fv]
                    BY Zenon DEF ScanKeys
                <5> QED
                    BY <5>1 DEF Fields
            <4> QED
                BY <2>3, <2>4, <2>11, <4>1, <4>2
                DEF BeginUpdate, EditorFails, BeginCancel, ScanKeys, event, cache
        <3>2. Credit' = Credit /\ Credit \in Nat
            BY <3>1 DEF Credit
        <3>3. versionKey' + m <= (revision' - 1) + Credit'
            BY <2>1, <2>2, <3>1, <3>2
        <3> QED
            BY <2>1, <3>3 DEF Counted, m
    <2> QED
        BY <1>1, <2>5, <2>6, <2>7, <2>8, <2>9, <2>10, <2>11 DEF LifecycleStep, CancelStep
<1>2. ASSUME UNCHANGED <<status, revision, versionKey, editor>>
      PROVE  Counted'
    <2>1. Invalidating' = Invalidating /\ Credit' = Credit
        BY <1>2 DEF Invalidating, Credit
    <2> QED
        BY <1>2, <2>1 DEF Counted
<1> QED
    BY <1>1, <1>2
    DEF Next, ReaderStep, BuildKeyToGet, Hit, Miss, FindPublished, BuildKeyToSet, SetEntry,
        ReaderFails, EntryExpires, vars, event, cache

\* A status that is final stays.
LEMMA CancelledStays ==
    ASSUME Fields, status = "CANCELLED", [Next]_vars
    PROVE  status' = "CANCELLED"
<1>1. ASSUME NEW e \in Editors, LifecycleStep(e) \/ CancelStep(e)
      PROVE  status' = "CANCELLED"
    BY <1>1 DEF LifecycleStep, SubmitForApproval, Reject, Approve, Close, Transition,
       BeginUpdate, WriteUpdate, Invalidate, EditorFails, CancelStep, BeginCancel,
       WriteCancelled, ScanKeys, DeleteKeys, event, cache
<1> QED
    BY <1>1 DEF Next, ReaderStep, BuildKeyToGet, Hit, Miss, FindPublished, BuildKeyToSet,
       SetEntry, ReaderFails, EntryExpires, vars, event, cache

\* Before the cancellation nobody deletes keys, so that readers and entries only
\* know versions the key has had.
LEMMA AheadStep ==
    ASSUME Fields, Stages, Counted, Ahead, [Next]_vars
    PROVE  Ahead'
<1> SUFFICES ASSUME status' # "CANCELLED"
             PROVE  /\ \A v \in Versions : v > versionKey' => cached'[v] = None
                    /\ \A d \in Readers : reader'[d].version # None
                                            => reader'[d].version <= versionKey'
                    /\ \A e \in Editors : editor'[e].at \notin {"scan", "delete"}
    BY DEF Ahead
<1>1. /\ \A v \in Versions : v > versionKey => cached[v] = None
      /\ \A d \in Readers : reader[d].version # None => reader[d].version <= versionKey
      /\ \A e \in Editors : editor[e].at \notin {"scan", "delete"}
    BY CancelledStays DEF Ahead
<1>2. versionKey \in Nat /\ Versions \subseteq Nat
    BY MaxRevisionAssumption DEF Fields, Versions
<1>3. \A d \in Readers : reader[d].version \in Versions \cup {None}
    BY DEF Fields
<1>4. ASSUME NEW e \in Editors, LifecycleStep(e) \/ CancelStep(e)
      PROVE  /\ UNCHANGED <<cached, reader>>
             /\ versionKey' \in {versionKey, versionKey + 1}
             /\ \A f \in Editors : editor'[f].at \notin {"scan", "delete"}
    <2>1. /\ UNCHANGED <<cached, reader>>
          /\ versionKey' \in {versionKey, versionKey + 1}
        BY <1>1, <1>4 DEF LifecycleStep, SubmitForApproval, Reject, Approve, Close,
           BeginUpdate, WriteUpdate, Invalidate, EditorFails, CancelStep, BeginCancel,
           WriteCancelled, ScanKeys, DeleteKeys, cache
    <2>2. editor'[e].at \in {editor[e].at, "idle", "update", "invalidate", "cancel"}
        <3>1. \A w : EditorAwaits(e, w) => editor'[e].at = w
            BY DEF EditorAwaits, Fields
        <3>2. EditorResponds(e) => editor'[e].at = "idle"
            BY DEF EditorResponds, IdleEditor, Fields
        <3>3. BeginUpdate(e) => editor'[e].at = "update"
            BY DEF BeginUpdate, Fields
        <3> QED
            BY <1>1, <1>4, <3>1, <3>2, <3>3 DEF LifecycleStep, SubmitForApproval, Reject,
               Approve, Close, WriteUpdate, Invalidate, EditorFails, CancelStep,
               BeginCancel, WriteCancelled, ScanKeys, DeleteKeys
    <2> QED
        BY <1>1, <1>4, <2>1, <2>2, EditorsStep
<1>5. ASSUME NEW d \in Readers, ReaderStep(d)
      PROVE  /\ UNCHANGED <<versionKey, editor>>
             /\ \A v \in Versions : v > versionKey => cached'[v] = None
             /\ \A f \in Readers : reader'[f].version # None => reader'[f].version <= versionKey
    <2>1. UNCHANGED <<versionKey, editor>>
        BY <1>5 DEF ReaderStep, BuildKeyToGet, Hit, Miss, FindPublished, BuildKeyToSet,
           SetEntry, ReaderFails, cache
    <2>2. \A v \in Versions : v > versionKey => cached'[v] = None
        <3>1. CASE SetEntry(d)
            <4>1. /\ reader[d].version \in Versions
                  /\ cached' = [cached EXCEPT ![reader[d].version] = reader[d].list]
                BY <3>1 DEF SetEntry, Stages
            <4>2. reader[d].version # None
                BY <1>2, <4>1, NoneIsNothing
            <4>3. reader[d].version <= versionKey
                BY <1>1, <4>2
            <4> QED
                BY <1>1, <1>2, <4>1, <4>3 DEF Fields
        <3>2. CASE UNCHANGED cached
            BY <1>1, <3>2
        <3> QED
            BY <1>5, <3>1, <3>2 DEF ReaderStep, BuildKeyToGet, Hit, Miss, FindPublished,
               BuildKeyToSet, ReaderFails, cache
    <2>3. \A f \in Readers : reader'[f].version # None => reader'[f].version <= versionKey
        BY <1>1, <1>2, <1>5, ReadersStep
    <2> QED
        BY <2>1, <2>2, <2>3
<1>6. ASSUME NEW v \in Versions, EntryExpires(v)
      PROVE  /\ UNCHANGED <<versionKey, editor, reader>>
             /\ \A w \in Versions : w > versionKey => cached'[w] = None
    BY <1>1, <1>6 DEF EntryExpires, Fields
<1>7. CASE UNCHANGED vars
    BY <1>1, <1>7 DEF vars, event, cache
<1>8. CASE \E e \in Editors : LifecycleStep(e) \/ CancelStep(e)
    <2>1. /\ UNCHANGED <<cached, reader>>
          /\ versionKey' \in {versionKey, versionKey + 1}
          /\ \A f \in Editors : editor'[f].at \notin {"scan", "delete"}
        BY <1>4, <1>8
    <2>2. \A v \in Versions : v > versionKey' => cached'[v] = None
        BY <1>1, <1>2, <2>1
    <2>3. ASSUME NEW d \in Readers, reader'[d].version # None
          PROVE  reader'[d].version <= versionKey'
        <3>1. reader[d].version \in Nat /\ reader[d].version <= versionKey
            BY <1>1, <1>2, <1>3, <2>1, <2>3
        <3> QED
            BY <1>2, <2>1, <3>1
    <2> QED
        BY <2>1, <2>2, <2>3
<1>9. CASE \E d \in Readers : ReaderStep(d)
    BY <1>1, <1>5, <1>9
<1>10. CASE \E v \in Versions : EntryExpires(v)
    BY <1>1, <1>6, <1>10
<1> QED
    BY <1>7, <1>8, <1>9, <1>10 DEF Next

\* The invariant is inductive.
LEMMA CatalogInvInductive == Spec => []CatalogInv
<1>1. Init => CatalogInv
    <2> SUFFICES ASSUME Init PROVE CatalogInv
        OBVIOUS
    <2>1. Fields
        BY MaxRevisionAssumption DEF Init, Fields, EventStatus, IdleEditor, IdleReader
    <2>2. Stages
        BY DEF Init, Stages, IdleReader
    <2>3. Counted
        <3>1. Invalidating = {}
            BY DEF Init, Invalidating, IdleEditor
        <3> QED
            BY <3>1, FS_EmptySet DEF Init, Counted, Credit
    <2>4. Ahead
        BY DEF Init, Ahead, IdleEditor, IdleReader
    <2> QED
        BY <2>1, <2>2, <2>3, <2>4 DEF CatalogInv
<1>2. CatalogInv /\ [Next]_vars => CatalogInv'
    BY FieldsStep, CountedStep, AheadStep DEF CatalogInv
<1> QED
    BY <1>1, <1>2, PTL DEF Spec

\* Types, and with them the bound on the version key: with the versions of the
\* model there is one for every invalidation, for any number of editors.
THEOREM CatalogTypeCorrect == Spec => []CatalogTypeOK
<1>1. CatalogInv => CatalogTypeOK
    BY VersionBound DEF CatalogInv, Fields, CatalogTypeOK
<1> QED
    BY <1>1, CatalogInvInductive, PTL

\* An event moves only along its life cycle, for any number of editors whose
\* steps overlap.
THEOREM LifecycleInOrder == Spec => LifecycleOrder
<1>1. ASSUME Fields, [Next]_vars, status' # status
      PROVE  <<status, status'>> \in
               {<<"DRAFT", "PENDING_APPROVAL">>, <<"REJECTED", "PENDING_APPROVAL">>,
                <<"PENDING_APPROVAL", "PUBLISHED">>, <<"PENDING_APPROVAL", "REJECTED">>,
                <<"PUBLISHED", "CLOSED">>}
               \cup ((EventStatus \ {"CANCELLED"}) \X {"CANCELLED"})
    <2>1. PICK e \in Editors : LifecycleStep(e) \/ CancelStep(e)
        BY <1>1 DEF Next, ReaderStep, BuildKeyToGet, Hit, Miss, FindPublished, BuildKeyToSet,
           SetEntry, ReaderFails, EntryExpires, vars, event, cache
    <2>2. CASE WriteCancelled(e)
        BY <1>1, <2>2 DEF WriteCancelled, Fields
    <2>3. CASE SubmitForApproval(e) \/ Reject(e) \/ Approve(e) \/ Close(e)
        BY <2>3 DEF SubmitForApproval, Reject, Approve, Close, Transition
    <2> QED
        BY <1>1, <2>1, <2>2, <2>3 DEF LifecycleStep, BeginUpdate, WriteUpdate, Invalidate,
           EditorFails, CancelStep, BeginCancel, ScanKeys, DeleteKeys, event, cache
<1>2. CatalogInv /\ [Next]_vars =>
        [status' # status =>
           <<status, status'>> \in
             {<<"DRAFT", "PENDING_APPROVAL">>, <<"REJECTED", "PENDING_APPROVAL">>,
              <<"PENDING_APPROVAL", "PUBLISHED">>, <<"PENDING_APPROVAL", "REJECTED">>,
              <<"PUBLISHED", "CLOSED">>}
             \cup ((EventStatus \ {"CANCELLED"}) \X {"CANCELLED"})]_vars
    BY <1>1 DEF CatalogInv
<1> QED
    BY <1>2, CatalogInvInductive, PTL DEF Spec, LifecycleOrder

\* Until the event is cancelled, an invalidation leads to a version nothing was
\* ever stored under, for any number of slow readers.
THEOREM OldVersionsOutdated == Spec => OldVersionsStayOutdated
<1>1. ASSUME CatalogInv, NEW e \in Editors, status # "CANCELLED", Invalidate(e)
      PROVE  cached[versionKey'] = None
    <2>1. Invalidating # {} /\ versionKey' = versionKey + 1
        BY <1>1 DEF Invalidate, Invalidating
    <2>2. versionKey + 1 \in Versions /\ versionKey \in Nat
        BY <1>1, <2>1, VersionBound DEF CatalogInv, Fields
    <2> QED
        BY <1>1, <2>1, <2>2 DEF CatalogInv, Ahead
<1>2. CatalogInv /\ [Next]_vars =>
        [\A e \in Editors :
             status # "CANCELLED" /\ Invalidate(e) => cached[versionKey'] = None]_vars
    BY <1>1
<1> QED
    BY <1>2, CatalogInvInductive, PTL DEF Spec, OldVersionsStayOutdated
=============================================================================
