---------------------------- MODULE EventCatalog ----------------------------
(***************************************************************************)
(* The life cycle of an event and the cached list of published events:     *)
(* EventLifecycleService, EventsService.update and findAllEventPublished,  *)
(* the first half of EventCancellationService.cancelEvent, and the Redis   *)
(* cache under them.                                                       *)
(*                                                                         *)
(* The list is that of one query, and there is one event: the list is      *)
(* empty or shows the event in one of its revisions.  A cache key contains *)
(* the value of events:published:version at the time it was built, so the  *)
(* cache is a function of that version.                                    *)
(***************************************************************************)
EXTENDS Naturals

CONSTANTS
    Editors,        \* the requests of organizers and admins in flight at once
    Readers,        \* the requests for the list in flight at once
    MaxRevision,    \* bound: the versions of its details the event goes through
    None            \* no cache entry, or nothing read yet

ASSUME MaxRevisionAssumption == MaxRevision \in Nat \ {0}

EventStatus == {"DRAFT", "PENDING_APPROVAL", "PUBLISHED", "REJECTED", "CLOSED", "CANCELLED"}

\* A published event is invalidated by approve, by close and by its updates.
Versions == 0..(MaxRevision + 1)

\* The list of published events: empty, or the event in one of its revisions.
EmptyList == 0
Lists == {EmptyList} \cup 1..MaxRevision

ASSUME NoneAssumption == None \notin Nat \cup EventStatus

VARIABLES
    status, revision,   \* events: the status, and the number of its current details
    versionKey,         \* events:published:version, 0 if the key does not exist
    cached,             \* events:published:v<version>:...
    editor,             \* what each editing request awaits, and what it has read
    reader              \* what each listing request awaits, and what it has read

event == <<status, revision>>
cache == <<versionKey, cached>>
vars == <<event, cache, editor, reader>>

\* found, foundVersion: the entries a cancellation found in the cache, and whether it
\* found the version key as well.
IdleEditor == [at |-> "idle", seen |-> None, found |-> {}, foundVersion |-> FALSE]
IdleReader == [at |-> "idle", version |-> None, list |-> None]

CatalogTypeOK ==
    /\ status \in EventStatus
    /\ revision \in 1..MaxRevision
    /\ versionKey \in Versions
    /\ cached \in [Versions -> Lists \cup {None}]
    /\ editor \in [Editors -> [at: {"idle", "update", "invalidate", "cancel", "scan", "delete"},
                               seen: EventStatus \cup {None},
                               found: SUBSET Versions,
                               foundVersion: BOOLEAN]]
    /\ reader \in [Readers -> [at: {"idle", "get", "query", "key", "set"},
                               version: Versions \cup {None},
                               list: Lists \cup {None}]]

Init ==
    /\ status = "DRAFT"
    /\ revision = 1
    /\ versionKey = 0
    /\ cached = [v \in Versions |-> None]
    /\ editor = [e \in Editors |-> IdleEditor]
    /\ reader = [d \in Readers |-> IdleReader]

\* What findMany returns: the events that are PUBLISHED now.
PublishedEvents == IF status = "PUBLISHED" THEN revision ELSE EmptyList

EditorAwaits(e, wait) == editor' = [editor EXCEPT ![e].at = wait]
EditorResponds(e) == editor' = [editor EXCEPT ![e] = IdleEditor]

-----------------------------------------------------------------------------
(* EventLifecycleService: conditional updates. *)

\* Mutant: the WHERE clause loses its status.
TransitionUnchecked(e, from, to) ==
    /\ editor[e].at = "idle"
    /\ status' = to
    /\ UNCHANGED revision

Transition(e, from, to) ==
    /\ editor[e].at = "idle"
    /\ status \in from
    /\ status' = to
    /\ UNCHANGED revision

SubmitForApproval(e) ==
    /\ Transition(e, {"DRAFT", "REJECTED"}, "PENDING_APPROVAL")
    /\ UNCHANGED <<cache, editor, reader>>

Reject(e) ==
    /\ Transition(e, {"PENDING_APPROVAL"}, "REJECTED")
    /\ UNCHANGED <<cache, editor, reader>>

Approve(e) ==
    /\ Transition(e, {"PENDING_APPROVAL"}, "PUBLISHED")
    /\ EditorAwaits(e, "invalidate")
    /\ UNCHANGED <<cache, reader>>

Close(e) ==
    /\ Transition(e, {"PUBLISHED"}, "CLOSED")
    /\ EditorAwaits(e, "invalidate")
    /\ UNCHANGED <<cache, reader>>

-----------------------------------------------------------------------------
(* EventsService.update. *)

BeginUpdate(e) ==
    /\ editor[e].at = "idle"
    /\ editor' = [editor EXCEPT ![e].at = "update", ![e].seen = status]
    /\ UNCHANGED <<event, cache, reader>>

\* The cache is invalidated if the event was published when it was read.
WriteUpdate(e) ==
    /\ editor[e].at = "update"
    /\ revision < MaxRevision
    /\ revision' = revision + 1
    /\ IF editor[e].seen = "PUBLISHED" THEN EditorAwaits(e, "invalidate")
                                       ELSE EditorResponds(e)
    /\ UNCHANGED <<status, cache, reader>>

\* Mutant: the version key is deleted instead of incremented.
ForgetVersion(e) ==
    /\ editor[e].at = "invalidate"
    /\ versionKey' = 0
    /\ EditorResponds(e)
    /\ UNCHANGED <<event, cached, reader>>

Invalidate(e) ==
    /\ editor[e].at = "invalidate"
    /\ versionKey' = versionKey + 1
    /\ EditorResponds(e)
    /\ UNCHANGED <<event, cached, reader>>

-----------------------------------------------------------------------------
(* cancelEvent, up to the job it queues. *)

BeginCancel(e) ==
    /\ editor[e].at = "idle"
    /\ status # "CANCELLED"
    /\ EditorAwaits(e, "cancel")
    /\ UNCHANGED <<event, cache, reader>>

WriteCancelled(e) ==
    /\ editor[e].at = "cancel"
    /\ status' = "CANCELLED"
    /\ EditorAwaits(e, "scan")
    /\ UNCHANGED <<revision, cache, reader>>

\* delByPrefix('events:published:') scans for the keys and deletes them in a
\* pipeline; the prefix matches the version key as well.
ScanKeys(e) ==
    /\ editor[e].at = "scan"
    /\ editor' = [editor EXCEPT ![e].at = "delete",
                                ![e].found = {v \in Versions : cached[v] # None},
                                ![e].foundVersion = versionKey > 0]
    /\ UNCHANGED <<event, cache, reader>>

DeleteKeys(e) ==
    /\ editor[e].at = "delete"
    /\ cached' = [v \in Versions |-> IF v \in editor[e].found THEN None ELSE cached[v]]
    /\ versionKey' = IF editor[e].foundVersion THEN 0 ELSE versionKey
    /\ EditorResponds(e)
    /\ UNCHANGED <<event, reader>>

\* Redis or the database fails, or the process dies.
EditorFails(e) ==
    /\ editor[e].at # "idle"
    /\ EditorResponds(e)
    /\ UNCHANGED <<event, cache, reader>>

-----------------------------------------------------------------------------
(* findAllEventPublished. *)

BuildKeyToGet(d) ==
    /\ reader[d].at = "idle"
    /\ reader' = [reader EXCEPT ![d] = [IdleReader EXCEPT !.at = "get", !.version = versionKey]]
    /\ UNCHANGED <<event, cache, editor>>

Hit(d) ==
    /\ reader[d].at = "get"
    /\ cached[reader[d].version] # None
    /\ reader' = [reader EXCEPT ![d] = IdleReader]
    /\ UNCHANGED <<event, cache, editor>>

Miss(d) ==
    /\ reader[d].at = "get"
    /\ cached[reader[d].version] = None
    /\ reader' = [reader EXCEPT ![d] = [IdleReader EXCEPT !.at = "query"]]
    /\ UNCHANGED <<event, cache, editor>>

\* Mutant: the query forgets that only published events are listed.
FindAny(d) ==
    /\ reader[d].at = "query"
    /\ reader' = [reader EXCEPT ![d].at = "key", ![d].list = revision]
    /\ UNCHANGED <<event, cache, editor>>

FindPublished(d) ==
    /\ reader[d].at = "query"
    /\ reader' = [reader EXCEPT ![d].at = "key", ![d].list = PublishedEvents]
    /\ UNCHANGED <<event, cache, editor>>

\* The key is built again: its version may not be the one that was looked up.
BuildKeyToSet(d) ==
    /\ reader[d].at = "key"
    /\ reader' = [reader EXCEPT ![d].at = "set", ![d].version = versionKey]
    /\ UNCHANGED <<event, cache, editor>>

SetEntry(d) ==
    /\ reader[d].at = "set"
    /\ cached' = [cached EXCEPT ![reader[d].version] = reader[d].list]
    /\ reader' = [reader EXCEPT ![d] = IdleReader]
    /\ UNCHANGED <<event, versionKey, editor>>

\* The request ends early: Redis or the database fails, or the process dies.
ReaderFails(d) ==
    /\ reader[d].at # "idle"
    /\ reader' = [reader EXCEPT ![d] = IdleReader]
    /\ UNCHANGED <<event, cache, editor>>

\* The entry's TTL (EVENTS_CACHE_TTL_SECONDS) is over.
EntryExpires(v) ==
    /\ cached[v] # None
    /\ cached' = [cached EXCEPT ![v] = None]
    /\ UNCHANGED <<event, versionKey, editor, reader>>

-----------------------------------------------------------------------------

LifecycleStep(e) ==
    \/ SubmitForApproval(e)
    \/ Reject(e)
    \/ Approve(e)
    \/ Close(e)
    \/ BeginUpdate(e)
    \/ WriteUpdate(e)
    \/ Invalidate(e)
    \/ EditorFails(e)

CancelStep(e) ==
    \/ BeginCancel(e)
    \/ WriteCancelled(e)
    \/ ScanKeys(e)
    \/ DeleteKeys(e)

ReaderStep(d) ==
    \/ BuildKeyToGet(d)
    \/ Hit(d)
    \/ Miss(d)
    \/ FindPublished(d)
    \/ BuildKeyToSet(d)
    \/ SetEntry(d)
    \/ ReaderFails(d)

Next ==
    \/ \E e \in Editors : LifecycleStep(e) \/ CancelStep(e)
    \/ \E d \in Readers : ReaderStep(d)
    \/ \E v \in Versions : EntryExpires(v)

Spec == Init /\ [][Next]_vars

\* Requests that have read something go on or fail, and entries expire.
Fairness ==
    /\ \A d \in Readers : WF_vars(reader[d].at # "idle" /\ ReaderStep(d))
    /\ \A v \in Versions : WF_vars(EntryExpires(v))

FairSpec == Spec /\ Fairness

-----------------------------------------------------------------------------
(* Properties. *)

\* An event moves only along its life cycle, however submissions, reviews,
\* updates and cancellations overlap: it is published only from a review, and
\* a cancelled event never comes back, although cancelEvent writes the status
\* without a condition and update writes the same row.
LifecycleOrder ==
    [][status' # status =>
         <<status, status'>> \in
           {<<"DRAFT", "PENDING_APPROVAL">>, <<"REJECTED", "PENDING_APPROVAL">>,
            <<"PENDING_APPROVAL", "PUBLISHED">>, <<"PENDING_APPROVAL", "REJECTED">>,
            <<"PUBLISHED", "CLOSED">>}
           \cup ((EventStatus \ {"CANCELLED"}) \X {"CANCELLED"})]_vars

\* A list that is out of date disappears in the end, also one that a slow
\* reader stored after the invalidation or that a lost invalidation left.
StaleListsDisappear ==
    <>[](\A v \in Versions : cached[v] \in {None, PublishedEvents})

\* An invalidation leads to a version no entry was ever stored for, so that the
\* next request asks the database (cache.service.ts:56), although readers store
\* entries under versions they read long before.  It holds until an event is
\* cancelled: delByPrefix deletes the version key as well, and versions that
\* slow readers still store for come round again.
OldVersionsStayOutdated ==
    [][\A e \in Editors :
         status # "CANCELLED" /\ Invalidate(e) => cached[versionKey'] = None]_vars
=============================================================================
