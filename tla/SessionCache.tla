---------------------------- MODULE SessionCache ----------------------------
(***************************************************************************)
(* The map of active sessions (`AppState.sessions`) and the requests that  *)
(* fill it: reads (GET, approve), streams and deletes, which go through     *)
(* `restore_session`, and `create_session`.                                *)
(* The mutex that serialises the runs of a session is inside the cached    *)
(* object, so the system relies on one object per session id: the cold     *)
(* loader is single-flight, deletion holds the same mutex, and the map     *)
(* evicts some other entry when it grows past MAX_ACTIVE_SESSIONS.         *)
(*                                                                         *)
(* A client that leaves drops its handler at the next await: the locks go  *)
(* with it, but a statement it has sent runs on in the blocking pool.      *)
(***************************************************************************)
EXTENDS Naturals, FiniteSets

CONSTANTS
    Sessions,
    Requests,
    SessionOf,              \* the session each request names
    KindOf,                 \* "read", "stream", "delete" or "create"
    NoRequest,
    NoObject,
    MAX_ACTIVE_SESSIONS

ASSUME CacheAssumption ==
    /\ SessionOf \in [Requests -> Sessions]
    /\ KindOf \in [Requests -> {"read", "stream", "delete", "create"}]
    /\ \A p, q \in Requests :                             \* session ids are fresh uuids
          KindOf[p] = "create" /\ KindOf[q] = "create" /\ SessionOf[p] = SessionOf[q]
              => p = q
    /\ NoRequest \notin Requests /\ NoObject \notin Requests
    /\ MAX_ACTIVE_SESSIONS \in Nat \ {0}

VARIABLES
    map,            \* session id -> cached object; objects are named by their loader
    restore_lock,   \* session_restore_lock
    row,            \* does the sessions row exist
    mutex,          \* ActiveSession.session of each object
    pc, obj,        \* program point and object of each request
    late,           \* dropped handlers whose statement the database has yet to run
    \* history
    hadRow,         \* the row existed when the run was accepted
    displaced,      \* sessions whose cached object changed under the requests using it
    dropped         \* sessions one of whose deletions was dropped half-way

history == <<hadRow, displaced, dropped>>
cacheVars == <<map, restore_lock, row, mutex, pc, obj, late, history>>

Objects == Requests
Pcs == {"idle", "cold", "second", "load", "insert", "use", "hold", "remove", "unlock",
        "created", "ok", "refused"}

\* The process has just started: nothing is cached, and a row exists for every
\* session but those a request will create.
CacheInit ==
    /\ map = [s \in Sessions |-> NoObject]
    /\ restore_lock = NoRequest
    /\ row = [s \in Sessions |->
                 ~ \E q \in Requests : KindOf[q] = "create" /\ SessionOf[q] = s]
    /\ mutex = [o \in Objects |-> NoRequest]
    /\ pc = [q \in Requests |-> "idle"]
    /\ obj = [q \in Requests |-> NoObject]
    /\ late = {}
    /\ hadRow = [q \in Requests |-> FALSE] /\ displaced = {} /\ dropped = {}

Cached(q) == map[SessionOf[q]]
Goto(q, point) == pc' = [pc EXCEPT ![q] = point]

Unlocked(q) == mutex[obj[q]] = NoRequest
Acquire(q) == mutex' = [mutex EXCEPT ![obj[q]] = q]
Yield(q) == mutex' = [mutex EXCEPT ![obj[q]] = NoRequest]

\* Requests that work with an object of their session.
Using(q) == pc[q] \in {"use", "hold", "remove", "unlock"}
InUse(s) == \E p \in Requests : SessionOf[p] = s /\ Using(p)

-----------------------------------------------------------------------------
(* restore_session *)

FirstCheck(q) ==
    /\ pc[q] = "idle" /\ KindOf[q] # "create"
    /\ IF Cached(q) # NoObject
       THEN obj' = [obj EXCEPT ![q] = Cached(q)] /\ Goto(q, "use")
       ELSE obj' = obj /\ Goto(q, "cold")
    /\ UNCHANGED <<map, restore_lock, row, mutex, late, history>>

TakeRestoreLock(q) ==
    /\ pc[q] = "cold"
    /\ restore_lock = NoRequest
    /\ restore_lock' = q
    /\ Goto(q, "second")
    /\ UNCHANGED <<map, row, mutex, obj, late, history>>

\* Mutant of FoundByAnother: the map is not looked at again under the lock.
FoundByAnotherIgnored(q) == FALSE
FoundByAnother(q) == Cached(q) # NoObject

SecondCheck(q) ==
    /\ pc[q] = "second"
    /\ IF FoundByAnother(q)
       THEN /\ obj' = [obj EXCEPT ![q] = Cached(q)]
            /\ restore_lock' = NoRequest
            /\ Goto(q, "use")
       ELSE UNCHANGED <<obj, restore_lock>> /\ Goto(q, "load")
    /\ UNCHANGED <<map, row, mutex, late, history>>

\* The row and its messages are read; 404 without a row, an error from storage or a
\* client that leaves end the request, and the guard with it.
Load(q) ==
    /\ pc[q] = "load"
    /\ row[SessionOf[q]]
    /\ Goto(q, "insert")
    /\ UNCHANGED <<map, restore_lock, row, mutex, obj, late, history>>

\* Mutant of LockAfterFailure: the failed load keeps the lock.
LockAfterFailureKept(q) == restore_lock
LockAfterFailure(q) == NoRequest

LoadFails(q) ==
    /\ pc[q] = "load"
    /\ restore_lock' = LockAfterFailure(q)
    /\ Goto(q, "refused")
    /\ UNCHANGED <<map, row, mutex, obj, late, history>>

CachedSessions(m) == {s \in Sessions : m[s] # NoObject}

\* Past the limit the first key in hash order goes, which may be any, unless it is the
\* session just inserted.
Victims(m, s) ==
    IF Cardinality(CachedSessions(m)) > MAX_ACTIVE_SESSIONS THEN CachedSessions(m) ELSE {s}

\* The object enters the map.
Insert(q) ==
    LET s == SessionOf[q]
        inserted == [map EXCEPT ![s] = q]
    IN  /\ pc[q] = "insert"
        /\ obj' = [obj EXCEPT ![q] = q]
        /\ \E first \in Victims(inserted, s) :
              /\ map' = IF first = s THEN inserted ELSE [inserted EXCEPT ![first] = NoObject]
              /\ displaced' = displaced \union {d \in {first} \ {s} : InUse(d)}
        /\ restore_lock' = NoRequest
        /\ Goto(q, "use")
        /\ UNCHANGED <<row, mutex, late, hadRow, dropped>>

\* The client leaves while its handler waits for a lock, and the guards go with it; at
\* "load" this is LoadFails.
Leaves(q) ==
    /\ \/ pc[q] \in {"cold", "second", "insert"}
       \/ KindOf[q] = "read" /\ pc[q] \in {"use", "hold"}
    /\ restore_lock' = IF restore_lock = q THEN NoRequest ELSE restore_lock
    /\ IF pc[q] = "hold" THEN Yield(q) ELSE UNCHANGED mutex
    /\ Goto(q, "refused")
    /\ UNCHANGED <<map, row, obj, late, history>>

-----------------------------------------------------------------------------
(* The handlers *)

\* get_session and approve_plan wait for the mutex.
ReadLocks(q) ==
    /\ KindOf[q] = "read" /\ pc[q] = "use"
    /\ Unlocked(q)
    /\ Acquire(q)
    /\ Goto(q, "hold")
    /\ UNCHANGED <<map, restore_lock, row, obj, late, history>>

ReadReturns(q) ==
    /\ KindOf[q] = "read" /\ pc[q] = "hold"
    /\ Yield(q)
    /\ Goto(q, IF row[SessionOf[q]] THEN "ok" ELSE "refused")
    /\ UNCHANGED <<map, restore_lock, row, obj, late, history>>

\* stream_sse takes the mutex or answers 409; it does not look at the row again.
StreamLocks(q) ==
    /\ KindOf[q] = "stream" /\ pc[q] = "use"
    /\ Unlocked(q)
    /\ Acquire(q)
    /\ hadRow' = [hadRow EXCEPT ![q] = row[SessionOf[q]]]
    /\ Goto(q, "hold")
    /\ UNCHANGED <<map, restore_lock, row, obj, late, displaced, dropped>>

\* The run ends; persist_run needs the row.
StreamEnds(q) ==
    /\ KindOf[q] = "stream" /\ pc[q] = "hold"
    /\ Yield(q)
    /\ Goto(q, IF row[SessionOf[q]] THEN "ok" ELSE "refused")
    /\ UNCHANGED <<map, restore_lock, row, obj, late, history>>

\* Mutant of DeleteMayLock: deletion does not ask for the mutex.
DeleteMayLockAlways(q) == TRUE
DeleteMayLock(q) == Unlocked(q)

DeleteLocks(q) ==
    /\ KindOf[q] = "delete" /\ pc[q] = "use"
    /\ DeleteMayLock(q)
    /\ Acquire(q)
    /\ Goto(q, "hold")
    /\ UNCHANGED <<map, restore_lock, row, obj, late, history>>

\* 409: the session has an active run (stream_sse, delete_session).
Conflict(q) ==
    /\ KindOf[q] \in {"stream", "delete"} /\ pc[q] = "use"
    /\ ~Unlocked(q)
    /\ Goto(q, "refused")
    /\ UNCHANGED <<map, restore_lock, row, mutex, obj, late, history>>

\* delete_session_row, then the workspace directory.
DeleteRow(q) ==
    /\ KindOf[q] = "delete" /\ pc[q] = "hold"
    /\ row[SessionOf[q]]
    /\ row' = [row EXCEPT ![SessionOf[q]] = FALSE]
    /\ Goto(q, "remove")
    /\ UNCHANGED <<map, restore_lock, mutex, obj, late, history>>

\* Another delete was first, or storage failed.
DeleteFails(q) ==
    /\ KindOf[q] = "delete" /\ pc[q] = "hold"
    /\ Yield(q)
    /\ Goto(q, "refused")
    /\ UNCHANGED <<map, restore_lock, row, obj, late, history>>

\* The client leaves while the handler waits for the database, whose statement stays
\* queued, or for the map, whose entry stays.  Either way the mutex is free again.
DeleteDropped(q) ==
    /\ KindOf[q] = "delete" /\ pc[q] \in {"hold", "remove"}
    /\ Yield(q)
    /\ late' = IF pc[q] = "hold" THEN late \union {q} ELSE late
    /\ dropped' = dropped \union {SessionOf[q]}
    /\ Goto(q, "refused")
    /\ UNCHANGED <<map, restore_lock, row, obj, hadRow, displaced>>

\* Mutant of Uncached: the entry is left to the eviction.
UncachedLater(s) == map
Uncached(s) == [map EXCEPT ![s] = NoObject]

DeleteRemoves(q) ==
    /\ KindOf[q] = "delete" /\ pc[q] = "remove"
    /\ map' = Uncached(SessionOf[q])
    /\ Goto(q, "unlock")
    /\ UNCHANGED <<restore_lock, row, mutex, obj, late, history>>

DeleteReturns(q) ==
    /\ KindOf[q] = "delete" /\ pc[q] = "unlock"
    /\ Yield(q)
    /\ Goto(q, "ok")
    /\ UNCHANGED <<map, restore_lock, row, obj, late, history>>

\* create_session: the row first, which makes the session visible to others ...
CreateRow(q) ==
    /\ KindOf[q] = "create" /\ pc[q] = "idle"
    /\ row' = [row EXCEPT ![SessionOf[q]] = TRUE]
    /\ Goto(q, "created")
    /\ UNCHANGED <<map, restore_lock, mutex, obj, late, history>>

\* Others have found the row meanwhile: they load or use another object, or have deleted
\* the session.
Overtaken(q) ==
    \/ ~row[SessionOf[q]]
    \/ \E p \in Requests \ {q} :
          SessionOf[p] = SessionOf[q] /\ (Using(p) \/ pc[p] \in {"load", "insert"})

\* ... then the object, over whatever is in the map, and without an eviction.
CreateInserts(q) ==
    /\ KindOf[q] = "create" /\ pc[q] = "created"
    /\ map' = [map EXCEPT ![SessionOf[q]] = q]
    /\ obj' = [obj EXCEPT ![q] = q]
    /\ displaced' = displaced \union (IF Overtaken(q) THEN {SessionOf[q]} ELSE {})
    /\ Goto(q, "ok")
    /\ UNCHANGED <<restore_lock, row, mutex, late, hadRow, dropped>>

CreateFails(q) ==
    /\ KindOf[q] = "create" /\ pc[q] = "idle"
    /\ Goto(q, "refused")
    /\ UNCHANGED <<map, restore_lock, row, mutex, obj, late, history>>

\* The client leaves before the row is known to be written, or before the object is in
\* the map.
CreateDropped(q) ==
    /\ KindOf[q] = "create" /\ pc[q] \in {"idle", "created"}
    /\ late' = IF pc[q] = "idle" THEN late \union {q} ELSE late
    /\ Goto(q, "refused")
    /\ UNCHANGED <<map, restore_lock, row, mutex, obj, history>>

\* The INSERT or DELETE of a dropped handler runs.  A connection it still waited for may
\* never come, and nor may this step.
LateStatement(q) ==
    /\ q \in late
    /\ row' = [row EXCEPT ![SessionOf[q]] = (KindOf[q] = "create")]
    /\ late' = late \ {q}
    /\ UNCHANGED <<map, restore_lock, mutex, pc, obj, history>>

-----------------------------------------------------------------------------
Serve(q) ==
    \/ FirstCheck(q) \/ TakeRestoreLock(q) \/ SecondCheck(q) \/ Load(q) \/ LoadFails(q)
    \/ Insert(q) \/ ReadLocks(q) \/ ReadReturns(q) \/ StreamLocks(q) \/ StreamEnds(q)
    \/ DeleteLocks(q) \/ Conflict(q) \/ DeleteRow(q) \/ DeleteFails(q)
    \/ DeleteRemoves(q) \/ DeleteReturns(q)
    \/ CreateRow(q) \/ CreateInserts(q) \/ CreateFails(q)

ClientGone(q) == Leaves(q) \/ DeleteDropped(q) \/ CreateDropped(q)

Answered(q) == pc[q] \in {"ok", "refused"}

CacheNext ==
    \/ \E q \in Requests : Serve(q) \/ ClientGone(q) \/ LateStatement(q)
    \/ (\A q \in Requests : Answered(q)) /\ UNCHANGED cacheVars

\* Some request that can be served is: the runtime polls every ready request, storage
\* answers, tokio's mutexes are first-come first-served, and a run ends (RunLifecycle
\* says when).  No client has to leave, and nothing relies on a late statement.
Fairness == WF_cacheVars(\E q \in Requests : pc[q] # "idle" /\ Serve(q))

CacheSpec == CacheInit /\ [][CacheNext]_cacheVars /\ Fairness

-----------------------------------------------------------------------------
(* Properties *)

\* Types, and the discipline of the single-flight lock: it is held exactly between
\* TakeRestoreLock and the end of the load, however that ends.
CacheTypeOK ==
    /\ map \in [Sessions -> Objects \union {NoObject}]
    /\ restore_lock \in Requests \union {NoRequest}
    /\ row \in [Sessions -> BOOLEAN]
    /\ mutex \in [Objects -> Requests \union {NoRequest}]
    /\ pc \in [Requests -> Pcs]
    /\ obj \in [Requests -> Objects \union {NoObject}]
    /\ late \subseteq Requests
    /\ hadRow \in [Requests -> BOOLEAN]
    /\ displaced \subseteq Sessions /\ dropped \subseteq Sessions
    /\ \A q \in Requests : restore_lock = q <=> pc[q] \in {"second", "load", "insert"}

\* Two requests of one session never work with different mutexes (restore_session:
\* "This prevents two GET/stream requests from each receiving a different mutex for
\* the same session id").
OneMutexPerSession ==
    \A p, q \in Requests :
        Using(p) /\ Using(q) /\ SessionOf[p] = SessionOf[q] => obj[p] = obj[q]

\* Only an eviction of an object in use or an overtaken creation gives a session a second
\* mutex: no order of lookups, loads, failures, deletions and dropped handlers does
\* (restore_session's double-checked, single-flight loading).
OneMutexUnlessDisplaced ==
    \A p, q \in Requests :
        Using(p) /\ Using(q) /\ SessionOf[p] = SessionOf[q]
            => obj[p] = obj[q] \/ SessionOf[q] \in displaced

\* A run accepted on an existing session keeps its row until it has persisted
\* (delete_session: "A running tool must never lose its transcript row").
RunKeepsItsRow ==
    \A q \in Requests :
        KindOf[q] = "stream" /\ pc[q] = "hold" /\ hadRow[q] => row[SessionOf[q]]

Disturbed(s) == s \in displaced \union dropped

\* Only a deletion that was dropped half-way, or a second mutex, takes a run's row ...
RowsAreKept ==
    \A q \in Requests :
        KindOf[q] = "stream" /\ pc[q] = "hold" /\ hadRow[q]
            => row[SessionOf[q]] \/ Disturbed(SessionOf[q])

\* ... or leaves a deleted session in the map, where the next stream would find it.
NoGhostEntry ==
    \A s \in Sessions :
        map[s] # NoObject /\ ~row[s]
            => \/ Disturbed(s)
               \/ \E q \in Requests : SessionOf[q] = s /\ pc[q] = "remove"

\* A deletion takes the row and the entry, and never from under a run, as long as its
\* handler is not dropped and the session has one mutex (delete_session).
DeletionIsClean == RowsAreKept /\ NoGhostEntry

\* Loads that fail, conflicts, deletions and clients that leave never keep a later
\* request waiting: a moment comes when every request that arrived has its answer.
Waiting == \E q \in Requests : pc[q] # "idle" /\ ~Answered(q)
EveryRequestIsAnswered == Waiting ~> ~Waiting
=============================================================================
