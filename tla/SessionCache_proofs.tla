------------------------ MODULE SessionCache_proofs ------------------------
(***************************************************************************)
(* The active session cache, for any sessions and requests, and with no    *)
(* assumption but the types of the constants: the map may overflow, a      *)
(* session may be asked for while it is being created, and a client may    *)
(* leave at any await.                                                     *)
(***************************************************************************)
EXTENDS SessionCache, TLAPS

-----------------------------------------------------------------------------
(* Types and the single-flight lock *)

\* Every step keeps the types, and the restore lock with exactly the request that is
\* between its second check and the end of its load.
LEMMA TypeStep ==
    ASSUME CacheTypeOK, [CacheNext]_cacheVars
    PROVE  CacheTypeOK'
<1> USE CacheAssumption DEF CacheTypeOK, Objects, Pcs, Goto, Cached, history
<1>1. ASSUME NEW q \in Requests, FirstCheck(q) PROVE CacheTypeOK'
  BY <1>1 DEF FirstCheck
<1>2. ASSUME NEW q \in Requests, TakeRestoreLock(q) PROVE CacheTypeOK'
  BY <1>2 DEF TakeRestoreLock
<1>3. ASSUME NEW q \in Requests, SecondCheck(q) PROVE CacheTypeOK'
  BY <1>3 DEF SecondCheck
<1>4. ASSUME NEW q \in Requests, Load(q) PROVE CacheTypeOK'
  BY <1>4 DEF Load
<1>5. ASSUME NEW q \in Requests, LoadFails(q) PROVE CacheTypeOK'
  BY <1>5 DEF LoadFails, LockAfterFailure
<1>6. ASSUME NEW q \in Requests, Insert(q) PROVE CacheTypeOK'
  <2>1. /\ map' \in [Sessions -> Objects \union {NoObject}]
        /\ displaced' \subseteq Sessions
    <3> DEFINE m == [map EXCEPT ![SessionOf[q]] = q]
    <3>1. PICK first \in Victims(m, SessionOf[q]) :
             /\ map' = IF first = SessionOf[q] THEN m ELSE [m EXCEPT ![first] = NoObject]
             /\ displaced' = displaced \union {d \in {first} \ {SessionOf[q]} : InUse(d)}
      BY <1>6 DEF Insert
    <3>2. first \in Sessions
      BY <3>1 DEF Victims, CachedSessions
    <3> QED
      BY <3>1, <3>2
  <2> QED
    BY <2>1, <1>6 DEF Insert
<1>7. ASSUME NEW q \in Requests,
             \/ ReadLocks(q) \/ ReadReturns(q) \/ StreamLocks(q) \/ StreamEnds(q)
             \/ DeleteLocks(q) \/ DeleteFails(q) \/ DeleteReturns(q) \/ DeleteDropped(q)
      PROVE  CacheTypeOK'
  <2>1. /\ mutex' \in [Objects -> Requests \union {NoRequest}]
        /\ pc[q] \in {"use", "hold", "remove", "unlock"}
        /\ pc' \in [Requests -> Pcs] /\ pc'[q] \notin {"second", "load", "insert"}
        /\ \A p \in Requests \ {q} : pc'[p] = pc[p]
        /\ UNCHANGED <<map, restore_lock, row, obj, displaced>>
    BY <1>7 DEF ReadLocks, ReadReturns, StreamLocks, StreamEnds, DeleteLocks, DeleteFails,
       DeleteReturns, DeleteDropped, Acquire, Yield
  <2>2. /\ hadRow' \in [Requests -> BOOLEAN]
        /\ late' \subseteq Requests /\ dropped' \subseteq Sessions
    BY <1>7 DEF ReadLocks, ReadReturns, StreamLocks, StreamEnds, DeleteLocks, DeleteFails,
       DeleteReturns, DeleteDropped
  <2> QED
    BY <2>1, <2>2
<1>8. ASSUME NEW q \in Requests,
             \/ Conflict(q) \/ DeleteRow(q) \/ CreateRow(q) \/ CreateFails(q)
             \/ CreateDropped(q) \/ LateStatement(q)
      PROVE  CacheTypeOK'
  BY <1>8 DEF Conflict, DeleteRow, CreateRow, CreateFails, CreateDropped, LateStatement
<1>9. ASSUME NEW q \in Requests, DeleteRemoves(q) \/ CreateInserts(q) PROVE CacheTypeOK'
  BY <1>9 DEF DeleteRemoves, CreateInserts, Uncached
<1>10. ASSUME NEW q \in Requests, Leaves(q) PROVE CacheTypeOK'
  <2>1. mutex' \in [Objects -> Requests \union {NoRequest}]
    BY <1>10 DEF Leaves, Yield
  <2> QED
    BY <2>1, <1>10 DEF Leaves
<1>11. CASE UNCHANGED cacheVars
  BY <1>11 DEF cacheVars
<1> HIDE DEF CacheTypeOK
<1> QED
  BY <1>1, <1>2, <1>3, <1>4, <1>5, <1>6, <1>7, <1>8, <1>9, <1>10, <1>11
     DEF CacheNext, Serve, ClientGone

\* CacheTypeOK is an invariant of SessionCache: in particular the single-flight lock of
\* restore_session is held exactly from its second check to the end of the load.
THEOREM TypeCorrect == CacheSpec => []CacheTypeOK
<1>1. CacheInit => CacheTypeOK
  BY CacheAssumption DEF CacheInit, CacheTypeOK, Objects, Pcs
<1>2. CacheTypeOK /\ [CacheNext]_cacheVars => CacheTypeOK'
  BY TypeStep
<1> QED
  BY <1>1, <1>2, PTL DEF CacheSpec
-----------------------------------------------------------------------------
(* One mutex, and clean deletions *)

\* What each kind of request can be doing, and that a deletion removes the entry of a
\* session whose row is gone.
KindInv ==
    \A q \in Requests :
        /\ KindOf[q] = "create" => pc[q] \in {"idle", "created", "ok", "refused"}
        /\ pc[q] = "created" => KindOf[q] = "create"
        /\ pc[q] \in {"remove", "unlock"} => KindOf[q] = "delete"
        /\ pc[q] = "remove" => ~row[SessionOf[q]]

\* A late statement is that of a dropped creation or deletion.
LateInv ==
    \A q \in late :
        /\ KindOf[q] \in {"create", "delete"} /\ pc[q] = "refused"
        /\ KindOf[q] = "delete" => SessionOf[q] \in dropped

\* The row of q's session is still to be written.
Fresh(q) == KindOf[q] = "create" /\ (pc[q] = "idle" \/ q \in late)

\* Until then nobody gets past the load of that session.
FreshInv ==
    \A q \in Requests : Fresh(q) =>
        /\ ~row[SessionOf[q]] /\ map[SessionOf[q]] = NoObject
        /\ \A p \in Requests :
              SessionOf[p] = SessionOf[q] => ~Using(p) /\ pc[p] # "insert"

\* A loader works for a session that nobody has cached, and once it has read the row
\* nobody uses the session.
LoaderInv ==
    \A q \in Requests : SessionOf[q] \notin displaced =>
        /\ pc[q] \in {"load", "insert"} => map[SessionOf[q]] = NoObject
        /\ pc[q] = "insert" =>
              /\ row[SessionOf[q]] \/ SessionOf[q] \in dropped
              /\ \A p \in Requests : SessionOf[p] = SessionOf[q] => ~Using(p)

\* A user works with the cached object or with one whose row is gone, ...
UsesTheObject(q) ==
    /\ obj[q] \in Objects
    /\ SessionOf[q] \notin displaced =>
          IF map[SessionOf[q]] = NoObject THEN ~row[SessionOf[q]]
          ELSE map[SessionOf[q]] = obj[q]

UserInv == \A q \in Requests : Using(q) => UsesTheObject(q)

\* ... and owns its mutex from the moment it locks it.
HolderInv ==
    \A q \in Requests : pc[q] \in {"hold", "remove", "unlock"} => mutex[obj[q]] = q

\* The inductive invariant.
CacheInv ==
    /\ CacheTypeOK /\ KindInv /\ LateInv /\ FreshInv /\ LoaderInv /\ UserInv /\ HolderInv
    /\ OneMutexUnlessDisplaced /\ RowsAreKept /\ NoGhostEntry

\* A request that finds an object in the map uses the same one as everybody else.
LEMMA FoundStep ==
    ASSUME CacheInv, NEW q \in Requests, Cached(q) # NoObject,
           pc[q] \in {"idle", "second"}, KindOf[q] # "create",
           obj' = [obj EXCEPT ![q] = Cached(q)],
           pc' = [pc EXCEPT ![q] = "use"],
           UNCHANGED <<map, row, mutex, late, history>>, CacheTypeOK'
    PROVE  CacheInv'
<1> USE CacheAssumption DEF CacheInv, Cached, history
<1>1. /\ pc \in [Requests -> Pcs] /\ pc'[q] = "use" /\ \A p \in Requests \ {q} : pc'[p] = pc[p]
      /\ obj'[q] = map[SessionOf[q]] /\ \A p \in Requests \ {q} : obj'[p] = obj[p]
      /\ map[SessionOf[q]] \in Objects /\ SessionOf[q] \in Sessions /\ late \subseteq Requests
  BY DEF CacheTypeOK
<1>2. KindInv' /\ LateInv'
  <2>1. KindInv'
    BY <1>1 DEF KindInv
  <2>2. q \notin late
    BY DEF LateInv
  <2> QED
    BY <2>1, <2>2, <1>1 DEF LateInv
<1>3. FreshInv'
  BY <1>1 DEF FreshInv, Fresh, Using
<1>4. LoaderInv'
  BY <1>1 DEF LoaderInv, Using
<1>5. UserInv' /\ HolderInv'
  BY <1>1 DEF UserInv, UsesTheObject, HolderInv, Using
<1>6. OneMutexUnlessDisplaced'
  BY <1>1 DEF OneMutexUnlessDisplaced, UserInv, UsesTheObject, Using
<1>7. RowsAreKept' /\ NoGhostEntry'
  BY <1>1 DEF RowsAreKept, NoGhostEntry, Disturbed
<1> QED
  BY <1>2, <1>3, <1>4, <1>5, <1>6, <1>7

\* A request that moves without touching the shared state, or leaves before it locked a
\* mutex.
LEMMA WalkStep ==
    ASSUME CacheInv, NEW q \in Requests,
           \/ FirstCheck(q) /\ Cached(q) = NoObject
           \/ TakeRestoreLock(q)
           \/ SecondCheck(q) /\ Cached(q) = NoObject
           \/ Load(q) \/ LoadFails(q) \/ Conflict(q) \/ CreateFails(q)
           \/ Leaves(q) /\ pc[q] # "hold",
           CacheTypeOK'
    PROVE  CacheInv'
<1> USE CacheAssumption DEF CacheInv, Cached, history
<1>1. /\ UNCHANGED <<map, row, mutex, late, hadRow, displaced, dropped, obj>>
      /\ pc[q] \in {"idle", "cold", "second", "load", "insert", "use"}
      /\ pc'[q] \in {"cold", "second", "load", "insert", "refused"}
      /\ pc'[q] = "insert" => row[SessionOf[q]] /\ pc[q] = "load"
      /\ pc'[q] = "load" => map[SessionOf[q]] = NoObject
      /\ KindOf[q] = "create" => pc'[q] = "refused"
      /\ \A p \in Requests \ {q} : pc'[p] = pc[p]
      /\ late \subseteq Requests
  BY DEF CacheTypeOK, KindInv, FirstCheck, TakeRestoreLock, SecondCheck, Load, LoadFails,
     Conflict, CreateFails, Leaves, Goto, FoundByAnother
<1>2. KindInv' /\ LateInv'
  BY <1>1 DEF KindInv, LateInv
<1>3. FreshInv'
  BY <1>1 DEF FreshInv, Fresh, Using
<1>4. LoaderInv'
  <2>1. pc'[q] = "insert" /\ SessionOf[q] \notin displaced =>
           \A p \in Requests : SessionOf[p] = SessionOf[q] => ~Using(p)
    BY <1>1 DEF LoaderInv, UserInv, UsesTheObject
  <2> QED
    BY <1>1, <2>1 DEF LoaderInv, Using
<1>5. UserInv' /\ HolderInv' /\ OneMutexUnlessDisplaced'
  BY <1>1 DEF UserInv, UsesTheObject, HolderInv, OneMutexUnlessDisplaced, Using
<1>6. RowsAreKept' /\ NoGhostEntry'
  BY <1>1 DEF RowsAreKept, NoGhostEntry, Disturbed
<1> QED
  BY <1>2, <1>3, <1>4, <1>5, <1>6

\* The loader of a session that was not displaced finds nobody using it, so that its
\* object is the only one; an entry it evicts is in use by nobody, or displaced from now on.
LEMMA InsertStep ==
    ASSUME CacheInv, NEW q \in Requests, Insert(q), CacheTypeOK'
    PROVE  CacheInv'
<1> DEFINE s == SessionOf[q]
           inserted == [map EXCEPT ![s] = q]
<1> USE CacheAssumption DEF CacheInv
<1>1. PICK first \in Victims(inserted, s) :
         /\ map' = IF first = s THEN inserted ELSE [inserted EXCEPT ![first] = NoObject]
         /\ displaced' = displaced \union {d \in {first} \ {s} : InUse(d)}
  BY DEF Insert
<1>2. /\ UNCHANGED <<row, mutex, late, hadRow, dropped>>
      /\ pc[q] = "insert" /\ restore_lock = q
      /\ pc'[q] = "use" /\ obj'[q] = q /\ q # NoObject /\ q \in Objects
      /\ \A p \in Requests \ {q} : pc'[p] = pc[p] /\ obj'[p] = obj[p]
      /\ SessionOf \in [Requests -> Sessions] /\ s \in Sessions /\ late \subseteq Requests
  BY DEF CacheTypeOK, Insert, Goto, Objects
<1>3. /\ map'[s] = q
      /\ \A t \in Sessions \ {s} : map'[t] = map[t] \/ (map'[t] = NoObject /\ t = first)
      /\ \A t \in Sessions \ {s} : map'[t] # map[t] /\ t \notin displaced' => ~InUse(t)
      /\ \A t \in Sessions : t \in displaced => t \in displaced'
      /\ s \in displaced' => s \in displaced
  <2>1. first \in Sessions
    BY <1>1, <1>2 DEF Victims, CachedSessions
  <2>2. /\ map \in [Sessions -> Objects \union {NoObject}]
        /\ map' \in [Sessions -> Objects \union {NoObject}]
    BY DEF CacheTypeOK
  <2> QED
    BY <1>1, <1>2, <2>1, <2>2
<1>4. KindOf[q] # "create" /\ ~Using(q) /\ q \notin late
  BY <1>2 DEF KindInv, LateInv, Using
<1>5. s \notin displaced => /\ row[s] \/ s \in dropped
                            /\ \A p \in Requests : SessionOf[p] = s => ~Using(p)
  BY <1>2 DEF LoaderInv
<1>6. \A p \in Requests \ {q} : pc[p] \notin {"load", "insert"}
  BY <1>2 DEF CacheTypeOK
<1>7. \A c \in Requests : Fresh(c) => SessionOf[c] # s
  BY <1>2 DEF FreshInv
<1> HIDE DEF s, inserted
<1>8. KindInv' /\ LateInv'
  BY <1>2, <1>4 DEF KindInv, LateInv
<1>9. FreshInv'
  <2>1. \A c \in Requests : Fresh(c)' => Fresh(c)
    BY <1>2, <1>4 DEF Fresh
  <2> QED
    BY <2>1, <1>2, <1>3, <1>7 DEF FreshInv, Using, s
<1>10. LoaderInv'
  BY <1>2, <1>6 DEF LoaderInv
<1>11. UserInv'
  <2>1. UsesTheObject(q)'
    BY <1>2, <1>3 DEF UsesTheObject, s
  <2>2. ASSUME NEW p \in Requests \ {q}, Using(p)
        PROVE  UsesTheObject(p)'
    <3>1. SessionOf[p] = s /\ s \notin displaced' => FALSE
      BY <1>3, <1>5, <2>2
    <3>2. SessionOf[p] # s /\ SessionOf[p] \notin displaced'
             => map'[SessionOf[p]] = map[SessionOf[p]]
      BY <1>2, <1>3, <2>2 DEF InUse
    <3> QED
      BY <3>1, <3>2, <2>2, <1>2, <1>3 DEF UserInv, UsesTheObject
  <2> QED
    BY <2>1, <2>2, <1>2 DEF UserInv, UsesTheObject, Using
<1>12. HolderInv'
  BY <1>2 DEF HolderInv
<1>13. OneMutexUnlessDisplaced'
  BY <1>2, <1>3, <1>5 DEF OneMutexUnlessDisplaced, Using, s
<1>14. RowsAreKept'
  BY <1>2, <1>3 DEF RowsAreKept, Disturbed
<1>15. NoGhostEntry'
  BY <1>2, <1>3, <1>5 DEF NoGhostEntry, Disturbed
<1> QED
  BY <1>8, <1>9, <1>10, <1>11, <1>12, <1>13, <1>14, <1>15

\* A request that locks the mutex of its object becomes its only holder.
LEMMA LockStep ==
    ASSUME CacheInv, NEW q \in Requests,
           ReadLocks(q) \/ StreamLocks(q) \/ DeleteLocks(q), CacheTypeOK'
    PROVE  CacheInv'
<1> USE CacheAssumption DEF CacheInv, history
<1>1. /\ UNCHANGED <<map, row, obj, late, displaced, dropped>>
      /\ pc[q] = "use" /\ pc'[q] = "hold"
      /\ mutex[obj[q]] = NoRequest
      /\ mutex' = [mutex EXCEPT ![obj[q]] = q]
      /\ \A p \in Requests \ {q} : pc'[p] = pc[p] /\ hadRow'[p] = hadRow[p]
      /\ KindOf[q] = "stream" => hadRow'[q] = row[SessionOf[q]]
      /\ KindOf[q] # "create" /\ late \subseteq Requests
  BY DEF CacheTypeOK, ReadLocks, StreamLocks, DeleteLocks, DeleteMayLock, Unlocked, Acquire,
     Goto
<1>2. obj[q] \in Objects
  BY <1>1 DEF UserInv, UsesTheObject, Using
<1>3. KindInv' /\ LateInv' /\ LoaderInv'
  BY <1>1 DEF KindInv, LateInv, LoaderInv, Using
<1>4. FreshInv'
  BY <1>1 DEF FreshInv, Fresh, Using
<1>5. UserInv' /\ OneMutexUnlessDisplaced'
  BY <1>1 DEF UserInv, UsesTheObject, OneMutexUnlessDisplaced, Using
<1>6. HolderInv'
  <2>1. mutex'[obj[q]] = q
    BY <1>1, <1>2 DEF CacheTypeOK
  <2>2. ASSUME NEW p \in Requests \ {q}, pc[p] \in {"hold", "remove", "unlock"}
        PROVE  mutex'[obj[p]] = p
    <3>1. mutex[obj[p]] = p /\ p # NoRequest
      BY <2>2 DEF HolderInv
    <3> QED
      BY <3>1, <1>1 DEF CacheTypeOK
  <2> QED
    BY <2>1, <2>2, <1>1 DEF HolderInv
<1>7. RowsAreKept' /\ NoGhostEntry'
  BY <1>1 DEF RowsAreKept, NoGhostEntry, Disturbed
<1> QED
  BY <1>3, <1>4, <1>5, <1>6, <1>7

\* A request that unlocks its mutex takes it from nobody else; a deletion dropped before
\* the entry is removed is remembered.
LEMMA UnlockStep ==
    ASSUME CacheInv, NEW q \in Requests,
           \/ ReadReturns(q) \/ StreamEnds(q) \/ DeleteFails(q) \/ DeleteReturns(q)
           \/ DeleteDropped(q)
           \/ Leaves(q) /\ pc[q] = "hold",
           CacheTypeOK'
    PROVE  CacheInv'
<1> USE CacheAssumption DEF CacheInv, history
<1>1. /\ UNCHANGED <<map, row, obj, hadRow, displaced>>
      /\ pc[q] \in {"hold", "remove", "unlock"} /\ pc'[q] \in {"ok", "refused"}
      /\ late \subseteq late' /\ late' \subseteq late \union {q}
      /\ dropped \subseteq dropped'
      /\ pc[q] = "remove" \/ q \in late' \ late => SessionOf[q] \in dropped'
      /\ q \in late' \ late => KindOf[q] = "delete" /\ pc'[q] = "refused"
      /\ mutex' = [mutex EXCEPT ![obj[q]] = NoRequest]
      /\ \A p \in Requests \ {q} : pc'[p] = pc[p]
      /\ late \subseteq Requests
  BY DEF CacheTypeOK, ReadReturns, StreamEnds, DeleteFails, DeleteReturns, DeleteDropped,
     Leaves, Yield, Goto
<1>2. KindInv' /\ LoaderInv'
  BY <1>1 DEF KindInv, LoaderInv, Using
<1>3. LateInv'
  BY <1>1 DEF LateInv
<1>4. FreshInv'
  BY <1>1 DEF FreshInv, Fresh, Using
<1>5. UserInv' /\ OneMutexUnlessDisplaced'
  BY <1>1 DEF UserInv, UsesTheObject, OneMutexUnlessDisplaced, Using
<1>6. HolderInv'
  <2>1. ASSUME NEW p \in Requests \ {q}, pc[p] \in {"hold", "remove", "unlock"}
        PROVE  mutex'[obj[p]] = p
    <3>1. mutex[obj[p]] = p /\ mutex[obj[q]] = q
      BY <2>1, <1>1 DEF HolderInv
    <3> QED
      BY <3>1, <1>1 DEF CacheTypeOK
  <2> QED
    BY <2>1, <1>1 DEF HolderInv
<1>7. RowsAreKept'
  BY <1>1 DEF RowsAreKept, Disturbed
<1>8. NoGhostEntry'
  BY <1>1 DEF NoGhostEntry, Disturbed
<1> QED
  BY <1>2, <1>3, <1>4, <1>5, <1>6, <1>7, <1>8

\* A deletion holds the one mutex of its session, so no run holds it; the row goes first
\* and the entry after it.
LEMMA DeleteStep ==
    ASSUME CacheInv, NEW q \in Requests, DeleteRow(q) \/ DeleteRemoves(q), CacheTypeOK'
    PROVE  CacheInv'
<1> USE CacheAssumption DEF CacheInv, history
<1>1. ASSUME DeleteRow(q) PROVE CacheInv'
  <2>1. /\ UNCHANGED <<map, mutex, obj, late, hadRow, displaced, dropped>>
        /\ KindOf[q] = "delete" /\ pc[q] = "hold" /\ pc'[q] = "remove"
        /\ row[SessionOf[q]] /\ ~row'[SessionOf[q]]
        /\ \A s \in Sessions \ {SessionOf[q]} : row'[s] = row[s]
        /\ \A p \in Requests \ {q} : pc'[p] = pc[p]
        /\ SessionOf \in [Requests -> Sessions] /\ late \subseteq Requests
    BY <1>1 DEF CacheTypeOK, DeleteRow, Goto
  <2>2. mutex[obj[q]] = q /\ Using(q)
    BY <2>1 DEF HolderInv, Using
  <2>3. KindInv' /\ LateInv'
    BY <2>1 DEF KindInv, LateInv
  <2>4. FreshInv'
    BY <2>1 DEF FreshInv, Fresh, Using
  <2>5. LoaderInv'
    BY <2>1, <2>2 DEF LoaderInv, Using
  <2>6. UserInv' /\ HolderInv' /\ OneMutexUnlessDisplaced'
    BY <2>1 DEF UserInv, UsesTheObject, HolderInv, OneMutexUnlessDisplaced, Using
  <2>7. RowsAreKept'
    <3>1. ASSUME NEW p \in Requests \ {q}, KindOf[p] = "stream", pc[p] = "hold"
          PROVE  SessionOf[p] # SessionOf[q] \/ SessionOf[q] \in displaced
      <4>1. mutex[obj[p]] = p /\ Using(p)
        BY <3>1 DEF HolderInv, Using
      <4> QED
        BY <4>1, <2>2 DEF OneMutexUnlessDisplaced
    <3> QED
      BY <3>1, <2>1 DEF RowsAreKept, Disturbed
  <2>8. NoGhostEntry'
    BY <2>1 DEF NoGhostEntry, Disturbed
  <2> QED
    BY <2>3, <2>4, <2>5, <2>6, <2>7, <2>8
<1>2. ASSUME DeleteRemoves(q) PROVE CacheInv'
  <2>1. /\ UNCHANGED <<row, mutex, obj, late, hadRow, displaced, dropped>>
        /\ KindOf[q] = "delete" /\ pc[q] = "remove" /\ pc'[q] = "unlock"
        /\ map'[SessionOf[q]] = NoObject
        /\ \A s \in Sessions \ {SessionOf[q]} : map'[s] = map[s]
        /\ \A p \in Requests \ {q} : pc'[p] = pc[p]
        /\ SessionOf \in [Requests -> Sessions] /\ late \subseteq Requests
    BY <1>2 DEF CacheTypeOK, DeleteRemoves, Uncached, Goto
  <2>2. ~row[SessionOf[q]]
    BY <2>1 DEF KindInv
  <2>3. KindInv' /\ LateInv'
    BY <2>1 DEF KindInv, LateInv
  <2>4. FreshInv'
    BY <2>1 DEF FreshInv, Fresh, Using
  <2>5. LoaderInv'
    BY <2>1 DEF LoaderInv, Using
  <2>6. UserInv' /\ HolderInv' /\ OneMutexUnlessDisplaced'
    BY <2>1, <2>2 DEF UserInv, UsesTheObject, HolderInv, OneMutexUnlessDisplaced, Using
  <2>7. RowsAreKept' /\ NoGhostEntry'
    BY <2>1 DEF RowsAreKept, NoGhostEntry, Disturbed
  <2> QED
    BY <2>3, <2>4, <2>5, <2>6, <2>7
<1> QED
  BY <1>1, <1>2

\* A creation writes its row when nobody can have found the session.
LEMMA CreatedRowStep ==
    ASSUME CacheInv, NEW q \in Requests, Fresh(q),
           row' = [row EXCEPT ![SessionOf[q]] = TRUE],
           UNCHANGED <<map, mutex, obj, history>>,
           \/ pc[q] = "idle" /\ Goto(q, "created") /\ UNCHANGED late
           \/ q \in late /\ late' = late \ {q} /\ UNCHANGED pc,
           CacheTypeOK'
    PROVE  CacheInv'
<1> USE CacheAssumption DEF CacheInv, history
<1>1. /\ KindOf[q] = "create"
      /\ pc[q] \in {"idle", "refused"} /\ pc'[q] \in {"created", "refused"}
      /\ late' = late \ {q}
      /\ row'[SessionOf[q]]
      /\ \A s \in Sessions \ {SessionOf[q]} : row'[s] = row[s]
      /\ \A p \in Requests \ {q} : pc'[p] = pc[p]
      /\ SessionOf \in [Requests -> Sessions] /\ late \subseteq Requests
      /\ UNCHANGED <<map, mutex, obj, hadRow, displaced, dropped>>
  BY DEF CacheTypeOK, Fresh, LateInv, Goto
<1>2. \A p \in Requests : SessionOf[p] = SessionOf[q] => ~Using(p) /\ pc[p] # "insert"
  BY DEF FreshInv
<1>3. \A c \in Requests \ {q} : KindOf[c] = "create" => SessionOf[c] # SessionOf[q]
  BY <1>1
<1>4. KindInv'
  BY <1>1, <1>2 DEF KindInv, Using
<1>5. LateInv'
  BY <1>1 DEF LateInv
<1>6. FreshInv'
  <2>1. \A c \in Requests : Fresh(c)' => Fresh(c) /\ c # q
    BY <1>1 DEF Fresh
  <2> QED
    BY <2>1, <1>1, <1>3 DEF FreshInv, Fresh, Using
<1>7. LoaderInv'
  BY <1>1, <1>2 DEF LoaderInv, Using
<1>8. UserInv'
  BY <1>1, <1>2 DEF UserInv, UsesTheObject, Using
<1>9. HolderInv' /\ OneMutexUnlessDisplaced'
  BY <1>1 DEF HolderInv, OneMutexUnlessDisplaced, Using
<1>10. RowsAreKept' /\ NoGhostEntry'
  BY <1>1 DEF RowsAreKept, NoGhostEntry, Disturbed
<1> QED
  BY <1>4, <1>5, <1>6, <1>7, <1>8, <1>9, <1>10

\* The late DELETE of a dropped deletion: its session is among the dropped.
LEMMA LateDeleteStep ==
    ASSUME CacheInv, NEW q \in late, KindOf[q] # "create", LateStatement(q), CacheTypeOK'
    PROVE  CacheInv'
<1> USE CacheAssumption DEF CacheInv, history
<1>1. /\ UNCHANGED <<map, mutex, pc, obj, hadRow, displaced, dropped>>
      /\ ~row'[SessionOf[q]] /\ SessionOf[q] \in dropped
      /\ \A s \in Sessions \ {SessionOf[q]} : row'[s] = row[s]
      /\ late' = late \ {q} /\ late \subseteq Requests /\ q \in Requests
      /\ SessionOf \in [Requests -> Sessions]
  BY DEF CacheTypeOK, LateStatement, LateInv
<1>2. KindInv' /\ LateInv'
  BY <1>1 DEF KindInv, LateInv
<1>3. FreshInv'
  BY <1>1 DEF FreshInv, Fresh, Using
<1>4. LoaderInv'
  BY <1>1 DEF LoaderInv, Using
<1>5. UserInv' /\ HolderInv' /\ OneMutexUnlessDisplaced'
  BY <1>1 DEF UserInv, UsesTheObject, HolderInv, OneMutexUnlessDisplaced, Using
<1>6. RowsAreKept' /\ NoGhostEntry'
  BY <1>1 DEF RowsAreKept, NoGhostEntry, Disturbed
<1> QED
  BY <1>2, <1>3, <1>4, <1>5, <1>6

\* A creation inserts its object when nobody else has one, or displaces the session.
LEMMA CreateInsertsStep ==
    ASSUME CacheInv, NEW q \in Requests, CreateInserts(q), CacheTypeOK'
    PROVE  CacheInv'
<1> USE CacheAssumption DEF CacheInv
<1>1. /\ UNCHANGED <<row, mutex, late, hadRow, dropped>>
      /\ KindOf[q] = "create" /\ pc[q] = "created" /\ pc'[q] = "ok"
      /\ map'[SessionOf[q]] = q
      /\ \A s \in Sessions \ {SessionOf[q]} : map'[s] = map[s]
      /\ displaced \subseteq displaced' /\ displaced' \subseteq displaced \union {SessionOf[q]}
      /\ Overtaken(q) => SessionOf[q] \in displaced'
      /\ \A p \in Requests \ {q} : pc'[p] = pc[p] /\ obj'[p] = obj[p]
      /\ SessionOf \in [Requests -> Sessions] /\ late \subseteq Requests
  BY DEF CacheTypeOK, CreateInserts, Goto
<1>2. SessionOf[q] \notin displaced' =>
         /\ row[SessionOf[q]]
         /\ \A p \in Requests : SessionOf[p] = SessionOf[q]
               => ~Using(p) /\ pc[p] \notin {"load", "insert"}
  BY <1>1 DEF Overtaken, Using
<1>3. \A c \in Requests \ {q} : KindOf[c] = "create" => SessionOf[c] # SessionOf[q]
  BY <1>1
<1>4. q \notin late
  BY <1>1 DEF LateInv
<1>5. KindInv' /\ LateInv'
  BY <1>1 DEF KindInv, LateInv
<1>6. FreshInv'
  <2>1. \A c \in Requests : Fresh(c)' => Fresh(c) /\ c # q
    BY <1>1, <1>4 DEF Fresh
  <2> QED
    BY <2>1, <1>1, <1>3 DEF FreshInv, Fresh, Using
<1>7. LoaderInv'
  BY <1>1, <1>2 DEF LoaderInv, Using
<1>8. UserInv'
  BY <1>1, <1>2 DEF UserInv, UsesTheObject, Using
<1>9. HolderInv' /\ OneMutexUnlessDisplaced'
  BY <1>1 DEF HolderInv, OneMutexUnlessDisplaced, Using
<1>10. RowsAreKept' /\ NoGhostEntry'
  BY <1>1, <1>2 DEF RowsAreKept, NoGhostEntry, Disturbed
<1> QED
  BY <1>5, <1>6, <1>7, <1>8, <1>9, <1>10

\* A creation dropped before its row is known to be written leaves a late INSERT.
LEMMA CreateDroppedStep ==
    ASSUME CacheInv, NEW q \in Requests, CreateDropped(q), CacheTypeOK'
    PROVE  CacheInv'
<1> USE CacheAssumption DEF CacheInv, history
<1>1. /\ UNCHANGED <<map, row, mutex, obj, hadRow, displaced, dropped>>
      /\ KindOf[q] = "create" /\ pc[q] \in {"idle", "created"} /\ pc'[q] = "refused"
      /\ late' = IF pc[q] = "idle" THEN late \union {q} ELSE late
      /\ \A p \in Requests \ {q} : pc'[p] = pc[p]
      /\ late \subseteq Requests
  BY DEF CacheTypeOK, CreateDropped, Goto
<1>2. q \notin late
  BY <1>1 DEF LateInv
<1>3. KindInv' /\ LateInv'
  BY <1>1 DEF KindInv, LateInv
<1>4. FreshInv'
  <2>1. \A c \in Requests : Fresh(c)' => Fresh(c)
    BY <1>1, <1>2 DEF Fresh
  <2> QED
    BY <2>1, <1>1 DEF FreshInv, Using
<1>5. LoaderInv'
  BY <1>1 DEF LoaderInv, Using
<1>6. UserInv' /\ HolderInv' /\ OneMutexUnlessDisplaced'
  BY <1>1 DEF UserInv, UsesTheObject, HolderInv, OneMutexUnlessDisplaced, Using
<1>7. RowsAreKept' /\ NoGhostEntry'
  BY <1>1 DEF RowsAreKept, NoGhostEntry, Disturbed
<1> QED
  BY <1>3, <1>4, <1>5, <1>6, <1>7

LEMMA CacheInvariant == CacheSpec => []CacheInv
<1>1. CacheInit => CacheInv
  <2> SUFFICES ASSUME CacheInit PROVE CacheInv
    OBVIOUS
  <2>1. CacheTypeOK
    BY CacheAssumption DEF CacheInit, CacheTypeOK, Objects, Pcs
  <2>2. /\ \A q \in Requests : pc[q] = "idle" /\ ~Using(q) /\ SessionOf[q] \in Sessions
        /\ \A s \in Sessions : map[s] = NoObject
        /\ \A q \in Requests : KindOf[q] = "create" => ~row[SessionOf[q]]
        /\ late = {}
    BY CacheAssumption DEF CacheInit, Using
  <2> QED
    BY <2>1, <2>2 DEF CacheInv, KindInv, LateInv, FreshInv, Fresh, LoaderInv, UserInv,
       HolderInv, OneMutexUnlessDisplaced, RowsAreKept, NoGhostEntry
<1>2. CacheInv /\ [CacheNext]_cacheVars => CacheInv'
  <2> SUFFICES ASSUME CacheInv, [CacheNext]_cacheVars PROVE CacheInv'
    OBVIOUS
  <2>1. CacheTypeOK'
    BY TypeStep DEF CacheInv
  <2>2. ASSUME NEW q \in Requests, Serve(q) PROVE CacheInv'
    <3>1. CASE FirstCheck(q) \/ SecondCheck(q)
      <4>1. CASE Cached(q) = NoObject
        BY <4>1, <3>1, <2>1, WalkStep
      <4>2. CASE Cached(q) # NoObject
        <5>1. /\ pc[q] \in {"idle", "second"} /\ KindOf[q] # "create"
              /\ obj' = [obj EXCEPT ![q] = Cached(q)]
              /\ pc' = [pc EXCEPT ![q] = "use"]
              /\ UNCHANGED <<map, row, mutex, late, history>>
          BY <4>2, <3>1 DEF FirstCheck, SecondCheck, FoundByAnother, Goto, CacheInv, KindInv
        <5> QED
          BY <5>1, <4>2, <2>1, FoundStep
      <4> QED
        BY <4>1, <4>2
    <3>2. CASE \/ TakeRestoreLock(q) \/ Load(q) \/ LoadFails(q) \/ Conflict(q)
               \/ CreateFails(q)
      BY <3>2, <2>1, WalkStep
    <3>3. CASE Insert(q)
      BY <3>3, <2>1, InsertStep
    <3>4. CASE ReadLocks(q) \/ StreamLocks(q) \/ DeleteLocks(q)
      BY <3>4, <2>1, LockStep
    <3>5. CASE ReadReturns(q) \/ StreamEnds(q) \/ DeleteFails(q) \/ DeleteReturns(q)
      BY <3>5, <2>1, UnlockStep
    <3>6. CASE DeleteRow(q) \/ DeleteRemoves(q)
      BY <3>6, <2>1, DeleteStep
    <3>7. CASE CreateRow(q)
      BY <3>7, <2>1, CreatedRowStep DEF CreateRow, Fresh
    <3>8. CASE CreateInserts(q)
      BY <3>8, <2>1, CreateInsertsStep
    <3> QED
      BY <2>2, <3>1, <3>2, <3>3, <3>4, <3>5, <3>6, <3>7, <3>8 DEF Serve
  <2>3. ASSUME NEW q \in Requests, ClientGone(q) PROVE CacheInv'
    <3>1. CASE DeleteDropped(q)
      BY <3>1, <2>1, UnlockStep
    <3>2. CASE CreateDropped(q)
      BY <3>2, <2>1, CreateDroppedStep
    <3>3. CASE Leaves(q)
      BY <3>3, <2>1, UnlockStep, WalkStep
    <3> QED
      BY <2>3, <3>1, <3>2, <3>3 DEF ClientGone
  <2>4. ASSUME NEW q \in Requests, LateStatement(q) PROVE CacheInv'
    <3>1. CASE KindOf[q] = "create"
      <4>1. /\ row' = [row EXCEPT ![SessionOf[q]] = TRUE]
            /\ Fresh(q) /\ q \in late /\ late' = late \ {q}
            /\ UNCHANGED <<map, mutex, pc, obj, history>>
        BY <2>4, <3>1 DEF LateStatement, Fresh
      <4> QED
        BY <4>1, <2>1, CreatedRowStep
    <3>2. CASE KindOf[q] # "create"
      BY <2>4, <3>2, <2>1, LateDeleteStep DEF LateStatement
    <3> QED
      BY <3>1, <3>2
  <2>5. CASE UNCHANGED cacheVars
    BY <2>5, <2>1 DEF cacheVars, history, CacheInv, KindInv, LateInv, FreshInv, Fresh,
       LoaderInv, UserInv, UsesTheObject, HolderInv, OneMutexUnlessDisplaced, RowsAreKept,
       NoGhostEntry, Disturbed, Using
  <2> QED
    BY <2>2, <2>3, <2>4, <2>5 DEF CacheNext
<1> QED
  BY <1>1, <1>2, PTL DEF CacheSpec

\* Two requests of one session never work with different mutexes, whatever order the
\* lookups, loads, failures, deletions and dropped handlers come in, unless an eviction
\* took the session's object from a request using it, or a creation was overtaken
\* (restore_session's double-checked, single-flight loading).
THEOREM OneMutex == CacheSpec => []OneMutexUnlessDisplaced
<1>1. CacheInv => OneMutexUnlessDisplaced
  BY DEF CacheInv
<1> QED
  BY <1>1, CacheInvariant, PTL

\* No deletion takes the row from under a run that was accepted on it, and none leaves
\* its session in the map, unless its handler was dropped half-way or the session was
\* displaced (delete_session).
THEOREM DeletionsAreClean == CacheSpec => []DeletionIsClean
<1>1. CacheInv => DeletionIsClean
  BY DEF CacheInv, DeletionIsClean
<1> QED
  BY <1>1, CacheInvariant, PTL
=============================================================================
