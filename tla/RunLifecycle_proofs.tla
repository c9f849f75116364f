------------------------ MODULE RunLifecycle_proofs ------------------------
(***************************************************************************)
(* Safety of the run lifecycle for any number of runs, sessions, Stops and *)
(* any positive capacities.                                                *)
(***************************************************************************)
EXTENDS RunLifecycle, SequenceTheorems, TLAPS

-----------------------------------------------------------------------------
(* Sequences *)

\* Removing one position of a sequence (VecDeque::remove in register) gives a
\* sequence over the same set that is one element shorter.
LEMMA RemoveAtType ==
    ASSUME NEW S, NEW s \in Seq(S), NEW i \in DOMAIN s
    PROVE  /\ RemoveAt(s, i) \in Seq(S)
           /\ Len(RemoveAt(s, i)) = Len(s) - 1
<1> DEFINE a == SubSeq(s, 1, i - 1)  b == SubSeq(s, i + 1, Len(s))
<1>0. Len(s) \in Nat /\ i \in 1 .. Len(s)
  BY LenProperties
<1>1. a \in Seq(S) /\ Len(a) = i - 1
  BY <1>0, SubSeqProperties
<1>2. b \in Seq(S) /\ Len(b) = Len(s) - i
  BY <1>0, SubSeqProperties
<1>3. a \o b \in Seq(S) /\ Len(a \o b) = Len(a) + Len(b)
  BY <1>1, <1>2, ConcatProperties
<1>4. RemoveAt(s, i) = a \o b
  BY DEF RemoveAt
<1> HIDE DEF a, b
<1> QED
  BY <1>0, <1>1, <1>2, <1>3, <1>4

\* The elements of a sequence over S are in S.
LEMMA ElementsType ==
    ASSUME NEW S, NEW s \in Seq(S)
    PROVE  Elements(s) \subseteq S
BY ElementOfSeq, LenProperties DEF Elements

\* The empty queue (both queues of a new registry) has no elements.
LEMMA ElementsEmpty == Elements(<< >>) = {}
BY DEF Elements

\* push_back adds exactly the pushed element to a queue.
LEMMA ElementsAppend ==
    ASSUME NEW S, NEW s \in Seq(S), NEW x \in S
    PROVE  Elements(Append(s, x)) = Elements(s) \union {x}
<1> DEFINE a == Append(s, x)
<1>1. /\ a \in Seq(S) /\ Len(s) \in Nat /\ Len(a) = Len(s) + 1
      /\ \A i \in 1 .. Len(s) : a[i] = s[i]
      /\ a[Len(s) + 1] = x
  BY AppendProperties, LenProperties
<1>2. DOMAIN a = 1 .. (Len(s) + 1) /\ DOMAIN s = 1 .. Len(s)
  BY <1>1, LenProperties
<1> HIDE DEF a
<1>3. Elements(a) = Elements(s) \union {x}
  BY <1>1, <1>2 DEF Elements
<1> QED
  BY <1>3 DEF a

\* pop_front loses at most the front element of a queue.
LEMMA ElementsTail ==
    ASSUME NEW S, NEW s \in Seq(S), s # << >>
    PROVE  /\ Head(s) \in Elements(s)
           /\ Elements(Tail(s)) \subseteq Elements(s)
           /\ Elements(s) \subseteq Elements(Tail(s)) \union {Head(s)}
<1> DEFINE t == Tail(s)
<1>1. /\ t \in Seq(S) /\ Len(s) \in Nat \ {0} /\ Len(t) = Len(s) - 1
      /\ \A i \in 1 .. Len(t) : t[i] = s[i + 1]
      /\ Head(s) = s[1]
  BY HeadTailProperties, EmptySeq
<1>2. DOMAIN t = 1 .. Len(t) /\ DOMAIN s = 1 .. Len(s)
  BY <1>1, LenProperties
<1> HIDE DEF t
<1>3. Elements(t) \subseteq Elements(s)
  BY <1>1, <1>2 DEF Elements
<1>4. ASSUME NEW i \in DOMAIN s, i # 1 PROVE s[i] \in Elements(t)
  <2>1. i - 1 \in DOMAIN t /\ t[i - 1] = s[(i - 1) + 1]
    BY <1>1, <1>2, <1>4
  <2> QED
    BY <2>1, <1>1, <1>2 DEF Elements
<1>5. Elements(s) \subseteq Elements(t) \union {Head(s)}
  BY <1>1, <1>4 DEF Elements
<1>6. Head(s) \in Elements(s)
  BY <1>1, <1>2 DEF Elements
<1> QED
  BY <1>3, <1>5, <1>6 DEF t

\* Removing one position of a queue loses at most the element that was there.
LEMMA ElementsRemoveAt ==
    ASSUME NEW S, NEW s \in Seq(S), NEW i \in DOMAIN s
    PROVE  /\ Elements(RemoveAt(s, i)) \subseteq Elements(s)
           /\ Elements(s) \subseteq Elements(RemoveAt(s, i)) \union {s[i]}
<1> DEFINE a == SubSeq(s, 1, i - 1)  b == SubSeq(s, i + 1, Len(s))  q == a \o b
<1>0. Len(s) \in Nat /\ i \in 1 .. Len(s) /\ DOMAIN s = 1 .. Len(s)
  BY LenProperties
<1>1. a \in Seq(S) /\ Len(a) = i - 1 /\ \A j \in 1 .. (i - 1) : a[j] = s[j]
  BY <1>0, SubSeqProperties
<1>2. b \in Seq(S) /\ Len(b) = Len(s) - i /\ \A j \in 1 .. (Len(s) - i) : b[j] = s[i + j]
  BY <1>0, SubSeqProperties
<1> HIDE DEF a, b
<1>3. /\ q \in Seq(S) /\ Len(q) = Len(a) + Len(b)
      /\ \A j \in 1 .. Len(a) + Len(b) :
            q[j] = IF j <= Len(a) THEN a[j] ELSE b[j - Len(a)]
  BY <1>1, <1>2, ConcatProperties
<1> HIDE DEF q
<1>4. DOMAIN q = 1 .. (Len(s) - 1)
  <2>1. DOMAIN q = 1 .. Len(q)
    BY <1>3, LenProperties
  <2>2. Len(q) = Len(s) - 1
    BY <1>0, <1>1, <1>2, <1>3
  <2> QED
    BY <2>1, <2>2
<1>5. \A j \in 1 .. (i - 1) : q[j] = s[j]
  BY <1>0, <1>1, <1>2, <1>3
<1>6. ASSUME NEW j \in i .. (Len(s) - 1) PROVE q[j] = s[j + 1]
  <2>1. j - (i - 1) \in 1 .. (Len(s) - i) /\ i + (j - (i - 1)) = j + 1
    BY <1>0
  <2>2. q[j] = b[j - (i - 1)]
    BY <1>0, <1>1, <1>2, <1>3
  <2> QED
    BY <2>1, <2>2, <1>2
<1>7. Elements(q) \subseteq Elements(s)
  BY <1>0, <1>4, <1>5, <1>6 DEF Elements
<1>8. ASSUME NEW j \in DOMAIN s, j # i PROVE s[j] \in Elements(q)
  <2>1. CASE j < i
    BY <2>1, <1>0, <1>4, <1>5 DEF Elements
  <2>2. CASE j > i
    <3>1. j - 1 \in i .. (Len(s) - 1) /\ q[j - 1] = s[(j - 1) + 1]
      BY <2>2, <1>0, <1>6
    <3> QED
      BY <3>1, <1>0, <1>4 DEF Elements
  <2> QED
    BY <1>0, <1>8, <2>1, <2>2
<1>9. Elements(s) \subseteq Elements(q) \union {s[i]}
  BY <1>8 DEF Elements
<1>10. RemoveAt(s, i) = q
  BY DEF RemoveAt, q, a, b
<1> QED
  BY <1>7, <1>9, <1>10

\* find_or_pre_cancel keeps the marker queue within MAX_PRE_CANCELLED_RUNS.
LEMMA PushMarkerType ==
    ASSUME NEW r \in Runs,
           pre_cancelled \in Seq(Runs), Len(pre_cancelled) <= MAX_PRE_CANCELLED_RUNS
    PROVE  /\ PushMarker(r) \in Seq(Runs)
           /\ Len(PushMarker(r)) <= MAX_PRE_CANCELLED_RUNS
<1> DEFINE p == Append(pre_cancelled, r)
<1>1. p \in Seq(Runs) /\ Len(p) = Len(pre_cancelled) + 1 /\ p # << >>
  BY AppendProperties
<1>2. Tail(p) \in Seq(Runs) /\ Len(Tail(p)) = Len(p) - 1
  BY <1>1, HeadTailProperties
<1>3. MAX_PRE_CANCELLED_RUNS \in Nat /\ Len(pre_cancelled) \in Nat
  BY RunAssumption, LenProperties
<1> QED
  BY <1>1, <1>2, <1>3 DEF PushMarker

-----------------------------------------------------------------------------
(* Types.  RelayDelivers hands `held` to the client, so that the type of `ui`
   depends on what the relay may hold at each of its program points. *)

StopRecord == [pc : StopPcs, run : Runs \union {NoRun}, won : BOOLEAN]

\* What relay_agent_events can hold at each of its program points; a relay exists
\* only from SpawnRelay on.
HeldInv ==
    \A r \in Runs :
        /\ relay[r] \in {"none", "recv", "orphan", "done"} => held[r] = NoEvent
        /\ relay[r] = "holding" => held[r] \in Outcomes
        /\ handler[r] \in {"idle", "locked", "evicting", "registered"}
              => relay[r] = "none"

\* find_or_pre_cancel adds no marker but that of the run it was asked to stop.
LEMMA PushMarkerElements ==
    ASSUME NEW r \in Runs, pre_cancelled \in Seq(Runs)
    PROVE  Elements(PushMarker(r)) \subseteq Elements(pre_cancelled) \union {r}
<1> DEFINE p == Append(pre_cancelled, r)
<1>1. p \in Seq(Runs) /\ p # << >>
  BY AppendProperties
<1>2. Elements(p) = Elements(pre_cancelled) \union {r}
  BY ElementsAppend
<1>3. Elements(Tail(p)) \subseteq Elements(p)
  BY <1>1, ElementsTail
<1> QED
  BY <1>2, <1>3 DEF PushMarker

\* Moving a cancel_run request to another program point, with or without setting
\* what it won, keeps it a request record.
LEMMA StopTyped ==
    ASSUME stop \in [Stops -> StopRecord], NEW c \in Stops, NEW p \in StopPcs,
           NEW w \in BOOLEAN
    PROVE  /\ [stop EXCEPT ![c].pc = p] \in [Stops -> StopRecord]
           /\ [stop EXCEPT ![c].pc = p, ![c].won = w] \in [Stops -> StopRecord]
BY DEF StopRecord

\* Every step of handler, run task, relay or Stop keeps the types, and keeps the
\* relay holding an event only where relay_agent_events can hold one.
LEMMA TypeStep ==
    ASSUME TypeOK, HeldInv, [Next]_vars
    PROVE  TypeOK' /\ HeldInv'
<1> USE RunAssumption DEF TypeOK, HeldInv, Handlers, Tasks, Relays,
        Outcomes, Progress, NoEvent, PersistenceError,
        vars, registryVars, controlVars, taskVars, relayVars, channelVars, historyVars
<1>1. ASSUME NEW r \in Runs, TryLock(r) PROVE TypeOK' /\ HeldInv'
  BY <1>1 DEF TryLock
<1>2. ASSUME NEW r \in Runs, TryLockConflict(r) PROVE TypeOK' /\ HeldInv'
  BY <1>2 DEF TryLockConflict
<1>3. ASSUME NEW r \in Runs, AbortAcceptance(r) PROVE TypeOK' /\ HeldInv'
  BY <1>3 DEF AbortAcceptance
<1>4. ASSUME NEW r \in Runs, AbortReleases(r) PROVE TypeOK' /\ HeldInv'
  BY <1>4 DEF AbortReleases
<1>5. ASSUME NEW r \in Runs, AbortFinishes(r) PROVE TypeOK' /\ HeldInv'
  BY <1>5 DEF AbortFinishes
<1>6. ASSUME NEW r \in Runs, RegisterRefused(r) PROVE TypeOK' /\ HeldInv'
  <2>1. pre_cancelled' \in Seq(Runs) /\ Len(pre_cancelled') <= MAX_PRE_CANCELLED_RUNS
    BY <1>6, RemoveAtType, LenProperties DEF RegisterRefused, MarkersOf
  <2> QED
    BY <2>1, <1>6 DEF RegisterRefused
<1>7. ASSUME NEW r \in Runs, Register(r) PROVE TypeOK' /\ HeldInv'
  BY <1>7 DEF Register
<1>8. ASSUME NEW r \in Runs, EvictFinished(r) PROVE TypeOK' /\ HeldInv'
  <2>1. controls' \subseteq Runs /\ control_order' \in Seq(Runs)
    BY <1>8, RemoveAtType DEF EvictFinished
  <2> QED
    BY <2>1, <1>8 DEF EvictFinished
<1>9. ASSUME NEW r \in Runs, Registered(r) PROVE TypeOK' /\ HeldInv'
  BY <1>9 DEF Registered
<1>10. ASSUME NEW r \in Runs, SpawnRelay(r) PROVE TypeOK' /\ HeldInv'
  <2>1. TypeOK'
    BY <1>10 DEF SpawnRelay
  <2>2. HeldInv'
    BY <1>10 DEF SpawnRelay
  <2> QED
    BY <2>1, <2>2
<1>11. ASSUME NEW r \in Runs, SpawnRun(r) PROVE TypeOK' /\ HeldInv'
  BY <1>11 DEF SpawnRun
<1>12. ASSUME NEW r \in Runs, ClientDisconnects(r) PROVE TypeOK' /\ HeldInv'
  BY <1>12 DEF ClientDisconnects
<1>13. ASSUME NEW r \in Runs, StartRunner(r) PROVE TypeOK' /\ HeldInv'
  BY <1>13 DEF StartRunner
<1>14. ASSUME NEW r \in Runs, RefuseDriftedCursor(r) PROVE TypeOK' /\ HeldInv'
  BY <1>14 DEF RefuseDriftedCursor
<1>15. ASSUME NEW r \in Runs, RunnerEmits(r) PROVE TypeOK' /\ HeldInv'
  BY <1>15 DEF RunnerEmits
<1>16. ASSUME NEW r \in Runs, NEW kind \in Outcomes, RunnerCompletes(r, kind)
      PROVE TypeOK' /\ HeldInv'
  BY <1>16 DEF RunnerCompletes
<1>17. ASSUME NEW r \in Runs, NEW kind, RunnerObservesClosed(r, kind)
      PROVE TypeOK' /\ HeldInv'
  BY <1>17 DEF RunnerObservesClosed
<1>18. ASSUME NEW r \in Runs, PersistCommits(r) PROVE TypeOK' /\ HeldInv'
  BY <1>18 DEF PersistCommits
<1>19. ASSUME NEW r \in Runs, PersistFails(r) PROVE TypeOK' /\ HeldInv'
  BY <1>19 DEF PersistFails
<1>20. ASSUME NEW r \in Runs, RunTaskReturns(r) PROVE TypeOK' /\ HeldInv'
  BY <1>20 DEF RunTaskReturns
<1>21. ASSUME NEW r \in Runs, RunTaskPanics(r) PROVE TypeOK' /\ HeldInv'
  BY <1>21 DEF RunTaskPanics
<1>22. ASSUME NEW r \in Runs, ReleaseSession(r) PROVE TypeOK' /\ HeldInv'
  BY <1>22 DEF ReleaseSession
<1>23. ASSUME NEW r \in Runs, FinishRun(r) PROVE TypeOK' /\ HeldInv'
  BY <1>23 DEF FinishRun
<1>24. ASSUME NEW r \in Runs, RelayBreaks(r) PROVE TypeOK' /\ HeldInv'
  BY <1>24 DEF RelayBreaks
<1>25. ASSUME NEW r \in Runs, RelayTakesProgress(r) PROVE TypeOK' /\ HeldInv'
  BY <1>25 DEF RelayTakesProgress, RelayMayReceive
<1>26. ASSUME NEW r \in Runs, RelayForwards(r) PROVE TypeOK' /\ HeldInv'
  BY <1>26 DEF RelayForwards
<1>27. ASSUME NEW r \in Runs, RelayMarksTerminal(r) PROVE TypeOK' /\ HeldInv'
  BY <1>27 DEF RelayMarksTerminal, Terminal, RelayMayReceive
<1>28. ASSUME NEW r \in Runs, RelayLosesTerminal(r) PROVE TypeOK' /\ HeldInv'
  BY <1>28 DEF RelayLosesTerminal, RelayMayReceive
<1>29. ASSUME NEW r \in Runs, RelaySenderGone(r) PROVE TypeOK' /\ HeldInv'
  BY <1>29 DEF RelaySenderGone, RelayMayReceive
<1>30. ASSUME NEW r \in Runs, RelayDelivers(r) PROVE TypeOK' /\ HeldInv'
  BY <1>30 DEF RelayDelivers, Settled
<1>31. ASSUME NEW c \in Stops, NEW r \in Runs, StopFindsControl(c, r)
      PROVE TypeOK' /\ HeldInv'
  <2>1. stop' \in [Stops -> StopRecord]
    BY <1>31 DEF StopFindsControl, StopRecord, StopPcs
  <2> QED
    BY <2>1, <1>31 DEF StopFindsControl, StopRecord
<1>32. ASSUME NEW c \in Stops, NEW r \in Runs, StopPreCancels(c, r)
      PROVE TypeOK' /\ HeldInv'
  <2>1. stop' \in [Stops -> StopRecord]
    BY <1>32 DEF StopPreCancels, StopRecord, StopPcs
  <2>2. pre_cancelled' \in Seq(Runs) /\ Len(pre_cancelled') <= MAX_PRE_CANCELLED_RUNS
    BY <1>32, PushMarkerType DEF StopPreCancels
  <2>3. preAcked' \subseteq Runs /\ dropped' \subseteq Runs
    BY <1>32, ElementsType DEF StopPreCancels
  <2> QED
    BY <2>1, <2>2, <2>3, <1>32 DEF StopPreCancels, StopRecord
<1>33. ASSUME NEW c \in Stops, RequestCancel(c) PROVE TypeOK' /\ HeldInv'
  <2>1. stop' \in [Stops -> StopRecord]
    BY <1>33, StopTyped DEF RequestCancel, CancelWon, StopRecord, StopPcs
  <2> QED
    BY <2>1, <1>33 DEF RequestCancel, StopRecord
<1>34. ASSUME NEW c \in Stops, SignalCancel(c) PROVE TypeOK' /\ HeldInv'
  <2>1. stop' \in [Stops -> StopRecord]
    BY <1>34, StopTyped DEF SignalCancel, StopRecord, StopPcs
  <2> QED
    BY <2>1, <1>34 DEF SignalCancel, StopRecord
<1>35. ASSUME NEW c \in Stops, StopAnswers(c) PROVE TypeOK' /\ HeldInv'
  <2>1. stop' \in [Stops -> StopRecord]
    BY <1>35, StopTyped DEF StopAnswers, StopRecord, StopPcs
  <2> QED
    BY <2>1, <1>35 DEF StopAnswers, StopRecord
<1>36. ASSUME NEW c \in Stops, StopTimesOut(c) PROVE TypeOK' /\ HeldInv'
  <2>1. stop' \in [Stops -> StopRecord]
    BY <1>36, StopTyped DEF StopTimesOut, StopRecord, StopPcs
  <2> QED
    BY <2>1, <1>36 DEF StopTimesOut, StopRecord
<1>37. CASE UNCHANGED vars
  BY <1>37
<1> HIDE DEF TypeOK, HeldInv, Handlers, Tasks, Relays, vars
<1> QED
  BY <1>1, <1>2, <1>3, <1>4, <1>5, <1>6, <1>7, <1>8, <1>9, <1>10, <1>11, <1>12,
     <1>13, <1>14, <1>15, <1>16, <1>17, <1>18, <1>19, <1>20, <1>21, <1>22, <1>23,
     <1>24, <1>25, <1>26, <1>27, <1>28, <1>29, <1>30, <1>31, <1>32, <1>33, <1>34,
     <1>35, <1>36, <1>37
  DEF Next, HandlerStep, TaskStep, RelayStep, StopStep

\* The types hold when the server starts.
LEMMA TypeInit == Init => TypeOK /\ HeldInv
<1> SUFFICES ASSUME Init PROVE TypeOK /\ HeldInv
  OBVIOUS
<1>1. <<>> \in Seq(Runs) /\ Len(<<>>) = 0 /\ <<>> \in Seq(Outcomes \union {Progress})
  BY EmptySeq
<1>2. stop \in [Stops -> [pc : StopPcs, run : Runs \union {NoRun}, won : BOOLEAN]]
  BY DEF Init, StopPcs
<1> QED
  BY <1>1, <1>2, RunAssumption
  DEF Init, TypeOK, HeldInv, Handlers, Tasks, Relays, Outcomes, Progress, NoEvent

\* TypeOK is an invariant of RunLifecycle: every variable keeps its type, and the
\* queue of pre-cancel markers (find_or_pre_cancel) its cap.
THEOREM TypeCorrect == Spec => []TypeOK
<1>1. TypeOK /\ HeldInv /\ [Next]_vars => TypeOK' /\ HeldInv'
  BY TypeStep
<1> QED
  BY <1>1, TypeInit, PTL DEF Spec

-----------------------------------------------------------------------------
(* The session mutex.  Ownership has to be known exactly, and the program
   points of handler and task have to exclude each other, before it can be
   shown that a finished run never takes the mutex again. *)

Live(r) ==
    \/ handler[r] \in {"locked", "evicting", "registered", "relayed", "abort"}
    \/ handler[r] = "spawned" /\ task[r] \notin {"released", "done"}

LockInv ==
    \A r \in Runs :
        /\ Live(r) => mutex[SessionOf[r]] = r
        /\ mutex[SessionOf[r]] = r => Live(r)
        /\ task[r] = "none" <=> handler[r] # "spawned"
        /\ finished[r] => handler[r] = "rejected" \/ task[r] = "done"

\* No step breaks the correspondence between the session mutex and the program
\* points that hold its guard, nor lets a finished run take the mutex again.
LEMMA LockStep ==
    ASSUME TypeOK, LockInv, [Next]_vars
    PROVE  LockInv'
<1> USE RunAssumption DEF LockInv, Live, TypeOK, Handlers, Tasks, registryVars,
        controlVars, taskVars, relayVars, channelVars, historyVars
<1> DEFINE Frame == <<mutex, handler, task, finished>>
<1>1. CASE UNCHANGED Frame
  BY <1>1
<1>2. ASSUME NEW r \in Runs, TryLock(r) PROVE LockInv'
  BY <1>2 DEF TryLock, SessionFree
<1>3. ASSUME NEW r \in Runs, TryLockConflict(r) PROVE LockInv'
  BY <1>3 DEF TryLockConflict
<1>4. ASSUME NEW r \in Runs, AbortAcceptance(r) PROVE LockInv'
  BY <1>4 DEF AbortAcceptance
<1>5. ASSUME NEW r \in Runs, AbortReleases(r) PROVE LockInv'
  BY <1>5 DEF AbortReleases
<1>6. ASSUME NEW r \in Runs, AbortFinishes(r) PROVE LockInv'
  BY <1>6 DEF AbortFinishes
<1>7. ASSUME NEW r \in Runs, RegisterRefused(r) PROVE LockInv'
  BY <1>7 DEF RegisterRefused
<1>8. ASSUME NEW r \in Runs, Register(r) PROVE LockInv'
  BY <1>8 DEF Register
<1>9. ASSUME NEW r \in Runs, Registered(r) PROVE LockInv'
  BY <1>9 DEF Registered
<1>10. ASSUME NEW r \in Runs, SpawnRelay(r) PROVE LockInv'
  BY <1>10 DEF SpawnRelay
<1>11. ASSUME NEW r \in Runs, SpawnRun(r) PROVE LockInv'
  BY <1>11 DEF SpawnRun
<1>12. ASSUME NEW r \in Runs, StartRunner(r) PROVE LockInv'
  BY <1>12 DEF StartRunner
<1>13. ASSUME NEW r \in Runs, RefuseDriftedCursor(r) PROVE LockInv'
  BY <1>13 DEF RefuseDriftedCursor
<1>14. ASSUME NEW r \in Runs, NEW kind \in Outcomes, RunnerCompletes(r, kind)
      PROVE  LockInv'
  BY <1>14 DEF RunnerCompletes
<1>15. ASSUME NEW r \in Runs, NEW kind \in {"cancelled", "failed"},
             RunnerObservesClosed(r, kind)
      PROVE  LockInv'
  BY <1>15 DEF RunnerObservesClosed
<1>16. ASSUME NEW r \in Runs, PersistCommits(r) PROVE LockInv'
  BY <1>16 DEF PersistCommits
<1>17. ASSUME NEW r \in Runs, PersistFails(r) PROVE LockInv'
  BY <1>17 DEF PersistFails
<1>18. ASSUME NEW r \in Runs, RunTaskReturns(r) PROVE LockInv'
  BY <1>18 DEF RunTaskReturns
<1>19. ASSUME NEW r \in Runs, RunTaskPanics(r) PROVE LockInv'
  BY <1>19 DEF RunTaskPanics
<1>20. ASSUME NEW r \in Runs, ReleaseSession(r) PROVE LockInv'
  BY <1>20 DEF ReleaseSession
<1>21. ASSUME NEW r \in Runs, FinishRun(r) PROVE LockInv'
  BY <1>21 DEF FinishRun, SessionReleased
<1>22. ASSUME NEW r \in Runs,
             \/ EvictFinished(r) \/ ClientDisconnects(r) \/ RunnerEmits(r)
             \/ RelayBreaks(r) \/ RelayTakesProgress(r) \/ RelayForwards(r)
             \/ RelayMarksTerminal(r) \/ RelayLosesTerminal(r)
             \/ RelaySenderGone(r) \/ RelayDelivers(r)
      PROVE  UNCHANGED Frame
  BY <1>22 DEF EvictFinished, ClientDisconnects, RunnerEmits, RelayBreaks,
     RelayTakesProgress, RelayForwards, RelayMarksTerminal, RelayLosesTerminal,
     RelaySenderGone, RelayDelivers
<1>23. ASSUME NEW c \in Stops,
             \/ \E r \in Runs : StopFindsControl(c, r)
             \/ \E r \in Runs : StopPreCancels(c, r)
             \/ RequestCancel(c) \/ SignalCancel(c) \/ StopAnswers(c)
             \/ StopTimesOut(c)
      PROVE  UNCHANGED Frame
  BY <1>23 DEF StopFindsControl, StopPreCancels, RequestCancel, SignalCancel,
     StopAnswers, StopTimesOut
<1>24. CASE UNCHANGED vars
  BY <1>24, <1>1 DEF vars
<1> HIDE DEF Frame, LockInv, Live, TypeOK, Handlers, Tasks, registryVars,
        controlVars, taskVars, relayVars, channelVars, historyVars
<1> QED
  BY <1>1, <1>2, <1>3, <1>4, <1>5, <1>6, <1>7, <1>8, <1>9, <1>10, <1>11, <1>12,
     <1>13, <1>14, <1>15, <1>16, <1>17, <1>18, <1>19, <1>20, <1>21, <1>22, <1>23,
     <1>24 DEF Next, HandlerStep, TaskStep, RelayStep, StopStep

(* What the relay holds or will find in the channel is what storage gets. *)

Emitted(r, e) == e \in Elements(chan[r]) \/ held[r] = e

OutcomeInv ==
    \A r \in Runs :
        /\ persistence[r] = "committed"
              => task[r] \in {"persisted", "unwinding", "released", "done"}
        /\ \A e \in Outcomes : Emitted(r, e) =>
              /\ task[r] \in {"outcome", "persisted", "unwinding", "released", "done"}
              /\ task[r] = "outcome" => outcome[r] = e
              /\ persistence[r] = "committed" => db[r] = e

\* No step separates the terminal event the relay holds, or will find in the
\* channel, from the outcome that finalize_run_persistence stores.
LEMMA OutcomeStep ==
    ASSUME TypeOK, HeldInv, LockInv, OutcomeInv, [Next]_vars
    PROVE  OutcomeInv'
<1> USE RunAssumption DEF OutcomeInv, Emitted, TypeOK, HeldInv, LockInv, Tasks,
        Relays, Outcomes, Progress, NoEvent, registryVars, controlVars, taskVars,
        relayVars, channelVars, historyVars
<1> DEFINE Frame == <<chan, held, task, persistence, outcome, db>>
<1>1. CASE UNCHANGED Frame
  BY <1>1
<1>2. ASSUME NEW r \in Runs, SpawnRun(r) PROVE OutcomeInv'
  <2>1. task[r] = "none"
    BY <1>2 DEF SpawnRun
  <2> QED
    BY <2>1, <1>2 DEF SpawnRun
<1>3. ASSUME NEW r \in Runs, StartRunner(r) PROVE OutcomeInv'
  BY <1>3 DEF StartRunner
<1>4. ASSUME NEW r \in Runs, RefuseDriftedCursor(r) PROVE OutcomeInv'
  BY <1>4 DEF RefuseDriftedCursor
<1>5. ASSUME NEW r \in Runs, RunnerEmits(r) PROVE OutcomeInv'
  <2>0. /\ chan[r] \in Seq(Outcomes \union {Progress})
        /\ chan'[r] = Append(chan[r], Progress)
        /\ Progress \in Outcomes \union {Progress}
    BY <1>5 DEF RunnerEmits
  <2>1. Elements(chan'[r]) = Elements(chan[r]) \union {Progress}
    BY ONLY <2>0, ElementsAppend
  <2>2. \A q \in Runs \ {r} : chan'[q] = chan[q]
    BY <1>5 DEF RunnerEmits
  <2>3. \A q \in Runs, e \in Outcomes : Emitted(q, e)' => Emitted(q, e)
    BY <2>1, <2>2, <1>5 DEF RunnerEmits
  <2> HIDE DEF Emitted
  <2> QED
    BY <2>3, <1>5 DEF RunnerEmits
<1>6. ASSUME NEW r \in Runs, NEW kind \in Outcomes, RunnerCompletes(r, kind)
      PROVE  OutcomeInv'
  <2>0. /\ chan[r] \in Seq(Outcomes \union {Progress})
        /\ chan'[r] = Append(chan[r], kind)
        /\ kind \in Outcomes \union {Progress}
    BY <1>6 DEF RunnerCompletes
  <2>1. Elements(chan'[r]) = Elements(chan[r]) \union {kind}
    BY ONLY <2>0, ElementsAppend
  <2>2. \A q \in Runs \ {r} : chan'[q] = chan[q]
    BY <1>6 DEF RunnerCompletes
  <2>3. \A q \in Runs, e \in Outcomes :
           Emitted(q, e)' => Emitted(q, e) \/ (q = r /\ e = kind)
    BY <2>1, <2>2, <1>6 DEF RunnerCompletes
  <2> HIDE DEF Emitted
  <2> QED
    BY <2>3, <1>6 DEF RunnerCompletes
<1>7. ASSUME NEW r \in Runs, NEW kind \in {"cancelled", "failed"}, RunnerObservesClosed(r, kind)
      PROVE  OutcomeInv'
  BY <1>7 DEF RunnerObservesClosed
<1>8. ASSUME NEW r \in Runs, PersistCommits(r) PROVE OutcomeInv'
  BY <1>8 DEF PersistCommits
<1>9. ASSUME NEW r \in Runs, PersistFails(r) PROVE OutcomeInv'
  BY <1>9 DEF PersistFails
<1>10. ASSUME NEW r \in Runs, RunTaskReturns(r) PROVE OutcomeInv'
  BY <1>10 DEF RunTaskReturns
<1>11. ASSUME NEW r \in Runs, RunTaskPanics(r) PROVE OutcomeInv'
  BY <1>11 DEF RunTaskPanics
<1>12. ASSUME NEW r \in Runs, ReleaseSession(r) PROVE OutcomeInv'
  BY <1>12 DEF ReleaseSession
<1>13. ASSUME NEW r \in Runs, FinishRun(r) PROVE OutcomeInv'
  BY <1>13 DEF FinishRun, SessionReleased
<1>14. ASSUME NEW r \in Runs, RelayBreaks(r) PROVE OutcomeInv'
  BY <1>14, ElementsEmpty DEF RelayBreaks
<1>15. ASSUME NEW r \in Runs, RelayTakesProgress(r) PROVE OutcomeInv'
  BY <1>15, ElementsTail DEF RelayTakesProgress, RelayMayReceive
<1>16. ASSUME NEW r \in Runs, RelayForwards(r) PROVE OutcomeInv'
  BY <1>16 DEF RelayForwards
<1>17. ASSUME NEW r \in Runs, RelayMarksTerminal(r) PROVE OutcomeInv'
  BY <1>17, ElementsTail DEF RelayMarksTerminal, RelayMayReceive, Terminal
<1>18. ASSUME NEW r \in Runs, RelayLosesTerminal(r) PROVE OutcomeInv'
  BY <1>18, ElementsEmpty DEF RelayLosesTerminal, RelayMayReceive
<1>19. ASSUME NEW r \in Runs, RelayDelivers(r) PROVE OutcomeInv'
  BY <1>19 DEF RelayDelivers
<1>20. ASSUME NEW r \in Runs,
             \/ TryLock(r) \/ TryLockConflict(r) \/ AbortAcceptance(r)
             \/ AbortReleases(r) \/ AbortFinishes(r) \/ RegisterRefused(r)
             \/ Register(r) \/ EvictFinished(r) \/ Registered(r)
             \/ SpawnRelay(r) \/ ClientDisconnects(r) \/ RelaySenderGone(r)
      PROVE  UNCHANGED Frame
  BY <1>20 DEF TryLock, TryLockConflict, AbortAcceptance, AbortReleases,
     AbortFinishes, RegisterRefused, Register, EvictFinished, Registered,
     SpawnRelay, ClientDisconnects, RelaySenderGone
<1>21. ASSUME NEW c \in Stops,
             \/ \E r \in Runs : StopFindsControl(c, r)
             \/ \E r \in Runs : StopPreCancels(c, r)
             \/ RequestCancel(c) \/ SignalCancel(c) \/ StopAnswers(c)
             \/ StopTimesOut(c)
      PROVE  UNCHANGED Frame
  BY <1>21 DEF StopFindsControl, StopPreCancels, RequestCancel, SignalCancel,
     StopAnswers, StopTimesOut
<1>22. CASE UNCHANGED vars
  BY <1>22, <1>1 DEF vars
<1> HIDE DEF Frame, OutcomeInv, Emitted, TypeOK, HeldInv, LockInv, Tasks, Relays,
        Outcomes, Progress, NoEvent, registryVars, controlVars, taskVars, relayVars,
        channelVars, historyVars
<1> QED
  BY <1>1, <1>2, <1>3, <1>4, <1>5, <1>6, <1>7, <1>8, <1>9, <1>10, <1>11, <1>12,
     <1>13, <1>14, <1>15, <1>16, <1>17, <1>18, <1>19, <1>20, <1>21, <1>22 DEF Next,
     HandlerStep, TaskStep, RelayStep, StopStep

(* What the client was told. *)

ClientInv ==
    \A r \in Runs :
        /\ relay[r] = "holding" => state[r] = "terminal"
        /\ ui[r] # NoEvent => finished[r]
        /\ ui[r] \in Outcomes =>
              state[r] = "terminal" /\ persistence[r] = "committed" /\ db[r] = ui[r]
        /\ ui[r] = PersistenceError => persistence[r] # "committed"

\* What the client was told stays true of storage, of the finish flag and of the
\* terminal state that mark_terminal won.
LEMMA ClientStep ==
    ASSUME TypeOK, HeldInv, LockInv, OutcomeInv, ClientInv, [Next]_vars
    PROVE  ClientInv'
<1> USE RunAssumption DEF ClientInv, LockInv, OutcomeInv, Emitted, TypeOK, HeldInv,
        Handlers, Tasks, Relays, Outcomes, NoEvent, PersistenceError, registryVars,
        controlVars, taskVars, relayVars, channelVars, historyVars
<1> DEFINE Frame == <<relay, state, ui, finished, persistence, db>>
<1>1. CASE UNCHANGED Frame
  BY <1>1
<1>2. ASSUME NEW r \in Runs, TryLockConflict(r) PROVE ClientInv'
  BY <1>2 DEF TryLockConflict
<1>3. ASSUME NEW r \in Runs, AbortFinishes(r) PROVE ClientInv'
  BY <1>3 DEF AbortFinishes
<1>4. ASSUME NEW r \in Runs, SpawnRelay(r) PROVE ClientInv'
  BY <1>4 DEF SpawnRelay
<1>5. ASSUME NEW r \in Runs, RefuseDriftedCursor(r) PROVE ClientInv'
  <2>1. ~finished[r] /\ ui[r] = NoEvent
    BY <1>5 DEF RefuseDriftedCursor
  <2> QED
    BY <2>1, <1>5 DEF RefuseDriftedCursor
<1>6. ASSUME NEW r \in Runs, PersistCommits(r) PROVE ClientInv'
  <2>1. ~finished[r] /\ ui[r] = NoEvent
    BY <1>6 DEF PersistCommits
  <2> QED
    BY <2>1, <1>6 DEF PersistCommits
<1>7. ASSUME NEW r \in Runs, PersistFails(r) PROVE ClientInv'
  <2>1. ~finished[r] /\ ui[r] = NoEvent
    BY <1>7 DEF PersistFails
  <2> QED
    BY <2>1, <1>7 DEF PersistFails
<1>8. ASSUME NEW r \in Runs, FinishRun(r) PROVE ClientInv'
  BY <1>8 DEF FinishRun, SessionReleased
<1>9. ASSUME NEW r \in Runs, RelayBreaks(r) PROVE ClientInv'
  BY <1>9 DEF RelayBreaks
<1>10. ASSUME NEW r \in Runs, RelayTakesProgress(r) PROVE ClientInv'
  BY <1>10 DEF RelayTakesProgress, RelayMayReceive
<1>11. ASSUME NEW r \in Runs, RelayForwards(r) PROVE ClientInv'
  BY <1>11 DEF RelayForwards
<1>12. ASSUME NEW r \in Runs, RelayMarksTerminal(r) PROVE ClientInv'
  BY <1>12 DEF RelayMarksTerminal, RelayMayReceive, TerminalWins
<1>13. ASSUME NEW r \in Runs, RelayLosesTerminal(r) PROVE ClientInv'
  BY <1>13 DEF RelayLosesTerminal, RelayMayReceive
<1>14. ASSUME NEW r \in Runs, RelaySenderGone(r) PROVE ClientInv'
  BY <1>14 DEF RelaySenderGone, RelayMayReceive
<1>15. ASSUME NEW r \in Runs, RelayDelivers(r) PROVE ClientInv'
  BY <1>15 DEF RelayDelivers, Settled
<1>16. ASSUME NEW c \in Stops, RequestCancel(c) PROVE ClientInv'
  BY <1>16 DEF RequestCancel
<1>17. ASSUME NEW r \in Runs,
             \/ TryLock(r) \/ AbortAcceptance(r) \/ AbortReleases(r)
             \/ RegisterRefused(r) \/ Register(r) \/ EvictFinished(r)
             \/ Registered(r) \/ SpawnRun(r) \/ ClientDisconnects(r)
             \/ StartRunner(r) \/ RunnerEmits(r)
             \/ \E kind \in Outcomes : RunnerCompletes(r, kind)
             \/ \E kind \in {"cancelled", "failed"} : RunnerObservesClosed(r, kind)
             \/ RunTaskReturns(r) \/ RunTaskPanics(r) \/ ReleaseSession(r)
      PROVE  UNCHANGED Frame
  BY <1>17 DEF TryLock, AbortAcceptance, AbortReleases, RegisterRefused, Register,
     EvictFinished, Registered, SpawnRun, ClientDisconnects, StartRunner,
     RunnerEmits, RunnerCompletes, RunnerObservesClosed, RunTaskReturns,
     RunTaskPanics, ReleaseSession
<1>18. ASSUME NEW c \in Stops,
             \/ \E r \in Runs : StopFindsControl(c, r)
             \/ \E r \in Runs : StopPreCancels(c, r)
             \/ SignalCancel(c) \/ StopAnswers(c) \/ StopTimesOut(c)
      PROVE  UNCHANGED Frame
  BY <1>18 DEF StopFindsControl, StopPreCancels, SignalCancel, StopAnswers,
     StopTimesOut
<1>19. CASE UNCHANGED vars
  BY <1>19, <1>1 DEF vars
<1> HIDE DEF Frame, ClientInv, LockInv, OutcomeInv, Emitted, TypeOK, HeldInv,
        Handlers, Tasks, Relays, Outcomes, NoEvent, PersistenceError, registryVars,
        controlVars, taskVars, relayVars, channelVars, historyVars
<1> QED
  BY <1>1, <1>2, <1>3, <1>4, <1>5, <1>6, <1>7, <1>8, <1>9, <1>10, <1>11, <1>12,
     <1>13, <1>14, <1>15, <1>16, <1>17, <1>18, <1>19 DEF Next, HandlerStep,
     TaskStep, RelayStep, StopStep

(* What the Stops were told. *)

StopInv ==
    \A c \in Stops : LET r == stop[c].run IN
        /\ stop[c].pc # "idle" => r \in Runs
        /\ r \in Runs \ preAcked =>
            /\ stop[c].pc \in {"ok", "failed"} => finished[r]
            /\ stop[c].pc = "ok" => persistence[r] = "committed"
            /\ stop[c].won => state[r] = "cancel_requested"

\* What a cancel_run request knows of its run stays true: it won only a run whose
\* state is cancel_requested, and was answered only after the run finished.
LEMMA StopsStep ==
    ASSUME TypeOK, LockInv, StopInv, [Next]_vars
    PROVE  StopInv'
<1> USE RunAssumption DEF StopInv, LockInv, TypeOK, StopPcs, Tasks, registryVars,
        controlVars, taskVars, relayVars, channelVars, historyVars
<1> DEFINE Frame == <<stop, preAcked, finished, persistence, state>>
<1>1. CASE UNCHANGED Frame
  BY <1>1
<1>2. ASSUME NEW r \in Runs, TryLockConflict(r) PROVE StopInv'
  BY <1>2 DEF TryLockConflict
<1>3. ASSUME NEW r \in Runs, AbortFinishes(r) PROVE StopInv'
  BY <1>3 DEF AbortFinishes
<1>4. ASSUME NEW r \in Runs, RefuseDriftedCursor(r) PROVE StopInv'
  <2>1. ~finished[r]
    BY <1>4 DEF RefuseDriftedCursor
  <2>2. /\ UNCHANGED <<stop, preAcked, finished, state>>
        /\ \A q \in Runs \ {r} : persistence'[q] = persistence[q]
    BY <1>4 DEF RefuseDriftedCursor
  <2>3. \A c \in Stops : stop[c].pc = "ok" /\ stop[c].run \in Runs \ preAcked
           => stop[c].run # r
    BY <2>1
  <2> QED
    BY <2>2, <2>3
<1>5. ASSUME NEW r \in Runs, PersistCommits(r) PROVE StopInv'
  BY <1>5 DEF PersistCommits
<1>6. ASSUME NEW r \in Runs, PersistFails(r) PROVE StopInv'
  <2>1. ~finished[r]
    BY <1>6 DEF PersistFails
  <2>2. /\ UNCHANGED <<stop, preAcked, finished, state>>
        /\ \A q \in Runs \ {r} : persistence'[q] = persistence[q]
    BY <1>6 DEF PersistFails
  <2>3. \A c \in Stops : stop[c].pc = "ok" /\ stop[c].run \in Runs \ preAcked
           => stop[c].run # r
    BY <2>1
  <2> QED
    BY <2>2, <2>3
<1>7. ASSUME NEW r \in Runs, FinishRun(r) PROVE StopInv'
  BY <1>7 DEF FinishRun, SessionReleased
<1>8. ASSUME NEW r \in Runs, RelayMarksTerminal(r) PROVE StopInv'
  BY <1>8 DEF RelayMarksTerminal, TerminalWins
<1>9. ASSUME NEW c \in Stops, NEW r \in Runs, StopFindsControl(c, r) PROVE StopInv'
  BY <1>9 DEF StopFindsControl
<1>10. ASSUME NEW c \in Stops, NEW r \in Runs, StopPreCancels(c, r) PROVE StopInv'
  BY <1>10 DEF StopPreCancels
<1>11. ASSUME NEW c \in Stops, RequestCancel(c) PROVE StopInv'
  BY <1>11 DEF RequestCancel, CancelWon
<1>12. ASSUME NEW c \in Stops, SignalCancel(c) PROVE StopInv'
  BY <1>12 DEF SignalCancel
<1>13. ASSUME NEW c \in Stops, StopAnswers(c) PROVE StopInv'
  BY <1>13 DEF StopAnswers
<1>14. ASSUME NEW c \in Stops, StopTimesOut(c) PROVE StopInv'
  BY <1>14 DEF StopTimesOut
<1>15. ASSUME NEW r \in Runs,
             \/ TryLock(r) \/ AbortAcceptance(r) \/ AbortReleases(r)
             \/ RegisterRefused(r) \/ Register(r) \/ EvictFinished(r)
             \/ Registered(r) \/ SpawnRelay(r) \/ SpawnRun(r)
             \/ ClientDisconnects(r) \/ StartRunner(r) \/ RunnerEmits(r)
             \/ \E kind \in Outcomes : RunnerCompletes(r, kind)
             \/ \E kind \in {"cancelled", "failed"} : RunnerObservesClosed(r, kind)
             \/ RunTaskReturns(r) \/ RunTaskPanics(r) \/ ReleaseSession(r)
             \/ RelayBreaks(r) \/ RelayTakesProgress(r) \/ RelayForwards(r)
             \/ RelayLosesTerminal(r) \/ RelaySenderGone(r) \/ RelayDelivers(r)
      PROVE  UNCHANGED Frame
  BY <1>15 DEF TryLock, AbortAcceptance, AbortReleases, RegisterRefused, Register,
     EvictFinished, Registered, SpawnRelay, SpawnRun, ClientDisconnects,
     StartRunner, RunnerEmits, RunnerCompletes, RunnerObservesClosed,
     RunTaskReturns, RunTaskPanics, ReleaseSession, RelayBreaks, RelayTakesProgress,
     RelayForwards, RelayLosesTerminal, RelaySenderGone, RelayDelivers
<1>16. CASE UNCHANGED vars
  BY <1>16, <1>1 DEF vars
<1> HIDE DEF Frame, StopInv, LockInv, TypeOK, StopPcs, Tasks, registryVars,
        controlVars, taskVars, relayVars, channelVars, historyVars
<1> QED
  BY <1>1, <1>2, <1>3, <1>4, <1>5, <1>6, <1>7, <1>8, <1>9, <1>10, <1>11, <1>12,
     <1>13, <1>14, <1>15, <1>16 DEF Next, HandlerStep, TaskStep, RelayStep, StopStep

\* The eviction loop of register leaves the control of every unfinished run in the
\* registry.
LEMMA StoppableStep ==
    ASSUME TypeOK, ActiveRunIsStoppable, [Next]_vars
    PROVE  ActiveRunIsStoppable'
<1> USE RunAssumption DEF ActiveRunIsStoppable, Accepted, TypeOK, Handlers,
        registryVars, controlVars, taskVars, relayVars, channelVars, historyVars
<1> DEFINE Frame == <<controls, handler, finished>>
<1>1. CASE UNCHANGED Frame
  BY <1>1
<1>2. ASSUME NEW r \in Runs, TryLock(r) PROVE ActiveRunIsStoppable'
  BY <1>2 DEF TryLock
<1>3. ASSUME NEW r \in Runs, TryLockConflict(r) PROVE ActiveRunIsStoppable'
  BY <1>3 DEF TryLockConflict
<1>4. ASSUME NEW r \in Runs, AbortAcceptance(r) PROVE ActiveRunIsStoppable'
  BY <1>4 DEF AbortAcceptance
<1>5. ASSUME NEW r \in Runs, AbortReleases(r) PROVE ActiveRunIsStoppable'
  BY <1>5 DEF AbortReleases
<1>6. ASSUME NEW r \in Runs, AbortFinishes(r) PROVE ActiveRunIsStoppable'
  BY <1>6 DEF AbortFinishes
<1>7. ASSUME NEW r \in Runs, RegisterRefused(r) PROVE ActiveRunIsStoppable'
  BY <1>7 DEF RegisterRefused
<1>8. ASSUME NEW r \in Runs, Register(r) PROVE ActiveRunIsStoppable'
  BY <1>8 DEF Register
<1>9. ASSUME NEW r \in Runs, EvictFinished(r) PROVE ActiveRunIsStoppable'
  BY <1>9 DEF EvictFinished, FirstFinished
<1>10. ASSUME NEW r \in Runs, Registered(r) PROVE ActiveRunIsStoppable'
  BY <1>10 DEF Registered
<1>11. ASSUME NEW r \in Runs, SpawnRelay(r) PROVE ActiveRunIsStoppable'
  BY <1>11 DEF SpawnRelay
<1>12. ASSUME NEW r \in Runs, SpawnRun(r) PROVE ActiveRunIsStoppable'
  BY <1>12 DEF SpawnRun
<1>13. ASSUME NEW r \in Runs, FinishRun(r) PROVE ActiveRunIsStoppable'
  BY <1>13 DEF FinishRun
<1>14. ASSUME NEW r \in Runs,
             \/ ClientDisconnects(r) \/ StartRunner(r) \/ RefuseDriftedCursor(r)
             \/ RunnerEmits(r)
             \/ \E kind \in Outcomes : RunnerCompletes(r, kind)
             \/ \E kind \in {"cancelled", "failed"} : RunnerObservesClosed(r, kind)
             \/ PersistCommits(r) \/ PersistFails(r) \/ RunTaskReturns(r)
             \/ RunTaskPanics(r) \/ ReleaseSession(r) \/ RelayBreaks(r)
             \/ RelayTakesProgress(r) \/ RelayForwards(r)
             \/ RelayMarksTerminal(r) \/ RelayLosesTerminal(r)
             \/ RelaySenderGone(r) \/ RelayDelivers(r)
      PROVE  UNCHANGED Frame
  BY <1>14 DEF ClientDisconnects, StartRunner, RefuseDriftedCursor, RunnerEmits,
     RunnerCompletes, RunnerObservesClosed, PersistCommits, PersistFails,
     RunTaskReturns, RunTaskPanics, ReleaseSession, RelayBreaks, RelayTakesProgress,
     RelayForwards, RelayMarksTerminal, RelayLosesTerminal, RelaySenderGone,
     RelayDelivers
<1>15. ASSUME NEW c \in Stops,
             \/ \E r \in Runs : StopFindsControl(c, r)
             \/ \E r \in Runs : StopPreCancels(c, r)
             \/ RequestCancel(c) \/ SignalCancel(c) \/ StopAnswers(c)
             \/ StopTimesOut(c)
      PROVE  UNCHANGED Frame
  BY <1>15 DEF StopFindsControl, StopPreCancels, RequestCancel, SignalCancel,
     StopAnswers, StopTimesOut
<1>16. CASE UNCHANGED vars
  BY <1>16, <1>1 DEF vars
<1> HIDE DEF Frame, ActiveRunIsStoppable, Accepted, TypeOK, Handlers, registryVars,
        controlVars, taskVars, relayVars, channelVars, historyVars
<1> QED
  BY <1>1, <1>2, <1>3, <1>4, <1>5, <1>6, <1>7, <1>8, <1>9, <1>10, <1>11, <1>12,
     <1>13, <1>14, <1>15, <1>16 DEF Next, HandlerStep, TaskStep, RelayStep, StopStep

(* The markers of the Stops that came first. *)

MarkerInv ==
    /\ dropped \intersect Elements(pre_cancelled) = {}
    /\ \A r \in preAcked \ dropped :
          /\ Accepted(r) => finished[r]
          /\ handler[r] \in {"idle", "locked"} => r \in Elements(pre_cancelled)

\* A run with an early Stop whose marker was not pushed out by the cap either still
\* has its marker or was refused by register.
LEMMA MarkerStep ==
    ASSUME TypeOK, ActiveRunIsStoppable, MarkerInv, [Next]_vars
    PROVE  MarkerInv'
<1> USE RunAssumption DEF MarkerInv, ActiveRunIsStoppable, Accepted, TypeOK,
        Handlers, registryVars, controlVars, taskVars, relayVars, channelVars,
        historyVars
<1> DEFINE Frame == <<dropped, pre_cancelled, preAcked, handler, finished>>
<1>1. CASE UNCHANGED Frame
  BY <1>1
<1>2. ASSUME NEW r \in Runs, TryLock(r) PROVE MarkerInv'
  BY <1>2 DEF TryLock
<1>3. ASSUME NEW r \in Runs, TryLockConflict(r) PROVE MarkerInv'
  BY <1>3 DEF TryLockConflict
<1>4. ASSUME NEW r \in Runs, AbortAcceptance(r) PROVE MarkerInv'
  BY <1>4 DEF AbortAcceptance
<1>5. ASSUME NEW r \in Runs, AbortReleases(r) PROVE MarkerInv'
  BY <1>5 DEF AbortReleases
<1>6. ASSUME NEW r \in Runs, AbortFinishes(r) PROVE MarkerInv'
  BY <1>6 DEF AbortFinishes
<1>7. ASSUME NEW r \in Runs, RegisterRefused(r) PROVE MarkerInv'
  BY <1>7, ElementsRemoveAt DEF RegisterRefused, MarkersOf
<1>8. ASSUME NEW r \in Runs, Register(r) PROVE MarkerInv'
  BY <1>8 DEF Register, MarkersOf, Elements
<1>9. ASSUME NEW r \in Runs, Registered(r) PROVE MarkerInv'
  BY <1>9 DEF Registered
<1>10. ASSUME NEW r \in Runs, SpawnRelay(r) PROVE MarkerInv'
  BY <1>10 DEF SpawnRelay
<1>11. ASSUME NEW r \in Runs, SpawnRun(r) PROVE MarkerInv'
  BY <1>11 DEF SpawnRun
<1>12. ASSUME NEW r \in Runs, FinishRun(r) PROVE MarkerInv'
  BY <1>12 DEF FinishRun
<1>13. ASSUME NEW c \in Stops, NEW r \in Runs, StopPreCancels(c, r) PROVE MarkerInv'
  <2>1. dropped' \intersect Elements(pre_cancelled') = {}
    BY <1>13 DEF StopPreCancels
  <2>2. ASSUME NEW q \in preAcked' \ dropped', Accepted(q)'
        PROVE  finished'[q]
    <3>1. CASE q = r
      BY <2>2, <3>1, <1>13 DEF StopPreCancels
    <3>2. CASE q # r
      <4>1. q \in preAcked
        BY <2>2, <3>2, <1>13 DEF StopPreCancels
      <4>2. q \notin dropped
        BY <2>2, <3>2, <1>13, PushMarkerElements DEF StopPreCancels
      <4> QED
        BY <2>2, <4>1, <4>2, <1>13 DEF StopPreCancels
    <3> QED
      BY <3>1, <3>2
  <2>3. ASSUME NEW q \in preAcked' \ dropped', handler'[q] \in {"idle", "locked"}
        PROVE  q \in Elements(pre_cancelled')
    <3>1. CASE q = r
      BY <2>3, <3>1, <1>13 DEF StopPreCancels
    <3>2. CASE q # r
      <4>1. q \in preAcked
        BY <2>3, <3>2, <1>13 DEF StopPreCancels
      <4>2. q \notin dropped
        BY <2>3, <3>2, <1>13, PushMarkerElements DEF StopPreCancels
      <4>3. q \in Elements(pre_cancelled)
        BY <2>3, <4>1, <4>2, <1>13 DEF StopPreCancels
      <4> QED
        BY <2>3, <4>3, <1>13 DEF StopPreCancels
    <3> QED
      BY <3>1, <3>2
  <2> QED
    BY <2>1, <2>2, <2>3
<1>14. ASSUME NEW r \in Runs,
             \/ EvictFinished(r) \/ ClientDisconnects(r) \/ StartRunner(r)
             \/ RefuseDriftedCursor(r) \/ RunnerEmits(r)
             \/ \E kind \in Outcomes : RunnerCompletes(r, kind)
             \/ \E kind \in {"cancelled", "failed"} : RunnerObservesClosed(r, kind)
             \/ PersistCommits(r) \/ PersistFails(r) \/ RunTaskReturns(r)
             \/ RunTaskPanics(r) \/ ReleaseSession(r) \/ RelayBreaks(r)
             \/ RelayTakesProgress(r) \/ RelayForwards(r)
             \/ RelayMarksTerminal(r) \/ RelayLosesTerminal(r)
             \/ RelaySenderGone(r) \/ RelayDelivers(r)
      PROVE  UNCHANGED Frame
  BY <1>14 DEF EvictFinished, ClientDisconnects, StartRunner, RefuseDriftedCursor,
     RunnerEmits, RunnerCompletes, RunnerObservesClosed, PersistCommits,
     PersistFails, RunTaskReturns, RunTaskPanics, ReleaseSession, RelayBreaks,
     RelayTakesProgress, RelayForwards, RelayMarksTerminal, RelayLosesTerminal,
     RelaySenderGone, RelayDelivers
<1>15. ASSUME NEW c \in Stops,
             \/ \E r \in Runs : StopFindsControl(c, r)
             \/ RequestCancel(c) \/ SignalCancel(c) \/ StopAnswers(c)
             \/ StopTimesOut(c)
      PROVE  UNCHANGED Frame
  BY <1>15 DEF StopFindsControl, RequestCancel, SignalCancel, StopAnswers,
     StopTimesOut
<1>16. CASE UNCHANGED vars
  BY <1>16, <1>1 DEF vars
<1> HIDE DEF Frame, MarkerInv, ActiveRunIsStoppable, Accepted, TypeOK, Handlers,
        registryVars, controlVars, taskVars, relayVars, channelVars, historyVars
<1> QED
  BY <1>1, <1>2, <1>3, <1>4, <1>5, <1>6, <1>7, <1>8, <1>9, <1>10, <1>11, <1>12,
     <1>13, <1>14, <1>15, <1>16 DEF Next, HandlerStep, TaskStep, RelayStep, StopStep

(* What a client that listens is told in the end. *)

\* Why a relay is where it is: a terminal state has its event in the relay's hands
\* or at the client, a signal means a Stop that won, a relay that still receives
\* will find the outcome of a run that reached one, and a relay without sender
\* belongs to a run that stored nothing.
RelayEnd(r) ==
    /\ relay[r] # "done" => ui[r] = NoEvent
    /\ state[r] = "terminal" =>
          \/ relay[r] = "holding"
          \/ relay[r] = "done" /\ (sse[r] => ui[r] # NoEvent)
    /\ cancel_tx[r] => state[r] = "cancel_requested"
    /\ relay[r] # "none" /\ ~tx[r] =>
          task[r] = "done" \/ handler[r] \in {"abort", "aborted", "rejected"}
    /\ relay[r] \in {"recv", "forward"}
          /\ (task[r] = "outcome" \/ persistence[r] = "committed")
          => \E e \in Outcomes : e \in Elements(chan[r])
    /\ relay[r] = "orphan" => ~tx[r] /\ persistence[r] # "committed"
    /\ relay[r] = "done" /\ sse[r] /\ state[r] # "cancel_requested"
          => ui[r] # NoEvent

RelayEndInv == \A r \in Runs : RelayEnd(r)

\* What a Stop knows before it is answered: the winner of the swap signals a run
\* whose state it changed, and a loser found the terminal event marked.
VerdictInv ==
    \A c \in Stops : LET r == stop[c].run IN
        /\ stop[c].pc = "signal" => stop[c].won /\ state[r] = "cancel_requested"
        /\ stop[c].pc \in {"wait", "ok"} /\ ~stop[c].won => state[r] = "terminal"
        /\ stop[c].pc = "ok" /\ ~stop[c].won => persistence[r] = "committed"

\* No step of relay, run task or Stop ends a relay without a word to a client that
\* listens, unless a Stop won.
LEMMA RelayEndStep ==
    ASSUME TypeOK, HeldInv, LockInv, OutcomeInv, StopInv, RelayEndInv, VerdictInv,
           [Next]_vars
    PROVE  RelayEndInv'
<1> USE RunAssumption DEF RelayEndInv, RelayEnd, LockInv, Live, TypeOK, HeldInv, Handlers, Tasks,
        Relays, Outcomes, Progress, NoEvent, PersistenceError, registryVars, controlVars,
        taskVars, relayVars, channelVars, historyVars
<1> DEFINE Frame == <<relay, ui, state, sse, cancel_tx, tx, task, handler, persistence, chan>>
<1>1. CASE UNCHANGED Frame
  BY <1>1
<1>2. ASSUME NEW r \in Runs, TryLock(r) PROVE RelayEndInv'
  BY <1>2 DEF TryLock
<1>3. ASSUME NEW r \in Runs, TryLockConflict(r) PROVE RelayEndInv'
  BY <1>3 DEF TryLockConflict
<1>4. ASSUME NEW r \in Runs, AbortAcceptance(r) PROVE RelayEndInv'
  BY <1>4 DEF AbortAcceptance
<1>5. ASSUME NEW r \in Runs, AbortReleases(r) PROVE RelayEndInv'
  BY <1>5 DEF AbortReleases
<1>6. ASSUME NEW r \in Runs, AbortFinishes(r) PROVE RelayEndInv'
  BY <1>6 DEF AbortFinishes
<1>7. ASSUME NEW r \in Runs, RegisterRefused(r) PROVE RelayEndInv'
  BY <1>7 DEF RegisterRefused
<1>8. ASSUME NEW r \in Runs, Register(r) PROVE RelayEndInv'
  BY <1>8 DEF Register
<1>9. ASSUME NEW r \in Runs, Registered(r) PROVE RelayEndInv'
  BY <1>9 DEF Registered
<1>10. ASSUME NEW r \in Runs, SpawnRelay(r) PROVE RelayEndInv'
  <2>1. task[r] = "none" /\ persistence[r] # "committed" /\ state[r] # "terminal"
    BY <1>10 DEF SpawnRelay, OutcomeInv
  <2> QED
    BY <2>1, <1>10 DEF SpawnRelay
<1>11. ASSUME NEW r \in Runs, SpawnRun(r) PROVE RelayEndInv'
  BY <1>11 DEF SpawnRun
<1>12. ASSUME NEW r \in Runs, ClientDisconnects(r) PROVE RelayEndInv'
  BY <1>12 DEF ClientDisconnects
<1>13. ASSUME NEW r \in Runs, StartRunner(r) PROVE RelayEndInv'
  BY <1>13 DEF StartRunner
<1>14. ASSUME NEW r \in Runs, RefuseDriftedCursor(r) PROVE RelayEndInv'
  BY <1>14 DEF RefuseDriftedCursor
<1>15. ASSUME NEW r \in Runs, RunnerEmits(r) PROVE RelayEndInv'
  <2>1. /\ task[r] = "running"
        /\ \A q \in Runs \ {r} : chan'[q] = chan[q]
        /\ UNCHANGED <<relay, ui, state, sse, cancel_tx, tx, task, handler, persistence>>
    BY <1>15 DEF RunnerEmits
  <2>2. persistence[r] # "committed"
    BY <2>1 DEF OutcomeInv
  <2>3. ASSUME NEW q \in Runs, relay[q] \in {"recv", "forward"},
               task[q] = "outcome" \/ persistence[q] = "committed"
        PROVE  \E e \in Outcomes : e \in Elements(chan'[q])
    <3>1. \E e \in Outcomes : e \in Elements(chan[q])
      BY <2>3
    <3>2. CASE q = r
      BY <3>1, <3>2, <2>1, <2>2, <2>3
    <3>3. CASE q # r
      <4>1. chan'[q] = chan[q]
        BY <3>3, <2>1
      <4> QED
        BY ONLY <3>1, <4>1
    <3> QED
      BY <3>2, <3>3
  <2> QED
    BY <2>1, <2>3
<1>16. ASSUME NEW r \in Runs, NEW kind \in Outcomes, RunnerCompletes(r, kind)
      PROVE  RelayEndInv'
  <2>0. /\ chan[r] \in Seq(Outcomes \union {Progress})
        /\ chan'[r] = Append(chan[r], kind)
        /\ kind \in Outcomes \union {Progress}
    BY <1>16 DEF RunnerCompletes
  <2>1. kind \in Elements(chan'[r])
    BY ONLY <2>0, ElementsAppend
  <2>2. /\ task[r] = "running"
        /\ \A q \in Runs \ {r} : chan'[q] = chan[q] /\ task'[q] = task[q]
        /\ task'[r] = "outcome"
        /\ UNCHANGED <<relay, ui, state, sse, cancel_tx, tx, handler, persistence>>
    BY <1>16 DEF RunnerCompletes
  <2>3. tx[r] \/ relay[r] = "none"
    BY <2>2
  <2> QED
    BY <2>1, <2>2, <2>3
<1>17. ASSUME NEW r \in Runs, NEW kind \in {"cancelled", "failed"},
             RunnerObservesClosed(r, kind)
      PROVE  RelayEndInv'
  BY <1>17 DEF RunnerObservesClosed, AgentRxOpen
<1>18. ASSUME NEW r \in Runs, PersistCommits(r) PROVE RelayEndInv'
  <2>1. /\ task[r] = "outcome" /\ handler[r] = "spawned"
        /\ task'[r] = "persisted" /\ persistence'[r] = "committed"
        /\ \A q \in Runs \ {r} : task'[q] = task[q] /\ persistence'[q] = persistence[q]
        /\ UNCHANGED <<relay, ui, state, sse, cancel_tx, tx, handler, chan>>
    BY <1>18 DEF PersistCommits
  <2>2. relay[r] # "orphan"
    BY <2>1
  <2> QED
    BY <2>1, <2>2
<1>19. ASSUME NEW r \in Runs, PersistFails(r) PROVE RelayEndInv'
  BY <1>19 DEF PersistFails
<1>20. ASSUME NEW r \in Runs, RunTaskReturns(r) PROVE RelayEndInv'
  BY <1>20 DEF RunTaskReturns
<1>21. ASSUME NEW r \in Runs, RunTaskPanics(r) PROVE RelayEndInv'
  BY <1>21 DEF RunTaskPanics
<1>22. ASSUME NEW r \in Runs, ReleaseSession(r) PROVE RelayEndInv'
  BY <1>22 DEF ReleaseSession
<1>23. ASSUME NEW r \in Runs, FinishRun(r) PROVE RelayEndInv'
  <2>1. /\ task[r] = "released" /\ task' = [task EXCEPT ![r] = "done"]
        /\ tx' = [tx EXCEPT ![r] = FALSE]
        /\ UNCHANGED <<relay, ui, state, sse, cancel_tx, handler, persistence, chan>>
    BY <1>23 DEF FinishRun, SessionReleased
  <2> QED
    BY <2>1
<1>24. ASSUME NEW r \in Runs, RelayBreaks(r) PROVE RelayEndInv'
  BY <1>24 DEF RelayBreaks, RelayMustStop
<1>25. ASSUME NEW r \in Runs, RelayTakesProgress(r) PROVE RelayEndInv'
  <2>1. /\ relay[r] = "recv" /\ chan[r] # << >> /\ Head(chan[r]) = Progress
        /\ chan'[r] = Tail(chan[r]) /\ relay'[r] = "forward"
        /\ \A q \in Runs \ {r} : chan'[q] = chan[q] /\ relay'[q] = relay[q]
        /\ UNCHANGED <<task, ui, state, sse, cancel_tx, tx, handler, persistence>>
    BY <1>25 DEF RelayTakesProgress, RelayMayReceive
  <2>2. chan[r] \in Seq(Outcomes \union {Progress})
    OBVIOUS
  <2>3. Elements(chan[r]) \subseteq Elements(chan'[r]) \union {Progress}
    BY ONLY <2>1, <2>2, ElementsTail
  <2>4. \A e \in Outcomes : e \in Elements(chan[r]) => e \in Elements(chan'[r])
    BY <2>3
  <2>5. ASSUME NEW q \in Runs, relay[q] \in {"recv", "forward"},
               task[q] = "outcome" \/ persistence[q] = "committed"
        PROVE  \E e \in Outcomes : e \in Elements(chan'[q])
    <3>1. \E e \in Outcomes : e \in Elements(chan[q])
      BY <2>5
    <3>2. CASE q = r
      BY <3>1, <3>2, <2>1, <2>4, <2>5
    <3>3. CASE q # r
      <4>1. chan'[q] = chan[q]
        BY <3>3, <2>1
      <4> QED
        BY ONLY <3>1, <4>1
    <3> QED
      BY <3>2, <3>3
  <2> QED
    BY <2>1, <2>5
<1>26. ASSUME NEW r \in Runs, RelayForwards(r) PROVE RelayEndInv'
  BY <1>26 DEF RelayForwards
<1>27. ASSUME NEW r \in Runs, RelayMarksTerminal(r) PROVE RelayEndInv'
  BY <1>27 DEF RelayMarksTerminal, RelayMayReceive, TerminalWins
<1>28. ASSUME NEW r \in Runs, RelayLosesTerminal(r) PROVE RelayEndInv'
  BY <1>28 DEF RelayLosesTerminal, RelayMayReceive, TerminalWins
<1>29. ASSUME NEW r \in Runs, RelaySenderGone(r) PROVE RelayEndInv'
  BY <1>29, ElementsEmpty DEF RelaySenderGone, RelayMayReceive
<1>30. ASSUME NEW r \in Runs, RelayDelivers(r) PROVE RelayEndInv'
  <2>1. /\ relay[r] \in {"holding", "orphan"}
        /\ ui'[r] = IF sse[r] THEN Settled(r, held[r]) ELSE ui[r]
        /\ relay'[r] = "done"
        /\ \A q \in Runs \ {r} : ui'[q] = ui[q] /\ relay'[q] = relay[q]
        /\ UNCHANGED <<task, state, sse, cancel_tx, tx, handler, persistence, chan>>
    BY <1>30 DEF RelayDelivers
  <2>2. sse[r] => ui'[r] # NoEvent
    BY <2>1 DEF Settled
  <2>3. ASSUME NEW q \in Runs, relay'[q] \in {"recv", "forward"},
               task[q] = "outcome" \/ persistence[q] = "committed"
        PROVE  \E e \in Outcomes : e \in Elements(chan'[q])
    <3>1. relay[q] = relay'[q]
      BY <2>1, <2>3
    <3>2. \E e \in Outcomes : e \in Elements(chan[q])
      BY <3>1, <2>3
    <3> QED
      BY ONLY <3>2, <2>1
  <2>4. RelayEnd(r)'
    BY <2>1, <2>2
  <2>5. ASSUME NEW q \in Runs \ {r} PROVE RelayEnd(q)'
    BY <2>1, <2>3
  <2> QED
    BY <2>4, <2>5 DEF RelayEndInv
<1>31. ASSUME NEW c \in Stops, RequestCancel(c) PROVE RelayEndInv'
  BY <1>31 DEF RequestCancel
<1>32. ASSUME NEW c \in Stops, SignalCancel(c) PROVE RelayEndInv'
  BY <1>32 DEF SignalCancel, VerdictInv
<1>33. ASSUME NEW r \in Runs, EvictFinished(r) PROVE UNCHANGED Frame
  BY <1>33 DEF EvictFinished
<1>34. ASSUME NEW c \in Stops,
             \/ \E r \in Runs : StopFindsControl(c, r)
             \/ \E r \in Runs : StopPreCancels(c, r)
             \/ StopAnswers(c) \/ StopTimesOut(c)
      PROVE  UNCHANGED Frame
  BY <1>34 DEF StopFindsControl, StopPreCancels, StopAnswers, StopTimesOut
<1>35. CASE UNCHANGED vars
  BY <1>35, <1>1 DEF vars
<1> HIDE DEF Frame, RelayEndInv, RelayEnd, LockInv, Live, TypeOK, HeldInv, Handlers, Tasks, Relays,
        Outcomes, Progress, NoEvent, PersistenceError, registryVars, controlVars,
        taskVars, relayVars, channelVars, historyVars
<1> QED
  BY <1>1, <1>2, <1>3, <1>4, <1>5, <1>6, <1>7, <1>8, <1>9, <1>10, <1>11, <1>12,
     <1>13, <1>14, <1>15, <1>16, <1>17, <1>18, <1>19, <1>20, <1>21, <1>22, <1>23,
     <1>24, <1>25, <1>26, <1>27, <1>28, <1>29, <1>30, <1>31, <1>32, <1>33, <1>34,
     <1>35
  DEF Next, HandlerStep, TaskStep, RelayStep, StopStep

\* No step takes back what a Stop has found out.
LEMMA VerdictStep ==
    ASSUME TypeOK, LockInv, OutcomeInv, StopInv, RelayEndInv, VerdictInv, [Next]_vars
    PROVE  VerdictInv'
<1> USE RunAssumption DEF VerdictInv, StopInv, LockInv, OutcomeInv, TypeOK, StopPcs, Tasks,
        registryVars, controlVars, taskVars, relayVars, channelVars, historyVars
<1> DEFINE Frame == <<stop, state, persistence>>
<1>1. CASE UNCHANGED Frame
  BY <1>1
<1>2. ASSUME NEW r \in Runs, RefuseDriftedCursor(r) \/ PersistFails(r) PROVE VerdictInv'
  <2>1. /\ task[r] \in {"started", "outcome"}
        /\ UNCHANGED <<stop, state>>
        /\ \A q \in Runs \ {r} : persistence'[q] = persistence[q]
    BY <1>2 DEF RefuseDriftedCursor, PersistFails
  <2>2. persistence[r] # "committed"
    BY <2>1
  <2>3. \A c \in Stops : stop[c].pc = "ok" /\ ~stop[c].won => stop[c].run # r
    BY <2>2
  <2> QED
    BY <2>1, <2>3
<1>3. ASSUME NEW r \in Runs, PersistCommits(r) PROVE VerdictInv'
  BY <1>3 DEF PersistCommits
<1>4. ASSUME NEW r \in Runs, RelayMarksTerminal(r) PROVE VerdictInv'
  BY <1>4 DEF RelayMarksTerminal, TerminalWins
<1>5. ASSUME NEW c \in Stops, NEW r \in Runs, StopFindsControl(c, r) PROVE VerdictInv'
  BY <1>5 DEF StopFindsControl
<1>6. ASSUME NEW c \in Stops, NEW r \in Runs, StopPreCancels(c, r) PROVE VerdictInv'
  BY <1>6 DEF StopPreCancels
<1>7. ASSUME NEW c \in Stops, RequestCancel(c) PROVE VerdictInv'
  BY <1>7 DEF RequestCancel, CancelWon
<1>8. ASSUME NEW c \in Stops, SignalCancel(c) PROVE VerdictInv'
  BY <1>8 DEF SignalCancel
<1>9. ASSUME NEW c \in Stops, StopAnswers(c) PROVE VerdictInv'
  BY <1>9 DEF StopAnswers
<1>10. ASSUME NEW c \in Stops, StopTimesOut(c) PROVE VerdictInv'
  BY <1>10 DEF StopTimesOut
<1>11. ASSUME NEW r \in Runs,
             \/ TryLock(r) \/ TryLockConflict(r) \/ AbortAcceptance(r)
             \/ AbortReleases(r) \/ AbortFinishes(r) \/ RegisterRefused(r)
             \/ Register(r) \/ EvictFinished(r) \/ Registered(r) \/ SpawnRelay(r)
             \/ SpawnRun(r) \/ ClientDisconnects(r) \/ StartRunner(r)
             \/ RunnerEmits(r)
             \/ \E kind \in Outcomes : RunnerCompletes(r, kind)
             \/ \E kind \in {"cancelled", "failed"} : RunnerObservesClosed(r, kind)
             \/ RunTaskReturns(r) \/ RunTaskPanics(r) \/ ReleaseSession(r)
             \/ FinishRun(r) \/ RelayBreaks(r) \/ RelayTakesProgress(r)
             \/ RelayForwards(r) \/ RelayLosesTerminal(r) \/ RelaySenderGone(r)
             \/ RelayDelivers(r)
      PROVE  UNCHANGED Frame
  BY <1>11 DEF TryLock, TryLockConflict, AbortAcceptance, AbortReleases, AbortFinishes,
     RegisterRefused, Register, EvictFinished, Registered, SpawnRelay, SpawnRun,
     ClientDisconnects, StartRunner, RunnerEmits, RunnerCompletes,
     RunnerObservesClosed, RunTaskReturns, RunTaskPanics, ReleaseSession, FinishRun,
     RelayBreaks, RelayTakesProgress, RelayForwards, RelayLosesTerminal,
     RelaySenderGone, RelayDelivers
<1>12. CASE UNCHANGED vars
  BY <1>12, <1>1 DEF vars
<1> HIDE DEF Frame, VerdictInv, StopInv, LockInv, OutcomeInv, TypeOK, StopPcs, Tasks,
        registryVars, controlVars, taskVars, relayVars, channelVars, historyVars
<1> QED
  BY <1>1, <1>2, <1>3, <1>4, <1>5, <1>6, <1>7, <1>8, <1>9, <1>10, <1>11, <1>12
  DEF Next, HandlerStep, TaskStep, RelayStep, StopStep

(* What storage holds. *)

\* What storage holds of a run was put there by its persist_run, which comes once
\* and has an outcome to store.
StoreInv ==
    \A r \in Runs :
        /\ db[r] # NoEvent => task[r] \in {"persisted", "unwinding", "released", "done"}
        /\ task[r] = "outcome" => outcome[r] # NoEvent

\* No step stores anything before the outcome of the run is known.
LEMMA StoreStep ==
    ASSUME TypeOK, LockInv, StoreInv, [Next]_vars
    PROVE  StoreInv'
<1> USE RunAssumption DEF StoreInv, LockInv, TypeOK, Tasks, Outcomes, NoEvent, registryVars,
        controlVars, taskVars, relayVars, channelVars, historyVars
<1> DEFINE Frame == <<db, task, outcome>>
<1>1. CASE UNCHANGED Frame
  BY <1>1
<1>2. ASSUME NEW r \in Runs, SpawnRun(r) PROVE StoreInv'
  <2>1. task[r] = "none"
    BY <1>2 DEF SpawnRun
  <2> QED
    BY <2>1, <1>2 DEF SpawnRun
<1>3. ASSUME NEW r \in Runs, StartRunner(r) PROVE StoreInv'
  BY <1>3 DEF StartRunner
<1>4. ASSUME NEW r \in Runs, RefuseDriftedCursor(r) PROVE StoreInv'
  BY <1>4 DEF RefuseDriftedCursor
<1>5. ASSUME NEW r \in Runs, NEW kind \in Outcomes, RunnerCompletes(r, kind)
      PROVE  StoreInv'
  BY <1>5 DEF RunnerCompletes
<1>6. ASSUME NEW r \in Runs, NEW kind \in {"cancelled", "failed"},
             RunnerObservesClosed(r, kind)
      PROVE  StoreInv'
  BY <1>6 DEF RunnerObservesClosed
<1>7. ASSUME NEW r \in Runs, PersistCommits(r) PROVE StoreInv'
  BY <1>7 DEF PersistCommits
<1>8. ASSUME NEW r \in Runs, PersistFails(r) PROVE StoreInv'
  BY <1>8 DEF PersistFails
<1>9. ASSUME NEW r \in Runs, RunTaskReturns(r) PROVE StoreInv'
  BY <1>9 DEF RunTaskReturns
<1>10. ASSUME NEW r \in Runs, RunTaskPanics(r) PROVE StoreInv'
  BY <1>10 DEF RunTaskPanics
<1>11. ASSUME NEW r \in Runs, ReleaseSession(r) PROVE StoreInv'
  BY <1>11 DEF ReleaseSession
<1>12. ASSUME NEW r \in Runs, FinishRun(r) PROVE StoreInv'
  BY <1>12 DEF FinishRun, SessionReleased
<1>13. ASSUME NEW r \in Runs,
             \/ TryLock(r) \/ TryLockConflict(r) \/ AbortAcceptance(r)
             \/ AbortReleases(r) \/ AbortFinishes(r) \/ RegisterRefused(r)
             \/ Register(r) \/ EvictFinished(r) \/ Registered(r) \/ SpawnRelay(r)
             \/ ClientDisconnects(r) \/ RunnerEmits(r) \/ RelayStep(r)
      PROVE  UNCHANGED Frame
  BY <1>13 DEF TryLock, TryLockConflict, AbortAcceptance, AbortReleases, AbortFinishes,
     RegisterRefused, Register, EvictFinished, Registered, SpawnRelay,
     ClientDisconnects, RunnerEmits, RelayStep, RelayBreaks, RelayTakesProgress,
     RelayForwards, RelayMarksTerminal, RelayLosesTerminal, RelaySenderGone,
     RelayDelivers
<1>14. ASSUME NEW c \in Stops, StopStep(c) PROVE UNCHANGED Frame
  BY <1>14 DEF StopStep, StopFindsControl, StopPreCancels, RequestCancel, SignalCancel,
     StopAnswers, StopTimesOut
<1>15. CASE UNCHANGED vars
  BY <1>15, <1>1 DEF vars
<1> HIDE DEF Frame, StoreInv, LockInv, TypeOK, Tasks, Outcomes, NoEvent, registryVars,
        controlVars, taskVars, relayVars, channelVars, historyVars
<1> QED
  BY <1>1, <1>2, <1>3, <1>4, <1>5, <1>6, <1>7, <1>8, <1>9, <1>10, <1>11, <1>12,
     <1>13, <1>14, <1>15
  DEF Next, HandlerStep, TaskStep

-----------------------------------------------------------------------------
(* The invariant and what follows from it *)

\* The inductive invariant.
IInv ==
    /\ TypeOK
    /\ HeldInv
    /\ LockInv
    /\ OutcomeInv
    /\ ClientInv
    /\ StopInv
    /\ ActiveRunIsStoppable
    /\ MarkerInv
    /\ RelayEndInv
    /\ VerdictInv
    /\ StoreInv

\* The inductive invariant holds when the server starts.
LEMMA InitIInv == Init => IInv
<1> SUFFICES ASSUME Init PROVE IInv
  OBVIOUS
<1>1. TypeOK /\ HeldInv
  BY TypeInit
<1>2. LockInv
  BY RunAssumption DEF Init, LockInv, Live
<1>3. OutcomeInv
  BY ElementsEmpty DEF Init, OutcomeInv, Emitted, Outcomes, NoEvent
<1>4. ClientInv
  BY DEF Init, ClientInv, Outcomes, NoEvent, PersistenceError
<1>5. StopInv
  BY RunAssumption DEF Init, StopInv
<1>6. ActiveRunIsStoppable
  BY DEF Init, ActiveRunIsStoppable, Accepted
<1>7. MarkerInv
  BY DEF Init, MarkerInv
<1>8. RelayEndInv /\ VerdictInv /\ StoreInv
  BY DEF Init, RelayEndInv, RelayEnd, VerdictInv, StoreInv, Outcomes, NoEvent
<1> QED
  BY <1>1, <1>2, <1>3, <1>4, <1>5, <1>6, <1>7, <1>8 DEF IInv

\* Every step keeps the inductive invariant.
LEMMA StepIInv == IInv /\ [Next]_vars => IInv'
<1> SUFFICES ASSUME IInv, [Next]_vars PROVE IInv'
  OBVIOUS
<1> USE DEF IInv
<1> QED
  BY TypeStep, LockStep, OutcomeStep, ClientStep, StopsStep, StoppableStep, MarkerStep,
     RelayEndStep, VerdictStep, StoreStep

\* The inductive invariant holds of every reachable state of the server.
LEMMA AlwaysIInv == Spec => []IInv
BY InitIInv, StepIInv, PTL DEF Spec

\* From acceptance until its guard is dropped a run owns the mutex of its session,
\* so no two runs of a session are ever live together (try_lock_owned in stream_sse,
\* RunFinishGuard).
THEOREM SessionExclusive == Spec => []LiveRunOwnsSession
<1>1. IInv => LiveRunOwnsSession
  BY DEF IInv, LockInv, Live, LiveRunOwnsSession
<1> QED
  BY <1>1, AlwaysIInv, PTL

\* A terminal event reaches the client only after the run released its session and
\* was acknowledged, and a success it shows is what persist_run committed
\* (relay_agent_events, persistence_failure_message).
THEOREM TerminalEventsAreSettled == Spec => []TerminalAfterCleanup
<1>1. IInv => TerminalAfterCleanup
  BY DEF IInv, LockInv, Live, ClientInv, TerminalAfterCleanup
<1> QED
  BY <1>1, AlwaysIInv, PTL

\* cancel_run answers only after the run it found gave the session back.
THEOREM StopsAnswerAfterRelease == Spec => []StopAckAfterRelease
<1>1. IInv => StopAckAfterRelease
  BY DEF IInv, LockInv, Live, StopInv, StopAckAfterRelease, Answered
<1> QED
  BY <1>1, AlwaysIInv, PTL

\* A Stop that was told it cancelled the run and a terminal event at the client
\* exclude each other (request_cancel against mark_terminal).
THEOREM StopAndCompletionExclude == Spec => []NoCompletionAfterStop
<1>1. IInv => NoCompletionAfterStop
  <2> SUFFICES ASSUME IInv, NEW c \in Stops,
                      stop[c].pc = "ok", stop[c].won, stop[c].run \notin preAcked
               PROVE  ui[stop[c].run] = NoEvent
    BY DEF NoCompletionAfterStop
  <2> QED
    BY DEF IInv, TypeOK, ClientInv, StopInv, Outcomes, NoEvent, PersistenceError
<1> QED
  BY <1>1, AlwaysIInv, PTL

\* The eviction loop of register never removes the control of a live run.
THEOREM LiveControlsStay == Spec => []ActiveRunIsStoppable
<1>1. IInv => ActiveRunIsStoppable
  BY DEF IInv
<1> QED
  BY <1>1, AlwaysIInv, PTL

\* A run whose Stop came before it registered does not start, as long as the cap of
\* the marker queue did not push its marker out (find_or_pre_cancel, register).
THEOREM EarlyStopsHold == Spec => []PreCancelledNeverStarts
<1>1. IInv => PreCancelledNeverStarts
  BY DEF IInv, MarkerInv, PreCancelledNeverStarts
<1> QED
  BY <1>1, AlwaysIInv, PTL

\* A client that listens hears of every end nobody stopped, and a Stop that was
\* refused did lose against a completion the client gets (relay_agent_events,
\* request_cancel, mark_terminal).
THEOREM EndsReachTheClient == Spec => []EndsAreTold
<1>1. IInv => EndsAreTold
  <2> SUFFICES ASSUME IInv PROVE EndsAreTold
    OBVIOUS
  <2>1. NoSilentEnd
    BY DEF IInv, RelayEndInv, RelayEnd, NoSilentEnd
  <2>2. RefusedStopCompletes
    <3> SUFFICES ASSUME NEW c \in Stops, stop[c].pc = "ok" /\ ~stop[c].won
                 PROVE  \/ ~sse[stop[c].run] \/ relay[stop[c].run] = "holding"
                        \/ ui[stop[c].run] \in Outcomes
      BY Zenon DEF RefusedStopCompletes
    <3>1. PICK r \in Runs : r = stop[c].run
      BY DEF IInv, StopInv
    <3>2. state[r] = "terminal" /\ persistence[r] = "committed"
      BY <3>1 DEF IInv, VerdictInv
    <3>3. ui[r] # PersistenceError /\ ui[r] \in Outcomes \union {NoEvent, PersistenceError}
      BY <3>2 DEF IInv, ClientInv, TypeOK
    <3> QED
      BY <3>1, <3>2, <3>3 DEF IInv, RelayEndInv, RelayEnd
  <2> QED
    BY <2>1, <2>2 DEF EndsAreTold
<1> QED
  BY <1>1, AlwaysIInv, PTL

-----------------------------------------------------------------------------
(* The refinement: the run lifecycle implements SessionContract. *)

\* The variables of the contract, as the lifecycle has them.
Begun == {r \in Runs : handler[r] # "idle"}
Ended == {r \in Runs : finished[r]}
ContractView == <<mutex, Begun, Ended, db, ui>>

\* Every step of the lifecycle is a step of the contract or none at all: the mutex
\* is taken and released as the contract's owner is, the terminal event that the
\* relay delivers is what storage holds or a failure.
LEMMA ContractStep ==
    ASSUME TypeOK, HeldInv, LockInv, OutcomeInv, ClientInv, RelayEndInv, StoreInv, [Next]_vars
    PROVE  [Contract!ContractNext]_ContractView
<1> USE RunAssumption DEF TypeOK, Handlers, Tasks, Relays, Outcomes, Progress, NoEvent,
        PersistenceError, Begun, Ended, ContractView, registryVars, controlVars, taskVars,
        relayVars, channelVars, historyVars
<1> DEFINE Step == Contract!ContractNext
           Frame == <<mutex, handler, finished, db, ui>>
<1>1. ASSUME UNCHANGED Frame PROVE UNCHANGED ContractView
  BY <1>1
<1>2. ASSUME NEW r \in Runs, TryLock(r) PROVE Step
  <2>1. Contract!Begin(r)
    BY <1>2 DEF TryLock, SessionFree, Contract!Begin
  <2> QED
    BY <2>1 DEF Contract!ContractNext
<1>3. ASSUME NEW r \in Runs, TryLockConflict(r) PROVE Step
  <2>1. Contract!Refuse(r)
    BY <1>3 DEF TryLockConflict, SessionFree, Contract!Refuse
  <2> QED
    BY <2>1 DEF Contract!ContractNext
<1>4. ASSUME NEW r \in Runs, AbortReleases(r) PROVE Step
  <2>1. Contract!GiveBack(r)
    BY <1>4 DEF AbortReleases, LockInv, Live, Contract!GiveBack, Contract!Owns
  <2> QED
    BY <2>1 DEF Contract!ContractNext
<1>5. ASSUME NEW r \in Runs, AbortFinishes(r) PROVE Step
  <2>1. Contract!End(r)
    <3>1. /\ handler[r] = "aborted" /\ finished' = [finished EXCEPT ![r] = TRUE]
          /\ handler' = [handler EXCEPT ![r] = "rejected"]
          /\ UNCHANGED <<mutex, db, ui>>
      BY <1>5 DEF AbortFinishes
    <3>2. mutex[SessionOf[r]] # r /\ ~finished[r]
      BY <3>1 DEF LockInv, Live
    <3> QED
      BY <3>1, <3>2 DEF Contract!End, Contract!Owns
  <2> QED
    BY <2>1 DEF Contract!ContractNext
<1>6. ASSUME NEW r \in Runs, PersistCommits(r) PROVE Step
  <2>1. outcome[r] \in Outcomes \union {"cancelled"}
    BY <1>6 DEF PersistCommits, StoreInv
  <2>2. Contract!Store(r, outcome[r])
    <3>1. /\ task[r] = "outcome" /\ db' = [db EXCEPT ![r] = outcome[r]]
          /\ UNCHANGED <<mutex, handler, finished, ui>>
      BY <1>6 DEF PersistCommits
    <3>2. mutex[SessionOf[r]] = r /\ db[r] = NoEvent
      BY <3>1 DEF LockInv, Live, StoreInv
    <3> QED
      BY <3>1, <3>2 DEF Contract!Store, Contract!Owns
  <2> QED
    BY <2>1, <2>2 DEF Contract!ContractNext
<1>7. ASSUME NEW r \in Runs, ReleaseSession(r) PROVE Step
  <2>1. Contract!GiveBack(r)
    <3>1. /\ task[r] = "unwinding" /\ mutex' = [mutex EXCEPT ![SessionOf[r]] = NoRun]
          /\ UNCHANGED <<handler, finished, db, ui>>
      BY <1>7 DEF ReleaseSession
    <3>2. mutex[SessionOf[r]] = r
      BY <3>1 DEF LockInv, Live
    <3> QED
      BY <3>1, <3>2 DEF Contract!GiveBack, Contract!Owns
  <2> QED
    BY <2>1 DEF Contract!ContractNext
<1>8. ASSUME NEW r \in Runs, FinishRun(r) PROVE Step
  <2>1. Contract!End(r)
    <3>1. /\ task[r] = "released" /\ finished' = [finished EXCEPT ![r] = TRUE]
          /\ UNCHANGED <<mutex, handler, db, ui>>
      BY <1>8 DEF FinishRun, SessionReleased
    <3>2. handler[r] = "spawned" /\ mutex[SessionOf[r]] # r /\ ~finished[r]
      BY <3>1 DEF LockInv, Live
    <3> QED
      BY <3>1, <3>2 DEF Contract!End, Contract!Owns
  <2> QED
    BY <2>1 DEF Contract!ContractNext
<1>9. ASSUME NEW r \in Runs, RelayDelivers(r) PROVE Step \/ UNCHANGED Frame
  <2>1. CASE ~sse[r]
    BY <1>9, <2>1 DEF RelayDelivers
  <2>2. CASE sse[r]
    <3> DEFINE e == Settled(r, held[r])
    <3>1. /\ relay[r] \in {"holding", "orphan"} /\ finished[r]
          /\ ui' = [ui EXCEPT ![r] = e]
          /\ UNCHANGED <<mutex, handler, finished, db>>
      BY <1>9, <2>2 DEF RelayDelivers
    <3>2. ui[r] = NoEvent
      BY <3>1 DEF RelayEndInv, RelayEnd
    <3>3. e = IF persistence[r] = "committed" THEN held[r] ELSE PersistenceError
      BY DEF Settled
    <3> HIDE DEF e
    <3>4. e = PersistenceError \/ (e \in Outcomes /\ e = db[r])
      <4>1. CASE relay[r] = "orphan"
        <5>1. persistence[r] # "committed"
          BY <4>1 DEF RelayEndInv, RelayEnd
        <5> QED
          BY ONLY <5>1, <3>3
      <4>2. CASE relay[r] = "holding"
        <5>1. held[r] \in Outcomes /\ Emitted(r, held[r])
          BY <4>2 DEF HeldInv, Emitted
        <5>2. persistence[r] = "committed" => db[r] = held[r]
          BY <5>1 DEF OutcomeInv
        <5> QED
          BY ONLY <5>1, <5>2, <3>3
      <4> QED
        BY <3>1, <4>1, <4>2
    <3>5. Contract!Tell(r, e)
      BY <3>1, <3>2, <3>4 DEF Contract!Tell
    <3> QED
      BY <3>4, <3>5 DEF Contract!ContractNext
  <2> QED
    BY <2>1, <2>2
<1>10. ASSUME NEW r \in Runs,
             \/ AbortAcceptance(r) \/ RegisterRefused(r) \/ Register(r)
             \/ EvictFinished(r) \/ Registered(r) \/ SpawnRelay(r) \/ SpawnRun(r)
             \/ ClientDisconnects(r)
      PROVE  UNCHANGED <<mutex, finished, db, ui, Begun>>
  BY <1>10 DEF AbortAcceptance, RegisterRefused, Register, EvictFinished, Registered,
     SpawnRelay, SpawnRun, ClientDisconnects
<1>11. ASSUME NEW r \in Runs,
             \/ StartRunner(r) \/ RefuseDriftedCursor(r) \/ RunnerEmits(r)
             \/ \E kind \in Outcomes : RunnerCompletes(r, kind)
             \/ \E kind \in {"cancelled", "failed"} : RunnerObservesClosed(r, kind)
             \/ PersistFails(r) \/ RunTaskReturns(r) \/ RunTaskPanics(r)
             \/ RelayBreaks(r) \/ RelayTakesProgress(r) \/ RelayForwards(r)
             \/ RelayMarksTerminal(r) \/ RelayLosesTerminal(r) \/ RelaySenderGone(r)
      PROVE  UNCHANGED Frame
  BY <1>11 DEF StartRunner, RefuseDriftedCursor, RunnerEmits, RunnerCompletes,
     RunnerObservesClosed, PersistFails, RunTaskReturns, RunTaskPanics, RelayBreaks,
     RelayTakesProgress, RelayForwards, RelayMarksTerminal, RelayLosesTerminal,
     RelaySenderGone
<1>12. ASSUME NEW c \in Stops, StopStep(c) PROVE UNCHANGED Frame
  BY <1>12 DEF StopStep, StopFindsControl, StopPreCancels, RequestCancel, SignalCancel,
     StopAnswers, StopTimesOut
<1>13. ASSUME UNCHANGED vars PROVE UNCHANGED Frame
  BY <1>13 DEF vars
<1>14. ASSUME UNCHANGED <<mutex, finished, db, ui, Begun>> PROVE UNCHANGED ContractView
  BY <1>14
<1> HIDE DEF Step, Frame, TypeOK, Handlers, Tasks, Relays, Outcomes, Progress, NoEvent,
        PersistenceError, Begun, Ended, ContractView, registryVars, controlVars,
        taskVars, relayVars, channelVars, historyVars
<1>15. ASSUME NEW r \in Runs, HandlerStep(r) PROVE Step \/ UNCHANGED ContractView
  BY <1>2, <1>3, <1>4, <1>5, <1>10, <1>14, <1>15 DEF HandlerStep
<1>16. ASSUME NEW r \in Runs, TaskStep(r) PROVE Step \/ UNCHANGED ContractView
  BY <1>1, <1>6, <1>7, <1>8, <1>11, <1>16 DEF TaskStep
<1>17. ASSUME NEW r \in Runs, RelayStep(r) PROVE Step \/ UNCHANGED ContractView
  BY <1>1, <1>9, <1>11, <1>17 DEF RelayStep
<1>18. Step \/ UNCHANGED ContractView
  BY <1>1, <1>12, <1>13, <1>15, <1>16, <1>17 DEF Next
<1> QED
  BY <1>18 DEF Step

\* The server keeps the contract of a session: begin once, store while owning, give
\* back, end, tell once (stream_sse, finalize_run_persistence, relay_agent_events).
THEOREM ContractKept == Spec => KeepsTheContract
<1>1. IInv /\ [Next]_vars => [Contract!ContractNext]_(Contract!contractVars)
  <2>1. Contract!contractVars = ContractView
    BY DEF Contract!contractVars, ContractView, Begun, Ended
  <2> QED
    BY <2>1, ContractStep DEF IInv, Contract!contractVars, ContractView, Begun, Ended
<1>2. Init => Contract!ContractInit
  BY DEF Init, Contract!ContractInit
<1> QED
  BY <1>1, <1>2, AlwaysIInv, PTL DEF Spec, KeepsTheContract, Contract!ContractSpec
=============================================================================
