------------------------- MODULE PromptQueue_proofs -------------------------
(***************************************************************************)
(* Safety of the client's prompt queue for any prompts, revisions and      *)
(* number of runs: types, every prompt in one place, and the discipline of *)
(* the session lease.  IInv is the inductive invariant they follow from.   *)
(***************************************************************************)
EXTENDS PromptQueue, SequenceTheorems, FiniteSetTheorems, TLAPS

-----------------------------------------------------------------------------
(* The inductive invariant *)

\* A prompt in the queue, and one that was run.
Waiting(p) == \E i \in DOMAIN items : items[i].id = p
Started(p) == \E i \in DOMAIN launched : launched[i] = p

\* A prompt the user sent waits, has run or was deleted, and no two of these.
Placed(p) ==
    /\ p \in used <=> Waiting(p) \/ Started(p) \/ p \in deleted
    /\ ~(Waiting(p) /\ Started(p))
    /\ p \in deleted => ~Waiting(p) /\ ~Started(p)
PlaceInv ==
    /\ \A p \in Prompts : Placed(p)
    /\ \A i, j \in DOMAIN launched : launched[i] = launched[j] => i = j

\* The stream on screen is the latest run's, and the lease is for a run that exists.
LeaseInv ==
    /\ stream.run \in {0, Len(launched)} /\ (stream.running => stream.run # 0)
    /\ gate.purpose = "none" <=> Free
    /\ gate.purpose = "none" <=> gate.pc = "none"
    /\ gate.purpose = "restore" => gate.pc = "load"
    /\ ~Free => gate.run \in 1 .. Len(launched)
    /\ loads["lease"].busy <=> gate.pc = "load"
    /\ loads["lease"].served => loads["lease"].busy

\* Each run in the backend: a request that can still be accepted belongs to the running
\* stream, and a terminal event comes from a run that is stored.
RunInv(r) ==
    /\ back[r] = "none" <=> r > Len(launched)
    /\ back[r] = "posted" => Running(r) /\ sse[r] = "open"
    /\ sse[r] \in {"natural", "awaiting", "other"} => back[r] = "finished"
BackInv == \A r \in Runs : RunInv(r)

\* Once a coordinator loads, its run holds nothing any more and never will; once its load
\* is answered, nothing is alive and the answer shows the run's stored outcome.
Over == {"marked", "doomed", "refused", "finished", "cancelled"}
LoadInv ==
    /\ gate.pc = "load" => back[gate.run] \in Over
    /\ Restored => /\ \A r \in Runs : back[r] \notin {"posted", "locked", "active", "stopping"}
                   /\ gate.run \in Settled => gate.run \in loads["lease"].snapshot

\* The inductive invariant.
IInv ==
    /\ TypeOK /\ PlaceInv
    /\ LeaseInv /\ BackInv /\ LoadInv
    /\ LeaseDiscipline
-----------------------------------------------------------------------------
(* Queues *)

\* A queue holds every prompt once.
Distinct(s) ==
    s \in Seq(Refs) /\ \A i, j \in DOMAIN s : s[i].id = s[j].id => i = j

\* What is queued.
QueueOf(s) == {s[i] : i \in DOMAIN s}

\* Equal refs of a queue are at one position.
LEMMA OnePosition ==
    ASSUME NEW s, Distinct(s), NEW i \in DOMAIN s, NEW j \in DOMAIN s, s[i] = s[j]
    PROVE  i = j
  BY DEF Distinct

\* splice(k, 1): the item at k leaves, the others stay.
LEMMA Removed ==
    ASSUME NEW s, Distinct(s), NEW k \in DOMAIN s
    PROVE  /\ Distinct(RemoveAt(s, k))
           /\ Len(RemoveAt(s, k)) = Len(s) - 1
           /\ QueueOf(RemoveAt(s, k)) = QueueOf(s) \ {s[k]}
<1> DEFINE a == SubSeq(s, 1, k - 1)
           b == SubSeq(s, k + 1, Len(s))
           t == a \o b
<1>1. s \in Seq(Refs) /\ Len(s) \in Nat /\ DOMAIN s = 1 .. Len(s) /\ k \in 1 .. Len(s) /\ k \in Int
  BY LenProperties DEF Distinct
<1>2. \A i \in 1 .. Len(s) : s[i] \in Refs
  BY <1>1
<1>3. /\ a \in Seq(Refs) /\ Len(a) = k - 1
      /\ \A i \in 1 .. k - 1 : a[i] = s[i]
  <2>1. \A i \in 1 .. k - 1 : s[i] \in Refs
    BY <1>1, <1>2
  <2>2. /\ a \in Seq(Refs) /\ Len(a) = IF 1 <= k - 1 THEN k - 1 - 1 + 1 ELSE 0
        /\ \A i \in 1 .. k - 1 - 1 + 1 : a[i] = s[1 + i - 1]
    BY <1>1, <2>1, SubSeqProperties
  <2> QED
    BY <1>1, <2>2
<1>4. /\ b \in Seq(Refs) /\ Len(b) = Len(s) - k
      /\ \A i \in 1 .. Len(s) - k : b[i] = s[k + i]
  <2>1. \A i \in k + 1 .. Len(s) : s[i] \in Refs
    BY <1>1, <1>2
  <2>2. /\ b \in Seq(Refs) /\ Len(b) = IF k + 1 <= Len(s) THEN Len(s) - (k + 1) + 1 ELSE 0
        /\ \A i \in 1 .. Len(s) - (k + 1) + 1 : b[i] = s[k + 1 + i - 1]
    BY <1>1, <2>1, SubSeqProperties
  <2> QED
    BY <1>1, <2>2
<1> HIDE DEF a, b
<1>5. /\ t \in Seq(Refs) /\ Len(t) = Len(s) - 1 /\ DOMAIN t = 1 .. Len(s) - 1
      /\ \A i \in 1 .. Len(s) - 1 : t[i] = IF i < k THEN s[i] ELSE s[i + 1]
  <2>1. /\ t \in Seq(Refs) /\ Len(t) = Len(a) + Len(b)
        /\ \A i \in 1 .. Len(a) + Len(b) : t[i] = IF i <= Len(a) THEN a[i] ELSE b[i - Len(a)]
    BY <1>3, <1>4, ConcatProperties
  <2>2. DOMAIN t = 1 .. Len(t)
    BY <2>1, LenProperties
  <2>3. Len(t) = Len(s) - 1
    BY <1>1, <1>3, <1>4, <2>1
  <2> HIDE DEF t
  <2>4. ASSUME NEW i \in 1 .. Len(s) - 1, i < k PROVE t[i] = s[i]
    BY <1>1, <1>3, <2>1, <2>3, <2>4
  <2>5. ASSUME NEW i \in 1 .. Len(s) - 1, ~(i < k) PROVE t[i] = s[i + 1]
    <3>1. i - (k - 1) \in 1 .. Len(s) - k /\ k + (i - (k - 1)) = i + 1
      BY <1>1, <2>5
    <3>2. t[i] = b[i - (k - 1)]
      BY <1>1, <1>3, <2>1, <2>3, <2>5
    <3> QED
      BY <1>4, <3>1, <3>2
  <2> QED
    BY <2>1, <2>2, <2>3, <2>4, <2>5
<1> HIDE DEF t
<1>6. Distinct(t)
  <2> SUFFICES ASSUME NEW i \in 1 .. Len(s) - 1, NEW j \in 1 .. Len(s) - 1, t[i].id = t[j].id
               PROVE  i = j
    BY <1>5 DEF Distinct
  <2> DEFINE x == IF i < k THEN i ELSE i + 1
             y == IF j < k THEN j ELSE j + 1
  <2>1. x \in DOMAIN s /\ y \in DOMAIN s /\ t[i] = s[x] /\ t[j] = s[y]
    BY <1>1, <1>5
  <2>2. x = y
    BY <2>1 DEF Distinct
  <2> QED
    BY <1>1, <2>2
<1>7. QueueOf(t) = QueueOf(s) \ {s[k]}
  <2>1. ASSUME NEW i \in DOMAIN t PROVE t[i] \in QueueOf(s) \ {s[k]}
    <3> DEFINE x == IF i < k THEN i ELSE i + 1
    <3>1. x \in DOMAIN s /\ t[i] = s[x] /\ x # k
      BY <1>1, <1>5
    <3>2. s[x] # s[k]
      BY <3>1, OnePosition
    <3> QED
      BY <3>1, <3>2 DEF QueueOf
  <2>2. ASSUME NEW j \in DOMAIN s, s[j] # s[k] PROVE \E i \in DOMAIN t : s[j] = t[i]
    <3> DEFINE y == IF j < k THEN j ELSE j - 1
    <3>1. y \in DOMAIN t /\ t[y] = s[j]
      BY <1>1, <1>5, <2>2
    <3> QED
      BY <3>1
  <2> QED
    BY <2>1, <2>2 DEF QueueOf
<1>8. RemoveAt(s, k) = t
  BY DEF RemoveAt, t, a, b
<1> QED
  BY <1>5, <1>6, <1>7, <1>8

\* splice(k, 0, e): a new item enters at k.
LEMMA Inserted ==
    ASSUME NEW s, Distinct(s), NEW k \in 1 .. Len(s) + 1, NEW e \in Refs,
           \A i \in DOMAIN s : s[i].id # e.id
    PROVE  /\ Distinct(InsertAt(s, k, e))
           /\ QueueOf(InsertAt(s, k, e)) = QueueOf(s) \cup {e}
<1> DEFINE a == SubSeq(s, 1, k - 1)
           m == <<e>>
           b == SubSeq(s, k, Len(s))
           h == a \o m
           t == h \o b
<1>1. s \in Seq(Refs) /\ Len(s) \in Nat /\ DOMAIN s = 1 .. Len(s) /\ k \in Int
  BY LenProperties DEF Distinct
<1>2. \A i \in 1 .. Len(s) : s[i] \in Refs
  BY <1>1
<1>3. /\ a \in Seq(Refs) /\ Len(a) = k - 1
      /\ \A i \in 1 .. k - 1 : a[i] = s[i]
  <2>1. \A i \in 1 .. k - 1 : s[i] \in Refs
    BY <1>1, <1>2
  <2>2. /\ a \in Seq(Refs) /\ Len(a) = IF 1 <= k - 1 THEN k - 1 - 1 + 1 ELSE 0
        /\ \A i \in 1 .. k - 1 - 1 + 1 : a[i] = s[1 + i - 1]
    BY <1>1, <2>1, SubSeqProperties
  <2> QED
    BY <1>1, <2>2
<1>4. /\ b \in Seq(Refs) /\ Len(b) = Len(s) + 1 - k
      /\ \A i \in 1 .. Len(s) + 1 - k : b[i] = s[k + i - 1]
  <2>1. \A i \in k .. Len(s) : s[i] \in Refs
    BY <1>1, <1>2
  <2>2. /\ b \in Seq(Refs) /\ Len(b) = IF k <= Len(s) THEN Len(s) - k + 1 ELSE 0
        /\ \A i \in 1 .. Len(s) - k + 1 : b[i] = s[k + i - 1]
    BY <1>1, <2>1, SubSeqProperties
  <2> QED
    BY <1>1, <2>2
<1>5. m \in Seq(Refs) /\ Len(m) = 1 /\ m[1] = e
  OBVIOUS
<1> HIDE DEF a, b, m
<1>6. /\ h \in Seq(Refs) /\ Len(h) = k
      /\ \A i \in 1 .. k : h[i] = IF i < k THEN s[i] ELSE e
  <2>1. /\ h \in Seq(Refs) /\ Len(h) = Len(a) + Len(m)
        /\ \A i \in 1 .. Len(a) + Len(m) : h[i] = IF i <= Len(a) THEN a[i] ELSE m[i - Len(a)]
    BY <1>3, <1>5, ConcatProperties
  <2> QED
    BY <1>1, <1>3, <1>5, <2>1
<1> HIDE DEF h
<1>7. /\ t \in Seq(Refs) /\ DOMAIN t = 1 .. Len(s) + 1
      /\ \A i \in 1 .. Len(s) + 1 :
            t[i] = IF i < k THEN s[i] ELSE IF i = k THEN e ELSE s[i - 1]
  <2>1. /\ t \in Seq(Refs) /\ Len(t) = Len(h) + Len(b)
        /\ \A i \in 1 .. Len(h) + Len(b) : t[i] = IF i <= Len(h) THEN h[i] ELSE b[i - Len(h)]
    BY <1>4, <1>6, ConcatProperties
  <2>2. DOMAIN t = 1 .. Len(t)
    BY <2>1, LenProperties
  <2>3. Len(t) = Len(s) + 1
    BY <1>1, <1>4, <1>6, <2>1
  <2> HIDE DEF t
  <2>4. ASSUME NEW i \in 1 .. Len(s) + 1, i <= k PROVE t[i] = IF i < k THEN s[i] ELSE e
    BY <1>1, <1>4, <1>6, <2>1, <2>4
  <2>5. ASSUME NEW i \in 1 .. Len(s) + 1, ~(i <= k) PROVE t[i] = s[i - 1]
    <3>1. i - k \in 1 .. Len(s) + 1 - k /\ k + (i - k) - 1 = i - 1
      BY <1>1, <2>5
    <3>2. t[i] = b[i - k]
      BY <1>1, <1>4, <1>6, <2>1, <2>5
    <3> QED
      BY <1>4, <3>1, <3>2
  <2>6. ASSUME NEW i \in 1 .. Len(s) + 1
        PROVE  t[i] = IF i < k THEN s[i] ELSE IF i = k THEN e ELSE s[i - 1]
    <3>1. i <= k <=> i < k \/ i = k
      BY <1>1
    <3> QED
      BY <2>4, <2>5, <3>1
  <2> QED
    BY <2>1, <2>2, <2>3, <2>6
<1> HIDE DEF t
<1>8. Distinct(t)
  <2> SUFFICES ASSUME NEW i \in 1 .. Len(s) + 1, NEW j \in 1 .. Len(s) + 1, t[i].id = t[j].id
               PROVE  i = j
    BY <1>7 DEF Distinct
  <2> DEFINE x == IF i < k THEN i ELSE i - 1
             y == IF j < k THEN j ELSE j - 1
  <2>1. i # k => x \in DOMAIN s /\ t[i] = s[x]
    BY <1>1, <1>7
  <2>2. j # k => y \in DOMAIN s /\ t[j] = s[y]
    BY <1>1, <1>7
  <2>3. t[k] = e
    BY <1>1, <1>7
  <2>4. CASE i # k /\ j # k
    <3>1. x = y
      BY <2>1, <2>2, <2>4 DEF Distinct
    <3> QED
      BY <1>1, <2>4, <3>1
  <2>5. CASE i = k \/ j = k
    BY <2>1, <2>2, <2>3, <2>5
  <2> QED
    BY <2>4, <2>5
<1>9. QueueOf(t) = QueueOf(s) \cup {e}
  <2>1. ASSUME NEW i \in DOMAIN t PROVE t[i] \in QueueOf(s) \cup {e}
    <3> DEFINE x == IF i < k THEN i ELSE i - 1
    <3>1. i # k => x \in DOMAIN s /\ t[i] = s[x]
      BY <1>1, <1>7
    <3>2. i = k => t[i] = e
      BY <1>1, <1>7
    <3> QED
      BY <3>1, <3>2 DEF QueueOf
  <2>2. ASSUME NEW j \in DOMAIN s PROVE \E i \in DOMAIN t : s[j] = t[i]
    <3> DEFINE y == IF j < k THEN j ELSE j + 1
    <3>1. y \in DOMAIN t /\ t[y] = s[j]
      BY <1>1, <1>7
    <3> QED
      BY <3>1
  <2>3. k \in DOMAIN t /\ t[k] = e
    BY <1>1, <1>7
  <2> QED
    BY <2>1, <2>2, <2>3 DEF QueueOf
<1>10. InsertAt(s, k, e) = t
  BY DEF InsertAt, t, h, a, b, m
<1> QED
  BY <1>8, <1>9, <1>10

\* enqueue, and the claim of the head.
LEMMA Enqueued ==
    ASSUME NEW s, Distinct(s), NEW e \in Refs, \A i \in DOMAIN s : s[i].id # e.id
    PROVE  Distinct(Append(s, e)) /\ QueueOf(Append(s, e)) = QueueOf(s) \cup {e}
<1> DEFINE t == Append(s, e)
<1>1. s \in Seq(Refs) /\ Len(s) \in Nat /\ DOMAIN s = 1 .. Len(s)
  BY LenProperties DEF Distinct
<1>2. /\ t \in Seq(Refs) /\ Len(t) = Len(s) + 1
      /\ \A i \in 1 .. Len(s) : t[i] = s[i]
      /\ t[Len(s) + 1] = e
  BY <1>1, AppendProperties
<1>3. DOMAIN t = 1 .. Len(s) + 1
  BY <1>2, LenProperties
<1> HIDE DEF t
<1>4. Distinct(t)
  BY <1>1, <1>2, <1>3 DEF Distinct
<1>5. QueueOf(t) = QueueOf(s) \cup {e}
  <2>1. \A i \in DOMAIN t : i \in DOMAIN s \/ i = Len(s) + 1
    BY <1>1, <1>3
  <2>2. \A i \in DOMAIN s : i \in DOMAIN t
    BY <1>1, <1>3
  <2>3. Len(s) + 1 \in DOMAIN t
    BY <1>1, <1>3
  <2> QED
    BY <1>1, <1>2, <2>1, <2>2, <2>3 DEF QueueOf
<1> QED
  BY <1>4, <1>5 DEF t

\* The claim of the head: it leaves, the others stay.
LEMMA HeadClaimed ==
    ASSUME NEW s, Distinct(s), s # <<>>
    PROVE  /\ Head(s) \in Refs /\ Head(s) \in QueueOf(s) /\ 1 \in DOMAIN s /\ s[1] = Head(s)
           /\ Distinct(Tail(s)) /\ QueueOf(Tail(s)) = QueueOf(s) \ {Head(s)}
<1>1. s \in Seq(Refs) /\ Len(s) \in Nat /\ DOMAIN s = 1 .. Len(s) /\ Len(s) # 0
  BY LenProperties, EmptySeq DEF Distinct
<1>2. 1 \in DOMAIN s /\ s[1] = Head(s) /\ Head(s) \in Refs
  BY <1>1
<1>3. RemoveAt(s, 1) = Tail(s)
  <2>1. SubSeq(s, 1, 0) = <<>>
    BY SubSeqEmpty
  <2>2. Tail(s) = SubSeq(s, 2, Len(s)) /\ Tail(s) \in Seq(Refs)
    BY <1>1, TailIsSubSeq, HeadTailProperties
  <2> QED
    BY <2>1, <2>2, ConcatEmptySeq DEF RemoveAt
<1>4. Head(s) \in QueueOf(s)
  BY <1>2 DEF QueueOf
<1>5. Distinct(RemoveAt(s, 1)) /\ QueueOf(RemoveAt(s, 1)) = QueueOf(s) \ {s[1]}
  BY ONLY Distinct(s), 1 \in DOMAIN s, <1>2, Removed
<1> QED
  BY ONLY <1>2, <1>3, <1>4, <1>5

\* edit: the item keeps its place and its id.
LEMMA Edited ==
    ASSUME NEW s, Distinct(s), NEW old \in QueueOf(s), NEW new \in Refs, new.id = old.id
    PROVE  LET t == [i \in DOMAIN s |-> IF s[i] = old THEN new ELSE s[i]]
           IN  Distinct(t) /\ QueueOf(t) = (QueueOf(s) \ {old}) \cup {new}
<1> DEFINE t == [i \in DOMAIN s |-> IF s[i] = old THEN new ELSE s[i]]
<1>1. s \in Seq(Refs) /\ Len(s) \in Nat /\ DOMAIN s = 1 .. Len(s)
  BY LenProperties DEF Distinct
<1>2. \A i \in 1 .. Len(s) : s[i] \in Refs
  BY <1>1
<1>3. t \in [1 .. Len(s) -> Refs]
  BY <1>1, <1>2
<1>4. t \in Seq(Refs) /\ DOMAIN t = DOMAIN s
  BY <1>1, <1>3
<1>5. \A i \in DOMAIN s : t[i].id = s[i].id /\ t[i] = IF s[i] = old THEN new ELSE s[i]
  OBVIOUS
<1> HIDE DEF t
<1>6. Distinct(t)
  BY <1>4, <1>5 DEF Distinct
<1>7. PICK k \in DOMAIN s : s[k] = old
  BY DEF QueueOf
<1>8. QueueOf(t) = (QueueOf(s) \ {old}) \cup {new}
  <2>1. \A i \in DOMAIN s : s[i] = old \/ t[i] = s[i]
    BY <1>5
  <2>2. ASSUME NEW i \in DOMAIN t PROVE t[i] \in (QueueOf(s) \ {old}) \cup {new}
    BY <1>4, <1>5, <2>2 DEF QueueOf
  <2>3. ASSUME NEW i \in DOMAIN s, s[i] # old PROVE s[i] \in QueueOf(t)
    BY <1>4, <1>5, <2>3 DEF QueueOf
  <2>4. new \in QueueOf(t)
    BY <1>4, <1>5, <1>7 DEF QueueOf
  <2> QED
    BY <2>2, <2>3, <2>4 DEF QueueOf
<1> QED
  BY <1>6, <1>8 DEF t

-----------------------------------------------------------------------------
(* What a step does to the queue *)

\* An item that is in the queue can be found and taken out.
LEMMA Claimable ==
    ASSUME TypeOK
    PROVE  /\ Distinct(items) /\ items \in Seq(Refs)
           /\ \A ref : InQueue(ref) <=> ref \in QueueOf(items)
           /\ \A ref \in QueueOf(items) :
                 /\ ref \in Refs /\ ref.id \in Prompts
                 /\ Index(ref) \in DOMAIN items /\ items[Index(ref)] = ref
                 /\ Distinct(Without(ref)) /\ QueueOf(Without(ref)) = QueueOf(items) \ {ref}
                 /\ Len(Without(ref)) = Len(items) - 1
<1>1. Distinct(items) /\ items \in Seq(Refs)
  BY DEF TypeOK, Distinct
<1>2. \A ref : InQueue(ref) <=> ref \in QueueOf(items)
  BY DEF InQueue, QueueOf
<1>3. ASSUME NEW ref \in QueueOf(items)
      PROVE  /\ ref \in Refs /\ ref.id \in Prompts
             /\ Index(ref) \in DOMAIN items /\ items[Index(ref)] = ref
             /\ Distinct(Without(ref)) /\ QueueOf(Without(ref)) = QueueOf(items) \ {ref}
             /\ Len(Without(ref)) = Len(items) - 1
  <2>1. \E i \in DOMAIN items : items[i] = ref
    BY DEF QueueOf
  <2>2. Index(ref) \in DOMAIN items /\ items[Index(ref)] = ref
    BY <2>1 DEF Index
  <2>3. ref \in Refs
    BY <1>1, <2>1
  <2>4. ref.id \in Prompts
    BY <2>3 DEF Refs
  <2> DEFINE k == Index(ref)
  <2>5. k \in DOMAIN items /\ items[k] = ref
    BY <2>2
  <2> HIDE DEF k
  <2>6. /\ Distinct(RemoveAt(items, k)) /\ Len(RemoveAt(items, k)) = Len(items) - 1
        /\ QueueOf(RemoveAt(items, k)) = QueueOf(items) \ {items[k]}
    BY ONLY <1>1, <2>5, Removed
  <2>7. Without(ref) = RemoveAt(items, k)
    BY DEF Without, k
  <2> QED
    BY <2>2, <2>3, <2>4, <2>5, <2>6, <2>7
<1> QED
  BY <1>1, <1>2, <1>3

\* The ways in which prompts move.
Stays    == QueueOf(items') = QueueOf(items) /\ UNCHANGED <<used, deleted, launched>>
Sent(p)  == p \in Prompts \ used /\ used' = used \cup {p} /\ UNCHANGED deleted
RunNow   == \E p : /\ Sent(p) /\ launched' = Append(launched, p)
                   /\ QueueOf(items') = QueueOf(items) /\ UNCHANGED steering
Queued   == \E e \in Refs : /\ Sent(e.id) /\ UNCHANGED launched
                            /\ QueueOf(items') = QueueOf(items) \cup {e} /\ UNCHANGED steering
Drained  == \E e \in Refs : \E h \in QueueOf(items) \cup {e} :
                /\ Sent(e.id) /\ launched' = Append(launched, h.id)
                /\ QueueOf(items') = (QueueOf(items) \cup {e}) \ {h}
                /\ steering = NoRef /\ UNCHANGED steering
Deleted  == \E ref \in QueueOf(items) :
                /\ deleted' = deleted \cup {ref.id} /\ UNCHANGED <<used, launched>>
                /\ QueueOf(items') = QueueOf(items) \ {ref}
                /\ ~Reserved(ref) /\ UNCHANGED steering
Claimed  == \E ref \in QueueOf(items) :
                /\ launched' = Append(launched, ref.id) /\ UNCHANGED <<used, deleted>>
                /\ QueueOf(items') = QueueOf(items) \ {ref}
                /\ steering' = NoRef
Changed  == \E old \in QueueOf(items), new \in Refs :
                /\ new.id = old.id /\ UNCHANGED <<used, deleted, launched>>
                /\ QueueOf(items') = (QueueOf(items) \ {old}) \cup {new}
                /\ ~Reserved(old) /\ UNCHANGED steering

\* A fresh prompt is not in the queue.
LEMMA FreshIsNew ==
    ASSUME TypeOK, PlaceInv, NEW p \in Prompts \ used
    PROVE  /\ \A i \in DOMAIN items : items[i].id # p
           /\ [id |-> p, rev |-> 1] \in Refs
<1>1. ~Waiting(p)
  BY DEF PlaceInv, Placed
<1>2. 1 \in 1 .. REVISIONS
  BY QueueAssumption
<1> QED
  BY <1>1, <1>2 DEF Waiting, Refs

\* Every step moves prompts in one of these ways, and the queue stays without duplicates.
LEMMA QueueStep ==
    ASSUME TypeOK, PlaceInv, LeaseInv, ReservationHasItsSteer, [Next]_vars
    PROVE  /\ Distinct(items')
           /\ Stays \/ RunNow \/ Queued \/ Drained \/ Deleted \/ Claimed \/ Changed
<1>1. Distinct(items)
  BY Claimable
<1>2. CASE UNCHANGED <<items, used, deleted, launched>>
  BY <1>1, <1>2 DEF Stays
<1>3. ASSUME NEW p \in Prompts, SendNow(p) \/ ExecutePlan(p)
      PROVE  Distinct(items') /\ RunNow
  BY <1>1, <1>3 DEF SendNow, ExecutePlan, Launch, RunNow, Sent
<1>4. ASSUME NEW p \in Prompts, SendQueued(p)
      PROVE  Distinct(items') /\ (Queued \/ Drained)
  <2> DEFINE e == [id |-> p, rev |-> 1]
             queue == Append(items, e)
  <2>1. /\ p \in Prompts \ used /\ used' = used \cup {p} /\ UNCHANGED <<steering, deleted>>
        /\ \/ /\ steering = NoRef /\ items' = Tail(queue)
              /\ launched' = Append(launched, Head(queue).id)
           \/ items' = queue /\ UNCHANGED launched
    BY <1>4 DEF SendQueued, Launch
  <2>2. e \in Refs /\ e.id = p /\ \A i \in DOMAIN items : items[i].id # e.id
    BY <2>1, FreshIsNew
  <2> HIDE DEF e
  <2>3. Distinct(queue) /\ QueueOf(queue) = QueueOf(items) \cup {e} /\ queue # <<>>
    BY <1>1, <2>2, Enqueued, AppendProperties, Claimable
  <2> HIDE DEF queue
  <2>4. Sent(e.id)
    BY <2>1, <2>2 DEF Sent
  <2>5. CASE items' = queue /\ UNCHANGED launched
    BY <2>1, <2>2, <2>3, <2>4, <2>5 DEF Queued
  <2>6. CASE steering = NoRef /\ items' = Tail(queue) /\ launched' = Append(launched, Head(queue).id)
    <3>1. /\ Head(queue) \in QueueOf(queue) /\ Distinct(Tail(queue))
          /\ QueueOf(Tail(queue)) = QueueOf(queue) \ {Head(queue)}
      BY <2>3, HeadClaimed
    <3> QED
      BY <2>1, <2>2, <2>3, <2>4, <2>6, <3>1 DEF Drained
  <2> QED
    BY <2>1, <2>5, <2>6
<1>5. ASSUME NEW ref \in Refs, EditItem(ref) PROVE Distinct(items') /\ Changed
  <2> DEFINE new == [ref EXCEPT !.rev = ref.rev + 1]
  <2>1. /\ ref \in QueueOf(items) /\ ~Reserved(ref) /\ ref.rev < REVISIONS
        /\ items' = [i \in DOMAIN items |-> IF items[i] = ref THEN new ELSE items[i]]
        /\ UNCHANGED <<steering, used, deleted, launched>>
    BY <1>5, Claimable DEF EditItem, QueueOnly
  <2>2. new \in Refs /\ new.id = ref.id
    BY <2>1, QueueAssumption DEF Refs
  <2> HIDE DEF new
  <2>3. Distinct(items') /\ QueueOf(items') = (QueueOf(items) \ {ref}) \cup {new}
    BY <1>1, <2>1, <2>2, Edited
  <2> QED
    BY <2>1, <2>2, <2>3 DEF Changed
<1>6. ASSUME NEW ref \in Refs, DeleteItem(ref) PROVE Distinct(items') /\ Deleted
  <2>1. /\ ref \in QueueOf(items) /\ ~Reserved(ref) /\ items' = Without(ref)
        /\ deleted' = deleted \cup {ref.id} /\ UNCHANGED <<steering, used, launched>>
    BY <1>6, Claimable DEF DeleteItem, MayDelete, QueueOnly
  <2> QED
    BY <2>1, Claimable DEF Deleted
<1>7. ASSUME NEW ref \in Refs, NEW target \in Refs, ReorderItem(ref, target)
      PROVE  Distinct(items') /\ Stays
  <2> DEFINE k == Index(target)
             rest == Without(ref)
  <2>1. /\ ref \in QueueOf(items) /\ target \in QueueOf(items)
        /\ items' = InsertAt(rest, k, ref)
        /\ UNCHANGED <<used, deleted, launched>>
    BY <1>7, Claimable DEF ReorderItem, Moved, QueueOnly
  <2>2. /\ Distinct(rest) /\ QueueOf(rest) = QueueOf(items) \ {ref}
        /\ k \in DOMAIN items /\ Len(rest) = Len(items) - 1
    BY <2>1, Claimable
  <2>3. k \in 1 .. Len(rest) + 1
    <3>1. DOMAIN items = 1 .. Len(items) /\ Len(items) \in Nat
      BY Claimable, LenProperties
    <3> QED
      BY <2>2, <3>1
  <2> HIDE DEF k, rest
  <2>4. \A i \in DOMAIN rest : rest[i].id # ref.id
    <3> SUFFICES ASSUME NEW i \in DOMAIN rest, rest[i].id = ref.id PROVE FALSE
      OBVIOUS
    <3>1. rest[i] \in QueueOf(items) /\ rest[i] # ref
      BY <2>2 DEF QueueOf
    <3>2. PICK j \in DOMAIN items : items[j] = rest[i]
      BY <3>1 DEF QueueOf
    <3>3. PICK n \in DOMAIN items : items[n] = ref
      BY <2>1 DEF QueueOf
    <3>4. j = n
      BY <1>1, <3>2, <3>3 DEF Distinct
    <3> QED
      BY <3>1, <3>2, <3>3, <3>4
  <2>5. Distinct(items') /\ QueueOf(items') = QueueOf(rest) \cup {ref}
    BY <2>1, <2>2, <2>3, <2>4, Inserted
  <2> QED
    BY <2>1, <2>2, <2>5 DEF Stays
<1>8. ASSUME NEW ref, ref \in QueueOf(items), items' = AfterClaim(ref), steering' = NoRef,
             launched' = Append(launched, ref.id), UNCHANGED <<used, deleted>>
      PROVE  Distinct(items') /\ Claimed
  BY <1>8, Claimable DEF AfterClaim, Claimed
<1>9. ASSUME NEW ref \in Refs, ActivateIdle(ref) PROVE Distinct(items') /\ Claimed
  BY <1>8, <1>9, Claimable DEF ActivateIdle, Launch
<1>10. CASE RestoreReturns
  <2>1. \/ UNCHANGED <<items, used, deleted, launched>>
        \/ /\ items # <<>> /\ steering = NoRef /\ UNCHANGED <<steering, used, deleted>>
           /\ items' = AfterClaim(Head(items)) /\ launched' = Append(launched, Head(items).id)
    BY <1>10 DEF RestoreReturns, Launch
  <2>2. items # <<>> => Head(items) \in QueueOf(items)
    BY <1>1, HeadClaimed
  <2> QED
    BY <1>2, <1>8, <2>1, <2>2
<1>11. CASE SteerRestored
  <2>1. \/ UNCHANGED <<items, used, deleted, launched>>
        \/ /\ InQueue(steering) /\ steering' = NoRef /\ UNCHANGED <<used, deleted>>
           /\ items' = AfterClaim(steering) /\ launched' = Append(launched, steering.id)
    BY <1>11 DEF SteerRestored, Launch, Unreserved
  <2> QED
    BY <1>2, <1>8, <2>1, Claimable
<1> QED
  BY <1>2, <1>3, <1>4, <1>5, <1>6, <1>7, <1>9, <1>10, <1>11
     DEF Next, UserStep, ClientStep, BackendStep, vars, BeginSteer, BeginStop, PageLoads,
         OnComplete, OnError, PageLoadReturns, CancelAnswers, CancelFails, StopRestoreFails,
         StopRestored, ServeLoad, Accept, Refuse, RegisterRun, CancelRun, BreakStream, FinishRun,
         StopArrives, BackendOnly

\* The id of a queued item tells it apart.
LEMMA SameId ==
    ASSUME NEW s, Distinct(s), NEW a \in QueueOf(s), NEW b \in QueueOf(s), a.id = b.id
    PROVE  a = b
  BY DEF Distinct, QueueOf

\* One more run.
LEMMA OneMoreRun ==
    ASSUME TypeOK, NEW p \in Prompts, launched' = Append(launched, p)
    PROVE  /\ \A q : Started(q)' <=> Started(q) \/ q = p
           /\ PlaceInv /\ ~Started(p) =>
                 \A i, j \in DOMAIN launched' : launched'[i] = launched'[j] => i = j
           /\ launched' \in Seq(Prompts) /\ Len(launched') = Len(launched) + 1
<1>1. launched \in Seq(Prompts) /\ Len(launched) \in Nat /\ DOMAIN launched = 1 .. Len(launched)
  BY LenProperties DEF TypeOK
<1> DEFINE t == Append(launched, p)
<1>2. /\ t \in Seq(Prompts) /\ Len(t) = Len(launched) + 1
      /\ \A i \in 1 .. Len(launched) : t[i] = launched[i]
      /\ t[Len(launched) + 1] = p
  BY <1>1, AppendProperties
<1>3. DOMAIN t = 1 .. Len(launched) + 1
  BY <1>2, LenProperties
<1> HIDE DEF t
<1>4. launched' = t
  BY DEF t
<1>5. \A q : (\E i \in DOMAIN t : t[i] = q) <=> (\E i \in DOMAIN launched : launched[i] = q) \/ q = p
  <2>1. \A i \in DOMAIN t : i \in DOMAIN launched \/ i = Len(launched) + 1
    BY <1>1, <1>3
  <2>2. \A i \in DOMAIN launched : i \in DOMAIN t
    BY <1>1, <1>3
  <2>3. Len(launched) + 1 \in DOMAIN t
    BY <1>1, <1>3
  <2> QED
    BY <1>1, <1>2, <2>1, <2>2, <2>3
<1>6. ASSUME PlaceInv, ~Started(p), NEW i \in DOMAIN t, NEW j \in DOMAIN t, t[i] = t[j]
      PROVE  i = j
  <2>1. \A n \in DOMAIN launched : launched[n] # p
    BY <1>6 DEF Started
  <2> QED
    BY <1>1, <1>2, <1>3, <1>6, <2>1 DEF PlaceInv
<1> QED
  BY <1>2, <1>4, <1>5, <1>6 DEF Started

\* Every way a prompt moves keeps it in one place.
LEMMA PlaceStep ==
    ASSUME TypeOK, PlaceInv, LeaseInv, ReservationHasItsSteer, [Next]_vars
    PROVE  PlaceInv'
<1> DEFINE W == {x.id : x \in QueueOf(items)}
           V == {x.id : x \in QueueOf(items')}
           S == {launched[i] : i \in DOMAIN launched}
           T == {launched'[i] : i \in DOMAIN launched'}
<1>1. \A q : /\ Waiting(q) <=> q \in W
             /\ Started(q) <=> q \in S
             /\ Waiting(q)' <=> q \in V
             /\ Started(q)' <=> q \in T
  BY DEF Waiting, Started, QueueOf
<1>2. Distinct(items) /\ \A x \in QueueOf(items) : x.id \in Prompts
  BY Claimable
<1>3. \A q \in Prompts : /\ q \in used <=> (q \in W \/ q \in S \/ q \in deleted)
                         /\ ~(q \in W /\ q \in S)
                         /\ q \in deleted => (q \notin W /\ q \notin S)
  BY <1>1 DEF PlaceInv, Placed
<1>4. UNCHANGED launched => T = S
  OBVIOUS
<1>5. \A i, j \in DOMAIN launched : launched[i] = launched[j] => i = j
  BY DEF PlaceInv
<1>13. \A x \in QueueOf(items) : x.id \in W
  OBVIOUS
<1>14. \A p \in Prompts : launched' = Append(launched, p) /\ p \notin S =>
         /\ T = S \cup {p}
         /\ \A i, j \in DOMAIN launched' : launched'[i] = launched'[j] => i = j
  <2> SUFFICES ASSUME NEW p \in Prompts, launched' = Append(launched, p), ~Started(p)
               PROVE  /\ \A q : q \in T <=> q \in S \/ q = p
                      /\ \A i, j \in DOMAIN launched' : launched'[i] = launched'[j] => i = j
    BY <1>1
  <2>1. /\ \A q : Started(q)' <=> Started(q) \/ q = p
        /\ \A i, j \in DOMAIN launched' : launched'[i] = launched'[j] => i = j
    BY OneMoreRun
  <2> HIDE DEF S, T
  <2> QED
    BY <1>1, <2>1
<1> DEFINE Kept == \A q \in Prompts : /\ q \in used' <=> (q \in V \/ q \in T \/ q \in deleted')
                                      /\ ~(q \in V /\ q \in T)
                                      /\ q \in deleted' => (q \notin V /\ q \notin T)
           Once == \A i, j \in DOMAIN launched' : launched'[i] = launched'[j] => i = j
<1>15. SUFFICES Kept /\ Once
  BY <1>1 DEF PlaceInv, Placed
<1>6. CASE Stays
  <2>1. /\ UNCHANGED <<used, deleted, launched>>
        /\ V = W
    BY <1>6 DEF Stays
  <2>2. T = S
    BY <1>4, <2>1
  <2>3. Once
    BY <1>5, <2>1
  <2> HIDE DEF W, V, S, T, Once
  <2> QED
    BY <1>3, <2>1, <2>2, <2>3
<1>7. CASE RunNow
  <2>1. PICK p \in Prompts : /\ p \notin used /\ used' = used \cup {p} /\ UNCHANGED deleted
                             /\ launched' = Append(launched, p)
                             /\ QueueOf(items') = QueueOf(items)
    BY <1>7 DEF RunNow, Sent
  <2>2. V = W
    BY <2>1
  <2> HIDE DEF W, V, S, T, Once
  <2>3. p \notin W /\ p \notin S /\ p \notin deleted
    BY <1>3, <2>1
  <2>4. T = S \cup {p} /\ Once
    BY <1>14, <2>1, <2>3 DEF Once
  <2> QED
    BY <1>3, <2>1, <2>2, <2>3, <2>4
<1>8. CASE Queued
  <2>1. PICK e \in Refs : /\ e.id \in Prompts \ used /\ used' = used \cup {e.id}
                          /\ UNCHANGED <<deleted, launched>>
                          /\ QueueOf(items') = QueueOf(items) \cup {e}
    BY <1>8 DEF Queued, Sent
  <2>2. V = W \cup {e.id}
    BY <2>1
  <2>3. T = S /\ Once
    BY <1>4, <1>5, <2>1
  <2> HIDE DEF W, V, S, T, Once
  <2> QED
    BY <1>3, <2>1, <2>2, <2>3
<1>9. CASE Drained
  <2>0. PICK e \in Refs : \E h \in QueueOf(items) \cup {e} :
            /\ Sent(e.id) /\ launched' = Append(launched, h.id)
            /\ QueueOf(items') = (QueueOf(items) \cup {e}) \ {h}
    BY <1>9 DEF Drained
  <2>1. PICK h \in QueueOf(items) \cup {e} :
            /\ e.id \in Prompts \ used /\ used' = used \cup {e.id} /\ UNCHANGED deleted
            /\ launched' = Append(launched, h.id)
            /\ QueueOf(items') = (QueueOf(items) \cup {e}) \ {h}
    BY <2>0 DEF Sent
  <2>2. h.id = e.id \/ (h.id \in Prompts /\ h.id \in W)
    BY <1>2, <1>13
  <2> HIDE DEF S, T, Once
  <2>3. e.id \notin W /\ e.id \notin S /\ e.id \notin deleted
    <3> HIDE DEF W, V
    <3> QED
      BY <1>3, <2>1
  <2>4. h.id \in Prompts /\ h.id \notin S /\ h.id \notin deleted
    <3> HIDE DEF W, V
    <3> QED
      BY <1>3, <2>1, <2>2, <2>3
  <2>5. T = S \cup {h.id} /\ Once
    BY <1>14, <2>1, <2>4 DEF Once
  <2>6. V = (W \cup {e.id}) \ {h.id}
    <3>1. \A x, y \in QueueOf(items) \cup {e} : x.id = y.id => x = y
      <4>1. \A x, y \in QueueOf(items) : x.id = y.id => x = y
        BY <1>2, SameId
      <4>2. \A x \in QueueOf(items) : x.id # e.id
        BY <1>13, <2>3
      <4> QED
        BY <4>1, <4>2
    <3> QED
      BY <2>1, <3>1
  <2> HIDE DEF W, V
  <2> QED
    BY <1>3, <2>1, <2>2, <2>3, <2>4, <2>5, <2>6
<1>10. CASE Deleted
  <2>1. PICK ref \in QueueOf(items) : /\ deleted' = deleted \cup {ref.id}
                                      /\ UNCHANGED <<used, launched>>
                                      /\ QueueOf(items') = QueueOf(items) \ {ref}
    BY <1>10 DEF Deleted
  <2>2. V = W \ {ref.id} /\ ref.id \in W /\ ref.id \in Prompts
    <3>1. \A x \in QueueOf(items) : x.id = ref.id => x = ref
      BY <1>2, SameId
    <3> QED
      BY <1>2, <2>1, <3>1
  <2>3. T = S /\ Once
    BY <1>4, <1>5, <2>1
  <2> HIDE DEF W, V, S, T, Once
  <2> QED
    BY <1>3, <2>1, <2>2, <2>3
<1>11. CASE Claimed
  <2>1. PICK ref \in QueueOf(items) : /\ launched' = Append(launched, ref.id)
                                      /\ UNCHANGED <<used, deleted>>
                                      /\ QueueOf(items') = QueueOf(items) \ {ref}
    BY <1>11 DEF Claimed
  <2>2. V = W \ {ref.id} /\ ref.id \in W /\ ref.id \in Prompts
    <3>1. \A x \in QueueOf(items) : x.id = ref.id => x = ref
      BY <1>2, SameId
    <3> QED
      BY <1>2, <2>1, <3>1
  <2> HIDE DEF W, V, S, T, Once
  <2>3. ref.id \notin S /\ ref.id \notin deleted
    BY <1>3, <2>2
  <2>4. T = S \cup {ref.id} /\ Once
    BY <1>14, <2>1, <2>2, <2>3 DEF Once
  <2> QED
    BY <1>3, <2>1, <2>2, <2>3, <2>4
<1>12. CASE Changed
  <2>1. PICK old \in QueueOf(items), new \in Refs :
            /\ new.id = old.id /\ UNCHANGED <<used, deleted, launched>>
            /\ QueueOf(items') = (QueueOf(items) \ {old}) \cup {new}
    BY <1>12 DEF Changed
  <2>2. V = W
    BY <2>1
  <2>3. T = S /\ Once
    BY <1>4, <1>5, <2>1
  <2> HIDE DEF W, V, S, T, Once
  <2> QED
    BY <1>3, <2>1, <2>2, <2>3
<1> QED
  BY <1>6, <1>7, <1>8, <1>9, <1>10, <1>11, <1>12, QueueStep

-----------------------------------------------------------------------------
(* The reservation of a steer *)

\* Who reserves and who gives up, and what becomes of the lease.
LEMMA SteerMoves ==
    ASSUME TypeOK, LeaseInv, ReservationHasItsSteer, [Next]_vars
    PROVE  /\ \/ steering' \in {steering, NoRef}
              \/ InQueue(steering') /\ Stays
           /\ steering' # NoRef <=> gate'.purpose = "steer"
<1>1. /\ NoGate.purpose = "none" /\ (steering # NoRef <=> gate.purpose = "steer")
      /\ \A ref \in Refs : ref # NoRef
  BY QueueAssumption DEF NoGate, ReservationHasItsSteer
<1>2. CASE UNCHANGED <<steering, gate>>
  BY <1>1, <1>2
<1>3. ASSUME NEW p \in Prompts, SendQueued(p) PROVE UNCHANGED steering /\ gate'.purpose = gate.purpose
  <2>1. UNCHANGED steering /\ (gate' = gate \/ gate' = [gate EXCEPT !.drain = TRUE])
    BY <1>3 DEF SendQueued
  <2> QED
    BY <2>1 DEF TypeOK
<1>4. ASSUME NEW ref \in Refs, ActivateIdle(ref)
      PROVE  steering = NoRef /\ steering' = NoRef /\ UNCHANGED gate
  <2>1. gate = NoGate /\ steering' = NoRef /\ UNCHANGED gate
    BY <1>4 DEF ActivateIdle, MayLaunch, Free
  <2> QED
    BY <1>1, <2>1
<1>5. ASSUME NEW ref \in Refs, BeginSteer(ref)
      PROVE  /\ InQueue(steering') /\ Stays /\ steering' # NoRef
             /\ gate'.purpose = "steer"
  <2>1. /\ InQueue(ref) /\ steering' = ref /\ UNCHANGED <<items, used, deleted, launched>>
        /\ gate' = [NoGate EXCEPT !.purpose = "steer", !.run = stream.run, !.pc = "cancel"]
    BY <1>5 DEF BeginSteer
  <2> QED
    BY <1>1, <2>1 DEF NoGate, Stays
<1>6. CASE BeginStop
  <2>1. /\ gate = NoGate /\ UNCHANGED steering
        /\ gate' = [NoGate EXCEPT !.purpose = "stop", !.run = stream.run, !.pc = "cancel"]
    BY <1>6 DEF BeginStop, Free
  <2> QED
    BY <1>1, <2>1 DEF NoGate
<1>7. ASSUME NEW r \in Runs, OnComplete(r)
      PROVE  UNCHANGED steering /\ (UNCHANGED gate \/ (gate.purpose = "none" /\ gate'.purpose = "restore"))
  <2>1. /\ UNCHANGED steering
        /\ \/ UNCHANGED gate
           \/ gate = NoGate /\ gate' = [NoGate EXCEPT !.purpose = "restore", !.run = r, !.pc = "load",
                                                      !.drain = AutoDrains(sse[r])]
    BY <1>7 DEF OnComplete, Free
  <2> QED
    BY <1>1, <2>1 DEF NoGate
<1>8. CASE CancelAnswers
  <2>1. UNCHANGED steering /\ gate' = [gate EXCEPT !.pc = "load", !.cancelled = back[gate.run] # "finished"]
    BY <1>8 DEF CancelAnswers
  <2>2. gate'.purpose = gate.purpose
    BY <2>1 DEF TypeOK
  <2> QED
    BY <1>1, <2>1, <2>2
<1>9. CASE CancelFails \/ StopRestoreFails \/ StopRestored \/ SteerRestored \/ RestoreReturns
  <2>1. /\ gate' = NoGate
        /\ \/ steering' = NoRef
           \/ gate.purpose # "steer" /\ UNCHANGED steering
    BY <1>9 DEF CancelFails, StopRestoreFails, StopRestored, SteerRestored, RestoreReturns, Unreserved
  <2> QED
    BY <1>1, <2>1
<1>10. ASSUME NEW p \in Prompts, SendNow(p) \/ ExecutePlan(p) PROVE UNCHANGED <<steering, gate>>
  BY <1>10 DEF SendNow, ExecutePlan
<1>11. ASSUME NEW ref \in Refs, EditItem(ref) \/ DeleteItem(ref) \/ \E target \in Refs : ReorderItem(ref, target)
       PROVE  UNCHANGED <<steering, gate>>
  BY <1>11 DEF EditItem, DeleteItem, ReorderItem, QueueOnly
<1>12. ASSUME NEW r \in Runs,
              OnError(r) \/ Accept(r) \/ Refuse(r) \/ RegisterRun(r) \/ CancelRun(r) \/ BreakStream(r)
              \/ \E event \in {"natural", "awaiting", "other", "broken"} : FinishRun(r, event)
       PROVE  UNCHANGED <<steering, gate>>
  BY <1>12 DEF OnError, Accept, Refuse, RegisterRun, CancelRun, BreakStream, FinishRun, BackendOnly
<1>13. ASSUME UNCHANGED vars \/ PageLoads \/ PageLoadReturns \/ StopArrives \/ \E k \in DOMAIN loads : ServeLoad(k)
       PROVE  UNCHANGED <<steering, gate>>
  BY <1>13 DEF vars, PageLoads, PageLoadReturns, StopArrives, ServeLoad, BackendOnly
<1> QED
  BY <1>1, <1>2, <1>3, <1>4, <1>5, <1>6, <1>7, <1>8, <1>9, <1>10, <1>11, <1>12, <1>13
     DEF Next, UserStep, ClientStep, BackendStep

\* Only the steer that reserved an item gives it up or takes it out of the queue.
LEMMA ReservationStep ==
    ASSUME TypeOK, PlaceInv, LeaseInv, ReservationHasItsSteer, [Next]_vars
    PROVE  ReservationHasItsSteer'
<1>1. steering' # NoRef <=> gate'.purpose = "steer"
  BY SteerMoves
<1>2. InQueue(steering)' <=> steering' \in QueueOf(items')
  BY DEF InQueue, QueueOf
<1>3. InQueue(steering') <=> steering' \in QueueOf(items)
  BY DEF InQueue, QueueOf
<1>4. steering # NoRef => steering \in QueueOf(items)
  BY Claimable DEF ReservationHasItsSteer
<1>5. ASSUME steering' # NoRef PROVE steering' \in QueueOf(items')
  <2>1. CASE InQueue(steering') /\ Stays
    BY <1>3, <2>1 DEF Stays
  <2>2. CASE steering' = steering
    <3>1. steering \in QueueOf(items) /\ steering # NoRef
      BY <1>4, <1>5, <2>2
    <3>2. \A ref : ~Reserved(ref) => ref # steering
      BY <3>1 DEF Reserved
    <3> QED
      BY <1>5, <2>2, <3>1, <3>2, QueueStep DEF Stays, RunNow, Queued, Drained, Deleted, Claimed, Changed
  <2> QED
    BY <1>5, <2>1, <2>2, SteerMoves
<1> QED
  BY <1>1, <1>2, <1>5 DEF ReservationHasItsSteer

-----------------------------------------------------------------------------
(* Reads, the lease and the runs *)

\* The types of reads, of the lease, of runs and of their streams.
Keys == {"lease", "page"}
Read == [busy : BOOLEAN, current : BOOLEAN, served : BOOLEAN, snapshot : SUBSET Runs,
         epoch : 0 .. RUNS]
GateType == [purpose : Purposes, run : 0 .. RUNS, pc : {"none", "cancel", "load"},
             drain : BOOLEAN, cancelled : BOOLEAN]
BackType == {"none", "posted", "marked", "locked", "doomed", "active", "stopping", "refused",
             "finished", "cancelled"}
SseType == {"none", "open", "natural", "awaiting", "other", "broken", "closed"}

\* The types of what the lease orders.
CoordType ==
    /\ stream \in [run : 0 .. RUNS, running : BOOLEAN, stopping : BOOLEAN]
    /\ gate \in GateType
    /\ loads \in [Keys -> Read]
    /\ back \in [Runs -> BackType] /\ sse \in [Runs -> SseType]
    /\ launched \in Seq(Prompts) /\ Len(launched) <= RUNS

\* The inductive invariant without the queue.
Coord ==
    /\ CoordType /\ LeaseInv /\ BackInv /\ LoadInv
    /\ LeaseLaunchesAreClean /\ LeaseOwnsTheSession /\ OldReadsNeverApply

\* The types of the coordinators are part of the type invariant.
LEMMA CoordTyped ==
    ASSUME IInv
    PROVE  Coord
  BY DEF IInv, Coord, TypeOK, CoordType, GateType, Keys, Read, BackType, SseType, LeaseDiscipline

\* The number of runs so far.
LEMMA SoFar ==
    ASSUME CoordType
    PROVE  /\ Len(launched) \in 0 .. RUNS /\ RUNS \in Nat /\ Runs = 1 .. RUNS
           /\ NoLoad \in Read /\ NoLoad.busy = FALSE /\ NoLoad.current = FALSE
           /\ NoLoad.served = FALSE
           /\ DOMAIN loads = Keys
<1>1. Len(launched) \in 0 .. RUNS /\ RUNS \in Nat
  BY QueueAssumption, LenProperties DEF CoordType
<1> QED
  BY <1>1 DEF NoLoad, Read, Runs, CoordType

\* A new read is current, waits to be served, and makes the other one stale.
LEMMA ReadBegins ==
    ASSUME CoordType, NEW k \in Keys
    PROVE  LET m == BeginLoad(loads, k) IN
           /\ m \in [Keys -> Read]
           /\ m[k].busy /\ m[k].current /\ ~m[k].served /\ m[k].epoch = Len(launched)
           /\ \A j \in Keys \ {k} : /\ m[j].busy <=> loads[j].busy
                                    /\ m[j].served <=> loads[j].served
                                    /\ ~m[j].current
<1> DEFINE new == [NoLoad EXCEPT !.busy = TRUE, !.current = TRUE, !.epoch = Len(launched)]
           m == BeginLoad(loads, k)
<1>1. NoLoad \in Read /\ ~NoLoad.served /\ Len(launched) \in 0 .. RUNS
  BY SoFar
<1>2. new \in Read /\ new.busy /\ new.current /\ ~new.served /\ new.epoch = Len(launched)
  BY <1>1 DEF Read
<1> HIDE DEF new
<1>3. DOMAIN loads = Keys
  BY SoFar
<1>4. m = [j \in Keys |-> IF j = k THEN new ELSE [loads[j] EXCEPT !.current = FALSE]]
  BY <1>3 DEF BeginLoad, new
<1>5. ASSUME NEW j \in Keys
      PROVE  LET e == [loads[j] EXCEPT !.current = FALSE]
             IN  /\ e \in Read /\ ~e.current
                 /\ e.busy <=> loads[j].busy
                 /\ e.served <=> loads[j].served
  <2>1. loads[j] \in Read
    BY DEF CoordType
  <2> QED
    BY <2>1 DEF Read
<1>6. m[k] = new
  BY <1>4
<1>7. \A j \in Keys \ {k} : m[j] = [loads[j] EXCEPT !.current = FALSE]
  BY <1>4
<1>8. m \in [Keys -> Read]
  BY <1>2, <1>4, <1>5
<1> HIDE DEF m
<1>9. m[k].busy /\ m[k].current /\ ~m[k].served /\ m[k].epoch = Len(launched)
  BY <1>2, <1>6
<1>10. \A j \in Keys \ {k} : /\ m[j].busy <=> loads[j].busy
                             /\ m[j].served <=> loads[j].served
                             /\ ~m[j].current
  BY <1>5, <1>7
<1> QED
  BY <1>8, <1>9, <1>10 DEF m

\* The read of a coordinator, and the page's.
LEMMA LeaseReadBegins ==
    ASSUME CoordType
    PROVE  LET m == BeginLoad(loads, "lease") IN
           /\ m \in [Keys -> Read] /\ DOMAIN m = Keys
           /\ m["lease"].busy /\ ~m["lease"].served
           /\ \A k \in Keys : m[k].current => m[k].epoch = Len(launched)
<1> DEFINE m == BeginLoad(loads, "lease")
<1>1. "lease" \in Keys /\ \A k \in Keys : k = "lease" \/ k \in Keys \ {"lease"}
  BY DEF Keys
<1>2. /\ m \in [Keys -> Read]
      /\ m["lease"].busy /\ ~m["lease"].served /\ m["lease"].epoch = Len(launched)
      /\ \A j \in Keys \ {"lease"} : ~m[j].current
  BY ONLY CoordType, <1>1, ReadBegins
<1> HIDE DEF m
<1> SUFFICES /\ m \in [Keys -> Read] /\ DOMAIN m = Keys
             /\ m["lease"].busy /\ ~m["lease"].served
             /\ \A k \in Keys : m[k].current => m[k].epoch = Len(launched)
  BY DEF m
<1> QED
  BY <1>1, <1>2

\* The page's read makes the coordinator's stale.
LEMMA PageReadBegins ==
    ASSUME CoordType
    PROVE  LET m == BeginLoad(loads, "page") IN
           /\ m \in [Keys -> Read] /\ DOMAIN m = Keys
           /\ m["lease"].busy <=> loads["lease"].busy
           /\ m["lease"].served <=> loads["lease"].served
           /\ ~m["lease"].current
           /\ \A k \in Keys : m[k].current => m[k].epoch = Len(launched)
<1> DEFINE m == BeginLoad(loads, "page")
<1>1. /\ "page" \in Keys /\ "lease" \in Keys \ {"page"}
      /\ \A k \in Keys : k = "page" \/ k \in Keys \ {"page"}
  BY DEF Keys
<1>2. /\ m \in [Keys -> Read]
      /\ m["page"].epoch = Len(launched)
      /\ \A j \in Keys \ {"page"} : /\ m[j].busy <=> loads[j].busy
                                    /\ m[j].served <=> loads[j].served
                                    /\ ~m[j].current
  BY ONLY CoordType, <1>1, ReadBegins
<1> HIDE DEF m
<1> SUFFICES /\ m \in [Keys -> Read] /\ DOMAIN m = Keys
             /\ m["lease"].busy <=> loads["lease"].busy
             /\ m["lease"].served <=> loads["lease"].served
             /\ ~m["lease"].current
             /\ \A k \in Keys : m[k].current => m[k].epoch = Len(launched)
  BY DEF m
<1> QED
  BY <1>1, <1>2

\* A read that has returned.
LEMMA ReadEnds ==
    ASSUME CoordType, NEW k \in Keys
    PROVE  LET m == [loads EXCEPT ![k] = NoLoad] IN
           /\ m \in [Keys -> Read]
           /\ ~m[k].busy /\ ~m[k].current /\ ~m[k].served
           /\ \A j \in Keys \ {k} : m[j] = loads[j]
  BY SoFar DEF CoordType

\* A launch makes every read stale.
LEMMA ReadsGoStale ==
    ASSUME NEW l \in [Keys -> Read]
    PROVE  /\ Invalidated(l) \in [Keys -> Read]
           /\ \A j \in Keys : /\ Invalidated(l)[j].busy <=> l[j].busy
                              /\ Invalidated(l)[j].served <=> l[j].served
                              /\ ~Invalidated(l)[j].current
<1>1. ASSUME NEW j \in Keys
      PROVE  LET e == [l[j] EXCEPT !.current = FALSE]
             IN  /\ e \in Read /\ ~e.current
                 /\ e.busy <=> l[j].busy
                 /\ e.served <=> l[j].served
  <2>1. l[j] \in Read
    OBVIOUS
  <2> QED
    BY <2>1 DEF Read
<1>2. Invalidated(l) = [j \in Keys |-> [l[j] EXCEPT !.current = FALSE]]
  BY DEF Invalidated
<1>3. Invalidated(l) \in [Keys -> Read]
  BY <1>1, <1>2
<1>4. ASSUME NEW j \in Keys
      PROVE  /\ Invalidated(l)[j].busy <=> l[j].busy
             /\ Invalidated(l)[j].served <=> l[j].served
             /\ ~Invalidated(l)[j].current
  <2>1. Invalidated(l)[j] = [l[j] EXCEPT !.current = FALSE]
    BY <1>2
  <2> QED
    BY <1>1, <2>1
<1> QED
  BY <1>3, <1>4

\* Steps that leave the coordinators alone.
LEMMA Quiet ==
    ASSUME Coord, UNCHANGED <<stream, gate, loads, back, sse, launched, dirty>>
    PROVE  Coord'
  BY DEF Coord, CoordType, LeaseInv, BackInv, RunInv, LoadInv, Running, Free, Restored, Settled,
         LeaseLaunchesAreClean, LeaseOwnsTheSession, OldReadsNeverApply

\* The fields of the idle lease.
LEMMA Idle ==
    /\ NoGate \in GateType
    /\ NoGate.purpose = "none" /\ NoGate.pc = "none" /\ NoGate.run = 0
  BY QueueAssumption DEF NoGate, GateType, Purposes

\* A launch: a new run is posted, reads go stale, the lease is free.
LEMMA LaunchKeeps ==
    ASSUME Coord, NEW p \in Prompts, NEW l \in [Keys -> Read], NEW streams \in [Runs -> SseType], NEW clean,
           Launch(p, l, streams, clean), gate' = NoGate, dirty' = FALSE,
           ~l["lease"].busy, ~l["lease"].served,
           \A r \in Runs : streams[r] \in {sse[r], "closed"},
           \A r \in Runs : back[r] # "posted"
    PROVE  Coord'
<1> DEFINE n == Len(launched) + 1
<1>1. CoordType /\ Len(launched) \in 0 .. RUNS /\ RUNS \in Nat /\ Runs = 1 .. RUNS
  BY SoFar DEF Coord
<1>2. /\ n \in Runs
      /\ launched' = Append(launched, p)
      /\ stream' = [run |-> n, running |-> TRUE, stopping |-> FALSE]
      /\ back' = [back EXCEPT ![n] = "posted"]
      /\ loads' = Invalidated(l)
      /\ sse' = [streams EXCEPT ![n] = "open"]
  BY DEF Launch
<1>3. launched' \in Seq(Prompts) /\ Len(launched') = n
  BY <1>1, <1>2, AppendProperties DEF CoordType
<1>4. /\ stream' \in [run : 0 .. RUNS, running : BOOLEAN, stopping : BOOLEAN]
      /\ stream'.run = n /\ stream'.running
  BY <1>1, <1>2
<1>5. /\ back' \in [Runs -> BackType] /\ back'[n] = "posted"
      /\ \A r \in Runs : r # n => back'[r] = back[r]
  BY <1>1, <1>2 DEF CoordType, BackType
<1>6. /\ sse' \in [Runs -> SseType] /\ sse'[n] = "open"
      /\ \A r \in Runs : r # n => sse'[r] \in {sse[r], "closed"}
  BY <1>1, <1>2 DEF SseType
<1>7. /\ loads' \in [Keys -> Read] /\ \A k \in Keys : ~loads'[k].current
      /\ ~loads'["lease"].busy /\ ~loads'["lease"].served /\ DOMAIN loads' = Keys
  BY <1>2, ReadsGoStale DEF Keys
<1>8. CoordType'
  <2>1. gate' \in GateType
    BY Idle
  <2>2. Len(launched') <= RUNS
    BY <1>1, <1>2, <1>3
  <2> QED
    BY <1>3, <1>4, <1>5, <1>6, <1>7, <2>1, <2>2 DEF CoordType
<1>9. LeaseInv'
  BY <1>1, <1>3, <1>4, <1>7, Idle DEF LeaseInv, Free
<1>10. BackInv'
  <2> SUFFICES ASSUME NEW r \in Runs PROVE RunInv(r)'
    BY DEF BackInv
  <2>1. CASE r = n
    BY <1>1, <1>2, <1>3, <1>4, <1>5, <1>6, <2>1 DEF RunInv, Running
  <2>2. CASE r # n
    <3>1. back'[r] = back[r] /\ sse'[r] \in {sse[r], "closed"} /\ back[r] # "posted"
      BY <1>5, <1>6, <2>2
    <3>2. r > Len(launched) <=> r > Len(launched')
      BY <1>1, <1>3, <2>2
    <3>3. RunInv(r)
      BY DEF Coord, BackInv
    <3> QED
      BY <3>1, <3>2, <3>3 DEF RunInv
  <2> QED
    BY <2>1, <2>2
<1>11. LoadInv'
  BY <1>7, Idle DEF LoadInv, Restored, Keys
<1>12. LeaseLaunchesAreClean' /\ LeaseOwnsTheSession' /\ OldReadsNeverApply'
  BY <1>7 DEF LeaseLaunchesAreClean, LeaseOwnsTheSession, OldReadsNeverApply, Free
<1> QED
  BY <1>8, <1>9, <1>10, <1>11, <1>12 DEF Coord

\* A coordinator that gives the lease up without a launch.
LEMMA ReleaseKeeps ==
    ASSUME Coord, gate' = NoGate, UNCHANGED <<back, launched, dirty>>,
           stream' \in [run : 0 .. RUNS, running : BOOLEAN, stopping : BOOLEAN],
           stream'.run \in {0, stream.run}, stream'.running => stream'.run # 0,
           sse' \in [Runs -> SseType], \A r \in Runs : sse'[r] \in {sse[r], "closed"},
           \A r \in Runs : back[r] = "posted" => Running(r)' /\ sse'[r] = sse[r],
           loads' \in {loads, LoadDone}, loads' = loads => gate.pc = "cancel"
    PROVE  Coord'
<1>1. CoordType /\ Len(launched) \in 0 .. RUNS /\ RUNS \in Nat /\ Runs = 1 .. RUNS
  BY SoFar DEF Coord
<1>2. /\ loads' \in [Keys -> Read] /\ DOMAIN loads' = Keys
      /\ ~loads'["lease"].busy /\ ~loads'["lease"].served
      /\ \A k \in Keys : loads'[k].current => loads'[k] = loads[k]
  <2>1. CASE loads' = LoadDone
    BY <1>1, <2>1, ReadEnds DEF LoadDone, Keys
  <2>2. CASE loads' = loads
    BY <1>1, <2>2 DEF Coord, CoordType, LeaseInv, Keys
  <2> QED
    BY <2>1, <2>2
<1>3. CoordType'
  <2>1. gate' \in GateType
    BY Idle
  <2> QED
    BY <1>1, <1>2, <2>1 DEF CoordType
<1>4. LeaseInv'
  BY <1>2, Idle DEF Coord, LeaseInv, Free
<1>5. BackInv'
  <2> SUFFICES ASSUME NEW r \in Runs PROVE RunInv(r)'
    BY DEF BackInv
  <2>1. RunInv(r)
    BY DEF Coord, BackInv
  <2> QED
    BY <2>1 DEF RunInv
<1>6. LoadInv'
  BY <1>2, Idle DEF LoadInv, Restored
<1>7. LeaseLaunchesAreClean' /\ LeaseOwnsTheSession' /\ OldReadsNeverApply'
  BY <1>1, <1>2, SoFar DEF Coord, LeaseLaunchesAreClean, LeaseOwnsTheSession, OldReadsNeverApply, Free
<1> QED
  BY <1>3, <1>4, <1>5, <1>6, <1>7 DEF Coord

\* A steer or a Stop takes the free lease for the running stream.
LEMMA LeaseKeeps ==
    ASSUME Coord, Free, stream.running, NEW purpose \in {"stop", "steer"},
           gate' = [NoGate EXCEPT !.purpose = purpose, !.run = stream.run, !.pc = "cancel"],
           stream' = [stream EXCEPT !.stopping = TRUE],
           UNCHANGED <<loads, back, sse, launched, dirty>>
    PROVE  Coord'
<1>1. CoordType /\ Len(launched) \in 0 .. RUNS /\ RUNS \in Nat /\ Runs = 1 .. RUNS
  BY SoFar DEF Coord
<1>2. /\ stream' \in [run : 0 .. RUNS, running : BOOLEAN, stopping : BOOLEAN]
      /\ stream'.run = stream.run /\ (stream'.running <=> stream.running) /\ stream'.stopping
      /\ stream.run \in 1 .. Len(launched) /\ stream.run \in 0 .. RUNS
  <2>1. stream \in [run : 0 .. RUNS, running : BOOLEAN, stopping : BOOLEAN]
    BY DEF Coord, CoordType
  <2>2. stream.run \in {0, Len(launched)} /\ stream.run # 0
    BY DEF Coord, LeaseInv
  <2>3. /\ stream' \in [run : 0 .. RUNS, running : BOOLEAN, stopping : BOOLEAN]
        /\ stream'.run = stream.run /\ stream'.stopping
        /\ stream'.running <=> stream.running
    BY ONLY <2>1, stream' = [stream EXCEPT !.stopping = TRUE]
  <2> QED
    BY <1>1, <2>2, <2>3
<1>3. /\ gate' \in GateType /\ gate'.purpose = purpose /\ gate'.run = stream.run
      /\ gate'.pc = "cancel"
  BY <1>2, Idle DEF GateType, Purposes
<1>4. gate' # NoGate /\ gate.pc # "load"
  BY <1>3, Idle DEF Free
<1>5. CoordType'
  BY <1>1, <1>2, <1>3 DEF CoordType
<1>6. LeaseInv'
  BY <1>2, <1>3, <1>4 DEF Coord, LeaseInv, Free
<1>7. BackInv'
  <2> SUFFICES ASSUME NEW r \in Runs PROVE RunInv(r)'
    BY DEF BackInv
  <2>1. RunInv(r)
    BY DEF Coord, BackInv
  <2> QED
    BY <1>2, <2>1 DEF RunInv, Running
<1>8. LoadInv'
  BY <1>3, <1>4 DEF Coord, LeaseInv, LoadInv, Restored
<1>9. LeaseLaunchesAreClean' /\ LeaseOwnsTheSession' /\ OldReadsNeverApply'
  BY <1>2, <1>3 DEF Coord, LeaseLaunchesAreClean, LeaseOwnsTheSession, OldReadsNeverApply
<1> QED
  BY <1>5, <1>6, <1>7, <1>8, <1>9 DEF Coord

\* While a coordinator loads, no request waits to be accepted.
LEMMA NothingPosted ==
    ASSUME Coord, gate.pc = "load" \/ ~stream.running, NEW r \in Runs
    PROVE  back[r] # "posted"
<1>1. RunInv(r)
  BY DEF Coord, BackInv
<1>2. gate.pc = "load" => ~Free
  BY DEF Coord, LeaseInv
<1>3. back[r] = "posted" => stream.running /\ stream.run = r
  BY <1>1 DEF RunInv, Running
<1>4. ~Free /\ stream.running => stream.run = gate.run
  BY DEF Coord, LeaseOwnsTheSession
<1>5. gate.pc = "load" => back[gate.run] # "posted"
  BY DEF Coord, LoadInv, Over
<1> QED
  BY <1>2, <1>3, <1>4, <1>5

\* A terminal event of the running stream without a lease starts the restore.
LEMMA OnCompleteKeeps ==
    ASSUME Coord, NEW r \in Runs, OnComplete(r)
    PROVE  Coord'
<1>1. CoordType /\ Len(launched) \in 0 .. RUNS /\ RUNS \in Nat /\ Runs = 1 .. RUNS
  BY SoFar DEF Coord
<1>2. /\ back[r] = "finished" /\ r \in 1 .. Len(launched)
      /\ sse' = [sse EXCEPT ![r] = "closed"]
      /\ UNCHANGED <<back, launched, dirty>>
  <2>1. RunInv(r)
    BY DEF Coord, BackInv
  <2> QED
    BY <1>1, <2>1 DEF OnComplete, RunInv
<1>3. /\ stream' \in [run : 0 .. RUNS, running : BOOLEAN, stopping : BOOLEAN]
      /\ stream'.run = stream.run
      /\ \/ Running(r) /\ ~stream'.running
         \/ ~Running(r) /\ stream' = stream
  BY DEF OnComplete, Coord, CoordType
<1>4. /\ sse' \in [Runs -> SseType] /\ sse'[r] = "closed"
      /\ \A q \in Runs : q # r => sse'[q] = sse[q]
  BY <1>2 DEF Coord, CoordType, SseType
<1>5. BackInv'
  <2> SUFFICES ASSUME NEW q \in Runs PROVE RunInv(q)'
    BY DEF BackInv
  <2>1. RunInv(q)
    BY DEF Coord, BackInv
  <2>2. back'[q] = back[q] /\ Len(launched') = Len(launched) /\ sse'[q] \in {sse[q], "closed"}
    BY <1>2, <1>4
  <2>3. back[q] = "posted" => q # r /\ Running(q)' /\ sse'[q] = sse[q]
    BY <1>2, <1>3, <1>4, <2>1 DEF RunInv, Running
  <2> QED
    BY <2>1, <2>2, <2>3 DEF RunInv
<1>6. CASE UNCHANGED <<gate, loads>>
  <2>1. CoordType'
    BY <1>2, <1>3, <1>4, <1>6 DEF Coord, CoordType
  <2>2. LeaseInv'
    BY <1>2, <1>3, <1>6 DEF Coord, LeaseInv, Free
  <2>3. LoadInv'
    BY <1>2, <1>6 DEF Coord, LoadInv, Restored, Settled
  <2>4. LeaseLaunchesAreClean' /\ LeaseOwnsTheSession' /\ OldReadsNeverApply'
    BY <1>2, <1>3, <1>6
       DEF Coord, LeaseLaunchesAreClean, LeaseOwnsTheSession, OldReadsNeverApply, Free
  <2> QED
    BY <1>5, <2>1, <2>2, <2>3, <2>4 DEF Coord
<1>7. CASE /\ Running(r) /\ Free
           /\ gate' = [NoGate EXCEPT !.purpose = "restore", !.run = r, !.pc = "load",
                                     !.drain = AutoDrains(sse[r])]
           /\ loads' = BeginLoad(loads, "lease")
  <2>1. gate' \in GateType /\ gate'.purpose = "restore" /\ gate'.run = r /\ gate'.pc = "load"
    <3>1. AutoDrains(sse[r]) \in BOOLEAN
      BY DEF AutoDrains
    <3>2. r \in 0 .. RUNS
      BY <1>1
    <3> QED
      BY <1>7, <3>1, <3>2, Idle DEF GateType, Purposes
  <2>2. /\ loads' \in [Keys -> Read] /\ DOMAIN loads' = Keys
        /\ loads'["lease"].busy /\ ~loads'["lease"].served
        /\ \A k \in Keys : loads'[k].current => loads'[k].epoch = Len(launched)
    BY <1>1, <1>7, LeaseReadBegins
  <2>3. gate' # NoGate /\ ~stream'.running
    BY <1>3, <1>7, <2>1, Idle
  <2>4. CoordType'
    BY <1>1, <1>2, <1>3, <1>4, <2>1, <2>2 DEF CoordType
  <2>5. LeaseInv'
    BY <1>2, <1>3, <2>1, <2>2, <2>3 DEF Coord, LeaseInv, Free
  <2>6. LoadInv'
    BY <1>2, <2>1, <2>2 DEF LoadInv, Restored, Over
  <2>7. LeaseLaunchesAreClean' /\ LeaseOwnsTheSession' /\ OldReadsNeverApply'
    BY <1>2, <2>2, <2>3
       DEF Coord, LeaseLaunchesAreClean, LeaseOwnsTheSession, OldReadsNeverApply
  <2> QED
    BY <1>5, <2>4, <2>5, <2>6, <2>7 DEF Coord
<1> QED
  BY <1>6, <1>7 DEF OnComplete

\* A failed stream ends the run on screen, or is only noted while it is being stopped.
LEMMA OnErrorKeeps ==
    ASSUME Coord, NEW r \in Runs, OnError(r)
    PROVE  Coord'
<1>1. CoordType /\ Len(launched) \in 0 .. RUNS /\ RUNS \in Nat /\ Runs = 1 .. RUNS
  BY SoFar DEF Coord
<1>2. /\ sse[r] = "broken" /\ sse' = [sse EXCEPT ![r] = "closed"]
      /\ UNCHANGED <<gate, back, launched, dirty>>
  BY DEF OnError
<1>3. /\ stream' \in [run : 0 .. RUNS, running : BOOLEAN, stopping : BOOLEAN]
      /\ stream'.run = stream.run /\ (stream'.stopping <=> stream.stopping)
      /\ stream'.running => stream.running
      /\ stream' = stream \/ Running(r)
  BY DEF OnError, Coord, CoordType, Running
<1>4. /\ sse' \in [Runs -> SseType] /\ sse'[r] = "closed"
      /\ \A q \in Runs : q # r => sse'[q] = sse[q]
  BY <1>2 DEF Coord, CoordType, SseType
<1>5. /\ loads' \in [Keys -> Read] /\ DOMAIN loads' = Keys
      /\ loads'["lease"].busy <=> loads["lease"].busy
      /\ loads'["lease"].served <=> loads["lease"].served
      /\ loads'["lease"].current => loads' = loads
      /\ \A k \in Keys : loads'[k].current => loads'[k].epoch = Len(launched)
  <2>1. \A k \in Keys : loads[k].current => loads[k].epoch = Len(launched)
    BY <1>1, SoFar DEF Coord, OldReadsNeverApply
  <2>2. loads \in [Keys -> Read] /\ DOMAIN loads = Keys
    BY <1>1 DEF CoordType
  <2>3. CASE loads' = loads
    BY <2>1, <2>2, <2>3
  <2>4. CASE loads' = BeginLoad(loads, "page")
    BY <1>1, <2>4, PageReadBegins
  <2> QED
    BY <2>3, <2>4 DEF OnError
<1>6. BackInv'
  <2> SUFFICES ASSUME NEW q \in Runs PROVE RunInv(q)'
    BY DEF BackInv
  <2>1. RunInv(q)
    BY DEF Coord, BackInv
  <2>2. back'[q] = back[q] /\ Len(launched') = Len(launched) /\ sse'[q] \in {sse[q], "closed"}
    BY <1>2, <1>4
  <2>3. back[q] = "posted" => q # r /\ Running(q)' /\ sse'[q] = sse[q]
    BY <1>2, <1>3, <1>4, <2>1 DEF RunInv, Running
  <2> QED
    BY <2>1, <2>2, <2>3 DEF RunInv
<1>7. CoordType'
  BY <1>1, <1>2, <1>3, <1>4, <1>5 DEF CoordType
<1>8. LeaseInv'
  BY <1>2, <1>3, <1>5 DEF Coord, LeaseInv, Free
<1>9. LoadInv'
  BY <1>2, <1>5 DEF Coord, LoadInv, Restored, Settled
<1>10. LeaseLaunchesAreClean' /\ LeaseOwnsTheSession' /\ OldReadsNeverApply'
  BY <1>2, <1>3, <1>5
     DEF Coord, LeaseLaunchesAreClean, LeaseOwnsTheSession, OldReadsNeverApply, Free
<1> QED
  BY <1>6, <1>7, <1>8, <1>9, <1>10 DEF Coord

\* The answer of cancel_run: its run is over, the restore begins.
LEMMA CancelAnswersKeeps ==
    ASSUME Coord, CancelAnswers
    PROVE  Coord'
<1> DEFINE r == gate.run
<1>1. CoordType /\ Len(launched) \in 0 .. RUNS /\ RUNS \in Nat /\ Runs = 1 .. RUNS
  BY SoFar DEF Coord
<1>2. /\ gate.pc = "cancel" /\ back[r] \in Over /\ ~Free /\ r \in Runs /\ gate.purpose # "restore"
      /\ gate.purpose # "none"
      /\ UNCHANGED <<back, launched, dirty>>
      /\ loads' = BeginLoad(loads, "lease")
  BY <1>1 DEF CancelAnswers, Coord, LeaseInv, Over
<1>3. /\ stream' \in [run : 0 .. RUNS, running : BOOLEAN, stopping : BOOLEAN]
      /\ stream'.run = stream.run
      /\ stream'.running => stream' = stream
  BY DEF CancelAnswers, Stopped, Coord, CoordType, Running
<1>4. /\ sse' \in [Runs -> SseType]
      /\ \A q \in Runs : sse'[q] \in {sse[q], "closed"}
  <2>1. sse' = sse \/ sse' = [sse EXCEPT ![r] = "closed"]
    BY DEF CancelAnswers, Aborted
  <2> QED
    BY <1>1, <2>1 DEF CoordType, SseType
<1>5. gate' \in GateType /\ gate'.purpose = gate.purpose /\ gate'.run = gate.run /\ gate'.pc = "load"
  <2>1. gate' = [gate EXCEPT !.pc = "load", !.cancelled = back[r] # "finished"]
    BY DEF CancelAnswers
  <2> QED
    BY <1>1, <2>1 DEF CoordType, GateType
<1>6. /\ loads' \in [Keys -> Read] /\ DOMAIN loads' = Keys
      /\ loads'["lease"].busy /\ ~loads'["lease"].served
      /\ \A k \in Keys : loads'[k].current => loads'[k].epoch = Len(launched)
  BY <1>1, <1>2, LeaseReadBegins
<1>7. BackInv'
  <2> SUFFICES ASSUME NEW q \in Runs PROVE RunInv(q)'
    BY DEF BackInv
  <2>1. RunInv(q)
    BY DEF Coord, BackInv
  <2>2. back'[q] = back[q] /\ Len(launched') = Len(launched) /\ sse'[q] \in {sse[q], "closed"}
    BY <1>2, <1>4
  <2>3. back[q] # "posted"
    BY <1>2, <2>1 DEF RunInv, Running, Coord, LeaseOwnsTheSession, Over
  <2> QED
    BY <2>1, <2>2, <2>3 DEF RunInv
<1>8. CoordType'
  BY <1>1, <1>2, <1>3, <1>4, <1>5, <1>6 DEF CoordType
<1>9. LeaseInv'
  <2>1. ~Free'
    BY <1>2, <1>5, Idle DEF Free
  <2> QED
    BY <1>2, <1>3, <1>5, <1>6, <2>1 DEF Coord, LeaseInv
<1>10. LoadInv'
  BY <1>2, <1>5, <1>6 DEF LoadInv, Restored
<1>11. LeaseLaunchesAreClean' /\ LeaseOwnsTheSession' /\ OldReadsNeverApply'
  BY <1>2, <1>3, <1>5, <1>6
     DEF Coord, LeaseLaunchesAreClean, LeaseOwnsTheSession, OldReadsNeverApply
<1> QED
  BY <1>7, <1>8, <1>9, <1>10, <1>11 DEF Coord

\* The reads of the page, and an answer of the server.
LEMMA ReadKeeps ==
    ASSUME Coord, PageLoads \/ PageLoadReturns \/ \E k \in DOMAIN loads : ServeLoad(k)
    PROVE  Coord'
<1>1. CoordType /\ Len(launched) \in 0 .. RUNS /\ RUNS \in Nat /\ Runs = 1 .. RUNS
  BY SoFar DEF Coord
<1>2. /\ loads \in [Keys -> Read] /\ DOMAIN loads = Keys /\ "lease" \in Keys /\ "page" \in Keys
      /\ "lease" # "page"
      /\ \A k \in Keys : loads[k].current => loads[k].epoch = Len(launched)
  BY <1>1 DEF CoordType, Coord, OldReadsNeverApply, Keys
<1>3. UNCHANGED <<stream, gate, back, sse, launched, dirty>>
  BY DEF PageLoads, PageLoadReturns, ServeLoad
<1>4. ASSUME loads' \in [Keys -> Read], DOMAIN loads' = Keys,
             loads'["lease"].busy <=> loads["lease"].busy,
             loads'["lease"].served => loads'["lease"].busy,
             \A k \in Keys : loads'[k].current => loads'[k].epoch = Len(launched),
             LoadInv'
      PROVE  Coord'
  <2>1. CoordType'
    BY <1>1, <1>3, <1>4 DEF CoordType
  <2>2. LeaseInv'
    BY <1>3, <1>4 DEF Coord, LeaseInv, Free
  <2>3. BackInv'
    BY <1>3 DEF Coord, BackInv, RunInv, Running
  <2>4. LeaseLaunchesAreClean' /\ LeaseOwnsTheSession' /\ OldReadsNeverApply'
    BY <1>3, <1>4 DEF Coord, LeaseLaunchesAreClean, LeaseOwnsTheSession, OldReadsNeverApply, Free
  <2> QED
    BY <1>4, <2>1, <2>2, <2>3, <2>4 DEF Coord
<1>5. CASE PageLoads
  <2>1. loads' = BeginLoad(loads, "page")
    BY <1>5 DEF PageLoads
  <2>2. /\ loads' \in [Keys -> Read] /\ DOMAIN loads' = Keys
        /\ loads'["lease"].busy <=> loads["lease"].busy
        /\ loads'["lease"].served <=> loads["lease"].served
        /\ ~loads'["lease"].current
        /\ \A k \in Keys : loads'[k].current => loads'[k].epoch = Len(launched)
    BY <1>1, <2>1, PageReadBegins
  <2>3. LoadInv'
    BY <1>3, <2>2 DEF Coord, LoadInv, Restored
  <2> QED
    BY <1>4, <2>2, <2>3 DEF Coord, LeaseInv
<1>6. CASE PageLoadReturns
  <2>1. loads' = [loads EXCEPT !["page"] = NoLoad]
    BY <1>6 DEF PageLoadReturns
  <2>2. /\ loads' \in [Keys -> Read] /\ DOMAIN loads' = Keys
        /\ loads'["lease"] = loads["lease"]
        /\ \A k \in Keys : loads'[k].current => loads'[k].epoch = Len(launched)
    BY <1>1, <1>2, <2>1, SoFar
  <2>3. LoadInv'
    BY <1>3, <2>2 DEF Coord, LoadInv, Restored, Settled
  <2> QED
    BY <1>4, <2>2, <2>3 DEF Coord, LeaseInv
<1>7. ASSUME NEW k \in DOMAIN loads, ServeLoad(k) PROVE Coord'
  <2>1. /\ loads[k].busy /\ Holding = {} /\ k \in Keys
        /\ loads' = [loads EXCEPT ![k].served = TRUE, ![k].snapshot = Settled]
    BY <1>2, <1>7 DEF ServeLoad, SessionReadable
  <2> DEFINE m == [loads EXCEPT ![k] = [loads[k] EXCEPT !.served = TRUE, !.snapshot = Settled]]
  <2>2. loads' = m
    BY <2>1
  <2>3. LET e == [loads[k] EXCEPT !.served = TRUE, !.snapshot = Settled]
        IN  /\ e \in Read /\ e.served /\ e.snapshot = Settled
            /\ e.busy <=> loads[k].busy
            /\ e.current <=> loads[k].current
            /\ e.epoch = loads[k].epoch
    <3>1. Settled \in SUBSET Runs /\ loads[k] \in Read
      BY <1>2, <2>1 DEF Settled
    <3> QED
      BY <3>1 DEF Read
  <2>4. /\ loads' \in [Keys -> Read] /\ DOMAIN loads' = Keys
        /\ \A j \in Keys : j # k => loads'[j] = loads[j]
        /\ loads'[k] = [loads[k] EXCEPT !.served = TRUE, !.snapshot = Settled]
    BY <1>2, <2>1, <2>2, <2>3
  <2>5. /\ \A j \in Keys : loads'[j].current => loads'[j].epoch = Len(launched)
        /\ loads'["lease"].busy <=> loads["lease"].busy
        /\ loads'["lease"].served => loads'["lease"].busy
    BY <1>2, <2>1, <2>3, <2>4 DEF Coord, LeaseInv
  <2>6. LoadInv'
    <3>1. CASE k # "lease"
      <4>1. loads'["lease"] = loads["lease"]
        BY <1>2, <2>4, <3>1
      <4> QED
        BY <1>3, <4>1 DEF Coord, LoadInv, Restored, Settled
    <3>2. CASE k = "lease"
      <4>1. gate.pc = "load" /\ ~Free
        BY <2>1, <3>2 DEF Coord, LeaseInv
      <4>2. \A r \in Runs : back[r] \notin {"posted", "locked", "active", "stopping"}
        BY <2>1, <4>1, NothingPosted DEF Holding
      <4>3. loads'["lease"].snapshot = Settled
        BY <2>3, <2>4, <3>2
      <4>4. gate.pc = "load" => back[gate.run] \in Over
        BY DEF Coord, LoadInv
      <4> QED
        BY <1>3, <4>2, <4>3, <4>4 DEF LoadInv, Settled
    <3> QED
      BY <3>1, <3>2
  <2> QED
    BY <1>4, <2>4, <2>5, <2>6
<1> QED
  BY <1>5, <1>6, <1>7

\* A step of the backend on one run.
LEMMA RunMoves ==
    ASSUME Coord, NEW r \in Runs, NEW state \in BackType, NEW event \in SseType,
           back' = [back EXCEPT ![r] = state], sse' = [sse EXCEPT ![r] = event],
           UNCHANGED <<stream, gate, loads, launched, dirty>>,
           back[r] # "none", state \notin {"none", "posted"},
           event \in {"natural", "awaiting", "other"} => state = "finished",
           gate.pc = "load" /\ gate.run = r => state \in Over,
           back[r] \in {"posted", "marked", "locked", "doomed", "active", "stopping"},
           Restored => state \in {"doomed", "refused"}
    PROVE  Coord'
<1>1. CoordType
  BY DEF Coord
<1>2. /\ back' \in [Runs -> BackType] /\ back'[r] = state
      /\ \A q \in Runs : q # r => back'[q] = back[q]
  BY <1>1 DEF CoordType
<1>3. /\ sse' \in [Runs -> SseType] /\ sse'[r] = event
      /\ \A q \in Runs : q # r => sse'[q] = sse[q]
  BY <1>1 DEF CoordType
<1>4. CoordType'
  BY <1>1, <1>2, <1>3 DEF CoordType
<1>5. LeaseInv'
  BY DEF Coord, LeaseInv, Free
<1>6. BackInv'
  <2> SUFFICES ASSUME NEW q \in Runs PROVE RunInv(q)'
    BY DEF BackInv
  <2>1. RunInv(q)
    BY DEF Coord, BackInv
  <2>2. CASE q = r
    <3>1. back'[q] = state /\ sse'[q] = event
      BY <1>2, <1>3, <2>2
    <3> QED
      BY <2>1, <2>2, <3>1 DEF RunInv
  <2>3. CASE q # r
    BY <1>2, <1>3, <2>1, <2>3 DEF RunInv, Running
  <2> QED
    BY <2>2, <2>3
<1>7. LoadInv'
  <2>1. Restored' <=> Restored
    BY DEF Restored
  <2>2. gate.pc = "load" => gate.run \in Runs
    BY SoFar, <1>1 DEF Coord, LeaseInv
  <2>3. gate'.pc = "load" => back'[gate'.run] \in Over
    BY <1>2, <2>2 DEF Coord, LoadInv
  <2>4. ASSUME Restored
        PROVE  /\ \A q \in Runs : back'[q] \notin {"posted", "locked", "active", "stopping"}
               /\ gate'.run \in Settled' => gate'.run \in loads'["lease"].snapshot
    <3>1. \A q \in Runs : back[q] \notin {"posted", "locked", "active", "stopping"}
      BY <2>4 DEF Coord, LoadInv
    <3>2. \A q \in Runs : back'[q] \notin {"posted", "locked", "active", "stopping"}
      BY <1>2, <2>4, <3>1
    <3>3. \A q : q \in Settled' => q \in Settled
      BY <1>2, <2>4 DEF Settled
    <3> QED
      BY <2>4, <3>2, <3>3 DEF Coord, LoadInv
  <2> QED
    BY <2>1, <2>3, <2>4 DEF LoadInv
<1>8. LeaseLaunchesAreClean' /\ LeaseOwnsTheSession' /\ OldReadsNeverApply'
  BY DEF Coord, LeaseLaunchesAreClean, LeaseOwnsTheSession, OldReadsNeverApply, Free
<1> QED
  BY <1>4, <1>5, <1>6, <1>7, <1>8 DEF Coord

\* The backend.
LEMMA BackendKeeps ==
    ASSUME Coord, BackendStep
    PROVE  Coord'
<1>1. CoordType
  BY DEF Coord
<1>2. ASSUME NEW r \in Runs
      PROVE  /\ back[r] \in BackType /\ sse[r] \in SseType
             /\ back = [back EXCEPT ![r] = back[r]] /\ sse = [sse EXCEPT ![r] = sse[r]]
             /\ sse[r] \in {"natural", "awaiting", "other"} => back[r] = "finished"
             /\ gate.pc = "load" /\ gate.run = r => back[r] \in Over
             /\ Restored => back[r] \notin {"posted", "locked", "active", "stopping"}
  BY <1>1 DEF CoordType, Coord, BackInv, RunInv, LoadInv
<1>3. ASSUME NEW r \in Runs, NEW event \in SseType, Tell(r, event)
      PROVE  \E e \in {event, sse[r]} : sse' = [sse EXCEPT ![r] = e]
  BY <1>2, <1>3 DEF Tell
<1>4. ASSUME NEW r \in Runs, Accept(r) PROVE Coord'
  <2> DEFINE state == IF back[r] = "posted" THEN "locked" ELSE "doomed"
  <2>1. /\ back[r] \in {"posted", "marked"} /\ back' = [back EXCEPT ![r] = state]
        /\ sse' = sse /\ UNCHANGED <<stream, gate, loads, launched, dirty>>
    BY <1>4 DEF Accept, BackendOnly
  <2>2. sse' = [sse EXCEPT ![r] = sse[r]]
    BY <1>2, <2>1
  <2>3. /\ state \in BackType /\ state \notin {"none", "posted"}
        /\ gate.pc = "load" /\ gate.run = r => state \in Over
        /\ Restored => state = "doomed"
        /\ sse[r] \notin {"natural", "awaiting", "other"}
    BY <1>2, <2>1 DEF BackType, Over
  <2> HIDE DEF state
  <2> QED
    BY <1>2, <2>1, <2>2, <2>3, RunMoves
<1>5. ASSUME NEW r \in Runs, Refuse(r) PROVE Coord'
  <2>1. /\ back[r] \in {"posted", "marked", "locked", "doomed"} /\ Tell(r, "broken")
        /\ back' = [back EXCEPT ![r] = "refused"]
        /\ UNCHANGED <<stream, gate, loads, launched, dirty>>
    BY <1>5 DEF Refuse, BackendOnly
  <2>2. PICK e \in {"broken", sse[r]} : sse' = [sse EXCEPT ![r] = e]
    BY <1>3, <2>1 DEF SseType
  <2>3. e \in SseType /\ e \notin {"natural", "awaiting", "other"}
    BY <1>2, <2>1, <2>2 DEF SseType
  <2>4. "refused" \in BackType /\ "refused" \in Over
    BY DEF BackType, Over
  <2> QED
    BY <2>1, <2>2, <2>3, <2>4, RunMoves
<1>6. ASSUME NEW r \in Runs, RegisterRun(r) PROVE Coord'
  <2> DEFINE event == sse[r]
  <2>1. /\ back[r] = "locked" /\ back' = [back EXCEPT ![r] = "active"]
        /\ sse' = sse /\ UNCHANGED <<stream, gate, loads, launched, dirty>>
    BY <1>6 DEF RegisterRun, BackendOnly
  <2>2. /\ sse' = [sse EXCEPT ![r] = event] /\ event \in SseType
        /\ event \in {"natural", "awaiting", "other"} => "active" = "finished"
        /\ gate.pc = "load" /\ gate.run = r => "active" \in Over
        /\ Restored => "active" \in {"doomed", "refused"}
    BY <1>2, <2>1 DEF Over
  <2>3. "active" \in BackType /\ "active" \notin {"none", "posted"}
    BY DEF BackType
  <2> HIDE DEF event
  <2> QED
    BY <2>1, <2>2, <2>3, RunMoves
<1>7. ASSUME NEW r \in Runs, CancelRun(r) PROVE Coord'
  <2>1. /\ back[r] \in {"stopping", "active"} /\ back' = [back EXCEPT ![r] = "cancelled"]
        /\ Tell(r, "broken") /\ UNCHANGED <<stream, gate, loads, launched, dirty>>
    BY <1>7 DEF CancelRun, BackendOnly
  <2>2. PICK e \in {"broken", sse[r]} : sse' = [sse EXCEPT ![r] = e]
    BY <1>3, <2>1 DEF SseType
  <2>3. /\ e \in SseType /\ e \notin {"natural", "awaiting", "other"} /\ ~Restored
    BY <1>2, <2>1, <2>2 DEF SseType
  <2>4. "cancelled" \in BackType /\ "cancelled" \in Over
    BY DEF BackType, Over
  <2> QED
    BY <2>1, <2>2, <2>3, <2>4, RunMoves
<1>8. ASSUME NEW r \in Runs, NEW event \in {"natural", "awaiting", "other", "broken"},
             FinishRun(r, event)
      PROVE  Coord'
  <2>1. /\ back[r] = "active" /\ back' = [back EXCEPT ![r] = "finished"]
        /\ Tell(r, event) /\ UNCHANGED <<stream, gate, loads, launched, dirty>>
    BY <1>8 DEF FinishRun, BackendOnly
  <2>2. PICK e \in {event, sse[r]} : sse' = [sse EXCEPT ![r] = e]
    BY <1>3, <2>1 DEF SseType
  <2>3. e \in SseType /\ ~Restored
    BY <1>2, <2>1, <2>2 DEF SseType
  <2>4. "finished" \in BackType /\ "finished" \in Over
    BY DEF BackType, Over
  <2> QED
    BY <2>1, <2>2, <2>3, <2>4, RunMoves
<1>9. ASSUME NEW r \in Runs, BreakStream(r) PROVE Coord'
  <2> DEFINE state == back[r]
  <2>1. /\ state \in {"locked", "doomed", "active", "stopping"} /\ back' = back
        /\ sse' = [sse EXCEPT ![r] = "broken"]
        /\ UNCHANGED <<stream, gate, loads, launched, dirty>>
    BY <1>9 DEF BreakStream, BackendOnly, Holding
  <2>2. /\ back' = [back EXCEPT ![r] = state] /\ state \in BackType
        /\ Restored => state = "doomed"
        /\ gate.pc = "load" /\ gate.run = r => state \in Over
        /\ back[r] = state
    BY <1>2, <2>1
  <2>3. "broken" \in SseType
    BY DEF SseType
  <2> HIDE DEF state
  <2> QED
    BY <2>1, <2>2, <2>3, RunMoves
<1>10. CASE StopArrives
  <2> DEFINE r == gate.run
             state == CASE back[r] = "posted" -> "marked"
                        [] back[r] = "locked" -> "doomed"
                        [] back[r] = "active" -> "stopping"
  <2>1. /\ gate.pc = "cancel" /\ back[r] \in {"posted", "locked", "active"}
        /\ back' = [back EXCEPT ![r] = state]
        /\ sse' = sse /\ UNCHANGED <<stream, gate, loads, launched, dirty>>
    BY <1>10 DEF StopArrives, BackendOnly
  <2>2. r \in Runs
    <3>1. ~Free
      BY <2>1 DEF Coord, LeaseInv
    <3> QED
      BY <1>1, <3>1, SoFar DEF Coord, LeaseInv
  <2>3. /\ state \in {"marked", "doomed", "stopping"} /\ state \in BackType
        /\ state \notin {"none", "posted"}
    BY <2>1 DEF BackType
  <2> HIDE DEF state
  <2>4. ~Restored /\ sse' = [sse EXCEPT ![r] = sse[r]] /\ sse[r] \notin {"natural", "awaiting", "other"}
    BY <1>2, <2>1, <2>2 DEF Coord, LeaseInv, Restored
  <2> QED
    BY <1>2, <2>1, <2>2, <2>3, <2>4, RunMoves
<1> QED
  BY <1>4, <1>5, <1>6, <1>7, <1>8, <1>9, <1>10, ReadKeeps DEF BackendStep

\* What a coordinator leaves of the stream it worked for.
LEMMA StreamsLeft ==
    ASSUME Coord, ~Free, NEW r, r = gate.run,
           NEW s \in {stream, Stopped(r), StopFailed(r), Retired(r), AfterFailedRestore(r)},
           NEW e \in {sse, Aborted(r), RetiredSse(r)}
    PROVE  /\ s \in [run : 0 .. RUNS, running : BOOLEAN, stopping : BOOLEAN]
           /\ s.run \in {0, stream.run} /\ (s.running => s.run # 0)
           /\ s.running => stream.running /\ s.run = stream.run
           /\ e \in [Runs -> SseType] /\ \A q \in Runs : e[q] \in {sse[q], "closed"}
<1>1. /\ stream \in [run : 0 .. RUNS, running : BOOLEAN, stopping : BOOLEAN]
      /\ stream.running => stream.run # 0
      /\ sse \in [Runs -> SseType] /\ r \in Runs
  <2>1. CoordType /\ LeaseInv
    BY DEF Coord
  <2>2. r \in 1 .. Len(launched)
    BY <2>1 DEF LeaseInv
  <2>3. r \in Runs
    BY <2>1, <2>2, SoFar
  <2> QED
    BY <2>1, <2>3 DEF CoordType, LeaseInv
<1>2. /\ s \in {stream, NoStream, [stream EXCEPT !.stopping = FALSE],
                [stream EXCEPT !.running = FALSE, !.stopping = FALSE]}
      /\ e \in {sse, [sse EXCEPT ![r] = "closed"]}
  BY DEF Stopped, StopFailed, Retired, AfterFailedRestore, Aborted, RetiredSse
<1>3. /\ e \in [Runs -> SseType] /\ \A q \in Runs : e[q] \in {sse[q], "closed"}
  BY <1>1, <1>2 DEF SseType
<1>4. /\ s \in [run : 0 .. RUNS, running : BOOLEAN, stopping : BOOLEAN]
      /\ s.run \in {0, stream.run} /\ (s.running => s.run # 0)
      /\ s.running => stream.running /\ s.run = stream.run
  <2>1. CASE s = stream
    BY <1>1, <2>1
  <2>2. CASE s = NoStream
    BY <2>2, QueueAssumption DEF NoStream
  <2>3. CASE s = [stream EXCEPT !.stopping = FALSE]
    BY <1>1, <2>3
  <2>4. CASE s = [stream EXCEPT !.running = FALSE, !.stopping = FALSE]
    BY <1>1, <2>4
  <2> QED
    BY <1>2, <2>1, <2>2, <2>3, <2>4
<1> QED
  BY <1>3, <1>4

\* The coordinators after an await: what they launch, they launch over nothing alive and
\* with the stored outcome of their run on screen.
LEMMA CoordinatorKeeps ==
    ASSUME Coord, TypeOK,
           CancelFails \/ StopRestoreFails \/ StopRestored \/ SteerRestored \/ RestoreReturns
    PROVE  Coord'
<1> DEFINE r == gate.run
<1>1. CoordType /\ Len(launched) \in 0 .. RUNS /\ RUNS \in Nat /\ Runs = 1 .. RUNS
  BY SoFar DEF Coord
<1>2. gate' = NoGate /\ ~Free /\ gate.pc \in {"cancel", "load"} /\ UNCHANGED used
  BY DEF CancelFails, StopRestoreFails, StopRestored, SteerRestored, RestoreReturns, Coord, LeaseInv
<1>3. /\ LoadDone \in [Keys -> Read] /\ ~LoadDone["lease"].busy /\ ~LoadDone["lease"].served
  BY <1>1, ReadEnds DEF LoadDone, Keys
<1>4. Clean(Shown) \/ ~Restored
  BY DEF Coord, LoadInv, Clean, Shown
<1>5. dirty = FALSE
  BY DEF Coord, LeaseLaunchesAreClean, TypeOK
<1>6. ASSUME NEW p \in Prompts, NEW e \in {sse, RetiredSse(r)}, gate.pc = "load", Restored,
             Launch(p, LoadDone, e, Clean(Shown))
      PROVE  Coord'
  <2>1. dirty' = FALSE
    BY <1>4, <1>5, <1>6 DEF Launch
  <2>2. \A q \in Runs : back[q] # "posted"
    BY <1>6, NothingPosted
  <2>3. e \in [Runs -> SseType] /\ \A q \in Runs : e[q] \in {sse[q], "closed"}
    BY <1>2, StreamsLeft
  <2> QED
    BY <1>2, <1>3, <1>6, <2>1, <2>2, <2>3, LaunchKeeps
<1>7. ASSUME NEW s \in {stream, Stopped(r), StopFailed(r), Retired(r), AfterFailedRestore(r)},
             NEW e \in {sse, Aborted(r), RetiredSse(r)},
             stream' = s, sse' = e, UNCHANGED <<back, launched, dirty>>,
             \/ gate.pc = "load" /\ loads' = LoadDone
             \/ gate.pc = "cancel" /\ loads' = loads /\ s.running = stream.running /\ s.run = stream.run /\ e = sse
      PROVE  Coord'
  <2>1. /\ s \in [run : 0 .. RUNS, running : BOOLEAN, stopping : BOOLEAN]
        /\ s.run \in {0, stream.run} /\ (s.running => s.run # 0)
        /\ e \in [Runs -> SseType] /\ \A q \in Runs : e[q] \in {sse[q], "closed"}
    BY <1>2, StreamsLeft
  <2>2. ASSUME NEW q \in Runs, back[q] = "posted" PROVE Running(q)' /\ sse'[q] = sse[q]
    <3>1. gate.pc # "load"
      BY <2>2, NothingPosted
    <3>2. Running(q)
      BY <2>2 DEF Coord, BackInv, RunInv
    <3> QED
      BY <1>7, <3>1, <3>2 DEF Running
  <2>3. loads' \in {loads, LoadDone} /\ (loads' = loads => gate.pc = "cancel")
    <3>1. gate.pc = "load" => LoadDone # loads
      BY <1>3 DEF Coord, LeaseInv
    <3> QED
      BY <1>7, <3>1
  <2> QED
    BY <1>2, <1>7, <2>1, <2>2, <2>3, ReleaseKeeps
<1>8. CASE CancelFails
  <2>1. /\ gate.pc = "cancel" /\ stream' = StopFailed(r)
        /\ UNCHANGED <<loads, back, sse, launched, dirty>>
    BY <1>8 DEF CancelFails
  <2>2. StopFailed(r).running = stream.running /\ StopFailed(r).run = stream.run
    BY <1>1 DEF StopFailed, CoordType
  <2> QED
    BY <1>7, <2>1, <2>2
<1>9. CASE StopRestoreFails
  BY <1>7, <1>9 DEF StopRestoreFails
<1>10. CASE StopRestored
  BY <1>7, <1>10 DEF StopRestored
<1>11. CASE SteerRestored
  <2>1. /\ gate.pc = "load" /\ Restored
        /\ \/ InQueue(steering) /\ Launch(steering.id, LoadDone, RetiredSse(r), Clean(Shown))
           \/ /\ stream' = Retired(r) /\ sse' = RetiredSse(r) /\ loads' = LoadDone
              /\ UNCHANGED <<back, launched, dirty>>
    BY <1>11 DEF SteerRestored
  <2>2. InQueue(steering) => steering.id \in Prompts
    BY Claimable
  <2> QED
    BY <1>6, <1>7, <2>1, <2>2
<1>12. CASE RestoreReturns
  <2>1. /\ gate.pc = "load"
        /\ \/ /\ Restored /\ items # <<>>
              /\ Launch(Head(items).id, LoadDone, sse, Clean(Shown))
           \/ /\ stream' = stream /\ sse' = sse /\ loads' = LoadDone
              /\ UNCHANGED <<back, launched, dirty>>
    BY <1>12 DEF RestoreReturns, MayDrain
  <2>2. items # <<>> => Head(items).id \in Prompts
    BY Claimable, HeadClaimed
  <2> QED
    BY <1>6, <1>7, <2>1, <2>2
<1> QED
  BY <1>8, <1>9, <1>10, <1>11, <1>12

\* The user's launches go past no lease and no running stream.
LEMMA UserKeeps ==
    ASSUME Coord, TypeOK, PlaceInv, UserStep
    PROVE  Coord'
<1>1. CoordType
  BY DEF Coord
<1>2. dirty = FALSE
  BY DEF Coord, LeaseLaunchesAreClean, TypeOK
<1>3. ASSUME NEW p \in Prompts, MayLaunch, UNCHANGED gate, Launch(p, loads, sse, TRUE)
      PROVE  Coord'
  <2>1. gate' = NoGate /\ dirty' = FALSE /\ \A q \in Runs : back[q] # "posted"
    BY <1>2, <1>3, NothingPosted DEF MayLaunch, Free, Launch
  <2>2. ~loads["lease"].busy /\ ~loads["lease"].served
    BY <1>3 DEF MayLaunch, Coord, LeaseInv
  <2>3. loads \in [Keys -> Read] /\ sse \in [Runs -> SseType]
    BY <1>1 DEF CoordType
  <2> QED
    BY <1>3, <2>1, <2>2, <2>3, LaunchKeeps
<1>4. ASSUME NEW p \in Prompts, SendNow(p) \/ ExecutePlan(p) PROVE Coord'
  BY <1>3, <1>4 DEF SendNow, ExecutePlan
<1>5. ASSUME NEW p \in Prompts, SendQueued(p) PROVE Coord'
  <2> DEFINE e == [id |-> p, rev |-> 1]
             queue == Append(items, e)
  <2>1. CASE MayLaunch /\ Launch(Head(queue).id, loads, sse, TRUE)
    <3>1. e \in Refs /\ e.id = p /\ \A i \in DOMAIN items : items[i].id # e.id
      BY <1>5, FreshIsNew DEF SendQueued
    <3> HIDE DEF e
    <3>2. Distinct(queue) /\ queue # <<>>
      BY <3>1, Enqueued, AppendProperties, Claimable
    <3>3. Head(queue) \in Refs
      BY <3>2, HeadClaimed
    <3> HIDE DEF queue
    <3>4. Head(queue).id \in Prompts
      BY <3>3 DEF Refs
    <3>5. UNCHANGED gate
      BY <1>5, <2>1, Idle DEF SendQueued, MayLaunch, Free
    <3> QED
      BY <1>3, <2>1, <3>4, <3>5
  <2>2. CASE UNCHANGED <<launched, stream, back, loads, dirty, sse>>
    <3>1. CASE UNCHANGED gate
      BY <2>2, <3>1, Quiet
    <3>2. CASE gate.purpose = "restore" /\ gate' = [gate EXCEPT !.drain = TRUE]
      <4>1. /\ gate' \in GateType /\ gate'.purpose = "restore" /\ gate'.run = gate.run
            /\ gate'.pc = gate.pc
        BY <1>1, <3>2 DEF CoordType, GateType
      <4>2. ~Free /\ ~Free'
        BY <3>2, <4>1, Idle DEF Free
      <4>3. CoordType' /\ LeaseInv'
        BY <2>2, <3>2, <4>1, <4>2 DEF Coord, CoordType, LeaseInv
      <4>4. BackInv' /\ LoadInv'
        BY <2>2, <4>1 DEF Coord, BackInv, RunInv, Running, LoadInv, Restored, Settled
      <4>5. LeaseLaunchesAreClean' /\ LeaseOwnsTheSession' /\ OldReadsNeverApply'
        BY <2>2, <4>1, <4>2
           DEF Coord, LeaseLaunchesAreClean, LeaseOwnsTheSession, OldReadsNeverApply
      <4> QED
        BY <4>3, <4>4, <4>5 DEF Coord
    <3> QED
      BY <1>5, <3>1, <3>2 DEF SendQueued
  <2> QED
    BY <1>5, <2>1, <2>2 DEF SendQueued
<1>6. ASSUME NEW ref \in Refs, EditItem(ref) \/ DeleteItem(ref) PROVE Coord'
  BY <1>6, Quiet DEF EditItem, DeleteItem, QueueOnly
<1>7. ASSUME NEW ref \in Refs, NEW target \in Refs, ReorderItem(ref, target) PROVE Coord'
  BY <1>7, Quiet DEF ReorderItem, QueueOnly
<1>8. ASSUME NEW ref \in Refs, ActivateIdle(ref) PROVE Coord'
  <2>1. ref.id \in Prompts
    BY DEF Refs
  <2> QED
    BY <1>3, <1>8, <2>1 DEF ActivateIdle
<1>9. ASSUME NEW ref \in Refs, BeginSteer(ref) PROVE Coord'
  BY <1>9, LeaseKeeps DEF BeginSteer
<1>10. CASE BeginStop
  BY <1>10, LeaseKeeps DEF BeginStop
<1>11. CASE PageLoads
  BY <1>11, ReadKeeps
<1> QED
  BY <1>4, <1>5, <1>6, <1>7, <1>8, <1>9, <1>10, <1>11 DEF UserStep

\* Every step keeps the coordinators' part of the invariant.
LEMMA CoordStep ==
    ASSUME IInv, [Next]_vars
    PROVE  Coord'
<1>1. Coord /\ TypeOK /\ PlaceInv
  BY CoordTyped DEF IInv
<1>2. CASE UNCHANGED vars
  BY <1>1, <1>2, Quiet DEF vars
<1>3. CASE UserStep
  BY <1>1, <1>3, UserKeeps
<1>4. CASE ClientStep
  BY <1>1, <1>4, OnCompleteKeeps, OnErrorKeeps, ReadKeeps, CancelAnswersKeeps, CoordinatorKeeps
     DEF ClientStep
<1>5. CASE BackendStep
  BY <1>1, <1>5, BackendKeeps
<1> QED
  BY <1>2, <1>3, <1>4, <1>5 DEF Next

-----------------------------------------------------------------------------
(* The types, and the theorems *)

\* The transcript on screen and the record of a launch.
LEMMA HistoryTyped ==
    ASSUME TypeOK, [Next]_vars
    PROVE  known' \in SUBSET Runs /\ dirty' \in BOOLEAN
<1>1. known \in SUBSET Runs /\ dirty \in BOOLEAN
  BY DEF TypeOK
<1>2. \A k \in {"lease", "page"} : loads[k].snapshot \in SUBSET Runs
  BY DEF TypeOK
<1>3. Shown \in SUBSET Runs
  BY <1>1, <1>2 DEF Shown
<1>4. /\ known' \in {known, Shown, loads["page"].snapshot}
      /\ UNCHANGED dirty \/ \E p, l, s, c : Launch(p, l, s, c)
  BY DEF Next, UserStep, ClientStep, BackendStep, vars, SendNow, SendQueued, ExecutePlan,
         EditItem, DeleteItem, ReorderItem, QueueOnly, ActivateIdle, BeginSteer, BeginStop,
         PageLoads, OnComplete, OnError, PageLoadReturns, RestoreReturns, CancelAnswers,
         CancelFails, StopRestoreFails, StopRestored, SteerRestored, ServeLoad, Accept, Refuse,
         RegisterRun, CancelRun, BreakStream, FinishRun, StopArrives, BackendOnly
<1>5. ASSUME NEW p, NEW l, NEW s, NEW c, Launch(p, l, s, c) PROVE dirty' \in BOOLEAN
  BY <1>5 DEF Launch
<1> QED
  BY <1>1, <1>2, <1>3, <1>4, <1>5

\* A step keeps the types.
LEMMA TypeStep ==
    ASSUME IInv, [Next]_vars
    PROVE  TypeOK'
<1>1. TypeOK /\ PlaceInv /\ LeaseInv /\ ReservationHasItsSteer
  BY DEF IInv, LeaseDiscipline
<1>2. CoordType'
  BY CoordStep DEF Coord
<1>3. /\ Distinct(items')
      /\ Stays \/ RunNow \/ Queued \/ Drained \/ Deleted \/ Claimed \/ Changed
  BY <1>1, QueueStep
<1>4. steering' \in Refs \cup {NoRef}
  <2>1. steering \in Refs \cup {NoRef} /\ \A ref : InQueue(ref) => ref \in Refs
    BY <1>1, Claimable DEF TypeOK
  <2>2. steering' \in {steering, NoRef} \/ InQueue(steering')
    BY <1>1, SteerMoves
  <2> QED
    BY <2>1, <2>2
<1>5. used' \subseteq Prompts /\ deleted' \subseteq Prompts
  <2>1. used \subseteq Prompts /\ deleted \subseteq Prompts
    BY <1>1 DEF TypeOK
  <2>2. \A ref \in QueueOf(items) : ref.id \in Prompts
    BY <1>1, Claimable
  <2> QED
    BY <1>3, <2>1, <2>2 DEF Stays, RunNow, Queued, Drained, Deleted, Claimed, Changed, Sent
<1>6. known' \subseteq Runs /\ dirty' \in BOOLEAN
  BY <1>1, HistoryTyped
<1> QED
  BY <1>2, <1>3, <1>4, <1>5, <1>6
     DEF TypeOK, Distinct, CoordType, GateType, Keys, Read, BackType, SseType

\* The empty queue satisfies the invariant.
LEMMA InvariantHolds ==
    ASSUME Init
    PROVE  IInv
<1>1. /\ items = <<>> /\ steering = NoRef /\ stream = NoStream /\ gate = NoGate
      /\ loads = [k \in Keys |-> NoLoad]
      /\ back = [r \in Runs |-> "none"] /\ sse = [r \in Runs |-> "none"]
      /\ used = {} /\ deleted = {} /\ launched = <<>> /\ known = {} /\ dirty = FALSE
  BY DEF Init, Keys
<1>2. /\ DOMAIN items = {} /\ DOMAIN launched = {} /\ Len(launched) = 0
      /\ items \in Seq(Refs) /\ launched \in Seq(Prompts)
      /\ RUNS \in Nat /\ Runs = 1 .. RUNS
  BY <1>1, QueueAssumption DEF Runs
<1>3. /\ NoStream \in [run : 0 .. RUNS, running : BOOLEAN, stopping : BOOLEAN]
      /\ NoStream.run = 0 /\ NoStream.running = FALSE
  BY <1>2 DEF NoStream
<1>4. /\ NoLoad \in Read /\ ~NoLoad.busy /\ ~NoLoad.current /\ ~NoLoad.served
  BY <1>2 DEF NoLoad, Read
<1>5. /\ loads \in [Keys -> Read] /\ DOMAIN loads = Keys
      /\ \A k \in Keys : ~loads[k].busy /\ ~loads[k].current /\ ~loads[k].served
      /\ "lease" \in Keys
  BY <1>1, <1>4 DEF Keys
<1>6. TypeOK
  <2>1. CoordType
    BY <1>1, <1>2, <1>3, <1>5, Idle DEF CoordType, BackType, SseType
  <2> QED
    BY <1>1, <1>2, <2>1 DEF TypeOK, CoordType, GateType, Keys, Read, BackType, SseType
<1>7. PlaceInv
  BY <1>1, <1>2 DEF PlaceInv, Placed, Waiting, Started
<1>8. LeaseInv
  BY <1>1, <1>2, <1>3, <1>5, Idle DEF LeaseInv, Free
<1>9. BackInv
  BY <1>1, <1>2 DEF BackInv, RunInv
<1>10. LoadInv
  BY <1>1, <1>5, Idle DEF LoadInv, Restored
<1>11. LeaseDiscipline
  BY <1>1, <1>5, Idle
     DEF LeaseDiscipline, ReservationHasItsSteer, LeaseLaunchesAreClean, LeaseOwnsTheSession,
         OldReadsNeverApply, Free
<1> QED
  BY <1>6, <1>7, <1>8, <1>9, <1>10, <1>11 DEF IInv

\* The inductive invariant holds of every reachable state of the queue and its coordinators.
THEOREM QueueInvariant == Spec => []IInv
<1>1. Init => IInv
  BY InvariantHolds
<1>2. IInv /\ [Next]_vars => IInv'
  <2> SUFFICES ASSUME IInv, [Next]_vars PROVE IInv'
    OBVIOUS
  <2>1. TypeOK' /\ Coord'
    BY TypeStep, CoordStep
  <2>2. PlaceInv' /\ ReservationHasItsSteer'
    BY PlaceStep, ReservationStep DEF IInv, LeaseDiscipline
  <2> QED
    BY <2>1, <2>2 DEF IInv, Coord, LeaseDiscipline
<1> QED
  BY <1>1, <1>2, PTL DEF Spec

\* The queue, the stream, the lease, the reads and the runs keep their types, and no prompt
\* is queued twice.
THEOREM TypeCorrect == Spec => []TypeOK
<1>1. IInv => TypeOK
  BY DEF IInv
<1> QED
  BY <1>1, QueueInvariant, PTL

\* Steers, launches, restores and reads of one session stay in order under the lease.
THEOREM LeaseKeepsOrder == Spec => []LeaseDiscipline
<1>1. IInv => LeaseDiscipline
  BY DEF IInv
<1> QED
  BY <1>1, QueueInvariant, PTL

\* A set with no two elements.
LEMMA AtMostOne ==
    ASSUME NEW S, \A i, j \in S : i = j
    PROVE  Cardinality(S) = IF S = {} THEN 0 ELSE 1
<1>1. CASE S = {}
  BY <1>1, FS_EmptySet
<1>2. CASE S # {}
  <2>1. PICK i : S = {i}
    BY <1>2
  <2> QED
    BY <2>1, FS_Singleton
<1> QED
  BY <1>1, <1>2

\* Every prompt the user sent is in exactly one place: queued, deleted, or run once.
THEOREM PromptsAreKept == Spec => []EveryPromptOnce
<1>1. IInv => EveryPromptOnce
  <2> SUFFICES ASSUME IInv, NEW p \in used
               PROVE  Cardinality({i \in DOMAIN items : items[i].id = p})
                      + Cardinality({i \in DOMAIN launched : launched[i] = p})
                      + (IF p \in deleted THEN 1 ELSE 0) = 1
    BY DEF EveryPromptOnce
  <2>1. p \in Prompts
    BY DEF IInv, TypeOK
  <2>2. Placed(p)
    BY <2>1 DEF IInv, PlaceInv
  <2>3. Cardinality({i \in DOMAIN items : items[i].id = p}) = IF Waiting(p) THEN 1 ELSE 0
    <3>1. \A i, j \in DOMAIN items : items[i].id = p /\ items[j].id = p => i = j
      BY DEF IInv, TypeOK
    <3> DEFINE S == {i \in DOMAIN items : items[i].id = p}
    <3>2. (\A i, j \in S : i = j) /\ (S = {} <=> ~Waiting(p))
      BY <3>1 DEF Waiting
    <3> HIDE DEF S
    <3>3. Cardinality(S) = IF Waiting(p) THEN 1 ELSE 0
      BY <3>2, AtMostOne
    <3> QED
      BY <3>3 DEF S
  <2>4. Cardinality({i \in DOMAIN launched : launched[i] = p}) = IF Started(p) THEN 1 ELSE 0
    <3>1. \A i, j \in DOMAIN launched : launched[i] = p /\ launched[j] = p => i = j
      BY DEF IInv, PlaceInv
    <3> DEFINE S == {i \in DOMAIN launched : launched[i] = p}
    <3>2. (\A i, j \in S : i = j) /\ (S = {} <=> ~Started(p))
      BY <3>1 DEF Started
    <3> HIDE DEF S
    <3>3. Cardinality(S) = IF Started(p) THEN 1 ELSE 0
      BY <3>2, AtMostOne
    <3> QED
      BY <3>3 DEF S
  <2> QED
    BY <2>2, <2>3, <2>4 DEF Placed
<1> QED
  BY <1>1, QueueInvariant, PTL
=============================================================================
