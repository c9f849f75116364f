-------------------------- MODULE Transcript_proofs --------------------------
(***************************************************************************)
(* Safety of a session's transcript, for any number of runs, batches,      *)
(* crashes and drops: in storage (SessionDurability: types, the stored     *)
(* prefix, whose messages a row holds, what becomes of a plan; IInv is the *)
(* inductive invariant) and before the provider (Compaction: what a        *)
(* request may rely on, for any messages, thresholds and summaries;        *)
(* RollingInv is the inductive invariant).                                 *)
(***************************************************************************)
EXTENDS SessionDurability, Compaction, SequenceTheorems, WellFoundedInduction, TLAPS

USE DurabilityAssumption, NullAssumption

\* Rows of the messages table: who produced a message and under which run it is stored.
StoredMessages == [by : Runs, run : Runs]

-----------------------------------------------------------------------------
(* Sequences of messages *)

\* A message more: one longer, and the same before.
LEMMA Appended ==
    ASSUME NEW s \in Seq(Runs), NEW r \in Runs
    PROVE  /\ Append(s, r) \in Seq(Runs)
           /\ Len(Append(s, r)) = Len(s) + 1
           /\ \A i \in 1 .. Len(s) : Append(s, r)[i] = s[i]
           /\ Append(s, r)[Len(s) + 1] = r
  BY AppendProperties

\* The first n messages.
LEMMA Prefix ==
    ASSUME NEW s \in Seq(Runs), NEW n \in Nat, n <= Len(s)
    PROVE  /\ SubSeq(s, 1, n) \in Seq(Runs)
           /\ Len(SubSeq(s, 1, n)) = n
           /\ \A i \in 1 .. n : SubSeq(s, 1, n)[i] = s[i]
<1>1. \A i \in 1 .. n : s[i] \in Runs
  OBVIOUS
<1> QED
  BY <1>1, SubSeqProperties

\* The rows of what memory holds beyond the cursor.
LEMMA NewRowsOf ==
    ASSUME mem \in Sessions, persisted_count \in Nat, persisted_count <= Len(mem.messages),
           NEW r \in Runs
    PROVE  /\ NewRows(r) \in Seq(StoredMessages)
           /\ Len(NewRows(r)) = Len(mem.messages) - persisted_count
           /\ \A i \in 1 .. Len(mem.messages) - persisted_count :
                 NewRows(r)[i] = [by |-> mem.messages[persisted_count + i], run |-> r]
<1> DEFINE n == Len(mem.messages) - persisted_count
<1>1. mem.messages \in Seq(Runs) /\ n \in Nat /\ Len(mem.messages) \in Nat
  BY DEF Sessions
<1>2. \A i \in 1 .. n : persisted_count + i \in 1 .. Len(mem.messages)
  BY <1>1
<1>3. \A i \in 1 .. n : [by |-> mem.messages[persisted_count + i], run |-> r] \in StoredMessages
  BY <1>1, <1>2 DEF StoredMessages
<1>4. NewRows(r) = [i \in 1 .. n |-> [by |-> mem.messages[persisted_count + i], run |-> r]]
  BY DEF NewRows
<1>5. NewRows(r) \in [1 .. n -> StoredMessages]
  BY ONLY <1>3, <1>4
<1>6. NewRows(r) \in Seq(StoredMessages)
  BY <1>1, <1>5
<1>7. Len(NewRows(r)) = n
  BY <1>1, <1>5, <1>6, LenProperties
<1> QED
  BY <1>4, <1>6, <1>7

\* The transcript once they are stored: memory's messages, those from the cursor on
\* under the run's id.
LEMMA StoredTranscript ==
    ASSUME mem \in Sessions, persisted_count \in Nat, persisted_count <= Len(mem.messages),
           db.messages \in Seq(StoredMessages), Len(db.messages) = persisted_count,
           NEW r \in Runs
    PROVE  /\ db.messages \o NewRows(r) \in Seq(StoredMessages)
           /\ Len(db.messages \o NewRows(r)) = Len(mem.messages)
           /\ \A i \in 1 .. persisted_count : (db.messages \o NewRows(r))[i] = db.messages[i]
           /\ \A i \in 1 .. Len(mem.messages) : i > persisted_count =>
                 (db.messages \o NewRows(r))[i] = [by |-> mem.messages[i], run |-> r]
<1> DEFINE new == NewRows(r)
           all == db.messages \o NewRows(r)
           n == Len(mem.messages)
           k == persisted_count
<1>1. n \in Nat /\ k \in Nat /\ k <= n
  BY DEF Sessions
<1>2. /\ new \in Seq(StoredMessages) /\ Len(new) = n - k
      /\ \A i \in 1 .. n - k : new[i] = [by |-> mem.messages[k + i], run |-> r]
  BY NewRowsOf
<1>3. all \in Seq(StoredMessages) /\ Len(all) = k + (n - k)
  BY <1>2, ConcatProperties
<1>4. \A i \in 1 .. k + (n - k) : all[i] = IF i <= k THEN db.messages[i] ELSE new[i - k]
  BY <1>2, ConcatProperties
<1>5. k + (n - k) = n
  BY <1>1
<1>6. ASSUME NEW i \in 1 .. n, i > k
      PROVE  all[i] = [by |-> mem.messages[i], run |-> r]
  <2>1. i - k \in 1 .. n - k /\ k + (i - k) = i /\ ~(i <= k)
    BY <1>1, <1>6
  <2> HIDE DEF n, k, new, all
  <2>2. all[i] = new[i - k]
    BY <1>4, <1>5, <2>1, <1>6
  <2>3. new[i - k] = [by |-> mem.messages[i], run |-> r]
    BY <1>2, <2>1
  <2> QED
    BY <2>2, <2>3
<1>7. \A i \in 1 .. k : all[i] = db.messages[i]
  <2>1. \A i \in 1 .. k : i \in 1 .. n /\ i <= k
    BY <1>1
  <2> HIDE DEF n, k, new, all
  <2> QED
    BY <1>4, <1>5, <2>1
<1> QED
  BY <1>3, <1>5, <1>6, <1>7

\* What a restore makes of the rows.
LEMMA ContentsOf ==
    ASSUME NEW rows \in Seq(StoredMessages)
    PROVE  /\ Contents(rows) \in Seq(Runs)
           /\ Len(Contents(rows)) = Len(rows)
           /\ \A i \in 1 .. Len(rows) : Contents(rows)[i] = rows[i].by
<1>1. /\ DOMAIN rows = 1 .. Len(rows) /\ Len(rows) \in Nat
      /\ \A i \in 1 .. Len(rows) : rows[i] \in StoredMessages
  BY ElementOfSeq, LenProperties
<1>2. Contents(rows) = [i \in 1 .. Len(rows) |-> rows[i].by]
  BY <1>1 DEF Contents
<1>3. Contents(rows) \in [1 .. Len(rows) -> Runs]
  BY <1>1, <1>2 DEF StoredMessages
<1>4. Contents(rows) \in Seq(Runs)
  BY <1>1, <1>3
<1>5. Len(Contents(rows)) = Len(rows)
  BY <1>1, <1>3, <1>4, LenProperties
<1> QED
  BY <1>2, <1>4, <1>5

-----------------------------------------------------------------------------
(* The inductive invariant *)

\* The phases of a handler that owns the session: before the task of the run exists, ...
Acceptance == {"clear", "mark", "accepted"}
\* ... and from its first step to persist_run.
Task == {"begin", "running", "checkpoint", "pause", "ended"}
\* What a row says when the user is asked for something.
Asked == {"awaiting_plan_approval", "awaiting_user_response"}

\* A run owns the session outside of "free" and an approval, nothing but a loaded session
\* has content, and whoever runs has a worker.
PhaseInv ==
    /\ owner = NoRun <=> pc \in {"free", "approving"}
    /\ pc # "free" => loaded
    /\ loaded => up
    /\ ~loaded => mem = EmptySession /\ persisted_count = 0
    /\ pc = "approving" => mem.plan # NoPlan
    /\ pc \in {"begin", "running", "checkpoint", "pause"} => worker

\* An id is used once, and only a used one has a row.
OwnerInv ==
    /\ owner # NoRun => owner \in used /\ owner \notin stale
    /\ stale \subseteq used
    /\ \A r \in Runs : r \notin used => runs[r] = NoRow

\* Every message was produced by a run that was accepted, and is stored under its id.
AuthorInv ==
    /\ \A i \in 1 .. Len(db.messages) :
          db.messages[i].run = db.messages[i].by /\ db.messages[i].by \in used
    /\ \A i \in 1 .. Len(mem.messages) : mem.messages[i] \in used

\* The cursor is the number of stored messages, and memory begins with them.
CursorInv ==
    loaded => /\ persisted_count = Len(db.messages)
              /\ persisted_count <= Len(mem.messages)
              /\ \A i \in 1 .. persisted_count : db.messages[i].by = mem.messages[i]

\* A run has no messages before its task begins; after that its messages are those beyond
\* the snapshot, and its row, once a checkpoint has opened it, reaches from there to the
\* cursor.
TaskInv ==
    /\ pc \in Acceptance =>
          runs[owner] = NoRow /\ \A i \in 1 .. Len(mem.messages) : mem.messages[i] # owner
    /\ pc \in Task =>
          /\ Len(snapshot.messages) <= persisted_count
          /\ \A i \in 1 .. Len(mem.messages) :
                mem.messages[i] = owner <=> i > Len(snapshot.messages)
          /\ IF persisted_count = Len(snapshot.messages)
             THEN runs[owner] = NoRow
             ELSE /\ runs[owner] # NoRow /\ ~runs[owner].completed
                  /\ runs[owner].start = Len(snapshot.messages) + 1
                  /\ runs[owner].end = persisted_count
                  /\ Len(checkpoint.messages) = persisted_count
          /\ pc = "begin" => Len(mem.messages) = Len(snapshot.messages)
          /\ pc \in {"running", "checkpoint", "pause"} =>
                Len(mem.messages) > Len(snapshot.messages)

\* A row that claims messages, and what it claims: exactly those of its run.
Ranged(r) == runs[r] # NoRow /\ runs[r].start # 0
RangeOf(r) ==
    /\ Ranged(r) => runs[r].end <= Len(db.messages)
    /\ \A i \in 1 .. Len(db.messages) :
          db.messages[i].by = r <=> Ranged(r) /\ runs[r].start <= i /\ i <= runs[r].end

RangeInv == \A r \in Runs : RangeOf(r)

\* A row that is not completed is the owner's, or one the next startup accounts for.
Open(r) == runs[r] # NoRow /\ ~runs[r].completed
OpenInv ==
    \A r \in Runs : Open(r) =>
        /\ up => r = owner \/ r \in unsettled
        /\ runs[r].status \in Awaiting \union {"processing"}

\* The status of the frame in the phases that read it again.
StatusInv ==
    /\ pc \in {"running", "checkpoint", "pause"} => mem.status = "processing"
    /\ pc = "ended" /\ outcome # "awaiting" => mem.status = EndStatus(outcome)
    /\ pc = "pause" => CheckpointStatus # "processing"

\* While storage and memory agree about the messages, they agree about the plan, ...
SyncInv == loaded /\ persisted_count = Len(mem.messages) => mem.plan = db.plan

\* ... and always about what the user is asked for.
AskedInv == loaded /\ mem.status \in Asked => db.status = mem.status /\ db.plan = mem.plan

\* A fresh run starts without a plan; a paused one has stored what it waits for.
FreshInv ==
    /\ pc = "mark" => mode = "execute"
    /\ pc = "accepted" /\ mode # "execute" => mem.plan = NoPlan
PausedInv == pc = "pause" => db.status = CheckpointStatus /\ db.plan = mem.plan

\* What a rollback would go back to is what storage holds.
BackInv ==
    pc \in Task =>
        IF persisted_count = Len(snapshot.messages)
        THEN /\ snapshot.plan = db.plan
             /\ snapshot.status \in Asked => db.status = snapshot.status
        ELSE checkpoint.plan = db.plan /\ checkpoint.status = db.status

PlanFacts ==
    /\ SyncInv /\ AskedInv /\ FreshInv /\ PausedInv /\ BackInv
    /\ approved # NoPlan => db.plan = approved
    /\ \A plan \in {mem.plan, db.plan, snapshot.plan} : plan # NoPlan => plan.by \notin stale

PlanInv == (drops = 0 => late = {}) /\ (PlanFaultFree => PlanFacts)

\* The inductive invariant.
IInv ==
    /\ TypeOK /\ PhaseInv /\ OwnerInv /\ AuthorInv /\ CursorInv
    /\ TaskInv /\ RangeInv /\ OpenInv /\ StatusInv /\ PlanInv

-----------------------------------------------------------------------------
(* Types *)

\* The parts of TypeOK, by who writes the variables.
MemoryType  == up \in BOOLEAN /\ loaded \in BOOLEAN /\ mem \in Sessions /\ persisted_count \in Nat
RunType ==
    /\ owner \in Runs \union {NoRun} /\ pc \in Pcs /\ mode \in RunModes
    /\ snapshot \in Sessions /\ checkpoint \in Sessions
    /\ worker \in BOOLEAN /\ outcome \in Kinds /\ ask \in BOOLEAN
    /\ batches \in 0 .. BATCHES
StoreType ==
    /\ db \in [messages : Seq(StoredMessages), plan : Plans \union {NoPlan}, status : RowStatus]
    /\ runs \in [Runs -> Rows \union {NoRow}]
    /\ late \subseteq [op : {"clear", "mark", "approve"}, plan : Plans \union {NoPlan}]
HistoryType ==
    /\ used \subseteq Runs /\ crashes \in 0 .. CRASHES /\ drops \in 0 .. DROPS
    /\ approved \in Plans \union {NoPlan}
    /\ stale \subseteq Runs /\ unsettled \subseteq Runs /\ misread \in BOOLEAN
    /\ evidence \subseteq [run : Runs, lo : Nat, hi : Nat]

\* TypeOK is its parts.
LEMMA TypeParts == TypeOK <=> MemoryType /\ RunType /\ StoreType /\ HistoryType
  BY DEF TypeOK, MemoryType, RunType, StoreType, HistoryType, StoredMessages

\* What eviction leaves.
LEMMA EmptySessionType == EmptySession \in Sessions /\ Len(EmptySession.messages) = 0
  BY EmptySeq DEF EmptySession, Sessions, FrameStatus

\* The guard of a run gives back variables of the right type.
LEMMA ReleaseType == ASSUME Release PROVE RunType'
<1>1. snapshot' \in Sessions /\ checkpoint' \in Sessions
  BY EmptySessionType DEF Release
<1>2. worker' \in BOOLEAN /\ ask' \in BOOLEAN
  BY DEF Release
<1>3. /\ owner' \in Runs \union {NoRun} /\ pc' \in Pcs /\ mode' \in RunModes
      /\ outcome' \in Kinds /\ batches' \in 0 .. BATCHES
  BY DEF Release, Pcs, RunModes, Kinds
<1> QED
  BY <1>1, <1>2, <1>3 DEF RunType

\* The frame keeps its type.
LEMMA MemoryTypeStep ==
    ASSUME IInv, [Next]_vars
    PROVE  MemoryType'
<1> USE DEF MemoryType
<1>0. MemoryType /\ RunType /\ StoreType /\ HistoryType /\ PhaseInv /\ CursorInv /\ TaskInv
  BY TypeParts DEF IInv
<1>1. ASSUME UNCHANGED memoryVars PROVE MemoryType'
  BY <1>0, <1>1 DEF memoryVars
<1>2. CASE \/ \E r \in Runs, m \in RunModes : pc = "free" /\ Request(r, m)
           \/ AbortAcceptance \/ DropDuringUpdate \/ LateUpdate \/ StartTask
           \/ RefuseDriftedCursor \/ RunPanics \/ ApproveRequest \/ ApproveFails
           \/ ApproveDropped \/ UNCHANGED vars
  BY <1>1, <1>2 DEF Request, AbortAcceptance, DropDuringUpdate, LateUpdate, StartTask,
     RefuseDriftedCursor, RunPanics, ApproveRequest, ApproveFails, ApproveDropped, vars
<1>3. CASE ClearPlan \/ MarkProcessing \/ CheckpointFails \/ PauseForUser \/ CancelBeforePrompt
  <2>1. CheckpointStatus \in FrameStatus
    BY DEF CheckpointStatus, FrameStatus, Awaiting
  <2> QED
    BY <1>0, <1>3, <2>1 DEF ClearPlan, MarkProcessing, CheckpointFails, PauseForUser,
       CancelBeforePrompt, SetStatus, Sessions, FrameStatus
<1>4. CASE BeginRun
  <2>1. owner \in Runs
    BY <1>0, <1>4 DEF BeginRun, PhaseInv, RunType
  <2>2. Append(mem.messages, owner) \in Seq(Runs)
    BY <1>0, <2>1, Appended DEF Sessions
  <2> QED
    BY <1>0, <1>4, <2>2 DEF BeginRun, Sessions, FrameStatus
<1>5. ASSUME NEW plan \in Plans \union {NoPlan}, NEW asks \in BOOLEAN, ToolBatch(plan, asks)
      PROVE  MemoryType'
  <2>1. owner \in Runs
    BY <1>0, <1>5 DEF ToolBatch, PhaseInv, RunType
  <2>2. Append(mem.messages, owner) \in Seq(Runs)
    BY <1>0, <2>1, Appended DEF Sessions
  <2> QED
    BY <1>0, <1>5, <2>2 DEF ToolBatch, Sessions
<1>6. ASSUME NEW kind \in Kinds, NEW answer \in 0 .. 1, RunnerEnds(kind, answer)
      PROVE  MemoryType'
  <2>1. owner \in Runs
    BY <1>0, <1>6 DEF RunnerEnds, PhaseInv, RunType
  <2>2. Append(mem.messages, owner) \in Seq(Runs) /\ EndStatus(kind) \in FrameStatus
    BY <1>0, <1>6, <2>1, Appended DEF Sessions, RunnerEnds, EndStatus, FrameStatus
  <2> QED
    BY <1>0, <1>6, <2>2 DEF RunnerEnds, Sessions
<1>7. CASE CheckpointCommits \/ PersistCommits
  BY <1>0, <1>7 DEF CheckpointCommits, PersistCommits, Sessions
<1>8. CASE PersistFails
  <2>1. pc \in Task /\ loaded
    BY <1>0, <1>8 DEF PersistFails, PhaseInv, Task
  <2>2. mem.messages \in Seq(Runs) /\ snapshot \in Sessions /\ checkpoint \in Sessions
    BY <1>0 DEF Sessions, RunType
  <2>3. Len(snapshot.messages) \in Nat /\ Len(checkpoint.messages) \in Nat
    BY <2>2 DEF Sessions
  <2>4. /\ Len(snapshot.messages) <= Len(mem.messages)
        /\ ~(persisted_count <= Len(snapshot.messages))
              => Len(checkpoint.messages) <= Len(mem.messages)
    BY <1>0, <2>1, <2>3, <2>2 DEF TaskInv, CursorInv
  <2>5. /\ SubSeq(mem.messages, 1, Len(snapshot.messages)) \in Seq(Runs)
        /\ ~(persisted_count <= Len(snapshot.messages))
              => SubSeq(mem.messages, 1, Len(checkpoint.messages)) \in Seq(Runs)
    BY <2>2, <2>3, <2>4, Prefix
  <2>6. RolledBack \in Sessions
    BY <2>2, <2>5 DEF RolledBack, Sessions
  <2> QED
    BY <1>0, <1>8, <2>6 DEF PersistFails
<1>9. CASE ApproveCommits
  <2>1. mem.plan \in Plans => Approved(mem.plan) \in Plans
    BY DEF Approved, Plans
  <2>2. mem.plan \in Plans
    BY <1>0, <1>9 DEF ApproveCommits, Sessions, PhaseInv
  <2>3. SetStatus(mem.status, "awaiting_plan_execution") \in FrameStatus
    BY <1>0 DEF SetStatus, FrameStatus, Awaiting, Sessions
  <2>4. mem' \in Sessions
    BY <1>0, <1>9, <2>1, <2>2, <2>3 DEF ApproveCommits, Sessions
  <2> QED
    BY <1>0, <1>9, <2>4 DEF ApproveCommits
<1>10. CASE Crash \/ Startup \/ Evict
  <2>1. mem' \in Sessions
    BY <1>0, <1>10, EmptySessionType DEF Crash, Startup, Evict
  <2>2. up' \in BOOLEAN /\ loaded' \in BOOLEAN
    <3>1. ASSUME Crash PROVE up' = FALSE /\ loaded' = FALSE
      BY <3>1 DEF Crash
    <3>2. ASSUME Startup PROVE up' = TRUE /\ loaded' = loaded
      BY <3>2 DEF Startup
    <3>3. ASSUME Evict PROVE up' = up /\ loaded' = FALSE
      BY <3>3 DEF Evict
    <3> QED
      BY <1>0, <1>10, <3>1, <3>2, <3>3
  <2>3. persisted_count' \in Nat
    BY <1>0, <1>10 DEF Crash, Startup, Evict
  <2> QED
    BY <2>1, <2>2, <2>3
<1>11. CASE Restore
  <2>1. Contents(db.messages) \in Seq(Runs)
    BY <1>0, ContentsOf DEF StoreType
  <2>2. RestoredStatus(db.status) \in FrameStatus
    BY <1>0 DEF StoreType, RestoredStatus, RowStatus, FrameStatus, Awaiting
  <2>3. Len(db.messages) \in Nat /\ db.plan \in Plans \union {NoPlan}
    BY <1>0 DEF StoreType
  <2> QED
    BY <1>0, <1>11, <2>1, <2>2, <2>3 DEF Restore, Sessions
<1> QED
  BY <1>2, <1>3, <1>4, <1>5, <1>6, <1>7, <1>8, <1>9, <1>10, <1>11 DEF Next

\* The run keeps its types: a snapshot and a checkpoint are frames.
LEMMA RunTypeStep ==
    ASSUME IInv, [Next]_vars
    PROVE  RunType'
<1>0. MemoryType /\ RunType
  BY TypeParts DEF IInv
<1>1. ASSUME UNCHANGED runVars PROVE RunType'
  BY <1>0, <1>1 DEF runVars, RunType
<1>2. CASE LateUpdate \/ Startup \/ Restore \/ Evict \/ UNCHANGED vars
  BY <1>1, <1>2 DEF LateUpdate, Startup, Restore, Evict, vars
<1>3. CASE \/ AbortAcceptance \/ DropDuringUpdate \/ RefuseDriftedCursor \/ PersistCommits
           \/ PersistFails \/ RunPanics \/ ApproveCommits \/ ApproveFails \/ ApproveDropped
           \/ Crash
  BY <1>3, ReleaseType DEF AbortAcceptance, DropDuringUpdate, RefuseDriftedCursor,
     PersistCommits, PersistFails, RunPanics, ApproveCommits, ApproveFails, ApproveDropped, Crash
<1>4. ASSUME NEW r \in Runs, NEW m \in RunModes, Request(r, m) PROVE RunType'
  BY <1>0, <1>4 DEF Request, RunType, Pcs
<1>5. CASE \/ ClearPlan \/ MarkProcessing \/ BeginRun \/ ApproveRequest
  BY <1>0, <1>5 DEF ClearPlan, MarkProcessing, BeginRun, ApproveRequest, RunType, Pcs, runLocals
<1>6. CASE StartTask
  <2>1. snapshot' \in Sessions /\ worker' = TRUE /\ pc' \in Pcs
    BY <1>0, <1>6 DEF StartTask, MemoryType, Pcs
  <2>2. UNCHANGED <<owner, mode, checkpoint, outcome, ask, batches>>
    BY <1>6 DEF StartTask
  <2> QED
    BY <1>0, <2>1, <2>2 DEF RunType
<1>7. CASE CancelBeforePrompt \/ PauseForUser
  BY <1>0, <1>7 DEF CancelBeforePrompt, PauseForUser, RunType, Pcs, Kinds
<1>8. ASSUME NEW plan \in Plans \union {NoPlan}, NEW asks \in BOOLEAN, ToolBatch(plan, asks)
      PROVE  RunType'
  <2>1. /\ ask' = asks /\ batches' = batches + 1 /\ batches < BATCHES /\ pc' = "checkpoint"
        /\ UNCHANGED <<owner, mode, snapshot, checkpoint, worker, outcome>>
    BY <1>8 DEF ToolBatch
  <2>2. batches' \in 0 .. BATCHES
    BY <1>0, <2>1 DEF RunType
  <2> QED
    BY <1>0, <2>1, <2>2 DEF RunType, Pcs
<1>9. CASE CheckpointCommits
  <2>1. checkpoint' \in Sessions
    <3>1. CheckpointStatus \in FrameStatus
      BY DEF CheckpointStatus, FrameStatus, Awaiting
    <3> QED
      BY <1>0, <1>9, <3>1 DEF CheckpointCommits, Sessions, MemoryType
  <2>2. /\ pc' \in Pcs
        /\ UNCHANGED <<owner, mode, snapshot, worker, outcome, ask, batches>>
    BY <1>9 DEF CheckpointCommits, Pcs
  <2> QED
    BY <1>0, <2>1, <2>2 DEF RunType
<1>10. CASE CheckpointFails
  <2>1. worker' = FALSE /\ outcome' = "error" /\ pc' = "ended"
        /\ UNCHANGED <<owner, mode, snapshot, checkpoint, ask, batches>>
    BY <1>10 DEF CheckpointFails
  <2> QED
    BY <1>0, <2>1 DEF RunType, Pcs, Kinds
<1>11. ASSUME NEW kind \in Kinds, NEW answer \in 0 .. 1, RunnerEnds(kind, answer)
      PROVE  RunType'
  BY <1>0, <1>11 DEF RunnerEnds, RunType, Pcs
<1> QED
  BY <1>2, <1>3, <1>4, <1>5, <1>6, <1>7, <1>8, <1>9, <1>10, <1>11 DEF Next

\* What is stored of a run is never longer than what memory holds of it.
LEMMA TaskLengths ==
    ASSUME IInv, pc \in Task
    PROVE  /\ loaded /\ owner \in Runs
           /\ Len(snapshot.messages) \in Nat /\ Len(mem.messages) \in Nat
           /\ persisted_count \in Nat /\ persisted_count = Len(db.messages)
           /\ Len(snapshot.messages) <= persisted_count
           /\ persisted_count <= Len(mem.messages)
<1>1. MemoryType /\ RunType /\ PhaseInv /\ CursorInv /\ TaskInv
  BY TypeParts DEF IInv
<1>2. loaded /\ owner \in Runs
  BY <1>1 DEF PhaseInv, Task, RunType
<1>3. mem.messages \in Seq(Runs) /\ snapshot.messages \in Seq(Runs)
  BY <1>1 DEF MemoryType, RunType, Sessions
<1> QED
  BY <1>1, <1>2, <1>3 DEF CursorInv, TaskInv, MemoryType

\* Storage keeps its types: what is written is a frame's.
LEMMA StoreTypeStep ==
    ASSUME IInv, [Next]_vars
    PROVE  StoreType'
<1>0. MemoryType /\ RunType /\ StoreType /\ PhaseInv
  BY TypeParts DEF IInv
<1> USE DEF StoreType
<1>1. ASSUME UNCHANGED storeVars PROVE StoreType'
  BY <1>0, <1>1 DEF storeVars
<1>2. CASE \/ \E r \in Runs, m \in RunModes : pc = "free" /\ Request(r, m)
           \/ AbortAcceptance \/ StartTask \/ RefuseDriftedCursor \/ BeginRun
           \/ CancelBeforePrompt \/ CheckpointFails \/ PauseForUser \/ PersistFails
           \/ RunPanics \/ ApproveRequest \/ ApproveFails \/ Restore \/ Evict
           \/ \E kind \in Kinds, answer \in 0 .. 1 : RunnerEnds(kind, answer)
           \/ \E plan \in Plans \union {NoPlan}, asks \in BOOLEAN : ToolBatch(plan, asks)
           \/ UNCHANGED vars
  <2>1. UNCHANGED storeVars
    BY <1>2 DEF Request, AbortAcceptance, StartTask, RefuseDriftedCursor, BeginRun,
       CancelBeforePrompt, CheckpointFails, PauseForUser, PersistFails, RunPanics,
       ApproveRequest, ApproveFails, Restore, Evict, RunnerEnds, ToolBatch, vars
  <2> QED
    BY <1>1, <2>1
<1>3. mem.plan \in Plans \union {NoPlan} /\ mem.status \in FrameStatus
  BY <1>0 DEF MemoryType, Sessions
<1>4. mem.plan \in Plans => Approved(mem.plan) \in Plans
  BY DEF Approved, Plans
<1>5. CASE ClearPlan \/ MarkProcessing
  BY <1>0, <1>5 DEF ClearPlan, MarkProcessing, RowStatus
<1>6. CASE DropDuringUpdate \/ ApproveDropped
  BY <1>0, <1>3, <1>4, <1>6 DEF DropDuringUpdate, ApproveDropped, PhaseInv
<1>7. CASE LateUpdate
  <2>1. late' \subseteq late /\ runs' = runs
    BY <1>7 DEF LateUpdate
  <2>2. PICK w \in late :
           db' = CASE w.op = "clear"   -> [db EXCEPT !.plan = NoPlan]
                   [] w.op = "mark"    -> [db EXCEPT !.status = "processing"]
                   [] w.op = "approve" -> [db EXCEPT !.plan = w.plan,
                                                     !.status = "awaiting_plan_execution"]
    BY <1>7 DEF LateUpdate
  <2>3. w.op \in {"clear", "mark", "approve"} /\ w.plan \in Plans \union {NoPlan}
    BY <1>0, <2>2
  <2>4. db' \in [messages : Seq(StoredMessages), plan : Plans \union {NoPlan}, status : RowStatus]
    BY <1>0, <2>2, <2>3 DEF RowStatus, Awaiting
  <2> QED
    BY <1>0, <2>1, <2>4
<1>8. CASE CheckpointCommits
  <2>1. pc \in Task
    BY <1>8 DEF CheckpointCommits, Task
  <2>2. db.messages \o NewRows(owner) \in Seq(StoredMessages)
    BY <1>0, <2>1, TaskLengths, StoredTranscript DEF MemoryType
  <2>3. CheckpointStatus \in RowStatus
    BY DEF CheckpointStatus, RowStatus, Awaiting
  <2>4. /\ db' = [messages |-> db.messages \o NewRows(owner), plan |-> mem.plan,
                  status |-> CheckpointStatus]
        /\ runs' = [runs EXCEPT ![owner] = CheckpointRow(owner, CheckpointStatus)]
        /\ late' = late
    BY <1>8 DEF CheckpointCommits
  <2>5. CheckpointRow(owner, CheckpointStatus) \in Rows
    <3>1. Len(db.messages) + 1 \in Nat /\ Len(mem.messages) \in Nat /\ owner \in Runs
      BY <2>1, TaskLengths
    <3>2. runs[owner] # NoRow => runs[owner] \in Rows
      BY <1>0, <3>1
    <3> QED
      BY <2>3, <3>1, <3>2 DEF CheckpointRow, Rows
  <2> QED
    BY <1>0, <1>3, <2>2, <2>3, <2>4, <2>5
<1>9. CASE PersistCommits
  <2>1. pc \in Task
    BY <1>9 DEF PersistCommits, Task
  <2>2. db.messages \o NewRows(owner) \in Seq(StoredMessages)
    BY <1>0, <2>1, TaskLengths, StoredTranscript DEF MemoryType
  <2>3. PersistedStatus \in RowStatus
    <3>1. FrameStatus \subseteq RowStatus
      BY DEF FrameStatus, RowStatus
    <3> QED
      BY <1>0, <1>3, <3>1 DEF PersistedStatus, EndStatus, RunType, Kinds, RowStatus
  <2>4. /\ db' = [messages |-> db.messages \o NewRows(owner), plan |-> mem.plan,
                  status |-> PersistedStatus]
        /\ runs' = [runs EXCEPT ![owner] = PersistedRow(owner)]
        /\ late' = late
    BY <1>9 DEF PersistCommits
  <2>5. PersistedRow(owner) \in Rows
    BY <2>1, <2>3, TaskLengths DEF PersistedRow, CheckpointStart, Rows
  <2> QED
    BY <1>0, <1>3, <2>2, <2>3, <2>4, <2>5
<1>10. CASE ApproveCommits
  BY <1>0, <1>3, <1>4, <1>10 DEF ApproveCommits, PhaseInv, RowStatus, Awaiting
<1>11. CASE Crash
  BY <1>0, <1>11 DEF Crash
<1>12. CASE Startup
  <2>1. ASSUME NEW r \in Runs PROVE SettledRow(runs[r]) \in Rows \union {NoRow}
    <3>1. runs[r] \in Rows \union {NoRow}
      BY <1>0
    <3> QED
      BY <3>1 DEF SettledRow, Rows, RowStatus
  <2>2. runs' \in [Runs -> Rows \union {NoRow}] /\ late' = late
    BY <1>12, <2>1 DEF Startup
  <2>3. db' \in [messages : Seq(StoredMessages), plan : Plans \union {NoPlan}, status : RowStatus]
    <3>1. db' = [db EXCEPT !.status = IF db.status = "processing" THEN "interrupted" ELSE db.status]
      BY <1>12 DEF Startup
    <3> QED
      BY <1>0, <3>1 DEF RowStatus
  <2> QED
    BY <1>0, <2>2, <2>3
<1> QED
  BY <1>2, <1>5, <1>6, <1>7, <1>8, <1>9, <1>10, <1>11, <1>12 DEF Next

\* The history keeps its types.
LEMMA HistoryTypeStep ==
    ASSUME IInv, [Next]_vars
    PROVE  HistoryType'
<1>0. MemoryType /\ RunType /\ HistoryType /\ PhaseInv
  BY TypeParts DEF IInv
<1> USE DEF HistoryType
<1>1. ASSUME UNCHANGED historyVars PROVE HistoryType'
  BY <1>0, <1>1 DEF historyVars
<1>2. CASE \/ MarkProcessing \/ AbortAcceptance \/ LateUpdate \/ RefuseDriftedCursor
           \/ BeginRun \/ CancelBeforePrompt \/ CheckpointFails \/ PauseForUser
           \/ ApproveRequest \/ ApproveFails \/ Evict
           \/ \E kind \in Kinds, answer \in 0 .. 1 : RunnerEnds(kind, answer)
           \/ \E plan \in Plans \union {NoPlan}, asks \in BOOLEAN : ToolBatch(plan, asks)
           \/ UNCHANGED vars
  <2>1. UNCHANGED historyVars
    BY <1>2 DEF MarkProcessing, AbortAcceptance, LateUpdate, RefuseDriftedCursor, BeginRun,
       CancelBeforePrompt, CheckpointFails, PauseForUser, ApproveRequest, ApproveFails, Evict,
       RunnerEnds, ToolBatch, vars
  <2> QED
    BY <1>1, <2>1
<1>3. ASSUME NEW r \in Runs, NEW m \in RunModes, Request(r, m) PROVE HistoryType'
  BY <1>0, <1>3 DEF Request
<1>4. CASE ClearPlan
  BY <1>0, <1>4 DEF ClearPlan
<1>5. CASE DropDuringUpdate
  BY <1>0, <1>5 DEF DropDuringUpdate
<1>6. CASE StartTask
  BY <1>0, <1>6 DEF StartTask
<1>7. StillApproved \in Plans \union {NoPlan}
  BY <1>0 DEF StillApproved, MemoryType, Sessions
<1>8. CASE CheckpointCommits
  BY <1>0, <1>7, <1>8 DEF CheckpointCommits
<1>9. CASE PersistCommits
  <2>1. EvidenceOf(owner) \in [run : Runs, lo : Nat, hi : Nat]
    <3>1. pc \in Task
      BY <1>9 DEF PersistCommits, Task
    <3> DEFINE lo == IF CheckpointStart = 0 THEN 1 ELSE CheckpointStart
               new == Len(mem.messages) - Len(snapshot.messages)
    <3>2. owner \in Runs /\ lo \in Nat /\ new \in Nat
      BY <3>1, TaskLengths DEF CheckpointStart
    <3>3. EvidenceOf(owner) = [run |-> owner, lo |-> lo, hi |-> lo + new]
      BY DEF EvidenceOf
    <3> HIDE DEF lo, new
    <3>4. lo + new \in Nat
      BY <3>2
    <3> QED
      BY <3>2, <3>3, <3>4
  <2>2. evidence' \subseteq [run : Runs, lo : Nat, hi : Nat]
    BY <1>0, <1>9, <2>1 DEF PersistCommits
  <2> QED
    BY <1>0, <1>7, <1>9, <2>2 DEF PersistCommits
<1>10. CASE PersistFails \/ RunPanics
  <2>1. pc \in Task
    BY <1>10 DEF PersistFails, RunPanics, Task
  <2>2. owner \in Runs
    BY <2>1, TaskLengths
  <2> QED
    BY <1>0, <1>10, <2>2 DEF PersistFails, RunPanics
<1>11. CASE ApproveCommits
  <2>1. Approved(mem.plan) \in Plans
    BY <1>0, <1>11 DEF ApproveCommits, PhaseInv, Approved, Plans, MemoryType, Sessions
  <2> QED
    BY <1>0, <1>11, <2>1 DEF ApproveCommits
<1>12. CASE ApproveDropped
  BY <1>0, <1>12 DEF ApproveDropped
<1>13. CASE Crash
  BY <1>0, <1>13 DEF Crash
<1>14. CASE Startup
  BY <1>0, <1>14 DEF Startup
<1>15. CASE Restore
  <2>1. misread' \in BOOLEAN
    BY <1>15 DEF Restore
  <2> QED
    BY <1>0, <1>15, <2>1 DEF Restore
<1> QED
  BY <1>2, <1>3, <1>4, <1>5, <1>6, <1>8, <1>9, <1>10, <1>11, <1>12, <1>13, <1>14, <1>15 DEF Next

\* A step keeps the types.
LEMMA TypeStep ==
    ASSUME IInv, [Next]_vars
    PROVE  TypeOK'
<1>1. MemoryType' /\ RunType' /\ StoreType' /\ HistoryType'
  BY MemoryTypeStep, RunTypeStep, StoreTypeStep, HistoryTypeStep
<1> QED
  BY <1>1 DEF TypeOK, MemoryType, RunType, StoreType, HistoryType, StoredMessages

-----------------------------------------------------------------------------
(* Who holds the session, and when it is in memory *)

\* A step keeps the phases.
LEMMA PhaseStep ==
    ASSUME IInv, [Next]_vars
    PROVE  PhaseInv'
<1>0. PhaseInv /\ (owner \in Runs \union {NoRun})
  BY TypeParts DEF IInv, RunType
<1>1. CASE LateUpdate \/ UNCHANGED vars
  <2>1. UNCHANGED <<up, loaded, mem, persisted_count, owner, pc, worker>>
    BY <1>1 DEF LateUpdate, vars, memoryVars, runVars
  <2> QED
    BY <1>0, <2>1 DEF PhaseInv
<1>2. ASSUME NEW r \in Runs, NEW m \in RunModes, Request(r, m) PROVE PhaseInv'
  BY <1>0, <1>2 DEF Request, memoryVars, PhaseInv
<1>3. CASE \/ ClearPlan \/ MarkProcessing \/ StartTask \/ BeginRun \/ CancelBeforePrompt
           \/ CheckpointCommits \/ CheckpointFails \/ PauseForUser
           \/ \E kind \in Kinds, answer \in 0 .. 1 : RunnerEnds(kind, answer)
           \/ \E plan \in Plans \union {NoPlan}, asks \in BOOLEAN : ToolBatch(plan, asks)
  <2>1. /\ pc \notin {"free", "approving"} /\ pc' \notin {"free", "approving"}
        /\ UNCHANGED <<up, loaded, owner>>
        /\ pc' \in {"begin", "running", "checkpoint", "pause"} =>
              worker' = TRUE \/ (worker' = worker
                                  /\ pc \in {"begin", "running", "checkpoint", "pause"})
    BY <1>3 DEF ClearPlan, MarkProcessing, StartTask, BeginRun, CancelBeforePrompt,
       CheckpointCommits, CheckpointFails, PauseForUser, RunnerEnds, ToolBatch, memoryVars,
       runLocals
  <2> QED
    BY <1>0, <2>1 DEF PhaseInv
<1>4. CASE AbortAcceptance \/ DropDuringUpdate \/ RefuseDriftedCursor \/ PersistCommits
           \/ PersistFails \/ RunPanics \/ ApproveCommits \/ ApproveFails \/ ApproveDropped
  <2>1. /\ pc # "free" /\ pc' = "free" /\ owner' = NoRun /\ UNCHANGED <<up, loaded>>
    BY <1>4 DEF AbortAcceptance, DropDuringUpdate, RefuseDriftedCursor, PersistCommits,
       PersistFails, RunPanics, ApproveCommits, ApproveFails, ApproveDropped, Release, memoryVars
  <2> QED
    BY <1>0, <2>1 DEF PhaseInv
<1>5. CASE ApproveRequest
  BY <1>0, <1>5 DEF ApproveRequest, PhaseInv, memoryVars
<1>6. CASE Crash \/ Evict
  <2>1. /\ pc' = "free" /\ owner' = NoRun /\ ~loaded' /\ mem' = EmptySession
        /\ persisted_count' = 0
    BY <1>6 DEF Crash, Evict, Release, runVars
  <2> QED
    BY <2>1 DEF PhaseInv
<1>7. CASE Startup
  BY <1>0, <1>7 DEF Startup, runVars, PhaseInv
<1>8. CASE Restore
  BY <1>0, <1>8 DEF Restore, runVars, PhaseInv
<1> QED
  BY <1>1, <1>2, <1>3, <1>4, <1>5, <1>6, <1>7, <1>8 DEF Next

\* Run ids are used once; what a fresh run supersedes is never its own.
LEMMA OwnerStep ==
    ASSUME IInv, [Next]_vars
    PROVE  OwnerInv'
<1>0. PhaseInv /\ OwnerInv /\ owner \in Runs \union {NoRun} /\ used \subseteq Runs
      /\ runs \in [Runs -> Rows \union {NoRow}]
  BY TypeParts DEF IInv, RunType, HistoryType, StoreType
<1>1. ASSUME UNCHANGED <<runs, used, stale>>, owner' = owner \/ owner' = NoRun
      PROVE  OwnerInv'
  BY <1>0, <1>1 DEF OwnerInv
<1>2. CASE \/ ClearPlan \/ MarkProcessing \/ AbortAcceptance \/ DropDuringUpdate \/ LateUpdate
           \/ RefuseDriftedCursor \/ BeginRun \/ CancelBeforePrompt \/ CheckpointFails
           \/ PauseForUser \/ PersistFails \/ RunPanics \/ UNCHANGED vars
  <2>1. UNCHANGED <<runs, used, stale>> /\ (owner' = owner \/ owner' = NoRun)
    BY <1>2 DEF ClearPlan, MarkProcessing, AbortAcceptance, DropDuringUpdate, LateUpdate,
       RefuseDriftedCursor, BeginRun, CancelBeforePrompt, CheckpointFails, PauseForUser,
       PersistFails, RunPanics, vars, Release, storeVars, runVars, historyVars
  <2> QED
    BY <1>1, <2>1
<1>3. CASE \/ \E kind \in Kinds, answer \in 0 .. 1 : RunnerEnds(kind, answer)
           \/ \E plan \in Plans \union {NoPlan}, asks \in BOOLEAN : ToolBatch(plan, asks)
           \/ ApproveRequest \/ ApproveCommits \/ ApproveFails \/ ApproveDropped
           \/ Crash \/ Restore \/ Evict
  <2>1. UNCHANGED <<runs, used, stale>> /\ (owner' = owner \/ owner' = NoRun)
    BY <1>3 DEF RunnerEnds, ToolBatch, ApproveRequest, ApproveCommits, ApproveFails,
       ApproveDropped, Crash, Restore, Evict, Release, storeVars, runVars, historyVars
  <2> QED
    BY <1>1, <2>1
<1>4. ASSUME NEW r \in Runs, NEW m \in RunModes, Request(r, m) PROVE OwnerInv'
  BY <1>0, <1>4 DEF Request, OwnerInv, storeVars
<1>5. CASE StartTask
  BY <1>0, <1>5 DEF StartTask, OwnerInv, storeVars
<1>6. CASE CheckpointCommits \/ PersistCommits
  <2>1. owner \in used
    BY <1>0, <1>6 DEF CheckpointCommits, PersistCommits, PhaseInv, OwnerInv
  <2>2. /\ UNCHANGED <<used, stale>> /\ (owner' = owner \/ owner' = NoRun)
        /\ \A r \in Runs : r \notin used => runs'[r] = runs[r]
    BY <1>0, <1>6, <2>1 DEF CheckpointCommits, PersistCommits, Release
  <2> QED
    BY <1>0, <2>2 DEF OwnerInv
<1>7. CASE Startup
  <2>1. UNCHANGED <<used, stale, owner>>
    BY <1>7 DEF Startup, runVars
  <2>2. \A r \in Runs : r \notin used => runs'[r] = NoRow
    BY <1>0, <1>7 DEF Startup, SettledRow, OwnerInv
  <2> QED
    BY <1>0, <2>1, <2>2 DEF OwnerInv
<1> QED
  BY <1>2, <1>3, <1>4, <1>5, <1>6, <1>7 DEF Next

-----------------------------------------------------------------------------
(* What a step does to the two transcripts and the cursor between them *)

\* The ways in which a step changes the transcripts: not at all, a message of the owner
\* more, memory stored, memory cut back to what is stored, memory given up, or read again.
Still ==
    /\ mem'.messages = mem.messages /\ db'.messages = db.messages
    /\ persisted_count' = persisted_count /\ loaded' = loaded
Says ==
    /\ pc \in Task
    /\ mem'.messages = Append(mem.messages, owner) /\ db'.messages = db.messages
    /\ persisted_count' = persisted_count /\ loaded' = loaded
Stores ==
    /\ pc \in Task
    /\ mem'.messages = mem.messages /\ db'.messages = db.messages \o NewRows(owner)
    /\ persisted_count' = Len(mem.messages) /\ loaded' = loaded
RollsBack ==
    /\ pc \in Task
    /\ mem'.messages = SubSeq(mem.messages, 1, persisted_count) /\ db'.messages = db.messages
    /\ persisted_count' = persisted_count /\ loaded' = loaded
Forgets == mem'.messages = <<>> /\ db'.messages = db.messages /\ ~loaded'
Reads ==
    /\ mem'.messages = Contents(db.messages) /\ db'.messages = db.messages
    /\ persisted_count' = Len(db.messages)

\* The rollback of a failed run cuts memory at the cursor, whether the run had stored a
\* checkpoint or not.
LEMMA RolledBackMessages ==
    ASSUME IInv, pc \in Task
    PROVE  RolledBack.messages = SubSeq(mem.messages, 1, persisted_count)
<1>1. snapshot \in Sessions /\ checkpoint \in Sessions /\ TaskInv
  BY TypeParts DEF IInv, RunType
<1>2. CASE persisted_count <= Len(snapshot.messages)
  <2>1. Len(snapshot.messages) = persisted_count
    BY <1>2, TaskLengths
  <2> QED
    BY <1>1, <1>2, <2>1 DEF RolledBack, Sessions
<1>3. CASE ~(persisted_count <= Len(snapshot.messages))
  <2>1. Len(checkpoint.messages) = persisted_count
    BY <1>1, <1>3, TaskLengths DEF TaskInv
  <2> QED
    BY <1>1, <1>3, <2>1 DEF RolledBack, Sessions
<1> QED
  BY <1>2, <1>3

\* Every step is one of them.
LEMMA TranscriptEffects ==
    ASSUME IInv, [Next]_vars
    PROVE  /\ used \subseteq used'
           /\ Still \/ Says \/ Stores \/ RollsBack \/ Forgets \/ Reads
<1>0. mem \in Sessions /\ db \in [messages : Seq(StoredMessages), plan : Plans \union {NoPlan},
                                 status : RowStatus]
  BY TypeParts DEF IInv, MemoryType, StoreType
<1> USE DEF Still
<1>1. CASE \/ AbortAcceptance \/ DropDuringUpdate \/ StartTask \/ RefuseDriftedCursor
           \/ RunPanics \/ ApproveRequest \/ ApproveFails \/ ApproveDropped \/ UNCHANGED vars
  <2>1. UNCHANGED <<mem, db, persisted_count, loaded, used>>
    BY <1>1 DEF AbortAcceptance, DropDuringUpdate, StartTask, RefuseDriftedCursor, RunPanics,
       ApproveRequest, ApproveFails, ApproveDropped, vars, memoryVars, storeVars, historyVars
  <2> QED
    BY <2>1
<1>2. ASSUME NEW r \in Runs, NEW m \in RunModes, Request(r, m)
      PROVE  used \subseteq used' /\ Still
  BY <1>2 DEF Request, memoryVars, storeVars
<1>3. CASE \/ ClearPlan \/ MarkProcessing \/ CheckpointFails \/ PauseForUser
           \/ CancelBeforePrompt \/ ApproveCommits
  <2>1. /\ mem'.messages = mem.messages /\ db'.messages = db.messages
        /\ UNCHANGED <<persisted_count, loaded>>
    BY <1>0, <1>3 DEF ClearPlan, MarkProcessing, CheckpointFails, PauseForUser,
       CancelBeforePrompt, ApproveCommits, storeVars, Sessions
  <2>2. UNCHANGED used
    BY <1>3 DEF ClearPlan, MarkProcessing, CheckpointFails, PauseForUser,
       CancelBeforePrompt, ApproveCommits, historyVars
  <2> QED
    BY <2>1, <2>2
<1>4. CASE LateUpdate
  <2>1. UNCHANGED <<mem, persisted_count, loaded, used>>
    BY <1>4 DEF LateUpdate, memoryVars, historyVars
  <2>2. late \subseteq [op : {"clear", "mark", "approve"}, plan : Plans \union {NoPlan}]
    BY TypeParts DEF IInv, StoreType
  <2>3. db'.messages = db.messages
    BY <1>0, <1>4, <2>2 DEF LateUpdate
  <2> QED
    BY <2>1, <2>3
<1>5. CASE BeginRun
  BY <1>0, <1>5 DEF BeginRun, Says, Sessions, Task, storeVars, historyVars
<1>6. ASSUME NEW plan \in Plans \union {NoPlan}, NEW asks \in BOOLEAN, ToolBatch(plan, asks)
      PROVE  used \subseteq used' /\ Says
  BY <1>0, <1>6 DEF ToolBatch, Says, Sessions, Task, storeVars, historyVars
<1>7. ASSUME NEW kind \in Kinds, NEW answer \in 0 .. 1, RunnerEnds(kind, answer)
      PROVE  used \subseteq used' /\ (Still \/ Says)
  <2>1. /\ UNCHANGED <<db, persisted_count, loaded, used>> /\ pc \in Task
        /\ mem' = [mem EXCEPT !.status = EndStatus(kind),
                              !.messages = IF answer = 1 THEN Append(@, owner) ELSE @]
    BY <1>7 DEF RunnerEnds, storeVars, historyVars, Task
  <2>2. mem'.messages = IF answer = 1 THEN Append(mem.messages, owner) ELSE mem.messages
    BY <1>0, <2>1 DEF Sessions
  <2> QED
    BY <2>1, <2>2 DEF Says
<1>8. CASE CheckpointCommits \/ PersistCommits
  BY <1>8 DEF CheckpointCommits, PersistCommits, Stores, Task
<1>9. CASE PersistFails
  <2>1. pc \in Task
    BY <1>9 DEF PersistFails, Task
  <2>2. mem'.messages = SubSeq(mem.messages, 1, persisted_count)
    BY <1>9, <2>1, RolledBackMessages DEF PersistFails
  <2> QED
    BY <1>9, <2>1, <2>2 DEF PersistFails, RollsBack, storeVars
<1>10. CASE Crash \/ Evict
  <2>1. mem' = EmptySession /\ loaded' = FALSE /\ UNCHANGED <<db, used>>
    BY <1>10 DEF Crash, Evict, storeVars, historyVars
  <2> QED
    BY <2>1 DEF EmptySession, Forgets
<1>11. CASE Startup
  BY <1>0, <1>11 DEF Startup
<1>12. CASE Restore
  BY <1>12 DEF Restore, Reads, storeVars
<1> QED
  BY <1>1, <1>2, <1>3, <1>4, <1>5, <1>6, <1>7, <1>8, <1>9, <1>10, <1>11, <1>12 DEF Next

\* The messages of both transcripts are those of runs that were accepted; a row carries
\* its author's run id.
LEMMA AuthorStep ==
    ASSUME IInv, [Next]_vars
    PROVE  AuthorInv'
<1>0. /\ mem \in Sessions /\ mem.messages \in Seq(Runs) /\ db.messages \in Seq(StoredMessages)
      /\ AuthorInv /\ OwnerInv /\ PhaseInv /\ TaskInv
  BY TypeParts DEF IInv, MemoryType, StoreType, Sessions
<1>1. used \subseteq used'
  BY TranscriptEffects
<1>2. CASE Still
  BY <1>0, <1>1, <1>2 DEF Still, AuthorInv
<1>3. ASSUME pc \in Task PROVE owner \in used
  BY <1>0, <1>3 DEF OwnerInv, PhaseInv, Task
<1>4. CASE Says
  <2>1. /\ mem'.messages = Append(mem.messages, owner) /\ db'.messages = db.messages
        /\ owner \in used /\ owner \in Runs
    BY <1>3, <1>4, TaskLengths DEF Says
  <2>2. /\ Len(mem'.messages) = Len(mem.messages) + 1
        /\ \A i \in 1 .. Len(mem.messages) : mem'.messages[i] = mem.messages[i]
        /\ mem'.messages[Len(mem.messages) + 1] = owner
    BY <1>0, <2>1, Appended
  <2>3. \A i \in 1 .. Len(mem'.messages) : mem'.messages[i] \in used
    BY <1>0, <2>1, <2>2 DEF AuthorInv
  <2> QED
    BY <1>0, <1>1, <2>1, <2>3 DEF AuthorInv
<1>5. CASE Stores
  <2>1. /\ mem'.messages = mem.messages
        /\ Len(db'.messages) = Len(mem.messages)
        /\ \A i \in 1 .. persisted_count : db'.messages[i] = db.messages[i]
        /\ \A i \in 1 .. Len(mem.messages) : i > persisted_count =>
              db'.messages[i] = [by |-> mem.messages[i], run |-> owner]
        /\ persisted_count = Len(db.messages)
    BY <1>0, <1>5, TaskLengths, StoredTranscript DEF Stores
  <2>2. ASSUME NEW i \in 1 .. Len(mem.messages)
        PROVE  db'.messages[i].run = db'.messages[i].by /\ db'.messages[i].by \in used
    <3>1. CASE i > persisted_count
      <4>1. mem.messages[i] = owner /\ owner \in used
        BY <1>0, <1>3, <1>5, <3>1, TaskLengths DEF TaskInv, Stores
      <4>2. db'.messages[i] = [by |-> mem.messages[i], run |-> owner]
        BY <2>1, <3>1
      <4> QED
        BY <4>1, <4>2
    <3>2. CASE ~(i > persisted_count)
      <4>1. i \in 1 .. persisted_count
        BY <3>2, <1>5, TaskLengths DEF Stores
      <4> QED
        BY <1>0, <2>1, <4>1 DEF AuthorInv
    <3> QED
      BY <3>1, <3>2
  <2> QED
    BY <1>0, <1>1, <2>1, <2>2 DEF AuthorInv
<1>6. CASE RollsBack
  <2>1. /\ db'.messages = db.messages
        /\ Len(mem'.messages) = persisted_count
        /\ \A i \in 1 .. persisted_count : mem'.messages[i] = mem.messages[i]
        /\ persisted_count <= Len(mem.messages) /\ persisted_count \in Nat
    BY <1>0, <1>6, TaskLengths, Prefix DEF RollsBack
  <2> QED
    BY <1>0, <1>1, <2>1 DEF AuthorInv
<1>7. CASE Forgets
  <2>1. Len(mem'.messages) = 0
    BY <1>7, EmptySeq DEF Forgets
  <2> QED
    BY <1>0, <1>1, <1>7, <2>1 DEF AuthorInv, Forgets
<1>8. CASE Reads
  <2>1. /\ Len(mem'.messages) = Len(db.messages)
        /\ \A i \in 1 .. Len(db.messages) : mem'.messages[i] = db.messages[i].by
    BY <1>0, <1>8, ContentsOf DEF Reads
  <2> QED
    BY <1>0, <1>1, <1>8, <2>1 DEF AuthorInv, Reads
<1> QED
  BY <1>2, <1>4, <1>5, <1>6, <1>7, <1>8, TranscriptEffects

\* The cursor divides memory's transcript where storage ends.
LEMMA CursorStep ==
    ASSUME IInv, [Next]_vars
    PROVE  CursorInv'
<1>0. /\ mem.messages \in Seq(Runs) /\ db.messages \in Seq(StoredMessages)
      /\ CursorInv /\ persisted_count \in Nat
  BY TypeParts DEF IInv, MemoryType, StoreType, Sessions
<1>1. CASE Still
  BY <1>0, <1>1 DEF Still, CursorInv
<1>2. CASE Says
  <2>1. /\ mem'.messages = Append(mem.messages, owner) /\ owner \in Runs /\ loaded
    BY <1>2, TaskLengths DEF Says
  <2>2. /\ Len(mem'.messages) = Len(mem.messages) + 1
        /\ \A i \in 1 .. Len(mem.messages) : mem'.messages[i] = mem.messages[i]
    BY <1>0, <2>1, Appended
  <2> QED
    BY <1>0, <1>2, <2>1, <2>2 DEF CursorInv, Says
<1>3. CASE Stores
  <2>1. /\ mem'.messages = mem.messages
        /\ Len(db'.messages) = Len(mem.messages)
        /\ \A i \in 1 .. persisted_count : db'.messages[i] = db.messages[i]
        /\ \A i \in 1 .. Len(mem.messages) : i > persisted_count =>
              db'.messages[i] = [by |-> mem.messages[i], run |-> owner]
        /\ persisted_count' = Len(mem.messages) /\ loaded
    BY <1>0, <1>3, TaskLengths, StoredTranscript, TypeParts DEF Stores, IInv, MemoryType
  <2>2. ASSUME NEW i \in 1 .. Len(mem.messages) PROVE db'.messages[i].by = mem.messages[i]
    <3>1. CASE i > persisted_count
      <4>1. db'.messages[i] = [by |-> mem.messages[i], run |-> owner]
        BY <2>1, <3>1
      <4> QED
        BY <4>1
    <3>2. CASE ~(i > persisted_count)
      <4>1. i \in 1 .. persisted_count
        BY <1>0, <3>2
      <4> QED
        BY <1>0, <2>1, <4>1 DEF CursorInv
    <3> QED
      BY <3>1, <3>2
  <2> QED
    BY <1>0, <2>1, <2>2 DEF CursorInv
<1>4. CASE RollsBack
  <2>1. /\ db'.messages = db.messages /\ loaded
        /\ Len(mem'.messages) = persisted_count
        /\ \A i \in 1 .. persisted_count : mem'.messages[i] = mem.messages[i]
        /\ persisted_count' = persisted_count
    BY <1>0, <1>4, TaskLengths, Prefix DEF RollsBack
  <2> QED
    BY <1>0, <2>1 DEF CursorInv
<1>5. CASE Forgets
  BY <1>5 DEF Forgets, CursorInv
<1>6. CASE Reads
  <2>1. /\ Len(mem'.messages) = Len(db.messages)
        /\ \A i \in 1 .. Len(db.messages) : mem'.messages[i] = db.messages[i].by
    BY <1>0, <1>6, ContentsOf DEF Reads
  <2> QED
    BY <1>0, <1>6, <2>1 DEF CursorInv, Reads
<1> QED
  BY <1>1, <1>2, <1>3, <1>4, <1>5, <1>6, TranscriptEffects

\* A task step that appends nothing and stores nothing.
LEMMA TaskStill ==
    ASSUME IInv, TypeOK', pc \in Task, Still, UNCHANGED <<runs, owner, snapshot, checkpoint>>,
           pc' \in {pc, "ended"}
    PROVE  TaskInv'
<1>1. /\ TaskInv /\ mem'.messages = mem.messages /\ persisted_count' = persisted_count
      /\ UNCHANGED <<runs, owner, snapshot, checkpoint>>
  BY DEF IInv, Still
<1>2. /\ pc' \notin Acceptance
      /\ pc' = "begin" => pc = "begin"
      /\ pc' \in {"running", "checkpoint", "pause"} => pc \in {"running", "checkpoint", "pause"}
  BY DEF Task, Acceptance
<1> QED
  BY <1>1, <1>2 DEF TaskInv

\* A task step that appends the owner's next message.
LEMMA TaskSays ==
    ASSUME IInv, Says, UNCHANGED <<runs, owner, snapshot, checkpoint>>, pc' \in Task \ {"begin"}
    PROVE  TaskInv'
<1>0. mem.messages \in Seq(Runs) /\ TaskInv /\ pc \in Task
  BY TypeParts DEF IInv, MemoryType, Sessions, Says
<1>1. /\ mem'.messages = Append(mem.messages, owner) /\ owner \in Runs
      /\ persisted_count' = persisted_count
      /\ Len(snapshot.messages) \in Nat /\ Len(mem.messages) \in Nat
      /\ Len(snapshot.messages) <= Len(mem.messages) /\ persisted_count \in Nat
  BY TaskLengths, <1>0 DEF Says
<1>2. /\ Len(mem'.messages) = Len(mem.messages) + 1
      /\ \A i \in 1 .. Len(mem.messages) : mem'.messages[i] = mem.messages[i]
      /\ mem'.messages[Len(mem.messages) + 1] = owner
  BY <1>0, <1>1, Appended
<1>3. \A i \in 1 .. Len(mem'.messages) : mem'.messages[i] = owner <=> i > Len(snapshot.messages)
  <2>1. ASSUME NEW i \in 1 .. Len(mem'.messages)
        PROVE  mem'.messages[i] = owner <=> i > Len(snapshot.messages)
    <3>1. CASE i = Len(mem.messages) + 1
      BY <1>1, <1>2, <3>1
    <3>2. CASE i # Len(mem.messages) + 1
      <4>1. i \in 1 .. Len(mem.messages)
        BY <1>1, <1>2, <3>2
      <4> QED
        BY <1>0, <1>2, <4>1 DEF TaskInv
    <3> QED
      BY <3>1, <3>2
  <2> QED
    BY <2>1
<1>4. Len(mem'.messages) > Len(snapshot.messages)
  BY <1>1, <1>2
<1> QED
  BY <1>0, <1>1, <1>3, <1>4 DEF TaskInv, Task, Acceptance

\* A step keeps what a run knows of its own messages.
LEMMA TaskStep ==
    ASSUME IInv, [Next]_vars
    PROVE  TaskInv'
<1>0. /\ mem \in Sessions /\ mem.messages \in Seq(Runs) /\ TaskInv /\ PhaseInv /\ OwnerInv /\ AuthorInv
      /\ owner \in Runs \union {NoRun} /\ pc \in Pcs
      /\ db \in [messages : Seq(StoredMessages), plan : Plans \union {NoPlan}, status : RowStatus]
      /\ runs \in [Runs -> Rows \union {NoRow}] /\ CursorInv
  BY TypeParts DEF IInv, MemoryType, StoreType, RunType, Sessions
<1>a. TypeOK'
  BY TypeStep
<1>1. ASSUME pc' \in {"free", "approving"} PROVE TaskInv'
  BY <1>1 DEF TaskInv, Acceptance, Task
<1>2. CASE \/ AbortAcceptance \/ DropDuringUpdate \/ RefuseDriftedCursor \/ PersistCommits
           \/ PersistFails \/ RunPanics \/ ApproveRequest \/ ApproveCommits \/ ApproveFails
           \/ ApproveDropped \/ Crash \/ Evict
  <2>1. pc' \in {"free", "approving"}
    BY <1>2 DEF AbortAcceptance, DropDuringUpdate, RefuseDriftedCursor, PersistCommits,
       PersistFails, RunPanics, ApproveRequest, ApproveCommits, ApproveFails, ApproveDropped,
       Crash, Evict, Release, runVars
  <2> QED
    BY <1>1, <2>1
<1>3. CASE Startup \/ Restore
  <2>1. pc' = pc /\ ~loaded
    BY <1>0, <1>3 DEF Startup, Restore, PhaseInv, runVars
  <2>2. pc = "free"
    BY <1>0, <2>1 DEF PhaseInv
  <2> QED
    BY <1>1, <2>1, <2>2
<1>4. CASE LateUpdate \/ UNCHANGED vars
  <2>1. UNCHANGED <<mem, persisted_count, runs, owner, pc, snapshot, checkpoint>>
    BY <1>4 DEF LateUpdate, vars, memoryVars, runVars, storeVars
  <2> QED
    BY <1>0, <2>1 DEF TaskInv
<1>5. ASSUME NEW r \in Runs, NEW m \in RunModes, Request(r, m) PROVE TaskInv'
  <2>1. /\ r \notin used /\ owner' = r /\ pc' \in Acceptance /\ UNCHANGED <<mem, runs>>
    BY <1>5 DEF Request, Acceptance, memoryVars, storeVars
  <2>2. runs[r] = NoRow /\ \A i \in 1 .. Len(mem.messages) : mem.messages[i] # r
    BY <1>0, <2>1 DEF OwnerInv, AuthorInv
  <2> QED
    BY <2>1, <2>2 DEF TaskInv, Acceptance, Task
<1>6. CASE ClearPlan \/ MarkProcessing
  <2>1. /\ mem'.messages = mem.messages /\ pc \in Acceptance /\ pc' = "accepted"
        /\ UNCHANGED <<runs, owner>>
    BY <1>0, <1>6 DEF ClearPlan, MarkProcessing, Acceptance, Sessions
  <2> QED
    BY <1>0, <2>1 DEF TaskInv, Acceptance, Task
<1>7. CASE StartTask
  <2>1. /\ pc = "accepted" /\ pc' = "begin" /\ snapshot' = mem
        /\ persisted_count = Len(mem.messages)
        /\ UNCHANGED <<mem, persisted_count, runs, owner, checkpoint>>
    BY <1>7 DEF StartTask, memoryVars, storeVars, CursorValid
  <2>2. runs[owner] = NoRow /\ \A i \in 1 .. Len(mem.messages) : mem.messages[i] # owner
    BY <1>0, <2>1 DEF TaskInv, Acceptance
  <2>3. Len(mem.messages) \in Nat
    BY <1>0
  <2> QED
    BY <2>1, <2>2, <2>3 DEF TaskInv, Acceptance, Task
<1>8. CASE \/ BeginRun
           \/ \E plan \in Plans \union {NoPlan}, asks \in BOOLEAN : ToolBatch(plan, asks)
           \/ \E kind \in Kinds : RunnerEnds(kind, 1)
  <2>1. /\ pc \in Task /\ pc' \in Task \ {"begin"}
        /\ UNCHANGED <<db, persisted_count, loaded, runs, owner, snapshot, checkpoint>>
        /\ mem'.messages = Append(mem.messages, owner)
    BY <1>0, <1>8 DEF BeginRun, ToolBatch, RunnerEnds, Task, Sessions, storeVars, runLocals
  <2> QED
    BY <2>1, TaskSays DEF Says
<1>9. CASE \/ CancelBeforePrompt \/ CheckpointFails \/ PauseForUser
           \/ \E kind \in Kinds : RunnerEnds(kind, 0)
  <2>1. /\ pc \in Task /\ pc' = "ended"
        /\ UNCHANGED <<db, persisted_count, loaded, runs, owner, snapshot, checkpoint>>
        /\ mem'.messages = mem.messages
    <3>1. CASE CancelBeforePrompt \/ CheckpointFails \/ PauseForUser
      BY <1>0, <3>1 DEF CancelBeforePrompt, CheckpointFails, PauseForUser, Task, Sessions,
         storeVars
    <3>2. ASSUME NEW kind \in Kinds, RunnerEnds(kind, 0)
          PROVE  /\ pc \in Task /\ pc' = "ended"
                 /\ UNCHANGED <<db, persisted_count, loaded, runs, owner, snapshot, checkpoint>>
                 /\ mem'.messages = mem.messages
      <4>1. mem' = [mem EXCEPT !.status = EndStatus(kind), !.messages = mem.messages]
        BY <1>0, <3>2 DEF RunnerEnds
      <4> QED
        BY <1>0, <3>2, <4>1 DEF RunnerEnds, Task, Sessions, storeVars
    <3> QED
      BY <1>9, <3>1, <3>2
  <2> QED
    BY <1>a, <2>1, TaskStill DEF Still
<1>10. CASE CheckpointCommits
  <2>1. /\ pc = "checkpoint" /\ pc \in Task /\ pc' \in {"running", "pause"}
        /\ persisted_count' = Len(mem.messages) /\ checkpoint'.messages = mem.messages
        /\ runs' = [runs EXCEPT ![owner] = CheckpointRow(owner, CheckpointStatus)]
        /\ UNCHANGED <<mem, owner, snapshot>>
    BY <1>0, <1>10 DEF CheckpointCommits, Task, Sessions
  <2>2. /\ owner \in Runs /\ Len(db.messages) = persisted_count
        /\ Len(snapshot.messages) \in Nat /\ Len(mem.messages) \in Nat
        /\ Len(mem.messages) > Len(snapshot.messages) /\ persisted_count \in Nat
    BY <1>0, <2>1, TaskLengths DEF TaskInv
  <2>3. runs'[owner] = CheckpointRow(owner, CheckpointStatus)
    BY <1>0, <2>1, <2>2
  <2>4. CASE runs[owner] = NoRow
    <3>1. /\ runs'[owner].start = Len(snapshot.messages) + 1 /\ ~runs'[owner].completed
          /\ runs'[owner].end = Len(mem.messages)
      BY <1>0, <2>1, <2>2, <2>3, <2>4 DEF CheckpointRow, TaskInv
    <3>2. runs'[owner] # NoRow
      <4>1. CheckpointStatus \in RowStatus
        BY DEF CheckpointStatus, RowStatus, Awaiting
      <4>2. CheckpointRow(owner, CheckpointStatus) \in Rows
        BY <2>2, <2>4, <4>1 DEF CheckpointRow, Rows
      <4> QED
        BY <2>3, <4>2
    <3> QED
      BY <1>0, <2>1, <2>2, <3>1, <3>2 DEF TaskInv, Task, Acceptance
  <2>5. CASE runs[owner] # NoRow
    <3>1. runs[owner] \in Rows
      BY <1>0, <2>2, <2>5
    <3>2. /\ runs'[owner].start = Len(snapshot.messages) + 1 /\ ~runs'[owner].completed
          /\ runs'[owner].end = Len(mem.messages)
      BY <1>0, <2>1, <2>2, <2>3, <2>5, <3>1 DEF CheckpointRow, TaskInv, Rows
    <3>3. runs'[owner] # NoRow
      <4>1. CheckpointStatus \in RowStatus
        BY DEF CheckpointStatus, RowStatus, Awaiting
      <4>2. CheckpointRow(owner, CheckpointStatus) \in Rows
        BY <2>2, <2>5, <3>1, <4>1 DEF CheckpointRow, Rows
      <4> QED
        BY <2>3, <4>2
    <3> QED
      BY <1>0, <2>1, <2>2, <3>2, <3>3 DEF TaskInv, Task, Acceptance
  <2> QED
    BY <2>4, <2>5
<1> QED
  <2>1. \A kind \in Kinds, answer \in 0 .. 1 :
           RunnerEnds(kind, answer) => RunnerEnds(kind, 0) \/ RunnerEnds(kind, 1)
    <3>1. \A answer \in 0 .. 1 : answer = 0 \/ answer = 1
      OBVIOUS
    <3> QED
      BY <3>1
  <2> QED
    BY <2>1, <1>2, <1>3, <1>4, <1>5, <1>6, <1>7, <1>8, <1>9, <1>10 DEF Next

\* Runs but the one that stores keep their ranges.
LEMMA OthersRange ==
    ASSUME IInv, [Next]_vars, Stores, NEW r \in Runs \ {owner}, runs'[r] = runs[r]
    PROVE  RangeOf(r)'
<1>0. /\ mem \in Sessions /\ mem.messages \in Seq(Runs) /\ db.messages \in Seq(StoredMessages)
      /\ RangeOf(r) /\ TaskInv /\ runs \in [Runs -> Rows \union {NoRow}]
  BY TypeParts DEF IInv, MemoryType, StoreType, Sessions, RangeInv
<1>1. /\ persisted_count = Len(db.messages) /\ persisted_count <= Len(mem.messages)
      /\ persisted_count \in Nat /\ Len(mem.messages) \in Nat /\ pc \in Task /\ owner \in Runs
      /\ Len(snapshot.messages) <= persisted_count /\ Len(snapshot.messages) \in Nat
  BY TaskLengths DEF Stores
<1>2. /\ Len(db'.messages) = Len(mem.messages)
      /\ \A i \in 1 .. persisted_count : db'.messages[i] = db.messages[i]
      /\ \A i \in 1 .. Len(mem.messages) : i > persisted_count =>
            db'.messages[i] = [by |-> mem.messages[i], run |-> owner]
  <2>1. Len(db.messages) = persisted_count /\ db'.messages = db.messages \o NewRows(owner)
    BY <1>1 DEF Stores
  <2> DEFINE all == db.messages \o NewRows(owner)
  <2>2. /\ Len(all) = Len(mem.messages)
        /\ \A i \in 1 .. persisted_count : all[i] = db.messages[i]
        /\ \A i \in 1 .. Len(mem.messages) : i > persisted_count =>
              all[i] = [by |-> mem.messages[i], run |-> owner]
    BY <1>0, <1>1, <2>1, StoredTranscript
  <2> HIDE DEF all
  <2>3. db'.messages = all
    BY <2>1 DEF all
  <2> QED
    BY <2>2, <2>3
<1>3. ASSUME NEW i \in 1 .. Len(mem.messages), i > persisted_count
      PROVE  db'.messages[i].by # r
  <2>1. mem.messages[i] = owner
    BY <1>0, <1>1, <1>3 DEF TaskInv
  <2>2. db'.messages[i] = [by |-> mem.messages[i], run |-> owner]
    BY <1>2, <1>3
  <2> QED
    BY <2>1, <2>2
<1>4. Ranged(r)' <=> Ranged(r)
  BY DEF Ranged
<1>5. Ranged(r) => runs[r].end \in Nat
  BY <1>0 DEF Ranged, Rows
<1>6. Ranged(r)' => runs'[r].end <= Len(db'.messages)
  BY <1>0, <1>2, <1>1, <1>4, <1>5 DEF RangeOf
<1>7. ASSUME NEW i \in 1 .. Len(mem.messages)
      PROVE  db'.messages[i].by = r <=> Ranged(r) /\ runs[r].start <= i /\ i <= runs[r].end
  <2>1. CASE i > persisted_count
    BY <1>0, <1>1, <1>3, <1>5, <1>7, <2>1 DEF RangeOf
  <2>2. CASE ~(i > persisted_count)
    <3>1. i \in 1 .. Len(db.messages)
      BY <1>1, <2>2
    <3> QED
      BY <1>0, <1>2, <1>1, <3>1 DEF RangeOf
  <2> QED
    BY <2>1, <2>2
<1> QED
  BY <1>2, <1>4, <1>6, <1>7 DEF RangeOf

\* The run that stores owns what follows its snapshot, once all of it is stored.
LEMMA OwnRange ==
    ASSUME IInv, [Next]_vars, Stores, NEW r \in Runs, r = owner, runs'[r] # NoRow,
           IF Len(mem.messages) > Len(snapshot.messages)
           THEN /\ runs'[r].start = Len(snapshot.messages) + 1
                /\ runs'[r].end = Len(mem.messages)
           ELSE runs'[r].start = 0
    PROVE  RangeOf(r)'
<1>0. TaskInv /\ CursorInv' /\ pc \in Task
  BY CursorStep DEF IInv, Stores
<1>1. /\ persisted_count' = Len(mem.messages) /\ mem'.messages = mem.messages /\ loaded'
      /\ Len(snapshot.messages) \in Nat /\ Len(mem.messages) \in Nat
      /\ Len(snapshot.messages) <= Len(mem.messages)
  BY <1>0, TaskLengths DEF Stores
<1>2. /\ Len(db'.messages) = Len(mem.messages)
      /\ \A i \in 1 .. Len(mem.messages) : db'.messages[i].by = mem.messages[i]
  BY <1>0, <1>1 DEF CursorInv
<1>3. \A i \in 1 .. Len(mem.messages) : mem.messages[i] = r <=> i > Len(snapshot.messages)
  BY <1>0 DEF TaskInv
<1>4. CASE Len(mem.messages) > Len(snapshot.messages)
  <2>1. /\ Ranged(r)' /\ runs'[r].end = Len(mem.messages)
        /\ runs'[r].start = Len(snapshot.messages) + 1
    BY <1>1, <1>4 DEF Ranged
  <2> QED
    BY <1>1, <1>2, <1>3, <2>1 DEF RangeOf
<1>5. CASE ~(Len(mem.messages) > Len(snapshot.messages))
  <2>1. ~Ranged(r)'
    BY <1>5 DEF Ranged
  <2> QED
    BY <1>1, <1>2, <1>3, <1>5, <2>1 DEF RangeOf
<1> QED
  BY <1>4, <1>5

\* The row persist_run stores reaches from the snapshot to the end of memory, or is empty.
PersistedStart ==
    IF CheckpointStart # 0 THEN CheckpointStart
    ELSE IF Len(mem.messages) - persisted_count > 0 THEN Len(db.messages) + 1 ELSE 0
PersistedEnd ==
    IF Len(mem.messages) - persisted_count > 0
    THEN Len(db.messages) + (Len(mem.messages) - persisted_count)
    ELSE IF CheckpointStart # 0 THEN Len(db.messages) ELSE 0

\* Either way the row covers all messages of the run.
LEMMA PersistedRange ==
    ASSUME Len(snapshot.messages) \in Nat, Len(mem.messages) \in Nat,
           persisted_count \in Nat, persisted_count = Len(db.messages),
           Len(snapshot.messages) <= persisted_count, persisted_count <= Len(mem.messages)
    PROVE  /\ PersistedStart \in Nat /\ PersistedEnd \in Nat
           /\ IF Len(mem.messages) > Len(snapshot.messages)
              THEN PersistedStart = Len(snapshot.messages) + 1 /\ PersistedEnd = Len(mem.messages)
              ELSE PersistedStart = 0
<1> DEFINE n == Len(mem.messages)
           k == persisted_count
           b == Len(snapshot.messages)
<1> HIDE DEF n, k, b
<1>1. n \in Nat /\ k \in Nat /\ b \in Nat /\ b <= k /\ k <= n
  BY DEF n, k, b
<1>2. CheckpointStart = IF k > b THEN b + 1 ELSE 0
  BY DEF CheckpointStart, k, b
<1>3. /\ PersistedStart = IF CheckpointStart # 0 THEN CheckpointStart ELSE IF n - k > 0 THEN k + 1 ELSE 0
      /\ PersistedEnd = IF n - k > 0 THEN k + (n - k) ELSE IF CheckpointStart # 0 THEN k ELSE 0
  BY DEF PersistedStart, PersistedEnd, n, k
<1>4. CASE k > b
  <2>1. CheckpointStart = b + 1 /\ b + 1 # 0
    BY <1>1, <1>2, <1>4
  <2>2. PersistedStart = b + 1 /\ PersistedEnd = n
    BY <1>1, <1>3, <2>1
  <2>3. n > b
    BY <1>1, <1>4
  <2> QED
    BY <1>1, <2>2, <2>3 DEF n, k, b
<1>5. CASE k = b
  <2>1. CheckpointStart = 0
    BY <1>1, <1>2, <1>5
  <2>2. PersistedStart = (IF n > b THEN b + 1 ELSE 0) /\ PersistedEnd = IF n > b THEN n ELSE 0
    BY <1>1, <1>3, <1>5, <2>1
  <2> QED
    BY <1>1, <2>2 DEF n, k, b
<1> QED
  BY <1>1, <1>4, <1>5

\* The ranges of session_runs partition the stored transcript.
LEMMA RangeStep ==
    ASSUME IInv, [Next]_vars
    PROVE  RangeInv'
<1>0. /\ db.messages \in Seq(StoredMessages) /\ RangeInv /\ TaskInv
      /\ runs \in [Runs -> Rows \union {NoRow}]
      /\ runs' \in [Runs -> Rows \union {NoRow}]
  BY TypeParts, StoreTypeStep DEF IInv, StoreType
<1>1. ASSUME db'.messages = db.messages, NEW r \in Runs, Ranged(r)' <=> Ranged(r),
             Ranged(r) => runs'[r].start = runs[r].start /\ runs'[r].end = runs[r].end
      PROVE  RangeOf(r)'
  BY <1>0, <1>1 DEF RangeInv, RangeOf
<1>2. CASE CheckpointCommits \/ PersistCommits
  <2>1. /\ Stores /\ owner \in Runs /\ pc \in Task
        /\ Len(snapshot.messages) \in Nat /\ Len(mem.messages) \in Nat
        /\ persisted_count \in Nat /\ persisted_count = Len(db.messages)
        /\ Len(snapshot.messages) <= persisted_count /\ persisted_count <= Len(mem.messages)
    <3>1. Stores /\ pc \in Task
      BY <1>2 DEF CheckpointCommits, PersistCommits, Stores, Task
    <3> QED
      BY <3>1, TaskLengths
  <2>2. ASSUME NEW r \in Runs \ {owner} PROVE RangeOf(r)'
    <3>1. runs'[r] = runs[r]
      BY <1>0, <1>2 DEF CheckpointCommits, PersistCommits
    <3> QED
      BY <2>1, <3>1, OthersRange
  <2>3. CASE CheckpointCommits
    <3>1. pc = "checkpoint" /\ runs' = [runs EXCEPT ![owner] = CheckpointRow(owner, CheckpointStatus)]
      BY <2>3 DEF CheckpointCommits
    <3>2. runs'[owner] = CheckpointRow(owner, CheckpointStatus)
      BY <1>0, <2>1, <3>1
    <3>3. Len(mem.messages) > Len(snapshot.messages)
      BY <1>0, <3>1 DEF TaskInv, Task
    <3>4. runs[owner] # NoRow => runs[owner] \in Rows /\ runs[owner].start = Len(snapshot.messages) + 1
      BY <1>0, <2>1 DEF TaskInv
    <3>5. runs[owner] = NoRow => persisted_count = Len(snapshot.messages)
      BY <1>0, <2>1 DEF TaskInv
    <3>6. /\ runs'[owner].start = Len(snapshot.messages) + 1
          /\ runs'[owner].end = Len(mem.messages)
      BY <2>1, <3>2, <3>4, <3>5 DEF CheckpointRow, Rows
    <3>7. runs'[owner] # NoRow
      <4>1. CheckpointStatus \in RowStatus
        BY DEF CheckpointStatus, RowStatus, Awaiting
      <4>2. CheckpointRow(owner, CheckpointStatus) \in Rows
        <5>1. CASE runs[owner] = NoRow
          BY <2>1, <4>1, <5>1 DEF CheckpointRow, Rows
        <5>2. CASE runs[owner] # NoRow
          BY <2>1, <3>4, <4>1, <5>2 DEF CheckpointRow, Rows
        <5> QED
          BY <5>1, <5>2
      <4> QED
        BY <3>2, <4>2
    <3>8. \A r \in Runs : r = owner => RangeOf(r)'
      BY <2>1, <3>3, <3>6, <3>7, OwnRange
    <3> QED
      BY <2>2, <3>8 DEF RangeInv
  <2>4. CASE PersistCommits
    <3>1. runs' = [runs EXCEPT ![owner] = PersistedRow(owner)]
      BY <2>4 DEF PersistCommits
    <3>2. runs'[owner] = PersistedRow(owner)
      BY <1>0, <2>1, <3>1
    <3>3. IF Len(mem.messages) > Len(snapshot.messages)
          THEN /\ runs'[owner].start = Len(snapshot.messages) + 1
               /\ runs'[owner].end = Len(mem.messages)
          ELSE runs'[owner].start = 0
      <4>1. PersistedRow(owner).start = PersistedStart /\ PersistedRow(owner).end = PersistedEnd
        BY DEF PersistedRow, PersistedStart, PersistedEnd
      <4> QED
        BY <2>1, <3>2, <4>1, PersistedRange
    <3>4. runs'[owner] # NoRow
      <4>1. PersistedRow(owner).status \in RowStatus
        <5>1. mem.status \in FrameStatus /\ outcome \in Kinds /\ FrameStatus \subseteq RowStatus
          BY TypeParts DEF IInv, MemoryType, RunType, Sessions, FrameStatus, RowStatus
        <5> QED
          BY <5>1 DEF PersistedRow, PersistedStatus, EndStatus, Kinds, RowStatus
      <4>2. PersistedRow(owner) \in Rows
        <5>1. PersistedStart \in Nat /\ PersistedEnd \in Nat
          BY <2>1, PersistedRange
        <5> QED
          BY <4>1, <5>1 DEF PersistedRow, PersistedStart, PersistedEnd, Rows
      <4> QED
        BY <3>2, <4>2
    <3>5. \A r \in Runs : r = owner => RangeOf(r)'
      BY <2>1, <3>3, <3>4, OwnRange
    <3> QED
      BY <2>2, <3>5 DEF RangeInv
  <2> QED
    BY <1>2, <2>3, <2>4
<1>3. CASE Startup
  <2>1. db'.messages = db.messages
    BY <1>0, <1>3, TypeParts DEF Startup, IInv, StoreType
  <2>2. ASSUME NEW r \in Runs
        PROVE  /\ Ranged(r)' <=> Ranged(r)
               /\ Ranged(r) => runs'[r].start = runs[r].start /\ runs'[r].end = runs[r].end
    <3>1. runs'[r] = SettledRow(runs[r])
      BY <1>3 DEF Startup
    <3>2. runs[r] # NoRow => runs[r] \in Rows /\ runs'[r] \in Rows \union {NoRow}
      BY <1>0
    <3>3. CASE runs[r] = NoRow
      BY <3>1, <3>3 DEF SettledRow, Ranged
    <3>4. CASE runs[r] # NoRow
      <4>1. SettledRow(runs[r]) \in Rows
        BY <3>2, <3>4 DEF SettledRow, Rows, RowStatus
      <4>2. SettledRow(runs[r]).start = runs[r].start /\ SettledRow(runs[r]).end = runs[r].end
        BY <3>2, <3>4 DEF SettledRow, Rows
      <4> QED
        BY <3>1, <3>4, <4>1, <4>2 DEF Ranged
    <3> QED
      BY <3>3, <3>4
  <2> QED
    BY <1>1, <2>1, <2>2 DEF RangeInv
<1>4. ASSUME ~CheckpointCommits, ~PersistCommits, ~Startup
      PROVE  UNCHANGED runs /\ db'.messages = db.messages
  <2>1. db \in [messages : Seq(StoredMessages), plan : Plans \union {NoPlan}, status : RowStatus]
        /\ late \subseteq [op : {"clear", "mark", "approve"}, plan : Plans \union {NoPlan}]
    BY TypeParts DEF IInv, StoreType
  <2>2. CASE \/ \E r \in Runs, m \in RunModes : pc = "free" /\ Request(r, m)
             \/ AbortAcceptance \/ StartTask \/ RefuseDriftedCursor \/ BeginRun
             \/ CancelBeforePrompt \/ CheckpointFails \/ PauseForUser \/ PersistFails
             \/ RunPanics \/ ApproveRequest \/ ApproveFails \/ Restore \/ Evict \/ Crash
             \/ DropDuringUpdate \/ ApproveDropped
             \/ \E kind \in Kinds, answer \in 0 .. 1 : RunnerEnds(kind, answer)
             \/ \E plan \in Plans \union {NoPlan}, asks \in BOOLEAN : ToolBatch(plan, asks)
             \/ UNCHANGED vars
    <3>1. UNCHANGED <<db, runs>>
      BY <2>2 DEF Request, AbortAcceptance, StartTask, RefuseDriftedCursor, BeginRun,
         CancelBeforePrompt, CheckpointFails, PauseForUser, PersistFails, RunPanics,
         ApproveRequest, ApproveFails, Restore, Evict, Crash, DropDuringUpdate, ApproveDropped,
         RunnerEnds, ToolBatch, vars, storeVars
    <3> QED
      BY <3>1
  <2>3. CASE ClearPlan \/ MarkProcessing \/ ApproveCommits
    BY <2>1, <2>3 DEF ClearPlan, MarkProcessing, ApproveCommits
  <2>4. CASE LateUpdate
    BY <2>1, <2>4 DEF LateUpdate
  <2> QED
    BY <1>4, <2>2, <2>3, <2>4 DEF Next
<1>5. CASE ~CheckpointCommits /\ ~PersistCommits /\ ~Startup
  BY <1>1, <1>4, <1>5 DEF RangeInv, Ranged
<1> QED
  BY <1>2, <1>3, <1>5

\* What is open belongs to the run in progress, or to one that could not settle it.
LEMMA OpenStep ==
    ASSUME IInv, [Next]_vars
    PROVE  OpenInv'
<1>0. /\ runs \in [Runs -> Rows \union {NoRow}] /\ OpenInv /\ TaskInv /\ PhaseInv
      /\ owner \in Runs \union {NoRun} /\ pc \in Pcs
  BY TypeParts DEF IInv, RunType, StoreType
<1>1. ASSUME runs' = runs, up' = up \/ ~up', unsettled \subseteq unsettled',
             owner' = owner \/ (owner \in Runs => ~Open(owner) \/ owner \in unsettled' \/ ~up')
      PROVE  OpenInv'
  BY <1>0, <1>1 DEF OpenInv, Open
<1>2. CASE \/ ClearPlan \/ MarkProcessing \/ LateUpdate \/ StartTask \/ BeginRun
           \/ CancelBeforePrompt \/ CheckpointFails \/ PauseForUser \/ ApproveRequest \/ Restore
           \/ Evict \/ UNCHANGED vars
           \/ \E kind \in Kinds, answer \in 0 .. 1 : RunnerEnds(kind, answer)
           \/ \E plan \in Plans \union {NoPlan}, asks \in BOOLEAN : ToolBatch(plan, asks)
  <2>1. UNCHANGED <<runs, up, unsettled, owner>>
    BY <1>2 DEF ClearPlan, MarkProcessing, LateUpdate, StartTask, BeginRun, CancelBeforePrompt,
       CheckpointFails, PauseForUser, ApproveRequest, Restore, Evict, RunnerEnds, ToolBatch, vars,
       memoryVars, runVars, storeVars, historyVars
  <2> QED
    BY <1>1, <2>1
<1>3. ASSUME NEW r \in Runs, NEW m \in RunModes, Request(r, m), pc = "free" PROVE OpenInv'
  <2>1. UNCHANGED <<runs, up, unsettled>> /\ owner = NoRun
    BY <1>3 DEF Request, memoryVars, storeVars
  <2> QED
    BY <1>1, <2>1
<1>4. CASE \/ AbortAcceptance \/ DropDuringUpdate \/ RefuseDriftedCursor \/ ApproveCommits
           \/ ApproveFails \/ ApproveDropped
  <2>1. /\ UNCHANGED <<runs, up, unsettled>>
        /\ pc \in Acceptance \/ pc = "approving"
    BY <1>4 DEF AbortAcceptance, DropDuringUpdate, RefuseDriftedCursor, ApproveCommits,
       ApproveFails, ApproveDropped, Acceptance, memoryVars, storeVars, historyVars
  <2>2. pc \in Acceptance => runs[owner] = NoRow
    BY <1>0 DEF TaskInv
  <2>3. pc = "approving" => owner = NoRun
    BY <1>0 DEF PhaseInv
  <2> QED
    BY <1>1, <2>1, <2>2, <2>3 DEF Open
<1>5. CASE PersistFails \/ RunPanics
  <2>1. UNCHANGED <<runs, up>> /\ unsettled' = unsettled \union {owner}
    BY <1>5 DEF PersistFails, RunPanics, memoryVars, storeVars
  <2> QED
    BY <1>1, <2>1
<1>6. CASE Crash
  BY <1>1, <1>6 DEF Crash
<1>7. CASE CheckpointCommits
  <2>1. /\ pc \in Task /\ UNCHANGED <<up, unsettled, owner>>
        /\ runs' = [runs EXCEPT ![owner] = CheckpointRow(owner, CheckpointStatus)]
    BY <1>7 DEF CheckpointCommits, Task
  <2>2. owner \in Runs
    BY <2>1, TaskLengths
  <2>3. runs'[owner] = CheckpointRow(owner, CheckpointStatus)
    BY <1>0, <2>1, <2>2
  <2>4. runs[owner] # NoRow => runs[owner] \in Rows
    BY <1>0, <2>2
  <2>5. CheckpointRow(owner, CheckpointStatus).status = CheckpointStatus
    BY <2>4 DEF CheckpointRow, Rows
  <2>6. CheckpointStatus \in Awaiting \union {"processing"}
    BY DEF CheckpointStatus, Awaiting
  <2>7. \A r \in Runs \ {owner} : runs'[r] = runs[r]
    BY <1>0, <2>1
  <2>8. ASSUME NEW r \in Runs, Open(r)'
        PROVE  /\ up' => r = owner' \/ r \in unsettled'
               /\ runs'[r].status \in Awaiting \union {"processing"}
    <3>1. CASE r = owner
      BY <2>1, <2>3, <2>5, <2>6, <3>1
    <3>2. CASE r # owner
      BY <1>0, <2>1, <2>7, <2>8, <3>2 DEF OpenInv, Open
    <3> QED
      BY <3>1, <3>2
  <2> QED
    BY <2>8 DEF OpenInv
<1>8. CASE PersistCommits
  <2>1. /\ pc \in Task /\ UNCHANGED <<up, unsettled>>
        /\ runs' = [runs EXCEPT ![owner] = PersistedRow(owner)]
    BY <1>8 DEF PersistCommits, Task
  <2>2. owner \in Runs
    BY <2>1, TaskLengths
  <2>3. runs'[owner].completed
    BY <1>0, <2>1, <2>2 DEF PersistedRow
  <2>4. \A r \in Runs \ {owner} : runs'[r] = runs[r]
    BY <1>0, <2>1
  <2> QED
    BY <1>0, <2>1, <2>3, <2>4 DEF OpenInv, Open
<1>9. CASE Startup
  <2>1. ASSUME NEW r \in Runs PROVE ~Open(r)'
    <3>1. runs'[r] = SettledRow(runs[r])
      BY <1>9 DEF Startup
    <3>2. runs[r] # NoRow => runs[r] \in Rows
      BY <1>0
    <3>3. CASE Open(r)
      <4>1. runs[r].status \in Awaiting \union {"processing"} /\ runs[r] \in Rows
        BY <1>0, <3>2, <3>3 DEF OpenInv, Open
      <4>2. SettledRow(runs[r]).completed
        BY <3>3, <4>1 DEF SettledRow, Open, Rows
      <4> QED
        BY <3>1, <4>2 DEF Open
    <3>4. CASE ~Open(r)
      BY <3>1, <3>4 DEF SettledRow, Open
    <3> QED
      BY <3>3, <3>4
  <2> QED
    BY <2>1 DEF OpenInv
<1> QED
  BY <1>2, <1>3, <1>4, <1>5, <1>6, <1>7, <1>8, <1>9 DEF Next

\* The frame's status while a run is in progress.
LEMMA StatusStep ==
    ASSUME IInv, [Next]_vars
    PROVE  StatusInv'
<1>0. mem \in Sessions /\ StatusInv /\ PhaseInv /\ pc \in Pcs
  BY TypeParts DEF IInv, MemoryType, RunType
<1>1. ASSUME pc' \notin {"running", "checkpoint", "pause", "ended"} PROVE StatusInv'
  BY <1>1 DEF StatusInv
<1>2. CASE \/ AbortAcceptance \/ DropDuringUpdate \/ RefuseDriftedCursor \/ PersistCommits
           \/ PersistFails \/ RunPanics \/ ApproveRequest \/ ApproveCommits \/ ApproveFails
           \/ ApproveDropped \/ Crash \/ Evict \/ ClearPlan \/ MarkProcessing \/ StartTask
           \/ \E r \in Runs, m \in RunModes : Request(r, m)
  <2>1. pc' \notin {"running", "checkpoint", "pause", "ended"}
    BY <1>2 DEF AbortAcceptance, DropDuringUpdate, RefuseDriftedCursor, PersistCommits,
       PersistFails, RunPanics, ApproveRequest, ApproveCommits, ApproveFails, ApproveDropped,
       Crash, Evict, Release, runVars, ClearPlan, MarkProcessing, StartTask, Request
  <2> QED
    BY <1>1, <2>1
<1>3. CASE Startup \/ Restore
  <2>1. pc' = pc /\ ~loaded
    BY <1>0, <1>3 DEF Startup, Restore, PhaseInv, runVars
  <2>2. pc = "free"
    BY <1>0, <2>1 DEF PhaseInv
  <2> QED
    BY <1>1, <2>1, <2>2
<1>4. CASE LateUpdate \/ UNCHANGED vars
  <2>1. UNCHANGED <<mem, pc, mode, ask, outcome>>
    BY <1>4 DEF LateUpdate, vars, memoryVars, runVars
  <2> QED
    BY <1>0, <2>1 DEF StatusInv, CheckpointStatus, PlanAwaitsApproval, EndStatus
<1>5. CASE BeginRun
  BY <1>0, <1>5 DEF BeginRun, StatusInv, Sessions
<1>6. CASE CancelBeforePrompt \/ CheckpointFails
  <2>1. pc' = "ended" /\ mem'.status = EndStatus(outcome')
    BY <1>0, <1>6 DEF CancelBeforePrompt, CheckpointFails, Sessions, EndStatus
  <2> QED
    BY <2>1 DEF StatusInv, EndStatus
<1>7. ASSUME NEW plan \in Plans \union {NoPlan}, NEW asks \in BOOLEAN, ToolBatch(plan, asks)
      PROVE  StatusInv'
  <2>1. pc = "running" /\ pc' = "checkpoint" /\ mem'.status = mem.status
    BY <1>0, <1>7 DEF ToolBatch, Sessions
  <2> QED
    BY <1>0, <2>1 DEF StatusInv
<1>8. ASSUME NEW kind \in Kinds, NEW answer \in 0 .. 1, RunnerEnds(kind, answer)
      PROVE  StatusInv'
  <2>1. pc' = "ended" /\ outcome' = kind /\ mem'.status = EndStatus(kind)
    BY <1>0, <1>8 DEF RunnerEnds, Sessions
  <2> QED
    BY <2>1 DEF StatusInv, EndStatus
<1>9. CASE CheckpointCommits
  <2>1. /\ pc = "checkpoint" /\ UNCHANGED <<mem, mode, ask>>
        /\ pc' = IF CheckpointStatus = "processing" THEN "running" ELSE "pause"
    BY <1>9 DEF CheckpointCommits
  <2>2. CheckpointStatus' = CheckpointStatus
    BY <2>1 DEF CheckpointStatus, PlanAwaitsApproval
  <2> QED
    BY <1>0, <2>1, <2>2 DEF StatusInv
<1>10. CASE PauseForUser
  BY <1>10 DEF PauseForUser, StatusInv
<1> QED
  BY <1>2, <1>3, <1>4, <1>5, <1>6, <1>7, <1>8, <1>9, <1>10 DEF Next

-----------------------------------------------------------------------------
(* Plans *)

\* The row of a session with its messages.
StoredSessions == [messages : Seq(StoredMessages), plan : Plans \union {NoPlan}, status : RowStatus]

\* A step in which neither copy of the session changes, nor what was promised about it.
LEMMA PlanStill ==
    ASSUME PlanFacts, UNCHANGED <<mem, db, persisted_count, loaded, approved, stale>>,
           pc' \notin Task \union {"mark"},
           pc' = "accepted" /\ mode' # "execute" => mem.plan = NoPlan,
           snapshot' \in {snapshot, EmptySession}
    PROVE  PlanFacts'
<1>1. SyncInv' /\ AskedInv' /\ FreshInv'
  BY DEF PlanFacts, SyncInv, AskedInv, FreshInv
<1>2. PausedInv' /\ BackInv'
  BY DEF PausedInv, BackInv, Task
<1>3. snapshot'.plan \in {snapshot.plan, NoPlan}
  BY DEF EmptySession
<1> QED
  BY <1>1, <1>2, <1>3 DEF PlanFacts

\* The acceptance of a run.
LEMMA AcceptancePlans ==
    ASSUME IInv, TypeOK', PlanFacts,
           \/ ClearPlan \/ MarkProcessing \/ StartTask
           \/ \E r \in Runs, m \in RunModes : Request(r, m)
    PROVE  PlanFacts'
<1>0. mem \in Sessions /\ db \in StoredSessions /\ PhaseInv /\ CursorInv
  BY TypeParts DEF IInv, MemoryType, StoreType, StoredSessions
<1>1. ASSUME NEW r \in Runs, NEW m \in RunModes, Request(r, m) PROVE PlanFacts'
  <2>1. /\ UNCHANGED <<mem, db, persisted_count, loaded, approved, stale, snapshot>>
        /\ pc' \in {"clear", "mark", "accepted"} /\ mode' = m
        /\ pc' = "mark" => m = "execute"
        /\ pc' = "accepted" /\ m # "execute" => mem.plan = NoPlan
    BY <1>1 DEF Request, MustClear, memoryVars, storeVars
  <2> QED
    BY <2>1 DEF PlanFacts, SyncInv, AskedInv, FreshInv, PausedInv, BackInv, Task
<1>2. CASE ClearPlan
  <2>1. /\ mem'.plan = NoPlan /\ db'.plan = NoPlan /\ approved' = NoPlan /\ pc' = "accepted"
        /\ mem'.status = mem.status /\ db'.status = db.status
        /\ UNCHANGED <<persisted_count, loaded, stale, snapshot, mode>>
    BY <1>0, <1>2 DEF ClearPlan, Sessions, StoredSessions, runLocals
  <2> QED
    BY <2>1 DEF PlanFacts, SyncInv, AskedInv, FreshInv, PausedInv, BackInv, Task
<1>3. CASE MarkProcessing
  <2>1. /\ mem'.plan = mem.plan /\ db'.plan = db.plan /\ mem'.messages = mem.messages
        /\ mem'.status = SetStatus(mem.status, "processing")
        /\ pc = "mark" /\ pc' = "accepted"
        /\ UNCHANGED <<persisted_count, loaded, stale, snapshot, mode, approved>>
    BY <1>0, <1>3 DEF MarkProcessing, Sessions, StoredSessions, runLocals, historyVars
  <2>2. mem'.status \notin Asked
    BY <2>1 DEF SetStatus, IsTerminal, Asked
  <2> QED
    BY <2>1, <2>2 DEF PlanFacts, SyncInv, AskedInv, FreshInv, PausedInv, BackInv, Task
<1>4. CASE StartTask
  <2>1. /\ UNCHANGED <<mem, db, persisted_count, loaded, mode>>
        /\ pc = "accepted" /\ pc' = "begin" /\ snapshot' = mem
        /\ persisted_count = Len(mem.messages) /\ loaded
        /\ approved' = IF mode = "execute" THEN approved ELSE NoPlan
        /\ stale' = IF mode = "execute" THEN stale ELSE stale \union (used \ {owner})
    BY <1>0, <1>4 DEF StartTask, memoryVars, storeVars, CursorValid, PhaseInv
  <2>2. mem.plan = db.plan /\ (mode # "execute" => mem.plan = NoPlan)
    BY <2>1 DEF PlanFacts, SyncInv, FreshInv
  <2>3. SyncInv' /\ AskedInv' /\ FreshInv' /\ PausedInv' /\ BackInv'
    BY <2>1, <2>2 DEF PlanFacts, SyncInv, AskedInv, FreshInv, PausedInv, BackInv
  <2>4. approved' # NoPlan => db'.plan = approved'
    BY <2>1 DEF PlanFacts
  <2>5. \A plan \in {mem'.plan, db'.plan, snapshot'.plan} : plan # NoPlan => plan.by \notin stale'
    BY <2>1, <2>2 DEF PlanFacts
  <2> QED
    BY <2>3, <2>4, <2>5 DEF PlanFacts
<1> QED
  BY <1>1, <1>2, <1>3, <1>4

\* The run until it ends: what it commits is at first in memory only, and drifts.
LEMMA RunningPlans ==
    ASSUME IInv, TypeOK', PlanFacts,
           \/ BeginRun \/ CancelBeforePrompt \/ CheckpointFails \/ PauseForUser
           \/ \E kind \in Kinds, answer \in 0 .. 1 : RunnerEnds(kind, answer)
           \/ \E plan \in Plans \union {NoPlan}, asks \in BOOLEAN : ToolBatch(plan, asks)
    PROVE  PlanFacts'
<1>0. /\ mem \in Sessions /\ mem.messages \in Seq(Runs) /\ StatusInv /\ OwnerInv /\ PhaseInv
      /\ pc \in Task /\ owner # NoRun
  <2>1. mem \in Sessions /\ StatusInv /\ OwnerInv /\ PhaseInv
    BY TypeParts DEF IInv, MemoryType
  <2>2. pc \in Task
    BY DEF BeginRun, CancelBeforePrompt, CheckpointFails, PauseForUser, RunnerEnds, ToolBatch,
       Task
  <2> QED
    BY <2>1, <2>2 DEF Sessions, PhaseInv, Task
<1>1. /\ owner \in Runs /\ persisted_count \in Nat /\ Len(mem.messages) \in Nat
      /\ persisted_count <= Len(mem.messages) /\ Len(snapshot.messages) \in Nat
  BY <1>0, TaskLengths
<1>2. /\ UNCHANGED <<db, persisted_count, loaded, approved, stale, snapshot, checkpoint, mode>>
      /\ pc' \in Task
  BY DEF BeginRun, CancelBeforePrompt, CheckpointFails, PauseForUser, RunnerEnds, ToolBatch,
     Task, storeVars, historyVars, runLocals
<1>3. BackInv'
  BY <1>0, <1>2 DEF PlanFacts, BackInv
<1>4. ASSUME \/ mem'.messages = mem.messages /\ mem'.plan = mem.plan
             \/ mem'.messages = Append(mem.messages, owner),
             \/ mem'.status \notin Asked
             \/ db.status = mem'.status /\ db.plan = mem'.plan,
             pc' \notin {"mark", "accepted", "pause"},
             mem'.plan # NoPlan => mem'.plan.by \notin stale
      PROVE  PlanFacts'
  <2>1. SyncInv'
    <3>1. CASE mem'.messages = mem.messages /\ mem'.plan = mem.plan
      BY <1>2, <3>1 DEF PlanFacts, SyncInv
    <3>2. CASE mem'.messages = Append(mem.messages, owner)
      <4>1. Len(mem'.messages) = Len(mem.messages) + 1
        BY <1>0, <1>1, <3>2, Appended
      <4> QED
        BY <1>1, <1>2, <4>1 DEF SyncInv
    <3> QED
      BY <1>4, <3>1, <3>2
  <2>2. AskedInv' /\ FreshInv' /\ PausedInv'
    BY <1>2, <1>4 DEF AskedInv, FreshInv, PausedInv
  <2> QED
    BY <1>2, <1>3, <1>4, <2>1, <2>2 DEF PlanFacts
<1>5. CASE BeginRun
  <2>1. /\ mem'.messages = Append(mem.messages, owner) /\ mem'.status = "processing"
        /\ mem'.plan = mem.plan /\ pc' = "running"
    BY <1>0, <1>5 DEF BeginRun, Sessions
  <2> QED
    BY <1>4, <2>1 DEF Asked, PlanFacts
<1>6. CASE CancelBeforePrompt \/ CheckpointFails
  <2>1. /\ mem'.messages = mem.messages /\ mem'.status \in {"cancelled", "failed"}
        /\ mem'.plan = mem.plan /\ pc' = "ended"
    BY <1>0, <1>6 DEF CancelBeforePrompt, CheckpointFails, Sessions
  <2> QED
    BY <1>4, <2>1 DEF Asked, PlanFacts
<1>7. CASE PauseForUser
  <2>1. /\ mem'.messages = mem.messages /\ mem'.plan = mem.plan /\ pc = "pause" /\ pc' = "ended"
        /\ mem'.status = SetStatus(mem.status, CheckpointStatus)
    BY <1>0, <1>7 DEF PauseForUser, Sessions
  <2>2. mem.status = "processing" /\ db.status = CheckpointStatus /\ db.plan = mem.plan
    BY <1>0, <2>1 DEF StatusInv, PlanFacts, PausedInv
  <2>3. mem'.status = CheckpointStatus
    BY <2>1, <2>2 DEF SetStatus, IsTerminal
  <2> QED
    BY <1>4, <2>1, <2>2, <2>3 DEF PlanFacts
<1>8. ASSUME NEW kind \in Kinds, NEW answer \in 0 .. 1, RunnerEnds(kind, answer)
      PROVE  PlanFacts'
  <2>1. mem' = [mem EXCEPT !.status = EndStatus(kind),
                          !.messages = IF answer = 1 THEN Append(@, owner) ELSE @]
    BY <1>8 DEF RunnerEnds
  <2>2. /\ mem'.messages = IF answer = 1 THEN Append(mem.messages, owner) ELSE mem.messages
        /\ mem'.plan = mem.plan /\ mem'.status = EndStatus(kind)
    BY <1>0, <2>1 DEF Sessions
  <2>3. EndStatus(kind) \notin Asked /\ pc' = "ended"
    BY <1>8 DEF RunnerEnds, EndStatus, Asked
  <2> QED
    BY <1>4, <2>2, <2>3 DEF PlanFacts
<1>9. ASSUME NEW plan \in Plans \union {NoPlan}, NEW asks \in BOOLEAN, ToolBatch(plan, asks)
      PROVE  PlanFacts'
  <2>1. /\ mem'.messages = Append(mem.messages, owner) /\ mem'.plan = plan
        /\ mem'.status = mem.status /\ pc = "running" /\ pc' = "checkpoint"
    BY <1>0, <1>9 DEF ToolBatch, Sessions
  <2>2. mem'.status \notin Asked
    BY <1>0, <2>1 DEF StatusInv, Asked
  <2>3. plan # NoPlan => plan.by \notin stale
    <3>1. mem.plan # NoPlan => mem.plan \in Plans /\ mem.plan.by \notin stale
      BY <1>0 DEF PlanFacts, Sessions
    <3>2. CASE plan = mem.plan
      BY <3>1, <3>2
    <3>3. CASE plan = Plan(owner)
      BY <1>0, <3>3 DEF Plan, OwnerInv
    <3>4. CASE mem.plan # NoPlan /\ plan = [mem.plan EXCEPT !.done = TRUE]
      BY <3>1, <3>4 DEF Plans
    <3> QED
      BY <1>9, <3>2, <3>3, <3>4 DEF ToolBatch
  <2> QED
    BY <1>4, <2>1, <2>2, <2>3
<1> QED
  BY <1>5, <1>6, <1>7, <1>8, <1>9

\* A transaction makes storage agree with memory; a failed one makes memory agree with
\* storage.
LEMMA SettlingPlans ==
    ASSUME IInv, TypeOK', PlanFacts, CheckpointCommits \/ PersistCommits \/ PersistFails
    PROVE  PlanFacts'
<1>0. /\ mem \in Sessions /\ StatusInv /\ TaskInv /\ snapshot \in Sessions /\ checkpoint \in Sessions
      /\ outcome \in Kinds
  BY TypeParts DEF IInv, MemoryType, RunType
<1>1. pc \in Task
  BY DEF CheckpointCommits, PersistCommits, PersistFails, Task
<1>2. /\ Len(snapshot.messages) \in Nat /\ Len(mem.messages) \in Nat /\ loaded
      /\ persisted_count \in Nat /\ Len(snapshot.messages) <= persisted_count
  BY <1>1, TaskLengths
<1>3. StillApproved # NoPlan => StillApproved = mem.plan
  BY DEF StillApproved
<1>4. CASE CheckpointCommits
  <2>1. /\ pc = "checkpoint" /\ UNCHANGED <<mem, snapshot, stale, loaded, mode, ask>>
        /\ db'.plan = mem.plan /\ db'.status = CheckpointStatus
        /\ persisted_count' = Len(mem.messages) /\ approved' = StillApproved
        /\ checkpoint'.plan = mem.plan /\ checkpoint'.status = CheckpointStatus
        /\ pc' \in {"running", "pause"}
    BY <1>0, <1>4 DEF CheckpointCommits, Sessions
  <2>2. Len(mem.messages) > Len(snapshot.messages) /\ mem.status \notin Asked
    BY <1>0, <1>1, <2>1 DEF TaskInv, StatusInv, Asked
  <2>3. CheckpointStatus' = CheckpointStatus
    BY <2>1 DEF CheckpointStatus, PlanAwaitsApproval
  <2>4. SyncInv' /\ AskedInv' /\ FreshInv' /\ PausedInv'
    BY <2>1, <2>2, <2>3 DEF SyncInv, AskedInv, FreshInv, PausedInv
  <2>5. BackInv'
    BY <1>2, <2>1, <2>2 DEF BackInv
  <2> QED
    BY <1>3, <2>1, <2>4, <2>5 DEF PlanFacts
<1>5. CASE PersistCommits
  <2>1. /\ pc = "ended" /\ UNCHANGED <<mem, stale, loaded>>
        /\ db'.plan = mem.plan /\ db'.status = PersistedStatus
        /\ approved' = StillApproved /\ pc' = "free" /\ snapshot'.plan = NoPlan
    BY <1>5 DEF PersistCommits, Release, EmptySession
  <2>2. mem.status \in Asked => PersistedStatus = mem.status
    BY <1>0, <2>1 DEF PersistedStatus, StatusInv
  <2>3. SyncInv' /\ AskedInv' /\ FreshInv' /\ PausedInv' /\ BackInv'
    BY <2>1, <2>2 DEF SyncInv, AskedInv, FreshInv, PausedInv, BackInv, Task
  <2> QED
    BY <1>3, <2>1, <2>3 DEF PlanFacts
<1>6. CASE PersistFails
  <2>1. /\ mem' = RolledBack /\ UNCHANGED <<db, persisted_count, stale, loaded, approved>>
        /\ pc' = "free" /\ snapshot'.plan = NoPlan
    BY <1>6 DEF PersistFails, Release, EmptySession, storeVars
  <2>2. /\ mem'.plan = db.plan
        /\ mem'.status \in Asked => db.status = mem'.status
    <3>1. CASE persisted_count = Len(snapshot.messages)
      <4>1. mem'.plan = snapshot.plan /\ mem'.status = snapshot.status
        BY <1>0, <1>2, <2>1, <3>1 DEF RolledBack, Sessions
      <4> QED
        BY <1>1, <3>1, <4>1 DEF PlanFacts, BackInv
    <3>2. CASE persisted_count # Len(snapshot.messages)
      <4>1. mem'.plan = checkpoint.plan /\ mem'.status = checkpoint.status
        BY <1>0, <1>2, <2>1, <3>2 DEF RolledBack, Sessions
      <4> QED
        BY <1>1, <3>2, <4>1 DEF PlanFacts, BackInv
    <3> QED
      BY <3>1, <3>2
  <2>3. SyncInv' /\ AskedInv' /\ FreshInv' /\ PausedInv' /\ BackInv'
    BY <2>1, <2>2 DEF SyncInv, AskedInv, FreshInv, PausedInv, BackInv, Task
  <2> QED
    BY <2>1, <2>2, <2>3 DEF PlanFacts
<1> QED
  BY <1>4, <1>5, <1>6

\* Approval, and the session's way out of memory and back.
LEMMA OutsidePlans ==
    ASSUME IInv, TypeOK', PlanFacts, PlanFaultFree',
           ApproveCommits \/ Crash \/ Evict \/ Startup \/ Restore
    PROVE  PlanFacts'
<1>0. /\ mem \in Sessions /\ db \in StoredSessions /\ PhaseInv /\ pc \in Pcs
      /\ misread \in BOOLEAN
  BY TypeParts DEF IInv, MemoryType, StoreType, StoredSessions, RunType, HistoryType
<1>1. CASE ApproveCommits
  <2>1. /\ mem'.plan = Approved(mem.plan) /\ db'.plan = Approved(mem.plan)
        /\ approved' = Approved(mem.plan) /\ pc' = "free" /\ snapshot'.plan = NoPlan
        /\ mem'.status = SetStatus(mem.status, "awaiting_plan_execution")
        /\ stale' = stale /\ mem.plan # NoPlan
    BY <1>0, <1>1 DEF ApproveCommits, Release, EmptySession, Sessions, StoredSessions, PhaseInv
  <2>2. mem'.status \notin Asked
    BY <2>1 DEF SetStatus, IsTerminal, Asked
  <2>3. Approved(mem.plan).by = mem.plan.by
    BY <1>0, <2>1 DEF Approved, Sessions, Plans
  <2>4. SyncInv' /\ AskedInv' /\ FreshInv' /\ PausedInv' /\ BackInv'
    BY <2>1, <2>2 DEF SyncInv, AskedInv, FreshInv, PausedInv, BackInv, Task
  <2> QED
    BY <2>1, <2>3, <2>4 DEF PlanFacts
<1>2. CASE Crash \/ Evict
  <2>1. /\ mem'.plan = NoPlan /\ ~loaded' /\ UNCHANGED <<db, approved, stale>> /\ pc' = "free"
        /\ snapshot' \in {snapshot, EmptySession}
    BY <1>2 DEF Crash, Evict, Release, EmptySession, storeVars, runVars, historyVars
  <2>2. snapshot'.plan \in {snapshot.plan, NoPlan}
    BY <2>1 DEF EmptySession
  <2>3. SyncInv' /\ AskedInv' /\ FreshInv' /\ PausedInv' /\ BackInv'
    BY <2>1 DEF SyncInv, AskedInv, FreshInv, PausedInv, BackInv, Task
  <2> QED
    BY <2>1, <2>2, <2>3 DEF PlanFacts
<1>3. CASE Startup
  <2>1. /\ ~loaded /\ pc = "free"
    BY <1>0, <1>3 DEF Startup, PhaseInv
  <2>2. UNCHANGED <<mem, loaded, pc, snapshot, approved, stale>> /\ db'.plan = db.plan
    BY <1>0, <1>3 DEF Startup, StoredSessions, runVars
  <2> QED
    BY <2>1, <2>2 DEF PlanFacts, SyncInv, AskedInv, FreshInv, PausedInv, BackInv, Task
<1>4. CASE Restore
  <2>1. ~loaded /\ pc = "free" /\ pc' = pc
    BY <1>0, <1>4 DEF Restore, PhaseInv, runVars
  <2>2. /\ mem'.plan = db.plan /\ mem'.status = RestoredStatus(db.status)
        /\ UNCHANGED <<db, snapshot, approved, stale>>
    BY <1>4 DEF Restore, PlanFaultFree, runVars, storeVars
  <2>3. mem'.status \in Asked => db.status = mem'.status
    BY <1>0, <2>2 DEF RestoredStatus, Asked, Awaiting, StoredSessions, RowStatus
  <2> QED
    BY <2>1, <2>2, <2>3 DEF PlanFacts, SyncInv, AskedInv, FreshInv, PausedInv, BackInv, Task
<1> QED
  BY <1>1, <1>2, <1>3, <1>4

\* Only a dropped request leaves an UPDATE behind, and it is counted.
LEMMA LateEffects ==
    ASSUME IInv, [Next]_vars
    PROVE  (drops' = drops /\ late' \subseteq late) \/ drops' = drops + 1
<1>1. CASE \/ ClearPlan \/ MarkProcessing \/ AbortAcceptance \/ StartTask \/ RefuseDriftedCursor
           \/ BeginRun \/ CancelBeforePrompt \/ CheckpointCommits \/ CheckpointFails
           \/ PauseForUser \/ PersistCommits \/ PersistFails \/ RunPanics \/ UNCHANGED vars
  BY <1>1 DEF ClearPlan, MarkProcessing, AbortAcceptance, StartTask, RefuseDriftedCursor,
     BeginRun, CancelBeforePrompt, CheckpointCommits, CheckpointFails, PauseForUser,
     PersistCommits, PersistFails, RunPanics, vars, storeVars, historyVars
<1>2. CASE \/ ApproveRequest \/ ApproveCommits \/ ApproveFails \/ Crash \/ Startup \/ Restore
           \/ Evict \/ LateUpdate
           \/ \E kind \in Kinds, answer \in 0 .. 1 : RunnerEnds(kind, answer)
           \/ \E plan \in Plans \union {NoPlan}, asks \in BOOLEAN : ToolBatch(plan, asks)
           \/ \E r \in Runs, m \in RunModes : Request(r, m)
  BY <1>2 DEF ApproveRequest, ApproveCommits, ApproveFails, Crash, Startup, Restore, Evict,
     LateUpdate, RunnerEnds, ToolBatch, Request, storeVars, historyVars
<1>3. CASE DropDuringUpdate \/ ApproveDropped
  BY <1>3 DEF DropDuringUpdate, ApproveDropped
<1> QED
  BY <1>1, <1>2, <1>3 DEF Next

\* Without a drop no statement is left behind to commit late.
LEMMA LateStep ==
    ASSUME IInv, [Next]_vars, drops' = 0
    PROVE  drops = 0 /\ late = {} /\ late' = {}
<1>1. drops \in Nat
  BY TypeParts DEF IInv, HistoryType
<1>2. drops = 0 /\ late' \subseteq late
  BY <1>1, LateEffects
<1> QED
  BY <1>2 DEF IInv, PlanInv

\* The faults are never forgotten.
LEMMA FaultsStay ==
    ASSUME IInv, [Next]_vars, PlanFaultFree'
    PROVE  PlanFaultFree
<1>1. drops = 0
  BY LateStep DEF PlanFaultFree
<1>2. misread => misread'
  <2>0. misread \in BOOLEAN
    BY TypeParts DEF IInv, HistoryType
  <2> QED
    BY <2>0 DEF Next, vars, memoryVars, runVars, storeVars, historyVars, Request, ClearPlan,
       MarkProcessing, AbortAcceptance, DropDuringUpdate, LateUpdate, StartTask,
       RefuseDriftedCursor, BeginRun, CancelBeforePrompt, ToolBatch, CheckpointCommits,
       CheckpointFails, PauseForUser, RunnerEnds, PersistCommits, PersistFails, RunPanics,
       ApproveRequest, ApproveCommits, ApproveFails, ApproveDropped, Crash, Startup, Restore,
       Evict
<1> QED
  BY <1>1, <1>2 DEF PlanFaultFree

\* A step keeps the plan facts, while neither fault happens.
LEMMA PlanStep ==
    ASSUME IInv, [Next]_vars
    PROVE  PlanInv'
<1>1. TypeOK'
  BY TypeStep
<1>2. drops' = 0 => late' = {}
  BY LateStep
<1>3. ASSUME PlanFaultFree' PROVE PlanFacts'
  <2>1. PlanFacts /\ late = {} /\ drops' = 0
    BY <1>3, FaultsStay, LateStep DEF IInv, PlanInv, PlanFaultFree
  <2>2. CASE \/ ClearPlan \/ MarkProcessing \/ StartTask
             \/ \E r \in Runs, m \in RunModes : Request(r, m)
    BY <1>1, <2>1, <2>2, AcceptancePlans
  <2>3. CASE \/ BeginRun \/ CancelBeforePrompt \/ CheckpointFails \/ PauseForUser
             \/ \E kind \in Kinds, answer \in 0 .. 1 : RunnerEnds(kind, answer)
             \/ \E plan \in Plans \union {NoPlan}, asks \in BOOLEAN : ToolBatch(plan, asks)
    BY <1>1, <2>1, <2>3, RunningPlans
  <2>4. CASE CheckpointCommits \/ PersistCommits \/ PersistFails
    BY <1>1, <2>1, <2>4, SettlingPlans
  <2>5. CASE ApproveCommits \/ Crash \/ Evict \/ Startup \/ Restore
    BY <1>1, <1>3, <2>1, <2>5, OutsidePlans
  <2>6. CASE AbortAcceptance \/ RefuseDriftedCursor \/ RunPanics \/ ApproveRequest \/ ApproveFails
    <3>1. /\ UNCHANGED <<mem, db, persisted_count, loaded, approved, stale>>
          /\ pc' \in {"free", "approving"} /\ snapshot' \in {snapshot, EmptySession}
      BY <2>6 DEF AbortAcceptance, RefuseDriftedCursor, RunPanics, ApproveRequest, ApproveFails,
         Release, memoryVars, storeVars, historyVars, runLocals
    <3>2. pc' \notin Task \union {"mark", "accepted"}
      BY <3>1 DEF Task
    <3> QED
      BY <2>1, <3>1, <3>2, PlanStill
  <2>7. CASE UNCHANGED vars
    <3>1. UNCHANGED <<mem, db, persisted_count, loaded, approved, stale, snapshot, checkpoint, pc, mode,
                      ask>>
      BY <2>7 DEF vars, memoryVars, runVars, storeVars, historyVars
    <3> QED
      BY <2>1, <3>1 DEF PlanFacts, SyncInv, AskedInv, FreshInv, PausedInv, BackInv,
         CheckpointStatus, PlanAwaitsApproval
  <2>8. ~LateUpdate
    BY <2>1 DEF LateUpdate
  <2>9. ~DropDuringUpdate /\ ~ApproveDropped
    <3>1. drops \in Nat
      BY TypeParts DEF IInv, HistoryType
    <3> QED
      BY <2>1, <3>1 DEF DropDuringUpdate, ApproveDropped
  <2> QED
    BY <2>2, <2>3, <2>4, <2>5, <2>6, <2>7, <2>8, <2>9 DEF Next
<1> QED
  BY <1>2, <1>3 DEF PlanInv

-----------------------------------------------------------------------------
(* The theorems *)

\* The inductive invariant holds at the start ...
LEMMA InitIInv == Init => IInv
<1> SUFFICES ASSUME Init PROVE IInv
  OBVIOUS
<1>1. TypeOK
  <2>1. MemoryType /\ mem = EmptySession
    BY EmptySessionType DEF Init, MemoryType
  <2>2. RunType
    <3>1. snapshot \in Sessions /\ checkpoint \in Sessions
      BY EmptySessionType DEF Init
    <3>2. worker \in BOOLEAN /\ ask \in BOOLEAN
      BY DEF Init
    <3>3. /\ owner \in Runs \union {NoRun} /\ pc \in Pcs /\ mode \in RunModes
          /\ outcome \in Kinds /\ batches \in 0 .. BATCHES
      BY DEF Init, Pcs, RunModes, Kinds
    <3> QED
      BY <3>1, <3>2, <3>3 DEF RunType
  <2>3. StoreType
    BY EmptySeq DEF Init, StoreType, RowStatus
  <2>4. HistoryType
    <3>1. misread \in BOOLEAN
      BY DEF Init
    <3>2. crashes \in 0 .. CRASHES /\ drops \in 0 .. DROPS
      BY DEF Init
    <3>3. /\ used = {} /\ stale = {} /\ unsettled = {} /\ evidence = {} /\ approved = NoPlan
      BY DEF Init
    <3> QED
      BY <3>1, <3>2, <3>3 DEF HistoryType
  <2> QED
    BY <2>1, <2>2, <2>3, <2>4, TypeParts
<1>2. /\ pc = "free" /\ owner = NoRun /\ up /\ loaded /\ persisted_count = 0
      /\ mem.messages = <<>> /\ mem.plan = NoPlan /\ mem.status = "processing"
      /\ db.messages = <<>> /\ db.plan = NoPlan /\ snapshot.plan = NoPlan
      /\ \A r \in Runs : runs[r] = NoRow
      /\ used = {} /\ stale = {} /\ late = {} /\ approved = NoPlan
  BY DEF Init, EmptySession
<1>3. Len(mem.messages) = 0 /\ Len(db.messages) = 0
  BY <1>2, EmptySeq
<1>4. PhaseInv /\ OwnerInv
  BY <1>2 DEF PhaseInv, OwnerInv
<1>5. AuthorInv /\ CursorInv
  BY <1>2, <1>3 DEF AuthorInv, CursorInv
<1>6. TaskInv /\ OpenInv /\ StatusInv
  BY <1>2 DEF TaskInv, OpenInv, Open, StatusInv, Acceptance, Task
<1>7. RangeInv
  BY <1>2, <1>3 DEF RangeInv, RangeOf, Ranged
<1>8. PlanInv
  BY <1>2 DEF PlanInv, PlanFacts, SyncInv, AskedInv, FreshInv, PausedInv, BackInv, Task, Asked
<1> QED
  BY <1>1, <1>4, <1>5, <1>6, <1>7, <1>8 DEF IInv

\* ... and in every reachable state.
LEMMA Invariance == Spec => []IInv
<1>1. IInv /\ [Next]_vars => IInv'
  BY TypeStep, PhaseStep, OwnerStep, AuthorStep, CursorStep, TaskStep, RangeStep, OpenStep,
     StatusStep, PlanStep DEF IInv
<1> QED
  BY InitIInv, <1>1, PTL DEF Spec

\* TypeOK is an invariant of SessionDurability: however a row looked, restore_session
\* gives the frame a status that a frame can have.
THEOREM TypeCorrect == Spec => []TypeOK
<1>1. IInv => TypeOK
  BY DEF IInv
<1> QED
  BY <1>1, Invariance, PTL

\* The stored transcript is the durable prefix of memory's, and the cursor its length,
\* through checkpoints, rollbacks, panics, evictions and restarts.
THEOREM MemoryExtendsStorage == Spec => []DurablePrefix
<1>1. IInv => DurablePrefix
  <2> SUFFICES ASSUME IInv, loaded
               PROVE  /\ persisted_count = Len(db.messages)
                      /\ persisted_count <= Len(mem.messages)
                      /\ Contents(db.messages) = SubSeq(mem.messages, 1, persisted_count)
    BY DEF DurablePrefix
  <2>1. /\ mem.messages \in Seq(Runs) /\ db.messages \in Seq(StoredMessages) /\ CursorInv
        /\ persisted_count \in Nat
    BY TypeParts DEF IInv, MemoryType, StoreType, Sessions
  <2>2. /\ persisted_count = Len(db.messages) /\ persisted_count <= Len(mem.messages)
        /\ \A i \in 1 .. persisted_count : db.messages[i].by = mem.messages[i]
    BY <2>1 DEF CursorInv
  <2> DEFINE left == Contents(db.messages)
             right == SubSeq(mem.messages, 1, persisted_count)
  <2>3. left \in Seq(Runs) /\ Len(left) = persisted_count
        /\ \A i \in 1 .. persisted_count : left[i] = db.messages[i].by
    BY <2>1, <2>2, ContentsOf
  <2>4. right \in Seq(Runs) /\ Len(right) = persisted_count
        /\ \A i \in 1 .. persisted_count : right[i] = mem.messages[i]
    BY <2>1, <2>2, Prefix
  <2> HIDE DEF left, right
  <2>5. left = right
    BY <2>2, <2>3, <2>4, SeqEqual
  <2> QED
    BY <2>2, <2>5 DEF left, right
<1> QED
  BY <1>1, Invariance, PTL

\* Every stored message lies in the range of the run that produced it, the checks of
\* persist_run and append_history_checkpoint never refuse a run, and no row stays open
\* unaccounted for.
THEOREM TranscriptIsAccountedFor == Spec => []RunsAreAccountedFor
<1>1. IInv => RunsAreAccountedFor
  <2> SUFFICES ASSUME IInv PROVE RunsAreAccountedFor
    OBVIOUS
  <2>1. /\ db.messages \in Seq(StoredMessages) /\ runs \in [Runs -> Rows \union {NoRow}]
        /\ AuthorInv /\ TaskInv /\ RangeInv /\ OpenInv /\ PhaseInv /\ CursorInv
        /\ mem.messages \in Seq(Runs)
    BY TypeParts DEF IInv, StoreType, MemoryType, Sessions
  <2>2. RunRangesPartition
    <3>1. DOMAIN db.messages = 1 .. Len(db.messages) /\ Len(db.messages) \in Nat
      BY <2>1, LenProperties
    <3>2. ASSUME NEW r \in Runs
          PROVE  LET range == IF runs[r] = NoRow \/ runs[r].start = 0 THEN {}
                              ELSE runs[r].start .. runs[r].end
                 IN  /\ {i \in DOMAIN db.messages : db.messages[i].by = r} = range
                     /\ {i \in DOMAIN db.messages : db.messages[i].run = r} = range
      <4> DEFINE mine == {i \in DOMAIN db.messages : db.messages[i].by = r}
                 kept == {i \in DOMAIN db.messages : db.messages[i].run = r}
      <4>1. mine = kept
        BY <2>1, <3>1 DEF AuthorInv
      <4>2. CASE ~Ranged(r)
        <5>1. mine = {}
          BY <2>1, <3>1, <4>2 DEF RangeInv, RangeOf
        <5> QED
          BY <4>1, <4>2, <5>1 DEF Ranged
      <4>3. CASE Ranged(r)
        <5>1. runs[r] \in Rows /\ runs[r].start # 0
          BY <2>1, <4>3 DEF Ranged
        <5>2. runs[r].start \in Nat /\ runs[r].end \in Nat /\ runs[r].start >= 1
          BY <5>1 DEF Rows
        <5>3. runs[r].end <= Len(db.messages)
          BY <2>1, <4>3 DEF RangeInv, RangeOf
        <5>4. \A i \in 1 .. Len(db.messages) :
                 db.messages[i].by = r <=> runs[r].start <= i /\ i <= runs[r].end
          BY <2>1, <4>3 DEF RangeInv, RangeOf
        <5>5. mine = runs[r].start .. runs[r].end
          BY <3>1, <5>2, <5>3, <5>4
        <5> QED
          BY <4>1, <4>3, <5>5 DEF Ranged
      <4> QED
        BY <4>2, <4>3
    <3> QED
      BY <3>2 DEF RunRangesPartition
  <2>3. ChecksNeverRefuse
    <3>1. ASSUME pc \in Task
          PROVE  /\ owner \in Runs
                 /\ Len(snapshot.messages) \in Nat /\ Len(mem.messages) \in Nat
                 /\ persisted_count \in Nat /\ persisted_count = Len(db.messages)
                 /\ Len(snapshot.messages) <= persisted_count
                 /\ persisted_count <= Len(mem.messages)
      BY <3>1, TaskLengths
    <3>2. ASSUME pc = "checkpoint" PROVE worker /\ CheckpointLinesUp(owner)
      <4>1. pc \in Task /\ worker
        BY <2>1, <3>2 DEF Task, PhaseInv
      <4>2. runs[owner] # NoRow => ~runs[owner].completed /\ runs[owner].end = persisted_count
        BY <2>1, <4>1 DEF TaskInv
      <4> QED
        BY <3>1, <4>1, <4>2 DEF CheckpointLinesUp
    <3>3. ASSUME pc = "ended" PROVE PersistLinesUp(owner)
      <4>1. pc \in Task
        BY <3>3 DEF Task
      <4>2. runs[owner] # NoRow =>
               /\ persisted_count # Len(snapshot.messages)
               /\ ~runs[owner].completed /\ runs[owner].end = persisted_count
               /\ runs[owner].start = Len(snapshot.messages) + 1
        BY <2>1, <4>1 DEF TaskInv
      <4>3. runs[owner] # NoRow => runs[owner].start = CheckpointStart
        BY <3>1, <4>1, <4>2 DEF CheckpointStart
      <4>4. ASSUME CheckpointStart # 0, NEW i \in CheckpointStart .. Len(db.messages)
            PROVE  db.messages[i].run = owner
        <5>1. i > Len(snapshot.messages) /\ i \in 1 .. persisted_count /\ i \in 1 .. Len(mem.messages)
          BY <3>1, <4>1, <4>4 DEF CheckpointStart
        <5>2. mem.messages[i] = owner
          BY <2>1, <4>1, <5>1 DEF TaskInv
        <5>3. db.messages[i].by = owner
          BY <2>1, <4>1, <5>1, <5>2, TaskLengths DEF CursorInv
        <5>4. i \in 1 .. Len(db.messages)
          BY <3>1, <4>1, <5>1
        <5> QED
          BY <2>1, <5>3, <5>4 DEF AuthorInv
      <4> QED
        BY <3>1, <4>1, <4>2, <4>3, <4>4 DEF PersistLinesUp
    <3> QED
      BY <3>2, <3>3 DEF ChecksNeverRefuse
  <2>4. OpenRowsAreAccountedFor
    BY <2>1 DEF OpenInv, Open, OpenRowsAreAccountedFor
  <2> QED
    BY <2>2, <2>3, <2>4 DEF RunsAreAccountedFor
<1> QED
  BY <1>1, Invariance, PTL

\* What a user is asked for survives a crash, no superseded plan comes back, and an
\* approval that was answered is not used up by a run that failed: all of it as long as
\* neither of the two faults of PlanFaultFree happened.
THEOREM PlansSurvive == Spec => []PlansAreDurable
<1>1. IInv => PlansAreDurable
  <2> SUFFICES ASSUME IInv PROVE PlansAreDurable
    OBVIOUS
  <2>1. PlanFaultFree => PlanFacts
    BY DEF IInv, PlanInv
  <2>2. AwaitingIsDurable
    BY <2>1 DEF AwaitingIsDurable, PlanFacts, AskedInv, Asked
  <2>3. StalePlanNeverReturns
    BY <2>1 DEF StalePlanNeverReturns, PlanFacts
  <2>4. ApprovalIsDurable
    BY <2>1 DEF ApprovalIsDurable, PlanFacts, SyncInv
  <2> QED
    BY <2>2, <2>3, <2>4 DEF PlansAreDurable
<1> QED
  BY <1>1, Invariance, PTL

-----------------------------------------------------------------------------
(* Compaction: sets of naturals *)

\* A set of naturals that is not empty has a least element.
LEMMA LeastOf ==
    ASSUME NEW S \in SUBSET Nat, S # {}
    PROVE  \E i \in S : \A j \in S : i <= j
<1>1. PICK i \in S : \A j \in S : <<j, i>> \notin OpToRel(<, Nat)
  BY NatLessThanWellFounded, WFMin
<1>2. \A j \in S : ~(j < i)
  BY <1>1 DEF OpToRel
<1> QED
  BY <1>2

\* The same for the greatest one, of a set with a bound.
LEMMA GreatestOf ==
    ASSUME NEW n \in Nat, NEW S \in SUBSET (0 .. n), S # {}
    PROVE  \E i \in S : \A j \in S : j <= i
<1> DEFINE T == {n - i : i \in S}
<1>1. T \in SUBSET Nat /\ T # {}
  <2>1. \A i \in 0 .. n : n - i \in Nat
    OBVIOUS
  <2> QED
    BY <2>1
<1>2. PICK m \in T : \A j \in T : m <= j
  <2> HIDE DEF T
  <2> QED
    BY <1>1, LeastOf
<1>3. PICK i \in S : m = n - i
  BY <1>2
<1>4. \A j \in S : n - i <= n - j
  BY <1>2, <1>3
<1>5. \A j \in S : j \in 0 .. n
  OBVIOUS
<1> QED
  BY <1>3, <1>4, <1>5

-----------------------------------------------------------------------------
(* Totals *)

\* The function that Total computes, up to n.
Sums(f, g, n) == f = [k \in 0 .. n |-> IF k = 0 THEN 0 ELSE f[k - 1] + g[k]]
\* The same as two facts.
SumsTo(f, g, n) == f[0] = 0 /\ \A k \in 1 .. n : f[k] = f[k - 1] + g[k]

\* Such a function starts at 0 and adds one term at a time.
LEMMA SumsAt ==
    ASSUME NEW f, NEW g, NEW n \in Nat, Sums(f, g, n)
    PROVE  SumsTo(f, g, n)
<1> DEFINE h == [k \in 0 .. n |-> IF k = 0 THEN 0 ELSE f[k - 1] + g[k]]
<1>1. \A k \in 0 .. n : h[k] = IF k = 0 THEN 0 ELSE f[k - 1] + g[k]
  OBVIOUS
<1>2. f = h
  BY DEF Sums
<1> HIDE DEF h
<1>3. \A k \in 0 .. n : f[k] = IF k = 0 THEN 0 ELSE f[k - 1] + g[k]
  BY <1>1, <1>2
<1>4. 0 \in 0 .. n /\ \A k \in 1 .. n : k \in 0 .. n /\ k # 0
  OBVIOUS
<1> QED
  BY <1>3, <1>4 DEF SumsTo

\* It exists, or there were a least length for which it does not.
LEMMA SumsExist ==
    ASSUME NEW g, NEW n \in Nat
    PROVE  \E f : Sums(f, g, n)
<1> DEFINE Bad == {k \in Nat : ~ \E f : Sums(f, g, k)}
<1> SUFFICES ASSUME Bad # {} PROVE FALSE
  OBVIOUS
<1>1. PICK m \in Bad : \A j \in Bad : m <= j
  <2>1. Bad \in SUBSET Nat
    OBVIOUS
  <2> HIDE DEF Bad
  <2> QED
    BY <2>1, LeastOf
<1>2. m # 0
  <2> DEFINE f0 == [k \in 0 .. 0 |-> 0]
  <2>1. Sums(f0, g, 0)
    BY DEF Sums
  <2> QED
    BY <1>1, <2>1
<1>3. m \in Nat /\ m - 1 \in Nat /\ m - 1 \notin Bad
  BY <1>1, <1>2
<1>4. PICK f : Sums(f, g, m - 1)
  BY <1>3
<1>5. f[0] = 0 /\ \A k \in 1 .. m - 1 : f[k] = f[k - 1] + g[k]
  <2> DEFINE m1 == m - 1
  <2>1. m1 \in Nat /\ Sums(f, g, m1)
    BY <1>3, <1>4
  <2> HIDE DEF m1
  <2>2. SumsTo(f, g, m1)
    BY <2>1, SumsAt
  <2> QED
    BY <2>2 DEF m1, SumsTo
<1> DEFINE h == [k \in 0 .. m |-> IF k = m THEN f[m - 1] + g[m] ELSE f[k]]
<1>6. \A k \in 0 .. m - 1 : h[k] = f[k]
  <2>1. \A k \in 0 .. m - 1 : k \in 0 .. m /\ k # m
    <3>1. m \in Nat
      BY <1>3
    <3> QED
      BY ONLY <3>1
  <2> QED
    BY <2>1
<1>7. h[m] = f[m - 1] + g[m]
  <2>1. m \in 0 .. m
    <3>1. m \in Nat
      BY <1>3
    <3> QED
      BY ONLY <3>1
  <2> QED
    BY <2>1
<1>8. \A k \in 0 .. m : h[k] = IF k = 0 THEN 0 ELSE h[k - 1] + g[k]
  <2> HIDE DEF h
  <2> SUFFICES ASSUME NEW k \in 0 .. m PROVE h[k] = IF k = 0 THEN 0 ELSE h[k - 1] + g[k]
    OBVIOUS
  <2>1. CASE k = 0
    <3>1. 0 \in 0 .. m - 1
      BY <1>3
    <3> QED
      BY <1>5, <1>6, <2>1, <3>1
  <2>2. CASE k \in 1 .. m - 1
    <3>1. k # 0 /\ k \in 0 .. m - 1 /\ k - 1 \in 0 .. m - 1
      BY <1>3, <2>2
    <3> QED
      BY <1>5, <1>6, <2>2, <3>1
  <2>3. CASE k = m
    <3>1. k # 0 /\ m - 1 \in 0 .. m - 1
      BY <1>2, <1>3, <2>3
    <3> QED
      BY <1>6, <1>7, <2>3, <3>1
  <2> QED
    BY <1>3, <2>1, <2>2, <2>3
<1>9. Sums(h, g, m)
  <2>1. h = [k \in 0 .. m |-> h[k]]
    OBVIOUS
  <2> HIDE DEF h
  <2> QED
    BY <1>8, <2>1 DEF Sums
<1> QED
  BY <1>1, <1>9

\* Two of them agree as long as they last.
LEMMA SumsAgree ==
    ASSUME NEW f, NEW h, NEW g, NEW n \in Nat, NEW l \in Nat, n <= l, Sums(f, g, n), Sums(h, g, l)
    PROVE  f[n] = h[n]
<1> DEFINE Bad == {k \in 0 .. n : f[k] # h[k]}
<1>0. SUFFICES ASSUME Bad # {} PROVE FALSE
  OBVIOUS
<1>1. PICK m \in Bad : \A j \in Bad : m <= j
  <2>1. Bad \in SUBSET Nat
    OBVIOUS
  <2> HIDE DEF Bad
  <2> QED
    BY <1>0, <2>1, LeastOf
<1>2. /\ f[0] = 0 /\ \A k \in 1 .. n : f[k] = f[k - 1] + g[k]
      /\ h[0] = 0 /\ \A k \in 1 .. l : h[k] = h[k - 1] + g[k]
  <2>1. SumsTo(f, g, n) /\ SumsTo(h, g, l)
    BY SumsAt
  <2> QED
    BY <2>1 DEF SumsTo
<1>3. m \in 1 .. n /\ m \in 1 .. l
  BY <1>1, <1>2
<1>4. f[m - 1] = h[m - 1]
  BY <1>1, <1>3
<1> QED
  BY <1>1, <1>2, <1>3, <1>4

\* A total is what such a function says, however far it goes.
LEMMA TotalIs ==
    ASSUME NEW g, NEW n \in Nat, NEW l \in Nat, n <= l, NEW f, Sums(f, g, l)
    PROVE  Total(g, n) = f[n]
<1> DEFINE h == CHOOSE s : Sums(s, g, n)
<1>1. Sums(h, g, n)
  BY SumsExist
<1>2. Total(g, n) = h[n]
  BY DEF Total, Sums
<1> HIDE DEF h
<1>3. h[n] = f[n]
  BY <1>1, SumsAgree
<1> QED
  BY <1>2, <1>3

\* One more element is added to the total.
LEMMA TotalGrows ==
    ASSUME NEW g, NEW n \in Nat
    PROVE  Total(g, 0) = 0 /\ Total(g, n + 1) = Total(g, n) + g[n + 1]
<1> DEFINE l == n + 1
<1>1. l \in Nat /\ 0 \in Nat /\ n <= l /\ 0 <= l /\ l <= l /\ l \in 1 .. l /\ l - 1 = n
  OBVIOUS
<1> HIDE DEF l
<1>2. PICK f : Sums(f, g, l)
  BY <1>1, SumsExist
<1>3. Total(g, 0) = f[0] /\ Total(g, n) = f[n] /\ Total(g, l) = f[l]
  BY <1>1, <1>2, TotalIs
<1>4. SumsTo(f, g, l)
  BY <1>1, <1>2, SumsAt
<1>5. f[0] = 0 /\ f[l] = f[n] + g[l]
  BY <1>1, <1>4 DEF SumsTo
<1> QED
  BY <1>3, <1>5 DEF l

\* Totals of naturals are naturals.
LEMMA TotalIsNat ==
    ASSUME NEW g, NEW n \in Nat, \A k \in 1 .. n : g[k] \in Nat
    PROVE  Total(g, n) \in Nat
<1> DEFINE Bad == {k \in 0 .. n : Total(g, k) \notin Nat}
<1>0. SUFFICES ASSUME Bad # {} PROVE FALSE
  OBVIOUS
<1>1. PICK m \in Bad : \A j \in Bad : m <= j
  <2>1. Bad \in SUBSET Nat
    OBVIOUS
  <2> HIDE DEF Bad
  <2> QED
    BY <1>0, <2>1, LeastOf
<1>2. Total(g, 0) = 0
  BY TotalGrows
<1>3. m \in 1 .. n /\ m - 1 \in Nat /\ m - 1 \in 0 .. n /\ (m - 1) + 1 = m /\ ~(m <= m - 1)
  BY <1>1, <1>2
<1>4. Total(g, m - 1) \in Nat
  BY <1>1, <1>3
<1>5. Total(g, (m - 1) + 1) = Total(g, m - 1) + g[(m - 1) + 1]
  BY <1>3, TotalGrows
<1>6. Total(g, m) = Total(g, m - 1) + g[m] /\ g[m] \in Nat
  BY <1>3, <1>5
<1> QED
  BY <1>1, <1>4, <1>6

\* Totals of naturals rise.
LEMMA TotalRises ==
    ASSUME NEW g, NEW n \in Nat, \A k \in 1 .. n : g[k] \in Nat, NEW a \in 0 .. n
    PROVE  \A b \in a .. n : Total(g, a) <= Total(g, b)
<1> DEFINE Bad == {b \in a .. n : ~(Total(g, a) <= Total(g, b))}
<1>0. SUFFICES ASSUME Bad # {} PROVE FALSE
  OBVIOUS
<1>1. PICK m \in Bad : \A j \in Bad : m <= j
  <2>1. Bad \in SUBSET Nat
    OBVIOUS
  <2> HIDE DEF Bad
  <2> QED
    BY <1>0, <2>1, LeastOf
<1>2. \A b \in 0 .. n : Total(g, b) \in Nat
  <2> SUFFICES ASSUME NEW b \in 0 .. n PROVE Total(g, b) \in Nat
    OBVIOUS
  <2>1. b \in Nat /\ \A k \in 1 .. b : g[k] \in Nat
    OBVIOUS
  <2> QED
    BY <2>1, TotalIsNat
<1>3. m # a
  BY <1>1, <1>2
<1>4. m \in 1 .. n /\ m - 1 \in Nat /\ m - 1 \in a .. n /\ m - 1 \in 0 .. n /\ (m - 1) + 1 = m /\ ~(m <= m - 1)
  BY <1>1, <1>3
<1>5. Total(g, a) <= Total(g, m - 1)
  BY <1>1, <1>4
<1>6. Total(g, (m - 1) + 1) = Total(g, m - 1) + g[(m - 1) + 1]
  BY <1>4, TotalGrows
<1>7. Total(g, m) = Total(g, m - 1) + g[m] /\ g[m] \in Nat
  BY <1>4, <1>6
<1>8. Total(g, a) \in Nat /\ Total(g, m - 1) \in Nat
  BY <1>2, <1>4
<1>9. Total(g, a) <= Total(g, m)
  BY <1>5, <1>7, <1>8
<1> QED
  BY <1>1, <1>9

\* A total depends on what is added.
LEMMA TotalAgrees ==
    ASSUME NEW g, NEW h, NEW n \in Nat, \A k \in 1 .. n : g[k] = h[k]
    PROVE  Total(g, n) = Total(h, n)
<1> DEFINE Bad == {k \in 0 .. n : Total(g, k) # Total(h, k)}
<1>0. SUFFICES ASSUME Bad # {} PROVE FALSE
  OBVIOUS
<1>1. PICK m \in Bad : \A j \in Bad : m <= j
  <2>1. Bad \in SUBSET Nat
    OBVIOUS
  <2> HIDE DEF Bad
  <2> QED
    BY <1>0, <2>1, LeastOf
<1>2. Total(g, 0) = 0 /\ Total(h, 0) = 0
  BY TotalGrows
<1>3. m \in 1 .. n /\ m - 1 \in Nat /\ m - 1 \in 0 .. n /\ (m - 1) + 1 = m /\ ~(m <= m - 1)
  BY <1>1, <1>2
<1>4. Total(g, m - 1) = Total(h, m - 1)
  BY <1>1, <1>3
<1>5. /\ Total(g, (m - 1) + 1) = Total(g, m - 1) + g[(m - 1) + 1]
      /\ Total(h, (m - 1) + 1) = Total(h, m - 1) + h[(m - 1) + 1]
  BY <1>3, TotalGrows
<1>6. Total(g, m) = Total(h, m)
  BY <1>3, <1>4, <1>5
<1> QED
  BY <1>1, <1>6

-----------------------------------------------------------------------------
(* The turns of a log *)

\* A log starts with what a user said.
IsLog(l) == l \in Seq(Messages) /\ (l # <<>> => l[1].role = "user")
UserAt(l, i) == i \in Nat /\ i < Len(l) /\ l[i + 1].role = "user"

\* The newest turn begins with the last user message.
LEMMA LastUserIs ==
    ASSUME NEW l, IsLog(l), l # <<>>
    PROVE  UserAt(l, LastUser(l)) /\ \A i \in Nat : UserAt(l, i) => i <= LastUser(l)
<1> DEFINE us == {i \in 1 .. Len(l) : l[i].role = "user"}
           last == CHOOSE i \in us : \A k \in us : k <= i
<1>1. Len(l) \in Nat /\ 1 \in us /\ us \in SUBSET (0 .. Len(l))
  BY DEF IsLog
<1>2. \E i \in us : \A k \in us : k <= i
  <2> HIDE DEF us
  <2> QED
    BY <1>1, GreatestOf
<1>3. last \in us /\ \A k \in us : k <= last
  BY <1>2
<1>4. LastUser(l) = last - 1
  <2>1. us # {}
    BY <1>1
  <2> QED
    BY <2>1 DEF LastUser
<1> HIDE DEF last
<1>5. last \in 1 .. Len(l) /\ l[last].role = "user" /\ (last - 1) + 1 = last
  BY <1>3
<1>6. UserAt(l, last - 1)
  BY <1>1, <1>5 DEF UserAt
<1>7. ASSUME NEW i \in Nat, UserAt(l, i) PROVE i <= last - 1
  <2>1. i + 1 \in us
    BY <1>1, <1>7 DEF UserAt
  <2>2. i + 1 <= last
    BY <1>3, <2>1
  <2> QED
    BY <1>5, <2>2
<1> QED
  BY <1>4, <1>6, <1>7

\* Turns do not move when messages are added.
LEMMA TurnsStay ==
    ASSUME NEW l, NEW t \in Seq(Messages), IsLog(l), IsLog(l \o t)
    PROVE  /\ \A i \in Nat : UserAt(l, i) => UserAt(l \o t, i)
           /\ l # <<>> => LastUser(l) <= LastUser(l \o t)
<1>1. /\ l \in Seq(Messages) /\ Len(l) \in Nat /\ Len(t) \in Nat /\ Len(l \o t) = Len(l) + Len(t)
      /\ \A i \in 1 .. Len(l) : (l \o t)[i] = l[i]
  BY DEF IsLog
<1>2. \A i \in Nat : UserAt(l, i) => UserAt(l \o t, i)
  BY <1>1 DEF UserAt
<1>3. ASSUME l # <<>> PROVE LastUser(l) <= LastUser(l \o t)
  <2>1. UserAt(l, LastUser(l)) /\ LastUser(l) \in Nat
    BY <1>3, LastUserIs DEF UserAt
  <2>2. UserAt(l \o t, LastUser(l)) /\ l \o t # <<>>
    BY <1>1, <1>2, <1>3, <2>1 DEF UserAt
  <2> QED
    BY <2>1, <2>2, LastUserIs
<1> QED
  BY <1>2, <1>3

\* The end of a turn is where the next begins.
LEMMA AlignEndIs ==
    ASSUME IsLog(log), log # <<>>, NEW e \in 1 .. LastUser(log)
    PROVE  /\ AlignEnd(e) \in e .. LastUser(log) /\ UserAt(log, AlignEnd(e))
           /\ UserAt(log, e) => AlignEnd(e) = e
<1> DEFINE n == Len(log)
           u == LastUser(log)
           P(i) == (i = n \/ IsUser(i)) /\ \A k \in e .. i - 1 : ~IsUser(k)
           a == CHOOSE i \in e .. n : P(i)
           S == {i \in e .. n : i = n \/ IsUser(i)}
<1>1. n \in Nat /\ u \in Nat /\ u < n /\ UserAt(log, u) /\ IsUser(u)
  <2>1. UserAt(log, LastUser(log)) /\ Len(log) \in Nat
    BY LastUserIs DEF IsLog
  <2> QED
    BY <2>1 DEF UserAt, IsUser
<1>2. e \in Nat /\ e >= 1 /\ e <= u /\ ~(e = 0 \/ e >= n)
  BY <1>1
<1>3. \E i \in e .. n : P(i)
  <2>1. S \in SUBSET Nat /\ n \in S
    BY <1>1, <1>2
  <2>2. PICK i \in S : \A j \in S : i <= j
    <3> HIDE DEF S
    <3> QED
      BY <2>1, LeastOf
  <2>3. i \in e .. n /\ (i = n \/ IsUser(i)) /\ i \in Nat
    BY <1>2, <2>2
  <2>4. \A k \in e .. i - 1 : ~IsUser(k)
    <3> SUFFICES ASSUME NEW k \in e .. i - 1, IsUser(k) PROVE FALSE
      OBVIOUS
    <3>1. k \in e .. n /\ ~(i <= k)
      BY <1>1, <1>2, <2>3
    <3> QED
      BY <2>2, <3>1
  <2> QED
    BY <2>3, <2>4
<1>4. a \in e .. n /\ P(a)
  BY <1>3
<1>5. AlignEnd(e) = a
  BY <1>2 DEF AlignEnd
<1> HIDE DEF a
<1>6. a <= u
  <2> SUFFICES ASSUME ~(a <= u) PROVE FALSE
    OBVIOUS
  <2>1. u \in e .. a - 1
    BY <1>1, <1>2, <1>4
  <2> QED
    BY <1>1, <1>4, <2>1
<1>7. a \in e .. u /\ a # n /\ IsUser(a)
  BY <1>1, <1>2, <1>4, <1>6
<1>8. UserAt(log, a)
  BY <1>1, <1>2, <1>7 DEF UserAt, IsUser
<1>9. UserAt(log, e) => a = e
  <2> SUFFICES ASSUME UserAt(log, e), a # e PROVE FALSE
    OBVIOUS
  <2>1. e \in e .. a - 1 /\ IsUser(e)
    BY <1>2, <1>7 DEF UserAt, IsUser
  <2> QED
    BY <1>4, <2>1
<1> QED
  BY <1>5, <1>7, <1>8, <1>9

\* A turn that begins at s is aligned already (align_fold_range).
LEMMA AlignStartIs ==
    ASSUME IsLog(log), NEW s, UserAt(log, s)
    PROVE  AlignStart(s) = s
<1>1. s < Len(log) /\ IsUser(s) /\ Len(log) \in Nat /\ s \in Nat
  BY DEF UserAt, IsUser, IsLog
<1>2. Least(s, Len(log)) = s
  BY <1>1 DEF Least
<1> QED
  BY <1>1, <1>2 DEF AlignStart

-----------------------------------------------------------------------------
(* The view *)

\* A fold, and where the first k of them end.
Fold == [start : Nat, end : Nat, w : Nat]
Cursor(fs, k) == IF k = 0 THEN 0 ELSE fs[k].end

\* The folds of a log: finished turns from its beginning on, one after the other.
Fits(l, fs) ==
    /\ fs \in Seq(Fold)
    /\ \A k \in 1 .. Len(fs) : /\ fs[k].start = Cursor(fs, k - 1) /\ fs[k].start < fs[k].end
                               /\ UserAt(l, fs[k].start) /\ UserAt(l, fs[k].end)
                               /\ fs[k].end <= LastUser(l)
    /\ \A i, j \in 1 .. Len(fs) : i < j => fs[i].end <= fs[j].start

\* What the projection makes of a fold that fits, and of the first k folds.
Summary(f) == [summary |-> TRUE, lo |-> f.start, hi |-> f.end, fold |-> f]
\* The view of the first k folds.
Summaries == {Summary(f) : f \in Fold}
View(fs, k) == [i \in 1 .. k |-> Summary(fs[i])]

\* The view of one more fold.
LEMMA ViewGrows ==
    ASSUME NEW fs \in Seq(Fold), NEW k \in 1 .. Len(fs)
    PROVE  View(fs, k - 1) \in Seq(Summaries) /\ View(fs, k) = View(fs, k - 1) \o <<Summary(fs[k])>>
<1> DEFINE v == View(fs, k - 1)
           x == Summary(fs[k])
           w == View(fs, k)
<1>1. \A i \in 1 .. Len(fs) : fs[i] \in Fold /\ Summary(fs[i]) \in Summaries
  BY DEF Summaries
<1>2. k \in Nat /\ k - 1 \in Nat /\ \A i \in 1 .. k : i \in 1 .. Len(fs)
  OBVIOUS
<1>3. v = [i \in 1 .. k - 1 |-> Summary(fs[i])] /\ w = [i \in 1 .. k |-> Summary(fs[i])]
  BY DEF View
<1>4. v \in Seq(Summaries) /\ Len(v) = k - 1 /\ \A i \in 1 .. k - 1 : v[i] = Summary(fs[i])
  <2>1. \A i \in 1 .. k - 1 : i \in 1 .. Len(fs)
    BY <1>2
  <2> HIDE DEF v
  <2> QED
    BY <1>1, <1>2, <1>3, <2>1
<1>5. w \in Seq(Summaries) /\ Len(w) = k /\ \A i \in 1 .. k : w[i] = Summary(fs[i])
  <2> HIDE DEF w
  <2> QED
    BY <1>1, <1>2, <1>3
<1>6. x \in Summaries /\ x = Summary(fs[k])
  BY <1>1
<1> HIDE DEF v, w, x
<1>7. v \o <<x>> \in Seq(Summaries) /\ Len(v \o <<x>>) = k
  BY <1>2, <1>4, <1>6
<1>8. \A i \in 1 .. k : (v \o <<x>>)[i] = w[i]
  <2> SUFFICES ASSUME NEW i \in 1 .. k PROVE (v \o <<x>>)[i] = w[i]
    OBVIOUS
  <2>1. (v \o <<x>>)[i] = IF i <= k - 1 THEN v[i] ELSE x
    BY <1>2, <1>4, <1>6
  <2>2. i <= k - 1 => i \in 1 .. k - 1
    BY <1>2
  <2>3. ~(i <= k - 1) => i = k
    BY <1>2
  <2> QED
    BY <1>4, <1>5, <1>6, <2>1, <2>2, <2>3
<1>9. v \o <<x>> = w
  BY <1>5, <1>7, <1>8
<1> QED
  BY <1>4, <1>9 DEF v, w, x

\* Each fold that fits is placed behind the one before it.
LEMMA PlaceNext ==
    ASSUME IsLog(log), log # <<>>, NEW fs, Fits(log, fs), NEW k \in 1 .. Len(fs)
    PROVE  Place([view |-> View(fs, k - 1), cursor |-> Cursor(fs, k - 1)], fs[k])
              = [view |-> View(fs, k), cursor |-> Cursor(fs, k)]
<1> DEFINE f == fs[k]
           u == LastUser(log)
           v == View(fs, k - 1)
<1>1. /\ f \in Fold /\ f.start = Cursor(fs, k - 1) /\ f.start < f.end /\ f.end <= u
      /\ UserAt(log, f.start) /\ UserAt(log, f.end) /\ fs \in Seq(Fold)
  BY DEF Fits
<1>2. f.start \in Nat /\ f.end \in Nat /\ u \in Nat
  <2>1. UserAt(log, u)
    BY LastUserIs
  <2> QED
    BY <1>1, <2>1 DEF Fold, UserAt
<1>3. f.end \in 1 .. u
  BY <1>1, <1>2
<1>4. AlignStart(f.start) = f.start /\ AlignEnd(f.end) = f.end
  BY <1>1, <1>3, AlignStartIs, AlignEndIs
<1>5. /\ Greatest(f.end, f.start) = f.end /\ Least(f.end, u) = f.end
      /\ Greatest(f.start, f.start) = f.start /\ ~(f.start >= u) /\ ~(f.end <= f.start)
  BY <1>1, <1>2 DEF Greatest, Least
<1>6. Segment(f.start, f.start) = <<>>
  BY <1>2 DEF Segment
<1>7. v \in Seq(Summaries) /\ View(fs, k) = v \o <<Summary(f)>> /\ v \o <<>> = v
  <2>1. v \in Seq(Summaries) /\ View(fs, k) = v \o <<Summary(f)>>
    BY <1>1, ViewGrows
  <2> HIDE DEF v
  <2> QED
    BY <2>1
<1>8. Cursor(fs, k) = f.end
  BY DEF Cursor
<1> DEFINE acc == [view |-> v, cursor |-> f.start]
<1>9. acc.view = v /\ acc.cursor = f.start
  OBVIOUS
<1> HIDE DEF acc, f, v
<1>10. Place(acc, f) = [view |-> v \o <<Summary(f)>>, cursor |-> f.end]
  <2>1. u = ActiveStart
    BY DEF ActiveStart
  <2> HIDE DEF u
  <2> QED
    BY <1>4, <1>5, <1>6, <1>7, <1>9, <2>1 DEF Place, Summary
<1> QED
  BY <1>1, <1>7, <1>8, <1>10 DEF acc, f, v

\* The view is a summary for each fold and the rest of the log.
Rest(fs) == [summary |-> FALSE, lo |-> Cursor(fs, Len(fs)), hi |-> Len(log)]
\* The function that Project computes.
Places(p, fs) ==
    p = [k \in 0 .. Len(fs) |-> IF k = 0 THEN [view |-> <<>>, cursor |-> 0] ELSE Place(p[k - 1], fs[k])]

\* The view is a summary for each fold and then the rest of the log (state.rs:53-104).
LEMMA ProjectIs ==
    ASSUME IsLog(log), log # <<>>, NEW fs, Fits(log, fs)
    PROVE  Project(fs) = View(fs, Len(fs)) \o <<Rest(fs)>>
<1> DEFINE n == Len(fs)
           At(k) == [view |-> View(fs, k), cursor |-> Cursor(fs, k)]
           h == [k \in 0 .. n |-> At(k)]
           p == CHOOSE q : Places(q, fs)
<1>1. n \in Nat /\ fs \in Seq(Fold)
  BY DEF Fits
<1>2. At(0) = [view |-> <<>>, cursor |-> 0]
  BY DEF View, Cursor
<1>3. \A k \in 1 .. n : Place(At(k - 1), fs[k]) = At(k)
  BY PlaceNext
<1> HIDE DEF At
<1>4. Places(h, fs)
  <2>1. \A k \in 0 .. n : h[k] = At(k)
    OBVIOUS
  <2>2. h = [k \in 0 .. n |-> h[k]]
    OBVIOUS
  <2> HIDE DEF h
  <2>3. \A k \in 0 .. n : h[k] = IF k = 0 THEN [view |-> <<>>, cursor |-> 0] ELSE Place(h[k - 1], fs[k])
    <3> SUFFICES ASSUME NEW k \in 0 .. n
                 PROVE  h[k] = IF k = 0 THEN [view |-> <<>>, cursor |-> 0] ELSE Place(h[k - 1], fs[k])
      OBVIOUS
    <3>1. CASE k = 0
      BY <1>2, <2>1, <3>1
    <3>2. CASE k # 0
      <4>1. k \in 1 .. n /\ k - 1 \in 0 .. n
        BY <1>1, <3>2
      <4> QED
        BY <1>3, <2>1, <3>2, <4>1
    <3> QED
      BY <3>1, <3>2
  <2> QED
    BY <2>2, <2>3 DEF Places
<1>5. Places(p, fs)
  BY <1>4
<1>6. Project(fs) = p[n].view \o Segment(p[n].cursor, Len(log))
  BY DEF Project, Places
<1> HIDE DEF p, h
<1>7. p[n] = At(n)
  <2> DEFINE Bad == {k \in 0 .. n : p[k] # At(k)}
  <2>1. \A k \in 0 .. n : p[k] = IF k = 0 THEN [view |-> <<>>, cursor |-> 0] ELSE Place(p[k - 1], fs[k])
    <3> DEFINE g == [k \in 0 .. n |-> IF k = 0 THEN [view |-> <<>>, cursor |-> 0] ELSE Place(p[k - 1], fs[k])]
    <3>1. \A k \in 0 .. n : g[k] = IF k = 0 THEN [view |-> <<>>, cursor |-> 0] ELSE Place(p[k - 1], fs[k])
      OBVIOUS
    <3>2. p = g
      BY <1>5 DEF Places
    <3> HIDE DEF g
    <3> QED
      BY <3>1, <3>2
  <2>2. ASSUME Bad # {} PROVE FALSE
    <3>1. PICK m \in Bad : \A j \in Bad : m <= j
      <4>1. Bad \in SUBSET Nat
        OBVIOUS
      <4> HIDE DEF Bad
      <4> QED
        BY <2>2, <4>1, LeastOf
    <3>2. m \in 0 .. n /\ p[m] # At(m)
      OBVIOUS
    <3>3. m # 0
      BY <1>2, <2>1, <3>2
    <3>4. m \in 1 .. n /\ m - 1 \in 0 .. n /\ ~(m <= m - 1)
      BY <1>1, <3>2, <3>3
    <3>5. p[m - 1] = At(m - 1)
      BY <3>1, <3>4
    <3>6. p[m] = Place(p[m - 1], fs[m])
      BY <2>1, <3>2, <3>3
    <3> QED
      BY <1>3, <3>2, <3>4, <3>5, <3>6
  <2>3. n \in 0 .. n
    BY <1>1
  <2> QED
    BY <2>2, <2>3
<1>8. p[n].view = View(fs, n) /\ p[n].cursor = Cursor(fs, n)
  BY <1>7 DEF At
<1>9. Cursor(fs, n) < Len(log)
  <2>1. UserAt(log, LastUser(log)) /\ Len(log) \in Nat
    BY LastUserIs DEF IsLog
  <2>2. CASE n = 0
    BY <2>1, <2>2 DEF Cursor, UserAt
  <2>3. CASE n # 0
    <3>1. n \in 1 .. Len(fs)
      BY <1>1, <2>3
    <3>2. UserAt(log, fs[n].end)
      BY <3>1 DEF Fits
    <3> QED
      BY <2>3, <3>2 DEF Cursor, UserAt
  <2> QED
    BY <2>2, <2>3
<1>10. Segment(Cursor(fs, n), Len(log)) = <<Rest(fs)>>
  BY <1>9 DEF Segment, Rest
<1> QED
  BY <1>6, <1>8, <1>10

\* The first gap is between the last fold and the newest turn.
LEMMA SkipNext ==
    ASSUME IsLog(log), log # <<>>, NEW fs, Fits(log, fs), NEW k \in 1 .. Len(fs)
    PROVE  Skip([cursor |-> Cursor(fs, k - 1), stop |-> 0, found |-> FALSE], fs[k])
              = [cursor |-> Cursor(fs, k), stop |-> 0, found |-> FALSE]
<1> DEFINE f == fs[k]
           u == LastUser(log)
<1>1. /\ f \in Fold /\ f.start = Cursor(fs, k - 1) /\ f.start < f.end /\ f.end <= u
      /\ UserAt(log, f.start) /\ UserAt(log, f.end)
  BY DEF Fits
<1>2. f.start \in Nat /\ f.end \in Nat /\ u \in Nat
  <2>1. UserAt(log, u)
    BY LastUserIs
  <2> QED
    BY <1>1, <2>1 DEF Fold, UserAt
<1>3. f.end \in 1 .. u
  BY <1>1, <1>2
<1>4. AlignStart(f.start) = f.start /\ AlignEnd(f.end) = f.end
  BY <1>1, <1>3, AlignStartIs, AlignEndIs
<1>5. /\ Least(f.end, u) = f.end /\ Least(f.start, u) = f.start
      /\ Greatest(f.start, f.end) = f.end /\ ~(f.start > f.start)
  BY <1>1, <1>2 DEF Greatest, Least
<1>6. Cursor(fs, k) = f.end
  BY DEF Cursor
<1> DEFINE acc == [cursor |-> f.start, stop |-> 0, found |-> FALSE]
<1>7. acc.cursor = f.start /\ acc.found = FALSE
  OBVIOUS
<1> HIDE DEF acc, f
<1>8. Skip(acc, f) = [cursor |-> f.end, stop |-> 0, found |-> FALSE]
  <2>1. u = FoldableEnd
    BY DEF FoldableEnd
  <2> HIDE DEF u
  <2> QED
    BY <1>4, <1>5, <1>7, <2>1 DEF Skip
<1> QED
  BY <1>1, <1>6, <1>8 DEF acc, f
\* The function that Gap computes.
Skips(p, fs) ==
    p = [k \in 0 .. Len(fs) |-> IF k = 0 THEN [cursor |-> 0, stop |-> 0, found |-> FALSE]
                                ELSE Skip(p[k - 1], fs[k])]

\* What is left to fold goes from the last fold to the newest turn (chunk.rs:180-214).
LEMMA GapIs ==
    ASSUME IsLog(log), log # <<>>, NEW fs, Fits(log, fs)
    PROVE  Gap(fs) = <<Cursor(fs, Len(fs)), LastUser(log)>>
<1> DEFINE n == Len(fs)
           none == [cursor |-> 0, stop |-> 0, found |-> FALSE]
           At(k) == [cursor |-> Cursor(fs, k), stop |-> 0, found |-> FALSE]
           h == [k \in 0 .. n |-> At(k)]
           p == CHOOSE q : Skips(q, fs)
<1>1. n \in Nat
  BY DEF Fits
<1>2. At(0) = none
  BY DEF Cursor
<1>3. \A k \in 1 .. n : Skip(At(k - 1), fs[k]) = At(k)
  BY SkipNext
<1>4. Skips(h, fs)
  <2>1. \A k \in 0 .. n : h[k] = At(k)
    OBVIOUS
  <2>2. h = [k \in 0 .. n |-> h[k]]
    OBVIOUS
  <2> HIDE DEF h, At, none
  <2>3. \A k \in 0 .. n : h[k] = IF k = 0 THEN none ELSE Skip(h[k - 1], fs[k])
    <3> SUFFICES ASSUME NEW k \in 0 .. n
                 PROVE  h[k] = IF k = 0 THEN none ELSE Skip(h[k - 1], fs[k])
      OBVIOUS
    <3>1. CASE k = 0
      BY <1>2, <2>1, <3>1
    <3>2. CASE k # 0
      <4>1. k \in 1 .. n /\ k - 1 \in 0 .. n
        BY <1>1, <3>2
      <4> QED
        BY <1>3, <2>1, <3>2, <4>1
    <3> QED
      BY <3>1, <3>2
  <2> QED
    BY <2>2, <2>3 DEF Skips, none
<1>5. Skips(p, fs)
  BY <1>4
<1>6. Gap(fs) = <<p[n].cursor, IF p[n].found THEN p[n].stop ELSE FoldableEnd>>
  BY DEF Gap, Skips
<1> HIDE DEF p, h, At, none
<1>7. p[n] = At(n)
  <2> DEFINE Bad == {k \in 0 .. n : p[k] # At(k)}
  <2>1. \A k \in 0 .. n : p[k] = IF k = 0 THEN none ELSE Skip(p[k - 1], fs[k])
    <3> DEFINE g == [k \in 0 .. n |-> IF k = 0 THEN none ELSE Skip(p[k - 1], fs[k])]
    <3>1. \A k \in 0 .. n : g[k] = IF k = 0 THEN none ELSE Skip(p[k - 1], fs[k])
      OBVIOUS
    <3>2. p = g
      BY <1>5 DEF Skips, none
    <3> HIDE DEF g
    <3> QED
      BY <3>1, <3>2
  <2>2. ASSUME Bad # {} PROVE FALSE
    <3>1. PICK m \in Bad : \A j \in Bad : m <= j
      <4>1. Bad \in SUBSET Nat
        OBVIOUS
      <4> HIDE DEF Bad
      <4> QED
        BY <2>2, <4>1, LeastOf
    <3>2. m \in 0 .. n /\ p[m] # At(m)
      OBVIOUS
    <3>3. m # 0
      BY <1>2, <2>1, <3>2
    <3>4. m \in 1 .. n /\ m - 1 \in 0 .. n /\ ~(m <= m - 1)
      BY <1>1, <3>2, <3>3
    <3>5. p[m - 1] = At(m - 1)
      BY <3>1, <3>4
    <3>6. p[m] = Skip(p[m - 1], fs[m])
      BY <2>1, <3>2, <3>3
    <3> QED
      BY <1>3, <3>2, <3>4, <3>5, <3>6
  <2>3. n \in 0 .. n
    BY <1>1
  <2> QED
    BY <2>2, <2>3
<1>8. p[n].cursor = Cursor(fs, n) /\ ~p[n].found
  BY <1>7 DEF At
<1> QED
  BY <1>6, <1>8 DEF FoldableEnd

-----------------------------------------------------------------------------
(* The weights *)

\* The weight of a view, by its log and its folds.
LogWeights(l) == [i \in DOMAIN l |-> l[i].w]
FoldWeights(fs) == [k \in 1 .. Len(fs) |-> fs[k].w]
Part(l, lo, hi) == Total(LogWeights(l), hi) - Total(LogWeights(l), lo)
Viewed(l, fs) ==
    RESERVED + Total(FoldWeights(fs), Len(fs)) + Part(l, Cursor(fs, Len(fs)), Len(l))

\* The folds end where a turn begins, at the newest one or before.
LEMMA CursorIs ==
    ASSUME NEW l, IsLog(l), l # <<>>, NEW fs, Fits(l, fs)
    PROVE  UserAt(l, Cursor(fs, Len(fs))) /\ Cursor(fs, Len(fs)) \in 0 .. LastUser(l)
           /\ LastUser(l) \in Nat /\ LastUser(l) < Len(l) /\ Len(l) \in Nat
<1>1. UserAt(l, LastUser(l)) /\ \A i \in Nat : UserAt(l, i) => i <= LastUser(l)
  BY LastUserIs
<1>2. Len(l) \in Nat /\ UserAt(l, 0) /\ Len(fs) \in Nat
  BY DEF IsLog, UserAt, Fits
<1>3. UserAt(l, Cursor(fs, Len(fs)))
  <2>1. CASE Len(fs) = 0
    BY <1>2, <2>1 DEF Cursor
  <2>2. CASE Len(fs) # 0
    <3>1. Len(fs) \in 1 .. Len(fs)
      BY <1>2, <2>2
    <3> QED
      BY <2>2, <3>1 DEF Cursor, Fits
  <2> QED
    BY <2>1, <2>2
<1>4. Cursor(fs, Len(fs)) \in Nat
  BY <1>3 DEF UserAt
<1> QED
  BY <1>1, <1>2, <1>3, <1>4 DEF UserAt

\* Weights of a log rise with its length.
LEMMA WeightsRise ==
    ASSUME NEW l, IsLog(l), NEW a \in 0 .. Len(l), NEW b \in a .. Len(l)
    PROVE  /\ Total(LogWeights(l), a) \in Nat /\ Total(LogWeights(l), b) \in Nat
           /\ Total(LogWeights(l), a) <= Total(LogWeights(l), b)
<1> DEFINE g == LogWeights(l)
<1>1. Len(l) \in Nat /\ \A k \in 1 .. Len(l) : g[k] \in Nat
  <2>1. l \in Seq(Messages) /\ \A m \in Messages : m.w \in Nat
    BY DEF IsLog, Messages
  <2> HIDE DEF Messages
  <2>2. Len(l) \in Nat /\ DOMAIN l = 1 .. Len(l) /\ \A k \in 1 .. Len(l) : l[k] \in Messages
    BY <2>1
  <2> QED
    BY <2>1, <2>2 DEF LogWeights
<1>2. a \in Nat /\ b \in Nat /\ \A k \in 1 .. b : k \in 1 .. Len(l)
  OBVIOUS
<1>3. \A k \in 1 .. a : k \in 1 .. b
  OBVIOUS
<1> HIDE DEF g
<1>4. Total(g, a) \in Nat /\ Total(g, b) \in Nat
  BY <1>1, <1>2, <1>3, TotalIsNat
<1>5. Total(g, a) <= Total(g, b)
  BY <1>1, TotalRises
<1> QED
  BY <1>4, <1>5 DEF g

\* Folds weigh something or nothing.
LEMMA FoldTotalIsNat ==
    ASSUME NEW fs \in Seq(Fold)
    PROVE  Total(FoldWeights(fs), Len(fs)) \in Nat
<1>1. Len(fs) \in Nat /\ \A k \in 1 .. Len(fs) : FoldWeights(fs)[k] \in Nat
  <2>1. \A f \in Fold : f.w \in Nat
    BY DEF Fold
  <2>2. Len(fs) \in Nat /\ \A k \in 1 .. Len(fs) : fs[k] \in Fold
    OBVIOUS
  <2> QED
    BY <2>1, <2>2 DEF FoldWeights
<1> QED
  BY <1>1, TotalIsNat

\* A sequence with one more element.
LEMMA OneMore ==
    ASSUME NEW S, NEW v \in Seq(S), NEW x
    PROVE  /\ Len(v \o <<x>>) = Len(v) + 1 /\ DOMAIN (v \o <<x>>) = 1 .. Len(v) + 1
           /\ (v \o <<x>>)[Len(v) + 1] = x /\ \A k \in 1 .. Len(v) : (v \o <<x>>)[k] = v[k]
<1> DEFINE T == S \cup {x}
<1>1. v \in Seq(T) /\ Len(v) \in Nat
  <2>1. Len(v) \in Nat /\ \A k \in 1 .. Len(v) : v[k] \in T
    OBVIOUS
  <2>2. v = [k \in 1 .. Len(v) |-> v[k]]
    OBVIOUS
  <2> HIDE DEF T
  <2> QED
    BY <2>1, <2>2
<1>2. x \in T
  OBVIOUS
<1> HIDE DEF T
<1> QED
  BY <1>1, <1>2

\* The weight of the view, without going through its segments.
LEMMA ViewWeightIs ==
    ASSUME IsLog(log), log # <<>>, NEW fs, Fits(log, fs)
    PROVE  ViewWeight(fs, "w") = Viewed(log, fs)
<1> DEFINE n == Len(fs)
           view == Project(fs)
           g == [k \in DOMAIN view |-> SegmentWeight(view[k], "w")]
           v == View(fs, n)
           rest == Rest(fs)
<1>1. n \in Nat /\ fs \in Seq(Fold) /\ view = v \o <<rest>>
  BY ProjectIs DEF Fits
<1>2. v = [k \in 1 .. n |-> Summary(fs[k])]
  BY DEF View
<1>3. v \in Seq(Summaries) /\ Len(v) = n /\ \A k \in 1 .. n : v[k] = Summary(fs[k])
  <2>1. \A k \in 1 .. n : Summary(fs[k]) \in Summaries
    BY <1>1 DEF Summaries
  <2> HIDE DEF v
  <2> QED
    BY <1>1, <1>2, <2>1
<1> HIDE DEF v, rest
<1>4. /\ Len(v \o <<rest>>) = n + 1 /\ DOMAIN (v \o <<rest>>) = 1 .. n + 1
      /\ (v \o <<rest>>)[n + 1] = rest /\ \A k \in 1 .. n : (v \o <<rest>>)[k] = v[k]
  BY <1>3, OneMore
<1>5. /\ Len(view) = n + 1 /\ DOMAIN view = 1 .. n + 1
      /\ view[n + 1] = rest /\ \A k \in 1 .. n : view[k] = Summary(fs[k])
  BY <1>1, <1>3, <1>4
<1> HIDE DEF view
<1>6. n + 1 \in 1 .. n + 1 /\ \A k \in 1 .. n : k \in 1 .. n + 1
  BY <1>1
<1>7. g[n + 1] = SegmentWeight(rest, "w") /\ \A k \in 1 .. n : g[k] = SegmentWeight(Summary(fs[k]), "w")
  BY <1>5, <1>6
<1>8. \A k \in 1 .. n : g[k] = FoldWeights(fs)[k]
  BY <1>7 DEF SegmentWeight, Summary, FoldWeights
<1>9. g[n + 1] = Part(log, Cursor(fs, n), Len(log))
  <2>1. Weights("w") = LogWeights(log)
    BY DEF Weights, LogWeights
  <2> QED
    BY <1>7, <2>1 DEF rest, Rest, SegmentWeight, Weight, Part
<1>10. ViewWeight(fs, "w") = RESERVED + Total(g, n + 1)
  BY <1>5 DEF ViewWeight, view
<1> HIDE DEF g
<1>11. Total(g, n + 1) = Total(g, n) + g[n + 1]
  BY <1>1, TotalGrows
<1>12. Total(g, n) = Total(FoldWeights(fs), n)
  BY <1>1, <1>8, TotalAgrees
<1>13. Total(FoldWeights(fs), n) \in Nat /\ Part(log, Cursor(fs, n), Len(log)) \in Int
  <2>1. Cursor(fs, n) \in 0 .. Len(log) /\ Len(log) \in Cursor(fs, n) .. Len(log)
    BY CursorIs
  <2>2. Total(LogWeights(log), Cursor(fs, n)) \in Nat /\ Total(LogWeights(log), Len(log)) \in Nat
    BY <2>1, WeightsRise
  <2> QED
    BY <1>1, <2>2, FoldTotalIsNat DEF Part
<1> HIDE DEF n
<1>14. ViewWeight(fs, "w") = RESERVED + (Total(FoldWeights(fs), n) + Part(log, Cursor(fs, n), Len(log)))
  BY <1>9, <1>10, <1>11, <1>12
<1>15. RESERVED \in Int
  BY CompactAssumption
<1> QED
  BY <1>13, <1>14, <1>15 DEF Viewed, n

-----------------------------------------------------------------------------
(* A fold more *)

\* A chunk is of whole turns from the cursor on, and all of them or heavy enough.
LEMMA PickIs ==
    ASSUME IsLog(log), log # <<>>, NEW fs, Fits(log, fs), NEW min \in Nat
    PROVE  LET c == PickChunk(fs, min) IN
           /\ c[1] = Cursor(fs, Len(fs)) /\ c[2] \in c[1] .. LastUser(log) /\ UserAt(log, c[2])
           /\ c[2] = LastUser(log) \/ Part(log, c[1], c[2]) >= min
<1> DEFINE a == Cursor(fs, Len(fs))
           u == LastUser(log)
           least == Greatest(min, MIN_CHUNK)
           enough == {e \in a + 1 .. u : Weight(a, e, "w") >= least}
           first == CHOOSE e \in enough : \A k \in enough : e <= k
           c == PickChunk(fs, min)
<1>1. Gap(fs) = <<a, u>> /\ UserAt(log, a) /\ a \in 0 .. u /\ u \in Nat /\ u < Len(log) /\ Len(log) \in Nat
  BY GapIs, CursorIs
<1>2. UserAt(log, u)
  BY LastUserIs
<1>3. Gap(fs)[1] = a /\ Gap(fs)[2] = u
  BY <1>1
<1>4. c = IF enough = {} THEN Gap(fs) ELSE <<a, Least(AlignEnd(first), u)>>
  BY <1>3 DEF PickChunk
<1>5. CASE enough = {}
  <2>1. c[1] = a /\ c[2] = u
    BY <1>3, <1>4, <1>5
  <2> HIDE DEF c, a, u
  <2> QED
    BY <1>1, <1>2, <2>1 DEF c, a, u
<1>6. CASE enough # {}
  <2>1. first \in enough
    <3>1. enough \in SUBSET Nat
      BY <1>1
    <3>2. \E e \in enough : \A k \in enough : e <= k
      <4> HIDE DEF enough
      <4> QED
        BY <1>6, <3>1, LeastOf
    <3> QED
      BY <3>2
  <2>2. first \in a + 1 .. u /\ Weight(a, first, "w") >= least
    BY <2>1
  <2> HIDE DEF first, enough
  <2>3. first \in 1 .. u
    BY <1>1, <2>2
  <2> DEFINE e == AlignEnd(first)
  <2>4. e \in first .. u /\ UserAt(log, e)
    BY <2>3, AlignEndIs
  <2> HIDE DEF e
  <2>5. Least(e, u) = e
    BY <1>1, <2>3, <2>4 DEF Least
  <2>6. c[1] = a /\ c[2] = e
    BY <1>4, <1>6, <2>5 DEF e
  <2>7. Part(log, a, e) >= min
    <3>1. first \in 0 .. Len(log) /\ e \in first .. Len(log) /\ a \in 0 .. Len(log) /\ first \in a .. Len(log)
      BY <1>1, <2>2, <2>3, <2>4
    <3>2. /\ Total(LogWeights(log), first) \in Nat /\ Total(LogWeights(log), e) \in Nat
          /\ Total(LogWeights(log), first) <= Total(LogWeights(log), e)
          /\ Total(LogWeights(log), a) \in Nat
      BY <3>1, WeightsRise
    <3>3. Weights("w") = LogWeights(log)
      BY DEF Weights, LogWeights
    <3>4. Total(LogWeights(log), first) - Total(LogWeights(log), a) >= least
      BY <2>2, <3>3 DEF Weight
    <3>5. least \in Nat /\ least >= min
      BY CompactAssumption DEF Greatest
    <3> DEFINE x == Total(LogWeights(log), first)
               y == Total(LogWeights(log), e)
               z == Total(LogWeights(log), a)
    <3>6. x \in Nat /\ y \in Nat /\ z \in Nat /\ x <= y /\ x - z >= least
      BY <3>2, <3>4
    <3> HIDE DEF x, y, z, least
    <3>7. y - z >= min
      BY ONLY <3>5, <3>6, min \in Nat
    <3> QED
      BY <3>7 DEF Part, y, z
  <2>8. e \in a .. u
    BY <1>1, <2>2, <2>4
  <2> HIDE DEF c, a, u
  <2> QED
    BY <2>4, <2>6, <2>7, <2>8 DEF c, a, u
<1> QED
  BY <1>5, <1>6

\* A fold of the first turns that are not folded fits behind the others.
LEMMA FitsMore ==
    ASSUME NEW l, IsLog(l), l # <<>>, NEW fs, Fits(l, fs), NEW f \in Fold,
           f.start = Cursor(fs, Len(fs)), f.start < f.end, f.end <= LastUser(l), UserAt(l, f.end)
    PROVE  /\ Fits(l, Append(fs, f)) /\ Cursor(Append(fs, f), Len(Append(fs, f))) = f.end
           /\ \A k \in 1 .. Len(fs) : fs[k].start <= f.start
           /\ Viewed(l, Append(fs, f)) = Viewed(l, fs) - Part(l, f.start, f.end) + f.w
<1> DEFINE n == Len(fs)
           more == Append(fs, f)
<1>1. /\ fs \in Seq(Fold) /\ n \in Nat /\ more \in Seq(Fold) /\ Len(more) = n + 1
      /\ more[n + 1] = f /\ \A k \in 1 .. n : more[k] = fs[k]
  BY DEF Fits
<1>2. \A k \in 1 .. n : /\ fs[k].start = Cursor(fs, k - 1) /\ fs[k].start < fs[k].end
                        /\ UserAt(l, fs[k].start) /\ UserAt(l, fs[k].end)
                        /\ fs[k].end <= LastUser(l)
  BY DEF Fits
<1>3. \A i, j \in 1 .. n : i < j => fs[i].end <= fs[j].start
  BY DEF Fits
<1>4. \A k \in 1 .. n : fs[k] \in Fold /\ fs[k].start \in Nat /\ fs[k].end \in Nat
  <2>1. \A x \in Fold : x.start \in Nat /\ x.end \in Nat
    BY DEF Fold
  <2>2. \A k \in 1 .. n : fs[k] \in Fold
    BY <1>1
  <2> QED
    BY <2>1, <2>2
<1>5. f.start \in Nat /\ f.end \in Nat /\ f.w \in Nat
  BY DEF Fold
<1>6. \A k \in 1 .. n : fs[k].end <= f.start
  <2> SUFFICES ASSUME NEW k \in 1 .. n PROVE fs[k].end <= f.start
    OBVIOUS
  <2>1. n \in 1 .. n /\ n # 0
    BY <1>1
  <2>2. f.start = fs[n].end
    BY <2>1 DEF Cursor
  <2>3. CASE k = n
    BY <1>4, <2>1, <2>2, <2>3
  <2>4. CASE k # n
    <3>1. k < n
      BY <1>1, <2>4
    <3>2. fs[k].end <= fs[n].start /\ fs[n].start < fs[n].end
      BY <1>2, <1>3, <2>1, <3>1
    <3> QED
      BY <1>4, <2>1, <2>2, <3>2
  <2> QED
    BY <2>3, <2>4
<1>7. UserAt(l, f.start)
  BY CursorIs
<1> HIDE DEF more, n
<1>8. \A k \in 0 .. n : Cursor(more, k) = Cursor(fs, k)
  BY <1>1 DEF Cursor
<1>9. \A k \in 1 .. n + 1 : k - 1 \in 0 .. n /\ (k \in 1 .. n \/ k = n + 1)
  BY <1>1
<1>10. \A k \in 1 .. n + 1 : /\ more[k].start = Cursor(more, k - 1) /\ more[k].start < more[k].end
                             /\ UserAt(l, more[k].start) /\ UserAt(l, more[k].end)
                             /\ more[k].end <= LastUser(l)
  <2> SUFFICES ASSUME NEW k \in 1 .. n + 1
               PROVE  /\ more[k].start = Cursor(more, k - 1) /\ more[k].start < more[k].end
                      /\ UserAt(l, more[k].start) /\ UserAt(l, more[k].end)
                      /\ more[k].end <= LastUser(l)
    OBVIOUS
  <2>1. CASE k \in 1 .. n
    BY <1>1, <1>2, <1>8, <1>9, <2>1
  <2>2. CASE k = n + 1
    <3>1. more[k] = f /\ k - 1 = n
      BY <1>1, <2>2
    <3>2. Cursor(more, n) = f.start
      BY <1>1, <1>8 DEF n
    <3> QED
      BY <1>7, <3>1, <3>2
  <2> QED
    BY <1>9, <2>1, <2>2
<1>11. \A i, j \in 1 .. n + 1 : i < j => more[i].end <= more[j].start
  <2> SUFFICES ASSUME NEW i \in 1 .. n + 1, NEW j \in 1 .. n + 1, i < j
               PROVE  more[i].end <= more[j].start
    OBVIOUS
  <2>1. i \in 1 .. n
    BY <1>1
  <2>2. CASE j \in 1 .. n
    BY <1>1, <1>3, <2>1, <2>2
  <2>3. CASE j = n + 1
    BY <1>1, <1>6, <2>1, <2>3
  <2> QED
    BY <1>9, <2>2, <2>3
<1>12. Fits(l, more)
  BY <1>1, <1>10, <1>11 DEF Fits
<1>13. Cursor(more, n + 1) = f.end
  BY <1>1 DEF Cursor
<1>14. \A k \in 1 .. n : fs[k].start <= f.start
  BY <1>2, <1>4, <1>5, <1>6
<1>15. Viewed(l, more) = Viewed(l, fs) - Part(l, f.start, f.end) + f.w
  <2> DEFINE g == FoldWeights(more)
             s == Total(FoldWeights(fs), n)
             a == Total(LogWeights(l), f.start)
             b == Total(LogWeights(l), f.end)
             z == Total(LogWeights(l), Len(l))
  <2>1. Total(g, n + 1) = Total(g, n) + g[n + 1] /\ Total(g, n) = s
    <3>1. \A k \in 1 .. n : g[k] = FoldWeights(fs)[k]
      BY <1>1, <1>9 DEF FoldWeights, n
    <3> HIDE DEF g
    <3> QED
      BY <1>1, <3>1, TotalGrows, TotalAgrees
  <2>2. g[n + 1] = f.w
    BY <1>1, <1>9 DEF FoldWeights
  <2>3. s \in Nat
    BY <1>1, FoldTotalIsNat DEF n
  <2>4. a \in Nat /\ b \in Nat /\ z \in Nat
    <3>1. /\ f.start \in 0 .. Len(l) /\ f.end \in f.start .. Len(l)
          /\ f.end \in 0 .. Len(l) /\ Len(l) \in f.end .. Len(l)
      BY <1>5, CursorIs
    <3> QED
      BY <3>1, WeightsRise
  <2>5. RESERVED \in Int
    BY CompactAssumption
  <2>6. Viewed(l, more) = RESERVED + (s + f.w) + (z - b)
    BY <1>1, <1>13, <2>1, <2>2 DEF Viewed, Part
  <2>7. Viewed(l, fs) = RESERVED + s + (z - a)
    BY DEF Viewed, Part, n
  <2>8. Part(l, f.start, f.end) = b - a
    BY DEF Part
  <2> HIDE DEF s, a, b, z, g
  <2> QED
    BY <1>5, <2>3, <2>4, <2>5, <2>6, <2>7, <2>8
<1> QED
  BY <1>1, <1>12, <1>13, <1>14, <1>15 DEF more, n

\* The folds of a log that fit show all of it.
LEMMA FittingIsWhole ==
    ASSUME IsLog(log), Fits(log, folds)
    PROVE  ViewIsWhole
<1> SUFFICES ASSUME log # <<>>
             PROVE  LET view == Project(folds) IN
                    /\ view # <<>> /\ view[1].lo = 0 /\ view[Len(view)].hi = Len(log)
                    /\ \A k \in 1 .. Len(view) :
                          /\ k > 1 => view[k].lo = view[k - 1].hi
                          /\ view[k].summary => /\ view[k].lo = view[k].fold.start
                                                /\ view[k].hi = view[k].fold.end
                                                /\ view[k].hi <= LastUser(log)
                                                /\ IsUser(view[k].lo) /\ IsUser(view[k].hi)
  BY DEF ViewIsWhole
<1> DEFINE n == Len(folds)
           v == View(folds, n)
           view == Project(folds)
           rest == Rest(folds)
<1>1. n \in Nat /\ folds \in Seq(Fold) /\ view = v \o <<rest>>
  BY ProjectIs DEF Fits
<1>2. v \in Seq(Summaries) /\ Len(v) = n /\ \A k \in 1 .. n : v[k] = Summary(folds[k])
  <2>1. \A k \in 1 .. n : Summary(folds[k]) \in Summaries
    BY <1>1 DEF Summaries
  <2>2. v = [k \in 1 .. n |-> Summary(folds[k])]
    BY DEF View
  <2> HIDE DEF v
  <2> QED
    BY <1>1, <2>1, <2>2
<1> HIDE DEF v, rest
<1>3. /\ Len(view) = n + 1 /\ DOMAIN view = 1 .. n + 1
      /\ view[n + 1] = rest /\ \A k \in 1 .. n : view[k] = Summary(folds[k])
  <2>1. /\ Len(v \o <<rest>>) = n + 1 /\ DOMAIN (v \o <<rest>>) = 1 .. n + 1
        /\ (v \o <<rest>>)[n + 1] = rest /\ \A k \in 1 .. n : (v \o <<rest>>)[k] = v[k]
    BY <1>2, OneMore
  <2> HIDE DEF view, n
  <2> QED
    BY <1>1, <1>2, <2>1
<1> HIDE DEF view
<1>4. view # <<>>
  BY <1>1, <1>3
<1>5. rest.lo = Cursor(folds, n) /\ rest.hi = Len(log) /\ rest.summary = FALSE
  BY DEF rest, Rest
<1>6. \A k \in 1 .. n : /\ view[k].lo = folds[k].start /\ view[k].hi = folds[k].end
                        /\ view[k].fold = folds[k]
  <2> SUFFICES ASSUME NEW k \in 1 .. n
               PROVE  /\ view[k].lo = folds[k].start /\ view[k].hi = folds[k].end
                      /\ view[k].fold = folds[k]
    OBVIOUS
  <2>1. view[k] = Summary(folds[k])
    BY <1>3
  <2> QED
    BY <2>1 DEF Summary
<1>7. \A k \in 1 .. n : /\ folds[k].start = Cursor(folds, k - 1) /\ folds[k].end <= LastUser(log)
                        /\ UserAt(log, folds[k].start) /\ UserAt(log, folds[k].end)
  BY DEF Fits
<1>8. \A k \in 1 .. n + 1 : view[k].lo = Cursor(folds, k - 1)
  <2> SUFFICES ASSUME NEW k \in 1 .. n + 1 PROVE view[k].lo = Cursor(folds, k - 1)
    OBVIOUS
  <2>1. CASE k \in 1 .. n
    BY <1>6, <1>7, <2>1
  <2>2. CASE k = n + 1
    <3>1. k - 1 = n
      BY <1>1, <2>2
    <3> QED
      BY <1>3, <1>5, <2>2, <3>1
  <2>3. k \in 1 .. n \/ k = n + 1
    BY <1>1
  <2> QED
    BY <2>1, <2>2, <2>3
<1>9. view[1].lo = 0
  <2>1. 1 \in 1 .. n + 1 /\ 1 - 1 = 0
    BY <1>1
  <2>2. Cursor(folds, 0) = 0
    BY DEF Cursor
  <2> QED
    BY <1>8, <2>1, <2>2
<1>10. ASSUME NEW k \in 1 .. n + 1, k > 1 PROVE view[k].lo = view[k - 1].hi
  <2>1. k - 1 \in 1 .. n /\ k - 1 # 0
    BY <1>1, <1>10
  <2>2. Cursor(folds, k - 1) = folds[k - 1].end
    BY <2>1 DEF Cursor
  <2> QED
    BY <1>6, <1>8, <2>1, <2>2
<1>11. ASSUME NEW k \in 1 .. n + 1, view[k].summary
       PROVE  /\ view[k].lo = view[k].fold.start /\ view[k].hi = view[k].fold.end
              /\ view[k].hi <= LastUser(log) /\ IsUser(view[k].lo) /\ IsUser(view[k].hi)
  <2>1. k # n + 1
    BY <1>3, <1>5, <1>11
  <2>2. k \in 1 .. n
    BY <1>1, <2>1
  <2> QED
    BY <1>6, <1>7, <2>2 DEF UserAt, IsUser
<1>12. view[Len(view)].hi = Len(log)
  BY <1>3, <1>5
<1> QED
  BY <1>3, <1>4, <1>9, <1>10, <1>11, <1>12 DEF view

-----------------------------------------------------------------------------
(* The invariant *)

\* What is about to be folded: finished turns from the cursor on, and all of them or heavy
\* enough for any summary.
ChunkInv ==
    compactor.pc = "summarize" =>
        LET c == compactor.chunk IN
        /\ c[1] = Cursor(folds, Len(folds)) /\ c[1] < c[2]
        /\ c[2] \in Nat /\ c[2] <= LastUser(log) /\ UserAt(log, c[2])
        /\ c[2] = LastUser(log)
           \/ Viewed(log, folds) - Part(log, c[1], c[2]) + MAX_SUMMARY <= TARGET

\* OneFoldReachesTarget, by the log and the folds.
TargetInv ==
    compactor.pc = "pass" /\ compactor.guard > 0 /\ Cursor(folds, Len(folds)) < LastUser(log)
        => Viewed(log, folds) <= TARGET
\* The inductive invariant of the compaction.
RollingInv ==
    /\ IsLog(log) /\ Fits(log, folds)
    /\ rolling.len \in 0 .. Len(log) /\ Fits(SubSeq(log, 1, rolling.len), rolling.folds)
    /\ compactor.pc # "idle" => log # <<>>
    /\ ChunkInv /\ TargetInv /\ NothingOverTheWall

\* The folds of a log fit it when messages were added.
LEMMA FitsStay ==
    ASSUME NEW l, NEW t \in Seq(Messages), NEW fs, IsLog(l), IsLog(l \o t), Fits(l, fs)
    PROVE  Fits(l \o t, fs)
<1>1. Len(l) \in Nat /\ l \in Seq(Messages)
  BY DEF IsLog
<1>2. ASSUME NEW k \in 1 .. Len(fs)
      PROVE  /\ UserAt(l \o t, fs[k].start) /\ UserAt(l \o t, fs[k].end)
             /\ fs[k].end <= LastUser(l \o t)
  <2>1. UserAt(l, fs[k].start) /\ UserAt(l, fs[k].end) /\ fs[k].end <= LastUser(l)
    BY <1>2 DEF Fits
  <2>2. l # <<>> /\ fs[k].start \in Nat /\ fs[k].end \in Nat
    BY <1>1, <2>1 DEF UserAt
  <2>3. UserAt(l \o t, fs[k].start) /\ UserAt(l \o t, fs[k].end) /\ LastUser(l) <= LastUser(l \o t)
    BY <2>1, <2>2, TurnsStay
  <2>4. l \o t # <<>> /\ LastUser(l) \in Nat /\ LastUser(l \o t) \in Nat
    <3>1. Len(l \o t) \in Nat /\ Len(l \o t) > 0 /\ l \o t \in Seq(Messages)
      BY <1>1, <2>3 DEF UserAt
    <3>2. l \o t # <<>>
      BY <3>1
    <3> QED
      BY <2>2, <3>2, LastUserIs DEF UserAt
  <2> QED
    BY <2>1, <2>2, <2>3, <2>4
<1> QED
  BY <1>2 DEF Fits

\* Messages are added to the log; nothing is folded meanwhile.
LEMMA AppendKeeps ==
    ASSUME RollingInv, NEW t \in Seq(Messages), log' = log \o t, IsLog(log'), UNCHANGED <<folds, sentWeight>>,
           log' # <<>>, compactor'.pc \in {"iterate", "ending"},
           \/ UNCHANGED rolling
           \/ rolling' = [len |-> Len(log), folds |-> folds]
    PROVE  RollingInv'
<1>1. /\ IsLog(log) /\ Fits(log, folds) /\ rolling.len \in 0 .. Len(log)
      /\ Fits(SubSeq(log, 1, rolling.len), rolling.folds)
      /\ log \in Seq(Messages) /\ Len(log) \in Nat /\ Len(t) \in Nat
  BY DEF RollingInv, IsLog
<1>2. Fits(log', folds')
  BY <1>1, FitsStay
<1>3. /\ Len(log \o t) = Len(log) + Len(t) /\ SubSeq(log \o t, 1, Len(log)) = log
      /\ \A m \in 0 .. Len(log) : SubSeq(log \o t, 1, m) = SubSeq(log, 1, m)
  BY <1>1
<1>4. rolling'.len \in 0 .. Len(log') /\ Fits(SubSeq(log', 1, rolling'.len), rolling'.folds)
  <2>1. CASE UNCHANGED rolling
    <3>1. rolling'.len = rolling.len /\ rolling'.folds = rolling.folds
      BY <2>1
    <3>2. rolling.len \in 0 .. Len(log')
      BY <1>1, <1>3
    <3> QED
      BY <1>1, <1>3, <3>1, <3>2
  <2>2. CASE rolling' = [len |-> Len(log), folds |-> folds]
    <3>1. rolling'.len = Len(log) /\ rolling'.folds = folds
      BY <2>2
    <3>2. Len(log) \in 0 .. Len(log')
      BY <1>1, <1>3
    <3> QED
      BY <1>1, <1>3, <3>1, <3>2
  <2> QED
    BY <2>1, <2>2
<1>5. ChunkInv' /\ TargetInv' /\ NothingOverTheWall'
  BY DEF RollingInv, ChunkInv, TargetInv, NothingOverTheWall
<1> QED
  BY <1>2, <1>4, <1>5 DEF RollingInv

\* The compactor goes on without folding.
LEMMA IdleKeeps ==
    ASSUME RollingInv, UNCHANGED <<log, folds, rolling>>, sentWeight' <= WALL,
           \/ compactor'.pc \in {"iterate", "built", "sent", "ending"} /\ log # <<>>
           \/ compactor'.pc = "idle"
           \/ compactor'.pc = "pass" /\ ~(compactor'.guard > 0) /\ log # <<>>
    PROVE  RollingInv'
<1>1. ChunkInv' /\ TargetInv' /\ NothingOverTheWall'
  BY DEF ChunkInv, TargetInv, NothingOverTheWall
<1> QED
  BY <1>1 DEF RollingInv

\* A chunk is picked.
LEMMA PickKeeps ==
    ASSUME RollingInv, PassPicks
    PROVE  RollingInv'
<1> DEFINE projected == ViewWeight(folds, "w")
           min == RequestedWeight(projected)
           c == PickChunk(folds, min)
<1>1. IsLog(log) /\ Fits(log, folds) /\ log # <<>> /\ sentWeight <= WALL /\ UNCHANGED <<log, folds, rolling, sentWeight>>
  BY DEF RollingInv, PassPicks, NothingOverTheWall
<1>2. CASE compactor' = [pc |-> "built"]
  BY <1>1, <1>2, IdleKeeps
<1>3. CASE /\ ChunkWeight(c) >= MIN_CHUNK
           /\ compactor' = [pc |-> "summarize", guard |-> compactor.guard + 1, chunk |-> c,
                            projected |-> projected]
  <2>1. projected = Viewed(log, folds) /\ projected \in Int
    <3>1. /\ Cursor(folds, Len(folds)) \in 0 .. Len(log)
          /\ Len(log) \in Cursor(folds, Len(folds)) .. Len(log) /\ folds \in Seq(Fold)
      BY <1>1, CursorIs DEF Fits
    <3>2. /\ Total(LogWeights(log), Cursor(folds, Len(folds))) \in Nat
          /\ Total(LogWeights(log), Len(log)) \in Nat
          /\ Total(FoldWeights(folds), Len(folds)) \in Nat
      BY <1>1, <3>1, WeightsRise, FoldTotalIsNat
    <3>3. projected = Viewed(log, folds)
      BY <1>1, ViewWeightIs
    <3> HIDE DEF projected
    <3> QED
      BY <3>2, <3>3, CompactAssumption DEF Viewed, Part
  <2> HIDE DEF projected
  <2>2. min \in Nat /\ min >= projected - TARGET + MAX_SUMMARY
    BY <2>1, CompactAssumption DEF RequestedWeight, Greatest
  <2> HIDE DEF min
  <2>3. /\ c[1] = Cursor(folds, Len(folds)) /\ c[2] \in c[1] .. LastUser(log) /\ UserAt(log, c[2])
        /\ c[2] = LastUser(log) \/ Part(log, c[1], c[2]) >= min
    BY <1>1, <2>2, PickIs
  <2>4. Cursor(folds, Len(folds)) \in 0 .. LastUser(log) /\ LastUser(log) \in Nat /\ LastUser(log) < Len(log) /\ Len(log) \in Nat
    BY <1>1, CursorIs
  <2> HIDE DEF c
  <2>5. c[1] \in Nat /\ c[2] \in Nat /\ c[2] <= LastUser(log)
    BY <2>3, <2>4
  <2>6. c[1] < c[2]
    <3>1. ~(0 >= MIN_CHUNK)
      BY CompactAssumption
    <3> QED
      BY <1>3, <3>1 DEF ChunkWeight
  <2>7. c[2] = LastUser(log) \/ Viewed(log, folds) - Part(log, c[1], c[2]) + MAX_SUMMARY <= TARGET
    <3>1. ASSUME Part(log, c[1], c[2]) >= min
          PROVE  Viewed(log, folds) - Part(log, c[1], c[2]) + MAX_SUMMARY <= TARGET
      <4>1. c[1] \in 0 .. Len(log) /\ c[2] \in c[1] .. Len(log)
        BY <2>3, <2>4, <2>5
      <4>2. Total(LogWeights(log), c[1]) \in Nat /\ Total(LogWeights(log), c[2]) \in Nat
        BY <1>1, <4>1, WeightsRise
      <4>3. Part(log, c[1], c[2]) \in Int
        BY <4>2 DEF Part
      <4> DEFINE x == Part(log, c[1], c[2])
      <4>4. x \in Int /\ x >= min
        BY <3>1, <4>3
      <4> HIDE DEF x
      <4>5. MAX_SUMMARY \in Nat /\ TARGET \in Nat
        BY CompactAssumption
      <4>6. projected - x + MAX_SUMMARY <= TARGET
        BY <2>1, <2>2, <4>4, <4>5
      <4> QED
        BY <2>1, <4>6 DEF x
    <3> QED
      BY <2>3, <3>1
  <2>8. compactor'.pc = "summarize" /\ compactor'.chunk = c
    BY <1>3
  <2>9. ChunkInv'
    BY <1>1, <2>3, <2>5, <2>6, <2>7, <2>8 DEF ChunkInv
  <2>10. TargetInv' /\ NothingOverTheWall'
    BY <1>1, <2>8 DEF TargetInv, NothingOverTheWall
  <2> QED
    BY <1>1, <2>9, <2>10 DEF RollingInv
<1> QED
  BY <1>2, <1>3 DEF PassPicks

\* A summary takes its place behind the others.
LEMMA FoldKeeps ==
    ASSUME RollingInv, NEW w \in SummaryWeights, SummaryArrives(w)
    PROVE  RollingInv'
<1> DEFINE c == compactor.chunk
           f == [start |-> c[1], end |-> c[2], w |-> w]
           n == Len(folds)
           u == LastUser(log)
<1>1. /\ IsLog(log) /\ Fits(log, folds) /\ log # <<>> /\ UNCHANGED <<log, rolling, sentWeight>>
      /\ sentWeight <= WALL /\ compactor.pc = "summarize"
  BY DEF RollingInv, SummaryArrives, NothingOverTheWall
<1>2. CASE compactor' = [pc |-> "built"] /\ UNCHANGED folds
  BY <1>1, <1>2, IdleKeeps
<1>3. CASE folds' = Folded(w) /\ compactor' = [pc |-> "pass", guard |-> compactor.guard]
  <2>1. /\ c[1] = Cursor(folds, n) /\ c[1] < c[2] /\ c[2] \in Nat /\ c[2] <= u /\ UserAt(log, c[2])
        /\ c[2] = u \/ Viewed(log, folds) - Part(log, c[1], c[2]) + MAX_SUMMARY <= TARGET
    BY <1>1 DEF RollingInv, ChunkInv
  <2>2. Cursor(folds, n) \in 0 .. u /\ u \in Nat /\ u < Len(log) /\ Len(log) \in Nat
    BY <1>1, CursorIs
  <2>3. w \in Nat /\ w <= MAX_SUMMARY /\ MAX_SUMMARY \in Nat /\ TARGET \in Nat
    BY CompactAssumption
  <2> HIDE DEF c, n, u
  <2>4. f \in Fold /\ f.start = c[1] /\ f.end = c[2] /\ f.w = w
    BY <2>1, <2>2, <2>3 DEF Fold
  <2>5. /\ Fits(log, Append(folds, f)) /\ Cursor(Append(folds, f), Len(Append(folds, f))) = f.end
        /\ \A k \in 1 .. n : folds[k].start <= f.start
        /\ Viewed(log, Append(folds, f)) = Viewed(log, folds) - Part(log, f.start, f.end) + f.w
    <3> HIDE DEF f
    <3>1. f.start = Cursor(folds, Len(folds)) /\ f.start < f.end /\ f.end <= LastUser(log) /\ UserAt(log, f.end)
      BY <2>1, <2>4 DEF n, u
    <3> QED
      BY <1>1, <2>4, <3>1, FitsMore DEF n
  <2>6. folds' = Append(folds, f)
    <3> DEFINE at == CHOOSE k \in 0 .. Len(folds) :
                        \A i \in DOMAIN folds : folds[i].start <= f.start <=> i <= k
    <3>1. folds' = SubSeq(folds, 1, at) \o <<f>> \o SubSeq(folds, at + 1, Len(folds))
      BY <1>3 DEF Folded, c
    <3>2. folds \in Seq(Fold) /\ DOMAIN folds = 1 .. n /\ n \in Nat /\ n = Len(folds)
      BY <1>1 DEF Fits, n
    <3> HIDE DEF f
    <3>3. n \in 0 .. n /\ \A i \in 1 .. n : i <= n
      BY <3>2
    <3>4. \E k \in 0 .. Len(folds) : \A i \in DOMAIN folds : folds[i].start <= f.start <=> i <= k
      BY <2>5, <3>2, <3>3
    <3>5. at \in 0 .. Len(folds) /\ \A i \in DOMAIN folds : folds[i].start <= f.start <=> i <= at
      BY <3>4
    <3> HIDE DEF at
    <3>6. at = n
      <4>1. CASE n = 0
        BY <3>2, <3>5, <4>1
      <4>2. CASE n # 0
        <5>1. n \in 1 .. n
          BY <3>2, <4>2
        <5>2. n <= at
          BY <2>5, <3>2, <3>5, <5>1
        <5>3. at \in 0 .. n /\ n \in Nat
          BY <3>2, <3>5
        <5> QED
          BY <5>2, <5>3
      <4> QED
        BY <4>1, <4>2
    <3>7. SubSeq(folds, 1, n) = folds /\ SubSeq(folds, n + 1, n) = <<>>
      BY <3>2
    <3>8. folds \o <<f>> \o <<>> = Append(folds, f)
      BY <2>4, <3>2
    <3> QED
      BY <3>1, <3>2, <3>6, <3>7, <3>8
  <2>7. PICK more : more = Append(folds, f)
    OBVIOUS
  <2>8. Fits(log, more) /\ Cursor(more, Len(more)) = c[2] /\ folds' = more
    BY <2>4, <2>5, <2>6, <2>7
  <2>9. Viewed(log, more) = Viewed(log, folds) - Part(log, c[1], c[2]) + w
    BY <2>4, <2>5, <2>7
  <2>10. ASSUME c[2] < u PROVE Viewed(log, more) <= TARGET
    <3>1. Viewed(log, folds) - Part(log, c[1], c[2]) + MAX_SUMMARY <= TARGET
      BY <2>1, <2>2, <2>10
    <3>2. Viewed(log, folds) \in Int /\ Part(log, c[1], c[2]) \in Int
      <4>1. /\ c[1] \in 0 .. Len(log) /\ c[2] \in c[1] .. Len(log)
            /\ Len(log) \in c[1] .. Len(log)
        BY <2>1, <2>2
      <4>2. /\ Total(LogWeights(log), c[1]) \in Nat /\ Total(LogWeights(log), c[2]) \in Nat
            /\ Total(LogWeights(log), Len(log)) \in Nat
        BY <1>1, <4>1, WeightsRise
      <4>3. Total(FoldWeights(folds), n) \in Nat /\ RESERVED \in Nat
        BY <1>1, FoldTotalIsNat, CompactAssumption DEF Fits, n
      <4> QED
        BY <2>1, <4>2, <4>3 DEF Viewed, Part, n
    <3> DEFINE x == Viewed(log, folds)
               y == Part(log, c[1], c[2])
    <3>3. x \in Int /\ y \in Int /\ x - y + MAX_SUMMARY <= TARGET
      BY <3>1, <3>2
    <3> HIDE DEF x, y
    <3>4. x - y + w <= TARGET
      BY <2>3, <3>3
    <3> QED
      BY <2>9, <3>4 DEF x, y
  <2>11. compactor'.pc = "pass"
    BY <1>3
  <2>12. TargetInv'
    <3>1. Cursor(folds', Len(folds')) = c[2] /\ LastUser(log') = u
      BY <1>1, <2>8 DEF u
    <3>2. Viewed(log', folds') = Viewed(log, more)
      BY <1>1, <2>8
    <3> QED
      BY <2>10, <3>1, <3>2 DEF TargetInv
  <2>13. ChunkInv' /\ NothingOverTheWall'
    BY <1>1, <2>11 DEF ChunkInv, NothingOverTheWall
  <2> QED
    BY <1>1, <2>8, <2>12, <2>13 DEF RollingInv
<1> QED
  BY <1>2, <1>3 DEF SummaryArrives

\* A request sees the whole transcript: the view covers the log once and in order, a summary
\* stands for the turns it was made from, one fold reaches the target whatever its summary
\* weighs, and nothing over the wall is sent (state.rs, chunk.rs, Runner::run).
THEOREM CompactionStaysSound == CompactSpec => []CompactionIsSound
<1>1. CompactInit => RollingInv
  <2> SUFFICES ASSUME CompactInit PROVE RollingInv
    OBVIOUS
  <2>1. /\ log = <<>> /\ folds = <<>> /\ compactor.pc = "idle" /\ rolling.len = 0
        /\ rolling.folds = <<>> /\ sentWeight = 0
    BY DEF CompactInit
  <2>2. <<>> \in Seq(Messages) /\ <<>> \in Seq(Fold) /\ Len(<<>>) = 0 /\ SubSeq(<<>>, 1, 0) = <<>>
    OBVIOUS
  <2>3. IsLog(<<>>) /\ \A l : Fits(l, <<>>)
    BY <2>2 DEF IsLog, Fits
  <2>4. ChunkInv /\ TargetInv
    BY <2>1 DEF ChunkInv, TargetInv
  <2>5. NothingOverTheWall
    BY <2>1, CompactAssumption DEF NothingOverTheWall
  <2>6. 0 \in 0 .. 0
    OBVIOUS
  <2> QED
    BY <2>1, <2>2, <2>3, <2>4, <2>5, <2>6 DEF RollingInv
<1>2. RollingInv /\ [CompactNext]_compactVars => RollingInv'
  <2> SUFFICES ASSUME RollingInv, [CompactNext]_compactVars PROVE RollingInv'
    OBVIOUS
  <2>1. /\ IsLog(log) /\ log \in Seq(Messages) /\ (compactor.pc # "idle" => log # <<>>)
        /\ sentWeight <= WALL
    BY DEF RollingInv, IsLog, NothingOverTheWall
  <2>2. CASE PromptArrives
    <3>1. PICK p \in Prompts : log' = Append(log, p)
      BY <2>2 DEF PromptArrives
    <3>2. p \in Messages /\ p.role = "user" /\ <<p>> \in Seq(Messages)
      BY CompactAssumption
    <3>3. log' = log \o <<p>> /\ log' \in Seq(Messages) /\ log' # <<>> /\ (log = <<>> => log'[1] = p) /\ (log # <<>> => log'[1] = log[1])
      <4> HIDE DEF Messages
      <4> QED
        BY <2>1, <3>1, <3>2
    <3>4. IsLog(log')
      BY <2>1, <3>2, <3>3 DEF IsLog
    <3> QED
      BY <2>2, <3>2, <3>3, <3>4, AppendKeeps DEF PromptArrives
  <2>3. CASE Iterate
    <3>1. ~(0 > 0)
      OBVIOUS
    <3> QED
      BY <2>1, <2>3, <3>1, IdleKeeps DEF Iterate
  <2>4. CASE PassPicks
    BY <2>4, PickKeeps
  <2>5. CASE SummaryFails
    BY <2>1, <2>5, IdleKeeps DEF SummaryFails
  <2>6. CASE SendRequest
    BY <2>1, <2>6, IdleKeeps DEF SendRequest, FitsTheWall
  <2>7. CASE Answer
    <3>1. PICK t \in Turns : log' = log \o t /\ compactor' = [pc |-> IF t[Len(t)].role = "tool" THEN "iterate" ELSE "ending"]
      BY <2>7 DEF Answer
    <3>2. t \in Seq(Messages)
      BY CompactAssumption
    <3>3. log # <<>>
      BY <2>1, <2>7 DEF Answer
    <3>4. log' \in Seq(Messages) /\ log' # <<>> /\ log'[1] = log[1]
      <4> HIDE DEF Messages
      <4> QED
        BY <2>1, <3>1, <3>2, <3>3
    <3>5. IsLog(log')
      BY <2>1, <3>3, <3>4 DEF IsLog
    <3> QED
      BY <2>7, <3>1, <3>2, <3>4, <3>5, AppendKeeps DEF Answer
  <2>8. CASE RunBreaks
    BY <2>1, <2>8, IdleKeeps DEF RunBreaks
  <2>9. CASE RunIsSaved
    BY <2>1, <2>9, IdleKeeps DEF RunIsSaved
  <2>10. CASE RunRollsBack
    <3> DEFINE m == rolling.len
               l == SubSeq(log, 1, m)
    <3>1. m \in 0 .. Len(log) /\ Fits(l, rolling.folds) /\ Len(log) \in Nat
      BY <2>1 DEF RollingInv
    <3>2. /\ l \in Seq(Messages) /\ Len(l) = m /\ (l # <<>> => l[1] = log[1] /\ log # <<>>)
          /\ SubSeq(l, 1, m) = l
      <4> HIDE DEF Messages, m
      <4> QED
        BY <2>1, <3>1
    <3>3. IsLog(l)
      BY <2>1, <3>2 DEF IsLog
    <3>4. /\ log' = l /\ folds' = rolling.folds /\ rolling' = rolling /\ compactor'.pc = "idle"
          /\ sentWeight' = sentWeight
      BY <2>10 DEF RunRollsBack, RestoredFolds
    <3>5. ChunkInv' /\ TargetInv' /\ NothingOverTheWall'
      BY <2>1, <3>4 DEF ChunkInv, TargetInv, NothingOverTheWall
    <3>6. m \in 0 .. m
      BY <3>1
    <3> HIDE DEF l
    <3> QED
      BY <3>1, <3>2, <3>3, <3>4, <3>5, <3>6 DEF RollingInv
  <2>11. CASE Restart
    <3>1. <<>> \in Seq(Fold) /\ Len(<<>>) = 0
      OBVIOUS
    <3>2. Fits(log, <<>>)
      BY <3>1 DEF Fits
    <3>3. ChunkInv' /\ TargetInv' /\ NothingOverTheWall'
      BY <2>1, <2>11 DEF Restart, ChunkInv, TargetInv, NothingOverTheWall
    <3> QED
      BY <2>11, <3>2, <3>3 DEF Restart, RollingInv
  <2>12. ASSUME NEW w \in SummaryWeights, SummaryArrives(w) PROVE RollingInv'
    BY <2>12, FoldKeeps
  <2>13. CASE UNCHANGED compactVars
    <3>1. ChunkInv' /\ TargetInv' /\ NothingOverTheWall'
      BY <2>13 DEF RollingInv, ChunkInv, TargetInv, NothingOverTheWall, compactVars
    <3> QED
      BY <2>13, <3>1 DEF RollingInv, compactVars
  <2> QED
    BY <2>2, <2>3, <2>4, <2>5, <2>6, <2>7, <2>8, <2>9, <2>10, <2>11, <2>12, <2>13 DEF CompactNext
<1>3. RollingInv => CompactionIsSound
  <2> SUFFICES ASSUME RollingInv PROVE CompactionIsSound
    OBVIOUS
  <2>1. ViewIsWhole
    BY FittingIsWhole DEF RollingInv
  <2>2. OneFoldReachesTarget
    <3> SUFFICES ASSUME compactor.pc = "pass", compactor.guard > 0, Gap(folds)[1] < FoldableEnd
                 PROVE  ViewWeight(folds, "w") <= TARGET
      BY DEF OneFoldReachesTarget
    <3>1. IsLog(log) /\ Fits(log, folds) /\ log # <<>>
      BY DEF RollingInv
    <3>2. Gap(folds)[1] = Cursor(folds, Len(folds)) /\ FoldableEnd = LastUser(log)
      BY <3>1, GapIs DEF FoldableEnd
    <3>3. Viewed(log, folds) <= TARGET
      BY <3>2 DEF RollingInv, TargetInv
    <3> QED
      BY <3>1, <3>3, ViewWeightIs
  <2> QED
    BY <2>1, <2>2 DEF RollingInv, CompactionIsSound
<1> QED
  BY <1>1, <1>2, <1>3, PTL DEF CompactSpec
=============================================================================
