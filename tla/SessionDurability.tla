------------------------- MODULE SessionDurability -------------------------
(***************************************************************************)
(* One session in memory (`Session` and `ActiveSession.persisted_count`)   *)
(* against its rows in SQLite (sessions, session_messages, session_runs).  *)
(*                                                                         *)
(* A request for a run clears or marks the stored plan, takes a snapshot,  *)
(* and lets the agent append messages; each delivered tool batch is        *)
(* checkpointed by a worker, and one last transaction persists the run or, *)
(* when it fails, the memory is rolled back to the last durable point.     *)
(* Plans are approved between runs.  The process may crash at any step,    *)
(* the run task may panic, a request may be dropped while its UPDATE is    *)
(* still running in the blocking pool, and a restart repairs the rows.     *)
(*                                                                         *)
(* Mutual exclusion of the runs is module RunLifecycle's subject; what the *)
(* agent says is AgentRunner's.  A message is known here by the run that   *)
(* appended it and a plan by the run that generated it.                    *)
(***************************************************************************)
EXTENDS Naturals, Sequences, FiniteSets

CONSTANTS
    Runs,
    NoRun,
    NoPlan,
    NoRow,
    BATCHES,            \* bound: tool batches per run
    CRASHES,            \* bound: crashes of the process
    DROPS,              \* bound: requests dropped during their UPDATE
    PLAN_READ_FAILS     \* may get_session_plan fail while a session is restored

ASSUME DurabilityAssumption ==
    /\ NoRun \notin Runs
    /\ BATCHES \in Nat /\ CRASHES \in Nat /\ DROPS \in Nat
    /\ PLAN_READ_FAILS \in BOOLEAN

VARIABLES
    \* memory
    up,             \* the process runs
    loaded,         \* the session is in the map of active sessions
    mem,            \* Session: messages, plan, frame status
    persisted_count,
    \* the holder of the session mutex
    owner,          \* the run, or NoRun
    pc,
    mode,           \* plain, plan or execute
    snapshot,       \* DurableSessionSnapshot at the start of the run
    checkpoint,     \* DurableToolCheckpointSnapshot, if any
    worker,         \* the checkpoint worker still receives
    outcome,
    ask,            \* a pending ask_user
    batches,
    \* storage
    db,             \* messages, plan and status of the session
    runs,           \* session_runs
    late,           \* UPDATEs of dropped requests, still to be executed
    \* history
    used, crashes, drops,
    approved,       \* the plan whose approval was answered and not yet superseded
    stale,          \* runs whose plans a later fresh run superseded
    unsettled,      \* runs whose last transaction failed since the last start
    misread,        \* a restore could not read the plan
    evidence        \* what the memory extraction records about natural runs

memoryVars  == <<up, loaded, mem, persisted_count>>
runVars     == <<owner, pc, mode, snapshot, checkpoint, worker, outcome, ask, batches>>
storeVars   == <<db, runs, late>>
historyVars == <<used, crashes, drops, approved, stale, unsettled, misread, evidence>>
vars == <<memoryVars, runVars, storeVars, historyVars>>

RunModes   == {"plain", "plan", "execute"}
Kinds      == {"natural", "error", "cancelled", "awaiting"}
Awaiting   == {"awaiting_plan_approval", "awaiting_plan_execution", "awaiting_user_response"}
RowStatus  == Awaiting \union {"active", "processing", "completed", "failed",
                               "cancelled", "interrupted"}
FrameStatus == Awaiting \union {"processing", "completed", "failed", "cancelled"}

Plan(r) == [by |-> r, approved |-> FALSE, done |-> FALSE]
Plans   == [by : Runs, approved : BOOLEAN, done : BOOLEAN]
Sessions == [messages : Seq(Runs), plan : Plans \union {NoPlan}, status : FrameStatus]
Rows     == [start : Nat, end : Nat, status : RowStatus, completed : BOOLEAN]

\* The absence of a plan or of a row is no plan and no row.
ASSUME NullAssumption == NoPlan \notin Plans /\ NoRow \notin Rows

Contents(rows) == [i \in DOMAIN rows |-> rows[i].by]

EmptySession == [messages |-> <<>>, plan |-> NoPlan, status |-> "processing"]

\* create_session: one row, one in-memory session with a fresh root frame.
Init ==
    /\ up = TRUE /\ loaded = TRUE
    /\ mem = EmptySession
    /\ persisted_count = 0
    /\ owner = NoRun /\ pc = "free" /\ mode = "plain"
    /\ snapshot = EmptySession /\ checkpoint = EmptySession
    /\ worker = FALSE /\ outcome = "natural" /\ ask = FALSE /\ batches = 0
    /\ db = [messages |-> <<>>, plan |-> NoPlan, status |-> "active"]
    /\ runs = [r \in Runs |-> NoRow]
    /\ late = {}
    /\ used = {} /\ crashes = 0 /\ drops = 0
    /\ approved = NoPlan /\ stale = {} /\ unsettled = {}
    /\ misread = FALSE /\ evidence = {}

-----------------------------------------------------------------------------
(* Frame::set_status: a terminal status stays. *)
IsTerminal(status) == status \in {"completed", "failed", "cancelled"}
SetStatus(old, new) == IF IsTerminal(old) THEN old ELSE new

\* The mutex is given back; what the run kept in local variables is gone.
Release ==
    /\ owner' = NoRun /\ pc' = "free" /\ mode' = "plain"
    /\ snapshot' = EmptySession /\ checkpoint' = EmptySession
    /\ worker' = FALSE /\ outcome' = "natural" /\ ask' = FALSE /\ batches' = 0

runLocals == <<mode, snapshot, checkpoint, worker, outcome, ask, batches>>

-----------------------------------------------------------------------------
(* stream_sse: acceptance *)

\* select_run_plan: execution needs an approved plan with a step left.
PlanRequiresExecution(plan) == plan # NoPlan /\ plan.approved /\ ~plan.done

\* Mutant of MustClear: only an approved plan is cleared.
MustClearApproved(m) == m # "execute" /\ mem.plan # NoPlan /\ mem.plan.approved
MustClear(m) == m # "execute" /\ mem.plan # NoPlan

\* A stream request that gets the mutex and passes select_run_plan.
Request(r, m) ==
    /\ up /\ loaded /\ owner = NoRun /\ r \notin used
    /\ m = "execute" => PlanRequiresExecution(mem.plan)
    /\ owner' = r
    /\ mode' = m
    /\ used' = used \union {r}
    /\ pc' = IF MustClear(m) THEN "clear"
             ELSE IF m = "execute" THEN "mark" ELSE "accepted"
    /\ UNCHANGED <<memoryVars, snapshot, checkpoint, worker, outcome, ask, batches,
                   storeVars, crashes, drops, approved, stale, unsettled, misread, evidence>>

\* set_session_plan(None), then the copy in memory.
ClearPlan ==
    /\ pc = "clear"
    /\ db' = [db EXCEPT !.plan = NoPlan]
    /\ mem' = [mem EXCEPT !.plan = NoPlan]
    /\ pc' = "accepted"
    /\ approved' = NoPlan
    /\ UNCHANGED <<up, loaded, persisted_count, owner, runLocals, runs, late, used,
                   crashes, drops, stale, unsettled, misread, evidence>>

\* set_session_status("processing"), then the frame.
MarkProcessing ==
    /\ pc = "mark"
    /\ db' = [db EXCEPT !.status = "processing"]
    /\ mem' = [mem EXCEPT !.status = SetStatus(@, "processing")]
    /\ pc' = "accepted"
    /\ UNCHANGED <<up, loaded, persisted_count, owner, runLocals, runs, late, historyVars>>

\* A storage error, or the client leaving at a later await, ends the request.
AbortAcceptance ==
    /\ pc \in {"clear", "mark", "accepted"}
    /\ Release
    /\ UNCHANGED <<memoryVars, storeVars, historyVars>>

\* The client leaves during the UPDATE: the guards are dropped, the closure in the
\* blocking pool is not.
DropDuringUpdate ==
    /\ pc \in {"clear", "mark"}
    /\ drops < DROPS
    /\ drops' = drops + 1
    /\ late' = late \union {[op |-> pc, plan |-> NoPlan]}
    /\ approved' = IF pc = "clear" THEN NoPlan ELSE approved
    /\ Release
    /\ UNCHANGED <<memoryVars, db, runs, used, crashes, stale, unsettled, misread, evidence>>

\* The closure runs at last, whatever has happened in between.
LateUpdate ==
    /\ up
    /\ \E w \in late :
        /\ late' = late \ {w}
        /\ db' = CASE w.op = "clear"   -> [db EXCEPT !.plan = NoPlan]
                   [] w.op = "mark"    -> [db EXCEPT !.status = "processing"]
                   [] w.op = "approve" -> [db EXCEPT !.plan = w.plan,
                                                     !.status = "awaiting_plan_execution"]
    /\ UNCHANGED <<memoryVars, runVars, runs, historyVars>>

-----------------------------------------------------------------------------
(* The run task *)

\* Mutant of CursorValid: the run starts whatever the cursor says.
CursorValidIgnored(n) == TRUE
\* validated_persistence_cursor
CursorValid(n) == persisted_count = n

\* The task takes its snapshot, checks the cursor and starts the worker.
StartTask ==
    /\ pc = "accepted"
    /\ CursorValid(Len(mem.messages))
    /\ snapshot' = mem
    /\ worker' = TRUE
    /\ pc' = "begin"
    /\ approved' = IF mode = "execute" THEN approved ELSE NoPlan
    /\ stale' = IF mode = "execute" THEN stale ELSE stale \union (used \ {owner})
    /\ UNCHANGED <<memoryVars, owner, mode, checkpoint, outcome, ask, batches,
                   storeVars, used, crashes, drops, unsettled, misread, evidence>>

RefuseDriftedCursor ==
    /\ pc = "accepted"
    /\ ~CursorValid(Len(mem.messages))
    /\ Release
    /\ UNCHANGED <<memoryVars, storeVars, historyVars>>

\* Frame::begin_run and the user prompt.
BeginRun ==
    /\ pc = "begin"
    /\ mem' = [mem EXCEPT !.status = "processing", !.messages = Append(@, owner)]
    /\ pc' = "running"
    /\ UNCHANGED <<up, loaded, persisted_count, owner, runLocals, storeVars, historyVars>>

\* Start cannot be delivered: cancel_before_prompt keeps the history clean.
CancelBeforePrompt ==
    /\ pc = "begin"
    /\ mem' = [mem EXCEPT !.status = "cancelled"]
    /\ outcome' = "cancelled"
    /\ pc' = "ended"
    /\ UNCHANGED <<up, loaded, persisted_count, owner, mode, snapshot, checkpoint,
                   worker, ask, batches, storeVars, historyVars>>

\* A delivered tool batch: its messages, and the plan or question it committed.
ToolBatch(plan, asks) ==
    /\ pc = "running"
    /\ batches < BATCHES
    /\ \/ plan = mem.plan
       \/ plan = Plan(owner)                                   \* generate_plan
       \/ /\ mem.plan # NoPlan /\ mem.plan.approved            \* update_step_status
          /\ plan = [mem.plan EXCEPT !.done = TRUE]
    /\ mem' = [mem EXCEPT !.plan = plan, !.messages = Append(@, owner)]
    /\ ask' = asks
    /\ batches' = batches + 1
    /\ pc' = "checkpoint"
    /\ UNCHANGED <<up, loaded, persisted_count, owner, mode, snapshot, checkpoint,
                   worker, outcome, storeVars, historyVars>>

PlanAwaitsApproval == mode = "plan" /\ mem.plan # NoPlan /\ ~mem.plan.approved

CheckpointStatus ==
    IF PlanAwaitsApproval THEN "awaiting_plan_approval"
    ELSE IF ask THEN "awaiting_user_response" ELSE "processing"

\* Rows for the messages memory holds beyond the cursor, owned by run r.
NewRows(r) ==
    [i \in 1 .. (Len(mem.messages) - persisted_count) |->
        [by |-> mem.messages[persisted_count + i], run |-> r]]

\* The checks append_history_checkpoint makes before it writes.
CheckpointLinesUp(r) ==
    /\ Len(db.messages) = persisted_count
    /\ runs[r] # NoRow => ~runs[r].completed /\ runs[r].end = Len(db.messages)

\* Mutant of CheckpointRow: a second checkpoint forgets to advance end_seq.
CheckpointRowStuck(r, status) ==
    IF runs[r] = NoRow
    THEN [start |-> Len(db.messages) + 1, end |-> Len(mem.messages),
          status |-> status, completed |-> FALSE]
    ELSE [runs[r] EXCEPT !.status = status]

CheckpointRow(r, status) ==
    IF runs[r] = NoRow
    THEN [start |-> Len(db.messages) + 1, end |-> Len(mem.messages),
          status |-> status, completed |-> FALSE]
    ELSE [runs[r] EXCEPT !.end = Len(mem.messages), !.status = status]

\* History: what is left of the approved plan once the run's own plan is stored.
StillApproved ==
    IF approved # NoPlan /\ PlanRequiresExecution(mem.plan) THEN mem.plan ELSE NoPlan

\* append_history_checkpoint commits; the worker advances the cursor, keeps the
\* snapshot that goes with it, and acknowledges.
CheckpointCommits ==
    LET status == CheckpointStatus IN
    /\ pc = "checkpoint"
    /\ worker
    /\ CheckpointLinesUp(owner)
    /\ db' = [messages |-> db.messages \o NewRows(owner),
              plan |-> mem.plan, status |-> status]
    /\ runs' = [runs EXCEPT ![owner] = CheckpointRow(owner, status)]
    /\ persisted_count' = Len(mem.messages)
    /\ checkpoint' = [mem EXCEPT !.status = status]
    /\ pc' = IF status = "processing" THEN "running" ELSE "pause"
    /\ approved' = StillApproved
    /\ UNCHANGED <<up, loaded, mem, owner, mode, snapshot, worker, outcome, ask,
                   batches, late, used, crashes, drops, stale, unsettled, misread, evidence>>

\* The checkpoint fails: the worker stops and the Runner takes its fail() path.
CheckpointFails ==
    /\ pc = "checkpoint"
    /\ worker' = FALSE
    /\ mem' = [mem EXCEPT !.status = "failed"]
    /\ outcome' = "error"
    /\ pc' = "ended"
    /\ UNCHANGED <<up, loaded, persisted_count, owner, mode, snapshot, checkpoint, ask,
                   batches, storeVars, historyVars>>

\* Complete{awaiting} is accepted: the run pauses for the user.
PauseForUser ==
    /\ pc = "pause"
    /\ mem' = [mem EXCEPT !.status = SetStatus(@, CheckpointStatus)]
    /\ outcome' = "awaiting"
    /\ pc' = "ended"
    /\ UNCHANGED <<up, loaded, persisted_count, owner, mode, snapshot, checkpoint,
                   worker, ask, batches, storeVars, historyVars>>

EndStatus(kind) ==
    CASE kind = "natural" -> "completed"
      [] kind = "error" -> "failed"
      [] kind = "cancelled" -> "cancelled"

\* The Runner ends: with an answer, with an error after a partial answer or none, or
\* cancelled, which leaves the cancellation boundary.
RunnerEnds(kind, answer) ==
    /\ pc = "running" \/ (pc = "pause" /\ kind = "cancelled")
    /\ kind \in {"natural", "error", "cancelled"}
    /\ kind # "error" => answer = 1
    /\ mem' = [mem EXCEPT !.status = EndStatus(kind),
                          !.messages = IF answer = 1 THEN Append(@, owner) ELSE @]
    /\ outcome' = kind
    /\ pc' = "ended"
    /\ UNCHANGED <<up, loaded, persisted_count, owner, mode, snapshot, checkpoint,
                   worker, ask, batches, storeVars, historyVars>>

\* Mutant of PersistedStatus: a pause is stored as a completion.
PersistedStatusNoPause ==
    IF outcome = "awaiting" THEN "completed" ELSE EndStatus(outcome)

PersistedStatus ==
    IF outcome = "awaiting" THEN mem.status ELSE EndStatus(outcome)

\* Mutant of CheckpointStart: the sequence number of the last message before the run.
CheckpointStartOffByOne ==
    IF persisted_count > Len(snapshot.messages) THEN Len(snapshot.messages) ELSE 0

\* checkpoint_start_seq of the request: set when this run checkpointed anything.
CheckpointStart ==
    IF persisted_count > Len(snapshot.messages) THEN Len(snapshot.messages) + 1 ELSE 0

\* The checks persist_run makes on what is already stored of the run.
PersistLinesUp(r) ==
    /\ runs[r] # NoRow => /\ ~runs[r].completed
                          /\ runs[r].start = CheckpointStart
                          /\ runs[r].end = Len(db.messages)
    /\ CheckpointStart # 0 =>
          \A i \in CheckpointStart .. Len(db.messages) : db.messages[i].run = r

\* session_runs row of a finished run; 0 stands for NULL.
PersistedRow(r) ==
    LET new   == Len(mem.messages) - persisted_count
        start == IF CheckpointStart # 0 THEN CheckpointStart
                 ELSE IF new > 0 THEN Len(db.messages) + 1 ELSE 0
        end   == IF new > 0 THEN Len(db.messages) + new
                 ELSE IF CheckpointStart # 0 THEN Len(db.messages) ELSE 0
    IN  [start |-> start, end |-> end, status |-> PersistedStatus, completed |-> TRUE]

\* The range the memory extraction stores as evidence of a natural run.
EvidenceOf(r) ==
    LET lo == IF CheckpointStart = 0 THEN 1 ELSE CheckpointStart
    IN  [run |-> r, lo |-> lo, hi |-> lo + (Len(mem.messages) - Len(snapshot.messages))]

\* persist_run commits, finalize_run_persistence moves the cursor.
PersistCommits ==
    /\ pc = "ended"
    /\ PersistLinesUp(owner)
    /\ db' = [messages |-> db.messages \o NewRows(owner),
              plan |-> mem.plan, status |-> PersistedStatus]
    /\ runs' = [runs EXCEPT ![owner] = PersistedRow(owner)]
    /\ persisted_count' = Len(mem.messages)
    /\ evidence' = IF outcome = "natural" THEN evidence \union {EvidenceOf(owner)}
                   ELSE evidence
    /\ approved' = StillApproved
    /\ Release
    /\ UNCHANGED <<up, loaded, mem, late, used, crashes, drops, stale, unsettled, misread>>

\* Mutant of RolledBack: the checkpoints of the run are forgotten.
RolledBackToStart ==
    [snapshot EXCEPT !.messages = SubSeq(mem.messages, 1, Len(snapshot.messages))]

\* Mutant of RolledBack: the transcript is cut, the plan stays.
RolledBackKeepsPlan ==
    [mem EXCEPT !.messages = SubSeq(mem.messages, 1, persisted_count),
                !.status = snapshot.status]

\* rollback_failed_run: back to the last checkpoint, or to the start of the run.
RolledBack ==
    IF persisted_count <= Len(snapshot.messages)
    THEN [snapshot EXCEPT !.messages = SubSeq(mem.messages, 1, Len(snapshot.messages))]
    ELSE [checkpoint EXCEPT !.messages = SubSeq(mem.messages, 1, Len(checkpoint.messages))]

PersistFails ==
    /\ pc = "ended"
    /\ mem' = RolledBack
    /\ unsettled' = unsettled \union {owner}
    /\ Release
    /\ UNCHANGED <<up, loaded, persisted_count, storeVars, used, crashes, drops,
                   approved, stale, misread, evidence>>

\* The run task panics: the guards are dropped, nothing is rolled back.
RunPanics ==
    /\ pc \in {"begin", "running", "pause", "ended"}
    /\ unsettled' = unsettled \union {owner}
    /\ Release
    /\ UNCHANGED <<memoryVars, storeVars, used, crashes, drops, approved, stale, misread, evidence>>

-----------------------------------------------------------------------------
(* approve_plan *)

Approved(plan) == [plan EXCEPT !.approved = TRUE]

ApproveRequest ==
    /\ up /\ loaded /\ owner = NoRun /\ pc = "free"
    /\ mem.status = "awaiting_plan_approval"
    /\ mem.plan # NoPlan
    /\ pc' = "approving"
    /\ UNCHANGED <<memoryVars, owner, runLocals, storeVars, historyVars>>

\* set_session_plan_and_status commits, memory follows, the answer is 200.
ApproveCommits ==
    /\ pc = "approving"
    /\ db' = [db EXCEPT !.plan = Approved(mem.plan), !.status = "awaiting_plan_execution"]
    /\ mem' = [mem EXCEPT !.plan = Approved(mem.plan),
                          !.status = SetStatus(@, "awaiting_plan_execution")]
    /\ approved' = Approved(mem.plan)
    /\ Release
    /\ UNCHANGED <<up, loaded, persisted_count, runs, late, used, crashes, drops, stale,
                   unsettled, misread, evidence>>

ApproveFails ==
    /\ pc = "approving"
    /\ Release
    /\ UNCHANGED <<memoryVars, storeVars, historyVars>>

ApproveDropped ==
    /\ pc = "approving"
    /\ drops < DROPS
    /\ drops' = drops + 1
    /\ late' = late \union {[op |-> "approve", plan |-> Approved(mem.plan)]}
    /\ Release
    /\ UNCHANGED <<memoryVars, db, runs, used, crashes, approved, stale, unsettled,
                   misread, evidence>>

-----------------------------------------------------------------------------
(* Process and cache *)

Crash ==
    /\ up
    /\ crashes < CRASHES
    /\ crashes' = crashes + 1
    /\ up' = FALSE /\ loaded' = FALSE
    /\ mem' = EmptySession /\ persisted_count' = 0
    /\ late' = {}
    /\ Release
    /\ UNCHANGED <<db, runs, used, drops, approved, stale, unsettled, misread, evidence>>

\* Mutant of SettledRow: a run that was waiting for the user stays open.
SettledRowProcessingOnly(row) ==
    IF row # NoRow /\ ~row.completed /\ row.status = "processing"
    THEN [row EXCEPT !.status = "interrupted", !.completed = TRUE]
    ELSE row

\* The startup repair of one session_runs row.
SettledRow(row) ==
    IF row # NoRow /\ ~row.completed /\ row.status = "processing"
    THEN [row EXCEPT !.status = "interrupted", !.completed = TRUE]
    ELSE IF row # NoRow /\ ~row.completed /\ row.status \in Awaiting
    THEN [row EXCEPT !.completed = TRUE]
    ELSE row

\* init_schema: nothing that was running still runs.
Startup ==
    /\ ~up
    /\ up' = TRUE
    /\ db' = [db EXCEPT !.status = IF @ = "processing" THEN "interrupted" ELSE @]
    /\ runs' = [r \in Runs |-> SettledRow(runs[r])]
    /\ unsettled' = {}
    /\ UNCHANGED <<loaded, mem, persisted_count, runVars, late, used, crashes, drops,
                   approved, stale, misread, evidence>>

\* Mutant of RestoredStatus: the column is taken as it is.
RestoredStatusVerbatim(status) == status

RestoredStatus(status) ==
    CASE status \in {"processing", "active"}       -> "processing"
      [] status = "failed"                         -> "failed"
      [] status \in {"cancelled", "interrupted"}   -> "cancelled"
      [] status \in Awaiting                       -> status
      [] OTHER                                     -> "completed"

\* restore_session; an unreadable plan is taken for none.
Restore ==
    /\ up /\ ~loaded
    /\ loaded' = TRUE
    /\ \E plan \in {db.plan} \union (IF PLAN_READ_FAILS THEN {NoPlan} ELSE {}) :
          /\ mem' = [messages |-> Contents(db.messages), plan |-> plan,
                     status |-> RestoredStatus(db.status)]
          /\ misread' = (misread \/ plan # db.plan)
    /\ persisted_count' = Len(db.messages)
    /\ UNCHANGED <<up, runVars, storeVars, used, crashes, drops, approved, stale,
                   unsettled, evidence>>

\* The cache evicts an idle session.
Evict ==
    /\ up /\ loaded /\ owner = NoRun /\ pc = "free"
    /\ loaded' = FALSE
    /\ mem' = EmptySession /\ persisted_count' = 0
    /\ UNCHANGED <<up, runVars, storeVars, historyVars>>

-----------------------------------------------------------------------------
Next ==
    \/ \E r \in Runs, m \in RunModes : pc = "free" /\ Request(r, m)
    \/ ClearPlan \/ MarkProcessing \/ AbortAcceptance \/ DropDuringUpdate \/ LateUpdate
    \/ StartTask \/ RefuseDriftedCursor \/ BeginRun \/ CancelBeforePrompt
    \/ \E plan \in Plans \union {NoPlan}, asks \in BOOLEAN : ToolBatch(plan, asks)
    \/ CheckpointCommits \/ CheckpointFails \/ PauseForUser
    \/ \E kind \in Kinds, answer \in 0 .. 1 : RunnerEnds(kind, answer)
    \/ PersistCommits \/ PersistFails \/ RunPanics
    \/ ApproveRequest \/ ApproveCommits \/ ApproveFails \/ ApproveDropped
    \/ Crash \/ Startup \/ Restore \/ Evict

Spec == Init /\ [][Next]_vars

-----------------------------------------------------------------------------
(* Properties *)

Pcs      == {"free", "clear", "mark", "accepted", "begin", "running", "checkpoint",
             "pause", "ended", "approving"}

\* Types: the frame in memory never has a status that only a row can have, however
\* the row it was restored from looked.
TypeOK ==
    /\ up \in BOOLEAN /\ loaded \in BOOLEAN
    /\ mem \in Sessions /\ persisted_count \in Nat
    /\ owner \in Runs \union {NoRun} /\ pc \in Pcs /\ mode \in RunModes
    /\ snapshot \in Sessions /\ checkpoint \in Sessions
    /\ worker \in BOOLEAN /\ outcome \in Kinds /\ ask \in BOOLEAN
    /\ batches \in 0 .. BATCHES
    /\ db \in [messages : Seq([by : Runs, run : Runs]),
               plan : Plans \union {NoPlan}, status : RowStatus]
    /\ runs \in [Runs -> Rows \union {NoRow}]
    /\ late \subseteq [op : {"clear", "mark", "approve"}, plan : Plans \union {NoPlan}]
    /\ used \subseteq Runs /\ crashes \in 0 .. CRASHES /\ drops \in 0 .. DROPS
    /\ approved \in Plans \union {NoPlan}
    /\ stale \subseteq Runs /\ unsettled \subseteq Runs /\ misread \in BOOLEAN
    /\ evidence \subseteq [run : Runs, lo : Nat, hi : Nat]

\* The stored transcript is always the durable prefix of the one in memory, and the
\* cursor is its length: no rollback, failed checkpoint or restart makes memory
\* forget a stored message or store one twice.
DurablePrefix ==
    loaded => /\ persisted_count = Len(db.messages)
              /\ persisted_count <= Len(mem.messages)
              /\ Contents(db.messages) = SubSeq(mem.messages, 1, persisted_count)

\* The messages a run produced, the messages stored under its id and the range in its
\* session_runs row are the same, whatever a panicked run left behind in memory
\* (validated_persistence_cursor): the rows partition the transcript.  That holds
\* between a checkpoint and the terminal transaction too: append_history_checkpoint
\* stores its rows under the run's id (repo.rs:1115), where its comment still says
\* that they stay unowned until persist_run attaches them (repo.rs:998).
RunRangesPartition ==
    \A r \in Runs :
        LET range == IF runs[r] = NoRow \/ runs[r].start = 0 THEN {}
                     ELSE runs[r].start .. runs[r].end
        IN  /\ {i \in DOMAIN db.messages : db.messages[i].by = r} = range
            /\ {i \in DOMAIN db.messages : db.messages[i].run = r} = range

\* When the run comes to persist itself, the consistency checks of persist_run and
\* append_history_checkpoint agree with memory: only a storage failure can lose the
\* result, never the arithmetic of cursors and ranges.
ChecksNeverRefuse ==
    /\ pc = "ended" => PersistLinesUp(owner)
    /\ pc = "checkpoint" => worker /\ CheckpointLinesUp(owner)

\* An open session_runs row belongs to the run in progress or to one whose last
\* transaction failed or panicked since the start; after a restart none is open.
OpenRowsAreAccountedFor ==
    up => \A r \in Runs :
        runs[r] # NoRow /\ ~runs[r].completed => r = owner \/ r \in unsettled

\* The rows of session_runs account for the transcript: every message, every check
\* of a cursor and every row still open.
RunsAreAccountedFor == RunRangesPartition /\ ChecksNeverRefuse /\ OpenRowsAreAccountedFor

\* No request was dropped while its UPDATE was queued, and no restore took an
\* unreadable plan for none: the two faults the code's plan handling does not survive.
PlanFaultFree == drops = 0 /\ ~misread

\* What an idle session in memory offers the user to approve or answer does not
\* depend on the process staying up: its row awaits the same, about the same plan.
AwaitingIsDurable ==
    PlanFaultFree /\ loaded /\ owner = NoRun
        /\ mem.status \in {"awaiting_plan_approval", "awaiting_user_response"}
        => db.status = mem.status /\ db.plan = mem.plan

\* Once a fresh run was accepted, no plan of an earlier run comes back: not by
\* rollback, not by restart ("a crash cannot resurrect stale approval from the DB").
StalePlanNeverReturns ==
    PlanFaultFree => \A plan \in {mem.plan, db.plan, snapshot.plan} :
                         plan # NoPlan => plan.by \notin stale

\* An approval that was answered 200 stays in storage, and can be executed from an
\* undrifted session in memory, until a fresh request supersedes it or an execution
\* run stores another or a finished plan: a failed, panicked or crashed execution does
\* not use it up ("Approval is durable and retryable").
ApprovalIsDurable ==
    PlanFaultFree /\ approved # NoPlan /\ owner = NoRun =>
        /\ db.plan = approved
        /\ loaded /\ persisted_count = Len(mem.messages) => mem.plan = approved

\* What storage holds of a plan survives what the process does not.
PlansAreDurable == AwaitingIsDurable /\ StalePlanNeverReturns /\ ApprovalIsDurable

\* The evidence recorded with an extracted memory reaches the messages of its run
\* (the comment of stream_sse: the message range of this run, for expansion).
EvidenceCoversTheRun ==
    \A e \in evidence : runs[e.run].start .. runs[e.run].end \subseteq e.lo .. e.hi
=============================================================================
