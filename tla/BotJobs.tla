------------------------------ MODULE BotJobs ------------------------------
(***************************************************************************)
(* The queue of a bot: the rows of bot_jobs behind the handlers of         *)
(* bots.rs, and the page that keeps a copy of them, edits it at once and   *)
(* launches a run from it.  The page never waits: each call it makes is a  *)
(* message of `wire`, served and answered in any order.  A launch sends    *)
(* the claim beside the run, and the finish follows the claim's answer.    *)
(***************************************************************************)
EXTENDS Integers, FiniteSets, SequencesExt

CONSTANTS Jobs,      \* the prompts sent while a run is active
          JobRuns,   \* the runs that may be launched from the queue
          NoRun,
          ACTS,      \* bound on what else the user does: edit, delete, reorder, open
          LOSSES,    \* bound on answers and requests that are lost
          REBOOTS    \* bound on restarts of the application

VARIABLES table,     \* per job, its row
          queue,     \* the page's queue: items with the revision they show
          wire,      \* requests and answers under way
          runs,      \* per run: its job, its claim and how it ended
          bcount     \* how often each bounded thing happened

botVars == <<table, queue, wire, runs, bcount>>

NoRow == [st |-> "none", rev |-> 0, run |-> NoRun, pos |-> 0, born |-> 0]
Unused == [job |-> "none", pc |-> "unused", claim |-> "none", ok |-> FALSE]

BotInit ==
    /\ table = [j \in Jobs |-> NoRow]
    /\ queue = <<>>
    /\ wire = {}
    /\ runs = [r \in JobRuns |-> Unused]
    /\ bcount = [acts |-> 0, losses |-> 0, reboots |-> 0]

Queued(t) == {j \in Jobs : t[j].st = "queued"}

\* list_bot_jobs: by position, then by age; the page keeps the queued ones.
Ordered(t) ==
    LET Before(a, b) == \/ t[a].pos < t[b].pos
                        \/ t[a].pos = t[b].pos /\ t[a].born < t[b].born
    IN [i \in 1 .. Cardinality(Queued(t)) |->
          LET j == CHOOSE x \in Queued(t) :
                     Cardinality({y \in Queued(t) : Before(y, x)}) = i - 1
          IN [id |-> j, rev |-> t[j].rev]]

Refresh == [kind |-> "list"]
Live(r) == runs[r].pc = "live"
Count(f) == bcount' = [bcount EXCEPT ![f] = @ + 1]

-----------------------------------------------------------------------------
(* The page. *)

\* handleComposerSend while a run is active or the queue is not empty.
Send(j) ==
    /\ table[j] = NoRow
    /\ \A m \in wire : m.kind \in {"enqueue", "unsent"} => m.job # j
    /\ \A i \in DOMAIN queue : queue[i].id # j
    /\ \A r \in JobRuns : runs[r].job # j
    /\ queue' = Append(queue, [id |-> j, rev |-> 1])
    /\ wire' = wire \cup {[kind |-> "enqueue", job |-> j]}
    /\ UNCHANGED <<table, runs, bcount>>

\* The user changes the copy; the request carries the revision it showed.
EditItem(i) ==
    /\ bcount.acts < ACTS
    /\ queue' = [queue EXCEPT ![i].rev = @ + 1]
    /\ wire' = wire \cup {[kind |-> "edit", job |-> queue[i].id, rev |-> queue[i].rev]}
    /\ Count("acts") /\ UNCHANGED <<table, runs>>

DeleteItem(i) ==
    /\ bcount.acts < ACTS
    /\ queue' = RemoveAt(queue, i)
    /\ wire' = wire \cup {[kind |-> "delete", job |-> queue[i].id, rev |-> queue[i].rev]}
    /\ Count("acts") /\ UNCHANGED <<table, runs>>

ReorderItems ==
    /\ bcount.acts < ACTS /\ Len(queue) > 1
    /\ queue' = Reverse(queue)
    /\ wire' = wire \cup {[kind |-> "reorder",
                           order |-> [i \in DOMAIN queue |-> Reverse(queue)[i].id]]}
    /\ Count("acts") /\ UNCHANGED <<table, runs>>

\* launchSessionRun of a queued prompt: the run starts beside its claim.
LaunchItem(i, r) ==
    /\ \A o \in JobRuns : ~Live(o)
    /\ runs[r] = Unused
    /\ queue' = RemoveAt(queue, i)
    /\ runs' = [runs EXCEPT ![r] = [job |-> queue[i].id, pc |-> "live",
                                    claim |-> "asked", ok |-> FALSE]]
    /\ wire' = wire \cup {[kind |-> "claim", job |-> queue[i].id,
                           rev |-> queue[i].rev, run |-> r]}
    /\ UNCHANGED <<table, bcount>>

\* durableClaim.then(finish).then(refresh).catch(refresh), after the end.
FinishDueAtEnd(run) == run.pc = "ended" /\ run.claim = "asked"
FinishDue(run) == run.pc = "ended" /\ run.claim = "granted"
Chained(r, run) ==
    IF FinishDue(run)
    THEN {[kind |-> "finish", job |-> run.job, run |-> r, ok |-> run.ok]}
    ELSE IF run.pc = "ended" /\ run.claim = "refused" THEN {Refresh} ELSE {}

\* onComplete accepted by the store, or onError.
RunEnds(r, ok) ==
    /\ Live(r)
    /\ runs' = [runs EXCEPT ![r].pc = "ended", ![r].ok = ok]
    /\ wire' = wire \cup Chained(r, runs'[r])
    /\ UNCHANGED <<table, queue, bcount>>

\* A stop acknowledged before the terminal event: finishStreamStop aborts the
\* relay, so no callback of the run finishes its job.
RunIsStopped(r) ==
    /\ Live(r)
    /\ runs' = [runs EXCEPT ![r].pc = "stopped"]
    /\ UNCHANGED <<table, queue, wire, bcount>>

ClaimAnswered(m) ==
    /\ m.kind \in {"granted", "refused"}
    /\ runs' = [runs EXCEPT ![m.run].claim = m.kind]
    /\ wire' = (wire \ {m}) \cup Chained(m.run, runs'[m.run])
    /\ UNCHANGED <<table, queue, bcount>>

\* replacePromptQueue with what a list or a reorder answered.
QueueReplaced(m) ==
    /\ m.kind = "rows"
    /\ queue' = m.rows
    /\ wire' = wire \ {m}
    /\ UNCHANGED <<table, runs, bcount>>

\* A prompt that could not be saved leaves the queue, at the revision it had.
SendFailed(m) ==
    /\ m.kind = "unsent"
    /\ queue' = SelectSeq(queue, LAMBDA q : q # [id |-> m.job, rev |-> 1])
    /\ wire' = wire \ {m}
    /\ UNCHANGED <<table, runs, bcount>>

\* Each time the session is opened the page asks for the rows.
SessionOpens ==
    /\ bcount.acts < ACTS
    /\ wire' = wire \cup {Refresh}
    /\ Count("acts") /\ UNCHANGED <<table, queue, runs>>

-----------------------------------------------------------------------------
(* The handlers.  A request, or its answer, may be lost: the page then sees a
   failure whether or not the row changed.                                 *)

Served(m, accepted, rows, good, bad) ==
    /\ UNCHANGED <<queue, runs>>
    /\ \/ /\ table' = IF accepted THEN rows ELSE table
          /\ wire' = (wire \ {m}) \cup (IF accepted THEN good ELSE bad)
          /\ UNCHANGED bcount
       \/ /\ bcount.losses < LOSSES /\ Count("losses")
          /\ table' \in {table, IF accepted THEN rows ELSE table}
          /\ wire' = (wire \ {m}) \cup bad

\* enqueue_bot_job: behind every queued row.
EnqueueServed(m) ==
    LET last == Max({0} \cup {table[j].pos : j \in Queued(table)})
        row == [st |-> "queued", rev |-> 1, run |-> NoRun, pos |-> last + 1,
                born |-> Cardinality({j \in Jobs : table[j] # NoRow})]
    IN /\ m.kind = "enqueue"
       /\ Served(m, TRUE, [table EXCEPT ![m.job] = row],
                 {}, {[kind |-> "unsent", job |-> m.job]})

\* Every change of a row asks for the revision and the status it was read at.
Matches(m) == table[m.job].rev = m.rev

EditServed(m) ==
    /\ m.kind = "edit"
    /\ Served(m, Matches(m) /\ table[m.job].st = "queued",
              [table EXCEPT ![m.job].rev = @ + 1], {}, {Refresh})

DeleteServed(m) ==
    /\ m.kind = "delete"
    /\ Served(m, Matches(m) /\ table[m.job].st \in {"queued", "failed"},
              [table EXCEPT ![m.job].st = "deleted", ![m.job].rev = 0], {}, {Refresh})

Place(s, j) == CHOOSE i \in DOMAIN s : s[i] = j

\* reorder_bot_jobs: all of the queued rows, each gets a new revision.
ReorderServed(m) ==
    LET rows == [j \in Jobs |->
                   IF j \in Queued(table)
                   THEN [table[j] EXCEPT !.pos = Place(m.order, j), !.rev = @ + 1]
                   ELSE table[j]]
    IN /\ m.kind = "reorder"
       /\ Served(m, ToSet(m.order) = Queued(table), rows,
                 {[kind |-> "rows", rows |-> Ordered(rows)]}, {Refresh})

ListServed(m) ==
    /\ m.kind = "list"
    /\ Served(m, TRUE, table, {[kind |-> "rows", rows |-> Ordered(table)]}, {})

\* claim_bot_job.
MayClaimAnyStatus(m) == Matches(m)
MayClaim(m) == Matches(m) /\ table[m.job].st = "queued"

ClaimServed(m) ==
    /\ m.kind = "claim"
    /\ Served(m, MayClaim(m),
              [table EXCEPT ![m.job].st = "running", ![m.job].run = m.run,
                            ![m.job].rev = @ + 1],
              {[kind |-> "granted", run |-> m.run]}, {[kind |-> "refused", run |-> m.run]})

\* finish_bot_job: only the run that owns the row.
FinishServed(m) ==
    /\ m.kind = "finish"
    /\ Served(m, table[m.job].run = m.run /\ table[m.job].st = "running",
              [table EXCEPT ![m.job].st = IF m.ok THEN "completed" ELSE "failed",
                            ![m.job].rev = @ + 1],
              {Refresh}, {Refresh})

-----------------------------------------------------------------------------
\* schema.rs: no worker survives a restart, a claimed job is queued again.
RequeuedNever(row) == row
Requeued(row) ==
    IF row.st = "running"
    THEN [row EXCEPT !.st = "queued", !.run = NoRun, !.rev = @ + 1]
    ELSE row

Reboot ==
    /\ bcount.reboots < REBOOTS /\ Count("reboots")
    /\ table' = [j \in Jobs |-> Requeued(table[j])]
    /\ queue' = <<>> /\ wire' = {Refresh}
    /\ runs' = [r \in JobRuns |-> Unused]

BotNext ==
    \/ \E j \in Jobs : Send(j)
    \/ \E i \in DOMAIN queue :
          \/ EditItem(i) \/ DeleteItem(i)
          \/ \E r \in JobRuns : LaunchItem(i, r)
    \/ ReorderItems \/ SessionOpens \/ Reboot
    \/ \E r \in JobRuns : RunIsStopped(r) \/ \E ok \in BOOLEAN : RunEnds(r, ok)
    \/ \E m \in wire :
          \/ ClaimAnswered(m) \/ QueueReplaced(m) \/ SendFailed(m)
          \/ EnqueueServed(m) \/ EditServed(m) \/ DeleteServed(m)
          \/ ReorderServed(m) \/ ListServed(m) \/ ClaimServed(m) \/ FinishServed(m)

BotSpec == BotInit /\ [][BotNext]_botVars

-----------------------------------------------------------------------------
\* A row that says running belongs to a run that launched this job and still
\* owes it an end: the run is live, its claim's answer or its finish is under
\* way, a message was lost, or the user stopped it (WorkbenchPage.tsx:325-361).
NoJobIsStranded ==
    \A j \in Jobs : table[j].st = "running" =>
        LET r == table[j].run IN
        /\ r \in JobRuns /\ runs[r].job = j
        /\ \/ runs[r].pc \in {"live", "stopped"}
           \/ runs[r].claim = "asked"
           \/ \E m \in wire : m.kind = "finish" /\ m.run = r
           \/ bcount.losses > 0

\* The rows give a job to at most one run in the life of the application, and
\* only the end of that run settles it (repo.rs:652-692).
ClaimsAreExclusive ==
    \A j \in Jobs :
        LET owners == {r \in JobRuns : runs[r].job = j /\ runs[r].claim = "granted"} IN
        /\ Cardinality(owners) <= 1
        /\ table[j].st = "completed" /\ owners # {} =>
              \A r \in owners : runs[r].ok /\ table[j].run = r

\* No queued prompt is stranded in running or claimed twice (claim_bot_job, finish_bot_job).
BotQueueIsSound == NoJobIsStranded /\ ClaimsAreExclusive

\* A job whose run completed is not launched a second time: the queue is said
\* to be a "revisioned, restart-safe execution queue" (bots.rs:4), its jobs
\* claimed and finished "exactly once" (repo.rs:2664).  A claim is refused when
\* it overtakes the enqueue or carries a revision the page has made up, the run
\* goes on, and the row that is still queued comes back with the next list.
JobRunsOnce ==
    \A r1, r2 \in JobRuns :
        r1 # r2 /\ runs[r1].job = runs[r2].job /\ runs[r1].pc = "ended" /\ runs[r1].ok
            => runs[r2].pc \notin {"live", "stopped"} /\ ~runs[r2].ok
=============================================================================
