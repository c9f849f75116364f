# Formal models of deepseek-science

TLA+ models of the parts of this repository where concurrency, failure and ordering
decide whether it is correct: the life of a run in the HTTP server, the agent loop and
the stream it reads, the durable session and the folding of its transcript, the cache of
active sessions, the client's prompt queue and the bots' jobs, the services a run is given
(settings, MCP servers, A2A Agents), the memory, the workspace tools, the rows of projects
and the launches of the application. TLC checks each of them on small instances; TLAPS proves
the safety of all of them for every number of runs, sessions, prompts, calls, messages, deltas,
claims and rows.

## The system

A desktop or browser client talks to a Rust server (`crates/dss-api`). A **session** is a
conversation with one agent. A prompt is posted to `/sessions/{sid}/stream-sse`; the
server takes the session's mutex, spawns the agent loop (`crates/dss-agent`) and relays
its events as server-sent events. The loop alternates provider calls and tool batches,
checkpoints its history to SQLite (`crates/dss-db`) after every delivered tool batch, and
ends with one terminal event, which the client sees only after the run was stored and
the mutex released. A run can be stopped (`/cancel`), can pause for a plan approval or a
question, and can be killed by a panic, a crash or a vanished client at any point.

| Component | State | Operations | Interacts with | What is hard | What makes it correct |
|---|---|---|---|---|---|
| Run control and relay (`sessions.rs`, `state.rs`) | registry of controls and early-Stop markers, per-run state/finished/persistence, session mutex, two channels | accept, register, relay, stop, finish | client, agent loop, storage | Stop racing the terminal event, Stop before its stream, guards dropped in order, panics, lost clients | a terminal event or a Stop answer implies release and storage; Stop and completion exclude each other |
| Agent loop (`runner.rs`, `frame.rs`, `session.rs`, `context.rs`) | history, published turn, plan, counters of its gates | iterate, stream, gate, run tools, checkpoint, pause, review, cancel | provider, tools, checkpoint worker | cancellation in the middle of anything, drafts taken back, gates that loop | history is well formed and is what the client saw; nothing runs before approval; every run ends |
| Provider client and DSML guard (`dss-llm/client.rs`, `dsml.rs`) | attempts, partial answer, what was released | request, retry, stream, release, decide | agent loop | retry after a partial answer, a control envelope cut anywhere | a request is replayed only before its first event; what was shown is the turn |
| Session persistence (`sessions.rs`, `repo.rs`, `schema.rs`, `db.rs`) | session in memory with its cursor; rows of session, messages, runs, plan | accept, checkpoint, persist, roll back, approve, restart, restore | agent loop, cache | crash between two transactions, a failed last transaction, panics, UPDATEs that outlive their request | memory and rows agree on a prefix; approvals and pauses survive |
| Rolling compaction (`dss-compact`, its calls in `runner.rs`) | folds, hard wall, checkpoint of the folds | shorten, choose, summarise, project, roll back, restart | agent loop, persistence | turn boundaries, budget arithmetic, rollback under the folds | the view is the whole transcript; nothing over the wall is sent |
| Active session cache (`sessions.rs`, `state.rs`) | map of active sessions, single-flight lock, per-object mutex | restore, evict, create, delete | all requests | two loaders, eviction, deletion under a run, handlers dropped half-way | one mutex per session, no lost row |
| Prompt queue and coordinators (`frontend/src`) | queue, steer reservation, lease, stream buffer, reads in flight | send, edit, move, delete, activate, Stop, steer, restore | server through answers in any order | callbacks between two awaits, stale reads, failures of each request | no prompt lost or run twice; launches only over a finished and restored run |
| Bots and durable jobs (`bots.rs`, `repo.rs`, `WorkbenchPage.tsx`) | `bot_jobs` rows with revision and position; the page's copy | enqueue, edit, reorder, delete, claim, finish, requeue at startup | prompt queue | messages in any order, revisions invented by the page, a restart under a running job | one granted claim per job, no job stranded |
| Projects, bots, sessions (`projects.rs`, `bots.rs`, `sessions.rs`, `repo.rs`) | rows and directories | create, archive, delete, edit, relocate | sessions, workspace | reads and inserts of one request in different places, a copied data directory | a session has its project and its files |
| Settings and runtime (`settings_endpoints.rs`, `state.rs`, `settings.rs`) | settings file, revision, snapshot, catalogue, MCP runtime | load, submit, save, refresh, restart, capture | runs | save and accept concurrently, a handler dropped after its commit | a run uses what belongs together; a secret is used where it was typed for |
| MCP client and manager (`dss-mcp`, `builtin/mcp.rs`) | links, catalogue, reserved mutations, listing cursors | connect, mount, call, list | tools of a run | budgets, clashing catalogues, a mutating call without an answer | a run calls what was offered, each mutating tool once |
| A2A client (`dss-a2a`, `builtin/a2a.rs`, `agent_registry.rs`) | guard of the tool, card, remote tasks | send, submit, get, cancel, poll | tools of a run | lost answers, lying cards, deadlines | an effect happens once; the handle of a task is kept |
| Memory (`dss-memory`, `memories.rs`, `builtin/memory.rs`) | claims, index, events | extract, consolidate, approve, edit, recall, retain | persistence, tools | sequences of extractions and edits, an index older than the rows | what needs review is reviewed; what is dead is not recalled |
| Workspace tools and processes (`router.rs`, `process.rs`, `files.rs`, `bash.rs`, ...) | workspace lock, process groups, blocking jobs | run, time out, stop, abandon | agent loop, file endpoints | a job that outlives its call, background children | no process outlives its call; no uncut call is overwritten unread |
| Launches (`src-tauri/main.rs`, `dss-bin/main.rs`, `state.rs`, `schema.rs`) | the shell, its child, the port, the rows a dead process left | probe, spawn, wait, close, migrate, bind, drain | everything durable | a port taken between probe and bind, a shell that dies, a second launch | nothing stays behind; what the dead left is settled |
| Verification, skills, logs, views | text, files, windows | — | — | — | — |

`PROJECT.json` lists the same parts with their status, and the hazards at their lines.

## Modules

| Module | Models | Checked through |
|---|---|---|
| `RunLifecycle` | `stream_sse`, `cancel_run`, `relay_agent_events`, `RunControlRegistry`, `ActiveRunControl` | `MCRunLifecycle` |
| `RunLifecycle_proofs` | the theorems about it | TLAPS |
| `SessionContract` | what the server promises a session's runs; implemented by `RunLifecycle` | `KeepsTheContract` |
| `AgentRunner` | `Runner::run` and what it calls | `MCAgentRunner` |
| `AgentRunner_proofs` | the theorems about it | TLAPS |
| `SessionDurability` | one session in memory against its rows | `MCTranscript`, `MCSessionDurability` |
| `Compaction` | `dss-compact` inside the loop that calls it | `MCTranscript` |
| `Transcript_proofs` | the theorems about these two | TLAPS |
| `SessionCache` | `restore_session`, `create_session`, `delete_session`, the users of the map | `MCRequests`, `MCSessionCache` |
| `SessionCache_proofs` | the theorems about it | TLAPS |
| `PromptQueue` | the client's queue, gate and coordinators for one session | `MCRequests` |
| `PromptQueue_proofs` | the theorems about it | TLAPS |
| `AgentCards`, `RemoteAgent` | what a card allows to be called; one A2A tool before a remote Agent | `MCServices` |
| `McpServers` | connection, catalogue and calls of the MCP servers | `MCServices` |
| `SettingsRuntime` | settings windows, `settings.json`, what is derived from it, capturing runs | `MCServices` |
| `AssistantStream` | one model call: retries, guards, end of the turn | `MCServices` |
| `Services_proofs` | the theorems about `RemoteAgent`, `McpServers`, `SettingsRuntime`, `AssistantStream` | TLAPS |
| `MemoryClaims` | the claims, their consolidation, recall and retention | `MCMemoryJobs` |
| `BotJobs` | `bot_jobs` behind its handlers, and the page that mirrors it | `MCMemoryJobs` |
| `WorkspaceTools` | the tools around the workspace lock | `MCMemoryJobs` |
| `Stores_proofs` | the theorems about `MemoryClaims` and `WorkspaceTools` | TLAPS |
| `ProjectRows` | rows and directories of projects, bots and sessions | `MCMemoryJobs` |
| `AppLaunch` | shells and backends on one data directory | `MCMemoryJobs` |
| `Tables_proofs` | the theorems about `ProjectRows`, `AppLaunch` and `BotJobs` | TLAPS |

The modules meet at narrow interfaces instead of being multiplied into one state space.
`RunLifecycle` takes from `AgentRunner` that a run whose receiver is closed ends as
cancelled, and that any other ends with exactly one terminal event, the last it sends.
`SessionDurability` takes from `RunLifecycle` and `SessionCache` that one run at a time
owns the session. `PromptQueue` takes from `RunLifecycle` that the answer to a Stop and
the terminal event come after the release (`StopAckAfterRelease`,
`TerminalAfterCleanup`). `AgentRunner` takes from `AssistantStream` that a turn is one of
answer, tool batch, withdrawn or failed, whatever its deltas were. `BotJobs` and
`PromptQueue` are two views of the same page: the second has no database, the first no
coordinators. `Compaction` takes from `AgentRunner` that a tool batch enters the log whole.

`MCServices`, `MCMemoryJobs`, `MCTranscript` and `MCRequests` put several of these components in one
instance. The components there share no state, so that a step of one commutes with the
steps of the others and the product would only repeat each of them; a variable `focus`,
chosen in the initial state, says which one a behaviour is about.

### RunLifecycle and SessionContract

A stream request is `TryLock`, a stretch of fallible steps (`AbortAcceptance`),
`Register`/`RegisterRefused` and `EvictFinished` under the registry's lock, `SpawnRelay`
and `SpawnRun`. The run task is `StartRunner` (or `RefuseDriftedCursor`), `RunnerEmits`,
`RunnerCompletes` or `RunnerObservesClosed`, `PersistCommits`/`PersistFails`,
`RunTaskReturns`, `ReleaseSession`, `FinishRun`; the last two are the drops of its two
guards in declaration order, which also happen after `RunTaskPanics`. The relay takes an
event, forwards progress, marks a terminal event against Stop (`RelayMarksTerminal`,
`RelayLosesTerminal`) and holds it until `finish` (`RelayDelivers`). A Stop is a lookup
(`StopFindsControl` or `StopPreCancels`), the compare-exchange (`RequestCancel`), the
signal (`SignalCancel`) and the answer (`StopAnswers`, or `StopTimesOut` after 15 s).
The atomics, the watch channel and the bounded event channel are separate variables, so
every interleaving between the compare-exchange and the signal is there.

`SessionContract` is the abstract specification: a run takes its session or is refused,
stores a result while it owns it, gives it back, ends, and the client is told once, either
what storage holds or a failure. `RunLifecycle` implements it under the mapping `Contract`
(owner is the mutex, what is told is what the SSE channel delivered); `KeepsTheContract` is
checked as a property of the detailed specification.

Run ids are fresh (the client draws a UUID), so the branch of `register` that replaces a
control of the same key is not reachable and not modelled.

### AgentRunner

One run. Provider replies, tool results, verdicts of the reviewer and the outcome of a
checkpoint are choices. Text is abstracted to what a turn published: nothing, thinking or
text. Notices that the loop pushes into the prompt between turns are left out: they
change what the provider is asked and not what the loop does. `Cancel` is possible at
every await that selects on `tx.closed()`, and cancelling at the head of an iteration
does not count that iteration. The counters of the gates (empty answer, length, denial,
incomplete plan, veto, reminders) are the code's, with its caps as constants.

### AssistantStream

One model call. `SendSucceeds`/`SendFails` are the attempts of `send_with_retry`,
`EndsEmpty` and `StreamFails` before the first event the preflight replays of
`chat_stream`; after it a failure ends the turn. `Delta` and `NativeDelta` hand the runner
a piece of text, thinking or a native call; `released` and `frozen` are the cursors of the
publication guard, `latch` the length of the thinking when the text showed its first `<`.
`Decide` reads the finished turn as an answer, an envelope, native calls or an invalid
turn. Text is a sequence of tokens, among them the control tags and a code delimiter, so
that a delta may cut an envelope anywhere but inside a tag; a partial tag is the token
`lt` that is not known to be one yet.

### SessionDurability

Messages are identified by the run that produced them and plans by the run that generated
them, which is what the cursor, range and staleness checks can tell apart. The terminal
transaction, the checkpoint, the rollback, the approval and the startup repair are each
one action, because each is one SQLite transaction or one stretch under the mutex.
`DropDuringUpdate` and `ApproveDropped` are requests whose future is dropped while their
UPDATE is still queued in the blocking pool; `LateUpdate` executes it.

### Compaction

The log is a sequence of messages with a role and a weight in tokens, in full and as
microcompact shortens it. `Project` builds the view from the folds as `projection` does,
aligned to turn boundaries. `PromptArrives`, `Iterate`, `PassPicks`, `SummaryArrives` or
`SummaryFails`, `SendRequest` and `Answer` are the loop of `runner.rs` around
`maybe_compact_with_reserved_tokens`, which takes its chunk from
`pick_next_chunk_with_min_tokens` and ends in `record_fold`; `RunRollsBack` and `Restart` are
what the folds must survive.
The thresholds are constants in the order `chunk.rs` computes for every window; the
weights of summaries range over what the output ceiling lets through.

### SessionCache

Requests go through `restore_session` (check, single-flight lock, second check, load,
insert, evict) and then use the object they got; the object, not the id, owns the mutex.
A client may leave at any await (`Leaves`, `DeleteDropped`, `CreateDropped`): the handler is
dropped and its guards with it. The DELETE or INSERT it had sent is in the blocking pool by
then, or waits for a connection; `late` holds it, and `LateStatement` runs it at any later
time or never. A deletion that is dropped between its row and its entry leaves the entry.

Two faults of the code are recorded and not hidden. `displaced` is the sessions whose object
was evicted while a request used it, or replaced by a creation that others had overtaken;
`dropped` the sessions of a deletion that was dropped half-way. `OneMutexUnlessDisplaced` and
`DeletionIsClean` except these sessions and no others; two runs show what happens to them.

### PromptQueue

A browser callback is one step and an await ends it. The gate holds the lease of one of
the three coordinators. Reads of the session carry the currency that
`AsyncVersionGuard` gives them. Every request may fail, at any point, with or without
effect in the backend. The mirror of the queue of a bot session is `BotJobs`.

### BotJobs

`table` is `bot_jobs`, `queue` the page's copy, `wire` the requests and answers under way,
in any order; either may be lost (`SendFailed`, up to `LOSSES`). The page acts
on its copy at once: `Send`, `EditItem`, `DeleteItem`, `ReorderItems`, and `LaunchItem`,
which starts the run beside its claim. `ClaimAnswered` and `QueueReplaced` are the
continuations of the answers; the finish is sent when the claim is answered and the
run has ended. The `*Served` actions are the handlers and the repository functions with
their WHERE clauses, each one UPDATE. `Reboot` is the requeue of `schema.rs:263` and
closes the page.

### ProjectRows

Rows of projects, bots and sessions, with their foreign keys, and the directories of the
sessions. A creation is `BeginCreate` (reads bot and project, makes the directory) and
`InsertRow` (refused when a key is gone); a deletion is `DeleteRow`, then
`DeleteFiles`. `DeleteProject` rehomes what hangs on the project to the default in the same
transaction. `UpdateBot` carries the revision its form read. `Outage` stops the process
between any two steps and may copy the data directory to another home, which
`ResolveWorkspace` copes with.

### SettingsRuntime

A window loads, submits, takes the save lock, merges, commits the file and refreshes
runtime, catalogue and MCP runtime, one action each, because a run captures the three at
different moments and the handler may be dropped after the commit (the refresh continues
in its own task). The content is its version, the log policy, one credential of each kind and
the compatibility object `llm`; a secret is named by the place it was typed for. The process
environment may override the provider's place; an override of its key is not modelled.

`SecretsStayPut` is about the entries that are in effect, those of `providers` and
`a2a_agents`: each has its own secret or none. It does not hold of `llm`: `LlmOf` replaces the
place and keeps the secret that was there when the provider has none of its own, as
`settings_endpoints.rs:846` does. `RuntimeFollowsDisk` says that no run is given that secret,
because `EffectiveKey` never reads `llm` while a provider is enabled (`settings.rs:1040`).

### McpServers

Every configured server is one connection attempt (`Initialize`, `Initialized`,
`ListTools`, `AttemptEnds`), all polled together; what a server offers is chosen when it
is asked. `BuildRuntime` mounts the catalogue in the order of the settings and drops
duplicates, invalid definitions and what is over `MAX_MCP_TOOLS`. `CallTool` reserves a
mutating call before any I/O; `WalkPage` is one page of a listing with its cursor.

### AgentCards and RemoteAgent

`AgentCards` is `card.rs` as operators: a card is abstracted to the choices the parsers
make and each parser returns the place that may be called or the error. `RemoteAgent` is
one call of the tool after another within a user run: the guard of the tool (`BeginCall`
or `RefuseCall`, `RefuseDescriptor`), the refresh of the card, the operation, which may be
lost on the way (`OperationUnsent`) or lose its answer (`OperationUnanswered`), the
answers an Agent may give, the polling and the deadline.

### MemoryClaims

Rows, index and events of the store, with an event write that can fail after its UPDATE
was committed. An extraction reads its project and the existing claims and consolidates
one item at a time; supersession follows in a transaction of its own. A recall loads or
reuses the cached index, searches, fetches rows by id, touches them. Approvals, edits,
deletions, ageing, the retention sweep and the deletion of the project may come between.
A body is a model value, near-duplication and ranking are choices.

### WorkspaceTools

`waiting` is the FIFO of the workspace lock, `inside` the calls with a guard, `pool` the
blocking jobs that have not run. `bash` and `python` hold the shared side while their
process group lives; `write`, `edit`, `compile` and the user's delete hold the exclusive
one. `RouterTimesOut`, `RunStops` and `ClientDisconnects` drop a call: its group is
killed, its guard released, and its job stays in the pool.

### AppLaunch

Each launch is a shell with its backend, or a backend served by hand, on one data
directory. The shell goes through `Probe` (other programs may hold any of the ports),
`Spawn`, and `InspectChild`/`AskHealth` in turns until the child is ready or has failed;
`CloseWindow` and `ChildEnds` are SIGTERM and what `kill_backend_child` does after the
grace, `ShellDies` a shell that does neither. The backend does `Migrate`, `Bind`, `Drain`,
`ParentExits` (its parent watch) or `Crash`. `StartRun`, `Checkpoint` and `PersistRun` are
one run as its row of `session_runs` sees it; `Repaired` is what a migration does to the
rows of all launches. `settled` remembers who was gone when a backend migrated.

## Runs

Bounds are the smallest at which the cases the properties are about occur: two runs of
one session (one to be evicted, blocked or confused with the other), two Stops (one that
loses), capacities of one (so that every queue is full and overflows), caps of one or two
on the retries (so that a cap is reached and passed).

| Run | Instance | Shows |
|---|---|---|
| `run_lifecycle` | 1 session; two streams and a Stop, or a stream and two Stops; capacities 1 | what the client and the Stop caller are told agrees with what was released and stored; ends are told; early Stops hold; live controls stay; one run per session; the contract of a session is implemented; a stopped or abandoned run ends |
| `agent` | planning and execution with limits 1 and 3, ordinary runs with limit 4 | plan, history and dialogue agree through every gate, pause and cancellation; nothing runs before approval; calls are paired; review fails closed; every run ends |
| `agent_replan` | execution, limit 2 | **violation**: an execution run replaces its approved plan by an unapproved one and ends |
| `transcript` | 3 runs of 2 batches, 1 crash, 1 dropped request, unreadable plans; a log of up to 6 messages under a wall of 10, 1 restart | prefix, attribution, ranges, pauses, approvals; a folded view is the whole transcript and fits |
| `session_evidence` | 2 runs | **violation**: the evidence range of a later run without tools starts at message 1 |
| `requests` | 3 prompts, 2 revisions, room for 4 runs; 2 streams and a delete of one session, a read and the creation of another, a map of size 1 | every prompt once, reservations end with their steer, leases launch cleanly and own the session, old reads never apply, Stops settle; one mutex per session and no lost row or ghost entry but for evictions, overtaken creations and dropped deletions, every request is answered |
| `session_evict` | map of size 1, a second session | **violation**: evicting a session in use gives the next request a second mutex |
| `session_drop` | 2 streams and a delete | **violation**: a dropped deletion gives the mutex back and takes the row from under the next run |
| `services` | 2 remote tasks, 2 calls, 1 poll; Registry and 1 server, 1 name; 2 windows, 1 run, 2 saves, 1 restart; 3 deltas, 2 attempts and 2 replays | effects bounded and handles kept, MCP bounded, settings coherent, the stream sound |
| `memory_jobs` | 2 claims, 2 projects, 1 extraction, 1 recall; 2 jobs, 2 runs, 1 loss, 1 restart; 3 tool calls; 1 session, bot and project, 2 forms, 2 homes, 2 restarts; 2 launches, 2 ports | memory governed, bot queue sound, workspace fenced, rows sound, launches clean |
| `recall_project` | as `memory_jobs` | **violation**: a recall for one project answers with a claim of another |
| `second_launch` | as `memory_jobs` | **violation**: a second launch marks the live run of the first as interrupted |

`InOrder` in `MCRunLifecycle` numbers the interchangeable Stops; symmetry is used only where
no liveness is checked, and in `memory_jobs` only for the bots' jobs and runs (a fresh id of
a claim is one fixed unused id). In `requests` a fourth run exists only so that a prompt
launched twice would be seen. In `services` a component out of focus starts in one fixed
state. Deadlock is checked except where the model has a last state (one run; bounded runs,
crashes, losses, saves, calls).

Several properties are conjunctions of named parts, because the parts are promises about
the same hazard. `EndsAreTold`: a listening client gets an end, and a Stop that was refused
meant a completion. `PlanIsHonest`, `HistoryIsTheDialogue`: plan, history and what the user
saw. `RunsAreAccountedFor`: ranges partition the transcript, cursor checks never refuse,
open rows have a run. `PlansAreDurable`: pauses and approvals survive, stale plans do not.
`DeletionIsClean`, `LeaseDiscipline`, `CompactionIsSound`, `RemoteEffectsAreBounded`,
`RemoteAnswersAreKept`, `McpIsBounded`, `SettingsAreCoherent`, `StreamIsSound`,
`MemoryIsGoverned`, `BotQueueIsSound`, `WorkspaceIsFenced`, `RowsAreSound`, `LaunchesAreClean`: see the
comments at their parts.

### Fairness

- `RunLifecycle`: weak fairness, per run, of the tasks the runtime schedules: the handler
  that accepted it, the run task and the relay. None for the client, the provider, the
  Stops or new requests: a provider that never answers does not keep `AbandonedRunEnds`
  from holding, because the Runner selects on the closed channel at every wait, and a Stop
  whose own task is never polled again has not signalled.
- `AgentRunner`: weak fairness of the loop as a whole. Provider, tools and reviewer have
  timeouts of their own, so each await ends with some answer.
- `SessionCache`: weak fairness of the requests together: as long as one that has arrived
  can be served, some request is. Tokio polls every ready task and its locks are fair, which
  is more than is assumed. Clients need not leave, a late statement need not run, and nobody
  has to send a request.
- `PromptQueue`: weak fairness of the coordinators' continuations. `cancel_run` is
  answered within 15 s and a request ends with an answer or a transport error.
- The modules of `services`, `memory_jobs` and `transcript` state no fairness: their
  properties are safety.

## Proofs

Each proof module EXTENDS the component it is about. A theorem holds for every value of the
constants that satisfies the named assumption of the component, without the bounds of the
runs. The properties are those the runs check; each inductive invariant (`IInv`, or the
name given below) was itself checked by TLC, on the instance of the component's run or a
larger one, before it was proved. Constants that no assumption names may be anything.

| Module | Theorem | Property |
|---|---|---|
| `RunLifecycle_proofs` | `TypeCorrect` | `TypeOK` |
| | `SessionExclusive` | `LiveRunOwnsSession` |
| | `TerminalEventsAreSettled` | `TerminalAfterCleanup` |
| | `StopsAnswerAfterRelease` | `StopAckAfterRelease` |
| | `StopAndCompletionExclude` | `NoCompletionAfterStop` |
| | `LiveControlsStay` | `ActiveRunIsStoppable` |
| | `EarlyStopsHold` | `PreCancelledNeverStarts` |
| | `EndsReachTheClient` | `EndsAreTold` |
| | `ContractKept` | `KeepsTheContract` |
| `SessionCache_proofs` | `TypeCorrect` | `CacheTypeOK` |
| | `OneMutex` | `OneMutexUnlessDisplaced` |
| | `DeletionsAreClean` | `DeletionIsClean` |
| `Transcript_proofs` | `TypeCorrect` | `TypeOK` |
| | `MemoryExtendsStorage` | `DurablePrefix` |
| | `TranscriptIsAccountedFor` | `RunsAreAccountedFor` |
| | `PlansSurvive` | `PlansAreDurable` |
| | `CompactionStaysSound` | `CompactionIsSound` |
| `AgentRunner_proofs` | `TypeCorrect` | `TypeOK` |
| | `NothingBeforeApproval` | `NothingRunsBeforeApproval` |
| | `CallsStayPaired` | `ToolCallsPaired` |
| | `HistoryMatchesTranscript` | `HistoryIsTheDialogue` |
| | `ReviewGuardsTheEnd` | `ReviewFailsClosed` |
| | `PlanStaysHonest` | `PlanIsHonest` |
| `PromptQueue_proofs` | `TypeCorrect` | `TypeOK` |
| | `PromptsAreKept` | `EveryPromptOnce` |
| | `LeaseKeepsOrder` | `LeaseDiscipline` |
| `Tables_proofs` | `RowsKeepTheirKeys` | `RowsAreSound` |
| | `LaunchesLeaveNothing` | `LaunchesAreClean` |
| | `BotJobsAreSound` | `BotQueueIsSound` |
| `Services_proofs` | `EffectsAreBounded` | `RemoteEffectsAreBounded` |
| | `AnswersAreKept` | `RemoteAnswersAreKept` |
| | `ServersAreBounded` | `McpIsBounded` |
| | `SettingsAreSound` | `SettingsAreCoherent` |
| | `RequestsAreBounded` | `ReplayStopsAtFirstEvent`, a part of `StreamIsSound` |
| | `StreamStaysSound` | `StreamIsSound` |
| `Stores_proofs` | `FenceHolds` | `WorkspaceIsFenced` |
| | `MemoryStaysGoverned` | `MemoryIsGoverned` |

The argument has one shape everywhere: `Init => IInv`; a lemma per conjunct (or per group
of variables) that every step preserves it, assuming the others before the step, with one
step per action that can disturb it; each property follows from `IInv`.

### RunLifecycle

From `RunAssumption` alone (a session for each run, positive capacities; no bound on the
number of runs, sessions or Stops). None of the properties is inductive. `IInv` conjoins
`TypeOK` and `ActiveRunIsStoppable` with what the others lean on: `HeldInv` (what the relay
may hold at each of its program points, needed for `TypeOK` itself), `LockInv` (exactly the
live program points own the session's mutex, and a finished run is past them),
`OutcomeInv` (a terminal event in the channel or in the relay's hands is the outcome that
persistence stores), `ClientInv` (the relay holds a terminal event only after it won the
compare-exchange, and what the client saw is finished, committed and stored), `StopInv` (a
Stop that was answered found its run finished; one that won has a run in
`cancel_requested`), `MarkerInv` (an early Stop whose marker was not pushed out still has
the marker, or its run was refused), `RelayEndInv` (how a relay that has ended did end, so
that a client which still listens was told), `VerdictInv` (what a refused Stop lost to) and
`StoreInv` (what storage holds of a run that is past persistence).

`ContractKept` is the refinement: with `Contract` as the mapping, the initial state maps to
that of `SessionContract`, and under `IInv` every step maps to the step of the contract
that the code takes there (`TryLock` to `Begin`, `PersistCommits` to `Store`,
`ReleaseSession` to `GiveBack`, `FinishRun` to `End`, the delivery of a terminal event to
`Tell`) or leaves the mapped variables alone.

### SessionCache

From `CacheAssumption` (session ids of creations are fresh, the map keeps at least one
session), for any requests, sessions and size of the map: evictions, late creations, dropped
handlers and late statements are all steps of the specification the theorems are about.

`CacheInv` adds to the types what each kind of request can be doing (`KindInv`), whose
statements may run late (`LateInv`), and that nobody gets past the load of a session whose row
is still to be written (`FreshInv`). For a session that is not in `displaced`, a loader works
while nothing is cached and, once it has read the row, nobody uses the session (`LoaderInv`);
a user works with the cached object, or with one whose row is gone (`UserInv`); a holder owns
the mutex of the object it took (`HolderInv`). `OneMutex` follows from the last three, for a
second object could only be loaded after the row of the first had gone, and a row does not
come back.

### SessionDurability

From `DurabilityAssumption` and `NullAssumption` (the null values are not plans or rows),
for any number of runs, batches, crashes and drops. `DurablePrefix` needs the author of
every message and the run its row names (`AuthorInv`), the cursor (`CursorInv`), and what a
run knows of its own messages (`TaskInv`: its messages are those beyond the snapshot, and
its row reaches from there to the cursor); the ranges follow by following the six ways in
which a step can change the two transcripts (`TranscriptEffects`). For the plans, `PlanInv`
holds the facts about memory, storage, snapshot and checkpoint only as long as neither of
the two faults happened that the code does not survive (`PlanFaultFree`); the theorem keeps
that condition because the property does; the two cases it exempts are described in
`What the models show of the code`.

### Compaction

From `CompactAssumption`, which is about what comes in and not about the thresholds in relation
to each other: a run begins with a user message, a summary is under the ceiling that was asked
for, a chunk is not empty. No bound on messages, turns, folds, passes or restarts is used, and
an answer may hold anything, a message of the user included.

`RollingInv` says what the code never checks: the folds are finished turns from the log's
beginning on, one directly after the other (`Fits`), so that the defensive normalisation of
legacy folds in `projection` and `first_unfolded_span` has nothing to do; the folds to roll back
to fit the log to roll back to, which is a prefix of this one. A chunk that is being summarised
begins where the folds end, and what is left after the longest summary is under the target or
nothing is left to fold (`ChunkInv`), for a summary that is worth recording lengthens the list
by one at its end. The rest is what the recursive functions of the module come to for such
folds: the view is one summary per fold and then the rest of the log (`ProjectIs`), the gap
reaches from the last fold to the newest turn (`GapIs`), and the weight of the view is that of
the summaries and of the rest (`ViewWeightIs`), about which `TargetInv` can be stated without
the view. These three are inductions over data too; each exhibits the function in closed form
or compares with the least number of folds at which a difference would show (`TotalIs`).

### AgentRunner

From `RunnerAssumption`, for any tools, batches, limits and caps. The strengthening is what
is shown and not yet in the history (`OpenInv`), that a visible message is a turn the client
saw (`GenuineInv`) and a turn the client saw is visible or still under way (`KeptInv`), where
the plan of the tool context comes from (`ContextInv`), what was settled before an answer
goes to the reviewer (`ReviewInv`), and which pause the last checkpoint has saved
(`PauseInv`). `Grows` classifies what a step appends to the history, so that pairing and
transcript are argued once per kind of append and not once per action.

### PromptQueue

From `QueueAssumption`, for any prompts, revisions and runs. `QueueStep` says that every
step moves prompts in one of seven ways (none, sent and run, queued, queued and the head
run, deleted, claimed, edited) and leaves the queue without duplicates; it rests on lemmas
about taking an item out of a sequence and putting one in. From it follow `PlaceInv` (a
prompt waits, has run or was deleted, and only one of these) and the reservation. `LeaseInv`,
`BackInv` and `LoadInv` carry the rest: only the running stream has a request that the
backend may still accept; while a coordinator loads, its run is over; and once its load is
answered nothing is alive and the answer shows the run. That is why a launch by lease is
clean and why a read begun before a launch is never applied.

### Tables

`RowInv` (from `RowAssumption`) adds to `RowsAreSound` that keys point to rows that are
there, that a directory exists before its row and goes after it, and which revisions a form
may carry. `LaunchInv` adds that a launch without a child has no backend, and that a
backend which was gone when another migrated stays gone with a row nobody writes any more.

`BotInv` (no assumption) says what a message on the wire implies about the row and the run
it names (`WireInv`): a claim or its answer belongs to a run that still waits for it, one per
run (`OneClaimInv`); a finish to a run that was granted its claim and has ended. `GrantedInv`
ties a granted claim to the row it owns, and `RunningInv` a running row to the run that owes
it an end.

### Services

`AgentInv` (no assumption) rests on the guard of the tool: whatever reached the Agent is
recorded there, and the operation that has still to be sent was reserved and has not happened
before (`GuardInv`), so that the history holds each effect once (`OnceInv`). `StageInv` says
where a call stands between the card and its terminal.

`McpInv` (from `McpAssumption`: at least one page may be asked for) says that the manager holds
of a server what the server last sent without its invalid definitions (`HeldInv`), that a
mutating tool was reserved before it was sent (`ReservedInv`), and that a listing that goes on
has met a new cursor with every page (`WalkInv`). That the catalogue takes the first definition
of a name needs that a set of positions has a least element.

`SettingsInv` (from `SettingsAssumption`: windows, runs and the free lock are different things,
and the environment's place is none of the user's) says who holds the save lock (`LockInv`), how
far what is derived may be behind the file while a commit is under way (`PublishedInv`), what a
run has captured so far (`CaptureInv`), and why a form whose revision is current was made from
the file as it is (`FormInv`).

`RequestInv` (from `StreamAssumption`: both attempt limits are positive, and deltas are made of
tokens) bounds the requests of one model call by the attempts its replays have still to use.

`AnswerInv` is about what the deltas amount to, however they were cut. `HistoryInv` gives the
types; `ReleaseInv` says of each channel that its cursor is inside the buffer and before its
first `<`, stays at 0 until a word came, and that what is shown of a turn not yet decided ends
there; `LatchInv` that the latch is the length of the reasoning at the delta that brought the
text's first `<`. A decided turn follows: before an envelope there are only spaces, so the cursor
of its text is still at 0. A buffer is a fold over the deltas, of which the proof needs that one
more delta is one more piece of it (`BufferAppend`). That is an induction over data; the theorems
that state induction cannot be instantiated here, so it is done by the least number of deltas at
which the folded function would not exist (`JoinsExists`) or two of them would differ
(`JoinsAgree`).

### Stores

`ToolInv` (no assumption) says what a call is at each stage (`StageInv`), that the exclusive
side of the lock has one holder and no shared one beside it (`ExclusionInv`), which jobs are in
the pool and what they will write (`JobInv`), that nothing shows what has still to be written
(`WrittenInv`), and that the file is what an uncut call has seen of it, or shows a cut call
since (`SeenInv`). Looking for it corrected the property: `OnlyCutCallsInterfere` used to say
that of two calls, one of which overwrote the other unread, one was cut. Three calls satisfy
that and four do not: the late job of a cut edit brings back a text it had read, and what an
uncut edit then overwrites unread includes a text of a call that nobody cut. The property now
says that the cut call's own text is lost with it. `memory_jobs` has three calls; the module
alone was also checked with four.

`MemoryInv` (no assumption) adds to the review of active rows that a row exists before another
names it as its replacement and that it needed no review (`RowInv`, `ExtractionInv`), that rows
which were dead when a recall began are dead still unless a user approved them (`RecallInv`),
and that the sweep visits rows that exist (`SweepInv`). `RowsGoOn` says what every step but an
approval does to the rows, and each step is argued through it.

### What is only model-checked

Liveness (`AbandonedRunEnds`, `RunTerminates`, `EveryRequestIsAnswered`, `StopSettles`) is
outside the prover, as is anything with ENABLED. The type
invariants of `RemoteAgent`, `McpServers`, `SettingsRuntime`, `WorkspaceTools` and `BotJobs` are
part of the inductive invariants and not properties of a run.

## What the models show of the code

Eight disagreements between the code and what it says have an entry in `PROJECT.json`. Six of
them are runs of their own (above): `agent_replan`, `session_evidence`, `session_evict`,
`session_drop`, `recall_project` and `second_launch`. Two are about a property that holds, where
a comment or a document says something else:

- The rows of a checkpoint carry the id of their run from the start (`repo.rs:1115`), which
  `RunsAreAccountedFor` states of every moment. The comment above the function still says that
  they "remain temporarily unowned (`run_id = NULL`) until terminal `persist_run` attaches
  them" (`repo.rs:998-1000`), and describes what a crash would leave in those terms.
- `save_settings` writes the `llm` object for readers of the older format
  (`docs/api-contract.md:68-70`). It takes over the new `base_url`, but the `api_key` only when
  the enabled provider has one (`settings_endpoints.rs:846`), so after a change of authority
  without a key the earlier key stays in the file beside the new `base_url`. This backend never
  uses the pair (`SettingsAreCoherent`); a reader that only knows `llm` would. The test
  `changing_provider_authority_clears_omitted_credential` (`settings_endpoints.rs:2029`) looks
  at the providers and the runtime only.

Six more are stated as definitions in their modules, which TLC refutes, and have no run:

- `StoppedRunIsCancelled` (`RunLifecycle`). A Stop that wins after the Runner sent
  `Complete` is answered `cancelled: true`, and the run is stored as completed
  (`sessions.rs:775-777`).
- `ReadyIsItsOwn` (`AppLaunch`). The health endpoint wants no token, so two shells that
  probed the same port both take the answer of the backend that bound it; the second
  window has a token that backend refuses (`src-tauri/main.rs:219-255`).
- `JobRunsOnce` (`BotJobs`). A claim that overtakes its enqueue, or carries a revision the
  page has made up, is refused; the run goes on all the same, its row stays queued and the
  job comes back with the next list. `bots.rs:4` speaks of a "revisioned, restart-safe
  execution queue", `repo.rs:2664` of "exactly once".
- `StaleFormIsRefused` (`SettingsRuntime`). The revision starts again with the process, so
  a form loaded before a restart can be accepted after it (`docs/api-contract.md:30`,
  `:66`). `SavesNeverLost` speaks of one process.
- `LogPolicyIsKept` (`SettingsRuntime`, needs two policies). The form shows the policy read
  at startup and writes it back (`settings_endpoints.rs:456-457`; `docs/decisions.md:169`).
- `NoLostUpdate` (`WorkspaceTools`). An edit that is stopped while its write is in the
  pool releases the guard first, and the write then overwrites what was written in between
  (`files.rs:158-160`). `WorkspaceIsFenced` exempts calls that were cut short.

The rest is exempted by name in the properties, or kept out of an instance, so that what
remains of their promise is still checked:

- `restore_session` treats a plan it cannot read as none (`sessions.rs:589`); the next
  fresh request then skips clearing the stored plan (`sessions.rs:1093`), and a restart
  brings the superseded plan back. `PlanFaultFree` exempts it (`misread`).
- An UPDATE of a dropped request executes later (`db.rs:21`) and can wipe an approval
  that was answered in between. `PlanFaultFree` exempts it (`drops`).
- A reader can restore a session between the INSERT of `create_session` and its own
  insertion into the map, which then replaces the object (`sessions.rs:122`), and a deletion
  in between leaves an entry without a row. `displaced` records both.
- `delete_session` dropped while its DELETE is queued (`sessions.rs:296`, `db.rs:21`) gives the
  session's mutex back; a stream may take it with the row in place and lose the row under its
  run (`session_drop`). Dropped while it waits for the map (`sessions.rs:304`), it leaves the
  entry, and a stream finds a session that storage no longer has. `dropped` records both.
- A stream that obtained its object before a deletion locks it afterwards
  (`sessions.rs:286`, `1024`) and runs without a row; `DeletionIsClean` speaks of runs
  accepted while the row existed.
- `create_session` never evicts, and eviction takes the first key in hash order, so the
  map is neither bounded nor least-recently-used (`sessions.rs:599`).
- A refused insert, or a crash before it, leaves the directory that `create_session` made
  (`sessions.rs:67-121`), and a bot disabled in between still gets its session.
- `delete_session` removes the directory under the current data directory only, and the
  project's `last_session_id` keeps naming the session. After the data directory was
  copied, the old persisted path stays authoritative as long as it exists.
- A Stop that is acknowledged aborts the SSE before its terminal event, and then the page
  never sends the finish of the bot's job (`WorkbenchPage.tsx:561-578`,
  `store.ts:785-826`): the row says running until a restart requeues it.
  `NoJobIsStranded` exempts stopped runs and lost messages.
- A reorder raises the rows' revisions in the database; together with an edit the page
  made locally, its invented revision can equal the server's.
- A page load during a restore makes the restore's read stale; the drain then gives up
  and the queue waits for the user (`promptRunCoordinator.ts:191`).
- A stream that broke while its Stop was under way, and whose Stop then failed, stays
  `running` until the user presses Stop again (`store.ts:707`, `829`).
- A Stop answered by a marker does not wait for the request it marks; that request may
  still hold the mutex briefly, so the next prompt can meet a 409
  (`sessions.rs:1665`).

## Not modelled

- Text and formats: prompts, Markdown and HTML, ranking (BM25), similarity, JSON shapes,
  the CommonMark rules that protect code in an answer (one token), the parts of an A2A
  message. The models keep what the control flow reads of them.
- The provider, tools, reviewer, summariser, MCP servers and A2A Agents: they answer as
  they like. The parsing of the reviewer's verdict (`dss-verify`) is text.
- Web and literature tools: requests without state of their own. The sandbox profile is
  configuration. Microcompact is only known to make a message lighter.
- Skills, logs and views: files, two DELETEs and windows. Of the server binary, the
  one-shot model bridge (`llm-once`) and the flags; of the shell, its windows and log file.
- That an orphaned backend ends (`ParentExits`) is an action and not a liveness property:
  `AppLaunch` states no fairness.
- `claim_next_bot_job`: nothing calls it.
- A process that leaves its group (`setsid`) survives `killpg`; the tools' children are
  assumed to stay in it.
- SQLite and Tokio: transactions are atomic, locks are exclusive and fair.

## Plan

Done: the modules above, and the safety of all of them as theorems.

Next:

1. An abstract store of a session (a transcript that only grows or returns to a saved prefix),
   implemented by `SessionDurability` as `SessionContract` is by `RunLifecycle`.
