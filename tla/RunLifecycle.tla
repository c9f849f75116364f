---------------------------- MODULE RunLifecycle ----------------------------
(***************************************************************************)
(* The life of one run of a session inside the HTTP server.                *)
(*                                                                         *)
(* A stream request (`stream_sse`) takes the session mutex, registers an   *)
(* `ActiveRunControl` in the process-wide `RunControlRegistry` and spawns  *)
(* two tasks: the run itself, which drives the agent, persists the result, *)
(* releases the mutex and only then publishes `finish`; and the relay,     *)
(* which moves agent events to the SSE transport and holds the terminal    *)
(* event until `finish`.  Stop requests (`cancel_run`) arrive at any time, *)
(* even before the stream they mean to stop.                               *)
(*                                                                         *)
(* What the agent does inside a run is the business of module AgentRunner; *)
(* here it emits progress events and ends with one outcome.                *)
(***************************************************************************)
EXTENDS Naturals, Sequences, FiniteSets

CONSTANTS
    Runs,                       \* (session id, client run id) pairs
    Sessions,
    SessionOf,                  \* the session of each run
    Streams,                    \* the runs whose stream request reaches the server
    Stops,                      \* cancel_run requests
    NoRun,
    MAX_RECENT_RUN_CONTROLS,
    MAX_PRE_CANCELLED_RUNS,
    EVENT_CHANNEL_CAP

ASSUME RunAssumption ==
    /\ SessionOf \in [Runs -> Sessions]
    /\ NoRun \notin Runs
    /\ Streams \subseteq Runs
    /\ MAX_RECENT_RUN_CONTROLS \in Nat \ {0}
    /\ MAX_PRE_CANCELLED_RUNS \in Nat \ {0}
    /\ EVENT_CHANNEL_CAP \in Nat \ {0}

VARIABLES
    \* RunControlRegistryInner, and the StdMutex around it
    controls,           \* keys of the map of registered controls
    control_order,
    pre_cancelled,
    registry,           \* the run whose register() call holds the StdMutex
    \* ActiveRunControl, per run
    state,
    cancel_tx,          \* value of the watch channel
    finished,
    persistence,
    \* the tasks
    mutex,              \* owner of each session's mutex
    handler,            \* program point of the stream_sse request
    task,               \* program point of the spawned run task
    outcome,            \* RunOutcome.kind of the run task
    relay,              \* program point of relay_agent_events
    held,               \* the event the relay has taken from the channel
    chan,               \* agent channel, Runner -> relay
    tx,                 \* is the Runner's end of it alive
    \* outside the server
    sse,                \* does the client still read the SSE response
    ui,                 \* the terminal event the client received
    stop,               \* the cancel_run requests
    \* storage
    db,                 \* terminal status stored by persist_run
    \* history: Stops answered by a marker, and markers pushed out by the cap
    preAcked,
    dropped

registryVars == <<controls, control_order, pre_cancelled, registry>>
controlVars  == <<state, cancel_tx, finished, persistence>>
taskVars     == <<task, outcome, db>>
relayVars    == <<relay, held, ui>>
channelVars  == <<chan, tx>>
historyVars  == <<preAcked, dropped>>
vars == <<registryVars, controlVars, mutex, handler, taskVars, relayVars,
          channelVars, sse, stop, historyVars>>

\* CompleteKind of a Complete event: "completed" stands for natural and awaiting,
\* "failed" for error and max_iters; cancelled is never sent.
Outcomes  == {"completed", "failed"}
Progress  == "progress"
Terminal(e) == e \in Outcomes
NoEvent   == "none"
PersistenceError == "persistence_error"

Handlers == {"idle", "locked", "evicting", "registered", "relayed", "spawned",
             "abort", "aborted", "rejected"}
Tasks    == {"none", "started", "running", "outcome", "persisted", "unwinding",
             "released", "done"}
Relays   == {"none", "recv", "forward", "holding", "orphan", "done"}
StopPcs  == {"idle", "request", "signal", "wait", "ok", "failed", "timeout"}

Elements(s) == {s[i] : i \in DOMAIN s}
RemoveAt(s, i) == SubSeq(s, 1, i - 1) \o SubSeq(s, i + 1, Len(s))

-----------------------------------------------------------------------------
Init ==
    /\ controls = {} /\ control_order = <<>> /\ pre_cancelled = <<>>
    /\ registry = NoRun
    /\ state = [r \in Runs |-> "running"]
    /\ cancel_tx = [r \in Runs |-> FALSE]
    /\ finished = [r \in Runs |-> FALSE]
    /\ persistence = [r \in Runs |-> "pending"]
    /\ mutex = [s \in Sessions |-> NoRun]
    /\ handler = [r \in Runs |-> "idle"]
    /\ task = [r \in Runs |-> "none"]
    /\ outcome = [r \in Runs |-> NoEvent]
    /\ relay = [r \in Runs |-> "none"]
    /\ held = [r \in Runs |-> NoEvent]
    /\ chan = [r \in Runs |-> <<>>]
    /\ tx = [r \in Runs |-> FALSE]
    /\ sse = [r \in Runs |-> FALSE]
    /\ ui = [r \in Runs |-> NoEvent]
    /\ stop = [c \in Stops |-> [pc |-> "idle", run |-> NoRun, won |-> FALSE]]
    /\ db = [r \in Runs |-> NoEvent]
    /\ preAcked = {} /\ dropped = {}

-----------------------------------------------------------------------------
(* stream_sse: acceptance *)

\* Mutant of SessionFree: the handler goes on whoever holds the mutex.
SessionFreeUnchecked(r) == TRUE
SessionFree(r) == mutex[SessionOf[r]] = NoRun

\* try_lock_owned succeeds: the handler now owns the session.
TryLock(r) ==
    /\ r \in Streams
    /\ handler[r] = "idle"
    /\ SessionFree(r)
    /\ mutex' = [mutex EXCEPT ![SessionOf[r]] = r]
    /\ handler' = [handler EXCEPT ![r] = "locked"]
    /\ UNCHANGED <<registryVars, controlVars, taskVars, relayVars, channelVars,
                   sse, stop, historyVars>>

\* 409 "session already has an active run"; only the finish guard is dropped.
TryLockConflict(r) ==
    /\ r \in Streams
    /\ handler[r] = "idle"
    /\ ~SessionFree(r)
    /\ handler' = [handler EXCEPT ![r] = "rejected"]
    /\ finished' = [finished EXCEPT ![r] = TRUE]
    /\ UNCHANGED <<registryVars, state, cancel_tx, persistence, mutex, taskVars,
                   relayVars, channelVars, sse, stop, historyVars>>

\* An acceptance step fails, or the client goes away and the handler future is
\* dropped at an await: its channel ends go first, the guards in later steps.
AbortAcceptance(r) ==
    /\ handler[r] \in {"locked", "registered", "relayed"}
    /\ handler' = [handler EXCEPT ![r] = "abort"]
    /\ tx' = [tx EXCEPT ![r] = FALSE]
    /\ sse' = [sse EXCEPT ![r] = FALSE]
    /\ UNCHANGED <<registryVars, controlVars, mutex, taskVars, relayVars, chan,
                   stop, historyVars>>

\* Reverse declaration order: the session guard is dropped before the finish guard.
AbortReleases(r) ==
    /\ handler[r] = "abort"
    /\ mutex' = [mutex EXCEPT ![SessionOf[r]] = NoRun]
    /\ handler' = [handler EXCEPT ![r] = "aborted"]
    /\ UNCHANGED <<registryVars, controlVars, taskVars, relayVars, channelVars,
                   sse, stop, historyVars>>

AbortFinishes(r) ==
    /\ handler[r] = "aborted"
    /\ finished' = [finished EXCEPT ![r] = TRUE]
    /\ handler' = [handler EXCEPT ![r] = "rejected"]
    /\ UNCHANGED <<registryVars, state, cancel_tx, persistence, mutex, taskVars,
                   relayVars, channelVars, sse, stop, historyVars>>

\* Mutant of MarkersOf: register() does not look for an earlier Stop.
MarkersOfIgnored(r) == {}
MarkersOf(r) == {i \in DOMAIN pre_cancelled : pre_cancelled[i] = r}

\* RunControlRegistry::register finds an earlier Stop: consume it and refuse.
RegisterRefused(r) ==
    /\ handler[r] = "locked"
    /\ registry = NoRun
    /\ \E i \in MarkersOf(r) : pre_cancelled' = RemoveAt(pre_cancelled, i)
    /\ handler' = [handler EXCEPT ![r] = "abort"]
    /\ UNCHANGED <<controls, control_order, registry, controlVars, mutex, taskVars,
                   relayVars, channelVars, sse, stop, historyVars>>

\* Otherwise insert the control and start the eviction loop, registry locked.
Register(r) ==
    /\ handler[r] = "locked"
    /\ registry = NoRun
    /\ MarkersOf(r) = {}
    /\ registry' = r
    /\ controls' = controls \union {r}
    /\ control_order' = Append(control_order, r)
    /\ handler' = [handler EXCEPT ![r] = "evicting"]
    /\ UNCHANGED <<pre_cancelled, controlVars, mutex, taskVars, relayVars,
                   channelVars, sse, stop, historyVars>>

\* Mutant of FirstFinished: the oldest control goes, finished or not.
FirstRegistered(i) == i = 1

\* Position i holds the first control the eviction loop sees as finished.
FirstFinished(i) ==
    /\ i \in DOMAIN control_order
    /\ finished[control_order[i]]
    /\ \A j \in DOMAIN control_order : j < i => ~finished[control_order[j]]

\* One turn of `while control_order.len() > MAX_RECENT_RUN_CONTROLS`.
EvictFinished(r) ==
    /\ handler[r] = "evicting"
    /\ Len(control_order) > MAX_RECENT_RUN_CONTROLS
    /\ \E i \in DOMAIN control_order :
          /\ FirstFinished(i)
          /\ controls' = controls \ {control_order[i]}
          /\ control_order' = RemoveAt(control_order, i)
    /\ UNCHANGED <<pre_cancelled, registry, controlVars, mutex, handler, taskVars,
                   relayVars, channelVars, sse, stop, historyVars>>

\* The loop ends, by its bound or because every control is active.
Registered(r) ==
    /\ handler[r] = "evicting"
    /\ \/ Len(control_order) <= MAX_RECENT_RUN_CONTROLS
       \/ \A i \in DOMAIN control_order : ~finished[control_order[i]]
    /\ registry' = NoRun
    /\ handler' = [handler EXCEPT ![r] = "registered"]
    /\ UNCHANGED <<controls, control_order, pre_cancelled, controlVars, mutex,
                   taskVars, relayVars, channelVars, sse, stop, historyVars>>

SpawnRelay(r) ==
    /\ handler[r] = "registered"
    /\ handler' = [handler EXCEPT ![r] = "relayed"]
    /\ relay' = [relay EXCEPT ![r] = "recv"]
    /\ tx' = [tx EXCEPT ![r] = TRUE]
    /\ sse' = [sse EXCEPT ![r] = TRUE]
    /\ UNCHANGED <<registryVars, controlVars, mutex, taskVars, held, ui, chan,
                   stop, historyVars>>

SpawnRun(r) ==
    /\ handler[r] = "relayed"
    /\ handler' = [handler EXCEPT ![r] = "spawned"]
    /\ task' = [task EXCEPT ![r] = "started"]
    /\ UNCHANGED <<registryVars, controlVars, mutex, outcome, db,
                   relayVars, channelVars, sse, stop, historyVars>>

ClientDisconnects(r) ==
    /\ handler[r] = "spawned"
    /\ relay[r] # "done"
    /\ sse[r]
    /\ sse' = [sse EXCEPT ![r] = FALSE]
    /\ UNCHANGED <<registryVars, controlVars, mutex, handler, taskVars, relayVars,
                   channelVars, stop, historyVars>>

-----------------------------------------------------------------------------
(* The run task *)

AgentRxOpen(r) == relay[r] # "done"
ChannelHasRoom(r) == Len(chan[r]) < EVENT_CHANNEL_CAP

StartRunner(r) ==
    /\ task[r] = "started"
    /\ task' = [task EXCEPT ![r] = "running"]
    /\ UNCHANGED <<registryVars, controlVars, mutex, handler, outcome, db,
                   relayVars, channelVars, sse, stop, historyVars>>

\* validated_persistence_cursor refuses the run; the task returns at once.
RefuseDriftedCursor(r) ==
    /\ task[r] = "started"
    /\ persistence' = [persistence EXCEPT ![r] = "failed"]
    /\ task' = [task EXCEPT ![r] = "unwinding"]
    /\ UNCHANGED <<registryVars, state, cancel_tx, finished, mutex, handler, outcome,
                   db, relayVars, channelVars, sse, stop, historyVars>>

RunnerEmits(r) ==
    /\ task[r] = "running"
    /\ AgentRxOpen(r) /\ ChannelHasRoom(r)
    /\ chan' = [chan EXCEPT ![r] = Append(@, Progress)]
    /\ UNCHANGED <<registryVars, controlVars, mutex, handler, taskVars, relayVars,
                   tx, sse, stop, historyVars>>

\* `Complete` enters the channel: the Runner's commit point, whoever reads it later.
RunnerCompletes(r, kind) ==
    /\ task[r] = "running"
    /\ AgentRxOpen(r) /\ ChannelHasRoom(r)
    /\ chan' = [chan EXCEPT ![r] = Append(@, kind)]
    /\ outcome' = [outcome EXCEPT ![r] = kind]
    /\ task' = [task EXCEPT ![r] = "outcome"]
    /\ UNCHANGED <<registryVars, controlVars, mutex, handler, db,
                   relayVars, tx, sse, stop, historyVars>>

\* The relay dropped its receiver: cancel(), or the no-LLM path, which ignores it.
RunnerObservesClosed(r, kind) ==
    /\ task[r] = "running"
    /\ ~AgentRxOpen(r)
    /\ kind \in {"cancelled", "failed"}
    /\ outcome' = [outcome EXCEPT ![r] = kind]
    /\ task' = [task EXCEPT ![r] = "outcome"]
    /\ UNCHANGED <<registryVars, controlVars, mutex, handler, db,
                   relayVars, channelVars, sse, stop, historyVars>>

\* finalize_run_persistence, Ok branch.
PersistCommits(r) ==
    /\ task[r] = "outcome"
    /\ db' = [db EXCEPT ![r] = outcome[r]]
    /\ persistence' = [persistence EXCEPT ![r] = "committed"]
    /\ task' = [task EXCEPT ![r] = "persisted"]
    /\ UNCHANGED <<registryVars, state, cancel_tx, finished, mutex, handler, outcome,
                   relayVars, channelVars, sse, stop, historyVars>>

\* finalize_run_persistence, Err branch (rollback_failed_run).
PersistFails(r) ==
    /\ task[r] = "outcome"
    /\ persistence' = [persistence EXCEPT ![r] = "failed"]
    /\ task' = [task EXCEPT ![r] = "persisted"]
    /\ UNCHANGED <<registryVars, state, cancel_tx, finished, mutex, handler, outcome,
                   db, relayVars, channelVars, sse, stop, historyVars>>

\* Log the end, spawn the memory extraction where it is due (a task of its own that
\* touches nothing modelled here), and reach the end of the task.
RunTaskReturns(r) ==
    /\ task[r] = "persisted"
    /\ task' = [task EXCEPT ![r] = "unwinding"]
    /\ UNCHANGED <<registryVars, controlVars, mutex, handler, outcome, db,
                   relayVars, channelVars, sse, stop, historyVars>>

\* The task panics or is aborted: nothing but the guards runs any more.
RunTaskPanics(r) ==
    /\ task[r] \in {"started", "running", "outcome", "persisted"}
    /\ task' = [task EXCEPT ![r] = "unwinding"]
    /\ UNCHANGED <<registryVars, controlVars, mutex, handler, outcome, db,
                   relayVars, channelVars, sse, stop, historyVars>>

\* Local drop order of the task: the session guard, then RunFinishGuard, and last
\* the captured sender.
\* Mutant of SessionReleased: the guards are declared in the other order.
SessionReleasedLate(r) == task[r] = "unwinding"
SessionReleased(r) == task[r] = "released"

ReleaseSession(r) ==
    /\ task[r] = "unwinding"
    /\ mutex' = [mutex EXCEPT ![SessionOf[r]] = NoRun]
    /\ outcome' = [outcome EXCEPT ![r] = NoEvent]
    /\ task' = [task EXCEPT ![r] = "released"]
    /\ UNCHANGED <<registryVars, controlVars, handler, db,
                   relayVars, channelVars, sse, stop, historyVars>>

FinishRun(r) ==
    /\ SessionReleased(r)
    /\ finished' = [finished EXCEPT ![r] = TRUE]
    /\ tx' = [tx EXCEPT ![r] = FALSE]
    /\ task' = [task EXCEPT ![r] = "done"]
    /\ UNCHANGED <<registryVars, state, cancel_tx, persistence, mutex, handler,
                   outcome, db, relayVars, chan, sse, stop, historyVars>>

-----------------------------------------------------------------------------
(* relay_agent_events.  Its selects are biased: cancellation, then a closed  *)
(* transport, then the event.                                                *)

\* Mutant of RelayMustStop: a closed transport is not watched.
RelayMustStopOnCancel(r) == cancel_tx[r]
RelayMustStop(r) == cancel_tx[r] \/ ~sse[r]

\* Leaving the loop drops the receiver, and with it what is queued.
RelayBreaks(r) ==
    /\ relay[r] \in {"recv", "forward"}
    /\ RelayMustStop(r)
    /\ relay' = [relay EXCEPT ![r] = "done"]
    /\ held' = [held EXCEPT ![r] = NoEvent]
    /\ chan' = [chan EXCEPT ![r] = <<>>]
    /\ UNCHANGED <<registryVars, controlVars, mutex, handler, taskVars, ui,
                   tx, sse, stop, historyVars>>

RelayMayReceive(r) == relay[r] = "recv" /\ ~cancel_tx[r] /\ sse[r]

RelayTakesProgress(r) ==
    /\ RelayMayReceive(r)
    /\ chan[r] # <<>> /\ Head(chan[r]) = Progress
    /\ chan' = [chan EXCEPT ![r] = Tail(@)]
    /\ held' = [held EXCEPT ![r] = Progress]
    /\ relay' = [relay EXCEPT ![r] = "forward"]
    /\ UNCHANGED <<registryVars, controlVars, mutex, handler, taskVars, ui, tx, sse,
                   stop, historyVars>>

\* The bounded SSE channel takes the event, once the client reads fast enough.
RelayForwards(r) ==
    /\ relay[r] = "forward" /\ ~cancel_tx[r] /\ sse[r]
    /\ held' = [held EXCEPT ![r] = NoEvent]
    /\ relay' = [relay EXCEPT ![r] = "recv"]
    /\ UNCHANGED <<registryVars, controlVars, mutex, handler, taskVars, ui,
                   channelVars, sse, stop, historyVars>>

\* Mutant of TerminalWins: a plain store instead of the compare-and-swap.
TerminalAlwaysWins(r) == TRUE
TerminalWins(r) == state[r] = "running"

\* mark_terminal: the compare-and-swap that a concurrent Stop may have won.
RelayMarksTerminal(r) ==
    /\ RelayMayReceive(r)
    /\ chan[r] # <<>> /\ Terminal(Head(chan[r]))
    /\ TerminalWins(r)
    /\ state' = [state EXCEPT ![r] = "terminal"]
    /\ chan' = [chan EXCEPT ![r] = Tail(@)]
    /\ held' = [held EXCEPT ![r] = Head(chan[r])]
    /\ relay' = [relay EXCEPT ![r] = "holding"]
    /\ UNCHANGED <<registryVars, cancel_tx, finished, persistence, mutex, handler,
                   taskVars, ui, tx, sse, stop, historyVars>>

RelayLosesTerminal(r) ==
    /\ RelayMayReceive(r)
    /\ chan[r] # <<>> /\ Terminal(Head(chan[r]))
    /\ ~TerminalWins(r)
    /\ chan' = [chan EXCEPT ![r] = <<>>]
    /\ relay' = [relay EXCEPT ![r] = "done"]
    /\ UNCHANGED <<registryVars, controlVars, mutex, handler, taskVars, held, ui, tx,
                   sse, stop, historyVars>>

\* recv() = None: the sender is gone and the channel is drained.
RelaySenderGone(r) ==
    /\ RelayMayReceive(r)
    /\ chan[r] = <<>> /\ ~tx[r]
    /\ relay' = [relay EXCEPT ![r] = "orphan"]
    /\ UNCHANGED <<registryVars, controlVars, mutex, handler, taskVars, held, ui,
                   channelVars, sse, stop, historyVars>>

\* Mutant of Settled: the event is released whatever storage said.
SettledUnconditionally(r, event) == event
\* Mutant of Settled: Pending counts as success.
SettledPendingIsSuccess(r, event) ==
    IF persistence[r] # "failed" THEN event ELSE PersistenceError

\* persistence_failure_message, applied to the event the relay would deliver.
Settled(r, event) ==
    IF persistence[r] = "committed" THEN event ELSE PersistenceError

\* wait_finished returned; the send is lost when the client has gone.
RelayDelivers(r) ==
    /\ relay[r] \in {"holding", "orphan"}
    /\ finished[r]
    /\ ui' = [ui EXCEPT ![r] = IF sse[r] THEN Settled(r, held[r]) ELSE @]
    /\ held' = [held EXCEPT ![r] = NoEvent]
    /\ relay' = [relay EXCEPT ![r] = "done"]
    /\ UNCHANGED <<registryVars, controlVars, mutex, handler, taskVars, channelVars,
                   sse, stop, historyVars>>

-----------------------------------------------------------------------------
(* cancel_run *)

\* find_or_pre_cancel returns the control of a registered run.
StopFindsControl(c, r) ==
    /\ stop[c].pc = "idle"
    /\ registry = NoRun
    /\ r \in controls
    /\ stop' = [stop EXCEPT ![c] = [pc |-> "request", run |-> r, won |-> FALSE]]
    /\ UNCHANGED <<registryVars, controlVars, mutex, handler, taskVars, relayVars,
                   channelVars, sse, historyVars>>

\* Mutant of PushMarker: the queue of markers has no cap.
PushMarkerUnbounded(r) ==
    IF r \in Elements(pre_cancelled) THEN pre_cancelled ELSE Append(pre_cancelled, r)

\* The queue of markers after pushing one for r, cut to its cap from the front.
PushMarker(r) ==
    LET pushed == Append(pre_cancelled, r)
    IN  IF r \in Elements(pre_cancelled) THEN pre_cancelled
        ELSE IF Len(pushed) > MAX_PRE_CANCELLED_RUNS THEN Tail(pushed)
        ELSE pushed

\* find_or_pre_cancel leaves a marker; the Stop is answered {cancelled: true}.
StopPreCancels(c, r) ==
    /\ stop[c].pc = "idle"
    /\ registry = NoRun
    /\ r \notin controls
    /\ pre_cancelled' = PushMarker(r)
    /\ stop' = [stop EXCEPT ![c] = [pc |-> "ok", run |-> r, won |-> TRUE]]
    /\ preAcked' = preAcked \union {r}
    /\ dropped' = (dropped \union Elements(pre_cancelled) \union {r})
                     \ Elements(PushMarker(r))
    /\ UNCHANGED <<controls, control_order, registry, controlVars, mutex, handler,
                   taskVars, relayVars, channelVars, sse>>

\* Mutant of CancelWon: only the Stop that changes the state counts as successful.
CancelWonOnce(r) == state[r] = "running"
CancelWon(r) == state[r] # "terminal"

\* request_cancel: the load and compare-and-swap loop.
RequestCancel(c) ==
    LET r == stop[c].run IN
        /\ stop[c].pc = "request"
        /\ state' = [state EXCEPT ![r] = IF @ = "running" THEN "cancel_requested" ELSE @]
        /\ stop' = [stop EXCEPT
              ![c].pc = IF state[r] = "running" THEN "signal" ELSE "wait",
              ![c].won = CancelWon(r)]
        /\ UNCHANGED <<registryVars, cancel_tx, finished, persistence, mutex, handler,
                       taskVars, relayVars, channelVars, sse, historyVars>>

\* ... and, for the winner of the swap, cancel_tx.send_replace(true).
SignalCancel(c) ==
    /\ stop[c].pc = "signal"
    /\ cancel_tx' = [cancel_tx EXCEPT ![stop[c].run] = TRUE]
    /\ stop' = [stop EXCEPT ![c].pc = "wait"]
    /\ UNCHANGED <<registryVars, state, finished, persistence, mutex, handler,
                   taskVars, relayVars, channelVars, sse, historyVars>>

StopAnswers(c) ==
    /\ stop[c].pc = "wait"
    /\ finished[stop[c].run]
    /\ stop' = [stop EXCEPT ![c].pc =
          IF persistence[stop[c].run] = "committed" THEN "ok" ELSE "failed"]
    /\ UNCHANGED <<registryVars, controlVars, mutex, handler, taskVars, relayVars,
                   channelVars, sse, historyVars>>

\* 504 after 15 s without the finish acknowledgement.
StopTimesOut(c) ==
    /\ stop[c].pc = "wait"
    /\ ~finished[stop[c].run]
    /\ stop' = [stop EXCEPT ![c].pc = "timeout"]
    /\ UNCHANGED <<registryVars, controlVars, mutex, handler, taskVars, relayVars,
                   channelVars, sse, historyVars>>

-----------------------------------------------------------------------------
HandlerStep(r) ==
    \/ TryLock(r) \/ TryLockConflict(r)
    \/ AbortAcceptance(r) \/ AbortReleases(r) \/ AbortFinishes(r)
    \/ RegisterRefused(r) \/ Register(r) \/ EvictFinished(r) \/ Registered(r)
    \/ SpawnRelay(r) \/ SpawnRun(r) \/ ClientDisconnects(r)

TaskStep(r) ==
    \/ StartRunner(r) \/ RefuseDriftedCursor(r) \/ RunnerEmits(r)
    \/ \E kind \in Outcomes : RunnerCompletes(r, kind)
    \/ \E kind \in {"cancelled", "failed"} : RunnerObservesClosed(r, kind)
    \/ PersistCommits(r) \/ PersistFails(r) \/ RunTaskReturns(r)
    \/ RunTaskPanics(r) \/ ReleaseSession(r) \/ FinishRun(r)

RelayStep(r) ==
    \/ RelayBreaks(r) \/ RelayTakesProgress(r) \/ RelayForwards(r)
    \/ RelayMarksTerminal(r) \/ RelayLosesTerminal(r)
    \/ RelaySenderGone(r) \/ RelayDelivers(r)

StopStep(c) ==
    \/ \E r \in Runs : StopFindsControl(c, r) \/ StopPreCancels(c, r)
    \/ RequestCancel(c) \/ SignalCancel(c) \/ StopAnswers(c) \/ StopTimesOut(c)

\* Every request that came was answered and every task ended.
Quiescent ==
    /\ \A r \in Streams : handler[r] \in {"idle", "rejected"} \/ task[r] = "done"
    /\ \A r \in Runs : relay[r] \in {"none", "done"}
    /\ \A c \in Stops : stop[c].pc \in {"idle", "ok", "failed", "timeout"}

Next ==
    \/ \E r \in Runs : HandlerStep(r) \/ TaskStep(r) \/ RelayStep(r)
    \/ \E c \in Stops : StopStep(c)
    \/ Quiescent /\ UNCHANGED vars

(***************************************************************************)
(* Fairness: the tokio runtime polls every ready task.  It is not assumed  *)
(* that the agent ever completes by itself (a provider may stall), that    *)
(* the client reads the stream, or that it sends anything; only that a     *)
(* Runner whose channel is closed notices (every await of it selects on    *)
(* tx.closed()), that a storage transaction returns, that guards run, and  *)
(* that an acceptance that began goes on.                                  *)
(***************************************************************************)
HandlerProceeds(r) ==
    \/ AbortReleases(r) \/ AbortFinishes(r)
    \/ RegisterRefused(r) \/ Register(r) \/ EvictFinished(r) \/ Registered(r)
    \/ SpawnRelay(r) \/ SpawnRun(r)

TaskProceeds(r) ==
    \/ StartRunner(r) \/ RunnerObservesClosed(r, "cancelled")
    \/ PersistCommits(r) \/ PersistFails(r) \/ RunTaskReturns(r)
    \/ ReleaseSession(r) \/ FinishRun(r)

RelayProceeds(r) ==
    \/ RelayBreaks(r) \/ RelayTakesProgress(r) \/ RelayMarksTerminal(r)
    \/ RelayLosesTerminal(r) \/ RelaySenderGone(r) \/ RelayDelivers(r)

Fairness ==
    \A r \in Runs : /\ WF_vars(HandlerProceeds(r))
                    /\ WF_vars(TaskProceeds(r))
                    /\ WF_vars(RelayProceeds(r))

Spec == Init /\ [][Next]_vars /\ Fairness

-----------------------------------------------------------------------------
(* Properties *)

\* Types, and the bound of the marker list: no burst of early Stops makes
\* find_or_pre_cancel keep more than MAX_PRE_CANCELLED_RUNS markers.
TypeOK ==
    /\ controls \subseteq Runs
    /\ control_order \in Seq(Runs)
    /\ pre_cancelled \in Seq(Runs) /\ Len(pre_cancelled) <= MAX_PRE_CANCELLED_RUNS
    /\ registry \in Runs \union {NoRun}
    /\ state \in [Runs -> {"running", "cancel_requested", "terminal"}]
    /\ cancel_tx \in [Runs -> BOOLEAN]
    /\ finished \in [Runs -> BOOLEAN]
    /\ persistence \in [Runs -> {"pending", "committed", "failed"}]
    /\ mutex \in [Sessions -> Runs \union {NoRun}]
    /\ handler \in [Runs -> Handlers]
    /\ task \in [Runs -> Tasks]
    /\ outcome \in [Runs -> Outcomes \union {"cancelled", NoEvent}]
    /\ relay \in [Runs -> Relays]
    /\ held \in [Runs -> Outcomes \union {Progress, NoEvent}]
    /\ chan \in [Runs -> Seq(Outcomes \union {Progress})]
    /\ tx \in [Runs -> BOOLEAN]
    /\ sse \in [Runs -> BOOLEAN]
    /\ ui \in [Runs -> Outcomes \union {NoEvent, PersistenceError}]
    /\ stop \in [Stops -> [pc : StopPcs, run : Runs \union {NoRun}, won : BOOLEAN]]
    /\ db \in [Runs -> Outcomes \union {"cancelled", NoEvent}]
    /\ preAcked \subseteq Runs
    /\ dropped \subseteq Runs

\* A stop request that found a control and was answered with a verdict.
Answered(c) == stop[c].pc \in {"ok", "failed"} /\ stop[c].run \in Runs

Accepted(r) == handler[r] \in {"evicting", "registered", "relayed", "spawned"}

\* The client sees a terminal event only after the run gave its session back, so
\* that an immediate follow-up cannot meet the old run's mutex or half-written
\* state; and a success it sees is the status storage holds (relay_agent_events:
\* "terminal events are held until persistence finishes and the session lock is
\* released").
TerminalAfterCleanup ==
    \A r \in Runs : ui[r] # NoEvent =>
        /\ finished[r]
        /\ mutex[SessionOf[r]] # r
        /\ ui[r] \in Outcomes => persistence[r] = "committed" /\ db[r] = ui[r]

\* cancel_run does not answer while the stopped run still owns its session: the
\* next prompt may start at once.
StopAckAfterRelease ==
    \A c \in Stops : Answered(c) /\ stop[c].run \notin preAcked
        => mutex[SessionOf[stop[c].run]] # stop[c].run

\* A Stop answered {cancelled: true} and a completion shown to the client exclude
\* each other, whichever of the two tasks runs first.
NoCompletionAfterStop ==
    \A c \in Stops :
        stop[c].pc = "ok" /\ stop[c].won /\ stop[c].run \notin preAcked
            => ui[stop[c].run] = NoEvent

\* A Stop answered {cancelled: false} did lose against a terminal event, and that
\* event is on its way to, or with, a client that still listens.
RefusedStopCompletes ==
    \A c \in Stops : LET r == stop[c].run IN
        stop[c].pc = "ok" /\ ~stop[c].won
            => ~sse[r] \/ relay[r] = "holding" \/ ui[r] \in Outcomes

\* A listening client of a run nobody stopped is never left without a terminal
\* event: panics, drifted cursors and lost senders all end in an explicit error.
NoSilentEnd ==
    \A r \in Runs :
        relay[r] = "done" /\ sse[r] /\ state[r] # "cancel_requested"
            => ui[r] # NoEvent

\* Whatever ended a run, and whoever tried to end it, is told to a client that listens.
EndsAreTold == NoSilentEnd /\ RefusedStopCompletes

\* The history bound never takes the control of a live run out of the registry, so
\* a Stop for it is never mistaken for a Stop that came first.
ActiveRunIsStoppable ==
    \A r \in Runs : Accepted(r) /\ ~finished[r] => r \in controls

\* A run whose Stop was answered before it registered does not start, unless its
\* marker was pushed out by MAX_PRE_CANCELLED_RUNS later ones.
PreCancelledNeverStarts ==
    \A r \in preAcked \ dropped : Accepted(r) => finished[r]

\* Every live run owns the mutex of its session: from acceptance to the drop of
\* the guard no other run of the session is between those points.
LiveRunOwnsSession ==
    \A r \in Runs :
        \/ handler[r] \in {"locked", "evicting", "registered", "relayed", "abort"}
        \/ handler[r] = "spawned" /\ task[r] \notin {"released", "done"}
        => mutex[SessionOf[r]] = r

\* Once a Stop has signalled, or the client has gone, the run lets go of its
\* session, whether or not the provider or the client ever answers again.
AbandonedRunEnds ==
    \A r \in Runs : (cancel_tx[r] \/ (handler[r] = "spawned" /\ ~sse[r])) ~> finished[r]

\* The tasks, locks and channels of a run together keep the promise stated in
\* SessionContract: own once, store, give back, end, tell once (stream_sse,
\* relay_agent_events).
Contract == INSTANCE SessionContract WITH
    owner <- mutex,
    begun <- {r \in Runs : handler[r] # "idle"},
    ended <- {r \in Runs : finished[r]},
    result <- db, told <- ui,
    Nothing <- NoEvent, Failure <- PersistenceError
KeepsTheContract == Contract!ContractSpec

\* What the comment in relay_agent_events claims of a Stop that won the race
\* against the terminal event: "dropping agent_rx makes the Runner observe
\* tx.closed() and take its cancellation path".
StoppedRunIsCancelled ==
    \A c \in Stops :
        stop[c].pc = "ok" /\ stop[c].won /\ stop[c].run \notin preAcked
            => db[stop[c].run] # "completed"
=============================================================================
