----------------------------- MODULE RemoteAgent -----------------------------
(***************************************************************************)
(* One A2A tool of one user run: the guard of the tool (builtin/a2a.rs,    *)
(* agent_registry.rs) in front of the A2A client (dss-a2a).                *)
(*                                                                         *)
(* The remote Agent, the network, the clock and the model that calls the   *)
(* tool are environment.  An operation may be lost on its way, or reach    *)
(* the Agent and lose its answer, and the Agent may answer anything.       *)
(***************************************************************************)
EXTENDS AgentCards

CONSTANTS
    Tasks,          \* ids of tasks at the remote Agent
    NoTask,
    Descriptors,    \* what the Registry may say about the Agent, over time
    NoDescriptor,
    MaxPolls,       \* A2aClientOptions::max_polls
    CardInterfaces, \* bound: interfaces of a card
    CALLS           \* bound: tool calls of the run

VARIABLES
    tool,       \* the tool: from the Registry or configured, with a Bearer token or not
    guard,      \* InvocationGuard, and the descriptor it is bound to
    cardCache,  \* is a card of this URL cached, which a 304 may stand for
    call,       \* the InvokeRequest being served
    stage,      \* where the call is
    iface,      \* SelectedInterface
    polls,
    late,       \* has the deadline of the call passed
    remote,     \* the state of each task at the Agent
    seen,       \* tasks the accepted answers of this call named
    terminal,   \* A2aTerminal of the last call
    sent,       \* history: Messages and cancellations that reached the Agent in this run
    callSent,   \* history: length of sent when the call began
    told,       \* history: tasks a terminal of this run called interrupted
    count       \* bound: tool calls so far

agentVars == <<tool, guard, cardCache, call, stage, iface, polls, late, remote, seen,
               terminal, sent, callSent, told, count>>

Actions == {"send", "submit", "get", "cancel"}
TaskStates == {"absent", "working", "interrupted", "completed", "failed", "canceled"}
Kinds == {"none", "Message", "Task", "TaskPending", "TaskInterrupted", "CardRefreshError",
          "TransportError", "ProtocolError", "Timeout", "SizeLimit", "OutcomeUnknown"}
NoCall == [action |-> "get", task |-> NoTask, desc |-> NoDescriptor]

Error(kind, task) == [kind |-> kind, task |-> task, state |-> "absent", success |-> FALSE]
NoTerminal == Error("none", NoTask)

Init ==
    /\ tool \in [registry : BOOLEAN, token : BOOLEAN]
    /\ tool.registry => ~tool.token
    /\ guard = [mutating |-> FALSE, observed |-> FALSE, cancelled |-> {}, resumable |-> {},
                bound |-> NoDescriptor]
    /\ cardCache \in BOOLEAN
    /\ call = NoCall
    /\ stage = "idle"
    /\ iface = "endpoint"
    /\ polls = 0
    /\ late = FALSE
    /\ remote \in [Tasks -> {"absent", "working", "interrupted"}]
    /\ seen = {}
    /\ terminal = NoTerminal
    /\ sent = <<>>
    /\ callSent = 0
    /\ told = {}
    /\ count = 0

-----------------------------------------------------------------------------
(* The guard: what one run may ask of the Agent. *)

\* InvokeRequest::validate, and for the Registry tool one fresh send only.
ValidRequest(c) ==
    /\ c.action \in {"get", "cancel"} => c.task # NoTask
    /\ IF tool.registry
       THEN c.action = "send" /\ c.task = NoTask /\ c.desc \in Descriptors
       ELSE c.desc = NoDescriptor

SameAgent(g, c) == g.bound \in {NoDescriptor, c.desc}

\* A Message is refused after a Message, and after a query unless it continues
\* a task this run was told is interrupted.
MayReserve(g, c) ==
    /\ SameAgent(g, c)
    /\ c.action \in {"send", "submit"} =>
         /\ ~g.mutating
         /\ g.observed => c.action = "send" /\ c.task \in g.resumable
    /\ c.action = "cancel" => c.task \notin g.cancelled

\* Mutant: a follow-up to a known task does not use up the Message of the run.
ReservedNewTasksOnly(g, c) ==
    CASE c.action \in {"send", "submit"} ->
           [g EXCEPT !.mutating = (c.task = NoTask), !.bound = c.desc]
      [] c.action = "get" -> [g EXCEPT !.observed = TRUE, !.bound = c.desc]
      [] c.action = "cancel" -> [g EXCEPT !.observed = TRUE, !.bound = c.desc,
                                          !.cancelled = @ \cup {c.task}]

\* InvocationGuard::reserve, before any I/O.
Reserved(g, c) ==
    CASE c.action \in {"send", "submit"} -> [g EXCEPT !.mutating = TRUE, !.bound = c.desc]
      [] c.action = "get" -> [g EXCEPT !.observed = TRUE, !.bound = c.desc]
      [] c.action = "cancel" -> [g EXCEPT !.observed = TRUE, !.bound = c.desc,
                                          !.cancelled = @ \cup {c.task}]

\* A refused cancel still counts as a query of an existing task.
RefusedGuard(g, c) ==
    IF c.action = "cancel" /\ SameAgent(g, c) THEN [g EXCEPT !.observed = TRUE] ELSE g

BeginCall(c) ==
    /\ stage = "idle" /\ count < CALLS
    /\ ValidRequest(c)
    /\ MayReserve(guard, c)
    /\ guard' = Reserved(guard, c)
    /\ call' = c
    /\ stage' = "card"
    /\ polls' = 0 /\ late' = FALSE /\ seen' = {}
    /\ terminal' = NoTerminal
    /\ callSent' = Len(sent)
    /\ count' = count + 1
    /\ UNCHANGED <<tool, cardCache, iface, remote, sent, told>>

RefuseCall(c) ==
    /\ stage = "idle" /\ count < CALLS
    /\ ValidRequest(c)
    /\ ~MayReserve(guard, c)
    /\ guard' = RefusedGuard(guard, c)
    /\ count' = count + 1
    /\ UNCHANGED <<tool, cardCache, call, stage, iface, polls, late, remote, seen, terminal,
                   sent, callSent, told>>

\* A descriptor that is refused, or cannot be read, binds and reserves nothing.
RefusedDescriptors == {r \in Resources : ~DescriptorAccepted(r)}

RefuseDescriptor ==
    /\ stage = "idle" /\ count < CALLS
    /\ tool.registry /\ RefusedDescriptors # {}
    /\ count' = count + 1
    /\ UNCHANGED <<tool, guard, cardCache, call, stage, iface, polls, late, remote, seen,
                   terminal, sent, callSent, told>>

\* InvocationGuard::observe, with the answer going back to the model.
Settle(t) ==
    LET interrupted == t.kind = "TaskInterrupted" IN
    /\ terminal' = t
    /\ stage' = "idle"
    /\ guard' = IF interrupted THEN [guard EXCEPT !.resumable = @ \cup {t.task}] ELSE guard
    /\ told' = IF interrupted THEN told \cup {t.task} ELSE told

-----------------------------------------------------------------------------
(* The Agent Card is fetched again before every operation. *)

\* Resolving the Registry's host, or the card request, fails; nothing is sent.
PreflightFails ==
    /\ stage = "card"
    /\ \E kind \in IF tool.registry THEN {"CardRefreshError", "Timeout", "TransportError"}
                   ELSE {"CardRefreshError"} :
         Settle(Error(kind, NoTask))
    /\ UNCHANGED <<tool, cardCache, call, iface, polls, late, remote, seen, sent, callSent,
                   count>>

\* parse_card_for_policy, over every card the Agent may serve.
AllCards == Cards(CardInterfaces)
RegistryAnswers == {ParseRegistryCard(card) : card \in AllCards}
TokenAnswers == {ParseCard(card, TRUE) : card \in AllCards}
OpenAnswers == {ParseCard(card, FALSE) : card \in AllCards}
CardAnswers ==
    CASE tool.registry -> RegistryAnswers
      [] tool.token -> TokenAnswers
      [] OTHER -> OpenAnswers

\* A 304 needs a cached card of this URL and is parsed again all the same.
RefreshCard(answer, notModified) ==
    /\ stage = "card" /\ ~late
    /\ notModified => cardCache
    /\ IF answer \in Errors
       THEN /\ Settle(Error("CardRefreshError", NoTask))
            /\ UNCHANGED <<cardCache, iface>>
       ELSE /\ iface' = answer
            /\ cardCache' = TRUE
            /\ stage' = call.action
            /\ UNCHANGED <<terminal, guard, told>>
    /\ UNCHANGED <<tool, call, polls, late, remote, seen, sent, callSent, count>>

-----------------------------------------------------------------------------
(* One operation: execute_operation, push_frame and the version parsers. *)

Operation == IF stage = "poll" THEN "get" ELSE stage
\* The task the operation names; a poll names the one the answer named.
Named == IF stage = "poll" THEN CHOOSE t \in seen : TRUE ELSE call.task

\* A query changes nothing at the Agent and is not recorded.
Delivered ==
    sent' = IF Operation = "get" THEN sent
            ELSE Append(sent, [op |-> Operation, task |-> Named,
                               queried |-> guard.observed, told |-> told])

\* What a delivered operation may do to the tasks of the Agent.
Effect(t) ==
    CASE Operation \in {"send", "submit"} ->
           IF Named = NoTask
           THEN remote[t] = "absent" /\ remote' \in {[remote EXCEPT ![t] = s] :
                                                        s \in TaskStates \ {"absent"}}
           ELSE t = Named /\ remote' = [remote EXCEPT ![t] =
                                          IF @ = "interrupted" THEN "working" ELSE @]
      [] Operation = "cancel" ->
           t = Named /\ remote' \in {remote, [remote EXCEPT ![t] =
                          IF @ \in {"working", "interrupted"} THEN "canceled" ELSE @]}
      [] OTHER -> t = Named /\ UNCHANGED remote

\* No usable answer to a Message or a cancellation: it may have happened.
NoAnswer ==
    CASE Operation \in {"send", "submit"} -> Error("OutcomeUnknown", NoTask)
      [] Operation = "cancel" -> Error("OutcomeUnknown", Named)
      [] OTHER -> Error(IF late THEN "Timeout" ELSE "TransportError", Named)

\* Mutant: errors are built without the handle of the task.
QueryErrorTaskDropped == NoTask

\* An answer that arrived and cannot be used.  Errors of a query keep its task.
QueryErrorTask == IF Operation \in {"get", "cancel"} THEN Named ELSE NoTask

Operating == stage \in Actions \cup {"poll"}

\* Never left this machine: the deadline had passed, or the connection failed.
OperationUnsent ==
    /\ Operating
    /\ Settle(NoAnswer)
    /\ UNCHANGED <<tool, cardCache, call, iface, polls, late, remote, seen, sent, callSent,
                   count>>

\* The Agent acted on it and the answer was lost, redirected, too large,
\* refused by its status or no valid answer to this request.
OperationUnanswered ==
    /\ Operating
    /\ Delivered
    /\ \E t \in Tasks : Effect(t)
    /\ \E lost \in {NoAnswer, Error("SizeLimit", QueryErrorTask),
                    Error("ProtocolError", QueryErrorTask)} : Settle(lost)
    /\ UNCHANGED <<tool, cardCache, call, iface, polls, late, seen, callSent, count>>

\* A send may be answered by a Message, which names no task.
AnsweredByMessage ==
    /\ stage \in {"send", "submit"} /\ ~late
    /\ Delivered
    /\ Settle([kind |-> "Message", task |-> NoTask, state |-> "absent", success |-> TRUE])
    /\ UNCHANGED <<tool, cardCache, call, iface, polls, late, remote, seen, callSent, count>>

\* The Task names another id or context than the request.
AnsweredForAnother ==
    /\ Operating /\ ~late
    /\ Named # NoTask
    /\ Delivered
    /\ \E t \in Tasks : Effect(t)
    /\ Settle(Error("ProtocolError", Named))
    /\ UNCHANGED <<tool, cardCache, call, iface, polls, late, seen, callSent, count>>

TaskTerminal(t, state) ==
    CASE state = "completed" ->
           [kind |-> "Task", task |-> t, state |-> state, success |-> TRUE]
      [] state = "interrupted" ->
           [kind |-> "TaskInterrupted", task |-> t, state |-> state, success |-> TRUE]
      [] OTHER -> [kind |-> "Task", task |-> t, state |-> state, success |-> FALSE]

PendingTerminal(t) ==
    [kind |-> "TaskPending", task |-> t, state |-> "working", success |-> TRUE]

\* Mutant: an accepted cancellation is reported as a finished one.
CancelTerminalOptimistic(t, state) ==
    CASE state \in {"canceled", "working"} ->
           [kind |-> "Task", task |-> t, state |-> "canceled", success |-> TRUE]
      [] OTHER -> TaskTerminal(t, state)

\* cancel_terminal: a cancelled task is what was asked for.
CancelTerminal(t, state) ==
    CASE state = "canceled" ->
           [kind |-> "Task", task |-> t, state |-> state, success |-> TRUE]
      [] state = "working" -> PendingTerminal(t)
      [] OTHER -> TaskTerminal(t, state)

PollsExhausted == polls >= MaxPolls \/ late

\* The loop of invoke_with_policy on an accepted Task.
Follow(t, state) ==
    IF stage = "cancel" THEN Settle(CancelTerminal(t, state)) /\ UNCHANGED polls
    ELSE IF state # "working" THEN Settle(TaskTerminal(t, state)) /\ UNCHANGED polls
    ELSE IF call.action = "submit" THEN Settle(PendingTerminal(t)) /\ UNCHANGED polls
    ELSE IF PollsExhausted THEN Settle(Error("Timeout", t)) /\ UNCHANGED polls
    ELSE /\ stage' = "poll"
         /\ polls' = polls + 1
         /\ UNCHANGED <<terminal, guard, told>>

AnsweredByTask(t) ==
    /\ Operating /\ ~late
    /\ Delivered
    /\ Effect(t)
    /\ remote'[t] # "absent"
    /\ seen' = {t}
    /\ Follow(t, remote'[t])
    /\ UNCHANGED <<tool, cardCache, call, iface, late, callSent, count>>

-----------------------------------------------------------------------------
(* The Agent works on, the deadline passes. *)

RemoteWorks(t) ==
    /\ remote[t] = "working"
    /\ \E s \in {"interrupted", "completed", "failed"} : remote' = [remote EXCEPT ![t] = s]
    /\ UNCHANGED <<tool, guard, cardCache, call, stage, iface, polls, late, seen, terminal,
                   sent, callSent, told, count>>

DeadlinePasses ==
    /\ stage # "idle" /\ ~late
    /\ late' = TRUE
    /\ UNCHANGED <<tool, guard, cardCache, call, stage, iface, polls, remote, seen, terminal,
                   sent, callSent, told, count>>

ToolCalls == [action : Actions, task : Tasks \cup {NoTask}, desc : Descriptors \cup {NoDescriptor}]

Next ==
    \/ \E c \in ToolCalls : BeginCall(c) \/ RefuseCall(c)
    \/ RefuseDescriptor \/ PreflightFails
    \/ \E answer \in CardAnswers, notModified \in BOOLEAN : RefreshCard(answer, notModified)
    \/ OperationUnsent
    \/ OperationUnanswered
    \/ AnsweredByMessage
    \/ AnsweredForAnother
    \/ \E t \in Tasks : AnsweredByTask(t)
    \/ \E t \in Tasks : RemoteWorks(t)
    \/ DeadlinePasses

AgentSpec == Init /\ [][Next]_agentVars

-----------------------------------------------------------------------------
(* Properties *)

Messages == {i \in DOMAIN sent : sent[i].op \in {"send", "submit"}}

\* One user run causes at most one Message, and at most one cancellation per
\* task, whatever timed out; a Message that follows a query continues a task
\* the run was told is interrupted (InvocationGuard::reserve).
EffectsHappenOnce ==
    /\ Cardinality(Messages) <= 1
    /\ \A i, j \in DOMAIN sent :
         sent[i].op = "cancel" /\ sent[j].op = "cancel" /\ sent[i].task = sent[j].task => i = j
    /\ \A i \in Messages : sent[i].queried => sent[i].op = "send" /\ sent[i].task \in sent[i].told

\* A Bearer token goes nowhere but to the configured origin, and a Registry
\* Agent is called at its descriptor's endpoint only, without credentials.
CallsStayWhereGranted ==
    Operating =>
      /\ iface \in {"endpoint", "origin"}
      /\ tool.registry => iface = "endpoint" /\ ~tool.token

\* A call that ends after an answer named its task leaves the model a terminal
\* with that task, so that the work can be found again.
HandleIsKept ==
    stage = "idle" /\ seen # {} => terminal.task \in seen

\* What a terminal claims has happened at the Agent; an error before the
\* operation is reported only when the Agent was not asked to do anything.
TerminalsAreHonest ==
    stage = "idle" =>
      /\ terminal.kind = "CardRefreshError" => Len(sent) = callSent
      /\ terminal.kind = "Task" => remote[terminal.task] = terminal.state
      /\ terminal.kind \in {"Task", "TaskPending", "TaskInterrupted"} =>
           remote[terminal.task] # "absent"
      /\ Len(sent) > callSent /\ call.action \in {"send", "submit"} =>
           terminal.success \/ terminal.kind \in {"Task", "OutcomeUnknown", "SizeLimit",
                                                  "ProtocolError", "Timeout", "TransportError"}

\* A run changes the world once, and only where it was allowed to (invoke of builtin/a2a.rs).
RemoteEffectsAreBounded == EffectsHappenOnce /\ CallsStayWhereGranted

\* What the Agent answered is told as it was, with the task it was about (A2aTerminal).
RemoteAnswersAreKept == HandleIsKept /\ TerminalsAreHonest
=============================================================================
