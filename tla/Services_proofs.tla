--------------------------- MODULE Services_proofs ---------------------------
(***************************************************************************)
(* The services of a run, for any Agents, servers, windows and runs: what  *)
(* one run may cause at a remote Agent and is told of it, what it may call *)
(* of the MCP servers, what belongs together of the settings, how many     *)
(* requests a model call sends and what of its answer is shown.  The       *)
(* Agent, the servers, the provider and the network may do whatever the    *)
(* environment of the modules can.                                         *)
(***************************************************************************)
EXTENDS RemoteAgent, AssistantStream, McpServers, SettingsRuntime, FiniteSetTheorems,
        SequenceTheorems, WellFoundedInduction, TLAPS

-----------------------------------------------------------------------------
(* The remote Agent: the types *)

Task == Tasks \cup {NoTask}
Descriptor == Descriptors \cup {NoDescriptor}
Guards == [mutating : BOOLEAN, observed : BOOLEAN, cancelled : SUBSET Task,
           resumable : SUBSET Task, bound : Descriptor]
Terminals == [kind : Kinds, task : Task, state : TaskStates, success : BOOLEAN]
\* What an operation that reached the Agent left in the history.
Effects == [op : {"send", "submit", "cancel"}, task : Task, queried : BOOLEAN,
            told : SUBSET Task]

\* The types of the tool, of the guard and of the call under way.
TypeOK ==
    /\ tool \in [registry : BOOLEAN, token : BOOLEAN]
    /\ guard \in Guards
    /\ call \in ToolCalls
    /\ stage \in {"idle", "card", "poll"} \cup Actions
    /\ remote \in [Tasks -> TaskStates]
    /\ seen \in SUBSET Tasks
    /\ terminal \in Terminals
    /\ sent \in Seq(Effects)
    /\ callSent \in Nat
    /\ told \in SUBSET Task

\* A Registry tool has no token of its own; an operation that is not a poll is the one
\* that was asked for, and only a poll follows an answer that named a task.
StageInv ==
    /\ tool.registry => ~tool.token
    /\ stage \in Actions => stage = call.action
    /\ stage \in {"card"} \cup Actions => seen = {} /\ Len(sent) = callSent
    /\ stage = "poll" => /\ \E t \in Tasks : seen = {t}
                         /\ call.action # "cancel"

\* The call under way has not reached the Agent yet.
Pending == stage \in {"card"} \cup Actions
IsMessage(action) == action \in {"send", "submit"}

\* The guard knows of everything that reached the Agent, and of the pending operation,
\* which has not happened before.
GuardInv ==
    /\ guard.resumable \subseteq told
    /\ \A i \in DOMAIN sent :
         /\ IsMessage(sent[i].op) => guard.mutating
         /\ sent[i].op = "cancel" => sent[i].task \in guard.cancelled
    /\ Pending /\ IsMessage(call.action) =>
         /\ guard.mutating
         /\ \A i \in DOMAIN sent : ~IsMessage(sent[i].op)
         /\ guard.observed => call.action = "send" /\ call.task \in told
    /\ Pending /\ call.action = "cancel" =>
         /\ call.task \in guard.cancelled
         /\ \A i \in DOMAIN sent : sent[i].op = "cancel" => sent[i].task # call.task

\* The history holds a Message and a cancellation of a task once.
OnceInv ==
    /\ \A i, j \in DOMAIN sent : IsMessage(sent[i].op) /\ IsMessage(sent[j].op) => i = j
    /\ \A i, j \in DOMAIN sent :
         sent[i].op = "cancel" /\ sent[j].op = "cancel" /\ sent[i].task = sent[j].task => i = j
    /\ \A i \in DOMAIN sent :
         IsMessage(sent[i].op) /\ sent[i].queried =>
            sent[i].op = "send" /\ sent[i].task \in sent[i].told

\* A terminal that claims a task names one, and a finished one is not working.
TerminalInv ==
    /\ terminal.kind \in {"Task", "TaskPending", "TaskInterrupted"} => terminal.task \in Tasks
    /\ terminal.kind = "Task" => terminal.state # "working"

\* The inductive invariant.
AgentInv ==
    /\ TypeOK /\ StageInv /\ GuardInv /\ OnceInv /\ TerminalInv
    /\ CallsStayWhereGranted /\ HandleIsKept /\ TerminalsAreHonest

-----------------------------------------------------------------------------
(* The remote Agent: what its operators return *)

\* An interface a card may name is the endpoint or another place of its origin, for a
\* Registry Agent the endpoint.
LEMMA AnswersAreGranted ==
    ASSUME TypeOK, StageInv, NEW answer \in CardAnswers, answer \notin Errors
    PROVE  /\ answer \in {"endpoint", "origin"}
           /\ tool.registry => answer = "endpoint"
<1>1. ASSUME NEW card, NEW token PROVE ParseCard(card, token) \in {"endpoint", "origin"} \cup Errors
  <2>1. OwnInterface(card) \in {"endpoint", "origin"} \cup Errors
    BY DEF OwnInterface, InterfaceError, Errors
  <2>2. ParseV1(card, token) \in {"endpoint", "origin"} \cup Errors
    BY <2>1 DEF ParseV1, FieldError, Errors
  <2>3. ParseV03(card, token) \in {"endpoint", "origin"} \cup Errors
    BY <2>1 DEF ParseV03, Errors
  <2> QED
    BY <2>2, <2>3 DEF ParseCard, Errors
<1>2. ASSUME NEW card PROVE ParseRegistryCard(card) \in {"endpoint"} \cup Errors
  <2>1. ParseRegistryV1(card) \in {"endpoint"} \cup Errors
    BY DEF ParseRegistryV1, RegistryInterface, InterfaceError, FieldError, Errors
  <2> QED
    BY <2>1, <1>1 DEF ParseRegistryCard, StrictlyParsed, Errors
<1>3. CASE tool.registry
  <2>1. CardAnswers = RegistryAnswers
    BY <1>3 DEF CardAnswers, StageInv, TypeOK
  <2>2. PICK card \in AllCards : answer = ParseRegistryCard(card)
    BY <2>1 DEF RegistryAnswers
  <2> QED
    BY <2>2, <1>2
<1>4. CASE ~tool.registry
  <2>1. PICK card \in AllCards, token \in BOOLEAN : answer = ParseCard(card, token)
    BY <1>4 DEF CardAnswers, TokenAnswers, OpenAnswers
  <2> QED
    BY <2>1, <1>1, <1>4
<1> QED
  BY <1>3, <1>4

\* An error is a terminal.
LEMMA ErrorType ==
    ASSUME NEW kind \in Kinds, NEW task \in Task
    PROVE  /\ Error(kind, task) \in Terminals
           /\ Error(kind, task).kind = kind /\ Error(kind, task).task = task
  BY DEF Error, Terminals, TaskStates

\* The task an operation names.
LEMMA NamedType ==
    ASSUME TypeOK, StageInv, Operating
    PROVE  Named \in Task /\ (stage = "poll" => Named \in seen)
<1>1. CASE stage = "poll"
  <2>1. PICK t \in Tasks : seen = {t}
    BY <1>1 DEF StageInv
  <2>2. Named = t
    BY <1>1, <2>1 DEF Named
  <2> QED
    BY <2>1, <2>2 DEF Task
<1>2. CASE stage # "poll"
  BY <1>2 DEF Named, TypeOK, ToolCalls, Task
<1> QED
  BY <1>1, <1>2

\* An operation that reached the Agent is a query, or one more effect.
LEMMA DeliveredType ==
    ASSUME TypeOK, StageInv, Operating, Delivered
    PROVE  /\ sent' \in Seq(Effects)
           /\ \/ Operation = "get" /\ sent' = sent
              \/ /\ stage \in {"send", "submit", "cancel"} /\ Len(sent') = Len(sent) + 1
                 /\ DOMAIN sent' = DOMAIN sent \cup {Len(sent) + 1}
                 /\ \A i \in DOMAIN sent : sent'[i] = sent[i] /\ i # Len(sent) + 1
                 /\ sent'[Len(sent) + 1] =
                      [op |-> stage, task |-> call.task, queried |-> guard.observed, told |-> told]
<1>1. CASE Operation = "get"
  BY <1>1 DEF Delivered, TypeOK
<1>2. CASE Operation # "get"
  <2> DEFINE e == [op |-> stage, task |-> call.task, queried |-> guard.observed, told |-> told]
  <2>1. stage \in {"send", "submit", "cancel"} /\ Operation = stage /\ Named = call.task
    BY <1>2 DEF Operation, Named, Operating, Actions
  <2>2. e \in Effects
    BY <2>1 DEF TypeOK, Guards, Effects, ToolCalls, Task
  <2>3. sent' = Append(sent, e)
    BY <1>2, <2>1 DEF Delivered
  <2> HIDE DEF e
  <2>4. sent \in Seq(Effects)
    BY DEF TypeOK
  <2>5. /\ sent' \in Seq(Effects) /\ Len(sent') = Len(sent) + 1
        /\ DOMAIN sent' = DOMAIN sent \cup {Len(sent) + 1}
        /\ \A i \in DOMAIN sent : sent'[i] = sent[i] /\ i # Len(sent) + 1
        /\ sent'[Len(sent) + 1] = e
    BY <2>2, <2>3, <2>4
  <2> QED
    BY <2>1, <2>5 DEF e
<1> QED
  BY <1>1, <1>2

\* What an operation does to the tasks of the Agent keeps their type.
LEMMA EffectType ==
    ASSUME TypeOK, NEW t \in Tasks, Effect(t)
    PROVE  remote' \in [Tasks -> TaskStates]
<1> USE DEF TypeOK
<1>1. CASE Operation \in {"send", "submit"}
  BY <1>1 DEF Effect, TaskStates
<1>2. CASE Operation = "cancel"
  BY <1>2 DEF Effect, TaskStates
<1>3. CASE Operation \notin {"send", "submit", "cancel"}
  BY <1>3 DEF Effect
<1> QED
  BY <1>1, <1>2, <1>3

\* The guard and the history of what was told after a terminal went to the model.
LEMMA SettleType ==
    ASSUME TypeOK, GuardInv, NEW t \in Terminals, Settle(t)
    PROVE  /\ stage' = "idle" /\ terminal' = t
           /\ guard' \in Guards /\ told' \in SUBSET Task /\ guard'.resumable \subseteq told'
           /\ guard'.mutating = guard.mutating /\ guard'.cancelled = guard.cancelled
<1>1. guard \in Guards /\ told \in SUBSET Task /\ t.task \in Task
    /\ guard.resumable \subseteq told
  BY DEF TypeOK, GuardInv, Terminals
<1>2. CASE t.kind = "TaskInterrupted"
  BY <1>1, <1>2 DEF Settle, Guards
<1>3. CASE t.kind # "TaskInterrupted"
  BY <1>1, <1>3 DEF Settle, Guards
<1> QED
  BY <1>2, <1>3 DEF Settle

\* What a terminal may claim of the Agent as a step leaves it: a task that is there, in
\* the state that is told, and of a Message that something came of it.
Honest(t) ==
    /\ t.kind # "CardRefreshError"
    /\ t.kind \in {"Task", "TaskPending", "TaskInterrupted"} =>
         t.task \in Tasks /\ remote'[t.task] # "absent"
    /\ t.kind = "Task" => remote'[t.task] = t.state /\ t.state # "working"
    /\ t.success \/ t.kind \in {"Task", "OutcomeUnknown", "SizeLimit", "ProtocolError",
                                "Timeout", "TransportError"}

\* An accepted Task is followed by another poll, or told as it is.
LEMMA FollowOutcome ==
    ASSUME NEW t \in Tasks, remote'[t] \in TaskStates \ {"absent"}, Follow(t, remote'[t])
    PROVE  \/ stage' = "poll" /\ stage # "cancel" /\ UNCHANGED <<terminal, guard, told>>
           \/ \E x \in Terminals : Settle(x) /\ x.task = t /\ Honest(x)
<1> DEFINE state == remote'[t]
           Result(x) == x \in Terminals /\ x.task = t /\ Honest(x)
<1>1. Result(PendingTerminal(t))
  BY DEF PendingTerminal, Terminals, Kinds, TaskStates, Task, Honest
<1>2. state # "working" => Result(TaskTerminal(t, state))
  BY DEF TaskTerminal, Terminals, Kinds, TaskStates, Task, Honest
<1>3. Result(CancelTerminal(t, state))
  <2>1. CASE state = "canceled"
    BY <2>1 DEF CancelTerminal, Terminals, Kinds, TaskStates, Task, Honest
  <2>2. CASE state = "working"
    BY <2>2, <1>1 DEF CancelTerminal
  <2>3. CASE state \notin {"canceled", "working"}
    BY <2>3, <1>2 DEF CancelTerminal
  <2> QED
    BY <2>1, <2>2, <2>3
<1>4. Result(Error("Timeout", t))
  BY DEF Error, Terminals, Kinds, TaskStates, Task, Honest
<1> HIDE DEF Result
<1>5. \/ stage' = "poll" /\ stage # "cancel" /\ UNCHANGED <<terminal, guard, told>>
      \/ \E x : Result(x) /\ Settle(x)
  BY <1>1, <1>2, <1>3, <1>4 DEF Follow
<1> QED
  BY <1>5 DEF Result

-----------------------------------------------------------------------------
(* The remote Agent: what an operation may leave behind *)

OperationStep ==
    \/ OperationUnsent \/ OperationUnanswered \/ AnsweredByMessage \/ AnsweredForAnother
    \/ \E t \in Tasks : AnsweredByTask(t)

\* An answer that was accepted is followed by another poll of the task it names.
PollsAgain ==
    /\ stage' = "poll" /\ stage # "cancel"
    /\ UNCHANGED <<terminal, guard, told>>
    /\ \E t \in Tasks : seen' = {t}

\* The call ends with a terminal, which names the task the call has seen.
CallEnds ==
    \E x \in Terminals :
        /\ Settle(x) /\ Honest(x)
        /\ seen' \in SUBSET Tasks
        /\ seen' # {} => x.task \in seen'

\* Each operation is delivered or not, and the call is polled on or ends.
LEMMA OperationOutcome ==
    ASSUME AgentInv, OperationStep
    PROVE  /\ Operating
           /\ UNCHANGED <<tool, call, iface, callSent>>
           /\ remote' \in [Tasks -> TaskStates]
           /\ sent' = sent \/ Delivered
           /\ PollsAgain \/ CallEnds
<1> USE DEF AgentInv
<1> DEFINE Lost == {"OutcomeUnknown", "SizeLimit", "ProtocolError", "Timeout", "TransportError"}
<1>1. Operating
  BY DEF OperationStep, OperationUnsent, OperationUnanswered, AnsweredByMessage,
         AnsweredForAnother, AnsweredByTask, Operating, Actions
<1>2. seen \in SUBSET Tasks /\ (seen # {} => stage = "poll") /\ Named \in Task
      /\ (seen # {} => Named \in seen)
  BY <1>1, NamedType DEF TypeOK, StageInv, Operating
<1>3. ASSUME NEW kind \in Lost, NEW task \in Task, seen # {} => task \in seen,
             Settle(Error(kind, task)), seen' = seen
      PROVE  CallEnds
  <2> DEFINE x == Error(kind, task)
  <2>1. x \in Terminals /\ x.kind = kind /\ x.task = task
    BY <1>3, ErrorType DEF Kinds
  <2>2. Honest(x)
    BY <2>1 DEF Honest
  <2> HIDE DEF x
  <2>3. Settle(x)
    BY <1>3 DEF x
  <2> QED
    BY <1>2, <1>3, <2>1, <2>2, <2>3 DEF CallEnds
<1>4. \E kind \in Lost, task \in Task : NoAnswer = Error(kind, task) /\ (seen # {} => task \in seen)
  <2>1. CASE Operation \in {"send", "submit"}
    <3>1. NoAnswer = Error("OutcomeUnknown", NoTask) /\ seen = {}
      BY <2>1, <1>2 DEF NoAnswer, Operation
    <3> QED
      BY <3>1 DEF Task
  <2>2. CASE Operation = "cancel"
    <3>1. NoAnswer = Error("OutcomeUnknown", Named)
      BY <2>2 DEF NoAnswer
    <3> QED
      BY <3>1, <1>2
  <2>3. CASE Operation \notin {"send", "submit", "cancel"}
    <3>1. \E kind \in Lost : NoAnswer = Error(kind, Named)
      BY <2>3 DEF NoAnswer
    <3> QED
      BY <3>1, <1>2
  <2> QED
    BY <2>1, <2>2, <2>3
<1>5. CASE OperationUnsent
  <2>1. Settle(NoAnswer) /\ UNCHANGED <<tool, call, iface, callSent, seen, remote, sent>>
    BY <1>5 DEF OperationUnsent
  <2>2. CallEnds
    BY <2>1, <1>3, <1>4
  <2> QED
    BY <1>1, <2>1, <2>2 DEF TypeOK
<1>6. CASE OperationUnanswered
  <2>1. /\ Delivered /\ UNCHANGED <<tool, call, iface, callSent, seen>>
        /\ \E t \in Tasks : Effect(t)
        /\ \E lost \in {NoAnswer, Error("SizeLimit", QueryErrorTask),
                        Error("ProtocolError", QueryErrorTask)} : Settle(lost)
    BY <1>6 DEF OperationUnanswered
  <2>2. QueryErrorTask \in Task /\ (seen # {} => QueryErrorTask \in seen)
    BY <1>2 DEF QueryErrorTask, Operation, Task
  <2>3. CallEnds
    BY <2>1, <2>2, <1>3, <1>4
  <2>4. remote' \in [Tasks -> TaskStates]
    BY <2>1, EffectType
  <2> QED
    BY <1>1, <2>1, <2>3, <2>4
<1>7. CASE AnsweredByMessage
  <2> DEFINE x == [kind |-> "Message", task |-> NoTask, state |-> "absent", success |-> TRUE]
  <2>1. /\ stage \in {"send", "submit"} /\ Delivered /\ Settle(x)
        /\ UNCHANGED <<tool, call, iface, callSent, seen, remote>>
    BY <1>7 DEF AnsweredByMessage
  <2>2. x \in Terminals /\ Honest(x)
    BY DEF Terminals, Kinds, Task, TaskStates, Honest
  <2> HIDE DEF x
  <2>3. CallEnds
    BY <2>1, <2>2, <1>2 DEF CallEnds
  <2> QED
    BY <1>1, <2>1, <2>3 DEF TypeOK
<1>8. CASE AnsweredForAnother
  <2>1. /\ Delivered /\ UNCHANGED <<tool, call, iface, callSent, seen>>
        /\ \E t \in Tasks : Effect(t)
        /\ Settle(Error("ProtocolError", Named))
    BY <1>8 DEF AnsweredForAnother
  <2>2. CallEnds
    BY <2>1, <1>2, <1>3
  <2>3. remote' \in [Tasks -> TaskStates]
    BY <2>1, EffectType
  <2> QED
    BY <1>1, <2>1, <2>2, <2>3
<1>9. ASSUME NEW t \in Tasks, AnsweredByTask(t)
      PROVE  /\ UNCHANGED <<tool, call, iface, callSent>> /\ remote' \in [Tasks -> TaskStates]
             /\ Delivered /\ (PollsAgain \/ CallEnds)
  <2>1. /\ Delivered /\ UNCHANGED <<tool, call, iface, callSent>>
        /\ Effect(t) /\ remote'[t] # "absent" /\ seen' = {t} /\ Follow(t, remote'[t])
    BY <1>9 DEF AnsweredByTask
  <2>2. remote' \in [Tasks -> TaskStates]
    BY <2>1, EffectType
  <2>3. \/ stage' = "poll" /\ stage # "cancel" /\ UNCHANGED <<terminal, guard, told>>
        \/ \E x \in Terminals : Settle(x) /\ x.task = t /\ Honest(x)
    BY <2>1, <2>2, FollowOutcome
  <2>4. PollsAgain \/ CallEnds
    BY <2>1, <2>3 DEF PollsAgain, CallEnds
  <2> QED
    BY <2>1, <2>2, <2>4
<1> QED
  BY <1>1, <1>5, <1>6, <1>7, <1>8, <1>9 DEF OperationStep

-----------------------------------------------------------------------------
(* The remote Agent: the steps *)

\* A call is admitted: what it asks for has not happened in this run.
LEMMA BeginKeeps ==
    ASSUME AgentInv, NEW c \in ToolCalls, BeginCall(c)
    PROVE  AgentInv'
<1> USE DEF AgentInv
<1>1. /\ stage = "idle" /\ stage' = "card" /\ call' = c /\ seen' = {}
      /\ MayReserve(guard, c) /\ guard' = Reserved(guard, c)
      /\ terminal' = NoTerminal /\ callSent' = Len(sent)
      /\ UNCHANGED <<tool, iface, remote, sent, told>>
  BY DEF BeginCall
<1>2. c.action \in Actions /\ c.task \in Task /\ c.desc \in Descriptor
  BY DEF ToolCalls, Task, Descriptor
<1>3. guard \in Guards /\ sent \in Seq(Effects) /\ Len(sent) \in Nat
  BY DEF TypeOK
<1>4. /\ guard' \in Guards /\ guard'.resumable = guard.resumable
      /\ guard'.mutating = (guard.mutating \/ IsMessage(c.action))
      /\ guard'.cancelled = guard.cancelled \cup (IF c.action = "cancel" THEN {c.task} ELSE {})
      /\ IsMessage(c.action) => guard'.observed = guard.observed
  <2>1. CASE c.action \in {"send", "submit"}
    BY <1>1, <1>2, <1>3, <2>1 DEF Reserved, Guards, IsMessage
  <2>2. CASE c.action = "get"
    BY <1>1, <1>2, <1>3, <2>2 DEF Reserved, Guards, IsMessage
  <2>3. CASE c.action = "cancel"
    BY <1>1, <1>2, <1>3, <2>3 DEF Reserved, Guards, IsMessage
  <2> QED
    BY <1>2, <2>1, <2>2, <2>3 DEF Actions
<1>5. TypeOK'
  <2>1. terminal' \in Terminals
    BY <1>1, ErrorType DEF NoTerminal, Kinds, Task
  <2> QED
    BY <1>1, <1>3, <1>4, <2>1 DEF TypeOK
<1>6. StageInv'
  BY <1>1 DEF StageInv, Actions
<1>7. GuardInv'
  <2>1. IsMessage(c.action) => /\ ~guard.mutating
                               /\ guard.observed => c.action = "send" /\ c.task \in guard.resumable
    BY <1>1 DEF MayReserve, IsMessage
  <2>2. c.action = "cancel" => c.task \notin guard.cancelled
    BY <1>1 DEF MayReserve
  <2>3. \A i \in DOMAIN sent :
           /\ IsMessage(sent[i].op) => guard.mutating
           /\ sent[i].op = "cancel" => sent[i].task \in guard.cancelled
    BY DEF GuardInv
  <2>4. guard.resumable \subseteq told
    BY DEF GuardInv
  <2>5. (Pending /\ IsMessage(call.action))' =>
           /\ guard'.mutating
           /\ \A i \in DOMAIN sent : ~IsMessage(sent[i].op)
           /\ guard'.observed => c.action = "send" /\ c.task \in told
    BY <1>1, <1>4, <2>1, <2>3, <2>4
  <2>6. (Pending /\ call.action = "cancel")' =>
           /\ c.task \in guard'.cancelled
           /\ \A i \in DOMAIN sent : sent[i].op = "cancel" => sent[i].task # c.task
    BY <1>1, <1>4, <2>2, <2>3
  <2> QED
    BY <1>1, <1>4, <2>3, <2>4, <2>5, <2>6 DEF GuardInv, IsMessage
<1>8. OnceInv'
  BY <1>1 DEF OnceInv, IsMessage
<1>9. TerminalInv' /\ HandleIsKept' /\ TerminalsAreHonest' /\ CallsStayWhereGranted'
  BY <1>1 DEF TerminalInv, HandleIsKept, TerminalsAreHonest, CallsStayWhereGranted, NoTerminal,
              Error, Operating, Actions
<1> QED
  BY <1>5, <1>6, <1>7, <1>8, <1>9

\* A call that is refused, and whatever happens outside the machine: no call ends and
\* nothing reaches the Agent; a task that was told as finished is not worked on.
LEMMA OutsideKeeps ==
    ASSUME AgentInv,
           \/ \E c \in ToolCalls : RefuseCall(c)
           \/ RefuseDescriptor \/ DeadlinePasses \/ \E t \in Tasks : RemoteWorks(t)
           \/ UNCHANGED agentVars
    PROVE  AgentInv'
<1> USE DEF AgentInv
<1> DEFINE Frame == <<tool, call, stage, iface, seen, terminal, sent, callSent, told>>
<1>1. UNCHANGED Frame
  BY DEF RefuseCall, RefuseDescriptor, DeadlinePasses, RemoteWorks, agentVars
<1>2. guard' = guard \/ (stage = "idle" /\ guard' = [guard EXCEPT !.observed = TRUE])
  <2>1. ASSUME NEW c \in ToolCalls, RefuseCall(c)
        PROVE  guard' = guard \/ (stage = "idle" /\ guard' = [guard EXCEPT !.observed = TRUE])
    BY <2>1 DEF RefuseCall, RefusedGuard
  <2> QED
    BY <2>1 DEF RefuseDescriptor, DeadlinePasses, RemoteWorks, agentVars
<1>3. /\ remote' \in [Tasks -> TaskStates]
      /\ \A t \in Tasks : remote'[t] = remote[t] \/ (remote[t] = "working" /\ remote'[t] # "absent")
  <2>1. ASSUME NEW t \in Tasks, RemoteWorks(t)
        PROVE  /\ remote' \in [Tasks -> TaskStates]
               /\ \A u \in Tasks : remote'[u] = remote[u]
                                    \/ (remote[u] = "working" /\ remote'[u] # "absent")
    BY <2>1 DEF RemoteWorks, TypeOK, TaskStates
  <2> QED
    BY <2>1 DEF RefuseCall, RefuseDescriptor, DeadlinePasses, agentVars, TypeOK
<1>4. guard' \in Guards /\ guard'.resumable = guard.resumable
      /\ guard'.mutating = guard.mutating /\ guard'.cancelled = guard.cancelled
      /\ (Pending => guard'.observed = guard.observed)
  BY <1>2 DEF TypeOK, Guards, Pending, Actions
<1>5. TypeOK' /\ StageInv' /\ OnceInv' /\ TerminalInv'
  BY <1>1, <1>3, <1>4 DEF TypeOK, StageInv, OnceInv, IsMessage, TerminalInv
<1>6. GuardInv'
  BY <1>1, <1>4 DEF GuardInv, Pending, IsMessage
<1>7. CallsStayWhereGranted' /\ HandleIsKept'
  BY <1>1 DEF CallsStayWhereGranted, Operating, HandleIsKept
<1>8. TerminalsAreHonest'
  <2>1. terminal.kind \in {"Task", "TaskPending", "TaskInterrupted"} => terminal.task \in Tasks
    BY DEF TerminalInv
  <2>2. terminal.kind = "Task" => terminal.state # "working"
    BY DEF TerminalInv
  <2> QED
    BY <1>1, <1>3, <2>1, <2>2 DEF TerminalsAreHonest
<1> QED
  BY <1>5, <1>6, <1>7, <1>8

\* The card: nothing has been sent, and only a place of the grant is called.
LEMMA CardKeeps ==
    ASSUME AgentInv,
           \/ PreflightFails
           \/ \E answer \in CardAnswers, notModified \in BOOLEAN : RefreshCard(answer, notModified)
    PROVE  AgentInv'
<1> USE DEF AgentInv
<1> DEFINE Settled == /\ \E kind \in {"CardRefreshError", "Timeout", "TransportError"} :
                             Settle(Error(kind, NoTask))
                      /\ UNCHANGED iface
           GoesOn == /\ stage' = call.action /\ UNCHANGED <<terminal, guard, told>>
                     /\ iface' \in {"endpoint", "origin"}
                     /\ tool.registry => iface' = "endpoint"
<1>1. /\ stage = "card" /\ UNCHANGED <<tool, call, remote, seen, sent, callSent>>
      /\ Settled \/ GoesOn
  <2>1. CASE PreflightFails
    BY <2>1 DEF PreflightFails
  <2>2. ASSUME NEW answer \in CardAnswers, NEW notModified \in BOOLEAN,
               RefreshCard(answer, notModified)
        PROVE  /\ stage = "card" /\ UNCHANGED <<tool, call, remote, seen, sent, callSent>>
               /\ Settled \/ GoesOn
    <3>1. CASE answer \in Errors
      BY <2>2, <3>1 DEF RefreshCard
    <3>2. CASE answer \notin Errors
      BY <2>2, <3>2, AnswersAreGranted DEF RefreshCard
    <3> QED
      BY <3>1, <3>2
  <2> QED
    BY <2>1, <2>2
<1>2. call \in ToolCalls /\ call.action \in Actions /\ seen = {} /\ Len(sent) = callSent
  BY <1>1 DEF TypeOK, ToolCalls, StageInv
<1>3. CASE Settled
  <2>1. PICK kind \in {"CardRefreshError", "Timeout", "TransportError"} :
           Settle(Error(kind, NoTask))
    BY <1>3
  <2> DEFINE x == Error(kind, NoTask)
  <2>2. x \in Terminals /\ x.kind = kind
    BY ErrorType DEF Kinds, Task
  <2> HIDE DEF x
  <2>3. Settle(x)
    BY <2>1 DEF x
  <2>4. /\ stage' = "idle" /\ terminal' = x
        /\ guard' \in Guards /\ told' \in SUBSET Task /\ guard'.resumable \subseteq told'
        /\ guard'.mutating = guard.mutating /\ guard'.cancelled = guard.cancelled
    BY <2>2, <2>3, SettleType
  <2>5. TypeOK' /\ StageInv' /\ OnceInv' /\ TerminalInv'
    BY <1>1, <1>2, <2>2, <2>4 DEF TypeOK, StageInv, OnceInv, IsMessage, TerminalInv, Actions
  <2>6. GuardInv'
    BY <1>1, <2>4 DEF GuardInv, Pending, IsMessage, Actions
  <2>7. CallsStayWhereGranted' /\ HandleIsKept' /\ TerminalsAreHonest'
    BY <1>1, <1>2, <2>2, <2>4 DEF CallsStayWhereGranted, Operating, Actions, HandleIsKept,
                                  TerminalsAreHonest
  <2> QED
    BY <2>5, <2>6, <2>7
<1>4. CASE GoesOn
  <2>1. TypeOK' /\ StageInv' /\ OnceInv' /\ TerminalInv'
    BY <1>1, <1>2, <1>4 DEF TypeOK, StageInv, OnceInv, IsMessage, TerminalInv, Actions
  <2>2. GuardInv'
    BY <1>1, <1>2, <1>4 DEF GuardInv, Pending, IsMessage
  <2>3. CallsStayWhereGranted' /\ HandleIsKept' /\ TerminalsAreHonest'
    BY <1>1, <1>2, <1>4 DEF CallsStayWhereGranted, Operating, Actions, HandleIsKept,
                            TerminalsAreHonest, StageInv
  <2> QED
    BY <2>1, <2>2, <2>3
<1> QED
  BY <1>1, <1>3, <1>4

\* An operation: it is the one the guard admitted, and what is told of it is what the
\* Agent answered.
LEMMA OperationKeeps ==
    ASSUME AgentInv, OperationStep
    PROVE  AgentInv'
<1> USE DEF AgentInv
<1>1. /\ Operating /\ UNCHANGED <<tool, call, iface, callSent>>
      /\ remote' \in [Tasks -> TaskStates] /\ (sent' = sent \/ Delivered)
      /\ PollsAgain \/ CallEnds
  BY OperationOutcome
<1>2. /\ sent' \in Seq(Effects)
      /\ \/ sent' = sent
         \/ /\ stage \in {"send", "submit", "cancel"} /\ Len(sent') = Len(sent) + 1
            /\ DOMAIN sent' = DOMAIN sent \cup {Len(sent) + 1}
            /\ \A i \in DOMAIN sent : sent'[i] = sent[i] /\ i # Len(sent) + 1
            /\ sent'[Len(sent) + 1] =
                 [op |-> stage, task |-> call.task, queried |-> guard.observed, told |-> told]
  BY <1>1, DeliveredType DEF TypeOK
<1>3. /\ guard' \in Guards /\ told' \in SUBSET Task /\ guard'.resumable \subseteq told'
      /\ guard'.mutating = guard.mutating /\ guard'.cancelled = guard.cancelled
      /\ stage' \in {"idle", "poll"} /\ terminal' \in Terminals /\ seen' \in SUBSET Tasks
      /\ stage' = "poll" => PollsAgain
  <2>1. CASE PollsAgain
    BY <2>1 DEF PollsAgain, TypeOK, GuardInv
  <2>2. CASE CallEnds
    <3>1. PICK x \in Terminals : Settle(x) /\ seen' \in SUBSET Tasks
      BY <2>2 DEF CallEnds
    <3> QED
      BY <3>1, SettleType
  <2> QED
    BY <1>1, <2>1, <2>2
<1>4. stage \in Actions => stage = call.action /\ Pending
  BY DEF StageInv, Pending
<1>5. TypeOK'
  BY <1>1, <1>2, <1>3 DEF TypeOK
<1>6. StageInv'
  <2>1. stage = "poll" => call.action # "cancel"
    BY DEF StageInv
  <2>2. stage' = "poll" => (\E t \in Tasks : seen' = {t}) /\ call.action # "cancel"
    BY <1>1, <1>3, <1>4, <2>1 DEF PollsAgain, Operating
  <2> QED
    BY <1>1, <1>3, <2>2 DEF StageInv, Actions
<1>7. OnceInv'
  <2>1. CASE sent' = sent
    BY <2>1 DEF OnceInv, IsMessage
  <2>2. CASE sent' # sent
    <3> DEFINE n == Len(sent) + 1
               e == [op |-> stage, task |-> call.task, queried |-> guard.observed, told |-> told]
    <3>1. /\ stage \in {"send", "submit", "cancel"}
          /\ DOMAIN sent' = DOMAIN sent \cup {n} /\ sent'[n] = e
          /\ \A i \in DOMAIN sent : sent'[i] = sent[i] /\ i # n
      BY <1>2, <2>2
    <3>2. stage = call.action /\ Pending
      BY <3>1, <1>4 DEF Actions
    <3>3. IsMessage(stage) => /\ \A i \in DOMAIN sent : ~IsMessage(sent[i].op)
                              /\ guard.observed => stage = "send" /\ call.task \in told
      BY <3>2 DEF GuardInv
    <3>4. stage = "cancel" => \A i \in DOMAIN sent : sent[i].op = "cancel" => sent[i].task # call.task
      BY <3>2 DEF GuardInv
    <3>5. e.op = stage /\ e.task = call.task /\ e.queried = guard.observed /\ e.told = told
      OBVIOUS
    <3> HIDE DEF n, e
    <3> QED
      BY <3>1, <3>3, <3>4, <3>5 DEF OnceInv, IsMessage
  <2> QED
    BY <2>1, <2>2
<1>8. GuardInv'
  <2>1. \A i \in DOMAIN sent' : /\ IsMessage(sent'[i].op) => guard.mutating
                                /\ sent'[i].op = "cancel" => sent'[i].task \in guard.cancelled
    <3>1. CASE sent' = sent
      BY <3>1 DEF GuardInv
    <3>2. CASE sent' # sent
      <4>1. /\ stage \in {"send", "submit", "cancel"}
            /\ DOMAIN sent' = DOMAIN sent \cup {Len(sent) + 1}
            /\ sent'[Len(sent) + 1].op = stage /\ sent'[Len(sent) + 1].task = call.task
            /\ \A i \in DOMAIN sent : sent'[i] = sent[i]
        BY <1>2, <3>2
      <4>2. stage = call.action /\ Pending
        BY <4>1, <1>4 DEF Actions
      <4>3. IsMessage(stage) => guard.mutating
        BY <4>2 DEF GuardInv
      <4>4. stage = "cancel" => call.task \in guard.cancelled
        BY <4>2 DEF GuardInv
      <4>5. \A i \in DOMAIN sent : /\ IsMessage(sent[i].op) => guard.mutating
                                   /\ sent[i].op = "cancel" => sent[i].task \in guard.cancelled
        BY DEF GuardInv
      <4> QED
        BY <4>1, <4>3, <4>4, <4>5
    <3> QED
      BY <3>1, <3>2
  <2> QED
    BY <1>3, <2>1 DEF GuardInv, Pending, Actions, IsMessage
<1>9. CallsStayWhereGranted'
  BY <1>1 DEF CallsStayWhereGranted, Operating
<1>10. TerminalInv' /\ HandleIsKept' /\ TerminalsAreHonest'
  <2>1. CASE PollsAgain
    BY <2>1 DEF PollsAgain, TerminalInv, HandleIsKept, TerminalsAreHonest
  <2>2. CASE CallEnds
    <3>1. PICK x \in Terminals : Settle(x) /\ Honest(x) /\ (seen' # {} => x.task \in seen')
      BY <2>2 DEF CallEnds
    <3>2. terminal' = x
      BY <3>1 DEF Settle
    <3> QED
      BY <3>1, <3>2 DEF Honest, TerminalInv, HandleIsKept, TerminalsAreHonest
  <2> QED
    BY <1>1, <2>1, <2>2
<1> QED
  BY <1>5, <1>6, <1>7, <1>8, <1>9, <1>10

-----------------------------------------------------------------------------
(* The remote Agent: the theorems *)

\* A run starts with a guard that has seen nothing and a history that is empty.
LEMMA AgentInitInv == Init => AgentInv
<1> SUFFICES ASSUME Init PROVE AgentInv
  OBVIOUS
<1>1. /\ stage = "idle" /\ sent = <<>> /\ seen = {} /\ callSent = 0 /\ told = {}
      /\ terminal = NoTerminal /\ call = NoCall
      /\ tool \in [registry : BOOLEAN, token : BOOLEAN] /\ (tool.registry => ~tool.token)
      /\ remote \in [Tasks -> TaskStates]
      /\ guard = [mutating |-> FALSE, observed |-> FALSE, cancelled |-> {}, resumable |-> {},
                  bound |-> NoDescriptor]
  BY DEF Init, TaskStates
<1>2. terminal \in Terminals /\ terminal.kind = "none"
  BY <1>1, ErrorType DEF NoTerminal, Kinds, Task
<1>3. guard \in Guards /\ guard.resumable = {}
  BY <1>1 DEF Guards, Descriptor
<1>4. call \in ToolCalls
  BY <1>1 DEF NoCall, ToolCalls, Actions
<1>5. TypeOK
  BY <1>1, <1>2, <1>3, <1>4 DEF TypeOK
<1>6. StageInv /\ GuardInv /\ OnceInv /\ TerminalInv
  BY <1>1, <1>2, <1>3 DEF StageInv, GuardInv, OnceInv, TerminalInv, Pending, Actions
<1>7. CallsStayWhereGranted /\ HandleIsKept /\ TerminalsAreHonest
  BY <1>1, <1>2 DEF CallsStayWhereGranted, Operating, Actions, HandleIsKept, TerminalsAreHonest
<1> QED
  BY <1>5, <1>6, <1>7 DEF AgentInv

\* Every step keeps it.
LEMMA AgentStep == AgentInv /\ [Next]_agentVars => AgentInv'
<1> SUFFICES ASSUME AgentInv, [Next]_agentVars PROVE AgentInv'
  OBVIOUS
<1>1. ASSUME NEW c \in ToolCalls, BeginCall(c) PROVE AgentInv'
  BY <1>1, BeginKeeps
<1>2. CASE \/ \E c \in ToolCalls : RefuseCall(c)
           \/ RefuseDescriptor \/ DeadlinePasses \/ \E t \in Tasks : RemoteWorks(t)
           \/ UNCHANGED agentVars
  BY <1>2, OutsideKeeps
<1>3. CASE \/ PreflightFails
           \/ \E answer \in CardAnswers, notModified \in BOOLEAN : RefreshCard(answer, notModified)
  BY <1>3, CardKeeps
<1>4. CASE OperationStep
  BY <1>4, OperationKeeps
<1> QED
  BY <1>1, <1>2, <1>3, <1>4 DEF Next, OperationStep

\* The invariant holds in every state of the tool.
THEOREM AgentInvariant == AgentSpec => []AgentInv
<1>1. Init => AgentInv
  BY AgentInitInv
<1>2. AgentInv /\ [Next]_agentVars => AgentInv'
  BY AgentStep
<1> QED
  BY <1>1, <1>2, PTL DEF AgentSpec

\* Whatever times out, is lost or is retried by the model, one user run causes one Message
\* at most and one cancellation of a task, a Message after a query continues what the run
\* was told is interrupted, and no call leaves the place that was granted
\* (InvocationGuard::reserve, parse_agent_card).
THEOREM EffectsAreBounded == AgentSpec => []RemoteEffectsAreBounded
<1>1. AgentInv => RemoteEffectsAreBounded
  <2> SUFFICES ASSUME AgentInv PROVE RemoteEffectsAreBounded
    OBVIOUS
  <2>1. \A i, j \in Messages : i = j
    BY DEF AgentInv, OnceInv, Messages, IsMessage
  <2>2. Cardinality(Messages) <= 1
    <3>1. CASE Messages = {}
      BY <3>1, FS_EmptySet
    <3>2. CASE Messages # {}
      <4>1. PICK i \in Messages : TRUE
        BY <3>2
      <4>2. Messages = {i}
        BY <4>1, <2>1
      <4>3. Cardinality({i}) = 1
        BY FS_Singleton
      <4> QED
        BY <4>2, <4>3
    <3> QED
      BY <3>1, <3>2
  <2> QED
    BY <2>2 DEF AgentInv, OnceInv, Messages, IsMessage, RemoteEffectsAreBounded,
                EffectsHappenOnce
<1> QED
  BY <1>1, AgentInvariant, PTL

\* A call that ends after an answer named its task leaves the model that task, and a
\* terminal claims of the Agent what is so: an error of the card only when nothing was
\* sent, a finished task in the state it is in (A2aTerminal).
THEOREM AnswersAreKept == AgentSpec => []RemoteAnswersAreKept
<1>1. AgentInv => RemoteAnswersAreKept
  BY DEF AgentInv, RemoteAnswersAreKept
<1> QED
  BY <1>1, AgentInvariant, PTL

-----------------------------------------------------------------------------
(* The MCP servers *)

\* A tool of the catalogue.
Tools == [server : Servers, name : Names, retrySafe : BOOLEAN]

\* The types of the connections, of the catalogue and of a listing.
McpTypeOK ==
    /\ DOMAIN link = Servers /\ DOMAIN manager = Servers
    /\ metadata \in [Servers -> BOOLEAN]
    /\ offered \in [Servers -> Seq(Definitions)]
    /\ mounted \in SUBSET Tools
    /\ ready \in BOOLEAN
    /\ delivered \in [Servers \X Names -> Nat]
    /\ DOMAIN walk = {"server", "seen", "pages", "result"}
    /\ walk.pages \in Nat /\ IsFiniteSet(walk.seen)

\* What the manager holds of a server is what the server sent last, without the invalid
\* definitions, or nothing.
Held(s) ==
    Managed(s) =>
      /\ link[s] = "managed"
      /\ manager[s].resources = metadata[s]
      /\ manager[s].tools = <<>> \/ manager[s].tools = ParsedTools(offered[s])
HeldInv == \A s \in Servers : Held(s)

\* Nothing is mounted or called before the catalogue is built.
BuiltInv ==
    ~ready => /\ mounted = {} /\ allowed = {}
              /\ \A p \in Servers \X Names : delivered[p] = 0

\* A call of a mutating tool was reserved before it was sent.
ReservedInv ==
    \A t \in mounted : ~t.retrySafe =>
        delivered[<<t.server, t.name>>] <= IF <<t.server, t.name>> \in reserved THEN 1 ELSE 0

\* A listing that goes on has been sent a new cursor with every page.
WalkInv ==
    /\ walk.result = "none" => walk.pages = Cardinality(walk.seen) /\ walk.pages < MAX_RESOURCE_PAGES
    /\ ListingsMoveOn

\* The inductive invariant of the servers.
McpInv == McpTypeOK /\ HeldInv /\ BuiltInv /\ MountedToolsAreBacked /\ ReservedInv /\ WalkInv

\* A set of naturals that is not empty has a least element.
LEMMA LeastOf ==
    ASSUME NEW S \in SUBSET Nat, S # {}
    PROVE  \E i \in S : \A j \in S : i <= j
<1>1. PICK i \in S : \A j \in S : <<j, i>> \notin OpToRel(<, Nat)
  BY NatLessThanWellFounded, WFMin
<1>2. \A j \in S : ~(j < i)
  BY <1>1 DEF OpToRel
<1> QED
  BY <1>2

\* The first definition of a name has that name.
LEMMA FirstNamedIsOne ==
    ASSUME NEW tools, DOMAIN tools \subseteq Nat, NEW n \in NamesOf(tools)
    PROVE  \E i \in DOMAIN tools : FirstNamed(tools, n) = tools[i] /\ tools[i].name = n
<1> DEFINE S == {i \in DOMAIN tools : tools[i].name = n}
           First(i) == /\ tools[i].name = n
                       /\ \A j \in DOMAIN tools : tools[j].name = n => i <= j
<1>1. S \in SUBSET Nat /\ S # {}
  BY DEF NamesOf
<1>2. PICK i \in S : \A j \in S : i <= j
  BY <1>1, LeastOf
<1>3. i \in DOMAIN tools /\ First(i)
  BY <1>2
<1>4. First(CHOOSE k \in DOMAIN tools : First(k)) /\ (CHOOSE k \in DOMAIN tools : First(k)) \in DOMAIN tools
  BY <1>3
<1> QED
  BY <1>4 DEF FirstNamed

\* A tool that is mounted for a server is a valid definition the server sent, under its name.
LEMMA MountIsBacked ==
    ASSUME McpTypeOK, HeldInv, NEW s \in Servers, Managed(s), NEW t \in Mount(s)
    PROVE  /\ t \in Tools /\ t.server = s
           /\ \E i \in DOMAIN offered[s] : /\ offered[s][i].valid
                                           /\ offered[s][i].name = t.name
                                           /\ offered[s][i].retrySafe = t.retrySafe
           /\ t = [server |-> s, name |-> t.name, retrySafe |-> FirstNamed(manager[s].tools, t.name).retrySafe]
<1> DEFINE tools == manager[s].tools
<1>1. PICK n \in NamesOf(tools) :
         t = [server |-> s, name |-> n, retrySafe |-> FirstNamed(tools, n).retrySafe]
  BY DEF Mount
<1>2. offered[s] \in Seq(Definitions)
  BY DEF McpTypeOK
<1>3. tools = <<>> \/ tools = ParsedTools(offered[s])
  BY DEF HeldInv, Held
<1>4. tools # <<>>
  BY <1>1 DEF NamesOf
<1>5. /\ DOMAIN tools \subseteq Nat
      /\ \A i \in DOMAIN tools : i \in DOMAIN offered[s] /\ tools[i] = offered[s][i] /\ tools[i].valid
  BY <1>2, <1>3, <1>4 DEF ParsedTools
<1> HIDE DEF tools
<1>6. PICK i \in DOMAIN tools : FirstNamed(tools, n) = tools[i] /\ tools[i].name = n
  BY <1>5, FirstNamedIsOne
<1>7. i \in DOMAIN offered[s] /\ offered[s][i] = tools[i] /\ tools[i].valid /\ tools[i] \in Definitions
  BY <1>2, <1>5
<1>8. t.server = s /\ t.name = n /\ t.retrySafe = tools[i].retrySafe /\ t \in Tools
  BY <1>1, <1>6, <1>7 DEF Tools, Definitions
<1> QED
  BY <1>1, <1>6, <1>7, <1>8 DEF tools

\* The catalogue is built from what is managed by then.
LEMMA BuildKeeps ==
    ASSUME McpInv, BuildRuntime
    PROVE  McpInv'
<1> USE DEF McpInv
<1>1. /\ ~ready /\ ready' = TRUE
      /\ link' = [s \in Servers |-> IF Managed(s) THEN "managed" ELSE "failed"]
      /\ mounted' = UNION {Mount(s) : s \in {x \in Servers \ {Registry} : Managed(x)}}
      /\ allowed' = {s \in Servers : Managed(s) /\ manager[s].resources}
      /\ UNCHANGED <<metadata, manager, offered, reserved, delivered, walk>>
  BY DEF BuildRuntime
<1>2. ASSUME NEW t \in mounted'
      PROVE  /\ t \in Tools /\ t.server # Registry /\ Managed(t.server) /\ t.server \in Servers
             /\ t = [server |-> t.server, name |-> t.name,
                     retrySafe |-> FirstNamed(manager[t.server].tools, t.name).retrySafe]
             /\ \E i \in DOMAIN offered[t.server] :
                   /\ offered[t.server][i].valid
                   /\ offered[t.server][i].name = t.name
                   /\ offered[t.server][i].retrySafe = t.retrySafe
  <2>1. PICK s \in Servers \ {Registry} : Managed(s) /\ t \in Mount(s)
    BY <1>1, <1>2
  <2> QED
    BY <2>1, MountIsBacked
<1>3. McpTypeOK'
  BY <1>1, <1>2 DEF McpTypeOK
<1>4. HeldInv'
  BY <1>1 DEF HeldInv, Held, Managed
<1>5. MountedToolsAreBacked'
  <2>1. \A t \in mounted' : (t.server # Registry /\ Managed(t.server) /\ \E i \in DOMAIN offered[t.server] :
                   /\ offered[t.server][i].valid
                   /\ offered[t.server][i].name = t.name
                   /\ offered[t.server][i].retrySafe = t.retrySafe)'
    BY <1>1, <1>2 DEF Managed
  <2>2. \A t, u \in mounted' : t.server = u.server /\ t.name = u.name => t = u
    BY <1>2
  <2>3. \A s \in allowed' : Managed(s)' /\ metadata'[s]
    BY <1>1 DEF HeldInv, Held, Managed
  <2> QED
    BY <2>1, <2>2, <2>3 DEF MountedToolsAreBacked
<1>6. ReservedInv'
  <2>1. \A t \in mounted' : delivered[<<t.server, t.name>>] = 0
    BY <1>1, <1>2 DEF BuiltInv, Tools
  <2> QED
    BY <1>1, <2>1 DEF ReservedInv
<1>7. BuiltInv' /\ WalkInv'
  BY <1>1 DEF BuiltInv, WalkInv, ListingsMoveOn
<1> QED
  BY <1>3, <1>4, <1>5, <1>6, <1>7

\* The attempts to connect, which all end before the catalogue is built.
LEMMA ConnectKeeps ==
    ASSUME McpInv, NEW s \in Servers,
           \/ Initialize(s) \/ Initialized(s) \/ AttemptEnds(s)
           \/ \E tools \in Offers : ListTools(s, tools)
    PROVE  McpInv'
<1> USE DEF McpInv
<1>1. ~ready /\ mounted = {} /\ allowed = {} /\ UNCHANGED <<mounted, allowed, ready, reserved, delivered, walk>>
  BY DEF Initialize, Initialized, AttemptEnds, ListTools, CatalogUnchanged, BuiltInv
<1>2. link[s] # "managed" /\ ~Managed(s)
  BY DEF Initialize, Initialized, AttemptEnds, ListTools, HeldInv, Held
<1>3. /\ metadata' \in [Servers -> BOOLEAN] /\ offered' \in [Servers -> Seq(Definitions)]
      /\ DOMAIN link' = Servers /\ DOMAIN manager' = Servers
  <2>1. ASSUME NEW tools \in Offers PROVE tools \in Seq(Definitions)
    BY <2>1, McpAssumption DEF Offers
  <2> QED
    BY <2>1 DEF Initialize, Initialized, AttemptEnds, ListTools, Insert, McpTypeOK
<1>4. /\ \A x \in Servers \ {s} : /\ link'[x] = link[x] /\ manager'[x] = manager[x]
                                  /\ metadata'[x] = metadata[x] /\ offered'[x] = offered[x]
      /\ \/ manager'[s] = manager[s]
         \/ /\ link'[s] = "managed" /\ metadata'[s] = metadata[s]
            /\ \/ manager'[s] = [tools |-> <<>>, resources |-> metadata[s]]
               \/ manager'[s] = [tools |-> ParsedTools(offered'[s]), resources |-> metadata[s]]
  BY DEF Initialize, Initialized, AttemptEnds, ListTools, Insert, McpTypeOK
<1>5. McpTypeOK'
  BY <1>1, <1>3 DEF McpTypeOK
<1>6. HeldInv'
  <2> SUFFICES ASSUME NEW x \in Servers PROVE Held(x)'
    BY DEF HeldInv
  <2>1. CASE x # s
    BY <1>4, <2>1 DEF HeldInv, Held, Managed, ParsedTools
  <2>2. CASE x = s
    BY <1>2, <1>4, <2>2 DEF Held, Managed
  <2> QED
    BY <2>1, <2>2
<1>7. BuiltInv' /\ MountedToolsAreBacked' /\ ReservedInv' /\ WalkInv'
  BY <1>1 DEF BuiltInv, MountedToolsAreBacked, ReservedInv, WalkInv, ListingsMoveOn
<1> QED
  BY <1>5, <1>6, <1>7

\* A call of a tool; a mutating one was not reserved before.
LEMMA CallToolKeeps ==
    ASSUME McpInv, NEW t \in mounted, CallTool(t)
    PROVE  McpInv'
<1> USE DEF McpInv
<1> DEFINE p == <<t.server, t.name>>
<1>1. /\ MayCall(t) /\ reserved' = IF t.retrySafe THEN reserved ELSE reserved \cup {p}
      /\ UNCHANGED <<link, metadata, manager, offered, mounted, allowed, bridge, ready, walk>>
  BY DEF CallTool
<1>2. PICK n \in {0, 1} : delivered' = [delivered EXCEPT ![p] = @ + n]
  BY DEF CallTool
<1>3. t \in Tools /\ p \in Servers \X Names /\ ready
  BY DEF McpTypeOK, Tools, BuiltInv
<1>4. McpTypeOK'
  BY <1>1, <1>2, <1>3 DEF McpTypeOK
<1>5. HeldInv' /\ BuiltInv' /\ MountedToolsAreBacked' /\ WalkInv'
  BY <1>1, <1>3 DEF HeldInv, Held, Managed, ParsedTools, BuiltInv, MountedToolsAreBacked, WalkInv,
                    ListingsMoveOn
<1>6. ReservedInv'
  <2> SUFFICES ASSUME NEW u \in mounted, ~u.retrySafe
               PROVE  delivered'[<<u.server, u.name>>] <=
                         IF <<u.server, u.name>> \in reserved' THEN 1 ELSE 0
    BY <1>1 DEF ReservedInv
  <2>1. delivered[<<u.server, u.name>>] <= IF <<u.server, u.name>> \in reserved THEN 1 ELSE 0
    BY DEF ReservedInv
  <2>2. u \in Tools /\ <<u.server, u.name>> \in Servers \X Names
    BY DEF McpTypeOK, Tools
  <2>3. CASE <<u.server, u.name>> = p
    <3>1. u = t
      BY <2>3 DEF MountedToolsAreBacked
    <3>2. p \notin reserved /\ p \in reserved'
      BY <1>1, <3>1 DEF MayCall
    <3>3. delivered[p] \in Nat /\ delivered'[p] = delivered[p] + n
      BY <1>2, <1>3 DEF McpTypeOK
    <3> QED
      BY <2>1, <2>3, <3>2, <3>3
  <2>4. CASE <<u.server, u.name>> # p
    <3>1. delivered'[<<u.server, u.name>>] = delivered[<<u.server, u.name>>]
      BY <1>2, <2>2, <2>4 DEF McpTypeOK
    <3>2. <<u.server, u.name>> \in reserved' <=> <<u.server, u.name>> \in reserved
      BY <1>1, <2>4
    <3> QED
      BY <2>1, <3>1, <3>2
  <2> QED
    BY <2>3, <2>4
<1> QED
  BY <1>4, <1>5, <1>6

\* A listing: every page either names a new cursor or ends it.
LEMMA WalkKeeps ==
    ASSUME McpInv,
           \/ \E s \in Servers : StartWalk(s)
           \/ \E cursor \in {0} \cup Cursors : WalkPage(cursor)
    PROVE  McpInv'
<1> USE DEF McpInv
<1>1. UNCHANGED <<link, metadata, manager, offered, mounted, allowed, bridge, ready, reserved, delivered>>
  BY DEF StartWalk, WalkPage
<1>2. HeldInv' /\ BuiltInv' /\ MountedToolsAreBacked' /\ ReservedInv'
  BY <1>1 DEF HeldInv, Held, Managed, ParsedTools, BuiltInv, MountedToolsAreBacked, ReservedInv
<1>3. ASSUME DOMAIN walk' = {"server", "seen", "pages", "result"}, walk'.pages \in Nat,
             IsFiniteSet(walk'.seen)
      PROVE  McpTypeOK'
  BY <1>1, <1>3 DEF McpTypeOK
<1>4. ASSUME NEW s \in Servers, StartWalk(s) PROVE McpInv'
  <2>1. walk' = [NoWalk EXCEPT !.server = s]
    BY <1>4 DEF StartWalk
  <2>2. /\ DOMAIN walk' = {"server", "seen", "pages", "result"} /\ walk'.seen = {}
        /\ walk'.pages = 0
    BY <2>1 DEF NoWalk
  <2>3. Cardinality({}) = 0 /\ IsFiniteSet({})
    BY FS_EmptySet
  <2>4. WalkInv'
    BY <2>2, <2>3, McpAssumption DEF WalkInv, ListingsMoveOn
  <2> QED
    BY <1>2, <1>3, <2>2, <2>3, <2>4
<1>5. ASSUME NEW cursor \in {0} \cup Cursors, WalkPage(cursor) PROVE McpInv'
  <2>1. /\ walk.result = "none"
        /\ walk' = [walk EXCEPT !.pages = @ + 1, !.seen = @ \cup ({cursor} \ {0}),
                                !.result = WalkResult(cursor)]
    BY <1>5 DEF WalkPage
  <2>2. /\ walk.pages \in Nat /\ IsFiniteSet(walk.seen) /\ walk.pages = Cardinality(walk.seen)
        /\ walk.pages < MAX_RESOURCE_PAGES
    BY <2>1 DEF McpTypeOK, WalkInv
  <2>3. /\ DOMAIN walk' = {"server", "seen", "pages", "result"} /\ walk'.pages = walk.pages + 1
        /\ walk'.seen = walk.seen \cup ({cursor} \ {0}) /\ walk'.result = WalkResult(cursor)
    BY <2>1 DEF McpTypeOK
  <2>4. CASE cursor = 0 \/ cursor \in walk.seen
    <3>1. walk'.seen = walk.seen
      BY <2>3, <2>4
    <3>2. walk'.result # "none"
      BY <2>3, <2>4 DEF WalkResult
    <3>3. /\ DOMAIN walk' = {"server", "seen", "pages", "result"} /\ walk'.pages \in Nat
          /\ IsFiniteSet(walk'.seen) /\ Cardinality(walk'.seen) = walk.pages
      <4>1. IsFiniteSet(walk'.seen) /\ Cardinality(walk'.seen) = walk.pages
        BY <2>2, <3>1
      <4>2. walk'.pages \in Nat
        BY <2>2, <2>3
      <4> QED
        BY <4>1, <4>2, <2>3
    <3>4. McpTypeOK'
      BY <1>3, <3>3
    <3>5. walk'.pages <= Cardinality(walk'.seen) + 1 /\ walk'.pages <= MAX_RESOURCE_PAGES
      BY <2>2, <2>3, <3>3, McpAssumption
    <3>6. WalkInv'
      BY <3>2, <3>5 DEF WalkInv, ListingsMoveOn
    <3> QED
      BY <1>2, <3>4, <3>6
  <2>5. CASE cursor # 0 /\ cursor \notin walk.seen
    <3>1. walk'.seen = walk.seen \cup {cursor}
      BY <2>3, <2>5
    <3>2. IsFiniteSet(walk'.seen) /\ Cardinality(walk'.seen) = walk.pages + 1
      BY <2>2, <2>5, <3>1, FS_AddElement
    <3>3. walk'.result = "none" => walk.pages + 1 # MAX_RESOURCE_PAGES
      BY <2>3 DEF WalkResult
    <3> QED
      BY <1>2, <1>3, <2>2, <2>3, <3>2, <3>3, McpAssumption DEF WalkInv, ListingsMoveOn
  <2> QED
    BY <2>4, <2>5
<1> QED
  BY <1>4, <1>5

\* However the attempts to connect end, a run calls what a managed server offered, a tool
\* whose retries are not safe reaches its server once, and a listing asks for no page twice
\* (build_mcp_runtime, register_mcp_tools, list_resources).
THEOREM ServersAreBounded == McpSpec => []McpIsBounded
<1>1. McpInit => McpInv
  <2> SUFFICES ASSUME McpInit PROVE McpInv
    OBVIOUS
  <2>1. Cardinality({}) = 0 /\ IsFiniteSet({})
    BY FS_EmptySet
  <2>2. DOMAIN NoWalk = {"server", "seen", "pages", "result"} /\ NoWalk.seen = {} /\ NoWalk.pages = 0
    BY DEF NoWalk
  <2>3. McpTypeOK
    <3>1. <<>> \in Seq(Definitions)
      OBVIOUS
    <3>2. /\ DOMAIN link = Servers /\ DOMAIN manager = Servers
          /\ metadata \in [Servers -> BOOLEAN] /\ offered \in [Servers -> Seq(Definitions)]
          /\ delivered \in [Servers \X Names -> Nat]
      BY <3>1 DEF McpInit
    <3>3. mounted = {} /\ allowed = {} /\ bridge = FALSE /\ ready = FALSE /\ reserved = {} /\ walk = NoWalk
      BY DEF McpInit
    <3> QED
      <4>1. /\ DOMAIN walk = {"server", "seen", "pages", "result"} /\ walk.pages \in Nat
            /\ IsFiniteSet(walk.seen)
        BY <2>1, <2>2, <3>3
      <4>2. mounted \in SUBSET Tools /\ ready \in BOOLEAN
        BY <3>3
      <4> QED
        BY <3>2, <4>1, <4>2 DEF McpTypeOK
  <2>4. HeldInv /\ BuiltInv /\ MountedToolsAreBacked /\ ReservedInv
    BY DEF McpInit, HeldInv, Held, Managed, BuiltInv, MountedToolsAreBacked, ReservedInv
  <2>5. WalkInv
    BY <2>1, <2>2, McpAssumption DEF McpInit, WalkInv, ListingsMoveOn
  <2> QED
    BY <2>3, <2>4, <2>5 DEF McpInv
<1>2. McpInv /\ [McpNext]_mcpVars => McpInv'
  <2> SUFFICES ASSUME McpInv, [McpNext]_mcpVars PROVE McpInv'
    OBVIOUS
  <2>1. CASE UNCHANGED mcpVars
    <3> USE <2>1 DEF mcpVars, McpInv
    <3>1. McpTypeOK'
      BY DEF McpTypeOK
    <3>2. HeldInv' /\ BuiltInv'
      BY DEF HeldInv, Held, Managed, ParsedTools, BuiltInv
    <3>3. MountedToolsAreBacked' /\ ReservedInv'
      BY DEF MountedToolsAreBacked, Managed, ReservedInv
    <3>4. WalkInv'
      BY DEF WalkInv, ListingsMoveOn
    <3> QED
      BY <3>1, <3>2, <3>3, <3>4
  <2> QED
    BY <2>1, ConnectKeeps, BuildKeeps, CallToolKeeps, WalkKeeps DEF McpNext
<1>3. McpInv => McpIsBounded
  <2> SUFFICES ASSUME McpInv PROVE McpIsBounded
    OBVIOUS
  <2>1. ASSUME NEW t \in mounted, ~t.retrySafe PROVE delivered[<<t.server, t.name>>] <= 1
    <3>1. delivered[<<t.server, t.name>>] \in Nat
      BY DEF McpInv, McpTypeOK, Tools
    <3> QED
      BY <2>1, <3>1 DEF McpInv, ReservedInv
  <2> QED
    BY <2>1 DEF McpInv, WalkInv, McpIsBounded, MutationsHappenOnce
<1> QED
  BY <1>1, <1>2, <1>3, PTL DEF McpSpec

-----------------------------------------------------------------------------
(* The settings and what is derived from them *)

\* The stages of a window that holds the save lock.
Committing == {"merging", "refreshing", "written", "swapped", "cataloged"}

\* The values of a window, of a request that starts a run, and of the file.
WindowForm ==
    [stage : {"closed", "loading", "open", "waiting"} \cup Committing,
     rev : Nat, epoch : Nat, seen : Nat, policy : Policies, kept : Policies,
     provider : Places \cup {NoPlace}, typed : BOOLEAN,
     agent : Places \cup {NoPlace}, token : {"keep", "type", "clear"}]
Captured == [stage : {"idle", "runtime", "mcp", "catalog", "running"},
             began : Nat, runtime : Nat, mcp : Nat, catalog : Nat]
Stored == [place : Places \cup {NoPlace}, secret : Places \cup {NoPlace}]
Content == [version : Nat, policy : Policies, provider : Stored, llm : Stored, agent : Stored]
InEffect == [rev : Nat, version : Nat, provider : Places \cup {NoPlace, EnvPlace},
             key : Places \cup {NoPlace}]

\* The types of the settings.
SettingsTypeOK ==
    /\ disk \in Content /\ next \in Content
    /\ runtime \in InEffect
    /\ catalog \in Nat /\ mcp \in Nat /\ epoch \in Nat
    /\ started \in Policies
    /\ window \in [Windows -> WindowForm]
    /\ run \in [Runs -> Captured]

\* The save lock is held by the window that commits or by the run that captures.
LockInv ==
    /\ \A w \in Windows : window[w].stage \in Committing <=> lock = w
    /\ \A r \in Runs : run[r].stage \in {"runtime", "mcp"} <=> lock = r

RuntimeInStep ==
    /\ runtime.version = disk.version
    /\ runtime.provider = Effective(disk, env) /\ runtime.key = EffectiveKey(disk)
CatalogInStep == catalog = disk.version
McpInStep == mcp = disk.version
\* A window that has not written the file, or is done.
Quiet(w) == window[w].stage \notin {"written", "swapped", "cataloged"}

\* What is derived follows the file, or is behind it by what the commit has still to publish.
PublishedInv ==
    /\ catalog <= disk.version
    /\ (\A w \in Windows : Quiet(w)) => RuntimeInStep /\ CatalogInStep /\ McpInStep
    /\ \A w \in Windows :
         /\ window[w].stage = "refreshing" => next.version = disk.version + 1
         /\ ~Quiet(w) => disk = next
         /\ window[w].stage \in {"swapped", "cataloged"} => RuntimeInStep
         /\ window[w].stage = "cataloged" => CatalogInStep

\* A content whose secrets belong to their places, none of them of the environment.
SecretsKept(content) ==
    /\ content.provider.secret \in {NoPlace, content.provider.place}
    /\ content.agent.secret \in {NoPlace, content.agent.place}
    /\ content.provider.place # EnvPlace
    /\ content.provider.secret # NoPlace => content.llm = content.provider

\* What a run has captured so far is of one save.
CaptureInv ==
    /\ CapturesAreCoherent
    /\ \A r \in Runs :
         /\ run[r].stage \in {"runtime", "mcp"} => run[r].began <= disk.version
         /\ run[r].stage = "mcp" => run[r].runtime = disk.version
         /\ run[r].stage = "catalog" => run[r].runtime <= catalog

\* A form whose revision is the current one was made from the file as it is, unless a commit
\* has written the file and not yet published the next revision.
FormIsCurrent(f) ==
    f.stage \in {"loading", "open", "waiting"} /\ f.epoch = epoch =>
        /\ f.rev <= runtime.rev
        /\ (f.stage # "loading" /\ f.rev = runtime.rev) =>
              f.seen = disk.version \/ \E v \in Windows : window[v].stage = "written"
FormInv ==
    /\ SavesNeverLost
    /\ \A w \in Windows : window[w].epoch <= epoch /\ FormIsCurrent(window[w])

\* The inductive invariant of the settings.
SettingsInv ==
    /\ SettingsTypeOK /\ LockInv /\ PublishedInv /\ SecretsKept(disk) /\ SecretsKept(next)
    /\ CaptureInv /\ FormInv

\* An empty form is one.
LEMMA FormTyped == ASSUME Policies # {} PROVE Form \in WindowForm /\ Form.stage = "closed"
<1>1. (CHOOSE p \in Policies : TRUE) \in Policies
  OBVIOUS
<1> QED
  BY <1>1 DEF Form, WindowForm

\* A step of one window leaves the other windows alone.
LEMMA WindowSet ==
    ASSUME window \in [Windows -> WindowForm], NEW w \in Windows, NEW f \in WindowForm,
           window' = [window EXCEPT ![w] = f]
    PROVE  /\ window' \in [Windows -> WindowForm] /\ window'[w] = f
           /\ \A v \in Windows \ {w} : window'[v] = window[v]
OBVIOUS

\* A step of a window that changes its form only, and neither takes nor holds the lock.
LEMMA FormKeeps ==
    ASSUME SettingsInv, NEW w \in Windows, NEW f \in WindowForm,
           window' = [window EXCEPT ![w] = f],
           window[w].stage \notin Committing, f.stage \notin Committing,
           f.epoch <= epoch, FormIsCurrent(f),
           UNCHANGED <<disk, env, runtime, catalog, mcp, started, lock, next, run, epoch>>
    PROVE  SettingsInv'
<1> USE DEF SettingsInv
<1>1. /\ window' \in [Windows -> WindowForm] /\ window'[w] = f
      /\ \A v \in Windows \ {w} : window'[v] = window[v]
  BY WindowSet DEF SettingsTypeOK
<1>2. SettingsTypeOK'
  BY <1>1 DEF SettingsTypeOK
<1>3. LockInv'
  BY <1>1 DEF LockInv
<1>4. (\A v \in Windows : Quiet(v)' <=> Quiet(v)) /\ Quiet(w)
  BY <1>1 DEF Quiet, Committing
<1>5. PublishedInv'
  BY <1>1, <1>4 DEF PublishedInv, RuntimeInStep, CatalogInStep, McpInStep, Committing
<1>6. SecretsKept(disk)' /\ SecretsKept(next)' /\ CaptureInv'
  BY DEF SecretsKept, CaptureInv, CapturesAreCoherent
<1>7. (\E v \in Windows : window[v].stage = "written") => \E v \in Windows : window'[v].stage = "written"
  BY <1>1 DEF Committing
<1>8. FormInv'
  <2>1. SavesNeverLost'
    BY <1>1 DEF FormInv, SavesNeverLost, SavingForm, Committing
  <2>2. ASSUME NEW v \in Windows PROVE (window[v].epoch <= epoch /\ FormIsCurrent(window[v]))'
    <3>1. CASE v = w
      BY <1>1, <1>7, <3>1 DEF FormIsCurrent
    <3>2. CASE v # w
      BY <1>1, <1>7, <3>2 DEF FormInv, FormIsCurrent
    <3> QED
      BY <3>1, <3>2
  <2> QED
    BY <2>1, <2>2 DEF FormInv
<1> QED
  BY <1>2, <1>3, <1>5, <1>6, <1>8

\* The steps of the user and the answers that close a form.
LEMMA UserKeeps ==
    ASSUME SettingsInv, NEW w \in Windows, Load(w) \/ LoadFile(w) \/ Submit(w)
    PROVE  SettingsInv'
<1> USE DEF SettingsInv
<1>1. window \in [Windows -> WindowForm] /\ window[w] \in WindowForm /\ Policies # {}
  BY DEF SettingsTypeOK, Content
<1>2. CASE Load(w)
  <2> DEFINE f == [Form EXCEPT !.stage = "loading", !.rev = runtime.rev, !.epoch = epoch,
                               !.policy = started, !.kept = disk.policy]
  <2>1. f \in WindowForm /\ f.stage = "loading" /\ f.rev = runtime.rev /\ f.epoch = epoch
    BY <1>1, FormTyped DEF SettingsTypeOK, InEffect, Content, WindowForm
  <2>2. runtime.rev \in Nat /\ epoch \in Nat
    BY DEF SettingsTypeOK, InEffect
  <2>3. /\ window' = [window EXCEPT ![w] = f] /\ window[w].stage \notin Committing
        /\ UNCHANGED <<disk, env, runtime, catalog, mcp, started, lock, next, run, epoch>>
    BY <1>2 DEF Load, Committing
  <2> HIDE DEF f
  <2>4. f.epoch <= epoch /\ f.stage \notin Committing /\ FormIsCurrent(f)
    BY <2>1, <2>2 DEF Committing, FormIsCurrent
  <2> QED
    BY <2>1, <2>3, <2>4, FormKeeps
<1>3. CASE LoadFile(w)
  <2> DEFINE f == [window[w] EXCEPT !.stage = "open", !.seen = disk.version, !.kept = disk.policy,
                                    !.provider = Shown(disk), !.agent = disk.agent.place]
  <2>1. /\ f \in WindowForm /\ f.stage = "open" /\ f.rev = window[w].rev
        /\ f.epoch = window[w].epoch /\ f.seen = disk.version
    BY <1>1 DEF SettingsTypeOK, Content, Stored, Shown, WindowForm
  <2>2. /\ window' = [window EXCEPT ![w] = f] /\ window[w].stage = "loading"
        /\ UNCHANGED <<disk, env, runtime, catalog, mcp, started, lock, next, run, epoch>>
    BY <1>1, <1>3 DEF LoadFile
  <2> HIDE DEF f
  <2>3. f.epoch <= epoch /\ f.stage \notin Committing /\ FormIsCurrent(f)
    BY <2>1, <2>2 DEF Committing, FormIsCurrent, FormInv
  <2> QED
    BY <2>1, <2>2, <2>3, FormKeeps DEF Committing
<1>4. CASE Submit(w)
  <2>1. PICK f \in WindowForm :
           /\ window' = [window EXCEPT ![w] = f] /\ f.stage = "waiting"
           /\ f.rev = window[w].rev /\ f.epoch = window[w].epoch /\ f.seen = window[w].seen
    <3>1. CASE \E l \in Policies, t \in BOOLEAN :
                 window' = [window EXCEPT ![w].stage = "waiting", ![w].policy = l, ![w].typed = t,
                                          ![w].kept = IF l = window[w].policy THEN @ ELSE l]
      <4>1. PICK l \in Policies, t \in BOOLEAN :
                 window' = [window EXCEPT ![w].stage = "waiting", ![w].policy = l, ![w].typed = t,
                                          ![w].kept = IF l = window[w].policy THEN @ ELSE l]
        BY <3>1
      <4> DEFINE g == [window[w] EXCEPT !.stage = "waiting", !.policy = l, !.typed = t,
                                        !.kept = IF l = window[w].policy THEN @ ELSE l]
      <4>2. /\ g \in WindowForm /\ g.stage = "waiting" /\ g.rev = window[w].rev
            /\ g.epoch = window[w].epoch /\ g.seen = window[w].seen
        BY <1>1 DEF WindowForm
      <4>3. window' = [window EXCEPT ![w] = g]
        BY <1>1, <4>1 DEF WindowForm
      <4> QED
        BY <4>2, <4>3
    <3>2. CASE \E p \in Places, t \in BOOLEAN :
                 window' = [window EXCEPT ![w].stage = "waiting", ![w].provider = p, ![w].typed = t]
      <4>1. PICK p \in Places, t \in BOOLEAN :
                 window' = [window EXCEPT ![w].stage = "waiting", ![w].provider = p, ![w].typed = t]
        BY <3>2
      <4> DEFINE g == [window[w] EXCEPT !.stage = "waiting", !.provider = p, !.typed = t]
      <4>2. /\ g \in WindowForm /\ g.stage = "waiting" /\ g.rev = window[w].rev
            /\ g.epoch = window[w].epoch /\ g.seen = window[w].seen
        BY <1>1 DEF WindowForm
      <4>3. window' = [window EXCEPT ![w] = g]
        BY <1>1, <4>1
      <4> QED
        BY <4>2, <4>3
    <3>3. CASE \E q \in Places, k \in {"keep", "type", "clear"} :
                 window' = [window EXCEPT ![w].stage = "waiting", ![w].agent = q, ![w].token = k]
      <4>1. PICK q \in Places, k \in {"keep", "type", "clear"} :
                 window' = [window EXCEPT ![w].stage = "waiting", ![w].agent = q, ![w].token = k]
        BY <3>3
      <4> DEFINE g == [window[w] EXCEPT !.stage = "waiting", !.agent = q, !.token = k]
      <4>2. /\ g \in WindowForm /\ g.stage = "waiting" /\ g.rev = window[w].rev
            /\ g.epoch = window[w].epoch /\ g.seen = window[w].seen
        BY <1>1 DEF WindowForm
      <4>3. window' = [window EXCEPT ![w] = g]
        BY <1>1, <4>1
      <4> QED
        BY <4>2, <4>3
    <3> QED
      BY <1>4, <3>1, <3>2, <3>3 DEF Submit
  <2>2. /\ window[w].stage = "open"
        /\ UNCHANGED <<disk, env, runtime, catalog, mcp, started, lock, next, run, epoch>>
    BY <1>4 DEF Submit
  <2>3. f.epoch <= epoch /\ f.stage \notin Committing /\ FormIsCurrent(f)
    BY <2>1, <2>2 DEF Committing, FormIsCurrent, FormInv
  <2> QED
    BY <2>1, <2>2, <2>3, FormKeeps DEF Committing
<1> QED
  BY <1>2, <1>3, <1>4

\* A closed form claims nothing.
LEMMA ClosedForm ==
    ASSUME SettingsInv
    PROVE  /\ Form \in WindowForm /\ Form.stage = "closed" /\ Form.epoch = 0 /\ Form.epoch <= epoch
           /\ FormIsCurrent(Form) /\ Form.stage \notin Committing
<1>1. Policies # {} /\ epoch \in Nat
  BY DEF SettingsInv, SettingsTypeOK, Content
<1>2. Form \in WindowForm /\ Form.stage = "closed" /\ Form.epoch = 0
  BY <1>1, FormTyped DEF Form
<1> QED
  BY <1>1, <1>2 DEF FormIsCurrent, Committing

\* A save is refused, or begins when no other commit is under way.
LEMMA TakeKeeps ==
    ASSUME SettingsInv, NEW w \in Windows, TakeSaveLock(w)
    PROVE  SettingsInv'
<1> USE DEF SettingsInv
<1>1. /\ window[w].stage = "waiting" /\ lock = Free /\ window[w] \in WindowForm
      /\ window \in [Windows -> WindowForm]
      /\ UNCHANGED <<disk, env, runtime, catalog, mcp, started, next, run, epoch>>
  BY DEF TakeSaveLock, SettingsTypeOK
<1>2. CASE ~Current(w)
  <2>1. window' = [window EXCEPT ![w] = Form] /\ UNCHANGED lock
    BY <1>2 DEF TakeSaveLock
  <2> QED
    BY <1>1, <2>1, ClosedForm, FormKeeps DEF Committing
<1>3. CASE Current(w)
  <2> DEFINE f == [window[w] EXCEPT !.stage = "merging"]
  <2>1. /\ f \in WindowForm /\ f.stage = "merging" /\ f.epoch = window[w].epoch
        /\ f.seen = window[w].seen
    BY <1>1 DEF WindowForm, Committing
  <2>2. window' = [window EXCEPT ![w] = f] /\ lock' = w
    BY <1>1, <1>3 DEF TakeSaveLock
  <2> HIDE DEF f
  <2>3. /\ window' \in [Windows -> WindowForm] /\ window'[w] = f
        /\ \A v \in Windows \ {w} : window'[v] = window[v]
    BY <1>1, <2>1, <2>2, WindowSet
  <2>4. \A v \in Windows : window[v].stage \notin Committing
    BY <1>1, SettingsAssumption DEF LockInv
  <2>5. SettingsTypeOK'
    BY <1>1, <2>3 DEF SettingsTypeOK
  <2>6. LockInv'
    BY <1>1, <2>1, <2>2, <2>3, <2>4, SettingsAssumption DEF LockInv, Committing
  <2>7. \A v \in Windows : Quiet(v)' /\ Quiet(v)
    BY <2>1, <2>3, <2>4 DEF Quiet, Committing
  <2>8. PublishedInv'
    BY <1>1, <2>1, <2>3, <2>7 DEF PublishedInv, RuntimeInStep, CatalogInStep, McpInStep, Quiet
  <2>9. SecretsKept(disk)' /\ SecretsKept(next)' /\ CaptureInv'
    BY <1>1 DEF SecretsKept, CaptureInv, CapturesAreCoherent
  <2>10. window[w].epoch = epoch => window[w].seen = disk.version
    BY <1>1, <1>3, <2>4 DEF FormInv, FormIsCurrent, Current, Committing
  <2>11. FormInv'
    <3>1. SavesNeverLost'
      BY <1>1, <2>1, <2>3, <2>4, <2>10 DEF SavesNeverLost, SavingForm, Committing
    <3>2. ASSUME NEW v \in Windows PROVE (window[v].epoch <= epoch /\ FormIsCurrent(window[v]))'
      <4>1. CASE v = w
        BY <1>1, <2>1, <2>3, <4>1 DEF FormIsCurrent, FormInv
      <4>2. CASE v # w
        BY <1>1, <2>3, <2>4, <4>2 DEF FormInv, FormIsCurrent, Committing
      <4> QED
        BY <4>1, <4>2
    <3> QED
      BY <3>1, <3>2 DEF FormInv
  <2> QED
    BY <2>5, <2>6, <2>8, <2>9, <2>11
<1> QED
  BY <1>2, <1>3

\* The content a save will write keeps a secret for its own place only.
LEMMA MergedKept ==
    ASSUME SettingsInv, NEW w \in Windows
    PROVE  Merged(window[w]) \in Content /\ SecretsKept(Merged(window[w]))
           /\ Merged(window[w]).version = disk.version + 1
<1> USE DEF SettingsInv
<1>1. /\ window[w].provider \in Places \cup {NoPlace} /\ window[w].agent \in Places \cup {NoPlace}
      /\ window[w].policy \in Policies
  BY DEF SettingsTypeOK, WindowForm
<1>2. /\ disk.version \in Nat /\ disk.provider \in Stored /\ disk.agent \in Stored
      /\ disk.llm \in Stored
      /\ SecretsKept(disk)
  BY DEF SettingsTypeOK, Content
<1>3. ASSUME NEW old \in Stored, old.secret \in {NoPlace, old.place},
             NEW place \in Places \cup {NoPlace}, NEW update
      PROVE  SecretFor(old, place, update) \in {NoPlace, place}
  BY <1>3 DEF SecretFor, KeptSecret
<1>4. Merged(window[w]).version = disk.version + 1 /\ Merged(window[w]).policy = window[w].policy
  BY DEF Merged
<1>5. /\ Merged(window[w]).provider.place = window[w].provider
      /\ Merged(window[w]).provider.secret \in {NoPlace, window[w].provider}
      /\ Merged(window[w]).agent.place = window[w].agent
      /\ Merged(window[w]).agent.secret \in {NoPlace, window[w].agent}
  BY <1>1, <1>2, <1>3 DEF Merged, SecretsKept
<1>6. Merged(window[w]) \in Content
  <2> DEFINE f == window[w]
             p == [place |-> f.provider,
                   secret |-> SecretFor(disk.provider, f.provider, IF f.typed THEN "type" ELSE "keep")]
             a == [place |-> f.agent, secret |-> SecretFor(disk.agent, f.agent, f.token)]
  <2>1. p \in Stored /\ a \in Stored
    BY <1>1, <1>2, <1>3 DEF SecretsKept, Stored
  <2>2. LlmOf(p) \in Stored
    BY <1>2, <2>1 DEF LlmOf, Stored
  <2>3. Merged(f) = [version |-> disk.version + 1, policy |-> f.policy, provider |-> p,
                     llm |-> LlmOf(p), agent |-> a]
    BY DEF Merged
  <2> HIDE DEF p, a
  <2> QED
    BY <1>1, <1>2, <2>1, <2>2, <2>3 DEF Content
<1>7. Merged(window[w]).provider.secret # NoPlace =>
         Merged(window[w]).llm = Merged(window[w]).provider
  BY DEF Merged, LlmOf
<1> QED
  BY <1>1, <1>4, <1>5, <1>6, <1>7, SettingsAssumption DEF SecretsKept

\* A step of the window that holds the lock which keeps the lock: what it has to show.
LEMMA HolderKeeps ==
    ASSUME SettingsInv, NEW w \in Windows, NEW f \in WindowForm,
           window' = [window EXCEPT ![w] = f],
           window[w].stage \in Committing, f.stage \in Committing,
           f.epoch = window[w].epoch, f.seen = window[w].seen,
           SavingForm(w)' => SavingForm(w) /\ disk' = disk,
           UNCHANGED <<env, started, lock, run, epoch>>,
           disk' \in Content /\ next' \in Content /\ catalog' \in Nat /\ mcp' = mcp,
           runtime' \in InEffect,
           SecretsKept(disk') /\ SecretsKept(next'),
           catalog' >= catalog /\ disk'.version >= disk.version,
           PublishedInv',
           \A v \in Windows : FormIsCurrent(window[v])'
    PROVE  SettingsInv'
<1> USE DEF SettingsInv
<1>1. /\ window' \in [Windows -> WindowForm] /\ window'[w] = f /\ window[w] \in WindowForm
      /\ \A v \in Windows \ {w} : window'[v] = window[v]
  BY WindowSet DEF SettingsTypeOK
<1>2. lock = w /\ (\A v \in Windows \ {w} : window[v].stage \notin Committing)
      /\ \A r \in Runs : run[r].stage \notin {"runtime", "mcp"}
  BY SettingsAssumption DEF LockInv
<1>3. SettingsTypeOK'
  BY <1>1 DEF SettingsTypeOK
<1>4. LockInv'
  BY <1>1, <1>2 DEF LockInv
<1>5. SecretsKept(disk)' /\ SecretsKept(next)'
  BY DEF SecretsKept
<1>6. CaptureInv'
  <2>1. ASSUME NEW r \in Runs, run[r].stage = "catalog" PROVE run[r].runtime <= catalog'
    <3>1. run[r].runtime \in Nat /\ catalog \in Nat /\ catalog' \in Nat
      BY DEF SettingsTypeOK, Captured
    <3> QED
      BY <2>1, <3>1 DEF CaptureInv
  <2> QED
    BY <1>2, <2>1 DEF CaptureInv, CapturesAreCoherent
<1>7. FormInv'
  <2>1. SavesNeverLost'
    BY <1>1, <1>2 DEF FormInv, SavesNeverLost, SavingForm, Committing
  <2>2. \A v \in Windows : window'[v].epoch <= epoch'
    BY <1>1 DEF FormInv
  <2> QED
    BY <2>1, <2>2 DEF FormInv
<1> QED
  BY <1>3, <1>4, <1>5, <1>6, <1>7

\* The merge of a save.
LEMMA MergeKeeps ==
    ASSUME SettingsInv, NEW w \in Windows, Merge(w)
    PROVE  SettingsInv'
<1> USE DEF SettingsInv
<1> DEFINE f == [window[w] EXCEPT !.stage = "refreshing"]
<1>1. /\ window[w].stage = "merging" /\ window[w] \in WindowForm
      /\ window \in [Windows -> WindowForm] /\ next' = Merged(window[w])
      /\ UNCHANGED <<disk, env, runtime, catalog, mcp, started, lock, run, epoch>>
  BY DEF Merge, SettingsTypeOK
<1>2. /\ f \in WindowForm /\ f.stage = "refreshing" /\ f.epoch = window[w].epoch
      /\ f.seen = window[w].seen
  BY <1>1 DEF WindowForm, Committing
<1>3. window' = [window EXCEPT ![w] = f]
  BY <1>1 DEF Merge
<1> HIDE DEF f
<1>4. /\ window' \in [Windows -> WindowForm] /\ window'[w] = f
      /\ \A v \in Windows \ {w} : window'[v] = window[v]
  BY <1>1, <1>2, <1>3, WindowSet
<1>5. \A v \in Windows : (v # w => window[v].stage \notin Committing) /\ Quiet(v) /\ Quiet(v)'
  BY <1>1, <1>2, <1>4 DEF LockInv, Quiet, Committing
<1>6. next' \in Content /\ SecretsKept(next') /\ next'.version = disk.version + 1
  BY <1>1, MergedKept
<1>7. PublishedInv'
  <2>1. ASSUME NEW v \in Windows, window'[v].stage = "refreshing" PROVE next'.version = disk'.version + 1
    BY <1>1, <1>6
  <2> QED
    BY <1>1, <1>5, <2>1 DEF PublishedInv, RuntimeInStep, CatalogInStep, McpInStep, Quiet
<1>8. \A v \in Windows : FormIsCurrent(window[v])'
  BY <1>1, <1>2, <1>4, <1>5 DEF FormInv, FormIsCurrent, Committing
<1>9. catalog \in Nat /\ disk \in Content /\ disk.version \in Nat
      /\ runtime \in InEffect
  BY DEF SettingsTypeOK, Content
<1>10. SavingForm(w)' => SavingForm(w) /\ disk' = disk
  BY <1>1 DEF SavingForm
<1>11. window[w].stage \in Committing /\ f.stage \in Committing
  BY <1>1, <1>2 DEF Committing
<1>12. /\ disk' \in Content /\ catalog' \in Nat /\ mcp' = mcp /\ SecretsKept(disk')
       /\ runtime' \in InEffect
       /\ catalog' >= catalog /\ disk'.version >= disk.version
       /\ UNCHANGED <<env, started, lock, run, epoch>>
  BY <1>1, <1>9
<1> QED
  BY <1>2, <1>3, <1>6, <1>7, <1>8, <1>10, <1>11, <1>12, HolderKeeps

\* The file is renamed, or a publication of the commit follows it.
LEMMA CommitKeeps ==
    ASSUME SettingsInv, NEW w \in Windows, WriteFile(w) \/ SwapRuntime(w) \/ RebuildCatalog(w)
    PROVE  SettingsInv'
<1> USE DEF SettingsInv
<1>1. /\ window[w] \in WindowForm /\ window \in [Windows -> WindowForm]
      /\ disk \in Content /\ next \in Content /\ disk.version \in Nat /\ next.version \in Nat
      /\ next.provider.place \in Places \cup {NoPlace} /\ next.provider.secret \in Places \cup {NoPlace}
      /\ runtime \in InEffect
      /\ catalog \in Nat
  BY DEF SettingsTypeOK, Content, Stored
<1>2. \A v \in Windows \ {w} : window[v].stage \notin Committing
  BY DEF WriteFile, SwapRuntime, RebuildCatalog, LockInv, Committing
<1>3. UNCHANGED <<env, mcp, started, lock, next, run, epoch>>
  BY DEF WriteFile, SwapRuntime, RebuildCatalog
<1>4. CASE WriteFile(w)
  <2> DEFINE f == [window[w] EXCEPT !.stage = "written"]
  <2>1. /\ window[w].stage = "refreshing" /\ disk' = next /\ UNCHANGED <<runtime, catalog>>
        /\ window' = [window EXCEPT ![w] = f]
    BY <1>1, <1>4 DEF WriteFile
  <2>2. /\ f \in WindowForm /\ f.stage = "written" /\ f.epoch = window[w].epoch
        /\ f.seen = window[w].seen
    BY <1>1 DEF WindowForm, Committing
  <2> HIDE DEF f
  <2>3. window'[w] = f /\ \A v \in Windows \ {w} : window'[v] = window[v]
    BY <1>1, <2>1, <2>2, WindowSet
  <2>4. next.version = disk.version + 1 /\ catalog <= disk.version
    BY <2>1 DEF PublishedInv
  <2>5. PublishedInv'
    <3>1. ~Quiet(w)' /\ (\A v \in Windows \ {w} : Quiet(v)' /\ window'[v].stage \notin Committing)
      BY <1>2, <2>2, <2>3 DEF Quiet, Committing
    <3>2. catalog' <= disk'.version
      BY <1>1, <2>1, <2>4
    <3> QED
      BY <1>3, <2>1, <2>2, <2>3, <3>1, <3>2 DEF PublishedInv, Committing
  <2>6. \A v \in Windows : FormIsCurrent(window[v])'
    <3>1. \E v \in Windows : window'[v].stage = "written"
      BY <2>2, <2>3
    <3> QED
      BY <1>3, <2>1, <2>2, <2>3, <3>1 DEF FormInv, FormIsCurrent
  <2>7. SavingForm(w)' => SavingForm(w) /\ disk' = disk
    BY <2>2, <2>3 DEF SavingForm
  <2>8. window[w].stage \in Committing /\ f.stage \in Committing
    BY <2>1, <2>2 DEF Committing
  <2>9. catalog' >= catalog /\ disk'.version >= disk.version
    BY <1>1, <2>1, <2>4
  <2> QED
    BY <1>1, <1>3, <2>1, <2>2, <2>5, <2>6, <2>7, <2>8, <2>9, HolderKeeps
<1>5. CASE SwapRuntime(w)
  <2> DEFINE f == [window[w] EXCEPT !.stage = "swapped"]
  <2>1. /\ window[w].stage = "written" /\ UNCHANGED <<disk, catalog>>
        /\ runtime' = Snapshot(runtime.rev + 1, next, env)
        /\ window' = [window EXCEPT ![w] = f]
    BY <1>1, <1>5 DEF SwapRuntime
  <2>2. /\ f \in WindowForm /\ f.stage = "swapped" /\ f.epoch = window[w].epoch
        /\ f.seen = window[w].seen
    BY <1>1 DEF WindowForm, Committing
  <2> HIDE DEF f
  <2>3. window'[w] = f /\ \A v \in Windows \ {w} : window'[v] = window[v]
    BY <1>1, <2>1, <2>2, WindowSet
  <2>4. disk = next /\ catalog <= disk.version
    BY <2>1 DEF PublishedInv, Quiet
  <2>5. /\ runtime' \in InEffect
        /\ runtime'.rev = runtime.rev + 1 /\ runtime.rev \in Nat
        /\ runtime'.version = next.version /\ runtime'.provider = Effective(next, env)
        /\ runtime'.key = EffectiveKey(next)
    BY <1>1, <2>1 DEF Snapshot, Effective, EffectiveKey, InEffect
  <2>6. RuntimeInStep'
    BY <1>3, <2>1, <2>4, <2>5 DEF RuntimeInStep, Effective, EffectiveKey
  <2>7. PublishedInv'
    <3>1. ~Quiet(w)' /\ (\A v \in Windows \ {w} : Quiet(v)' /\ window'[v].stage \notin Committing)
      BY <1>2, <2>2, <2>3 DEF Quiet, Committing
    <3> QED
      BY <1>3, <2>1, <2>2, <2>3, <2>4, <2>6, <3>1 DEF PublishedInv, Committing
  <2>8. ASSUME NEW v \in Windows PROVE FormIsCurrent(window[v])'
    <3>1. CASE v = w
      BY <2>2, <2>3, <3>1 DEF FormIsCurrent
    <3>2. CASE v # w
      <4>1. window[v] \in WindowForm /\ window[v].rev \in Nat
        BY <1>1 DEF WindowForm
      <4> QED
        BY <1>3, <2>3, <2>5, <3>2, <4>1 DEF FormInv, FormIsCurrent
    <3> QED
      BY <3>1, <3>2
  <2>9. SavingForm(w)' => SavingForm(w) /\ disk' = disk
    BY <2>2, <2>3 DEF SavingForm
  <2>10. window[w].stage \in Committing /\ f.stage \in Committing
    BY <2>1, <2>2 DEF Committing
  <2>11. catalog' >= catalog /\ disk'.version >= disk.version
    BY <1>1, <2>1
  <2> QED
    BY <1>1, <1>3, <2>1, <2>2, <2>5, <2>7, <2>8, <2>9, <2>10, <2>11, HolderKeeps
<1>6. CASE RebuildCatalog(w)
  <2> DEFINE f == [window[w] EXCEPT !.stage = "cataloged"]
  <2>1. /\ window[w].stage = "swapped" /\ UNCHANGED <<disk, runtime>> /\ catalog' = next.version
        /\ window' = [window EXCEPT ![w] = f]
    BY <1>1, <1>6 DEF RebuildCatalog
  <2>2. /\ f \in WindowForm /\ f.stage = "cataloged" /\ f.epoch = window[w].epoch
        /\ f.seen = window[w].seen
    BY <1>1 DEF WindowForm, Committing
  <2> HIDE DEF f
  <2>3. window'[w] = f /\ \A v \in Windows \ {w} : window'[v] = window[v]
    BY <1>1, <2>1, <2>2, WindowSet
  <2>4. disk = next /\ catalog <= disk.version /\ RuntimeInStep
    BY <2>1 DEF PublishedInv, Quiet
  <2>5. PublishedInv'
    <3>1. ~Quiet(w)' /\ (\A v \in Windows \ {w} : Quiet(v)' /\ window'[v].stage \notin Committing)
      BY <1>2, <2>2, <2>3 DEF Quiet, Committing
    <3>2. RuntimeInStep' /\ CatalogInStep' /\ catalog' <= disk'.version
      BY <1>1, <1>3, <2>1, <2>4 DEF RuntimeInStep, CatalogInStep, Effective, EffectiveKey
    <3> QED
      BY <1>3, <2>1, <2>2, <2>3, <2>4, <3>1, <3>2 DEF PublishedInv, Committing
  <2>6. \A v \in Windows : FormIsCurrent(window[v])'
    BY <1>2, <1>3, <2>1, <2>2, <2>3 DEF FormInv, FormIsCurrent, Committing
  <2>7. SavingForm(w)' => SavingForm(w) /\ disk' = disk
    BY <2>2, <2>3 DEF SavingForm
  <2>8. window[w].stage \in Committing /\ f.stage \in Committing
    BY <2>1, <2>2 DEF Committing
  <2>9. catalog' >= catalog /\ disk'.version >= disk.version
    BY <1>1, <2>1, <2>4
  <2> QED
    BY <1>1, <1>3, <2>1, <2>2, <2>5, <2>6, <2>7, <2>8, <2>9, HolderKeeps
<1> QED
  BY <1>4, <1>5, <1>6

\* The lock is released with everything in step: the save ends.
LEMMA ReleaseKeeps ==
    ASSUME SettingsInv, NEW w \in Windows, NEW f \in WindowForm,
           window' = [window EXCEPT ![w] = f],
           window[w].stage \in Committing \ {"written"}, f.stage \in {"closed", "open"},
           f.epoch <= epoch, FormIsCurrent(f), lock' = Free,
           next' \in Content, SecretsKept(next'),
           RuntimeInStep, CatalogInStep, mcp' = disk.version,
           UNCHANGED <<disk, env, runtime, catalog, started, run, epoch>>
    PROVE  SettingsInv'
<1> USE DEF SettingsInv
<1>1. /\ window' \in [Windows -> WindowForm] /\ window'[w] = f
      /\ \A v \in Windows \ {w} : window'[v] = window[v]
  BY WindowSet DEF SettingsTypeOK
<1>2. /\ \A v \in Windows : window'[v].stage \notin Committing /\ Quiet(v)'
      /\ \A v \in Windows : window[v].stage # "written"
  BY <1>1 DEF LockInv, Quiet, Committing
<1>3. disk.version \in Nat
  BY DEF SettingsTypeOK, Content
<1>4. SettingsTypeOK'
  BY <1>1, <1>3 DEF SettingsTypeOK
<1>5. LockInv'
  BY <1>2, SettingsAssumption DEF LockInv
<1>6. PublishedInv'
  BY <1>2, <1>3
     DEF PublishedInv, RuntimeInStep, CatalogInStep, McpInStep, Quiet, Effective, EffectiveKey, Committing
<1>7. SecretsKept(disk)' /\ SecretsKept(next)' /\ CaptureInv'
  BY DEF SecretsKept, CaptureInv, CapturesAreCoherent
<1>8. FormInv'
  <2>1. SavesNeverLost'
    BY <1>2 DEF SavesNeverLost, SavingForm, Committing
  <2>2. ASSUME NEW v \in Windows PROVE (window[v].epoch <= epoch /\ FormIsCurrent(window[v]))'
    <3>1. CASE v = w
      BY <1>1, <1>2, <3>1 DEF FormIsCurrent
    <3>2. CASE v # w
      BY <1>1, <1>2, <3>2 DEF FormInv, FormIsCurrent
    <3> QED
      BY <3>1, <3>2
  <2> QED
    BY <2>1, <2>2 DEF FormInv
<1> QED
  BY <1>4, <1>5, <1>6, <1>7, <1>8

\* A save that is dropped before its commit changes nothing.
LEMMA DropKeeps ==
    ASSUME SettingsInv, NEW w \in Windows, SaveDropped(w)
    PROVE  SettingsInv'
<1> USE DEF SettingsInv
<1>1. /\ window[w].stage \in {"waiting", "merging", "refreshing"}
      /\ window' = [window EXCEPT ![w] = Form]
      /\ UNCHANGED <<disk, env, runtime, catalog, mcp, started, run, epoch>>
  BY DEF SaveDropped
<1>2. CASE lock = w
  <2>1. window[w].stage \in Committing \ {"written"} /\ lock' = Free /\ next' = disk
    BY <1>1, <1>2 DEF SaveDropped, LockInv, Committing
  <2>2. \A v \in Windows : Quiet(v)
    BY <1>1, <1>2 DEF LockInv, Quiet, Committing
  <2>3. RuntimeInStep /\ CatalogInStep /\ mcp' = disk.version
    BY <1>1, <2>2 DEF PublishedInv, McpInStep
  <2>4. next' \in Content /\ SecretsKept(next')
    BY <2>1 DEF SettingsTypeOK
  <2> QED
    BY <1>1, <2>1, <2>3, <2>4, ClosedForm, ReleaseKeeps
<1>3. CASE lock # w
  <2>1. window[w].stage \notin Committing /\ UNCHANGED <<lock, next>>
    BY <1>3 DEF LockInv, SaveDropped
  <2> QED
    BY <1>1, <2>1, ClosedForm, FormKeeps
<1> QED
  BY <1>2, <1>3

\* The last publication, with the window's answer or without.
LEMMA PublishKeeps ==
    ASSUME SettingsInv, NEW w \in Windows, RebuildMcp(w)
    PROVE  SettingsInv'
<1> USE DEF SettingsInv
<1> DEFINE f == [Form EXCEPT !.stage = "open", !.rev = runtime.rev, !.epoch = epoch,
                             !.seen = next.version, !.policy = started, !.kept = next.policy,
                             !.provider = Shown(next), !.agent = next.agent.place]
<1>1. /\ window[w].stage = "cataloged" /\ mcp' = next.version /\ lock' = Free
      /\ UNCHANGED <<disk, env, runtime, catalog, started, next, run, epoch>>
      /\ \/ window' = [window EXCEPT ![w] = f]
         \/ window' = [window EXCEPT ![w] = Form]
  BY DEF RebuildMcp, HoldsToTheEnd
<1>2. disk = next /\ RuntimeInStep /\ CatalogInStep
  BY <1>1 DEF PublishedInv, Quiet
<1>3. window[w].stage \in Committing \ {"written"} /\ mcp' = disk.version
  BY <1>1, <1>2 DEF Committing
<1>4. next' \in Content /\ SecretsKept(next')
  BY <1>1 DEF SettingsTypeOK
<1>5. CASE window' = [window EXCEPT ![w] = Form]
  BY <1>1, <1>2, <1>3, <1>4, <1>5, ClosedForm, ReleaseKeeps
<1>6. CASE window' = [window EXCEPT ![w] = f]
  <2>1. /\ runtime.rev \in Nat /\ epoch \in Nat /\ next.version \in Nat /\ started \in Policies
        /\ next.policy \in Policies /\ next.provider.place \in Places \cup {NoPlace}
        /\ next.agent.place \in Places \cup {NoPlace}
    BY DEF SettingsTypeOK, InEffect, Content, Stored
  <2>2. /\ f \in WindowForm /\ f.stage = "open" /\ f.rev = runtime.rev /\ f.epoch = epoch
        /\ f.seen = next.version
    BY <2>1, ClosedForm DEF WindowForm, Shown
  <2> HIDE DEF f
  <2>3. f.epoch <= epoch /\ FormIsCurrent(f)
    BY <1>2, <2>1, <2>2 DEF FormIsCurrent
  <2> QED
    BY <1>1, <1>2, <1>3, <1>4, <1>6, <2>2, <2>3, ReleaseKeeps
<1> QED
  BY <1>1, <1>5, <1>6

\* A run captures the runtime and the servers with the lock, and the catalogue without.
LEMMA RunKeeps ==
    ASSUME SettingsInv, NEW r \in Runs, RunStep(r)
    PROVE  SettingsInv'
<1> USE DEF SettingsInv
<1>1. UNCHANGED <<disk, env, runtime, catalog, mcp, started, window, next, epoch>>
  BY DEF RunStep, BeginCapture, CaptureRuntime, CaptureMcp, CaptureCatalog, EndRun
<1>2. PublishedInv' /\ SecretsKept(disk)' /\ SecretsKept(next)'
  BY <1>1
     DEF PublishedInv, RuntimeInStep, CatalogInStep, McpInStep, Quiet, Effective, EffectiveKey, SecretsKept
<1>3. FormInv'
  BY <1>1 DEF FormInv, FormIsCurrent, SavesNeverLost, SavingForm
<1>4. run \in [Runs -> Captured] /\ run[r] \in Captured
  BY DEF SettingsTypeOK
<1>5. disk.version \in Nat /\ runtime.version \in Nat /\ catalog \in Nat /\ mcp \in Nat
  BY DEF SettingsTypeOK, InEffect, Content
<1>6. ASSUME lock = r
      PROVE  RuntimeInStep /\ CatalogInStep /\ McpInStep
  BY <1>6, SettingsAssumption DEF LockInv, PublishedInv, Quiet, Committing
<1>7. NoRun \in Captured /\ NoRun.stage = "idle"
  BY DEF NoRun, Captured
<1>8. PICK c \in Captured :
         /\ run' = [run EXCEPT ![r] = c]
         /\ \/ /\ run[r].stage = "idle" /\ c.stage = "runtime" /\ lock = Free /\ lock' = r
               /\ c.began <= disk.version
            \/ /\ run[r].stage = "runtime" /\ c.stage = "mcp" /\ lock' = lock
               /\ c.began = run[r].began /\ c.runtime = runtime.version
            \/ /\ run[r].stage = "mcp" /\ c.stage = "catalog" /\ lock' = IF lock = r THEN Free ELSE lock
               /\ c.began = run[r].began /\ c.runtime = run[r].runtime /\ c.mcp = mcp
            \/ /\ run[r].stage = "catalog" /\ c.stage = "running" /\ lock' = lock
               /\ c.began = run[r].began /\ c.runtime = run[r].runtime /\ c.mcp = run[r].mcp
               /\ c.catalog = catalog
            \/ c.stage = "idle" /\ lock' = IF lock = r THEN Free ELSE lock
  <2>1. CASE BeginCapture(r)
    <3> DEFINE c == [NoRun EXCEPT !.stage = "runtime", !.began = disk.version]
    <3>1. c \in Captured /\ c.stage = "runtime" /\ c.began <= disk.version
      <4>1. c.stage = "runtime" /\ c.began = disk.version
        BY <1>7 DEF Captured
      <4>2. disk.version <= disk.version
        BY <1>5
      <4>3. c \in Captured
        BY <1>5, <1>7 DEF Captured
      <4> QED
        BY <4>1, <4>2, <4>3
    <3>2. /\ run' = [run EXCEPT ![r] = c] /\ run[r].stage = "idle" /\ lock = Free /\ lock' = r
      BY <2>1 DEF BeginCapture, MayCapture
    <3> QED
      BY <3>1, <3>2
  <2>2. CASE CaptureRuntime(r)
    <3> DEFINE c == [run[r] EXCEPT !.stage = "mcp", !.runtime = runtime.version]
    <3>1. /\ c \in Captured /\ c.stage = "mcp" /\ c.began = run[r].began
          /\ c.runtime = runtime.version
      BY <1>4, <1>5 DEF Captured
    <3>2. run' = [run EXCEPT ![r] = c] /\ run[r].stage = "runtime" /\ lock' = lock
      BY <1>4, <2>2 DEF CaptureRuntime
    <3> QED
      BY <3>1, <3>2
  <2>3. CASE CaptureMcp(r)
    <3> DEFINE c == [run[r] EXCEPT !.stage = "catalog", !.mcp = mcp]
    <3>1. /\ c \in Captured /\ c.stage = "catalog" /\ c.began = run[r].began
          /\ c.runtime = run[r].runtime /\ c.mcp = mcp
      BY <1>4, <1>5 DEF Captured
    <3>2. /\ run' = [run EXCEPT ![r] = c] /\ run[r].stage = "mcp"
          /\ lock' = IF lock = r THEN Free ELSE lock
      BY <1>4, <2>3 DEF CaptureMcp
    <3> QED
      BY <3>1, <3>2
  <2>4. CASE CaptureCatalog(r)
    <3> DEFINE c == [run[r] EXCEPT !.stage = "running", !.catalog = catalog]
    <3>1. /\ c \in Captured /\ c.stage = "running" /\ c.began = run[r].began
          /\ c.runtime = run[r].runtime /\ c.mcp = run[r].mcp /\ c.catalog = catalog
      BY <1>4, <1>5 DEF Captured
    <3>2. run' = [run EXCEPT ![r] = c] /\ run[r].stage = "catalog" /\ lock' = lock
      BY <1>4, <2>4 DEF CaptureCatalog
    <3> QED
      BY <3>1, <3>2
  <2>5. CASE EndRun(r)
    BY <1>7, <2>5 DEF EndRun
  <2> QED
    BY <2>1, <2>2, <2>3, <2>4, <2>5 DEF RunStep
<1>9. /\ run' \in [Runs -> Captured] /\ run'[r] = c
      /\ \A q \in Runs \ {r} : run'[q] = run[q]
  BY <1>4, <1>8
<1>10. SettingsTypeOK'
  BY <1>1, <1>9 DEF SettingsTypeOK
<1>11. LockInv'
  <2>1. \A w \in Windows : window[w].stage \in Committing <=> lock' = w
    BY <1>8, SettingsAssumption DEF LockInv
  <2>2. ASSUME NEW q \in Runs PROVE run'[q].stage \in {"runtime", "mcp"} <=> lock' = q
    BY <1>8, <1>9, SettingsAssumption DEF LockInv
  <2> QED
    BY <1>1, <2>1, <2>2 DEF LockInv
<1>12. CaptureInv'
  <2>1. run[r].stage \in {"runtime", "mcp"} => lock = r
    BY DEF LockInv
  <2>2. run[r].began \in Nat /\ run[r].runtime \in Nat
    BY <1>4 DEF Captured
  <2>3. ASSUME NEW q \in Runs, q # r
        PROVE  /\ run[q].stage \in {"catalog", "running"} =>
                     run[q].runtime = run[q].mcp /\ run[q].runtime >= run[q].began
               /\ run[q].stage = "running" => run[q].catalog >= run[q].runtime
               /\ run[q].stage \in {"runtime", "mcp"} => run[q].began <= disk.version
               /\ run[q].stage = "mcp" => run[q].runtime = disk.version
               /\ run[q].stage = "catalog" => run[q].runtime <= catalog
    BY DEF CaptureInv, CapturesAreCoherent
  <2>4. /\ c.stage \in {"catalog", "running"} => c.runtime = c.mcp /\ c.runtime >= c.began
        /\ c.stage = "running" => c.catalog >= c.runtime
        /\ c.stage \in {"runtime", "mcp"} => c.began <= disk.version
        /\ c.stage = "mcp" => c.runtime = disk.version
        /\ c.stage = "catalog" => c.runtime <= catalog
    BY <1>5, <1>6, <1>8, <2>1, <2>2
       DEF CaptureInv, CapturesAreCoherent, RuntimeInStep, CatalogInStep, McpInStep
  <2> QED
    BY <1>1, <1>9, <2>3, <2>4 DEF CaptureInv, CapturesAreCoherent
<1> QED
  BY <1>2, <1>3, <1>10, <1>11, <1>12

\* After a restart everything is derived from the file again and no form is of this epoch.
LEMMA RestartKeeps ==
    ASSUME SettingsInv, Restart
    PROVE  SettingsInv'
<1> USE DEF SettingsInv
<1>1. /\ epoch' = epoch + 1 /\ env' \in BOOLEAN /\ runtime' = Snapshot(0, disk, env')
      /\ catalog' = disk.version /\ mcp' = disk.version /\ started' = disk.policy
      /\ lock' = Free /\ next' = disk /\ run' = [r \in Runs |-> NoRun] /\ disk' = disk
      /\ window' = [w \in Windows |-> IF window[w].stage = "open" THEN window[w] ELSE Form]
  BY DEF Restart
<1>2. /\ disk \in Content /\ disk.version \in Nat /\ disk.policy \in Policies /\ epoch \in Nat
      /\ disk.provider.place \in Places \cup {NoPlace} /\ disk.provider.secret \in Places \cup {NoPlace}
      /\ window \in [Windows -> WindowForm]
  BY DEF SettingsTypeOK, Content, Stored
<1>3. NoRun \in Captured /\ NoRun.stage = "idle"
  BY DEF NoRun, Captured
<1>4. /\ runtime' \in InEffect
      /\ runtime'.version = disk.version /\ runtime'.provider = Effective(disk, env')
      /\ runtime'.key = EffectiveKey(disk)
  BY <1>1, <1>2 DEF Snapshot, Effective, EffectiveKey, InEffect
<1>5. /\ window' \in [Windows -> WindowForm]
      /\ \A w \in Windows : window'[w].stage \in {"open", "closed"} /\ window'[w].epoch <= epoch
  BY <1>1, <1>2, ClosedForm DEF FormInv
<1>6. SettingsTypeOK'
  BY <1>1, <1>2, <1>3, <1>4, <1>5 DEF SettingsTypeOK
<1>7. LockInv'
  BY <1>1, <1>3, <1>5, SettingsAssumption DEF LockInv, Committing
<1>8. PublishedInv'
  BY <1>1, <1>2, <1>4, <1>5
     DEF PublishedInv, RuntimeInStep, CatalogInStep, McpInStep, Quiet, Effective, EffectiveKey
<1>9. SecretsKept(disk)' /\ SecretsKept(next)'
  BY <1>1 DEF SecretsKept
<1>10. CaptureInv'
  BY <1>1, <1>3 DEF CaptureInv, CapturesAreCoherent
<1>11. FormInv'
  <2>1. \A w \in Windows : window'[w].epoch \in Nat
    BY <1>5 DEF WindowForm
  <2> QED
    BY <1>1, <1>2, <1>5, <2>1 DEF FormInv, SavesNeverLost, SavingForm, FormIsCurrent
<1> QED
  BY <1>6, <1>7, <1>8, <1>9, <1>10, <1>11

\* Whatever windows load, save and go away, and however often the process restarts, what is
\* derived follows the file between two saves, a secret stays with the place it was typed for,
\* a run captures one save, and no save of a window is lost to another's (save_settings,
\* runtime_snapshot).
THEOREM SettingsAreSound == SettingsSpec => []SettingsAreCoherent
<1>1. SettingsInit => SettingsInv
  <2> SUFFICES ASSUME SettingsInit PROVE SettingsInv
    OBVIOUS
  <2>1. PICK p \in Places, l \in Policies :
           LET stored == [place |-> p, secret |-> p] IN
           disk = [version |-> 0, policy |-> l, provider |-> stored, llm |-> stored, agent |-> stored]
    BY DEF SettingsInit
  <2>2. /\ runtime = Snapshot(0, disk, env) /\ catalog = 0 /\ mcp = 0 /\ started = disk.policy
        /\ lock = Free /\ window = [w \in Windows |-> Form] /\ next = disk
        /\ run = [r \in Runs |-> NoRun] /\ epoch = 0
    BY DEF SettingsInit
  <2>3. disk \in Content /\ disk.version = 0 /\ disk.policy = l /\ SecretsKept(disk)
    BY <2>1, SettingsAssumption DEF Content, Stored, SecretsKept
  <2>4. /\ runtime \in InEffect
        /\ runtime.version = 0 /\ runtime.provider = Effective(disk, env)
        /\ runtime.key = EffectiveKey(disk)
    BY <2>1, <2>2, <2>3 DEF Snapshot, Effective, EffectiveKey, InEffect
  <2>5. Form \in WindowForm /\ Form.stage = "closed" /\ Form.epoch = 0
    BY FormTyped DEF Form
  <2>6. NoRun \in Captured /\ NoRun.stage = "idle"
    BY DEF NoRun, Captured
  <2>7. SettingsTypeOK
    BY <2>2, <2>3, <2>4, <2>5, <2>6 DEF SettingsTypeOK
  <2>8. LockInv
    BY <2>2, <2>5, <2>6, SettingsAssumption DEF LockInv, Committing
  <2>9. PublishedInv
    BY <2>2, <2>3, <2>4, <2>5 DEF PublishedInv, RuntimeInStep, CatalogInStep, McpInStep, Quiet
  <2>10. CaptureInv /\ FormInv
    BY <2>2, <2>5, <2>6
       DEF CaptureInv, CapturesAreCoherent, FormInv, SavesNeverLost, SavingForm, FormIsCurrent
  <2> QED
    BY <2>2, <2>3, <2>7, <2>8, <2>9, <2>10 DEF SettingsInv
<1>2. SettingsInv /\ [SettingsNext]_settingsVars => SettingsInv'
  <2> SUFFICES ASSUME SettingsInv, [SettingsNext]_settingsVars PROVE SettingsInv'
    OBVIOUS
  <2>1. ASSUME NEW w \in Windows, SaveStep(w) PROVE SettingsInv'
    BY <2>1, UserKeeps, TakeKeeps, MergeKeeps, DropKeeps, CommitKeeps, PublishKeeps DEF SaveStep
  <2>2. ASSUME NEW r \in Runs, RunStep(r) PROVE SettingsInv'
    BY <2>2, RunKeeps
  <2>3. CASE Restart
    BY <2>3, RestartKeeps
  <2>4. CASE UNCHANGED settingsVars
    <3> USE <2>4 DEF settingsVars, SettingsInv
    <3>1. SettingsTypeOK' /\ LockInv'
      BY DEF SettingsTypeOK, LockInv
    <3>2. PublishedInv' /\ SecretsKept(disk)' /\ SecretsKept(next)'
      BY
         DEF PublishedInv, RuntimeInStep, CatalogInStep, McpInStep, Quiet, Effective, EffectiveKey, SecretsKept
    <3>3. CaptureInv' /\ FormInv'
      BY DEF CaptureInv, CapturesAreCoherent, FormInv, SavesNeverLost, SavingForm, FormIsCurrent
    <3> QED
      BY <3>1, <3>2, <3>3
  <2> QED
    BY <2>1, <2>2, <2>3, <2>4 DEF SettingsNext
<1>3. SettingsInv => SettingsAreCoherent
  <2> SUFFICES ASSUME SettingsInv PROVE SettingsAreCoherent
    OBVIOUS
  <2>1. RuntimeFollowsDisk
    BY DEF SettingsInv, LockInv, PublishedInv, RuntimeInStep, CatalogInStep, McpInStep, Quiet,
           Committing, RuntimeFollowsDisk, SecretsKept, EffectiveKey
  <2>2. SecretsStayPut
    BY DEF SettingsInv, SecretsKept, SecretsStayPut
  <2> QED
    BY <2>1, <2>2 DEF SettingsInv, CaptureInv, FormInv, SettingsAreCoherent
<1> QED
  BY <1>1, <1>2, <1>3, PTL DEF SettingsSpec

-----------------------------------------------------------------------------
(* The requests of one model call *)

\* A replay starts over with the attempts of its own, and only before something was heard.
RequestInv ==
    /\ phase \in {"sending", "body", "open", "done"}
    /\ attempt \in 1 .. MAX_REQUEST_ATTEMPTS /\ preflight \in 1 .. MAX_STREAM_PREFLIGHT_ATTEMPTS
    /\ requests \in Nat
    /\ requests + (IF phase = "sending" THEN MAX_REQUEST_ATTEMPTS + 1 - attempt ELSE 0)
          <= preflight * MAX_REQUEST_ATTEMPTS
    /\ phase \in {"sending", "body"} => heard = {}
    /\ heard \subseteq {requests}

\* What the runner hears of a model call comes from one request, after which none is sent, and
\* the attempts of the client and of the stream multiply to a fixed number (send_with_retry,
\* chat_stream).
THEOREM RequestsAreBounded == StreamSpec => []ReplayStopsAtFirstEvent
<1> DEFINE A == MAX_REQUEST_ATTEMPTS
           P == MAX_STREAM_PREFLIGHT_ATTEMPTS
<1>1. A \in Nat /\ A >= 1 /\ P \in Nat /\ P >= 1
  BY StreamAssumption
<1>2. \A k \in Nat : k * A \in Nat /\ (k + 1) * A = k * A + A
  BY <1>1
<1>3. \A k \in 1 .. P : k * A <= P * A
  BY <1>1
<1>4. StreamInit => RequestInv
  BY <1>1, <1>2 DEF StreamInit, RequestInv
<1>5. ASSUME RequestInv, [StreamNext]_streamVars PROVE RequestInv'
  <2>1. /\ preflight \in Nat /\ attempt \in Nat /\ requests \in Nat
        /\ preflight * A \in Nat /\ (preflight + 1) * A = preflight * A + A
    BY <1>1, <1>2, <1>5 DEF RequestInv
  <2>2. CASE SendSucceeds
    BY <1>1, <1>5, <2>1, <2>2 DEF SendSucceeds, RequestInv
  <2>3. ASSUME NEW retryable \in BOOLEAN, SendFails(retryable) PROVE RequestInv'
    BY <1>1, <1>5, <2>1, <2>3 DEF SendFails, Ends, RequestInv
  <2>4. CASE phase \in {"body", "open"} /\ UNCHANGED <<phase, attempt, preflight, requests, heard>>
    BY <1>5, <2>4 DEF RequestInv
  <2>5. ASSUME NEW kind, StreamFails(kind) PROVE RequestInv'
    <3>1. CASE Replayable(kind) /\ preflight < P
      <4>1. /\ phase = "body" /\ phase' = "sending" /\ preflight' = preflight + 1 /\ attempt' = 1
            /\ UNCHANGED <<requests, heard>>
        BY <2>5, <3>1 DEF StreamFails, Replay, Replayable
      <4> QED
        BY <1>1, <1>5, <2>1, <3>1, <4>1 DEF RequestInv
    <3>2. CASE ~(Replayable(kind) /\ preflight < P)
      <4>1. /\ phase \in {"body", "open"} /\ phase' = "done"
            /\ UNCHANGED <<attempt, preflight, requests, heard>>
        BY <2>5, <3>2 DEF StreamFails, Ends
      <4> QED
        BY <1>5, <4>1 DEF RequestInv
    <3> QED
      BY <3>1, <3>2
  <2>6. CASE Event
    BY <1>5, <2>6 DEF Event, RequestInv
  <2>7. CASE Refutes
    BY <1>5, <2>7 DEF Refutes, Ends, RequestInv
  <2>8. CASE phase # "done" /\ phase' = "done" /\ UNCHANGED <<attempt, preflight, requests, heard>>
    BY <1>1, <1>5, <2>1, <2>8 DEF RequestInv
  <2>9. CASE UNCHANGED streamVars
    BY <1>5, <2>9 DEF streamVars, RequestInv
  <2>10. CASE KeepAlive
    BY <2>4, <2>10 DEF KeepAlive
  <2>11. CASE Decide \/ Cancel
    BY <2>8, <2>11 DEF Decide, Cancel, Ends
  <2>12. ASSUME NEW d \in Deltas, Delta(d) PROVE RequestInv'
    BY <2>6, <2>12 DEF Delta
  <2>13. ASSUME NEW i \in Indexes, NEW id \in Ids \cup {NoId}, NEW named \in BOOLEAN,
                NativeDelta(i, id, named)
         PROVE  RequestInv'
    BY <2>6, <2>7, <2>13 DEF NativeDelta
  <2>14. CASE FinishEvent \/ Misbehaves
    BY <2>6, <2>7, <2>14 DEF FinishEvent, Misbehaves
  <2>15. CASE EndsEmpty
    BY <2>5, <2>15 DEF EndsEmpty
  <2> QED
    BY <1>5, <2>2, <2>3, <2>5, <2>9, <2>10, <2>11, <2>12, <2>13, <2>14, <2>15 DEF StreamNext
<1>6. RequestInv => ReplayStopsAtFirstEvent
  <2> SUFFICES ASSUME RequestInv PROVE ReplayStopsAtFirstEvent
    OBVIOUS
  <2>1. /\ preflight * A <= P * A /\ preflight * A \in Nat /\ P * A \in Nat /\ requests \in Nat
        /\ attempt \in 1 .. A /\ P * A = A * P
    BY <1>1, <1>2, <1>3 DEF RequestInv
  <2> QED
    BY <1>1, <2>1 DEF RequestInv, ReplayStopsAtFirstEvent
<1> QED
  BY <1>4, <1>5, <1>6, PTL DEF StreamSpec

-----------------------------------------------------------------------------
(* The buffer of a channel *)

\* The function that BufferOf computes, up to a number of deltas.
Joins(f, deltas, c, k) ==
    f = [n \in 0 .. k |-> IF n = 0 THEN <<>> ELSE f[n - 1] \o deltas[n][c]]

\* What it is at each place.
Adds(f, deltas, c, k) ==
    f[0] = <<>> /\ \A n \in 1 .. k : f[n] = f[n - 1] \o deltas[n][c]
LEMMA JoinsAt ==
    ASSUME NEW f, NEW deltas, NEW c, NEW k \in Nat, Joins(f, deltas, c, k)
    PROVE  Adds(f, deltas, c, k)
<1> DEFINE g == [n \in 0 .. k |-> IF n = 0 THEN <<>> ELSE f[n - 1] \o deltas[n][c]]
<1>1. \A n \in 0 .. k : g[n] = IF n = 0 THEN <<>> ELSE f[n - 1] \o deltas[n][c]
  OBVIOUS
<1>2. f = g
  BY DEF Joins
<1> HIDE DEF g
<1>3. \A n \in 0 .. k : f[n] = IF n = 0 THEN <<>> ELSE f[n - 1] \o deltas[n][c]
  BY <1>1, <1>2
<1>4. 0 \in 0 .. k /\ \A n \in 1 .. k : n \in 0 .. k /\ n # 0
  OBVIOUS
<1> QED
  BY <1>3, <1>4 DEF Adds

\* It exists, or there were a least number of deltas for which it does not.
LEMMA JoinsExists ==
    ASSUME NEW deltas, NEW c, NEW k \in Nat
    PROVE  \E f : Joins(f, deltas, c, k)
<1> DEFINE Bad == {n \in Nat : ~ \E f : Joins(f, deltas, c, n)}
<1> SUFFICES ASSUME Bad # {} PROVE FALSE
  OBVIOUS
<1>1. PICK m \in Bad : \A j \in Bad : m <= j
  <2>1. Bad \in SUBSET Nat
    OBVIOUS
  <2> HIDE DEF Bad
  <2> QED
    BY <2>1, LeastOf
<1>2. m # 0
  <2> DEFINE f0 == [n \in 0 .. 0 |-> <<>>]
  <2>1. Joins(f0, deltas, c, 0)
    BY DEF Joins
  <2> QED
    BY <1>1, <2>1
<1>3. m \in Nat /\ m - 1 \in Nat /\ m - 1 \notin Bad
  BY <1>1, <1>2
<1>4. PICK f : Joins(f, deltas, c, m - 1)
  BY <1>3
<1>5. f[0] = <<>> /\ \A n \in 1 .. m - 1 : f[n] = f[n - 1] \o deltas[n][c]
  <2> DEFINE k1 == m - 1
  <2>1. k1 \in Nat /\ Joins(f, deltas, c, k1)
    BY <1>3, <1>4
  <2> HIDE DEF k1
  <2>2. Adds(f, deltas, c, k1)
    BY <2>1, JoinsAt
  <2> QED
    BY <2>2 DEF k1, Adds
<1> DEFINE g == [n \in 0 .. m |-> IF n = m THEN f[m - 1] \o deltas[m][c] ELSE f[n]]
<1>6. \A n \in 0 .. m - 1 : n \in 0 .. m /\ n # m /\ g[n] = f[n]
  <2>1. \A n \in 0 .. m - 1 : n \in 0 .. m /\ n # m
    <3>1. m \in Nat
      BY <1>3
    <3> QED
      BY ONLY <3>1
  <2> QED
    BY <2>1
<1>7. g[m] = f[m - 1] \o deltas[m][c]
  <2>1. m \in 0 .. m
    <3>1. m \in Nat
      BY <1>3
    <3> QED
      BY ONLY <3>1
  <2> QED
    BY <2>1
<1>8. \A n \in 0 .. m : g[n] = IF n = 0 THEN <<>> ELSE g[n - 1] \o deltas[n][c]
  <2> HIDE DEF g
  <2> SUFFICES ASSUME NEW n \in 0 .. m PROVE g[n] = IF n = 0 THEN <<>> ELSE g[n - 1] \o deltas[n][c]
    OBVIOUS
  <2>1. CASE n = 0
    <3>1. 0 \in 0 .. m - 1
      BY <1>3
    <3> QED
      BY <1>5, <1>6, <2>1, <3>1
  <2>2. CASE n \in 1 .. m - 1
    <3>1. n # 0 /\ n \in 0 .. m - 1 /\ n - 1 \in 0 .. m - 1
      BY <1>3, <2>2
    <3> QED
      BY <1>5, <1>6, <2>2, <3>1
  <2>3. CASE n = m
    <3>1. n # 0 /\ m - 1 \in 0 .. m - 1
      BY <1>2, <1>3, <2>3
    <3> QED
      BY <1>6, <1>7, <2>3, <3>1
  <2> QED
    BY <1>3, <2>1, <2>2, <2>3
<1>9. Joins(g, deltas, c, m)
  <2>1. g = [n \in 0 .. m |-> g[n]]
    OBVIOUS
  <2> HIDE DEF g
  <2> QED
    BY <1>8, <2>1 DEF Joins
<1> QED
  BY <1>1, <1>9

\* Two of them agree as long as the deltas do.
LEMMA JoinsAgree ==
    ASSUME NEW f, NEW g, NEW deltas, NEW others, NEW c, NEW k \in Nat, NEW l \in Nat,
           Joins(f, deltas, c, k), Joins(g, others, c, l), k <= l,
           \A n \in 1 .. k : deltas[n] = others[n]
    PROVE  \A n \in 0 .. k : f[n] = g[n]
<1> DEFINE Bad == {n \in 0 .. k : f[n] # g[n]}
<1> SUFFICES ASSUME Bad # {} PROVE FALSE
  OBVIOUS
<1>1. PICK m \in Bad : \A j \in Bad : m <= j
  <2>1. Bad \in SUBSET Nat
    OBVIOUS
  <2> HIDE DEF Bad
  <2> QED
    BY <2>1, LeastOf
<1>2. /\ f[0] = <<>> /\ \A n \in 1 .. k : f[n] = f[n - 1] \o deltas[n][c]
      /\ g[0] = <<>> /\ \A n \in 1 .. l : g[n] = g[n - 1] \o others[n][c]
  <2>1. Adds(f, deltas, c, k) /\ Adds(g, others, c, l)
    BY JoinsAt
  <2> QED
    BY <2>1 DEF Adds
<1>3. m \in 1 .. k /\ m \in 1 .. l
  BY <1>1, <1>2
<1>4. f[m - 1] = g[m - 1]
  BY <1>1, <1>3
<1> QED
  BY <1>1, <1>2, <1>3, <1>4

\* The buffer is its last value.
LEMMA BufferIs ==
    ASSUME NEW deltas, NEW c, Len(deltas) \in Nat, NEW f, Joins(f, deltas, c, Len(deltas))
    PROVE  BufferOf(deltas, c) = f[Len(deltas)]
<1> DEFINE h == CHOOSE g : Joins(g, deltas, c, Len(deltas))
<1>1. Joins(h, deltas, c, Len(deltas))
  OBVIOUS
<1>2. BufferOf(deltas, c) = h[Len(deltas)]
  BY DEF BufferOf, Joins
<1> HIDE DEF h
<1>3. f[Len(deltas)] = h[Len(deltas)]
  BY <1>1, JoinsAgree
<1> QED
  BY <1>2, <1>3

\* A delta of text and thinking, made of tokens.
Pieces == [text : Seq(Tokens), thinking : Seq(Tokens)]

\* Nothing has been heard.
LEMMA BufferEmpty ==
    ASSUME NEW c
    PROVE  BufferOf(<<>>, c) = <<>>
<1>1. PICK f : Joins(f, <<>>, c, 0)
  BY JoinsExists
<1>2. Len(<<>>) = 0 /\ Len(<<>>) \in Nat
  OBVIOUS
<1>3. BufferOf(<<>>, c) = f[0]
  BY <1>1, <1>2, BufferIs
<1>4. Adds(f, <<>>, c, 0)
  BY <1>1, JoinsAt
<1> QED
  BY <1>3, <1>4 DEF Adds

\* One more delta is one more piece of the buffer.
LEMMA BufferAppend ==
    ASSUME NEW deltas \in Seq(Pieces), NEW d \in Pieces, NEW c
    PROVE  BufferOf(Append(deltas, d), c) = BufferOf(deltas, c) \o d[c]
<1> DEFINE more == Append(deltas, d)
           k == Len(deltas)
           l == Len(more)
<1>1. /\ k \in Nat /\ l = k + 1 /\ l \in Nat
      /\ more[l] = d /\ \A n \in 1 .. k : deltas[n] = more[n]
  OBVIOUS
<1> HIDE DEF more, k, l
<1>2. PICK f : Joins(f, deltas, c, k)
  BY <1>1, JoinsExists
<1>3. PICK g : Joins(g, more, c, l)
  BY <1>1, JoinsExists
<1>4. BufferOf(deltas, c) = f[k] /\ BufferOf(more, c) = g[l]
  BY <1>1, <1>2, <1>3, BufferIs DEF k, l
<1>5. k <= l /\ k \in 0 .. k /\ l \in 1 .. l /\ l - 1 = k
  BY <1>1
<1>6. \A n \in 0 .. k : f[n] = g[n]
  BY <1>1, <1>2, <1>3, <1>5, JoinsAgree
<1>7. Adds(g, more, c, l)
  BY <1>1, <1>3, JoinsAt
<1>8. g[l] = g[l - 1] \o more[l][c]
  BY <1>5, <1>7 DEF Adds
<1>9. f[k] = g[k]
  BY <1>5, <1>6
<1>10. BufferOf(more, c) = BufferOf(deltas, c) \o d[c]
  BY <1>1, <1>4, <1>5, <1>8, <1>9
<1> QED
  BY <1>10 DEF more

-----------------------------------------------------------------------------
(* What is shown before the first `<` *)

\* A prefix shows no more than the whole.
LEMMA PrefixHasNoLt ==
    ASSUME NEW s \in Seq(Tokens), NEW t \in Seq(Tokens)
    PROVE  HasLt(s \o t) <=> HasLt(s) \/ HasLt(t)
<1>1. /\ \A i \in 1 .. Len(s) : i \in 1 .. Len(s \o t) /\ (s \o t)[i] = s[i]
      /\ \A i \in 1 .. Len(t) : i + Len(s) \in 1 .. Len(s \o t) /\ (s \o t)[i + Len(s)] = t[i]
      /\ \A i \in 1 .. Len(s \o t) :
            \/ i \in 1 .. Len(s) /\ (s \o t)[i] = s[i]
            \/ i - Len(s) \in 1 .. Len(t) /\ (s \o t)[i] = t[i - Len(s)]
  OBVIOUS
<1>2. DOMAIN s = 1 .. Len(s) /\ DOMAIN t = 1 .. Len(t) /\ DOMAIN (s \o t) = 1 .. Len(s \o t)
  OBVIOUS
<1>3. ASSUME HasLt(s \o t) PROVE HasLt(s) \/ HasLt(t)
  BY <1>1, <1>2, <1>3 DEF HasLt, Positions
<1>4. ASSUME HasLt(s) PROVE HasLt(s \o t)
  BY <1>1, <1>2, <1>4 DEF HasLt, Positions
<1>5. ASSUME HasLt(t) PROVE HasLt(s \o t)
  BY <1>1, <1>2, <1>5 DEF HasLt, Positions
<1> QED
  BY <1>3, <1>4, <1>5

\* The safe end is where the first `<` is, or the end.
LEMMA SafeEndIs ==
    ASSUME NEW s \in Seq(Tokens)
    PROVE  /\ SafeEnd(s) \in 0 .. Len(s) /\ ~HasLt(SubSeq(s, 1, SafeEnd(s)))
           /\ ~HasLt(s) => SafeEnd(s) = Len(s)
           /\ \A n \in 0 .. Len(s) : ~HasLt(SubSeq(s, 1, n)) => n <= SafeEnd(s)
<1> DEFINE Good(n) == /\ ~HasLt(SubSeq(s, 1, n))
                      /\ n = Len(s) \/ HasLt(SubSeq(s, 1, n + 1))
<1>1. Len(s) \in Nat /\ DOMAIN s = 1 .. Len(s)
  OBVIOUS
<1>2. \A n \in 0 .. Len(s) : HasLt(SubSeq(s, 1, n)) <=> \E i \in 1 .. n : s[i] \in StartsWithLt
  <2> SUFFICES ASSUME NEW n \in 0 .. Len(s)
               PROVE  HasLt(SubSeq(s, 1, n)) <=> \E i \in 1 .. n : s[i] \in StartsWithLt
    OBVIOUS
  <2>1. DOMAIN SubSeq(s, 1, n) = 1 .. n /\ \A i \in 1 .. n : SubSeq(s, 1, n)[i] = s[i]
    OBVIOUS
  <2> QED
    BY <2>1 DEF HasLt, Positions
<1>3. HasLt(s) <=> \E i \in 1 .. Len(s) : s[i] \in StartsWithLt
  BY <1>1 DEF HasLt, Positions
<1>4. \E n \in 0 .. Len(s) : Good(n)
  <2>1. CASE ~HasLt(s)
    <3>1. Len(s) \in 0 .. Len(s) /\ ~HasLt(SubSeq(s, 1, Len(s)))
      BY <1>1, <1>2, <1>3, <2>1
    <3> QED
      BY <3>1
  <2>2. CASE HasLt(s)
    <3> DEFINE S == {i \in 1 .. Len(s) : s[i] \in StartsWithLt}
    <3>1. S \in SUBSET Nat /\ S # {}
      BY <1>3, <2>2
    <3>2. PICK p \in S : \A j \in S : p <= j
      <4> HIDE DEF S
      <4> QED
        BY <3>1, LeastOf
    <3>3. p \in 1 .. Len(s) /\ p - 1 \in 0 .. Len(s) /\ p \in 0 .. Len(s) /\ (p - 1) + 1 = p /\ p \in 1 .. p
      BY <1>1
    <3>4. \A i \in 1 .. p - 1 : s[i] \notin StartsWithLt
      BY <1>1, <3>2, <3>3
    <3>5. ~HasLt(SubSeq(s, 1, p - 1))
      BY <1>2, <3>3, <3>4
    <3>6. HasLt(SubSeq(s, 1, p))
      BY <1>2, <3>3
    <3> QED
      BY <3>3, <3>5, <3>6
  <2> QED
    BY <2>1, <2>2
<1>5. SafeEnd(s) \in 0 .. Len(s) /\ Good(SafeEnd(s))
  BY <1>4 DEF SafeEnd
<1> HIDE DEF Good
<1>6. ~HasLt(SubSeq(s, 1, SafeEnd(s)))
  BY <1>5 DEF Good
<1>7. ASSUME NEW n \in 0 .. Len(s), ~HasLt(SubSeq(s, 1, n)), ~(n <= SafeEnd(s)) PROVE FALSE
  <2> DEFINE e == SafeEnd(s)
             l == Len(s)
  <2>1. /\ l \in Nat /\ e \in 0 .. l /\ n \in 0 .. l /\ ~(n <= e)
        /\ (e = l \/ HasLt(SubSeq(s, 1, e + 1)))
    BY <1>1, <1>5, <1>7 DEF Good
  <2> HIDE DEF e, l
  <2>2. l \in Nat /\ e \in 0 .. l /\ n \in 0 .. l /\ ~(n <= e)
    BY <2>1
  <2>3. e # l /\ e + 1 \in 0 .. l /\ \A i \in 1 .. e + 1 : i \in 1 .. n
    BY ONLY <2>2
  <2>4. e # Len(s) /\ e + 1 \in 0 .. Len(s) /\ \A i \in 1 .. e + 1 : i \in 1 .. n
    BY <2>3 DEF l
  <2> QED
    BY <1>2, <1>7, <2>1, <2>4
<1>8. ~HasLt(s) => SafeEnd(s) = Len(s)
  <2>1. ASSUME ~HasLt(s) PROVE SafeEnd(s) = Len(s)
    <3>1. ~HasLt(SubSeq(s, 1, Len(s))) /\ Len(s) \in 0 .. Len(s)
      BY <1>1, <1>2, <1>3, <2>1
    <3> QED
      BY <1>1, <1>5, <1>7, <3>1
  <2> QED
    BY <2>1
<1> QED
  BY <1>5, <1>6, <1>7, <1>8

-----------------------------------------------------------------------------
(* The invariant *)

\* What was heard by the n-th delta.
Heard(n, c) == BufferOf(SubSeq(log, 1, n), c)

HistoryInv == log \in Seq(Pieces) /\ \A c \in Channels : Buffer(c) \in Seq(Tokens)

\* The release cursor stays before the first `<`, is at 0 until a word was heard, and what
\* is shown before the turn is decided ends there.
Released(c) ==
    /\ released[c] \in 0 .. Len(Buffer(c))
    /\ ~HasLt(SubSeq(Buffer(c), 1, released[c]))
    /\ released[c] > 0 => ~OnlySpace(Buffer(c), 1, released[c])
    /\ outcome \in {"none", "failed", "cancelled"} => shown[c] = SubSeq(Buffer(c), 1, released[c])
ReleaseInv == \A c \in Channels : Released(c)

\* The latch is the length of the reasoning at the delta that brought the text's first `<`.
LatchInv ==
    /\ latch \in Nat
    /\ IF HasLt(Buffer("text"))
       THEN \E last \in 0 .. Len(log) :
              /\ \A n \in 0 .. Len(log) : ~HasLt(Heard(n, "text")) <=> n <= last
              /\ latch <= Len(Buffer("thinking")) /\ Before(latch) = Heard(last, "thinking")
       ELSE \A n \in 0 .. Len(log) : ~HasLt(Heard(n, "text"))

\* The inductive invariant of the answer.
AnswerInv ==
    /\ phase \in {"sending", "body", "open", "done"} /\ (phase = "done" <=> outcome # "none")
    /\ HistoryInv /\ ReleaseInv /\ LatchInv /\ ShownIsTheTurn

\* One more delta: every buffer goes on, and what was heard before stays as it was.
LEMMA HeardGoesOn ==
    ASSUME HistoryInv, NEW d \in Pieces, log' = Append(log, d)
    PROVE  /\ HistoryInv'
           /\ \A c \in Channels : Buffer(c)' = Buffer(c) \o d[c] /\ d[c] \in Seq(Tokens)
           /\ Len(log) \in Nat /\ Len(log)' = Len(log) + 1
           /\ \A n \in 0 .. Len(log), c \in Channels : Heard(n, c)' = Heard(n, c)
           /\ \A n, c : n = Len(log) + 1 => Heard(n, c)' = Buffer(c)'
           /\ \A c : Heard(Len(log), c) = Buffer(c)
<1>1. log \in Seq(Pieces) /\ \A c \in Channels : Buffer(c) \in Seq(Tokens)
  BY DEF HistoryInv
<1>2. \A c \in Channels : d[c] \in Seq(Tokens)
  BY DEF Pieces, Channels
<1>3. \A c \in Channels : Buffer(c)' = Buffer(c) \o d[c]
  BY <1>1, BufferAppend DEF Buffer
<1>4. \A c \in Channels : Buffer(c)' \in Seq(Tokens)
  <2> SUFFICES ASSUME NEW c \in Channels PROVE Buffer(c)' \in Seq(Tokens)
    OBVIOUS
  <2> DEFINE b == Buffer(c)
             e == d[c]
  <2>1. b \in Seq(Tokens) /\ e \in Seq(Tokens) /\ Buffer(c)' = b \o e
    BY <1>1, <1>2, <1>3
  <2> HIDE DEF b, e
  <2> QED
    BY <2>1
<1>5. Len(log) \in Nat /\ Len(log)' = Len(log) + 1 /\ log' \in Seq(Pieces)
  BY <1>1
<1>6. /\ \A n \in 0 .. Len(log) : SubSeq(log', 1, n) = SubSeq(log, 1, n)
      /\ SubSeq(log', 1, Len(log) + 1) = log' /\ SubSeq(log, 1, Len(log)) = log
  BY <1>1, <1>5
<1>7. \A n \in 0 .. Len(log), c \in Channels : Heard(n, c)' = Heard(n, c)
  BY <1>6 DEF Heard
<1>8. /\ \A n, c : n = Len(log) + 1 => Heard(n, c)' = Buffer(c)'
      /\ \A c : Heard(Len(log), c) = Buffer(c)
  BY <1>6 DEF Heard, Buffer
<1> QED
  BY <1>1, <1>2, <1>3, <1>4, <1>5, <1>7, <1>8 DEF HistoryInv

\* The latch closes with the first `<` of the text and stays.
LEMMA LatchKeeps ==
    ASSUME HistoryInv, LatchInv, NEW d \in Pieces, log' = Append(log, d),
           latch' = IF ~HasLt(Buffer("text")) /\ HasLt(d["text"]) THEN Len(Buffer("thinking")) ELSE latch
    PROVE  LatchInv'
<1> DEFINE b == Buffer("text")
           t == Buffer("thinking")
           e == d["text"]
           u == d["thinking"]
<1>0. PICK k \in Nat : k = Len(log)
  BY HeardGoesOn
<1>1. /\ b \in Seq(Tokens) /\ t \in Seq(Tokens) /\ e \in Seq(Tokens) /\ u \in Seq(Tokens)
      /\ b' = b \o e /\ t' = t \o u /\ Len(log)' = k + 1
  BY <1>0, HeardGoesOn DEF HistoryInv, Channels
<1>2. /\ \A n \in 0 .. k : Heard(n, "text")' = Heard(n, "text") /\ Heard(n, "thinking")' = Heard(n, "thinking")
      /\ Heard(k + 1, "text")' = b' /\ Heard(k, "text") = b /\ Heard(k, "thinking") = t
  BY <1>0, HeardGoesOn DEF Channels
<1>3. \A n \in 0 .. Len(t) : SubSeq(t \o u, 1, n) = SubSeq(t, 1, n)
  <2> HIDE DEF t, u
  <2> QED
    BY <1>1
<1>4. SubSeq(t, 1, Len(t)) = t /\ Len(t) \in Nat /\ Len(t) <= Len(t \o u)
  <2> HIDE DEF t, u
  <2> QED
    BY <1>1
<1>5. \A n : Before(n)' = SubSeq(t \o u, 1, n) /\ Before(n) = SubSeq(t, 1, n)
  BY <1>1 DEF Before
<1>6. HasLt(b)' <=> HasLt(b) \/ HasLt(e)
  <2>1. HasLt(b \o e) <=> HasLt(b) \/ HasLt(e)
    <3> HIDE DEF b, e
    <3> QED
      BY <1>1, PrefixHasNoLt
  <2> QED
    BY <1>1, <2>1
<1>7. latch' = IF ~HasLt(b) /\ HasLt(e) THEN Len(t) ELSE latch
  OBVIOUS
<1>8. /\ latch \in Nat
      /\ IF HasLt(b)
         THEN \E last \in 0 .. k :
                /\ \A n \in 0 .. k : ~HasLt(Heard(n, "text")) <=> n <= last
                /\ latch <= Len(t) /\ Before(latch) = Heard(last, "thinking")
         ELSE \A n \in 0 .. k : ~HasLt(Heard(n, "text"))
  BY <1>0 DEF LatchInv
<1>9. LatchInv' <=> /\ latch' \in Nat
                    /\ IF HasLt(b)'
                       THEN \E last \in 0 .. (k + 1) :
                              /\ \A n \in 0 .. (k + 1) : ~HasLt(Heard(n, "text")') <=> n <= last
                              /\ latch' <= Len(t') /\ Before(latch)' = Heard(last, "thinking")'
                       ELSE \A n \in 0 .. (k + 1) : ~HasLt(Heard(n, "text")')
  BY <1>1 DEF LatchInv, HasLt, Positions, Heard, Before
<1>10. Before(latch)' = SubSeq(t \o u, 1, latch')
  BY <1>1 DEF Before
<1>11. HasLt(Heard(k + 1, "text")') <=> HasLt(b) \/ HasLt(e)
  BY <1>2, <1>6 DEF HasLt, Positions
<1> HIDE DEF b, t, e, u
<1>12. \A n \in 0 .. k : HasLt(Heard(n, "text")') <=> HasLt(Heard(n, "text"))
  BY <1>2
<1>13. \A n : n \in 0 .. (k + 1) <=> n \in 0 .. k \/ n = k + 1
  OBVIOUS
<1>14. CASE HasLt(b)
  <2>1. PICK last \in 0 .. k :
                /\ \A n \in 0 .. k : ~HasLt(Heard(n, "text")) <=> n <= last
                /\ latch <= Len(t) /\ Before(latch) = Heard(last, "thinking")
    BY <1>8, <1>14
  <2>2. latch' = latch /\ latch' \in 0 .. Len(t) /\ latch' <= Len(t') /\ latch' \in Nat
    BY <1>1, <1>4, <1>7, <1>8, <1>14, <2>1
  <2>3. Before(latch)' = Heard(last, "thinking")'
    BY <1>2, <1>3, <1>5, <1>10, <2>1, <2>2
  <2>4. \A n \in 0 .. (k + 1) : ~HasLt(Heard(n, "text")') <=> n <= last
    BY <1>1, <1>11, <1>12, <1>13, <1>14, <2>1
  <2>5. last \in 0 .. (k + 1)
    BY <1>13
  <2> QED
    BY <1>6, <1>9, <1>14, <2>2, <2>3, <2>4, <2>5
<1>15. CASE ~HasLt(b) /\ HasLt(e)
  <2>1. latch' = Len(t) /\ latch' \in Nat /\ latch' \in 0 .. Len(t) /\ latch' <= Len(t')
    BY <1>1, <1>4, <1>7, <1>15
  <2>2. k \in 0 .. k /\ k \in 0 .. (k + 1)
    BY <1>1
  <2>3. Before(latch)' = Heard(k, "thinking")'
    BY <1>2, <1>3, <1>4, <1>10, <2>1, <2>2
  <2>4. \A n \in 0 .. (k + 1) : ~HasLt(Heard(n, "text")') <=> n <= k
    BY <1>1, <1>8, <1>11, <1>12, <1>13, <1>15
  <2> QED
    BY <1>6, <1>9, <1>15, <2>1, <2>2, <2>3, <2>4
<1>16. CASE ~HasLt(b) /\ ~HasLt(e)
  <2>1. \A n \in 0 .. (k + 1) : ~HasLt(Heard(n, "text")')
    BY <1>8, <1>11, <1>12, <1>13, <1>16
  <2> QED
    BY <1>6, <1>7, <1>8, <1>9, <1>16, <2>1
<1> QED
  BY <1>14, <1>15, <1>16

\* The cursor moves on over text without a `<`, and what it passes is shown.
LEMMA CursorMovesOn ==
    ASSUME NEW b \in Seq(Tokens), NEW e \in Seq(Tokens), NEW r \in 0 .. Len(b), NEW q,
           ~HasLt(SubSeq(b, 1, r)), r > 0 => ~OnlySpace(b, 1, r),
           q = r \/ (~HasLt(b) /\ q = SafeEnd(b \o e) /\ ~OnlySpace(b \o e, 1, q))
    PROVE  /\ q \in 0 .. Len(b \o e) /\ ~HasLt(SubSeq(b \o e, 1, q))
           /\ q > 0 => ~OnlySpace(b \o e, 1, q)
           /\ SubSeq(b, 1, r) \o SubSeq(b \o e, r + 1, q) = SubSeq(b \o e, 1, q)
<1> DEFINE w == b \o e
<1>1. /\ w \in Seq(Tokens) /\ Len(w) = Len(b) + Len(e) /\ Len(b) \in Nat /\ Len(e) \in Nat
      /\ \A i \in 1 .. Len(b) : w[i] = b[i]
  OBVIOUS
<1>2. SubSeq(w, 1, r) = SubSeq(b, 1, r) /\ SubSeq(w, 1, Len(b)) = b
  OBVIOUS
<1>3. OnlySpace(w, 1, r) <=> OnlySpace(b, 1, r)
  <2>1. \A i \in 1 .. r : w[i] = b[i]
    BY <1>1
  <2> QED
    BY <2>1 DEF OnlySpace
<1> HIDE DEF w
<1>4. /\ SafeEnd(w) \in 0 .. Len(w) /\ ~HasLt(SubSeq(w, 1, SafeEnd(w)))
      /\ \A n \in 0 .. Len(w) : ~HasLt(SubSeq(w, 1, n)) => n <= SafeEnd(w)
  BY <1>1, SafeEndIs
<1>5. q \in 0 .. Len(w) /\ r <= q
  <2>1. CASE q = r
    BY <1>1, <2>1
  <2>2. CASE ~HasLt(b) /\ q = SafeEnd(w)
    <3>1. Len(b) \in 0 .. Len(w)
      BY <1>1
    <3>3. ~HasLt(SubSeq(w, 1, Len(b)))
      BY <1>2, <2>2
    <3>2. Len(b) <= q /\ q \in 0 .. Len(w)
      BY <1>4, <2>2, <3>1, <3>3
    <3> QED
      BY <1>1, <3>2
  <2> QED
    BY <2>1, <2>2 DEF w
<1>6. ~HasLt(SubSeq(w, 1, q)) /\ (q > 0 => ~OnlySpace(w, 1, q))
  BY <1>2, <1>3, <1>4 DEF w
<1>7. SubSeq(w, 1, r) \o SubSeq(w, r + 1, q) = SubSeq(w, 1, q)
  <2>1. r \in Nat /\ q \in Nat /\ r <= q /\ q <= Len(w)
    BY <1>1, <1>5
  <2>2. w \in Seq(Tokens) /\ 1 \in 1 .. Len(w) + 1 /\ r \in 1 - 1 .. Len(w) /\ q \in r .. Len(w)
    BY ONLY <1>1, <2>1
  <2> QED
    BY ONLY <2>2, ConcatAdjacentSubSeq
<1> QED
  BY <1>2, <1>5, <1>6, <1>7 DEF w

\* One more delta keeps the cursors where they belong.
LEMMA CursorsKeep ==
    ASSUME HistoryInv, ReleaseInv, NEW d \in Pieces, AppendDelta(d), outcome' = outcome, outcome = "none"
    PROVE  ReleaseInv'
<1> SUFFICES ASSUME NEW c \in Channels PROVE Released(c)'
  BY DEF ReleaseInv
<1> DEFINE b == Buffer(c)
           e == d[c]
           r == released[c]
           q == released'[c]
<1>1. log' = Append(log, d)
  BY DEF AppendDelta
<1>2. b \in Seq(Tokens) /\ e \in Seq(Tokens) /\ Buffer(c)' = b \o e
  BY <1>1, HeardGoesOn DEF HistoryInv
<1>3. /\ r \in 0 .. Len(b) /\ ~HasLt(SubSeq(b, 1, r)) /\ (r > 0 => ~OnlySpace(b, 1, r))
      /\ shown[c] = SubSeq(b, 1, r)
  BY DEF ReleaseInv, Released
<1>4. q = IF e = <<>> THEN r ELSE ReleaseTo(b, b \o e, c, FrozenFirst(d, c))
  BY DEF AppendDelta
<1>5. q = r \/ (~HasLt(b) /\ q = SafeEnd(b \o e) /\ ~OnlySpace(b \o e, 1, q))
  BY <1>4 DEF ReleaseTo
<1>6. shown'[c] = shown[c] \o SubSeq(b \o e, r + 1, q)
  BY DEF AppendDelta
<1>7. Released(c)' <=> /\ q \in 0 .. Len(b \o e)
                       /\ ~HasLt(SubSeq(b \o e, 1, q))
                       /\ q > 0 => ~OnlySpace(b \o e, 1, q)
                       /\ outcome' \in {"none", "failed", "cancelled"} => shown'[c] = SubSeq(b \o e, 1, q)
  BY <1>2 DEF Released, HasLt, Positions, OnlySpace
<1> HIDE DEF b, e, r, q
<1>8. /\ q \in 0 .. Len(b \o e) /\ ~HasLt(SubSeq(b \o e, 1, q))
      /\ q > 0 => ~OnlySpace(b \o e, 1, q)
      /\ SubSeq(b, 1, r) \o SubSeq(b \o e, r + 1, q) = SubSeq(b \o e, 1, q)
  BY <1>2, <1>3, <1>5, CursorMovesOn
<1> QED
  BY <1>3, <1>6, <1>7, <1>8

\* The deltas of a response are made of tokens; one of a native call brings no text.
LEMMA DeltasArePieces ==
    /\ \A d \in Deltas : d \in Pieces
    /\ Empty \in Pieces /\ \A c \in Channels : Empty[c] = <<>>
<1>1. TextChunks \cup {<<>>} \subseteq Seq(Tokens) /\ ThinkingChunks \cup {<<>>} \subseteq Seq(Tokens)
  <2>1. <<>> \in Seq(Tokens)
    OBVIOUS
  <2>2. TextChunks \cup ThinkingChunks \subseteq Seq(Tokens)
    BY StreamAssumption
  <2> HIDE DEF Tokens
  <2> QED
    BY <2>1, <2>2
<1>2. [text |-> <<>>, thinking |-> <<>>] \in Pieces
  BY DEF Pieces
<1>3. Empty = [text |-> <<>>, thinking |-> <<>>]
  BY DEF Empty, Channels
<1> QED
  BY <1>1, <1>2, <1>3 DEF Deltas, Pieces, Empty

\* Only a turn that is not decided yet can change.
LEMMA DraftIsShown ==
    ASSUME ReleaseInv', outcome' \in {"none", "failed", "cancelled"}
    PROVE  ShownIsTheTurn'
<1>1. \A c \in Channels : Released(c)'
  BY DEF ReleaseInv
<1>2. \A c \in Channels : ~HasLt(shown'[c])
  <2> SUFFICES ASSUME NEW c \in Channels PROVE ~HasLt(shown'[c])
    OBVIOUS
  <2>1. shown'[c] = SubSeq(Buffer(c)', 1, released'[c])
    BY <1>1 DEF Released
  <2>2. ~HasLt(SubSeq(Buffer(c)', 1, released'[c]))
    BY <1>1 DEF Released, HasLt, Positions
  <2> QED
    BY <2>1, <2>2
<1>3. \A c \in Channels : ~HasLt(shown[c])'
  BY <1>2 DEF HasLt, Positions
<1> QED
  BY <1>3 DEF ShownIsTheTurn

\* What was heard stays as long as nothing more is.
LEMMA HeardStays ==
    ASSUME HistoryInv, LatchInv, UNCHANGED <<log, latch>>
    PROVE  HistoryInv' /\ LatchInv' /\ \A c : Buffer(c)' = Buffer(c)
<1>1. log' = log /\ latch' = latch
  OBVIOUS
<1>2. HistoryInv'
  BY <1>1 DEF HistoryInv, Buffer
<1>3. LatchInv'
  BY <1>1 DEF LatchInv, Buffer, Heard, Before, HasLt, Positions
<1> QED
  BY <1>1, <1>2, <1>3 DEF Buffer

\* A step that hears nothing and decides nothing but that the turn failed.
LEMMA QuietKeeps ==
    ASSUME AnswerInv, phase # "done", UNCHANGED <<log, latch, released, shown>>,
           phase' \in {"sending", "body", "open", "done"},
           outcome' \in {"none", "failed", "cancelled"}, phase' = "done" <=> outcome' # "none"
    PROVE  AnswerInv'
<1>1. HistoryInv' /\ LatchInv' /\ \A c : Buffer(c)' = Buffer(c)
  BY HeardStays DEF AnswerInv
<1>2. ReleaseInv'
  <2> SUFFICES ASSUME NEW c \in Channels PROVE Released(c)'
    BY DEF ReleaseInv
  <2>1. Released(c) /\ outcome = "none"
    BY DEF AnswerInv, ReleaseInv
  <2>2. /\ released[c] \in 0 .. Len(Buffer(c))
        /\ ~HasLt(SubSeq(Buffer(c), 1, released[c]))
        /\ released[c] > 0 => ~OnlySpace(Buffer(c), 1, released[c])
        /\ shown[c] = SubSeq(Buffer(c), 1, released[c])
    BY <2>1 DEF Released
  <2>3. released' = released /\ shown' = shown /\ Buffer(c)' = Buffer(c)
    BY <1>1
  <2> QED
    BY <2>2, <2>3 DEF Released, HasLt, Positions, OnlySpace
<1>3. ShownIsTheTurn'
  BY <1>2, DraftIsShown
<1> QED
  BY <1>1, <1>2, <1>3 DEF AnswerInv

\* The draft of a refuted turn is taken back.
LEMMA RefutedKeeps ==
    ASSUME AnswerInv, phase # "done", UNCHANGED <<log, latch, released>>,
           phase' = "done", outcome' = "invalid", shown' = Empty
    PROVE  AnswerInv'
<1>1. HistoryInv' /\ LatchInv' /\ \A c : Buffer(c)' = Buffer(c)
  BY HeardStays DEF AnswerInv
<1>2. ReleaseInv'
  BY <1>1 DEF AnswerInv, ReleaseInv, Released, HasLt, Positions, OnlySpace
<1>3. ShownIsTheTurn'
  BY DEF ShownIsTheTurn, Empty
<1> QED
  BY <1>1, <1>2, <1>3 DEF AnswerInv

\* A delta is heard.
LEMMA DeltaKeeps ==
    ASSUME AnswerInv, NEW d \in Pieces, AppendDelta(d), phase # "done", phase' = "open",
           outcome' = outcome
    PROVE  AnswerInv'
<1>1. HistoryInv /\ ReleaseInv /\ LatchInv /\ outcome = "none" /\ log' = Append(log, d)
  BY DEF AnswerInv, AppendDelta
<1>2. HistoryInv'
  BY <1>1, HeardGoesOn
<1>3. LatchInv'
  BY <1>1, LatchKeeps DEF AppendDelta
<1>4. ReleaseInv'
  BY <1>1, CursorsKeep
<1>5. ShownIsTheTurn'
  BY <1>1, <1>4, DraftIsShown
<1> QED
  BY <1>1, <1>2, <1>3, <1>4, <1>5 DEF AnswerInv

\* A delta of a native call goes into the history and shows nothing.
LEMMA NativeKeeps ==
    ASSUME AnswerInv, log' = Append(log, Empty), UNCHANGED <<latch, released, shown, outcome>>,
           phase # "done", phase' = "open"
    PROVE  AnswerInv'
<1>1. HistoryInv /\ ReleaseInv /\ LatchInv /\ outcome = "none"
  BY DEF AnswerInv
<1>2. Empty \in Pieces /\ \A c \in Channels : Empty[c] = <<>>
  BY DeltasArePieces
<1>3. HistoryInv' /\ \A c \in Channels : Buffer(c)' = Buffer(c) \o <<>> /\ Buffer(c) \in Seq(Tokens)
  BY <1>1, <1>2, HeardGoesOn DEF HistoryInv
<1>4. \A c \in Channels : Buffer(c)' = Buffer(c)
  <2> SUFFICES ASSUME NEW c \in Channels PROVE Buffer(c)' = Buffer(c)
    OBVIOUS
  <2> DEFINE b == Buffer(c)
  <2>1. b \in Seq(Tokens) /\ Buffer(c)' = b \o <<>>
    BY <1>3
  <2> HIDE DEF b
  <2>2. b \o <<>> = b
    BY <2>1
  <2> QED
    BY <2>1, <2>2 DEF b
<1>5. LatchInv'
  <2>1. ~HasLt(Empty["text"])
    BY <1>2 DEF HasLt, Positions, Channels
  <2> QED
    BY <1>1, <1>2, <2>1, LatchKeeps
<1>6. ReleaseInv'
  BY <1>1, <1>4 DEF ReleaseInv, Released, HasLt, Positions, OnlySpace
<1>7. ShownIsTheTurn'
  BY <1>1, <1>6, DraftIsShown
<1> QED
  BY <1>1, <1>3, <1>5, <1>6, <1>7 DEF AnswerInv

-----------------------------------------------------------------------------
(* The decision *)

\* An envelope has a `<` and nothing but its own tokens; spaces alone come before it.
LEMMA EnvelopeIs ==
    ASSUME NEW s \in Seq(Tokens), IsEnvelope(s)
    PROVE  /\ HasLt(s) /\ \A i \in DOMAIN s : s[i] \in {"open", "invoke", "close", "space"}
           /\ \A r \in 0 .. Len(s) :
                ~HasLt(SubSeq(s, 1, r)) /\ (r > 0 => ~OnlySpace(s, 1, r)) => r = 0
<1>1. PICK first, last \in DOMAIN s :
        /\ s[first] = "open" /\ s[last] = "close"
        /\ OnlySpace(s, 1, first - 1) /\ OnlySpace(s, last + 1, Len(s))
        /\ \A i \in first + 1 .. last - 1 : s[i] \in {"invoke", "space"}
  BY DEF IsEnvelope
<1>2. DOMAIN s = 1 .. Len(s) /\ Len(s) \in Nat /\ first \in 1 .. Len(s) /\ last \in 1 .. Len(s)
  OBVIOUS
<1>3. /\ \A i \in 1 .. first - 1 : s[i] = "space"
      /\ \A i \in last + 1 .. Len(s) : s[i] = "space"
  BY <1>1 DEF OnlySpace
<1>4. HasLt(s)
  BY <1>1 DEF HasLt, Positions, StartsWithLt, Tags
<1>5. \A i \in DOMAIN s : s[i] \in {"open", "invoke", "close", "space"}
  <2> SUFFICES ASSUME NEW i \in DOMAIN s PROVE s[i] \in {"open", "invoke", "close", "space"}
    OBVIOUS
  <2>1. \/ i \in 1 .. first - 1 \/ i = first \/ i = last \/ i \in first + 1 .. last - 1
        \/ i \in last + 1 .. Len(s)
    BY <1>2
  <2> QED
    BY <1>1, <1>3, <2>1
<1>6. ASSUME NEW r \in 0 .. Len(s), ~HasLt(SubSeq(s, 1, r)), r > 0 => ~OnlySpace(s, 1, r)
      PROVE  r = 0
  <2>1. DOMAIN SubSeq(s, 1, r) = 1 .. r /\ \A i \in 1 .. r : SubSeq(s, 1, r)[i] = s[i]
    OBVIOUS
  <2>2. first \notin 1 .. r
    BY <1>1, <1>6, <2>1 DEF HasLt, Positions, StartsWithLt, Tags
  <2>3. \A i \in 1 .. r : i \in 1 .. first - 1
    BY <1>2, <2>2
  <2>4. OnlySpace(s, 1, r)
    BY <1>3, <2>3 DEF OnlySpace
  <2> QED
    BY <1>6, <2>4
<1> QED
  BY <1>4, <1>5, <1>6

\* The delta that brought the first `<` is the one the latch remembers.
LEMMA LatchIsBeforeLt ==
    ASSUME HistoryInv, LatchInv, HasLt(Buffer("text"))
    PROVE  Before(latch) = HeardBeforeLt("thinking")
<1> DEFINE quiet == {n \in 0 .. Len(log) : ~HasLt(BufferOf(SubSeq(log, 1, n), "text"))}
           end == CHOOSE n \in quiet : \A m \in quiet : m <= n
<1>1. PICK last \in 0 .. Len(log) :
              /\ \A n \in 0 .. Len(log) : ~HasLt(Heard(n, "text")) <=> n <= last
              /\ Before(latch) = Heard(last, "thinking")
  BY DEF LatchInv
<1>2. Len(log) \in Nat
  BY DEF HistoryInv
<1>3. \A n : n \in quiet <=> n \in 0 .. Len(log) /\ n <= last
  BY <1>1 DEF Heard
<1>4. HeardBeforeLt("thinking") = BufferOf(SubSeq(log, 1, end), "thinking")
  BY DEF HeardBeforeLt
<1> HIDE DEF quiet
<1>5. last \in quiet /\ \A m \in quiet : m <= last
  BY <1>2, <1>3
<1>6. end \in quiet /\ \A m \in quiet : m <= end
  BY <1>5
<1> HIDE DEF end
<1>7. end = last
  BY <1>2, <1>3, <1>5, <1>6
<1> QED
  BY <1>1, <1>4, <1>7 DEF Heard

\* The turn is shown as it was decided (parse_assistant_text, the end of the stream loop).
LEMMA DecideKeeps ==
    ASSUME AnswerInv, Decide
    PROVE  AnswerInv'
<1>1. /\ HistoryInv /\ ReleaseInv /\ LatchInv /\ outcome = "none"
      /\ phase # "done" /\ phase' = "done" /\ UNCHANGED <<log, latch, released, native>>
  BY DEF AnswerInv, Decide, guards
<1>2. CASE ~sawFinish
  BY <1>1, <1>2, QuietKeeps DEF Decide
<1>3. CASE sawFinish /\ TurnRefuted
  BY <1>1, <1>3, RefutedKeeps DEF Decide
<1>4. CASE sawFinish /\ ~TurnRefuted
  <2>1. HistoryInv' /\ LatchInv' /\ \A c : Buffer(c)' = Buffer(c)
    BY <1>1, HeardStays
  <2>2. /\ VisibleTags(Buffer("thinking")) = {}
        /\ Text = "calls" => IsEnvelope(Buffer("text")) /\ DOMAIN native = {}
        /\ Text # "calls" => VisibleTags(Buffer("text")) = {}
    BY <1>4 DEF TurnRefuted, Reasoning, Text, Parsed
  <2>3. outcome' \notin {"none", "failed", "cancelled"}
    BY <1>4 DEF Decide
  <2>4. ReleaseInv'
    BY <1>1, <2>1, <2>3 DEF ReleaseInv, Released, HasLt, Positions, OnlySpace
  <2>5. CASE Text = "calls"
    <3>1. outcome' = "calls" /\ shown' = [text |-> shown.text, thinking |-> Before(latch)]
      BY <1>4, <2>5 DEF Decide
    <3>2. /\ HasLt(Buffer("text"))
          /\ \A i \in DOMAIN Buffer("text") :
               Buffer("text")[i] \in {"open", "invoke", "close", "space"}
          /\ \A r \in 0 .. Len(Buffer("text")) :
               ~HasLt(SubSeq(Buffer("text"), 1, r)) /\ (r > 0 => ~OnlySpace(Buffer("text"), 1, r)) => r = 0
      <4>1. Buffer("text") \in Seq(Tokens) /\ IsEnvelope(Buffer("text"))
        BY <1>1, <2>2, <2>5 DEF HistoryInv, Channels
      <4> QED
        BY <4>1, EnvelopeIs
    <3>3. shown["text"] = <<>>
      <4>1. Released("text") /\ Buffer("text") \in Seq(Tokens)
        BY <1>1 DEF ReleaseInv, Channels, HistoryInv
      <4>2. released["text"] = 0 /\ shown["text"] = SubSeq(Buffer("text"), 1, released["text"])
        BY <1>1, <3>2, <4>1 DEF Released
      <4> QED
        BY <4>1, <4>2
    <3>4. Before(latch) = HeardBeforeLt("thinking")
      BY <1>1, <3>2, LatchIsBeforeLt
    <3>5. HeardBeforeLt("thinking")' = HeardBeforeLt("thinking")
      BY <1>1 DEF HeardBeforeLt
    <3>6. shown'["text"] = <<>> /\ shown'["thinking"] = HeardBeforeLt("thinking")'
      BY <3>1, <3>3, <3>4, <3>5
    <3>7. DOMAIN native' = {} /\ VisibleTags(Buffer("thinking")') = {}
      BY <1>1, <2>1, <2>2, <2>5
    <3>8. \A i \in DOMAIN Buffer("text")' : Buffer("text")'[i] \in {"open", "invoke", "close", "space"}
      BY <2>1, <3>2
    <3>9. ShownIsTheTurn'
      BY <3>1, <3>6, <3>7, <3>8 DEF ShownIsTheTurn, VisibleTags, Positions, Protected
    <3> QED
      BY <1>1, <2>1, <2>3, <2>4, <3>9 DEF AnswerInv
  <2>6. CASE Text # "calls"
    <3>1. outcome' \in {"answer", "native"} /\ shown' = [c \in Channels |-> Buffer(c)]
      BY <1>4, <2>6 DEF Decide
    <3>2. \A c \in Channels : shown'[c] = Buffer(c)' /\ VisibleTags(shown'[c]) = {}
      BY <2>1, <2>2, <2>6, <3>1 DEF Channels
    <3>3. ShownIsTheTurn'
      BY <3>1, <3>2 DEF ShownIsTheTurn, VisibleTags, Positions, Protected
    <3> QED
      BY <1>1, <2>1, <2>3, <2>4, <3>3 DEF AnswerInv
  <2> QED
    BY <2>5, <2>6
<1> QED
  BY <1>2, <1>3, <1>4

\* One turn, heard once and shown as it was decided: nothing of a control envelope is shown, a
\* turn that calls tools shows the reasoning heard before the envelope, an answer is shown
\* completely, and all of it comes from one request (chat_stream, dsml.rs).
THEOREM StreamStaysSound == StreamSpec => []StreamIsSound
<1>1. StreamInit => AnswerInv
  <2> SUFFICES ASSUME StreamInit PROVE AnswerInv
    OBVIOUS
  <2>1. /\ phase = "sending" /\ outcome = "none" /\ log = <<>> /\ latch = 0
        /\ released = [c \in Channels |-> 0] /\ shown = [c \in Channels |-> <<>>]
    BY DEF StreamInit, Empty
  <2>2. \A c \in Channels : Buffer(c) = <<>>
    BY <2>1, BufferEmpty DEF Buffer
  <2>3. <<>> \in Seq(Tokens) /\ <<>> \in Seq(Pieces) /\ Len(<<>>) = 0
    OBVIOUS
  <2>4. HistoryInv
    BY <2>1, <2>2, <2>3 DEF HistoryInv
  <2>5. SubSeq(<<>>, 1, 0) = <<>> /\ ~HasLt(<<>>)
    <3>1. SubSeq(<<>>, 1, 0) = <<>> /\ DOMAIN <<>> = {}
      OBVIOUS
    <3> QED
      BY <3>1 DEF HasLt, Positions
  <2>6. ReleaseInv
    <3> SUFFICES ASSUME NEW c \in Channels PROVE Released(c)
      BY DEF ReleaseInv
    <3>1. Buffer(c) = <<>> /\ released[c] = 0 /\ shown[c] = <<>>
      BY <2>1, <2>2
    <3>2. 0 \in 0 .. 0
      OBVIOUS
    <3>3. SubSeq(Buffer(c), 1, released[c]) = <<>> /\ released[c] \in 0 .. Len(Buffer(c))
      BY <2>3, <2>5, <3>1, <3>2
    <3>4. ~(released[c] > 0)
      BY <3>1
    <3>5. ~HasLt(SubSeq(Buffer(c), 1, released[c])) /\ shown[c] = SubSeq(Buffer(c), 1, released[c])
      BY <2>5, <3>1, <3>3
    <3> QED
      BY <3>3, <3>4, <3>5 DEF Released
  <2>7. LatchInv
    <3>1. ~HasLt(Buffer("text")) /\ latch \in Nat
      BY <2>1, <2>2, <2>5 DEF Channels
    <3>2. \A n \in 0 .. Len(log) : n = 0
      BY <2>1, <2>3
    <3>3. ~HasLt(Heard(0, "text"))
      BY <2>1, <2>5, BufferEmpty DEF Heard
    <3> QED
      BY <3>1, <3>2, <3>3 DEF LatchInv
  <2>8. ShownIsTheTurn
    BY <2>1, <2>5 DEF ShownIsTheTurn
  <2> QED
    BY <2>1, <2>4, <2>6, <2>7, <2>8 DEF AnswerInv
<1>2. AnswerInv /\ [StreamNext]_streamVars => AnswerInv'
  <2> SUFFICES ASSUME AnswerInv, [StreamNext]_streamVars PROVE AnswerInv'
    OBVIOUS
  <2>1. phase # "done" => outcome = "none"
    BY DEF AnswerInv
  <2>2. CASE SendSucceeds
    BY <2>1, <2>2, QuietKeeps DEF SendSucceeds, guards
  <2>3. ASSUME NEW retryable \in BOOLEAN, SendFails(retryable) PROVE AnswerInv'
    BY <2>1, <2>3, QuietKeeps DEF SendFails, Ends, guards
  <2>4. CASE KeepAlive
    BY <2>1, <2>4, QuietKeeps DEF KeepAlive, guards
  <2>5. ASSUME NEW kind, StreamFails(kind) PROVE AnswerInv'
    BY <2>1, <2>5, QuietKeeps DEF StreamFails, Replay, Ends, guards
  <2>6. CASE EndsEmpty
    BY <2>5, <2>6 DEF EndsEmpty
  <2>7. CASE Refutes
    BY <2>7, RefutedKeeps DEF Refutes, Ends, guards
  <2>8. ASSUME NEW d \in Deltas, Delta(d) PROVE AnswerInv'
    BY <2>8, DeltasArePieces, DeltaKeeps DEF Delta, Event
  <2>9. ASSUME NEW i \in Indexes, NEW id \in Ids \cup {NoId}, NEW named \in BOOLEAN,
               NativeDelta(i, id, named)
        PROVE  AnswerInv'
    <3>1. CASE Acceptable(i, id)
      BY <2>9, <3>1, NativeKeeps DEF NativeDelta, Event
    <3>2. CASE ~Acceptable(i, id)
      BY <2>7, <2>9, <3>2 DEF NativeDelta
    <3> QED
      BY <3>1, <3>2
  <2>10. CASE FinishEvent
    BY <2>1, <2>10, QuietKeeps DEF FinishEvent, Event, guards
  <2>11. CASE Misbehaves
    BY <2>7, <2>11 DEF Misbehaves
  <2>12. CASE Decide
    BY <2>12, DecideKeeps
  <2>13. CASE Cancel
    BY <2>13, QuietKeeps DEF Cancel, Ends, guards
  <2>14. CASE UNCHANGED streamVars
    <3> USE <2>14 DEF streamVars
    <3>1. HistoryInv' /\ LatchInv' /\ \A c : Buffer(c)' = Buffer(c)
      BY HeardStays DEF AnswerInv
    <3>2. ReleaseInv'
      BY <3>1 DEF AnswerInv, ReleaseInv, Released, HasLt, Positions, OnlySpace
    <3>3. HeardBeforeLt("thinking")' = HeardBeforeLt("thinking")
      BY DEF HeardBeforeLt
    <3>4. ShownIsTheTurn'
      BY <3>1, <3>3 DEF AnswerInv, ShownIsTheTurn, HasLt, VisibleTags, Positions, Protected
    <3> QED
      BY <3>1, <3>2, <3>4 DEF AnswerInv
  <2> QED
    BY <2>2, <2>3, <2>4, <2>5, <2>6, <2>8, <2>9, <2>10, <2>11, <2>12, <2>13, <2>14 DEF StreamNext
<1>3. AnswerInv => ShownIsTheTurn
  BY DEF AnswerInv
<1>4. StreamSpec => []ShownIsTheTurn
  BY <1>1, <1>2, <1>3, PTL DEF StreamSpec
<1> QED
  BY <1>4, RequestsAreBounded, PTL DEF StreamIsSound
=============================================================================
