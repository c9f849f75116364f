----------------------------- MODULE AgentRunner -----------------------------
(***************************************************************************)
(* Runner::run: the loop that turns one prompt into model turns, tool      *)
(* batches and one terminal outcome.                                       *)
(*                                                                         *)
(* The model provider, the tools, the reviewer and the storage behind a    *)
(* checkpoint are environment: each of their answers is a choice.  The     *)
(* receiver of the event channel may close at any moment (Stop, or a lost  *)
(* client); a send or a select that meets the closed channel cancels.      *)
(*                                                                         *)
(* Texts are abstracted to what a turn published ("none", "thinking" or    *)
(* "text") and the history keeps the conversation only: the corrective     *)
(* notices pushed between turns (recovery, retrieval breaker, retry        *)
(* prompts) change what the provider is asked, never what the Runner does. *)
(***************************************************************************)
EXTENDS Naturals, Sequences, FiniteSets

CONSTANTS
    Modes,                      \* kinds of request: ordinary, plan, execute
    Batches,                    \* by mode: tool batches the provider may emit
    Streamed,                   \* by mode: what a turn may publish before it finishes
    Limits,                     \* by mode: effective iteration limits considered
    EMPTY_RETRY_CAP, LENGTH_FINISH_HARD_CAP, PLAN_DENIAL_CAP,
    PLAN_COMPLETION_RETRY_CAP, VETO_CAP, ARTIFACT_REPAIR_REMINDER_CAP

Tools == {"generate_plan", "ask_user", "update_step_status", "exclusive",
          "write_file", "bash"}

ASSUME RunnerAssumption ==
    /\ Modes \subseteq {"ordinary", "plan", "execute"}
    /\ \A m \in Modes : /\ Batches[m] \subseteq Seq(Tools) \ {<<>>}
                       /\ Streamed[m] \subseteq {"thinking", "text"}
                       /\ Limits[m] \subseteq Nat \ {0}
    /\ {EMPTY_RETRY_CAP, LENGTH_FINISH_HARD_CAP, PLAN_DENIAL_CAP,
        PLAN_COMPLETION_RETRY_CAP, VETO_CAP, ARTIFACT_REPAIR_REMINDER_CAP} \subseteq Nat

VARIABLES
    req,        \* the request: mode, iteration limit, is the limit the user's
    pc,
    rx,         \* is the receiver of the event channel alive
    iterations,
    published,  \* PublishedTurn: text shown and tool calls shown, not yet in history
    ui,         \* what the receiver accepted, one segment per iteration
    messages,   \* session.messages of this run
    calls,      \* finalized tool calls of the provider turn being served
    results,    \* is_error of each result of the batch, negated
    ctx,        \* ToolContext: plan and pending_ask
    plan,       \* session.plan
    gate,       \* the counters of the decision gates
    repairFrom, \* artifact_repair_trace_start, 0 when no artifact repair is due
    then,       \* where a delivered DraftReset continues
    ending,     \* the Complete event about to be sent
    outcome,    \* RunOutcome: kind and awaiting
    saved,      \* the last history checkpoint
    verdict,    \* history: what the last review said
    rejected,   \* history: iterations whose draft a gate took back
    executed    \* history: <<iteration, tool>> pairs given to the Router

vars == <<req, pc, rx, iterations, published, ui, messages, calls, results, ctx, plan,
          gate, repairFrom, then, ending, outcome, saved, verdict, rejected, executed>>

Plans == {"none", "unapproved", "unfinished", "done"}
NoTurn == [text |-> "none", calls |-> <<>>]
NoOutcome == [kind |-> "none", awaiting |-> "none"]
ErrorEnding == [kind |-> "error", awaiting |-> "none"]
Gates == {"length", "empty", "denial", "incomplete", "veto", "reminders"}

Awaiting(what) == [kind |-> "awaiting", awaiting |-> what]

UserFinal == req.userCap /\ iterations = req.limit
PlanMode == req.mode = "plan"
EnforcePlanCompletion == req.mode = "execute"

-----------------------------------------------------------------------------
(* History entries *)

User == [role |-> "user", turn |-> 0, text |-> "text", calls |-> <<>>,
         hidden |-> FALSE, ok |-> TRUE]
Boundary == [User EXCEPT !.role = "boundary", !.hidden = TRUE]
Assistant(t) == [role |-> "assistant", turn |-> iterations, text |-> t.text,
                 calls |-> t.calls, hidden |-> FALSE, ok |-> TRUE]
ToolEntry(name, ok) == [role |-> "tool", turn |-> iterations, text |-> "none",
                        calls |-> <<name>>, hidden |-> FALSE, ok |-> ok]

\* PublishedTurn::into_message: nothing for an empty turn.
PublishedMessage ==
    IF published = NoTurn THEN <<>> ELSE <<Assistant(published)>>
\* Mutant of CommitPublished: what was shown is forgotten.
CommitNothing == messages
CommitPublished == messages \o PublishedMessage
\* Mutant of HiddenMessage: the draft is kept as an ordinary answer.
HiddenMessageVisible == PublishedMessage
HiddenMessage ==
    IF published = NoTurn THEN <<>> ELSE <<[Assistant(published) EXCEPT !.hidden = TRUE]>>

\* Mutant of SyntheticResults: a cancelled batch leaves its calls unanswered.
SyntheticResultsMissing == <<>>
SyntheticResults == [i \in DOMAIN published.calls |-> ToolEntry(published.calls[i], FALSE)]
CommitCancelled == CommitPublished \o SyntheticResults

-----------------------------------------------------------------------------
Requests ==
    UNION {[mode : {m}, limit : Limits[m], userCap : BOOLEAN] : m \in Modes}

Init ==
    /\ req \in Requests
    /\ pc = "start" /\ rx = TRUE /\ iterations = 0
    /\ published = NoTurn /\ ui = <<>> /\ messages = <<>>
    /\ calls = <<>> /\ results = <<>>
    /\ plan = IF req.mode = "execute" THEN "unfinished" ELSE "none"
    /\ ctx = [plan |-> plan, ask |-> FALSE]
    /\ gate = [g \in Gates |-> 0]
    /\ repairFrom = 0 /\ then = "none"
    /\ ending = NoOutcome /\ outcome = NoOutcome
    /\ saved = [len |-> 0, plan |-> plan, status |-> "none"]
    /\ verdict = "none" /\ rejected = {} /\ executed = {}

\* What most steps leave alone.
Request == <<req, rx>>
Loop    == <<gate, repairFrom, then>>
History == <<verdict, rejected, executed>>

ReceiverCloses ==
    /\ pc # "done" /\ rx
    /\ rx' = FALSE
    /\ UNCHANGED <<req, pc, iterations, published, ui, messages, calls, results, ctx,
                   plan, Loop, ending, outcome, saved, History>>

-----------------------------------------------------------------------------
(* Start and the head of the loop *)

Start ==
    /\ pc = "start" /\ rx
    /\ messages' = <<User>>
    /\ pc' = "iterate"
    /\ UNCHANGED <<Request, iterations, published, ui, calls, results, ctx, plan, Loop,
                   ending, outcome, saved, History>>

\* Start was not delivered: the prompt never enters the history.
CancelBeforePrompt ==
    /\ pc = "start" /\ ~rx
    /\ pc' = "done"
    /\ outcome' = [kind |-> "cancelled", awaiting |-> "none"]
    /\ UNCHANGED <<Request, iterations, published, ui, messages, calls, results, ctx,
                   plan, Loop, ending, saved, History>>

BeginIteration ==
    /\ pc = "iterate" /\ rx
    /\ iterations < req.limit
    /\ iterations' = iterations + 1
    /\ ui' = Append(ui, [text |-> "none", calls |-> <<>>, results |-> FALSE])
    /\ pc' = "call"
    /\ UNCHANGED <<Request, published, messages, calls, results, ctx, plan, Loop, ending,
                   outcome, saved, History>>

\* Go and send the Complete event e.
End(e) == pc' = "complete" /\ ending' = e

IterationsExhausted ==
    /\ pc = "iterate"
    /\ iterations = req.limit
    /\ End([kind |-> "max_iters", awaiting |-> "none"])
    /\ UNCHANGED <<Request, iterations, published, ui, messages, calls, results, ctx,
                   plan, Loop, outcome, saved, History>>

-----------------------------------------------------------------------------
(* One provider turn *)

OpenStream ==
    /\ pc = "call" /\ rx
    /\ pc' = "stream"
    /\ UNCHANGED <<Request, iterations, published, ui, messages, calls, results, ctx,
                   plan, Loop, ending, outcome, saved, History>>

\* The context stays over the hard wall, the provider refuses, errs, or ends the
\* stream before Finish.
ProviderFails ==
    /\ pc \in {"call", "stream"}
    /\ End(ErrorEnding)
    /\ UNCHANGED <<Request, iterations, published, ui, messages, calls, results, ctx,
                   plan, Loop, outcome, saved, History>>

\* A released prefix or remainder is sent first and recorded as published after.
Publish(kind) ==
    /\ pc = "stream" /\ rx
    /\ published.text # kind /\ published.text # "text"
    /\ published' = [published EXCEPT !.text = kind]
    /\ ui' = [ui EXCEPT ![iterations].text = kind]
    /\ UNCHANGED <<Request, pc, iterations, messages, calls, results, ctx, plan, Loop,
                   ending, outcome, saved, History>>

\* hide_published, then DraftReset; the run goes on at pc = next once it is delivered.
TakeBackDraft(next) ==
    /\ messages' = messages \o HiddenMessage
    /\ published' = NoTurn
    /\ rejected' = rejected \union {iterations}
    /\ pc' = "reset" /\ then' = next

\* fail_invalidated_candidate: protocol errors, and tool calls where the user's
\* budget has switched tools off.
InvalidateCandidate ==
    /\ pc = "stream"
    /\ ending' = ErrorEnding
    /\ IF published.text # "none"
       THEN TakeBackDraft("complete")
       ELSE pc' = "complete" /\ UNCHANGED <<messages, published, rejected, then>>
    /\ UNCHANGED <<Request, iterations, ui, calls, results, ctx, plan, gate, repairFrom,
                   outcome, saved, verdict, executed>>

\* The final iteration of a budget the user wrote into the prompt has no tools.
ToolsAllowed == ~UserFinal

\* Finish passed the protocol gates: dispatch on gate 1, tools, or an answer.
Finish(r) ==
    /\ pc = "stream" /\ rx
    /\ r.calls # <<>> => ToolsAllowed
    /\ calls' = IF r.length THEN <<>> ELSE r.calls
    /\ pc' = CASE r.length -> "length"
               [] ~r.length /\ r.calls # <<>> -> "tools"
               [] OTHER -> "answer"
    /\ gate' = IF r.length THEN gate ELSE [gate EXCEPT !["length"] = 0]
    /\ UNCHANGED <<Request, iterations, published, ui, messages, results, ctx, plan,
                   repairFrom, then, ending, outcome, saved, History>>

\* Gate 1: a truncated turn is kept and continued, a bounded number of times; its
\* tool calls are dropped.
LengthGate ==
    LET n == gate["length"] + 1 IN
    /\ pc = "length"
    /\ IF UserFinal THEN End(ErrorEnding) /\ UNCHANGED <<gate, published, messages>>
       ELSE /\ gate' = [gate EXCEPT !["length"] = n]
            /\ IF n >= LENGTH_FINISH_HARD_CAP
               THEN /\ End([kind |-> "max_iters", awaiting |-> "none"])
                    /\ UNCHANGED <<published, messages>>
               ELSE /\ messages' = CommitPublished /\ published' = NoTurn
                    /\ pc' = "iterate" /\ UNCHANGED ending
    /\ UNCHANGED <<Request, iterations, ui, calls, results, ctx, plan, repairFrom, then,
                   outcome, saved, History>>

-----------------------------------------------------------------------------
(* Tool batches *)

PublishToolCalls ==
    /\ pc = "tools" /\ rx
    /\ published' = [published EXCEPT !.calls = calls]
    /\ ui' = [ui EXCEPT ![iterations].calls = calls]
    /\ pc' = "execute"
    /\ UNCHANGED <<Request, iterations, messages, calls, results, ctx, plan, Loop, ending,
                   outcome, saved, History>>

Has(name) == \E i \in DOMAIN calls : calls[i] = name
IsPreapprovalPlanTool(name) == name \in {"generate_plan", "ask_user"}

\* Mutant of BatchDenied: the plan boundary looks at the first call only.
BatchDeniedByFirst ==
    \/ PlanMode /\ ~IsPreapprovalPlanTool(calls[1])
    \/ ~PlanMode /\ Has("update_step_status") /\ ctx.plan # "unfinished"
    \/ Len(calls) > 1 /\ Has("exclusive")

\* The three batch rejections, decided before any tool runs.
BatchDenied ==
    \/ PlanMode /\ \E i \in DOMAIN calls : ~IsPreapprovalPlanTool(calls[i])
    \/ ~PlanMode /\ Has("update_step_status") /\ ctx.plan # "unfinished"
    \/ Len(calls) > 1 /\ Has("exclusive")

DenyBatch ==
    /\ pc = "execute"
    /\ BatchDenied
    /\ results' = [i \in DOMAIN calls |-> FALSE]
    /\ pc' = "results"
    /\ UNCHANGED <<Request, iterations, published, ui, messages, calls, ctx, plan, Loop,
                   ending, outcome, saved, History>>

Succeeded(oks, name) == \E i \in DOMAIN calls : calls[i] = name /\ oks[i]

\* ToolContext after the batch, one of the plans a status update may leave.  An
\* ask that shares its batch with a successful plan is withdrawn.
ContextsAfter(oks) ==
    LET planned == Succeeded(oks, "generate_plan")
        updated == Succeeded(oks, "update_step_status")
        asked   == ctx.ask \/ Succeeded(oks, "ask_user")
        plans   == IF planned THEN {"unapproved"}
                   ELSE IF updated THEN {"unfinished", "done"} ELSE {ctx.plan}
    IN  [plan : plans,
         ask : {asked /\ ~(PlanMode /\ planned /\ Succeeded(oks, "ask_user"))}]

\* The Router runs the calls one after the other; each succeeds or fails.
ExecuteToolCalls ==
    /\ pc = "execute" /\ rx
    /\ ~BatchDenied
    /\ \E oks \in [DOMAIN calls -> BOOLEAN] :
          /\ results' = oks
          /\ ctx' \in ContextsAfter(oks)
    /\ executed' = executed \union {<<iterations, calls[i]>> : i \in DOMAIN calls}
    /\ pc' = "results"
    /\ UNCHANGED <<Request, iterations, published, ui, messages, calls, plan, Loop,
                   ending, outcome, saved, verdict, rejected>>

PlanChanged ==
    Succeeded(results, "generate_plan") \/ Succeeded(results, "update_step_status")

\* ToolResults accepted: the commit point of the calls, their results and the plan.
PublishToolResults ==
    /\ pc = "results" /\ rx
    /\ ui' = [ui EXCEPT ![iterations].results = TRUE]
    /\ messages' = CommitPublished
          \o [i \in DOMAIN calls |-> ToolEntry(calls[i], results[i])]
    /\ published' = NoTurn
    /\ plan' = IF PlanChanged THEN ctx.plan ELSE plan
    /\ pc' = "checkpoint"
    /\ UNCHANGED <<Request, iterations, calls, results, ctx, Loop, ending, outcome, saved,
                   History>>

\* Mutant of CheckpointStatus: a plan that awaits approval is saved as work in progress.
CheckpointStatusAskOnly == IF ctx.ask THEN "awaiting_user_response" ELSE "processing"
CheckpointStatus ==
    IF PlanMode /\ plan = "unapproved" THEN "awaiting_plan_approval"
    ELSE IF ctx.ask THEN "awaiting_user_response" ELSE "processing"

CheckpointHistory ==
    /\ pc = "checkpoint"
    /\ saved' = [len |-> Len(messages), plan |-> plan, status |-> CheckpointStatus]
    /\ pc' = "settle"
    /\ UNCHANGED <<Request, iterations, published, ui, messages, calls, results, ctx, plan,
                   Loop, ending, outcome, History>>

CheckpointFails ==
    /\ pc = "checkpoint"
    /\ calls' = <<>> /\ results' = <<>>
    /\ End(ErrorEnding)
    /\ UNCHANGED <<Request, iterations, published, ui, messages, ctx, plan,
                   Loop, outcome, saved, History>>

\* Mutant of DenialFails: only the last iteration ends the denials.
DenialFailsAtLimit == iterations >= req.limit
\* record_plan_denial, after counting: fail on the cap or on the last iteration.
DenialFails == gate["denial"] + 1 > PLAN_DENIAL_CAP \/ iterations >= req.limit
CountDenial == [gate EXCEPT !["denial"] = @ + 1]

\* After the checkpoint: PlanUpdate, then pause for approval, pause for an answer,
\* insist on a plan, or go on.
SettleBatch ==
    /\ pc = "settle"
    /\ PlanChanged => rx
    /\ calls' = <<>> /\ results' = <<>>
    /\ \/ /\ PlanMode /\ ctx.plan = "unapproved"
          /\ ctx' = [ctx EXCEPT !.ask = FALSE]
          /\ End(Awaiting("plan_approval"))
          /\ UNCHANGED gate
       \/ /\ ~(PlanMode /\ ctx.plan = "unapproved") /\ ctx.ask
          /\ ctx' = [ctx EXCEPT !.ask = FALSE]
          /\ End(Awaiting("user_response"))
          /\ UNCHANGED gate
       \/ /\ ~ctx.ask /\ PlanMode /\ ctx.plan = "none"
          /\ gate' = CountDenial
          /\ IF DenialFails THEN End(ErrorEnding) ELSE pc' = "iterate" /\ UNCHANGED ending
          /\ UNCHANGED ctx
       \/ /\ ~ctx.ask /\ ~(PlanMode /\ ctx.plan \in {"none", "unapproved"})
          /\ pc' = "iterate"
          /\ UNCHANGED <<ctx, gate, ending>>
    /\ UNCHANGED <<Request, iterations, published, ui, messages, plan,
                   repairFrom, then, outcome, saved, History>>

-----------------------------------------------------------------------------
(* A turn without tool calls *)

EmptyAnswer ==
    LET missing == PlanMode /\ ctx.plan = "none"
        counted == [gate EXCEPT !["empty"] = @ + 1,
                                !["denial"] = IF missing THEN @ + 1 ELSE @]
        fails   == \/ missing /\ DenialFails
                   \/ counted["empty"] > EMPTY_RETRY_CAP
                   \/ UserFinal
    IN  /\ pc = "answer"
        /\ published.text # "text"
        /\ gate' = counted
        /\ IF fails THEN End(ErrorEnding) /\ UNCHANGED <<messages, published>>
           ELSE /\ messages' = CommitPublished /\ published' = NoTurn
                /\ pc' = "iterate" /\ UNCHANGED ending
        /\ UNCHANGED <<Request, iterations, ui, calls, results, ctx, plan, repairFrom, then,
                       outcome, saved, History>>

AnswerWithoutPlan ==
    /\ pc = "answer"
    /\ published.text = "text"
    /\ PlanMode /\ ctx.plan = "none"
    /\ gate' = [CountDenial EXCEPT !["empty"] = 0]
    /\ IF DenialFails THEN End(ErrorEnding) /\ UNCHANGED <<messages, published>>
       ELSE /\ messages' = CommitPublished /\ published' = NoTurn
            /\ pc' = "iterate" /\ UNCHANGED ending
    /\ UNCHANGED <<Request, iterations, ui, calls, results, ctx, plan, repairFrom, then,
                   outcome, saved, History>>

PlanGatePassed == published.text = "text" /\ ~(PlanMode /\ ctx.plan = "none")

\* Mutant of PlanComplete: the gate asks whether some plan is there.
PlanCompleteIfAny == ctx.plan # "none"
\* approved_plan_is_complete
PlanComplete == ctx.plan = "done"

\* An execution run may not end while a step of its plan is open.
AnswerWithOpenPlan ==
    LET n == gate["incomplete"] + 1 IN
    /\ pc = "answer" /\ rx
    /\ PlanGatePassed
    /\ EnforcePlanCompletion /\ ~PlanComplete
    /\ gate' = [gate EXCEPT !["empty"] = 0, !["incomplete"] = n]
    /\ IF UserFinal
       THEN End(ErrorEnding) /\ UNCHANGED <<messages, published, rejected, then>>
       ELSE IF n <= PLAN_COMPLETION_RETRY_CAP
       THEN TakeBackDraft("iterate") /\ UNCHANGED ending
       ELSE TakeBackDraft("complete") /\ ending' = Awaiting("plan_execution")
    /\ UNCHANGED <<Request, iterations, ui, calls, results, ctx, plan, repairFrom, outcome,
                   saved, verdict, executed>>

\* artifact_repair_progress = Complete: a successful mutation since the veto, and a
\* successful check in a later turn than the last one.
SuccessfulTurns(name) ==
    {messages[i].turn : i \in {j \in DOMAIN messages :
        /\ j > repairFrom
        /\ messages[j].role = "tool" /\ messages[j].ok /\ messages[j].calls = <<name>>}}
\* Mutant of RepairComplete: a check in the same batch as the write counts.
RepairCompleteSameTurn ==
    /\ SuccessfulTurns("write_file") # {}
    /\ \E v \in SuccessfulTurns("bash") : \A m \in SuccessfulTurns("write_file") : v >= m
RepairComplete ==
    /\ SuccessfulTurns("write_file") # {}
    /\ \E v \in SuccessfulTurns("bash") : \A m \in SuccessfulTurns("write_file") : v > m

AnswerWithoutRepair ==
    /\ pc = "answer"
    /\ PlanGatePassed
    /\ EnforcePlanCompletion => PlanComplete /\ rx
    /\ repairFrom # 0 /\ ~RepairComplete
    /\ IF UserFinal \/ gate["reminders"] >= ARTIFACT_REPAIR_REMINDER_CAP
       THEN /\ End(ErrorEnding)
            /\ gate' = [gate EXCEPT !["empty"] = 0]
            /\ UNCHANGED <<messages, published, rejected, then>>
       ELSE /\ TakeBackDraft("iterate")
            /\ gate' = [gate EXCEPT !["empty"] = 0, !["reminders"] = @ + 1]
            /\ UNCHANGED ending
    /\ UNCHANGED <<Request, iterations, ui, calls, results, ctx, plan, repairFrom, outcome,
                   saved, verdict, executed>>

AnswerForReview ==
    /\ pc = "answer"
    /\ PlanGatePassed
    /\ EnforcePlanCompletion => PlanComplete /\ rx
    /\ repairFrom = 0 \/ RepairComplete
    /\ gate' = [gate EXCEPT !["empty"] = 0]
    /\ pc' = "review"
    /\ UNCHANGED <<Request, iterations, published, ui, messages, calls, results, ctx, plan,
                   repairFrom, then, ending, outcome, saved, History>>

-----------------------------------------------------------------------------
(* The terminal barrier *)

\* Mutant of ReviewPasses: an unavailable reviewer always lets the answer through.
ReviewPassesUnavailable(v) == v \in {"pass", "unavailable"}
ReviewPasses(v) ==
    v = "pass" \/ (v = "unavailable" /\ gate["veto"] = 0)

Review(v) ==
    /\ pc = "review" /\ rx
    /\ verdict' = v
    /\ LET vetoed == v \in {"veto", "veto_artifact"}
           retry  == vetoed /\ gate["veto"] < VETO_CAP
       IN  /\ gate' = IF ~retry THEN gate
                      ELSE [gate EXCEPT !["veto"] = @ + 1,
                            !["reminders"] = IF v = "veto_artifact" /\ ~UserFinal
                                             THEN 0 ELSE @]
           /\ IF retry /\ ~UserFinal
              THEN /\ TakeBackDraft("iterate")
                   /\ repairFrom' = IF v = "veto_artifact" THEN Len(messages')
                                    ELSE repairFrom
                   /\ UNCHANGED ending
              ELSE /\ End(IF ReviewPasses(v)
                          THEN [kind |-> "natural", awaiting |-> "none"] ELSE ErrorEnding)
                   /\ UNCHANGED <<messages, published, rejected, then, repairFrom>>
    /\ UNCHANGED <<Request, iterations, ui, calls, results, ctx, plan, outcome, saved,
                   executed>>

DeliverDraftReset ==
    /\ pc = "reset" /\ rx
    /\ ui' = [ui EXCEPT ![iterations].text = "none"]
    /\ pc' = then
    /\ then' = "none"
    /\ UNCHANGED <<Request, iterations, published, messages, calls, results, ctx, plan,
                   gate, repairFrom, ending, outcome, saved, History>>

-----------------------------------------------------------------------------
(* Terminal paths *)

\* The approved plan a paused execution goes back to: the current one while it is
\* still approved, else the one the run started with.
RetryablePlan == IF ctx.plan \in {"unfinished", "done"} THEN ctx.plan ELSE "unfinished"

\* PlanUpdate where there is a plan, then Complete: accepted by the receiver, it
\* commits what is published and the plan.
DeliverComplete ==
    /\ pc = "complete" /\ rx
    /\ messages' = CommitPublished
    /\ published' = NoTurn
    /\ plan' = CASE ending.kind = "natural" -> ctx.plan
                 [] ending.awaiting = "plan_execution" -> RetryablePlan
                 [] OTHER -> plan
    /\ outcome' = ending
    /\ pc' = "done"
    /\ UNCHANGED <<Request, iterations, ui, calls, results, ctx, Loop, ending, saved,
                   History>>

\* Mutant of PlanAfterCancel: the plan is taken from the tools' context.
PlanAfterCancelFromContext == ctx.plan
\* The plan a cancelled run leaves: not the context, which may be ahead of the UI.
PlanAfterCancel == plan

\* Mutant of CancelPoint: nobody watches the channel during the review.
CancelPointNotInReview ==
    \/ pc \in {"iterate", "call", "stream", "tools", "results", "reset", "complete"}
    \/ pc = "execute" /\ ~BatchDenied
    \/ pc = "settle" /\ PlanChanged
    \/ pc = "answer" /\ PlanGatePassed /\ EnforcePlanCompletion

\* The points at which the code sends, or selects on tx.closed().
CancelPoint ==
    \/ pc \in {"iterate", "call", "stream", "tools", "results", "review", "reset",
               "complete"}
    \/ pc = "execute" /\ ~BatchDenied
    \/ pc = "settle" /\ PlanChanged
    \/ pc = "answer" /\ PlanGatePassed /\ EnforcePlanCompletion

\* cancel(): keep what was shown, pair its calls, and close the request.
Cancel ==
    /\ ~rx
    /\ CancelPoint
    /\ messages' = Append(CommitCancelled, Boundary)
    /\ published' = NoTurn
    /\ calls' = <<>> /\ results' = <<>>
    /\ plan' = PlanAfterCancel
    /\ outcome' = [kind |-> "cancelled", awaiting |-> "none"]
    /\ pc' = "done"
    /\ UNCHANGED <<Request, iterations, ui, ctx, Loop, ending, saved,
                   History>>

-----------------------------------------------------------------------------
Replies == [length : BOOLEAN, calls : Batches[req.mode] \union {<<>>}]
Verdicts == {"pass", "unavailable", "veto", "veto_artifact"}

RunnerStep ==
    \/ Start \/ CancelBeforePrompt \/ BeginIteration \/ IterationsExhausted
    \/ OpenStream \/ ProviderFails \/ InvalidateCandidate
    \/ \E kind \in Streamed[req.mode] : Publish(kind)
    \/ \E r \in Replies : Finish(r)
    \/ LengthGate
    \/ PublishToolCalls \/ DenyBatch \/ ExecuteToolCalls \/ PublishToolResults
    \/ CheckpointHistory \/ CheckpointFails \/ SettleBatch
    \/ EmptyAnswer \/ AnswerWithoutPlan \/ AnswerWithOpenPlan
    \/ AnswerWithoutRepair \/ AnswerForReview
    \/ \E v \in Verdicts : Review(v)
    \/ DeliverDraftReset \/ DeliverComplete \/ Cancel

Next == RunnerStep \/ ReceiverCloses

\* Every await of the Runner returns: the provider client, tools, reviewer and
\* storage all have timeouts, and closing the channel interrupts them.
Spec == Init /\ [][Next]_vars /\ WF_vars(RunnerStep)

-----------------------------------------------------------------------------
(* Properties *)

\* Types, and the counters within their limits: one segment of the transcript per
\* iteration, iterations within the limit, denials within their cap, and repair start
\* and checkpoint inside the history.
TypeOK ==
    /\ req \in Requests
    /\ pc \in {"start", "iterate", "call", "stream", "length", "tools", "execute",
               "results", "checkpoint", "settle", "answer", "review", "reset",
               "complete", "done"}
    /\ rx \in BOOLEAN
    /\ iterations \in 0 .. req.limit
    /\ published \in [text : {"none", "thinking", "text"}, calls : Batches[req.mode] \union {<<>>}]
    /\ Len(ui) = iterations
    /\ calls \in Batches[req.mode] \union {<<>>}
    /\ ctx \in [plan : Plans, ask : BOOLEAN]
    /\ plan \in Plans
    /\ gate \in [Gates -> Nat]
    /\ gate["denial"] <= PLAN_DENIAL_CAP + 1
    /\ repairFrom \in 0 .. Len(messages)
    /\ saved.len \in 0 .. Len(messages)

Done(kind) == pc = "done" /\ outcome.kind = kind

\* Every tool call in the history is directly followed by one result of its own, on
\* every path out of a batch: the next request to the provider is well formed
\* (commit_cancelled: "synthetic error results keep the tool-call history
\* well-formed").
ToolCallsPaired ==
    \A i \in DOMAIN messages : messages[i].role = "assistant" =>
        \A k \in DOMAIN messages[i].calls :
            /\ i + k <= Len(messages)
            /\ messages[i + k].role = "tool"
            /\ messages[i + k].calls = <<messages[i].calls[k]>>

VisibleTurns ==
    {<<messages[i].turn, messages[i].text, messages[i].calls>> :
        i \in {j \in DOMAIN messages :
                  messages[j].role = "assistant" /\ ~messages[j].hidden}}
ShownTurns ==
    {<<i, ui[i].text, ui[i].calls>> :
        i \in {j \in DOMAIN ui : ui[j].text # "none" \/ ui[j].calls # <<>>}}

\* A delivered run leaves in its history exactly the turns its client saw and was
\* not told to discard; a cancelled one never more than the client saw.
TranscriptAgrees ==
    pc = "done" => /\ VisibleTurns \subseteq ShownTurns
                   /\ outcome.kind # "cancelled" => VisibleTurns = ShownTurns

\* A draft that a gate took back never becomes a visible answer, even when the
\* DraftReset that announces it cannot be delivered.
RejectedStaysHidden ==
    \A i \in DOMAIN messages :
        messages[i].role = "assistant" /\ messages[i].turn \in rejected
            => messages[i].hidden

\* The transcript is the one the client saw, less what it was told to discard.
HistoryIsTheDialogue == TranscriptAgrees /\ RejectedStaysHidden

\* A natural completion passed the terminal barrier: it was approved, or no reviewer
\* ever objected; and an artifact repair it was asked for really happened.
ReviewFailsClosed ==
    Done("natural") =>
        /\ verdict = "pass" \/ (verdict = "unavailable" /\ gate["veto"] = 0)
        /\ repairFrom # 0 => RepairComplete

\* An execution run ends naturally only with every step of its plan done, and a
\* planning run never ends naturally at all.
NaturalFinishesPlan ==
    Done("natural") => ~PlanMode /\ (EnforcePlanCompletion => plan = "done")

\* Before approval nothing but the two planning tools ever runs, whatever the
\* provider puts into a batch.
NothingRunsBeforeApproval ==
    PlanMode => \A e \in executed : IsPreapprovalPlanTool(e[2])

\* The durable plan is never ahead of the history: whatever it became, the history
\* holds the successful result that made it so (no ghost mutation of a tool whose
\* result the client did not get).
PlanBackedByHistory ==
    LET succeeded(name) == \E i \in DOMAIN messages :
            messages[i].role = "tool" /\ messages[i].ok /\ messages[i].calls = <<name>>
    IN  /\ plan = "unapproved" => succeeded("generate_plan")
        /\ plan = "done" => succeeded("update_step_status")

\* A pause is one the user can act on, and the last checkpoint already says the
\* same: a crash between it and the terminal transaction loses no approval request
\* and no question.
AwaitingIsActionable ==
    Done("awaiting") =>
        /\ outcome.awaiting = "plan_approval" =>
              /\ plan = "unapproved" /\ saved.plan = plan /\ ~ctx.ask
              /\ saved.status = "awaiting_plan_approval" /\ saved.len = Len(messages)
        /\ outcome.awaiting = "user_response" =>
              saved.status = "awaiting_user_response" /\ saved.len = Len(messages)
        /\ outcome.awaiting = "plan_execution" => plan = "unfinished"

\* What the plan says is so, in memory, in the history and for the user.
PlanIsHonest == NaturalFinishesPlan /\ PlanBackedByHistory /\ AwaitingIsActionable

\* Every run ends: each way round the loop spends an iteration, and every wait ends
\* with an answer or with the closed channel.
RunTerminates == <>(pc = "done")

\* What the code says of an approved plan: "Approval is durable and retryable".  An
\* execution run that ended without finishing leaves a plan that can be executed
\* again.
ApprovalSurvivesRun ==
    EnforcePlanCompletion /\ pc = "done" => plan \in {"unfinished", "done"}
=============================================================================
