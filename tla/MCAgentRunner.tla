--------------------------- MODULE MCAgentRunner ---------------------------
(* Instances of AgentRunner for TLC. *)
EXTENDS AgentRunner

\* Each batch is there for a gate: planning alone, with a question, and mixed with
\* work; a status update; an exclusive tool in company.
PlanBatches ==
    {<<"generate_plan">>, <<"ask_user">>, <<"generate_plan", "ask_user">>,
     <<"generate_plan", "bash">>, <<"update_step_status">>, <<"exclusive", "bash">>}

\* A write checked in its own batch, and a check in a batch of its own.
WorkBatches == {<<"write_file", "bash">>, <<"bash">>}

\* Planning and execution meet every gate of the plan, ordinary runs every gate of
\* the review, which needs more iterations.
BatchesOf == [m \in Modes |-> IF m = "ordinary" THEN WorkBatches ELSE PlanBatches]
StreamedIn == [m \in Modes |-> IF m = "ordinary" THEN {"text"} ELSE {"thinking", "text"}]
LimitsOf == [m \in Modes |-> IF m = "ordinary" THEN {4} ELSE {1, 3}]
ShortRun == [m \in Modes |-> {2}]
=============================================================================
