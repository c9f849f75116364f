SPECIFICATION Spec
CONSTANTS
    Modes = {"execute"}
    Batches <- BatchesOf
    Streamed <- StreamedIn
    Limits <- ShortRun
    EMPTY_RETRY_CAP = 1
    LENGTH_FINISH_HARD_CAP = 2
    PLAN_DENIAL_CAP = 1
    PLAN_COMPLETION_RETRY_CAP = 1
    VETO_CAP = 1
    ARTIFACT_REPAIR_REMINDER_CAP = 1
CHECK_DEADLOCK FALSE
INVARIANT ApprovalSurvivesRun
