---------------------------- MODULE MCMemoryJobs ----------------------------
(***************************************************************************)
(* What outlives the runs, checked side by side: the claims of the memory, *)
(* the queued prompts of the bots, the files of a workspace, the rows and  *)
(* directories of projects, bots and sessions, the launches of the         *)
(* application.  None reads what another writes, so that a behaviour is    *)
(* about one of them.                                                      *)
(***************************************************************************)
EXTENDS BotJobs, ProjectRows, AppLaunch, WorkspaceTools, MemoryClaims, TLC

CONSTANTS b1, b2

VARIABLE focus

\* What runs and users come up with: the same text with and without risk, and a doubtful one.
ThreeItems == {[body |-> b1, risky |-> TRUE, conf |-> "high"],
               [body |-> b1, risky |-> FALSE, conf |-> "high"],
               [body |-> b2, risky |-> FALSE, conf |-> "low"]}

TablesInit ==
    /\ focus \in {"memory", "bots", "files", "rows", "launches"}
    /\ MemoryInit /\ BotInit /\ ToolInit /\ RowInit
    /\ LaunchInit

TablesNext ==
    \/ /\ focus = "memory" /\ MemoryNext
       /\ UNCHANGED <<focus, botVars, toolVars, rowVars, launchVars>>
    \/ /\ focus = "bots" /\ BotNext
       /\ UNCHANGED <<focus, memoryVars, toolVars, rowVars, launchVars>>
    \/ /\ focus = "files" /\ ToolNext
       /\ UNCHANGED <<focus, memoryVars, botVars, rowVars, launchVars>>
    \/ /\ focus = "rows" /\ RowNext
       /\ UNCHANGED <<focus, memoryVars, botVars, toolVars, launchVars>>
    \/ /\ focus = "launches" /\ LaunchNext
       /\ UNCHANGED <<focus, memoryVars, botVars, toolVars, rowVars>>

Symmetry == Permutations(Jobs) \union Permutations(JobRuns)

(* Properties: MemoryIsGoverned of MemoryClaims, BotQueueIsSound of BotJobs, WorkspaceIsFenced
   of WorkspaceTools, RowsAreSound of ProjectRows, LaunchesAreClean of AppLaunch, and the
   disagreements RecallStaysInProject and NoLiveRunIsRepaired. *)
=============================================================================
