---------------------------- MODULE MCTranscript -----------------------------
(***************************************************************************)
(* A session's transcript, in storage and before the provider: the session *)
(* is written, restored and checked, and its log is folded to fit a        *)
(* window.  Folds never change the log that is stored, so that a behaviour *)
(* is about the one of the two in focus.                                   *)
(***************************************************************************)
EXTENDS SessionDurability, Compaction, TLC

VARIABLE focus

sessionVars == <<memoryVars, runVars, storeVars, historyVars>>

Message(role, w, short) == [role |-> role, w |-> w, short |-> short]
SomePrompts == {Message("user", w, w) : w \in {1, 4}}
SomeTurns == {<<Message("text", 1, 1)>>, <<Message("text", 3, 3)>>,
              <<Message("call", 1, 1), Message("tool", 5, 2)>>}

TranscriptInit ==
    /\ focus \in {"session", "rolling"}
    /\ Init /\ CompactInit

TranscriptNext ==
    \/ focus = "session" /\ Next /\ UNCHANGED <<focus, compactVars>>
    \/ focus = "rolling" /\ CompactNext /\ UNCHANGED <<focus, sessionVars>>

\* Run ids are opaque: nothing compares or orders them.
Symmetry == Permutations(Runs)

(* Properties: those of SessionDurability, and CompactionIsSound of Compaction. *)
=============================================================================
