----------------------------- MODULE MCRequests -----------------------------
(***************************************************************************)
(* The two ends of the requests for a session, checked side by side: the   *)
(* client's prompt queue and the server's cache of sessions.  Neither      *)
(* reads what the other writes, so that a behaviour is about one of them.  *)
(* The queue has three prompts, and the bound on runs leaves room for one  *)
(* run too many; the cache has two streams and a delete of one session,    *)
(* and with room for one session the read of another evicts the first,     *)
(* unless the creation of that other session is late.                      *)
(***************************************************************************)
EXTENDS PromptQueue, SessionCache, TLC

CONSTANTS p1, p2, p3, s1, s2, q1, q2, q3, q4, q5

VARIABLE focus

Kinds ==
    [q \in Requests |->
        CASE q \in {q1, q2} -> "stream" [] q = q3 -> "delete"
          [] q = q4 -> "read" [] q = q5 -> "create"]

TwoSessions == [q \in Requests |-> IF q \in {q4, q5} THEN s2 ELSE s1]

RequestsInit == focus \in {"queue", "cache"} /\ Init /\ CacheInit

RequestsNext ==
    \/ focus = "queue" /\ Next /\ UNCHANGED <<focus, cacheVars>>
    \/ focus = "cache" /\ CacheNext /\ UNCHANGED <<focus, vars>>

\* Each keeps its own fairness; out of focus nothing of it is ever enabled.
RequestsSpec ==
    /\ RequestsInit /\ [][RequestsNext]_<<focus, vars, cacheVars>>
    /\ WF_vars(Settles) /\ Fairness

(* Properties: EveryPromptOnce, LeaseDiscipline and StopSettles of PromptQueue,
   OneMutexUnlessDisplaced, DeletionIsClean and EveryRequestIsAnswered of SessionCache. *)
=============================================================================
