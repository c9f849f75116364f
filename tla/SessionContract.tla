-------------------------- MODULE SessionContract --------------------------
(***************************************************************************)
(* What the server promises the runs of a session, whatever its tasks and  *)
(* locks look like: one run owns a session at a time and each run once; it *)
(* stores its result while it owns the session, gives the session back,    *)
(* ends, and only then is the client told, once, what storage holds or     *)
(* that nothing could be stored.                                           *)
(***************************************************************************)
CONSTANTS Runs, Sessions, SessionOf, NoRun, Outcomes, Nothing, Failure

VARIABLES owner,   \* of each session
          begun, ended,
          result,  \* what storage holds of each run
          told     \* what the client of each run was told

contractVars == <<owner, begun, ended, result, told>>

ContractInit ==
    /\ owner = [s \in Sessions |-> NoRun]
    /\ begun = {} /\ ended = {}
    /\ result = [r \in Runs |-> Nothing]
    /\ told = [r \in Runs |-> Nothing]

Owns(r) == owner[SessionOf[r]] = r

Begin(r) ==
    /\ r \notin begun /\ owner[SessionOf[r]] = NoRun
    /\ owner' = [owner EXCEPT ![SessionOf[r]] = r]
    /\ begun' = begun \union {r}
    /\ UNCHANGED <<ended, result, told>>

\* The session is somebody else's: the request is refused for good.
Refuse(r) ==
    /\ r \notin begun /\ owner[SessionOf[r]] # NoRun
    /\ begun' = begun \union {r} /\ ended' = ended \union {r}
    /\ UNCHANGED <<owner, result, told>>

Store(r, k) ==
    /\ Owns(r) /\ result[r] = Nothing
    /\ result' = [result EXCEPT ![r] = k]
    /\ UNCHANGED <<owner, begun, ended, told>>

GiveBack(r) ==
    /\ Owns(r)
    /\ owner' = [owner EXCEPT ![SessionOf[r]] = NoRun]
    /\ UNCHANGED <<begun, ended, result, told>>

End(r) ==
    /\ r \in begun \ ended /\ ~Owns(r)
    /\ ended' = ended \union {r}
    /\ UNCHANGED <<owner, begun, result, told>>

Tell(r, e) ==
    /\ r \in ended /\ told[r] = Nothing
    /\ e = Failure \/ e = result[r]
    /\ told' = [told EXCEPT ![r] = e]
    /\ UNCHANGED <<owner, begun, ended, result>>

ContractNext ==
    \E r \in Runs :
        \/ Begin(r) \/ Refuse(r) \/ GiveBack(r) \/ End(r)
        \/ \E k \in Outcomes \union {"cancelled"} : Store(r, k)
        \/ \E e \in Outcomes \union {Failure} : Tell(r, e)

ContractSpec == ContractInit /\ [][ContractNext]_contractVars
=============================================================================
