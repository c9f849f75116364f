--------------------------- MODULE MCSessionCache ---------------------------
(* The two disagreements of the session cache for TLC, on their smallest instances. *)
EXTENDS SessionCache

CONSTANTS s1, s2, q1, q2, q3, q4

\* Two streams and a delete of one session, a read of another.
Kinds ==
    [q \in Requests |->
        CASE q \in {q1, q2} -> "stream" [] q = q3 -> "delete" [] q = q4 -> "read"]

OtherSession == [q \in Requests |-> IF q = q4 THEN s2 ELSE s1]
=============================================================================
