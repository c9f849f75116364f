--------------------------- MODULE MCRunLifecycle ---------------------------
(* Instances of RunLifecycle for TLC. *)
EXTENDS RunLifecycle

CONSTANTS r1, r2, s1, c1, c2

\* Two runs of one session: every race of a run with its successor.
TwoRuns == [r \in {r1, r2} |-> s1]

\* bound: of two streams and two Stops, three arrive.  Each behaviour has two
\* streams and a Stop, or one stream and two Stops; the Stops are
\* interchangeable, so that c1 is the first.
REQUESTS == 3
Arrived == Cardinality({r \in Streams : handler[r] # "idle"})
              + Cardinality({c \in Stops : stop[c].pc # "idle"})
InOrder == stop[c1].pc = "idle" => stop'[c2].pc = "idle"

BoundedSpec ==
    Init /\ [][Next /\ Arrived' <= REQUESTS /\ InOrder]_vars /\ Fairness
=============================================================================
