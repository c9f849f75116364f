------------------------------ MODULE AppLaunch ------------------------------
(***************************************************************************)
(* Launches of the application on one data directory: the desktop shell    *)
(* that probes a port, spawns the backend, waits for its health and kills  *)
(* it again (src-tauri/main.rs), and the backend that migrates the         *)
(* database, binds the port and watches its parent (dss-bin/main.rs,       *)
(* state.rs, schema.rs).  Nothing keeps a second launch out, and a backend *)
(* may also be served by hand.                                             *)
(***************************************************************************)
EXTENDS Integers, FiniteSets

CONSTANTS Launches,
          PORTS   \* bound: ports probed, from DEFAULT_PORT = 1

VARIABLES shell,    \* per launch, how far its shell is
          backend,  \* per launch, its backend process
          port,     \* per launch, the port it was given
          work,     \* per launch, the run its backend executes
          settled   \* history: the backends that were gone when this one migrated

launchVars == <<shell, backend, port, work, settled>>

NoWork == [pc |-> "none", row |-> "none"]

LaunchInit ==
    /\ shell = [l \in Launches |-> "unborn"]
    /\ backend = [l \in Launches |-> "none"]
    /\ port = [l \in Launches |-> 0]
    /\ work = [l \in Launches |-> NoWork]
    /\ settled = [l \in Launches |-> {}]

Alive(l) == backend[l] \notin {"none", "gone"}
Serving(l) == backend[l] = "serving"
\* A graceful shutdown gives the port up before it waits for its connections.
Bound == {port[l] : l \in {m \in Launches : Serving(m)}}
LiveRun(l) == work[l].pc = "live" /\ backend[l] \in {"serving", "draining"}

-----------------------------------------------------------------------------
(* The shell, while its window is set up. *)

\* find_free_port: the first port that neither a backend nor another program
\* holds.  The probe is dropped at once, so that the port may be gone when the
\* backend wants it.
Probe(l) ==
    /\ shell[l] = "unborn"
    /\ \E others \in SUBSET (1 .. PORTS) :
          LET free == (1 .. PORTS) \ (Bound \cup others) IN
          \/ /\ free = {}
             /\ shell' = [shell EXCEPT ![l] = "failed"] /\ UNCHANGED port
          \/ /\ free # {}
             /\ shell' = [shell EXCEPT ![l] = "probed"]
             /\ port' = [port EXCEPT ![l] = CHOOSE p \in free : \A q \in free : p <= q]
    /\ UNCHANGED <<backend, work, settled>>

Spawn(l) ==
    /\ shell[l] = "probed"
    /\ \/ /\ shell' = [shell EXCEPT ![l] = "failed"] \* no binary, or no process
          /\ UNCHANGED backend
       \/ /\ shell' = [shell EXCEPT ![l] = "inspect"]
          /\ backend' = [backend EXCEPT ![l] = "starting"]
    /\ UNCHANGED <<port, work, settled>>

\* `dss-backend serve`, without a parent to watch: README.md:53.
ServeByHand(l) ==
    /\ shell[l] = "unborn"
    /\ shell' = [shell EXCEPT ![l] = "terminal"]
    /\ backend' = [backend EXCEPT ![l] = "starting"]
    /\ port' = [port EXCEPT ![l] = 1]
    /\ UNCHANGED <<work, settled>>

\* wait_for_backend looks at the child first and asks the port second.
InspectChild(l) ==
    /\ shell[l] = "inspect"
    /\ shell' = [shell EXCEPT ![l] = IF Alive(l) THEN "ask" ELSE "failed"]
    /\ UNCHANGED <<backend, port, work, settled>>

\* Whoever listens on the port answers: the health endpoint wants no token.
HealthAnswered(l) == port[l] \in Bound

AskHealth(l) ==
    /\ shell[l] = "ask"
    /\ \/ HealthAnswered(l) /\ shell' = [shell EXCEPT ![l] = "ready"]
       \/ shell' = [shell EXCEPT ![l] = "inspect"]  \* no answer in time
       \/ shell' = [shell EXCEPT ![l] = "failed"]   \* BACKEND_STARTUP_TIMEOUT
    /\ UNCHANGED <<backend, port, work, settled>>

-----------------------------------------------------------------------------
(* The shell, when its window closes. *)

\* A child that did not become healthy is kept too, and killed like any other.
ManagedIfReady(l) == Alive(l) /\ shell[l] = "ready"
Managed(l) == Alive(l)

\* CloseRequested, or a window that cannot be built: SIGTERM to the group.  Only
\* a backend that serves has a handler for it.
CloseWindow(l) ==
    /\ shell[l] \in {"ready", "failed"}
    /\ IF Managed(l)
       THEN /\ shell' = [shell EXCEPT ![l] = "closing"]
            /\ backend' = [backend EXCEPT ![l] = IF Serving(l) THEN "draining" ELSE "gone"]
       ELSE shell' = [shell EXCEPT ![l] = "closed"] /\ UNCHANGED backend
    /\ UNCHANGED <<port, work, settled>>

\* kill_backend_child returns when the child is gone, or after
\* BACKEND_SHUTDOWN_TIMEOUT kills what is left of the group.
AfterGraceLeft(l) == backend[l]
AfterGrace(l) == "gone"

ChildEnds(l) ==
    /\ shell[l] = "closing"
    /\ shell' = [shell EXCEPT ![l] = "closed"]
    /\ backend' = [backend EXCEPT ![l] = IF Alive(l) THEN AfterGrace(l) ELSE @]
    /\ UNCHANGED <<port, work, settled>>

\* The shell is killed, or quits without closing its window.
ShellDies(l) ==
    /\ shell[l] \notin {"unborn", "terminal", "closed", "killed"}
    /\ shell' = [shell EXCEPT ![l] = "killed"]
    /\ UNCHANGED <<backend, port, work, settled>>

-----------------------------------------------------------------------------
(* The backend. *)

RepairedNever(row) == row

\* apply_migrations: "No run can still be active while startup migrations
\* execute", so that every run in progress was interrupted.
Repaired(row) == IF row = "processing" THEN "interrupted" ELSE row

Migrate(l) ==
    /\ backend[l] = "starting"
    /\ backend' = [backend EXCEPT ![l] = "migrated"]
    /\ work' = [m \in Launches |-> [work[m] EXCEPT !.row = Repaired(@)]]
    /\ settled' = [settled EXCEPT ![l] = {m \in Launches : backend[m] = "gone"}]
    /\ UNCHANGED <<shell, port>>

\* The listener is bound last, after the database, the skills and the MCP servers.
Bind(l) ==
    /\ backend[l] = "migrated"
    /\ backend' = [backend EXCEPT ![l] = IF port[l] \in Bound THEN "gone" ELSE "serving"]
    /\ UNCHANGED <<shell, port, work, settled>>

\* Every connection has ended.
Drain(l) ==
    /\ backend[l] = "draining"
    /\ backend' = [backend EXCEPT ![l] = "gone"]
    /\ UNCHANGED <<shell, port, work, settled>>

\* wait_for_parent_exit, polled while the backend serves or drains.
ParentExits(l) ==
    /\ backend[l] \in {"serving", "draining"} /\ shell[l] \in {"killed", "closed"}
    /\ backend' = [backend EXCEPT ![l] = "gone"]
    /\ UNCHANGED <<shell, port, work, settled>>

\* A failed migration, a panic, a signal.
Crash(l) ==
    /\ Alive(l)
    /\ backend' = [backend EXCEPT ![l] = "gone"]
    /\ UNCHANGED <<shell, port, work, settled>>

-----------------------------------------------------------------------------
(* One run of each backend, as its row of session_runs sees it. *)

StartRun(l) ==
    /\ Serving(l) /\ shell[l] \in {"ready", "terminal"} /\ work[l] = NoWork
    /\ work' = [work EXCEPT ![l].pc = "live"]
    /\ UNCHANGED <<shell, backend, port, settled>>

\* append_history_checkpoint and persist_run refuse a row that is terminal, and
\* the run fails.
Terminal(l) == work[l].row \notin {"none", "processing"}

Checkpoint(l) ==
    /\ LiveRun(l)
    /\ work' = [work EXCEPT ![l] = IF Terminal(l) THEN [@ EXCEPT !.pc = "refused"]
                                                  ELSE [@ EXCEPT !.row = "processing"]]
    /\ UNCHANGED <<shell, backend, port, settled>>

PersistRun(l) ==
    /\ LiveRun(l)
    /\ work' = [work EXCEPT ![l] = IF Terminal(l) THEN [@ EXCEPT !.pc = "refused"]
                                                  ELSE [pc |-> "stored", row |-> "completed"]]
    /\ UNCHANGED <<shell, backend, port, settled>>

LaunchNext ==
    \E l \in Launches :
        \/ Probe(l) \/ Spawn(l) \/ ServeByHand(l) \/ InspectChild(l) \/ AskHealth(l)
        \/ CloseWindow(l) \/ ChildEnds(l) \/ ShellDies(l)
        \/ Migrate(l) \/ Bind(l) \/ Drain(l) \/ ParentExits(l) \/ Crash(l)
        \/ StartRun(l) \/ Checkpoint(l) \/ PersistRun(l)

LaunchSpec == LaunchInit /\ [][LaunchNext]_launchVars

-----------------------------------------------------------------------------
\* A window that closed, healthy or not, leaves no backend behind that would
\* hold the port and go on working (kill_backend_child).
NothingStaysBehind ==
    \A l \in Launches : shell[l] = "closed" => ~Alive(l)

\* Once a backend has migrated, no run of a process that was gone by then is
\* still called processing (schema.rs:243).
TheDeadAreSettled ==
    \A l \in Launches : \A m \in settled[l] : work[m].row # "processing"

\* A launch leaves nothing behind, and finds what earlier ones left (main.rs,
\* schema.rs).
LaunchesAreClean == NothingStaysBehind /\ TheDeadAreSettled

\* schema.rs:243: "No run can still be active while startup migrations execute."
\* A second launch, even one that cannot bind its port, migrates the database
\* under the runs of the first.
NoLiveRunIsRepaired ==
    \A l \in Launches : LiveRun(l) => work[l].row # "interrupted"

\* A shell calls its backend ready when that backend answers: two shells that
\* probed the same port take the answer of whichever backend came first.
ReadyIsItsOwn ==
    [][\A l \in Launches : shell[l] = "ask" /\ shell'[l] = "ready" => Serving(l)]_launchVars
=============================================================================
