--------------------------- MODULE WorkspaceTools ---------------------------
(***************************************************************************)
(* The tools that touch a workspace, around the lock that fences them:     *)
(* bash and python hold its shared side while their process group lives,   *)
(* write, edit, compile and the user's delete hold the exclusive side.     *)
(* File work runs in the blocking pool, where a job outlives the call that *)
(* awaited it: a timeout, a stop or a lost client drops the call, and with *)
(* it the guard, but never the job.                                        *)
(***************************************************************************)
EXTENDS Naturals, Sequences, FiniteSets

CONSTANTS Calls,     \* tool calls of the runs, and requests of the client
          NoCall

VARIABLES call,      \* per call, how far it is
          waiting,   \* the FIFO of the lock
          inside,    \* the calls that hold a guard
          pool,      \* blocking jobs that have not run yet
          file,      \* the one file of interest: the calls it shows
          lost,      \* <<v, e>>: edit e has overwritten v without having read it
          current    \* the call the run awaits: a batch is executed in order

toolVars == <<call, waiting, inside, pool, file, lost, current>>

Tools == {"shell", "write", "edit", "compile"}
NoProcess == [leader |-> "none", child |-> "none"]
Empty == [there |-> TRUE, shows |-> {}]
Unborn == [kind |-> "none", pc |-> "unused", seen |-> Empty, dropped |-> FALSE,
           proc |-> NoProcess]

ToolInit ==
    /\ call = [c \in Calls |-> Unborn]
    /\ waiting = <<>> /\ inside = {} /\ pool = {} /\ lost = {}
    /\ file = Empty
    /\ current = NoCall

Exclusive(c) == call[c].kind # "shell"
ProcessAlive(c) == call[c].proc.leader = "running" \/ call[c].proc.child # "none"
Unfinished(c) == call[c].pc \notin {"unused", "done"}

\* killpg: the child and its background descendants form one group.  The
\* runtime's own kill_on_drop would only reach the child.
KilledLeaderOnly(p) == [p EXCEPT !.leader = "none"]
Killed(p) == NoProcess

\* The call returns, or its future is dropped: the group dies, then the guard
\* is released or the place in the queue given up.
Leave(c) ==
    /\ waiting' = SelectSeq(waiting, LAMBDA w : w # c)
    /\ inside' = inside \ {c}

Finish(c) ==
    /\ call' = [call EXCEPT ![c].pc = "done", ![c].proc = Killed(@)]
    /\ Leave(c)
    /\ current' = IF current = c THEN NoCall ELSE current

Dropped(c) ==
    /\ call' = [call EXCEPT ![c].pc = "done", ![c].dropped = TRUE,
                            ![c].proc = Killed(@)]
    /\ Leave(c)

-----------------------------------------------------------------------------
Arrive(c, kind) ==
    /\ call[c] = Unborn
    /\ call' = [call EXCEPT ![c].kind = kind, ![c].pc = "waiting"]
    /\ waiting' = Append(waiting, c)
    /\ UNCHANGED <<inside, pool, file, lost>>

\* ToolRouter::execute_tool_calls: the next call once the last has a result.
BeginCall(c, kind) == current = NoCall /\ current' = c /\ Arrive(c, kind)

\* workspace_files.rs delete_file, from the client at any time.
RequestDelete(c) == Arrive(c, "delete") /\ UNCHANGED current

MayEnterUnlessDeleting(c) ==
    call[c].kind = "delete" \/ \A d \in inside : ~Exclusive(c) /\ ~Exclusive(d)
MayEnter(c) == \A d \in inside : ~Exclusive(c) /\ ~Exclusive(d)

Submit(c, what, shows) == pool' = pool \cup {[of |-> c, what |-> what, shows |-> shows]}

\* The head of the fair lock gets its guard, and does what precedes an await:
\* it submits its job or spawns its process.  compile_latex opens the source
\* first and clears its own output.
Enter(c) ==
    /\ call[c].pc = "waiting" /\ Head(waiting) = c /\ MayEnter(c)
    /\ IF call[c].kind = "compile" /\ ~file.there
       THEN Finish(c) /\ UNCHANGED <<pool, file, lost>>
       ELSE /\ waiting' = Tail(waiting)
            /\ inside' = inside \cup {c}
            /\ IF call[c].kind \in {"shell", "compile"}
               THEN /\ call' = [call EXCEPT ![c].pc = "process", ![c].seen = file,
                                            ![c].proc.leader = "running"]
                    /\ UNCHANGED pool
               ELSE /\ call' = [call EXCEPT ![c].pc = "pool"]
                    /\ CASE call[c].kind = "edit"   -> Submit(c, "read", {})
                         [] call[c].kind = "write"  -> Submit(c, "write", {c})
                         [] call[c].kind = "delete" -> Submit(c, "remove", {c})
            /\ UNCHANGED <<file, lost, current>>

\* A blocking job runs, whether or not its call still awaits it.  A rename puts
\* the whole new content in place.
PoolRuns(j) ==
    /\ pool' = pool \ {j}
    /\ call' = [call EXCEPT
         ![j.of].pc = IF @ # "pool" THEN @ ELSE IF j.what = "read" THEN "read" ELSE "answered",
         ![j.of].seen = IF j.what = "read" THEN file ELSE @]
    /\ CASE j.what = "read"   -> UNCHANGED <<file, lost>>
         [] j.what = "remove" -> /\ file' = IF file.there
                                            THEN [there |-> FALSE, shows |-> j.shows]
                                            ELSE file
                                 /\ UNCHANGED lost
         [] j.what = "write"  -> /\ file' = [there |-> TRUE, shows |-> j.shows]
                                 /\ lost' = IF call[j.of].kind = "edit"
                                            THEN lost \cup ((file.shows \ j.shows) \X {j.of})
                                            ELSE lost
    /\ UNCHANGED <<waiting, inside, current>>

\* The edit decides on what it has read: old_string is found once, or not.
EditDecides(c) ==
    /\ call[c].pc = "read" /\ call[c].seen.there
    /\ call' = [call EXCEPT ![c].pc = "pool"]
    /\ Submit(c, "write", call[c].seen.shows \cup {c})
    /\ UNCHANGED <<waiting, inside, file, lost, current>>

Answers(c) ==
    /\ call[c].pc \in {"read", "answered"}
    /\ Finish(c) /\ UNCHANGED <<pool, file, lost>>

-----------------------------------------------------------------------------
(* The process group of a call (process.rs run_bounded). *)

\* A script writes; what tectonic writes is another file.
ProcessWrites(c) ==
    /\ ProcessAlive(c) /\ call[c].kind = "shell"
    /\ file' = [there |-> TRUE, shows |-> file.shows \cup {c}]
    /\ UNCHANGED <<call, waiting, inside, pool, lost, current>>

\* The child exits; a background descendant may have been left, with the pipes
\* it inherited or without.
ChildExits(c, left) ==
    /\ call[c].pc = "process" /\ call[c].proc.leader = "running"
    /\ call' = [call EXCEPT ![c].proc = [leader |-> "exited", child |-> left]]
    /\ UNCHANGED <<waiting, inside, pool, file, lost, current>>

DescendantEnds(c) ==
    /\ call[c].proc.child # "none"
    /\ call' = [call EXCEPT ![c].proc.child = "none"]
    /\ UNCHANGED <<waiting, inside, pool, file, lost, current>>

\* Both pipes are drained: the output is returned and the group torn down.
ProcessReturns(c) ==
    /\ call[c].pc = "process" /\ call[c].proc.leader = "exited"
    /\ call[c].proc.child # "piped"
    /\ Finish(c) /\ UNCHANGED <<pool, file, lost>>

\* The deadline, or too much output: the tree is terminated.
ProcessIsTerminated(c) ==
    /\ call[c].pc = "process" /\ ProcessAlive(c)
    /\ Finish(c) /\ UNCHANGED <<pool, file, lost>>

-----------------------------------------------------------------------------
\* The router's timeout around the whole call, its wait for the lock included.
RouterTimesOut ==
    /\ current # NoCall /\ Dropped(current) /\ current' = NoCall
    /\ UNCHANGED <<pool, file, lost>>

\* A stop: the batch is dropped at once, its task is only told to abort.
RunStops ==
    /\ current # NoCall /\ current' = NoCall
    /\ UNCHANGED <<call, waiting, inside, pool, file, lost>>

AbortedTaskIsDropped(c) ==
    /\ Unfinished(c) /\ call[c].kind \in Tools /\ current # c
    /\ Dropped(c) /\ UNCHANGED <<pool, file, lost, current>>

ClientDisconnects(c) ==
    /\ Unfinished(c) /\ call[c].kind = "delete"
    /\ Dropped(c) /\ UNCHANGED <<pool, file, lost, current>>

\* A task that was told to abort is not polled again.
Polled(c) == current = c \/ call[c].kind = "delete"

ToolNext ==
    \/ RouterTimesOut \/ RunStops
    \/ \E j \in pool : PoolRuns(j)
    \/ \E c \in Calls :
          \/ RequestDelete(c) \/ \E kind \in Tools : BeginCall(c, kind)
          \/ ProcessWrites(c) \/ DescendantEnds(c)
          \/ \E left \in {"none", "quiet", "piped"} : ChildExits(c, left)
          \/ AbortedTaskIsDropped(c) \/ ClientDisconnects(c)
          \/ Polled(c) /\ (\/ Enter(c) \/ EditDecides(c) \/ Answers(c)
                           \/ ProcessReturns(c) \/ ProcessIsTerminated(c))

ToolSpec == ToolInit /\ [][ToolNext]_toolVars

-----------------------------------------------------------------------------
\* No process outlives its call, and none is alive while another call is inside
\* a "validation-critical" section (context.rs:276, process.rs:34-37).
ProcessesAreFenced ==
    \A c \in Calls : ProcessAlive(c) =>
        /\ c \in inside
        /\ \A d \in inside : Exclusive(c) \/ Exclusive(d) => c = d

\* An edit overwrites what it has not read, and a compilation works on a source
\* it has not checked, only when a call was cut short: its job is still to run
\* when its guard is gone (files.rs:158-160, compile.rs:47-49).  A job that lands
\* late may bring back what it had read, so that an edit can lose an older call's
\* text again: but the late call's own text with it.
Cut(c) == call[c].dropped
OnlyCutCallsInterfere ==
    /\ \A p \in lost : Cut(p[2]) \/ \E q \in lost : q[2] = p[2] /\ Cut(q[1])
    /\ \A c \in Calls : call[c].kind = "compile" /\ ProcessAlive(c) /\ c \in inside =>
          \/ file = call[c].seen
          \/ \E d \in Calls : Cut(d) /\ d \in file.shows

\* The workspace lock fences processes and uncut calls from each other (router.rs).
WorkspaceIsFenced == ProcessesAreFenced /\ OnlyCutCallsInterfere

\* The guard "prevents application-controlled Bash/Python/file calls from
\* turning edit into a lost update" (files.rs:158-160).  An edit that is
\* stopped while its write is in the pool releases the guard first.
NoLostUpdate == lost = {}
=============================================================================
