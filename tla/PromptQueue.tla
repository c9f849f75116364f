----------------------------- MODULE PromptQueue -----------------------------
(***************************************************************************)
(* The client's prompt queue for one session and the three coordinators    *)
(* that decide what runs next: the restore after a terminal event, Stop,   *)
(* and the steer that cancels the run in favour of a queued prompt.        *)
(*                                                                         *)
(* A callback of the browser is one step; an await ends it.  The backend   *)
(* is reduced to what RunLifecycle establishes: a run holds the session    *)
(* from its acceptance until it is stored, its terminal event and the      *)
(* answer to its Stop come after that, and a Stop that finds no registered *)
(* run is answered at once.  Answers, events and failures of the network   *)
(* arrive in any order.                                                    *)
(***************************************************************************)
EXTENDS Naturals, Sequences, SequencesExt, FiniteSets

CONSTANTS
    Prompts,
    NoRef,
    REVISIONS,      \* bound: edits of a prompt
    RUNS            \* bound: runs launched; one more than there are prompts

Refs == [id : Prompts, rev : 1 .. REVISIONS]

ASSUME QueueAssumption ==
    /\ IsFiniteSet(Prompts) /\ NoRef \notin Refs
    /\ REVISIONS \in Nat \ {0} /\ RUNS \in Nat \ {0}

VARIABLES
    items,      \* queued prompts: id and revision
    steering,   \* the item reserved by a steer
    stream,     \* StreamBuffer: run, running, stopping
    gate,       \* the lease of the session and where its coordinator is
    loads,      \* GET /sessions/{sid} in flight: the coordinator's and the page's
    back, sse,  \* each run in the backend, and what its stream has for the client
    \* history
    used, deleted,  \* prompts the user sent, and deleted from the queue
    launched,       \* prompts in the order of their runs
    known,          \* ended runs whose stored outcome the transcript on screen shows
    dirty           \* a lease launched over an active or unrestored run

vars == <<items, steering, stream, gate, loads, back, sse, used, deleted, launched,
          known, dirty>>

Runs == 1 .. RUNS
NoStream == [run |-> 0, running |-> FALSE, stopping |-> FALSE]
NoGate == [purpose |-> "none", run |-> 0, pc |-> "none", drain |-> FALSE,
           cancelled |-> FALSE]
NoLoad == [busy |-> FALSE, current |-> FALSE, served |-> FALSE, snapshot |-> {}, epoch |-> 0]

InQueue(ref) == \E i \in DOMAIN items : items[i] = ref
Index(ref) == CHOOSE i \in DOMAIN items : items[i] = ref
Without(ref) == RemoveAt(items, Index(ref))

Init ==
    /\ items = <<>> /\ steering = NoRef
    /\ stream = NoStream /\ gate = NoGate
    /\ loads = [k \in {"lease", "page"} |-> NoLoad]
    /\ back = [r \in Runs |-> "none"] /\ sse = [r \in Runs |-> "none"]
    /\ used = {} /\ deleted = {} /\ launched = <<>> /\ known = {} /\ dirty = FALSE

Free == gate = NoGate
Running(r) == stream.running /\ stream.run = r

\* In the backend a request is posted, locked (it holds the session mutex) and
\* active (registered).  A Stop turns these into marked, doomed and stopping.
Holding == {r \in Runs : back[r] \in {"locked", "doomed", "active", "stopping"}}
\* Runs that have ended, with and without a terminal event.
Settled == {r \in Runs : back[r] \in {"finished", "cancelled"}}

-----------------------------------------------------------------------------
(* Reads of the session: AsyncVersionGuard *)

\* A newer read makes every older one stale.
BeginLoad(l, k) ==
    [j \in DOMAIN l |-> IF j = k THEN [NoLoad EXCEPT !.busy = TRUE, !.current = TRUE,
                                                     !.epoch = Len(launched)]
                        ELSE [l[j] EXCEPT !.current = FALSE]]

\* Mutant of Invalidated: a launch leaves the reads of before current.
InvalidatedNot(l) == l
Invalidated(l) == [j \in DOMAIN l |-> [l[j] EXCEPT !.current = FALSE]]

\* Mutant of SessionReadable: GET does not wait for the run.
SessionReadableAnytime == TRUE
\* get_session waits for the session mutex.
SessionReadable == Holding = {}

ServeLoad(k) ==
    /\ loads[k].busy /\ ~loads[k].served
    /\ SessionReadable
    /\ loads' = [loads EXCEPT ![k].served = TRUE, ![k].snapshot = Settled]
    /\ UNCHANGED <<items, steering, stream, gate, back, sse, used, deleted, launched,
                   known, dirty>>

\* The page is entered: loadMessages.
PageLoads ==
    /\ ~loads["page"].busy
    /\ loads' = BeginLoad(loads, "page")
    /\ UNCHANGED <<items, steering, stream, gate, back, sse, used, deleted, launched,
                   known, dirty>>

PageLoadReturns ==
    /\ loads["page"].busy
    /\ known' = IF loads["page"].served /\ loads["page"].current
                THEN loads["page"].snapshot ELSE known
    /\ loads' = [loads EXCEPT !["page"] = NoLoad]
    /\ UNCHANGED <<items, steering, stream, gate, back, sse, used, deleted, launched, dirty>>

-----------------------------------------------------------------------------
(* launchSessionRun and the user's direct actions *)

\* History: what a launch by lease relies on.
Clean(shown) ==
    /\ \A r \in Runs : back[r] \notin {"active", "stopping"}
    /\ gate.run \in Settled => gate.run \in shown

\* sendUserMessage, startStream, connectSSE and setStreamAborter in one callback.
Launch(p, l, streams, clean) ==
    LET r == Len(launched) + 1 IN
    /\ r \in Runs
    /\ launched' = Append(launched, p)
    /\ stream' = [run |-> r, running |-> TRUE, stopping |-> FALSE]
    /\ back' = [back EXCEPT ![r] = "posted"]
    /\ loads' = Invalidated(l)
    /\ sse' = [streams EXCEPT ![r] = "open"]
    /\ dirty' = (dirty \/ ~clean)

\* Mutant of MayLaunch: the lease of a coordinator does not keep launches out.
MayLaunchUngated == ~stream.running
\* launchSessionRun without a lease.
MayLaunch == ~stream.running /\ Free

\* handleComposerSend on an idle session: launched at once.
SendNow(p) ==
    /\ p \notin used
    /\ items = <<>> /\ MayLaunch
    /\ used' = used \union {p}
    /\ Launch(p, loads, sse, TRUE)
    /\ UNCHANGED <<items, steering, gate, deleted, known>>

\* handleComposerSend otherwise: enqueued; without a run the head is launched, or
\* the restore in progress is asked to do it.
SendQueued(p) ==
    LET queue == Append(items, [id |-> p, rev |-> 1]) IN
    /\ p \notin used
    /\ stream.running \/ items # <<>> \/ ~Free
    /\ used' = used \union {p}
    /\ IF MayLaunch /\ steering = NoRef
       THEN items' = Tail(queue) /\ Launch(Head(queue).id, loads, sse, TRUE)
       ELSE items' = queue /\ UNCHANGED <<launched, stream, back, loads, dirty, sse>>
    /\ gate' = IF ~stream.running /\ gate.purpose = "restore"
               THEN [gate EXCEPT !.drain = TRUE] ELSE gate
    /\ UNCHANGED <<steering, deleted, known>>

\* Approve and Execute launch a prompt of their own past the queue.
ExecutePlan(p) ==
    /\ p \notin used
    /\ MayLaunch
    /\ used' = used \union {p}
    /\ Launch(p, loads, sse, TRUE)
    /\ UNCHANGED <<items, steering, gate, deleted, known>>

Reserved(ref) == steering # NoRef /\ steering.id = ref.id

QueueOnly == <<stream, gate, loads, back, sse, used, launched, known, dirty>>

EditItem(ref) ==
    /\ InQueue(ref) /\ ~Reserved(ref) /\ ref.rev < REVISIONS
    /\ items' = [i \in DOMAIN items |->
                    IF items[i] = ref THEN [ref EXCEPT !.rev = @ + 1] ELSE items[i]]
    /\ UNCHANGED <<steering, deleted, QueueOnly>>

\* Mutant of MayDelete: a reserved item can be deleted under its steer.
MayDeleteReserved(ref) == InQueue(ref)
MayDelete(ref) == InQueue(ref) /\ ~Reserved(ref)

DeleteItem(ref) ==
    /\ MayDelete(ref)
    /\ items' = Without(ref)
    /\ deleted' = deleted \union {ref.id}
    /\ UNCHANGED <<steering, QueueOnly>>

\* Mutant of Moved: the item also stays where it was.
MovedKept(ref) == items
Moved(ref) == Without(ref)

\* arrayMove: the moved item takes the index of its target.
ReorderItem(ref, target) ==
    /\ InQueue(ref) /\ InQueue(target) /\ ref # target
    /\ ~Reserved(ref) /\ ~Reserved(target)
    /\ items' = InsertAt(Moved(ref), Index(target), ref)
    /\ UNCHANGED <<steering, deleted, QueueOnly>>

\* Mutant of AfterClaim: the claim only looks.
AfterClaimKept(ref) == items
AfterClaim(ref) == Without(ref)

\* handleQueueActivate without a run: claim this item and launch it.
ActivateIdle(ref) ==
    /\ InQueue(ref) /\ MayLaunch
    /\ steering \in {NoRef, ref}
    /\ items' = AfterClaim(ref)
    /\ steering' = NoRef
    /\ Launch(ref.id, loads, sse, TRUE)
    /\ UNCHANGED <<gate, used, deleted, known>>

\* handleQueueActivate during a run: reserve the item, take the lease, stop the run.
BeginSteer(ref) ==
    /\ InQueue(ref) /\ stream.running /\ ~stream.stopping
    /\ steering = NoRef /\ Free
    /\ steering' = ref
    /\ gate' = [NoGate EXCEPT !.purpose = "steer", !.run = stream.run, !.pc = "cancel"]
    /\ stream' = [stream EXCEPT !.stopping = TRUE]
    /\ UNCHANGED <<items, loads, back, sse, used, deleted, launched, known, dirty>>

\* handleStop
BeginStop ==
    /\ stream.running /\ ~stream.stopping /\ Free
    /\ gate' = [NoGate EXCEPT !.purpose = "stop", !.run = stream.run, !.pc = "cancel"]
    /\ stream' = [stream EXCEPT !.stopping = TRUE]
    /\ UNCHANGED <<items, steering, loads, back, sse, used, deleted, launched, known, dirty>>

-----------------------------------------------------------------------------
(* Events of a stream *)

\* shouldAutoDrainPromptQueue.  The event is "awaiting" for a question to the user;
\* a plan to approve, an error or an exhausted budget is "other".
AutoDrains(event) ==
    ~stream.stopping /\ steering = NoRef /\ event \in {"natural", "awaiting"}

\* onComplete: when it still owns the stream, restore before anything else runs.
OnComplete(r) ==
    /\ sse[r] \in {"natural", "awaiting", "other"}
    /\ sse' = [sse EXCEPT ![r] = "closed"]
    /\ stream' = IF Running(r) THEN [stream EXCEPT !.running = FALSE, !.stopping = FALSE]
                 ELSE stream
    /\ IF Running(r) /\ Free
       THEN /\ gate' = [NoGate EXCEPT !.purpose = "restore", !.run = r, !.pc = "load",
                                      !.drain = AutoDrains(sse[r])]
            /\ loads' = BeginLoad(loads, "lease")
       ELSE UNCHANGED <<gate, loads>>
    /\ UNCHANGED <<items, steering, back, used, deleted, launched, known, dirty>>

\* onError: a refused request or a broken stream.  While a Stop is under way the
\* failure is only noted.
OnError(r) ==
    /\ sse[r] = "broken"
    /\ sse' = [sse EXCEPT ![r] = "closed"]
    /\ IF Running(r)
       THEN /\ stream' = [stream EXCEPT !.running = stream.stopping]
            /\ loads' = BeginLoad(loads, "page")
       ELSE UNCHANGED <<stream, loads>>
    /\ UNCHANGED <<items, steering, gate, back, used, deleted, launched, known, dirty>>

-----------------------------------------------------------------------------
(* The coordinators after an await *)

Restored == loads["lease"].served /\ loads["lease"].current
Shown == IF Restored THEN loads["lease"].snapshot ELSE known
LoadDone == [loads EXCEPT !["lease"] = NoLoad]

\* Mutant of MayDrain: the restore does not have to succeed.
MayDrainUnrestored == gate.drain /\ ~stream.running
MayDrain == Restored /\ gate.drain /\ ~stream.running

\* restoreAndMaybeDrainPromptQueue after loadMessages.
RestoreReturns ==
    /\ gate.purpose = "restore" /\ gate.pc = "load"
    /\ known' = Shown
    /\ IF MayDrain /\ items # <<>> /\ steering = NoRef
       THEN items' = AfterClaim(Head(items))
            /\ Launch(Head(items).id, LoadDone, sse, Clean(Shown))
       ELSE loads' = LoadDone /\ UNCHANGED <<items, launched, stream, back, dirty, sse>>
    /\ gate' = NoGate
    /\ UNCHANGED <<steering, used, deleted>>

\* finishStreamStop: abort the transport, unlock the composer.
Stopped(r) == IF Running(r) THEN [stream EXCEPT !.running = FALSE, !.stopping = FALSE]
              ELSE stream
Aborted(r) == IF Running(r) THEN [sse EXCEPT ![r] = "closed"] ELSE sse

\* failStreamStop: the run is still there, Stop may be tried again.
StopFailed(r) == IF Running(r) THEN [stream EXCEPT !.stopping = FALSE] ELSE stream

\* The answer of cancel_run, and the restore that follows it: true for a run that
\* was cancelled and for one the backend does not know, false for one whose terminal
\* event won.
CancelAnswers ==
    LET r == gate.run
        cancelled == back[r] # "finished"
    IN  /\ gate.pc = "cancel"
        /\ back[r] \in {"marked", "doomed", "refused", "cancelled", "finished"}
        /\ stream' = IF cancelled THEN Stopped(r) ELSE stream
        /\ sse' = IF cancelled THEN Aborted(r) ELSE sse
        /\ gate' = [gate EXCEPT !.pc = "load", !.cancelled = cancelled]
        /\ loads' = BeginLoad(loads, "lease")
        /\ UNCHANGED <<items, steering, back, used, deleted, launched, known, dirty>>

\* Mutant of Unreserved: only the item's removal gives the reservation up.
UnreservedNot == steering
Unreserved == NoRef

\* The cancel request fails or times out.
CancelFails ==
    /\ gate.pc = "cancel"
    /\ stream' = StopFailed(gate.run)
    /\ steering' = IF gate.purpose = "steer" THEN Unreserved ELSE steering
    /\ gate' = NoGate
    /\ UNCHANGED <<items, loads, back, sse, used, deleted, launched, known, dirty>>

\* Mutant of AfterFailedRestore: the run stays locked in stopping.
AfterFailedRestoreKept(r) == stream
AfterFailedRestore(r) == IF gate.cancelled THEN stream ELSE StopFailed(r)

\* coordinateManualPromptStop and coordinateQueuedPromptSteer without a restored
\* history: nothing is launched.
StopRestoreFails ==
    /\ gate.purpose \in {"stop", "steer"} /\ gate.pc = "load"
    /\ ~Restored
    /\ stream' = AfterFailedRestore(gate.run)
    /\ steering' = IF gate.purpose = "steer" THEN Unreserved ELSE steering
    /\ gate' = NoGate
    /\ loads' = LoadDone
    /\ UNCHANGED <<items, back, sse, used, deleted, launched, known, dirty>>

\* retireStreamAfterBackendFinish: the history on screen is the stored one.
Retired(r) == IF ~gate.cancelled /\ Running(r) THEN NoStream ELSE stream
RetiredSse(r) == IF ~gate.cancelled THEN Aborted(r) ELSE sse

StopRestored ==
    /\ gate.purpose = "stop" /\ gate.pc = "load"
    /\ Restored
    /\ known' = Shown
    /\ stream' = Retired(gate.run)
    /\ sse' = RetiredSse(gate.run)
    /\ gate' = NoGate
    /\ loads' = LoadDone
    /\ UNCHANGED <<items, steering, back, used, deleted, launched, dirty>>

\* The steer claims its reserved item and launches it.
SteerRestored ==
    LET r == gate.run IN
    /\ gate.purpose = "steer" /\ gate.pc = "load"
    /\ Restored
    /\ known' = Shown
    /\ IF ~Retired(r).running /\ InQueue(steering)
       THEN /\ items' = AfterClaim(steering)
            /\ Launch(steering.id, LoadDone, RetiredSse(r), Clean(Shown))
       ELSE /\ stream' = Retired(r) /\ sse' = RetiredSse(r) /\ loads' = LoadDone
            /\ UNCHANGED <<items, launched, back, dirty>>
    /\ steering' = Unreserved
    /\ gate' = NoGate
    /\ UNCHANGED <<used, deleted>>

-----------------------------------------------------------------------------
(* The backend, as RunLifecycle leaves it *)

BackendOnly == <<items, steering, stream, gate, loads, used, deleted, launched, known, dirty>>
Tell(r, event) == sse' = IF sse[r] = "open" THEN [sse EXCEPT ![r] = event] ELSE sse

Accept(r) ==
    /\ back[r] \in {"posted", "marked"} /\ Holding = {}
    /\ back' = [back EXCEPT ![r] = IF @ = "posted" THEN "locked" ELSE "doomed"]
    /\ UNCHANGED <<sse, BackendOnly>>

\* 409, an error on the way to registration, the marker of an earlier Stop, or a
\* connection that breaks before the request arrives.
Refuse(r) ==
    /\ back[r] \in {"posted", "marked", "locked", "doomed"}
    /\ back' = [back EXCEPT ![r] = "refused"]
    /\ Tell(r, "broken")
    /\ UNCHANGED BackendOnly

RegisterRun(r) ==
    /\ back[r] = "locked"
    /\ back' = [back EXCEPT ![r] = "active"]
    /\ UNCHANGED <<sse, BackendOnly>>

\* The Stop request arrives; whether its answer gets back is another matter.
StopArrives ==
    /\ gate.pc = "cancel" /\ back[gate.run] \in {"posted", "locked", "active"}
    /\ back' = [back EXCEPT ![gate.run] = CASE @ = "posted" -> "marked"
                                             [] @ = "locked" -> "doomed"
                                             [] @ = "active" -> "stopping"]
    /\ UNCHANGED <<sse, BackendOnly>>

\* Stored, session released, terminal event sent; an error event, as after a failed
\* transaction, reads like a broken stream.
FinishRun(r, event) ==
    /\ back[r] = "active"
    /\ back' = [back EXCEPT ![r] = "finished"]
    /\ Tell(r, event)
    /\ UNCHANGED BackendOnly

\* A Stop that wins, or the client's departure: no terminal event is sent.
CancelRun(r) ==
    /\ back[r] = "stopping" \/ (back[r] = "active" /\ sse[r] # "open")
    /\ back' = [back EXCEPT ![r] = "cancelled"]
    /\ Tell(r, "broken")
    /\ UNCHANGED BackendOnly

BreakStream(r) ==
    /\ sse[r] = "open" /\ r \in Holding
    /\ sse' = [sse EXCEPT ![r] = "broken"]
    /\ UNCHANGED <<back, BackendOnly>>

-----------------------------------------------------------------------------
UserStep ==
    \/ \E p \in Prompts : SendNow(p) \/ SendQueued(p) \/ ExecutePlan(p)
    \/ \E ref \in Refs : EditItem(ref) \/ DeleteItem(ref) \/ ActivateIdle(ref)
                         \/ BeginSteer(ref)
    \/ \E ref, target \in Refs : ReorderItem(ref, target)
    \/ BeginStop \/ PageLoads

\* Answers and events: every one arrives, or its failure does.
ClientStep ==
    \/ \E r \in Runs : OnComplete(r) \/ OnError(r)
    \/ PageLoadReturns
    \/ RestoreReturns \/ CancelAnswers \/ CancelFails \/ StopRestoreFails
    \/ StopRestored \/ SteerRestored

BackendStep ==
    \/ \E k \in DOMAIN loads : ServeLoad(k)
    \/ \E r \in Runs :
          \/ Accept(r) \/ Refuse(r) \/ RegisterRun(r) \/ CancelRun(r) \/ BreakStream(r)
          \/ \E event \in {"natural", "awaiting", "other", "broken"} : FinishRun(r, event)
    \/ StopArrives

Next == UserStep \/ ClientStep \/ BackendStep

\* Every request of a coordinator ends: with an answer, an error, or the time limit
\* of cancel_run and of the client.
Settles == CancelAnswers \/ CancelFails \/ StopRestoreFails \/ StopRestored
           \/ SteerRestored \/ RestoreReturns

Spec == Init /\ [][Next]_vars /\ WF_vars(Settles)

-----------------------------------------------------------------------------
(* Properties *)

Purposes == {"none", "restore", "stop", "steer"}

\* The types, and every queued prompt once: enqueue refuses an id it has, and a move
\* only moves.
TypeOK ==
    /\ items \in Seq(Refs)
    /\ \A i, j \in DOMAIN items : items[i].id = items[j].id => i = j
    /\ steering \in Refs \union {NoRef}
    /\ stream \in [run : 0 .. RUNS, running : BOOLEAN, stopping : BOOLEAN]
    /\ gate \in [purpose : Purposes, run : 0 .. RUNS, pc : {"none", "cancel", "load"},
                 drain : BOOLEAN, cancelled : BOOLEAN]
    /\ loads \in [{"lease", "page"} -> [busy : BOOLEAN, current : BOOLEAN,
                     served : BOOLEAN, snapshot : SUBSET Runs, epoch : 0 .. RUNS]]
    /\ back \in [Runs -> {"none", "posted", "marked", "locked", "doomed", "active",
                          "stopping", "refused", "finished", "cancelled"}]
    /\ sse \in [Runs -> {"none", "open", "natural", "awaiting", "other", "broken",
                         "closed"}]
    /\ used \subseteq Prompts /\ deleted \subseteq Prompts /\ known \subseteq Runs
    /\ launched \in Seq(Prompts) /\ Len(launched) <= RUNS
    /\ dirty \in BOOLEAN

\* Every prompt the user sent is in exactly one place: in the queue, deleted by the
\* user, or run once.  No terminal event, Stop, steer, failed restore or refused claim
\* loses a prompt or runs it twice.
EveryPromptOnce ==
    \A p \in used :
        Cardinality({i \in DOMAIN items : items[i].id = p})
        + Cardinality({i \in DOMAIN launched : launched[i] = p})
        + (IF p \in deleted THEN 1 ELSE 0) = 1

\* A reservation lives exactly as long as the steer that made it, and its item waits
\* unchanged: a leaked one would keep every later claim out.
ReservationHasItsSteer ==
    /\ steering # NoRef <=> gate.purpose = "steer"
    /\ steering # NoRef => InQueue(steering)

\* What a lease launches, it launches when no registered run is alive and with the
\* stored history of the run before on screen ("wait for the backend acknowledgement
\* (which follows persistence + mutex release), restore history, then claim and
\* launch").
LeaseLaunchesAreClean == ~dirty

\* While a coordinator holds the lease the only run on screen is the one it stops:
\* a restore is never overtaken by a launch, and a Stop that the user presses always
\* gets the lease.
LeaseOwnsTheSession ==
    ~Free /\ stream.running => stream.stopping /\ stream.run = gate.run

\* A read of the session begun before the latest launch never replaces its
\* transcript (sendUserMessage: "must never overwrite its optimistic or streamed
\* transcript").
OldReadsNeverApply ==
    \A k \in DOMAIN loads : loads[k].current => loads[k].epoch = Len(launched)

\* The lease keeps steers, launches, restores and reads of one session in order
\* (promptRunCoordinator.ts).
LeaseDiscipline ==
    /\ ReservationHasItsSteer /\ LeaseLaunchesAreClean
    /\ LeaseOwnsTheSession /\ OldReadsNeverApply

\* A Stop, alone or in a steer, always comes to an end: the composer does not stay
\* locked in stopping.
StopSettles == stream.stopping ~> ~stream.stopping
=============================================================================
