---------------------------- MODULE Stores_proofs ----------------------------
(***************************************************************************)
(* What outlives a run, for any calls and claims: who may touch the files  *)
(* of a workspace and lose a text written there, and which claims of the   *)
(* memory may be in effect and recalled.  The tool calls, extractions,     *)
(* recalls and user operations may come and be cut in any order.           *)
(***************************************************************************)
EXTENDS WorkspaceTools, MemoryClaims, TLAPS

-----------------------------------------------------------------------------
(* The workspace: the types *)

FileState == [there : BOOLEAN, shows : SUBSET Calls]
Process == [leader : {"none", "running", "exited"}, child : {"none", "quiet", "piped"}]
CallState == [kind : Tools \cup {"none", "delete"},
              pc : {"unused", "waiting", "process", "pool", "read", "answered", "done"},
              seen : FileState, dropped : BOOLEAN, proc : Process]
Job == [of : Calls, what : {"read", "write", "remove"}, shows : SUBSET Calls]

\* The types of the calls, of the pool and of the file.
ToolTypeOK ==
    /\ call \in [Calls -> CallState]
    /\ inside \in SUBSET Calls
    /\ pool \in SUBSET Job
    /\ file \in FileState
    /\ lost \in SUBSET (Calls \X Calls)
    /\ current \in Calls \cup {NoCall}

Running == {"process", "pool", "read", "answered"}

\* What a call is while it is at a stage; the guard is held from entering to the end.
StageInv ==
    \A c \in Calls :
        /\ call[c].pc \in Running <=> c \in inside
        /\ call[c].pc = "waiting" => call[c].kind # "none"
        /\ call[c].pc = "process" => call[c].kind \in {"shell", "compile"}
        /\ call[c].pc = "read" => call[c].kind = "edit"
        /\ call[c].pc \in {"pool", "answered"} => call[c].kind \in {"edit", "write", "delete"}
        /\ call[c].pc # "process" => call[c].proc = NoProcess
        /\ call[c].dropped => call[c].pc = "done"

\* The exclusive side of the lock has one holder and no shared one beside it.
ExclusionInv == \A c, d \in inside : Exclusive(c) \/ Exclusive(d) => c = d

\* A call has one job in the pool at most, which it awaits or was cut from; what the job of
\* an edit will write was decided on what the edit has read.
JobInv ==
    \A j \in pool :
        /\ call[j.of].pc = "pool" \/ Cut(j.of)
        /\ \A k \in pool : j.of = k.of => j = k
        /\ j.what = "read" => call[j.of].kind = "edit"
        /\ j.what = "write" => call[j.of].kind \in {"edit", "write"}
        /\ j.what # "read" => j.shows = IF call[j.of].kind = "edit"
                                        THEN call[j.of].seen.shows \cup {j.of} ELSE {j.of}

\* Nothing shows what a call has still to write.
Appears(c) == c \in file.shows \/ \E d \in Calls : c \in call[d].seen.shows
WrittenInv ==
    \A c \in Calls : Appears(c) =>
        /\ call[c].pc \in {"process", "answered", "done"}
        /\ \A j \in pool : j.of # c

\* An edit between its read and its write, or a compilation, works on the file as it is,
\* unless a cut call has written since.
Reads(c) ==
    \/ /\ call[c].kind = "edit"
       /\ call[c].pc = "read" \/ \E j \in pool : j.of = c /\ j.what = "write"
    \/ call[c].kind = "compile" /\ call[c].pc = "process"
AsSeen(c) ==
    file = call[c].seen \/ \E d \in Calls : Cut(d) /\ d \in file.shows \ call[c].seen.shows
SeenInv == \A c \in Calls : Reads(c) /\ ~Cut(c) => AsSeen(c)

\* What an uncut edit has overwritten unread includes what a cut call wrote.
LostInv == \A p \in lost : Cut(p[2]) \/ \E q \in lost : q[2] = p[2] /\ Cut(q[1])

\* The inductive invariant of the workspace.
ToolInv ==
    /\ ToolTypeOK /\ StageInv /\ ExclusionInv /\ JobInv /\ WrittenInv /\ SeenInv /\ LostInv

-----------------------------------------------------------------------------
(* The workspace: the steps *)

\* A step of one call leaves the other calls alone.
LEMMA CallSet ==
    ASSUME call \in [Calls -> CallState], NEW c \in Calls, NEW f \in CallState,
           call' = [call EXCEPT ![c] = f]
    PROVE  /\ call' \in [Calls -> CallState] /\ call'[c] = f
           /\ \A d \in Calls \ {c} : call'[d] = call[d]
OBVIOUS

\* A step of a call that stays where it is, or that arrives in the queue.
LEMMA StayKeeps ==
    ASSUME ToolInv, NEW c \in Calls, NEW f \in CallState, call' = [call EXCEPT ![c] = f],
           f.seen = call[c].seen, ~call[c].dropped, ~f.dropped,
           \/ call[c].pc = "process" /\ f.pc = "process" /\ f.kind = call[c].kind
           \/ /\ call[c].pc = "unused" /\ f.pc = "waiting"
              /\ f.kind \in Tools \cup {"delete"} /\ f.proc = NoProcess,
           current' \in Calls \cup {NoCall}, UNCHANGED <<inside, pool, file, lost>>
    PROVE  ToolInv'
<1> USE DEF ToolInv
<1>1. /\ call' \in [Calls -> CallState] /\ call'[c] = f
      /\ \A d \in Calls \ {c} : call'[d] = call[d]
  BY CallSet DEF ToolTypeOK
<1>2. ToolTypeOK'
  BY <1>1 DEF ToolTypeOK
<1>3. StageInv'
  BY <1>1 DEF StageInv, Running, Tools
<1>4. \A d \in inside : call'[d].kind = call[d].kind
  BY <1>1 DEF StageInv, Running, ToolTypeOK
<1>5. ExclusionInv'
  BY <1>4 DEF ExclusionInv, Exclusive
<1>6. \A d \in Calls : (Cut(d)' <=> Cut(d)) /\ call'[d].seen = call[d].seen
  BY <1>1 DEF Cut
<1>7. \A j \in pool : j.of \in Calls /\ j.of # c
  BY DEF JobInv, ToolTypeOK, Job, Cut
<1>8. JobInv'
  BY <1>1, <1>6, <1>7 DEF JobInv
<1>9. WrittenInv'
  <2>1. \A d \in Calls : Appears(d)' <=> Appears(d)
    BY <1>6 DEF Appears
  <2> QED
    BY <1>1, <2>1 DEF WrittenInv
<1>10. SeenInv'
  <2>1. ASSUME NEW d \in Calls, Reads(d)' PROVE Reads(d)
    BY <1>1, <1>7, <2>1 DEF Reads
  <2> QED
    BY <1>6, <2>1 DEF SeenInv, AsSeen
<1>11. LostInv'
  BY <1>6 DEF LostInv, ToolTypeOK
<1> QED
  BY <1>2, <1>3, <1>5, <1>8, <1>9, <1>10, <1>11

\* A call that ends: it returns with no job of its own left, or it is cut.
LEMMA LeaveKeeps ==
    ASSUME ToolInv, NEW c \in Calls, NEW f \in CallState, call' = [call EXCEPT ![c] = f],
           f.pc = "done", f.proc = NoProcess, f.kind = call[c].kind, f.seen = call[c].seen,
           f.dropped \/ (f.dropped = call[c].dropped /\ \A j \in pool : j.of # c),
           inside' = inside \ {c}, current' \in Calls \cup {NoCall},
           UNCHANGED <<pool, file, lost>>
    PROVE  ToolInv'
<1> USE DEF ToolInv
<1>1. /\ call' \in [Calls -> CallState] /\ call'[c] = f
      /\ \A d \in Calls \ {c} : call'[d] = call[d]
  BY CallSet DEF ToolTypeOK
<1>2. ToolTypeOK'
  BY <1>1 DEF ToolTypeOK
<1>3. StageInv'
  BY <1>1 DEF StageInv, Running
<1>4. \A d \in Calls : /\ Cut(d) => Cut(d)'
                       /\ call'[d].seen = call[d].seen /\ call'[d].kind = call[d].kind
  BY <1>1 DEF Cut
<1>5. ExclusionInv'
  BY <1>2, <1>4 DEF ExclusionInv, Exclusive, ToolTypeOK
<1>6. JobInv'
  <2>1. ASSUME NEW j \in pool PROVE j.of \in Calls
    BY <2>1 DEF ToolTypeOK, Job
  <2>2. ASSUME NEW j \in pool PROVE call'[j.of].pc = "pool" \/ Cut(j.of)'
    BY <1>1, <2>1, <2>2 DEF JobInv, Cut
  <2> QED
    BY <1>4, <2>1, <2>2 DEF JobInv
<1>7. WrittenInv'
  <2>1. \A d \in Calls : Appears(d)' <=> Appears(d)
    BY <1>4 DEF Appears
  <2> QED
    BY <1>1, <2>1 DEF WrittenInv
<1>8. SeenInv'
  <2>1. ASSUME NEW d \in Calls, Reads(d)', ~Cut(d)' PROVE Reads(d) /\ ~Cut(d)
    BY <1>1, <1>4, <2>1 DEF Reads, Cut
  <2> QED
    BY <1>4, <2>1 DEF SeenInv, AsSeen
<1>9. LostInv'
  BY <1>4 DEF LostInv, ToolTypeOK
<1> QED
  BY <1>2, <1>3, <1>5, <1>6, <1>7, <1>8, <1>9

\* A call is cut short, wherever it is.
LEMMA DroppedKeeps ==
    ASSUME ToolInv, NEW c \in Calls, Dropped(c), current' \in Calls \cup {NoCall},
           UNCHANGED <<pool, file, lost>>
    PROVE  ToolInv'
<1> DEFINE f == [call[c] EXCEPT !.pc = "done", !.dropped = TRUE, !.proc = NoProcess]
<1>1. call[c] \in CallState /\ call \in [Calls -> CallState]
  BY DEF ToolInv, ToolTypeOK
<1>2. /\ f \in CallState /\ f.pc = "done" /\ f.proc = NoProcess /\ f.kind = call[c].kind
      /\ f.seen = call[c].seen /\ f.dropped
  BY <1>1 DEF CallState, NoProcess, Process
<1>3. call' = [call EXCEPT ![c] = f] /\ inside' = inside \ {c}
  BY <1>1 DEF Dropped, Leave, Killed
<1> QED
  BY <1>2, <1>3, LeaveKeeps

\* A call returns.
LEMMA FinishKeeps ==
    ASSUME ToolInv, NEW c \in Calls, Finish(c), call[c].pc # "pool", ~call[c].dropped,
           UNCHANGED <<pool, file, lost>>
    PROVE  ToolInv'
<1> DEFINE f == [call[c] EXCEPT !.pc = "done", !.proc = NoProcess]
<1>1. call[c] \in CallState /\ call \in [Calls -> CallState]
  BY DEF ToolInv, ToolTypeOK
<1>2. /\ f \in CallState /\ f.pc = "done" /\ f.proc = NoProcess /\ f.kind = call[c].kind
      /\ f.seen = call[c].seen /\ f.dropped = call[c].dropped
  BY <1>1 DEF CallState, NoProcess, Process
<1>3. /\ call' = [call EXCEPT ![c] = f] /\ inside' = inside \ {c}
      /\ current' \in Calls \cup {NoCall}
  BY <1>1 DEF Finish, Leave, Killed, ToolInv, ToolTypeOK
<1>4. \A j \in pool : j.of # c
  BY DEF ToolInv, JobInv, Cut
<1> QED
  BY <1>2, <1>3, <1>4, LeaveKeeps

\* A call arrives in the queue.
LEMMA ArriveKeeps ==
    ASSUME ToolInv, NEW c \in Calls, NEW kind \in Tools \cup {"delete"}, Arrive(c, kind),
           current' \in Calls \cup {NoCall}
    PROVE  ToolInv'
<1> DEFINE f == [call[c] EXCEPT !.kind = kind, !.pc = "waiting"]
<1>1. call[c] \in CallState /\ call \in [Calls -> CallState] /\ call[c] = Unborn
  BY DEF ToolInv, ToolTypeOK, Arrive
<1>2. call[c].pc = "unused" /\ ~call[c].dropped /\ call[c].proc = NoProcess
  BY <1>1 DEF Unborn
<1>3. /\ f \in CallState /\ f.pc = "waiting" /\ f.kind = kind /\ f.proc = NoProcess
      /\ f.seen = call[c].seen /\ ~f.dropped
  BY <1>1, <1>2 DEF CallState
<1>4. call' = [call EXCEPT ![c] = f] /\ UNCHANGED <<inside, pool, file, lost>>
  BY <1>1 DEF Arrive
<1> QED
  BY <1>2, <1>3, <1>4, StayKeeps

\* The processes of a call exit.
LEMMA ExitKeeps ==
    ASSUME ToolInv, NEW c \in Calls,
           (\E left \in {"none", "quiet", "piped"} : ChildExits(c, left)) \/ DescendantEnds(c)
    PROVE  ToolInv'
<1>1. /\ call[c] \in CallState /\ call \in [Calls -> CallState] /\ call[c].proc \in Process
      /\ current \in Calls \cup {NoCall}
  BY DEF ToolInv, ToolTypeOK, CallState
<1>2. PICK p \in Process : call' = [call EXCEPT ![c].proc = p]
  <2>1. ASSUME NEW left \in {"none", "quiet", "piped"}, ChildExits(c, left)
        PROVE  \E p \in Process : call' = [call EXCEPT ![c].proc = p]
    <3>1. [leader |-> "exited", child |-> left] \in Process
      BY DEF Process
    <3> QED
      BY <2>1, <3>1 DEF ChildExits
  <2>2. CASE DescendantEnds(c)
    <3>1. [call[c].proc EXCEPT !.child = "none"] \in Process
      BY <1>1 DEF Process
    <3>2. call' = [call EXCEPT ![c].proc = [call[c].proc EXCEPT !.child = "none"]]
      BY <1>1, <2>2 DEF DescendantEnds, CallState
    <3> QED
      BY <3>1, <3>2
  <2> QED
    BY <2>1, <2>2
<1>3. call[c].pc = "process" /\ ~call[c].dropped
  <2>1. call[c].pc = "process"
    BY DEF ToolInv, StageInv, ChildExits, DescendantEnds, NoProcess
  <2> QED
    BY <2>1 DEF ToolInv, StageInv
<1> DEFINE f == [call[c] EXCEPT !.proc = p]
<1>4. /\ f \in CallState /\ f.pc = "process" /\ f.kind = call[c].kind
      /\ f.seen = call[c].seen /\ ~f.dropped
  BY <1>1, <1>3 DEF CallState
<1>5. call' = [call EXCEPT ![c] = f] /\ UNCHANGED <<inside, pool, file, lost, current>>
  BY <1>1, <1>2 DEF ChildExits, DescendantEnds
<1> QED
  BY <1>1, <1>3, <1>4, <1>5, StayKeeps

\* A script writes: no reader is inside beside it.
LEMMA WriteKeeps ==
    ASSUME ToolInv, NEW c \in Calls, ProcessWrites(c)
    PROVE  ToolInv'
<1> USE DEF ToolInv
<1>1. /\ call[c].kind = "shell" /\ file' = [there |-> TRUE, shows |-> file.shows \cup {c}]
      /\ UNCHANGED <<call, inside, pool, lost, current>>
  BY DEF ProcessWrites
<1>2. call[c].pc = "process" /\ c \in inside
  <2>1. call[c].pc = "process"
    BY DEF ProcessWrites, ProcessAlive, StageInv, NoProcess
  <2> QED
    BY <2>1 DEF StageInv, Running
<1>3. file' \in FileState /\ file'.shows = file.shows \cup {c}
  BY <1>1 DEF ToolTypeOK, FileState
<1>4. ToolTypeOK' /\ StageInv' /\ ExclusionInv' /\ JobInv' /\ LostInv'
  <2>1. ToolTypeOK'
    BY <1>1, <1>3 DEF ToolTypeOK
  <2>2. StageInv' /\ ExclusionInv'
    BY <1>1 DEF StageInv, ExclusionInv, Exclusive
  <2>3. JobInv' /\ LostInv'
    BY <1>1 DEF JobInv, Cut, LostInv
  <2> QED
    BY <2>1, <2>2, <2>3
<1>5. \A j \in pool : j.of # c
  BY <1>2 DEF JobInv, Cut, StageInv
<1>6. WrittenInv'
  BY <1>1, <1>2, <1>3, <1>5 DEF WrittenInv, Appears
<1>7. SeenInv'
  <2> SUFFICES ASSUME NEW d \in Calls, Reads(d), ~Cut(d) PROVE FALSE
    BY <1>1 DEF SeenInv, Reads, Cut
  <2>1. d \in inside /\ call[d].kind \in {"edit", "compile"}
    BY DEF Reads, JobInv, StageInv, Running, Cut
  <2> QED
    BY <1>1, <1>2, <2>1 DEF ExclusionInv, Exclusive
<1> QED
  BY <1>4, <1>6, <1>7

\* An edit that has found its place submits what it will write.
LEMMA DecideKeeps ==
    ASSUME ToolInv, NEW c \in Calls, EditDecides(c)
    PROVE  ToolInv'
<1> USE DEF ToolInv
<1> DEFINE f == [call[c] EXCEPT !.pc = "pool"]
           s == call[c].seen.shows \cup {c}
           k == [of |-> c, what |-> "write", shows |-> s]
<1>1. /\ call[c].pc = "read" /\ call' = [call EXCEPT ![c] = f] /\ pool' = pool \cup {k}
      /\ UNCHANGED <<inside, file, lost, current>>
  BY DEF EditDecides, Submit, ToolTypeOK
<1>2. call[c] \in CallState /\ call \in [Calls -> CallState] /\ call[c].seen.shows \subseteq Calls
  BY DEF ToolTypeOK, CallState, FileState
<1>3. /\ f \in CallState /\ f.pc = "pool" /\ f.kind = call[c].kind /\ f.seen = call[c].seen
      /\ f.dropped = call[c].dropped /\ f.proc = call[c].proc
  BY <1>2 DEF CallState
<1>4. k \in Job /\ k.of = c /\ k.what = "write" /\ k.shows = call[c].seen.shows \cup {c}
  BY <1>2 DEF Job
<1> HIDE DEF f, k
<1>5. /\ call' \in [Calls -> CallState] /\ call'[c] = f
      /\ \A d \in Calls \ {c} : call'[d] = call[d]
  BY <1>1, <1>2, <1>3, CallSet
<1>6. call[c].kind = "edit" /\ ~call[c].dropped /\ \A j \in pool : j.of # c
  BY <1>1 DEF StageInv, JobInv, Cut
<1>7. \A d \in Calls : /\ Cut(d)' <=> Cut(d)
                       /\ call'[d].seen = call[d].seen /\ call'[d].kind = call[d].kind
  BY <1>3, <1>5 DEF Cut
<1>8. ToolTypeOK'
  BY <1>1, <1>4, <1>5 DEF ToolTypeOK
<1>9. StageInv'
  BY <1>1, <1>3, <1>5, <1>6 DEF StageInv, Running
<1>10. ExclusionInv'
  BY <1>1, <1>7, <1>8 DEF ExclusionInv, Exclusive, ToolTypeOK
<1>11. \A j \in pool : j.of \in Calls
  BY DEF ToolTypeOK, Job
<1>12. JobInv'
  <2> SUFFICES ASSUME NEW j \in pool'
               PROVE  /\ call'[j.of].pc = "pool" \/ Cut(j.of)'
                      /\ \A i \in pool' : j.of = i.of => j = i
                      /\ j.what = "read" => call'[j.of].kind = "edit"
                      /\ j.what = "write" => call'[j.of].kind \in {"edit", "write"}
                      /\ j.what # "read" => j.shows = IF call'[j.of].kind = "edit"
                                     THEN call'[j.of].seen.shows \cup {j.of} ELSE {j.of}
    BY DEF JobInv
  <2>1. CASE j = k
    BY <1>1, <1>3, <1>4, <1>5, <1>6, <2>1
  <2>2. CASE j \in pool
    BY <1>1, <1>4, <1>5, <1>6, <1>7, <1>11, <2>2 DEF JobInv
  <2> QED
    BY <1>1, <2>1, <2>2
<1>13. WrittenInv'
  <2>1. \A d \in Calls : Appears(d)' <=> Appears(d)
    BY <1>1, <1>7 DEF Appears
  <2>2. ~Appears(c)
    BY <1>1 DEF WrittenInv
  <2> QED
    BY <1>1, <1>4, <1>5, <2>1, <2>2 DEF WrittenInv
<1>14. SeenInv'
  <2>1. ASSUME NEW d \in Calls, Reads(d)' PROVE Reads(d)
    BY <1>1, <1>3, <1>4, <1>5, <1>6, <2>1 DEF Reads
  <2> QED
    BY <1>1, <1>7, <2>1 DEF SeenInv, AsSeen
<1>15. LostInv'
  BY <1>1, <1>7 DEF LostInv, ToolTypeOK
<1> QED
  BY <1>8, <1>9, <1>10, <1>12, <1>13, <1>14, <1>15

\* A call enters alone, or beside others of the shared side, and begins its work.
LEMMA EnterKeeps ==
    ASSUME ToolInv, NEW c \in Calls, Enter(c)
    PROVE  ToolInv'
<1> USE DEF ToolInv
<1>1. /\ call[c].pc = "waiting" /\ MayEnter(c) /\ call[c] \in CallState
      /\ call \in [Calls -> CallState] /\ call[c].kind \in Tools \cup {"delete"}
      /\ ~call[c].dropped /\ c \notin inside /\ call[c].proc = NoProcess
  BY DEF Enter, ToolTypeOK, CallState, StageInv, Running
<1>2. CASE call[c].kind = "compile" /\ ~file.there
  BY <1>1, <1>2, FinishKeeps DEF Enter
<1>3. CASE ~(call[c].kind = "compile" /\ ~file.there)
  <2> DEFINE kind == call[c].kind
  <2>1. inside' = inside \cup {c} /\ UNCHANGED <<file, lost, current>>
    BY <1>3 DEF Enter
  <2>2. PICK f \in CallState :
           /\ call' = [call EXCEPT ![c] = f] /\ f.kind = kind /\ ~f.dropped
           /\ \/ /\ f.pc = "process" /\ kind \in {"shell", "compile"}
                 /\ f.seen = file /\ pool' = pool
              \/ /\ f.pc = "pool" /\ f.seen = call[c].seen /\ f.proc = NoProcess
                 /\ \E k \in Job :
                      /\ pool' = pool \cup {k} /\ k.of = c
                      /\ \/ kind = "edit" /\ k.what = "read"
                         \/ kind = "write" /\ k.what = "write" /\ k.shows = {c}
                         \/ kind = "delete" /\ k.what = "remove" /\ k.shows = {c}
    <3>1. CASE kind \in {"shell", "compile"}
      <4> DEFINE f == [call[c] EXCEPT !.pc = "process", !.seen = file, !.proc.leader = "running"]
      <4>1. file \in FileState /\ [call[c].proc EXCEPT !.leader = "running"] \in Process
        BY <1>1 DEF ToolTypeOK, NoProcess, Process
      <4>2. /\ f \in CallState /\ f.pc = "process" /\ f.kind = kind /\ ~f.dropped /\ f.seen = file
        BY <1>1, <4>1 DEF CallState
      <4>3. /\ pool' = pool
            /\ call' = [call EXCEPT ![c].pc = "process", ![c].seen = file,
                                    ![c].proc.leader = "running"]
        BY <1>3, <3>1 DEF Enter
      <4>4. call' = [call EXCEPT ![c] = f]
        BY <1>1, <4>3 DEF CallState
      <4> QED
        BY <3>1, <4>2, <4>3, <4>4
    <3>2. CASE kind \notin {"shell", "compile"}
      <4> DEFINE f == [call[c] EXCEPT !.pc = "pool"]
      <4>1. /\ f \in CallState /\ f.pc = "pool" /\ f.kind = kind /\ ~f.dropped
            /\ f.seen = call[c].seen /\ f.proc = NoProcess
        BY <1>1 DEF CallState
      <4>2. /\ call' = [call EXCEPT ![c] = f]
            /\ CASE kind = "edit"   -> Submit(c, "read", {})
                 [] kind = "write"  -> Submit(c, "write", {c})
                 [] kind = "delete" -> Submit(c, "remove", {c})
        BY <1>1, <1>3, <3>2 DEF Enter
      <4>3. kind \in {"edit", "write", "delete"}
        BY <1>1, <3>2 DEF Tools
      <4>4. \E k \in Job :
                      /\ pool' = pool \cup {k} /\ k.of = c
                      /\ \/ kind = "edit" /\ k.what = "read"
                         \/ kind = "write" /\ k.what = "write" /\ k.shows = {c}
                         \/ kind = "delete" /\ k.what = "remove" /\ k.shows = {c}
        <5>1. /\ [of |-> c, what |-> "read", shows |-> {}] \in Job
              /\ [of |-> c, what |-> "write", shows |-> {c}] \in Job
              /\ [of |-> c, what |-> "remove", shows |-> {c}] \in Job
          BY DEF Job
        <5> QED
          BY <4>2, <4>3, <5>1 DEF Submit
      <4> QED
        BY <4>1, <4>2, <4>4
    <3> QED
      BY <3>1, <3>2
  <2>3. /\ call' \in [Calls -> CallState] /\ call'[c] = f
        /\ \A d \in Calls \ {c} : call'[d] = call[d]
    BY <1>1, <2>2, CallSet
  <2>4. /\ \A j \in pool : j.of \in Calls /\ j.of # c
        /\ \A j \in pool' \ pool : j.of = c /\ j \in Job
        /\ \A i, j \in pool' \ pool : i = j
    BY <1>1, <2>2 DEF JobInv, Cut, ToolTypeOK, Job
  <2>5. \A d \in Calls : /\ Cut(d)' <=> Cut(d)
                         /\ call'[d].kind = call[d].kind
                         /\ d # c => call'[d].seen = call[d].seen
    BY <1>1, <2>2, <2>3 DEF Cut
  <2>6. ToolTypeOK'
    BY <2>1, <2>3, <2>4 DEF ToolTypeOK
  <2>7. StageInv'
    BY <2>1, <2>2, <2>3 DEF StageInv, Running
  <2>8. ExclusionInv'
    BY <1>1, <2>1, <2>5 DEF ExclusionInv, Exclusive, MayEnter, ToolTypeOK
  <2>9. JobInv'
    <3> SUFFICES ASSUME NEW j \in pool'
                 PROVE  /\ call'[j.of].pc = "pool" \/ Cut(j.of)'
                        /\ \A i \in pool' : j.of = i.of => j = i
                        /\ j.what = "read" => call'[j.of].kind = "edit"
                        /\ j.what = "write" => call'[j.of].kind \in {"edit", "write"}
                        /\ j.what # "read" => j.shows = IF call'[j.of].kind = "edit"
                                       THEN call'[j.of].seen.shows \cup {j.of} ELSE {j.of}
      BY DEF JobInv
    <3>1. CASE j \notin pool
      BY <2>2, <2>3, <2>4, <3>1
    <3>2. CASE j \in pool
      BY <2>2, <2>3, <2>4, <2>5, <3>2 DEF JobInv
    <3> QED
      BY <3>1, <3>2
  <2>10. WrittenInv'
    <3>1. \A d \in Calls : Appears(d)' => Appears(d)
      BY <2>1, <2>2, <2>3, <2>5 DEF Appears
    <3>2. ~Appears(c)
      BY <1>1 DEF WrittenInv
    <3> QED
      BY <2>3, <2>4, <3>1, <3>2 DEF WrittenInv
  <2>11. SeenInv'
    <3> SUFFICES ASSUME NEW d \in Calls, Reads(d)', ~Cut(d)' PROVE AsSeen(d)'
      BY DEF SeenInv
    <3>1. CASE d = c
      BY <2>1, <2>2, <2>3, <2>4, <3>1 DEF Reads, AsSeen
    <3>2. CASE d # c
      <4>1. Reads(d) /\ ~Cut(d)
        BY <2>2, <2>3, <2>4, <2>5, <3>2 DEF Reads
      <4> QED
        BY <2>1, <2>5, <3>2, <4>1 DEF SeenInv, AsSeen
    <3> QED
      BY <3>1, <3>2
  <2>12. LostInv'
    BY <2>1, <2>5 DEF LostInv, ToolTypeOK
  <2> QED
    BY <2>6, <2>7, <2>8, <2>9, <2>10, <2>11, <2>12
<1> QED
  BY <1>2, <1>3

\* A job runs, long after its call was cut perhaps: then it is what the readers inside did
\* not see, and otherwise no reader is inside beside its call.
LEMMA PoolKeeps ==
    ASSUME ToolInv, NEW j \in pool, PoolRuns(j)
    PROVE  ToolInv'
<1> USE DEF ToolInv
<1> DEFINE x == j.of
           f == [call[x] EXCEPT
                   !.pc = IF @ # "pool" THEN @ ELSE IF j.what = "read" THEN "read" ELSE "answered",
                   !.seen = IF j.what = "read" THEN file ELSE @]
<1>1. /\ x \in Calls /\ j \in Job /\ call[x] \in CallState /\ call \in [Calls -> CallState]
      /\ file \in FileState /\ j.what \in {"read", "write", "remove"} /\ j.shows \in SUBSET Calls
  BY DEF ToolTypeOK, Job
<1>2. /\ pool' = pool \ {j} /\ call' = [call EXCEPT ![x] = f] /\ UNCHANGED <<inside, current>>
  BY <1>1 DEF PoolRuns, CallState
<1>3. /\ f \in CallState /\ f.kind = call[x].kind /\ f.dropped = call[x].dropped
      /\ f.proc = call[x].proc
      /\ f.pc = (IF call[x].pc # "pool" THEN call[x].pc ELSE IF j.what = "read" THEN "read" ELSE "answered")
      /\ f.seen = IF j.what = "read" THEN file ELSE call[x].seen
  BY <1>1 DEF CallState
<1> HIDE DEF f
<1>4. /\ call' \in [Calls -> CallState] /\ call'[x] = f
      /\ \A d \in Calls \ {x} : call'[d] = call[d]
  BY <1>1, <1>2, <1>3, CallSet
<1>5. /\ \A d \in Calls : /\ Cut(d)' <=> Cut(d)
                          /\ call'[d].kind = call[d].kind
                          /\ d # x => call'[d].seen = call[d].seen
      /\ j.what # "read" => call'[x].seen = call[x].seen
  BY <1>3, <1>4 DEF Cut
<1>6. /\ \A k \in pool' : k \in pool /\ k.of \in Calls /\ k.of # x
      /\ (call[x].pc = "pool" /\ ~Cut(x)) \/ (call[x].pc = "done" /\ Cut(x))
  BY <1>1, <1>2 DEF JobInv, ToolTypeOK, Job, StageInv, Cut
<1>7. /\ ~Appears(x) /\ (call[x].kind = "edit" => x \notin call[x].seen.shows)
  BY <1>1 DEF WrittenInv, Appears
<1>8. j.what # "read" => /\ x \in j.shows
                         /\ \A d \in j.shows : d = x \/ Appears(d)
  BY <1>1 DEF JobInv, Appears
<1>9. /\ file' \in FileState /\ lost' \in SUBSET (Calls \X Calls)
      /\ file' = file \/ (j.what # "read" /\ file'.shows = j.shows)
      /\ j.what # "remove" /\ j.what # "write" => file' = file
      /\ \/ lost' = lost
         \/ /\ j.what = "write" /\ call[x].kind = "edit"
            /\ lost' = lost \cup ((file.shows \ j.shows) \X {x})
  <2>1. lost \in SUBSET (Calls \X Calls) /\ file.shows \in SUBSET Calls
    BY <1>1 DEF ToolTypeOK, FileState
  <2>2. CASE j.what = "read"
    BY <1>1, <2>1, <2>2 DEF PoolRuns
  <2>3. CASE j.what = "remove"
    <3>1. /\ lost' = lost
          /\ file' = IF file.there THEN [there |-> FALSE, shows |-> j.shows] ELSE file
      BY <2>3 DEF PoolRuns
    <3> QED
      BY <1>1, <2>1, <2>3, <3>1 DEF FileState
  <2>4. CASE j.what = "write"
    <3>1. /\ file' = [there |-> TRUE, shows |-> j.shows]
          /\ lost' = IF call[x].kind = "edit" THEN lost \cup ((file.shows \ j.shows) \X {x})
                     ELSE lost
      BY <2>4 DEF PoolRuns
    <3>2. file' \in FileState /\ file'.shows = j.shows
      BY <1>1, <3>1 DEF FileState
    <3>3. lost' \in SUBSET (Calls \X Calls)
      BY <1>1, <2>1, <3>1
    <3> QED
      BY <2>4, <3>1, <3>2, <3>3
  <2> QED
    BY <1>1, <2>2, <2>3, <2>4
<1>10. ToolTypeOK'
  BY <1>2, <1>4, <1>6, <1>9 DEF ToolTypeOK
<1>11. StageInv'
  <2>1. j.what = "read" => call[x].kind = "edit"
    BY DEF JobInv
  <2> QED
    BY <1>1, <1>2, <1>3, <1>4, <1>6, <2>1 DEF StageInv, Running, Cut
<1>12. ExclusionInv'
  BY <1>2, <1>5 DEF ExclusionInv, Exclusive, ToolTypeOK
<1>13. JobInv'
  <2>1. ASSUME NEW k \in pool'
        PROVE  /\ k \in pool /\ k.of \in Calls /\ k.of # x /\ call'[k.of] = call[k.of]
               /\ Cut(k.of)' <=> Cut(k.of)
    BY <1>4, <1>5, <1>6
  <2> QED
    BY <2>1 DEF JobInv
<1>14. WrittenInv'
  <2>1. ASSUME NEW d \in Calls, Appears(d)' PROVE (d = x /\ j.what # "read") \/ Appears(d)
    <3>1. CASE d \in file'.shows
      BY <1>8, <1>9, <3>1 DEF Appears
    <3>2. CASE \E e \in Calls : d \in call'[e].seen.shows
      BY <1>3, <1>4, <1>5, <3>2 DEF Appears
    <3> QED
      BY <2>1, <3>1, <3>2 DEF Appears
  <2> QED
    BY <1>2, <1>3, <1>4, <1>6, <1>7, <2>1 DEF WrittenInv
<1>15. SeenInv'
  <2> SUFFICES ASSUME NEW d \in Calls, Reads(d)', ~Cut(d)' PROVE AsSeen(d)'
    BY DEF SeenInv
  <2>1. CASE d = x
    <3>1. j.what = "read"
      BY <1>1, <1>3, <1>4, <1>5, <1>6, <2>1 DEF Reads, Cut
    <3> QED
      BY <1>3, <1>4, <1>9, <2>1, <3>1 DEF AsSeen
  <2>2. CASE d # x
    <3>1. Reads(d) /\ ~Cut(d) /\ call'[d].seen = call[d].seen
      BY <1>2, <1>4, <1>5, <2>2 DEF Reads
    <3>2. Cut(x)
      <4>1. d \in inside /\ call[d].kind \in {"edit", "compile"}
        BY <3>1 DEF Reads, JobInv, StageInv, Running, Cut
      <4>2. ~Cut(x) => x \in inside
        BY <1>1, <1>6 DEF StageInv, Running
      <4> QED
        BY <2>2, <4>1, <4>2 DEF ExclusionInv, Exclusive
    <3>3. x \notin call[d].seen.shows
      BY <1>7 DEF Appears
    <3>4. CASE file' = file
      BY <1>5, <3>1, <3>4 DEF SeenInv, AsSeen
    <3>5. CASE file' # file
      BY <1>1, <1>5, <1>8, <1>9, <3>1, <3>2, <3>3, <3>5 DEF AsSeen
    <3> QED
      BY <3>4, <3>5
  <2> QED
    BY <2>1, <2>2
<1>16. LostInv'
  <2> SUFFICES ASSUME NEW p \in lost', ~Cut(p[2]) PROVE \E q \in lost' : q[2] = p[2] /\ Cut(q[1])
    BY <1>5, <1>10 DEF LostInv, ToolTypeOK
  <2>1. CASE p \in lost
    BY <1>9, <2>1 DEF LostInv
  <2>2. CASE p \notin lost
    <3>1. /\ j.what = "write" /\ call[x].kind = "edit" /\ p \in (file.shows \ j.shows) \X {x}
          /\ lost' = lost \cup ((file.shows \ j.shows) \X {x})
      BY <1>9, <2>2
    <3>2. p[1] \in file.shows \ j.shows /\ p[2] = x
      BY <3>1
    <3>3. j.shows = call[x].seen.shows \cup {x}
      BY <3>1 DEF JobInv
    <3>4. Reads(x)
      BY <3>1 DEF Reads
    <3>5. PICK d \in Calls : Cut(d) /\ d \in file.shows \ call[x].seen.shows
      BY <1>1, <3>2, <3>3, <3>4 DEF SeenInv, AsSeen
    <3>6. <<d, x>> \in lost' /\ <<d, x>>[1] = d /\ <<d, x>>[2] = x
      BY <3>1, <3>2, <3>3, <3>5
    <3> QED
      BY <3>2, <3>5, <3>6
  <2> QED
    BY <2>1, <2>2
<1> QED
  BY <1>10, <1>11, <1>12, <1>13, <1>14, <1>15, <1>16

\* However calls time out, are stopped or lose their client, no process outlives its call or
\* shares the workspace with an exclusive one, and an edit or a compilation is surprised only
\* by a job whose call was cut (run_bounded, workspace_lock).
THEOREM FenceHolds == ToolSpec => []WorkspaceIsFenced
<1>1. ToolInit => ToolInv
  <2> SUFFICES ASSUME ToolInit PROVE ToolInv
    OBVIOUS
  <2>1. /\ call = [c \in Calls |-> Unborn] /\ inside = {} /\ pool = {} /\ lost = {}
        /\ file = Empty /\ current = NoCall
    BY DEF ToolInit
  <2>2. /\ Unborn.kind = "none" /\ Unborn.pc = "unused" /\ Unborn.seen = Empty /\ ~Unborn.dropped
        /\ Unborn.proc = NoProcess /\ Empty.shows = {}
    BY DEF Unborn, Empty
  <2>3. Empty \in FileState /\ NoProcess \in Process /\ Unborn \in CallState
    BY DEF Empty, FileState, NoProcess, Process, Unborn, CallState
  <2>4. ToolTypeOK
    BY <2>1, <2>3 DEF ToolTypeOK
  <2>5. StageInv /\ ExclusionInv /\ JobInv /\ LostInv
    BY <2>1, <2>2 DEF StageInv, ExclusionInv, JobInv, LostInv, Running
  <2>6. WrittenInv /\ SeenInv
    BY <2>1, <2>2 DEF WrittenInv, Appears, SeenInv, Reads
  <2> QED
    BY <2>4, <2>5, <2>6 DEF ToolInv
<1>2. ToolInv /\ [ToolNext]_toolVars => ToolInv'
  <2> SUFFICES ASSUME ToolInv, [ToolNext]_toolVars PROVE ToolInv'
    OBVIOUS
  <2>1. current \in Calls \cup {NoCall}
    BY DEF ToolInv, ToolTypeOK
  <2>2. CASE RouterTimesOut
    <3>1. current \in Calls /\ Dropped(current) /\ current' = NoCall /\ UNCHANGED <<pool, file, lost>>
      BY <2>1, <2>2 DEF RouterTimesOut
    <3> QED
      BY <3>1, DroppedKeeps
  <2>3. CASE RunStops \/ UNCHANGED toolVars
    <3>1. UNCHANGED <<call, inside, pool, file, lost>> /\ current' \in Calls \cup {NoCall}
      BY <2>1, <2>3 DEF RunStops, toolVars
    <3>2. ToolTypeOK' /\ StageInv' /\ ExclusionInv'
      BY <3>1 DEF ToolInv, ToolTypeOK, StageInv, ExclusionInv, Exclusive
    <3>3. JobInv' /\ LostInv'
      BY <3>1 DEF ToolInv, JobInv, LostInv, Cut
    <3>4. WrittenInv' /\ SeenInv'
      BY <3>1 DEF ToolInv, WrittenInv, Appears, SeenInv, Reads, AsSeen, Cut
    <3> QED
      BY <3>2, <3>3, <3>4 DEF ToolInv
  <2>4. ASSUME NEW j \in pool, PoolRuns(j) PROVE ToolInv'
    BY <2>4, PoolKeeps
  <2>5. ASSUME NEW c \in Calls, RequestDelete(c) \/ \E kind \in Tools : BeginCall(c, kind)
        PROVE  ToolInv'
    BY <2>1, <2>5, ArriveKeeps DEF RequestDelete, BeginCall
  <2>6. ASSUME NEW c \in Calls, AbortedTaskIsDropped(c) \/ ClientDisconnects(c) PROVE ToolInv'
    BY <2>1, <2>6, DroppedKeeps DEF AbortedTaskIsDropped, ClientDisconnects
  <2>7. ASSUME NEW c \in Calls, Answers(c) \/ ProcessReturns(c) \/ ProcessIsTerminated(c)
        PROVE  ToolInv'
    <3>1. Finish(c) /\ UNCHANGED <<pool, file, lost>> /\ call[c].pc \in {"read", "answered", "process"}
      BY <2>7 DEF Answers, ProcessReturns, ProcessIsTerminated
    <3>2. call[c].pc # "pool" /\ ~call[c].dropped
      BY <3>1 DEF ToolInv, StageInv
    <3> QED
      BY <3>1, <3>2, FinishKeeps
  <2> QED
    BY <2>2, <2>3, <2>4, <2>5, <2>6, <2>7, ExitKeeps, WriteKeeps, DecideKeeps, EnterKeeps
       DEF ToolNext
<1>3. ToolInv => WorkspaceIsFenced
  <2> SUFFICES ASSUME ToolInv PROVE WorkspaceIsFenced
    OBVIOUS
  <2>1. ASSUME NEW c \in Calls, ProcessAlive(c) PROVE c \in inside /\ call[c].pc = "process"
    <3>1. call[c].pc = "process"
      BY <2>1 DEF ProcessAlive, ToolInv, StageInv, NoProcess
    <3> QED
      BY <3>1 DEF ToolInv, StageInv, Running
  <2>2. ProcessesAreFenced
    BY <2>1 DEF ProcessesAreFenced, ToolInv, ExclusionInv, Exclusive
  <2>3. ASSUME NEW c \in Calls, call[c].kind = "compile", ProcessAlive(c)
        PROVE  file = call[c].seen \/ \E d \in Calls : Cut(d) /\ d \in file.shows
    <3>1. Reads(c) /\ ~Cut(c)
      BY <2>1, <2>3 DEF Reads, Cut, ToolInv, StageInv
    <3> QED
      BY <3>1 DEF ToolInv, SeenInv, AsSeen
  <2> QED
    BY <2>2, <2>3 DEF WorkspaceIsFenced, OnlyCutCallsInterfere, ToolInv, LostInv
<1> QED
  BY <1>1, <1>2, <1>3, PTL DEF ToolSpec

-----------------------------------------------------------------------------
(* The memory: the invariant *)

\* A row was reviewed or needs no review, and what replaced it needed none.
RowInv ==
    /\ DOMAIN row = Ids
    /\ \A m \in Ids : /\ "status" \in DOMAIN row[m]
                      /\ IsRow(m) => {"by", "risky", "origin"} \subseteq DOMAIN row[m]
    /\ RiskyIsReviewed
    /\ \A m \in Ids : IsRow(m) => \A n \in row[m].by : n \in Ids /\ IsRow(n) /\ ~row[n].risky

\* An extraction that is about to replace a claim has inserted one that needs no review.
ExtractionInv ==
    /\ DOMAIN job = Extractions
    /\ \A j \in Extractions :
         /\ "pc" \in DOMAIN job[j]
         /\ job[j].pc \in {"item", "replace"} => "old" \in DOMAIN job[j]
         /\ job[j].pc = "replace" =>
              \A pair \in job[j].old : pair[2] \in Ids /\ IsRow(pair[2]) /\ ~row[pair[2]].risky

\* A row that was dead when a recall began, and was not approved since, is not active.
RecallInv ==
    /\ DOMAIN recall = Recalls
    /\ \A r \in Recalls :
         recall[r].pc # "idle" =>
           /\ {"pc", "cands", "hits", "out", "dead"} \subseteq DOMAIN recall[r]
           /\ \A m \in recall[r].dead : m \in Ids /\ IsRow(m) /\ row[m].status # "active"
           /\ recall[r].out \cap recall[r].dead = {}

\* A row the sweep has still to visit exists.
SweepInv == \A m \in sweep : m \in Ids /\ IsRow(m)

\* The inductive invariant of the memory.
MemoryInv == RowInv /\ ExtractionInv /\ RecallInv /\ SweepInv

\* What a step may do to the rows: no row disappears, changes where it comes from or is
\* revived, what replaces a row needs no review, and a new row is active only without risk.
RowsGoOn ==
    /\ DOMAIN row' = Ids
    /\ \A m \in Ids : /\ "status" \in DOMAIN row'[m]
                      /\ IsRow(m)' => {"by", "risky", "origin"} \subseteq DOMAIN row'[m]
    /\ \A m \in Ids : IsRow(m) =>
         /\ IsRow(m)' /\ row'[m].risky = row[m].risky /\ row'[m].origin = row[m].origin
         /\ row'[m].status = "active" => row[m].status = "active"
         /\ \A n \in row'[m].by : n \in row[m].by \/ (n \in Ids /\ IsRow(n) /\ ~row[n].risky)
    /\ \A m \in Ids : ~IsRow(m) /\ IsRow(m)' =>
         /\ row'[m].by = {}
         /\ row'[m].status = "active" /\ row'[m].origin = "auto" => ~row'[m].risky

\* What such a step keeps, whatever else it does.
LEMMA RowsKeep ==
    ASSUME MemoryInv, RowsGoOn
    PROVE  /\ approved' = approved => RowInv'
           /\ job' = job => ExtractionInv'
           /\ recall' = recall => RecallInv'
           /\ sweep' \subseteq sweep => SweepInv'
<1>1. ASSUME approved' = approved PROVE RowInv'
  <2>1. RiskyIsReviewed'
    BY <1>1 DEF MemoryInv, RowInv, RowsGoOn, RiskyIsReviewed, IsRow
  <2>2. \A m \in Ids : IsRow(m)' => \A n \in row'[m].by : n \in Ids /\ IsRow(n)' /\ ~row'[n].risky
    BY DEF MemoryInv, RowInv, RowsGoOn
  <2> QED
    BY <2>1, <2>2 DEF RowInv, RowsGoOn
<1>2. ASSUME job' = job PROVE ExtractionInv'
  BY <1>2 DEF MemoryInv, ExtractionInv, RowsGoOn
<1>3. ASSUME recall' = recall PROVE RecallInv'
  BY <1>3 DEF MemoryInv, RecallInv, RowsGoOn
<1>4. ASSUME sweep' \subseteq sweep PROVE SweepInv'
  BY <1>4 DEF MemoryInv, SweepInv, RowsGoOn
<1> QED
  BY <1>1, <1>2, <1>3, <1>4

\* A step that leaves the rows alone.
LEMMA RowsSame ==
    ASSUME MemoryInv, row' = row \/ (DOMAIN row' = Ids /\ \A m \in Ids : row'[m] = row[m])
    PROVE  RowsGoOn
<1>1. DOMAIN row' = Ids /\ \A m \in Ids : row'[m] = row[m] /\ (IsRow(m)' <=> IsRow(m))
  BY DEF MemoryInv, RowInv, IsRow
<1> QED
  BY <1>1 DEF MemoryInv, RowInv, RowsGoOn

\* A new row, which is active only without risk or by a user's word.
LEMMA InsertGoesOn ==
    ASSUME MemoryInv, NEW m \in Ids, ~IsRow(m), NEW x, row' = [row EXCEPT ![m] = x],
           {"status", "by", "risky", "origin"} \subseteq DOMAIN x,
           x.status \in {"active", "candidate"}, x.by = {},
           x.status = "active" /\ x.origin = "auto" => ~x.risky
    PROVE  RowsGoOn /\ IsRow(m)' /\ row'[m].risky = x.risky
<1>1. DOMAIN row' = Ids /\ row'[m] = x /\ \A n \in Ids \ {m} : row'[n] = row[n]
  BY DEF MemoryInv, RowInv
<1>2. IsRow(m)' /\ \A n \in Ids \ {m} : IsRow(n)' <=> IsRow(n)
  BY <1>1 DEF IsRow
<1> QED
  BY <1>1, <1>2 DEF MemoryInv, RowInv, RowsGoOn

\* A row that changes, but not to active.
LEMMA ChangeGoesOn ==
    ASSUME MemoryInv, NEW m \in Ids, IsRow(m), NEW x, row' = [row EXCEPT ![m] = x],
           {"status", "by", "risky", "origin"} \subseteq DOMAIN x,
           x.risky = row[m].risky, x.origin = row[m].origin, x.status # "absent",
           x.status = "active" => row[m].status = "active",
           \A n \in x.by : n \in row[m].by \/ (n \in Ids /\ IsRow(n) /\ ~row[n].risky)
    PROVE  RowsGoOn
<1>1. DOMAIN row' = Ids /\ row'[m] = x /\ \A n \in Ids \ {m} : row'[n] = row[n]
  BY DEF MemoryInv, RowInv
<1>2. IsRow(m)' /\ \A n \in Ids \ {m} : IsRow(n)' <=> IsRow(n)
  BY <1>1 DEF IsRow
<1> QED
  BY <1>1, <1>2 DEF MemoryInv, RowInv, RowsGoOn

\* A row that is set to another status than active.
LEMMA StatusGoesOn ==
    ASSUME MemoryInv, NEW m \in Ids, IsRow(m), NEW status \in {"candidate", "superseded", "deleted"},
           row' = [row EXCEPT ![m].status = status]
    PROVE  RowsGoOn
<1> DEFINE x == [row[m] EXCEPT !.status = status]
<1>1. {"status", "by", "risky", "origin"} \subseteq DOMAIN row[m] /\ m \in DOMAIN row
  BY DEF MemoryInv, RowInv
<1>2. /\ {"status", "by", "risky", "origin"} \subseteq DOMAIN x /\ x.status = status
      /\ x.risky = row[m].risky /\ x.origin = row[m].origin /\ x.by = row[m].by
  BY <1>1
<1>3. row' = [row EXCEPT ![m] = x]
  BY <1>1
<1> HIDE DEF x
<1> QED
  BY <1>2, <1>3, ChangeGoesOn

-----------------------------------------------------------------------------
(* The memory: the steps *)

\* A step of one extraction.
LEMMA ExtractionGoesOn ==
    ASSUME MemoryInv, RowsGoOn, NEW j \in Extractions, NEW x, job' = [job EXCEPT ![j] = x],
           "pc" \in DOMAIN x, x.pc \in {"item", "replace"} => "old" \in DOMAIN x,
           x.pc = "replace" =>
              \A pair \in x.old : pair[2] \in Ids /\ IsRow(pair[2])' /\ ~row'[pair[2]].risky
    PROVE  ExtractionInv'
<1>1. DOMAIN job' = Extractions /\ job'[j] = x /\ \A i \in Extractions \ {j} : job'[i] = job[i]
  BY DEF MemoryInv, ExtractionInv
<1>2. ASSUME NEW i \in Extractions \ {j}, job[i].pc = "replace", NEW pair \in job[i].old
      PROVE  pair[2] \in Ids /\ IsRow(pair[2])' /\ ~row'[pair[2]].risky
  BY <1>2 DEF MemoryInv, ExtractionInv, RowsGoOn
<1> QED
  BY <1>1, <1>2 DEF MemoryInv, ExtractionInv

\* The step to the next item of a batch.
LEMMA NextItemGoesOn ==
    ASSUME MemoryInv, RowsGoOn, NEW j \in Extractions, job[j].pc \in {"item", "replace"},
           job' = NextItem(j)
    PROVE  ExtractionInv'
<1>1. "pc" \in DOMAIN job[j] /\ "old" \in DOMAIN job[j] /\ j \in DOMAIN job
  BY DEF MemoryInv, ExtractionInv
<1> DEFINE x == IF Len(job[j].items) = 1 THEN [pc |-> "done"]
                ELSE [job[j] EXCEPT !.items = Tail(@), !.pc = "item", !.old = {}]
<1>2. job' = [job EXCEPT ![j] = x]
  BY <1>1 DEF NextItem
<1>3. "pc" \in DOMAIN x /\ (x.pc \in {"item", "replace"} => "old" \in DOMAIN x) /\ x.pc # "replace"
  <2>1. CASE Len(job[j].items) = 1
    BY <2>1
  <2>2. CASE Len(job[j].items) # 1
    BY <1>1, <2>2
  <2> QED
    BY <2>1, <2>2
<1> HIDE DEF x
<1> QED
  BY <1>2, <1>3, ExtractionGoesOn

\* What becomes of an item.
LEMMA Decided ==
    ASSUME NEW existing, NEW item, NEW d \in Decisions(existing, item)
    PROVE  \/ d.kind = "duplicate"
           \/ /\ d.kind = "promote" /\ d.status \in {"active", "candidate"}
              /\ d.status = "active" => ~item.risky
           \/ d.kind = "supersede" /\ ~item.risky
<1>1. CASE Duplicates(existing, item) # {}
  BY <1>1 DEF Decisions
<1>2. CASE Duplicates(existing, item) = {} /\ NeedsReview(item)
  BY <1>2 DEF Decisions
<1>3. CASE Duplicates(existing, item) = {} /\ ~NeedsReview(item)
  BY <1>3 DEF Decisions, NeedsReview
<1> QED
  BY <1>1, <1>2, <1>3

\* An extraction that has not come to its items yet.
LEMMA BeginKeeps ==
    ASSUME MemoryInv, NEW j \in Extractions, Extract(j) \/ ResolveProject(j) \/ LoadExisting(j)
    PROVE  MemoryInv'
<1>1. UNCHANGED <<row, recall, approved, sweep>> /\ RowsGoOn
  BY RowsSame DEF Extract, ResolveProject, LoadExisting
<1>2. "pc" \in DOMAIN job[j] /\ j \in DOMAIN job
  BY DEF MemoryInv, ExtractionInv
<1>3. CASE Extract(j)
  <2>1. PICK p \in Projects \union {Profile}, first \in Items,
             more \in {<<>>} \union {<<i>> : i \in Items} :
           job' = [job EXCEPT ![j] = [pc |-> "resolve", project |-> p, items |-> <<first>> \o more]]
    BY <1>3 DEF Extract
  <2> DEFINE x == [pc |-> "resolve", project |-> p, items |-> <<first>> \o more]
  <2>3. job' = [job EXCEPT ![j] = x] /\ "pc" \in DOMAIN x /\ x.pc = "resolve"
    BY <2>1
  <2> HIDE DEF x
  <2>2. ExtractionInv'
    BY <1>1, <2>3, ExtractionGoesOn
  <2> QED
    BY <1>1, <2>2, RowsKeep DEF MemoryInv
<1>4. CASE ResolveProject(j)
  <2> DEFINE x == [job[j] EXCEPT !.pc = "load", !.project = IF @ \in projects THEN @ ELSE Profile]
  <2>1. job' = [job EXCEPT ![j] = x] /\ "pc" \in DOMAIN x /\ x.pc = "load"
    BY <1>2, <1>4 DEF ResolveProject
  <2> HIDE DEF x
  <2>2. ExtractionInv'
    BY <1>1, <2>1, ExtractionGoesOn
  <2> QED
    BY <1>1, <2>2, RowsKeep DEF MemoryInv
<1>5. CASE LoadExisting(j)
  <2> DEFINE x == [pc |-> "item", project |-> job[j].project, items |-> job[j].items,
                   existing |-> [m \in {n \in Visible(job[j].project) : Standing(n)} |->
                                 [body |-> row[m].body, status |-> row[m].status]],
                   old |-> {}]
  <2>1. job' = [job EXCEPT ![j] = x] /\ {"pc", "old"} \subseteq DOMAIN x /\ x.pc = "item"
    BY <1>2, <1>5 DEF LoadExisting
  <2> HIDE DEF x
  <2>2. ExtractionInv'
    BY <1>1, <2>1, ExtractionGoesOn
  <2> QED
    BY <1>1, <2>2, RowsKeep DEF MemoryInv
<1> QED
  BY <1>3, <1>4, <1>5

\* An item is dropped, promoted, or inserted to replace a claim: the last without risk only.
LEMMA ConsolidateKeeps ==
    ASSUME MemoryInv, NEW j \in Extractions, Consolidate(j)
    PROVE  MemoryInv'
<1> DEFINE item == Head(job[j].items)
           p == job[j].project
<1>1. job[j].pc = "item" /\ UNCHANGED <<recall, approved, sweep>>
  BY DEF Consolidate
<1>2. {"pc", "old"} \subseteq DOMAIN job[j] /\ j \in DOMAIN job
  BY <1>1 DEF MemoryInv, ExtractionInv
<1>3. PICK d \in Decisions(job[j].existing, item) :
           \/ job' = NextItem(j) /\ row' = row
           \/ /\ d.kind # "duplicate"
              /\ \E m \in Fresh, ok \in BOOLEAN :
                    /\ row' = [row EXCEPT ![m] = NewRow(item, p, StatusOf(d, item), "auto")]
                    /\ job' = IF d.kind = "supersede" /\ ok
                                THEN [job EXCEPT ![j].pc = "replace", ![j].old = {<<d.old, m>>}]
                                ELSE NextItem(j)
  BY DEF Consolidate
<1>4. CASE job' = NextItem(j) /\ row' = row
  <2>1. RowsGoOn
    BY <1>4, RowsSame
  <2> QED
    BY <1>1, <1>4, <2>1, NextItemGoesOn, RowsKeep DEF MemoryInv
<1>5. CASE d.kind # "duplicate" /\
           \E m \in Fresh, ok \in BOOLEAN :
                    /\ row' = [row EXCEPT ![m] = NewRow(item, p, StatusOf(d, item), "auto")]
                    /\ job' = IF d.kind = "supersede" /\ ok
                                THEN [job EXCEPT ![j].pc = "replace", ![j].old = {<<d.old, m>>}]
                                ELSE NextItem(j)
  <2>1. PICK m \in Fresh, ok \in BOOLEAN :
                    /\ row' = [row EXCEPT ![m] = NewRow(item, p, StatusOf(d, item), "auto")]
                    /\ job' = IF d.kind = "supersede" /\ ok
                                THEN [job EXCEPT ![j].pc = "replace", ![j].old = {<<d.old, m>>}]
                                ELSE NextItem(j)
    BY <1>5
  <2>2. m \in Ids /\ ~IsRow(m)
    BY DEF Fresh
  <2> DEFINE status == StatusOf(d, item)
  <2>3. /\ status \in {"active", "candidate"} /\ (status = "active" => ~item.risky)
        /\ d.kind = "supersede" => ~item.risky
    BY <1>5, Decided DEF StatusOf
  <2> HIDE DEF status, item
  <2>4. RowsGoOn /\ IsRow(m)' /\ row'[m].risky = item.risky
    <3>1. row' = [row EXCEPT ![m] = NewRow(item, p, status, "auto")]
      BY <2>1 DEF status
    <3> DEFINE x == NewRow(item, p, status, "auto")
    <3>2. /\ {"status", "by", "risky", "origin"} \subseteq DOMAIN x /\ x.status = status
          /\ x.by = {} /\ x.risky = item.risky
      BY DEF NewRow
    <3> HIDE DEF x
    <3>3. row' = [row EXCEPT ![m] = x]
      BY <3>1 DEF x
    <3> QED
      BY <2>2, <2>3, <3>2, <3>3, InsertGoesOn
  <2>5. ExtractionInv'
    <3>1. CASE d.kind = "supersede" /\ ok
      <4> DEFINE x == [job[j] EXCEPT !.pc = "replace", !.old = {<<d.old, m>>}]
      <4>1. /\ job' = [job EXCEPT ![j] = x] /\ {"pc", "old"} \subseteq DOMAIN x
            /\ x.old = {<<d.old, m>>}
        BY <1>2, <2>1, <3>1
      <4> HIDE DEF x
      <4>2. \A pair \in x.old : pair[2] = m
        BY <4>1
      <4>3. ~row'[m].risky
        BY <2>3, <2>4, <3>1
      <4> QED
        BY <2>2, <2>4, <4>1, <4>2, <4>3, ExtractionGoesOn
    <3>2. CASE ~(d.kind = "supersede" /\ ok)
      BY <1>1, <2>1, <2>4, <3>2, NextItemGoesOn
    <3> QED
      BY <3>1, <3>2
  <2> QED
    BY <1>1, <2>4, <2>5, RowsKeep DEF MemoryInv
<1> QED
  BY <1>3, <1>4, <1>5

\* The claim replaced keeps the id of the one in its place.
LEMMA SupersedeKeeps ==
    ASSUME MemoryInv, NEW j \in Extractions, Supersede(j)
    PROVE  MemoryInv'
<1>1. job[j].pc = "replace" /\ job' = NextItem(j) /\ UNCHANGED <<recall, approved, sweep>>
  BY DEF Supersede
<1>2. RowsGoOn
  <2>1. PICK pair \in job[j].old :
          \/ row' = row
          \/ /\ Standing(pair[1])
             /\ row' = [row EXCEPT ![pair[1]].status = "superseded", ![pair[1]].by = {pair[2]}]
    BY DEF Supersede
  <2>2. pair[2] \in Ids /\ IsRow(pair[2]) /\ ~row[pair[2]].risky
    BY <1>1 DEF MemoryInv, ExtractionInv
  <2>3. \A n \in {pair[2]} : n \in Ids /\ IsRow(n) /\ ~row[n].risky
    BY <2>2
  <2>4. CASE row' = row
    BY <2>4, RowsSame
  <2>5. CASE /\ Standing(pair[1])
             /\ row' = [row EXCEPT ![pair[1]].status = "superseded", ![pair[1]].by = {pair[2]}]
    <3>1. IsRow(pair[1])
      BY <2>5 DEF Standing, IsRow
    <3> DEFINE old == pair[1]
               x == [row[old] EXCEPT !.status = "superseded", !.by = {pair[2]}]
    <3>2. CASE old \notin Ids
      <4>1. DOMAIN row' = Ids /\ \A m \in Ids : row'[m] = row[m]
        BY <2>5, <3>2 DEF MemoryInv, RowInv
      <4> QED
        BY <4>1, RowsSame
    <3>3. CASE old \in Ids
      <4>1. {"status", "by", "risky", "origin"} \subseteq DOMAIN row[old] /\ old \in DOMAIN row
        BY <3>1, <3>3 DEF MemoryInv, RowInv
      <4>2. /\ {"status", "by", "risky", "origin"} \subseteq DOMAIN x /\ x.status = "superseded"
            /\ x.risky = row[old].risky /\ x.origin = row[old].origin /\ x.by = {pair[2]}
        BY <4>1
      <4>3. row' = [row EXCEPT ![old] = x]
        BY <2>5, <4>1
      <4> HIDE DEF x, old
      <4>4. IsRow(old)
        BY <3>1 DEF old
      <4> QED
        BY <2>3, <3>3, <4>2, <4>3, <4>4, ChangeGoesOn
    <3> QED
      BY <3>2, <3>3
  <2> QED
    BY <2>1, <2>4, <2>5
<1> QED
  BY <1>1, <1>2, NextItemGoesOn, RowsKeep DEF MemoryInv

\* A step of one recall.
LEMMA RecallGoesOn ==
    ASSUME MemoryInv, RowsGoOn, NEW r \in Recalls, NEW x, recall' = [recall EXCEPT ![r] = x],
           UNCHANGED <<job, approved, sweep>>,
           x.pc # "idle" =>
             /\ {"pc", "cands", "hits", "out", "dead"} \subseteq DOMAIN x
             /\ \A m \in x.dead : m \in Ids /\ IsRow(m) /\ row[m].status # "active"
             /\ x.out \cap x.dead = {}
    PROVE  MemoryInv'
<1>1. DOMAIN recall' = Recalls /\ recall'[r] = x /\ \A q \in Recalls \ {r} : recall'[q] = recall[q]
  BY DEF MemoryInv, RecallInv
<1>2. \A m \in Ids : IsRow(m) /\ row[m].status # "active" => IsRow(m)' /\ row'[m].status # "active"
  BY DEF RowsGoOn
<1>3. RecallInv'
  <2> SUFFICES ASSUME NEW q \in Recalls, recall'[q].pc # "idle"
               PROVE  /\ {"pc", "cands", "hits", "out", "dead"} \subseteq DOMAIN recall'[q]
                      /\ \A m \in recall'[q].dead : m \in Ids /\ IsRow(m)' /\ row'[m].status # "active"
                      /\ recall'[q].out \cap recall'[q].dead = {}
    BY <1>1 DEF RecallInv
  <2>1. CASE q = r
    BY <1>1, <1>2, <2>1
  <2>2. CASE q # r
    BY <1>1, <1>2, <2>2 DEF MemoryInv, RecallInv
  <2> QED
    BY <2>1, <2>2
<1> QED
  BY <1>3, RowsKeep DEF MemoryInv

\* A recall reads, indexes, searches and shows.
LEMMA RecallKeeps ==
    ASSUME MemoryInv, NEW r \in Recalls,
           \/ RecallStart(r) \/ RecallLoad(r) \/ RecallPut(r) \/ RecallSearch(r)
           \/ RecallFetch(r) \/ RecallTouch(r) \/ RecallDone(r)
    PROVE  MemoryInv'
<1> DEFINE Fields == {"pc", "cands", "hits", "out", "dead"}
<1>1. UNCHANGED <<job, approved, sweep>> /\ r \in DOMAIN recall
  BY DEF RecallStart, RecallLoad, RecallPut, RecallSearch, RecallFetch, RecallTouch, RecallDone,
         MemoryInv, RecallInv
<1>2. ~RecallTouch(r) => RowsGoOn
  BY RowsSame DEF RecallStart, RecallLoad, RecallPut, RecallSearch, RecallFetch, RecallTouch, RecallDone
<1>3. recall[r].pc # "idle" =>
        /\ Fields \subseteq DOMAIN recall[r]
        /\ \A m \in recall[r].dead : m \in Ids /\ IsRow(m) /\ row[m].status # "active"
        /\ recall[r].out \cap recall[r].dead = {}
  BY DEF MemoryInv, RecallInv
<1>4. CASE RecallStart(r)
  <2>1. PICK p \in projects \union {Profile} :
          recall' = [recall EXCEPT ![r] =
              [pc |-> IF index = NoIndex THEN "load" ELSE "search", project |-> p,
               cands |-> {}, hits |-> {}, out |-> {}, dead |-> DeadNow]]
    BY <1>4 DEF RecallStart
  <2> DEFINE x == [pc |-> IF index = NoIndex THEN "load" ELSE "search", project |-> p,
                   cands |-> {}, hits |-> {}, out |-> {}, dead |-> DeadNow]
  <2>2. recall' = [recall EXCEPT ![r] = x] /\ Fields \subseteq DOMAIN x /\ x.dead = DeadNow
        /\ x.out = {} /\ x.pc \in {"load", "search"}
    BY <2>1
  <2>3. \A m \in DeadNow : m \in Ids /\ IsRow(m) /\ row[m].status # "active"
    BY DEF DeadNow, IsRow
  <2> HIDE DEF x
  <2> QED
    BY <1>1, <1>2, <1>4, <2>2, <2>3, RecallGoesOn DEF RecallStart, RecallTouch
<1>5. CASE RecallLoad(r) \/ RecallPut(r) \/ RecallSearch(r)
  <2>1. recall[r].pc # "idle"
    BY <1>5 DEF RecallLoad, RecallPut, RecallSearch
  <2>2. PICK x :
          /\ recall' = [recall EXCEPT ![r] = x] /\ Fields \subseteq DOMAIN x
          /\ x.dead = recall[r].dead /\ x.out = recall[r].out
    <3>1. CASE RecallLoad(r)
      <4> DEFINE x == [recall[r] EXCEPT !.pc = "put",
                         !.cands = {m \in Visible(recall[r].project) : row[m].status = "active"}]
      <4>1. recall' = [recall EXCEPT ![r] = x]
        BY <1>1, <3>1 DEF RecallLoad
      <4>2. Fields \subseteq DOMAIN x /\ x.dead = recall[r].dead /\ x.out = recall[r].out
        BY <1>3, <2>1
      <4> QED
        BY <4>1, <4>2
    <3>2. CASE RecallPut(r)
      <4> DEFINE x == [recall[r] EXCEPT !.pc = "search"]
      <4>1. recall' = [recall EXCEPT ![r] = x]
        BY <1>1, <3>2 DEF RecallPut
      <4>2. Fields \subseteq DOMAIN x /\ x.dead = recall[r].dead /\ x.out = recall[r].out
        BY <1>3, <2>1
      <4> QED
        BY <4>1, <4>2
    <3>3. CASE RecallSearch(r)
      <4>1. PICK hits \in SUBSET (IF index = NoIndex THEN {} ELSE index) :
              recall' = [recall EXCEPT ![r].hits = hits,
                                       ![r].pc = IF hits = {} THEN "done" ELSE "fetch"]
        BY <3>3 DEF RecallSearch
      <4> DEFINE x == [recall[r] EXCEPT !.hits = hits, !.pc = IF hits = {} THEN "done" ELSE "fetch"]
      <4>2. recall' = [recall EXCEPT ![r] = x]
        BY <1>1, <4>1
      <4>3. Fields \subseteq DOMAIN x /\ x.dead = recall[r].dead /\ x.out = recall[r].out
        BY <1>3, <2>1
      <4> QED
        BY <4>2, <4>3
    <3> QED
      BY <1>5, <3>1, <3>2, <3>3
  <2>3. RowsGoOn
    BY <1>5, RowsSame DEF RecallLoad, RecallPut, RecallSearch
  <2> QED
    BY <1>1, <1>3, <2>1, <2>2, <2>3, RecallGoesOn
<1>6. CASE RecallFetch(r)
  <2> DEFINE kept == {m \in recall[r].hits : KeptHit(m)}
             x == [recall[r] EXCEPT !.out = kept, !.pc = "touch"]
  <2>1. recall[r].pc # "idle" /\ recall' = [recall EXCEPT ![r] = x]
    BY <1>1, <1>6 DEF RecallFetch
  <2>2. Fields \subseteq DOMAIN x /\ x.dead = recall[r].dead /\ x.out = kept
    BY <1>3, <2>1
  <2>3. kept \cap recall[r].dead = {}
    BY <1>3, <2>1 DEF KeptHit
  <2>4. RowsGoOn
    BY <1>6, RowsSame DEF RecallFetch
  <2> HIDE DEF x, kept
  <2> QED
    BY <1>1, <1>3, <2>1, <2>2, <2>3, <2>4, RecallGoesOn
<1>7. CASE RecallTouch(r)
  <2> DEFINE x == [recall[r] EXCEPT !.pc = "done"]
  <2>1. recall[r].pc # "idle" /\ recall' = [recall EXCEPT ![r] = x]
    BY <1>1, <1>7 DEF RecallTouch
  <2>2. Fields \subseteq DOMAIN x /\ x.dead = recall[r].dead /\ x.out = recall[r].out
    BY <1>3, <2>1
  <2>3. PICK seen \in {recall[r].hits, recall[r].out} :
          row' = [m \in Ids |-> IF m \in seen /\ IsRow(m) THEN [row[m] EXCEPT !.stale = FALSE]
                                ELSE row[m]]
    BY <1>7 DEF RecallTouch
  <2>4. RowsGoOn
    <3>1. ASSUME NEW m \in Ids
          PROVE  /\ DOMAIN row'[m] = DOMAIN row[m] /\ row'[m].status = row[m].status
                 /\ IsRow(m) => row'[m].risky = row[m].risky /\ row'[m].origin = row[m].origin
                                /\ row'[m].by = row[m].by
      BY <2>3, <3>1 DEF MemoryInv, RowInv
    <3>2. DOMAIN row' = Ids /\ \A m \in Ids : IsRow(m)' <=> IsRow(m)
      BY <2>3, <3>1 DEF IsRow
    <3> QED
      BY <3>1, <3>2 DEF MemoryInv, RowInv, RowsGoOn
  <2> HIDE DEF x
  <2> QED
    BY <1>1, <1>3, <2>1, <2>2, <2>4, RecallGoesOn
<1>8. CASE RecallDone(r)
  <2>1. recall' = [recall EXCEPT ![r] = Idle] /\ Idle.pc = "idle"
    BY <1>8 DEF RecallDone, Idle
  <2>2. RowsGoOn
    BY <1>8, RowsSame DEF RecallDone
  <2> QED
    BY <1>1, <2>1, <2>2, RecallGoesOn
<1> QED
  BY <1>4, <1>5, <1>6, <1>7, <1>8

\* A row the user or the sweep touches, or time passes over, and the end of a project.
LEMMA GovernKeeps ==
    ASSUME MemoryInv,
           \/ Remember
           \/ \E m \in Ids : RejectOrDelete(m) \/ Age(m) \/ SweepOne(m) \/ \E b \in Bodies : EditBody(m, b)
           \/ \E p \in projects : DetachProject(p)
           \/ SweepStart
    PROVE  MemoryInv'
<1>1. UNCHANGED <<job, recall, approved>> /\ (~SweepStart => sweep' \subseteq sweep)
  BY DEF Remember, RejectOrDelete, Age, SweepOne, EditBody, DetachProject, SweepStart
<1>2. \A m \in Ids : IsRow(m) => {"status", "by", "risky", "origin"} \subseteq DOMAIN row[m]
  BY DEF MemoryInv, RowInv
<1>3. CASE Remember
  <2>1. PICK m \in Fresh, item \in Items, p \in projects \union {Profile} :
          row' = [row EXCEPT ![m] = NewRow(item, p, "active", "explicit")]
    BY <1>3 DEF Remember
  <2> DEFINE x == NewRow(item, p, "active", "explicit")
  <2>2. /\ {"status", "by", "risky", "origin"} \subseteq DOMAIN x /\ x.status = "active"
        /\ x.by = {} /\ x.origin = "explicit"
    BY DEF NewRow
  <2>3. m \in Ids /\ ~IsRow(m) /\ row' = [row EXCEPT ![m] = x]
    BY <2>1 DEF Fresh
  <2> HIDE DEF x
  <2>4. RowsGoOn
    BY <2>2, <2>3, InsertGoesOn
  <2>5. sweep' \subseteq sweep
    BY <1>3 DEF Remember
  <2> QED
    BY <1>1, <2>4, <2>5, RowsKeep DEF MemoryInv
<1>4. ASSUME NEW m \in Ids, RejectOrDelete(m) PROVE MemoryInv'
  <2>1. IsRow(m) /\ row' = [row EXCEPT ![m].status = "deleted"]
    BY <1>4 DEF RejectOrDelete
  <2>2. RowsGoOn
    BY <2>1, StatusGoesOn
  <2>3. sweep' \subseteq sweep
    BY <1>4 DEF RejectOrDelete
  <2> QED
    BY <1>1, <2>2, <2>3, RowsKeep DEF MemoryInv
<1>5. ASSUME NEW m \in Ids, SweepOne(m) PROVE MemoryInv'
  <2>1. IsRow(m) /\ row' = [row EXCEPT ![m].status = "candidate"]
    BY <1>5 DEF SweepOne, MemoryInv, SweepInv
  <2>2. RowsGoOn
    BY <2>1, StatusGoesOn
  <2>3. sweep' \subseteq sweep
    BY <1>5 DEF SweepOne
  <2> QED
    BY <1>1, <2>2, <2>3, RowsKeep DEF MemoryInv
<1>6. ASSUME NEW m \in Ids, NEW b, EditBody(m, b) \/ Age(m) PROVE MemoryInv'
  <2>1. PICK x : /\ row' = [row EXCEPT ![m] = x] /\ DOMAIN x = DOMAIN row[m] /\ x.status = row[m].status
                 /\ x.risky = row[m].risky /\ x.origin = row[m].origin /\ x.by = row[m].by
    <3>1. IsRow(m) /\ m \in DOMAIN row
      BY <1>6 DEF EditBody, Age, MemoryInv, RowInv
    <3>2. CASE EditBody(m, b)
      <4> DEFINE x == [row[m] EXCEPT !.body = b]
      <4>1. row' = [row EXCEPT ![m] = x]
        BY <3>1, <3>2 DEF EditBody
      <4>2. /\ DOMAIN x = DOMAIN row[m] /\ x.status = row[m].status
            /\ x.risky = row[m].risky /\ x.origin = row[m].origin /\ x.by = row[m].by
        BY <1>2, <3>1
      <4> QED
        BY <4>1, <4>2
    <3>3. CASE Age(m)
      <4> DEFINE x == [row[m] EXCEPT !.stale = TRUE]
      <4>1. row' = [row EXCEPT ![m] = x]
        BY <3>1, <3>3 DEF Age
      <4>2. /\ DOMAIN x = DOMAIN row[m] /\ x.status = row[m].status
            /\ x.risky = row[m].risky /\ x.origin = row[m].origin /\ x.by = row[m].by
        BY <1>2, <3>1
      <4> QED
        BY <4>1, <4>2
    <3> QED
      BY <1>6, <3>2, <3>3
  <2>2. IsRow(m) /\ row[m].status # "absent"
    BY <1>6 DEF EditBody, Age, IsRow
  <2>3. RowsGoOn
    BY <1>2, <2>1, <2>2, ChangeGoesOn
  <2>4. sweep' \subseteq sweep
    BY <1>6 DEF EditBody, Age
  <2> QED
    BY <1>1, <2>3, <2>4, RowsKeep DEF MemoryInv
<1>7. ASSUME NEW p \in projects, DetachProject(p) PROVE MemoryInv'
  <2>1. row' = [m \in Ids |-> IF IsRow(m) /\ row[m].project = p
                              THEN [row[m] EXCEPT !.project = Profile] ELSE row[m]]
    BY <1>7 DEF DetachProject
  <2>2. ASSUME NEW m \in Ids
        PROVE  /\ DOMAIN row'[m] = DOMAIN row[m] /\ row'[m].status = row[m].status
               /\ IsRow(m) => row'[m].risky = row[m].risky /\ row'[m].origin = row[m].origin
                              /\ row'[m].by = row[m].by
    BY <2>1, <2>2 DEF MemoryInv, RowInv
  <2>3. DOMAIN row' = Ids /\ \A m \in Ids : IsRow(m)' <=> IsRow(m)
    BY <2>1, <2>2 DEF IsRow
  <2>4. RowsGoOn
    BY <2>2, <2>3 DEF MemoryInv, RowInv, RowsGoOn
  <2>5. sweep' \subseteq sweep
    BY <1>7 DEF DetachProject
  <2> QED
    BY <1>1, <2>4, <2>5, RowsKeep DEF MemoryInv
<1>8. CASE SweepStart
  <2>1. RowsGoOn
    BY <1>8, RowsSame DEF SweepStart
  <2>2. \A m \in sweep' : m \in Ids /\ row[m].status = "active"
    BY <1>8 DEF SweepStart
  <2>3. SweepInv'
    BY <2>1, <2>2 DEF SweepInv, RowsGoOn, IsRow
  <2> QED
    BY <1>1, <2>1, <2>3, RowsKeep DEF MemoryInv
<1> QED
  BY <1>3, <1>4, <1>5, <1>6, <1>7, <1>8

\* The user's word makes any row active, and no recall counts it dead any more.
LEMMA ApproveKeeps ==
    ASSUME MemoryInv, NEW a \in Ids, Approve(a)
    PROVE  MemoryInv'
<1>1. /\ IsRow(a) /\ row' = [row EXCEPT ![a].status = "active"]
      /\ approved' = approved \union {a} /\ UNCHANGED <<job, sweep>>
      /\ recall' = [r \in Recalls |-> IF recall[r].pc = "idle" THEN recall[r]
                                      ELSE [recall[r] EXCEPT !.dead = @ \ {a}]]
  BY DEF Approve
<1> DEFINE x == [row[a] EXCEPT !.status = "active"]
<1>2. {"status", "by", "risky", "origin"} \subseteq DOMAIN row[a] /\ a \in DOMAIN row
  BY <1>1 DEF MemoryInv, RowInv
<1>3. /\ {"status", "by", "risky", "origin"} \subseteq DOMAIN x /\ x.status = "active"
      /\ x.risky = row[a].risky /\ x.origin = row[a].origin /\ x.by = row[a].by
  BY <1>2
<1>4. row' = [row EXCEPT ![a] = x]
  BY <1>1, <1>2
<1> HIDE DEF x
<1>5. DOMAIN row' = Ids /\ row'[a] = x /\ \A n \in Ids \ {a} : row'[n] = row[n]
  BY <1>4 DEF MemoryInv, RowInv
<1>6. \A m \in Ids : (IsRow(m)' <=> IsRow(m))
  BY <1>1, <1>3, <1>5 DEF IsRow
<1>7. \A m \in Ids : IsRow(m) => row'[m].risky = row[m].risky /\ row'[m].by = row[m].by
  BY <1>1, <1>3, <1>5
<1>8. RowInv'
  <2>1. RiskyIsReviewed'
    BY <1>1, <1>5 DEF MemoryInv, RowInv, RiskyIsReviewed
  <2>2. \A m \in Ids : IsRow(m)' => \A n \in row'[m].by : n \in Ids /\ IsRow(n)' /\ ~row'[n].risky
    BY <1>6, <1>7 DEF MemoryInv, RowInv
  <2>3. \A m \in Ids : /\ "status" \in DOMAIN row'[m]
                       /\ IsRow(m)' => {"by", "risky", "origin"} \subseteq DOMAIN row'[m]
    BY <1>3, <1>5, <1>6 DEF MemoryInv, RowInv
  <2> QED
    BY <1>5, <2>1, <2>2, <2>3 DEF RowInv
<1>9. ExtractionInv' /\ SweepInv'
  BY <1>1, <1>6, <1>7 DEF MemoryInv, ExtractionInv, SweepInv
<1>10. RecallInv'
  <2>1. DOMAIN recall' = Recalls
    BY <1>1
  <2>2. ASSUME NEW r \in Recalls, recall'[r].pc # "idle"
        PROVE  /\ {"pc", "cands", "hits", "out", "dead"} \subseteq DOMAIN recall'[r]
               /\ \A m \in recall'[r].dead : m \in Ids /\ IsRow(m)' /\ row'[m].status # "active"
               /\ recall'[r].out \cap recall'[r].dead = {}
    <3>1. /\ recall[r].pc # "idle" /\ recall'[r] = [recall[r] EXCEPT !.dead = @ \ {a}]
      BY <1>1, <2>2
    <3>2. /\ {"pc", "cands", "hits", "out", "dead"} \subseteq DOMAIN recall[r]
          /\ \A m \in recall[r].dead : m \in Ids /\ IsRow(m) /\ row[m].status # "active"
          /\ recall[r].out \cap recall[r].dead = {}
      BY <3>1 DEF MemoryInv, RecallInv
    <3>3. /\ {"pc", "cands", "hits", "out", "dead"} \subseteq DOMAIN recall'[r]
          /\ recall'[r].dead = recall[r].dead \ {a} /\ recall'[r].out = recall[r].out
      BY <3>1, <3>2
    <3> QED
      BY <1>5, <1>6, <3>2, <3>3
  <2> QED
    BY <2>1, <2>2 DEF RecallInv
<1> QED
  BY <1>8, <1>9, <1>10 DEF MemoryInv

\* Nothing stored, nothing taught, nothing asked.
LEMMA MemoryBegins ==
    ASSUME MemoryInit
    PROVE  MemoryInv
<1>1. /\ row = [m \in Ids |-> Absent] /\ job = [j \in Extractions |-> Idle]
      /\ recall = [r \in Recalls |-> Idle] /\ sweep = {}
  BY DEF MemoryInit
<1>2. Absent.status = "absent" /\ "status" \in DOMAIN Absent
  BY DEF Absent
<1>3. Idle.pc = "idle" /\ "pc" \in DOMAIN Idle
  BY DEF Idle
<1>4. DOMAIN row = Ids /\ \A m \in Ids : row[m] = Absent /\ ~IsRow(m)
  BY <1>1, <1>2 DEF IsRow
<1>5. RowInv
  BY <1>2, <1>4 DEF RowInv, RiskyIsReviewed
<1>6. ExtractionInv
  BY <1>1, <1>3 DEF ExtractionInv
<1>7. RecallInv /\ SweepInv
  BY <1>1, <1>3 DEF RecallInv, SweepInv
<1> QED
  BY <1>5, <1>6, <1>7 DEF MemoryInv

\* Memory is governed for any number of claims, extractions, recalls and user
\* operations, with any of the store's calls failing after its write: a risky claim
\* is active only after an approval, replaces nothing, and no recall answers with a
\* row that was dead when it began (consolidate.rs:88, recall.rs:22-29).
THEOREM MemoryStaysGoverned == MemorySpec => []MemoryIsGoverned
<1>1. MemoryInit => MemoryInv
  BY MemoryBegins
<1>2. MemoryInv /\ [MemoryNext]_memoryVars => MemoryInv'
  <2> SUFFICES ASSUME MemoryInv, [MemoryNext]_memoryVars
               PROVE  MemoryInv'
    OBVIOUS
  <2>1. CASE UNCHANGED memoryVars
    <3>1. UNCHANGED <<row, job, recall, approved, sweep>>
      BY <2>1 DEF memoryVars
    <3> QED
      BY <3>1, RowsSame, RowsKeep DEF MemoryInv
  <2>2. ASSUME NEW j \in Extractions,
               \/ Extract(j) \/ ResolveProject(j) \/ LoadExisting(j)
               \/ Consolidate(j) \/ Supersede(j)
        PROVE  MemoryInv'
    BY <2>2, BeginKeeps, ConsolidateKeeps, SupersedeKeeps
  <2>3. ASSUME NEW r \in Recalls,
               \/ RecallStart(r) \/ RecallLoad(r) \/ RecallPut(r) \/ RecallSearch(r)
               \/ RecallFetch(r) \/ RecallTouch(r) \/ RecallDone(r)
        PROVE  MemoryInv'
    BY <2>3, RecallKeeps
  <2>4. ASSUME NEW m \in Ids, Approve(m)
        PROVE  MemoryInv'
    BY <2>4, ApproveKeeps
  <2>5. CASE \/ Remember
             \/ \E m \in Ids : RejectOrDelete(m) \/ Age(m) \/ SweepOne(m) \/ \E b \in Bodies : EditBody(m, b)
             \/ \E p \in projects : DetachProject(p)
             \/ SweepStart
    BY <2>5, GovernKeeps
  <2> QED
    BY <2>1, <2>2, <2>3, <2>4, <2>5 DEF MemoryNext
<1>3. MemoryInv => MemoryIsGoverned
  <2> SUFFICES ASSUME MemoryInv
               PROVE  MemoryIsGoverned
    OBVIOUS
  <2>1. RiskyIsReviewed /\ RiskyReplacesNothing
    BY DEF MemoryInv, RowInv, RiskyReplacesNothing
  <2>2. RecallIsLive
    BY DEF MemoryInv, RecallInv, RecallIsLive
  <2> QED
    BY <2>1, <2>2 DEF MemoryIsGoverned
<1> QED
  BY <1>1, <1>2, <1>3, PTL DEF MemorySpec
=============================================================================
