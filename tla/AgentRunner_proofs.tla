------------------------- MODULE AgentRunner_proofs -------------------------
(***************************************************************************)
(* Safety of Runner::run for any batches, limits and caps: types, pairing  *)
(* of calls and results, the plan boundary, the transcript, the review and *)
(* the plan.  IInv is the inductive invariant all of them follow from.     *)
(***************************************************************************)
EXTENDS AgentRunner, SequenceTheorems, TLAPS

-----------------------------------------------------------------------------
(* The inductive invariant *)

\* The types of messages, of what the client sees of a turn, and of an outcome.
Texts == {"none", "thinking", "text"}
Entries == [role : {"user", "boundary", "assistant", "tool"}, turn : Nat, text : Texts,
            calls : Seq(Tools), hidden : BOOLEAN, ok : BOOLEAN]
Segments == [text : Texts, calls : Seq(Tools), results : BOOLEAN]
Kinds == {"none", "cancelled", "max_iters", "error", "natural", "awaiting"}
Pauses == {"none", "plan_approval", "user_response", "plan_execution"}
Outcomes == [kind : Kinds, awaiting : Pauses]

\* What TypeOK leaves to the history, the transcript and the outcome.
ShapeOK ==
    /\ messages \in Seq(Entries)
    /\ ui \in Seq(Segments)
    /\ results \in Seq(BOOLEAN)
    /\ then \in {"none", "iterate", "complete"}
    /\ ending \in Outcomes /\ outcome \in Outcomes
    /\ rejected \in SUBSET (1 .. iterations)
    /\ executed \in SUBSET (Nat \X Tools)
    /\ verdict \in Verdicts \cup {"none"}
    /\ saved.plan \in Plans

\* Where a turn stands: the calls served are the calls shown, each has its result, and
\* denials stay within their cap until the last one ends the run.
PhaseInv ==
    /\ pc \in {"start", "iterate", "complete", "done"} \/ iterations >= 1
    /\ pc \in {"tools", "execute", "results", "checkpoint", "settle"} <=> calls # <<>>
    /\ pc \in {"results", "checkpoint", "settle"} => Len(results) = Len(calls)
    /\ published.calls = IF pc \in {"execute", "results"} THEN calls ELSE <<>>
    /\ pc \in {"start", "iterate", "checkpoint", "settle", "reset", "done"} => published = NoTurn
    /\ pc = "reset" => then # "none"
    /\ pc \notin {"complete", "done"} => gate["denial"] <= PLAN_DENIAL_CAP
    /\ pc = "start" => iterations = 0 /\ messages = <<>>

\* The turn under way is shown and in no message yet.
TurnIsOpen ==
    /\ iterations >= 1 /\ iterations \notin rejected
    /\ ui[iterations].text = published.text /\ ui[iterations].calls = published.calls
    /\ \A i \in DOMAIN messages : messages[i].role = "assistant" => messages[i].turn # iterations

\* The turns of an open request are those a client saw, once each.
OpenInv ==
    /\ pc \in {"call", "stream", "length", "tools", "execute", "results", "answer", "review"}
          => TurnIsOpen
    /\ published # NoTurn => TurnIsOpen
    /\ pc = "reset" => ui[iterations].calls = <<>> /\ iterations \in rejected

\* A visible message is a turn the client saw and no gate took back.
Genuine(i) ==
    messages[i].role = "assistant" =>
        /\ messages[i].turn \in 1 .. iterations
        /\ ~messages[i].hidden =>
              /\ messages[i].turn \notin rejected
              /\ messages[i].text # "none" \/ messages[i].calls # <<>>
              /\ ui[messages[i].turn].text = messages[i].text
              /\ ui[messages[i].turn].calls = messages[i].calls
GenuineInv == \A i \in DOMAIN messages : Genuine(i)

\* A turn the client sees is in the history, or is the one under way, or is about to be
\* discarded, unless the run was cancelled.
Kept(n) ==
    ui[n].text # "none" \/ ui[n].calls # <<>> =>
        \/ \E i \in DOMAIN messages :
              /\ messages[i].role = "assistant" /\ ~messages[i].hidden /\ messages[i].turn = n
        \/ n = iterations /\ (published # NoTurn \/ pc = "reset")
        \/ Done("cancelled")
KeptInv == \A n \in 1 .. iterations : Kept(n)

\* An answer under review, and a natural completion, carry the repair that was asked for
\* and what the reviewer said.
ReviewInv ==
    /\ pc = "review" \/ (pc = "complete" /\ ending.kind = "natural") \/ Done("natural")
          => /\ ~PlanMode
             /\ repairFrom # 0 => RepairComplete
             /\ EnforcePlanCompletion => ctx.plan = "done"
    /\ pc = "complete" /\ ending.kind = "natural" => ReviewPasses(verdict)
    /\ Done("natural") => ReviewPasses(verdict) /\ plan = ctx.plan

\* A tool result of the history, and one of the batch under way, that succeeded.
SucceededBefore(name) ==
    \E i \in DOMAIN messages :
        messages[i].role = "tool" /\ messages[i].ok /\ messages[i].calls = <<name>>
SucceededNow(name) == pc = "results" /\ Succeeded(results, name)

\* What the tools made of the plan, the history says or the batch under way has done.
ContextIsBacked ==
    pc # "done" =>
        /\ ctx.plan = "unapproved" =>
              SucceededBefore("generate_plan") \/ SucceededNow("generate_plan")
        /\ ctx.plan = "done" =>
              SucceededBefore("update_step_status") \/ SucceededNow("update_step_status")

\* A planning run has no plan but the one it has just proposed.
OnlyTheProposal ==
    PlanMode =>
        /\ ctx.plan \in {"none", "unapproved"} /\ plan \in {"none", "unapproved"}
        /\ plan = "unapproved" => ctx.plan = "unapproved"
        /\ ctx.plan # "none" => pc \in {"results", "checkpoint", "settle", "complete", "done"}
        /\ pc = "results" /\ ctx.plan # "none" => Succeeded(results, "generate_plan")
        /\ pc \in {"checkpoint", "settle"} => plan = ctx.plan

\* Where the plan in the tool context comes from.
ContextInv == ContextIsBacked /\ OnlyTheProposal

\* The pause about to be announced is the one the last checkpoint has saved.
PauseInv ==
    /\ pc = "settle" => saved = [len |-> Len(messages), plan |-> plan, status |-> CheckpointStatus]
    /\ pc = "complete" /\ ending.kind = "awaiting" =>
          /\ ending.awaiting \in {"plan_approval", "user_response"} =>
                published = NoTurn /\ saved.len = Len(messages)
          /\ ending.awaiting = "plan_approval" =>
                /\ plan = "unapproved" /\ saved.plan = plan /\ ~ctx.ask
                /\ saved.status = "awaiting_plan_approval"
          /\ ending.awaiting = "user_response" => saved.status = "awaiting_user_response"
          /\ ending.awaiting = "plan_execution" => ctx.plan # "done"
    /\ pc = "reset" /\ then = "complete" => ending.kind \in {"error", "awaiting"}
    /\ pc = "reset" /\ ending.kind = "awaiting" /\ then = "complete" =>
          ending.awaiting = "plan_execution" /\ ctx.plan # "done"
    /\ ending.awaiting = "plan_execution" => EnforcePlanCompletion /\ ending.kind = "awaiting"

\* The inductive invariant.
IInv ==
    /\ TypeOK /\ ShapeOK /\ PhaseInv
    /\ NothingRunsBeforeApproval /\ ToolCallsPaired
    /\ OpenInv /\ GenuineInv /\ KeptInv
    /\ ReviewInv /\ ContextInv /\ PauseInv
    /\ PlanBackedByHistory /\ AwaitingIsActionable

-----------------------------------------------------------------------------
(* Requests and turns *)

\* What a request and the turn under way are made of.
LEMMA TurnTypes ==
    ASSUME TypeOK
    PROVE  /\ req.mode \in Modes /\ req.limit \in Nat \ {0} /\ req.userCap \in BOOLEAN
           /\ iterations \in Nat /\ iterations <= req.limit
           /\ Batches[req.mode] \subseteq Seq(Tools) \ {<<>>}
           /\ Streamed[req.mode] \subseteq {"thinking", "text"}
           /\ calls \in Seq(Tools)
           /\ published \in [text : Texts, calls : Seq(Tools)]
           /\ published.text \in Texts /\ published.calls \in Seq(Tools)
<1>1. PICK m \in Modes : req \in [mode : {m}, limit : Limits[m], userCap : BOOLEAN]
  BY DEF TypeOK, Requests
<1>2. req.mode = m /\ req.limit \in Limits[m] /\ req.userCap \in BOOLEAN
  BY <1>1
<1>3. req.limit \in Nat \ {0}
  BY <1>2, RunnerAssumption
<1>4. /\ Batches[req.mode] \subseteq Seq(Tools) \ {<<>>}
      /\ Streamed[req.mode] \subseteq {"thinking", "text"}
  BY <1>2, RunnerAssumption
<1>5. <<>> \in Seq(Tools)
  OBVIOUS
<1>6. calls \in Seq(Tools) /\ published \in [text : Texts, calls : Seq(Tools)]
  BY <1>4, <1>5 DEF TypeOK, Texts
<1> QED
  BY <1>2, <1>3, <1>4, <1>6 DEF TypeOK

-----------------------------------------------------------------------------
(* Entries appended to the history *)

\* Every call of an assistant message is directly followed by its result.
Paired(s) ==
    \A i \in DOMAIN s : s[i].role = "assistant" =>
        \A k \in DOMAIN s[i].calls :
            /\ i + k <= Len(s)
            /\ s[i + k].role = "tool"
            /\ s[i + k].calls = <<s[i].calls[k]>>

\* A concatenation, position by position.
LEMMA Concatenated ==
    ASSUME NEW S, NEW s \in Seq(S), NEW t \in Seq(S)
    PROVE  /\ s \o t \in Seq(S)
           /\ Len(s) \in Nat /\ Len(t) \in Nat
           /\ Len(s \o t) = Len(s) + Len(t)
           /\ DOMAIN s = 1 .. Len(s) /\ DOMAIN t = 1 .. Len(t)
           /\ DOMAIN (s \o t) = 1 .. Len(s) + Len(t)
           /\ \A i \in 1 .. Len(s) : (s \o t)[i] = s[i]
           /\ \A i \in 1 .. Len(t) : (s \o t)[Len(s) + i] = t[i]
           /\ \A i \in DOMAIN (s \o t) :
                 i \in 1 .. Len(s) \/ \E j \in 1 .. Len(t) : i = Len(s) + j
<1>1. /\ s \o t \in Seq(S) /\ Len(s) \in Nat /\ Len(t) \in Nat
      /\ Len(s \o t) = Len(s) + Len(t)
      /\ \A i \in 1 .. Len(s) + Len(t) :
            (s \o t)[i] = IF i <= Len(s) THEN s[i] ELSE t[i - Len(s)]
  BY ConcatProperties, LenProperties
<1>2. DOMAIN s = 1 .. Len(s) /\ DOMAIN t = 1 .. Len(t) /\ DOMAIN (s \o t) = 1 .. Len(s \o t)
  BY <1>1, LenProperties
<1>3. \A i \in 1 .. Len(t) : (s \o t)[Len(s) + i] = t[i]
  <2> SUFFICES ASSUME NEW i \in 1 .. Len(t) PROVE (s \o t)[Len(s) + i] = t[i]
    OBVIOUS
  <2>1. Len(s) + i \in 1 .. Len(s) + Len(t) /\ ~(Len(s) + i <= Len(s)) /\ Len(s) + i - Len(s) = i
    BY <1>1
  <2> QED
    BY <1>1, <2>1
<1>4. \A i \in 1 .. Len(s) + Len(t) :
         i \in 1 .. Len(s) \/ \E j \in 1 .. Len(t) : i = Len(s) + j
  <2> SUFFICES ASSUME NEW i \in 1 .. Len(s) + Len(t), i \notin 1 .. Len(s)
               PROVE  \E j \in 1 .. Len(t) : i = Len(s) + j
    OBVIOUS
  <2>1. i - Len(s) \in 1 .. Len(t) /\ i = Len(s) + (i - Len(s))
    BY <1>1
  <2> QED
    BY <2>1
<1> QED
  BY <1>1, <1>2, <1>3, <1>4

\* A function over the first n positions is a sequence.
LEMMA FunctionIsSeq ==
    ASSUME NEW S, NEW n \in Nat, NEW f \in [1 .. n -> S]
    PROVE  f \in Seq(S)
  OBVIOUS

\* Pairing survives concatenation.
LEMMA PairedConcat ==
    ASSUME NEW s \in Seq(Entries), NEW t \in Seq(Entries), Paired(s), Paired(t)
    PROVE  Paired(s \o t)
<1> DEFINE u == s \o t
<1>1. /\ Len(s) \in Nat /\ Len(t) \in Nat /\ Len(u) = Len(s) + Len(t)
      /\ DOMAIN s = 1 .. Len(s) /\ DOMAIN t = 1 .. Len(t) /\ DOMAIN u = 1 .. Len(s) + Len(t)
      /\ \A i \in 1 .. Len(s) : u[i] = s[i]
      /\ \A i \in 1 .. Len(t) : u[Len(s) + i] = t[i]
      /\ \A i \in DOMAIN u : i \in 1 .. Len(s) \/ \E j \in 1 .. Len(t) : i = Len(s) + j
  BY Concatenated
<1> SUFFICES ASSUME NEW i \in DOMAIN u, u[i].role = "assistant", NEW k \in DOMAIN u[i].calls
             PROVE  i + k <= Len(u) /\ u[i + k].role = "tool" /\ u[i + k].calls = <<u[i].calls[k]>>
  BY DEF Paired
<1> HIDE DEF u
<1>2. CASE i \in 1 .. Len(s)
  <2>1. u[i] = s[i] /\ s[i] \in Entries
    BY <1>1, <1>2
  <2>2. k \in Nat \ {0}
    BY <2>1 DEF Entries
  <2>3. i + k <= Len(s) /\ s[i + k].role = "tool" /\ s[i + k].calls = <<s[i].calls[k]>>
    BY <1>1, <1>2, <2>1 DEF Paired
  <2>4. i + k \in 1 .. Len(s) /\ i + k <= Len(u)
    BY <1>1, <1>2, <2>2, <2>3
  <2> QED
    BY <1>1, <2>1, <2>3, <2>4
<1>3. CASE \E j \in 1 .. Len(t) : i = Len(s) + j
  <2>1. PICK j \in 1 .. Len(t) : i = Len(s) + j
    BY <1>3
  <2>2. u[i] = t[j] /\ t[j] \in Entries
    BY <1>1, <2>1
  <2>3. k \in Nat \ {0}
    BY <2>2 DEF Entries
  <2>4. j + k <= Len(t) /\ t[j + k].role = "tool" /\ t[j + k].calls = <<t[j].calls[k]>>
    BY <1>1, <2>1, <2>2 DEF Paired
  <2>5. j + k \in 1 .. Len(t) /\ i + k = Len(s) + (j + k) /\ i + k <= Len(u)
    BY <1>1, <2>1, <2>3, <2>4
  <2> QED
    BY <1>1, <2>2, <2>4, <2>5
<1> QED
  BY <1>1, <1>2, <1>3

\* The results of a batch of calls.
LEMMA BatchEntries ==
    ASSUME iterations \in Nat, NEW c \in Seq(Tools), NEW oks, \A i \in DOMAIN c : oks[i] \in BOOLEAN
    PROVE  LET b == [i \in DOMAIN c |-> ToolEntry(c[i], oks[i])] IN
           /\ b \in Seq(Entries) /\ Len(b) = Len(c)
           /\ \A i \in 1 .. Len(c) : b[i] = ToolEntry(c[i], oks[i])
<1> DEFINE b == [i \in DOMAIN c |-> ToolEntry(c[i], oks[i])]
<1>1. Len(c) \in Nat /\ DOMAIN c = 1 .. Len(c)
  BY LenProperties
<1>2. ASSUME NEW i \in DOMAIN c PROVE ToolEntry(c[i], oks[i]) \in Entries
  <2>1. c[i] \in Tools
    BY <1>1, <1>2
  <2>2. <<c[i]>> \in Seq(Tools)
    BY <2>1
  <2> QED
    BY <2>2, <1>2 DEF ToolEntry, Entries, Texts
<1>3. b \in [1 .. Len(c) -> Entries]
  BY <1>1, <1>2
<1>4. b \in Seq(Entries) /\ Len(b) = Len(c)
  BY <1>1, <1>3, IsASeq, LenProperties
<1> QED
  BY <1>1, <1>4

\* What a turn leaves in the history: its message and a result for each of its calls.
LEMMA TurnEntries ==
    ASSUME TypeOK, NEW oks, \A i \in DOMAIN published.calls : oks[i] \in BOOLEAN
    PROVE  LET b == [i \in DOMAIN published.calls |-> ToolEntry(published.calls[i], oks[i])]
               t == PublishedMessage \o b
           IN  /\ t \in Seq(Entries) /\ Paired(t)
               /\ \A i \in DOMAIN t : t[i].role = "assistant" =>
                     published # NoTurn /\ t[i] = Assistant(published)
               /\ \A i \in DOMAIN t : t[i].role = "tool" /\ t[i].ok =>
                     \E k \in DOMAIN published.calls : oks[k]
               /\ \A k \in DOMAIN published.calls :
                     \E i \in DOMAIN t : t[i] = ToolEntry(published.calls[k], oks[k])
               /\ published # NoTurn => t # <<>> /\ t[1] = Assistant(published)
<1> DEFINE c == published.calls
           b == [i \in DOMAIN c |-> ToolEntry(c[i], oks[i])]
           p == PublishedMessage
           t == p \o b
<1>1. c \in Seq(Tools) /\ published.text \in Texts /\ iterations \in Nat
  BY TurnTypes
<1>2. /\ b \in Seq(Entries) /\ Len(b) = Len(c)
      /\ \A i \in 1 .. Len(c) : b[i] = ToolEntry(c[i], oks[i])
  BY <1>1, BatchEntries
<1>3. Len(c) \in Nat /\ DOMAIN c = 1 .. Len(c)
  BY <1>1, LenProperties
<1>4. Assistant(published) \in Entries /\ Assistant(published).role = "assistant"
      /\ Assistant(published).calls = c
  BY <1>1 DEF Assistant, Entries
<1>5. CASE published = NoTurn
  <2>1. p = <<>> /\ c = <<>> /\ Len(c) = 0
    BY <1>5 DEF PublishedMessage, NoTurn
  <2>2. b = <<>>
    BY <1>2, <2>1, EmptySeq
  <2>3. t = <<>>
    BY <2>1, <2>2
  <2> QED
    BY <1>5, <2>1, <2>3 DEF Paired
<1>6. CASE published # NoTurn
  <2>1. p = <<Assistant(published)>>
    BY <1>6 DEF PublishedMessage
  <2>2. p \in Seq(Entries) /\ Len(p) = 1 /\ p[1] = Assistant(published)
    BY <1>4, <2>1
  <2> HIDE DEF p, b
  <2>3. /\ t \in Seq(Entries) /\ Len(t) = 1 + Len(c) /\ DOMAIN t = 1 .. 1 + Len(c)
        /\ t[1] = Assistant(published)
        /\ \A i \in 1 .. Len(c) : t[1 + i] = ToolEntry(c[i], oks[i])
        /\ \A i \in DOMAIN t : i = 1 \/ \E j \in 1 .. Len(c) : i = 1 + j
    BY <1>2, <2>2, Concatenated
  <2> HIDE DEF t
  <2>4. \A i \in 1 .. Len(c) : /\ t[1 + i].role = "tool" /\ t[1 + i].calls = <<c[i]>>
                               /\ t[1 + i].ok <=> oks[i]
    <3> SUFFICES ASSUME NEW i \in 1 .. Len(c)
                 PROVE  /\ t[1 + i].role = "tool" /\ t[1 + i].calls = <<c[i]>>
                        /\ t[1 + i].ok <=> oks[i]
      OBVIOUS
    <3>1. t[1 + i] = ToolEntry(c[i], oks[i])
      BY <2>3
    <3>2. ToolEntry(c[i], oks[i]).role = "tool" /\ ToolEntry(c[i], oks[i]).calls = <<c[i]>>
      BY DEF ToolEntry
    <3>3. ToolEntry(c[i], oks[i]).ok <=> oks[i]
      BY DEF ToolEntry
    <3> QED
      BY <3>1, <3>2, <3>3
  <2>5. Paired(t)
    <3> SUFFICES ASSUME NEW i \in DOMAIN t, t[i].role = "assistant", NEW k \in DOMAIN t[i].calls
                 PROVE  /\ i + k <= Len(t) /\ t[i + k].role = "tool"
                        /\ t[i + k].calls = <<t[i].calls[k]>>
      BY DEF Paired
    <3>1. i = 1
      BY <2>3, <2>4
    <3>2. t[i].calls = c /\ k \in 1 .. Len(c)
      BY <1>3, <1>4, <2>3, <3>1
    <3> QED
      BY <1>3, <2>3, <2>4, <3>1, <3>2
  <2>6. t # <<>> /\ 1 \in DOMAIN t
    BY <1>3, <2>3
  <2>7. \A k \in DOMAIN c : 1 + k \in DOMAIN t
    BY <1>3, <2>3
  <2>8. \A i \in DOMAIN t : t[i].role = "assistant" => i = 1
    BY <2>3, <2>4
  <2>9. \A i \in DOMAIN t : t[i].role = "tool" /\ t[i].ok => \E k \in DOMAIN c : oks[k]
    <3> SUFFICES ASSUME NEW i \in DOMAIN t, t[i].role = "tool", t[i].ok
                 PROVE  \E k \in DOMAIN c : oks[k]
      OBVIOUS
    <3>1. PICK j \in 1 .. Len(c) : i = 1 + j
      BY <1>4, <2>3
    <3>2. oks[j]
      BY <2>4, <3>1
    <3> QED
      BY <1>3, <3>2
  <2> QED
    BY <1>3, <1>6, <2>3, <2>5, <2>6, <2>7, <2>8, <2>9 DEF t, p, b
<1> QED
  BY <1>5, <1>6

-----------------------------------------------------------------------------
(* How a step extends the history *)

\* A step appends a well-formed tail: of assistant messages the turn shown so far, hidden
\* when a gate takes it back, and of successful results those of the batch under way.
Grows ==
    \E t \in Seq(Entries) :
        /\ messages' = messages \o t
        /\ Paired(t)
        /\ \A i \in DOMAIN t : t[i].role = "assistant" =>
              /\ published # NoTurn
              /\ t[i].turn = iterations /\ t[i].text = published.text
              /\ t[i].calls = published.calls
              /\ t[i].hidden <=> rejected' # rejected
        /\ \A i \in DOMAIN t : t[i].role = "tool" /\ t[i].ok => pc = "results" /\ pc' = "checkpoint"
        /\ published # NoTurn /\ published' = NoTurn =>
              \E i \in DOMAIN t : t[i].role = "assistant"

\* Most steps leave the history alone, and with it what is shown.
LEMMA Silent ==
    ASSUME ShapeOK, UNCHANGED messages, published = NoTurn \/ published' # NoTurn
    PROVE  Grows
<1> DEFINE t == <<>>
<1>1. t \in Seq(Entries) /\ DOMAIN t = {} /\ messages = messages \o t
  BY ConcatEmptySeq DEF ShapeOK
<1>2. Paired(t)
  BY <1>1 DEF Paired
<1> QED
  BY <1>1, <1>2 DEF Grows

\* The message of a turn without calls.
LEMMA PlainMessage ==
    ASSUME TypeOK, published.calls = <<>>
    PROVE  /\ Assistant(published) \in Entries
           /\ Assistant(published).role = "assistant" /\ ~Assistant(published).hidden
           /\ Assistant(published).turn = iterations
           /\ Assistant(published).text = published.text
           /\ Assistant(published).calls = <<>>
  BY TurnTypes DEF Assistant, Entries

\* A gate, or the end of a run, keeps the turn as it was shown.
LEMMA Commits ==
    ASSUME TypeOK, messages' = CommitPublished, published.calls = <<>>, UNCHANGED rejected
    PROVE  Grows
<1> DEFINE t == PublishedMessage
<1>1. /\ t \in Seq(Entries) /\ \A i \in DOMAIN t : i = 1 /\ t[i] = Assistant(published)
      /\ published # NoTurn => 1 \in DOMAIN t
      /\ published = NoTurn => DOMAIN t = {}
  BY PlainMessage DEF PublishedMessage
<1>2. messages' = messages \o t
  BY DEF CommitPublished
<1> HIDE DEF t
<1>3. Paired(t) /\ \A i \in DOMAIN t : t[i].role = "assistant" /\ t[i].turn = iterations
                       /\ t[i].text = published.text /\ t[i].calls = <<>> /\ ~t[i].hidden
                       /\ published # NoTurn
  BY <1>1, PlainMessage DEF Paired
<1> QED
  BY <1>1, <1>2, <1>3 DEF Grows

\* A gate takes the draft back.
LEMMA TakesBack ==
    ASSUME TypeOK, ShapeOK, NEW next, TakeBackDraft(next), published.calls = <<>>,
           published # NoTurn, iterations \notin rejected
    PROVE  Grows
<1> DEFINE m == [Assistant(published) EXCEPT !.hidden = TRUE]
           t == <<m>>
<1>1. /\ m \in Entries /\ m.role = "assistant" /\ m.hidden /\ m.turn = iterations
      /\ m.text = published.text /\ m.calls = <<>>
  BY PlainMessage DEF Entries
<1>2. messages' = messages \o t /\ rejected' # rejected /\ published' = NoTurn
  BY DEF TakeBackDraft, HiddenMessage
<1> HIDE DEF m
<1>3. t \in Seq(Entries) /\ DOMAIN t = {1} /\ t[1] = m
  BY <1>1
<1> HIDE DEF t
<1>4. Paired(t)
  BY <1>1, <1>3 DEF Paired
<1> QED
  BY <1>1, <1>2, <1>3, <1>4 DEF Grows

\* The results of a batch are published with its turn.
LEMMA ResultsGrow ==
    ASSUME TypeOK, ShapeOK, PhaseInv, PublishToolResults
    PROVE  Grows
<1>1. /\ pc = "results" /\ pc' = "checkpoint" /\ published' = NoTurn /\ UNCHANGED rejected
      /\ messages' = CommitPublished \o [i \in DOMAIN calls |-> ToolEntry(calls[i], results[i])]
  BY DEF PublishToolResults, History
<1>2. published.calls = calls /\ Len(results) = Len(calls)
  BY <1>1 DEF PhaseInv
<1>3. \A i \in DOMAIN published.calls : results[i] \in BOOLEAN
  <2>1. calls \in Seq(Tools) /\ results \in Seq(BOOLEAN)
    BY TurnTypes DEF ShapeOK
  <2> QED
    BY <1>2, <2>1
<1> DEFINE b == [i \in DOMAIN published.calls |-> ToolEntry(published.calls[i], results[i])]
           t == PublishedMessage \o b
<1>4. /\ t \in Seq(Entries) /\ Paired(t)
      /\ \A i \in DOMAIN t : t[i].role = "assistant" =>
            published # NoTurn /\ t[i] = Assistant(published)
      /\ published # NoTurn => t # <<>> /\ t[1] = Assistant(published)
  BY <1>3, TurnEntries
<1>5. messages' = messages \o t
  <2>1. PublishedMessage \in Seq(Entries) /\ b \in Seq(Entries) /\ messages \in Seq(Entries)
    <3>1. Assistant(published) \in Entries
      BY TurnTypes DEF Assistant, Entries
    <3>2. PublishedMessage \in Seq(Entries)
      BY <3>1 DEF PublishedMessage
    <3> QED
      BY <1>3, <3>2, BatchEntries, TurnTypes DEF ShapeOK
  <2>2. messages' = (messages \o PublishedMessage) \o b
    BY <1>1, <1>2 DEF CommitPublished
  <2> HIDE DEF b
  <2> QED
    BY <2>1, <2>2, ConcatAssociative
<1> HIDE DEF t
<1>6. Assistant(published).turn = iterations /\ Assistant(published).text = published.text
      /\ Assistant(published).calls = published.calls /\ ~Assistant(published).hidden
      /\ Assistant(published).role = "assistant"
  BY DEF Assistant
<1>7. published # NoTurn => 1 \in DOMAIN t
  BY <1>4, EmptySeq
<1> QED
  BY <1>1, <1>4, <1>5, <1>6, <1>7 DEF Grows

\* cancel() closes the request: the turn, an error for each of its calls, the boundary.
LEMMA CancelGrows ==
    ASSUME TypeOK, ShapeOK, Cancel
    PROVE  Grows
<1>1. /\ published' = NoTurn /\ UNCHANGED rejected /\ pc' = "done"
      /\ messages' = Append(CommitCancelled, Boundary)
  BY DEF Cancel, History
<1> DEFINE oks == [i \in DOMAIN published.calls |-> FALSE]
           b == [i \in DOMAIN published.calls |-> ToolEntry(published.calls[i], oks[i])]
           s == PublishedMessage \o b
           t == s \o <<Boundary>>
<1>2. \A i \in DOMAIN published.calls : oks[i] = FALSE /\ oks[i] \in BOOLEAN
  OBVIOUS
<1>3. /\ s \in Seq(Entries) /\ Paired(s)
      /\ \A i \in DOMAIN s : s[i].role = "assistant" =>
            published # NoTurn /\ s[i] = Assistant(published)
      /\ \A i \in DOMAIN s : s[i].role = "tool" => ~s[i].ok
      /\ published # NoTurn => s # <<>> /\ s[1] = Assistant(published)
  <2> HIDE DEF oks
  <2> QED
    BY <1>2, TurnEntries
<1>4. Boundary \in Entries /\ Boundary.role = "boundary"
  <2>1. <<>> \in Seq(Tools)
    OBVIOUS
  <2>2. User \in Entries
    BY <2>1 DEF User, Entries, Texts
  <2> QED
    BY <2>2 DEF Boundary, Entries
<1>5. b = SyntheticResults
  BY DEF SyntheticResults
<1>6. messages' = messages \o t
  <2>1. PublishedMessage \in Seq(Entries) /\ b \in Seq(Entries) /\ messages \in Seq(Entries)
    <3>1. Assistant(published) \in Entries
      BY TurnTypes DEF Assistant, Entries
    <3>2. PublishedMessage \in Seq(Entries)
      BY <3>1 DEF PublishedMessage
    <3> HIDE DEF oks
    <3> QED
      BY <1>2, <3>2, BatchEntries, TurnTypes DEF ShapeOK
  <2>2. CommitCancelled = (messages \o PublishedMessage) \o b
    BY <1>5 DEF CommitCancelled, CommitPublished
  <2> HIDE DEF b
  <2>3. CommitCancelled = messages \o s /\ CommitCancelled \in Seq(Entries)
    BY <2>1, <2>2, ConcatAssociative, ConcatProperties
  <2>4. Append(CommitCancelled, Boundary) = CommitCancelled \o <<Boundary>>
    BY <1>4, <2>3, AppendIsConcat
  <2>5. <<Boundary>> \in Seq(Entries)
    BY <1>4
  <2> HIDE DEF s
  <2> QED
    BY <1>1, <1>3, <2>1, <2>3, <2>4, <2>5, ConcatAssociative
<1> HIDE DEF s
<1>7. /\ t \in Seq(Entries) /\ Paired(t)
      /\ \A i \in DOMAIN t : \/ i \in DOMAIN s /\ t[i] = s[i]
                             \/ t[i] = Boundary
      /\ \A i \in DOMAIN s : i \in DOMAIN t /\ t[i] = s[i]
  <2> DEFINE e == <<Boundary>>
  <2>1. e \in Seq(Entries) /\ Len(e) = 1 /\ DOMAIN e = {1} /\ e[1] = Boundary
    BY <1>4
  <2>2. Paired(e)
    BY <1>4, <2>1 DEF Paired
  <2>0. s \in Seq(Entries) /\ e \in Seq(Entries)
    BY <1>3, <2>1
  <2> HIDE DEF e
  <2>3. Paired(s \o e)
    BY <1>3, <2>1, <2>2, PairedConcat
  <2>4. /\ s \o e \in Seq(Entries) /\ DOMAIN s = 1 .. Len(s) /\ Len(s) \in Nat
        /\ DOMAIN (s \o e) = 1 .. Len(s) + Len(e)
        /\ \A i \in 1 .. Len(s) : (s \o e)[i] = s[i]
        /\ \A i \in 1 .. Len(e) : (s \o e)[Len(s) + i] = e[i]
        /\ \A i \in DOMAIN (s \o e) : i \in 1 .. Len(s) \/ \E j \in 1 .. Len(e) : i = Len(s) + j
    BY ONLY <2>0, Concatenated
  <2>5. t = s \o e
    BY DEF e
  <2> HIDE DEF t
  <2> QED
    BY <2>1, <2>3, <2>4, <2>5
<1> HIDE DEF t
<1>8. Assistant(published).turn = iterations /\ Assistant(published).text = published.text
      /\ Assistant(published).calls = published.calls /\ ~Assistant(published).hidden
      /\ Assistant(published).role = "assistant"
  BY DEF Assistant
<1>9. published # NoTurn => 1 \in DOMAIN t /\ t[1] = Assistant(published)
  BY <1>3, <1>7, EmptySeq
<1>10. \A i \in DOMAIN t : t[i].role = "assistant" => published # NoTurn /\ t[i] = Assistant(published)
  BY <1>3, <1>4, <1>7
<1>11. \A i \in DOMAIN t : t[i].role = "tool" => ~t[i].ok
  BY <1>3, <1>4, <1>7
<1> QED
  BY <1>1, <1>6, <1>7, <1>8, <1>9, <1>10, <1>11 DEF Grows

\* Every step extends the history in this way.
LEMMA GrowStep ==
    ASSUME TypeOK, ShapeOK, PhaseInv, OpenInv, [Next]_vars
    PROVE  Grows
<1>1. CASE UNCHANGED <<messages, published>>
  BY <1>1, Silent
<1>2. CASE Start
  <2>1. messages = <<>> /\ messages' = <<User>> /\ published = NoTurn
    BY <1>2 DEF Start, PhaseInv
  <2>2. User \in Entries /\ User.role = "user"
    <3>1. <<>> \in Seq(Tools)
      OBVIOUS
    <3> QED
      BY <3>1 DEF User, Entries, Texts
  <2> DEFINE t == <<User>>
  <2>3. t \in Seq(Entries) /\ DOMAIN t = {1} /\ t[1] = User
    BY <2>2
  <2>4. messages' = messages \o t
    BY <2>1, <2>3, ConcatEmptySeq
  <2> HIDE DEF t
  <2>5. Paired(t)
    BY <2>2, <2>3 DEF Paired
  <2> QED
    BY <2>1, <2>2, <2>3, <2>4, <2>5 DEF Grows
<1>3. ASSUME NEW kind \in Streamed[req.mode], Publish(kind) PROVE Grows
  <2>1. UNCHANGED messages /\ published' = [published EXCEPT !.text = kind]
    BY <1>3 DEF Publish
  <2>2. kind # "none" /\ published' .text = kind
    BY <2>1, TurnTypes
  <2>3. published' # NoTurn
    BY <2>2 DEF NoTurn
  <2> QED
    BY <2>1, <2>3, Silent
<1>4. CASE PublishToolCalls
  <2>1. UNCHANGED messages /\ published' = [published EXCEPT !.calls = calls] /\ calls # <<>>
    BY <1>4 DEF PublishToolCalls, PhaseInv
  <2>2. published'.calls # <<>>
    BY <2>1, TurnTypes
  <2>3. published' # NoTurn
    BY <2>2 DEF NoTurn
  <2> QED
    BY <2>1, <2>3, Silent
<1>5. CASE LengthGate \/ EmptyAnswer \/ AnswerWithoutPlan \/ DeliverComplete
  <2>1. published.calls = <<>>
    BY <1>5 DEF LengthGate, EmptyAnswer, AnswerWithoutPlan, DeliverComplete, PhaseInv
  <2>2. \/ UNCHANGED <<messages, published>>
        \/ messages' = CommitPublished /\ UNCHANGED rejected
    BY <1>5 DEF LengthGate, EmptyAnswer, AnswerWithoutPlan, DeliverComplete, History
  <2> QED
    BY <1>1, <2>1, <2>2, Commits
<1>6. ASSUME InvalidateCandidate \/ AnswerWithOpenPlan \/ AnswerWithoutRepair
               \/ \E v \in Verdicts : Review(v)
      PROVE  Grows
  <2>1. \/ UNCHANGED <<messages, published>>
        \/ /\ pc = "stream" /\ published.text # "none"
           /\ TakeBackDraft("complete")
        \/ /\ pc = "answer" /\ published.text = "text"
           /\ TakeBackDraft("complete") \/ TakeBackDraft("iterate")
        \/ /\ pc = "review" /\ TakeBackDraft("iterate")
    BY <1>6 DEF InvalidateCandidate, AnswerWithOpenPlan, AnswerWithoutRepair, Review, PlanGatePassed
  <2>2. ASSUME NEW next, TakeBackDraft(next), pc \in {"stream", "answer", "review"}
        PROVE  Grows
    <3>1. published.calls = <<>> /\ iterations \notin rejected
      BY <2>2 DEF PhaseInv, OpenInv, TurnIsOpen
    <3>2. CASE published = NoTurn
      <4>1. UNCHANGED messages
        BY <2>2, <3>2, ConcatEmptySeq DEF TakeBackDraft, HiddenMessage, ShapeOK
      <4> QED
        BY <3>2, <4>1, Silent
    <3>3. CASE published # NoTurn
      BY <2>2, <3>1, <3>3, TakesBack
    <3> QED
      BY <3>2, <3>3
  <2> QED
    BY <1>1, <2>1, <2>2
<1>7. CASE PublishToolResults
  BY <1>7, ResultsGrow
<1>8. CASE Cancel
  BY <1>8, CancelGrows
<1> QED
  BY <1>1, <1>2, <1>3, <1>4, <1>5, <1>6, <1>7, <1>8
     DEF Next, RunnerStep, vars, Request, Loop, History, ReceiverCloses, CancelBeforePrompt,
         BeginIteration, IterationsExhausted, OpenStream, ProviderFails, Finish, DenyBatch,
         ExecuteToolCalls, CheckpointHistory, CheckpointFails, SettleBatch, AnswerForReview,
         DeliverDraftReset

\* What was in the history stays where it was.
LEMMA HistoryGrows ==
    ASSUME ShapeOK, Grows
    PROVE  /\ messages' \in Seq(Entries) /\ Len(messages) \in Nat /\ Len(messages') \in Nat
           /\ Len(messages) <= Len(messages')
           /\ DOMAIN messages = 1 .. Len(messages) /\ DOMAIN messages' = 1 .. Len(messages')
           /\ \A i \in DOMAIN messages : i \in DOMAIN messages' /\ messages'[i] = messages[i]
<1>1. PICK t \in Seq(Entries) : messages' = messages \o t
  BY DEF Grows
<1>2. messages \in Seq(Entries)
  BY DEF ShapeOK
<1> DEFINE u == messages \o t
<1>3. /\ u \in Seq(Entries) /\ Len(messages) \in Nat /\ Len(t) \in Nat
      /\ Len(u) = Len(messages) + Len(t)
      /\ DOMAIN messages = 1 .. Len(messages) /\ DOMAIN u = 1 .. Len(messages) + Len(t)
      /\ \A i \in 1 .. Len(messages) : u[i] = messages[i]
  BY <1>2, Concatenated
<1> HIDE DEF u
<1>4. messages' = u
  BY <1>1 DEF u
<1> QED
  BY <1>3, <1>4

-----------------------------------------------------------------------------
(* Types *)

\* One segment of the transcript per iteration; only the last one is ever redrawn.
LEMMA TranscriptStep ==
    ASSUME TypeOK, ShapeOK, PhaseInv, [Next]_vars
    PROVE  /\ UNCHANGED req
           /\ iterations' \in Nat /\ iterations' <= req.limit /\ iterations <= iterations'
           /\ ui' \in Seq(Segments) /\ Len(ui') = iterations'
           /\ \A n \in 1 .. iterations : n # iterations => ui'[n] = ui[n]
<1>1. /\ iterations \in Nat /\ req.limit \in Nat /\ iterations <= req.limit
      /\ calls \in Seq(Tools)
  BY TurnTypes
<1>2. ui \in Seq(Segments) /\ Len(ui) = iterations
  BY DEF TypeOK, ShapeOK
<1>3. CASE UNCHANGED <<req, iterations, ui>>
  BY <1>1, <1>2, <1>3
<1>4. CASE BeginIteration
  <2> DEFINE e == [text |-> "none", calls |-> <<>>, results |-> FALSE]
  <2>1. e \in Segments
    <3>1. <<>> \in Seq(Tools)
      OBVIOUS
    <3> QED
      BY <3>1 DEF Segments, Texts
  <2>2. UNCHANGED req /\ iterations < req.limit /\ iterations' = iterations + 1 /\ ui' = Append(ui, e)
    BY <1>4 DEF BeginIteration, Request
  <2> HIDE DEF e
  <2>3. ui' \in Seq(Segments) /\ Len(ui') = iterations + 1 /\ \A n \in 1 .. iterations : ui'[n] = ui[n]
    BY <1>2, <2>1, <2>2, AppendProperties
  <2> QED
    BY <1>1, <2>2, <2>3
<1>5. ASSUME UNCHANGED <<req, iterations>>, iterations >= 1, NEW e \in Segments,
             ui' = [ui EXCEPT ![iterations] = e]
      PROVE  /\ ui' \in Seq(Segments) /\ Len(ui') = iterations'
             /\ \A n \in 1 .. iterations : n # iterations => ui'[n] = ui[n]
  BY <1>1, <1>2, <1>5, ExceptSeq
<1>6. ASSUME UNCHANGED <<req, iterations>>, pc \in {"stream", "tools", "results", "reset"},
             NEW e \in Segments, ui' = [ui EXCEPT ![iterations] = e]
      PROVE  /\ ui' \in Seq(Segments) /\ Len(ui') = iterations'
             /\ \A n \in 1 .. iterations : n # iterations => ui'[n] = ui[n]
  BY <1>5, <1>6 DEF PhaseInv
<1>7. iterations >= 1 => ui[iterations] \in Segments
  BY <1>1, <1>2
<1>8. ASSUME NEW kind \in Streamed[req.mode], Publish(kind)
      PROVE  /\ ui' \in Seq(Segments) /\ Len(ui') = iterations'
             /\ \A n \in 1 .. iterations : n # iterations => ui'[n] = ui[n]
  <2>1. /\ UNCHANGED <<req, iterations>> /\ pc = "stream"
        /\ ui' = [ui EXCEPT ![iterations] = [ui[iterations] EXCEPT !.text = kind]]
    BY <1>8 DEF Publish, Request
  <2>2. [ui[iterations] EXCEPT !.text = kind] \in Segments
    BY <1>7, <2>1, TurnTypes DEF PhaseInv, Segments, Texts
  <2> QED
    BY <1>6, <2>1, <2>2
<1>9. CASE PublishToolCalls
  <2>1. /\ UNCHANGED <<req, iterations>> /\ pc = "tools"
        /\ ui' = [ui EXCEPT ![iterations] = [ui[iterations] EXCEPT !.calls = calls]]
    BY <1>9 DEF PublishToolCalls, Request
  <2>2. [ui[iterations] EXCEPT !.calls = calls] \in Segments
    BY <1>1, <1>7, <2>1 DEF PhaseInv, Segments
  <2>3. /\ ui' \in Seq(Segments) /\ Len(ui') = iterations'
        /\ \A n \in 1 .. iterations : n # iterations => ui'[n] = ui[n]
    BY <1>6, <2>1, <2>2
  <2> QED
    BY <1>1, <2>1, <2>3
<1>10. CASE PublishToolResults
  <2>1. /\ UNCHANGED <<req, iterations>> /\ pc = "results"
        /\ ui' = [ui EXCEPT ![iterations] = [ui[iterations] EXCEPT !.results = TRUE]]
    BY <1>10 DEF PublishToolResults, Request
  <2>2. [ui[iterations] EXCEPT !.results = TRUE] \in Segments
    BY <1>7, <2>1 DEF PhaseInv, Segments
  <2>3. /\ ui' \in Seq(Segments) /\ Len(ui') = iterations'
        /\ \A n \in 1 .. iterations : n # iterations => ui'[n] = ui[n]
    BY <1>6, <2>1, <2>2
  <2> QED
    BY <1>1, <2>1, <2>3
<1>11. CASE DeliverDraftReset
  <2>1. /\ UNCHANGED <<req, iterations>> /\ pc = "reset"
        /\ ui' = [ui EXCEPT ![iterations] = [ui[iterations] EXCEPT !.text = "none"]]
    BY <1>11 DEF DeliverDraftReset, Request
  <2>2. [ui[iterations] EXCEPT !.text = "none"] \in Segments
    BY <1>7, <2>1 DEF PhaseInv, Segments, Texts
  <2>3. /\ ui' \in Seq(Segments) /\ Len(ui') = iterations'
        /\ \A n \in 1 .. iterations : n # iterations => ui'[n] = ui[n]
    BY <1>6, <2>1, <2>2
  <2> QED
    BY <1>1, <2>1, <2>3
<1>12. ASSUME NEW kind \in Streamed[req.mode], Publish(kind)
       PROVE  UNCHANGED <<req, iterations>>
  BY <1>12 DEF Publish, Request
<1> QED
  BY <1>1, <1>3, <1>4, <1>8, <1>9, <1>10, <1>11, <1>12
     DEF Next, RunnerStep, vars, Request, Loop, History, ReceiverCloses, CancelBeforePrompt, Start,
         IterationsExhausted, OpenStream, ProviderFails, InvalidateCandidate, Finish, LengthGate,
         DenyBatch, ExecuteToolCalls, CheckpointHistory, CheckpointFails, SettleBatch, EmptyAnswer,
         AnswerWithoutPlan, AnswerWithOpenPlan, AnswerWithoutRepair, AnswerForReview, Review,
         DeliverComplete, Cancel

\* The types of everything else.
TurnOK ==
    /\ published \in [text : Texts, calls : Batches[req.mode] \union {<<>>}]
    /\ calls \in Batches[req.mode] \union {<<>>}
    /\ results \in Seq(BOOLEAN)
    /\ ctx \in [plan : Plans, ask : BOOLEAN]
    /\ plan \in Plans
\* The types of the loop's control state.
ControlOK ==
    /\ pc \in {"start", "iterate", "call", "stream", "length", "tools", "execute",
               "results", "checkpoint", "settle", "answer", "review", "reset",
               "complete", "done"}
    /\ rx \in BOOLEAN
    /\ then \in {"none", "iterate", "complete"}
    /\ ending \in Outcomes /\ outcome \in Outcomes
    /\ verdict \in Verdicts \cup {"none"}
    /\ saved.plan \in Plans
\* The cap on denials: a run that goes on has not exceeded it.
GateOK ==
    /\ gate \in [Gates -> Nat]
    /\ gate["denial"] <= PLAN_DENIAL_CAP + 1
    /\ pc \notin {"complete", "done"} => gate["denial"] <= PLAN_DENIAL_CAP
\* Positions in the history, iterations of the run.
PositionsOK ==
    /\ repairFrom \in 0 .. Len(messages) /\ saved.len \in 0 .. Len(messages)
    /\ rejected \in SUBSET (1 .. iterations)
    /\ executed \in SUBSET (Nat \X Tools)

\* A step keeps the types of a turn and of the transcript.
LEMMA TurnStep ==
    ASSUME TypeOK, ShapeOK, PhaseInv, [Next]_vars
    PROVE  TurnOK'
<1>1. TurnOK /\ UNCHANGED req /\ calls \in Seq(Tools) /\ <<>> \in Seq(BOOLEAN)
  BY TranscriptStep, TurnTypes DEF TypeOK, ShapeOK, TurnOK, Texts
<1> USE <1>1 DEF TurnOK
<1>2. CASE UNCHANGED <<published, calls, results, ctx, plan>>
  BY <1>2
<1>3. NoTurn \in [text : Texts, calls : Batches[req.mode] \union {<<>>}]
  BY DEF NoTurn, Texts
<1>4. CASE UNCHANGED <<calls, results, ctx, plan>> /\ published' = NoTurn
  BY <1>3, <1>4
<1>5. ASSUME NEW kind \in Streamed[req.mode], Publish(kind) PROVE TurnOK'
  BY <1>5, TurnTypes DEF Publish, Texts
<1>6. ASSUME NEW r \in Replies, Finish(r) PROVE TurnOK'
  BY <1>6 DEF Finish, Replies
<1>7. CASE PublishToolCalls
  BY <1>7 DEF PublishToolCalls
<1>8. ASSUME results' \in [DOMAIN calls -> BOOLEAN] PROVE results' \in Seq(BOOLEAN)
  <2>1. Len(calls) \in Nat /\ DOMAIN calls = 1 .. Len(calls)
    BY LenProperties
  <2> QED
    BY <1>8, <2>1, FunctionIsSeq
<1>9. CASE DenyBatch
  BY <1>8, <1>9 DEF DenyBatch
<1>10. CASE ExecuteToolCalls
  <2>1. results' \in Seq(BOOLEAN)
    BY <1>8, <1>10 DEF ExecuteToolCalls
  <2>2. ctx' \in [plan : Plans, ask : BOOLEAN]
    BY <1>10 DEF ExecuteToolCalls, ContextsAfter, Plans, PlanMode
  <2> QED
    BY <1>10, <2>1, <2>2 DEF ExecuteToolCalls
<1>11. CASE PublishToolResults
  BY <1>3, <1>11 DEF PublishToolResults
<1>12. CASE CheckpointFails
  BY <1>12 DEF CheckpointFails
<1>13. CASE SettleBatch
  BY <1>13 DEF SettleBatch
<1>14. CASE DeliverComplete
  BY <1>3, <1>14 DEF DeliverComplete, RetryablePlan, Plans
<1>15. CASE Cancel
  BY <1>3, <1>15 DEF Cancel, PlanAfterCancel
<1> QED
  BY <1>2, <1>4, <1>5, <1>6, <1>7, <1>9, <1>10, <1>11, <1>12, <1>13, <1>14, <1>15
     DEF Next, RunnerStep, vars, Request, Loop, History, ReceiverCloses, CancelBeforePrompt, Start,
         BeginIteration, IterationsExhausted, OpenStream, ProviderFails, InvalidateCandidate,
         LengthGate, CheckpointHistory, EmptyAnswer, AnswerWithoutPlan, AnswerWithOpenPlan,
         AnswerWithoutRepair, AnswerForReview, Review, DeliverDraftReset, TakeBackDraft

\* A step keeps the types of the control state.
LEMMA ControlStep ==
    ASSUME TypeOK, ShapeOK, PhaseInv, [Next]_vars
    PROVE  ControlOK'
<1>1. /\ ControlOK /\ plan \in Plans
      /\ ErrorEnding \in Outcomes /\ NoOutcome \in Outcomes
      /\ \A k \in Kinds : [kind |-> k, awaiting |-> "none"] \in Outcomes
      /\ \A p \in Pauses : Awaiting(p) \in Outcomes
  BY DEF TypeOK, ShapeOK, ControlOK, ErrorEnding, NoOutcome, Outcomes, Kinds, Pauses, Awaiting
<1> USE <1>1 DEF ControlOK, End, Kinds, Pauses
<1>2. CASE UNCHANGED vars \/ ReceiverCloses
  BY <1>2 DEF vars, ReceiverCloses, Loop, History
<1>3. CASE Start \/ CancelBeforePrompt \/ BeginIteration \/ IterationsExhausted \/ OpenStream
  BY <1>3 DEF Start, CancelBeforePrompt, BeginIteration, IterationsExhausted, OpenStream,
              Request, Loop, History
<1>4. CASE ProviderFails \/ InvalidateCandidate
  BY <1>4 DEF ProviderFails, InvalidateCandidate, TakeBackDraft, Request, Loop, History
<1>5. ASSUME NEW kind \in Streamed[req.mode], Publish(kind) PROVE ControlOK'
  BY <1>5 DEF Publish, Request, Loop, History
<1>6. ASSUME NEW r \in Replies, Finish(r) PROVE ControlOK'
  BY <1>6 DEF Finish, Request, Loop, History
<1>7. CASE LengthGate \/ EmptyAnswer \/ AnswerWithoutPlan
  <2>1. /\ UNCHANGED <<rx, then, outcome, verdict, saved>>
        /\ pc' \in {"complete", "iterate"}
        /\ ending' \in {ending, ErrorEnding, [kind |-> "max_iters", awaiting |-> "none"]}
    BY <1>7 DEF LengthGate, EmptyAnswer, AnswerWithoutPlan, Request, History
  <2> QED
    BY <2>1
<1>8. CASE PublishToolCalls \/ DenyBatch \/ ExecuteToolCalls \/ PublishToolResults
  BY <1>8 DEF PublishToolCalls, DenyBatch, ExecuteToolCalls, PublishToolResults,
              Request, Loop, History
<1>9. CASE CheckpointHistory
  BY <1>9 DEF CheckpointHistory, Request, Loop, History
<1>10. CASE CheckpointFails
  BY <1>10 DEF CheckpointFails, Request, Loop, History
<1>11. CASE SettleBatch
  <2>1. /\ UNCHANGED <<rx, then, outcome, verdict, saved>>
        /\ pc' \in {"complete", "iterate"}
        /\ ending' \in {ending, ErrorEnding, Awaiting("plan_approval"), Awaiting("user_response")}
    BY <1>11 DEF SettleBatch, Request, History
  <2> QED
    BY <2>1
<1>12. CASE AnswerWithOpenPlan \/ AnswerWithoutRepair \/ AnswerForReview
  <2>1. /\ UNCHANGED <<rx, outcome, verdict, saved>>
        /\ pc' \in {"complete", "reset", "review"}
        /\ then' \in {then, "iterate", "complete"}
        /\ ending' \in {ending, ErrorEnding, Awaiting("plan_execution")}
    BY <1>12 DEF AnswerWithOpenPlan, AnswerWithoutRepair, AnswerForReview, TakeBackDraft,
                 Request, History
  <2> QED
    BY <2>1
<1>13. ASSUME NEW v \in Verdicts, Review(v) PROVE ControlOK'
  <2>1. /\ UNCHANGED <<rx, outcome, saved>> /\ verdict' = v
        /\ pc' \in {"complete", "reset"}
        /\ then' \in {then, "iterate"}
        /\ ending' \in {ending, ErrorEnding, [kind |-> "natural", awaiting |-> "none"]}
    BY <1>13 DEF Review, TakeBackDraft, Request, History
  <2> QED
    BY <2>1
<1>14. CASE DeliverDraftReset
  BY <1>14 DEF DeliverDraftReset, PhaseInv, Request, Loop, History
<1>15. CASE DeliverComplete
  BY <1>15 DEF DeliverComplete, Request, Loop, History
<1>16. CASE Cancel
  BY <1>16 DEF Cancel, Request, Loop, History
<1> QED
  BY <1>2, <1>3, <1>4, <1>5, <1>6, <1>7, <1>8, <1>9, <1>10, <1>11, <1>12, <1>13, <1>14, <1>15, <1>16
     DEF Next, RunnerStep

\* A step keeps the counters of the gates within their caps.
LEMMA GateStep ==
    ASSUME TypeOK, PhaseInv, [Next]_vars
    PROVE  GateOK'
<1>1. GateOK /\ PLAN_DENIAL_CAP \in Nat /\ gate["denial"] \in Nat
  BY RunnerAssumption DEF TypeOK, PhaseInv, GateOK, Gates
<1> USE <1>1 DEF GateOK
<1>2. CASE /\ UNCHANGED gate
           /\ pc \in {"complete", "done"} => pc' \in {"complete", "done"}
  BY <1>2
<1>3. ASSUME NEW r \in Replies, Finish(r) PROVE GateOK'
  BY <1>3 DEF Finish, Gates
<1>4. CASE LengthGate
  BY <1>4 DEF LengthGate, Gates
<1>5. CASE SettleBatch
  BY <1>5 DEF SettleBatch, CountDenial, DenialFails, Gates, End
<1>6. CASE EmptyAnswer
  <2> DEFINE missing == PlanMode /\ ctx.plan = "none"
  <2>1. /\ gate' = [gate EXCEPT !["empty"] = @ + 1, !["denial"] = IF missing THEN @ + 1 ELSE @]
        /\ pc = "answer"
        /\ pc' # "complete" => ~(missing /\ DenialFails)
    BY <1>6 DEF EmptyAnswer, End
  <2>2. gate' \in [Gates -> Nat] /\ gate'["denial"] = IF missing THEN gate["denial"] + 1 ELSE gate["denial"]
    BY <2>1 DEF Gates
  <2> QED
    BY <2>1, <2>2 DEF DenialFails
<1>7. CASE AnswerWithoutPlan
  <2>1. /\ gate' = [[gate EXCEPT !["denial"] = @ + 1] EXCEPT !["empty"] = 0]
        /\ pc = "answer" /\ (pc' # "complete" => ~DenialFails)
    BY <1>7 DEF AnswerWithoutPlan, CountDenial, End
  <2>2. gate' \in [Gates -> Nat] /\ gate'["denial"] = gate["denial"] + 1
    BY <2>1 DEF Gates
  <2> QED
    BY <2>1, <2>2 DEF DenialFails
<1>8. CASE AnswerWithOpenPlan
  <2>1. /\ pc = "answer"
        /\ gate' = [gate EXCEPT !["empty"] = 0, !["incomplete"] = gate["incomplete"] + 1]
    BY <1>8 DEF AnswerWithOpenPlan
  <2> QED
    BY <2>1 DEF Gates
<1>9. CASE AnswerWithoutRepair
  <2>1. /\ pc = "answer"
        /\ \/ gate' = [gate EXCEPT !["empty"] = 0]
           \/ gate' = [gate EXCEPT !["empty"] = 0, !["reminders"] = @ + 1]
    BY <1>9 DEF AnswerWithoutRepair
  <2> QED
    BY <2>1 DEF Gates
<1>10. CASE AnswerForReview
  BY <1>10 DEF AnswerForReview, Gates
<1>11. ASSUME NEW v \in Verdicts, Review(v) PROVE GateOK'
  <2>1. /\ pc = "review"
        /\ \/ gate' = gate
           \/ gate' = [gate EXCEPT !["veto"] = @ + 1]
           \/ gate' = [gate EXCEPT !["veto"] = @ + 1, !["reminders"] = 0]
           \/ gate' = [gate EXCEPT !["veto"] = @ + 1, !["reminders"] = @]
    BY <1>11 DEF Review
  <2> QED
    BY <2>1 DEF Gates
<1> QED
  BY <1>2, <1>3, <1>4, <1>5, <1>6, <1>7, <1>8, <1>9, <1>10, <1>11
     DEF Next, RunnerStep, vars, Request, Loop, History, End, ReceiverCloses, CancelBeforePrompt,
         Start, BeginIteration, IterationsExhausted, OpenStream, ProviderFails, InvalidateCandidate,
         Publish, PublishToolCalls, DenyBatch, ExecuteToolCalls, PublishToolResults,
         CheckpointHistory, CheckpointFails, DeliverDraftReset, DeliverComplete, Cancel

\* What a step does to the records kept beside the history.
LEMMA Records ==
    ASSUME [Next]_vars
    PROVE  /\ repairFrom' \in {repairFrom, Len(messages')}
           /\ saved'.len \in {saved.len, Len(messages')}
           /\ rejected' \in {rejected, rejected \cup {iterations}}
           /\ rejected' # rejected => pc \in {"stream", "answer", "review"}
           /\ executed' = executed \/ ExecuteToolCalls
  BY DEF Next, RunnerStep, vars, Request, Loop, History, End, ReceiverCloses, CancelBeforePrompt,
         Start, BeginIteration, IterationsExhausted, OpenStream, ProviderFails, InvalidateCandidate,
         Publish, Finish, LengthGate, PublishToolCalls, DenyBatch, ExecuteToolCalls,
         PublishToolResults, CheckpointHistory, CheckpointFails, SettleBatch, EmptyAnswer,
         AnswerWithoutPlan, AnswerWithOpenPlan, AnswerWithoutRepair, AnswerForReview, Review,
         DeliverDraftReset, DeliverComplete, Cancel, TakeBackDraft

\* Positions remembered in the history stay positions of it.
LEMMA PositionsStep ==
    ASSUME TypeOK, ShapeOK, PhaseInv, OpenInv, [Next]_vars
    PROVE  PositionsOK'
<1>1. /\ iterations \in Nat /\ iterations' \in Nat /\ iterations <= iterations'
      /\ Len(messages) \in Nat /\ Len(messages') \in Nat /\ Len(messages) <= Len(messages')
      /\ PositionsOK /\ calls \in Seq(Tools)
  BY TranscriptStep, TurnTypes, GrowStep, HistoryGrows DEF TypeOK, ShapeOK, PositionsOK
<1>2. repairFrom' \in 0 .. Len(messages')
  BY <1>1, Records DEF PositionsOK
<1>3. saved'.len \in 0 .. Len(messages')
  BY <1>1, Records DEF PositionsOK
<1>4. rejected' \in SUBSET (1 .. iterations')
  <2>1. rejected' # rejected => iterations >= 1
    BY Records DEF PhaseInv
  <2>2. \A n \in rejected' : n \in rejected \/ (n = iterations /\ iterations >= 1)
    BY <2>1, Records
  <2>3. \A n \in rejected : n \in 1 .. iterations
    BY <1>1 DEF PositionsOK
  <2>4. \A n \in rejected' : n \in 1 .. iterations'
    BY <1>1, <2>2, <2>3
  <2> QED
    BY <2>4
<1>5. executed' \in SUBSET (Nat \X Tools)
  <2>1. CASE ExecuteToolCalls
    <3>1. \A i \in DOMAIN calls : calls[i] \in Tools
      BY <1>1
    <3> QED
      BY <1>1, <2>1, <3>1 DEF ExecuteToolCalls, PositionsOK
  <2> QED
    BY <1>1, <2>1, Records DEF PositionsOK
<1> QED
  BY <1>2, <1>3, <1>4, <1>5 DEF PositionsOK

\* The types, put together.
LEMMA TypeStep ==
    ASSUME TypeOK, ShapeOK, PhaseInv, OpenInv, [Next]_vars
    PROVE  TypeOK' /\ ShapeOK'
<1>1. /\ UNCHANGED req /\ iterations' \in 0 .. req'.limit
      /\ ui' \in Seq(Segments) /\ Len(ui') = iterations' /\ req \in Requests
      /\ messages' \in Seq(Entries)
  BY TranscriptStep, TurnTypes, GrowStep, HistoryGrows DEF TypeOK
<1>2. TurnOK' /\ ControlOK' /\ GateOK' /\ PositionsOK'
  BY TurnStep, ControlStep, GateStep, PositionsStep
<1> QED
  BY <1>1, <1>2 DEF TypeOK, ShapeOK, TurnOK, ControlOK, GateOK, PositionsOK, Texts

-----------------------------------------------------------------------------
(* Where a turn stands *)

\* A step keeps the phases of a turn.
LEMMA PhaseStep ==
    ASSUME TypeOK, ShapeOK, PhaseInv, OpenInv, [Next]_vars
    PROVE  PhaseInv'
<1>1. GateOK' /\ iterations \in Nat /\ NoTurn.calls = <<>>
  BY GateStep, TurnTypes DEF NoTurn
<1> USE <1>1 DEF PhaseInv, GateOK
<1>2. CASE UNCHANGED vars \/ ReceiverCloses
  BY <1>2 DEF vars, ReceiverCloses, Loop, History
<1>3. CASE Start \/ CancelBeforePrompt \/ BeginIteration \/ IterationsExhausted \/ OpenStream
  BY <1>3 DEF Start, CancelBeforePrompt, BeginIteration, IterationsExhausted, OpenStream,
              Request, Loop, History, End
<1>4. CASE ProviderFails
  BY <1>4 DEF ProviderFails, Request, Loop, History, End
<1>5. CASE InvalidateCandidate
  BY <1>5 DEF InvalidateCandidate, TakeBackDraft, Request, Loop, History
<1>6. ASSUME NEW kind \in Streamed[req.mode], Publish(kind) PROVE PhaseInv'
  <2>1. published'.calls = published.calls /\ pc = "stream" /\ pc' = pc
    BY <1>6, TurnTypes DEF Publish
  <2> QED
    BY <1>6, <2>1 DEF Publish, Request, Loop, History
<1>7. ASSUME NEW r \in Replies, Finish(r) PROVE PhaseInv'
  <2>1. /\ pc = "stream" /\ UNCHANGED <<iterations, published, messages, then>>
        /\ \/ pc' = "length" /\ calls' = <<>>
           \/ pc' = "tools" /\ calls' # <<>>
           \/ pc' = "answer" /\ calls' = <<>>
    BY <1>7 DEF Finish, Replies, Request
  <2> QED
    BY <2>1
<1>8. CASE LengthGate \/ EmptyAnswer \/ AnswerWithoutPlan
  <2>1. /\ pc \in {"length", "answer"} /\ UNCHANGED <<iterations, calls, then>>
        /\ \/ pc' = "complete" /\ UNCHANGED published
           \/ pc' = "iterate" /\ published' = NoTurn
    BY <1>8 DEF LengthGate, EmptyAnswer, AnswerWithoutPlan, Request, End
  <2> QED
    BY <2>1
<1>9. CASE PublishToolCalls
  <2>1. published'.calls = calls
    BY <1>9, TurnTypes DEF PublishToolCalls
  <2> QED
    BY <1>9, <2>1 DEF PublishToolCalls, Request, Loop, History
<1>10. CASE DenyBatch \/ ExecuteToolCalls
  <2>1. /\ pc = "execute" /\ pc' = "results"
        /\ UNCHANGED <<iterations, published, calls, messages, then>>
        /\ results' \in [DOMAIN calls -> BOOLEAN]
    BY <1>10 DEF DenyBatch, ExecuteToolCalls, Request, Loop, History
  <2>2. Len(calls) \in Nat /\ DOMAIN calls = 1 .. Len(calls) /\ DOMAIN results' = DOMAIN calls
    BY <2>1, TurnTypes, LenProperties
  <2>3. results' \in Seq(BOOLEAN)
    BY TurnStep DEF TurnOK
  <2>4. Len(results') = Len(calls')
    BY <2>1, <2>2, <2>3, LenProperties
  <2> QED
    BY <2>1, <2>4
<1>11. CASE PublishToolResults
  BY <1>11 DEF PublishToolResults, Request, Loop, History
<1>12. CASE CheckpointHistory
  BY <1>12 DEF CheckpointHistory, Request, Loop, History
<1>13. CASE CheckpointFails
  BY <1>13 DEF CheckpointFails, Request, Loop, History, End
<1>14. CASE SettleBatch
  <2>1. /\ pc = "settle" /\ pc' \in {"complete", "iterate"} /\ calls' = <<>>
        /\ UNCHANGED <<iterations, published, messages, then>>
    BY <1>14 DEF SettleBatch, Request, End
  <2> QED
    BY <2>1
<1>15. CASE AnswerWithOpenPlan \/ AnswerWithoutRepair \/ AnswerForReview
  <2>1. /\ pc = "answer" /\ UNCHANGED <<iterations, calls>>
        /\ \/ pc' \in {"complete", "review"} /\ UNCHANGED published
           \/ pc' = "reset" /\ published' = NoTurn /\ then' \in {"iterate", "complete"}
    BY <1>15 DEF AnswerWithOpenPlan, AnswerWithoutRepair, AnswerForReview, TakeBackDraft, Request,
                 End
  <2> QED
    BY <2>1
<1>16. ASSUME NEW v \in Verdicts, Review(v) PROVE PhaseInv'
  <2>1. /\ pc = "review" /\ UNCHANGED <<iterations, calls>>
        /\ \/ pc' = "complete" /\ UNCHANGED published
           \/ pc' = "reset" /\ published' = NoTurn /\ then' = "iterate"
    BY <1>16 DEF Review, TakeBackDraft, Request, End
  <2> QED
    BY <2>1
<1>17. CASE DeliverDraftReset
  <2>1. /\ pc = "reset" /\ pc' \in {"iterate", "complete"}
        /\ UNCHANGED <<iterations, published, calls>>
    BY <1>17 DEF DeliverDraftReset, Request, ShapeOK
  <2> QED
    BY <2>1
<1>18. CASE DeliverComplete
  BY <1>18 DEF DeliverComplete, Request, Loop, History
<1>19. CASE Cancel
  BY <1>19 DEF Cancel, Request, Loop, History
<1> QED
  BY <1>2, <1>3, <1>4, <1>5, <1>6, <1>7, <1>8, <1>9, <1>10, <1>11, <1>12, <1>13, <1>14, <1>15,
     <1>16, <1>17, <1>18, <1>19 DEF Next, RunnerStep

-----------------------------------------------------------------------------
(* The history and what the client saw *)

\* Only a new iteration adds a segment, only a draft that is taken back is rejected, and
\* nothing follows the end.
LEMMA Turns ==
    ASSUME [Next]_vars
    PROVE  /\ iterations' = iterations \/ BeginIteration
           /\ rejected' # rejected => pc' = "reset"
           /\ pc = "reset" => \/ pc' = "reset" /\ UNCHANGED published
                              \/ DeliverDraftReset
                              \/ Done("cancelled")'
           /\ pc = "done" => UNCHANGED <<pc, outcome>>
<1>1. CASE UNCHANGED vars \/ ReceiverCloses
  BY <1>1 DEF vars, ReceiverCloses, History
<1>2. CASE /\ iterations' = iterations \/ BeginIteration
           /\ rejected' = rejected \/ pc' = "reset"
           /\ pc \notin {"reset", "done"}
  BY <1>2
<1>3. CASE Cancel
  BY <1>3 DEF Cancel, CancelPoint, Done, Request, History
<1>4. CASE DeliverDraftReset
  BY <1>4 DEF DeliverDraftReset, Request, History
<1> QED
  BY <1>1, <1>2, <1>3, <1>4
     DEF Next, RunnerStep, Request, History, End, CancelBeforePrompt, TakeBackDraft,
         Start, BeginIteration, IterationsExhausted, OpenStream, ProviderFails, InvalidateCandidate,
         Publish, Finish, LengthGate, PublishToolCalls, DenyBatch, ExecuteToolCalls,
         PublishToolResults, CheckpointHistory, CheckpointFails, SettleBatch, EmptyAnswer,
         AnswerWithoutPlan, AnswerWithOpenPlan, AnswerWithoutRepair, AnswerForReview, Review,
         DeliverComplete

\* The current segment changes while its turn is not in the history, or when the reset of
\* a draft arrives.
LEMMA Redraws ==
    ASSUME TypeOK, ShapeOK, PhaseInv, [Next]_vars, iterations >= 1
    PROVE  /\ ui'[iterations].text # ui[iterations].text
                 \/ ui'[iterations].calls # ui[iterations].calls
              => messages' = messages /\ pc \in {"stream", "tools", "reset"} /\ iterations' = iterations
           /\ DeliverDraftReset => /\ ui'[iterations].text = "none"
                                   /\ ui'[iterations].calls = ui[iterations].calls
<1>1. iterations \in DOMAIN ui /\ ui[iterations] \in Segments
  <2>1. iterations \in Nat /\ ui \in Seq(Segments) /\ Len(ui) = iterations
    BY TurnTypes DEF TypeOK, ShapeOK
  <2> QED
    BY <2>1
<1>2. CASE UNCHANGED ui /\ ~DeliverDraftReset
  BY <1>2
<1>3. CASE BeginIteration
  <2> DEFINE e == [text |-> "none", calls |-> <<>>, results |-> FALSE]
  <2>1. ui' = Append(ui, e) /\ pc = "iterate"
    BY <1>3 DEF BeginIteration
  <2>2. ui'[iterations] = ui[iterations]
    BY <1>1, <2>1, TurnTypes DEF TypeOK, ShapeOK
  <2> QED
    BY <2>1, <2>2 DEF DeliverDraftReset
<1>4. ASSUME NEW kind \in Streamed[req.mode], Publish(kind)
      PROVE  pc = "stream" /\ messages' = messages /\ iterations' = iterations
  BY <1>4 DEF Publish
<1>5. CASE PublishToolCalls
  BY <1>5 DEF PublishToolCalls, DeliverDraftReset
<1>6. CASE PublishToolResults
  <2>1. ui' = [ui EXCEPT ![iterations] = [ui[iterations] EXCEPT !.results = TRUE]] /\ pc = "results"
    BY <1>6 DEF PublishToolResults
  <2>2. /\ ui'[iterations].text = ui[iterations].text
        /\ ui'[iterations].calls = ui[iterations].calls
    BY <1>1, <2>1 DEF Segments
  <2> QED
    BY <2>1, <2>2 DEF DeliverDraftReset
<1>7. CASE DeliverDraftReset
  <2>1. /\ ui' = [ui EXCEPT ![iterations] = [ui[iterations] EXCEPT !.text = "none"]]
        /\ pc = "reset" /\ messages' = messages /\ iterations' = iterations
    BY <1>7 DEF DeliverDraftReset, Request
  <2>2. /\ ui'[iterations].text = "none"
        /\ ui'[iterations].calls = ui[iterations].calls
    BY <1>1, <2>1 DEF Segments
  <2> QED
    BY <2>1, <2>2
<1>8. (\E kind \in Streamed[req.mode] : Publish(kind)) => ~DeliverDraftReset
  BY DEF Publish, DeliverDraftReset
<1> QED
  BY <1>2, <1>3, <1>4, <1>5, <1>6, <1>7, <1>8
     DEF Next, RunnerStep, vars, Request, Loop, History, ReceiverCloses, CancelBeforePrompt, Start,
         IterationsExhausted, OpenStream, ProviderFails, InvalidateCandidate, Finish, LengthGate,
         DenyBatch, ExecuteToolCalls, CheckpointHistory, CheckpointFails, SettleBatch, EmptyAnswer,
         AnswerWithoutPlan, AnswerWithOpenPlan, AnswerWithoutRepair, AnswerForReview, Review,
         DeliverComplete, Cancel, DeliverDraftReset, TakeBackDraft

\* A step appends whole pairs of calls and results.
LEMMA PairStep ==
    ASSUME TypeOK, ShapeOK, PhaseInv, OpenInv, ToolCallsPaired, [Next]_vars
    PROVE  ToolCallsPaired'
<1>1. PICK t \in Seq(Entries) : messages' = messages \o t /\ Paired(t)
  BY GrowStep DEF Grows
<1>2. Paired(messages) /\ messages \in Seq(Entries)
  BY DEF ToolCallsPaired, Paired, ShapeOK
<1>3. Paired(messages')
  BY <1>1, <1>2, PairedConcat
<1> QED
  BY <1>3 DEF ToolCallsPaired, Paired

\* A step of a planning run executes no tool but the planning ones.
LEMMA BoundaryStep ==
    ASSUME TypeOK, NothingRunsBeforeApproval, [Next]_vars
    PROVE  NothingRunsBeforeApproval'
<1>1. CASE executed' = executed /\ UNCHANGED req
  BY <1>1 DEF NothingRunsBeforeApproval, PlanMode
<1>2. CASE ExecuteToolCalls
  <2>1. PlanMode => \A i \in DOMAIN calls : IsPreapprovalPlanTool(calls[i])
    BY <1>2 DEF ExecuteToolCalls, BatchDenied
  <2>2. /\ UNCHANGED req
        /\ executed' = executed \union {<<iterations, calls[i]>> : i \in DOMAIN calls}
    BY <1>2 DEF ExecuteToolCalls, Request
  <2> QED
    BY <2>1, <2>2 DEF NothingRunsBeforeApproval, PlanMode
<1>3. UNCHANGED req
  BY DEF Next, RunnerStep, vars, Request, ReceiverCloses, CancelBeforePrompt,
         Start, BeginIteration, IterationsExhausted, OpenStream, ProviderFails, InvalidateCandidate,
         Publish, Finish, LengthGate, PublishToolCalls, DenyBatch, ExecuteToolCalls,
         PublishToolResults, CheckpointHistory, CheckpointFails, SettleBatch, EmptyAnswer,
         AnswerWithoutPlan, AnswerWithOpenPlan, AnswerWithoutRepair, AnswerForReview, Review,
         DeliverDraftReset, DeliverComplete, Cancel
<1> QED
  BY <1>1, <1>2, <1>3, Records

\* An entry of the longer history is one that was there or one of the tail.
LEMMA OldOrNew ==
    ASSUME ShapeOK, NEW t \in Seq(Entries), messages' = messages \o t
    PROVE  /\ \A i \in DOMAIN messages' :
                 \/ i \in DOMAIN messages /\ messages'[i] = messages[i]
                 \/ \E j \in DOMAIN t : messages'[i] = t[j]
           /\ \A j \in DOMAIN t : \E i \in DOMAIN messages' : messages'[i] = t[j]
           /\ messages' = messages => t = <<>>
<1> DEFINE u == messages \o t
<1>1. messages \in Seq(Entries)
  BY DEF ShapeOK
<1>2. /\ Len(messages) \in Nat /\ Len(t) \in Nat /\ Len(u) = Len(messages) + Len(t)
      /\ DOMAIN messages = 1 .. Len(messages) /\ DOMAIN t = 1 .. Len(t)
      /\ DOMAIN u = 1 .. Len(messages) + Len(t)
      /\ \A i \in 1 .. Len(messages) : u[i] = messages[i]
      /\ \A i \in 1 .. Len(t) : u[Len(messages) + i] = t[i]
      /\ \A i \in DOMAIN u : i \in 1 .. Len(messages) \/ \E j \in 1 .. Len(t) : i = Len(messages) + j
  BY <1>1, Concatenated
<1> HIDE DEF u
<1>3. messages' = u
  BY DEF u
<1>4. \A j \in DOMAIN t : Len(messages) + j \in DOMAIN u /\ u[Len(messages) + j] = t[j]
  BY <1>2
<1>5. messages' = messages => Len(t) = 0
  BY <1>2, <1>3
<1>6. Len(t) = 0 => t = <<>>
  BY EmptySeq
<1>7. \A i \in DOMAIN messages' : \/ i \in DOMAIN messages /\ messages'[i] = messages[i]
                                 \/ \E j \in DOMAIN t : messages'[i] = t[j]
  <2> SUFFICES ASSUME NEW i \in DOMAIN u
               PROVE  \/ i \in DOMAIN messages /\ u[i] = messages[i]
                      \/ \E j \in DOMAIN t : u[i] = t[j]
    BY <1>3
  <2>1. CASE i \in 1 .. Len(messages)
    BY <1>2, <2>1
  <2>2. CASE \E j \in 1 .. Len(t) : i = Len(messages) + j
    BY <1>2, <2>2
  <2> QED
    BY <1>2, <2>1, <2>2
<1> QED
  BY <1>3, <1>4, <1>5, <1>6, <1>7

\* The phases in which a turn is under way.
OpenPhases == {"call", "stream", "length", "tools", "execute", "results", "answer", "review"}

\* A turn that is open, or shown, after a step was so before it, or has just begun.
LEMMA OpenStep ==
    ASSUME TypeOK, ShapeOK, PhaseInv, OpenInv, GenuineInv, [Next]_vars
    PROVE  OpenInv'
<1>1. /\ iterations \in Nat /\ ui \in Seq(Segments) /\ Len(ui) = iterations
      /\ NoTurn.text = "none" /\ NoTurn.calls = <<>>
      /\ published \in [text : Texts, calls : Seq(Tools)] /\ calls \in Seq(Tools)
  BY TurnTypes DEF TypeOK, ShapeOK, NoTurn
<1>2. ASSUME iterations >= 1 PROVE iterations \in DOMAIN ui /\ ui[iterations] \in Segments
  BY <1>1, <1>2
<1> DEFINE Same == UNCHANGED <<iterations, rejected, messages>>
<1>3. CASE Same /\ UNCHANGED <<ui, published>> /\ pc' \notin {"reset"} \cup OpenPhases
  BY <1>3 DEF OpenInv, TurnIsOpen, OpenPhases
<1>4. CASE Same /\ UNCHANGED <<ui, published>> /\ pc \in OpenPhases /\ pc' \in OpenPhases
  BY <1>4 DEF OpenInv, TurnIsOpen, OpenPhases
<1>5. CASE UNCHANGED vars \/ ReceiverCloses
  BY <1>5 DEF vars, ReceiverCloses, History, OpenInv, TurnIsOpen
<1>6. CASE published' = NoTurn /\ pc' \notin {"reset"} \cup OpenPhases
  BY <1>6 DEF OpenInv, OpenPhases
<1>7. CASE BeginIteration
  <2> DEFINE e == [text |-> "none", calls |-> <<>>, results |-> FALSE]
  <2>1. /\ pc = "iterate" /\ iterations' = iterations + 1 /\ ui' = Append(ui, e)
        /\ pc' = "call" /\ UNCHANGED <<published, messages, rejected>>
    BY <1>7 DEF BeginIteration, History
  <2>2. published = NoTurn
    BY <2>1 DEF PhaseInv
  <2>3. e \in Segments /\ e.text = "none" /\ e.calls = <<>>
    <3>1. <<>> \in Seq(Tools)
      OBVIOUS
    <3> QED
      BY <3>1 DEF Segments, Texts
  <2> HIDE DEF e
  <2>4. ui'[iterations'] = e
    BY <1>1, <2>1, <2>3, AppendProperties
  <2>5. iterations' \notin rejected
    BY <1>1, <2>1 DEF ShapeOK
  <2>6. \A i \in DOMAIN messages : messages[i].role = "assistant" => messages[i].turn # iterations'
    BY <1>1, <2>1 DEF GenuineInv, Genuine
  <2>7. TurnIsOpen'
    BY <1>1, <2>1, <2>2, <2>3, <2>4, <2>5, <2>6 DEF TurnIsOpen
  <2> QED
    BY <2>1, <2>7 DEF OpenInv
<1>8. ASSUME NEW kind \in Streamed[req.mode], Publish(kind) PROVE OpenInv'
  <2>1. /\ pc = "stream" /\ pc' = "stream" /\ Same
        /\ published' = [published EXCEPT !.text = kind]
        /\ ui' = [ui EXCEPT ![iterations] = [ui[iterations] EXCEPT !.text = kind]]
    BY <1>8 DEF Publish, History
  <2>2. TurnIsOpen
    BY <2>1 DEF OpenInv
  <2>3. published'.text = kind /\ published'.calls = published.calls
    BY <1>1, <2>1
  <2>4. ui'[iterations].text = kind /\ ui'[iterations].calls = ui[iterations].calls
    BY <1>2, <2>1, <2>2 DEF TurnIsOpen, Segments
  <2>5. TurnIsOpen'
    BY <2>1, <2>2, <2>3, <2>4 DEF TurnIsOpen
  <2> QED
    BY <2>1, <2>5 DEF OpenInv
<1>9. CASE PublishToolCalls
  <2>1. /\ pc = "tools" /\ pc' = "execute" /\ Same
        /\ published' = [published EXCEPT !.calls = calls]
        /\ ui' = [ui EXCEPT ![iterations] = [ui[iterations] EXCEPT !.calls = calls]]
    BY <1>9 DEF PublishToolCalls, History
  <2>2. TurnIsOpen
    BY <2>1 DEF OpenInv
  <2>3. published'.text = published.text /\ published'.calls = calls
    BY <1>1, <2>1
  <2>4. ui'[iterations].text = ui[iterations].text /\ ui'[iterations].calls = calls
    BY <1>2, <2>1, <2>2 DEF TurnIsOpen, Segments
  <2>5. TurnIsOpen'
    BY <2>1, <2>2, <2>3, <2>4 DEF TurnIsOpen
  <2> QED
    BY <2>1, <2>5 DEF OpenInv
<1>10. ASSUME NEW next, TakeBackDraft(next), UNCHANGED <<iterations, ui>>,
              pc \in {"stream", "answer", "review"}
       PROVE  OpenInv'
  <2>1. published' = NoTurn /\ pc' = "reset" /\ iterations' \in rejected'
    BY <1>10 DEF TakeBackDraft
  <2>2. ui[iterations].calls = <<>>
    BY <1>10 DEF OpenInv, TurnIsOpen, PhaseInv
  <2> QED
    BY <1>10, <2>1, <2>2 DEF OpenInv
<1>11. ASSUME InvalidateCandidate \/ AnswerWithOpenPlan \/ AnswerWithoutRepair
                \/ \E v \in Verdicts : Review(v)
       PROVE  OpenInv'
  <2>1. /\ UNCHANGED <<iterations, ui>> /\ pc \in {"stream", "answer", "review"}
        /\ \/ TakeBackDraft("complete") \/ TakeBackDraft("iterate")
           \/ UNCHANGED <<messages, published, rejected>> /\ pc' = "complete"
    BY <1>11 DEF InvalidateCandidate, AnswerWithOpenPlan, AnswerWithoutRepair, Review, End
  <2> QED
    BY <1>3, <1>10, <2>1 DEF OpenPhases
<1>12. CASE LengthGate \/ EmptyAnswer \/ AnswerWithoutPlan
  BY <1>3, <1>6, <1>12 DEF LengthGate, EmptyAnswer, AnswerWithoutPlan, End, History, OpenPhases
<1>13. CASE OpenStream \/ DenyBatch \/ ExecuteToolCalls \/ AnswerForReview
  BY <1>4, <1>13 DEF OpenStream, DenyBatch, ExecuteToolCalls, AnswerForReview, History, OpenPhases
<1>14. ASSUME NEW r \in Replies, Finish(r) PROVE OpenInv'
  <2>1. pc = "stream" /\ pc' \in {"length", "tools", "answer"} /\ Same /\ UNCHANGED <<ui, published>>
    BY <1>14 DEF Finish, History, Replies
  <2> QED
    BY <1>4, <2>1 DEF OpenPhases
<1>15. CASE Start \/ CancelBeforePrompt \/ PublishToolResults \/ CheckpointHistory \/ CheckpointFails
              \/ SettleBatch \/ DeliverComplete \/ Cancel
  <2>1. published' = NoTurn /\ pc' \notin {"reset"} \cup OpenPhases
    BY <1>15 DEF Start, CancelBeforePrompt, PublishToolResults, CheckpointHistory, CheckpointFails,
                 SettleBatch, DeliverComplete, Cancel, End, OpenPhases, PhaseInv
  <2> QED
    BY <1>6, <2>1
<1>16. CASE DeliverDraftReset
  <2>1. published' = NoTurn /\ pc' \in {"iterate", "complete"}
    BY <1>16 DEF DeliverDraftReset, PhaseInv, ShapeOK
  <2> QED
    BY <1>6, <2>1 DEF OpenPhases
<1>17. CASE IterationsExhausted \/ ProviderFails
  BY <1>3, <1>17 DEF IterationsExhausted, ProviderFails, End, History, OpenPhases
<1> QED
  BY <1>5, <1>7, <1>8, <1>9, <1>11, <1>12, <1>13, <1>14, <1>15, <1>16, <1>17 DEF Next, RunnerStep

\* What the client was shown of a turn that is in the history does not change any more.
LEMMA ShownStays ==
    ASSUME TypeOK, ShapeOK, PhaseInv, OpenInv, [Next]_vars,
           NEW n \in 1 .. iterations,
           n \notin rejected \/ rejected' # rejected,
           n = iterations => messages' # messages \/ pc \notin {"stream", "tools", "reset"}
    PROVE  ui'[n].text = ui[n].text /\ ui'[n].calls = ui[n].calls
<1>1. iterations \in Nat
  BY TurnTypes
<1>2. CASE n # iterations
  BY <1>2, TranscriptStep
<1>3. CASE n = iterations
  BY <1>1, <1>3, Redraws
<1> QED
  BY <1>2, <1>3

\* A step writes no visible message that the client did not see.
LEMMA GenuineStep ==
    ASSUME TypeOK, ShapeOK, PhaseInv, OpenInv, GenuineInv, [Next]_vars
    PROVE  GenuineInv'
<1>1. PICK t \in Seq(Entries) :
        /\ messages' = messages \o t
        /\ \A i \in DOMAIN t : t[i].role = "assistant" =>
              /\ published # NoTurn
              /\ t[i].turn = iterations /\ t[i].text = published.text
              /\ t[i].calls = published.calls
              /\ t[i].hidden <=> rejected' # rejected
  BY GrowStep DEF Grows
<1>2. iterations \in Nat /\ iterations' \in Nat /\ iterations <= iterations'
  BY TranscriptStep, TurnTypes
<1>3. ASSUME NEW i \in DOMAIN messages', i \in DOMAIN messages, messages'[i] = messages[i]
      PROVE  Genuine(i)'
  <2> DEFINE m == messages[i]
  <2> SUFFICES ASSUME m.role = "assistant"
               PROVE  /\ m.turn \in 1 .. iterations'
                      /\ ~m.hidden => /\ m.turn \notin rejected'
                                      /\ m.text # "none" \/ m.calls # <<>>
                                      /\ ui'[m.turn].text = m.text /\ ui'[m.turn].calls = m.calls
    BY <1>3 DEF Genuine
  <2>1. Genuine(i)
    BY <1>3 DEF GenuineInv
  <2>2. m.turn \in 1 .. iterations
    BY <2>1 DEF Genuine
  <2>3. ASSUME ~m.hidden
        PROVE  /\ m.turn \notin rejected'
               /\ m.text # "none" \/ m.calls # <<>>
               /\ ui'[m.turn].text = m.text /\ ui'[m.turn].calls = m.calls
    <3>1. /\ m.turn \notin rejected
          /\ m.text # "none" \/ m.calls # <<>>
          /\ ui[m.turn].text = m.text /\ ui[m.turn].calls = m.calls
      BY <2>1, <2>3 DEF Genuine
    <3>2. pc \in {"stream", "tools", "answer", "review"} => m.turn # iterations
      BY <1>3 DEF OpenInv, TurnIsOpen
    <3>3. pc = "reset" => m.turn # iterations
      BY <3>1 DEF OpenInv
    <3>4. ui'[m.turn].text = ui[m.turn].text /\ ui'[m.turn].calls = ui[m.turn].calls
      <4>1. PICK n \in 1 .. iterations : n = m.turn
        BY <2>2
      <4>2. n \notin rejected /\ (n = iterations => pc \notin {"stream", "tools", "reset"})
        BY <3>1, <3>2, <3>3, <4>1
      <4> HIDE DEF m
      <4>3. ui'[n].text = ui[n].text /\ ui'[n].calls = ui[n].calls
        BY <4>2, ShownStays
      <4> QED
        BY <4>1, <4>3
    <3>5. m.turn \notin rejected'
      <4>1. rejected' = rejected \/ (rejected' = rejected \cup {iterations} /\ m.turn # iterations)
        BY <3>2, Records
      <4> QED
        BY <3>1, <4>1
    <3> QED
      BY <3>1, <3>4, <3>5
  <2> QED
    BY <1>2, <2>2, <2>3
<1>4. ASSUME NEW i \in DOMAIN messages', NEW j \in DOMAIN t, messages'[i] = t[j]
      PROVE  Genuine(i)'
  <2> SUFFICES ASSUME t[j].role = "assistant"
               PROVE  /\ t[j].turn \in 1 .. iterations'
                      /\ ~t[j].hidden => /\ t[j].turn \notin rejected'
                                         /\ t[j].text # "none" \/ t[j].calls # <<>>
                                         /\ ui'[t[j].turn].text = t[j].text
                                         /\ ui'[t[j].turn].calls = t[j].calls
    BY <1>4 DEF Genuine
  <2>1. /\ published # NoTurn /\ t[j].turn = iterations /\ t[j].text = published.text
        /\ t[j].calls = published.calls /\ (t[j].hidden <=> rejected' # rejected)
    BY <1>1, <1>4
  <2>2. TurnIsOpen
    BY <2>1 DEF OpenInv
  <2>3. t[j].turn \in 1 .. iterations /\ t[j].turn \in 1 .. iterations'
    BY <1>2, <2>1, <2>2 DEF TurnIsOpen
  <2>4. messages' # messages
    <3>1. t # <<>>
      BY <1>4
    <3> QED
      BY <1>1, <3>1, OldOrNew
  <2>5. ui'[iterations].text = published.text /\ ui'[iterations].calls = published.calls
    BY <2>1, <2>2, <2>3, <2>4, ShownStays DEF TurnIsOpen
  <2>6. published.text # "none" \/ published.calls # <<>>
    BY <2>1, TurnTypes DEF NoTurn
  <2> QED
    BY <2>1, <2>2, <2>3, <2>5, <2>6 DEF TurnIsOpen
<1> QED
  BY <1>1, <1>3, <1>4, OldOrNew DEF GenuineInv

\* Whatever changes the segment of an open turn shows something.
LEMMA PublishedGrows ==
    ASSUME TypeOK, PhaseInv, [Next]_vars, pc \in {"stream", "tools"}, ui' # ui
    PROVE  published' # NoTurn
<1>1. ASSUME NEW kind \in Streamed[req.mode], Publish(kind) PROVE published' # NoTurn
  <2>1. published' = [published EXCEPT !.text = kind] /\ kind # "none"
    BY <1>1, TurnTypes DEF Publish
  <2>2. published'.text = kind
    BY <2>1, TurnTypes
  <2> QED
    BY <2>1, <2>2 DEF NoTurn
<1>2. CASE PublishToolCalls
  <2>1. published' = [published EXCEPT !.calls = calls] /\ calls # <<>>
    BY <1>2 DEF PublishToolCalls, PhaseInv
  <2>2. published'.calls = calls
    BY <2>1, TurnTypes
  <2> QED
    BY <2>1, <2>2 DEF NoTurn
<1> QED
  BY <1>1, <1>2
     DEF Next, RunnerStep, vars, ReceiverCloses, CancelBeforePrompt, Start, BeginIteration,
         IterationsExhausted, OpenStream, ProviderFails, InvalidateCandidate, Finish, LengthGate,
         PublishToolResults, DenyBatch, ExecuteToolCalls, CheckpointHistory, CheckpointFails,
         SettleBatch, EmptyAnswer, AnswerWithoutPlan, AnswerWithOpenPlan, AnswerWithoutRepair,
         AnswerForReview, Review, DeliverDraftReset, DeliverComplete, Cancel

\* A step loses no turn that the client saw.
LEMMA KeptStep ==
    ASSUME TypeOK, ShapeOK, PhaseInv, OpenInv, GenuineInv, KeptInv, [Next]_vars
    PROVE  KeptInv'
<1>1. PICK t \in Seq(Entries) :
        /\ messages' = messages \o t
        /\ \A i \in DOMAIN t : t[i].role = "assistant" =>
              /\ published # NoTurn
              /\ t[i].turn = iterations /\ t[i].text = published.text
              /\ t[i].calls = published.calls
              /\ t[i].hidden <=> rejected' # rejected
        /\ published # NoTurn /\ published' = NoTurn =>
              \E i \in DOMAIN t : t[i].role = "assistant"
  BY GrowStep DEF Grows
<1>2. iterations \in Nat
  BY TurnTypes
<1>3. CASE BeginIteration
  <2> DEFINE e == [text |-> "none", calls |-> <<>>, results |-> FALSE]
  <2>1. /\ iterations' = iterations + 1 /\ ui' = Append(ui, e) /\ pc = "iterate"
        /\ UNCHANGED messages
    BY <1>3 DEF BeginIteration
  <2>2. e \in Segments /\ e.text = "none" /\ e.calls = <<>>
    <3>1. <<>> \in Seq(Tools)
      OBVIOUS
    <3> QED
      BY <3>1 DEF Segments, Texts
  <2> HIDE DEF e
  <2>3. ui'[iterations'] = e /\ \A n \in 1 .. iterations : ui'[n] = ui[n]
    BY <1>2, <2>1, <2>2, AppendProperties DEF TypeOK, ShapeOK
  <2>4. published = NoTurn /\ pc # "reset" /\ ~Done("cancelled")
    BY <2>1 DEF PhaseInv, Done
  <2> SUFFICES ASSUME NEW n \in 1 .. iterations', ui'[n].text # "none" \/ ui'[n].calls # <<>>
               PROVE  \E i \in DOMAIN messages : messages[i].role = "assistant"
                                     /\ ~messages[i].hidden /\ messages[i].turn = n
    BY <2>1 DEF KeptInv, Kept
  <2>5. n \in 1 .. iterations
    <3>1. n # iterations'
      BY <2>2, <2>3
    <3> QED
      BY <1>2, <2>1, <3>1
  <2> QED
    BY <2>3, <2>4, <2>5 DEF KeptInv, Kept
<1>4. ASSUME iterations' = iterations,
             NEW n \in 1 .. iterations, ui'[n].text # "none" \/ ui'[n].calls # <<>>
      PROVE  \/ \E i \in DOMAIN messages' :
                   /\ messages'[i].role = "assistant" /\ ~messages'[i].hidden
                   /\ messages'[i].turn = n
             \/ n = iterations' /\ (published' # NoTurn \/ pc' = "reset")
             \/ Done("cancelled")'
  <2>1. CASE n = iterations /\ published # NoTurn
    <3>1. CASE published' # NoTurn
      BY <1>4, <2>1, <3>1
    <3>2. CASE published' = NoTurn /\ rejected' # rejected
      BY <1>4, <2>1, <3>2, Turns
    <3>3. CASE published' = NoTurn /\ rejected' = rejected
      <4>1. PICK j \in DOMAIN t : t[j].role = "assistant"
        BY <1>1, <2>1, <3>3
      <4>2. t[j].turn = n /\ ~t[j].hidden
        BY <1>1, <2>1, <3>3, <4>1
      <4>3. PICK i \in DOMAIN messages' : messages'[i] = t[j]
        BY <1>1, OldOrNew
      <4> QED
        BY <4>1, <4>2, <4>3
    <3> QED
      BY <3>1, <3>2, <3>3
  <2>2. CASE n = iterations /\ pc = "reset" /\ published = NoTurn
    <3>1. ~DeliverDraftReset
      <4> SUFFICES ASSUME DeliverDraftReset PROVE FALSE
        OBVIOUS
      <4>1. ui[n].calls = <<>> /\ iterations >= 1
        BY <1>2, <2>2 DEF OpenInv
      <4>2. ui'[n].text = "none" /\ ui'[n].calls = <<>>
        BY <2>2, <4>1, Redraws
      <4> QED
        BY <1>4, <4>2
    <3> QED
      BY <1>4, <2>2, <3>1, Turns
  <2>3. CASE Done("cancelled")
    BY <2>3, Turns DEF Done
  <2>4. CASE ~(n = iterations /\ (published # NoTurn \/ pc = "reset")) /\ ~Done("cancelled")
    <3>1. CASE ui[n].text # "none" \/ ui[n].calls # <<>>
      <4>1. PICK i \in DOMAIN messages :
               messages[i].role = "assistant" /\ ~messages[i].hidden /\ messages[i].turn = n
        BY <2>4, <3>1 DEF KeptInv, Kept
      <4> QED
        BY <4>1, GrowStep, HistoryGrows
    <3>2. CASE ~(ui[n].text # "none" \/ ui[n].calls # <<>>)
      <4>1. n = iterations
        BY <1>4, <3>2, TranscriptStep
      <4>2. pc \in {"stream", "tools"} /\ ui'[n] # ui[n]
        BY <1>2, <1>4, <2>4, <3>2, <4>1, Redraws
      <4>3. published' # NoTurn
        BY <4>2, PublishedGrows
      <4> QED
        BY <1>4, <4>1, <4>3
    <3> QED
      BY <3>1, <3>2
  <2> QED
    BY <2>1, <2>2, <2>3, <2>4
<1> QED
  BY <1>3, <1>4, Turns DEF KeptInv, Kept

-----------------------------------------------------------------------------
(* The review *)

\* What was repaired stays repaired: only a batch adds successful results.
LEMMA RepairStays ==
    ASSUME ShapeOK, Grows, UNCHANGED repairFrom, pc # "results"
    PROVE  RepairComplete' <=> RepairComplete
<1>1. PICK t \in Seq(Entries) :
        /\ messages' = messages \o t
        /\ \A i \in DOMAIN t : ~(t[i].role = "tool" /\ t[i].ok)
  BY DEF Grows
<1> DEFINE u == messages \o t
           Good(m, name) == m.role = "tool" /\ m.ok /\ m.calls = <<name>>
<1>2. /\ DOMAIN messages = 1 .. Len(messages) /\ DOMAIN u = 1 .. Len(messages) + Len(t)
      /\ DOMAIN t = 1 .. Len(t) /\ Len(t) \in Nat /\ Len(messages) \in Nat
      /\ \A i \in 1 .. Len(messages) : u[i] = messages[i]
      /\ \A i \in 1 .. Len(t) : u[Len(messages) + i] = t[i]
      /\ \A i \in DOMAIN u : i \in 1 .. Len(messages) \/ \E j \in 1 .. Len(t) : i = Len(messages) + j
  BY Concatenated DEF ShapeOK
<1> HIDE DEF u
<1>3. messages' = u
  BY <1>1 DEF u
<1>4. \A i \in DOMAIN u : u[i].role = "tool" /\ u[i].ok => i \in DOMAIN messages
  BY <1>1, <1>2
<1>5. ASSUME NEW name
      PROVE  {j \in DOMAIN u : j > repairFrom /\ u[j].role = "tool" /\ u[j].ok /\ u[j].calls = <<name>>}
           = {j \in DOMAIN messages : j > repairFrom /\ messages[j].role = "tool"
                                        /\ messages[j].ok /\ messages[j].calls = <<name>>}
  BY <1>2, <1>4
<1>6. ASSUME NEW name PROVE SuccessfulTurns(name)' = SuccessfulTurns(name)
  <2> DEFINE I == {j \in DOMAIN messages : j > repairFrom /\ messages[j].role = "tool"
                                        /\ messages[j].ok /\ messages[j].calls = <<name>>}
  <2>1. SuccessfulTurns(name) = {messages[i].turn : i \in I}
    BY DEF SuccessfulTurns
  <2>2. SuccessfulTurns(name)' = {u[i].turn : i \in I}
    BY <1>3, <1>5 DEF SuccessfulTurns
  <2>3. \A i \in I : u[i] = messages[i]
    BY <1>2
  <2> HIDE DEF I
  <2> QED
    BY <2>1, <2>2, <2>3
<1> QED
  BY <1>6 DEF RepairComplete

\* Under review, about to complete naturally, or completed.
Approving == pc = "review" \/ (pc = "complete" /\ ending.kind = "natural") \/ Done("natural")

\* Only a review leads to a natural completion, and only an answer to a review.
LEMMA ApprovingStep ==
    ASSUME ShapeOK, PauseInv, [Next]_vars, Approving'
    PROVE  \/ Approving /\ UNCHANGED <<req, pc, messages, ctx, plan, gate, repairFrom, ending,
                                       outcome, verdict>>
           \/ AnswerForReview
           \/ \E v \in Verdicts : Review(v)
           \/ DeliverComplete
<1> USE DEF Approving, Done
<1>1. CASE UNCHANGED vars \/ ReceiverCloses
  BY <1>1 DEF vars, ReceiverCloses, Loop, History
<1>2. ASSUME NEW e, End(e), e.kind # "natural" PROVE FALSE
  BY <1>2 DEF End
<1>3. ErrorEnding.kind # "natural" /\ \A what : Awaiting(what).kind # "natural"
  BY DEF ErrorEnding, Awaiting
<1>4. CASE \/ Start \/ CancelBeforePrompt \/ BeginIteration \/ OpenStream
           \/ PublishToolCalls \/ DenyBatch \/ ExecuteToolCalls \/ PublishToolResults
           \/ CheckpointHistory \/ Cancel
           \/ \E kind \in Streamed[req.mode] : Publish(kind)
  BY <1>4 DEF Start, CancelBeforePrompt, BeginIteration, OpenStream, PublishToolCalls, DenyBatch,
              ExecuteToolCalls, PublishToolResults, CheckpointHistory, Cancel, Publish
<1>5. CASE IterationsExhausted \/ ProviderFails \/ CheckpointFails
  BY <1>2, <1>3, <1>5 DEF IterationsExhausted, ProviderFails, CheckpointFails
<1>6. CASE LengthGate \/ EmptyAnswer \/ AnswerWithoutPlan
  <2>1. \/ pc' = "iterate" \/ End(ErrorEnding) \/ End([kind |-> "max_iters", awaiting |-> "none"])
    BY <1>6 DEF LengthGate, EmptyAnswer, AnswerWithoutPlan
  <2> QED
    BY <1>2, <1>3, <2>1
<1>7. CASE SettleBatch
  <2>1. \/ pc' = "iterate" \/ End(ErrorEnding) \/ End(Awaiting("plan_approval"))
        \/ End(Awaiting("user_response"))
    BY <1>7 DEF SettleBatch
  <2> QED
    BY <1>2, <1>3, <2>1
<1>8. CASE InvalidateCandidate \/ AnswerWithOpenPlan \/ AnswerWithoutRepair
  <2>1. pc' = "reset" \/ (pc' = "complete" /\ ending' = ErrorEnding)
    BY <1>8 DEF InvalidateCandidate, AnswerWithOpenPlan, AnswerWithoutRepair, TakeBackDraft, End
  <2> QED
    BY <1>3, <2>1
<1>9. ASSUME NEW r \in Replies, Finish(r) PROVE FALSE
  <2>1. pc' \in {"length", "tools", "answer"}
    BY <1>9 DEF Finish, Replies
  <2> QED
    BY <2>1
<1>10. CASE DeliverDraftReset
  <2>1. pc = "reset" /\ pc' = then /\ UNCHANGED ending
    BY <1>10 DEF DeliverDraftReset
  <2> QED
    BY <2>1 DEF PauseInv, ShapeOK
<1> QED
  BY <1>1, <1>4, <1>5, <1>6, <1>7, <1>8, <1>9, <1>10 DEF Next, RunnerStep

\* The review is asked once the gates before it are passed, and what it looked at is what
\* the run completes with.
LEMMA ReviewStep ==
    ASSUME TypeOK, ShapeOK, PhaseInv, OpenInv, ReviewInv, ContextInv, PauseInv, [Next]_vars
    PROVE  ReviewInv'
<1>1. Grows
  BY GrowStep
<1> SUFFICES ASSUME Approving'
             PROVE  /\ ~PlanMode'
                    /\ (repairFrom # 0 => RepairComplete)'
                    /\ (EnforcePlanCompletion => ctx.plan = "done")'
                    /\ (pc = "complete" => ReviewPasses(verdict))'
                    /\ (pc = "done" => ReviewPasses(verdict) /\ plan = ctx.plan)'
  BY DEF ReviewInv, Approving, Done
<1>2. CASE Approving /\ UNCHANGED <<req, pc, messages, ctx, plan, gate, repairFrom, ending,
                                   outcome, verdict>>
  <2>1. RepairComplete' <=> RepairComplete
    BY <1>2 DEF RepairComplete, SuccessfulTurns
  <2> QED
    BY <1>2, <2>1 DEF ReviewInv, Approving, Done, PlanMode, EnforcePlanCompletion, ReviewPasses
<1>3. CASE AnswerForReview
  <2>1. /\ pc = "answer" /\ pc' = "review" /\ UNCHANGED <<req, messages, ctx, repairFrom>>
        /\ PlanGatePassed /\ (EnforcePlanCompletion => PlanComplete)
        /\ repairFrom = 0 \/ RepairComplete
    BY <1>3 DEF AnswerForReview, Request
  <2>2. ~PlanMode
    BY <2>1 DEF ContextInv, OnlyTheProposal, PlanGatePassed
  <2>3. RepairComplete' <=> RepairComplete
    BY <1>1, <2>1, RepairStays
  <2> QED
    BY <2>1, <2>2, <2>3 DEF PlanMode, EnforcePlanCompletion, PlanComplete
<1>4. ASSUME NEW v \in Verdicts, Review(v)
      PROVE  /\ ~PlanMode'
             /\ (repairFrom # 0 => RepairComplete)'
             /\ (EnforcePlanCompletion => ctx.plan = "done")'
             /\ ReviewPasses(verdict)'
             /\ pc' # "done"
  <2>1. /\ pc = "review" /\ verdict' = v /\ UNCHANGED <<req, ctx, outcome>>
        /\ \/ pc' = "reset"
           \/ /\ pc' = "complete" /\ UNCHANGED repairFrom
              /\ ending' = IF ReviewPasses(v) THEN [kind |-> "natural", awaiting |-> "none"]
                           ELSE ErrorEnding
        /\ v \notin {"veto", "veto_artifact"} => gate' = gate
    BY <1>4 DEF Review, TakeBackDraft, End, Request
  <2>2. pc' = "complete" /\ ending'.kind = "natural"
    BY <2>1 DEF Approving, Done
  <2>3. ReviewPasses(v) /\ gate' = gate
    BY <2>1, <2>2 DEF ErrorEnding, ReviewPasses
  <2>4. RepairComplete' <=> RepairComplete
    BY <1>1, <2>1, <2>2, RepairStays
  <2> QED
    BY <2>1, <2>2, <2>3, <2>4 DEF ReviewInv, PlanMode, EnforcePlanCompletion, ReviewPasses
<1>5. CASE DeliverComplete
  <2>1. /\ pc = "complete" /\ pc' = "done" /\ outcome' = ending
        /\ UNCHANGED <<req, ctx, gate, repairFrom, verdict>>
        /\ ending.kind = "natural" => plan' = ctx.plan
    BY <1>5 DEF DeliverComplete, Request, Loop, History, PauseInv
  <2>2. ending.kind = "natural"
    BY <2>1 DEF Approving, Done
  <2>3. RepairComplete' <=> RepairComplete
    BY <1>1, <2>1, RepairStays
  <2> QED
    BY <2>1, <2>2, <2>3 DEF ReviewInv, PlanMode, EnforcePlanCompletion, ReviewPasses
<1>6. ASSUME NEW v \in Verdicts, Review(v) PROVE pc' # "done"
  BY <1>4, <1>6
<1> QED
  BY <1>2, <1>3, <1>4, <1>5, ApprovingStep

-----------------------------------------------------------------------------
(* The plan and what backs it *)

\* A success in the history stays there.
LEMMA BeforeStays ==
    ASSUME TypeOK, ShapeOK, PhaseInv, OpenInv, [Next]_vars, NEW name, SucceededBefore(name)
    PROVE  SucceededBefore(name)'
<1>1. /\ \A i \in DOMAIN messages : i \in DOMAIN messages' /\ messages'[i] = messages[i]
  BY GrowStep, HistoryGrows
<1> QED
  BY <1>1 DEF SucceededBefore

\* A success of the batch under way enters the history with the batch.
LEMMA NowBecomesBefore ==
    ASSUME TypeOK, ShapeOK, PhaseInv, PublishToolResults, NEW name, SucceededNow(name)
    PROVE  SucceededBefore(name)'
<1>1. /\ pc = "results"
      /\ messages' = CommitPublished \o [i \in DOMAIN calls |-> ToolEntry(calls[i], results[i])]
  BY DEF PublishToolResults
<1>2. published.calls = calls /\ Len(results) = Len(calls)
  BY <1>1 DEF PhaseInv
<1>3. \A i \in DOMAIN published.calls : results[i] \in BOOLEAN
  <2>1. calls \in Seq(Tools) /\ results \in Seq(BOOLEAN)
    BY TurnTypes DEF ShapeOK
  <2> QED
    BY <1>2, <2>1
<1>4. PICK k \in DOMAIN calls : calls[k] = name /\ results[k]
  BY DEF SucceededNow, Succeeded
<1> DEFINE b == [i \in DOMAIN published.calls |-> ToolEntry(published.calls[i], results[i])]
           t == PublishedMessage \o b
<1>5. /\ t \in Seq(Entries)
      /\ \A j \in DOMAIN published.calls :
            \E i \in DOMAIN t : t[i] = ToolEntry(published.calls[j], results[j])
  BY <1>3, TurnEntries
<1>6. messages' = messages \o t
  <2>1. PublishedMessage \in Seq(Entries) /\ b \in Seq(Entries) /\ messages \in Seq(Entries)
    <3>1. Assistant(published) \in Entries
      BY TurnTypes DEF Assistant, Entries
    <3>2. PublishedMessage \in Seq(Entries)
      BY <3>1 DEF PublishedMessage
    <3> QED
      BY <1>3, <3>2, BatchEntries, TurnTypes DEF ShapeOK
  <2>2. messages' = (messages \o PublishedMessage) \o b
    BY <1>1, <1>2 DEF CommitPublished
  <2> HIDE DEF b
  <2> QED
    BY <2>1, <2>2, ConcatAssociative
<1> HIDE DEF t
<1>7. PICK j \in DOMAIN t : t[j] = ToolEntry(name, results[k])
  BY <1>2, <1>4, <1>5
<1>8. PICK i \in DOMAIN messages' : messages'[i] = t[j]
  BY <1>5, <1>6, OldOrNew
<1>9. /\ ToolEntry(name, results[k]).role = "tool"
      /\ ToolEntry(name, results[k]).calls = <<name>>
  BY DEF ToolEntry
<1>10. ToolEntry(name, results[k]).ok
  BY <1>4 DEF ToolEntry
<1> QED
  BY <1>7, <1>8, <1>9, <1>10 DEF SucceededBefore

\* Only the tools and the settling of their batch touch the context, only an accepted
\* batch and the end touch the plan, and a batch under way is published or cancelled.
LEMMA PlanMoves ==
    ASSUME ShapeOK, PhaseInv, [Next]_vars
    PROVE  /\ UNCHANGED req
           /\ UNCHANGED ctx \/ ExecuteToolCalls \/ SettleBatch
           /\ UNCHANGED plan \/ PublishToolResults \/ DeliverComplete
           /\ pc = "results" => \/ UNCHANGED <<pc, calls, results, ctx, plan>>
                                \/ PublishToolResults
                                \/ pc' = "done" /\ UNCHANGED <<ctx, plan>>
           /\ pc' = "results" => \/ UNCHANGED <<pc, calls, results, ctx>>
                                 \/ ExecuteToolCalls \/ DenyBatch
           /\ pc' = "checkpoint" => UNCHANGED <<pc, ctx, plan>> \/ PublishToolResults
           /\ pc' = "settle" => \/ UNCHANGED <<pc, messages, calls, results, ctx, plan, saved>>
                                \/ CheckpointHistory
           /\ pc \in {"checkpoint", "settle"} =>
                 \/ UNCHANGED pc \/ pc' \in {"complete", "done"} \/ CheckpointHistory
                 \/ SettleBatch
           /\ pc = "complete" => \/ UNCHANGED pc
                                 \/ pc' = "done"
           /\ pc = "done" => UNCHANGED pc
<1>1. CASE UNCHANGED vars \/ ReceiverCloses
  BY <1>1 DEF vars, ReceiverCloses, Loop, History
<1>2. CASE Start \/ CancelBeforePrompt \/ BeginIteration \/ IterationsExhausted \/ OpenStream
             \/ ProviderFails \/ InvalidateCandidate
  BY <1>2 DEF Start, CancelBeforePrompt, BeginIteration, IterationsExhausted, OpenStream,
              ProviderFails, InvalidateCandidate, TakeBackDraft, Request, End
<1>3. ASSUME NEW kind \in Streamed[req.mode], Publish(kind)
      PROVE  pc = "stream" /\ UNCHANGED <<req, pc, ctx, plan>>
  BY <1>3 DEF Publish, Request
<1>4. ASSUME NEW r \in Replies, Finish(r)
      PROVE  /\ pc = "stream" /\ pc' \in {"length", "tools", "answer"}
             /\ UNCHANGED <<req, ctx, plan>>
  BY <1>4 DEF Finish, Request, Replies
<1>5. ASSUME NEW v \in Verdicts, Review(v)
      PROVE  pc = "review" /\ pc' \in {"reset", "complete"} /\ UNCHANGED <<req, ctx, plan>>
  BY <1>5 DEF Review, TakeBackDraft, End, Request
<1>6. CASE LengthGate \/ EmptyAnswer \/ AnswerWithoutPlan \/ AnswerWithOpenPlan
             \/ AnswerWithoutRepair \/ AnswerForReview
  <2>1. /\ pc \in {"length", "answer"} /\ pc' \in {"iterate", "complete", "reset", "review"}
        /\ UNCHANGED <<req, ctx, plan>>
    BY <1>6 DEF LengthGate, EmptyAnswer, AnswerWithoutPlan, AnswerWithOpenPlan,
                AnswerWithoutRepair, AnswerForReview, TakeBackDraft, End, Request
  <2> QED
    BY <2>1
<1>7. CASE PublishToolCalls \/ DenyBatch \/ ExecuteToolCalls \/ PublishToolResults
  BY <1>7 DEF PublishToolCalls, DenyBatch, ExecuteToolCalls, PublishToolResults, Request
<1>8. CASE CheckpointHistory \/ CheckpointFails
  BY <1>8 DEF CheckpointHistory, CheckpointFails, Request, End
<1>9. CASE SettleBatch
  <2>1. pc = "settle" /\ pc' \in {"complete", "iterate"} /\ UNCHANGED <<req, plan>>
    BY <1>9 DEF SettleBatch, Request, End
  <2> QED
    BY <1>9, <2>1
<1>10. ASSUME DeliverDraftReset
       PROVE  /\ pc = "reset" /\ pc' \in {"iterate", "complete"}
              /\ UNCHANGED <<req, ctx, plan>>
  BY <1>10 DEF DeliverDraftReset, Request, ShapeOK, PhaseInv
<1>11. CASE DeliverComplete \/ Cancel
  BY <1>11 DEF DeliverComplete, Cancel, CancelPoint, PlanAfterCancel, Request
<1> QED
  BY <1>1, <1>2, <1>3, <1>4, <1>5, <1>6, <1>7, <1>8, <1>9, <1>10, <1>11 DEF Next, RunnerStep

\* What a batch makes of the plan.
LEMMA PlanAfterBatch ==
    ASSUME TypeOK, ExecuteToolCalls
    PROVE  /\ UNCHANGED calls /\ pc = "execute" /\ pc' = "results"
           /\ ctx'.plan = "unapproved" =>
                 Succeeded(results, "generate_plan")' \/ ctx.plan = "unapproved"
           /\ ctx'.plan = "done" =>
                 Succeeded(results, "update_step_status")' \/ ctx.plan = "done"
           /\ PlanMode => \/ ctx'.plan = ctx.plan
                          \/ ctx'.plan = "unapproved" /\ Succeeded(results, "generate_plan")'
<1>1. /\ UNCHANGED calls /\ pc = "execute" /\ pc' = "results" /\ ~BatchDenied
      /\ ctx' \in ContextsAfter(results')
  BY DEF ExecuteToolCalls
<1>2. \A name : Succeeded(results, name)' <=> Succeeded(results', name)
  BY <1>1 DEF Succeeded
<1>3. /\ ctx'.plan \in IF Succeeded(results', "generate_plan") THEN {"unapproved"}
                        ELSE IF Succeeded(results', "update_step_status") THEN {"unfinished", "done"}
                        ELSE {ctx.plan}
  BY <1>1 DEF ContextsAfter
<1>4. PlanMode => ~Succeeded(results', "update_step_status")
  BY <1>1 DEF BatchDenied, Succeeded, IsPreapprovalPlanTool
<1> QED
  BY <1>1, <1>2, <1>3, <1>4

\* The settling of a batch withdraws the question, never the plan.
LEMMA SettleKeepsPlan ==
    ASSUME TypeOK, SettleBatch
    PROVE  ctx'.plan = ctx.plan
<1>1. ctx' = ctx \/ ctx' = [ctx EXCEPT !.ask = FALSE]
  BY DEF SettleBatch
<1> QED
  BY <1>1 DEF TypeOK

\* A plan that the context keeps, from a state where the history says all.
LEMMA BackedStays ==
    ASSUME TypeOK, ShapeOK, PhaseInv, OpenInv, ContextIsBacked, [Next]_vars,
           pc \notin {"results", "done"}
    PROVE  /\ ctx.plan = "unapproved" => SucceededBefore("generate_plan")'
           /\ ctx.plan = "done" => SucceededBefore("update_step_status")'
<1>1. \A name : ~SucceededNow(name)
  BY DEF SucceededNow
<1>2. ctx.plan = "unapproved" => SucceededBefore("generate_plan")
  BY <1>1 DEF ContextIsBacked
<1>3. ctx.plan = "done" => SucceededBefore("update_step_status")
  BY <1>1 DEF ContextIsBacked
<1> QED
  BY <1>2, <1>3, BeforeStays

\* A step moves the plan of the context only by a tool that succeeded.
LEMMA BackedStep ==
    ASSUME TypeOK, ShapeOK, PhaseInv, OpenInv, ContextIsBacked, [Next]_vars
    PROVE  ContextIsBacked'
<1> SUFFICES ASSUME pc' # "done" PROVE ContextIsBacked'
  BY DEF ContextIsBacked
<1>1. pc # "done"
  BY PlanMoves
<1>2. CASE pc = "results"
  <2>1. CASE UNCHANGED <<pc, calls, results, ctx>>
    <3>1. \A name : SucceededNow(name)' <=> SucceededNow(name)
      BY <2>1 DEF SucceededNow, Succeeded
    <3>2. ASSUME NEW name, SucceededBefore(name) \/ SucceededNow(name)
          PROVE  SucceededBefore(name)' \/ SucceededNow(name)'
      BY <3>1, <3>2, BeforeStays
    <3> QED
      BY <1>1, <2>1, <3>2 DEF ContextIsBacked
  <2>2. CASE PublishToolResults
    <3>1. UNCHANGED ctx
      BY <2>2 DEF PublishToolResults
    <3>2. ASSUME NEW name, SucceededBefore(name) \/ SucceededNow(name)
          PROVE  SucceededBefore(name)'
      BY <2>2, <3>2, BeforeStays, NowBecomesBefore
    <3> QED
      BY <1>1, <3>1, <3>2 DEF ContextIsBacked
  <2> QED
    BY <1>2, <2>1, <2>2, PlanMoves
<1>3. CASE pc # "results" /\ ~ExecuteToolCalls
  <2>1. ctx'.plan = ctx.plan
    BY <1>3, PlanMoves, SettleKeepsPlan
  <2> QED
    BY <1>1, <1>3, <2>1, BackedStays DEF ContextIsBacked
<1>4. CASE ExecuteToolCalls
  <2>1. pc = "execute" /\ pc' = "results"
    BY <1>4, PlanAfterBatch
  <2>2. \A name : Succeeded(results, name)' <=> SucceededNow(name)'
    BY <2>1 DEF SucceededNow
  <2> QED
    BY <1>4, <2>1, <2>2, PlanAfterBatch, BackedStays DEF ContextIsBacked
<1> QED
  BY <1>2, <1>3, <1>4

\* A planning run gets no plan but its own proposal.
LEMMA ProposalStep ==
    ASSUME TypeOK, ShapeOK, PhaseInv, ReviewInv, PauseInv, OnlyTheProposal, [Next]_vars
    PROVE  OnlyTheProposal'
<1> SUFFICES ASSUME PlanMode
             PROVE  /\ ctx'.plan \in {"none", "unapproved"} /\ plan' \in {"none", "unapproved"}
                    /\ plan' = "unapproved" => ctx'.plan = "unapproved"
                    /\ ctx'.plan # "none" =>
                          pc' \in {"results", "checkpoint", "settle", "complete", "done"}
                    /\ pc' = "results" /\ ctx'.plan # "none" => Succeeded(results, "generate_plan")'
                    /\ pc' \in {"checkpoint", "settle"} => plan' = ctx'.plan
  BY PlanMoves DEF OnlyTheProposal, PlanMode
<1>1. /\ ctx.plan \in {"none", "unapproved"} /\ plan \in {"none", "unapproved"}
      /\ plan = "unapproved" => ctx.plan = "unapproved"
      /\ ctx.plan # "none" => pc \in {"results", "checkpoint", "settle", "complete", "done"}
      /\ pc = "results" /\ ctx.plan # "none" => Succeeded(results, "generate_plan")
      /\ pc \in {"checkpoint", "settle"} => plan = ctx.plan
  BY DEF OnlyTheProposal
<1>2. CASE ExecuteToolCalls
  <2>1. ctx.plan = "none" /\ plan = "none" /\ UNCHANGED plan
    BY <1>1, <1>2 DEF ExecuteToolCalls
  <2> QED
    BY <1>2, <2>1, PlanAfterBatch
<1>3. CASE SettleBatch
  <2>1. /\ pc = "settle" /\ UNCHANGED plan
        /\ pc' = "complete" \/ (pc' = "iterate" /\ ctx.plan # "unapproved")
    BY <1>3 DEF SettleBatch, End
  <2> QED
    BY <1>1, <1>3, <2>1, SettleKeepsPlan
<1>4. CASE PublishToolResults
  <2>1. /\ pc = "results" /\ pc' = "checkpoint" /\ UNCHANGED ctx
        /\ plan' = IF PlanChanged THEN ctx.plan ELSE plan
    BY <1>4 DEF PublishToolResults
  <2>2. plan' = ctx.plan
    BY <1>1, <2>1 DEF PlanChanged
  <2> QED
    BY <1>1, <2>1, <2>2
<1>5. CASE DeliverComplete
  <2>1. ending.kind # "natural" /\ ending.awaiting # "plan_execution"
    BY <1>5 DEF DeliverComplete, ReviewInv, PauseInv, PlanMode, EnforcePlanCompletion
  <2>2. UNCHANGED <<ctx, plan>> /\ pc' = "done"
    BY <1>5, <2>1 DEF DeliverComplete
  <2> QED
    BY <1>1, <2>2
<1>6. CASE UNCHANGED <<ctx, plan>> /\ ctx.plan = "none"
  BY <1>1, <1>6
<1>7. CASE UNCHANGED <<ctx, plan>> /\ ctx.plan # "none" /\ ~PublishToolResults /\ ~SettleBatch
  <2>1. pc \in {"results", "checkpoint", "settle", "complete", "done"}
    BY <1>1, <1>7
  <2>2. CASE pc = "results"
    <3>1. UNCHANGED <<pc, calls, results>> \/ pc' = "done"
      BY <1>7, <2>2, PlanMoves
    <3> QED
      BY <1>1, <1>7, <2>2, <3>1 DEF Succeeded
  <2>3. CASE pc = "checkpoint"
    BY <1>1, <1>7, <2>3, PlanMoves DEF CheckpointHistory
  <2>4. CASE pc \in {"settle", "complete", "done"}
    <3>1. UNCHANGED pc \/ pc' \in {"complete", "done"}
      BY <1>7, <2>4, PlanMoves DEF CheckpointHistory
    <3> QED
      BY <1>1, <1>7, <2>4, <3>1
  <2> QED
    BY <2>1, <2>2, <2>3, <2>4
<1> QED
  BY <1>2, <1>3, <1>4, <1>5, <1>6, <1>7, PlanMoves

\* A plan is taken over from a context that the history backs.
LEMMA BackingStep ==
    ASSUME TypeOK, ShapeOK, PhaseInv, OpenInv, ContextIsBacked, PauseInv, PlanBackedByHistory,
           [Next]_vars
    PROVE  PlanBackedByHistory'
<1>1. ASSUME plan' = plan PROVE PlanBackedByHistory'
  <2>1. plan = "unapproved" => SucceededBefore("generate_plan")
    BY DEF PlanBackedByHistory, SucceededBefore
  <2>2. plan = "done" => SucceededBefore("update_step_status")
    BY DEF PlanBackedByHistory, SucceededBefore
  <2>3. plan = "unapproved" => SucceededBefore("generate_plan")'
    BY <2>1, BeforeStays
  <2>4. plan = "done" => SucceededBefore("update_step_status")'
    BY <2>2, BeforeStays
  <2> QED
    BY <1>1, <2>3, <2>4 DEF PlanBackedByHistory, SucceededBefore
<1>2. ASSUME plan' = ctx.plan \/ plan' = "unfinished",
             ctx.plan = "unapproved" => SucceededBefore("generate_plan")',
             ctx.plan = "done" => SucceededBefore("update_step_status")'
      PROVE  PlanBackedByHistory'
  BY <1>2 DEF PlanBackedByHistory, SucceededBefore
<1>3. CASE PublishToolResults
  <2>1. pc = "results" /\ plan' = IF PlanChanged THEN ctx.plan ELSE plan
    BY <1>3 DEF PublishToolResults
  <2>2. ASSUME NEW name, SucceededBefore(name) \/ SucceededNow(name)
        PROVE  SucceededBefore(name)'
    BY <1>3, <2>2, BeforeStays, NowBecomesBefore
  <2>3. /\ ctx.plan = "unapproved" => SucceededBefore("generate_plan")'
        /\ ctx.plan = "done" => SucceededBefore("update_step_status")'
    BY <2>1, <2>2 DEF ContextIsBacked
  <2> QED
    BY <1>1, <1>2, <2>1, <2>3
<1>4. CASE DeliverComplete
  <2>1. /\ pc = "complete"
        /\ plan' = ctx.plan \/ plan' = "unfinished" \/ plan' = plan
    BY <1>4 DEF DeliverComplete, RetryablePlan, PauseInv
  <2> QED
    BY <1>1, <1>2, <2>1, BackedStays
<1> QED
  BY <1>1, <1>3, <1>4, PlanMoves

-----------------------------------------------------------------------------
(* Pauses *)

\* A step announces no pause that the checkpoint has not saved.
LEMMA PauseStep ==
    ASSUME TypeOK, ShapeOK, PhaseInv, ContextInv, PauseInv, [Next]_vars
    PROVE  PauseInv'
<1>1. \A what : Awaiting(what).kind = "awaiting" /\ Awaiting(what).awaiting = what
  BY DEF Awaiting
<1>2. ErrorEnding.kind = "error" /\ ErrorEnding.awaiting = "none"
  BY DEF ErrorEnding
<1> USE DEF PauseInv
<1>3. CASE UNCHANGED vars \/ ReceiverCloses
  BY <1>3 DEF vars, ReceiverCloses, Loop, History, CheckpointStatus, PlanMode, EnforcePlanCompletion
<1>4. CASE /\ UNCHANGED <<req, ending>>
           /\ pc' \notin {"settle", "complete", "reset"}
  BY <1>4 DEF EnforcePlanCompletion
<1>5. CASE /\ UNCHANGED req /\ pc' \in {"complete", "reset"}
           /\ ending'.kind # "awaiting" /\ ending'.awaiting = "none"
           /\ pc' = "reset" /\ then' = "complete" => ending'.kind = "error"
  BY <1>5
<1>6. CASE CheckpointHistory
  <2>1. /\ pc' = "settle" /\ UNCHANGED <<req, ending, messages, plan, ctx>>
        /\ saved' = [len |-> Len(messages), plan |-> plan, status |-> CheckpointStatus]
    BY <1>6 DEF CheckpointHistory, Request
  <2>2. CheckpointStatus' = CheckpointStatus
    BY <2>1 DEF CheckpointStatus, PlanMode
  <2> QED
    BY <2>1, <2>2 DEF EnforcePlanCompletion
<1>7. CASE SettleBatch
  <2>1. /\ pc = "settle" /\ UNCHANGED <<req, published, messages, plan, saved>>
        /\ \/ /\ PlanMode /\ ctx.plan = "unapproved"
              /\ ctx' = [ctx EXCEPT !.ask = FALSE]
              /\ pc' = "complete" /\ ending' = Awaiting("plan_approval")
           \/ /\ ~(PlanMode /\ ctx.plan = "unapproved") /\ ctx.ask
              /\ pc' = "complete" /\ ending' = Awaiting("user_response")
           \/ pc' = "complete" /\ ending' = ErrorEnding
           \/ pc' = "iterate" /\ UNCHANGED ending
    BY <1>7 DEF SettleBatch, Request, End
  <2>2. /\ saved.len = Len(messages) /\ saved.plan = plan /\ saved.status = CheckpointStatus
        /\ published = NoTurn /\ (PlanMode => plan = ctx.plan)
    BY <2>1 DEF PhaseInv, ContextInv, OnlyTheProposal
  <2>3. CASE PlanMode /\ ctx.plan = "unapproved" /\ ctx' = [ctx EXCEPT !.ask = FALSE]
             /\ pc' = "complete" /\ ending' = Awaiting("plan_approval")
    <3>1. ~ctx'.ask /\ saved.status = "awaiting_plan_approval"
      BY <2>2, <2>3 DEF CheckpointStatus, TypeOK
    <3> QED
      BY <1>1, <2>1, <2>2, <2>3, <3>1
  <2>4. CASE ~(PlanMode /\ ctx.plan = "unapproved") /\ ctx.ask
             /\ pc' = "complete" /\ ending' = Awaiting("user_response")
    <3>1. saved.status = "awaiting_user_response"
      BY <2>2, <2>4 DEF CheckpointStatus
    <3> QED
      BY <1>1, <2>1, <2>2, <2>4, <3>1
  <2> QED
    BY <1>2, <1>4, <1>5, <2>1, <2>3, <2>4
<1>8. CASE AnswerWithOpenPlan
  <2>1. /\ UNCHANGED <<req, ctx>> /\ ctx.plan # "done" /\ EnforcePlanCompletion
        /\ \/ pc' = "complete" /\ ending' = ErrorEnding
           \/ pc' = "reset" /\ then' = "iterate" /\ UNCHANGED ending
           \/ pc' = "reset" /\ then' = "complete" /\ ending' = Awaiting("plan_execution")
    BY <1>8 DEF AnswerWithOpenPlan, TakeBackDraft, End, Request, PlanComplete
  <2> QED
    BY <1>1, <1>2, <1>5, <2>1 DEF EnforcePlanCompletion
<1>9. CASE InvalidateCandidate
  <2>1. UNCHANGED req /\ pc' \in {"complete", "reset"} /\ ending' = ErrorEnding
    BY <1>9 DEF InvalidateCandidate, TakeBackDraft, Request
  <2> QED
    BY <1>2, <1>5, <2>1
<1>10. CASE AnswerWithoutRepair \/ \E v \in Verdicts : Review(v)
  <2>1. /\ UNCHANGED req
        /\ \/ /\ pc' = "complete"
              /\ ending' \in {ErrorEnding, [kind |-> "natural", awaiting |-> "none"]}
           \/ pc' = "reset" /\ then' = "iterate" /\ UNCHANGED ending
    BY <1>10 DEF AnswerWithoutRepair, Review, TakeBackDraft, End, Request
  <2> QED
    BY <1>2, <1>5, <2>1 DEF EnforcePlanCompletion
<1>11. CASE DeliverDraftReset
  <2>1. /\ pc = "reset" /\ pc' = then /\ then' = "none" /\ UNCHANGED <<req, ending, ctx>>
        /\ pc' \in {"iterate", "complete"}
    BY <1>11 DEF DeliverDraftReset, Request, ShapeOK, PhaseInv
  <2> QED
    BY <2>1 DEF EnforcePlanCompletion
<1>12. CASE IterationsExhausted \/ ProviderFails \/ CheckpointFails
  <2>1. /\ UNCHANGED req /\ pc' = "complete"
        /\ ending' \in {ErrorEnding, [kind |-> "max_iters", awaiting |-> "none"]}
    BY <1>12 DEF IterationsExhausted, ProviderFails, CheckpointFails, End, Request
  <2> QED
    BY <1>2, <1>5, <2>1
<1>13. CASE LengthGate \/ EmptyAnswer \/ AnswerWithoutPlan
  <2>1. /\ UNCHANGED req
        /\ \/ /\ pc' = "complete"
              /\ ending' \in {ErrorEnding, [kind |-> "max_iters", awaiting |-> "none"]}
           \/ pc' = "iterate" /\ UNCHANGED ending
    BY <1>13 DEF LengthGate, EmptyAnswer, AnswerWithoutPlan, End, Request
  <2> QED
    BY <1>2, <1>4, <1>5, <2>1
<1>14. ASSUME NEW r \in Replies, Finish(r) PROVE PauseInv'
  <2>1. UNCHANGED <<req, ending>> /\ pc' \in {"length", "tools", "answer"}
    BY <1>14 DEF Finish, Replies, Request
  <2> QED
    BY <1>4, <2>1
<1>15. CASE \/ Start \/ CancelBeforePrompt \/ BeginIteration \/ OpenStream
            \/ PublishToolCalls \/ DenyBatch \/ ExecuteToolCalls \/ PublishToolResults
            \/ AnswerForReview \/ DeliverComplete \/ Cancel
            \/ \E kind \in Streamed[req.mode] : Publish(kind)
  <2>1. UNCHANGED <<req, ending>> /\ pc' \notin {"settle", "complete", "reset"}
    BY <1>15 DEF Start, CancelBeforePrompt, BeginIteration, OpenStream, PublishToolCalls, DenyBatch,
              ExecuteToolCalls, PublishToolResults, AnswerForReview, DeliverComplete, Cancel,
              Publish, Request
  <2> QED
    BY <1>4, <2>1
<1> QED
  BY <1>3, <1>6, <1>7, <1>8, <1>9, <1>10, <1>11, <1>12, <1>13, <1>14, <1>15 DEF Next, RunnerStep

\* What a paused run has saved stays what it paused for.
LEMMA ActionableStep ==
    ASSUME TypeOK, ShapeOK, PhaseInv, PauseInv, AwaitingIsActionable, [Next]_vars
    PROVE  AwaitingIsActionable'
<1> SUFFICES ASSUME Done("awaiting")' PROVE AwaitingIsActionable'
  BY DEF AwaitingIsActionable
<1>1. CASE UNCHANGED vars \/ ReceiverCloses
  BY <1>1 DEF vars, ReceiverCloses, AwaitingIsActionable, Done
<1>2. CASE DeliverComplete
  <2>1. /\ pc = "complete" /\ outcome' = ending /\ UNCHANGED <<ctx, saved>>
        /\ messages' = CommitPublished
    BY <1>2 DEF DeliverComplete
  <2>2. ending.kind = "awaiting"
    BY <2>1 DEF Done
  <2>3. published = NoTurn => messages' = messages
    BY <2>1, ConcatEmptySeq DEF CommitPublished, PublishedMessage, ShapeOK
  <2>4. ending.awaiting # "plan_execution" => plan' = plan
    BY <1>2, <2>2 DEF DeliverComplete
  <2>5. ending.awaiting = "plan_execution" => plan' = "unfinished"
    BY <1>2, <2>1, <2>2 DEF DeliverComplete, RetryablePlan, PauseInv
  <2> QED
    BY <2>1, <2>2, <2>3, <2>4, <2>5 DEF PauseInv, AwaitingIsActionable
<1>3. pc' = "done" => UNCHANGED vars \/ ReceiverCloses \/ DeliverComplete
                       \/ CancelBeforePrompt \/ Cancel
  BY DEF Next, RunnerStep, End, TakeBackDraft, Replies, ShapeOK, Start, BeginIteration,
         IterationsExhausted, OpenStream, ProviderFails, InvalidateCandidate,
         Publish, Finish, LengthGate, PublishToolCalls, DenyBatch, ExecuteToolCalls,
         PublishToolResults, CheckpointHistory, CheckpointFails, SettleBatch, EmptyAnswer,
         AnswerWithoutPlan, AnswerWithOpenPlan, AnswerWithoutRepair, AnswerForReview, Review,
         DeliverDraftReset
<1>4. CASE CancelBeforePrompt \/ Cancel
  BY <1>4 DEF CancelBeforePrompt, Cancel, Done
<1> QED
  BY <1>1, <1>2, <1>3, <1>4 DEF Done

-----------------------------------------------------------------------------
(* The theorems *)

\* A request starts in the invariant.
LEMMA InitInv == Init => IInv
<1> SUFFICES ASSUME Init PROVE IInv
  OBVIOUS
<1>1. PICK m \in Modes : req \in [mode : {m}, limit : Limits[m], userCap : BOOLEAN]
  BY DEF Init, Requests
<1>2. req \in Requests /\ req.limit \in Nat \ {0}
  BY <1>1, RunnerAssumption DEF Init
<1>3. /\ pc = "start" /\ rx = TRUE /\ iterations = 0 /\ published = NoTurn /\ ui = <<>>
      /\ messages = <<>> /\ calls = <<>> /\ results = <<>>
      /\ plan \in {"unfinished", "none"} /\ (req.mode = "plan" => plan = "none")
      /\ ctx = [plan |-> plan, ask |-> FALSE]
      /\ gate = [g \in Gates |-> 0] /\ repairFrom = 0 /\ then = "none"
      /\ ending = NoOutcome /\ outcome = NoOutcome
      /\ saved = [len |-> 0, plan |-> plan, status |-> "none"]
      /\ verdict = "none" /\ rejected = {} /\ executed = {}
  BY DEF Init
<1>4. /\ Len(<<>>) = 0 /\ DOMAIN <<>> = {} /\ <<>> \in Seq(Entries) /\ <<>> \in Seq(Segments)
      /\ <<>> \in Seq(BOOLEAN) /\ 1 .. 0 = {}
  OBVIOUS
<1>5. NoTurn = [text |-> "none", calls |-> <<>>]
  BY DEF NoTurn
<1>6. TypeOK
  <2>1. gate \in [Gates -> Nat] /\ gate["denial"] <= PLAN_DENIAL_CAP + 1
    BY <1>3, RunnerAssumption DEF Gates
  <2>2. iterations \in 0 .. req.limit
    BY <1>2, <1>3
  <2>3. ctx \in [plan : Plans, ask : BOOLEAN] /\ plan \in Plans
    BY <1>3 DEF Plans
  <2>4. repairFrom \in 0 .. Len(messages) /\ saved.len \in 0 .. Len(messages)
    BY <1>3, <1>4
  <2> QED
    BY <1>2, <1>3, <1>4, <1>5, <2>1, <2>2, <2>3, <2>4 DEF TypeOK
<1>7. ShapeOK
  BY <1>3, <1>4 DEF ShapeOK, NoOutcome, Outcomes, Kinds, Pauses, Plans
<1>8. PhaseInv
  BY <1>3, <1>5, RunnerAssumption DEF PhaseInv, Gates
<1>9. NothingRunsBeforeApproval /\ ToolCallsPaired
  BY <1>3, <1>4 DEF NothingRunsBeforeApproval, ToolCallsPaired
<1>10. OpenInv /\ GenuineInv /\ KeptInv
  BY <1>3, <1>4, <1>5 DEF OpenInv, GenuineInv, KeptInv
<1>11. ReviewInv /\ ContextInv /\ PauseInv
  BY <1>3 DEF ReviewInv, ContextInv, ContextIsBacked, OnlyTheProposal, PauseInv, PlanMode, Done,
              NoOutcome
<1>12. PlanBackedByHistory /\ AwaitingIsActionable
  BY <1>3 DEF PlanBackedByHistory, AwaitingIsActionable, Done
<1> QED
  BY <1>6, <1>7, <1>8, <1>9, <1>10, <1>11, <1>12 DEF IInv

\* Every step keeps the invariant.
LEMMA StepInv == IInv /\ [Next]_vars => IInv'
<1> SUFFICES ASSUME IInv, [Next]_vars PROVE IInv'
  OBVIOUS
<1> USE DEF IInv
<1>1. TypeOK' /\ ShapeOK'
  BY TypeStep
<1>2. PhaseInv' /\ OpenInv'
  BY PhaseStep, OpenStep
<1>3. NothingRunsBeforeApproval' /\ ToolCallsPaired'
  BY BoundaryStep, PairStep
<1>4. GenuineInv' /\ KeptInv'
  BY GenuineStep, KeptStep
<1>5. ReviewInv' /\ ContextInv' /\ PauseInv'
  BY ReviewStep, BackedStep, ProposalStep, PauseStep DEF ContextInv
<1>6. PlanBackedByHistory' /\ AwaitingIsActionable'
  BY BackingStep, ActionableStep DEF ContextInv
<1> QED
  BY <1>1, <1>2, <1>3, <1>4, <1>5, <1>6

\* Every reachable state of a run satisfies the inductive invariant.
THEOREM RunnerInvariant == Spec => []IInv
  BY InitInv, StepInv, PTL DEF Spec

\* The counters stay within their limits whatever the caps are: a run never begins an
\* iteration beyond its limit, and one denial beyond the cap ends it.
THEOREM TypeCorrect == Spec => []TypeOK
<1>1. IInv => TypeOK
  BY DEF IInv
<1> QED
  BY RunnerInvariant, <1>1, PTL

\* Whatever a provider puts into its batches, a planning run executes nothing but the two
\* planning tools: the batch is judged whole before its first call runs.
THEOREM NothingBeforeApproval == Spec => []NothingRunsBeforeApproval
<1>1. IInv => NothingRunsBeforeApproval
  BY DEF IInv
<1> QED
  BY RunnerInvariant, <1>1, PTL

\* However a batch ends, executed, denied or cancelled, every call of the history is
\* directly followed by its result.
THEOREM CallsStayPaired == Spec => []ToolCallsPaired
<1>1. IInv => ToolCallsPaired
  BY DEF IInv
<1> QED
  BY RunnerInvariant, <1>1, PTL

\* The history and the client's transcript agree on the turns, and a draft a gate has
\* taken back is visible in neither.
LEMMA Agreement == IInv => HistoryIsTheDialogue
<1> SUFFICES ASSUME IInv PROVE TranscriptAgrees /\ RejectedStaysHidden
  BY DEF HistoryIsTheDialogue
<1> USE DEF IInv
<1>1. RejectedStaysHidden
  BY DEF RejectedStaysHidden, GenuineInv, Genuine
<1>2. iterations \in Nat /\ DOMAIN ui = 1 .. iterations
  BY TurnTypes DEF TypeOK, ShapeOK
<1>3. VisibleTurns \subseteq ShownTurns
  <2> SUFFICES ASSUME NEW i \in DOMAIN messages, messages[i].role = "assistant", ~messages[i].hidden
               PROVE  <<messages[i].turn, messages[i].text, messages[i].calls>> \in ShownTurns
    BY DEF VisibleTurns
  <2>1. /\ messages[i].turn \in 1 .. iterations
        /\ messages[i].text # "none" \/ messages[i].calls # <<>>
        /\ ui[messages[i].turn].text = messages[i].text
        /\ ui[messages[i].turn].calls = messages[i].calls
    BY DEF GenuineInv, Genuine
  <2> QED
    BY <1>2, <2>1 DEF ShownTurns
<1>4. ASSUME pc = "done", outcome.kind # "cancelled" PROVE ShownTurns \subseteq VisibleTurns
  <2> SUFFICES ASSUME NEW n \in DOMAIN ui, ui[n].text # "none" \/ ui[n].calls # <<>>
               PROVE  <<n, ui[n].text, ui[n].calls>> \in VisibleTurns
    BY DEF ShownTurns
  <2>1. Kept(n) /\ published = NoTurn
    BY <1>2, <1>4 DEF KeptInv, PhaseInv
  <2>2. PICK i \in DOMAIN messages :
           messages[i].role = "assistant" /\ ~messages[i].hidden /\ messages[i].turn = n
    BY <1>4, <2>1 DEF Kept, Done
  <2>3. Genuine(i)
    BY <2>2 DEF GenuineInv
  <2>4. ui[n].text = messages[i].text /\ ui[n].calls = messages[i].calls
    BY <2>2, <2>3 DEF Genuine
  <2> QED
    BY <2>2, <2>4 DEF VisibleTurns
<1> QED
  BY <1>1, <1>3, <1>4 DEF TranscriptAgrees

\* What the client sees is what the history keeps: no visible message that was not shown,
\* and no shown turn lost, unless the run was cancelled (discard events, draft_reset).
THEOREM HistoryMatchesTranscript == Spec => []HistoryIsTheDialogue
  BY RunnerInvariant, Agreement, PTL

\* No natural completion without the review: what is approved is what the run delivers,
\* with the repair it had been asked for.
THEOREM ReviewGuardsTheEnd == Spec => []ReviewFailsClosed
<1>1. IInv => ReviewFailsClosed
  BY DEF IInv, ReviewInv, ReviewFailsClosed, ReviewPasses
<1> QED
  BY RunnerInvariant, <1>1, PTL

\* The plan is never ahead of the history, a natural end finishes it, and a pause is one
\* that storage already knows.
THEOREM PlanStaysHonest == Spec => []PlanIsHonest
<1>1. IInv => PlanIsHonest
  BY DEF IInv, ReviewInv, PlanIsHonest, NaturalFinishesPlan
<1> QED
  BY RunnerInvariant, <1>1, PTL

=============================================================================
