--------------------------- MODULE AssistantStream ---------------------------
(***************************************************************************)
(* One model call of the agent loop: the provider client with its retries  *)
(* (dss-llm/client.rs), the guards that release the answer while it        *)
(* arrives, and the decision what the finished turn was (dsml.rs and the   *)
(* stream loop of runner.rs).                                              *)
(*                                                                         *)
(* The provider and the network are environment.  A text is a sequence of  *)
(* tokens: whitespace, a plain word, a `<` that is no control tag, a code  *)
(* delimiter, and the control tags of DSML.                                *)
(***************************************************************************)
EXTENDS Naturals, Sequences, FiniteSets

CONSTANTS
    TextChunks, ThinkingChunks, \* what one delta may carry on each channel
    Indexes, Ids, NoId,         \* native tool calls
    MAX_REQUEST_ATTEMPTS,
    MAX_STREAM_PREFLIGHT_ATTEMPTS,
    MAX_TOOL_CALLS_PER_TURN,
    DELTAS                      \* bound: deltas of a response

Tags == {"open", "invoke", "close", "bad"}
StartsWithLt == Tags \cup {"lt"}
Tokens == StartsWithLt \cup {"space", "word", "tick"}

\* A request is sent once at least, and deltas are made of tokens.
ASSUME StreamAssumption ==
    /\ MAX_REQUEST_ATTEMPTS \in Nat \ {0} /\ MAX_STREAM_PREFLIGHT_ATTEMPTS \in Nat \ {0}
    /\ TextChunks \cup ThinkingChunks \subseteq Seq(Tokens)

VARIABLES
    phase,      \* sending, body (no event yet), open, done
    attempt,    \* of send_with_retry
    preflight,  \* of chat_stream
    chunks,     \* has a body chunk of this response arrived
    log,        \* deltas handed to the runner, in order
    latch,      \* thinking_len_at_text_first_lt
    released,   \* released_cursor of each channel
    frozen,     \* publication_frozen of each channel
    native,     \* ToolCallAccumulator: what each index has so far
    sawFinish,
    shown,      \* what reached the client, by channel
    outcome,    \* the decision about the turn
    requests,   \* history: requests sent
    heard       \* history: the requests whose events reached the runner

streamVars == <<phase, attempt, preflight, chunks, log, latch, released, frozen, native,
                sawFinish, shown, outcome, requests, heard>>
connection == <<phase, attempt, preflight, chunks, requests, heard>>
guards == <<log, latch, released, frozen>>

Channels == {"text", "thinking"}
Empty == [c \in Channels |-> <<>>]

StreamInit ==
    /\ phase = "sending"
    /\ attempt = 1 /\ preflight = 1
    /\ chunks = FALSE
    /\ log = <<>>
    /\ latch = 0
    /\ released = [c \in Channels |-> 0]
    /\ frozen = [c \in Channels |-> FALSE]
    /\ native = [i \in {} |-> NoId]
    /\ sawFinish = FALSE
    /\ shown = Empty
    /\ outcome = "none"
    /\ requests = 0
    /\ heard = {}

-----------------------------------------------------------------------------
(* send_with_retry and the preflight of chat_stream. *)

Ends(result) == phase' = "done" /\ outcome' = result

\* Headers of a successful response arrive.
SendSucceeds ==
    /\ phase = "sending"
    /\ requests' = requests + 1
    /\ phase' = "body" /\ chunks' = FALSE /\ attempt' = 1
    /\ UNCHANGED <<preflight, heard, guards, native, sawFinish, shown, outcome>>

\* A retryable status, a transport failure or no headers in time; another
\* status is final.
SendFails(retryable) ==
    /\ phase = "sending"
    /\ requests' = requests + 1
    /\ IF retryable /\ attempt < MAX_REQUEST_ATTEMPTS
       THEN attempt' = attempt + 1 /\ UNCHANGED <<phase, outcome>>
       ELSE Ends("failed") /\ UNCHANGED attempt
    /\ UNCHANGED <<preflight, chunks, heard, guards, native, sawFinish, shown>>

\* A body chunk without an event: a comment, an empty line, part of a line.
KeepAlive ==
    /\ phase \in {"body", "open"} /\ ~chunks
    /\ chunks' = TRUE
    /\ UNCHANGED <<phase, attempt, preflight, requests, heard, guards, native, sawFinish,
                   shown, outcome>>

\* Mutant: a stream that broke after some of its events is asked for again.
ReplayableAnywhere(kind) == kind \in {"transport", "ended"} \/ (kind = "timeout" /\ ~chunks)

\* is_retryable_pre_event_stream_error, and an empty body: only before the
\* first event.  A chunk that carried no event rules a timeout out.
Replayable(kind) ==
    /\ phase = "body"
    /\ kind \in {"transport", "ended"} \/ (kind = "timeout" /\ ~chunks)

Replay ==
    /\ phase' = "sending" /\ preflight' = preflight + 1 /\ attempt' = 1
    /\ UNCHANGED <<chunks, requests, heard, guards, native, sawFinish, shown, outcome>>

\* The body fails, stays silent too long, breaks the protocol or a byte
\* limit; what was shown so far is kept as the answer of the failed run.
StreamFails(kind) ==
    /\ phase \in {"body", "open"}
    /\ IF Replayable(kind) /\ preflight < MAX_STREAM_PREFLIGHT_ATTEMPTS
       THEN Replay
       ELSE Ends("failed") /\ UNCHANGED <<attempt, preflight, chunks, requests, heard, guards,
                                          native, sawFinish, shown>>

\* [DONE] or the end of the body, with no event before it.
EndsEmpty == phase = "body" /\ StreamFails("ended")

\* An event reaches the runner: the first one is the replay boundary.
Event ==
    /\ phase \in {"body", "open"}
    /\ phase' = "open" /\ chunks' = TRUE
    /\ heard' = heard \cup {requests}
    /\ UNCHANGED <<attempt, preflight, requests>>
\* An event that refutes the turn: the draft shown is taken back.
Refutes ==
    /\ phase \in {"body", "open"}
    /\ Ends("invalid") /\ shown' = Empty
    /\ heard' = heard \cup {requests}
    /\ UNCHANGED <<attempt, preflight, chunks, requests, guards, native, sawFinish>>

-----------------------------------------------------------------------------
(* The guards.  The buffer of a channel is what the deltas brought. *)

BufferOf(deltas, c) ==
    LET joined[n \in 0 .. Len(deltas)] ==
          IF n = 0 THEN <<>> ELSE joined[n - 1] \o deltas[n][c]
    IN joined[Len(deltas)]
Buffer(c) == BufferOf(log, c)

Positions(s, kinds) == {i \in DOMAIN s : s[i] \in kinds}
HasLt(s) == Positions(s, StartsWithLt) # {}
\* Tokens before the first raw `<`.
SafeEnd(s) ==
    CHOOSE n \in 0 .. Len(s) : /\ ~HasLt(SubSeq(s, 1, n))
                               /\ n = Len(s) \/ HasLt(SubSeq(s, 1, n + 1))
OnlySpace(s, from, to) == \A i \in from .. to : s[i] = "space"

\* IncrementalAssistantTextGuard::push: the new end of what may be shown.
\* Leading whitespace waits for a word; a frozen channel releases nothing.
ReleaseTo(old, new, c, frozenBefore) ==
    IF frozenBefore \/ HasLt(old) \/ OnlySpace(new, 1, SafeEnd(new)) THEN released[c]
    ELSE SafeEnd(new)

\* Mutant: the halves of a delta are pushed one after the other.
\* A `<` in one half of a delta freezes both channels before either half is
\* pushed; alone, a channel is frozen by what came before.
FrozenFirst(d, c) ==
    frozen[c] \/ (d.text # <<>> /\ d.thinking # <<>> /\ (HasLt(d.text) \/ HasLt(d.thinking)))

AppendDelta(d) ==
    /\ log' = Append(log, d)
    /\ latch' = IF ~HasLt(Buffer("text")) /\ HasLt(d.text) THEN Len(Buffer("thinking")) ELSE latch
    /\ frozen' = [c \in Channels |-> frozen[c] \/ HasLt(d.text) \/ HasLt(d.thinking)]
    /\ released' = [c \in Channels |->
                       IF d[c] = <<>> THEN released[c]
                       ELSE ReleaseTo(Buffer(c), Buffer(c) \o d[c], c, FrozenFirst(d, c))]
    /\ shown' = [c \in Channels |->
                    shown[c] \o SubSeq(Buffer(c) \o d[c], released[c] + 1, released'[c])]

\* Text, reasoning, or both in one delta; none may follow the Finish event.
Deltas == [text : TextChunks \cup {<<>>}, thinking : ThinkingChunks \cup {<<>>}] \ {Empty}
Delta(d) ==
    /\ ~sawFinish /\ Len(log) < DELTAS
    /\ Event /\ AppendDelta(d)
    /\ UNCHANGED <<native, sawFinish, outcome>>

\* ToolCallAccumulator::push: ids and names come once and stay.
Slot(i) == IF i \in DOMAIN native THEN native[i] ELSE [id |-> NoId, named |-> FALSE]
Acceptable(i, id) ==
    /\ i \in DOMAIN native \/ Cardinality(DOMAIN native) < MAX_TOOL_CALLS_PER_TURN
    /\ Slot(i).id \in {NoId, id} \/ id = NoId
NativeDelta(i, id, named) ==
    /\ ~sawFinish /\ Len(log) < DELTAS
    /\ IF Acceptable(i, id)
       THEN /\ Event
            /\ native' = [j \in DOMAIN native \cup {i} |->
                            IF j # i THEN native[j]
                            ELSE [id |-> IF id = NoId THEN Slot(i).id ELSE id,
                                  named |-> Slot(i).named \/ named]]
            /\ log' = Append(log, Empty)
            /\ UNCHANGED <<latch, released, frozen, sawFinish, shown, outcome>>
       ELSE Refutes

FinishEvent ==
    /\ ~sawFinish /\ Event
    /\ sawFinish' = TRUE
    /\ UNCHANGED <<guards, native, shown, outcome>>

\* Anything but usage after the Finish event, a second one included, and a
\* turn larger than its limit.
Misbehaves == (sawFinish \/ Len(log) = DELTAS) /\ Refutes

-----------------------------------------------------------------------------
(* parse_assistant_text: what a complete channel is. *)

\* A code delimiter protects what stands between it and the next one, if
\* there is a next one.
Protected(s, i) ==
    /\ \E j \in i + 1 .. Len(s) : s[j] = "tick"
    /\ LET inside[n \in 0 .. Len(s)] ==
             n > 0 /\ IF s[n] = "tick" THEN ~inside[n - 1] ELSE inside[n - 1]
       IN inside[i]
VisibleTags(s) == {i \in Positions(s, Tags) : ~Protected(s, i)}

\* The one executable form: an envelope that stands alone in its turn.
IsEnvelope(s) ==
    \E first, last \in DOMAIN s :
        /\ s[first] = "open" /\ s[last] = "close"
        /\ OnlySpace(s, 1, first - 1) /\ OnlySpace(s, last + 1, Len(s))
        /\ \A i \in first + 1 .. last - 1 : s[i] \in {"invoke", "space"}
        /\ \E i \in first + 1 .. last - 1 : s[i] = "invoke"

\* Mutant: protocol after an opening that prose precedes is executed too.
ParsedAnywhere(s) ==
    IF VisibleTags(s) = {} THEN "plain"
    ELSE IF \E i \in DOMAIN s : IsEnvelope(SubSeq(s, i, Len(s))) THEN "calls" ELSE "error"

Parsed(s) ==
    IF VisibleTags(s) = {} THEN "plain" ELSE IF IsEnvelope(s) THEN "calls" ELSE "error"

\* ToolCallAccumulator::finalize
NativeComplete ==
    /\ \A i \in DOMAIN native : native[i].id # NoId /\ native[i].named
    /\ \A i, j \in DOMAIN native : native[i].id = native[j].id => i = j

-----------------------------------------------------------------------------
(* The decision at the end of the stream (runner.rs). *)

Text == Parsed(Buffer("text"))
Reasoning == Parsed(Buffer("thinking"))
TurnRefuted ==
    \/ Reasoning # "plain" \/ Text = "error"
    \/ DOMAIN native # {} /\ Text = "calls"
    \/ ~NativeComplete

\* Reasoning that may be shown with calls: what came before text's first `<`.
Before(n) == SubSeq(Buffer("thinking"), 1, n)

Decide ==
    /\ phase = "open"
    /\ phase' = "done"
    /\ IF ~sawFinish THEN outcome' = "failed" /\ UNCHANGED shown
       ELSE IF TurnRefuted THEN outcome' = "invalid" /\ shown' = Empty
       ELSE IF Text = "calls"
       THEN /\ outcome' = "calls"
            /\ shown' = [text |-> shown.text, thinking |-> Before(latch)]
       ELSE /\ outcome' = IF DOMAIN native = {} THEN "answer" ELSE "native"
            /\ shown' = [c \in Channels |-> Buffer(c)]
    /\ UNCHANGED <<attempt, preflight, chunks, requests, heard, guards, native, sawFinish>>

\* The run was stopped: cancellation wins over a stalled stream and over
\* every answer not yet committed.
Cancel ==
    /\ phase # "done"
    /\ Ends("cancelled")
    /\ UNCHANGED <<attempt, preflight, chunks, requests, heard, guards, native, sawFinish, shown>>

StreamNext ==
    \/ SendSucceeds \/ \E retryable \in BOOLEAN : SendFails(retryable)
    \/ KeepAlive \/ EndsEmpty
    \/ \E kind \in {"transport", "timeout", "protocol"} : StreamFails(kind)
    \/ \E d \in Deltas : Delta(d)
    \/ \E i \in Indexes, id \in Ids \cup {NoId}, named \in BOOLEAN : NativeDelta(i, id, named)
    \/ FinishEvent \/ Misbehaves \/ Decide \/ Cancel

StreamSpec == StreamInit /\ [][StreamNext]_streamVars

-----------------------------------------------------------------------------
(* Properties *)

\* What the runner hears comes from one request, nothing is requested after
\* it heard something, and the attempts multiply to a fixed number
\* (chat_stream's replay boundary).
ReplayStopsAtFirstEvent ==
    /\ heard \subseteq {requests}
    /\ requests <= MAX_REQUEST_ATTEMPTS * MAX_STREAM_PREFLIGHT_ATTEMPTS

\* The text of the deltas that came before the one that brought the first
\* `<` of the answer.
HeardBeforeLt(c) ==
    LET quiet == {n \in 0 .. Len(log) : ~HasLt(BufferOf(SubSeq(log, 1, n), "text"))}
        last == CHOOSE n \in quiet : \A m \in quiet : m <= n
    IN BufferOf(SubSeq(log, 1, last), c)

\* However the deltas were cut, nothing of a control envelope is ever shown;
\* a turn that calls tools shows the reasoning heard before the envelope
\* began and nothing else; an answer is shown completely; calls come from one
\* protocol, from an envelope that stands alone or with complete distinct ids.
ShownIsTheTurn ==
    /\ outcome \in {"none", "failed", "cancelled"} => \A c \in Channels : ~HasLt(shown[c])
    /\ outcome = "calls" =>
         /\ shown.text = <<>> /\ shown.thinking = HeardBeforeLt("thinking")
         /\ DOMAIN native = {}
         /\ VisibleTags(Buffer("thinking")) = {}
         /\ \A i \in DOMAIN Buffer("text") :
              Buffer("text")[i] \in {"open", "invoke", "close", "space"}
    /\ outcome \in {"answer", "native"} =>
         \A c \in Channels : shown[c] = Buffer(c) /\ VisibleTags(shown[c]) = {}
    /\ outcome = "invalid" => shown = Empty

\* One turn, heard once and shown as it was decided (chat_stream, the guards of dsml.rs).
StreamIsSound == ShownIsTheTurn /\ ReplayStopsAtFirstEvent
=============================================================================
