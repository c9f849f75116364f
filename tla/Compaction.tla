----------------------------- MODULE Compaction -----------------------------
(***************************************************************************)
(* Rolling compaction (dss-compact) inside the run loop that calls it      *)
(* (dss-agent/src/runner.rs:455-565): the append-only log of a session,    *)
(* the folds that replace old turns by summaries in the view of the next   *)
(* request, the free shortening of large results, the hard wall, and the   *)
(* rollback and the restart that the folds must survive.                   *)
(*                                                                         *)
(* A message is its role with its weight in tokens, in full and shortened  *)
(* by microcompact; positions are the code's, from 0.  The thresholds are  *)
(* constants in the order that chunk.rs computes for every window.         *)
(***************************************************************************)
EXTENDS Integers, Sequences

CONSTANTS Turns,          \* what an iteration may append: sequences of messages
          Prompts,        \* user messages
          SummaryWeights, \* what a provider may answer, after the output ceiling
          RESERVED,       \* system prefix, memory block and tool schemas
          TRIGGER, TARGET, WALL, MIN_CHUNK, MAX_SUMMARY, PASS_CAP, MAX_LOG, RESTARTS

Messages == [role : {"user", "text", "call", "tool"}, w : Nat, short : Nat]

\* A summary stays under the ceiling that is asked for; a chunk is not empty.
ASSUME CompactAssumption ==
    /\ \A p \in Prompts : p \in Messages /\ p.role = "user"
    /\ Turns \subseteq Seq(Messages)
    /\ MAX_SUMMARY \in Nat /\ SummaryWeights \subseteq 0 .. MAX_SUMMARY
    /\ RESERVED \in Nat /\ TARGET \in Nat /\ WALL \in Nat /\ MIN_CHUNK \in Nat \ {0}

VARIABLES log, folds, compactor, rolling, sentWeight, restarts

compactVars == <<log, folds, compactor, rolling, sentWeight, restarts>>

IsUser(i) == i < Len(log) /\ log[i + 1].role = "user"
LastUser(l) == LET us == {i \in 1 .. Len(l) : l[i].role = "user"} IN
               IF us = {} THEN Len(l) ELSE (CHOOSE i \in us : \A k \in us : k <= i) - 1
Total(f, n) ==
    LET sum[k \in 0 .. n] == IF k = 0 THEN 0 ELSE sum[k - 1] + f[k]
    IN sum[n]
Weights(part) == [i \in DOMAIN log |-> log[i][part]]
Weight(lo, hi, part) == Total(Weights(part), hi) - Total(Weights(part), lo)
Least(a, b) == IF a < b THEN a ELSE b
Greatest(a, b) == IF a > b THEN a ELSE b

\* align_fold_range and extend_end_to_turn_boundary.
AlignStart(s) ==
    IF s >= Len(log) \/ IsUser(s) THEN Least(s, Len(log))
    ELSE LET us == {i \in 0 .. s - 1 : IsUser(i)} IN
         IF us = {} THEN 0 ELSE CHOOSE i \in us : \A k \in us : k <= i
AlignEnd(e) ==
    IF e = 0 \/ e >= Len(log) THEN Least(e, Len(log))
    ELSE CHOOSE i \in e .. Len(log) : /\ i = Len(log) \/ IsUser(i)
                                      /\ \A k \in e .. i - 1 : ~IsUser(k)

\* projection: the segments of the view in order, summaries in place of the
\* ranges they fold, the newest user turn always verbatim.
ActiveStart == LastUser(log)

Segment(lo, hi) == IF lo < hi THEN <<[summary |-> FALSE, lo |-> lo, hi |-> hi]>> ELSE <<>>
Place(acc, f) ==
    LET start == AlignStart(f.start)
        end == Least(AlignEnd(Greatest(f.end, start)), ActiveStart)
        summary == <<[summary |-> TRUE, lo |-> Greatest(start, acc.cursor), hi |-> end,
                      fold |-> f]>> IN
    IF start >= ActiveStart \/ end <= Greatest(start, acc.cursor) THEN acc
    ELSE [view |-> acc.view \o Segment(acc.cursor, start) \o summary, cursor |-> end]
Project(fs) ==
    LET placed[k \in 0 .. Len(fs)] ==
            IF k = 0 THEN [view |-> <<>>, cursor |-> 0] ELSE Place(placed[k - 1], fs[k])
        all == placed[Len(fs)] IN
    all.view \o Segment(all.cursor, Len(log))

SegmentWeight(s, part) == IF s.summary THEN s.fold.w ELSE Weight(s.lo, s.hi, part)
ViewWeight(fs, part) ==
    LET view == Project(fs) IN
    RESERVED + Total([k \in DOMAIN view |-> SegmentWeight(view[k], part)], Len(view))

\* first_unfolded_span below the newest user turn.
FoldableEndAll == Len(log)
FoldableEnd == LastUser(log)

Skip(acc, f) ==
    LET start == Least(AlignStart(f.start), FoldableEnd)
        end == Least(AlignEnd(f.end), FoldableEnd) IN
    IF acc.found THEN acc
    ELSE IF start > acc.cursor THEN [cursor |-> acc.cursor, stop |-> start, found |-> TRUE]
    ELSE [cursor |-> Greatest(acc.cursor, end), stop |-> 0, found |-> FALSE]
Gap(fs) ==
    LET skipped[k \in 0 .. Len(fs)] ==
            IF k = 0 THEN [cursor |-> 0, stop |-> 0, found |-> FALSE]
            ELSE Skip(skipped[k - 1], fs[k])
        all == skipped[Len(fs)] IN
    <<all.cursor, IF all.found THEN all.stop ELSE FoldableEnd>>

\* pick_next_chunk_with_min_tokens: whole turns from the gap's start until they
\* weigh at least min, or all of the gap.
PickChunk(fs, min) ==
    LET gap == Gap(fs)
        enough == {e \in gap[1] + 1 .. gap[2] : Weight(gap[1], e, "w") >= Greatest(min, MIN_CHUNK)} IN
    IF enough = {} THEN gap
    ELSE <<gap[1], Least(AlignEnd(CHOOSE e \in enough : \A k \in enough : e <= k), gap[2])>>

ChunkWeight(c) == IF c[1] < c[2] THEN Weight(c[1], c[2], "w") ELSE 0

\* should_trigger_l1_with_reserved.
WantsFold(fs) ==
    /\ ChunkWeight(PickChunk(fs, MIN_CHUNK)) >= MIN_CHUNK
    /\ ViewWeight(fs, "w") > TARGET

\* Enough raw history to get under the target even with the longest summary.
RequestedWeightBare(projected) == Greatest(projected - TARGET, 0)
RequestedWeight(projected) == Greatest(projected - TARGET, 0) + MAX_SUMMARY

-----------------------------------------------------------------------------
CompactInit ==
    /\ log = <<>> /\ folds = <<>>
    /\ compactor = [pc |-> "idle"]
    /\ rolling = [len |-> 0, folds |-> <<>>]
    /\ sentWeight = 0
    /\ restarts = 0

\* A run notes what to roll back to, then appends its prompt.
PromptArrives ==
    /\ compactor.pc = "idle" /\ Len(log) < MAX_LOG
    /\ rolling' = [len |-> Len(log), folds |-> folds]
    /\ \E p \in Prompts : log' = Append(log, p)
    /\ compactor' = [pc |-> "iterate"]
    /\ UNCHANGED <<folds, sentWeight, restarts>>

\* Free shortening first; only a view still over the trigger pays for folding.
Iterate ==
    /\ compactor.pc = "iterate"
    /\ compactor' = IF ViewWeight(folds, "short") >= TRIGGER
                    THEN [pc |-> "pass", guard |-> 0] ELSE [pc |-> "built"]
    /\ UNCHANGED <<log, folds, rolling, sentWeight, restarts>>

\* One turn of the folding loop up to the summarizer's answer.
PassPicks ==
    /\ compactor.pc = "pass"
    /\ LET projected == ViewWeight(folds, "w")
           chunk == PickChunk(folds, RequestedWeight(projected)) IN
       compactor' = IF compactor.guard < PASS_CAP /\ WantsFold(folds) /\ ChunkWeight(chunk) >= MIN_CHUNK
                    THEN [pc |-> "summarize", guard |-> compactor.guard + 1, chunk |-> chunk,
                          projected |-> projected]
                    ELSE [pc |-> "built"]
    /\ UNCHANGED <<log, folds, rolling, sentWeight, restarts>>

\* An error, an empty summary or one that does not shrink the view ends the pass.
SummaryFails ==
    /\ compactor.pc = "summarize"
    /\ compactor' = [pc |-> "built"]
    /\ UNCHANGED <<log, folds, rolling, sentWeight, restarts>>

\* record_fold: the folds stay in the order of what they fold.
Folded(w) ==
    LET new == [start |-> compactor.chunk[1], end |-> compactor.chunk[2], w |-> w]
        at == CHOOSE k \in 0 .. Len(folds) :
                \A i \in DOMAIN folds : folds[i].start <= new.start <=> i <= k IN
    SubSeq(folds, 1, at) \o <<new>> \o SubSeq(folds, at + 1, Len(folds))

SummaryArrives(w) ==
    /\ compactor.pc = "summarize"
    /\ IF w >= ChunkWeight(compactor.chunk) \/ ViewWeight(Folded(w), "w") >= compactor.projected
         THEN compactor' = [pc |-> "built"] /\ UNCHANGED folds
         ELSE /\ folds' = Folded(w)
              /\ compactor' = [pc |-> "pass", guard |-> compactor.guard]
    /\ UNCHANGED <<log, rolling, sentWeight, restarts>>

\* The view is built again and the wall is checked; a request over it fails the
\* run, one under it is sent and its answer appended.
FitsTheWallFree == ViewWeight(folds, "short") <= WALL + MIN_CHUNK
FitsTheWall == ViewWeight(folds, "short") <= WALL

SendRequest ==
    /\ compactor.pc = "built" /\ FitsTheWall
    /\ sentWeight' = ViewWeight(folds, "short")
    /\ compactor' = [pc |-> "sent"]
    /\ UNCHANGED <<log, folds, rolling, restarts>>

Answer ==
    /\ compactor.pc = "sent"
    /\ \E t \in Turns :
          /\ Len(log) + Len(t) <= MAX_LOG
          /\ log' = log \o t
          /\ compactor' = [pc |-> IF t[Len(t)].role = "tool" THEN "iterate" ELSE "ending"]
    /\ UNCHANGED <<folds, rolling, sentWeight, restarts>>

\* The wall, a failed request, or a client that left, even while summarizing:
\* the folds committed by then stay.
RunBreaks ==
    /\ \/ compactor.pc = "built" /\ ~FitsTheWall
       \/ compactor.pc \in {"iterate", "summarize", "sent"}
    /\ compactor' = [pc |-> "ending"]
    /\ UNCHANGED <<log, folds, rolling, sentWeight, restarts>>

RunIsSaved ==
    /\ compactor.pc = "ending"
    /\ compactor' = [pc |-> "idle"]
    /\ UNCHANGED <<log, folds, rolling, sentWeight, restarts>>

\* RunInMemoryCheckpoint::restore when the run cannot be persisted.
RestoredFoldsKept == folds
RestoredFolds == rolling.folds

RunRollsBack ==
    /\ compactor.pc = "ending"
    /\ log' = SubSeq(log, 1, rolling.len)
    /\ folds' = RestoredFolds
    /\ compactor' = [pc |-> "idle"]
    /\ UNCHANGED <<rolling, sentWeight, restarts>>

\* A restored session reads its log from the database and has no folds.
Restart ==
    /\ compactor.pc = "idle" /\ restarts < RESTARTS
    /\ folds' = <<>> /\ restarts' = restarts + 1
    /\ UNCHANGED <<log, compactor, rolling, sentWeight>>

CompactNext ==
    \/ PromptArrives \/ Iterate \/ PassPicks \/ SummaryFails \/ SendRequest \/ Answer
    \/ RunBreaks \/ RunIsSaved \/ RunRollsBack \/ Restart
    \/ \E w \in SummaryWeights : SummaryArrives(w)

CompactSpec == CompactInit /\ [][CompactNext]_compactVars

-----------------------------------------------------------------------------
\* The view covers the log once and in order; a summary stands for exactly the
\* messages it was made from, ends where a turn ends (so no tool result loses
\* its call) and never hides the turn in progress (state.rs:53-104).
ViewIsWhole ==
    LET view == Project(folds) IN
    log # <<>> =>
        /\ view # <<>> /\ view[1].lo = 0 /\ view[Len(view)].hi = Len(log)
        /\ \A k \in 1 .. Len(view) :
              /\ k > 1 => view[k].lo = view[k - 1].hi
              /\ view[k].summary => /\ view[k].lo = view[k].fold.start
                                    /\ view[k].hi = view[k].fold.end
                                    /\ view[k].hi <= LastUser(log)
                                    /\ IsUser(view[k].lo) /\ IsUser(view[k].hi)

\* A fold that leaves a finished turn unfolded has brought the request under the
\* target at once, whatever the length of its summary (lib.rs:88-94).
OneFoldReachesTarget ==
    compactor.pc = "pass" /\ compactor.guard > 0 /\ Gap(folds)[1] < FoldableEnd
        => ViewWeight(folds, "w") <= TARGET

\* No request over the hard wall is sent (runner.rs:554-568).
NothingOverTheWall == sentWeight <= WALL

\* What a request may rely on, as one property.
CompactionIsSound == ViewIsWhole /\ OneFoldReachesTarget /\ NothingOverTheWall
=============================================================================
