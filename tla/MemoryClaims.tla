---------------------------- MODULE MemoryClaims ----------------------------
(***************************************************************************)
(* Long-term memory: the claim store (dss-memory/src/store.rs over         *)
(* dss-db/src/repo.rs), the background extraction and consolidation of a   *)
(* finished run (extract.rs, consolidate.rs, sessions.rs), the recall and  *)
(* its cached index (recall.rs, bm25.rs, builtin/memory.rs), the retention *)
(* sweep (retention.rs) and the governance endpoints (memories.rs).        *)
(*                                                                         *)
(* A body is a model value; near-duplication and BM25 ranking are choices  *)
(* over the rows the code would rank.  A confidence is "low" when it is    *)
(* under both thresholds (0.3 and 0.5) and "high" otherwise.  No caller    *)
(* sets valid_until, so the sweep never expires a row.                     *)
(***************************************************************************)
EXTENDS Integers, Sequences, FiniteSets

CONSTANTS Ids,        \* mem_ ids, drawn fresh
          Projects, Profile, \* Profile: no project, visible everywhere
          Bodies, Items, \* the claims runs and users come up with
          Extractions,       \* background extractions of completed runs
          Recalls,    \* recalls in flight
          NoIndex, MAX_ITEMS, EDITS, FAULTS

VARIABLES row,        \* id -> its row of memories, Absent until inserted
          projects,   \* the rows of projects
          index,      \* MemoryStore.index: NoIndex or the indexed ids
          job, recall,
          sweep,      \* the rows the retention sweep has still to visit
          approved,   \* history: ids a user approved
          mcount      \* history: user operations and faults so far

memoryVars == <<row, projects, index, job, recall, sweep, approved, mcount>>

Absent == [status |-> "absent"]
IsRow(m) == row[m].status # "absent"
Standing(m) == row[m].status \in {"active", "candidate"}
\* memories WHERE scope = 'profile' OR ?1 IS NULL OR project_id = ?1.
Visible(p) ==
    {m \in Ids : IsRow(m) /\ (row[m].scope = "profile" \/ p = Profile \/ row[m].project = p)}

\* A fresh id: which one it is makes no difference.
Fresh == LET unused == {m \in Ids : ~IsRow(m)} IN
         IF unused = {} THEN {} ELSE {CHOOSE m \in unused : TRUE}
NewRow(item, p, status, origin) ==
    [status |-> status, body |-> item.body, risky |-> item.risky, conf |-> item.conf,
     project |-> p, scope |-> IF p = Profile THEN "profile" ELSE "project",
     origin |-> origin, by |-> {}, stale |-> TRUE]

Idle == [pc |-> "idle"]
MemoryInit ==
    /\ row = [m \in Ids |-> Absent]
    /\ projects = Projects
    /\ index = NoIndex
    /\ job = [j \in Extractions |-> Idle]
    /\ recall = [r \in Recalls |-> Idle]
    /\ sweep = {}
    /\ approved = {}
    /\ mcount = [edits |-> 0, faults |-> 0]

\* A store call commits its UPDATE or INSERT, then writes the memory_events row
\* and drops the index; when the event write fails the caller sees an error and
\* the index stays.
Committed(ok) ==
    \/ ok /\ index' = NoIndex /\ UNCHANGED mcount
    \/ /\ ~ok /\ mcount.faults < FAULTS
       /\ mcount' = [mcount EXCEPT !.faults = @ + 1]
       /\ UNCHANGED index

-----------------------------------------------------------------------------
(* Consolidation of what one run taught *)

\* A run that completed naturally (should_extract_memory) is read by the model in
\* the background; at most MAX_ITEMS claims of it are kept.
Extract(j) ==
    /\ job[j].pc = "idle"
    /\ \E p \in Projects \union {Profile},
          first \in Items, more \in {<<>>} \union {<<i>> : i \in Items} :
           /\ Len(more) < MAX_ITEMS
           /\ job' = [job EXCEPT ![j] = [pc |-> "resolve", project |-> p,
                                         items |-> <<first>> \o more]]
    /\ UNCHANGED <<row, projects, index, recall, sweep, approved, mcount>>

\* promote_candidates: a project that is gone falls back to the profile scope.
ResolveProject(j) ==
    /\ job[j].pc = "resolve"
    /\ job' = [job EXCEPT ![j].pc = "load",
                  ![j].project = IF @ \in projects THEN @ ELSE Profile]
    /\ UNCHANGED <<row, projects, index, recall, sweep, approved, mcount>>

\* The rows every item of the batch is compared with are read once.
LoadExisting(j) ==
    /\ job[j].pc = "load"
    /\ job' = [job EXCEPT ![j] = [pc |-> "item", project |-> @.project, items |-> @.items,
                  existing |-> [m \in {n \in Visible(@.project) : Standing(n)} |->
                                [body |-> row[m].body, status |-> row[m].status]],
                  old |-> {}]]
    /\ UNCHANGED <<row, projects, index, recall, sweep, approved, mcount>>

\* consolidate::decide.
Duplicates(existing, item) == {m \in DOMAIN existing : existing[m].body = item.body}
Replaceable(existing) == {m \in DOMAIN existing : existing[m].status = "active"}

NeedsReviewNever(item) == FALSE
\* A risky item: a type of high risk, with trust_high_risk_approve set.
NeedsReview(item) == item.risky

Decisions(existing, item) ==
    IF Duplicates(existing, item) # {} THEN {[kind |-> "duplicate"]}
    ELSE IF NeedsReview(item) THEN {[kind |-> "promote", status |-> "candidate"]}
    ELSE {[kind |-> "supersede", old |-> m] : m \in Replaceable(existing)}
         \union {[kind |-> "promote",
                  status |-> IF item.conf = "high" THEN "active" ELSE "candidate"]}

StatusOf(d, item) ==
    CASE d.kind = "promote" -> d.status
      [] item.risky -> "candidate"
      [] OTHER -> "active"

NextItem(j) == [job EXCEPT ![j] =
    IF Len(job[j].items) = 1 THEN [pc |-> "done"]
    ELSE [job[j] EXCEPT !.items = Tail(@), !.pc = "item", !.old = {}]]

\* One item of the batch: drop it, or append its claim (a foreign key refuses a
\* project deleted meanwhile), and remember the claim it replaces.
Consolidate(j) ==
    /\ job[j].pc = "item"
    /\ LET item == Head(job[j].items)
           p == job[j].project IN
       \E d \in Decisions(job[j].existing, item) :
           \/ d.kind = "duplicate" /\ job' = NextItem(j) /\ UNCHANGED <<row, index, mcount>>
           \/ /\ d.kind # "duplicate" /\ p \notin projects \union {Profile}
              /\ job' = NextItem(j) /\ UNCHANGED <<row, index, mcount>>
           \/ /\ d.kind # "duplicate" /\ p \in projects \union {Profile}
              /\ \E m \in Fresh, ok \in BOOLEAN :
                    /\ Committed(ok)
                    /\ row' = [row EXCEPT ![m] = NewRow(item, p,
                                  StatusOf(d, item), "auto")]
                    /\ job' = IF d.kind = "supersede" /\ ok
                                THEN [job EXCEPT ![j].pc = "replace", ![j].old = {<<d.old, m>>}]
                                ELSE NextItem(j)
    /\ UNCHANGED <<projects, recall, sweep, approved>>

\* supersede: only a row that is still active or candidate is replaced.
Supersede(j) ==
    /\ job[j].pc = "replace"
    /\ \E pair \in job[j].old : LET old == pair[1] IN
          \/ ~Standing(old) /\ UNCHANGED <<row, index, mcount>>
          \/ /\ Standing(old)
             /\ \E ok \in BOOLEAN : Committed(ok)
             /\ row' = [row EXCEPT ![old].status = "superseded", ![old].by = {pair[2]}]
    /\ job' = NextItem(j)
    /\ UNCHANGED <<projects, recall, sweep, approved>>

-----------------------------------------------------------------------------
(* Recall *)

\* rows that are not active and that no approval can have revived since.
DeadNow == {m \in Ids : row[m].status \in {"superseded", "deleted"}}

RecallStart(r) ==
    /\ recall[r].pc = "idle"
    /\ \E p \in projects \union {Profile} :
          recall' = [recall EXCEPT ![r] =
              [pc |-> IF index = NoIndex THEN "load" ELSE "search", project |-> p,
               cands |-> {}, hits |-> {}, out |-> {}, dead |-> DeadNow]]
    /\ UNCHANGED <<row, projects, index, job, sweep, approved, mcount>>

\* The index is built from the rows the first asker may see.
RecallLoad(r) ==
    /\ recall[r].pc = "load"
    /\ recall' = [recall EXCEPT ![r].pc = "put",
          ![r].cands = {m \in Visible(recall[r].project) : row[m].status = "active"}]
    /\ UNCHANGED <<row, projects, index, job, sweep, approved, mcount>>

RecallPut(r) ==
    /\ recall[r].pc = "put"
    /\ index' = recall[r].cands
    /\ recall' = [recall EXCEPT ![r].pc = "search"]
    /\ UNCHANGED <<row, projects, job, sweep, approved, mcount>>

\* BM25 over the index: the best few of what matches.
RecallSearch(r) ==
    /\ recall[r].pc = "search"
    /\ \E hits \in SUBSET (IF index = NoIndex THEN {} ELSE index) :
          recall' = [recall EXCEPT ![r].hits = hits,
                        ![r].pc = IF hits = {} THEN "done" ELSE "fetch"]
    /\ UNCHANGED <<row, projects, index, job, sweep, approved, mcount>>

\* Every hit is read again and kept only while it is active.
KeptHitAlways(m) == IsRow(m)
KeptHit(m) == row[m].status = "active"

RecallFetch(r) ==
    /\ recall[r].pc = "fetch"
    /\ LET kept == {m \in recall[r].hits : KeptHit(m)} IN
       recall' = [recall EXCEPT ![r].out = kept, ![r].pc = "touch"]
    /\ UNCHANGED <<row, projects, index, job, sweep, approved, mcount>>

\* touch_surfaced, over all hits for the tool and over the kept ones for the block
\* that opens a run; then the answer goes to the run.
RecallTouch(r) ==
    /\ recall[r].pc = "touch"
    /\ \E seen \in {recall[r].hits, recall[r].out} :
       row' = [m \in Ids |-> IF m \in seen /\ IsRow(m) THEN [row[m] EXCEPT !.stale = FALSE]
                             ELSE row[m]]
    /\ recall' = [recall EXCEPT ![r].pc = "done"]
    /\ UNCHANGED <<projects, index, job, sweep, approved, mcount>>

RecallDone(r) ==
    /\ recall[r].pc = "done"
    /\ recall' = [recall EXCEPT ![r] = Idle]
    /\ UNCHANGED <<row, projects, index, job, sweep, approved, mcount>>

-----------------------------------------------------------------------------
(* Governance and retention *)

User == mcount.edits < EDITS
Edited(ok) ==
    /\ index' = IF ok THEN NoIndex ELSE index
    /\ mcount' = [edits |-> mcount.edits + 1,
                  faults |-> IF ok THEN mcount.faults ELSE mcount.faults + 1]
    /\ ok \/ mcount.faults < FAULTS

\* POST /api/memories: explicit, active at once.
Remember ==
    /\ User
    /\ \E m \in Fresh, item \in Items, p \in projects \union {Profile}, ok \in BOOLEAN :
          /\ Edited(ok)
          /\ row' = [row EXCEPT ![m] = NewRow(item, p, "active", "explicit")]
    /\ UNCHANGED <<projects, job, recall, sweep, approved>>

\* PATCH: the text of any row, whatever its status.
EditBody(m, b) ==
    /\ User /\ IsRow(m) /\ row[m].body # b
    /\ \E ok \in BOOLEAN : Edited(ok)
    /\ row' = [row EXCEPT ![m].body = b]
    /\ UNCHANGED <<projects, job, recall, sweep, approved>>

\* POST approve, POST reject and DELETE set the status of any row.
Approve(m) ==
    /\ User /\ IsRow(m)
    /\ \E ok \in BOOLEAN : Edited(ok)
    /\ row' = [row EXCEPT ![m].status = "active"]
    /\ approved' = approved \union {m}
    /\ recall' = [r \in Recalls |-> IF recall[r].pc = "idle" THEN recall[r]
                                    ELSE [recall[r] EXCEPT !.dead = @ \ {m}]]
    /\ UNCHANGED <<projects, job, sweep>>

RejectOrDelete(m) ==
    /\ User /\ IsRow(m)
    /\ \E ok \in BOOLEAN : Edited(ok)
    /\ row' = [row EXCEPT ![m].status = "deleted"]
    /\ UNCHANGED <<projects, job, recall, sweep, approved>>

\* DELETE /api/projects/{pid}: its memories stay, without a project.
DetachProject(p) ==
    /\ User /\ p \in projects
    /\ projects' = projects \ {p}
    /\ row' = [m \in Ids |-> IF IsRow(m) /\ row[m].project = p
                             THEN [row[m] EXCEPT !.project = Profile] ELSE row[m]]
    /\ mcount' = [mcount EXCEPT !.edits = @ + 1]
    /\ UNCHANGED <<index, job, recall, sweep, approved>>

\* Ninety days pass without a recall.
Age(m) ==
    /\ IsRow(m) /\ ~row[m].stale
    /\ row' = [row EXCEPT ![m].stale = TRUE]
    /\ UNCHANGED <<projects, index, job, recall, sweep, approved, mcount>>

\* retention::sweep reads every active row, then demotes the stale ones of low
\* confidence one by one, whatever became of them meanwhile.
SweepStart ==
    /\ sweep = {}
    /\ sweep' = {m \in Ids : row[m].status = "active" /\ row[m].stale /\ row[m].conf = "low"}
    /\ sweep' # {}
    /\ UNCHANGED <<row, projects, index, job, recall, approved, mcount>>

SweepOne(m) ==
    /\ m \in sweep
    /\ sweep' = sweep \ {m}
    /\ \E ok \in BOOLEAN : Committed(ok)
    /\ row' = [row EXCEPT ![m].status = "candidate"]
    /\ UNCHANGED <<projects, job, recall, approved>>

-----------------------------------------------------------------------------
MemoryNext ==
    \/ \E j \in Extractions : \/ Extract(j) \/ ResolveProject(j) \/ LoadExisting(j)
                       \/ Consolidate(j) \/ Supersede(j)
    \/ \E r \in Recalls : \/ RecallStart(r) \/ RecallLoad(r) \/ RecallPut(r) \/ RecallSearch(r)
                          \/ RecallFetch(r) \/ RecallTouch(r) \/ RecallDone(r)
    \/ \E m \in Ids : \/ Approve(m) \/ RejectOrDelete(m) \/ Age(m) \/ SweepOne(m)
                      \/ \E b \in Bodies : EditBody(m, b)
    \/ Remember \/ SweepStart
    \/ \E p \in projects : DetachProject(p)

MemorySpec == MemoryInit /\ [][MemoryNext]_memoryVars

-----------------------------------------------------------------------------
(* Properties *)

\* A claim of a high-risk type that a run taught while trust_high_risk_approve was
\* set is never active, and so never recalled, before a user approved it
\* (consolidate.rs:77, 217).  With the setting off no item is risky.
RiskyIsReviewed ==
    \A m \in Ids : row[m].status = "active" =>
                      (row[m].origin = "auto" /\ row[m].risky => m \in approved)

\* Such a claim never takes the place of one that is in effect either.
RiskyReplacesNothing ==
    \A m \in Ids : IsRow(m) => \A n \in row[m].by : ~row[n].risky

\* What a recall returns excludes every row that was deleted or superseded when
\* the recall began, however old the index it searched (recall.rs:22-29).
RecallIsLive ==
    \A r \in Recalls : recall[r].pc = "done" => recall[r].out \cap recall[r].dead = {}

\* The governance of long-term memory, as one property.
MemoryIsGoverned == RiskyIsReviewed /\ RiskyReplacesNothing /\ RecallIsLive

\* recall.rs:10 and docs/modules.md:311: a recall for a project never answers
\* with the claim of another project.
RecallStaysInProject ==
    \A r \in Recalls : recall[r].pc = "done" /\ recall[r].project \in Projects =>
        \A m \in recall[r].out : row[m].project \in {recall[r].project, Profile}
=============================================================================
