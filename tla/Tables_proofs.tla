---------------------------- MODULE Tables_proofs ----------------------------
(***************************************************************************)
(* What the database keeps between runs, for any projects, bots, sessions, *)
(* editors, places of the data directory, launches, jobs and runs: the     *)
(* rows a session hangs on, the launches that share one data directory,    *)
(* and the queue of a bot.                                                 *)
(***************************************************************************)
EXTENDS ProjectRows, AppLaunch, BotJobs, FiniteSetTheorems, TLAPS

-----------------------------------------------------------------------------
(* Rows: the types *)

\* The values of a project key and of a bot key, of a request for a session and of an
\* editor's form.
Shelf == AllShelves \cup {NoShelf}
Helper == Helpers \cup {NoHelper}
Asks == [pc : {"unused", "made", "created", "refused"}, shelf : Shelf, helper : Helper]
Forms == [pc : {"blank", "open", "saved", "refused"}, helper : Helper, rev : Nat]

\* The types of the rows, of the directories and of the requests under way.
RowTypeOK ==
    /\ shelf \in [AllShelves -> [there : BOOLEAN, archived : BOOLEAN]]
    /\ helper \in [Helpers -> [there : BOOLEAN, on : BOOLEAN, shelf : Shelf, rev : Nat]]
    /\ room \in [Rooms -> [there : BOOLEAN, shelf : Shelf, helper : Helper, path : Homes]]
    /\ disk \in SUBSET (Homes \X Rooms)
    /\ home \in Homes
    /\ asked \in [Rooms -> Asks]
    /\ going \in SUBSET Rooms
    /\ form \in [Editors -> Forms]

\* The default project is never deleted, a bot's key is NULL or a project that is there,
\* and a request has chosen a project before it makes the directory.
KeysInv ==
    /\ shelf[DefaultShelf].there
    /\ \A b \in Helpers : ShelfKey(helper[b].shelf)
    /\ \A s \in Rooms : asked[s] # NoAsk => asked[s].shelf # NoShelf

\* The directory of a session whose row is about to be inserted is in the data
\* directory, a row that is there was inserted by the request that made it, and a
\* directory is only deleted after its row.
Going(s) ==
    /\ asked[s].pc = "made" => <<home, s>> \in disk
    /\ room[s].there => asked[s].pc = "created"
    /\ s \in going => asked[s].pc = "created" /\ ~room[s].there
GoingInv == \A s \in Rooms : Going(s)

\* A form on which a bot was saved carries a revision the bot has left behind, and
\* every form one the bot has had.
Form(e) ==
    /\ form[e].pc # "blank" => form[e].helper \in Helpers
    /\ form[e].pc = "saved" => form[e].rev < helper[form[e].helper].rev
FormInv == \A e \in Editors : Form(e)

\* The inductive invariant of the rows.
RowInv == RowTypeOK /\ KeysInv /\ GoingInv /\ FormInv /\ RowsAreSound

\* A fresh database satisfies it.
LEMMA RowInitInv == RowInit => RowInv
<1> SUFFICES ASSUME RowInit PROVE RowInv
  OBVIOUS
<1> USE RowAssumption DEF RowInit, AllShelves, NoAsk, Blank
<1>1. RowTypeOK
  BY DEF RowTypeOK, Shelf, Helper, Asks, Forms
<1>2. KeysInv /\ GoingInv /\ FormInv
  BY DEF KeysInv, ShelfKey, GoingInv, Going, FormInv, Form
<1>3. RowsAreSound
  BY DEF RowsAreSound, SessionsHaveAProject, SessionsHaveTheirFiles, NoBotEditIsOverwritten
<1> QED
  BY <1>1, <1>2, <1>3 DEF RowInv

\* A project that a request may have chosen is one of them.
LEMMA ChosenType ==
    ASSUME RowTypeOK, NEW p \in Shelf, NEW b \in Helper
    PROVE  Chosen(p, b) \in AllShelves
  BY RowAssumption DEF RowTypeOK, Shelf, Helper, Chosen, AllShelves

\* A step keeps the types.
LEMMA RowTypeStep ==
    ASSUME RowTypeOK, KeysInv, FormInv, [RowNext]_rowVars
    PROVE  RowTypeOK'
<1> USE RowAssumption DEF RowTypeOK
<1>1. ASSUME NEW p \in Shelves, CreateProject(p) PROVE RowTypeOK'
  BY <1>1 DEF CreateProject, AllShelves
<1>2. ASSUME NEW p \in Shelves, NEW yes \in BOOLEAN, SetArchived(p, yes) PROVE RowTypeOK'
  BY <1>2 DEF SetArchived
<1>3. ASSUME NEW p \in Shelves, NEW yes \in BOOLEAN, DeleteProject(p, yes) PROVE RowTypeOK'
  <2>1. shelf' \in [AllShelves -> [there : BOOLEAN, archived : BOOLEAN]]
    BY <1>3 DEF DeleteProject
  <2>2. helper' \in [Helpers -> [there : BOOLEAN, on : BOOLEAN, shelf : Shelf, rev : Nat]]
    BY <1>3 DEF DeleteProject, Shelf
  <2>3. room' \in [Rooms -> [there : BOOLEAN, shelf : Shelf, helper : Helper, path : Homes]]
    BY <1>3 DEF DeleteProject, Rehomed, Shelf, AllShelves
  <2> QED
    BY <1>3, <2>1, <2>2, <2>3 DEF DeleteProject
<1>4. ASSUME NEW b \in Helpers, NEW p \in AllShelves, CreateBot(b, p) PROVE RowTypeOK'
  BY <1>4 DEF CreateBot, Shelf
<1>5. ASSUME NEW b \in Helpers, NEW e \in Editors, OpenForm(e, b) PROVE RowTypeOK'
  BY <1>5 DEF OpenForm, Forms, Helper
<1>6. ASSUME NEW e \in Editors, NEW on \in BOOLEAN, NEW p \in Shelf, UpdateBot(e, on, p)
      PROVE  RowTypeOK'
  <2>4. \/ form' = [form EXCEPT ![e].pc = "saved"]
        \/ form' = [form EXCEPT ![e].pc = "refused"]
    BY <1>6 DEF UpdateBot
  <2>1. form' \in [Editors -> Forms]
    <3>1. CASE form' = [form EXCEPT ![e].pc = "saved"]
      BY <3>1 DEF Forms
    <3>2. CASE form' = [form EXCEPT ![e].pc = "refused"]
      BY <3>2 DEF Forms
    <3> QED
      BY <2>4, <3>1, <3>2
  <2>2. form[e].helper \in Helpers
    BY <1>6 DEF UpdateBot, FormInv, Form
  <2>3. helper' \in [Helpers -> [there : BOOLEAN, on : BOOLEAN, shelf : Shelf, rev : Nat]]
    BY <1>6, <2>2 DEF UpdateBot, Shelf
  <2> QED
    BY <1>6, <2>1, <2>3 DEF UpdateBot
<1>7. ASSUME NEW b \in Helpers, DeleteBot(b) PROVE RowTypeOK'
  BY <1>7 DEF DeleteBot, Helper
<1>8. ASSUME NEW s \in Rooms, NEW p \in Shelf, NEW b \in Helper, BeginCreate(s, p, b)
      PROVE  RowTypeOK'
  <2>1. asked' \in [Rooms -> Asks]
    BY <1>8, ChosenType DEF BeginCreate, Asks, Shelf
  <2> QED
    BY <1>8, <2>1 DEF BeginCreate
<1>9. ASSUME NEW s \in Rooms, InsertRow(s) PROVE RowTypeOK'
  <2>1. \/ asked' = [asked EXCEPT ![s].pc = "created"]
        \/ asked' = [asked EXCEPT ![s].pc = "refused"]
    BY <1>9 DEF InsertRow
  <2>3. asked' \in [Rooms -> Asks]
    <3>1. CASE asked' = [asked EXCEPT ![s].pc = "created"]
      BY <3>1 DEF Asks
    <3>2. CASE asked' = [asked EXCEPT ![s].pc = "refused"]
      BY <3>2 DEF Asks
    <3> QED
      BY <2>1, <3>1, <3>2
  <2>4. \/ UNCHANGED room
        \/ room' = [room EXCEPT ![s] = [there |-> TRUE, shelf |-> asked[s].shelf,
                                        helper |-> asked[s].helper, path |-> home]]
    BY <1>9 DEF InsertRow
  <2>2. room' \in [Rooms -> [there : BOOLEAN, shelf : Shelf, helper : Helper, path : Homes]]
    <3>1. asked[s].shelf \in Shelf /\ asked[s].helper \in Helper
      BY DEF Asks
    <3>2. CASE UNCHANGED room
      BY <3>2
    <3>3. CASE room' = [room EXCEPT ![s] = [there |-> TRUE, shelf |-> asked[s].shelf,
                                            helper |-> asked[s].helper, path |-> home]]
      BY <3>1, <3>3
    <3> QED
      BY <2>4, <3>2, <3>3
  <2> QED
    BY <1>9, <2>2, <2>3 DEF InsertRow
<1>10. ASSUME NEW s \in Rooms, ResolveWorkspace(s) PROVE RowTypeOK'
  BY <1>10 DEF ResolveWorkspace
<1>11. ASSUME NEW s \in Rooms, DeleteRow(s) PROVE RowTypeOK'
  BY <1>11 DEF DeleteRow, DeleteRowFirst
<1>12. ASSUME NEW s \in Rooms, DeleteFiles(s) PROVE RowTypeOK'
  BY <1>12 DEF DeleteFiles
<1>13. ASSUME NEW h \in Homes, NEW kept \in BOOLEAN, Outage(h, kept) PROVE RowTypeOK'
  <2>1. asked' \in [Rooms -> Asks]
    BY <1>13 DEF Outage, Asks
  <2>2. disk' \in SUBSET (Homes \X Rooms)
    BY <1>13 DEF Outage
  <2> QED
    BY <1>13, <2>1, <2>2 DEF Outage
<1> QED
  BY <1>1, <1>2, <1>3, <1>4, <1>5, <1>6, <1>7, <1>8, <1>9, <1>10, <1>11, <1>12, <1>13
     DEF RowNext, rowVars, Shelf, Helper

\* A step keeps every key on a row that is there.
LEMMA KeysStep ==
    ASSUME RowTypeOK, KeysInv, FormInv, SessionsHaveAProject, [RowNext]_rowVars
    PROVE  KeysInv' /\ SessionsHaveAProject'
<1> DEFINE Goal == KeysInv' /\ SessionsHaveAProject'
<1> USE RowAssumption DEF RowTypeOK, KeysInv, ShelfKey, SessionsHaveAProject, Stored, HelperKey
<1>1. ASSUME NEW p \in Shelves, CreateProject(p) PROVE Goal
  BY <1>1 DEF CreateProject, AllShelves, Shelf
<1>2. ASSUME NEW p \in Shelves, NEW yes \in BOOLEAN, SetArchived(p, yes) PROVE Goal
  BY <1>2 DEF SetArchived, AllShelves, Shelf
<1>3. ASSUME NEW p \in Shelves, NEW yes \in BOOLEAN, DeleteProject(p, yes) PROVE Goal
  <2>1. /\ p # DefaultShelf /\ p \in AllShelves
        /\ \A q \in AllShelves : q # p => shelf'[q].there = shelf[q].there
    BY <1>3 DEF DeleteProject, AllShelves
  <2>2. \A b \in Helpers : ShelfKey(helper[b].shelf)'
    BY <1>3, <2>1 DEF DeleteProject, Shelf
  <2>3. \A b \in Helpers : helper'[b].there = helper[b].there
    BY <1>3 DEF DeleteProject
  <2>4. \A s \in Rooms : /\ room'[s].there = room[s].there /\ room'[s].helper = room[s].helper
                         /\ room'[s].there => \/ room'[s].shelf = DefaultShelf
                                              \/ room'[s].shelf = room[s].shelf /\ room[s].shelf # p
    BY <1>3 DEF DeleteProject, Rehomed, RoomsOf
  <2>5. SessionsHaveAProject'
    BY <2>1, <2>3, <2>4 DEF Shelf, Helper, AllShelves
  <2> QED
    BY <1>3, <2>1, <2>2, <2>5 DEF DeleteProject, AllShelves
<1>4. ASSUME NEW b \in Helpers, NEW p \in AllShelves, CreateBot(b, p) PROVE Goal
  BY <1>4 DEF CreateBot, Helper
<1>5. ASSUME NEW b \in Helpers, NEW e \in Editors, OpenForm(e, b) PROVE Goal
  BY <1>5 DEF OpenForm
<1>6. ASSUME NEW e \in Editors, NEW on \in BOOLEAN, NEW p \in Shelf, UpdateBot(e, on, p)
      PROVE  Goal
  <2>1. form[e].helper \in Helpers
    BY <1>6 DEF UpdateBot, FormInv, Form
  <2>2. \A b \in Helpers : /\ helper'[b].there = helper[b].there
                           /\ \/ helper'[b].shelf = helper[b].shelf
                              \/ helper'[b].shelf = p /\ ShelfKey(p)
    BY <1>6, <2>1 DEF UpdateBot
  <2>3. UNCHANGED <<shelf, room, asked>>
    BY <1>6 DEF UpdateBot
  <2> QED
    BY <2>2, <2>3 DEF Helper
<1>7. ASSUME NEW b \in Helpers, DeleteBot(b) PROVE Goal
  BY <1>7 DEF DeleteBot, Helper
<1>8. ASSUME NEW s \in Rooms, NEW p \in Shelf, NEW b \in Helper, BeginCreate(s, p, b)
      PROVE  Goal
  <2>1. Chosen(p, b) # NoShelf
    BY ChosenType
  <2> QED
    BY <1>8, <2>1 DEF BeginCreate, Shelf
<1>9. ASSUME NEW s \in Rooms, InsertRow(s) PROVE Goal
  <2>1. asked[s] # NoAsk /\ asked[s] \in Asks
    BY <1>9 DEF InsertRow, NoAsk
  <2>2. UNCHANGED <<shelf, helper>>
    BY <1>9 DEF InsertRow
  <2>3. \A t \in Rooms : asked'[t].shelf = asked[t].shelf /\ (asked[t] = NoAsk => asked'[t] = NoAsk)
    BY <1>9, <2>1 DEF InsertRow, Asks, NoAsk
  <2>4. CASE UNCHANGED room
    BY <2>2, <2>3, <2>4
  <2>5. CASE /\ ShelfKey(asked[s].shelf) /\ HelperKey(asked[s].helper)
             /\ room' = [room EXCEPT ![s] = [there |-> TRUE, shelf |-> asked[s].shelf,
                                             helper |-> asked[s].helper, path |-> home]]
    BY <2>1, <2>2, <2>3, <2>5 DEF Asks
  <2> QED
    BY <1>9, <2>4, <2>5 DEF InsertRow
<1>10. ASSUME NEW s \in Rooms, ResolveWorkspace(s) PROVE Goal
  BY <1>10 DEF ResolveWorkspace
<1>11. ASSUME NEW s \in Rooms, DeleteRow(s) PROVE Goal
  BY <1>11 DEF DeleteRow, DeleteRowFirst
<1>12. ASSUME NEW s \in Rooms, DeleteFiles(s) PROVE Goal
  BY <1>12 DEF DeleteFiles
<1>13. ASSUME NEW h \in Homes, NEW kept \in BOOLEAN, Outage(h, kept) PROVE Goal
  BY <1>13 DEF Outage, NoAsk, Asks
<1>14. CASE UNCHANGED rowVars
  BY <1>14 DEF rowVars
<1> QED
  BY <1>1, <1>2, <1>3, <1>4, <1>5, <1>6, <1>7, <1>8, <1>9, <1>10, <1>11, <1>12, <1>13, <1>14
     DEF RowNext, Shelf, Helper


\* The files of a session, from before its row to after it.
LEMMA FilesStep ==
    ASSUME RowTypeOK, GoingInv, SessionsHaveTheirFiles, [RowNext]_rowVars
    PROVE  GoingInv' /\ SessionsHaveTheirFiles'
<1> DEFINE Files(s) == Going(s) /\ (room[s].there => Located(s) \/ <<home, s>> \in disk)
<1> SUFFICES ASSUME NEW t \in Rooms, Files(t) PROVE Files(t)'
  BY DEF GoingInv, SessionsHaveTheirFiles
<1> USE DEF RowTypeOK, Going, Located
<1>1. CASE UNCHANGED <<room, disk, home, asked, going>>
  BY <1>1
<1>2. ASSUME NEW p \in Shelves, NEW yes \in BOOLEAN, DeleteProject(p, yes) PROVE Files(t)'
  BY <1>2 DEF DeleteProject, Rehomed
<1>3. ASSUME NEW b \in Helpers, DeleteBot(b) PROVE Files(t)'
  BY <1>3 DEF DeleteBot
<1>4. ASSUME NEW s \in Rooms, NEW p \in Shelf, NEW b \in Helper, BeginCreate(s, p, b)
      PROVE  Files(t)'
  <2>1. asked[s].pc = "unused"
    BY <1>4 DEF BeginCreate, NoAsk
  <2> QED
    BY <1>4, <2>1 DEF BeginCreate
<1>5. ASSUME NEW s \in Rooms, InsertRow(s) PROVE Files(t)'
  <2>1. \A u \in Rooms : u # s => room'[u] = room[u] /\ asked'[u] = asked[u]
    BY <1>5 DEF InsertRow
  <2>2. UNCHANGED <<disk, home, going>> /\ asked[s].pc = "made"
    BY <1>5 DEF InsertRow
  <2>3. CASE t # s
    BY <2>1, <2>2, <2>3
  <2>4. \/ room'[s].there /\ room'[s].path = home /\ asked'[s].pc = "created"
        \/ room'[s] = room[s] /\ asked'[s].pc = "refused"
    BY <1>5 DEF InsertRow, Asks
  <2>5. CASE t = s
    BY <2>2, <2>4, <2>5
  <2> QED
    BY <2>3, <2>5
<1>6. ASSUME NEW s \in Rooms, ResolveWorkspace(s) PROVE Files(t)'
  BY <1>6 DEF ResolveWorkspace, MayRebase
<1>7. ASSUME NEW s \in Rooms, DeleteRow(s) PROVE Files(t)'
  BY <1>7 DEF DeleteRow, DeleteRowFirst
<1>8. ASSUME NEW s \in Rooms, DeleteFiles(s) PROVE Files(t)'
  <2>1. CASE t = s
    BY <1>8, <2>1 DEF DeleteFiles
  <2>2. CASE t # s
    BY <1>8, <2>2 DEF DeleteFiles
  <2> QED
    BY <2>1, <2>2
<1>9. ASSUME NEW h \in Homes, NEW kept \in BOOLEAN, Outage(h, kept) PROVE Files(t)'
  <2>1. <<home, t>> \in disk => <<h, t>> \in disk'
    BY <1>9 DEF Outage
  <2>2. \A g \in Homes : g # home /\ <<g, t>> \in disk => <<g, t>> \in disk'
    BY <1>9 DEF Outage
  <2>3. asked'[t].pc # "made" /\ (asked[t].pc = "created" => asked'[t].pc = "created")
    BY <1>9 DEF Outage, Asks
  <2> QED
    BY <1>9, <2>1, <2>2, <2>3 DEF Outage
<1> QED
  BY <1>1, <1>2, <1>3, <1>4, <1>5, <1>6, <1>7, <1>8, <1>9
     DEF RowNext, rowVars, Shelf, Helper, CreateProject, SetArchived, CreateBot, OpenForm, UpdateBot

\* A bot's revision only grows, and only through the form that is saved on it.
LEMMA FormStep ==
    ASSUME RowTypeOK, FormInv, NoBotEditIsOverwritten, [RowNext]_rowVars
    PROVE  FormInv' /\ NoBotEditIsOverwritten'
<1> DEFINE Goal == FormInv' /\ NoBotEditIsOverwritten'
<1> USE DEF RowTypeOK, FormInv, Form, NoBotEditIsOverwritten
<1>1. CASE /\ UNCHANGED form
           /\ \A b \in Helpers : helper'[b].rev \in Nat /\ helper[b].rev <= helper'[b].rev
  BY <1>1 DEF Forms
<1>2. ASSUME NEW p \in Shelves, NEW yes \in BOOLEAN, DeleteProject(p, yes) PROVE Goal
  BY <1>1, <1>2 DEF DeleteProject
<1>3. ASSUME NEW b \in Helpers, DeleteBot(b) PROVE Goal
  BY <1>1, <1>3 DEF DeleteBot
<1>4. ASSUME NEW b \in Helpers, NEW p \in AllShelves, CreateBot(b, p) PROVE Goal
  BY <1>1, <1>4 DEF CreateBot
<1>5. ASSUME NEW b \in Helpers, NEW e \in Editors, OpenForm(e, b) PROVE Goal
  BY <1>5 DEF OpenForm
<1>6. ASSUME NEW e \in Editors, NEW on \in BOOLEAN, NEW p \in Shelf, UpdateBot(e, on, p)
      PROVE  Goal
  <2> DEFINE b == form[e].helper
  <2>1. form[e].pc = "open" /\ b \in Helpers /\ form[e] \in Forms
    BY <1>6 DEF UpdateBot
  <2>2. \A f \in Editors : f # e => form'[f] = form[f]
    BY <1>6 DEF UpdateBot
  <2>3. /\ form'[e].helper = form[e].helper /\ form'[e].rev = form[e].rev
    BY <1>6, <2>1 DEF UpdateBot, Forms
  <2>4. CASE form' = [form EXCEPT ![e].pc = "refused"] /\ UNCHANGED helper
    BY <2>1, <2>2, <2>3, <2>4 DEF Forms
  <2>5. CASE /\ form' = [form EXCEPT ![e].pc = "saved"]
             /\ helper[b].rev = form[e].rev /\ helper'[b].rev = helper[b].rev + 1
             /\ \A c \in Helpers : c # b => helper'[c].rev = helper[c].rev
    <3>1. FormInv'
      BY <2>1, <2>2, <2>3, <2>5 DEF Forms
    <3>2. \A f \in Editors : f # e /\ form[f].pc = "saved" /\ form[f].helper = b
                                => form[f].rev # form[e].rev
      BY <2>1, <2>5 DEF Forms
    <3>3. NoBotEditIsOverwritten'
      BY <2>1, <2>2, <2>3, <3>2
    <3> QED
      BY <3>1, <3>3
  <2>6. CASE UNCHANGED helper
    BY <1>6, <2>4, <2>6 DEF UpdateBot, MayUpdate
  <2>7. CASE MayUpdate(form[e]) /\ helper' = [helper EXCEPT ![b].on = on, ![b].shelf = p, ![b].rev = @ + 1]
    BY <1>6, <2>1, <2>5, <2>7 DEF UpdateBot, MayUpdate
  <2> QED
    BY <1>6, <2>6, <2>7 DEF UpdateBot
<1> QED
  BY <1>1, <1>2, <1>3, <1>4, <1>5, <1>6
     DEF RowNext, rowVars, Shelf, Helper, CreateProject, SetArchived, BeginCreate, InsertRow,
         ResolveWorkspace, DeleteRow, DeleteFiles, Outage

\* A session keeps a project that is there and its files, and no edit of a bot is
\* overwritten by one that had not seen it (repo.rs, sessions.rs,
\* workspace_resolution.rs), however often the data directory is moved.
THEOREM RowsKeepTheirKeys == RowSpec => []RowsAreSound
<1>1. RowInit => RowInv
  BY RowInitInv
<1>2. RowInv /\ [RowNext]_rowVars => RowInv'
  BY RowTypeStep, KeysStep, FilesStep, FormStep DEF RowInv, RowsAreSound
<1>3. RowInv => RowsAreSound
  BY DEF RowInv
<1> QED
  BY <1>1, <1>2, <1>3, PTL DEF RowSpec

-----------------------------------------------------------------------------
(* Launches *)

\* How far each part of a launch can be.
LaunchTypeOK ==
    /\ shell \in [Launches -> {"unborn", "probed", "inspect", "ask", "ready", "failed",
                               "closing", "closed", "killed", "terminal"}]
    /\ backend \in [Launches -> {"none", "starting", "migrated", "serving", "draining", "gone"}]
    /\ work \in [Launches -> [pc : {"none", "live", "refused", "stored"},
                              row : {"none", "processing", "interrupted", "completed"}]]
    /\ settled \in [Launches -> SUBSET Launches]

\* A launch has no backend before its shell spawns one, and a backend that was gone
\* when another migrated stays gone, with a row that it cannot write any more.
UnbornInv == \A l \in Launches : shell[l] \in {"unborn", "probed"} => backend[l] = "none"
Settled(l) == \A m \in settled[l] : backend[m] = "gone" /\ work[m].row # "processing"
SettledInv == \A l \in Launches : Settled(l)

\* One launch, or its backend, moves.
LaunchStep(l) ==
    \/ Probe(l) \/ Spawn(l) \/ ServeByHand(l) \/ InspectChild(l) \/ AskHealth(l)
    \/ CloseWindow(l) \/ ChildEnds(l) \/ ShellDies(l)
    \/ Migrate(l) \/ Bind(l) \/ Drain(l) \/ ParentExits(l) \/ Crash(l)
    \/ StartRun(l) \/ Checkpoint(l) \/ PersistRun(l)

\* The inductive invariant of the launches.
LaunchInv == LaunchTypeOK /\ UnbornInv /\ NothingStaysBehind /\ SettledInv

\* What a step does to the life of a backend: one of them starts, under a shell that
\* has just spawned it, one moves on, or one ends; a window closes over a dead one.
LEMMA LivesStep ==
    ASSUME LaunchTypeOK, UnbornInv, NEW l \in Launches, LaunchStep(l)
    PROVE  /\ \A m \in Launches : m # l => shell'[m] = shell[m] /\ backend'[m] = backend[m]
           /\ backend[l] = "gone" => backend'[l] = "gone"
           /\ shell'[l] \in {"unborn", "probed"} => backend'[l] = "none"
           /\ shell'[l] = "closed" /\ (shell[l] = "closed" => ~Alive(l)) => ~Alive(l)'
           /\ shell' \in [Launches -> {"unborn", "probed", "inspect", "ask", "ready", "failed",
                                       "closing", "closed", "killed", "terminal"}]
           /\ backend' \in [Launches -> {"none", "starting", "migrated", "serving", "draining",
                                         "gone"}]
<1> USE DEF LaunchTypeOK, UnbornInv, Alive
<1>1. CASE Probe(l)
  BY <1>1 DEF Probe
<1>2. CASE Spawn(l)
  BY <1>2 DEF Spawn
<1>3. CASE ServeByHand(l)
  BY <1>3 DEF ServeByHand
<1>4. CASE InspectChild(l) \/ AskHealth(l) \/ ShellDies(l)
  BY <1>4 DEF InspectChild, AskHealth, ShellDies
<1>5. CASE CloseWindow(l)
  BY <1>5 DEF CloseWindow, Managed
<1>6. CASE ChildEnds(l)
  BY <1>6 DEF ChildEnds, AfterGrace
<1>7. CASE Migrate(l) \/ Bind(l)
  BY <1>7 DEF Migrate, Bind
<1>8. CASE Drain(l) \/ ParentExits(l) \/ Crash(l)
  BY <1>8 DEF Drain, ParentExits, Crash
<1>9. CASE StartRun(l) \/ Checkpoint(l) \/ PersistRun(l)
  BY <1>9 DEF StartRun, Checkpoint, PersistRun
<1> QED
  BY <1>1, <1>2, <1>3, <1>4, <1>5, <1>6, <1>7, <1>8, <1>9 DEF LaunchStep

\* What a step does to the rows: a migration repairs all of them, and takes down who
\* was gone; otherwise only a backend that is alive writes, and only its own.
LEMMA WorkStep ==
    ASSUME LaunchTypeOK, NEW l \in Launches, LaunchStep(l)
    PROVE  /\ work' \in [Launches -> [pc : {"none", "live", "refused", "stored"},
                                      row : {"none", "processing", "interrupted", "completed"}]]
           /\ settled' \in [Launches -> SUBSET Launches]
           /\ \/ /\ \A m \in Launches : work'[m].row # "processing"
                 /\ \A k \in Launches : settled'[k] = settled[k]
                                       \/ settled'[k] = {m \in Launches : backend[m] = "gone"}
              \/ /\ UNCHANGED settled
                 /\ \A m \in Launches : m # l => work'[m] = work[m]
                 /\ work'[l] = work[l] \/ Alive(l)
<1> USE DEF LaunchTypeOK
<1>1. CASE Migrate(l)
  <2>1. work' = [m \in Launches |-> [work[m] EXCEPT !.row = Repaired(@)]]
    BY <1>1 DEF Migrate
  <2>2. \A m \in Launches : /\ work'[m] \in [pc : {"none", "live", "refused", "stored"},
                               row : {"none", "processing", "interrupted", "completed"}]
                            /\ work'[m].row # "processing"
    BY <2>1 DEF Repaired
  <2>3. work' \in [Launches -> [pc : {"none", "live", "refused", "stored"},
                               row : {"none", "processing", "interrupted", "completed"}]]
    BY <2>1, <2>2
  <2> QED
    BY <1>1, <2>2, <2>3 DEF Migrate
<1>2. CASE UNCHANGED <<work, settled>>
  BY <1>2
<1>3. CASE StartRun(l)
  BY <1>3 DEF StartRun, Serving, Alive
<1>4. CASE Checkpoint(l)
  <2>1. \/ work' = [work EXCEPT ![l] = [work[l] EXCEPT !.pc = "refused"]]
        \/ work' = [work EXCEPT ![l] = [work[l] EXCEPT !.row = "processing"]]
    BY <1>4 DEF Checkpoint
  <2> QED
    BY <1>4, <2>1 DEF Checkpoint, LiveRun, Alive
<1>5. CASE PersistRun(l)
  <2>1. \/ work' = [work EXCEPT ![l] = [work[l] EXCEPT !.pc = "refused"]]
        \/ work' = [work EXCEPT ![l] = [pc |-> "stored", row |-> "completed"]]
    BY <1>5 DEF PersistRun
  <2> QED
    BY <1>5, <2>1 DEF PersistRun, LiveRun, Alive
<1> QED
  BY <1>1, <1>2, <1>3, <1>4, <1>5
     DEF LaunchStep, Probe, Spawn, ServeByHand, InspectChild, AskHealth, CloseWindow, ChildEnds,
         ShellDies, Bind, Drain, ParentExits, Crash

\* A closed window leaves no backend behind, and no run of a process that was gone when
\* a backend migrated is called processing again (main.rs, schema.rs), however many
\* launches share the data directory and whoever crashes.
THEOREM LaunchesLeaveNothing == LaunchSpec => []LaunchesAreClean
<1>1. LaunchInit => LaunchInv
  BY DEF LaunchInit, LaunchInv, LaunchTypeOK, UnbornInv, NothingStaysBehind, SettledInv, Settled,
         NoWork, Alive
<1>2. LaunchInv /\ [LaunchNext]_launchVars => LaunchInv'
  <2>1. CASE UNCHANGED launchVars
    BY <2>1 DEF LaunchInv, LaunchTypeOK, UnbornInv, NothingStaysBehind, SettledInv, Settled,
                Alive, launchVars
  <2>2. ASSUME LaunchInv, NEW l \in Launches, LaunchStep(l)
        PROVE  LaunchInv'
    <3> USE DEF LaunchInv
    <3>1. LaunchTypeOK'
      BY <2>2, LivesStep, WorkStep DEF LaunchTypeOK
    <3>2. UnbornInv' /\ NothingStaysBehind'
      BY <2>2, LivesStep DEF UnbornInv, NothingStaysBehind, Alive
    <3>3. ASSUME NEW k \in Launches, NEW m \in settled'[k]
          PROVE  backend'[m] = "gone" /\ work'[m].row # "processing"
      <4>1. m \in Launches
        BY <3>1 DEF LaunchTypeOK
      <4>2. CASE m \in settled[k]
        BY <2>2, <4>1, <4>2, LivesStep, WorkStep DEF SettledInv, Settled, Alive
      <4>3. CASE m \notin settled[k]
        BY <2>2, <3>3, <4>1, <4>3, LivesStep, WorkStep
      <4> QED
        BY <4>2, <4>3
    <3> QED
      BY <3>1, <3>2, <3>3 DEF SettledInv, Settled
  <2> QED
    BY <2>1, <2>2 DEF LaunchNext, LaunchStep
<1>3. LaunchInv => LaunchesAreClean
  BY DEF LaunchInv, LaunchesAreClean, TheDeadAreSettled, SettledInv, Settled
<1> QED
  BY <1>1, <1>2, <1>3, PTL DEF LaunchSpec

-----------------------------------------------------------------------------
(* The queue of a bot *)

\* A claim under way, or the answer to one.
ClaimKinds == {"claim", "granted", "refused"}

\* The parts of the rows and of the runs that the handlers decide on.
BotTypeOK ==
    /\ DOMAIN table = Jobs
    /\ \A j \in Jobs : {"st", "rev", "run"} \subseteq DOMAIN table[j]
    /\ DOMAIN runs = JobRuns
    /\ \A r \in JobRuns : /\ DOMAIN runs[r] = {"job", "pc", "claim", "ok"}
                          /\ runs[r].pc \in {"unused", "live", "stopped", "ended"}
                          /\ runs[r].claim \in {"none", "asked", "granted", "refused"}
                          /\ runs[r].pc = "unused" <=> runs[r].claim = "none"
                          /\ runs[r].ok \in BOOLEAN
    /\ bcount \in [acts : Nat, losses : Nat, reboots : Nat]

\* A prompt that is being saved has no row yet, a claim and its answer belong to a run that
\* still waits for it, and a finish to a run whose claim was granted and that has ended.
Message(m) ==
    /\ m.kind = "enqueue" =>
         m = [kind |-> "enqueue", job |-> m.job] /\ m.job \in Jobs /\ table[m.job].st = "none"
    /\ m.kind \in ClaimKinds =>
         m.run \in JobRuns /\ runs[m.run].claim = "asked"
    /\ m.kind = "claim" => runs[m.run].job = m.job
    /\ m.kind = "finish" =>
         /\ m.run \in JobRuns /\ runs[m.run].pc = "ended" /\ runs[m.run].claim = "granted"
         /\ m.job = runs[m.run].job /\ m.ok = runs[m.run].ok
WireInv == \A m \in wire : Message(m)

\* A run has one claim under way, or one answer to it.
OneClaimInv ==
    \A m, n \in wire : m.kind \in ClaimKinds /\ n.kind \in ClaimKinds /\ m.run = n.run => m = n

Answered(r, kind) == runs[r].claim = kind \/ \E m \in wire : m.kind = kind /\ m.run = r

\* A run whose claim was granted owns the row of its job, and once the row is completed
\* the run has ended well.
Granted(r) ==
    LET j == runs[r].job IN
    j \in Jobs /\ Answered(r, "granted") =>
      /\ table[j].run = r /\ table[j].st \notin {"none", "queued"}
      /\ table[j].st = "completed" => runs[r].pc = "ended" /\ runs[r].ok
GrantedInv == \A r \in JobRuns : Granted(r)

\* A run that owns a running row was launched, has no claim under way, and it was not refused unless a
\* message was lost.
Running(j) ==
    table[j].st = "running" =>
      /\ table[j].run \in JobRuns /\ runs[table[j].run].pc # "unused"
      /\ \A m \in wire : m.kind = "claim" => m.run # table[j].run
      /\ Answered(table[j].run, "refused") => bcount.losses > 0
\* The row of a job whose run owes it an end.
Owed(j) ==
    table[j].st = "running" =>
      LET r == table[j].run IN
      /\ runs[r].job = j
      /\ \/ runs[r].pc \in {"live", "stopped"}
         \/ runs[r].claim = "asked"
         \/ \E m \in wire : m.kind = "finish" /\ m.run = r
         \/ bcount.losses > 0
RunningInv == \A j \in Jobs : Running(j) /\ Owed(j)

\* The inductive invariant of the queue.
BotInv == BotTypeOK /\ WireInv /\ OneClaimInv /\ GrantedInv /\ RunningInv

\* What a handler does to its row, to the wire and to the number of losses.
LEMMA ServedOutcome ==
    ASSUME BotTypeOK, NEW m, NEW accepted, NEW rows, NEW good, NEW bad,
           Served(m, accepted, rows, good, bad)
    PROVE  /\ runs' = runs /\ bcount' \in [acts : Nat, losses : Nat, reboots : Nat]
           /\ bcount.losses > 0 => bcount'.losses > 0
           /\ \/ accepted /\ table' = rows /\ wire' = (wire \ {m}) \cup good
              \/ ~accepted /\ table' = table /\ wire' = (wire \ {m}) \cup bad
              \/ /\ bcount'.losses > 0 /\ wire' = (wire \ {m}) \cup bad
                 /\ table' = table \/ (accepted /\ table' = rows)
<1>1. bcount' = bcount \/ (bcount' = [bcount EXCEPT !.losses = @ + 1])
  BY DEF Served, Count
<1>2. bcount' \in [acts : Nat, losses : Nat, reboots : Nat] /\ (bcount.losses > 0 => bcount'.losses > 0)
  BY <1>1 DEF BotTypeOK
<1>3. bcount' = bcount \/ bcount'.losses > 0
  BY <1>1 DEF BotTypeOK
<1> QED
  BY <1>2, <1>3 DEF Served, Count, BotTypeOK

\* The messages that say something of a run or of a missing row.
Telling(m) == m.kind \in ClaimKinds \cup {"enqueue", "finish"}

\* A step that tells the runs nothing: the rows keep their owners, but for rows that are
\* inserted or deleted, and only a prompt without a row is said to be saved.
Quiet ==
    /\ runs' = runs
    /\ bcount' \in [acts : Nat, losses : Nat, reboots : Nat]
    /\ bcount.losses > 0 => bcount'.losses > 0
    /\ DOMAIN table' = Jobs
    /\ \A j \in Jobs : {"st", "rev", "run"} \subseteq DOMAIN table'[j]
    /\ \A j \in Jobs :
         \/ table'[j].st = table[j].st /\ table'[j].run = table[j].run
         \/ /\ table[j].st = "none" /\ table'[j].st = "queued"
            /\ \A m \in wire' : m.kind = "enqueue" => m.job # j
         \/ /\ table[j].st \in {"queued", "failed"} /\ table'[j].st = "deleted"
            /\ table'[j].run = table[j].run
    /\ \A m \in wire' : Telling(m) =>
         \/ m \in wire
         \/ \E j \in Jobs : m = [kind |-> "enqueue", job |-> j] /\ table[j].st = "none"
    /\ \A m \in wire : m.kind = "finish" => m \in wire'

\* Such a step keeps the invariant.
LEMMA QuietKeeps ==
    ASSUME BotInv, Quiet
    PROVE  BotInv'
<1> USE DEF BotInv
<1>1. BotTypeOK'
  BY DEF BotTypeOK, Quiet
<1>2. \A r \in JobRuns, kind \in {"granted", "refused"} :
         Answered(r, kind)' => Answered(r, kind)
  BY DEF Answered, Quiet, Telling, ClaimKinds
<1>3. ASSUME NEW m \in wire' PROVE Message(m)'
  <2>1. CASE m \in wire
    <3>1. Message(m)
      BY <2>1 DEF WireInv
    <3>2. m.kind = "enqueue" => m.job \in Jobs /\ table'[m.job].st = "none"
      BY <3>1 DEF Message, Quiet
    <3> QED
      BY <3>1, <3>2 DEF Message, Quiet
  <2>2. CASE m \notin wire /\ Telling(m)
    <3>1. PICK j \in Jobs : m = [kind |-> "enqueue", job |-> j] /\ table[j].st = "none"
      BY <2>2 DEF Quiet
    <3>2. table'[j].st = "none"
      BY <2>2, <3>1 DEF Quiet
    <3> QED
      BY <3>1, <3>2 DEF Message, ClaimKinds
  <2>3. CASE ~Telling(m)
    BY <2>3 DEF Message, Telling, ClaimKinds
  <2> QED
    BY <2>1, <2>2, <2>3
<1>4. OneClaimInv'
  BY DEF OneClaimInv, Quiet, Telling, ClaimKinds
<1>5. GrantedInv'
  <2> SUFFICES ASSUME NEW r \in JobRuns PROVE Granted(r)'
    BY DEF GrantedInv
  <2>1. Granted(r)
    BY DEF GrantedInv
  <2> QED
    BY <1>2, <2>1 DEF Granted, Quiet
<1>6. RunningInv'
  <2> SUFFICES ASSUME NEW j \in Jobs, table'[j].st = "running" PROVE Running(j)' /\ Owed(j)'
    BY DEF RunningInv, Running, Owed
  <2>1. table[j].st = "running" /\ table'[j].run = table[j].run
    BY DEF Quiet
  <2>2. Running(j) /\ Owed(j)
    BY DEF RunningInv
  <2>3. \A m \in wire' : m.kind = "claim" => m.run # table[j].run
    BY <2>1, <2>2 DEF Quiet, Telling, ClaimKinds, Running
  <2>4. Running(j)'
    BY <1>2, <2>1, <2>2, <2>3 DEF Running, Quiet
  <2>5. Owed(j)'
    BY <2>1, <2>2 DEF Owed, Quiet
  <2> QED
    BY <2>4, <2>5
<1> QED
  BY <1>1, <1>3, <1>4, <1>5, <1>6 DEF WireInv

\* What the page does to its copy, and the handlers of the rows, but for a claim and a
\* finish.
QuietStep ==
    \/ \E j \in Jobs : Send(j)
    \/ \E i \in DOMAIN queue : EditItem(i) \/ DeleteItem(i)
    \/ ReorderItems \/ SessionOpens
    \/ \E m \in wire :
          \/ QueueReplaced(m) \/ SendFailed(m) \/ EnqueueServed(m) \/ EditServed(m)
          \/ DeleteServed(m) \/ ReorderServed(m) \/ ListServed(m)

\* These steps tell the runs nothing.
LEMMA QuietSteps ==
    ASSUME BotInv, QuietStep
    PROVE  Quiet
<1> USE DEF BotInv
<1> DEFINE Kept(rows) == /\ DOMAIN rows = Jobs
                         /\ \A j \in Jobs : /\ {"st", "rev", "run"} \subseteq DOMAIN rows[j]
                                            /\ rows[j].run = table[j].run
                                            /\ \/ rows[j].st = table[j].st
                                               \/ /\ table[j].st \in {"queued", "failed"}
                                                  /\ rows[j].st = "deleted"
           Still(x) == ~Telling(x)
<1>1. Kept(table)
  BY DEF BotTypeOK
<1>2. ASSUME runs' = runs, bcount' = bcount \/ Count("acts"), table' = table,
             NEW x, \/ wire' = wire \cup {x}
                    \/ \E m \in wire : wire' = wire \ {m} /\ ~Telling(m),
             \/ Still(x)
             \/ \E j \in Jobs : x = [kind |-> "enqueue", job |-> j] /\ table[j].st = "none"
      PROVE  Quiet
  <2>1. bcount' \in [acts : Nat, losses : Nat, reboots : Nat] /\ bcount'.losses = bcount.losses
    BY <1>2 DEF Count, BotTypeOK
  <2> QED
    BY <1>1, <1>2, <2>1 DEF Quiet, Telling
<1>3. ASSUME NEW m \in wire, NEW accepted, NEW rows, NEW good, NEW bad,
             Served(m, accepted, rows, good, bad), accepted => Kept(rows),
             \A x \in good \cup bad : Still(x), ~Telling(m)
      PROVE  Quiet
  <2>1. /\ runs' = runs /\ bcount' \in [acts : Nat, losses : Nat, reboots : Nat]
        /\ bcount.losses > 0 => bcount'.losses > 0
        /\ table' = table \/ (accepted /\ table' = rows)
        /\ wire' = (wire \ {m}) \cup good \/ wire' = (wire \ {m}) \cup bad
    BY <1>3, ServedOutcome
  <2>2. Kept(table')
    BY <1>1, <1>3, <2>1
  <2>3. \A x \in wire' : Telling(x) => x \in wire
    BY <1>3, <2>1
  <2>4. \A x \in wire : x.kind = "finish" => x \in wire'
    BY <1>3, <2>1 DEF Telling
  <2> QED
    BY <2>1, <2>2, <2>3, <2>4 DEF Quiet
<1>4. ASSUME NEW j \in Jobs, Send(j) PROVE Quiet
  <2> DEFINE x == [kind |-> "enqueue", job |-> j]
  <2>1. table[j].st = "none"
    BY <1>4 DEF Send, NoRow
  <2>2. runs' = runs /\ bcount' = bcount /\ table' = table /\ wire' = wire \cup {x}
    BY <1>4 DEF Send
  <2>3. \E k \in Jobs : x = [kind |-> "enqueue", job |-> k] /\ table[k].st = "none"
    BY <2>1
  <2> HIDE DEF x
  <2> QED
    BY <1>2, <2>2, <2>3
<1>5. ASSUME NEW i \in DOMAIN queue, EditItem(i) \/ DeleteItem(i) PROVE Quiet
  <2>1. \E k \in {"edit", "delete"} :
           wire' = wire \cup {[kind |-> k, job |-> queue[i].id, rev |-> queue[i].rev]}
    BY <1>5 DEF EditItem, DeleteItem
  <2>2. PICK k \in {"edit", "delete"} :
           wire' = wire \cup {[kind |-> k, job |-> queue[i].id, rev |-> queue[i].rev]}
    BY <2>1
  <2> DEFINE x == [kind |-> k, job |-> queue[i].id, rev |-> queue[i].rev]
  <2>3. Still(x)
    BY DEF Telling, ClaimKinds
  <2>4. wire' = wire \cup {x}
    BY <2>2
  <2> HIDE DEF x
  <2> QED
    BY <1>2, <1>5, <2>3, <2>4 DEF EditItem, DeleteItem
<1>6. CASE ReorderItems
  <2> DEFINE x == [kind |-> "reorder", order |-> [i \in DOMAIN queue |-> Reverse(queue)[i].id]]
  <2>1. Still(x)
    BY DEF Telling, ClaimKinds
  <2>2. wire' = wire \cup {x}
    BY <1>6 DEF ReorderItems
  <2> HIDE DEF x
  <2> QED
    BY <1>2, <1>6, <2>1, <2>2 DEF ReorderItems
<1>7. CASE SessionOpens
  <2>1. Still(Refresh)
    BY DEF Refresh, Telling, ClaimKinds
  <2> QED
    BY <1>2, <1>7, <2>1 DEF SessionOpens
<1>8. ASSUME NEW m \in wire, QueueReplaced(m) \/ SendFailed(m) PROVE Quiet
  <2>1. ~Telling(m) /\ wire' = wire \ {m} /\ runs' = runs /\ bcount' = bcount /\ table' = table
    BY <1>8 DEF QueueReplaced, SendFailed, Telling, ClaimKinds
  <2>2. Still(Refresh)
    BY DEF Refresh, Telling, ClaimKinds
  <2> QED
    BY <1>2, <2>1, <2>2
<1>9. ASSUME NEW m \in wire, EnqueueServed(m) PROVE Quiet
  <2>1. PICK row, bad : /\ row.st = "queued" /\ {"st", "rev", "run"} \subseteq DOMAIN row
                        /\ bad.kind = "unsent" /\ m.kind = "enqueue"
                        /\ Served(m, TRUE, [table EXCEPT ![m.job] = row], {}, {bad})
    BY <1>9 DEF EnqueueServed
  <2>2. m.job \in Jobs /\ table[m.job].st = "none"
    BY <2>1 DEF WireInv, Message
  <2>3. /\ runs' = runs /\ bcount' \in [acts : Nat, losses : Nat, reboots : Nat]
        /\ bcount.losses > 0 => bcount'.losses > 0
        /\ table' = table \/ table' = [table EXCEPT ![m.job] = row]
        /\ wire' = (wire \ {m}) \cup {} \/ wire' = (wire \ {m}) \cup {bad}
    BY <2>1, ServedOutcome
  <2>4. Still(bad)
    BY <2>1 DEF Telling, ClaimKinds
  <2>5. \A x \in wire' : Telling(x) => x \in wire /\ x # m
    BY <2>3, <2>4
  <2>6. ASSUME NEW x \in wire', x.kind = "enqueue" PROVE x.job # m.job
    <3>1. x \in wire /\ x # m
      BY <2>5, <2>6 DEF Telling
    <3>2. /\ x = [kind |-> "enqueue", job |-> x.job] /\ m = [kind |-> "enqueue", job |-> m.job]
      BY <2>1, <2>6, <3>1 DEF WireInv, Message
    <3> QED
      BY <3>1, <3>2
  <2>7. \A x \in wire : x.kind = "finish" => x \in wire'
    BY <2>1, <2>3
  <2>8. CASE table' = table
    BY <1>1, <2>3, <2>5, <2>7, <2>8 DEF Quiet
  <2>9. CASE table' = [table EXCEPT ![m.job] = row]
    <3>1. /\ DOMAIN table' = Jobs /\ table'[m.job] = row
          /\ \A j \in Jobs \ {m.job} : table'[j] = table[j]
      BY <1>1, <2>2, <2>9
    <3> QED
      BY <1>1, <2>1, <2>2, <2>3, <2>5, <2>6, <2>7, <3>1 DEF Quiet
  <2> QED
    BY <2>3, <2>8, <2>9
<1>10. ASSUME NEW m \in wire, EditServed(m) PROVE Quiet
  <2> DEFINE rows == [table EXCEPT ![m.job].rev = @ + 1]
  <2>1. Kept(rows)
    BY <1>1 DEF BotTypeOK
  <2>2. ~Telling(m) /\ Still(Refresh)
    BY <1>10 DEF EditServed, Refresh, Telling, ClaimKinds
  <2> HIDE DEF rows
  <2>3. Served(m, Matches(m) /\ table[m.job].st = "queued", rows, {}, {Refresh})
    BY <1>10 DEF EditServed, rows
  <2> QED
    BY <1>3, <2>1, <2>2, <2>3
<1>11. ASSUME NEW m \in wire, DeleteServed(m) PROVE Quiet
  <2> DEFINE rows == [table EXCEPT ![m.job].st = "deleted", ![m.job].rev = 0]
             accepted == Matches(m) /\ table[m.job].st \in {"queued", "failed"}
  <2>1. accepted => Kept(rows)
    BY <1>1 DEF BotTypeOK
  <2>2. ~Telling(m) /\ Still(Refresh)
    BY <1>11 DEF DeleteServed, Refresh, Telling, ClaimKinds
  <2>3. Served(m, accepted, rows, {}, {Refresh})
    BY <1>11 DEF DeleteServed
  <2> HIDE DEF rows, accepted
  <2> QED
    BY <1>3, <2>1, <2>2, <2>3
<1>12. ASSUME NEW m \in wire, ReorderServed(m) PROVE Quiet
  <2> DEFINE rows == [j \in Jobs |->
                        IF j \in Queued(table)
                        THEN [table[j] EXCEPT !.pos = Place(m.order, j), !.rev = @ + 1]
                        ELSE table[j]]
             good == {[kind |-> "rows", rows |-> Ordered(rows)]}
  <2>1. Kept(rows)
    BY <1>1 DEF BotTypeOK
  <2>2. ~Telling(m)
    BY <1>12 DEF ReorderServed, Telling, ClaimKinds
  <2>3. \A x \in good \cup {Refresh} : Still(x)
    <3> HIDE DEF rows
    <3> QED
      BY DEF Refresh, Telling, ClaimKinds
  <2>4. Served(m, ToSet(m.order) = Queued(table), rows, good, {Refresh})
    BY <1>12 DEF ReorderServed
  <2> HIDE DEF rows, good
  <2> QED
    BY <1>3, <2>1, <2>2, <2>3, <2>4
<1>13. ASSUME NEW m \in wire, ListServed(m) PROVE Quiet
  <2> DEFINE good == {[kind |-> "rows", rows |-> Ordered(table)]}
  <2>1. ~Telling(m) /\ (\A x \in good \cup {} : Still(x))
    BY <1>13 DEF ListServed, Telling, ClaimKinds
  <2>2. Served(m, TRUE, table, good, {})
    BY <1>13 DEF ListServed
  <2> HIDE DEF good
  <2> QED
    BY <1>1, <1>3, <2>1, <2>2
<1> QED
  BY <1>4, <1>5, <1>6, <1>7, <1>8, <1>9, <1>10, <1>11, <1>12, <1>13 DEF QuietStep

\* A launch: the run and its claim are new.
LEMMA LaunchItemKeeps ==
    ASSUME BotInv, NEW i \in DOMAIN queue, NEW r \in JobRuns, LaunchItem(i, r)
    PROVE  BotInv'
<1> USE DEF BotInv
<1> DEFINE j == queue[i].id
           c == [kind |-> "claim", job |-> j, rev |-> queue[i].rev, run |-> r]
           run == [job |-> j, pc |-> "live", claim |-> "asked", ok |-> FALSE]
<1>1. /\ runs[r] = Unused /\ runs' = [runs EXCEPT ![r] = run] /\ wire' = wire \cup {c}
      /\ table' = table /\ bcount' = bcount
  BY DEF LaunchItem
<1>2. /\ DOMAIN run = {"job", "pc", "claim", "ok"} /\ run.job = j /\ run.pc = "live"
      /\ run.claim = "asked" /\ run.ok = FALSE
      /\ c.kind = "claim" /\ c.job = j /\ c.run = r
  OBVIOUS
<1>3. runs[r].pc = "unused" /\ runs[r].claim = "none"
  BY <1>1 DEF Unused
<1> HIDE DEF c, run, j
<1>4. /\ DOMAIN runs' = JobRuns /\ runs'[r] = run
      /\ \A q \in JobRuns \ {r} : runs'[q] = runs[q]
  BY <1>1 DEF BotTypeOK
<1>5. \A m \in wire : m.kind \in ClaimKinds \cup {"finish"} => m.run # r
  BY <1>3 DEF WireInv, Message
<1>6. BotTypeOK'
  BY <1>1, <1>2, <1>4 DEF BotTypeOK
<1>7. WireInv' /\ OneClaimInv'
  BY <1>1, <1>2, <1>4, <1>5 DEF WireInv, Message, OneClaimInv, ClaimKinds
<1>8. GrantedInv'
  BY <1>1, <1>2, <1>4, <1>5 DEF GrantedInv, Granted, Answered, ClaimKinds
<1>9. RunningInv'
  <2> SUFFICES ASSUME NEW k \in Jobs, table[k].st = "running" PROVE Running(k)' /\ Owed(k)'
    BY <1>1 DEF RunningInv, Running, Owed
  <2>1. Running(k) /\ Owed(k)
    BY DEF RunningInv
  <2>2. table[k].run \in JobRuns \ {r}
    BY <1>3, <2>1 DEF Running
  <2> QED
    BY <1>1, <1>2, <1>4, <2>1, <2>2 DEF Running, Owed, Answered
<1> QED
  BY <1>6, <1>7, <1>8, <1>9

\* The end of a run is owed to its row once the claim is granted.
LEMMA RunEndsKeeps ==
    ASSUME BotInv, NEW r \in JobRuns,
           RunIsStopped(r) \/ \E ok \in BOOLEAN : RunEnds(r, ok)
    PROVE  BotInv'
<1> USE DEF BotInv
<1> DEFINE f == [kind |-> "finish", job |-> runs'[r].job, run |-> r, ok |-> runs'[r].ok]
<1>1. /\ runs[r].pc = "live" /\ table' = table /\ bcount' = bcount
      /\ DOMAIN runs' = JobRuns /\ DOMAIN runs'[r] = {"job", "pc", "claim", "ok"}
      /\ \A q \in JobRuns \ {r} : runs'[q] = runs[q]
      /\ runs'[r].job = runs[r].job /\ runs'[r].claim = runs[r].claim
      /\ runs'[r].pc \in {"stopped", "ended"} /\ runs'[r].ok \in BOOLEAN
  BY DEF RunIsStopped, RunEnds, Live, BotTypeOK
<1>2. /\ runs'[r].pc = "stopped" => wire' = wire
      /\ runs'[r].pc = "ended" =>
           \/ runs[r].claim = "granted" /\ wire' = wire \cup {f}
           \/ runs[r].claim = "refused" /\ wire' = wire \cup {Refresh}
           \/ runs[r].claim \notin {"granted", "refused"} /\ wire' = wire
  <2>1. CASE RunIsStopped(r)
    BY <2>1 DEF RunIsStopped, BotTypeOK
  <2>2. ASSUME NEW ok \in BOOLEAN, RunEnds(r, ok)
        PROVE  /\ runs'[r].pc = "ended"
               /\ \/ runs[r].claim = "granted" /\ wire' = wire \cup {f}
                  \/ runs[r].claim = "refused" /\ wire' = wire \cup {Refresh}
                  \/ runs[r].claim \notin {"granted", "refused"} /\ wire' = wire
    <3>1. runs'[r].pc = "ended" /\ wire' = wire \cup Chained(r, runs'[r])
      BY <2>2 DEF RunEnds, BotTypeOK
    <3> QED
      BY <1>1, <3>1 DEF Chained, FinishDue
  <2> QED
    BY <2>1, <2>2
<1>3. f.kind = "finish" /\ f.run = r /\ f.job = runs'[r].job /\ f.ok = runs'[r].ok
  OBVIOUS
<1>4. Refresh.kind = "list"
  BY DEF Refresh
<1> HIDE DEF f
<1>5. /\ wire \subseteq wire'
      /\ \A m \in wire' : Telling(m) =>
           m \in wire \/ (m = f /\ runs'[r].pc = "ended" /\ runs[r].claim = "granted")
  BY <1>1, <1>2, <1>4 DEF Telling, ClaimKinds
<1>6. \A m \in wire : m.kind = "finish" => m.run # r
  BY <1>1 DEF WireInv, Message
<1>7. BotTypeOK'
  BY <1>1 DEF BotTypeOK
<1>8. WireInv'
  <2> SUFFICES ASSUME NEW m \in wire' PROVE Message(m)'
    BY DEF WireInv
  <2>1. CASE m \in wire
    BY <1>1, <1>6, <2>1 DEF WireInv, Message, ClaimKinds
  <2>2. CASE m = f /\ runs'[r].pc = "ended" /\ runs[r].claim = "granted"
    BY <1>1, <1>3, <2>2 DEF Message, ClaimKinds
  <2>3. CASE ~Telling(m)
    BY <2>3 DEF Message, Telling, ClaimKinds
  <2> QED
    BY <1>5, <2>1, <2>2, <2>3
<1>9. OneClaimInv'
  BY <1>3, <1>5 DEF OneClaimInv, Telling, ClaimKinds
<1>10. \A q \in JobRuns, kind \in {"granted", "refused"} : Answered(q, kind)' => Answered(q, kind)
  BY <1>1, <1>3, <1>5 DEF Answered, Telling, ClaimKinds
<1>11. GrantedInv'
  <2> SUFFICES ASSUME NEW q \in JobRuns PROVE Granted(q)'
    BY DEF GrantedInv
  <2>1. Granted(q)
    BY DEF GrantedInv
  <2> QED
    BY <1>1, <1>10, <2>1 DEF Granted
<1>12. RunningInv'
  <2> SUFFICES ASSUME NEW k \in Jobs, table[k].st = "running" PROVE Running(k)' /\ Owed(k)'
    BY <1>1 DEF RunningInv, Running, Owed
  <2>1. Running(k) /\ Owed(k)
    BY DEF RunningInv
  <2>2. Running(k)'
    BY <1>1, <1>3, <1>5, <1>10, <2>1 DEF Running, Telling, ClaimKinds
  <2>3. CASE table[k].run # r
    <3>1. table[k].run \in JobRuns /\ runs'[table[k].run] = runs[table[k].run]
      BY <1>1, <2>1, <2>3 DEF Running
    <3>2. \A m \in wire : m.kind = "finish" => m \in wire'
      BY <1>5
    <3> QED
      BY <1>1, <2>1, <2>2, <3>1, <3>2 DEF Owed
  <2>4. CASE table[k].run = r
    <3>1. runs[r].claim \in {"asked", "granted", "refused"}
      BY <1>1 DEF BotTypeOK
    <3>2. runs[r].claim = "refused" => bcount.losses > 0
      BY <2>1, <2>4 DEF Running, Answered
    <3>3. runs'[r].pc = "ended" /\ runs[r].claim = "granted" => f \in wire'
      BY <1>2
    <3> QED
      BY <1>1, <1>3, <2>1, <2>2, <2>4, <3>1, <3>2, <3>3 DEF Owed
  <2> QED
    BY <2>3, <2>4
<1> QED
  BY <1>7, <1>8, <1>9, <1>11, <1>12

\* The answer to a claim: a run that has ended meanwhile finishes its row.
LEMMA ClaimAnsweredKeeps ==
    ASSUME BotInv, NEW c \in wire, ClaimAnswered(c)
    PROVE  BotInv'
<1> USE DEF BotInv
<1> DEFINE r == c.run
           f == [kind |-> "finish", job |-> runs'[r].job, run |-> r, ok |-> runs'[r].ok]
<1>1. /\ c.kind \in {"granted", "refused"} /\ runs' = [runs EXCEPT ![r].claim = c.kind]
      /\ wire' = (wire \ {c}) \cup Chained(r, runs'[r]) /\ table' = table /\ bcount' = bcount
  BY DEF ClaimAnswered
<1>2. r \in JobRuns /\ runs[r].claim = "asked" /\ runs[r].pc # "unused"
  BY <1>1 DEF WireInv, Message, ClaimKinds, BotTypeOK
<1>3. f.kind = "finish" /\ f.run = r /\ f.job = runs'[r].job /\ f.ok = runs'[r].ok
  OBVIOUS
<1> HIDE DEF r
<1>4. /\ DOMAIN runs' = JobRuns /\ DOMAIN runs'[r] = {"job", "pc", "claim", "ok"}
      /\ \A q \in JobRuns \ {r} : runs'[q] = runs[q]
      /\ runs'[r].job = runs[r].job /\ runs'[r].claim = c.kind
      /\ runs'[r].pc = runs[r].pc /\ runs'[r].ok = runs[r].ok
  BY <1>1, <1>2 DEF BotTypeOK
<1>5. \/ wire' = wire \ {c} /\ runs[r].pc # "ended"
      \/ wire' = (wire \ {c}) \cup {f} /\ runs[r].pc = "ended" /\ c.kind = "granted"
      \/ wire' = (wire \ {c}) \cup {Refresh} /\ runs[r].pc = "ended" /\ c.kind = "refused"
  BY <1>1, <1>4 DEF Chained, FinishDue
<1> HIDE DEF f
<1>6. Refresh.kind = "list"
  BY DEF Refresh
<1>7. /\ \A m \in wire' : Telling(m) =>
           \/ m \in wire /\ m # c
           \/ m = f /\ runs'[r].pc = "ended" /\ runs'[r].claim = "granted"
      /\ \A m \in wire : m # c => m \in wire'
  BY <1>4, <1>5, <1>6 DEF Telling, ClaimKinds
<1>8. \A m \in wire : m # c /\ m.kind \in ClaimKinds => m.run # r
  BY <1>1 DEF OneClaimInv, ClaimKinds, r
<1>9. \A m \in wire : m.kind = "finish" => m.run # r
  BY <1>2 DEF WireInv, Message
<1>10. BotTypeOK'
  BY <1>1, <1>2, <1>4 DEF BotTypeOK
<1>11. WireInv'
  <2> SUFFICES ASSUME NEW m \in wire' PROVE Message(m)'
    BY DEF WireInv
  <2>1. CASE m \in wire /\ m # c
    BY <1>1, <1>4, <1>8, <1>9, <2>1 DEF WireInv, Message
  <2>2. CASE m = f /\ runs'[r].pc = "ended" /\ runs'[r].claim = "granted"
    BY <1>2, <1>3, <2>2 DEF Message, ClaimKinds
  <2>3. CASE ~Telling(m)
    BY <2>3 DEF Message, Telling, ClaimKinds
  <2> QED
    BY <1>7, <2>1, <2>2, <2>3
<1>12. OneClaimInv'
  BY <1>3, <1>7 DEF OneClaimInv, Telling, ClaimKinds
<1>13. \A q \in JobRuns, kind \in {"granted", "refused"} : Answered(q, kind)' => Answered(q, kind)
  BY <1>1, <1>3, <1>4, <1>7 DEF Answered, Telling, ClaimKinds, r
<1>14. GrantedInv'
  <2> SUFFICES ASSUME NEW q \in JobRuns PROVE Granted(q)'
    BY DEF GrantedInv
  <2>1. Granted(q)
    BY DEF GrantedInv
  <2>2. /\ runs'[q].job = runs[q].job /\ runs'[q].pc = runs[q].pc /\ runs'[q].ok = runs[q].ok
    BY <1>4
  <2> QED
    BY <1>1, <1>13, <2>1, <2>2 DEF Granted
<1>15. RunningInv'
  <2> SUFFICES ASSUME NEW k \in Jobs, table[k].st = "running" PROVE Running(k)' /\ Owed(k)'
    BY <1>1 DEF RunningInv, Running, Owed
  <2>1. Running(k) /\ Owed(k)
    BY DEF RunningInv
  <2>2. Running(k)'
    BY <1>1, <1>3, <1>4, <1>7, <1>13, <2>1 DEF Running, Telling, ClaimKinds
  <2>3. CASE table[k].run # r
    <3>1. \A m \in wire : m.kind = "finish" => m \in wire'
      BY <1>1, <1>7
    <3>2. table[k].run \in JobRuns /\ runs'[table[k].run] = runs[table[k].run]
      BY <1>4, <2>1, <2>3 DEF Running
    <3> QED
      BY <1>1, <2>1, <2>2, <3>1, <3>2 DEF Owed
  <2>4. CASE table[k].run = r
    <3>1. c.kind = "refused" => bcount.losses > 0
      BY <2>1, <2>4 DEF Running, Answered, r
    <3>2. runs[r].pc \in {"live", "stopped", "ended"}
      BY <1>2 DEF BotTypeOK
    <3>3. c.kind = "granted" /\ runs[r].pc = "ended" => f \in wire'
      BY <1>5
    <3> QED
      BY <1>1, <1>3, <1>4, <2>1, <2>2, <2>4, <3>1, <3>2, <3>3 DEF Owed
  <2> QED
    BY <2>3, <2>4
<1> QED
  BY <1>10, <1>11, <1>12, <1>14, <1>15

\* A claim is served once: the row had no owner, and whoever claims it is still waiting.
LEMMA ClaimServedKeeps ==
    ASSUME BotInv, NEW c \in wire, ClaimServed(c)
    PROVE  BotInv'
<1> USE DEF BotInv
<1> DEFINE r == c.run
           j == c.job
           rows == [table EXCEPT ![j].st = "running", ![j].run = r, ![j].rev = @ + 1]
           yes == [kind |-> "granted", run |-> r]
           no == [kind |-> "refused", run |-> r]
           accepted == MayClaim(c)
<1>1. c.kind = "claim" /\ Served(c, accepted, rows, {yes}, {no})
  BY DEF ClaimServed
<1>2. r \in JobRuns /\ runs[r].claim = "asked" /\ runs[r].job = j
  BY <1>1 DEF WireInv, Message, ClaimKinds
<1>3. accepted => table[j].st = "queued"
  BY DEF MayClaim
<1>4. /\ yes.kind = "granted" /\ yes.run = r /\ no.kind = "refused" /\ no.run = r
  OBVIOUS
<1>5. /\ DOMAIN rows = Jobs /\ \A k \in Jobs : {"st", "rev", "run"} \subseteq DOMAIN rows[k]
      /\ j \in Jobs => rows[j].st = "running" /\ rows[j].run = r
      /\ \A k \in Jobs : k # j => rows[k] = table[k]
  BY DEF BotTypeOK
<1> HIDE DEF rows, yes, no, accepted
<1>6. /\ runs' = runs /\ bcount' \in [acts : Nat, losses : Nat, reboots : Nat]
      /\ bcount.losses > 0 => bcount'.losses > 0
      /\ \/ accepted /\ table' = rows /\ wire' = (wire \ {c}) \cup {yes}
         \/ ~accepted /\ table' = table /\ wire' = (wire \ {c}) \cup {no}
         \/ /\ bcount'.losses > 0 /\ wire' = (wire \ {c}) \cup {no}
            /\ table' = table \/ (accepted /\ table' = rows)
  BY <1>1, ServedOutcome
<1> HIDE DEF r, j
<1>7. \A m \in wire : m # c /\ m.kind \in ClaimKinds => m.run # r
  BY <1>1 DEF OneClaimInv, ClaimKinds, r
<1>8. /\ \A m \in wire' : (m \in wire /\ m # c) \/ m = yes \/ m = no
      /\ \A m \in wire : m # c => m \in wire'
      /\ yes \in wire' => accepted /\ table' = rows /\ no \notin wire'
  <2>1. yes # no /\ yes \notin wire \ {c} /\ no \notin wire \ {c}
    BY <1>4, <1>7 DEF ClaimKinds
  <2> QED
    BY <1>6, <2>1
<1>9. BotTypeOK'
  BY <1>5, <1>6 DEF BotTypeOK
<1>10. WireInv'
  <2> SUFFICES ASSUME NEW m \in wire' PROVE Message(m)'
    BY DEF WireInv
  <2>1. CASE m \in wire /\ m # c
    <3>1. Message(m)
      BY <2>1 DEF WireInv
    <3>2. m.kind = "enqueue" => m.job \in Jobs /\ table'[m.job].st = "none"
      BY <1>3, <1>5, <1>6, <3>1 DEF Message
    <3> QED
      BY <1>6, <3>1, <3>2 DEF Message, ClaimKinds
  <2>2. CASE m = yes \/ m = no
    BY <1>2, <1>4, <1>6, <2>2 DEF Message, ClaimKinds
  <2> QED
    BY <1>8, <2>1, <2>2
<1>11. OneClaimInv'
  BY <1>4, <1>7, <1>8 DEF OneClaimInv, ClaimKinds
<1>12. \A q \in JobRuns \ {r}, kind \in {"granted", "refused"} :
          Answered(q, kind)' => Answered(q, kind)
  BY <1>4, <1>6, <1>8 DEF Answered, ClaimKinds
<1>13. /\ Answered(r, "granted")' => accepted /\ table' = rows
       /\ Answered(r, "refused")' => no \in wire'
  BY <1>2, <1>4, <1>6, <1>7, <1>8 DEF Answered, ClaimKinds
<1>14. GrantedInv'
  <2> SUFFICES ASSUME NEW q \in JobRuns PROVE Granted(q)'
    BY DEF GrantedInv
  <2>1. CASE q = r
    BY <1>2, <1>5, <1>6, <1>13, <2>1 DEF Granted
  <2>2. CASE q # r
    <3>1. Granted(q)
      BY DEF GrantedInv
    <3>2. Answered(q, "granted")' => Answered(q, "granted")
      BY <1>12, <2>2
    <3>3. runs[q].job \in Jobs /\ Answered(q, "granted") => table'[runs[q].job] = table[runs[q].job]
      BY <1>3, <1>5, <1>6, <3>1 DEF Granted
    <3> QED
      BY <1>6, <3>1, <3>2, <3>3 DEF Granted
  <2> QED
    BY <2>1, <2>2
<1>15. RunningInv'
  <2> SUFFICES ASSUME NEW k \in Jobs, table'[k].st = "running" PROVE Running(k)' /\ Owed(k)'
    BY DEF RunningInv, Running, Owed
  <2>1. CASE table'[k] = table[k]
    <3>1. Running(k) /\ Owed(k) /\ table[k].st = "running"
      BY <2>1 DEF RunningInv
    <3>2. table[k].run # r /\ table[k].run \in JobRuns
      BY <1>1, <3>1 DEF Running, r
    <3>3. Running(k)'
      BY <1>4, <1>6, <1>8, <1>12, <2>1, <3>1, <3>2 DEF Running
    <3>4. \A m \in wire : m.kind = "finish" => m \in wire'
      BY <1>1, <1>8
    <3>5. Owed(k)'
      BY <1>6, <2>1, <3>1, <3>4 DEF Owed
    <3> QED
      BY <3>3, <3>5
  <2>2. CASE table'[k] # table[k]
    <3>1. k = j /\ table' = rows /\ table'[k].run = r
      BY <1>5, <1>6, <2>2
    <3>2. Running(k)'
      <4>1. no \in wire' => bcount'.losses > 0
        <5>1. yes # no /\ no \notin wire \ {c}
          BY <1>4, <1>7 DEF ClaimKinds
        <5> QED
          BY <1>6, <2>2, <3>1, <5>1
      <4>2. \A m \in wire' : m.kind = "claim" => m.run # r
        BY <1>4, <1>7, <1>8 DEF ClaimKinds
      <4>3. runs[r].pc # "unused"
        BY <1>2 DEF BotTypeOK
      <4> QED
        BY <1>2, <1>6, <1>13, <3>1, <4>1, <4>2, <4>3 DEF Running
    <3>3. Owed(k)'
      BY <1>2, <1>6, <3>1 DEF Owed
    <3> QED
      BY <3>2, <3>3
  <2> QED
    BY <2>1, <2>2
<1> QED
  BY <1>9, <1>10, <1>11, <1>14, <1>15

\* A finish settles the row its run owns, as the run has ended.
LEMMA FinishServedKeeps ==
    ASSUME BotInv, NEW f \in wire, FinishServed(f)
    PROVE  BotInv'
<1> USE DEF BotInv
<1> DEFINE r == f.run
           j == f.job
           rows == [table EXCEPT ![j].st = IF f.ok THEN "completed" ELSE "failed",
                                 ![j].rev = @ + 1]
           accepted == table[j].run = r /\ table[j].st = "running"
<1>1. f.kind = "finish" /\ Served(f, accepted, rows, {Refresh}, {Refresh})
  BY DEF FinishServed
<1>2. /\ r \in JobRuns /\ runs[r].pc = "ended" /\ runs[r].claim = "granted"
      /\ j = runs[r].job /\ f.ok = runs[r].ok
  BY <1>1 DEF WireInv, Message
<1>3. /\ DOMAIN rows = Jobs /\ \A k \in Jobs : {"st", "rev", "run"} \subseteq DOMAIN rows[k]
      /\ j \in Jobs => /\ rows[j].run = table[j].run
                       /\ rows[j].st = IF f.ok THEN "completed" ELSE "failed"
      /\ \A k \in Jobs : k # j => rows[k] = table[k]
  BY DEF BotTypeOK
<1> HIDE DEF rows
<1>4. /\ runs' = runs /\ bcount' \in [acts : Nat, losses : Nat, reboots : Nat]
      /\ bcount.losses > 0 => bcount'.losses > 0
      /\ wire' = (wire \ {f}) \cup {Refresh}
      /\ \/ accepted /\ table' = rows
         \/ ~accepted /\ table' = table
         \/ bcount'.losses > 0 /\ table' = table
  BY <1>1, ServedOutcome
<1>5. Refresh.kind = "list"
  BY DEF Refresh
<1> HIDE DEF r, j
<1>6. BotTypeOK'
  BY <1>3, <1>4 DEF BotTypeOK
<1>7. WireInv'
  <2> SUFFICES ASSUME NEW m \in wire' PROVE Message(m)'
    BY DEF WireInv
  <2>1. CASE m = Refresh
    BY <1>5, <2>1 DEF Message, ClaimKinds
  <2>2. CASE m # Refresh
    <3>1. Message(m)
      BY <1>4, <2>2 DEF WireInv
    <3>2. m.kind = "enqueue" => m.job \in Jobs /\ table'[m.job].st = "none"
      BY <1>3, <1>4, <3>1 DEF Message
    <3> QED
      BY <1>4, <3>1, <3>2 DEF Message, ClaimKinds
  <2> QED
    BY <2>1, <2>2
<1>8. OneClaimInv'
  BY <1>4, <1>5 DEF OneClaimInv, ClaimKinds
<1>9. \A q \in JobRuns, kind \in {"granted", "refused"} : Answered(q, kind)' => Answered(q, kind)
  BY <1>4, <1>5 DEF Answered
<1>10. GrantedInv'
  <2> SUFFICES ASSUME NEW q \in JobRuns PROVE Granted(q)'
    BY DEF GrantedInv
  <2>1. Granted(q)
    BY DEF GrantedInv
  <2>2. Answered(q, "granted")' => Answered(q, "granted")
    BY <1>9
  <2>3. CASE table' = table
    BY <1>4, <2>1, <2>2, <2>3 DEF Granted
  <2>4. CASE accepted /\ table' = rows
    BY <1>2, <1>3, <1>4, <2>1, <2>2, <2>4 DEF Granted
  <2> QED
    BY <1>4, <2>3, <2>4
<1>11. RunningInv'
  <2> SUFFICES ASSUME NEW k \in Jobs, table'[k].st = "running" PROVE Running(k)' /\ Owed(k)'
    BY DEF RunningInv, Running, Owed
  <2>1. table'[k] = table[k]
    BY <1>3, <1>4
  <2>2. Running(k) /\ Owed(k)
    BY DEF RunningInv
  <2>3. Running(k)'
    <3>1. \A m \in wire' : m.kind = "claim" => m \in wire
      BY <1>4, <1>5
    <3> QED
      BY <1>4, <1>9, <2>1, <2>2, <3>1 DEF Running
  <2>4. Owed(k)'
    <3>1. CASE table[k].run = r
      <4>1. runs[r].job = k
        BY <2>1, <2>2, <3>1 DEF Owed
      <4>2. j = k /\ accepted
        BY <1>2, <2>1, <3>1, <4>1
      <4>3. table' # rows
        BY <1>3, <4>2
      <4>4. bcount'.losses > 0
        BY <1>4, <4>2, <4>3
      <4> QED
        BY <1>4, <2>1, <3>1, <4>1, <4>4 DEF Owed
    <3>2. CASE table[k].run # r
      <4>1. \A m \in wire : m.kind = "finish" /\ m.run = table[k].run => m \in wire'
        BY <1>4, <3>2 DEF r
      <4> QED
        BY <1>4, <2>1, <2>2, <3>2, <4>1 DEF Owed
    <3> QED
      BY <3>1, <3>2
  <2> QED
    BY <2>3, <2>4
<1> QED
  BY <1>6, <1>7, <1>8, <1>10, <1>11

\* A restart: no run is there and no row is running.
LEMMA RebootKeeps ==
    ASSUME BotTypeOK, Reboot
    PROVE  BotInv'
<1>1. /\ table' = [j \in Jobs |-> Requeued(table[j])] /\ wire' = {Refresh}
      /\ runs' = [r \in JobRuns |-> Unused] /\ bcount' = [bcount EXCEPT !.reboots = @ + 1]
  BY DEF Reboot, Count
<1>2. \A j \in Jobs : {"st", "rev", "run"} \subseteq DOMAIN table'[j] /\ table'[j].st # "running"
  BY <1>1 DEF Requeued, BotTypeOK
<1>3. Refresh.kind = "list"
  BY DEF Refresh
<1>4. BotTypeOK'
  <2>1. bcount' \in [acts : Nat, losses : Nat, reboots : Nat]
    BY <1>1 DEF BotTypeOK
  <2>2. /\ DOMAIN Unused = {"job", "pc", "claim", "ok"} /\ Unused.pc = "unused"
        /\ Unused.claim = "none" /\ Unused.ok = FALSE
    BY DEF Unused
  <2> QED
    BY <1>1, <1>2, <2>1, <2>2 DEF BotTypeOK
<1>5. WireInv' /\ OneClaimInv' /\ GrantedInv'
  BY <1>1, <1>3 DEF WireInv, Message, OneClaimInv, ClaimKinds, GrantedInv, Granted, Answered, Unused
<1>6. RunningInv'
  BY <1>2 DEF RunningInv, Running, Owed
<1> QED
  BY <1>4, <1>5, <1>6 DEF BotInv

\* Every step of the page, the runs and the handlers keeps it.
LEMMA BotStep == BotInv /\ [BotNext]_botVars => BotInv'
<1> SUFFICES ASSUME BotInv, [BotNext]_botVars PROVE BotInv'
  OBVIOUS
<1>1. CASE QuietStep
  BY <1>1, QuietSteps, QuietKeeps
<1>2. ASSUME NEW i \in DOMAIN queue, NEW r \in JobRuns, LaunchItem(i, r) PROVE BotInv'
  BY <1>2, LaunchItemKeeps
<1>3. ASSUME NEW r \in JobRuns, RunIsStopped(r) \/ \E ok \in BOOLEAN : RunEnds(r, ok)
      PROVE  BotInv'
  BY <1>3, RunEndsKeeps
<1>4. ASSUME NEW m \in wire, ClaimAnswered(m) PROVE BotInv'
  BY <1>4, ClaimAnsweredKeeps
<1>5. ASSUME NEW m \in wire, ClaimServed(m) PROVE BotInv'
  BY <1>5, ClaimServedKeeps
<1>6. ASSUME NEW m \in wire, FinishServed(m) PROVE BotInv'
  BY <1>6, FinishServedKeeps
<1>7. CASE Reboot
  BY <1>7, RebootKeeps DEF BotInv
<1>8. CASE UNCHANGED botVars
  BY <1>8 DEF botVars, BotInv, BotTypeOK, WireInv, Message, OneClaimInv, GrantedInv, Granted,
              Answered, RunningInv, Running, Owed
<1> QED
  BY <1>1, <1>2, <1>3, <1>4, <1>5, <1>6, <1>7, <1>8 DEF BotNext, QuietStep

\* No prompt of a bot is stranded in a row that says running, unless the application lost a
\* message, and no two runs own one job: whatever the page edits, however its requests are
\* reordered, and however often the application restarts (claim_bot_job, finish_bot_job).
THEOREM BotJobsAreSound == BotSpec => []BotQueueIsSound
<1>1. BotInit => BotInv
  <2> SUFFICES ASSUME BotInit PROVE BotInv
    OBVIOUS
  <2>1. /\ DOMAIN Unused = {"job", "pc", "claim", "ok"} /\ Unused.pc = "unused"
        /\ Unused.claim = "none" /\ Unused.ok = FALSE
    BY DEF Unused
  <2>2. {"st", "rev", "run"} \subseteq DOMAIN NoRow /\ NoRow.st = "none"
    BY DEF NoRow
  <2>3. BotTypeOK
    BY <2>1, <2>2 DEF BotInit, BotTypeOK
  <2>4. WireInv /\ OneClaimInv /\ GrantedInv /\ RunningInv
    BY <2>1, <2>2 DEF BotInit, WireInv, OneClaimInv, GrantedInv, Granted, Answered, RunningInv,
                      Running, Owed
  <2> QED
    BY <2>3, <2>4 DEF BotInv
<1>2. BotInv /\ [BotNext]_botVars => BotInv'
  BY BotStep
<1>3. BotInv => BotQueueIsSound
  <2> SUFFICES ASSUME BotInv PROVE BotQueueIsSound
    OBVIOUS
  <2> USE DEF BotInv
  <2>1. NoJobIsStranded
    BY DEF RunningInv, Running, Owed, NoJobIsStranded
  <2>2. ASSUME NEW j \in Jobs
        PROVE  LET owners == {r \in JobRuns : runs[r].job = j /\ runs[r].claim = "granted"} IN
               /\ Cardinality(owners) <= 1
               /\ table[j].st = "completed" /\ owners # {} =>
                     \A r \in owners : runs[r].ok /\ table[j].run = r
    <3> DEFINE owners == {r \in JobRuns : runs[r].job = j /\ runs[r].claim = "granted"}
    <3>1. \A r \in owners : table[j].run = r /\ (table[j].st = "completed" => runs[r].ok)
      BY DEF GrantedInv, Granted, Answered
    <3> HIDE DEF owners
    <3>2. owners = {} \/ owners = {table[j].run}
      BY <3>1
    <3>3. Cardinality({}) = 0 /\ Cardinality({table[j].run}) = 1
      BY FS_EmptySet, FS_Singleton
    <3>4. Cardinality(owners) <= 1
      BY <3>2, <3>3
    <3> QED
      BY <3>1, <3>4 DEF owners
  <2> QED
    BY <2>1, <2>2 DEF ClaimsAreExclusive, BotQueueIsSound
<1> QED
  BY <1>1, <1>2, <1>3, PTL DEF BotSpec
=============================================================================
