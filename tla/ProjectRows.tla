---------------------------- MODULE ProjectRows ----------------------------
(***************************************************************************)
(* The rows a session hangs on: projects, bots, sessions, and the          *)
(* directory each session works in.  Creating a session reads its bot,     *)
(* makes the directory and inserts the row in three places; anyone may     *)
(* edit or delete the bot and the project in between, the process may      *)
(* stop, and the data directory may be copied elsewhere while it is down.  *)
(***************************************************************************)
EXTENDS Integers, FiniteSets

CONSTANTS Rooms,        \* session ids, each used once
          Helpers,      \* bot ids
          Shelves,      \* project ids other than the default's
          DefaultShelf, \* proj_default
          NoShelf, NoHelper,
          Editors,      \* forms on which a bot is edited
          Homes,        \* the places the data directory can be in
          OUTAGES       \* bound on restarts

VARIABLES shelf,    \* per project, its row
          helper,   \* per bot, its row
          room,     \* per session, its row
          disk,     \* the workspace directories: <<home, session>>
          home,     \* where the data directory is now
          asked,    \* per session id, the request that creates it
          going,    \* sessions whose row is deleted and directory not yet
          form,     \* per editor, the bot it shows and the revision it read
          outages

rowVars == <<shelf, helper, room, disk, home, asked, going, form, outages>>

AllShelves == Shelves \cup {DefaultShelf}

\* A NULL key is neither a project nor a bot, and the data directory is somewhere.
ASSUME RowAssumption == NoShelf \notin AllShelves /\ NoHelper \notin Helpers /\ Homes # {}

NoAsk == [pc |-> "unused", shelf |-> NoShelf, helper |-> NoHelper]
Blank == [pc |-> "blank", helper |-> NoHelper, rev |-> 0]

RowInit ==
    /\ shelf = [p \in AllShelves |-> [there |-> p = DefaultShelf, archived |-> FALSE]]
    /\ helper = [b \in Helpers |-> [there |-> FALSE, on |-> FALSE, shelf |-> NoShelf, rev |-> 0]]
    /\ room = [s \in Rooms |-> [there |-> FALSE, shelf |-> NoShelf, helper |-> NoHelper,
                                path |-> CHOOSE h \in Homes : TRUE]]
    /\ disk = {} /\ home = CHOOSE h \in Homes : TRUE
    /\ asked = [s \in Rooms |-> NoAsk]
    /\ going = {}
    /\ form = [e \in Editors |-> Blank]
    /\ outages = 0

Stored(p) == p # NoShelf /\ shelf[p].there
\* A foreign key is NULL or names a row.
ShelfKey(p) == p # NoShelf => shelf[p].there
HelperKey(b) == b # NoHelper => helper[b].there

-----------------------------------------------------------------------------
(* Projects. *)

CreateProject(p) ==
    /\ p \in Shelves /\ ~shelf[p].there
    /\ \A s \in Rooms : asked[s].shelf # p       \* ids are never used again
    /\ shelf' = [shelf EXCEPT ![p] = [there |-> TRUE, archived |-> FALSE]]
    /\ UNCHANGED <<helper, room, disk, home, asked, going, form, outages>>

SetArchived(p, archived) ==
    /\ p # DefaultShelf /\ shelf[p].there
    /\ shelf' = [shelf EXCEPT ![p].archived = archived]
    /\ UNCHANGED <<helper, room, disk, home, asked, going, form, outages>>

RoomsOf(p) == {s \in Rooms : room[s].there /\ room[s].shelf = p}

\* One transaction moves the sessions to the default project; the bots of the
\* project are left to ON DELETE SET NULL.
RehomedToNull(p) == [s \in Rooms |-> IF s \in RoomsOf(p) THEN [room[s] EXCEPT !.shelf = NoShelf]
                                                         ELSE room[s]]
Rehomed(p) == [s \in Rooms |-> IF s \in RoomsOf(p) THEN [room[s] EXCEPT !.shelf = DefaultShelf]
                                                   ELSE room[s]]

DeleteProject(p, force) ==
    /\ p # DefaultShelf /\ shelf[p].there
    /\ RoomsOf(p) = {} \/ force
    /\ room' = Rehomed(p)
    /\ shelf' = [shelf EXCEPT ![p].there = FALSE, ![p].archived = FALSE]
    /\ helper' = [b \in Helpers |-> IF helper[b].shelf = p
                                    THEN [helper[b] EXCEPT !.shelf = NoShelf] ELSE helper[b]]
    /\ UNCHANGED <<disk, home, asked, going, form, outages>>

-----------------------------------------------------------------------------
(* Bots: a form carries the revision it was filled in from. *)

CreateBot(b, p) ==
    /\ ~helper[b].there /\ helper[b].rev = 0     \* ids are never used again
    /\ Stored(p)
    /\ helper' = [helper EXCEPT ![b] = [there |-> TRUE, on |-> TRUE, shelf |-> p, rev |-> 1]]
    /\ UNCHANGED <<shelf, room, disk, home, asked, going, form, outages>>

OpenForm(e, b) ==
    /\ helper[b].there /\ form[e] = Blank
    /\ form' = [form EXCEPT ![e] = [pc |-> "open", helper |-> b, rev |-> helper[b].rev]]
    /\ UNCHANGED <<shelf, helper, room, disk, home, asked, going, outages>>

MayUpdateAny(f) == helper[f.helper].there
MayUpdate(f) == helper[f.helper].there /\ helper[f.helper].rev = f.rev

UpdateBot(e, on, p) ==
    LET f == form[e] IN
    /\ f.pc = "open"
    /\ \/ /\ MayUpdate(f) /\ ShelfKey(p)
          /\ helper' = [helper EXCEPT ![f.helper].on = on, ![f.helper].shelf = p,
                                     ![f.helper].rev = @ + 1]
          /\ form' = [form EXCEPT ![e].pc = "saved"]
       \/ /\ ~(MayUpdate(f) /\ ShelfKey(p))
          /\ form' = [form EXCEPT ![e].pc = "refused"]
          /\ UNCHANGED helper
    /\ UNCHANGED <<shelf, room, disk, home, asked, going, outages>>

\* The sessions of the bot stay, with bot_id set to NULL.
DeleteBot(b) ==
    /\ helper[b].there
    /\ helper' = [helper EXCEPT ![b].there = FALSE]
    /\ room' = [s \in Rooms |-> IF room[s].helper = b
                                THEN [room[s] EXCEPT !.helper = NoHelper] ELSE room[s]]
    /\ UNCHANGED <<shelf, disk, home, asked, going, form, outages>>

-----------------------------------------------------------------------------
(* Sessions. *)

\* The project a session gets: the one asked for, the bot's, the default.
ChosenOrNull(p, b) ==
    IF p # NoShelf THEN p ELSE IF b # NoHelper THEN helper[b].shelf ELSE DefaultShelf
Chosen(p, b) ==
    IF p # NoShelf THEN p
    ELSE IF b # NoHelper /\ helper[b].shelf # NoShelf THEN helper[b].shelf
    ELSE DefaultShelf

\* create_session up to the insert: the bot is read, the directory made.
BeginCreate(s, p, b) ==
    /\ asked[s] = NoAsk
    /\ b # NoHelper => helper[b].there /\ helper[b].on
    /\ disk' = disk \cup {<<home, s>>}
    /\ asked' = [asked EXCEPT ![s] = [pc |-> "made", shelf |-> Chosen(p, b), helper |-> b]]
    /\ UNCHANGED <<shelf, helper, room, home, going, form, outages>>

\* The keys are checked again by the insert; a refusal leaves the directory.
InsertRow(s) ==
    LET a == asked[s] IN
    /\ a.pc = "made"
    /\ \/ /\ ShelfKey(a.shelf) /\ HelperKey(a.helper)
          /\ room' = [room EXCEPT ![s] = [there |-> TRUE, shelf |-> a.shelf,
                                          helper |-> a.helper, path |-> home]]
          /\ asked' = [asked EXCEPT ![s].pc = "created"]
       \/ /\ ~(ShelfKey(a.shelf) /\ HelperKey(a.helper))
          /\ asked' = [asked EXCEPT ![s].pc = "refused"]
          /\ UNCHANGED room
    /\ UNCHANGED <<shelf, helper, disk, home, going, form, outages>>

Located(s) == <<room[s].path, s>> \in disk

\* resolve_session_workspace, when a session is read from the database: its
\* path is kept while it exists, else only the data directory's own copy will do.
MayRebase(s) == ~Located(s) /\ <<home, s>> \in disk

ResolveWorkspace(s) ==
    /\ room[s].there /\ MayRebase(s)
    /\ room' = [room EXCEPT ![s].path = home]
    /\ UNCHANGED <<shelf, helper, disk, home, asked, going, form, outages>>

\* delete_session: the row first, and with it the way to the directory.
DeleteFilesFirst(s) ==
    /\ disk' = disk \ {<<home, s>>} /\ UNCHANGED room
DeleteRowFirst(s) ==
    /\ room' = [room EXCEPT ![s].there = FALSE] /\ UNCHANGED disk

DeleteRow(s) ==
    /\ room[s].there /\ Located(s) /\ s \notin going
    /\ DeleteRowFirst(s)
    /\ going' = going \cup {s}
    /\ UNCHANGED <<shelf, helper, home, asked, form, outages>>

DeleteFiles(s) ==
    /\ s \in going
    /\ disk' = disk \ {<<home, s>>}
    /\ going' = going \ {s}
    /\ UNCHANGED <<shelf, helper, room, home, asked, form, outages>>

-----------------------------------------------------------------------------
\* The process stops, and before it starts again the data directory may have
\* been moved (kept = FALSE) or copied (kept = TRUE) to another place.
Outage(h, kept) ==
    /\ outages < OUTAGES /\ outages' = outages + 1
    /\ home' = h
    /\ disk' = {<<h, d[2]>> : d \in {x \in disk : x[1] = home}}
                 \cup (IF kept THEN disk ELSE {d \in disk : d[1] # home})
    /\ asked' = [s \in Rooms |-> IF asked[s].pc = "made"
                                 THEN [asked[s] EXCEPT !.pc = "refused"] ELSE asked[s]]
    /\ going' = {}
    /\ UNCHANGED <<shelf, helper, room, form>>

RowNext ==
    \/ \E p \in Shelves : \/ CreateProject(p)
                          \/ \E yes \in BOOLEAN : SetArchived(p, yes) \/ DeleteProject(p, yes)
    \/ \E b \in Helpers : \/ DeleteBot(b)
                          \/ \E p \in AllShelves : CreateBot(b, p)
                          \/ \E e \in Editors : OpenForm(e, b)
    \/ \E e \in Editors, on \in BOOLEAN, p \in AllShelves \cup {NoShelf} : UpdateBot(e, on, p)
    \/ \E s \in Rooms : \/ InsertRow(s) \/ ResolveWorkspace(s)
                        \/ DeleteRow(s) \/ DeleteFiles(s)
                        \/ \E p \in AllShelves \cup {NoShelf}, b \in Helpers \cup {NoHelper} :
                              BeginCreate(s, p, b)
    \/ \E h \in Homes, kept \in BOOLEAN : Outage(h, kept)

RowSpec == RowInit /\ [][RowNext]_rowVars

-----------------------------------------------------------------------------
\* Every session belongs to a project that can be listed again: deleting one
\* never strands its sessions, nor those whose creation had already chosen it
\* (repo.rs:294-296, schema.rs:84).
SessionsHaveAProject ==
    \A s \in Rooms : room[s].there => Stored(room[s].shelf) /\ HelperKey(room[s].helper)

\* A session that is listed can be opened: its files are where its row says, or
\* where the data directory is now (workspace_resolution.rs:10-15).
SessionsHaveTheirFiles ==
    \A s \in Rooms : room[s].there => Located(s) \/ <<home, s>> \in disk

\* Of the forms filled in from one revision of a bot at most one is saved.
NoBotEditIsOverwritten ==
    \A e, f \in Editors :
        e # f /\ form[e].pc = "saved" /\ form[f].pc = "saved" /\ form[e].helper = form[f].helper
            => form[e].rev # form[f].rev

\* A session keeps its project and its files, a bot its edits (repo.rs, sessions.rs).
RowsAreSound == SessionsHaveAProject /\ SessionsHaveTheirFiles /\ NoBotEditIsOverwritten
=============================================================================
