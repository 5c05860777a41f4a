---------------------------- MODULE NotesPlanes ----------------------------
(***************************************************************************)
(* The notes tools of adapters/notes.py over two planes: NoteStore.sqlite  *)
(* read only, and Notes.app through AppleScript when the store is not      *)
(* readable or its schema has moved (read_via_sqlite).                     *)
(*                                                                         *)
(* A note's id is the store's UUID and a primary key; keys start again in  *)
(* another store, so a stale id can have the key of a note that is there.  *)
(* What Notes shows reaches the file a little later.  Text is told apart   *)
(* by whether it holds the word that is searched.                          *)
(***************************************************************************)
EXTENDS Naturals, FiniteSets

CONSTANTS
    Clients,        \* calls of the notes tools
    Pks,            \* primary keys, numbers: a newer note has a higher one
    Uuids,          \* the stores there may have been
    Kinds,          \* the notes there may be at the start, and after an edit
    Absent,         \* no note, no text, nothing asked
    MaxNotes,       \* MAX_NOTES
    MaxByOthers     \* bound: changes by the user, iCloud and other calls

VARIABLES
    store,          \* the UUID of the store that Notes uses
    app,            \* what Notes shows under each key
    disk,           \* per store, the rows of its file
    shut,           \* the reads whose fingerprint the store no longer has: all without access
    byOthers,
    client,         \* per call: what was asked and how far it is
    told,           \* per call: what it has gathered, and at its end answers
    had,            \* history: what was true at some moment of the call
    unmoved         \* history: keys whose note was the same in app and file throughout

notesVars == <<store, app, disk, shut, byOthers, client, told, had, unmoved>>

Titles == {"with", "without"}
\* In the snippet, further down, nowhere; an undecodable body is one the protobuf walk declines.
Texts == {"head", "tail", "none"}
Note == [title : Titles, body : Texts, locked : BOOLEAN, decodes : BOOLEAN,
         at : {"folder", "trash", "nowhere"}]
Ids == Uuids \X Pks
Ops == {"notes", "notes_all", "note_bodies", "snapshot", "update preview", "create",
        "update", "delete", "delete preview"}
\* long: words of four letters and more; short: of two or three; letter: of one.
Reads == {"rows", "bodies", "titles"}
Queries == {"long", "short", "letter"}

\* A client record: op, ids, query, title, step, the store it opened, the live rows it
\* read and the ones its titles matched, and whether its answer has a coverage note.
NotesTypeOK ==
    /\ store \in Uuids /\ app \in [Pks -> Note \cup {Absent}]
    /\ disk \in [Uuids -> [Pks -> Note \cup {Absent}]]
    /\ shut \subseteq Reads
    /\ byOthers \in 0..MaxByOthers
    /\ \A c \in Clients : client[c].ids \subseteq Ids /\ client[c].rows \subseteq Pks

Resting == [op |-> Absent, ids |-> {}, query |-> Absent, title |-> Absent, step |-> "idle",
            opened |-> Absent, rows |-> {}, titled |-> {}, noted |-> FALSE]

NotesInit ==
    /\ store \in Uuids
    /\ app \in [Pks -> Kinds \cup {Absent}]
    /\ disk = [u \in Uuids |-> IF u = store THEN app ELSE [p \in Pks |-> Absent]]
    /\ shut \in {{}, Reads} \cup {{what} : what \in Reads}
    /\ byOthers = 0
    /\ client = [c \in Clients |-> Resting] /\ told = [c \in Clients |-> {}]
    /\ had = [c \in Clients |-> {}] /\ unmoved = [c \in Clients |-> {}]

-----------------------------------------------------------------------------
(* What the queries say of a row. *)

\* _FROM: a note in a folder that is not Recently Deleted, and not a tombstone.
Live(f) == {p \in Pks : f[p] # Absent /\ f[p].at = "folder"}
TitleHit(n) == n.title = "with"
SnippetHit(n) == n.body = "head" /\ ~n.locked
Searchable(n) == ~n.locked /\ n.decodes
BodyHit(n) == Searchable(n) /\ n.body \in {"head", "tail"}

\* As measured first: words of four letters and more.
HasLongWord(q) == q = "long"

\* _fts_expr: no expression when the query has no word of two letters.
HasWord(q) == q \in {"long", "short"}

\* As written first: the key alone.
LocalByKey(id, u) == id[2] \in Pks

\* The x-coredata prefix of the store that is open.
Local(id, u) == id[1] = u

Newest(S) == {p \in S : Cardinality({q \in S : q > p}) < MaxNotes}
\* Any n of S in an order of their own, or all of it.
Cut(S, n) == {T \in SUBSET S : Cardinality(T) = n \/ (T = S /\ Cardinality(S) < n)}
Listed(u, S) == {<<<<u, p>>, "listed">> : p \in S}

TitlesIn(u, f, S) == {<<<<u, p>>, "title", f[p].title>> : p \in S}
BodiesIn(u, f, S) == {<<<<u, p>>, "body", f[p].body>> : p \in S}
Present(f) == {p \in Pks : f[p] # Absent}
FactsIn(u, f) == TitlesIn(u, f, Present(f)) \cup BodiesIn(u, f, Present(f)) \cup Listed(u, Live(f))
Facts == FactsIn(store, app) \cup UNION {FactsIn(u, disk[u]) : u \in Uuids}

-----------------------------------------------------------------------------
(* Steps of a call. *)

At(c, step) == client[c].step = step
Ended(c) == client[c].step \in {"done", "failed"}
Goto(c, step) == client' = [client EXCEPT ![c].step = step]
Tell(c, what) == told' = [told EXCEPT ![c] = told[c] \cup what]
Leave(c, step, noted) == client' = [client EXCEPT ![c] = [Resting EXCEPT !.step = step, !.noted = noted]]
Answer(c, what) == Leave(c, "done", FALSE) /\ Tell(c, what)
Raise(c) == Leave(c, "failed", FALSE) /\ told' = [told EXCEPT ![c] = {}]
Id(c) == CHOOSE id \in client[c].ids : TRUE

EntryStep(op) == CASE op \in {"notes", "notes_all"} -> "rows"
                   [] op = "note_bodies" -> "bodies"
                   [] op \in {"snapshot", "update preview"} -> "title"
                   [] op \in {"create", "update"} -> "write"
                   [] OTHER -> "check"

Ask(c) ==
    /\ At(c, "idle")
    /\ \E op \in Ops, ids \in SUBSET Ids, q \in Queries \cup {Absent}, t \in Titles \cup {Absent} :
          /\ Cardinality(ids) = CASE op \in {"notes", "notes_all", "create"} -> 0
                                  [] op = "note_bodies" -> 2
                                  [] OTHER -> 1
          /\ (q = Absent) = (op # "notes")
          /\ (t = Absent) = (op \notin {"create", "update"})
          /\ client' = [client EXCEPT ![c] = [Resting EXCEPT !.op = op, !.ids = ids,
                            !.query = q, !.title = t, !.step = EntryStep(op)]]
    /\ UNCHANGED <<told, app>>

\* _open_sqlite_ro and verify_sqlite_schema.
Opens(what) == what \notin shut

\* notes, notes_all: the rows in one statement; notes goes on to the bodies.
ReadRows(c) ==
    /\ At(c, "rows") /\ Opens("rows")
    /\ LET f == disk[store]
           titled == {p \in Live(f) : TitleHit(f[p]) \/ SnippetHit(f[p])}
       IN \/ /\ client[c].op = "notes_all" /\ Answer(c, Listed(store, Newest(Live(f))))
          \/ /\ client[c].op = "notes"
             /\ Cardinality(titled) >= MaxNotes \/ ~HasWord(client[c].query)
             /\ Answer(c, Listed(store, Newest(titled)))
          \/ /\ client[c].op = "notes"
             /\ Cardinality(titled) < MaxNotes /\ HasWord(client[c].query)
             /\ client' = [client EXCEPT ![c].step = "hits", ![c].opened = store,
                                         ![c].rows = Live(f), ![c].titled = titled]
             /\ UNCHANGED told
    /\ UNCHANGED app

\* _body_hits, a second statement of the same connection: only rows of the first are told.
ReadHits(c) ==
    /\ At(c, "hits") /\ Opens("bodies")
    /\ LET f == disk[client[c].opened]
           more == {p \in (Live(f) \cap client[c].rows) \ client[c].titled : BodyHit(f[p])}
       IN \E few \in Cut(more, MaxNotes - Cardinality(client[c].titled)) :
             Answer(c, Listed(client[c].opened, client[c].titled \cup few))
    /\ UNCHANGED app

\* Drift of the body table or an sqlite error: titles and snippets, and a note.
CannotReadHits(c) ==
    /\ At(c, "hits")
    /\ Leave(c, "done", TRUE)
    /\ Tell(c, Listed(client[c].opened, client[c].titled))
    /\ UNCHANGED app

\* No access, drift, or an sqlite error in the middle: read_via_sqlite's fallback.
FallsBack(c) ==
    /\ client[c].step \in {"rows", "bodies", "title"}
    /\ Goto(c, CASE At(c, "rows") -> "rows app" [] At(c, "bodies") -> "bodies app"
                 [] OTHER -> "title app")
    /\ UNCHANGED <<told, app>>

\* _LIST_ALL without the translated names of Recently Deleted: titles only, in Notes' order.
ListInApp(c) ==
    /\ At(c, "rows app")
    /\ \E S \in Cut({p \in Live(app) : client[c].op = "notes_all" \/ TitleHit(app[p])}, MaxNotes) :
          Tell(c, Listed(store, S))
    /\ Leave(c, "done", client[c].op = "notes")
    /\ UNCHANGED app

\* get_bodies: the ids of this store whose text decodes, then Notes for the rest.
ReadBodies(c) ==
    /\ At(c, "bodies") /\ Opens("bodies")
    /\ LET f == disk[store]
           found == {id \in client[c].ids :
                        Local(id, store) /\ id[2] \in {p \in Present(f) : Searchable(f[p])}}
           texts == {<<id, "body", f[id[2]].body>> : id \in found}
       IN IF found = client[c].ids
          THEN Answer(c, texts)
          ELSE /\ client' = [client EXCEPT ![c].step = "gaps", ![c].ids = client[c].ids \ found]
               /\ Tell(c, texts)
    /\ UNCHANGED app

\* Notes knows an id by its whole URL, and keeps a locked note's text to itself.
ShownAs(id) == IF id[1] = store THEN app[id[2]] ELSE Absent
InApp(ids) == {id \in ids : ShownAs(id) # Absent}

\* _applescript_bodies: one Apple event per note, and a note that errs is skipped.
BodiesFromApp(c) ==
    /\ client[c].step \in {"gaps", "bodies app"}
    /\ Answer(c, {<<id, "body", ShownAs(id).body>> :
                     id \in {i \in InApp(client[c].ids) : ~ShownAs(i).locked}})
    /\ UNCHANGED app

\* Filling the gaps is best effort: what the store gave is answered.
NoGapsFilled(c) ==
    /\ At(c, "gaps") /\ Answer(c, {})
    /\ UNCHANGED app

\* A title read: the end of a snapshot, the start of a preview, the check after a write.
WithTitle(c, t) ==
    LET id == Id(c)
    IN CASE client[c].op = "snapshot" -> Answer(c, IF t = Absent THEN {} ELSE {<<id, "title", t>>})
         [] client[c].op = "update preview" ->
              IF t = Absent THEN Raise(c)
              ELSE Goto(c, "bodies") /\ Tell(c, {<<id, "title", t>>})
         [] OTHER ->     \* _verify_note
              IF t = client[c].title THEN Answer(c, {<<id, "title", t>>}) ELSE Raise(c)

\* _TITLE_SQL: any row of this store, one in Recently Deleted and a tombstone too.
ReadTitle(c) ==
    /\ At(c, "title") /\ Opens("titles")
    /\ LET id == Id(c)
       IN WithTitle(c, IF Local(id, store) /\ disk[store][id[2]] # Absent
                       THEN disk[store][id[2]].title ELSE Absent)
    /\ UNCHANGED app

TitleInApp(c) ==
    /\ At(c, "title app")
    /\ WithTitle(c, IF ShownAs(Id(c)) # Absent THEN ShownAs(Id(c)).title ELSE Absent)
    /\ UNCHANGED app

\* Notes is closed, not allowed, too slow or answers an error.  A script that the host
\* killed may still be carried out: that is one of the Writes of others.
Fails(c) ==
    /\ client[c].step \in {"rows app", "bodies app", "title app", "write", "check", "trash"}
    /\ Raise(c)
    /\ UNCHANGED app

-----------------------------------------------------------------------------
(* Writes. *)

\* A key that no row of this store has had.
Fresh == {p \in Pks : \A q \in Pks : q >= p => app[q] = Absent /\ disk[store][q] = Absent}
Written(t) == [title |-> t, body |-> "tail", locked |-> FALSE, decodes |-> TRUE, at |-> "folder"]

\* body of n: the title is the first line of what is written.
Updated(n, t) == [n EXCEPT !.title = t, !.body = "tail", !.decodes = TRUE]

Create(c) ==
    /\ At(c, "write") /\ client[c].op = "create"
    /\ \E p \in Fresh :
          /\ app' = [app EXCEPT ![p] = Written(client[c].title)]
          /\ client' = [client EXCEPT ![c].step = "title", ![c].ids = {<<store, p>>}]
    /\ UNCHANGED told

Update(c) ==
    /\ At(c, "write") /\ client[c].op = "update"
    /\ ShownAs(Id(c)) # Absent /\ ~ShownAs(Id(c)).locked
    /\ app' = [app EXCEPT ![Id(c)[2]] = Updated(@, client[c].title)]
    /\ Goto(c, "title")
    /\ UNCHANGED told

\* _DELETE, _PREVIEW_DELETE: the title is asked for in an event of its own, and one that
\* is not expect_title is an error (Fails).
Check(c) ==
    /\ At(c, "check")
    /\ LET n == ShownAs(Id(c))
       IN /\ n # Absent
          /\ IF client[c].op = "delete" THEN Goto(c, "trash") /\ UNCHANGED told
             ELSE Answer(c, {<<Id(c), "title", n.title>>})
    /\ UNCHANGED app

Trash(c) ==
    /\ At(c, "trash") /\ ShownAs(Id(c)) # Absent
    /\ app' = [app EXCEPT ![Id(c)[2]].at = "trash"]
    /\ Answer(c, {})

Call(c) ==
    \/ Ask(c) \/ ReadRows(c) \/ ReadHits(c) \/ CannotReadHits(c) \/ FallsBack(c)
    \/ ListInApp(c) \/ ReadBodies(c) \/ BodiesFromApp(c) \/ NoGapsFilled(c)
    \/ ReadTitle(c) \/ TitleInApp(c) \/ Fails(c)
    \/ Create(c) \/ Update(c) \/ Check(c) \/ Trash(c)

-----------------------------------------------------------------------------
(* The user, iCloud, other calls and the file. *)

\* A row of a purged note may stay, without a folder or marked for deletion.
Saves(p) ==
    /\ disk[store][p] # app[p]
    /\ \E row \in {app[p]} \cup (IF app[p] = Absent /\ disk[store][p] # Absent
                                 THEN {[disk[store][p] EXCEPT !.at = "nowhere"]} ELSE {}) :
          disk[store][p] # row /\ disk' = [disk EXCEPT ![store][p] = row]
    /\ UNCHANGED <<store, app, byOthers>>

Edits(p) ==
    /\ app[p] # Absent /\ \E k \in Kinds : app' = [app EXCEPT ![p] = [k EXCEPT !.at = app[p].at]]
    /\ UNCHANGED <<store, disk>>

\* Another call, or an event of a script that was killed.
Writes(p) ==
    /\ \E t \in Titles :
          \/ p \in Fresh /\ app' = [app EXCEPT ![p] = Written(t)]
          \/ app[p] # Absent /\ app' = [app EXCEPT ![p] = Updated(@, t)]
    /\ UNCHANGED <<store, disk>>

Moves(p) ==
    /\ app[p] # Absent
    /\ app' = [app EXCEPT ![p].at = IF app[p].at = "folder" THEN "trash" ELSE "folder"]
    /\ UNCHANGED <<store, disk>>

Purges(p) ==
    /\ app[p] # Absent /\ app' = [app EXCEPT ![p] = Absent]
    /\ UNCHANGED <<store, disk>>

\* Another library: keys start again, and the old file stays as it was for who has it open.
Replaces ==
    /\ \E u \in Uuids \ {store}, k \in Kinds :
          LET f == [p \in Pks |-> k] IN
          store' = u /\ app' = f /\ disk' = [disk EXCEPT ![u] = f]

\* After the last call ended nothing matters.
Others ==
    /\ \E c \in Clients : ~Ended(c)
    /\ \/ \E p \in Pks : Saves(p)
       \/ /\ byOthers < MaxByOthers /\ byOthers' = byOthers + 1
          /\ Replaces \/ \E p \in Pks : Edits(p) \/ Writes(p) \/ Moves(p) \/ Purges(p)

\* The two histories: facts of the call so far, and keys that stayed as they were.
InStep(u, a, f) == {p \in Pks : a[p] # Absent /\ f[u][p] = a[p]}
Remembers ==
    /\ had' = [c \in Clients |->
                 IF Ended(c)' \/ At(c, "idle")' THEN {}
                 ELSE IF At(c, "idle") THEN Facts' ELSE had[c] \cup Facts']
    /\ unmoved' = [c \in Clients |->
                 IF Ended(c)' \/ At(c, "idle")' THEN {}
                 ELSE IF At(c, "idle") THEN InStep(store, app, disk)'
                 ELSE {p \in unmoved[c] : store' = store /\ app'[p] = app[p]
                                          /\ disk'[store][p] = disk[store][p]}]

NotesNext ==
    /\ \/ \E c \in Clients : Call(c) /\ UNCHANGED <<store, disk, byOthers>>
       \/ Others /\ UNCHANGED <<client, told>>
    /\ UNCHANGED shut
    /\ Remembers

NotesSpec == NotesInit /\ [][NotesNext]_notesVars

-----------------------------------------------------------------------------
(* Properties. *)

Ends(c) == ~Ended(c) /\ client'[c].step = "done"

\* What an answer tells of an id was true, at some moment of the call, of the note with
\* that id: no body or title of another store's note with the same key, no note of
\* Recently Deleted or tombstone in a list, no title that the write did not leave.
AnswersAreTrue ==
    [][\A c \in Clients : Ends(c) => told'[c] \subseteq had[c] \cup Facts']_notesVars

\* A search without a coverage note, and with room left, has found every note that stayed
\* as it was during the call and holds the word: in its title or snippet, or in a body
\* that is neither locked nor undecodable when the query has a word of two letters.
NoNoteMeansSearched ==
    [][\A c \in Clients :
          Ends(c) /\ client[c].op = "notes" /\ ~client'[c].noted /\ Cardinality(told'[c]) < MaxNotes
          => \A p \in unmoved[c] :
                /\ app[p].at = "folder"
                /\ \/ TitleHit(app[p]) \/ SnippetHit(app[p])
                   \/ BodyHit(app[p]) /\ client[c].query # "letter"
                => <<<<store, p>>, "listed">> \in told'[c]]_notesVars
=============================================================================
