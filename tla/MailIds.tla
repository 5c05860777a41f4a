------------------------------ MODULE MailIds ------------------------------
(***************************************************************************)
(* The Message-ID sidecar of a macOS whose Envelope Index stores no        *)
(* Message-IDs (#199, #201): mail_index_ids harvests them from the .emlx   *)
(* files into a database of our own (mail_ids.py), and every read of the   *)
(* index absorbs a little new mail, joins the sidecar in, and afterwards   *)
(* says whether the answer may lack something (mail_index.py).             *)
(*                                                                         *)
(* Mail owns the index and the files and changes them at any time: rows    *)
(* arrive, move under a new ROWID, go, and the whole index may be rebuilt. *)
(* A build and a read each take several steps, in different threads and    *)
(* processes; one build's rows are written in one transaction.             *)
(***************************************************************************)
EXTENDS Naturals, FiniteSets, FiniteSetsExt

CONSTANTS
    Builds,         \* threads that run mail_index_ids
    Reads,          \* processes that read the index
    Msgs,           \* messages, by their true Message-ID
    Unnamed,        \* the messages that carry no Message-ID
    Gids,           \* global_message_id values
    None,
    TopUpMax,       \* _TOPUP_MAX_ROWS
    MaxRow,         \* bound on ROWIDs
    MaxRebuilds,    \* bound on the times Mail rebuilds its index
    MaxWipes,       \* bound on calls with rebuild=True
    RebuildsAnytime \* whether Mail may rebuild its index while one of our calls runs

ASSUME MailIdsAssumption ==
    /\ Unnamed \subseteq Msgs /\ None \notin Msgs
    /\ RebuildsAnytime \in BOOLEAN
    /\ TopUpMax \in Nat /\ MaxRow \in Nat /\ MaxRebuilds \in Nat /\ MaxWipes \in Nat

VARIABLES
    rows,       \* the live rows of Mail's index
    used,       \* the last ROWID given out
    spent,      \* the gids given out
    files,      \* the ROWIDs whose .emlx is on disk
    rebuilds,
    exists,     \* the sidecar file
    inode,      \* which file the path names: it changes when it is unlinked
    map,        \* global_ids
    mark,       \* max_rowid_harvested
    wipes,
    build,      \* per build: its step and what it has read
    read,       \* per read: its step and what it has read
    cache,      \* per process: _MODE_CACHE, by whether the sidecar exists
    sought,     \* ROWIDs that a harvest looked for and found no id of
    unsettled   \* what no harvest in full has followed yet: "wiped", "rebuilt", "overtaken",
                \* or "no"

mailVars == <<rows, used, spent, files, rebuilds>>
sideVars == <<exists, inode, map, mark>>
vars == <<mailVars, sideVars, wipes, build, read, cache, sought, unsettled>>

Row == [id : 1..MaxRow, gid : Gids, msg : Msgs]
NoMap == [g \in Gids |-> None]
Top(rs) == Max({r.id : r \in rs} \cup {0})

IdleBuild == [at |-> "idle", snap |-> {}, again |-> FALSE, known |-> {}, inode |-> 0,
              whole |-> FALSE]
IdleRead == [at |-> "idle", key |-> FALSE, from |-> 0, to |-> 0, stale |-> FALSE,
             missing |-> {}, sure |-> FALSE, note |-> "none"]

TypeOK ==
    /\ rows \subseteq Row /\ used \in 0..MaxRow /\ files \subseteq 1..MaxRow
    /\ spent \subseteq Gids /\ {r.gid : r \in rows} \subseteq spent
    /\ \A r, s \in rows : r.id = s.id => r = s
    /\ exists \in BOOLEAN /\ inode \in Nat /\ (exists \/ map = NoMap)
    /\ map \in [Gids -> Msgs \cup {None}] /\ mark \in 0..MaxRow \cup {None}
    /\ \A b \in Builds : /\ build[b].at \in {"idle", "rows", "open", "commit"}
                         /\ build[b].snap \subseteq Row
    /\ \A p \in Reads : /\ read[p].at \in {"idle", "detect", "setup", "topup", "query",
                                           "note", "told"}
                        /\ read[p].note \in {"none", "behind", "rebuilt"}
    /\ cache \in [Reads -> [BOOLEAN -> {"unknown", "sidecar", "floor"}]]
    /\ sought \subseteq 1..MaxRow /\ unsettled \in {"no", "wiped", "rebuilt", "overtaken"}

Init ==
    /\ rows = {} /\ used = 0 /\ spent = {} /\ files = {} /\ rebuilds = 0
    /\ exists = FALSE /\ inode = 0 /\ map = NoMap /\ mark = None /\ wipes = 0
    /\ build = [b \in Builds |-> IdleBuild]
    /\ read = [p \in Reads |-> IdleRead]
    /\ cache = [p \in Reads |-> [e \in BOOLEAN |-> "unknown"]]
    /\ sought = {} /\ unsettled = "no"

-----------------------------------------------------------------------------
(* Mail. *)

\* The copies of one message share its gid.
GidsFor(m) ==
    LET own == {r.gid : r \in {s \in rows : s.msg = m}}
    IN IF own # {} THEN own ELSE Gids \ spent

Deliver ==
    /\ used < MaxRow
    /\ \E m \in Msgs : \E g \in GidsFor(m) :
          /\ rows' = rows \cup {[id |-> used + 1, gid |-> g, msg |-> m]}
          /\ spent' = spent \cup {g}
    /\ used' = used + 1
    /\ files' \in {files, files \cup {used + 1}}
    /\ UNCHANGED <<rebuilds, sideVars, wipes, build, read, cache, sought, unsettled>>

\* Filing a message elsewhere mints a new ROWID and keeps the gid.
Refile ==
    /\ used < MaxRow
    /\ \E r \in rows :
          /\ rows' = (rows \ {r}) \cup {[r EXCEPT !.id = used + 1]}
          /\ files' \in {files \ {r.id}, (files \ {r.id}) \cup {used + 1}}
    /\ used' = used + 1
    /\ UNCHANGED <<spent, rebuilds, sideVars, wipes, build, read, cache, sought, unsettled>>

Expunge ==
    /\ \E r \in rows : rows' = rows \ {r} /\ files' = files \ {r.id}
    /\ UNCHANGED <<used, spent, rebuilds, sideVars, wipes, build, read, cache, sought, unsettled>>

Downloaded ==
    /\ \E r \in rows : r.id \notin files /\ files' = files \cup {r.id}
    /\ UNCHANGED <<rows, used, spent, rebuilds, sideVars, wipes, build, read, cache,
                   sought, unsettled>>

\* What a build read of an index that is no more cannot settle anything.
Outdated(bs) == [b \in Builds |-> [bs[b] EXCEPT !.whole = FALSE]]

\* Mail rebuilds its index: ROWIDs from 1 on, gids given out anew.
RebuildIndex ==
    /\ rebuilds < MaxRebuilds /\ rows # {}
    /\ RebuildsAnytime \/ (/\ \A b \in Builds : build[b].at = "idle"
                          /\ \A p \in Reads : read[p].at \in {"idle", "told"})
    /\ \E gidOf \in [{r.msg : r \in rows} -> Gids],
          idOf \in [rows -> 1..Cardinality(rows)] :
          /\ \A m, n \in DOMAIN gidOf : gidOf[m] = gidOf[n] => m = n
          /\ \A r, s \in rows : idOf[r] = idOf[s] => r = s
          /\ rows' = {[id |-> idOf[r], gid |-> gidOf[r.msg], msg |-> r.msg] : r \in rows}
          /\ files' = {idOf[r] : r \in {s \in rows : s.id \in files}}
          /\ spent' = {gidOf[m] : m \in DOMAIN gidOf}
    /\ used' = Cardinality(rows)
    /\ rebuilds' = rebuilds + 1
    /\ sought' = {} /\ unsettled' = "rebuilt" /\ build' = Outdated(build)
    /\ UNCHANGED <<sideVars, wipes, read, cache>>

-----------------------------------------------------------------------------
(* Harvesting.  A row's id is read from the file that has its ROWID now. *)

HeaderOn(id) ==
    LET there == {r \in rows : r.id = id /\ id \in files /\ r.msg \notin Unnamed}
    IN IF there = {} THEN None ELSE (CHOOSE r \in there : TRUE).msg

\* The rows of rs, whose gids are not in known, as they would be written.
Harvest(rs, known) ==
    LET new == {r \in rs : r.gid \notin known /\ HeaderOn(r.id) # None}
    IN [g \in Gids |-> IF \E r \in new : r.gid = g
                       THEN HeaderOn(Min({r.id : r \in {n \in new : n.gid = g}}))
                       ELSE map[g]]

\* ROWIDs of rs that were looked for and gave no id.
NotFound(rs, known) ==
    {r.id : r \in {s \in rs : s.gid \notin known /\ HeaderOn(s.id) = None}}

BuildStarts(b) ==
    /\ build[b].at = "idle"
    /\ build' = [build EXCEPT ![b].at = "rows"]
    /\ UNCHANGED <<mailVars, sideVars, wipes, read, cache, sought, unsettled>>

\* rebuild=True: the recovery move, it unlinks the sidecar first.
Wipe(b) ==
    /\ build[b].at = "idle" /\ wipes < MaxWipes
    /\ exists' = FALSE /\ inode' = inode + 1 /\ map' = NoMap /\ mark' = None
    /\ wipes' = wipes + 1
    /\ unsettled' = "wiped"
    /\ build' = [Outdated(build) EXCEPT ![b].at = "rows"]
    /\ UNCHANGED <<mailVars, read, cache, sought>>

BuildReadsRows(b) ==
    /\ build[b].at = "rows"
    /\ build' = [build EXCEPT ![b].at = "open", ![b].snap = rows, ![b].whole = TRUE]
    /\ UNCHANGED <<mailVars, sideVars, wipes, read, cache, sought, unsettled>>

\* stored_high_water, then _connect, which creates the file, and the gids that
\* are covered; none is when the marks say that the index was rebuilt.
BuildOpens(b) ==
    /\ build[b].at = "open"
    /\ LET again == mark # None /\ Top(build[b].snap) < mark
       IN build' = [build EXCEPT
                       ![b].at = "commit", ![b].again = again, ![b].inode = inode,
                       ![b].known = IF again THEN {} ELSE {g \in Gids : map[g] # None}]
    /\ exists' = TRUE
    /\ UNCHANGED <<mailVars, inode, map, mark, wipes, read, cache, sought, unsettled>>

\* Whether this build's transaction covers all that a wipe or a rebuild undid.
Settles(b) ==
    /\ build[b].whole
    /\ unsettled = "rebuilt" => build[b].known = {}

\* Mutant: the mark is taken from the index as it is when the build ends.
BuildCommitsMarkingNow(b) ==
    /\ build[b].at = "commit"
    /\ IF build[b].inode = inode
       THEN /\ map' = Harvest(build[b].snap, build[b].known)
            /\ mark' = Top(rows)
            /\ sought' = sought \cup NotFound(build[b].snap, build[b].known)
            /\ unsettled' = IF Settles(b) THEN "no" ELSE unsettled
       ELSE UNCHANGED <<map, mark, sought, unsettled>>
    /\ build' = [build EXCEPT ![b] = IdleBuild]
    /\ UNCHANGED <<mailVars, exists, inode, wipes, read, cache>>

BuildCommits(b) ==
    /\ build[b].at = "commit"
    /\ IF build[b].inode = inode
       THEN /\ map' = Harvest(build[b].snap, build[b].known)
            /\ mark' = Top(build[b].snap)
            /\ sought' = sought \cup NotFound(build[b].snap, build[b].known)
            /\ unsettled' = IF Settles(b) THEN "no" ELSE unsettled
       ELSE UNCHANGED <<map, mark, sought, unsettled>>
    /\ build' = [build EXCEPT ![b] = IdleBuild]
    /\ UNCHANGED <<mailVars, exists, inode, wipes, read, cache>>

\* The process of the build ends: its transaction is rolled back.
BuildCrashes(b) ==
    /\ build[b].at # "idle"
    /\ build' = [build EXCEPT ![b] = IdleBuild]
    /\ UNCHANGED <<mailVars, sideVars, wipes, read, cache, sought, unsettled>>

-----------------------------------------------------------------------------
(* A read of the index. *)

\* _index_mode: the cache is asked by whether the sidecar exists now.  Where it
\* says "floor" the read raises.
ReadStarts(p) ==
    /\ read[p].at \in {"idle", "told"} /\ cache[p][exists] # "floor"
    /\ read' = [read EXCEPT ![p] =
                   [IdleRead EXCEPT !.key = exists /\ cache[p][exists] = "unknown",
                                    !.at = IF cache[p][exists] = "unknown" THEN "detect"
                                           ELSE "setup"]]
    /\ UNCHANGED <<mailVars, sideVars, wipes, build, cache, sought, unsettled>>

\* _detect_mode looks at the file again, after its probe of the index.
Detect(p) ==
    /\ read[p].at = "detect"
    /\ LET mode == IF exists THEN "sidecar" ELSE "floor"
       IN /\ cache' = [cache EXCEPT ![p][read[p].key] = mode]
          /\ read' = [read EXCEPT ![p] =
                         [IdleRead EXCEPT !.at = IF mode = "sidecar" THEN "setup" ELSE "idle"]]
    /\ UNCHANGED <<mailVars, sideVars, wipes, build, sought, unsettled>>

\* _maybe_top_up: a gap of at most TopUpMax ROWIDs is closed before the read.
Setup(p) ==
    /\ read[p].at = "setup"
    /\ LET small == mark # None /\ Top(rows) > mark /\ Top(rows) - mark <= TopUpMax
       IN read' = [read EXCEPT ![p] =
                      IF small
                      THEN [@ EXCEPT !.at = "topup", !.from = mark, !.to = Top(rows),
                                     !.stale = unsettled = "rebuilt"]
                      ELSE [@ EXCEPT !.at = "query"]]
    /\ UNCHANGED <<mailVars, sideVars, wipes, build, cache, sought, unsettled>>

\* A top-up that was measured from the mark of an index that Mail had rebuilt, and lands
\* after the harvest that settled the new one, sets the mark beyond rows that neither of
\* them looks for.
Overtakes(p) == read[p].stale /\ unsettled = "no"

\* top_up; a failure is swallowed and left for the note.
TopUp(p) ==
    /\ read[p].at = "topup"
    /\ read' = [read EXCEPT ![p] = [IdleRead EXCEPT !.at = "query"]]
    /\ LET new == {r \in rows : r.id > read[p].from}
       IN \/ /\ map' = Harvest(new, {}) /\ mark' = read[p].to /\ exists' = TRUE
             /\ sought' = sought \cup NotFound(new, {})
             /\ IF Overtakes(p) THEN unsettled' = "overtaken" /\ build' = Outdated(build)
                ELSE UNCHANGED <<unsettled, build>>
          \/ UNCHANGED <<map, mark, exists, sought, unsettled, build>>
    /\ UNCHANGED <<mailVars, inode, wipes, cache>>

\* ATTACH and the query: rows without an id are not in the answer.  Attaching a
\* file that is gone raises.
Query(p) ==
    /\ read[p].at = "query"
    /\ read' = [read EXCEPT ![p] =
                   IF exists
                   THEN [@ EXCEPT !.at = "note",
                                  !.missing = {r \in rows : map[r.gid] = None},
                                  !.sure = mark # None /\ unsettled = "no"]
                   ELSE IdleRead]
    /\ UNCHANGED <<mailVars, sideVars, wipes, build, cache, sought, unsettled>>

\* _index_mode, a detection included, at one instant.
ModeNow(p) ==
    IF cache[p][exists] # "unknown" THEN cache[p][exists]
    ELSE IF exists THEN "sidecar" ELSE "floor"

StalenessNote(p) ==
    IF ModeNow(p) # "sidecar" \/ mark = None \/ Top(rows) = mark THEN "none"
    ELSE IF Top(rows) < mark THEN "rebuilt" ELSE "behind"

\* staleness_note, computed after the read; what is missing by now for no reason
\* that a harvest could know is kept.
Note(p) ==
    /\ read[p].at = "note"
    /\ cache' = [cache EXCEPT ![p][exists] = ModeNow(p)]
    /\ read' = [read EXCEPT
                   ![p].at = "told", ![p].note = StalenessNote(p),
                   ![p].missing = {r \in @ : r \in rows /\ r.id \notin sought
                                             /\ map[r.gid] = None},
                   ![p].sure = @ /\ mark # None /\ unsettled = "no"]
    /\ UNCHANGED <<mailVars, sideVars, wipes, build, sought, unsettled>>

-----------------------------------------------------------------------------
Mail == Deliver \/ Refile \/ Expunge \/ Downloaded \/ RebuildIndex
Build(b) == BuildStarts(b) \/ Wipe(b) \/ BuildReadsRows(b) \/ BuildOpens(b)
            \/ BuildCommits(b) \/ BuildCrashes(b)
Read(p) == ReadStarts(p) \/ Detect(p) \/ Setup(p) \/ TopUp(p) \/ Query(p) \/ Note(p)

Next == Mail \/ (\E b \in Builds : Build(b)) \/ (\E p \in Reads : Read(p))

Spec == Init /\ [][Next]_vars

-----------------------------------------------------------------------------
(* Properties. *)

\* An answer without a staleness note lacks no message that a harvest never
\* looked for (mail_index.staleness_note), whatever builds, top-ups and Mail did
\* meanwhile, once the sidecar has a mark and a wiped or rebuilt index, and one that
\* a top-up overtook (Overtakes), has been harvested in full.  A process that kept
\* "floor" for a sidecar that exists (it was unlinked between the two looks of one
\* _index_mode) is excepted: it notes nothing from then on.
NoNoteMeansLookedFor ==
    \A p \in Reads :
        (/\ read[p].at = "told" /\ read[p].note = "none" /\ read[p].sure
         /\ cache[p][TRUE] # "floor") => read[p].missing = {}

\* "Never silently stale" (mail_index._maybe_top_up), without the two conditions
\* of NoNoteMeansLookedFor: while the first build runs, the sidecar exists and
\* has no mark, and reads answer from an empty map with no note.
NeverSilentlyStale ==
    \A p \in Reads :
        (read[p].at = "told" /\ read[p].note = "none") => read[p].missing = {}

\* "Stale mappings cannot survive as false coverage" (mail_ids.build): once an
\* index that Mail rebuilt has been harvested in full, a live row is cited under
\* its message's own id.  Rows of the old index stay in global_ids all the same:
\* where the new one reuses a gid and its file is not found, or comes later than
\* the harvest, the old id stays.
CitedIdIsOwn ==
    unsettled = "no" => \A r \in rows : map[r.gid] \in {None, r.msg}
=============================================================================
