----------------------------- MODULE MailBodies -----------------------------
(***************************************************************************)
(* Mail's bodies: the full-text sidecar that mail_index_bodies builds from *)
(* the .emlx files (mail_index.build_body_index), the body= search that    *)
(* asks it and says what it could see when it found nothing (MailAdapter.  *)
(* search, body_coverage), and mail_bodies, which reads the files          *)
(* themselves (MailAdapter.get_bodies, body_texts).                        *)
(*                                                                         *)
(* Several builds may run, next to the reads and to Mail, which writes,    *)
(* fills in and removes files at any time.  A .partial.emlx that fills in  *)
(* becomes another path.  Paths are numbered in the order they sort.       *)
(*                                                                         *)
(* From Mail it is assumed that a file whose text changes gets another     *)
(* second or size, that two paths of one message do not stand at once,     *)
(* and that a partial which has a text has the whole one (#119, as         *)
(* measured).                                                              *)
(***************************************************************************)
EXTENDS Naturals, FiniteSets, FiniteSetsExt

CONSTANTS
    Builds,         \* calls of mail_index_bodies
    Asks,           \* calls of mail_search(body=) and mail_bodies
    Paths,          \* .emlx files, by number
    Mids,           \* Message-IDs
    MidAt,          \* per path: the message in the file
    FullOf,         \* per .partial path: the path it fills in to; itself for others
    Absent,
    ReusesIds,      \* a message may come back at another path with another text
    MaxChanged      \* bound on what Mail does

VARIABLES
    wholeText,      \* what each message says, unless it is a draft
    disk,           \* per path: the text in the file and its (mtime, size)
    live,           \* messages of the Envelope Index that are not deleted
    sidecar,        \* bodies and indexed_files, as committed
    writer,         \* the build whose transaction is open
    builder,        \* per build: where it is and what it has read
    ask,            \* per read: where it is and what it has read
    changed

bodyVars == <<wholeText, disk, live, sidecar, writer, builder, ask, changed>>

\* Holds the word, another text, no text part (or no Message-ID).
Texts == {"word", "other", "none"}
OnDisk(p) == disk[p] # Absent
NoSidecar == [there |-> FALSE, bodies |-> [m \in Mids |-> Absent],
              recorded |-> [p \in Paths |-> 0]]
IdleBuild == [step |-> "idle", seen |-> [p \in Paths |-> 0], todo |-> {}, stamp |-> 0,
              text |-> Absent, open |-> [p \in Paths |-> 0]]
IdleAsk == [step |-> "idle", hits |-> {}, have |-> {}, todo |-> {}, got |-> {},
            covered |-> FALSE, still |-> TRUE]

\* Drafts change, and have one path.
Draft(p) == \A q \in Paths : MidAt[q] = MidAt[p] => q = p
MayHold(p) == IF Draft(p) \/ ReusesIds THEN Texts ELSE {"none", wholeText[MidAt[p]]}

BodiesTypeOK ==
    /\ wholeText \in [Mids -> {"word", "other"}]
    /\ disk \in [Paths -> [text : Texts, stamp : 1..MaxChanged + 1] \cup {Absent}]
    /\ live \subseteq Mids /\ writer \in Builds \cup {Absent} /\ changed \in 0..MaxChanged
    /\ sidecar.bodies \in [Mids -> Texts \cup {Absent}]
    /\ sidecar.recorded \in [Paths -> 0..MaxChanged + 1]
    /\ \A b \in Builds : builder[b].todo \subseteq Paths
    /\ \A a \in Asks : ask[a].hits \cup ask[a].have \cup ask[a].got \subseteq Mids

BodiesInit ==
    /\ wholeText \in [Mids -> {"word", "other"}]
    /\ \A p \in Paths : Draft(p) => wholeText[MidAt[p]] = "word"
    /\ disk \in [Paths -> {[text |-> t, stamp |-> 1] : t \in Texts} \cup {Absent}]
    /\ \A p, q \in Paths : p # q /\ OnDisk(p) /\ OnDisk(q) => MidAt[p] # MidAt[q]
    /\ \A p \in Paths : OnDisk(p) => disk[p].text \in MayHold(p)
    /\ live = {MidAt[p] : p \in {q \in Paths : OnDisk(q)}}
    /\ sidecar = NoSidecar /\ writer = Absent
    /\ builder = [b \in Builds |-> IdleBuild]
    /\ ask = [a \in Asks |-> IdleAsk]
    /\ changed = 0

-----------------------------------------------------------------------------
(* A build. *)

At(b, step) == builder[b].step = step
Goto(b, step) == builder' = [builder EXCEPT ![b].step = step]
Running == {b \in Builds : builder[b].step \notin {"idle", "done", "failed"}}
Stirred == ask' = [a \in Asks |-> [ask[a] EXCEPT !.still = FALSE]]
OnlyBuilder == UNCHANGED <<wholeText, disk, live, sidecar, writer, ask, changed>>
Overlay(recorded, open) == [p \in Paths |-> IF open[p] # 0 THEN open[p] ELSE recorded[p]]

\* rebuild=True unlinks the file; it is taken to be used while no other build is open.
Open(b) ==
    /\ At(b, "idle")
    /\ \E rebuild \in BOOLEAN :
         /\ rebuild => Running = {}
         /\ LET now == IF rebuild THEN NoSidecar ELSE sidecar
            IN /\ sidecar' = [now EXCEPT !.there = TRUE]
               /\ builder' = [builder EXCEPT ![b].step = "list", ![b].seen = now.recorded]
    /\ Stirred
    /\ UNCHANGED <<wholeText, disk, live, writer, changed>>

ListFiles(b) ==
    /\ At(b, "list")
    /\ builder' = [builder EXCEPT ![b].step = "next",
                                  ![b].todo = {p \in Paths : OnDisk(p)}]
    /\ OnlyBuilder

NextPath(b) == Min(builder[b].todo)
Skip(b) == builder' = [builder EXCEPT ![b].step = "next", ![b].todo = @ \ {NextPath(b)}]

StatFile(b) ==
    /\ At(b, "next") /\ builder[b].todo # {}
    /\ LET p == NextPath(b)
       IN IF OnDisk(p) /\ disk[p].stamp # builder[b].seen[p]
          THEN builder' = [builder EXCEPT ![b].step = "read", ![b].stamp = disk[p].stamp]
          ELSE Skip(b)
    /\ OnlyBuilder

ReadFile(b) ==
    /\ At(b, "read")
    /\ LET p == NextPath(b)
       IN IF OnDisk(p)
          THEN builder' = [builder EXCEPT ![b].step = "store", ![b].text = disk[p].text]
          ELSE Skip(b)
    /\ OnlyBuilder

\* A record of a file without text stays in the open transaction; a body commits it.  The
\* cap is looked at after each.
StoreStamped(b, stamp) ==
    LET p == NextPath(b)
        open == [builder[b].open EXCEPT ![p] = stamp]
        text == builder[b].text
    IN /\ At(b, "store") /\ writer \in {b, Absent}
       /\ \E step \in {"next", "finish"} :
            builder' = [builder EXCEPT
                ![b].step = step, ![b].todo = @ \ {p},
                ![b].open = IF text = "none" THEN open ELSE IdleBuild.open]
       /\ IF text = "none"
          THEN writer' = b /\ UNCHANGED <<sidecar, ask>>
          ELSE /\ writer' = Absent
               /\ sidecar' = [sidecar EXCEPT !.bodies[MidAt[p]] = text,
                                             !.recorded = Overlay(@, open)]
               /\ Stirred
       /\ UNCHANGED <<wholeText, disk, live, changed>>

\* As if the file were asked for its time and size when it is recorded.
StoreAsItStands(b) ==
    LET p == NextPath(b)
    IN StoreStamped(b, IF At(b, "store") /\ OnDisk(p) THEN disk[p].stamp ELSE builder[b].stamp)

Store(b) == StoreStamped(b, builder[b].stamp)

\* The end of the list or the cap, and a lock that another holds past the busy timeout:
\* what is open is committed.
Close(b) ==
    /\ \/ At(b, "finish") \/ (At(b, "next") /\ builder[b].todo = {})
       \/ At(b, "store") /\ writer \notin {b, Absent}
    /\ Goto(b, IF At(b, "store") THEN "failed" ELSE "done")
    /\ sidecar' = [sidecar EXCEPT !.recorded = Overlay(@, builder[b].open)]
    /\ writer' = IF writer = b THEN Absent ELSE writer
    /\ UNCHANGED <<wholeText, disk, live, ask, changed>>

Killed(b) ==
    /\ b \in Running
    /\ Goto(b, "failed")
    /\ writer' = IF writer = b THEN Absent ELSE writer
    /\ UNCHANGED <<wholeText, disk, live, sidecar, ask, changed>>

BuildStep(b) ==
    Open(b) \/ ListFiles(b) \/ StatFile(b) \/ ReadFile(b) \/ Store(b) \/ Close(b) \/ Killed(b)

-----------------------------------------------------------------------------
(* mail_search(body=): the hits, and the index's rows among them; or the   *)
(* sidecar's messages, the index's messages, and how many are in both.     *)

Asked(a, step) == ask[a].step = step
OnlyAsk == UNCHANGED <<wholeText, disk, live, sidecar, writer, builder, changed>>

SearchBodies(a) ==
    /\ Asked(a, "idle")
    /\ LET hits == {m \in Mids : sidecar.bodies[m] = "word"}
       IN ask' = [ask EXCEPT ![a] = [IdleAsk EXCEPT
                     !.hits = hits, !.step = IF hits = {} THEN "have" ELSE "query"]]
    /\ OnlyAsk

QueryHits(a) ==
    /\ Asked(a, "query")
    /\ ask' = [ask EXCEPT ![a].step = "done", ![a].hits = @ \cap live]
    /\ OnlyAsk

ReadHave(a) ==
    /\ Asked(a, "have")
    /\ ask' = [ask EXCEPT ![a].step = "live",
                          ![a].have = {m \in Mids : sidecar.bodies[m] # Absent}]
    /\ OnlyAsk

\* Whether the note says that every message of the store is searchable.
Coverage(a) ==
    /\ Asked(a, "live")
    /\ ask' = [ask EXCEPT ![a].step = "done",
                          ![a].covered = Cardinality(ask[a].have \cap live) = Cardinality(live)]
    /\ OnlyAsk

-----------------------------------------------------------------------------
(* mail_bodies: one walk of the store; what gives no text is missing. *)

WalkFiles(a) ==
    /\ Asked(a, "idle")
    /\ ask' = [ask EXCEPT ![a] = [IdleAsk EXCEPT
                 !.step = "files", !.hits = live, !.todo = {p \in Paths : OnDisk(p)}]]
    /\ OnlyAsk

ReadText(a) ==
    /\ Asked(a, "files")
    /\ \E p \in ask[a].todo :
         ask' = [ask EXCEPT
            ![a].todo = @ \ {p},
            ![a].got = IF OnDisk(p) /\ disk[p].text # "none" /\ MidAt[p] \in ask[a].hits
                       THEN @ \cup {MidAt[p]} ELSE @]
    /\ OnlyAsk

\* What holds no text when it is read is left out, not given as an empty body.
Texted(a) ==
    /\ Asked(a, "files") /\ ask[a].todo = {}
    /\ ask' = [ask EXCEPT ![a].step = "texts"]
    /\ OnlyAsk

AskStep(a) ==
    \/ SearchBodies(a) \/ QueryHits(a) \/ ReadHave(a) \/ Coverage(a)
    \/ WalkFiles(a) \/ ReadText(a) \/ Texted(a)

-----------------------------------------------------------------------------
(* Mail. *)

Changes == changed < MaxChanged /\ changed' = changed + 1 /\ Stirred
File(text) == [text |-> text, stamp |-> changed + 2]
SameSidecar == UNCHANGED <<wholeText, sidecar, writer, builder>>

Arrives(p) ==
    /\ Changes /\ \A q \in Paths : MidAt[q] = MidAt[p] => ~OnDisk(q)
    /\ \E text \in MayHold(p) : disk' = [disk EXCEPT ![p] = File(text)]
    /\ live' = live \cup {MidAt[p]}
    /\ SameSidecar

\* The flags stand in the file too; the text changes only in a draft.
Rewrites(p) ==
    /\ Changes /\ OnDisk(p)
    /\ \E text \in Texts :
         /\ Draft(p) \/ text = disk[p].text
         /\ disk' = [disk EXCEPT ![p] = File(text)]
    /\ SameSidecar /\ UNCHANGED live

FillsIn(p) ==
    /\ Changes /\ OnDisk(p) /\ FullOf[p] # p
    /\ \E text \in MayHold(p) :
         /\ disk[p].text \in {"none", text}
         /\ disk' = [disk EXCEPT ![p] = Absent, ![FullOf[p]] = File(text)]
    /\ SameSidecar /\ UNCHANGED live

Deletes(m) ==
    /\ Changes /\ m \in live
    /\ live' = live \ {m}
    /\ SameSidecar /\ UNCHANGED disk

Expunges(p) ==
    /\ Changes /\ OnDisk(p) /\ MidAt[p] \notin live
    /\ disk' = [disk EXCEPT ![p] = Absent]
    /\ SameSidecar /\ UNCHANGED live

BodiesNext ==
    \/ \E b \in Builds : BuildStep(b)
    \/ \E a \in Asks : AskStep(a)
    \/ \E p \in Paths : Arrives(p) \/ Rewrites(p) \/ FillsIn(p) \/ Expunges(p)
    \/ \E m \in Mids : Deletes(m)

BodiesSpec == BodiesInit /\ [][BodiesNext]_bodyVars

-----------------------------------------------------------------------------
(* Properties. *)

\* What a later build will skip as unchanged is searchable by the text it has now: no
\* order of builds, kills and changes leaves a stale body recorded as current.
RecordedIsSearchable ==
    \A p \in Paths :
        OnDisk(p) /\ disk[p].text # "none" /\ sidecar.recorded[p] = disk[p].stamp
            => sidecar.bodies[MidAt[p]] = disk[p].text

\* An empty answer that says every message has a searchable body is not for lack of an
\* indexed body: when nothing changed during the search, each live message had one and
\* none held the word (body_coverage, #156 and #119).
FullCoverageMeansSearched ==
    \A a \in Asks :
        Asked(a, "done") /\ ask[a].covered /\ ask[a].still
            => \A m \in live : sidecar.bodies[m] \notin {Absent, "word"}

\* mail_bodies calls a message missing only if, when nothing changed meanwhile, no file
\* holds a text of it (MailAdapter.get_bodies).
MissingMeansNoText ==
    \A a \in Asks, p \in Paths :
        Asked(a, "texts") /\ ask[a].still /\ OnDisk(p) /\ MidAt[p] \in ask[a].hits \ ask[a].got
            => disk[p].text = "none"

\* Nothing that the reads of bodies say or skip hides a text that stands on the disk.
BodyReadsAreHonest ==
    RecordedIsSearchable /\ FullCoverageMeansSearched /\ MissingMeansNoText
=============================================================================
