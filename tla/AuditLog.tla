------------------------------ MODULE AuditLog ------------------------------
(***************************************************************************)
(* audit.jsonl and its one backup, audit.jsonl.1, as audit_write and the   *)
(* readers of audit.py use them.  There is no lock: every server process,  *)
(* the daemon, the dedupe CLI and the threads of each of them append to    *)
(* the same two files, and mail_undo reads them back to find a receipt.    *)
(*                                                                         *)
(* A file is an inode with a set of records; a path names an inode or      *)
(* nothing.  An append through a handle that was opened before a rotation  *)
(* lands in the rotated inode.  The 5 MB threshold is Cap records.         *)
(***************************************************************************)
EXTENDS Integers, FiniteSets, Sequences

CONSTANTS
    Writers,        \* threads that call audit_write
    Undoer,         \* the writer whose first record is the plan of the receipt that is undone
    Each,           \* bound: calls of audit_write per writer
    Cap             \* a live file with more records than this is rotated

ASSUME WritersAssumption == IsFiniteSet(Writers) /\ Undoer \in Writers
ASSUME BoundsAssumption == Each \in Nat /\ Cap \in Nat \ {0}

Records == Writers \X (1 .. Each)
NoFile == 0
Plan == <<Undoer, 1>>

VARIABLES
    live, old,      \* the inodes that audit.jsonl and audit.jsonl.1 name, or NoFile
    content,        \* the records of each inode, in the order they were created
    wpc, handle,    \* per writer: the next step of audit_write, the inode it opened
    sent,           \* per writer: calls of audit_write begun
    acked,          \* the records for which audit_write answered True, in order
    rotations,      \* replaces so far
    openedAt,       \* per record: the rotation count when its file was opened
    rpc,            \* the next step of undo_plan
    seen,           \* per read_all of undo_plan: the records it has read
    sinceStart      \* per read_all: the records acked and the rotations when it began

Inodes == 1 .. Len(content)
fileVars == <<live, old, content, rotations>>
writeVars == <<wpc, handle, sent, acked, openedAt>>
readVars == <<rpc, seen, sinceStart>>
vars == <<fileVars, writeVars, readVars>>

TypeOK ==
    /\ live \in Inodes \cup {NoFile}
    /\ old \in Inodes \cup {NoFile}
    /\ content \in Seq(SUBSET Records)
    /\ wpc \in [Writers -> {"idle", "rotate", "open", "append"}]
    /\ handle \in [Writers -> Inodes \cup {NoFile}]
    /\ sent \in [Writers -> 0 .. Each]
    /\ acked \in Seq(Records)
    /\ rotations \in Nat
    /\ openedAt \in [Records -> Nat]
    /\ rpc \in {"idle", "live1", "old2", "live2", "planned", "norecord"}
    /\ seen \in [1 .. 2 -> SUBSET Records]
    /\ sinceStart \in [1 .. 2 -> [records : SUBSET Records, rotations : Nat]]

Init ==
    /\ live = NoFile /\ old = NoFile
    /\ content = << >>
    /\ wpc = [w \in Writers |-> "idle"]
    /\ handle = [w \in Writers |-> NoFile]
    /\ sent = [w \in Writers |-> 0]
    /\ acked = << >>
    /\ rotations = 0
    /\ openedAt = [r \in Records |-> 0]
    /\ rpc = "idle"
    /\ seen = [k \in 1 .. 2 |-> {}]
    /\ sinceStart = [k \in 1 .. 2 |-> [records |-> {}, rotations |-> 0]]

ContentOf(path) == IF path = NoFile THEN {} ELSE content[path]
Current(w) == <<w, sent[w]>>
Acked == {acked[i] : i \in 1 .. Len(acked)}

-----------------------------------------------------------------------------
(* audit_write, one step per system call.                                  *)

\* path.exists() and path.stat().st_size > _AUDIT_MAX_BYTES
CheckSize(w) ==
    /\ wpc[w] = "idle"
    /\ sent[w] < Each
    /\ sent' = [sent EXCEPT ![w] = @ + 1]
    /\ wpc' = [wpc EXCEPT ![w] = IF Cardinality(ContentOf(live)) > Cap THEN "rotate" ELSE "open"]
    /\ UNCHANGED <<fileVars, handle, acked, openedAt, readVars>>

\* Bug: the full file is removed instead of renamed.
RotateAway(w) ==
    /\ wpc[w] = "rotate"
    /\ live # NoFile
    /\ live' = NoFile
    /\ rotations' = rotations + 1
    /\ wpc' = [wpc EXCEPT ![w] = "open"]
    /\ UNCHANGED <<old, content, handle, sent, acked, openedAt, readVars>>

\* path.replace(path + ".1"): the former backup is gone.
Rotate(w) ==
    /\ wpc[w] = "rotate"
    /\ live # NoFile
    /\ old' = live
    /\ live' = NoFile
    /\ rotations' = rotations + 1
    /\ wpc' = [wpc EXCEPT ![w] = "open"]
    /\ UNCHANGED <<content, handle, sent, acked, openedAt, readVars>>

\* open("a") creates a missing file.
Open(w) ==
    /\ wpc[w] = "open"
    /\ IF live = NoFile
       THEN live' = Len(content) + 1 /\ content' = Append(content, {})
       ELSE UNCHANGED <<live, content>>
    /\ handle' = [handle EXCEPT ![w] = live']
    /\ openedAt' = [openedAt EXCEPT ![Current(w)] = rotations]
    /\ wpc' = [wpc EXCEPT ![w] = "append"]
    /\ UNCHANGED <<old, rotations, sent, acked, readVars>>

AppendRecord(w) ==
    /\ wpc[w] = "append"
    /\ content' = [content EXCEPT ![handle[w]] = @ \cup {Current(w)}]
    /\ acked' = Append(acked, Current(w))
    /\ handle' = [handle EXCEPT ![w] = NoFile]
    /\ wpc' = [wpc EXCEPT ![w] = "idle"]
    /\ UNCHANGED <<live, old, rotations, sent, openedAt, readVars>>

\* Any exception is swallowed and answered False: the disk is full, or the file to
\* rotate is gone because another writer has just rotated it.
WriteFails(w) ==
    /\ wpc[w] # "idle"
    /\ handle' = [handle EXCEPT ![w] = NoFile]
    /\ wpc' = [wpc EXCEPT ![w] = "idle"]
    /\ UNCHANGED <<fileVars, sent, acked, openedAt, readVars>>

-----------------------------------------------------------------------------
(* undo_plan reads the whole log twice: find_receipt for the plan and the  *)
(* outcomes, _left_sources for the left_source map.  Each read_all is two  *)
(* file reads, the backup first.                                           *)

Starts(k) ==
    sinceStart' = [sinceStart EXCEPT ![k] = [records |-> Acked, rotations |-> rotations]]

ReadOld(k, from, to) ==
    /\ rpc = from
    /\ Starts(k)
    /\ seen' = [seen EXCEPT ![k] = ContentOf(old)]
    /\ rpc' = to
    /\ UNCHANGED <<fileVars, writeVars>>

\* Bug: the live file is all there is (#575).
ReadLiveOnly(k, from, to) ==
    /\ rpc = from
    /\ seen' = [seen EXCEPT ![k] = ContentOf(live)]
    /\ rpc' = to
    /\ UNCHANGED <<fileVars, writeVars, sinceStart>>

ReadLive(k, from, to) ==
    /\ rpc = from
    /\ seen' = [seen EXCEPT ![k] = @ \cup ContentOf(live)]
    /\ rpc' = to
    /\ UNCHANGED <<fileVars, writeVars, sinceStart>>

FindReceiptReadsOld == ReadOld(1, "idle", "live1")
FindReceiptReadsLive ==
    ReadLive(1, "live1", IF Plan \in seen[1] \cup ContentOf(live) THEN "old2" ELSE "norecord")
LeftSourcesReadsOld == ReadOld(2, "old2", "live2")
LeftSourcesReadsLive == ReadLive(2, "live2", "planned")

-----------------------------------------------------------------------------
Write(w) == CheckSize(w) \/ Rotate(w) \/ Open(w) \/ AppendRecord(w) \/ WriteFails(w)

Read ==
    \/ FindReceiptReadsOld \/ FindReceiptReadsLive
    \/ LeftSourcesReadsOld \/ LeftSourcesReadsLive

Next == Read \/ \E w \in Writers : Write(w)

Spec == Init /\ [][Next]_vars

-----------------------------------------------------------------------------
(* Properties.                                                             *)

Retained == ContentOf(old) \cup ContentOf(live)

\* "one backup": a record that audit_write acknowledged outlives the next rotation, even
\* when the rotation runs between the open and the append.
OneRotationLosesNothing ==
    \A r \in Acked : rotations =< openedAt[r] + 1 => r \in Retained

\* The threshold bounds the files although it is checked before the append and by
\* nobody else's lock: each writer adds at most one record past it.
FilesStayBounded ==
    \A i \in Inodes : Cardinality(content[i]) =< Cap + Cardinality(Writers)

\* A read of the log that no rotation cuts in two sees each record that was there,
\* acknowledged and retained, when it began.
QuietReadIsComplete ==
    \A k \in 1 .. 2 :
        /\ rpc \in (IF k = 1 THEN {"old2", "live2", "planned", "norecord"} ELSE {"planned"})
        /\ rotations = sinceStart[k].rotations
        => \A r \in sinceStart[k].records :
              rotations =< openedAt[r] + 1 => r \in seen[k]

\* A receipt is kept over a rotation: of the last Cap acknowledged records, none is gone.
RecentRecordsRetained ==
    \A i \in 1 .. Len(acked) : i > Len(acked) - Cap => acked[i] \in Retained

=============================================================================
