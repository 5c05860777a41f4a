---------------------------- MODULE Server_proofs ----------------------------
(***************************************************************************)
(* Proofs about the server: the files it writes, the daemons that answer   *)
(* on its socket, and the worker thread behind its Health page.            *)
(*                                                                         *)
(* AuditLog, for every set of writers, every number of their calls and     *)
(* every threshold: type correctness, an acknowledged record outliving one *)
(* rotation, an undisturbed read seeing every such record, and the size of *)
(* the files.                                                              *)
(*                                                                         *)
(* FileExports, for every set of calls, processes, names and messages and  *)
(* whatever the user does: no call overwrites or removes what it did not   *)
(* make, apart from the two windows that MayChange names, and the files    *)
(* are as the answers tell.                                                *)
(*                                                                         *)
(* DaemonSocket, for every set of daemons and of calls, with and       *)
(* without a second daemon, for any number of exits: type correctness, and *)
(* that a call which was refused did not and will not run.                 *)
(*                                                                         *)
(* NativeWorker, for every set of calls and of pages and every kind of *)
(* work: however many pages are loaded, one thread waits for the worker.   *)
(***************************************************************************)
EXTENDS AuditLog, FileExports, DaemonSocket, NativeWorker, SequenceTheorems,
        FiniteSetTheorems, TLAPS

-----------------------------------------------------------------------------
(* AuditLog.                                                               *)

(* Type correctness.  A writer under way has begun a call, and the one     *)
(* that is about to append has opened a file.                              *)

Begun == \A w \in Writers : wpc[w] # "idle" => sent[w] \in 1 .. Each
Opened == \A w \in Writers : wpc[w] = "append" => handle[w] \in Inodes
TypeInv == TypeOK /\ Begun /\ Opened

LEMMA InitType == Init => TypeInv
<1> SUFFICES ASSUME Init PROVE TypeInv
  OBVIOUS
<1>1. content \in Seq(SUBSET Records) /\ acked \in Seq(Records)
  BY DEF Init
<1>2. 0 \in 0 .. Each
  BY BoundsAssumption
<1> QED BY <1>1, <1>2 DEF Init, TypeInv, TypeOK, Begun, Opened, NoFile

\* What a writer under way adds is one of the records.
LEMMA CurrentType ==
    ASSUME TypeInv, NEW w \in Writers, wpc[w] # "idle" PROVE Current(w) \in Records
BY DEF TypeInv, Begun, Current, Records

LEMMA ContentType == ASSUME TypeInv PROVE ContentOf(live) \subseteq Records
                                          /\ ContentOf(old) \subseteq Records
BY ElementOfSeq DEF TypeInv, TypeOK, Inodes, ContentOf, NoFile

LEMMA AckedType == ASSUME TypeInv PROVE Acked \subseteq Records
BY ElementOfSeq DEF TypeInv, TypeOK, Acked

LEMMA CheckSizeType ==
    ASSUME TypeInv, NEW w \in Writers, CheckSize(w) PROVE TypeInv'
<1>1. sent[w] + 1 \in 1 .. Each
  BY BoundsAssumption DEF TypeInv, TypeOK, CheckSize
<1>2. sent' \in [Writers -> 0 .. Each] /\ sent'[w] \in 1 .. Each
  BY <1>1 DEF TypeInv, TypeOK, CheckSize
<1>3. wpc' \in [Writers -> {"idle", "rotate", "open", "append"}]
  BY DEF TypeInv, TypeOK, CheckSize
<1>4. Begun'
  BY <1>2 DEF TypeInv, TypeOK, Begun, CheckSize
<1>5. Opened'
  BY DEF TypeInv, TypeOK, Opened, Inodes, CheckSize, fileVars
<1> QED BY <1>2, <1>3, <1>4, <1>5 DEF TypeInv, TypeOK, Inodes, CheckSize, fileVars, readVars

LEMMA RotateType ==
    ASSUME TypeInv, NEW w \in Writers, Rotate(w) PROVE TypeInv'
BY DEF TypeInv, TypeOK, Begun, Opened, Inodes, Rotate, readVars

\* A file that is created is empty and numbered after those before it.
LEMMA OpenGrows ==
    ASSUME TypeInv, NEW w \in Writers, Open(w)
    PROVE  /\ content' \in Seq(SUBSET Records)
           /\ Inodes \subseteq Inodes'
           /\ \A i \in Inodes : content'[i] = content[i]
           /\ live' \in Inodes'
           /\ live = NoFile => live' \notin Inodes /\ content'[live'] = {}
           /\ live # NoFile => live' = live
           /\ \A i \in Inodes' : i \in Inodes \/ (i = live' /\ live = NoFile)
<1>0. content \in Seq(SUBSET Records) /\ Len(content) \in Nat
  BY LenProperties DEF TypeInv, TypeOK
<1>1. CASE live = NoFile
  <2>1. content' = Append(content, {}) /\ live' = Len(content) + 1
    BY <1>1 DEF Open
  <2>2. /\ content' \in Seq(SUBSET Records)
        /\ Len(content') = Len(content) + 1
        /\ \A i \in 1 .. Len(content) : content'[i] = content[i]
        /\ content'[Len(content) + 1] = {}
    BY <1>0, <2>1, AppendProperties
  <2> QED BY <1>0, <1>1, <2>1, <2>2 DEF Inodes
<1>2. CASE live # NoFile
  <2>1. content' = content /\ live' = live
    BY <1>2 DEF Open
  <2> QED BY <1>0, <1>2, <2>1 DEF Inodes, TypeInv, TypeOK
<1> QED BY <1>1, <1>2

LEMMA OpenType ==
    ASSUME TypeInv, NEW w \in Writers, Open(w) PROVE TypeInv'
<1>1. old' \in Inodes' \cup {NoFile}
  BY OpenGrows DEF TypeInv, TypeOK, Open
<1>2. handle' \in [Writers -> Inodes' \cup {NoFile}]
  BY OpenGrows DEF TypeInv, TypeOK, Open
<1>3. \A v \in Writers : wpc'[v] = "append" => handle'[v] \in Inodes'
  BY OpenGrows DEF TypeInv, TypeOK, Opened, Open
<1>4. \A v \in Writers : wpc'[v] # "idle" => sent'[v] \in 1 .. Each
  BY DEF TypeInv, TypeOK, Begun, Open
<1>5. wpc' \in [Writers -> {"idle", "rotate", "open", "append"}]
  BY DEF TypeInv, TypeOK, Open
<1>6. openedAt' \in [Records -> Nat]
  BY DEF TypeInv, TypeOK, Open
<1> QED BY <1>1, <1>2, <1>3, <1>4, <1>5, <1>6, OpenGrows
        DEF TypeInv, TypeOK, Begun, Opened, Open, readVars

\* An append adds its record to one file and to what is acknowledged.
LEMMA AppendGrows ==
    ASSUME TypeInv, NEW w \in Writers, AppendRecord(w)
    PROVE  /\ content' \in Seq(SUBSET Records)
           /\ Inodes' = Inodes
           /\ handle[w] \in Inodes
           /\ content'[handle[w]] = content[handle[w]] \cup {Current(w)}
           /\ \A i \in Inodes : i # handle[w] => content'[i] = content[i]
           /\ acked' \in Seq(Records)
           /\ Acked' = Acked \cup {Current(w)}
<1>1. wpc[w] = "append" /\ handle[w] \in Inodes
  BY DEF AppendRecord, TypeInv, Opened
<1>2. Current(w) \in Records
  BY <1>1, CurrentType
<1>3. content \in Seq(SUBSET Records) /\ acked \in Seq(Records)
  BY DEF TypeInv, TypeOK
<1>4. content[handle[w]] \cup {Current(w)} \in SUBSET Records
  BY <1>1, <1>2, <1>3, ElementOfSeq DEF Inodes
<1>5. /\ content' \in Seq(SUBSET Records)
      /\ Len(content') = Len(content)
      /\ content'[handle[w]] = content[handle[w]] \cup {Current(w)}
      /\ \A i \in Inodes : i # handle[w] => content'[i] = content[i]
  BY <1>1, <1>3, <1>4, ExceptSeq DEF AppendRecord, Inodes
<1>6. /\ acked' \in Seq(Records)
      /\ Len(acked') = Len(acked) + 1
      /\ \A i \in 1 .. Len(acked) : acked'[i] = acked[i]
      /\ acked'[Len(acked) + 1] = Current(w)
  BY <1>2, <1>3, AppendProperties DEF AppendRecord
<1>7. Len(acked) \in Nat
  BY <1>3, LenProperties
<1>8. \A i \in 1 .. Len(acked') : i \in 1 .. Len(acked) \/ i = Len(acked) + 1
  BY <1>6, <1>7
<1>9. Acked' \subseteq Acked \cup {Current(w)}
  BY <1>6, <1>8 DEF Acked
<1>10. Acked \subseteq Acked' /\ Current(w) \in Acked'
  <2>1. 1 .. Len(acked) \subseteq 1 .. Len(acked') /\ Len(acked) + 1 \in 1 .. Len(acked')
    BY <1>6, <1>7
  <2> QED BY <2>1, <1>6 DEF Acked
<1> QED BY <1>1, <1>5, <1>6, <1>9, <1>10 DEF Inodes

LEMMA AppendType ==
    ASSUME TypeInv, NEW w \in Writers, AppendRecord(w) PROVE TypeInv'
<1>1. handle' \in [Writers -> Inodes' \cup {NoFile}]
  BY AppendGrows DEF TypeInv, TypeOK, AppendRecord
<1>2. wpc' \in [Writers -> {"idle", "rotate", "open", "append"}]
  BY DEF TypeInv, TypeOK, AppendRecord
<1>3. Begun' /\ Opened'
  BY AppendGrows DEF TypeInv, TypeOK, Begun, Opened, AppendRecord
<1> QED BY <1>1, <1>2, <1>3, AppendGrows DEF TypeInv, TypeOK, AppendRecord, readVars

LEMMA FailType ==
    ASSUME TypeInv, NEW w \in Writers, WriteFails(w) PROVE TypeInv'
BY DEF TypeInv, TypeOK, Begun, Opened, Inodes, WriteFails, fileVars, readVars

LEMMA ReadType == ASSUME TypeInv, Read PROVE TypeInv'
<1>1. ASSUME NEW k \in 1 .. 2, NEW from, NEW to \in {"live1", "live2"}, ReadOld(k, from, to)
      PROVE  TypeInv'
  <2>1. seen' \in [1 .. 2 -> SUBSET Records]
    BY <1>1, ContentType DEF TypeInv, TypeOK, ReadOld
  <2>2. sinceStart' \in [1 .. 2 -> [records : SUBSET Records, rotations : Nat]]
    BY <1>1, AckedType DEF TypeInv, TypeOK, ReadOld, Starts
  <2>3. rpc' \in {"idle", "live1", "old2", "live2", "planned", "norecord"}
    BY <1>1 DEF ReadOld
  <2> QED BY <1>1, <2>1, <2>2, <2>3
          DEF TypeInv, TypeOK, Begun, Opened, Inodes, ReadOld, fileVars, writeVars
<1>2. ASSUME NEW k \in 1 .. 2, NEW from, NEW to \in {"old2", "norecord", "planned"},
             ReadLive(k, from, to)
      PROVE  TypeInv'
  <2>1. seen' \in [1 .. 2 -> SUBSET Records]
    BY <1>2, ContentType DEF TypeInv, TypeOK, ReadLive
  <2>2. rpc' \in {"idle", "live1", "old2", "live2", "planned", "norecord"}
    BY <1>2 DEF ReadLive
  <2> QED BY <1>2, <2>1, <2>2
          DEF TypeInv, TypeOK, Begun, Opened, Inodes, ReadLive, fileVars, writeVars
<1>3. CASE FindReceiptReadsOld
  BY <1>1, <1>3 DEF FindReceiptReadsOld
<1>4. CASE FindReceiptReadsLive
  BY <1>2, <1>4 DEF FindReceiptReadsLive
<1>5. CASE LeftSourcesReadsOld
  BY <1>1, <1>5 DEF LeftSourcesReadsOld
<1>6. CASE LeftSourcesReadsLive
  BY <1>2, <1>6 DEF LeftSourcesReadsLive
<1> QED BY <1>3, <1>4, <1>5, <1>6 DEF Read

LEMMA StepType == ASSUME TypeInv, [Next]_vars PROVE TypeInv'
<1>1. CASE UNCHANGED vars
  BY <1>1 DEF TypeInv, TypeOK, Begun, Opened, Inodes, vars, fileVars, writeVars, readVars
<1>2. CASE Read
  BY <1>2, ReadType
<1>3. ASSUME NEW w \in Writers, Write(w) PROVE TypeInv'
  BY <1>3, CheckSizeType, RotateType, OpenType, AppendType, FailType DEF Write
<1> QED BY <1>1, <1>2, <1>3 DEF Next

\* The variables of the log hold what they are declared to hold.
THEOREM TypeCorrect == Spec => []TypeOK
<1>1. TypeInv => TypeOK
  BY DEF TypeInv
<1> QED BY <1>1, InitType, StepType, PTL DEF Spec

-----------------------------------------------------------------------------
(* One rotation loses nothing.  A record sits, or is about to be put, in   *)
(* an inode which is the live file until the first rotation after the      *)
(* open, and the backup until the second.                                  *)

Placed(r, i) ==
    /\ openedAt[r] =< rotations
    /\ rotations = openedAt[r] => i = live
    /\ rotations = openedAt[r] + 1 => i = old

\* A record that is acknowledged belongs to a call that is over.
NumbersAreNew ==
    \A r \in Acked :
        /\ r[2] =< sent[r[1]]
        /\ wpc[r[1]] # "idle" => r[2] < sent[r[1]]

AckedPlaced == \A r \in Acked : \E i \in Inodes : r \in content[i] /\ Placed(r, i)

PendingPlaced ==
    \A w \in Writers : wpc[w] = "append" => Placed(Current(w), handle[w])

LogInv == NumbersAreNew /\ AckedPlaced /\ PendingPlaced

LEMMA InitLog == Init => LogInv
BY DEF Init, LogInv, NumbersAreNew, AckedPlaced, PendingPlaced, Acked

\* The record that a writer is working on is not acknowledged yet.
LEMMA CurrentIsNew ==
    ASSUME TypeInv, NumbersAreNew, NEW w \in Writers, wpc[w] # "idle" PROVE Current(w) \notin Acked
BY DEF TypeInv, TypeOK, NumbersAreNew, Current

\* Two writers work on two records.
LEMMA CurrentIsOwn ==
    ASSUME NEW v, NEW w, v # w PROVE Current(v) # Current(w)
BY DEF Current

LEMMA CheckSizeLog ==
    ASSUME TypeInv, LogInv, NEW w \in Writers, CheckSize(w) PROVE LogInv'
<1>1. Acked' = Acked /\ UNCHANGED <<live, old, content, rotations, openedAt, handle>>
  BY DEF CheckSize, Acked, fileVars
<1>2. NumbersAreNew'
  <2> SUFFICES ASSUME NEW r \in Acked
               PROVE  /\ r[2] =< sent'[r[1]]
                      /\ wpc'[r[1]] # "idle" => r[2] < sent'[r[1]]
    BY <1>1 DEF NumbersAreNew
  <2>1. r[1] \in Writers /\ r[2] \in Nat
    BY AckedType, BoundsAssumption DEF Records
  <2> QED BY <2>1 DEF TypeInv, TypeOK, LogInv, NumbersAreNew, CheckSize
<1>3. AckedPlaced'
  BY <1>1 DEF LogInv, AckedPlaced, Placed, Inodes
<1>4. PendingPlaced'
  BY <1>1 DEF TypeInv, TypeOK, LogInv, PendingPlaced, Placed, Current, CheckSize
<1> QED BY <1>2, <1>3, <1>4 DEF LogInv

LEMMA RotateLog ==
    ASSUME TypeInv, LogInv, NEW w \in Writers, Rotate(w) PROVE LogInv'
<1>1. Acked' = Acked /\ Inodes' = Inodes /\ UNCHANGED <<content, openedAt, handle, sent>>
  BY DEF Rotate, Acked, Inodes
<1>2. NumbersAreNew'
  <2>1. \A v \in Writers : wpc'[v] # "idle" => wpc[v] # "idle"
    BY DEF TypeInv, TypeOK, Rotate
  <2>2. \A r \in Acked : r[1] \in Writers
    BY AckedType DEF Records
  <2> QED BY <1>1, <2>1, <2>2 DEF LogInv, NumbersAreNew
<1>3. ASSUME NEW r \in Records, NEW i, Placed(r, i) PROVE Placed(r, i)'
  <2>1. openedAt[r] \in Nat /\ rotations \in Nat
    BY DEF TypeInv, TypeOK
  <2> QED BY <1>3, <2>1 DEF Placed, Rotate
<1>4. AckedPlaced'
  BY <1>1, <1>3, AckedType DEF LogInv, AckedPlaced
<1>5. PendingPlaced'
  <2> SUFFICES ASSUME NEW v \in Writers, wpc'[v] = "append"
               PROVE  Placed(Current(v), handle[v])'
    BY <1>1 DEF PendingPlaced
  <2>1. wpc[v] = "append"
    BY DEF TypeInv, TypeOK, Rotate
  <2>2. Current(v) \in Records /\ Placed(Current(v), handle[v])
    BY <2>1, CurrentType DEF LogInv, PendingPlaced
  <2>3. Current(v)' = Current(v)
    BY <1>1 DEF Current
  <2> QED BY <1>1, <1>3, <2>2, <2>3 DEF Placed
<1> QED BY <1>2, <1>4, <1>5 DEF LogInv

LEMMA OpenLog ==
    ASSUME TypeInv, LogInv, NEW w \in Writers, Open(w) PROVE LogInv'
<1>1. Acked' = Acked /\ UNCHANGED <<old, rotations, sent>>
  BY DEF Open, Acked
<1>2. wpc[w] # "idle" /\ Current(w) \in Records /\ Current(w) \notin Acked
  BY CurrentType, CurrentIsNew DEF Open, LogInv
<1>3. NumbersAreNew'
  <2>1. \A v \in Writers : wpc'[v] # "idle" => wpc[v] # "idle"
    BY DEF TypeInv, TypeOK, Open
  <2>2. \A r \in Acked : r[1] \in Writers
    BY AckedType DEF Records
  <2> QED BY <1>1, <2>1, <2>2 DEF LogInv, NumbersAreNew
<1>4. ASSUME NEW r \in Records, NEW i \in Inodes, r # Current(w), Placed(r, i)
      PROVE  Placed(r, i)'
  <2>1. openedAt'[r] = openedAt[r]
    BY <1>4 DEF TypeInv, TypeOK, Open
  <2>2. i = live => i = live'
    BY OpenGrows DEF TypeInv, TypeOK, NoFile, Inodes
  <2> QED BY <1>1, <1>4, <2>1, <2>2 DEF Placed
<1>5. AckedPlaced'
  <2> SUFFICES ASSUME NEW r \in Acked
               PROVE  \E i \in Inodes' : r \in content'[i] /\ Placed(r, i)'
    BY <1>1 DEF AckedPlaced, Placed
  <2>1. PICK i \in Inodes : r \in content[i] /\ Placed(r, i)
    BY DEF LogInv, AckedPlaced
  <2>2. r \in content'[i] /\ i \in Inodes'
    BY <2>1, OpenGrows
  <2>3. r \in Records /\ r # Current(w)
    BY <1>2, AckedType
  <2> QED BY <1>4, <2>1, <2>2, <2>3
<1>6. PendingPlaced'
  <2> SUFFICES ASSUME NEW v \in Writers, wpc'[v] = "append"
               PROVE  Placed(Current(v), handle[v])'
    BY DEF PendingPlaced
  <2>1. Current(v)' = Current(v)
    BY <1>1 DEF Current
  <2>2. CASE v = w
    <3>1. handle'[w] = live' /\ openedAt'[Current(w)] = rotations
      BY <1>2 DEF TypeInv, TypeOK, Open
    <3>2. rotations \in Nat
      BY DEF TypeInv, TypeOK
    <3> QED BY <1>1, <2>1, <2>2, <3>1, <3>2 DEF Placed
  <2>3. CASE v # w
    <3>1. wpc[v] = "append" /\ handle'[v] = handle[v]
      BY <2>3 DEF TypeInv, TypeOK, Open
    <3>2. Current(v) \in Records /\ Current(v) # Current(w) /\ handle[v] \in Inodes
      BY <2>3, <3>1, CurrentType, CurrentIsOwn DEF TypeInv, Opened
    <3>3. Placed(Current(v), handle[v])
      BY <3>1 DEF LogInv, PendingPlaced
    <3> QED BY <1>4, <2>1, <3>1, <3>2, <3>3 DEF Placed
  <2> QED BY <2>2, <2>3
<1> QED BY <1>3, <1>5, <1>6 DEF LogInv

LEMMA AppendLog ==
    ASSUME TypeInv, LogInv, NEW w \in Writers, AppendRecord(w) PROVE LogInv'
<1>1. UNCHANGED <<live, old, rotations, sent, openedAt>> /\ wpc[w] = "append"
  BY DEF AppendRecord
<1>2. Current(w) \in Records /\ Current(w)[1] = w /\ Current(w)[2] = sent[w]
  BY <1>1, CurrentType DEF Current
<1>3. NumbersAreNew'
  <2> SUFFICES ASSUME NEW r \in Acked'
               PROVE  /\ r[2] =< sent[r[1]]
                      /\ wpc'[r[1]] # "idle" => r[2] < sent[r[1]]
    BY <1>1 DEF NumbersAreNew
  <2>1. CASE r = Current(w)
    <3>1. sent[w] \in Nat /\ wpc'[w] = "idle"
      BY BoundsAssumption DEF TypeInv, TypeOK, AppendRecord
    <3> QED BY <1>2, <2>1, <3>1
  <2>2. CASE r \in Acked
    <3>1. r[1] \in Writers
      BY <2>2, AckedType DEF Records
    <3>2. wpc'[r[1]] # "idle" => wpc[r[1]] # "idle"
      BY <3>1 DEF TypeInv, TypeOK, AppendRecord
    <3> QED BY <2>2, <3>2 DEF LogInv, NumbersAreNew
  <2> QED BY <2>1, <2>2, AppendGrows
<1>4. AckedPlaced'
  <2> SUFFICES ASSUME NEW r \in Acked'
               PROVE  \E i \in Inodes : r \in content'[i] /\ Placed(r, i)
    BY <1>1, AppendGrows DEF AckedPlaced, Placed
  <2>1. CASE r = Current(w)
    BY <1>1, <2>1, AppendGrows DEF LogInv, PendingPlaced
  <2>2. CASE r \in Acked
    <3>1. PICK i \in Inodes : r \in content[i] /\ Placed(r, i)
      BY <2>2 DEF LogInv, AckedPlaced
    <3>2. content[i] \subseteq content'[i]
      BY AppendGrows
    <3> QED BY <3>1, <3>2
  <2> QED BY <2>1, <2>2, AppendGrows
<1>5. PendingPlaced'
  <2> SUFFICES ASSUME NEW v \in Writers, wpc'[v] = "append"
               PROVE  Placed(Current(v), handle[v])'
    BY DEF PendingPlaced
  <2>1. wpc[v] = "append" /\ handle'[v] = handle[v] /\ Current(v)' = Current(v)
    BY <1>1 DEF TypeInv, TypeOK, AppendRecord, Current
  <2> QED BY <1>1, <2>1 DEF LogInv, PendingPlaced, Placed
<1> QED BY <1>3, <1>4, <1>5 DEF LogInv

LEMMA FailLog ==
    ASSUME TypeInv, LogInv, NEW w \in Writers, WriteFails(w) PROVE LogInv'
<1>1. Acked' = Acked /\ Inodes' = Inodes
      /\ UNCHANGED <<live, old, content, rotations, openedAt, sent>>
  BY DEF WriteFails, Acked, Inodes, fileVars
<1>2. \A v \in Writers : /\ wpc'[v] # "idle" => wpc[v] # "idle"
                         /\ wpc'[v] = "append" => wpc[v] = "append" /\ handle'[v] = handle[v]
  BY DEF TypeInv, TypeOK, WriteFails
<1>3. \A r \in Acked : r[1] \in Writers
  BY AckedType DEF Records
<1>4. NumbersAreNew'
  BY <1>1, <1>2, <1>3 DEF LogInv, NumbersAreNew
<1>5. AckedPlaced'
  BY <1>1 DEF LogInv, AckedPlaced, Placed
<1>6. PendingPlaced'
  BY <1>1, <1>2 DEF LogInv, PendingPlaced, Placed, Current
<1> QED BY <1>4, <1>5, <1>6 DEF LogInv

LEMMA ReadLog == ASSUME LogInv, UNCHANGED <<fileVars, writeVars>> PROVE LogInv'
BY DEF LogInv, NumbersAreNew, AckedPlaced, PendingPlaced, Placed, Acked, Inodes, Current,
       fileVars, writeVars

LEMMA ReadTouchesNothing == ASSUME Read PROVE UNCHANGED <<fileVars, writeVars>>
BY DEF Read, FindReceiptReadsOld, FindReceiptReadsLive, LeftSourcesReadsOld, LeftSourcesReadsLive,
       ReadOld, ReadLive

LEMMA StepLog == ASSUME TypeInv, LogInv, [Next]_vars PROVE LogInv'
<1>1. CASE UNCHANGED vars
  BY <1>1, ReadLog DEF vars
<1>2. CASE Read
  BY <1>2, ReadLog, ReadTouchesNothing
<1>3. ASSUME NEW w \in Writers, Write(w) PROVE LogInv'
  BY <1>3, CheckSizeLog, RotateLog, OpenLog, AppendLog, FailLog DEF Write
<1> QED BY <1>1, <1>2, <1>3 DEF Next

\* A record for which audit_write answered True is in audit.jsonl or audit.jsonl.1 until the
\* file it was appended through has been rotated twice since it was opened.
THEOREM OneRotationKeepsRecords == Spec => []OneRotationLosesNothing
<1>1. TypeInv /\ LogInv => OneRotationLosesNothing
  <2> SUFFICES ASSUME TypeInv, LogInv, NEW r \in Acked, rotations =< openedAt[r] + 1
               PROVE  r \in Retained
    BY DEF OneRotationLosesNothing
  <2>1. PICK i \in Inodes : r \in content[i] /\ Placed(r, i)
    BY DEF LogInv, AckedPlaced
  <2>2. rotations \in Nat /\ openedAt[r] \in Nat
    BY AckedType DEF TypeInv, TypeOK
  <2>3. i = live \/ i = old
    BY <2>1, <2>2 DEF Placed
  <2>4. i # NoFile
    BY DEF Inodes, NoFile
  <2> QED BY <2>1, <2>3, <2>4 DEF Retained, ContentOf
<1> QED BY <1>1, InitType, InitLog, StepType, StepLog, PTL DEF Spec

-----------------------------------------------------------------------------
(* An undisturbed read is complete.  The backup is read first: it holds    *)
(* what was rotated before the read began, and what is read from the live  *)
(* file after it is the rest, as long as no rotation came between.         *)

OldRead(k) ==
    rpc \in (IF k = 1 THEN {"live1", "old2", "live2", "planned", "norecord"}
                      ELSE {"live2", "planned"})
LiveRead(k) ==
    rpc \in (IF k = 1 THEN {"old2", "live2", "planned", "norecord"} ELSE {"planned"})

SinceIsPast(k) ==
    /\ sinceStart[k].rotations =< rotations
    /\ sinceStart[k].records \subseteq Acked

BackupSeen(k) ==
    OldRead(k) /\ rotations = sinceStart[k].rotations
    => \A r \in sinceStart[k].records : rotations = openedAt[r] + 1 => r \in seen[k]

AllSeen(k) ==
    LiveRead(k) /\ rotations = sinceStart[k].rotations
    => \A r \in sinceStart[k].records : rotations =< openedAt[r] + 1 => r \in seen[k]

ReadInv == \A k \in 1 .. 2 : SinceIsPast(k) /\ BackupSeen(k) /\ AllSeen(k)

LEMMA InitRead == Init => ReadInv
BY DEF Init, ReadInv, SinceIsPast, BackupSeen, AllSeen, OldRead, LiveRead

\* Where an acknowledged record is while it is retained.
LEMMA WhereItIs ==
    ASSUME TypeInv, LogInv, NEW r \in Acked, rotations =< openedAt[r] + 1
    PROVE  \/ rotations = openedAt[r] + 1 /\ r \in ContentOf(old)
           \/ rotations = openedAt[r] /\ r \in ContentOf(live)
<1>1. PICK i \in Inodes : r \in content[i] /\ Placed(r, i)
  BY DEF LogInv, AckedPlaced
<1>2. rotations \in Nat /\ openedAt[r] \in Nat
  BY AckedType DEF TypeInv, TypeOK
<1>3. rotations = openedAt[r] \/ rotations = openedAt[r] + 1
  BY <1>1, <1>2 DEF Placed
<1>4. i # NoFile
  BY DEF Inodes, NoFile
<1> QED BY <1>1, <1>3, <1>4 DEF Placed, ContentOf

LEMMA OldReadRead ==
    ASSUME TypeInv, LogInv, ReadInv, NEW k \in 1 .. 2,
           k = 1 => rpc' = "live1",
           k = 2 => rpc = "old2" /\ rpc' = "live2",
           NEW from, ReadOld(k, from, rpc')
    PROVE  ReadInv'
<1>1. Acked' = Acked /\ UNCHANGED <<rotations, openedAt>>
  BY DEF ReadOld, Acked, fileVars, writeVars
<1>2. /\ sinceStart'[k] = [records |-> Acked, rotations |-> rotations]
      /\ seen'[k] = ContentOf(old)
      /\ \A j \in 1 .. 2 : j # k => sinceStart'[j] = sinceStart[j] /\ seen'[j] = seen[j]
  BY DEF TypeInv, TypeOK, ReadOld, Starts
<1>3. SinceIsPast(k)' /\ BackupSeen(k)' /\ AllSeen(k)'
  <2>1. SinceIsPast(k)'
    BY <1>1, <1>2 DEF SinceIsPast, TypeInv, TypeOK
  <2>2. BackupSeen(k)'
    <3> SUFFICES ASSUME NEW r \in Acked, rotations = openedAt[r] + 1
                 PROVE  r \in ContentOf(old)
      BY <1>1, <1>2 DEF BackupSeen
    <3>1. openedAt[r] \in Nat
      BY AckedType DEF TypeInv, TypeOK
    <3> QED BY <3>1, WhereItIs
  <2>3. ~LiveRead(k)'
    BY DEF LiveRead
  <2> QED BY <2>1, <2>2, <2>3 DEF AllSeen
<1>4. ASSUME NEW j \in 1 .. 2, j # k PROVE SinceIsPast(j)' /\ BackupSeen(j)' /\ AllSeen(j)'
  <2>1. SinceIsPast(j) /\ BackupSeen(j) /\ AllSeen(j)
    BY DEF ReadInv
  <2>2. OldRead(j)' => OldRead(j)
    BY <1>4 DEF OldRead
  <2>3. LiveRead(j)' => LiveRead(j)
    BY <1>4 DEF LiveRead
  <2> QED BY <1>1, <1>2, <1>4, <2>1, <2>2, <2>3 DEF SinceIsPast, BackupSeen, AllSeen
<1> QED BY <1>3, <1>4 DEF ReadInv

LEMMA LiveReadRead ==
    ASSUME TypeInv, LogInv, ReadInv, NEW k \in 1 .. 2,
           k = 1 => rpc = "live1" /\ rpc' \in {"old2", "norecord"},
           k = 2 => rpc = "live2" /\ rpc' = "planned",
           NEW from, ReadLive(k, from, rpc')
    PROVE  ReadInv'
<1>1. Acked' = Acked /\ UNCHANGED <<rotations, openedAt, sinceStart>>
  BY DEF ReadLive, Acked, fileVars, writeVars
<1>2. /\ seen'[k] = seen[k] \cup ContentOf(live)
      /\ \A j \in 1 .. 2 : j # k => seen'[j] = seen[j]
  BY DEF TypeInv, TypeOK, ReadLive
<1>3. SinceIsPast(k) /\ BackupSeen(k) /\ OldRead(k)
  BY DEF ReadInv, OldRead
<1>4. BackupSeen(k)'
  BY <1>1, <1>2, <1>3 DEF BackupSeen
<1>5. AllSeen(k)'
  <2> SUFFICES ASSUME rotations = sinceStart[k].rotations,
                      NEW r \in sinceStart[k].records, rotations =< openedAt[r] + 1
               PROVE  r \in seen'[k]
    BY <1>1 DEF AllSeen
  <2>1. r \in Acked
    BY <1>3 DEF SinceIsPast
  <2> QED BY <1>2, <1>3, <2>1, WhereItIs DEF BackupSeen
<1>6. ASSUME NEW j \in 1 .. 2, j # k PROVE SinceIsPast(j)' /\ BackupSeen(j)' /\ AllSeen(j)'
  <2>1. SinceIsPast(j) /\ BackupSeen(j) /\ AllSeen(j)
    BY DEF ReadInv
  <2>2. OldRead(j)' => OldRead(j)
    BY <1>6 DEF OldRead
  <2>3. LiveRead(j)' => LiveRead(j)
    BY <1>6 DEF LiveRead
  <2> QED BY <1>1, <1>2, <1>6, <2>1, <2>2, <2>3 DEF SinceIsPast, BackupSeen, AllSeen
<1> QED BY <1>1, <1>3, <1>4, <1>5, <1>6 DEF ReadInv, SinceIsPast

LEMMA ReadRead == ASSUME TypeInv, LogInv, ReadInv, Read PROVE ReadInv'
<1>1. CASE FindReceiptReadsOld
  <2>1. ReadOld(1, "idle", rpc') /\ rpc' = "live1"
    BY <1>1 DEF FindReceiptReadsOld, ReadOld
  <2> QED BY <2>1, OldReadRead
<1>2. CASE FindReceiptReadsLive
  <2>1. ReadLive(1, "live1", rpc') /\ rpc = "live1" /\ rpc' \in {"old2", "norecord"}
    BY <1>2 DEF FindReceiptReadsLive, ReadLive
  <2> QED BY <2>1, LiveReadRead
<1>3. CASE LeftSourcesReadsOld
  <2>1. ReadOld(2, "old2", rpc') /\ rpc = "old2" /\ rpc' = "live2"
    BY <1>3 DEF LeftSourcesReadsOld, ReadOld
  <2> QED BY <2>1, OldReadRead
<1>4. CASE LeftSourcesReadsLive
  <2>1. ReadLive(2, "live2", rpc') /\ rpc = "live2" /\ rpc' = "planned"
    BY <1>4 DEF LeftSourcesReadsLive, ReadLive
  <2> QED BY <2>1, LiveReadRead
<1> QED BY <1>1, <1>2, <1>3, <1>4 DEF Read

\* A write changes when no acknowledged record was opened, and a rotation ends the
\* claim of every read that began before it.
LEMMA WriteRead ==
    ASSUME TypeInv, LogInv, ReadInv, NEW w \in Writers, Write(w) PROVE ReadInv'
<1>1. UNCHANGED readVars
  BY DEF Write, CheckSize, Rotate, Open, AppendRecord, WriteFails
<1>2. Acked \subseteq Acked'
  <2>1. CASE AppendRecord(w)
    BY <2>1, AppendGrows
  <2>2. CASE ~AppendRecord(w)
    BY <2>2 DEF Write, CheckSize, Rotate, Open, WriteFails, Acked
  <2> QED BY <2>1, <2>2
<1>3. \A r \in Acked : openedAt'[r] = openedAt[r]
  <2>1. CASE Open(w)
    <3>1. Current(w) \notin Acked
      BY <2>1, CurrentIsNew DEF Open, LogInv
    <3> QED BY <2>1, <3>1, AckedType DEF TypeInv, TypeOK, Open
  <2>2. CASE ~Open(w)
    BY <2>2 DEF Write, CheckSize, Rotate, AppendRecord, WriteFails
  <2> QED BY <2>1, <2>2
<1>4. rotations \in Nat /\ rotations' \in {rotations, rotations + 1}
  BY DEF TypeInv, TypeOK, Write, CheckSize, Rotate, Open, AppendRecord, WriteFails, fileVars
<1>5. ASSUME NEW k \in 1 .. 2 PROVE SinceIsPast(k)' /\ BackupSeen(k)' /\ AllSeen(k)'
  <2>1. SinceIsPast(k) /\ BackupSeen(k) /\ AllSeen(k) /\ sinceStart[k].rotations \in Nat
    BY DEF ReadInv, TypeInv, TypeOK
  <2>2. SinceIsPast(k)'
    BY <1>1, <1>2, <1>4, <2>1 DEF SinceIsPast, readVars
  <2>3. CASE rotations' = rotations
    BY <1>1, <1>3, <2>1, <2>2, <2>3
    DEF SinceIsPast, BackupSeen, AllSeen, OldRead, LiveRead, readVars
  <2>4. CASE rotations' = rotations + 1
    <3>1. rotations' # sinceStart'[k].rotations
      BY <1>1, <1>4, <2>1, <2>4 DEF SinceIsPast, readVars
    <3> QED BY <2>2, <3>1 DEF BackupSeen, AllSeen
  <2> QED BY <1>4, <2>3, <2>4
<1> QED BY <1>5 DEF ReadInv

LEMMA StepRead == ASSUME TypeInv, LogInv, ReadInv, [Next]_vars PROVE ReadInv'
<1>1. CASE UNCHANGED vars
  BY <1>1 DEF ReadInv, SinceIsPast, BackupSeen, AllSeen, OldRead, LiveRead, Acked,
              vars, fileVars, writeVars, readVars
<1>2. CASE Read
  BY <1>2, ReadRead
<1>3. ASSUME NEW w \in Writers, Write(w) PROVE ReadInv'
  BY <1>3, WriteRead
<1> QED BY <1>1, <1>2, <1>3 DEF Next

\* What mail_undo reads of the log, in two passes of two files each, holds every record
\* that was there to be read when the pass began, unless a rotation cut the pass in two.
THEOREM QuietReadsComplete == Spec => []QuietReadIsComplete
<1>1. ReadInv => QuietReadIsComplete
  BY DEF ReadInv, AllSeen, LiveRead, QuietReadIsComplete
<1> QED BY <1>1, InitType, InitLog, InitRead, StepType, StepLog, StepRead, PTL DEF Spec

-----------------------------------------------------------------------------
(* The size of the files.  Once a file is past the threshold no new writer *)
(* turns to it: only those add to it that had checked the size before.     *)

\* The writers that are about to append to inode i.
Heading(i) ==
    {w \in Writers : \/ wpc[w] = "append" /\ handle[w] = i
                     \/ wpc[w] = "open" /\ live = i}

Fits(i) ==
    /\ IsFiniteSet(content[i])
    /\ Cardinality(content[i]) > Cap
       => Cardinality(content[i]) + Cardinality(Heading(i)) =< Cap + Cardinality(Writers)

SizeInv == \A i \in Inodes : Fits(i)

LEMMA WritersCount ==
    /\ IsFiniteSet(Writers) /\ Cardinality(Writers) \in Nat
    /\ \A S \in SUBSET Writers : /\ IsFiniteSet(S) /\ Cardinality(S) \in Nat
                                 /\ Cardinality(S) =< Cardinality(Writers)
BY WritersAssumption, FS_Subset, FS_CardinalityType

LEMMA HeadingType == \A i : Heading(i) \subseteq Writers /\ Heading(i)' \subseteq Writers
BY DEF Heading

LEMMA InitSize == Init => SizeInv
<1> SUFFICES ASSUME Init PROVE Inodes = {}
  BY DEF SizeInv
<1> QED BY DEF Init, Inodes

\* A file that does not grow and that nobody new heads for stays within its bound.
LEMMA StillFits ==
    ASSUME NEW i, Fits(i), content'[i] = content[i],
           Cardinality(content[i]) > Cap => Heading(i)' \subseteq Heading(i)
    PROVE  Fits(i)'
<1>1. CASE Cardinality(content[i]) > Cap
  <2>1. Cardinality(Heading(i)') =< Cardinality(Heading(i))
    BY <1>1, WritersCount, HeadingType, FS_Subset
  <2>2. Cardinality(Heading(i)') \in Nat /\ Cardinality(Heading(i)) \in Nat
    BY WritersCount, HeadingType
  <2>3. Cardinality(content[i]) \in Nat
    BY FS_CardinalityType DEF Fits
  <2>4. Cardinality(content[i]) + Cardinality(Heading(i)) =< Cap + Cardinality(Writers)
    BY <1>1 DEF Fits
  <2>5. Cardinality(content[i]) + Cardinality(Heading(i)') =< Cap + Cardinality(Writers)
    BY <2>1, <2>2, <2>3, <2>4, WritersCount, BoundsAssumption
  <2> QED BY <2>5 DEF Fits
<1>2. CASE ~(Cardinality(content[i]) > Cap)
  BY <1>2 DEF Fits
<1> QED BY <1>1, <1>2

LEMMA AppendSize ==
    ASSUME TypeInv, SizeInv, NEW w \in Writers, AppendRecord(w) PROVE SizeInv'
<1>1. \A i : Heading(i)' \subseteq Heading(i) \ {w}
  BY DEF TypeInv, TypeOK, AppendRecord, Heading
<1>2. ASSUME NEW i \in Inodes, i # handle[w] PROVE Fits(i)'
  BY <1>1, <1>2, AppendGrows, StillFits DEF SizeInv
<1>3. ASSUME NEW i \in Inodes, i = handle[w] PROVE Fits(i)'
  <2> DEFINE n == Cardinality(content[i])
             h == Cardinality(Heading(i))
             next == Cardinality(content'[i])
             left == Cardinality(Heading(i)')
  <2>1. Fits(i) /\ content'[i] = content[i] \cup {Current(w)}
    BY <1>3, AppendGrows DEF SizeInv
  <2>2. w \in Heading(i)
    BY <1>3 DEF AppendRecord, Heading
  <2>3. IsFiniteSet(content'[i]) /\ n \in Nat /\ next \in {n, n + 1}
    <3>1. IsFiniteSet(content[i])
      BY <2>1 DEF Fits
    <3>2. /\ IsFiniteSet(content[i] \cup {Current(w)})
          /\ Cardinality(content[i] \cup {Current(w)}) \in {n, n + 1}
      BY <3>1, FS_AddElement
    <3>3. n \in Nat
      BY <3>1, FS_CardinalityType
    <3> QED BY <2>1, <3>2, <3>3
  <2>4. h \in Nat /\ left \in Nat /\ left =< h - 1 /\ h =< Cardinality(Writers)
    <3>1. IsFiniteSet(Heading(i)) /\ h \in Nat /\ h =< Cardinality(Writers)
      BY WritersCount, HeadingType
    <3>2. IsFiniteSet(Heading(i) \ {w}) /\ Cardinality(Heading(i) \ {w}) = h - 1
      BY <2>2, <3>1, FS_RemoveElement
    <3>3. left =< Cardinality(Heading(i) \ {w})
      BY <1>1, <3>2, FS_Subset
    <3>4. left \in Nat
      BY WritersCount, HeadingType
    <3> QED BY <3>1, <3>2, <3>3, <3>4
  <2>5. n > Cap => n + h =< Cap + Cardinality(Writers)
    BY <2>1 DEF Fits
  <2>6. next > Cap => next + left =< Cap + Cardinality(Writers)
    <3> HIDE DEF n, h, next, left
    <3> QED BY <2>3, <2>4, <2>5, WritersCount, BoundsAssumption
  <2> QED BY <2>3, <2>6 DEF Fits
<1> QED BY <1>2, <1>3, AppendGrows DEF SizeInv

LEMMA WriteSize ==
    ASSUME TypeInv, SizeInv, NEW w \in Writers, Write(w) PROVE SizeInv'
<1>1. CASE CheckSize(w)
  <2>1. content' = content /\ live' = live /\ handle' = handle
    BY <1>1 DEF CheckSize, fileVars
  <2>2. ASSUME NEW i \in Inodes, Cardinality(content[i]) > Cap
        PROVE  Heading(i)' \subseteq Heading(i)
    <3>1. i = live => wpc'[w] = "rotate"
      BY <1>1, <2>2 DEF TypeInv, TypeOK, CheckSize, ContentOf, Inodes, NoFile
    <3>2. \A v \in Writers : v # w => wpc'[v] = wpc[v]
      BY <1>1 DEF TypeInv, TypeOK, CheckSize
    <3>3. wpc'[w] # "append"
      BY <1>1 DEF TypeInv, TypeOK, CheckSize
    <3> QED BY <2>1, <3>1, <3>2, <3>3 DEF Heading
  <2> QED BY <2>1, <2>2, StillFits DEF SizeInv, Inodes
<1>2. CASE Rotate(w)
  <2>1. content' = content /\ \A i \in Inodes : Heading(i)' \subseteq Heading(i)
    BY <1>2 DEF TypeInv, TypeOK, Rotate, Heading, Inodes, NoFile
  <2> QED BY <2>1, StillFits DEF SizeInv, Inodes
<1>3. CASE Open(w)
  <2>1. \A v \in Writers : v # w => wpc'[v] = wpc[v] /\ handle'[v] = handle[v]
    BY <1>3 DEF TypeInv, TypeOK, Open
  <2>2. wpc[w] = "open" /\ wpc'[w] = "append" /\ handle'[w] = live'
    BY <1>3 DEF TypeInv, TypeOK, Open
  <2>3. ASSUME NEW i \in Inodes PROVE Fits(i)'
    <3>1. i = live' => i = live
      BY <1>3, OpenGrows
    <3>2. Heading(i)' \subseteq Heading(i)
      BY <2>1, <2>2, <3>1 DEF Heading
    <3> QED BY <1>3, <3>2, OpenGrows, StillFits DEF SizeInv
  <2>4. ASSUME NEW i \in Inodes', i \notin Inodes PROVE Fits(i)'
    <3>1. content'[i] = {}
      BY <1>3, <2>4, OpenGrows
    <3>2. IsFiniteSet({}) /\ Cardinality({}) = 0
      BY FS_EmptySet
    <3>3. IsFiniteSet(content'[i]) /\ ~(Cardinality(content'[i]) > Cap)
      BY <3>1, <3>2, BoundsAssumption
    <3> QED BY <3>3 DEF Fits
  <2> QED BY <2>3, <2>4 DEF SizeInv
<1>4. CASE AppendRecord(w)
  BY <1>4, AppendSize
<1>5. CASE WriteFails(w)
  <2>1. content' = content /\ \A i \in Inodes : Heading(i)' \subseteq Heading(i)
    BY <1>5 DEF TypeInv, TypeOK, WriteFails, Heading, fileVars
  <2> QED BY <2>1, StillFits DEF SizeInv, Inodes
<1> QED BY <1>1, <1>2, <1>3, <1>4, <1>5 DEF Write

LEMMA StepSize == ASSUME TypeInv, SizeInv, [Next]_vars PROVE SizeInv'
<1>1. CASE Read \/ UNCHANGED vars
  <2>1. UNCHANGED <<fileVars, writeVars>>
    BY <1>1, ReadTouchesNothing DEF vars
  <2> QED BY <2>1 DEF SizeInv, Fits, Heading, Inodes, fileVars, writeVars
<1>2. ASSUME NEW w \in Writers, Write(w) PROVE SizeInv'
  BY <1>2, WriteSize
<1> QED BY <1>1, <1>2 DEF Next

\* No file of the log outgrows the threshold by more than one record per writer, whatever
\* the writers and however their checks, rotations and appends interleave.
THEOREM FilesBounded == Spec => []FilesStayBounded
<1>1. SizeInv => FilesStayBounded
  <2> SUFFICES ASSUME SizeInv, NEW i \in Inodes
               PROVE  Cardinality(content[i]) =< Cap + Cardinality(Writers)
    BY DEF FilesStayBounded
  <2>1. Cardinality(content[i]) \in Nat /\ Cardinality(Heading(i)) \in Nat
    BY FS_CardinalityType, WritersCount, HeadingType DEF SizeInv, Fits
  <2> QED BY <2>1, WritersCount, BoundsAssumption DEF SizeInv, Fits
<1> QED BY <1>1, InitType, InitSize, StepType, StepSize, PTL DEF Spec

-----------------------------------------------------------------------------
(* FileExports.                                                            *)

PhotoSteps == {"sweep", "sweeping", "export", "publish", "leave"}
SaveSteps == {"save", "saving", "late", "confirm"}
Steps == PhotoSteps \cup SaveSteps \cup {"idle", "write", "writing", "done", "killed"}

CallRecord ==
    [tool : Tools \cup {Nobody}, step : Steps, pid : Pids \cup {Nobody}, plan : SUBSET Entries,
     wrote : SUBSET Entries, open : Entries \cup {Nobody}, listed : SUBSET Calls,
     told : SUBSET Entries, pending : BOOLEAN, free : SUBSET Entries]

ExportType ==
    /\ entry \in [Entries -> File \cup {Nothing}]
    /\ stage \in [Calls -> {"none", "dir", "zero", "whole"}]
    /\ pids \in [Pids -> {"server", "stranger", "none"}]
    /\ call \in [Calls -> CallRecord]
    /\ lost \subseteq Calls \X Entries

-----------------------------------------------------------------------------
(* The inductive invariant: what a call remembers, which files are its     *)
(* own, and where it runs.                                                 *)

Route(k) ==
    /\ k.step = "idle" => k = Fresh
    /\ k.step \in PhotoSteps => k.tool = "photo"
    /\ k.step \in {"write", "writing"} => k.tool = "mail"
    /\ k.step \in SaveSteps => k.tool = "save"
    /\ k.pending => k.tool = "save" /\ k.step \in {"saving", "late", "killed"}
    /\ k.step \in PhotoSteps \cup SaveSteps \/ k.pending => \E e \in Entries : k.plan = {e}
    /\ k.tool = "save" => k.plan \subseteq k.free /\ k.wrote = {}
    /\ k.step \in {"save", "saving"} => k.told = {}
    /\ k.step = "writing" => k.open \in k.plan \ k.wrote

Mine(c) == {e \in Entries : entry[e].by = c}
Lost(c, e) == <<c, e>> \in lost
Holds(c, e) == entry[e] = [by |-> c, size |-> "whole"] \/ Lost(c, e)

Files(c, k) ==
    /\ k.step \in {"idle", "sweep", "sweeping", "export", "publish", "save", "saving"} =>
           Mine(c) = {}
    /\ k.step \in {"leave", "write"} => Mine(c) \subseteq k.wrote
    /\ k.step = "writing" =>
           Mine(c) \subseteq k.wrote \cup {k.open} /\ (entry[k.open].by = c \/ Lost(c, k.open))
    /\ k.step = "confirm" =>
           /\ Mine(c) \subseteq k.plan
           /\ \A e \in k.plan : \/ entry[e].by = c /\ entry[e].size \in {"zero", "whole"}
                                \/ entry[e].by # c /\ Lost(c, e)
    /\ k.step = "done" => Mine(c) \subseteq k.told /\ \A e \in k.told : Holds(c, e)
    /\ \A e \in k.wrote : Holds(c, e)
    /\ k.tool = "photo" => \A e \in Mine(c) : entry[e].size = "whole"

Place(c, k) ==
    /\ stage[c] # "none" => k.tool = "photo" /\ k.step # "idle" /\ k.pid \in Pids
    /\ k.step \notin Over \cup {"idle"} => k.pid \in Pids /\ pids[k.pid] = "server"

CallInv(c) == Route(call[c]) /\ Files(c, call[c]) /\ Place(c, call[c])

IInv == ExportType /\ \A c \in Calls : CallInv(c)

LEMMA InitInv == ExportsInit => IInv
<1> SUFFICES ASSUME ExportsInit PROVE IInv
  OBVIOUS
<1>1. Fresh \in CallRecord
  BY DEF Fresh, CallRecord, Steps
<1>2. [by |-> User, size |-> "link"] \in File
  BY DEF File
<1>3. ExportType
  BY <1>1, <1>2 DEF ExportsInit, ExportType
<1>4. \A e \in Entries : entry[e].by \in {User, Nobody}
  BY DEF ExportsInit, Nothing
<1>5. ASSUME NEW c \in Calls PROVE CallInv(c)
  <2>1. Mine(c) = {} /\ call[c] = Fresh /\ stage[c] = "none"
    BY <1>4, ExportsAssumption DEF ExportsInit, Mine
  <2> QED
    BY <2>1 DEF CallInv, Route, Files, Place, Fresh, PhotoSteps, SaveSteps, Over
<1> QED BY <1>3, <1>5 DEF IInv

-----------------------------------------------------------------------------
(* What a step of one call is to the others.                               *)

\* An entry of call c stays as it is, or is lost to another; no other entry becomes its own.
FilesKept(c) ==
    /\ lost \subseteq lost'
    /\ \A e \in Entries :
          entry'[e] = entry[e] \/ (entry'[e].by # c /\ (entry[e].by = c => <<c, e>> \in lost'))

LEMMA PutKeeps ==
    ASSUME ExportType, NEW e \in Entries, NEW by, NEW what \in File \cup {Nothing}, Put(e, by, what)
    PROVE  /\ entry' \in [Entries -> File \cup {Nothing}] /\ lost' \subseteq Calls \X Entries
           /\ entry'[e] = what /\ \A x \in Entries \ {e} : entry'[x] = entry[x]
           /\ lost \subseteq lost'
           /\ \A c \in Calls : c # by /\ what.by # c => FilesKept(c)
BY DEF ExportType, Put, FilesKept

LEMMA SameKeeps ==
    ASSUME ExportType, SameFiles
    PROVE  /\ entry' \in [Entries -> File \cup {Nothing}] /\ lost' \subseteq Calls \X Entries
           /\ \A c \in Calls : FilesKept(c)
BY DEF ExportType, SameFiles, FilesKept

\* What FilesKept keeps of a call's claims.
LEMMA KeptFiles ==
    ASSUME NEW c \in Calls, NEW k \in CallRecord, FilesKept(c), Files(c, k),
           k.step = "writing" => k.open \in Entries
    PROVE  Files(c, k)'
<1>1. Mine(c)' \subseteq Mine(c)
  BY DEF Mine, FilesKept
<1>2. \A e \in Entries : Holds(c, e) => Holds(c, e)'
  BY DEF Holds, Lost, FilesKept
<1>3. \A e \in Entries : entry[e].by = c \/ Lost(c, e) => (entry[e].by = c \/ Lost(c, e))'
  BY DEF Lost, FilesKept
<1>4. \A e \in Entries : e \in Mine(c)' => entry'[e] = entry[e]
  BY DEF Mine, FilesKept
<1>5. k.plan \subseteq Entries /\ k.wrote \subseteq Entries /\ k.told \subseteq Entries
  BY DEF CallRecord
<1>6. k.step = "confirm" =>
         \A e \in k.plan : \/ entry'[e].by = c /\ entry'[e].size \in {"zero", "whole"}
                           \/ entry'[e].by # c /\ Lost(c, e)'
  BY <1>5 DEF Files, Lost, FilesKept
<1> QED BY <1>1, <1>2, <1>3, <1>4, <1>5, <1>6 DEF Files, Mine

LEMMA OthersKept ==
    ASSUME IInv, NEW c \in Calls, call'[c] = call[c],
           FilesKept(c), pids' = pids, stage'[c] \in {stage[c], "none"}
    PROVE  CallInv(c)'
<1>1. call[c] \in CallRecord /\ CallInv(c)
  BY DEF IInv, ExportType
<1>2. call[c].step = "writing" => call[c].open \in Entries
  BY <1>1 DEF CallInv, Route, CallRecord
<1>3. Files(c, call[c])'
  <2>1. Files(c, call[c])
    BY <1>1 DEF CallInv
  <2> QED BY <1>1, <1>2, <2>1, KeptFiles
<1> QED BY <1>1, <1>3 DEF CallInv, Place

\* A step of call c, from what it does to the call itself.
LEMMA OneCall ==
    ASSUME IInv, NEW c \in Calls, pids' = pids,
           call' \in [Calls -> CallRecord], \A d \in Calls \ {c} : call'[d] = call[d],
           entry' \in [Entries -> File \cup {Nothing}], lost' \subseteq Calls \X Entries,
           stage' \in [Calls -> {"none", "dir", "zero", "whole"}],
           \A d \in Calls \ {c} : FilesKept(d) /\ stage'[d] \in {stage[d], "none"},
           CallInv(c)'
    PROVE  IInv'
<1>1. \A d \in Calls \ {c} : CallInv(d)'
  BY OthersKept
<1>2. ExportType'
  BY DEF IInv, ExportType
<1> QED BY <1>1, <1>2 DEF IInv

LEMMA GotoEffect ==
    ASSUME ExportType, NEW c \in Calls, NEW s \in Steps, Goto(c, s)
    PROVE  /\ call' \in [Calls -> CallRecord] /\ \A d \in Calls \ {c} : call'[d] = call[d]
           /\ call'[c] \in CallRecord
           /\ call'[c] = [call[c] EXCEPT !.step = s]
           /\ call'[c].step = s
           /\ call'[c].tool = call[c].tool /\ call'[c].pid = call[c].pid
           /\ call'[c].plan = call[c].plan /\ call'[c].wrote = call[c].wrote
           /\ call'[c].open = call[c].open /\ call'[c].pending = call[c].pending
           /\ call'[c].free = call[c].free /\ call'[c].told = call[c].told
<1>1. call[c] \in CallRecord
  BY DEF ExportType
<1> DEFINE k == [call[c] EXCEPT !.step = s]
<1>2. /\ k \in CallRecord /\ k.step = s
      /\ k.tool = call[c].tool /\ k.pid = call[c].pid
      /\ k.plan = call[c].plan /\ k.wrote = call[c].wrote
      /\ k.open = call[c].open /\ k.pending = call[c].pending
      /\ k.free = call[c].free /\ k.told = call[c].told
  BY <1>1 DEF CallRecord
<1>3. call' = [call EXCEPT ![c] = k]
  BY <1>1 DEF Goto, ExportType
<1> HIDE DEF k
<1>4. call' \in [Calls -> CallRecord] /\ call'[c] = k /\ \A d \in Calls \ {c} : call'[d] = call[d]
  BY <1>2, <1>3 DEF ExportType
<1> QED BY <1>2, <1>4 DEF k

LEMMA EndEffect ==
    ASSUME ExportType, NEW c \in Calls, NEW names \in SUBSET Entries, End(c, names)
    PROVE  /\ call' \in [Calls -> CallRecord] /\ \A d \in Calls \ {c} : call'[d] = call[d]
           /\ call'[c] \in CallRecord
           /\ call'[c].step = "done" /\ call'[c].told = names
           /\ call'[c].tool = call[c].tool /\ call'[c].pid = call[c].pid
           /\ call'[c].plan = call[c].plan /\ call'[c].wrote = call[c].wrote
           /\ call'[c].open = call[c].open /\ call'[c].pending = call[c].pending
           /\ call'[c].free = call[c].free
<1>1. call[c] \in CallRecord
  BY DEF ExportType
<1> DEFINE k == [call[c] EXCEPT !.step = "done", !.told = names]
<1>2. /\ k \in CallRecord /\ k.step = "done" /\ k.told = names
      /\ k.tool = call[c].tool /\ k.pid = call[c].pid
      /\ k.plan = call[c].plan /\ k.wrote = call[c].wrote
      /\ k.open = call[c].open /\ k.pending = call[c].pending
      /\ k.free = call[c].free
  BY <1>1 DEF CallRecord, Steps
<1>3. call' = [call EXCEPT ![c] = k]
  BY <1>1 DEF End, ExportType
<1> HIDE DEF k
<1>4. call' \in [Calls -> CallRecord] /\ call'[c] = k /\ \A d \in Calls \ {c} : call'[d] = call[d]
  BY <1>2, <1>3 DEF ExportType
<1> QED BY <1>2, <1>4

\* A call that ends with nothing of its own but what it answers.
LEMMA EndInv ==
    ASSUME IInv, NEW c \in Calls, pids' = pids, NEW names \in SUBSET Entries, End(c, names),
           call[c].step \notin {"idle", "saving", "late", "killed"},
           entry' \in [Entries -> File \cup {Nothing}], lost' \subseteq Calls \X Entries,
           stage' \in [Calls -> {"none", "dir", "zero", "whole"}],
           \A d \in Calls \ {c} : FilesKept(d) /\ stage'[d] \in {stage[d], "none"},
           stage'[c] \in {stage[c], "none"},
           Mine(c)' \subseteq names,
           \A e \in names \cup call[c].wrote : Holds(c, e)',
           call[c].tool = "photo" => \A e \in Mine(c)' : entry'[e].size = "whole"
    PROVE  IInv'
<1>1. CallInv(c) /\ ExportType /\ call[c] \in CallRecord
  BY DEF IInv, ExportType
<1>2. ~call[c].pending
  BY <1>1 DEF CallInv, Route, CallRecord
<1>3. Route(call[c])'
  BY <1>1, <1>2, EndEffect DEF CallInv, Route, PhotoSteps, SaveSteps
<1>4. Files(c, call[c])'
  BY <1>1, EndEffect DEF Files
<1>5. Place(c, call[c])'
  BY <1>1, EndEffect DEF CallInv, Place, Over
<1>6. CallInv(c)'
  BY <1>3, <1>4, <1>5 DEF CallInv
<1> QED BY <1>1, <1>6, EndEffect, OneCall

-----------------------------------------------------------------------------
(* The plan.                                                               *)

LEMMA PlannedInv ==
    ASSUME IInv, NEW c \in Calls, NEW p \in Pids, NEW how \in Tools, NEW label \in Steps,
           NEW plan \in SUBSET Entries,
           At(c, "idle"), pids[p] = "server",
           \/ label = "done" /\ plan = {}
           \/ how = "photo" /\ label = "sweep" /\ \E e \in Entries : plan = {e}
           \/ how = "save" /\ label = "save" /\ \E e \in Entries : plan = {e}
           \/ how = "mail" /\ label = "write",
           \A e \in plan : entry[e] = Nothing,
           Planned(c, p, how, label, plan), SameFiles, InOneCall, UNCHANGED stage
    PROVE  IInv'
<1> DEFINE free == {e \in Entries : entry[e] = Nothing}
           k == [Fresh EXCEPT !.tool = how, !.pid = p, !.step = label, !.plan = plan, !.free = free]
<1>1. CallInv(c) /\ ExportType /\ call[c].step = "idle" /\ Mine(c) = {} /\ stage[c] = "none"
  BY DEF IInv, CallInv, At, Files, Place
<1>2. /\ k \in CallRecord /\ k.tool = how /\ k.pid = p /\ k.step = label /\ k.plan = plan
      /\ k.wrote = {} /\ k.told = {} /\ k.pending = FALSE /\ k.free = free
  BY DEF Fresh, CallRecord
<1>3. call' = [call EXCEPT ![c] = k]
  BY DEF Planned
<1> HIDE DEF k
<1>4. call' \in [Calls -> CallRecord] /\ call'[c] = k /\ \A d \in Calls \ {c} : call'[d] = call[d]
  BY <1>1, <1>2, <1>3 DEF ExportType
<1>5. plan \subseteq free
  OBVIOUS
<1> HIDE DEF free
<1>6. Route(call[c])'
  BY <1>2, <1>4, <1>5 DEF Route, PhotoSteps, SaveSteps, Tools
<1>7. Files(c, call[c])'
  BY <1>1, <1>2, <1>4 DEF Files, Mine, SameFiles
<1>8. Place(c, call[c])'
  BY <1>1, <1>2, <1>4 DEF Place, InOneCall
<1>9. CallInv(c)'
  BY <1>6, <1>7, <1>8 DEF CallInv
<1> QED BY <1>1, <1>4, <1>9, SameKeeps, OneCall DEF InOneCall, ExportType

LEMMA PlanInv == ASSUME IInv, NEW c \in Calls, PlanFile(c) PROVE IInv'
<1>1. ASSUME NEW p \in Pids, NEW how \in Tools, NEW label \in Steps, NEW plan \in SUBSET Entries,
             Begin(c, p, how, label, plan),
             \/ how = "photo" /\ label = "sweep" /\ \E e \in Entries : plan = {e}
             \/ how = "save" /\ label = "save" /\ \E e \in Entries : plan = {e}
             \/ how = "mail" /\ label = "write"
      PROVE  IInv'
  <2>1. CASE Planned(c, p, how, "done", {})
    <3>1. "done" \in Steps /\ {} \in SUBSET Entries
      BY DEF Steps
    <3> QED BY <1>1, <2>1, <3>1, PlannedInv DEF Begin
  <2>2. CASE Planned(c, p, how, label, plan) /\ \A e \in plan : ~Taken(e)
    BY <1>1, <2>2, PlannedInv DEF Begin, Taken
  <2> QED BY <1>1, <2>1, <2>2 DEF Begin
<1>2. {"photo", "save", "mail"} \subseteq Tools /\ {"sweep", "save", "write"} \subseteq Steps
  BY DEF Tools, Steps, PhotoSteps, SaveSteps
<1>3. ASSUME NEW p \in Pids, NEW e \in Entries, PlanPhoto(c, p, e) \/ PlanSave(c, p, e) PROVE IInv'
  BY <1>1, <1>2, <1>3 DEF PlanPhoto, PlanSave
<1>4. ASSUME NEW p \in Pids, NEW located \in SUBSET Messages, PlanMail(c, p, located) PROVE IInv'
  <2>1. {EntryOf[m] : m \in located} \in SUBSET Entries
    BY ExportsAssumption
  <2> QED BY <1>1, <1>2, <1>4, <2>1 DEF PlanMail
<1> QED BY <1>3, <1>4 DEF PlanFile

-----------------------------------------------------------------------------
(* The steps of a call.                                                    *)

LEMMA MovedInv ==
    ASSUME IInv, NEW c \in Calls, NEW k \in CallRecord, call' = [call EXCEPT ![c] = k],
           pids' = pids,
           entry' \in [Entries -> File \cup {Nothing}], lost' \subseteq Calls \X Entries,
           stage' \in [Calls -> {"none", "dir", "zero", "whole"}],
           \A d \in Calls \ {c} : FilesKept(d) /\ stage'[d] \in {stage[d], "none"},
           Route(k), Files(c, k)', Place(c, k)'
    PROVE  IInv'
<1>1. call' \in [Calls -> CallRecord] /\ call'[c] = k /\ \A d \in Calls \ {c} : call'[d] = call[d]
  BY DEF IInv, ExportType
<1>2. Route(call[c])'
  BY <1>1 DEF Route
<1>3. Files(c, call[c])'
  BY <1>1 DEF Files
<1>4. Place(c, call[c])'
  BY <1>1 DEF Place
<1>5. CallInv(c)'
  BY <1>2, <1>3, <1>4 DEF CallInv
<1> QED BY <1>1, <1>5, OneCall

\* A step that leaves the files alone and only turns to a step of the same claims.
LEMMA TurnInv ==
    ASSUME IInv, NEW c \in Calls, NEW k \in CallRecord, call' = [call EXCEPT ![c] = k],
           SameFiles, pids' = pids,
           stage' \in [Calls -> {"none", "dir", "zero", "whole"}],
           \A d \in Calls \ {c} : stage'[d] \in {stage[d], "none"},
           k.tool = call[c].tool, k.pid = call[c].pid, k.wrote = call[c].wrote, Route(k),
           call[c].step \notin Over \cup {"idle"}, k.step \notin {"idle", "writing", "confirm", "done"},
           Mine(c) = {},
           stage'[c] # "none" => k.tool = "photo"
    PROVE  IInv'
<1>1. CallInv(c) /\ ExportType
  BY DEF IInv
<1>2. Files(c, k)'
  BY <1>1 DEF CallInv, Files, Mine, Holds, Lost, SameFiles
<1>3. Place(c, k)'
  BY <1>1 DEF CallInv, Place
<1> QED BY <1>1, <1>2, <1>3, SameKeeps, MovedInv

LEMMA RefuseInv ==
    ASSUME IInv, NEW c \in Calls, Refuse(c), SameFiles, UNCHANGED stage, pids' = pids,
           call[c].step \notin {"idle", "saving", "late", "killed"}, Mine(c) = {}
    PROVE  IInv'
<1>1. CallInv(c) /\ ExportType /\ call[c] \in CallRecord
  BY DEF IInv, ExportType
<1>2. \A e \in call[c].wrote : Holds(c, e)'
  BY <1>1 DEF CallInv, Files, Holds, Lost, SameFiles
<1>3. Mine(c)' = {}
  BY DEF Mine, SameFiles
<1> QED BY <1>1, <1>2, <1>3, SameKeeps, EndInv DEF Refuse, ExportType

LEMMA SweepInv ==
    ASSUME IInv, NEW c \in Calls, SweepLists(c) \/ \E d \in Calls : SweepTakes(c, d)
    PROVE  IInv'
<1>1. CallInv(c) /\ ExportType /\ call[c] \in CallRecord /\ call[c].step \in {"sweep", "sweeping"}
  BY DEF IInv, ExportType, SweepLists, SweepTakes, At
<1>2. Mine(c) = {} /\ call[c].tool = "photo"
  BY <1>1 DEF CallInv, Files, Route, PhotoSteps
<1>3. PICK k \in CallRecord :
        /\ call' = [call EXCEPT ![c] = k] /\ k.step = "sweeping"
        /\ k.tool = call[c].tool /\ k.pid = call[c].pid /\ k.wrote = call[c].wrote
        /\ k.plan = call[c].plan /\ k.pending = call[c].pending /\ k.free = call[c].free
  <2>1. CASE SweepLists(c)
    <3> DEFINE k == [call[c] EXCEPT !.step = "sweeping", !.listed = {d \in Calls : stage[d] # "none"}]
    <3>1. /\ k \in CallRecord /\ k.step = "sweeping"
          /\ k.tool = call[c].tool /\ k.pid = call[c].pid /\ k.wrote = call[c].wrote
          /\ k.plan = call[c].plan /\ k.pending = call[c].pending /\ k.free = call[c].free
      BY <1>1 DEF CallRecord, Steps, PhotoSteps
    <3>2. call' = [call EXCEPT ![c] = k]
      BY <1>1, <2>1 DEF SweepLists, ExportType
    <3> QED BY <3>1, <3>2
  <2>2. ASSUME NEW d \in Calls, SweepTakes(c, d)
        PROVE  \E k \in CallRecord :
                 /\ call' = [call EXCEPT ![c] = k] /\ k.step = "sweeping"
                 /\ k.tool = call[c].tool /\ k.pid = call[c].pid /\ k.wrote = call[c].wrote
                 /\ k.plan = call[c].plan /\ k.pending = call[c].pending /\ k.free = call[c].free
    <3> DEFINE k == [call[c] EXCEPT !.listed = @ \ {d}]
    <3>1. /\ k \in CallRecord /\ k.step = "sweeping"
          /\ k.tool = call[c].tool /\ k.pid = call[c].pid /\ k.wrote = call[c].wrote
          /\ k.plan = call[c].plan /\ k.pending = call[c].pending /\ k.free = call[c].free
      BY <1>1, <2>2 DEF CallRecord, SweepTakes, At
    <3>2. call' = [call EXCEPT ![c] = k]
      BY <1>1, <2>2 DEF SweepTakes, ExportType
    <3> QED BY <3>1, <3>2
  <2> QED BY <2>1, <2>2
<1>4. Route(k)
  BY <1>1, <1>2, <1>3 DEF CallInv, Route, PhotoSteps, SaveSteps
<1>5. /\ stage' \in [Calls -> {"none", "dir", "zero", "whole"}] /\ stage'[c] \in {stage[c], "none"}
      /\ \A d \in Calls \ {c} : stage'[d] \in {stage[d], "none"}
      /\ SameFiles /\ pids' = pids
  BY <1>1 DEF SweepLists, SweepTakes, ExportType, InOneCall
<1> QED BY <1>1, <1>2, <1>3, <1>4, <1>5, TurnInv DEF Over

LEMMA MakeStageInv == ASSUME IInv, NEW c \in Calls, MakeStage(c) PROVE IInv'
<1>1. CallInv(c) /\ ExportType /\ call[c] \in CallRecord /\ call[c].step = "sweeping"
  BY DEF IInv, ExportType, MakeStage, At
<1>2. Mine(c) = {} /\ call[c].tool = "photo" /\ SameFiles /\ pids' = pids
  BY <1>1 DEF CallInv, Files, Route, PhotoSteps, MakeStage, InOneCall
<1>3. CASE Refuse(c) /\ UNCHANGED stage
  BY <1>1, <1>2, <1>3, RefuseInv
<1>4. CASE Goto(c, "export") /\ stage' = [stage EXCEPT ![c] = "dir"]
  <2>1. PICK k \in CallRecord : k = [call[c] EXCEPT !.step = "export"]
    BY <1>1 DEF CallRecord, Steps, PhotoSteps
  <2>2. call' = [call EXCEPT ![c] = k] /\ k.step = "export" /\ k.tool = call[c].tool
        /\ k.pid = call[c].pid /\ k.wrote = call[c].wrote
        /\ k.plan = call[c].plan /\ k.pending = call[c].pending
    BY <1>1, <1>4, <2>1 DEF Goto, ExportType, CallRecord
  <2>3. Route(k)
    BY <1>1, <1>2, <2>2 DEF CallInv, Route, PhotoSteps, SaveSteps
  <2>4. stage' \in [Calls -> {"none", "dir", "zero", "whole"}]
        /\ \A d \in Calls \ {c} : stage'[d] \in {stage[d], "none"}
    BY <1>1, <1>4 DEF ExportType
  <2> QED BY <1>1, <1>2, <2>2, <2>3, <2>4, TurnInv DEF Over
<1> QED BY <1>3, <1>4 DEF MakeStage

LEMMA ExportPhotoInv == ASSUME IInv, NEW c \in Calls, ExportPhoto(c) PROVE IInv'
<1>1. CallInv(c) /\ ExportType /\ call[c] \in CallRecord /\ call[c].step = "export"
  BY DEF IInv, ExportType, ExportPhoto, At
<1>2. Mine(c) = {} /\ call[c].tool = "photo" /\ SameFiles /\ pids' = pids
  BY <1>1 DEF CallInv, Files, Route, PhotoSteps, ExportPhoto, InOneCall
<1>3. PICK s \in {"leave", "publish"} : Goto(c, s)
  BY DEF ExportPhoto
<1>4. PICK k \in CallRecord : k = [call[c] EXCEPT !.step = s]
  BY <1>1 DEF CallRecord, Steps, PhotoSteps
<1>5. call' = [call EXCEPT ![c] = k] /\ k.step = s /\ k.tool = call[c].tool
      /\ k.pid = call[c].pid /\ k.wrote = call[c].wrote
      /\ k.plan = call[c].plan /\ k.pending = call[c].pending
  BY <1>1, <1>3, <1>4 DEF Goto, ExportType, CallRecord
<1>6. Route(k)
  BY <1>1, <1>2, <1>5 DEF CallInv, Route, PhotoSteps, SaveSteps
<1>7. stage' \in [Calls -> {"none", "dir", "zero", "whole"}]
      /\ \A d \in Calls \ {c} : stage'[d] \in {stage[d], "none"}
  BY <1>1 DEF ExportType, ExportPhoto
<1> QED BY <1>1, <1>2, <1>5, <1>6, <1>7, TurnInv DEF Over

LEMMA LeaveStageInv == ASSUME IInv, NEW c \in Calls, LeaveStage(c) PROVE IInv'
<1>1. CallInv(c) /\ ExportType /\ call[c] \in CallRecord /\ call[c].step = "leave"
  BY DEF IInv, ExportType, LeaveStage, At
<1>2. SameFiles /\ pids' = pids /\ End(c, call[c].wrote) /\ call[c].wrote \in SUBSET Entries
  BY <1>1 DEF LeaveStage, InOneCall, CallRecord
<1>3. /\ Mine(c)' \subseteq call[c].wrote
      /\ \A e \in call[c].wrote : Holds(c, e)'
      /\ call[c].tool = "photo" => \A e \in Mine(c)' : entry'[e].size = "whole"
  BY <1>1, <1>2 DEF CallInv, Files, Mine, Holds, Lost, SameFiles
<1>4. stage' \in [Calls -> {"none", "dir", "zero", "whole"}]
      /\ \A d \in Calls : stage'[d] \in {stage[d], "none"}
  BY <1>1 DEF ExportType, LeaveStage
<1> QED BY <1>1, <1>2, <1>3, <1>4, SameKeeps, EndInv

LEMMA PublishInv == ASSUME IInv, NEW c \in Calls, Publish(c) PROVE IInv'
<1>1. CallInv(c) /\ ExportType /\ call[c] \in CallRecord /\ call[c].step = "publish"
  BY DEF IInv, ExportType, Publish, At
<1>2. Mine(c) = {} /\ call[c].tool = "photo" /\ pids' = pids /\ stage' = stage
  BY <1>1 DEF CallInv, Files, Route, PhotoSteps, Publish, InOneCall
<1>3. CASE Goto(c, "leave") /\ SameFiles
  <2>1. PICK k \in CallRecord : k = [call[c] EXCEPT !.step = "leave"]
    BY <1>1 DEF CallRecord, Steps, PhotoSteps
  <2>2. call' = [call EXCEPT ![c] = k] /\ k.step = "leave" /\ k.tool = call[c].tool
        /\ k.pid = call[c].pid /\ k.wrote = call[c].wrote
        /\ k.plan = call[c].plan /\ k.pending = call[c].pending
    BY <1>1, <1>3, <2>1 DEF Goto, ExportType, CallRecord
  <2>3. Route(k)
    BY <1>1, <1>2, <2>2 DEF CallInv, Route, PhotoSteps, SaveSteps
  <2> QED BY <1>1, <1>2, <1>3, <2>2, <2>3, TurnInv DEF Over, ExportType
<1>4. ASSUME Put(Entry(c), c, [by |-> c, size |-> "whole"]),
             call' = [call EXCEPT ![c].step = "leave", ![c].wrote = call[c].plan]
      PROVE  IInv'
  <2>1. PICK e \in Entries : call[c].plan = {e} /\ Entry(c) = e
    BY <1>1 DEF CallInv, Route, PhotoSteps, Entry
  <2>2. [by |-> c, size |-> "whole"] \in File
    BY DEF File
  <2>3. /\ entry' \in [Entries -> File \cup {Nothing}] /\ lost' \subseteq Calls \X Entries
        /\ entry'[e] = [by |-> c, size |-> "whole"] /\ \A x \in Entries \ {e} : entry'[x] = entry[x]
        /\ lost \subseteq lost'
        /\ \A d \in Calls : d # c => FilesKept(d)
    BY <1>1, <1>4, <2>1, <2>2, PutKeeps
  <2>4. PICK k \in CallRecord : k = [call[c] EXCEPT !.step = "leave", !.wrote = call[c].plan]
    BY <1>1 DEF CallRecord, Steps, PhotoSteps
  <2>5. call' = [call EXCEPT ![c] = k] /\ k.step = "leave" /\ k.tool = call[c].tool
        /\ k.pid = call[c].pid /\ k.wrote = {e}
        /\ k.plan = call[c].plan /\ k.pending = call[c].pending
    BY <1>1, <1>4, <2>1, <2>4 DEF ExportType, CallRecord
  <2>6. Route(k)
    BY <1>1, <1>2, <2>5 DEF CallInv, Route, PhotoSteps, SaveSteps
  <2>7. Mine(c)' = {e}
    BY <1>2, <2>3 DEF Mine
  <2>8. Files(c, k)'
    BY <2>3, <2>5, <2>7 DEF Files, Holds
  <2>9. Place(c, k)'
    BY <1>1, <1>2, <2>5 DEF CallInv, Place, Over
  <2> QED BY <1>1, <1>2, <2>3, <2>5, <2>6, <2>8, <2>9, MovedInv DEF ExportType
<1> QED BY <1>3, <1>4 DEF Publish

LEMMA PhotoInv == ASSUME IInv, NEW c \in Calls, PhotoStep(c) PROVE IInv'
BY SweepInv, MakeStageInv, ExportPhotoInv, PublishInv, LeaveStageInv DEF PhotoStep

LEMMA OpenNextInv == ASSUME IInv, NEW c \in Calls, OpenNext(c) PROVE IInv'
<1>1. CallInv(c) /\ ExportType /\ call[c] \in CallRecord /\ call[c].step = "write"
  BY DEF IInv, ExportType, OpenNext, At
<1>2. /\ call[c].tool = "mail" /\ ~call[c].pending /\ pids' = pids /\ stage' = stage
      /\ Mine(c) \subseteq call[c].wrote /\ \A e \in call[c].wrote : Holds(c, e)
  BY <1>1 DEF CallInv, Files, Route, OpenNext, InOneCall
<1>3. PICK e \in call[c].plan \ call[c].wrote :
         \/ /\ entry[e] = Nothing
            /\ Put(e, c, [by |-> c, size |-> "zero"])
            /\ call' = [call EXCEPT ![c].step = "writing", ![c].open = e]
         \/ SameFiles /\ End(c, call[c].wrote)
  BY DEF OpenNext
<1>4. e \in Entries /\ call[c].wrote \in SUBSET Entries
  BY <1>1, <1>3 DEF CallRecord
<1>5. CASE SameFiles /\ End(c, call[c].wrote)
  <2>1. Mine(c)' \subseteq call[c].wrote /\ \A x \in call[c].wrote : Holds(c, x)'
    BY <1>2, <1>5 DEF Mine, Holds, Lost, SameFiles
  <2> QED BY <1>1, <1>2, <1>4, <1>5, <2>1, SameKeeps, EndInv DEF ExportType
<1>6. ASSUME Put(e, c, [by |-> c, size |-> "zero"]),
             call' = [call EXCEPT ![c].step = "writing", ![c].open = e]
      PROVE  IInv'
  <2>1. [by |-> c, size |-> "zero"] \in File
    BY DEF File
  <2>2. /\ entry' \in [Entries -> File \cup {Nothing}] /\ lost' \subseteq Calls \X Entries
        /\ entry'[e] = [by |-> c, size |-> "zero"] /\ \A x \in Entries \ {e} : entry'[x] = entry[x]
        /\ lost \subseteq lost'
        /\ \A d \in Calls : d # c => FilesKept(d)
    BY <1>1, <1>4, <1>6, <2>1, PutKeeps
  <2>3. PICK k \in CallRecord : k = [call[c] EXCEPT !.step = "writing", !.open = e]
    BY <1>1, <1>4 DEF CallRecord, Steps
  <2>4. call' = [call EXCEPT ![c] = k] /\ k.step = "writing" /\ k.tool = call[c].tool
        /\ k.pid = call[c].pid /\ k.wrote = call[c].wrote /\ k.open = e
        /\ k.plan = call[c].plan /\ k.pending = call[c].pending
    BY <1>1, <1>6, <2>3 DEF ExportType, CallRecord
  <2>5. Route(k)
    BY <1>1, <1>2, <1>3, <2>4 DEF CallInv, Route, PhotoSteps, SaveSteps
  <2>6. Mine(c)' \subseteq call[c].wrote \cup {e} /\ entry'[e].by = c
    BY <1>2, <2>2 DEF Mine
  <2>7. \A x \in call[c].wrote : Holds(c, x)'
    BY <1>2, <1>3, <1>4, <2>2 DEF Holds, Lost
  <2>8. Files(c, k)'
    BY <1>2, <2>4, <2>6, <2>7 DEF Files
  <2>9. Place(c, k)'
    BY <1>1, <1>2, <2>4 DEF CallInv, Place, Over
  <2> QED BY <1>1, <1>2, <2>2, <2>4, <2>5, <2>8, <2>9, MovedInv DEF ExportType
<1> QED BY <1>3, <1>5, <1>6

LEMMA WriteOpenedInv == ASSUME IInv, NEW c \in Calls, WriteOpened(c) PROVE IInv'
<1>1. CallInv(c) /\ ExportType /\ call[c] \in CallRecord /\ call[c].step = "writing"
  BY DEF IInv, ExportType, WriteOpened, At
<1>0. PICK e \in Entries : e = call[c].open
  BY <1>1 DEF CallInv, Route, CallRecord
<1>2. /\ call[c].tool = "mail" /\ ~call[c].pending /\ pids' = pids /\ stage' = stage
      /\ Mine(c) \subseteq call[c].wrote \cup {e} /\ \A x \in call[c].wrote : Holds(c, x)
      /\ entry[e].by = c \/ Lost(c, e)
      /\ e \in call[c].plan \ call[c].wrote /\ call[c].wrote \in SUBSET Entries
  BY <1>0, <1>1 DEF CallInv, Files, Route, WriteOpened, InOneCall, CallRecord
<1>3. [by |-> c, size |-> "whole"] \in File
  BY DEF File
<1>4. ASSUME IF entry[e].by = c THEN Put(e, c, [by |-> c, size |-> "whole"]) ELSE SameFiles,
             call' = [call EXCEPT ![c].step = "write", ![c].wrote = @ \cup {e}]
      PROVE  IInv'
  <2>1. /\ entry' \in [Entries -> File \cup {Nothing}] /\ lost' \subseteq Calls \X Entries
        /\ \A x \in Entries \ {e} : entry'[x] = entry[x]
        /\ lost \subseteq lost'
        /\ \A d \in Calls : d # c => FilesKept(d)
        /\ Holds(c, e)'
    <3>1. CASE entry[e].by = c
      BY <1>1, <1>2, <1>3, <1>4, <3>1, PutKeeps DEF Holds
    <3>2. CASE entry[e].by # c
      BY <1>1, <1>2, <1>4, <3>2, SameKeeps DEF Holds, Lost, SameFiles
    <3> QED BY <3>1, <3>2
  <2>2. PICK k \in CallRecord :
           k = [call[c] EXCEPT !.step = "write", !.wrote = call[c].wrote \cup {e}]
    BY <1>1, <1>2 DEF CallRecord, Steps
  <2>3. call' = [call EXCEPT ![c] = k] /\ k.step = "write" /\ k.tool = call[c].tool
        /\ k.pid = call[c].pid /\ k.wrote = call[c].wrote \cup {e}
        /\ k.plan = call[c].plan /\ k.pending = call[c].pending
    BY <1>1, <1>4, <2>2 DEF ExportType, CallRecord
  <2>4. Route(k)
    BY <1>1, <1>2, <2>3 DEF CallInv, Route, PhotoSteps, SaveSteps
  <2>5. Mine(c)' \subseteq call[c].wrote \cup {e}
    BY <1>2, <2>1 DEF Mine
  <2>6. \A x \in call[c].wrote : Holds(c, x)'
    BY <1>2, <2>1 DEF Holds, Lost
  <2>7. Files(c, k)'
    BY <1>2, <2>1, <2>3, <2>5, <2>6 DEF Files
  <2>8. Place(c, k)'
    BY <1>1, <1>2, <2>3 DEF CallInv, Place, Over
  <2> QED BY <1>1, <1>2, <2>1, <2>3, <2>4, <2>7, <2>8, MovedInv DEF ExportType
<1>5. ASSUME Put(e, c, Nothing), End(c, call[c].wrote) PROVE IInv'
  <2>1. /\ entry' \in [Entries -> File \cup {Nothing}] /\ lost' \subseteq Calls \X Entries
        /\ entry'[e] = Nothing /\ \A x \in Entries \ {e} : entry'[x] = entry[x]
        /\ lost \subseteq lost'
        /\ \A d \in Calls : d # c => FilesKept(d)
    BY <1>1, <1>2, <1>5, PutKeeps, ExportsAssumption DEF Nothing
  <2>2. Mine(c)' \subseteq call[c].wrote /\ \A x \in call[c].wrote : Holds(c, x)'
    BY <1>2, <2>1, ExportsAssumption DEF Mine, Holds, Lost, Nothing
  <2> QED BY <1>1, <1>2, <1>5, <2>1, <2>2, EndInv DEF ExportType
<1> QED BY <1>0, <1>4, <1>5 DEF WriteOpened

LEMMA AnswerExportInv == ASSUME IInv, NEW c \in Calls, AnswerExport(c) PROVE IInv'
<1>1. CallInv(c) /\ ExportType /\ call[c] \in CallRecord /\ call[c].step = "write"
  BY DEF IInv, ExportType, AnswerExport, At
<1>2. /\ SameFiles /\ pids' = pids /\ stage' = stage /\ End(c, call[c].wrote)
      /\ call[c].wrote \in SUBSET Entries /\ call[c].tool = "mail"
  BY <1>1 DEF AnswerExport, InOneCall, CallRecord, CallInv, Route
<1>3. Mine(c)' \subseteq call[c].wrote /\ \A e \in call[c].wrote : Holds(c, e)'
  BY <1>1, <1>2 DEF CallInv, Files, Mine, Holds, Lost, SameFiles
<1> QED BY <1>1, <1>2, <1>3, SameKeeps, EndInv DEF ExportType

LEMMA MailInv == ASSUME IInv, NEW c \in Calls, MailStep(c) PROVE IInv'
BY OpenNextInv, WriteOpenedInv, AnswerExportInv DEF MailStep

LEMMA SendSaveInv == ASSUME IInv, NEW c \in Calls, SendSave(c) PROVE IInv'
<1>1. CallInv(c) /\ ExportType /\ call[c] \in CallRecord /\ call[c].step = "save"
  BY DEF IInv, ExportType, SendSave, At
<1>2. Mine(c) = {} /\ call[c].tool = "save" /\ SameFiles /\ pids' = pids /\ stage' = stage
  BY <1>1 DEF CallInv, Files, Route, SaveSteps, SendSave, InOneCall
<1>3. PICK k \in CallRecord : k = [call[c] EXCEPT !.step = "saving", !.pending = TRUE]
  BY <1>1 DEF CallRecord, Steps, SaveSteps
<1>4. call' = [call EXCEPT ![c] = k] /\ k.step = "saving" /\ k.tool = call[c].tool
      /\ k.pid = call[c].pid /\ k.wrote = call[c].wrote
      /\ k.plan = call[c].plan /\ k.pending = TRUE /\ k.free = call[c].free
      /\ k.told = call[c].told
  BY <1>1, <1>3 DEF SendSave, ExportType, CallRecord
<1>5. Route(k)
  BY <1>1, <1>2, <1>4 DEF CallInv, Route, PhotoSteps, SaveSteps
<1>6. stage[c] = "none"
  BY <1>1, <1>2 DEF CallInv, Place
<1> QED BY <1>1, <1>2, <1>4, <1>5, <1>6, TurnInv DEF Over, ExportType

LEMMA SaveTimesOutInv == ASSUME IInv, NEW c \in Calls, SaveTimesOut(c) PROVE IInv'
<1>1. CallInv(c) /\ ExportType /\ call[c] \in CallRecord /\ call[c].step = "saving"
  BY DEF IInv, ExportType, SaveTimesOut, At
<1>2. Mine(c) = {} /\ call[c].tool = "save" /\ SameFiles /\ pids' = pids /\ stage' = stage
  BY <1>1 DEF CallInv, Files, Route, SaveSteps, SaveTimesOut, InOneCall
<1>3. PICK k \in CallRecord : k = [call[c] EXCEPT !.step = "late"]
  BY <1>1 DEF CallRecord, Steps, SaveSteps
<1>4. call' = [call EXCEPT ![c] = k] /\ k.step = "late" /\ k.tool = call[c].tool
      /\ k.pid = call[c].pid /\ k.wrote = call[c].wrote
      /\ k.plan = call[c].plan /\ k.pending = call[c].pending /\ k.free = call[c].free
  BY <1>1, <1>3 DEF SaveTimesOut, Goto, ExportType, CallRecord
<1>5. Route(k)
  BY <1>1, <1>2, <1>4 DEF CallInv, Route, PhotoSteps, SaveSteps
<1>6. stage[c] = "none"
  BY <1>1, <1>2 DEF CallInv, Place
<1> QED BY <1>1, <1>2, <1>4, <1>5, <1>6, TurnInv DEF Over, ExportType

\* Mail's answer to a save: the event is no longer with Mail, and a host that waits goes on.
LEMMA MailAnswers ==
    ASSUME IInv, NEW c \in Calls, NEW s \in {"confirm", "done"}, call[c].pending,
           call' = [call EXCEPT ![c].pending = FALSE, ![c].step = IF @ = "saving" THEN s ELSE @]
    PROVE  \E k \in CallRecord :
              /\ call' = [call EXCEPT ![c] = k] /\ Route(k)
              /\ k.step = (IF call[c].step = "saving" THEN s ELSE call[c].step)
              /\ k.tool = "save" /\ k.pid = call[c].pid /\ k.wrote = {}
              /\ k.plan = call[c].plan /\ k.told = call[c].told
              /\ call[c].step \in {"saving", "late", "killed"}
<1>1. CallInv(c) /\ ExportType /\ call[c] \in CallRecord
  BY DEF IInv, ExportType
<1>2. /\ call[c].tool = "save" /\ call[c].step \in {"saving", "late", "killed"}
      /\ call[c].wrote = {} /\ call[c].plan \subseteq call[c].free
      /\ \E e \in Entries : call[c].plan = {e}
  BY <1>1 DEF CallInv, Route
<1> DEFINE t == IF call[c].step = "saving" THEN s ELSE call[c].step
<1>3. t \in Steps
  BY <1>2 DEF Steps, SaveSteps
<1> HIDE DEF t
<1>4. PICK k \in CallRecord : k = [call[c] EXCEPT !.pending = FALSE, !.step = t]
  BY <1>1, <1>3 DEF CallRecord
<1>5. /\ k.step = t /\ k.pending = FALSE /\ k.tool = call[c].tool /\ k.pid = call[c].pid
      /\ k.wrote = call[c].wrote /\ k.plan = call[c].plan /\ k.free = call[c].free
      /\ k.told = call[c].told
  BY <1>1, <1>4 DEF CallRecord
<1>6. call' = [call EXCEPT ![c] = k]
  BY <1>1, <1>4 DEF t, ExportType, CallRecord
<1>7. Route(k)
  BY <1>2, <1>5 DEF t, Route, PhotoSteps, SaveSteps
<1> QED BY <1>2, <1>5, <1>6, <1>7 DEF t

LEMMA MailSavesInv == ASSUME IInv, NEW c \in Calls, MailSaves(c) PROVE IInv'
<1>1. CallInv(c) /\ ExportType /\ call[c] \in CallRecord /\ call[c].pending
  BY DEF IInv, ExportType, MailSaves
<1>2. PICK k \in CallRecord :
              /\ call' = [call EXCEPT ![c] = k] /\ Route(k)
              /\ k.step = (IF call[c].step = "saving" THEN "confirm" ELSE call[c].step)
              /\ k.tool = "save" /\ k.pid = call[c].pid /\ k.wrote = {}
              /\ k.plan = call[c].plan /\ k.told = call[c].told
              /\ call[c].step \in {"saving", "late", "killed"}
  BY <1>1, MailAnswers DEF MailSaves
<1>3. PICK e \in Entries : call[c].plan = {e} /\ Entry(c) = e
  BY <1>1 DEF CallInv, Route, Entry
<1>4. PICK size \in {"zero", "whole"} : Put(e, c, [by |-> c, size |-> size])
  BY <1>3 DEF MailSaves
<1>5. [by |-> c, size |-> size] \in File
  BY DEF File
<1>6. /\ entry' \in [Entries -> File \cup {Nothing}] /\ lost' \subseteq Calls \X Entries
      /\ entry'[e] = [by |-> c, size |-> size] /\ \A x \in Entries \ {e} : entry'[x] = entry[x]
      /\ lost \subseteq lost'
      /\ \A d \in Calls : d # c => FilesKept(d)
  BY <1>1, <1>4, <1>5, PutKeeps
<1>7. call[c].step = "saving" => Mine(c)' \subseteq {e}
  BY <1>1, <1>6 DEF CallInv, Files, Mine
<1>8. Files(c, k)'
  BY <1>2, <1>3, <1>6, <1>7 DEF Files
<1>9. pids' = pids /\ stage' = stage
  BY DEF MailSaves, InOneCall
<1>10. Place(c, k)'
  BY <1>1, <1>2, <1>9 DEF CallInv, Route, Place, Over
<1> QED BY <1>1, <1>2, <1>6, <1>8, <1>9, <1>10, MovedInv DEF ExportType

LEMMA MailDeclinesInv == ASSUME IInv, NEW c \in Calls, MailDeclines(c) PROVE IInv'
<1>1. CallInv(c) /\ ExportType /\ call[c] \in CallRecord /\ call[c].pending
  BY DEF IInv, ExportType, MailDeclines
<1>2. PICK k \in CallRecord :
              /\ call' = [call EXCEPT ![c] = k] /\ Route(k)
              /\ k.step = (IF call[c].step = "saving" THEN "done" ELSE call[c].step)
              /\ k.tool = "save" /\ k.pid = call[c].pid /\ k.wrote = {}
              /\ k.plan = call[c].plan /\ k.told = call[c].told
              /\ call[c].step \in {"saving", "late", "killed"}
  BY <1>1, MailAnswers DEF MailDeclines
<1>3. SameFiles /\ pids' = pids /\ stage' = stage
  BY DEF MailDeclines, InOneCall
<1>4. call[c].tool = "save" /\ call[c].told \in SUBSET Entries
  BY <1>1 DEF CallInv, Route, CallRecord
<1>5. call[c].step = "saving" => Mine(c) = {} /\ k.told = {}
  BY <1>1, <1>2 DEF CallInv, Files, Route
<1>6. Files(c, k)'
  BY <1>1, <1>2, <1>3, <1>5 DEF CallInv, Files, Mine, Holds, Lost, SameFiles
<1>7. Place(c, k)'
  BY <1>1, <1>2, <1>3, <1>4 DEF CallInv, Place, Over
<1> QED BY <1>1, <1>2, <1>3, <1>6, <1>7, SameKeeps, MovedInv DEF ExportType

LEMMA ConfirmInv == ASSUME IInv, NEW c \in Calls, ConfirmSaved(c) PROVE IInv'
<1>1. CallInv(c) /\ ExportType /\ call[c] \in CallRecord /\ call[c].step = "confirm"
  BY DEF IInv, ExportType, ConfirmSaved, At
<1>2. PICK e \in Entries : call[c].plan = {e} /\ Entry(c) = e
  BY <1>1 DEF CallInv, Route, SaveSteps, Entry
<1>3. /\ Mine(c) \subseteq {e} /\ call[c].tool = "save" /\ call[c].wrote = {}
      /\ pids' = pids /\ stage' = stage
      /\ \/ entry[e].by = c /\ entry[e].size \in {"zero", "whole"}
         \/ entry[e].by # c /\ Lost(c, e)
  BY <1>1, <1>2 DEF CallInv, Files, Route, SaveSteps, ConfirmSaved, InOneCall
<1>4. CASE entry[e].size = "zero" /\ Put(e, c, Nothing) /\ Refuse(c)
  <2>1. /\ entry' \in [Entries -> File \cup {Nothing}] /\ lost' \subseteq Calls \X Entries
        /\ entry'[e] = Nothing /\ \A x \in Entries \ {e} : entry'[x] = entry[x]
        /\ \A d \in Calls : d # c => FilesKept(d)
    BY <1>1, <1>4, PutKeeps, ExportsAssumption DEF Nothing
  <2>2. Mine(c)' = {}
    BY <1>3, <2>1, ExportsAssumption DEF Mine, Nothing
  <2> QED BY <1>1, <1>3, <1>4, <2>1, <2>2, EndInv DEF Refuse, ExportType
<1>5. CASE entry[e].size \in {"none", "link"} /\ SameFiles /\ Refuse(c)
  <2>1. Mine(c) = {}
    BY <1>3, <1>5 DEF Mine
  <2> QED BY <1>1, <1>3, <1>5, <2>1, RefuseInv
<1>6. CASE entry[e].size = "whole" /\ SameFiles /\ End(c, {e})
  <2>1. Mine(c)' \subseteq {e} /\ entry'[e] = entry[e] /\ lost' = lost
    BY <1>3, <1>6 DEF Mine, SameFiles
  <2>2. Holds(c, e)'
    <3>1. CASE entry[e].by = c
      <4>1. entry[e] \in File
        BY <1>1, <3>1, ExportsAssumption DEF ExportType, Nothing
      <4>2. entry[e] = [by |-> c, size |-> "whole"]
        BY <1>6, <3>1, <4>1 DEF File
      <4> QED BY <2>1, <4>2 DEF Holds
    <3>2. CASE Lost(c, e)
      BY <2>1, <3>2 DEF Holds, Lost
    <3> QED BY <1>3, <3>1, <3>2
  <2> QED BY <1>1, <1>3, <1>6, <2>1, <2>2, SameKeeps, EndInv DEF ExportType
<1> QED BY <1>2, <1>4, <1>5, <1>6 DEF ConfirmSaved

LEMMA SaveInv == ASSUME IInv, NEW c \in Calls, SaveStep(c) PROVE IInv'
BY SendSaveInv, MailSavesInv, MailDeclinesInv, SaveTimesOutInv, ConfirmInv DEF SaveStep

-----------------------------------------------------------------------------
(* The user, the processes, and the whole.                                 *)

LEMMA UserInv ==
    ASSUME IInv, NEW e \in Entries, UserPuts(e) \/ UserTakes(e) PROVE IInv'
<1>1. PICK what \in File \cup {Nothing} : Put(e, User, what) /\ what.by \in {User, Nobody}
  <2>1. CASE UserPuts(e)
    <3>1. PICK size \in {"whole", "link"} : Put(e, User, [by |-> User, size |-> size])
      BY <2>1 DEF UserPuts
    <3>2. [by |-> User, size |-> size] \in File
      BY DEF File
    <3> QED BY <3>1, <3>2
  <2>2. CASE UserTakes(e)
    BY <2>2 DEF UserTakes, Nothing
  <2> QED BY <2>1, <2>2
<1>2. /\ entry' \in [Entries -> File \cup {Nothing}] /\ lost' \subseteq Calls \X Entries
      /\ \A c \in Calls : c # User /\ what.by # c => FilesKept(c)
  BY <1>1, PutKeeps DEF IInv
<1>3. call' = call /\ pids' = pids /\ stage' = stage
  BY DEF UserPuts, UserTakes
<1>4. ASSUME NEW c \in Calls PROVE CallInv(c)'
  BY <1>1, <1>2, <1>3, OthersKept, ExportsAssumption
<1> QED BY <1>2, <1>3, <1>4 DEF IInv, ExportType

LEMMA DiesInv == ASSUME IInv, NEW p \in Pids, Dies(p) PROVE IInv'
<1>1. SameFiles /\ stage' = stage /\ pids' = [pids EXCEPT ![p] = "none"]
  BY DEF Dies
<1>2. ASSUME NEW c \in Calls PROVE CallInv(c)' /\ call'[c] \in CallRecord
  <2>1. CallInv(c) /\ call[c] \in CallRecord /\ ExportType
    BY DEF IInv, ExportType
  <2>2. FilesKept(c)
    BY <1>1, <2>1, SameKeeps
  <2>3. call[c].step = "writing" => call[c].open \in Entries
    BY <2>1 DEF CallInv, Route, CallRecord
  <2>4. CASE call[c].pid = p /\ call[c].step \notin Over
    <3>1. PICK k \in CallRecord : k = [call[c] EXCEPT !.step = "killed"]
      BY <2>1 DEF CallRecord, Steps
    <3>2. /\ call'[c] = k /\ k.step = "killed" /\ k.tool = call[c].tool /\ k.pid = call[c].pid
          /\ k.wrote = call[c].wrote /\ k.plan = call[c].plan /\ k.pending = call[c].pending
          /\ k.free = call[c].free
      BY <2>1, <2>4, <3>1 DEF Dies, CallRecord
    <3>3. Route(call[c])'
      BY <2>1, <3>2 DEF CallInv, Route, PhotoSteps, SaveSteps
    <3>4. Files(c, call[c])'
      BY <1>1, <2>1, <3>2 DEF CallInv, Files, Mine, Holds, Lost, SameFiles
    <3>5. Place(c, call[c])'
      BY <1>1, <2>1, <3>2 DEF CallInv, Place, Over
    <3> QED BY <3>2, <3>3, <3>4, <3>5 DEF CallInv
  <2>5. CASE ~(call[c].pid = p /\ call[c].step \notin Over)
    <3>1. call'[c] = call[c]
      BY <2>5 DEF Dies
    <3>2. Files(c, call[c])'
      BY <2>1, <2>2, <2>3, <3>1, KeptFiles DEF CallInv
    <3>3. Place(c, call[c])'
      BY <1>1, <2>1, <2>5, <3>1 DEF CallInv, Place, ExportType
    <3>4. Route(call[c])'
      BY <2>1, <3>1 DEF CallInv, Route
    <3> QED BY <2>1, <3>1, <3>2, <3>3, <3>4 DEF CallInv
  <2> QED BY <2>4, <2>5
<1>3. call' \in [Calls -> CallRecord]
  BY <1>2 DEF Dies
<1> QED BY <1>1, <1>2, <1>3, SameKeeps DEF IInv, ExportType

LEMMA StartsInv == ASSUME IInv, NEW p \in Pids, ServerStarts(p) PROVE IInv'
<1>1. /\ SameFiles /\ stage' = stage /\ call' = call /\ pids[p] = "none"
      /\ pids' \in [Pids -> {"server", "stranger", "none"}]
      /\ \A q \in Pids \ {p} : pids'[q] = pids[q]
  BY DEF ServerStarts, IInv, ExportType
<1>2. ASSUME NEW c \in Calls PROVE CallInv(c)'
  <2>1. CallInv(c) /\ call[c] \in CallRecord
    BY DEF IInv, ExportType
  <2>2. Files(c, call[c])'
    BY <1>1, <2>1 DEF CallInv, Files, Mine, Holds, Lost, SameFiles
  <2>3. Place(c, call[c])'
    BY <1>1, <2>1 DEF CallInv, Place
  <2>4. Route(call[c])'
    BY <1>1, <2>1 DEF CallInv, Route
  <2> QED BY <2>2, <2>3, <2>4 DEF CallInv
<1> QED BY <1>1, <1>2, SameKeeps DEF IInv, ExportType

LEMMA StepInv == ASSUME IInv, [ExportsNext]_exportVars PROVE IInv'
<1>1. CASE UNCHANGED exportVars
  BY <1>1 DEF exportVars, IInv, ExportType, CallInv, Route, Files, Place, Mine, Holds, Lost
<1> QED BY <1>1, PlanInv, PhotoInv, MailInv, SaveInv, UserInv, DiesInv, StartsInv DEF ExportsNext

LEMMA Inductive == ExportsSpec => []IInv
<1>1. ExportsInit => IInv
  BY InitInv
<1>2. IInv /\ [ExportsNext]_exportVars => IInv'
  BY StepInv
<1> QED BY <1>1, <1>2, PTL DEF ExportsSpec

-----------------------------------------------------------------------------
(* What the invariant says.                                                *)

\* The files are as the answers tell, and a photo is at its name whole or not at all.
THEOREM FilesTold == ExportsSpec => []FilesAreAsTold
<1>1. IInv => FilesAreAsTold
  <2> SUFFICES ASSUME IInv PROVE FilesAreAsTold
    OBVIOUS
  <2>1. ASSUME NEW c \in Calls
        PROVE  /\ call[c].told \subseteq Entries /\ Files(c, call[c])
    BY DEF IInv, ExportType, CallRecord, CallInv
  <2>2. AnswersMatchFiles
    BY <2>1 DEF AnswersMatchFiles, At, Files, Mine, Holds, Lost
  <2>3. PhotosArriveWhole
    BY <2>1 DEF PhotosArriveWhole, Files, Mine
  <2> QED BY <2>2, <2>3 DEF FilesAreAsTold
<1> QED BY <1>1, Inductive, PTL

\* What a step of call c changes: the call itself, files it may change, and staging
\* directories of no call that still runs.
Touches(c) ==
    /\ \A d \in Calls \ {c} : call'[d] = call[d]
    /\ \A e \in Entries : entry'[e] # entry[e] => MayChange(c, e)
    /\ \A d \in Calls \ {c} : stage'[d] # stage[d] => call[d].step \in Over

LEMMA PutTouches ==
    ASSUME ExportType, NEW e \in Entries, NEW by, NEW what, Put(e, by, what)
    PROVE  \A x \in Entries : entry'[x] # entry[x] => x = e
BY DEF ExportType, Put

LEMMA PhotoTouches == ASSUME IInv, NEW c \in Calls, PhotoStep(c) PROVE Touches(c)
<1>1. ExportType /\ CallInv(c)
  BY DEF IInv
<1>2. CASE SweepLists(c) \/ MakeStage(c) \/ ExportPhoto(c) \/ LeaveStage(c)
  BY <1>1, <1>2 DEF SweepLists, MakeStage, ExportPhoto, LeaveStage, Goto, Refuse, End, SameFiles,
                    Touches, ExportType
<1>3. CASE Publish(c)
  <2>1. PICK e \in Entries : Entry(c) = e
    BY <1>1, <1>3 DEF Publish, At, CallInv, Route, PhotoSteps, Entry
  <2>2. \A x \in Entries : entry'[x] # entry[x] => x = e /\ entry[e] = Nothing
    BY <1>1, <1>3, <2>1, PutTouches DEF Publish, SameFiles
  <2>3. \A d \in Calls \ {c} : call'[d] = call[d]
    BY <1>1, <1>3 DEF Publish, Goto, ExportType
  <2> QED BY <1>3, <2>2, <2>3 DEF Publish, Touches, MayChange
<1>4. ASSUME NEW d \in Calls, SweepTakes(c, d) PROVE Touches(c)
  <2>1. \A x \in Calls \ {c} : call'[x] = call[x]
    BY <1>1, <1>4 DEF SweepTakes, ExportType
  <2>2. \A x \in Calls \ {c} : stage'[x] # stage[x] =>
            x = d /\ pids[call[d].pid] = "none" /\ stage[d] # "none"
    BY <1>1, <1>4 DEF SweepTakes, PidAlive, ExportType
  <2>3. Place(d, call[d])
    BY DEF IInv, CallInv
  <2>4. \A x \in Calls \ {c} : stage'[x] # stage[x] => call[x].step \in Over
    BY <2>2, <2>3 DEF Place
  <2> QED BY <1>4, <2>1, <2>4 DEF SweepTakes, SameFiles, Touches
<1> QED BY <1>2, <1>3, <1>4 DEF PhotoStep

LEMMA MailTouches == ASSUME IInv, NEW c \in Calls, MailStep(c) PROVE Touches(c)
<1>1. ExportType /\ CallInv(c) /\ call[c] \in CallRecord
  BY DEF IInv, ExportType
<1>2. CASE OpenNext(c)
  <2>1. PICK e \in Entries :
           (entry[e] = Nothing /\ Put(e, c, [by |-> c, size |-> "zero"])) \/ SameFiles
    BY <1>1, <1>2 DEF OpenNext, CallRecord
  <2>2. \A x \in Entries : entry'[x] # entry[x] => x = e /\ entry[e] = Nothing
    BY <1>1, <2>1, PutTouches DEF SameFiles
  <2>3. \A d \in Calls \ {c} : call'[d] = call[d]
    BY <1>1, <1>2 DEF OpenNext, End, ExportType
  <2> QED BY <1>2, <2>2, <2>3 DEF OpenNext, Touches, MayChange
<1>3. CASE WriteOpened(c)
  <2>1. PICK e \in Entries : e = call[c].open /\ call[c].tool = "mail"
    BY <1>1, <1>3 DEF WriteOpened, At, CallInv, Route, CallRecord
  <2>2. \A x \in Entries : entry'[x] # entry[x] => x = e
    BY <1>1, <1>3, <2>1, PutTouches DEF WriteOpened, SameFiles
  <2>3. \A d \in Calls \ {c} : call'[d] = call[d]
    BY <1>1, <1>3 DEF WriteOpened, End, ExportType
  <2> QED BY <1>3, <2>1, <2>2, <2>3 DEF WriteOpened, Touches, MayChange
<1>4. CASE AnswerExport(c)
  BY <1>1, <1>4 DEF AnswerExport, End, SameFiles, Touches, ExportType
<1> QED BY <1>2, <1>3, <1>4 DEF MailStep

LEMMA SaveTouches == ASSUME IInv, NEW c \in Calls, SaveStep(c) PROVE Touches(c)
<1>1. ExportType /\ CallInv(c) /\ call[c] \in CallRecord
  BY DEF IInv, ExportType
<1>2. CASE SendSave(c) \/ MailDeclines(c) \/ SaveTimesOut(c)
  BY <1>1, <1>2 DEF SendSave, MailDeclines, SaveTimesOut, Goto, SameFiles, Touches, ExportType
<1>3. CASE MailSaves(c) \/ ConfirmSaved(c)
  <2>1. PICK e \in Entries : Entry(c) = e /\ call[c].tool = "save" /\ e \in call[c].free
    BY <1>1, <1>3 DEF MailSaves, ConfirmSaved, At, CallInv, Route, SaveSteps, Entry
  <2>2. \A x \in Entries : entry'[x] # entry[x] => x = e
    BY <1>1, <1>3, <2>1, PutTouches DEF MailSaves, ConfirmSaved, SameFiles
  <2>3. \A d \in Calls \ {c} : call'[d] = call[d]
    BY <1>1, <1>3 DEF MailSaves, ConfirmSaved, Refuse, End, ExportType
  <2> QED BY <1>3, <2>1, <2>2, <2>3 DEF MailSaves, ConfirmSaved, Touches, MayChange
<1> QED BY <1>2, <1>3 DEF SaveStep

LEMMA PlanTouches == ASSUME IInv, NEW c \in Calls, PlanFile(c) PROVE Touches(c)
<1>1. ASSUME NEW p, NEW how, NEW label, NEW plan, Begin(c, p, how, label, plan) PROVE Touches(c)
  BY <1>1 DEF IInv, ExportType, Begin, Planned, SameFiles, Touches
<1> QED BY <1>1 DEF PlanFile, PlanPhoto, PlanSave, PlanMail

\* No call overwrites or removes what it did not make, apart from the two windows.
THEOREM NothingOverwritten == ExportsSpec => NothingIsOverwritten
<1> DEFINE Step ==
      \A c \in Calls : call'[c] # call[c] =>
        /\ \A e \in Entries : entry'[e] # entry[e] => MayChange(c, e)
        /\ \A d \in Calls \ {c} : stage'[d] # stage[d] => call[d].step \in Over
<1>1. IInv /\ [ExportsNext]_exportVars => [Step]_exportVars
  <2> SUFFICES ASSUME IInv, ExportsNext PROVE Step
    OBVIOUS
  <2>1. ASSUME NEW c \in Calls, PlanFile(c) \/ PhotoStep(c) \/ MailStep(c) \/ SaveStep(c) PROVE Step
    <3>1. Touches(c)
      BY <2>1, PlanTouches, PhotoTouches, MailTouches, SaveTouches
    <3> QED BY <3>1 DEF Touches
  <2>2. ASSUME NEW e \in Entries, UserPuts(e) \/ UserTakes(e) PROVE Step
    BY <2>2 DEF UserPuts, UserTakes
  <2>3. ASSUME NEW p \in Pids, Dies(p) \/ ServerStarts(p) PROVE Step
    BY <2>3 DEF Dies, ServerStarts, SameFiles
  <2> QED BY <2>1, <2>2, <2>3 DEF ExportsNext
<1> QED BY <1>1, Inductive, PTL DEF ExportsSpec, NothingIsOverwritten

-----------------------------------------------------------------------------
(* DaemonSocket.                                                           *)

LEMMA InitDaemons == DaemonInit => DaemonTypeOK
BY DEF DaemonInit, DaemonTypeOK

LEMMA BindDaemons == ASSUME DaemonTypeOK, NEW d \in Daemons, BindSocket(d) PROVE DaemonTypeOK'
<1>1. CASE Bind(d)
  BY <1>1 DEF Bind, Enter, DaemonTypeOK, callVars
<1>2. CASE Probe(d)
  BY <1>2 DEF Probe, Enter, DaemonTypeOK, callVars
<1>3. CASE Unlink(d)
  BY <1>3 DEF Unlink, Enter, DaemonTypeOK, callVars
<1>4. CASE Rebind(d)
  BY <1>4 DEF Rebind, Enter, DaemonTypeOK, callVars
<1>5. CASE Listen(d)
  BY <1>5 DEF Listen, Enter, DaemonTypeOK, callVars
<1> QED BY <1>1, <1>2, <1>3, <1>4, <1>5 DEF BindSocket

LEMMA EndDaemons ==
    ASSUME DaemonTypeOK, NEW d \in Daemons,
           Start(d) \/ Shutdown(d) \/ EndOfServe(d) \/ HardExit(d)
    PROVE  DaemonTypeOK'
<1>1. CASE Start(d)
  BY <1>1 DEF Start, Enter, DaemonTypeOK, callVars
<1>2. CASE Shutdown(d)
  BY <1>2 DEF Shutdown, Enter, DaemonTypeOK, callVars
<1>3. CASE Drained(d)
  BY <1>3 DEF Drained, Enter, Held, DaemonTypeOK
<1>4. CASE RemovePath(d)
  BY <1>4 DEF RemovePath, Enter, DaemonTypeOK, callVars
<1>5. CASE Exit(d)
  BY <1>5 DEF Exit, EndProcess, Enter, DaemonTypeOK
<1>6. CASE HardExit(d)
  BY <1>6 DEF HardExit, EndProcess, Held, Enter, DaemonTypeOK
<1> QED BY <1>1, <1>2, <1>3, <1>4, <1>5, <1>6 DEF EndOfServe

LEMMA CallDaemons == ASSUME DaemonTypeOK, NEW c \in Requests, Progress(c) PROVE DaemonTypeOK'
<1>1. CASE Connect(c)
  BY <1>1 DEF Connect, DaemonTypeOK, daemonVars
<1>2. CASE Act(c)
  BY <1>2 DEF Act, DaemonTypeOK, daemonVars
<1>3. CASE Answer(c)
  BY <1>3 DEF Answer, DaemonTypeOK, daemonVars
<1>4. CASE Interrupted(c)
  BY <1>4 DEF Interrupted, DaemonTypeOK, daemonVars
<1> QED BY <1>1, <1>2, <1>3, <1>4 DEF Progress

LEMMA StepDaemons == ASSUME DaemonTypeOK, [DaemonNext]_socketVars PROVE DaemonTypeOK'
<1>1. CASE UNCHANGED socketVars
  BY <1>1 DEF DaemonTypeOK, socketVars, daemonVars, callVars
<1>2. CASE DaemonNext
  BY <1>2, BindDaemons, EndDaemons, CallDaemons DEF DaemonNext
<1> QED BY <1>1, <1>2

\* The variables hold what they are declared to hold.
THEOREM DaemonTypeCorrect == DaemonSpec => []DaemonTypeOK
BY InitDaemons, StepDaemons, PTL DEF DaemonSpec

-----------------------------------------------------------------------------
\* A call that no daemon was asked to run, or that was refused, is in no daemon's hands:
\* nothing can run it any more.
Unsent == \A c \in Requests : cpc[c] \in {"new", "refused"} => via[c] = NoOne /\ c \notin ran

LEMMA DaemonUnsent ==
    ASSUME DaemonTypeOK, Unsent, NEW d \in Daemons,
           Start(d) \/ BindSocket(d) \/ Shutdown(d) \/ EndOfServe(d) \/ HardExit(d)
    PROVE  Unsent'
<1>1. cpc' = cpc /\ ran' = ran
  BY DEF Start, BindSocket, Bind, Probe, Unlink, Rebind, Listen, Shutdown,
         EndOfServe, Drained, RemovePath, Exit, HardExit, callVars
<1>2. via' = via \/ EndProcess(d)
  BY DEF Start, BindSocket, Bind, Probe, Unlink, Rebind, Listen, Shutdown,
         EndOfServe, Drained, RemovePath, Exit, HardExit, callVars
<1>3. \A c \in Requests : via[c] = NoOne => via'[c] = NoOne
  BY <1>2 DEF DaemonTypeOK, EndProcess
<1> QED BY <1>1, <1>3 DEF Unsent

LEMMA CallUnsent ==
    ASSUME DaemonTypeOK, Unsent, NEW c \in Requests, Progress(c) PROVE Unsent'
<1>1. CASE Connect(c)
  BY <1>1 DEF Connect, DaemonTypeOK, Unsent
<1>2. CASE Act(c)
  BY <1>2 DEF Act, DaemonTypeOK, Unsent
<1>3. CASE Answer(c)
  BY <1>3 DEF Answer, DaemonTypeOK, Unsent
<1>4. CASE Interrupted(c)
  BY <1>4 DEF Interrupted, DaemonTypeOK, Unsent
<1> QED BY <1>1, <1>2, <1>3, <1>4 DEF Progress

\* A client that reads a refused connection may repeat its call: no daemon ran it, and none
\* that was asked before can run it later, whatever daemons crash, restart or race.
THEOREM RefusedNeverRuns == DaemonSpec => []RefusedMeansNotRun
<1>1. DaemonInit => Unsent
  BY DEF DaemonInit, Unsent
<1>2. ASSUME DaemonTypeOK, Unsent, [DaemonNext]_socketVars PROVE Unsent'
  <2>1. CASE UNCHANGED socketVars
    BY <1>2, <2>1 DEF Unsent, socketVars, callVars
  <2>2. CASE DaemonNext
    BY <1>2, <2>2, DaemonUnsent, CallUnsent DEF DaemonNext
  <2> QED BY <1>2, <2>1, <2>2
<1>3. Unsent => RefusedMeansNotRun
  BY DEF Unsent, RefusedMeansNotRun
<1> QED BY <1>1, <1>2, <1>3, InitDaemons, StepDaemons, PTL DEF DaemonSpec

-----------------------------------------------------------------------------
(* NativeWorker: the Health page holds one thread and one job.             *)

\* A job of the page is asked for once: queued, or running, or done and not yet heard.
AskedOnce(p) ==
    /\ Queued(p) \/ running = p \/ p \in done => thread[p] = "wait"
    /\ running = p => ~Queued(p)
    /\ p \in done => running # p /\ ~Queued(p)
    /\ \A i, j \in DOMAIN queue : queue[i] = p /\ queue[j] = p => i = j

\* The lock is held as long as its thread asks doctor, and a request that was not made has none.
PageInv ==
    /\ queue \in Seq(Jobs) /\ DOMAIN thread = Pages /\ DOMAIN request = Pages
    /\ \A p \in Pages :
          /\ AskedOnce(p)
          /\ healthLock = p <=> Waiting(p)
          /\ request[p] = "idle" => thread[p] = "none"

LEMMA InitPages == ASSUME WorkerInit PROVE PageInv
<1>1. queue \in Seq(Jobs) /\ \A i \in DOMAIN queue : queue[i] = Boot
  <2>1. queue = <<Boot>> \/ queue = <<>>
    BY DEF WorkerInit
  <2>2. Boot \in Jobs
    BY DEF Jobs
  <2>3. CASE queue = <<Boot>>
    BY <2>2, <2>3
  <2>4. CASE queue = <<>>
    BY <2>4
  <2> QED BY <2>1, <2>3, <2>4
<1>2. NoThread \notin Pages /\ Boot \notin Pages
  BY NativeWorkerAssumption DEF Jobs
<1> QED BY <1>1, <1>2 DEF WorkerInit, PageInv, AskedOnce, Queued, Waiting

pages == <<queue, running, done, request, thread, healthLock>>

LEMMA PagesAside == ASSUME PageInv, UNCHANGED pages PROVE PageInv'
BY DEF PageInv, AskedOnce, Queued, Waiting, pages

LEMMA TakesPages == ASSUME PageInv, WorkerTakes PROVE PageInv'
<1>1. /\ queue \in Seq(Jobs) /\ queue # <<>> /\ running = NoThread
      /\ running' = Head(queue) /\ queue' = Tail(queue)
      /\ UNCHANGED <<done, request, thread, healthLock>>
  BY DEF PageInv, WorkerTakes, health
<1>2. /\ queue' \in Seq(Jobs) /\ 1 \in DOMAIN queue /\ running' = queue[1]
      /\ \A i \in DOMAIN queue' : i + 1 \in DOMAIN queue /\ queue'[i] = queue[i + 1] /\ i \in Nat
      /\ 0 \notin DOMAIN queue'
  BY <1>1
<1>3. ASSUME NEW p \in Pages PROVE AskedOnce(p)'
  <2>1. Queued(p)' \/ running' = p => Queued(p)
    BY <1>2 DEF Queued
  <2>2. running' = p => ~Queued(p)'
    <3> SUFFICES ASSUME running' = p, NEW i \in DOMAIN queue', queue'[i] = p PROVE FALSE
      BY DEF Queued
    <3>1. queue[1] = p /\ queue[i + 1] = p /\ i + 1 \in DOMAIN queue /\ i # 0
      BY <1>2
    <3>2. i + 1 = 1
      BY <1>2, <3>1 DEF PageInv, AskedOnce
    <3> QED BY <3>1, <3>2, <1>2
  <2>3. ASSUME NEW i \in DOMAIN queue', NEW j \in DOMAIN queue', queue'[i] = p, queue'[j] = p
        PROVE  i = j
    <3>1. i + 1 = j + 1
      BY <1>2, <2>3 DEF PageInv, AskedOnce
    <3> QED BY <3>1, <1>2
  <2>4. AskedOnce(p)
    BY DEF PageInv
  <2> QED BY <1>1, <2>1, <2>2, <2>3, <2>4 DEF AskedOnce
<1> QED BY <1>1, <1>2, <1>3 DEF PageInv, Waiting

\* The job that ends is done.
LEMMA EndPages ==
    ASSUME PageInv, JobEnds, UNCHANGED <<request, thread, healthLock>>
    PROVE  PageInv'
<1>1. NoThread \notin Pages
  BY NativeWorkerAssumption DEF Jobs
<1> QED BY <1>1 DEF PageInv, AskedOnce, JobEnds, Queued, Waiting

LEMMA WorkerPages == ASSUME PageInv, WorkerStep PROVE PageInv'
<1>1. CASE WorkerTakes
  BY <1>1, TakesPages
<1>2. CASE Popen \/ TrackChild \/ HostTimeout \/ ReadFallsBack
  <2>1. UNCHANGED pages
    BY <1>2 DEF Popen, TrackChild, HostTimeout, ReadFallsBack, health, pages
  <2> QED BY <2>1, PagesAside
<1>3. CASE ChildAnswers \/ HintRead \/ CallbackOrTimeout \/ ReadReturns
  <2>1. JobEnds /\ UNCHANGED <<request, thread, healthLock>>
    BY <1>3 DEF ChildAnswers, HintRead, CallbackOrTimeout, ReadReturns, health
  <2> QED BY <2>1, EndPages
<1> QED BY <1>1, <1>2, <1>3 DEF WorkerStep

\* A job that is not queued goes to the end of the queue.
LEMMA QueuedLast ==
    ASSUME queue \in Seq(Jobs), NEW j \in Jobs, queue' = Append(queue, j)
    PROVE  /\ queue' \in Seq(Jobs)
           /\ \A p : Queued(p)' <=> Queued(p) \/ p = j
           /\ \A p \in Pages : ~(Queued(p) /\ p = j) /\ AskedOnce(p) =>
                 \A i, k \in DOMAIN queue' : queue'[i] = p /\ queue'[k] = p => i = k
<1>1. /\ queue' \in Seq(Jobs)
      /\ \A i \in DOMAIN queue' : \/ i \in DOMAIN queue /\ queue'[i] = queue[i]
                                  \/ i = Len(queue) + 1 /\ queue'[i] = j
      /\ \A i \in DOMAIN queue : i \in DOMAIN queue' /\ queue'[i] = queue[i]
      /\ Len(queue) + 1 \in DOMAIN queue' /\ queue'[Len(queue) + 1] = j
  OBVIOUS
<1>2. ASSUME NEW p PROVE Queued(p)' <=> Queued(p) \/ p = j
  BY <1>1 DEF Queued
<1>3. ASSUME NEW p \in Pages, ~(Queued(p) /\ p = j), AskedOnce(p),
             NEW i \in DOMAIN queue', NEW k \in DOMAIN queue', queue'[i] = p, queue'[k] = p
      PROVE  i = k
  <2>1. CASE p = j
    <3>1. i \notin DOMAIN queue \/ queue[i] # p
      BY <1>3, <2>1 DEF Queued
    <3>2. k \notin DOMAIN queue \/ queue[k] # p
      BY <1>3, <2>1 DEF Queued
    <3> QED BY <1>1, <1>3, <3>1, <3>2
  <2>2. CASE p # j
    BY <1>1, <1>3, <2>2 DEF AskedOnce
  <2> QED BY <2>1, <2>2
<1> QED BY <1>1, <1>2, <1>3

LEMMA CallPages ==
    ASSUME PageInv, NEW c \in ToolCalls,
           CallStarts(c) \/ CallReturns(c)
    PROVE  PageInv'
<1>1. c \notin Pages /\ c \in Jobs
  BY NativeWorkerAssumption DEF Jobs
<1>2. CASE CallStarts(c)
  <2>1. /\ queue' = Append(queue, c)
        /\ UNCHANGED <<running, done, request, thread, healthLock>>
    BY <1>2 DEF CallStarts, health
  <2>2. queue \in Seq(Jobs)
    BY DEF PageInv
  <2>3. /\ queue' \in Seq(Jobs)
        /\ \A p \in Pages : Queued(p)' <=> Queued(p)
    BY <1>1, <2>1, <2>2, QueuedLast
  <2>4. ASSUME NEW p \in Pages PROVE AskedOnce(p)'
    <3>1. AskedOnce(p) /\ p # c
      BY <1>1 DEF PageInv
    <3>2. \A i, k \in DOMAIN queue' : queue'[i] = p /\ queue'[k] = p => i = k
      BY <1>1, <2>1, <2>2, <3>1, QueuedLast
    <3> QED BY <2>1, <2>3, <3>1, <3>2 DEF AskedOnce
  <2> QED BY <2>1, <2>3, <2>4 DEF PageInv, Waiting
<1>3. CASE CallReturns(c)
  <2>1. /\ done' = done \ {c} /\ UNCHANGED <<queue, running, request, thread, healthLock>>
    BY <1>3 DEF CallReturns, worker, health
  <2> QED BY <1>1, <2>1 DEF PageInv, AskedOnce, Queued, Waiting
<1> QED BY <1>2, <1>3

LEMMA RequestPages ==
    ASSUME PageInv, NEW p \in Pages,
           PageRequested(p) \/ TryLock(p) \/ PageAnswers(p) \/ PageGivesUp(p)
    PROVE  PageInv'
<1>1. NoThread \notin Pages
  BY NativeWorkerAssumption DEF Jobs
<1>2. UNCHANGED <<queue, running, done>>
  BY DEF PageRequested, TryLock, PageAnswers, PageGivesUp, worker
<1>3. CASE PageRequested(p)
  <2>1. /\ thread[p] = "none" /\ healthLock' = healthLock
        /\ thread' \in {thread, [thread EXCEPT ![p] = "try"]}
        /\ \E s \in {"open", "answered"} : request' = [request EXCEPT ![p] = s]
    BY <1>3 DEF PageInv, PageRequested
  <2> QED BY <1>2, <2>1 DEF PageInv, AskedOnce, Queued, Waiting
<1>4. CASE TryLock(p)
  <2>1. /\ thread[p] = "try" /\ request' = request
        /\ \/ healthLock = NoThread /\ healthLock' = p /\ thread' = [thread EXCEPT ![p] = "doctor"]
           \/ healthLock' = healthLock /\ thread' = [thread EXCEPT ![p] = "ended"]
    BY <1>4 DEF TryLock
  <2> QED BY <1>1, <1>2, <2>1 DEF PageInv, AskedOnce, Queued, Waiting
<1>5. CASE PageAnswers(p) \/ PageGivesUp(p)
  <2>1. request' = [request EXCEPT ![p] = "answered"] /\ UNCHANGED <<thread, healthLock>>
    BY <1>5 DEF PageAnswers, PageGivesUp
  <2> QED BY <1>2, <2>1 DEF PageInv, AskedOnce, Queued, Waiting
<1> QED BY <1>3, <1>4, <1>5

LEMMA DoctorPages ==
    ASSUME PageInv, NEW p \in Pages,
           DoctorAsks(p) \/ DoctorHears(p) \/ DoctorEnds(p)
    PROVE  PageInv'
<1>1. NoThread \notin Pages /\ p \in Jobs
  BY NativeWorkerAssumption DEF Jobs
<1>2. CASE DoctorAsks(p)
  <2>1. /\ thread[p] = "doctor" /\ thread' = [thread EXCEPT ![p] = "wait"]
        /\ queue' = Append(queue, p) /\ UNCHANGED <<running, done, request, healthLock>>
    BY <1>2 DEF DoctorAsks
  <2>2. ~Queued(p) /\ running # p /\ p \notin done /\ queue \in Seq(Jobs)
    BY <2>1 DEF PageInv, AskedOnce
  <2>3. /\ queue' \in Seq(Jobs)
        /\ \A q \in Pages : Queued(q)' <=> Queued(q) \/ q = p
    BY <1>1, <2>1, <2>2, QueuedLast
  <2>4. ASSUME NEW q \in Pages PROVE AskedOnce(q)'
    <3>1. AskedOnce(q) /\ DOMAIN thread = Pages
      BY DEF PageInv
    <3>2. \A i, k \in DOMAIN queue' : queue'[i] = q /\ queue'[k] = q => i = k
      BY <1>1, <2>1, <2>2, <3>1, QueuedLast
    <3> QED BY <2>1, <2>2, <2>3, <3>1, <3>2 DEF AskedOnce
  <2> QED BY <2>1, <2>3, <2>4 DEF PageInv, Waiting
<1>3. CASE DoctorHears(p)
  <2>1. /\ thread[p] = "wait" /\ thread' = [thread EXCEPT ![p] = "doctor"] /\ p \in done
        /\ done' = done \ {p} /\ UNCHANGED <<queue, running, request, healthLock>>
    BY <1>3 DEF DoctorHears, worker
  <2> QED BY <2>1 DEF PageInv, AskedOnce, Queued, Waiting
<1>4. CASE DoctorEnds(p)
  <2>1. /\ thread[p] = "doctor" /\ thread' = [thread EXCEPT ![p] = "ended"]
        /\ healthLock' = NoThread /\ UNCHANGED <<queue, running, done, request>>
    BY <1>4 DEF DoctorEnds, worker
  <2>2. \A q \in Pages : Waiting(q) => q = p
    BY <2>1 DEF PageInv, Waiting
  <2> QED BY <1>1, <2>1, <2>2 DEF PageInv, AskedOnce, Queued, Waiting
<1> QED BY <1>2, <1>3, <1>4

LEMMA EndsPages ==
    ASSUME PageInv,
           \/ BootEnds \/ ServerReturns \/ QueueDrained \/ WatcherSees \/ Watchdog
           \/ ReadStalls \/ ParentDies \/ Sigterm \/ RestartAsked
           \/ \E j \in Jobs : ChildEnds(j)
           \/ \E t \in Enders : EndStep(t)
    PROVE  PageInv'
<1>1. CASE BootEnds
  <2>1. Boot \notin Pages
    BY NativeWorkerAssumption
  <2>2. done' = done \ {Boot} /\ UNCHANGED <<queue, running, request, thread, healthLock>>
    BY <1>1 DEF BootEnds, worker, health
  <2> QED BY <2>1, <2>2 DEF PageInv, AskedOnce, Queued, Waiting
<1>2. CASE ~BootEnds
  <2>1. UNCHANGED pages
    BY <1>2 DEF ServerReturns, QueueDrained, WatcherSees, Watchdog, ReadStalls, ParentDies,
                Sigterm, RestartAsked, ChildEnds, EndStep, TakeLock, CopyChildren,
                TerminateCopied, ProcessEnds, worker, health, pages
  <2> QED BY <2>1, PagesAside
<1> QED BY <1>1, <1>2

LEMMA StepPages == ASSUME PageInv, [WorkerNext]_workerVars PROVE PageInv'
<1>1. CASE UNCHANGED workerVars
  <2>1. UNCHANGED pages
    BY <1>1 DEF workerVars, worker, health, pages
  <2> QED BY <2>1, PagesAside
<1>2. CASE WorkerNext
  BY <1>2, WorkerPages, CallPages, RequestPages, DoctorPages, EndsPages
     DEF WorkerNext, Outside, PageStep
<1> QED BY <1>1, <1>2

\* However many Health pages are loaded and given up on, one thread waits behind the worker and
\* one job of theirs is queued: health._run's lock, freed by the thread that took it.
THEOREM OneThreadWaits == WorkerSpec => []ThreadsStayBounded
<1>1. PageInv => ThreadsStayBounded
  BY DEF PageInv, AskedOnce, ThreadsStayBounded, Waiting
<1> QED BY <1>1, InitPages, StepPages, PTL DEF WorkerSpec
=============================================================================
