-------------------------- MODULE DashboardRecords --------------------------
(***************************************************************************)
(* The Writes and Backups pages (dashboard/writes.py, recovery.py,         *)
(* backups.py): what they make of an audit log that the calls of several   *)
(* processes append to.  A batch Mail write leaves a plan record, a done   *)
(* record and, if it ended well, the middleware's line; a page must show   *)
(* them as one write, by the receipt the line carries or, for a line from  *)
(* before that key, by its place after the done record.                    *)
(*                                                                         *)
(* A receipt is named by the call that wrote it.  Positions are those of   *)
(* audit.jsonl.1 followed by audit.jsonl.                                  *)
(***************************************************************************)
EXTENDS Naturals, Sequences, FiniteSets

CONSTANTS
    Calls,
    Kind,           \* per call: "move", "dedupe", "undo", "undo preview", "plain"
    Undoes,         \* per call: the call an undo names, or None
    Versions,       \* which calls may be of the version whose lines carry no receipt
    None,
    MaxTicks,       \* bound on the seconds that pass
    MaxRotations,   \* bound
    MaxMissing      \* bound on the records that were not written

VARIABLES
    old,            \* the calls of that version
    older, live,    \* audit.jsonl.1 and audit.jsonl
    rotations, missing,
    clock,
    pc,             \* per call: "new", "planned", "done", "ended", "stopped"
    results,        \* per call: what its batch did: to all, some or no message
    beside          \* history: per call: the calls that ran at the same time

vars == <<old, older, live, rotations, missing, clock, pc, results, beside>>

Batches == {c \in Calls : Kind[c] \in {"move", "dedupe", "undo"}}
Tool(c) == CASE Kind[c] = "move" -> "move_mail" [] Kind[c] = "dedupe" -> "dedupe-mail"
             [] Kind[c] = "plain" -> "update_note" [] OTHER -> "mail_undo"
Op(c) == IF Kind[c] = "dedupe" THEN "dedupe" ELSE "move"

Labels == {"move_mail", "dedupe-mail", "update_note", "mail_undo", "mail_recover"}
Records == [call : Calls, tool : Labels, phase : {"plan", "done", "line"}, receipt : Calls \cup {None},
            op : {"move", "dedupe"}, dry : BOOLEAN, names : Calls \cup {None},
            results : {"all", "some", "none", "unknown"}, ts : Nat]

TypeOK ==
    /\ old \in Versions
    /\ older \in Seq(Records) /\ live \in Seq(Records)
    /\ rotations \in Nat /\ missing \in Nat /\ clock \in Nat
    /\ pc \in [Calls -> {"new", "planned", "done", "ended", "stopped"}]
    /\ results \in [Calls -> {"all", "some", "none", "unknown"}]
    /\ beside \in [Calls -> SUBSET Calls]

Init ==
    /\ old \in Versions
    /\ older = <<>> /\ live = <<>> /\ rotations = 0 /\ missing = 0 /\ clock = 0
    /\ pc = [c \in Calls |-> "new"]
    /\ results = [c \in Calls |-> "unknown"]
    /\ beside = [c \in Calls |-> {}]

-----------------------------------------------------------------------------
(* The readers.                                                            *)

read_all == older \o live

At(log, c, phase) == {i \in DOMAIN log : log[i].phase = phase /\ log[i].receipt = c}
First(S) == CHOOSE i \in S : \A j \in S : i <= j
Receipts(log) == {log[i].receipt : i \in {j \in DOMAIN log : log[j].phase \in {"plan", "done"}}}

\* Bug: whatever batch line comes next is this batch's.
FollowsUnkeyed(log, i) ==
    /\ i + 1 \in DOMAIN log
    /\ log[i + 1].phase = "line" /\ ~log[i + 1].dry
    /\ log[i + 1].tool \in {"move_mail", "mail_undo"} /\ log[i + 1].op = log[i].op

\* The next record is a real call of a batch tool with this op and has no receipt of its own.
Follows(log, i) ==
    /\ i + 1 \in DOMAIN log
    /\ log[i + 1].phase = "line" /\ ~log[i + 1].dry /\ log[i + 1].receipt = None
    /\ log[i + 1].tool \in {"move_mail", "mail_undo"} /\ log[i + 1].op = log[i].op

\* The middleware's line of a batch: the first that names its receipt, else its neighbour.
LineOf(log, c) ==
    IF At(log, c, "line") # {} THEN {First(At(log, c, "line"))}
    ELSE {i + 1 : i \in {j \in At(log, c, "done") : Follows(log, j)}}

\* build_rows: a row stands at one record and gathers some; a batch without a line stands at
\* its plan, or at its done record when the plan is no longer there.
Gathered(log) ==
    LET lineOf == [c \in Receipts(log) |-> LineOf(log, c)]
        linked == UNION {lineOf[c] : c \in Receipts(log)}
        plans == [c \in Receipts(log) |-> At(log, c, "plan")]
        dones == [c \in Receipts(log) |-> At(log, c, "done")]
    IN  {[at |-> IF lineOf[c] # {} THEN First(lineOf[c])
                ELSE IF plans[c] # {} THEN First(plans[c]) ELSE First(dones[c]),
          receipt |-> c, lines |-> plans[c] \cup dones[c] \cup lineOf[c]] : c \in Receipts(log)}
            \cup {[at |-> i, receipt |-> None, lines |-> {i}] :
                    i \in {j \in DOMAIN log : log[j].phase = "line" /\ j \notin linked}}

\* Bug: counted from the newest, as the list shows them.
OrdinalFromNewest(log, rows, row) ==
    Cardinality({other \in rows : other.at > row.at /\ log[other.at].ts = log[row.at].ts})

\* A row is addressed by its second and its place among that second's rows.
Ordinal(log, rows, row) ==
    Cardinality({other \in rows : other.at < row.at /\ log[other.at].ts = log[row.at].ts})

\* What a row is called: its line's tool, or a label for a batch nobody named.
RowTool(rec) == IF rec.phase = "line" THEN rec.tool
                ELSE IF rec.op = "dedupe" THEN "dedupe-mail" ELSE "move_mail"

Rows(log) ==
    LET rows == Gathered(log)
    IN  {[at |-> row.at, receipt |-> row.receipt, lines |-> row.lines, ts |-> log[row.at].ts,
          n |-> Ordinal(log, rows, row), tool |-> RowTool(log[row.at]),
          preview |-> log[row.at].dry, names |-> log[row.at].names,
          calls |-> {log[i].call : i \in row.lines}] : row \in rows}

\* The undos of a batch: the first is the one its page tells of.
UndoRows(rows, receipt) ==
    {row \in rows : row.tool = "mail_undo" /\ ~row.preview /\ row.names = receipt}
UndoRow(rows, receipt) ==
    CHOOSE row \in UndoRows(rows, receipt) : \A other \in UndoRows(rows, receipt) : row.at <= other.at

\* Bug: a target without a result was moved, as undo_plan reads it.
OutcomesOrMoved(log, row) ==
    LET done == {i \in row.lines : log[i].phase = "done"}
    IN  IF done = {} THEN "all" ELSE log[First(done)].results

\* outcomes: a target without a result is unknown.
Outcomes(log, row) ==
    LET done == {i \in row.lines : log[i].phase = "done"}
    IN  IF done = {} THEN "unknown" ELSE log[First(done)].results

\* find_receipt, for the prompt that a page offers.
Resolves(log, c) == At(log, c, "plan") # {}

\* The card of a batch: the banner of an undo, the prompt, or the note that the plan is gone.
Card(log, rows, c) ==
    IF UndoRows(rows, c) = {} THEN IF Resolves(log, c) THEN "prompt" ELSE "rotated out"
    ELSE LET undo == UndoRow(rows, c)
         IN  IF undo.receipt = None THEN "undone"
             ELSE IF Outcomes(log, undo) = "all" THEN "back" ELSE "not every message"

-----------------------------------------------------------------------------
(* The writers.                                                            *)

Record(c, phase) ==
    [call |-> c, tool |-> IF phase = "line" THEN Tool(c) ELSE "mail_recover", phase |-> phase,
     receipt |-> IF c \in Batches /\ (phase # "line" \/ c \notin old) THEN c ELSE None,
     op |-> Op(c), dry |-> Kind[c] = "undo preview",
     names |-> IF phase = "line" THEN Undoes[c] ELSE None,
     results |-> IF phase = "done" THEN results'[c] ELSE "unknown", ts |-> clock]

\* audit_write: the record is appended, or lost without a word.
Appends(c, phase) ==
    \/ live' = Append(live, Record(c, phase)) /\ UNCHANGED missing
    \/ missing < MaxMissing /\ missing' = missing + 1 /\ UNCHANGED live

Running == {c \in Calls : pc[c] \in {"planned", "done"}}
Goto(c, label) == pc' = [pc EXCEPT ![c] = label]

\* An upgrade comes between the calls of the old version and those of the new.
MayStart(c) == pc[c] = "new" /\ \A d \in Calls : IF c \in old THEN d \notin old => pc[d] = "new"
                                                ELSE d \in old => pc[d] \notin {"planned", "done"}

\* recoverable: no record, no batch.
Plan(c) ==
    /\ MayStart(c) /\ c \in Batches
    /\ Kind[c] = "undo" => Resolves(read_all, Undoes[c])
    /\ live' = Append(live, Record(c, "plan"))
    /\ beside' = [d \in Calls |-> IF d = c THEN Running
                                  ELSE IF d \in Running THEN beside[d] \cup {c} ELSE beside[d]]
    /\ Goto(c, "planned")
    /\ UNCHANGED <<old, older, rotations, missing, clock, results>>

Done(c) ==
    /\ pc[c] = "planned"
    /\ \E what \in {"all"} \cup (IF Kind[c] = "undo" THEN {"some"} ELSE {}) : results' = [results EXCEPT ![c] = what]
    /\ Appends(c, "done")
    /\ Goto(c, "done")
    /\ UNCHANGED <<old, older, rotations, clock, beside>>

\* AuditMiddleware: a line for a call that came back without an error.
Line(c) ==
    /\ \/ pc[c] = "done" /\ Kind[c] # "dedupe"
       \/ MayStart(c) /\ c \notin Batches
    /\ Appends(c, "line")
    /\ Goto(c, "ended")
    /\ UNCHANGED <<old, older, rotations, clock, results, beside>>

\* The command ends, the call raises (a timeout, after its done record) or the process dies.
Stop(c) ==
    /\ pc[c] \in {"planned", "done"}
    /\ Goto(c, IF pc[c] = "done" /\ Kind[c] = "dedupe" THEN "ended" ELSE "stopped")
    /\ UNCHANGED <<old, older, live, rotations, missing, clock, results, beside>>

Rotate ==
    /\ rotations < MaxRotations /\ live # <<>>
    /\ rotations' = rotations + 1
    /\ older' = live /\ live' = <<>>
    /\ UNCHANGED <<old, missing, clock, pc, results, beside>>

Tick == clock < MaxTicks /\ clock' = clock + 1
        /\ UNCHANGED <<old, older, live, rotations, missing, pc, results, beside>>

Next ==
    \/ \E c \in Calls : Plan(c) \/ Done(c) \/ Line(c) \/ Stop(c)
    \/ Rotate \/ Tick

Spec == Init /\ [][Next]_vars

-----------------------------------------------------------------------------
(* Properties.                                                             *)

\* One write, one row: a row never mixes the records of two calls, and no two rows share one,
\* however the records of several processes lie between one another, whichever of them are
\* missing and wherever the log was cut.  A version without the receipt key is the exception:
\* of two of its batches that ran at once only the place tells the lines apart, and a line has
\* a row of its own when it is not next to its done record.
RowsAreCalls ==
    LET rows == Rows(read_all)
    IN  \A row \in rows :
            /\ \A c, d \in row.calls : c # d => {c, d} \subseteq old /\ d \in beside[c]
            /\ \A other \in rows \ {row} : row.calls \cap other.calls \subseteq old

\* A call of the older version whose line a page may take for another's.
MayBeMistaken(c) == c \in old /\ beside[c] # {}

\* A page that says a batch's messages are back is right: an undo of that receipt came back
\* and moved all it had to move, whichever of its records the log still has.
BackIsTrue ==
    LET rows == Rows(read_all)
    IN  \A c \in Receipts(read_all) :
            Card(read_all, rows, c) = "back" =>
                \E u \in Calls : /\ Kind[u] = "undo" /\ Undoes[u] = c /\ pc[u] = "ended"
                                 /\ results[u] = "all" \/ MayBeMistaken(u)

\* A row keeps the address its page shows while records are appended: no other write moves to
\* it.  Only a batch that still waits for its line moves, and the rows after it in its second.
RowsKeepTheirPlace ==
    [][older' = older =>
        LET rows == Rows(read_all)
            waits == {row \in rows : /\ read_all[row.at].phase # "line"
                                     /\ row.receipt \in Running \/ MayBeMistaken(row.receipt)}
            later == Rows(read_all')
        IN  \A row \in rows :
                (\A other \in waits : other.ts = row.ts => other.at > row.at) =>
                    \E now \in later : now.ts = row.ts /\ now.n = row.n /\ row.calls \subseteq now.calls]_vars

=============================================================================
