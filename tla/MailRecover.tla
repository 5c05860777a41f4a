---------------------------- MODULE MailRecover ----------------------------
(***************************************************************************)
(* The recoverable plane of the Mail adapter: every move, soft delete and  *)
(* same-mailbox dedupe runs "backup -> log -> act -> log", and mail_undo   *)
(* replays a receipt in reverse as an ordinary move.                       *)
(*                                                                         *)
(* One element of Ops is one call of recoverable() and so one receipt.     *)
(* Several calls run at once (one server process per client, the daemon,   *)
(* the dedupe CLI), so their steps interleave, also with the user, who     *)
(* drags messages in Mail.  The steps of one call are the separate native  *)
(* calls and log writes of the code: between two of them anything happens. *)
(*                                                                         *)
(* Mail itself is external.  It is modelled by what the scripts rely on: a *)
(* verb moves the copy or silently does nothing, a deleted copy may stay   *)
(* listed in its source for a while, an error raised by a verb means that  *)
(* this copy did not move.                                                 *)
(***************************************************************************)
EXTENDS Integers, FiniteSets

CONSTANTS
    Ops,            \* the calls of recoverable(), by receipt
    Nobody,         \* not an op: the user, or the initial state
    Msgs,           \* bare Message-IDs
    Copies,         \* stored copies, numbered in mailbox order
    IdOf,           \* the Message-ID of each copy
    Kinds,          \* the ops this instance issues
    Stocked,        \* the mailboxes each copy may be stored in at the start
    Sources,        \* the mailboxes that requests name as their source
    MaxUserMoves    \* bound on the copies the user drags

ASSUME NobodyAssumption == Nobody \notin Ops
ASSUME CopiesAssumption == Copies \subseteq Nat /\ IsFiniteSet(Copies)
ASSUME IdOfAssumption == IdOf \in [Copies -> Msgs]
ASSUME KindsAssumption == Kinds \subseteq {"move", "trash", "dedupe"}

Mailboxes == {"Inbox", "Archive", "Trash"}
Nowhere == "Nowhere"

ASSUME SourcesAssumption == Sources \subseteq Mailboxes
ASSUME StockedAssumption == Stocked \in [Copies -> SUBSET Mailboxes]
ASSUME BoundAssumption == MaxUserMoves \in Nat

VARIABLES
    at,         \* the mailbox that stores each copy
    lingers,    \* the mailbox that still lists a copy deleted from it, or Nowhere
    mover,      \* the op whose event filed the copy where it is, or Nobody
    call,       \* per op: what was asked (the plan record's content)
    pc,         \* per op: the next step of recoverable() and its act
    plans,      \* the ops whose plan record is in the action log
    dones,      \* per op: left_source of its done record, or NoRecord
    found,      \* per op: the copies read from the source
    before,     \* per op: copies per id in the destination, read before acting
    outcome,    \* per op and copy: what the script answered
    result,     \* per op and id: the folded status
    left,       \* per op and id: the folded left_source
    late,       \* per op: copies whose Apple Event may land after the host gave up
    userMoves

mailVars == <<at, lingers, mover>>
logVars == <<plans, dones>>
actVars == <<found, before, outcome, result, left>>
vars == <<mailVars, call, pc, logVars, actVars, late, userMoves>>

-----------------------------------------------------------------------------
NoCall == [kind |-> "none", src |-> "Inbox", dst |-> "Inbox", ids |-> {}]
NoRecord == [m \in Msgs |-> "norecord"]

LeftSources == {"left", "stayed", "unknown"}

Outcomes ==
    {"none", "sent", "moved", "deleted", "gone", "not-in-source", "ERROR", "unknown"}

Statuses ==
    {"none", "deleting", "ok", "not-in-source", "not-duplicated", "ERROR", "unknown"}

\* The steps at which the act can still fail or be cut off.
Acting == {"copies", "before", "script", "verify", "fold"}
Running == Acting \cup {"backup", "plan", "record", "expired"}
Ended == {"previewed", "refused", "answered", "timedout", "raised", "crashed"}

TypeOK ==
    /\ at \in [Copies -> Mailboxes]
    /\ lingers \in [Copies -> Mailboxes \cup {Nowhere}]
    /\ mover \in [Copies -> Ops \cup {Nobody}]
    /\ call \in [Ops -> [kind : {"none", "move", "trash", "dedupe"},
                         src : Mailboxes, dst : Mailboxes, ids : SUBSET Msgs]]
    /\ pc \in [Ops -> {"idle"} \cup Running \cup Ended]
    /\ plans \subseteq Ops
    /\ dones \in [Ops -> [Msgs -> LeftSources \cup {"norecord"}]]
    /\ found \in [Ops -> SUBSET Copies]
    /\ before \in [Ops -> [Msgs -> Nat]]
    /\ outcome \in [Ops -> [Copies -> Outcomes]]
    /\ result \in [Ops -> [Msgs -> Statuses]]
    /\ left \in [Ops -> [Msgs -> LeftSources]]
    /\ late \in [Ops -> SUBSET Copies]
    /\ userMoves \in Nat

Init ==
    /\ at \in {f \in [Copies -> Mailboxes] : \A c \in Copies : f[c] \in Stocked[c]}
    /\ lingers = [c \in Copies |-> Nowhere]
    /\ mover = [c \in Copies |-> Nobody]
    /\ call = [o \in Ops |-> NoCall]
    /\ pc = [o \in Ops |-> "idle"]
    /\ plans = {}
    /\ dones = [o \in Ops |-> NoRecord]
    /\ found = [o \in Ops |-> {}]
    /\ before = [o \in Ops |-> [m \in Msgs |-> 0]]
    /\ outcome = [o \in Ops |-> [c \in Copies |-> "none"]]
    /\ result = [o \in Ops |-> [m \in Msgs |-> "none"]]
    /\ left = [o \in Ops |-> [m \in Msgs |-> "stayed"]]
    /\ late = [o \in Ops |-> {}]
    /\ userMoves = 0

-----------------------------------------------------------------------------
(* Reading Mail.  A bulk read lists the copies stored in a mailbox and the *)
(* deleted ones Mail has not cleared from it yet.                          *)

Listed(c, b) == at[c] = b \/ lingers[c] = b
CopiesIn(b, m) == {c \in Copies : IdOf[c] = m /\ Listed(c, b)}
Counts(b) == [m \in Msgs |-> Cardinality(CopiesIn(b, m))]
First(S) == CHOOSE c \in S : \A d \in S : c =< d
Last(S) == CHOOSE c \in S : \A d \in S : d =< c

\* Bug: the deletes run from item n down to item 1.
SurplusToOne(S) == S

\* Items n to 2 of a collection of copies.
Surplus(S) == IF S = {} THEN {} ELSE S \ {First(S)}

\* Mail files copy c in b on behalf of who; filed where it lingered, it is stored there.
FileAs(c, b, who) ==
    /\ at' = [at EXCEPT ![c] = b]
    /\ mover' = [mover EXCEPT ![c] = who]
    /\ lingers' = [lingers EXCEPT ![c] = IF @ = b THEN Nowhere ELSE @]

\* `delete`: Trash lists the copy at once, the source clears later.
DeleteAs(c, who) ==
    /\ at' = [at EXCEPT ![c] = "Trash"]
    /\ mover' = [mover EXCEPT ![c] = who]
    /\ lingers' = [lingers EXCEPT ![c] = at[c]]

\* The verb of call o reaches copy c: it acts on a copy stored in the source, or it
\* returns cleanly having done nothing.
Verb(o, c) ==
    \/ /\ at[c] = call[o].src
       /\ IF call[o].kind = "move" THEN FileAs(c, call[o].dst, o) ELSE DeleteAs(c, o)
    \/ UNCHANGED mailVars

\* The locals of act die with it.
ForgetAct(o) ==
    /\ found' = [found EXCEPT ![o] = {}]
    /\ before' = [before EXCEPT ![o] = [m \in Msgs |-> 0]]
    /\ outcome' = [outcome EXCEPT ![o] = [c \in Copies |-> "none"]]

\* So do the answers once recoverable() has returned or raised.
ForgetAnswers(o) ==
    /\ result' = [result EXCEPT ![o] = [m \in Msgs |-> "none"]]
    /\ left' = [left EXCEPT ![o] = [m \in Msgs |-> "stayed"]]

Goto(o, label) == pc' = [pc EXCEPT ![o] = label]
Answer(o, c, a) == outcome' = [outcome EXCEPT ![o][c] = a]

-----------------------------------------------------------------------------
(* Receipts.                                                               *)

\* Bug: a replay that trusts only a certain "left".
UndoOnlyLeft(r) ==
    IF r \notin plans THEN {}
    ELSE IF dones[r] = NoRecord THEN call[r].ids
         ELSE {m \in call[r].ids : dones[r][m] = "left"}

\* undo_plan: what a replay of r would move back.  A receipt whose done record
\* is missing replays every planned target.
UndoTargets(r) ==
    IF r \notin plans THEN {}
    ELSE IF dones[r] = NoRecord THEN call[r].ids
         ELSE {m \in call[r].ids : dones[r][m] # "stayed"}

-----------------------------------------------------------------------------
(* Starting a call.                                                        *)

Begin(o, k, s, d, ms) ==
    /\ pc[o] = "idle"
    /\ ms # {}
    /\ call' = [call EXCEPT ![o] = [kind |-> k, src |-> s, dst |-> d, ids |-> ms]]
    /\ Goto(o, IF k = "dedupe" THEN "plan" ELSE "backup")
    /\ UNCHANGED <<mailVars, logVars, actVars, late, userMoves>>

MoveMail(o) ==
    /\ "move" \in Kinds
    /\ \E s \in Sources, d \in Mailboxes, ms \in SUBSET Msgs :
          s # d /\ Begin(o, "move", s, d, ms)

TrashMail(o) ==
    /\ "trash" \in Kinds
    /\ \E s \in Sources \ {"Trash"}, ms \in SUBSET Msgs : Begin(o, "trash", s, "Trash", ms)

DedupeBatch(o) ==
    /\ "dedupe" \in Kinds
    /\ \E s \in Sources \ {"Trash"}, ms \in SUBSET Msgs : Begin(o, "dedupe", s, "Trash", ms)

\* A dry run reads presence in the source and returns: no backup, no record, no event.
Preview(o) ==
    /\ pc[o] = "idle"
    /\ Goto(o, "previewed")
    /\ UNCHANGED <<mailVars, call, logVars, actVars, late, userMoves>>

\* mail_undo(r): refused when the receipt is unknown or has nothing to replay.
Undo(o, r) ==
    /\ UndoTargets(r) # {}
    /\ Begin(o, "move", call[r].dst, call[r].src, UndoTargets(r))

-----------------------------------------------------------------------------
(* backup -> log.                                                          *)

\* The bytes of each located target are copied out; a target whose file is missing or
\* unreadable is stamped absent and the batch goes on.
Backup(o) ==
    /\ pc[o] = "backup"
    /\ Goto(o, "plan")
    /\ UNCHANGED <<mailVars, call, logVars, actVars, late, userMoves>>

\* A backup that cannot be stored ends the call before anything acts.
BackupFails(o) ==
    /\ pc[o] = "backup"
    /\ Goto(o, "refused")
    /\ UNCHANGED <<mailVars, call, logVars, actVars, late, userMoves>>

WritePlan(o) ==
    /\ pc[o] = "plan"
    /\ plans' = plans \cup {o}
    /\ Goto(o, IF call[o].kind = "dedupe" THEN "script" ELSE "copies")
    /\ UNCHANGED <<mailVars, call, dones, actVars, late, userMoves>>

\* Bug: the answer of audit_write is ignored and the batch acts.
PlanLostAndActing(o) ==
    /\ pc[o] = "plan"
    /\ Goto(o, IF call[o].kind = "dedupe" THEN "script" ELSE "copies")
    /\ UNCHANGED <<mailVars, call, logVars, actVars, late, userMoves>>

PlanRefused(o) ==
    /\ pc[o] = "plan"
    /\ Goto(o, "refused")
    /\ UNCHANGED <<mailVars, call, logVars, actVars, late, userMoves>>

-----------------------------------------------------------------------------
(* act, by internal id: move and trash.                                    *)

ReadCopies(o) ==
    /\ pc[o] = "copies"
    /\ found' = [found EXCEPT ![o] = UNION {CopiesIn(call[o].src, m) : m \in call[o].ids}]
    /\ Goto(o, "before")
    /\ UNCHANGED <<mailVars, call, logVars, before, outcome, result, left, late, userMoves>>

ReadBefore(o) ==
    /\ pc[o] = "before"
    /\ IF found[o] = {}     \* the count just read is discarded
       THEN /\ result' = [result EXCEPT ![o] = [m \in Msgs |-> "not-in-source"]]
            /\ Goto(o, "record")
            /\ UNCHANGED before
       ELSE /\ before' = [before EXCEPT ![o] = Counts(call[o].dst)]
            /\ Goto(o, "script")
            /\ UNCHANGED result
    /\ UNCHANGED <<mailVars, call, logVars, found, outcome, left, late, userMoves>>

Todo(o) == {c \in found[o] : outcome[o][c] = "none"}

\* The script's turn for copy c of a by-id act: it handles one copy at a time.
Turn(o, c) ==
    /\ pc[o] = "script"
    /\ call[o].kind # "dedupe"
    /\ c \in Todo(o)
    /\ \A d \in found[o] : outcome[o][d] # "sent"

\* The reference cannot be read: a copy that went, or one that Mail does not show.
NotInSource(o, c) ==
    /\ Turn(o, c)
    /\ Answer(o, c, "not-in-source")
    /\ UNCHANGED <<mailVars, call, pc, logVars, found, before, result, left, late, userMoves>>

\* The internal id names another message, or the verb raised: the copy did not move.
VerbRaises(o, c) ==
    /\ Turn(o, c)
    /\ Listed(c, call[o].src)
    /\ Answer(o, c, "ERROR")
    /\ UNCHANGED <<mailVars, call, pc, logVars, found, before, result, left, late, userMoves>>

\* The verb returns cleanly: it acted, or it silently did nothing.
MoveCopy(o, c) ==
    /\ Turn(o, c)
    /\ call[o].kind = "move"
    /\ Listed(c, call[o].src)
    /\ Verb(o, c)
    /\ Answer(o, c, "sent")
    /\ UNCHANGED <<call, pc, logVars, found, before, result, left, late, userMoves>>

\* Bug: a verb that returned cleanly is believed.
MoveBelieved(o, c) ==
    /\ pc[o] = "script"
    /\ outcome[o][c] = "sent"
    /\ Answer(o, c, "moved")
    /\ UNCHANGED <<mailVars, call, pc, logVars, found, before, result, left, late, userMoves>>

\* The probe of the moved reference, with its one re-check: gone, still readable,
\* or an error that proves nothing.
ProbeMove(o, c) ==
    /\ pc[o] = "script"
    /\ outcome[o][c] = "sent"
    /\ \/ Answer(o, c, IF Listed(c, call[o].src) THEN "ERROR" ELSE "moved")
       \/ Answer(o, c, "unknown")
    /\ UNCHANGED <<mailVars, call, pc, logVars, found, before, result, left, late, userMoves>>

DeleteCopy(o, c) ==
    /\ Turn(o, c)
    /\ call[o].kind = "trash"
    /\ Listed(c, call[o].src)
    /\ Verb(o, c)
    /\ Answer(o, c, "deleted")
    /\ UNCHANGED <<call, pc, logVars, found, before, result, left, late, userMoves>>

ScriptReturns(o) ==
    /\ pc[o] = "script"
    /\ call[o].kind # "dedupe"
    /\ \A c \in found[o] : outcome[o][c] \notin {"none", "sent"}
    /\ Goto(o, IF call[o].kind = "trash" THEN "verify" ELSE "fold")
    /\ UNCHANGED <<mailVars, call, logVars, actVars, late, userMoves>>

\* The trash script's second pass: a deleted copy is gone, odd, or still listed.
VerifyTrash(o) ==
    /\ pc[o] = "verify"
    /\ call[o].kind = "trash"
    /\ \E odd \in SUBSET {c \in found[o] : outcome[o][c] = "deleted"} :
          outcome' = [outcome EXCEPT ![o] = [c \in Copies |->
                        IF c \in odd THEN "unknown"
                        ELSE IF outcome[o][c] = "deleted" /\ ~Listed(c, call[o].src)
                             THEN "gone" ELSE outcome[o][c]]]
    /\ Goto(o, "fold")
    /\ UNCHANGED <<mailVars, call, logVars, found, before, result, left, late, userMoves>>

\* The fold of one id's copies into [status, left_source].
FoldMove(outs, rose) ==
    CASE outs = {} -> <<"not-in-source", "stayed">>
      [] outs = {"moved"} -> IF rose THEN <<"ok", "left">> ELSE <<"ERROR", "left">>
      [] outs = {"not-in-source"} -> <<"not-in-source", "stayed">>
      [] "ERROR" \in outs -> <<"ERROR", IF "moved" \in outs THEN "left" ELSE "stayed">>
      [] OTHER -> <<"unknown", "unknown">>

FoldTrash(outs, rose) ==
    CASE outs = {} -> <<"not-in-source", "stayed">>
      [] outs \subseteq {"deleted", "gone"} /\ outs # {} ->
            IF rose \/ outs = {"gone"} THEN <<"ok", "left">> ELSE <<"ERROR", "stayed">>
      [] outs = {"not-in-source"} -> <<"not-in-source", "stayed">>
      [] "ERROR" \in outs ->
            <<"ERROR", IF outs \cap {"deleted", "gone"} # {} THEN "left" ELSE "stayed">>
      [] OTHER -> <<"unknown", "unknown">>

Folded(o, m) ==
    LET outs == {outcome[o][c] : c \in {d \in found[o] : IdOf[d] = m}}
        rose == Counts(call[o].dst)[m] > before[o][m]
    IN  IF call[o].kind = "trash" THEN FoldTrash(outs, rose) ELSE FoldMove(outs, rose)

Fold(o) ==
    /\ pc[o] = "fold"
    /\ result' = [result EXCEPT ![o] = [m \in Msgs |-> Folded(o, m)[1]]]
    /\ left' = [left EXCEPT ![o] = [m \in Msgs |-> Folded(o, m)[2]]]
    /\ ForgetAct(o)
    /\ Goto(o, "record")
    /\ UNCHANGED <<mailVars, call, logVars, late, userMoves>>

-----------------------------------------------------------------------------
(* act of a dedupe: per id, capture the copies once and delete all but the *)
(* first, last one first; then a second pass counts the survivors.         *)

Losers(o, m) == Surplus({c \in found[o] : IdOf[c] = m})

Undeleted(o, m) == {c \in Losers(o, m) : outcome[o][c] = "none"}

Capture(o, m) ==
    /\ pc[o] = "script"
    /\ call[o].kind = "dedupe"
    /\ m \in call[o].ids
    /\ result[o][m] = "none"
    /\ \A n \in Msgs : result[o][n] = "deleting" => Undeleted(o, n) = {}
    /\ LET matches == CopiesIn(call[o].src, m) IN
          IF Cardinality(matches) < 2
          THEN /\ result' = [result EXCEPT ![o][m] = "not-duplicated"]
               /\ UNCHANGED found
          ELSE /\ result' = [result EXCEPT ![o][m] = "deleting"]
               /\ found' = [found EXCEPT ![o] = @ \cup matches]
    /\ UNCHANGED <<mailVars, call, pc, logVars, before, outcome, left, late, userMoves>>

DedupeDelete(o, m) ==
    /\ pc[o] = "script"
    /\ result[o][m] = "deleting"
    /\ Undeleted(o, m) # {}
    /\ LET c == Last(Undeleted(o, m)) IN
          /\ Verb(o, c)
          /\ Answer(o, c, "deleted")
    /\ UNCHANGED <<call, pc, logVars, found, before, result, left, late, userMoves>>

\* A raising lookup or delete leaves this id, with the losers deleted so far.
DedupeRaises(o, m) ==
    /\ pc[o] = "script"
    /\ call[o].kind = "dedupe"
    /\ m \in call[o].ids
    /\ \/ result[o][m] = "none"
       \/ result[o][m] = "deleting" /\ Undeleted(o, m) # {}
    /\ result' = [result EXCEPT ![o][m] = "ERROR"]
    /\ UNCHANGED <<mailVars, call, pc, logVars, found, before, outcome, left, late, userMoves>>

DeletePassEnds(o) ==
    /\ pc[o] = "script"
    /\ call[o].kind = "dedupe"
    /\ \A m \in call[o].ids :
          result[o][m] # "none" /\ (result[o][m] = "deleting" => Undeleted(o, m) = {})
    /\ Goto(o, "verify")
    /\ UNCHANGED <<mailVars, call, logVars, actVars, late, userMoves>>

\* "exactly one copy survives"; any other count is an ERROR whose outcome is unknown.
VerifyDedupe(o, m) ==
    /\ pc[o] = "verify"
    /\ result[o][m] = "deleting"
    /\ \/ LET survivors == Cardinality(CopiesIn(call[o].src, m)) IN
             /\ result' = [result EXCEPT ![o][m] = IF survivors = 1 THEN "ok" ELSE "ERROR"]
             /\ left' = [left EXCEPT ![o][m] = IF survivors = 1 THEN "left" ELSE "unknown"]
       \/ /\ result' = [result EXCEPT ![o][m] = "ERROR"]   \* the count itself raised
          /\ UNCHANGED left
    /\ UNCHANGED <<mailVars, call, pc, logVars, found, before, outcome, late, userMoves>>

DedupeReturns(o) ==
    /\ pc[o] = "verify"
    /\ call[o].kind = "dedupe"
    /\ \A m \in Msgs : result[o][m] # "deleting"
    /\ ForgetAct(o)
    /\ Goto(o, "record")
    /\ UNCHANGED <<mailVars, call, logVars, result, left, late, userMoves>>

-----------------------------------------------------------------------------
(* -> log, and every way the act ends early.                               *)

\* The done record; a failed write is ignored.
WriteDone(o) ==
    /\ pc[o] \in {"record", "expired"}
    /\ \/ dones' = [dones EXCEPT ![o] = left[o]]
       \/ UNCHANGED dones
    /\ ForgetAnswers(o)
    /\ Goto(o, IF pc[o] = "record" THEN "answered" ELSE "timedout")
    /\ UNCHANGED <<mailVars, call, plans, found, before, outcome, late, userMoves>>

\* The copies that the script of o would still send its verb for.
Remaining(o) ==
    IF pc[o] # "script" THEN {}
    ELSE IF call[o].kind # "dedupe" THEN Todo(o)
         ELSE UNION {CASE result[o][m] = "deleting" -> Undeleted(o, m)
                       [] result[o][m] = "none" -> Surplus(CopiesIn(call[o].src, m))
                       [] OTHER -> {} : m \in call[o].ids}

\* The host kills osascript: no partial answers, every id is unknown, and the one
\* Apple Event in flight may still land.
Timeout(o) ==
    /\ pc[o] \in Acting
    /\ left' = [left EXCEPT ![o] = [m \in Msgs |-> "unknown"]]
    /\ result' = [result EXCEPT ![o] = [m \in Msgs |-> "unknown"]]
    /\ \E inFlight \in SUBSET Remaining(o) :
          /\ Cardinality(inFlight) =< 1
          /\ late' = [late EXCEPT ![o] = inFlight]
    /\ ForgetAct(o)
    /\ Goto(o, "expired")
    /\ UNCHANGED <<mailVars, call, logVars, userMoves>>

\* Any other native error (a bulk read, a mailbox that does not resolve) leaves
\* recoverable() with the plan record only.
ActRaises(o) ==
    /\ \/ pc[o] \in {"copies", "before", "fold"}
       \/ /\ pc[o] = "script"
          /\ \A c \in Copies : outcome[o][c] = "none"
          /\ \A m \in Msgs : result[o][m] = "none"
    /\ ForgetAct(o)
    /\ Goto(o, "raised")
    /\ UNCHANGED <<mailVars, call, logVars, result, left, late, userMoves>>

\* The server dies; an orphaned osascript may still send the rest of its events.
Crash(o) ==
    /\ pc[o] \in Running
    /\ \E orphaned \in SUBSET Remaining(o) : late' = [late EXCEPT ![o] = @ \cup orphaned]
    /\ ForgetAct(o)
    /\ ForgetAnswers(o)
    /\ Goto(o, "crashed")
    /\ UNCHANGED <<mailVars, call, logVars, userMoves>>

LateEvent(o, c) ==
    /\ c \in late[o]
    /\ Verb(o, c)
    /\ late' = [late EXCEPT ![o] = @ \ {c}]
    /\ UNCHANGED <<call, pc, logVars, actVars, userMoves>>

-----------------------------------------------------------------------------
(* Mail and its user.                                                      *)

SourceClears(c) ==
    /\ lingers[c] # Nowhere
    /\ lingers' = [lingers EXCEPT ![c] = Nowhere]
    /\ UNCHANGED <<at, mover, call, pc, logVars, actVars, late, userMoves>>

UserMoves(c, b) ==
    /\ userMoves < MaxUserMoves
    /\ at[c] # b
    /\ FileAs(c, b, Nobody)
    /\ userMoves' = userMoves + 1
    /\ UNCHANGED <<call, pc, logVars, actVars, late>>

-----------------------------------------------------------------------------
Start(o) ==
    MoveMail(o) \/ TrashMail(o) \/ DedupeBatch(o) \/ Preview(o) \/ \E r \in Ops : Undo(o, r)

ActStep(o) ==
    \/ ReadCopies(o) \/ ReadBefore(o) \/ ScriptReturns(o) \/ VerifyTrash(o) \/ Fold(o)
    \/ DeletePassEnds(o) \/ DedupeReturns(o)
    \/ \E c \in Copies :
          NotInSource(o, c) \/ VerbRaises(o, c) \/ MoveCopy(o, c) \/ ProbeMove(o, c)
             \/ DeleteCopy(o, c)
    \/ \E m \in Msgs :
          Capture(o, m) \/ DedupeDelete(o, m) \/ DedupeRaises(o, m) \/ VerifyDedupe(o, m)

CallStep(o) ==
    Backup(o) \/ BackupFails(o) \/ WritePlan(o) \/ PlanRefused(o) \/ ActStep(o) \/ WriteDone(o)

Failure(o) ==
    Timeout(o) \/ ActRaises(o) \/ Crash(o) \/ \E c \in Copies : LateEvent(o, c)

Environment ==
    \E c \in Copies : SourceClears(c) \/ \E b \in Mailboxes : UserMoves(c, b)

Next == Environment \/ \E o \in Ops : Start(o) \/ CallStep(o) \/ Failure(o)

\* Python runs a started call to its end, and every native call is bounded by a host
\* timeout: each enabled step of a call is taken.
Spec == Init /\ [][Next]_vars /\ \A o \in Ops : WF_vars(CallStep(o))

-----------------------------------------------------------------------------
(* Properties.                                                             *)

\* Every message that sits where an operation filed it is one that the receipt of
\* that operation replays (undo_plan): whatever failed, timed out or crashed since,
\* mail_undo can bring it back.
WhatMovedIsReplayable ==
    \A c \in Copies : mover[c] \in Ops => IdOf[c] \in UndoTargets(mover[c])

\* The plan record is written before the first Apple Event: nothing is ever filed by
\* an operation whose plan the action log does not hold.
NothingMovesUnplanned ==
    \A c \in Copies : mover[c] \in Ops => mover[c] \in plans

\* The answers of an id claim no more than what happened.  "ok" is never fake: when the
\* answers of a move are folded, a copy it had read from the source, and that still sits
\* there untouched (the user, who may drag it back, is out of this), makes the id something
\* else than ok.  And "not-in-source", which tells
\* the user to look elsewhere and never to undo, is not said of a message of which the
\* call moved a copy.
AnswersClaimNoMore ==
    [][\A o \in Ops, c \in Copies :
          /\ /\ pc[o] = "fold" /\ call[o].kind = "move" /\ c \in found[o]
             /\ userMoves = 0
             /\ result'[o][IdOf[c]] = "ok"
             => ~(at[c] = call[o].src /\ mover[c] = Nobody)
          /\ mover'[c] = o => result'[o][IdOf[c]] \notin {"not-in-source", "not-duplicated"}]_vars

\* What the docstring of recoverable() says of every native error other than a
\* timeout: nothing acted.
ErrorMeansNothingActed ==
    \A o \in Ops : pc[o] = "raised" => \A c \in Copies : mover[c] # o

\* Only dedupes and their undos have run, and the user has dragged nothing.
OnlyCollapses ==
    /\ userMoves = 0
    /\ \A o \in Ops : call[o].kind \in {"none", "dedupe"} \/ call[o].src = "Trash"

\* Dedupe collapses, it never empties: while only dedupes and their undos run, however
\* many at once, killed and landing late, no step takes the last copy of a message out of
\* a mailbox.
OneCopySurvives ==
    [][OnlyCollapses' =>
          \A b \in Mailboxes \ {"Trash"}, m \in Msgs :
              (\E c \in Copies : IdOf[c] = m /\ at[c] = b)
                 => \E c \in Copies : IdOf[c] = m /\ at'[c] = b]_vars

\* Every call that started ends, whatever Mail does: by an answer, a refusal, an error.
EveryCallEnds == \A o \in Ops : pc[o] \in Running ~> pc[o] \in Ended

\* The plane implements its promise.
Receipts == INSTANCE RecoverableReceipts WITH
    holder <- mover,
    phase <- [o \in Ops |-> IF o \notin plans THEN "none"
                            ELSE IF dones[o] = NoRecord THEN "open" ELSE "closed"],
    replay <- [o \in Ops |-> UndoTargets(o)]

ImplementsReceipts == Receipts!Spec

=============================================================================
