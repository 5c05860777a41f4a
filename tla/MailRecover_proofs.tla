------------------------- MODULE MailRecover_proofs -------------------------
(***************************************************************************)
(* Proofs about MailRecover, for every set of calls, messages and copies:  *)
(* type correctness, the plan record preceding every event, and, for moves *)
(* of messages that are stored once, the replayability of what moved.      *)
(***************************************************************************)
EXTENDS MailRecover, FiniteSetTheorems, TLAPS

(* What the operators of the model return.                                 *)

\* A bulk read counts finitely many copies.
LEMMA CountsType == ASSUME NEW b PROVE Counts(b) \in [Msgs -> Nat]
<1>1. ASSUME NEW m \in Msgs PROVE Cardinality(CopiesIn(b, m)) \in Nat
  <2>1. CopiesIn(b, m) \subseteq Copies
    BY DEF CopiesIn
  <2>2. IsFiniteSet(CopiesIn(b, m))
    BY <2>1, CopiesAssumption, FS_Subset
  <2> QED BY <2>2, FS_CardinalityType
<1> QED BY <1>1 DEF Counts

\* The surplus of a set of copies is part of it.
LEMMA SurplusSubset == ASSUME NEW S PROVE Surplus(S) \subseteq S
BY DEF Surplus

\* A replay names messages of the receipt.
LEMMA UndoTargetsType ==
    ASSUME TypeOK, NEW r \in Ops PROVE UndoTargets(r) \subseteq Msgs
BY DEF TypeOK, UndoTargets

\* What a killed script leaves to do concerns stored copies.
LEMMA RemainingType ==
    ASSUME TypeOK, NEW o \in Ops PROVE Remaining(o) \subseteq Copies
<1>1. found[o] \subseteq Copies
  BY DEF TypeOK
<1>2. Todo(o) \subseteq Copies
  BY <1>1 DEF Todo
<1>3. ASSUME NEW m PROVE Undeleted(o, m) \subseteq Copies
  BY <1>1, SurplusSubset DEF Undeleted, Losers
<1>4. ASSUME NEW m PROVE Surplus(CopiesIn(call[o].src, m)) \subseteq Copies
  BY SurplusSubset DEF CopiesIn
<1> QED BY <1>2, <1>3, <1>4 DEF Remaining

\* The answers folded for an id are a status and a left_source.
LEMMA FoldedType ==
    ASSUME NEW o, NEW m
    PROVE  Folded(o, m)[1] \in Statuses /\ Folded(o, m)[2] \in LeftSources
<1>1. ASSUME NEW outs, NEW rose
      PROVE  /\ FoldMove(outs, rose)[1] \in Statuses
             /\ FoldMove(outs, rose)[2] \in LeftSources
  BY DEF FoldMove, Statuses, LeftSources
<1>2. ASSUME NEW outs, NEW rose
      PROVE  /\ FoldTrash(outs, rose)[1] \in Statuses
             /\ FoldTrash(outs, rose)[2] \in LeftSources
  BY DEF FoldTrash, Statuses, LeftSources
<1> QED BY <1>1, <1>2 DEF Folded

-----------------------------------------------------------------------------
(* Type correctness: one lemma per group of actions.                       *)

LEMMA StartType ==
    ASSUME TypeOK, NEW o \in Ops, Start(o) PROVE TypeOK'
<1>1. ASSUME NEW k \in {"move", "trash", "dedupe"}, NEW s \in Mailboxes,
             NEW d \in Mailboxes, NEW ms \in SUBSET Msgs, Begin(o, k, s, d, ms)
      PROVE  TypeOK'
  BY <1>1 DEF TypeOK, Begin, Goto, mailVars, logVars, actVars, Running, Acting, Ended
<1>2. CASE MoveMail(o)
  BY <1>1, <1>2, SourcesAssumption DEF MoveMail
<1>3. CASE TrashMail(o)
  BY <1>1, <1>3, SourcesAssumption DEF TrashMail, Mailboxes
<1>4. CASE DedupeBatch(o)
  BY <1>1, <1>4, SourcesAssumption DEF DedupeBatch, Mailboxes
<1>5. CASE Preview(o)
  BY <1>5 DEF Preview, TypeOK, Goto, mailVars, logVars, actVars, Running, Acting, Ended
<1>6. ASSUME NEW r \in Ops, Undo(o, r) PROVE TypeOK'
  <2>1. call[r].src \in Mailboxes /\ call[r].dst \in Mailboxes
    BY DEF TypeOK
  <2> QED BY <2>1, <1>1, <1>6, UndoTargetsType DEF Undo
<1> QED BY <1>2, <1>3, <1>4, <1>5, <1>6 DEF Start

\* Whatever c is: an EXCEPT outside the domain changes nothing.
LEMMA VerbType ==
    ASSUME TypeOK, NEW o \in Ops, NEW c, Verb(o, c)
    PROVE  /\ at' \in [Copies -> Mailboxes]
           /\ lingers' \in [Copies -> Mailboxes \cup {Nowhere}]
           /\ mover' \in [Copies -> Ops \cup {Nobody}]
<1>1. CASE UNCHANGED mailVars
  BY <1>1 DEF TypeOK, mailVars
<1>2. CASE FileAs(c, call[o].dst, o)
  <2>1. call[o].dst \in Mailboxes
    BY DEF TypeOK
  <2> QED BY <1>2, <2>1 DEF TypeOK, FileAs
<1>3. CASE DeleteAs(c, o)
  BY <1>3 DEF TypeOK, DeleteAs, Mailboxes
<1> QED BY <1>1, <1>2, <1>3 DEF Verb

LEMMA ScriptStepType ==
    ASSUME TypeOK, NEW o \in Ops, NEW c \in Copies,
           \/ NotInSource(o, c) \/ VerbRaises(o, c) \/ MoveCopy(o, c)
           \/ ProbeMove(o, c) \/ DeleteCopy(o, c)
    PROVE  TypeOK'
<1> USE DEF Answer, Outcomes
<1>1. CASE NotInSource(o, c)
  BY <1>1 DEF TypeOK, NotInSource, mailVars, logVars
<1>2. CASE VerbRaises(o, c)
  BY <1>2 DEF TypeOK, VerbRaises, mailVars, logVars
<1>3. CASE MoveCopy(o, c)
  BY <1>3, VerbType DEF TypeOK, MoveCopy, logVars
<1>4. CASE ProbeMove(o, c)
  <2>1. \/ Answer(o, c, IF Listed(c, call[o].src) THEN "ERROR" ELSE "moved")
        \/ Answer(o, c, "unknown")
    BY <1>4 DEF ProbeMove
  <2>2. outcome' \in [Ops -> [Copies -> Outcomes]]
    <3>1. ASSUME NEW a \in Outcomes, Answer(o, c, a)
          PROVE  outcome' \in [Ops -> [Copies -> Outcomes]]
      BY <3>1 DEF TypeOK
    <3> QED BY <2>1, <3>1
  <2> QED BY <1>4, <2>2 DEF TypeOK, ProbeMove, mailVars, logVars
<1>5. CASE DeleteCopy(o, c)
  BY <1>5, VerbType DEF TypeOK, DeleteCopy, logVars
<1> QED BY <1>1, <1>2, <1>3, <1>4, <1>5

LEMMA DedupeStepType ==
    ASSUME TypeOK, NEW o \in Ops, NEW m \in Msgs,
           \/ Capture(o, m) \/ DedupeDelete(o, m) \/ DedupeRaises(o, m)
           \/ VerifyDedupe(o, m)
    PROVE  TypeOK'
<1>1. CASE Capture(o, m)
  <2>1. CopiesIn(call[o].src, m) \subseteq Copies
    BY DEF CopiesIn
  <2>2. \/ /\ result' = [result EXCEPT ![o][m] = "not-duplicated"]
           /\ found' = found
        \/ /\ result' = [result EXCEPT ![o][m] = "deleting"]
           /\ found' = [found EXCEPT ![o] = @ \cup CopiesIn(call[o].src, m)]
    BY <1>1 DEF Capture
  <2>3. found' \in [Ops -> SUBSET Copies]
    <3>1. found \in [Ops -> SUBSET Copies]
      BY DEF TypeOK
    <3>2. found[o] \cup CopiesIn(call[o].src, m) \subseteq Copies
      BY <2>1, <3>1
    <3> QED BY <2>2, <3>1, <3>2
  <2>4. result' \in [Ops -> [Msgs -> Statuses]]
    <3>1. result \in [Ops -> [Msgs -> Statuses]]
      BY DEF TypeOK
    <3>2. \E a \in Statuses : result' = [result EXCEPT ![o][m] = a]
      BY <2>2 DEF Statuses
    <3> QED BY <3>1, <3>2
  <2> QED BY <1>1, <2>3, <2>4 DEF TypeOK, Capture, mailVars, logVars
<1>2. CASE DedupeDelete(o, m)
  <2> DEFINE c == Last(Undeleted(o, m))
  <2>1. Verb(o, c) /\ Answer(o, c, "deleted")
    BY <1>2 DEF DedupeDelete
  <2>2. outcome' \in [Ops -> [Copies -> Outcomes]]
    BY <2>1 DEF TypeOK, Answer, Outcomes
  <2> QED BY <1>2, <2>1, <2>2, VerbType DEF TypeOK, DedupeDelete, logVars
<1>3. CASE DedupeRaises(o, m)
  BY <1>3 DEF TypeOK, DedupeRaises, mailVars, logVars, Statuses
<1>4. CASE VerifyDedupe(o, m)
  <2>1. /\ \E a \in Statuses : result' = [result EXCEPT ![o][m] = a]
        /\ left' = left \/ \E a \in LeftSources : left' = [left EXCEPT ![o][m] = a]
    BY <1>4 DEF VerifyDedupe, Statuses, LeftSources
  <2>2. result' \in [Ops -> [Msgs -> Statuses]]
    BY <2>1 DEF TypeOK
  <2>3. left' \in [Ops -> [Msgs -> LeftSources]]
    <3>1. left \in [Ops -> [Msgs -> LeftSources]]
      BY DEF TypeOK
    <3> QED BY <2>1, <3>1
  <2> QED BY <1>4, <2>2, <2>3 DEF TypeOK, VerifyDedupe, mailVars, logVars
<1> QED BY <1>1, <1>2, <1>3, <1>4

LEMMA ForgetActType ==
    ASSUME TypeOK, NEW o \in Ops, ForgetAct(o)
    PROVE  /\ found' \in [Ops -> SUBSET Copies]
           /\ before' \in [Ops -> [Msgs -> Nat]]
           /\ outcome' \in [Ops -> [Copies -> Outcomes]]
BY DEF TypeOK, ForgetAct, Outcomes

LEMMA ForgetAnswersType ==
    ASSUME TypeOK, NEW o \in Ops, ForgetAnswers(o)
    PROVE  /\ result' \in [Ops -> [Msgs -> Statuses]]
           /\ left' \in [Ops -> [Msgs -> LeftSources]]
BY DEF TypeOK, ForgetAnswers, Statuses, LeftSources

LEMMA ActStepType ==
    ASSUME TypeOK, NEW o \in Ops, ActStep(o) PROVE TypeOK'
<1> USE DEF Goto, Running, Acting, Ended, mailVars, logVars, actVars
<1>1. CASE ReadCopies(o)
  <2>1. UNION {CopiesIn(call[o].src, m) : m \in call[o].ids} \subseteq Copies
    BY DEF CopiesIn
  <2> QED BY <1>1, <2>1 DEF TypeOK, ReadCopies
<1>2. CASE ReadBefore(o)
  <2>1. /\ \/ result' = [result EXCEPT ![o] = [m \in Msgs |-> "not-in-source"]]
           \/ result' = result
        /\ \/ before' = [before EXCEPT ![o] = Counts(call[o].dst)]
           \/ before' = before
        /\ \/ pc' = [pc EXCEPT ![o] = "record"]
           \/ pc' = [pc EXCEPT ![o] = "script"]
    BY <1>2 DEF ReadBefore
  <2>2. result' \in [Ops -> [Msgs -> Statuses]]
    <3>1. [m \in Msgs |-> "not-in-source"] \in [Msgs -> Statuses]
      BY DEF Statuses
    <3>2. result \in [Ops -> [Msgs -> Statuses]]
      BY DEF TypeOK
    <3> QED BY <2>1, <3>1, <3>2
  <2>3. before' \in [Ops -> [Msgs -> Nat]]
    <3>1. before \in [Ops -> [Msgs -> Nat]]
      BY DEF TypeOK
    <3> QED BY <2>1, <3>1, CountsType
  <2>4. pc' \in [Ops -> {"idle"} \cup Running \cup Ended]
    BY <2>1 DEF TypeOK
  <2> QED BY <1>2, <2>2, <2>3, <2>4 DEF TypeOK, ReadBefore
<1>3. CASE ScriptReturns(o)
  BY <1>3 DEF TypeOK, ScriptReturns
<1>4. CASE VerifyTrash(o)
  <2>1. outcome' \in [Ops -> [Copies -> Outcomes]]
    BY <1>4 DEF TypeOK, VerifyTrash, Outcomes
  <2> QED BY <1>4, <2>1 DEF TypeOK, VerifyTrash
<1>5. CASE Fold(o)
  <2>1. result' \in [Ops -> [Msgs -> Statuses]] /\ left' \in [Ops -> [Msgs -> LeftSources]]
    BY <1>5, FoldedType DEF TypeOK, Fold
  <2> QED BY <1>5, <2>1, ForgetActType DEF TypeOK, Fold
<1>6. CASE DeletePassEnds(o)
  BY <1>6 DEF TypeOK, DeletePassEnds
<1>7. CASE DedupeReturns(o)
  BY <1>7, ForgetActType DEF TypeOK, DedupeReturns
<1> QED BY <1>1, <1>2, <1>3, <1>4, <1>5, <1>6, <1>7, ScriptStepType, DedupeStepType
        DEF ActStep

LEMMA CallStepType ==
    ASSUME TypeOK, NEW o \in Ops, CallStep(o) PROVE TypeOK'
<1> USE DEF Goto, Running, Acting, Ended, mailVars, logVars, actVars
<1>1. CASE Backup(o)
  BY <1>1 DEF TypeOK, Backup
<1>2. CASE BackupFails(o)
  BY <1>2 DEF TypeOK, BackupFails
<1>3. CASE WritePlan(o)
  BY <1>3 DEF TypeOK, WritePlan
<1>4. CASE PlanRefused(o)
  BY <1>4 DEF TypeOK, PlanRefused
<1>5. CASE WriteDone(o)
  <2>1. dones' \in [Ops -> [Msgs -> LeftSources \cup {"norecord"}]]
    <3>1. left[o] \in [Msgs -> LeftSources \cup {"norecord"}]
      BY DEF TypeOK
    <3> QED BY <1>5, <3>1 DEF TypeOK, WriteDone
  <2>2. pc' \in [Ops -> {"idle"} \cup Running \cup Ended]
    BY <1>5 DEF TypeOK, WriteDone
  <2> QED BY <1>5, <2>1, <2>2, ForgetAnswersType DEF TypeOK, WriteDone
<1> QED BY <1>1, <1>2, <1>3, <1>4, <1>5, ActStepType DEF CallStep

LEMMA FailureType ==
    ASSUME TypeOK, NEW o \in Ops, Failure(o) PROVE TypeOK'
<1> USE DEF Goto, Running, Acting, Ended, mailVars, logVars, actVars
<1>1. CASE Timeout(o)
  BY <1>1, ForgetActType, RemainingType DEF TypeOK, Timeout, Statuses, LeftSources
<1>2. CASE ActRaises(o)
  BY <1>2, ForgetActType DEF TypeOK, ActRaises
<1>3. CASE Crash(o)
  BY <1>3, ForgetActType, ForgetAnswersType, RemainingType DEF TypeOK, Crash
<1>4. ASSUME NEW c \in Copies, LateEvent(o, c) PROVE TypeOK'
  BY <1>4, VerbType DEF TypeOK, LateEvent
<1> QED BY <1>1, <1>2, <1>3, <1>4 DEF Failure

LEMMA EnvironmentType ==
    ASSUME TypeOK, Environment PROVE TypeOK'
<1>1. ASSUME NEW c \in Copies, SourceClears(c) PROVE TypeOK'
  BY <1>1 DEF TypeOK, SourceClears, logVars, actVars
<1>2. ASSUME NEW c \in Copies, NEW b \in Mailboxes, UserMoves(c, b) PROVE TypeOK'
  BY <1>2 DEF TypeOK, UserMoves, FileAs, logVars, actVars
<1> QED BY <1>1, <1>2 DEF Environment

LEMMA InitType == Init => TypeOK
<1> SUFFICES ASSUME Init PROVE TypeOK
  OBVIOUS
<1>1. at \in [Copies -> Mailboxes]
  BY DEF Init
<1> QED BY <1>1 DEF Init, TypeOK, NoCall, NoRecord, Mailboxes, LeftSources, Outcomes,
             Statuses

\* Every variable keeps its type, whatever the calls, Mail and the user do.
THEOREM TypeCorrect == Spec => []TypeOK
<1>1. TypeOK /\ [Next]_vars => TypeOK'
  <2> SUFFICES ASSUME TypeOK, [Next]_vars PROVE TypeOK'
    OBVIOUS
  <2>1. CASE UNCHANGED vars
    BY <2>1 DEF TypeOK, vars, mailVars, logVars, actVars
  <2>2. CASE Next
    BY <2>2, EnvironmentType, StartType, CallStepType, FailureType DEF Next
  <2> QED BY <2>1, <2>2
<1> QED BY <1>1, InitType, PTL DEF Spec

-----------------------------------------------------------------------------
(* The frame: a step of one call leaves what another call knows, and what  *)
(* another call filed, as it is.                                           *)

SameCall(p) ==
    /\ call'[p] = call[p]
    /\ pc'[p] = pc[p]
    /\ (p \in plans') = (p \in plans)
    /\ dones'[p] = dones[p]
    /\ found'[p] = found[p]
    /\ result'[p] = result[p]
    /\ outcome'[p] = outcome[p]
    /\ left'[p] = left[p]
    /\ late'[p] = late[p]

NothingNewFiled(p) ==
    \A c \in Copies : mover'[c] = p => mover[c] = p /\ at'[c] = at[c]

Step(o) == Start(o) \/ CallStep(o) \/ Failure(o)

LEMMA SameMail == ASSUME NEW p, UNCHANGED mailVars PROVE NothingNewFiled(p)
BY DEF NothingNewFiled, mailVars

LEMMA VerbFrame ==
    ASSUME TypeOK, NEW o \in Ops, NEW c, Verb(o, c), NEW p \in Ops, p # o
    PROVE  NothingNewFiled(p)
<1>1. CASE UNCHANGED mailVars
  BY <1>1, SameMail
<1>2. CASE FileAs(c, call[o].dst, o)
  BY <1>2 DEF TypeOK, FileAs, NothingNewFiled
<1>3. CASE DeleteAs(c, o)
  BY <1>3 DEF TypeOK, DeleteAs, NothingNewFiled
<1> QED BY <1>1, <1>2, <1>3 DEF Verb

LEMMA StepFrame ==
    ASSUME TypeOK, NEW o \in Ops, Step(o), NEW p \in Ops, p # o
    PROVE  SameCall(p) /\ NothingNewFiled(p)
<1> USE DEF SameCall, Goto, logVars, actVars, ForgetAct, ForgetAnswers, Answer
<1>1. CASE Start(o)
  <2>1. ASSUME NEW k, NEW s, NEW d, NEW ms, Begin(o, k, s, d, ms)
        PROVE  SameCall(p) /\ NothingNewFiled(p)
    BY <2>1, SameMail DEF TypeOK, Begin
  <2>2. CASE Preview(o)
    BY <2>2, SameMail DEF TypeOK, Preview
  <2> QED BY <1>1, <2>1, <2>2 DEF Start, MoveMail, TrashMail, DedupeBatch, Undo
<1>2. CASE Backup(o) \/ BackupFails(o) \/ WritePlan(o) \/ PlanRefused(o)
  BY <1>2, SameMail DEF TypeOK, Backup, BackupFails, WritePlan, PlanRefused
<1>3. CASE ReadCopies(o) \/ ReadBefore(o) \/ ScriptReturns(o) \/ VerifyTrash(o)
  BY <1>3, SameMail DEF TypeOK, ReadCopies, ReadBefore, ScriptReturns, VerifyTrash
<1>4. CASE Fold(o) \/ DeletePassEnds(o) \/ DedupeReturns(o)
  BY <1>4, SameMail DEF TypeOK, Fold, DeletePassEnds, DedupeReturns
<1>5. ASSUME NEW c \in Copies, NotInSource(o, c) \/ VerbRaises(o, c) \/ ProbeMove(o, c)
      PROVE  SameCall(p) /\ NothingNewFiled(p)
  BY <1>5, SameMail DEF TypeOK, NotInSource, VerbRaises, ProbeMove
<1>6. ASSUME NEW c \in Copies, MoveCopy(o, c) \/ DeleteCopy(o, c)
      PROVE  SameCall(p) /\ NothingNewFiled(p)
  BY <1>6, VerbFrame DEF TypeOK, MoveCopy, DeleteCopy
<1>7. ASSUME NEW m \in Msgs, DedupeDelete(o, m)
      PROVE  SameCall(p) /\ NothingNewFiled(p)
  BY <1>7, VerbFrame DEF TypeOK, DedupeDelete
<1>8. ASSUME NEW m \in Msgs, Capture(o, m)
      PROVE  SameCall(p) /\ NothingNewFiled(p)
  BY <1>8, SameMail DEF TypeOK, Capture
<1>9. ASSUME NEW m \in Msgs, DedupeRaises(o, m) \/ VerifyDedupe(o, m)
      PROVE  SameCall(p) /\ NothingNewFiled(p)
  BY <1>9, SameMail DEF TypeOK, DedupeRaises, VerifyDedupe
<1>10. CASE WriteDone(o)
  BY <1>10, SameMail DEF TypeOK, WriteDone
<1>11. CASE Timeout(o) \/ ActRaises(o) \/ Crash(o)
  BY <1>11, SameMail DEF TypeOK, Timeout, ActRaises, Crash
<1>12. ASSUME NEW c \in Copies, LateEvent(o, c)
       PROVE  SameCall(p) /\ NothingNewFiled(p)
  BY <1>12, VerbFrame DEF TypeOK, LateEvent
<1> HIDE DEF SameCall
<1> QED BY <1>1, <1>2, <1>3, <1>4, <1>5, <1>6, <1>7, <1>8, <1>9, <1>10, <1>11, <1>12
        DEF Step, CallStep, ActStep, Failure

-----------------------------------------------------------------------------
(* The plan record precedes every event.                                   *)

Planned(o) ==
    /\ pc[o] \in Acting \cup {"record", "expired"} => o \in plans
    /\ late[o] # {} => o \in plans
    /\ \A c \in Copies : mover[c] = o => o \in plans

PlanInv == TypeOK /\ \A o \in Ops : Planned(o)

\* The call that takes a step has written its plan before anything it does in Mail.
LEMMA StepPlanned ==
    ASSUME PlanInv, NEW o \in Ops, Step(o) PROVE Planned(o)'
<1> USE DEF PlanInv, Planned, Goto, Running, Acting, mailVars, logVars, actVars
<1>1. TypeOK'
  BY StartType, CallStepType, FailureType DEF Step
<1>2. CASE Start(o)
  <2>1. ASSUME NEW k, NEW s, NEW d, NEW ms, Begin(o, k, s, d, ms) PROVE Planned(o)'
    BY <2>1 DEF TypeOK, Begin
  <2>2. CASE Preview(o)
    BY <2>2 DEF TypeOK, Preview
  <2> HIDE DEF Planned
  <2> QED BY <1>2, <2>1, <2>2 DEF Start, MoveMail, TrashMail, DedupeBatch, Undo
<1>3. CASE Backup(o) \/ BackupFails(o) \/ WritePlan(o) \/ PlanRefused(o)
  BY <1>3 DEF TypeOK, Backup, BackupFails, WritePlan, PlanRefused
<1>4. ASSUME o \in plans, plans' = plans PROVE Planned(o)'
  BY <1>4
<1>5. CASE ActStep(o) \/ WriteDone(o)
  <2>1. o \in plans /\ plans' = plans
    BY <1>5 DEF ActStep, WriteDone, ReadCopies, ReadBefore, ScriptReturns, VerifyTrash, Fold,
             DeletePassEnds, DedupeReturns, NotInSource, VerbRaises, MoveCopy, ProbeMove,
             DeleteCopy, Turn, Capture, DedupeDelete, DedupeRaises, VerifyDedupe
  <2> QED BY <1>4, <2>1
<1>6. CASE Timeout(o) \/ ActRaises(o)
  <2>1. o \in plans /\ plans' = plans
    BY <1>6 DEF Timeout, ActRaises
  <2> QED BY <1>4, <2>1
<1>7. CASE Crash(o)
  <2>1. PICK orphaned \in SUBSET Remaining(o) : late' = [late EXCEPT ![o] = @ \cup orphaned]
    BY <1>7 DEF Crash
  <2>2. CASE o \in plans
    BY <1>7, <1>4, <2>2 DEF Crash
  <2>3. CASE o \notin plans
    <3>1. pc[o] # "script" /\ late[o] = {}
      BY <2>3
    <3>2. Remaining(o) = {}
      BY <3>1 DEF Remaining
    <3>3. late'[o] = {}
      BY <2>1, <3>1, <3>2 DEF TypeOK
    <3> QED BY <1>7, <2>3, <3>3 DEF TypeOK, Crash
  <2> QED BY <2>2, <2>3
<1>8. ASSUME NEW c \in Copies, LateEvent(o, c) PROVE Planned(o)'
  <2>1. o \in plans /\ plans' = plans
    BY <1>8 DEF LateEvent
  <2> QED BY <1>4, <2>1
<1> HIDE DEF Planned
<1> QED BY <1>2, <1>3, <1>5, <1>6, <1>7, <1>8 DEF Step, CallStep, Failure

LEMMA EnvironmentFrame ==
    ASSUME TypeOK, Environment, NEW p \in Ops
    PROVE  SameCall(p) /\ NothingNewFiled(p)
<1>1. ASSUME NEW c \in Copies, SourceClears(c) PROVE SameCall(p) /\ NothingNewFiled(p)
  BY <1>1 DEF SourceClears, SameCall, NothingNewFiled, logVars, actVars
<1>2. ASSUME NEW c \in Copies, NEW b \in Mailboxes, UserMoves(c, b)
      PROVE  SameCall(p) /\ NothingNewFiled(p)
  BY <1>2, NobodyAssumption
     DEF TypeOK, UserMoves, FileAs, SameCall, NothingNewFiled, logVars, actVars
<1> QED BY <1>1, <1>2 DEF Environment

LEMMA PlanInductive == PlanInv /\ [Next]_vars => PlanInv'
<1> SUFFICES ASSUME PlanInv, [Next]_vars PROVE PlanInv'
  OBVIOUS
<1>1. TypeOK'
  <2>1. CASE UNCHANGED vars
    BY <2>1 DEF PlanInv, TypeOK, vars, mailVars, logVars, actVars
  <2> QED BY <2>1, EnvironmentType, StartType, CallStepType, FailureType DEF Next, PlanInv
<1>2. ASSUME NEW p \in Ops, SameCall(p), NothingNewFiled(p) PROVE Planned(p)'
  BY <1>2 DEF PlanInv, Planned, SameCall, NothingNewFiled
<1>3. CASE UNCHANGED vars
  BY <1>3, <1>1, <1>2 DEF PlanInv, SameCall, NothingNewFiled, vars, mailVars, logVars, actVars
<1>4. CASE Environment
  BY <1>4, <1>1, <1>2, EnvironmentFrame DEF PlanInv
<1>5. ASSUME NEW o \in Ops, Step(o) PROVE PlanInv'
  <2> SUFFICES ASSUME NEW p \in Ops PROVE Planned(p)'
    BY <1>1 DEF PlanInv
  <2>1. CASE p = o
    BY <1>5, <2>1, StepPlanned
  <2>2. CASE p # o
    BY <1>5, <1>2, <2>2, StepFrame DEF PlanInv
  <2> QED BY <2>1, <2>2
<1> QED BY <1>3, <1>4, <1>5 DEF Next, Step

LEMMA PlanInit == Init => PlanInv
<1> SUFFICES ASSUME Init PROVE PlanInv
  OBVIOUS
<1>1. ASSUME NEW o \in Ops PROVE Planned(o)
  BY NobodyAssumption DEF Init, Planned, Acting
<1> QED BY <1>1, InitType DEF PlanInv

\* Whatever is interleaved, fails, is killed or lands late, for any number of calls and
\* copies and for every op: a message is only ever filed by a call whose plan record the
\* log holds (recoverable() writes it, and reads audit_write's answer, before it acts).
THEOREM EventsArePlanned == Spec => []NothingMovesUnplanned
<1>1. PlanInv => NothingMovesUnplanned
  BY DEF PlanInv, Planned, NothingMovesUnplanned
<1> QED BY <1>1, PlanInit, PlanInductive, PTL DEF Spec

-----------------------------------------------------------------------------
(* What moved is replayable, when every message is stored once and nothing *)
(* is trashed.                                                             *)

SingleCopies == \A c, d \in Copies : IdOf[c] = IdOf[d] => c = d
NoTrash == "trash" \notin Kinds

\* A started call is a move or a dedupe between two mailboxes.
CallOK(o) ==
    /\ pc[o] \notin {"idle", "previewed"} =>
          call[o].kind \in {"move", "dedupe"} /\ call[o].src # call[o].dst
    /\ pc[o] \in {"copies", "before", "fold"} => call[o].kind = "move"
    /\ pc[o] = "verify" => call[o].kind = "dedupe"

\* Plans are written before acting and done records at the end of a call; those of a
\* call that timed out say that nothing is known.
LogOK(o) ==
    /\ o \in plans => pc[o] \notin {"idle", "previewed", "backup", "plan", "refused"}
    /\ pc[o] \notin {"answered", "timedout"} => dones[o] = NoRecord
    /\ pc[o] = "expired" => \A m \in Msgs : left[o][m] = "unknown"
    /\ pc[o] = "timedout" => dones[o] = NoRecord \/ \A m \in Msgs : dones[o][m] = "unknown"

\* What the call still reads, or sends late, is what it was asked to act on.
TargetsOK(o) ==
    /\ pc[o] = "idle" => found[o] = {}
    /\ \A c \in found[o] : IdOf[c] \in call[o].ids
    /\ \A c \in late[o] :
          /\ pc[o] \in {"expired", "timedout", "crashed"}
          /\ call[o].kind = "move"
          /\ IdOf[c] \in call[o].ids

\* A copy that call o filed: where it is, and what o knows about it at each step.
Filed(o, c) ==
    /\ call[o].kind = "move"
    /\ IdOf[c] \in call[o].ids
    /\ at[c] = call[o].dst
    /\ pc[o] \notin {"copies", "before"}
    /\ pc[o] \in {"script", "fold"} => c \in found[o]
    /\ pc[o] = "script" => outcome[o][c] \in {"sent", "moved", "unknown"}
    /\ pc[o] = "fold" => outcome[o][c] \in {"moved", "unknown"}
    /\ pc[o] \in {"record", "expired"} => left[o][IdOf[c]] # "stayed"
    /\ dones[o] = NoRecord \/ dones[o][IdOf[c]] # "stayed"

FiledOK(o) == \A c \in Copies : mover[c] = o => Filed(o, c)

NothingLingers == \A c \in Copies : lingers[c] = Nowhere

OpOK(o) == CallOK(o) /\ LogOK(o) /\ TargetsOK(o) /\ FiledOK(o)

ReplayInv == PlanInv /\ NothingLingers /\ \A o \in Ops : OpOK(o)

LEMMA ReplayImplies == ReplayInv => WhatMovedIsReplayable
<1> SUFFICES ASSUME ReplayInv, NEW c \in Copies, mover[c] \in Ops
             PROVE  IdOf[c] \in UndoTargets(mover[c])
  BY DEF WhatMovedIsReplayable
<1>1. mover[c] \in plans
  BY DEF ReplayInv, PlanInv, Planned
<1>2. Filed(mover[c], c)
  BY DEF ReplayInv, OpOK, FiledOK
<1> QED BY <1>1, <1>2 DEF UndoTargets, Filed

LEMMA ReplayInit == Init => ReplayInv
<1> SUFFICES ASSUME Init PROVE ReplayInv
  OBVIOUS
<1>1. ASSUME NEW o \in Ops PROVE OpOK(o)
  BY NobodyAssumption DEF Init, OpOK, CallOK, LogOK, TargetsOK, FiledOK
<1>2. NothingLingers
  BY DEF Init, NothingLingers
<1> QED BY <1>1, <1>2, PlanInit DEF ReplayInv

\* A call whose own state and filed copies are left alone keeps its invariant.
LEMMA OthersKeep ==
    ASSUME ReplayInv, NEW p \in Ops, SameCall(p), NothingNewFiled(p)
    PROVE  OpOK(p)'
<1> USE DEF SameCall
<1>1. CallOK(p)'
  BY DEF ReplayInv, OpOK, CallOK
<1>2. LogOK(p)'
  BY DEF ReplayInv, OpOK, LogOK, NoRecord
<1>3. TargetsOK(p)'
  BY DEF ReplayInv, OpOK, TargetsOK
<1>4. FiledOK(p)'
  BY DEF ReplayInv, OpOK, FiledOK, Filed, NothingNewFiled, NoRecord
<1> QED BY <1>1, <1>2, <1>3, <1>4 DEF OpOK

\* With single copies a dedupe has nothing to delete.
LEMMA NoSurplus ==
    ASSUME SingleCopies, NEW S, S \subseteq Copies, NEW m, \A c \in S : IdOf[c] = m
    PROVE  Surplus(S) = {}
<1>1. CASE S = {}
  BY <1>1 DEF Surplus
<1>2. CASE S # {}
  <2>1. PICK c \in S : TRUE
    BY <1>2
  <2>2. S = {c}
    BY <2>1 DEF SingleCopies
  <2>3. c \in Nat
    BY <2>1, CopiesAssumption
  <2>4. First({c}) = c
    BY <2>3 DEF First
  <2> QED BY <2>2, <2>4 DEF Surplus
<1> QED BY <1>1, <1>2

LEMMA NothingToDelete ==
    ASSUME SingleCopies, TypeOK, NEW o \in Ops, NEW m PROVE Undeleted(o, m) = {}
<1>1. {c \in found[o] : IdOf[c] = m} \subseteq Copies
  BY DEF TypeOK
<1>2. Losers(o, m) = {}
  BY <1>1, NoSurplus DEF Losers
<1> QED BY <1>2 DEF Undeleted

LEMMA RemainingMoves ==
    ASSUME SingleCopies, ReplayInv, NEW o \in Ops, NEW c \in Remaining(o)
    PROVE  pc[o] = "script" /\ call[o].kind = "move" /\ c \in found[o]
<1>1. TypeOK
  BY DEF ReplayInv, PlanInv
<1>2. pc[o] = "script"
  BY DEF Remaining
<1>3. ASSUME NEW m PROVE Undeleted(o, m) = {} /\ Surplus(CopiesIn(call[o].src, m)) = {}
  BY <1>1, NothingToDelete, NoSurplus DEF CopiesIn
<1>4. call[o].kind # "dedupe"
  BY <1>2, <1>3 DEF Remaining
<1>5. call[o].kind = "move"
  BY <1>2, <1>4 DEF ReplayInv, OpOK, CallOK
<1> QED BY <1>2, <1>4, <1>5 DEF Remaining, Todo

LEMMA MoveVerb ==
    ASSUME ReplayInv, NEW o \in Ops, NEW c \in Copies, call[o].kind = "move", Verb(o, c)
    PROVE  /\ NothingLingers'
           /\ \A d \in Copies : mover'[d] = o =>
                 \/ mover[d] = o /\ at'[d] = at[d]
                 \/ d = c /\ at'[d] = call[o].dst
<1>1. TypeOK /\ NothingLingers
  BY DEF ReplayInv, PlanInv
<1>2. CASE UNCHANGED mailVars
  BY <1>1, <1>2 DEF mailVars, NothingLingers
<1>3. CASE FileAs(c, call[o].dst, o)
  BY <1>1, <1>3 DEF TypeOK, NothingLingers, FileAs
<1> QED BY <1>2, <1>3 DEF Verb

LEMMA SameLingers ==
    ASSUME ReplayInv, lingers' = lingers PROVE NothingLingers'
BY DEF ReplayInv, NothingLingers

\* A call starts with nothing filed, read or late.
LEMMA StartKeeps ==
    ASSUME NoTrash, ReplayInv, NEW o \in Ops, Start(o)
    PROVE  NothingLingers' /\ OpOK(o)'
<1>1. TypeOK /\ Planned(o) /\ OpOK(o)
  BY DEF ReplayInv, PlanInv
<1>2. ASSUME pc[o] = "idle", UNCHANGED <<mailVars, logVars, actVars, late>>
      PROVE  /\ NothingLingers' /\ TargetsOK(o)' /\ o \notin plans'
             /\ dones'[o] = NoRecord /\ FiledOK(o)'
  BY <1>1, <1>2, SameLingers
     DEF OpOK, LogOK, TargetsOK, FiledOK, Planned, mailVars, logVars, actVars
<1>3. ASSUME NEW k \in {"move", "dedupe"}, NEW s, NEW d, s # d, NEW ms,
             Begin(o, k, s, d, ms)
      PROVE  NothingLingers' /\ OpOK(o)'
  <2>1. call'[o].kind = k /\ call'[o].src = s /\ call'[o].dst = d
    BY <1>1, <1>3 DEF TypeOK, Begin
  <2>2. pc'[o] \in {"plan", "backup"}
    BY <1>1, <1>3 DEF TypeOK, Begin, Goto
  <2>3. NothingLingers' /\ TargetsOK(o)' /\ o \notin plans' /\ dones'[o] = NoRecord /\ FiledOK(o)'
    BY <1>2, <1>3 DEF Begin
  <2> QED BY <1>3, <2>1, <2>2, <2>3 DEF OpOK, CallOK, LogOK, NoRecord
<1>4. CASE Preview(o)
  <2>1. pc'[o] = "previewed"
    BY <1>1, <1>4 DEF TypeOK, Preview, Goto
  <2>2. NothingLingers' /\ TargetsOK(o)' /\ o \notin plans' /\ dones'[o] = NoRecord /\ FiledOK(o)'
    BY <1>2, <1>4 DEF Preview
  <2> QED BY <2>1, <2>2 DEF OpOK, CallOK, LogOK, NoRecord
<1>5. CASE MoveMail(o)
  BY <1>3, <1>5 DEF MoveMail
<1>6. CASE DedupeBatch(o)
  BY <1>3, <1>6 DEF DedupeBatch
<1>7. ASSUME NEW r \in Ops, Undo(o, r) PROVE NothingLingers' /\ OpOK(o)'
  <2>1. r \in plans
    BY <1>7 DEF Undo, UndoTargets
  <2>2. call[r].dst # call[r].src
    BY <2>1 DEF ReplayInv, OpOK, CallOK, LogOK
  <2> QED BY <1>3, <1>7, <2>2 DEF Undo
<1> QED BY <1>4, <1>5, <1>6, <1>7 DEF Start, TrashMail, NoTrash

LEMMA LogStepKeeps ==
    ASSUME ReplayInv, NEW o \in Ops,
           Backup(o) \/ BackupFails(o) \/ WritePlan(o) \/ PlanRefused(o)
    PROVE  NothingLingers' /\ OpOK(o)'
<1>1. TypeOK /\ Planned(o) /\ OpOK(o)
  BY DEF ReplayInv, PlanInv
<1>2. pc[o] \in {"backup", "plan"} /\ UNCHANGED <<mailVars, call, dones, actVars, late>>
  BY DEF Backup, BackupFails, WritePlan, PlanRefused, logVars
<1>3. NothingLingers' /\ TargetsOK(o)' /\ FiledOK(o)'
  <2>1. o \notin plans /\ \A c \in Copies : mover[c] # o
    BY <1>1, <1>2 DEF OpOK, LogOK, Planned
  <2>2. late[o] = {}
    BY <1>1, <1>2 DEF OpOK, TargetsOK
  <2>3. pc'[o] # "idle"
    BY <1>1 DEF TypeOK, Backup, BackupFails, WritePlan, PlanRefused, Goto
  <2>4. FiledOK(o)'
    BY <1>2, <2>1 DEF FiledOK, mailVars
  <2>5. TargetsOK(o)'
    BY <1>1, <1>2, <2>2, <2>3 DEF OpOK, TargetsOK, actVars
  <2> QED BY <1>2, <2>4, <2>5, SameLingers DEF mailVars
<1>4. dones'[o] = NoRecord
  BY <1>1, <1>2 DEF OpOK, LogOK
<1>5. CASE Backup(o) \/ BackupFails(o) \/ PlanRefused(o)
  <2>1. pc'[o] \in {"plan", "refused"} /\ o \notin plans'
    BY <1>1, <1>5 DEF TypeOK, Backup, BackupFails, PlanRefused, Goto, OpOK, LogOK, logVars
  <2> QED BY <1>1, <1>2, <1>3, <1>4, <2>1 DEF OpOK, CallOK, LogOK, NoRecord
<1>6. CASE WritePlan(o)
  <2>1. pc'[o] = IF call[o].kind = "dedupe" THEN "script" ELSE "copies"
    BY <1>1, <1>6 DEF TypeOK, WritePlan, Goto
  <2> QED BY <1>1, <1>2, <1>3, <1>4, <2>1 DEF OpOK, CallOK, LogOK, NoRecord
<1> QED BY <1>5, <1>6

\* The reads of an act, before its first event.
LEMMA ReadsKeep ==
    ASSUME ReplayInv, NEW o \in Ops, ReadCopies(o) \/ ReadBefore(o)
    PROVE  NothingLingers' /\ OpOK(o)'
<1>1. TypeOK /\ OpOK(o)
  BY DEF ReplayInv, PlanInv
<1>2. /\ pc[o] \in {"copies", "before"} /\ call[o].kind = "move"
      /\ UNCHANGED <<mailVars, call, plans, dones, outcome, left, late>>
  BY <1>1 DEF ReadCopies, ReadBefore, OpOK, CallOK, logVars
<1>3. pc'[o] \in {"before", "record", "script"}
  BY <1>1 DEF TypeOK, ReadCopies, ReadBefore, Goto
<1>4. late[o] = {} /\ \A c \in Copies : mover[c] # o
  BY <1>1, <1>2 DEF OpOK, TargetsOK, FiledOK, Filed
<1>5. \A c \in found'[o] : IdOf[c] \in call[o].ids
  BY <1>1 DEF TypeOK, OpOK, TargetsOK, ReadCopies, ReadBefore, CopiesIn
<1>6. FiledOK(o)'
  BY <1>2, <1>4 DEF FiledOK, mailVars
<1>7. TargetsOK(o)'
  BY <1>2, <1>3, <1>4, <1>5 DEF TargetsOK
<1>8. CallOK(o)' /\ LogOK(o)'
  BY <1>1, <1>2, <1>3 DEF OpOK, CallOK, LogOK, NoRecord
<1> QED BY <1>2, <1>6, <1>7, <1>8, SameLingers DEF OpOK, mailVars

\* One turn of the script of a move.
LEMMA ScriptKeeps ==
    ASSUME ReplayInv, NEW o \in Ops, NEW c \in Copies,
           \/ NotInSource(o, c) \/ VerbRaises(o, c) \/ MoveCopy(o, c)
           \/ ProbeMove(o, c) \/ DeleteCopy(o, c)
    PROVE  NothingLingers' /\ OpOK(o)'
<1>1. TypeOK /\ OpOK(o) /\ NothingLingers
  BY DEF ReplayInv, PlanInv
<1>2. pc[o] = "script" /\ UNCHANGED <<call, pc, plans, dones, found, left, late>>
  BY DEF NotInSource, VerbRaises, MoveCopy, ProbeMove, DeleteCopy, Turn, logVars
<1>3. CallOK(o)' /\ LogOK(o)' /\ TargetsOK(o)'
  BY <1>1, <1>2 DEF OpOK, CallOK, LogOK, TargetsOK, NoRecord
<1>4. \A d \in Copies : d # c => outcome'[o][d] = outcome[o][d]
  BY <1>1 DEF TypeOK, NotInSource, VerbRaises, MoveCopy, ProbeMove, DeleteCopy, Answer
<1>5. ASSUME NEW d \in Copies, mover[d] = o, at'[d] = at[d],
             outcome'[o][d] \in {"sent", "moved", "unknown"}
      PROVE  Filed(o, d)'
  BY <1>1, <1>2, <1>5 DEF OpOK, FiledOK, Filed, NoRecord
<1>6. CASE NotInSource(o, c) \/ VerbRaises(o, c)
  <2>1. UNCHANGED mailVars /\ outcome[o][c] = "none"
    BY <1>6 DEF NotInSource, VerbRaises, Turn, Todo
  <2>2. mover[c] # o
    BY <1>1, <1>2, <2>1 DEF OpOK, FiledOK, Filed
  <2>3. FiledOK(o)'
    BY <1>1, <1>2, <1>4, <1>5, <2>1, <2>2 DEF OpOK, FiledOK, Filed, mailVars
  <2> QED BY <1>3, <2>1, <2>3, SameLingers DEF OpOK, mailVars
<1>7. CASE MoveCopy(o, c)
  <2>1. call[o].kind = "move" /\ c \in found[o] /\ Verb(o, c) /\ outcome'[o][c] = "sent"
    BY <1>1, <1>7 DEF TypeOK, MoveCopy, Turn, Todo, Answer
  <2>2. IdOf[c] \in call[o].ids /\ dones[o] = NoRecord
    BY <1>1, <1>2, <2>1 DEF OpOK, TargetsOK, LogOK
  <2>3. ASSUME NEW d \in Copies, mover'[d] = o PROVE Filed(o, d)'
    <3>1. CASE d = c /\ at'[d] = call[o].dst
      BY <1>2, <2>1, <2>2, <3>1 DEF Filed, NoRecord
    <3>2. CASE mover[d] = o /\ at'[d] = at[d]
      <4>1. outcome'[o][d] \in {"sent", "moved", "unknown"}
        BY <1>1, <1>2, <1>4, <2>1, <3>2 DEF OpOK, FiledOK, Filed
      <4> QED BY <1>5, <3>2, <4>1
    <3> QED BY <2>1, <2>3, <3>1, <3>2, MoveVerb
  <2> QED BY <1>3, <2>1, <2>3, MoveVerb DEF OpOK, FiledOK
<1>8. CASE ProbeMove(o, c)
  <2>1. UNCHANGED mailVars
    BY <1>8 DEF ProbeMove
  <2>2. ASSUME mover[c] = o PROVE outcome'[o][c] \in {"moved", "unknown"}
    <3>1. at[c] = call[o].dst /\ call[o].src # call[o].dst
      BY <1>1, <1>2, <2>2 DEF OpOK, CallOK, FiledOK, Filed
    <3>2. call[o].src \in Mailboxes
      BY <1>1 DEF TypeOK
    <3>3. ~Listed(c, call[o].src)
      BY <1>1, <3>1, <3>2 DEF Listed, NothingLingers, Nowhere, Mailboxes
    <3> QED BY <1>1, <1>8, <3>3 DEF TypeOK, ProbeMove, Answer
  <2>3. FiledOK(o)'
    BY <1>1, <1>2, <1>4, <1>5, <2>1, <2>2 DEF OpOK, FiledOK, Filed, mailVars
  <2> QED BY <1>3, <2>1, <2>3, SameLingers DEF OpOK, mailVars
<1>9. CASE DeleteCopy(o, c)
  BY <1>1, <1>2, <1>9 DEF DeleteCopy, OpOK, CallOK
<1> QED BY <1>6, <1>7, <1>8, <1>9

\* A dedupe finds one copy of each message and deletes nothing.
LEMMA DedupeKeeps ==
    ASSUME SingleCopies, ReplayInv, NEW o \in Ops, NEW m \in Msgs,
           \/ Capture(o, m) \/ DedupeDelete(o, m) \/ DedupeRaises(o, m)
           \/ VerifyDedupe(o, m)
    PROVE  NothingLingers' /\ OpOK(o)'
<1>1. TypeOK /\ OpOK(o)
  BY DEF ReplayInv, PlanInv
<1>2. ~DedupeDelete(o, m)
  BY <1>1, NothingToDelete DEF DedupeDelete
<1>3. /\ pc[o] \in {"script", "verify"} /\ call[o].kind = "dedupe"
      /\ UNCHANGED <<mailVars, call, pc, plans, dones, late>>
  BY <1>1, <1>2 DEF Capture, DedupeRaises, VerifyDedupe, OpOK, CallOK, logVars
<1>4. \A c \in found'[o] : IdOf[c] \in call[o].ids
  <2>1. CASE Capture(o, m)
    <3>1. \/ found' = found
          \/ m \in call[o].ids /\ found' = [found EXCEPT ![o] = @ \cup CopiesIn(call[o].src, m)]
      BY <2>1 DEF Capture
    <3> QED BY <1>1, <3>1 DEF TypeOK, OpOK, TargetsOK, CopiesIn
  <2>2. CASE DedupeRaises(o, m) \/ VerifyDedupe(o, m)
    BY <1>1, <2>2 DEF OpOK, TargetsOK, DedupeRaises, VerifyDedupe
  <2> QED BY <1>2, <2>1, <2>2
<1>5. FiledOK(o)'
  BY <1>1, <1>3 DEF OpOK, FiledOK, Filed, mailVars
<1>6. CallOK(o)' /\ LogOK(o)' /\ TargetsOK(o)'
  BY <1>1, <1>3, <1>4 DEF OpOK, CallOK, LogOK, TargetsOK, NoRecord
<1> QED BY <1>3, <1>5, <1>6, SameLingers DEF OpOK, mailVars

\* The script returns and its answers are folded.
LEMMA ReturnsKeep ==
    ASSUME ReplayInv, NEW o \in Ops,
           ScriptReturns(o) \/ VerifyTrash(o) \/ DeletePassEnds(o) \/ DedupeReturns(o)
    PROVE  NothingLingers' /\ OpOK(o)'
<1>1. TypeOK /\ OpOK(o)
  BY DEF ReplayInv, PlanInv
<1>2. ~VerifyTrash(o)
  BY <1>1 DEF VerifyTrash, OpOK, CallOK
<1>3. CASE ScriptReturns(o)
  <2>1. /\ pc[o] = "script" /\ call[o].kind = "move"
        /\ UNCHANGED <<mailVars, call, plans, dones, found, outcome, left, late>>
        /\ \A c \in found[o] : outcome[o][c] # "sent"
    BY <1>1, <1>3 DEF ScriptReturns, OpOK, CallOK, logVars, actVars
  <2>2. pc'[o] = "fold"
    BY <1>1, <1>3, <2>1 DEF TypeOK, ScriptReturns, Goto
  <2>3. CallOK(o)' /\ LogOK(o)' /\ TargetsOK(o)'
    BY <1>1, <2>1, <2>2 DEF OpOK, CallOK, LogOK, TargetsOK, NoRecord
  <2>4. FiledOK(o)'
    BY <1>1, <2>1, <2>2 DEF OpOK, FiledOK, Filed, NoRecord, mailVars
  <2> QED BY <2>1, <2>3, <2>4, SameLingers DEF OpOK, mailVars
<1>4. CASE DeletePassEnds(o) \/ DedupeReturns(o)
  <2>1. /\ pc[o] \in {"script", "verify"} /\ call[o].kind = "dedupe"
        /\ UNCHANGED <<mailVars, call, plans, dones, left, late>>
    BY <1>4 DEF DeletePassEnds, DedupeReturns, logVars, actVars
  <2>2. pc'[o] \in {"verify", "record"} /\ found'[o] \subseteq found[o]
    BY <1>1, <1>4 DEF TypeOK, DeletePassEnds, DedupeReturns, Goto, ForgetAct, actVars
  <2>3. CallOK(o)' /\ LogOK(o)' /\ TargetsOK(o)'
    BY <1>1, <2>1, <2>2 DEF OpOK, CallOK, LogOK, TargetsOK, NoRecord
  <2>4. FiledOK(o)'
    BY <1>1, <2>1 DEF OpOK, FiledOK, Filed, mailVars
  <2> QED BY <2>1, <2>3, <2>4, SameLingers DEF OpOK, mailVars
<1> QED BY <1>2, <1>3, <1>4

LEMMA FoldKeeps ==
    ASSUME SingleCopies, ReplayInv, NEW o \in Ops, Fold(o)
    PROVE  NothingLingers' /\ OpOK(o)'
<1>1. TypeOK /\ OpOK(o)
  BY DEF ReplayInv, PlanInv
<1>2. /\ pc[o] = "fold" /\ call[o].kind = "move" /\ dones[o] = NoRecord
      /\ UNCHANGED <<mailVars, call, plans, dones, late>>
  BY <1>1 DEF Fold, OpOK, CallOK, LogOK, logVars
<1>3. /\ pc'[o] = "record" /\ found'[o] = {}
      /\ left'[o] = [m \in Msgs |-> Folded(o, m)[2]]
  BY <1>1 DEF TypeOK, Fold, Goto, ForgetAct
<1>4. CallOK(o)' /\ LogOK(o)' /\ TargetsOK(o)'
  BY <1>1, <1>2, <1>3 DEF OpOK, CallOK, LogOK, TargetsOK, NoRecord
<1>5. ASSUME NEW c \in Copies, mover[c] = o PROVE Filed(o, c)'
  <2>1. Filed(o, c)
    BY <1>1, <1>5 DEF OpOK, FiledOK
  <2>2. c \in found[o] /\ outcome[o][c] \in {"moved", "unknown"}
    BY <1>2, <2>1 DEF Filed
  <2>3. {d \in found[o] : IdOf[d] = IdOf[c]} = {c}
    BY <1>1, <2>2 DEF TypeOK, SingleCopies
  <2>4. {outcome[o][d] : d \in {d \in found[o] : IdOf[d] = IdOf[c]}} = {outcome[o][c]}
    BY <2>3
  <2> DEFINE rose == Counts(call[o].dst)[IdOf[c]] > before[o][IdOf[c]]
  <2>5. Folded(o, IdOf[c]) = FoldMove({outcome[o][c]}, rose)
    BY <1>2, <2>4 DEF Folded
  <2>6. FoldMove({"moved"}, rose)[2] # "stayed"
    BY DEF FoldMove
  <2>7. FoldMove({"unknown"}, rose)[2] # "stayed"
    BY DEF FoldMove
  <2>8. left'[o][IdOf[c]] # "stayed"
    <3>1. IdOf[c] \in Msgs
      BY IdOfAssumption
    <3>2. left'[o][IdOf[c]] = Folded(o, IdOf[c])[2]
      BY <1>3, <3>1
    <3>3. Folded(o, IdOf[c])[2] # "stayed"
      <4> HIDE DEF rose
      <4>1. CASE outcome[o][c] = "moved"
        BY <2>5, <2>6, <4>1
      <4>2. CASE outcome[o][c] = "unknown"
        BY <2>5, <2>7, <4>2
      <4> QED BY <2>2, <4>1, <4>2
    <3> QED BY <3>2, <3>3
  <2> QED BY <1>2, <1>3, <2>1, <2>8 DEF Filed, NoRecord, mailVars
<1> QED BY <1>2, <1>4, <1>5, SameLingers DEF OpOK, FiledOK, mailVars

\* The done record holds what the call folded, or what a timeout put in its place.
LEMMA WriteDoneKeeps ==
    ASSUME ReplayInv, NEW o \in Ops, WriteDone(o)
    PROVE  NothingLingers' /\ OpOK(o)'
<1>1. TypeOK /\ OpOK(o)
  BY DEF ReplayInv, PlanInv
<1>2. /\ pc[o] \in {"record", "expired"} /\ dones[o] = NoRecord
      /\ UNCHANGED <<mailVars, call, plans, found, late>>
  BY <1>1 DEF WriteDone, OpOK, LogOK
<1>3. pc'[o] = IF pc[o] = "record" THEN "answered" ELSE "timedout"
  BY <1>1 DEF TypeOK, WriteDone, Goto
<1>4. dones'[o] = left[o] \/ dones'[o] = NoRecord
  BY <1>1, <1>2 DEF TypeOK, WriteDone
<1>5. CallOK(o)' /\ TargetsOK(o)'
  BY <1>1, <1>2, <1>3 DEF OpOK, CallOK, TargetsOK
<1>6. LogOK(o)'
  BY <1>1, <1>2, <1>3, <1>4 DEF OpOK, LogOK, NoRecord
<1>7. FiledOK(o)'
  BY <1>1, <1>2, <1>3, <1>4 DEF OpOK, FiledOK, Filed, NoRecord, mailVars
<1> QED BY <1>2, <1>5, <1>6, <1>7, SameLingers DEF OpOK, mailVars

LEMMA FailureKeeps ==
    ASSUME SingleCopies, ReplayInv, NEW o \in Ops, Failure(o)
    PROVE  NothingLingers' /\ OpOK(o)'
<1>1. TypeOK /\ OpOK(o)
  BY DEF ReplayInv, PlanInv
<1>2. ASSUME NEW c \in Remaining(o)
      PROVE  pc[o] = "script" /\ call[o].kind = "move" /\ IdOf[c] \in call[o].ids
  BY <1>1, <1>2, RemainingMoves DEF OpOK, TargetsOK
<1>3. CASE Timeout(o)
  <2>1. /\ pc[o] \in Acting /\ dones[o] = NoRecord
        /\ UNCHANGED <<mailVars, call, plans, dones>>
    BY <1>1, <1>3 DEF Timeout, OpOK, LogOK, logVars, Acting
  <2>2. /\ pc'[o] = "expired" /\ found'[o] = {} /\ late'[o] \subseteq Remaining(o)
        /\ left'[o] = [m \in Msgs |-> "unknown"]
    BY <1>1, <1>3 DEF TypeOK, Timeout, Goto, ForgetAct
  <2>3. CallOK(o)' /\ LogOK(o)' /\ TargetsOK(o)'
    BY <1>1, <1>2, <2>1, <2>2 DEF OpOK, CallOK, LogOK, TargetsOK, NoRecord, Acting
  <2>4. FiledOK(o)'
    BY <1>1, <2>1, <2>2, IdOfAssumption DEF OpOK, FiledOK, Filed, NoRecord, mailVars
  <2> QED BY <2>1, <2>3, <2>4, SameLingers DEF OpOK, mailVars
<1>4. CASE ActRaises(o)
  <2>1. /\ pc[o] \in Acting /\ dones[o] = NoRecord /\ late[o] = {}
        /\ UNCHANGED <<mailVars, call, plans, dones, left, late>>
    BY <1>1, <1>4 DEF ActRaises, OpOK, LogOK, TargetsOK, logVars, Acting
  <2>2. pc'[o] = "raised" /\ found'[o] = {}
    BY <1>1, <1>4 DEF TypeOK, ActRaises, Goto, ForgetAct
  <2>3. CallOK(o)' /\ LogOK(o)' /\ TargetsOK(o)'
    BY <1>1, <2>1, <2>2 DEF OpOK, CallOK, LogOK, TargetsOK, NoRecord, Acting
  <2>4. FiledOK(o)'
    BY <1>1, <2>1, <2>2 DEF OpOK, FiledOK, Filed, NoRecord, mailVars
  <2> QED BY <2>1, <2>3, <2>4, SameLingers DEF OpOK, mailVars
<1>5. CASE Crash(o)
  <2>1. /\ pc[o] \in Running /\ dones[o] = NoRecord
        /\ UNCHANGED <<mailVars, call, plans, dones>>
    BY <1>1, <1>5 DEF Crash, OpOK, LogOK, logVars, Running, Acting
  <2>2. pc'[o] = "crashed" /\ found'[o] = {} /\ late'[o] \subseteq late[o] \cup Remaining(o)
    BY <1>1, <1>5 DEF TypeOK, Crash, Goto, ForgetAct
  <2>3. o \in plans => pc[o] \notin {"backup", "plan"}
    BY <1>1 DEF OpOK, LogOK
  <2>4. CallOK(o)' /\ LogOK(o)'
    BY <1>1, <2>1, <2>2 DEF OpOK, CallOK, LogOK, NoRecord, Running, Acting
  <2>5. TargetsOK(o)'
    BY <1>1, <1>2, <2>1, <2>2 DEF OpOK, TargetsOK
  <2>6. FiledOK(o)'
    BY <1>1, <2>1, <2>2 DEF OpOK, FiledOK, Filed, NoRecord, mailVars
  <2> QED BY <2>1, <2>4, <2>5, <2>6, SameLingers DEF OpOK, mailVars
<1>6. ASSUME NEW c \in Copies, LateEvent(o, c) PROVE NothingLingers' /\ OpOK(o)'
  <2>1. /\ c \in late[o] /\ Verb(o, c) /\ late'[o] \subseteq late[o]
        /\ UNCHANGED <<call, pc, plans, dones, found, outcome, left>>
    BY <1>1, <1>6 DEF TypeOK, LateEvent, logVars, actVars
  <2>2. /\ pc[o] \in {"expired", "timedout", "crashed"} /\ call[o].kind = "move"
        /\ IdOf[c] \in call[o].ids
    BY <1>1, <2>1 DEF OpOK, TargetsOK
  <2>3. CallOK(o)' /\ LogOK(o)' /\ TargetsOK(o)'
    BY <1>1, <2>1 DEF OpOK, CallOK, LogOK, TargetsOK, NoRecord
  <2>4. /\ pc[o] = "expired" => left[o][IdOf[c]] # "stayed"
        /\ dones[o] = NoRecord \/ dones[o][IdOf[c]] # "stayed"
    <3>1. IdOf[c] \in Msgs
      BY IdOfAssumption
    <3> QED BY <1>1, <2>2, <3>1 DEF OpOK, LogOK
  <2>5. ASSUME NEW d \in Copies, mover'[d] = o PROVE Filed(o, d)'
    <3>1. CASE mover[d] = o /\ at'[d] = at[d]
      BY <1>1, <2>1, <3>1 DEF OpOK, FiledOK, Filed, NoRecord
    <3>2. CASE d = c /\ at'[d] = call[o].dst
      BY <2>1, <2>2, <2>4, <3>2 DEF Filed, NoRecord
    <3> QED BY <2>1, <2>2, <2>5, <3>1, <3>2, MoveVerb
  <2> QED BY <2>1, <2>2, <2>3, <2>5, MoveVerb DEF OpOK, FiledOK
<1> QED BY <1>3, <1>4, <1>5, <1>6 DEF Failure

LEMMA ReplayInductive ==
    ASSUME SingleCopies, NoTrash PROVE ReplayInv /\ [Next]_vars => ReplayInv'
<1> SUFFICES ASSUME ReplayInv, [Next]_vars PROVE ReplayInv'
  OBVIOUS
<1>1. PlanInv' /\ TypeOK
  BY PlanInductive DEF ReplayInv, PlanInv
<1>2. CASE UNCHANGED vars
  <2>1. ASSUME NEW p \in Ops PROVE SameCall(p) /\ NothingNewFiled(p)
    BY <1>2 DEF vars, SameCall, NothingNewFiled, mailVars, logVars, actVars
  <2>2. NothingLingers'
    BY <1>2, SameLingers DEF vars, mailVars
  <2> QED BY <1>1, <2>1, <2>2, OthersKeep DEF ReplayInv
<1>3. CASE Environment
  <2>1. NothingLingers'
    BY <1>1, <1>3
       DEF TypeOK, ReplayInv, NothingLingers, Environment, SourceClears, UserMoves, FileAs
  <2> QED BY <1>1, <1>3, <2>1, EnvironmentFrame, OthersKeep DEF ReplayInv
<1>4. ASSUME NEW o \in Ops, Step(o) PROVE ReplayInv'
  <2>1. NothingLingers' /\ OpOK(o)'
    <3>1. CASE Start(o)
      BY <3>1, StartKeeps
    <3>2. CASE ActStep(o)
      BY <3>2, ReadsKeep, ScriptKeeps, DedupeKeeps, ReturnsKeep, FoldKeeps DEF ActStep
    <3>3. CASE CallStep(o)
      BY <3>2, <3>3, LogStepKeeps, WriteDoneKeeps DEF CallStep
    <3> QED BY <1>4, <3>1, <3>3, FailureKeeps DEF Step
  <2>2. ASSUME NEW p \in Ops, p # o PROVE OpOK(p)'
    BY <1>1, <1>4, <2>2, StepFrame, OthersKeep
  <2> QED BY <1>1, <2>1, <2>2 DEF ReplayInv
<1> QED BY <1>2, <1>3, <1>4 DEF Next, Step

\* For moves and dedupes of messages that are stored once, by any number of calls and
\* with any number of messages: whatever is interleaved, times out, crashes, lands late
\* or is dragged away by the user, mail_undo can bring back what a call moved.
THEOREM MovedIsReplayable ==
    ASSUME SingleCopies, NoTrash PROVE Spec => []WhatMovedIsReplayable
BY ReplayInit, ReplayInductive, ReplayImplies, PTL DEF Spec

-----------------------------------------------------------------------------
(* The plane implements RecoverableReceipts, under the same assumptions:   *)
(* each step promises, files, settles or takes, or leaves all receipts be. *)

Phase(o) == IF o \notin plans THEN "none" ELSE IF dones[o] = NoRecord THEN "open" ELSE "closed"

\* A receipt reads the log and the plan it holds, which a running call never rewrites.
LEMMA SameReceipt ==
    ASSUME NEW r \in Ops, (r \in plans') = (r \in plans), dones'[r] = dones[r],
           r \in plans => call'[r] = call[r]
    PROVE  Phase(r)' = Phase(r) /\ UndoTargets(r)' = UndoTargets(r)
BY DEF Phase, UndoTargets, NoRecord

SameReceipts ==
    \A r \in Ops : Phase(r)' = Phase(r) /\ UndoTargets(r)' = UndoTargets(r)

\* Apart from the two log writes, a step of a call touches no receipt, and files at most
\* one copy.
LEMMA StepFiles ==
    ASSUME SingleCopies, NoTrash, ReplayInv, NEW o \in Ops, Step(o),
           ~WritePlan(o), ~WriteDone(o)
    PROVE  /\ UNCHANGED <<plans, dones>> /\ (o \in plans => call'[o] = call[o])
           /\ \/ mover' = mover
              \/ \E c \in Copies : mover' = [mover EXCEPT ![c] = o]
<1> USE DEF mailVars, logVars, actVars
<1>1. TypeOK /\ OpOK(o)
  BY DEF ReplayInv, PlanInv
<1>2. ASSUME NEW c \in Copies, Verb(o, c)
      PROVE  mover' = mover \/ mover' = [mover EXCEPT ![c] = o]
  BY <1>2 DEF Verb, FileAs, DeleteAs
<1>3. CASE Start(o)
  BY <1>1, <1>3
     DEF Start, MoveMail, TrashMail, DedupeBatch, Undo, Begin, Preview, OpOK, LogOK
<1>4. CASE Backup(o) \/ BackupFails(o) \/ PlanRefused(o) \/ Timeout(o) \/ ActRaises(o) \/ Crash(o)
  BY <1>4 DEF Backup, BackupFails, PlanRefused, Timeout, ActRaises, Crash
<1>5. CASE ReadCopies(o) \/ ReadBefore(o) \/ Fold(o) \/ ScriptReturns(o) \/ VerifyTrash(o)
  BY <1>5 DEF ReadCopies, ReadBefore, Fold, ScriptReturns, VerifyTrash
<1>6. CASE DeletePassEnds(o) \/ DedupeReturns(o)
  BY <1>6 DEF DeletePassEnds, DedupeReturns
<1>7. ASSUME NEW c \in Copies, NotInSource(o, c) \/ VerbRaises(o, c) \/ ProbeMove(o, c)
      PROVE  UNCHANGED <<plans, dones, call, mover>>
  BY <1>7 DEF NotInSource, VerbRaises, ProbeMove
<1>8. ASSUME NEW c \in Copies, MoveCopy(o, c) \/ DeleteCopy(o, c) \/ LateEvent(o, c)
      PROVE  UNCHANGED <<plans, dones, call>> /\ Verb(o, c)
  BY <1>8 DEF MoveCopy, DeleteCopy, LateEvent
<1>9. ASSUME NEW m \in Msgs, Capture(o, m) \/ DedupeRaises(o, m) \/ VerifyDedupe(o, m)
      PROVE  UNCHANGED <<plans, dones, call, mover>>
  BY <1>9 DEF Capture, DedupeRaises, VerifyDedupe
<1>10. ASSUME NEW m \in Msgs PROVE ~DedupeDelete(o, m)
  BY <1>1, NothingToDelete DEF DedupeDelete
<1> QED BY <1>2, <1>3, <1>4, <1>5, <1>6, <1>7, <1>8, <1>9, <1>10
        DEF Step, CallStep, ActStep, Failure

LEMMA ReceiptsInit == Init => Receipts!Init
BY DEF Init, Receipts!Init, UndoTargets

\* The two log writes are the promise and the settling; what else files a copy is covered
\* by a receipt that is already promised, and only the user takes one.
LEMMA ReceiptsStep ==
    ASSUME SingleCopies, NoTrash, ReplayInv, ReplayInv', [Next]_vars
    PROVE  \/ SameReceipts /\ mover' = mover
           \/ \E r \in Ops : \/ Receipts!Promise(r)
                             \/ Receipts!Settle(r)
                             \/ \E c \in Copies : Receipts!File(r, c)
           \/ \E c \in Copies : Receipts!Take(c)
<1> DEFINE phase == [r \in Ops |-> Phase(r)]
           replay == [r \in Ops |-> UndoTargets(r)]
<1>1. TypeOK /\ TypeOK'
  BY DEF ReplayInv, PlanInv
<1>2. CASE UNCHANGED vars
  BY <1>2, SameReceipt DEF vars, mailVars, logVars, SameReceipts
<1>3. CASE Environment
  <2>1. SameReceipts
    BY <1>1, <1>3, EnvironmentFrame, SameReceipt DEF SameCall, SameReceipts
  <2>2. ASSUME NEW c \in Copies, SourceClears(c) PROVE mover' = mover
    BY <2>2 DEF SourceClears
  <2>3. ASSUME NEW c \in Copies, NEW b \in Mailboxes, UserMoves(c, b)
        PROVE  Receipts!Take(c)
    BY <2>1, <2>3 DEF UserMoves, FileAs, Receipts!Take, SameReceipts, Phase
  <2> QED BY <1>3, <2>1, <2>2, <2>3 DEF Environment
<1>4. ASSUME NEW o \in Ops, Step(o), ~WritePlan(o), ~WriteDone(o)
      PROVE  \/ SameReceipts /\ mover' = mover
             \/ \E c \in Copies : Receipts!File(o, c)
  <2>1. SameReceipts
    BY <1>1, <1>4, StepFiles, StepFrame, SameReceipt DEF SameCall, SameReceipts
  <2>2. ASSUME NEW c \in Copies, mover' = [mover EXCEPT ![c] = o]
        PROVE  Receipts!File(o, c)
    <3>1. mover'[c] = o
      BY <1>1, <2>2 DEF TypeOK
    <3>2. IdOf[c] \in UndoTargets(o)'
      BY <3>1, ReplayImplies DEF WhatMovedIsReplayable, ReplayInv, PlanInv, Planned, OpOK, FiledOK, Filed, UndoTargets
    <3>3. IdOf[c] \in UndoTargets(o)
      BY <2>1, <3>2 DEF SameReceipts
    <3>4. Phase(o) # "none"
      BY <3>3 DEF UndoTargets, Phase
    <3> QED BY <2>1, <2>2, <3>3, <3>4 DEF Receipts!File, SameReceipts, Phase
  <2> QED BY <1>4, <2>1, <2>2, StepFiles
<1>5. ASSUME NEW o \in Ops, WritePlan(o) PROVE Receipts!Promise(o)
  <2>1. /\ o \notin plans /\ plans' = plans \cup {o} /\ dones[o] = NoRecord
        /\ UNCHANGED <<mover, call, dones>>
    BY <1>1, <1>5 DEF WritePlan, mailVars, ReplayInv, OpOK, LogOK
  <2>2. \A r \in Ops \ {o} : Phase(r)' = Phase(r) /\ UndoTargets(r)' = UndoTargets(r)
    BY <2>1, SameReceipt
  <2>3. Phase(o) = "none" /\ Phase(o)' = "open" /\ UndoTargets(o)' \in SUBSET Msgs
    BY <1>1, <2>1 DEF Phase, UndoTargets, NoRecord, TypeOK
  <2>4. phase' = [phase EXCEPT ![o] = "open"]
    BY <2>2, <2>3
  <2>5. replay' = [replay EXCEPT ![o] = UndoTargets(o)']
    BY <2>2
  <2> QED BY <2>1, <2>3, <2>4, <2>5 DEF Receipts!Promise, Phase
<1>6. ASSUME NEW o \in Ops, WriteDone(o)
      PROVE  (SameReceipts /\ mover' = mover) \/ Receipts!Settle(o)
  <2>1. /\ o \in plans /\ dones[o] = NoRecord /\ UNCHANGED <<mover, plans, call>>
        /\ dones' = [dones EXCEPT ![o] = left[o]] \/ dones' = dones
    BY <1>1, <1>6 DEF WriteDone, mailVars, ReplayInv, PlanInv, Planned, OpOK, LogOK
  <2>2. \A r \in Ops \ {o} : Phase(r)' = Phase(r) /\ UndoTargets(r)' = UndoTargets(r)
    BY <1>1, <2>1, SameReceipt DEF TypeOK
  <2>3. CASE dones'[o] = NoRecord
    BY <2>1, <2>2, <2>3, SameReceipt DEF SameReceipts
  <2>4. CASE dones'[o] # NoRecord
    <3>1. Phase(o) = "open" /\ Phase(o)' = "closed"
      BY <2>1, <2>4 DEF Phase, NoRecord
    <3>2. UndoTargets(o)' \in SUBSET UndoTargets(o)
      BY <1>1, <2>1, <2>4 DEF UndoTargets, NoRecord, TypeOK
    <3>3. \A c \in Copies : mover[c] = o => IdOf[c] \in UndoTargets(o)'
      BY <2>1 DEF ReplayInv, PlanInv, Planned, OpOK, FiledOK, Filed, UndoTargets
    <3>4. phase' = [phase EXCEPT ![o] = "closed"]
      BY <2>2, <3>1
    <3>5. replay' = [replay EXCEPT ![o] = UndoTargets(o)']
      BY <2>2
    <3> QED BY <2>1, <3>1, <3>2, <3>3, <3>4, <3>5 DEF Receipts!Settle, Phase
  <2> QED BY <2>3, <2>4
<1> QED BY <1>2, <1>3, <1>4, <1>5, <1>6 DEF Next, Step

\* Under those assumptions the plane does what RecoverableReceipts says and nothing else:
\* a receipt is promised once before anything is filed under it, is narrowed at most once,
\* and never past a copy that its call holds.
THEOREM ReceiptsAreKept ==
    ASSUME SingleCopies, NoTrash PROVE Spec => ImplementsReceipts
<1>1. ReplayInv /\ ReplayInv' /\ [Next]_vars =>
        [Receipts!Next]_<<mover, [o \in Ops |-> IF o \notin plans THEN "none"
                                               ELSE IF dones[o] = NoRecord THEN "open"
                                                    ELSE "closed"],
                          [o \in Ops |-> UndoTargets(o)]>>
  BY ReceiptsStep DEF Receipts!Next, SameReceipts, Phase
<1> QED BY <1>1, ReceiptsInit, ReplayInit, ReplayInductive, PTL
        DEF Spec, ImplementsReceipts, Receipts!Spec

-----------------------------------------------------------------------------
(* Dedupes, many at once, never take the last copy out of a mailbox.       *)

\* A finite set of numbers has a least and a greatest element (induction over finite sets,
\* by a least counterexample).
LEMMA FiniteBounds ==
    ASSUME NEW S, S \subseteq Nat, IsFiniteSet(S), S # {}
    PROVE  /\ \E x \in S : \A y \in S : x =< y
           /\ \E x \in S : \A y \in S : y =< x
<1> DEFINE Bounded(T) == /\ \E x \in T : \A y \in T : x =< y
                         /\ \E x \in T : \A y \in T : y =< x
           Bad == {T \in FiniteSubsetsOf(Nat) : T # {} /\ ~Bounded(T)}
<1>1. SUFFICES Bad = {}
  BY DEF FiniteSubsetsOf
<1>2. SUFFICES ASSUME Bad # {} PROVE FALSE
  OBVIOUS
<1>3. PICK T \in Bad : \A U \in Bad : <<U, T>> \notin StrictSubsetOrdering(Nat)
  <2>1. Bad \subseteq FiniteSubsetsOf(Nat)
    OBVIOUS
  <2> HIDE DEF Bad
  <2> QED BY <1>2, <2>1, FS_StrictSubsetOrderingWellFounded, WFMin
<1>4. T \subseteq Nat /\ IsFiniteSet(T) /\ T # {} /\ ~Bounded(T)
  BY DEF FiniteSubsetsOf
<1>5. PICK z \in T : TRUE
  BY <1>4
<1> DEFINE U == T \ {z}
<1>6. U \in FiniteSubsetsOf(Nat) /\ <<U, T>> \in StrictSubsetOrdering(Nat)
  <2>1. IsFiniteSet(U)
    BY <1>4, FS_Subset
  <2> QED BY <1>4, <1>5, <2>1 DEF FiniteSubsetsOf, StrictSubsetOrdering
<1>7. U = {} \/ Bounded(U)
  BY <1>3, <1>6
<1>8. CASE U = {}
  <2>1. T = {z}
    BY <1>5, <1>8
  <2> QED BY <1>4, <2>1
<1>9. CASE Bounded(U)
  <2>1. z \in Nat /\ T = U \cup {z}
    BY <1>4, <1>5
  <2>2. PICK lo \in U : \A y \in U : lo =< y
    BY <1>9
  <2>3. PICK hi \in U : \A y \in U : y =< hi
    BY <1>9
  <2>4. lo \in Nat /\ hi \in Nat /\ U \subseteq Nat
    BY <1>4
  <2>5. \E x \in T : \A y \in T : x =< y
    <3>1. CASE z =< lo
      BY <2>1, <2>2, <2>4, <3>1
    <3>2. CASE ~(z =< lo)
      BY <2>1, <2>2, <2>4, <3>2
    <3> QED BY <3>1, <3>2
  <2>6. \E x \in T : \A y \in T : y =< x
    <3>1. CASE hi =< z
      BY <2>1, <2>3, <2>4, <3>1
    <3>2. CASE ~(hi =< z)
      BY <2>1, <2>3, <2>4, <3>2
    <3> QED BY <3>1, <3>2
  <2> QED BY <1>4, <2>5, <2>6
<1> QED BY <1>7, <1>8, <1>9

\* What a dedupe has captured beyond the first copy of each message, and what it may still
\* send late.
Doomed(o) == late[o] \cup UNION {Losers(o, m) : m \in Msgs}

\* A copy that b still lists though it is gone, or that a dedupe of b may still delete.
Condemned(c, b) ==
    \/ lingers[c] = b
    \/ \E o \in Ops : call[o].kind = "dedupe" /\ call[o].src = b /\ c \in Doomed(o)

\* b stores an earlier copy of the same message.
Outlived(c, b) == \E d \in Copies : d < c /\ IdOf[d] = IdOf[c] /\ at[d] = b

\* A call that has not begun has nothing; a dedupe has captured nothing of a message it has
\* not come to, and nothing outside its script.
CaptureOK(o) ==
    /\ pc[o] = "idle" => call[o].kind = "none"
    /\ call[o].kind = "none" =>
          pc[o] \in {"idle", "previewed"} /\ found[o] = {} /\ late[o] = {}
    /\ pc[o] \in {"copies", "before", "fold"} => call[o].kind # "dedupe"
    /\ call[o].kind = "dedupe" =>
          /\ pc[o] \notin {"script", "verify"} => found[o] = {}
          /\ \A c \in found[o] : result[o][IdOf[c]] # "none"

SurvivorInv ==
    OnlyCollapses =>
        \A c \in Copies, b \in Mailboxes \ {"Trash"} : Condemned(c, b) => Outlived(c, b)

CollapseInv == TypeOK /\ (\A o \in Ops : CaptureOK(o)) /\ SurvivorInv

LEMMA FirstLeads ==
    ASSUME NEW S, S \subseteq Copies, S # {}
    PROVE  First(S) \in S /\ \A d \in S : First(S) =< d
<1>1. S \subseteq Nat /\ IsFiniteSet(S)
  BY CopiesAssumption, FS_Subset
<1>2. \E c \in S : \A d \in S : c =< d
  BY <1>1, FiniteBounds
<1> QED BY <1>2 DEF First

LEMMA LastEnds ==
    ASSUME NEW S, S \subseteq Copies, S # {} PROVE Last(S) \in S
<1>1. S \subseteq Nat /\ IsFiniteSet(S)
  BY CopiesAssumption, FS_Subset
<1>2. \E c \in S : \A d \in S : d =< c
  BY <1>1, FiniteBounds
<1> QED BY <1>2 DEF Last

\* What is surplus in a bulk read is outlived by the first of it, or by what outlives that.
LEMMA SurplusOutlived ==
    ASSUME CollapseInv, OnlyCollapses, NEW b \in Mailboxes \ {"Trash"}, NEW m \in Msgs,
           NEW c \in Surplus(CopiesIn(b, m))
    PROVE  c \in Copies /\ IdOf[c] = m /\ Outlived(c, b)
<1> DEFINE S == CopiesIn(b, m)
<1>0. PICK d : d = First(S)
  OBVIOUS
<1>1. S \subseteq Copies /\ c \in S /\ c # d
  BY <1>0 DEF Surplus, CopiesIn
<1>2. d \in S /\ d =< c
  BY <1>0, <1>1, FirstLeads
<1>3. d \in Copies /\ c \in Copies /\ IdOf[d] = m /\ IdOf[c] = m /\ Listed(d, b)
  BY <1>1, <1>2 DEF CopiesIn
<1>4. d < c /\ d \in Nat /\ c \in Nat
  BY <1>1, <1>2, <1>3, CopiesAssumption
<1>5. CASE at[d] = b
  BY <1>3, <1>4, <1>5 DEF Outlived
<1>6. CASE lingers[d] = b
  <2>1. Outlived(d, b)
    BY <1>3, <1>6 DEF CollapseInv, SurvivorInv, Condemned
  <2>2. PICK e \in Copies : e < d /\ IdOf[e] = IdOf[d] /\ at[e] = b
    BY <2>1 DEF Outlived
  <2>3. e \in Nat /\ e < c
    BY <1>4, <2>2, CopiesAssumption
  <2> QED BY <1>3, <2>2, <2>3 DEF Outlived
<1> QED BY <1>3, <1>5, <1>6 DEF Listed

\* One event in Mail: what was outlived still is, and what it takes away is.
LEMMA VerbSpares ==
    ASSUME CollapseInv, OnlyCollapses, NEW o \in Ops, NEW c0 \in Copies, Verb(o, c0),
           call[o].kind # "none", call[o].kind = "dedupe" => c0 \in Doomed(o),
           NEW c \in Copies, NEW b \in Mailboxes \ {"Trash"}
    PROVE  /\ Outlived(c, b) => Outlived(c, b)'
           /\ lingers'[c] = b => Outlived(c, b)'
           /\ at[c] = b => at'[c] = b \/ Outlived(c, b)'
<1>1. TypeOK
  BY DEF CollapseInv
<1>2. lingers[c] = b => Outlived(c, b)
  BY DEF CollapseInv, SurvivorInv, Condemned
<1>3. CASE UNCHANGED mailVars
  BY <1>2, <1>3 DEF mailVars, Outlived
<1>4. CASE at[c0] = call[o].src /\ call[o].src = "Trash"
  <2>1. at' = [at EXCEPT ![c0] = at'[c0]] /\ at[c0] = "Trash"
    BY <1>1, <1>3, <1>4 DEF TypeOK, Verb, FileAs, DeleteAs, mailVars
  <2>2. Outlived(c, b) => Outlived(c, b)'
    BY <1>1, <2>1 DEF TypeOK, Outlived
  <2>3. lingers'[c] = b => lingers[c] = b
    BY <1>1, <1>3, <1>4 DEF TypeOK, Verb, FileAs, DeleteAs, mailVars, Mailboxes, Nowhere
  <2>4. at[c] = b => at'[c] = b
    BY <1>1, <2>1 DEF TypeOK
  <2> QED BY <1>2, <2>2, <2>3, <2>4
<1>5. CASE at[c0] = call[o].src /\ call[o].src # "Trash" /\ ~UNCHANGED mailVars
  <2>0. PICK b0 : b0 = call[o].src
    OBVIOUS
  <2>1. call[o].kind = "dedupe" /\ c0 \in Doomed(o) /\ DeleteAs(c0, o)
    BY <1>5 DEF OnlyCollapses, Verb
  <2>2. /\ at' = [at EXCEPT ![c0] = "Trash"] /\ at[c0] = b0
        /\ lingers' = [lingers EXCEPT ![c0] = b0]
    BY <1>5, <2>0, <2>1 DEF DeleteAs
  <2>3. b0 \in Mailboxes \ {"Trash"}
    BY <1>1, <1>5, <2>0 DEF TypeOK
  <2>4. Outlived(c0, b0)
    BY <2>0, <2>1, <2>3 DEF CollapseInv, SurvivorInv, Condemned
  <2>5. PICK e \in Copies : e < c0 /\ IdOf[e] = IdOf[c0] /\ at[e] = b0
    BY <2>4 DEF Outlived
  <2>6. e # c0 /\ at'[e] = b0 /\ e \in Nat /\ c0 \in Nat /\ c \in Nat
    <3>1. e \in Nat /\ c0 \in Nat /\ c \in Nat
      BY CopiesAssumption
    <3>2. e # c0
      BY <2>5, <3>1
    <3> QED BY <1>1, <2>2, <2>5, <3>1, <3>2 DEF TypeOK
  <2>7. Outlived(c, b) => Outlived(c, b)'
    <3> SUFFICES ASSUME Outlived(c, b) PROVE Outlived(c, b)'
      OBVIOUS
    <3>1. PICK d \in Copies : d < c /\ IdOf[d] = IdOf[c] /\ at[d] = b
      BY DEF Outlived
    <3>2. CASE d = c0
      <4>1. b = b0 /\ e < c /\ IdOf[e] = IdOf[c]
        BY <2>2, <2>5, <2>6, <3>1, <3>2
      <4> QED BY <2>6, <4>1 DEF Outlived
    <3>3. CASE d # c0
      BY <1>1, <2>2, <3>1, <3>3 DEF TypeOK, Outlived
    <3> QED BY <3>2, <3>3
  <2>8. Outlived(c0, b0)'
    BY <2>5, <2>6 DEF Outlived
  <2>9. lingers'[c] = b => lingers[c] = b \/ (c = c0 /\ b = b0)
    BY <1>1, <2>2 DEF TypeOK
  <2>10. at[c] = b => at'[c] = b \/ (c = c0 /\ b = b0)
    BY <1>1, <2>2 DEF TypeOK
  <2> QED BY <1>2, <2>7, <2>8, <2>9, <2>10
<1> QED BY <1>3, <1>4, <1>5 DEF Verb

\* What the call that takes a step has captured.
LEMMA CaptureKeeps ==
    ASSUME CollapseInv, NEW o \in Ops, Step(o) PROVE CaptureOK(o)'
<1> USE DEF Goto, Running, Acting, mailVars, logVars, actVars, ForgetAct
<1>1. TypeOK /\ CaptureOK(o)
  BY DEF CollapseInv
<1>2. CASE Start(o)
  <2>1. ASSUME NEW k \in {"move", "trash", "dedupe"}, NEW s, NEW d, NEW ms, Begin(o, k, s, d, ms)
        PROVE  CaptureOK(o)'
    BY <1>1, <2>1 DEF TypeOK, Begin, CaptureOK
  <2>2. CASE Preview(o)
    BY <1>1, <2>2 DEF TypeOK, Preview, CaptureOK
  <2> QED BY <1>2, <2>1, <2>2 DEF Start, MoveMail, TrashMail, DedupeBatch, Undo
<1>3. CASE Backup(o) \/ BackupFails(o) \/ WritePlan(o) \/ PlanRefused(o)
  BY <1>1, <1>3 DEF TypeOK, CaptureOK, Backup, BackupFails, WritePlan, PlanRefused
<1>4. CASE ReadCopies(o) \/ ReadBefore(o) \/ Fold(o)
  <2>1. call[o].kind \notin {"none", "dedupe"} /\ call' = call
    BY <1>1, <1>4 DEF CaptureOK, ReadCopies, ReadBefore, Fold
  <2>2. pc'[o] # "idle"
    BY <1>1, <1>4 DEF TypeOK, ReadCopies, ReadBefore, Fold
  <2> QED BY <2>1, <2>2 DEF CaptureOK
<1>5. CASE ScriptReturns(o) \/ VerifyTrash(o)
  <2>1. call[o].kind \notin {"none", "dedupe"} /\ call' = call
    BY <1>1, <1>5 DEF CaptureOK, ScriptReturns, VerifyTrash
  <2>2. pc'[o] # "idle"
    BY <1>1, <1>5 DEF TypeOK, ScriptReturns, VerifyTrash
  <2> QED BY <2>1, <2>2 DEF CaptureOK
<1>6. CASE DeletePassEnds(o) \/ DedupeReturns(o)
  BY <1>1, <1>6 DEF TypeOK, CaptureOK, DeletePassEnds, DedupeReturns
<1>7. ASSUME NEW c \in Copies,
             \/ NotInSource(o, c) \/ VerbRaises(o, c) \/ MoveCopy(o, c)
             \/ ProbeMove(o, c) \/ DeleteCopy(o, c)
      PROVE  CaptureOK(o)'
  <2>1. /\ UNCHANGED <<call, pc, found, result, late>>
    BY <1>7 DEF NotInSource, VerbRaises, MoveCopy, ProbeMove, DeleteCopy
  <2> QED BY <1>1, <2>1 DEF CaptureOK
<1>8. ASSUME NEW m \in Msgs, Capture(o, m) PROVE CaptureOK(o)'
  <2>1. /\ pc[o] = "script" /\ call[o].kind = "dedupe" /\ UNCHANGED <<call, pc, late>>
        /\ \A n \in Msgs : result'[o][n] = "none" => result[o][n] = "none" /\ n # m
        /\ \A c \in found'[o] : c \in found[o] \/ IdOf[c] = m
    BY <1>1, <1>8 DEF TypeOK, Capture, CopiesIn
  <2>2. \A c \in found'[o] : IdOf[c] \in Msgs
    BY <1>1, <1>8, IdOfAssumption DEF TypeOK, Capture, CopiesIn
  <2> QED BY <1>1, <2>1, <2>2 DEF CaptureOK
<1>9. ASSUME NEW m \in Msgs, DedupeDelete(o, m) \/ DedupeRaises(o, m) \/ VerifyDedupe(o, m)
      PROVE  CaptureOK(o)'
  <2>1. /\ pc[o] \in {"script", "verify"} /\ UNCHANGED <<call, pc, found, late>>
        /\ \A n \in Msgs : result'[o][n] = "none" => result[o][n] = "none"
    BY <1>1, <1>9 DEF TypeOK, DedupeDelete, DedupeRaises, VerifyDedupe
  <2>2. \A c \in found[o] : IdOf[c] \in Msgs
    BY <1>1, IdOfAssumption DEF TypeOK
  <2> QED BY <1>1, <2>1, <2>2 DEF CaptureOK
<1>10. CASE WriteDone(o)
  <2>1. /\ pc'[o] \in {"answered", "timedout"} /\ pc[o] \in {"record", "expired"}
        /\ UNCHANGED <<call, found, late>>
    BY <1>1, <1>10 DEF TypeOK, WriteDone
  <2> QED BY <1>1, <2>1 DEF CaptureOK
<1>11. CASE Timeout(o) \/ ActRaises(o) \/ Crash(o)
  <2>1. /\ pc'[o] \in {"expired", "raised", "crashed"} /\ pc[o] \in Running /\ call' = call
        /\ found'[o] = {}
    BY <1>1, <1>11 DEF TypeOK, Timeout, ActRaises, Crash
  <2> QED BY <1>1, <2>1 DEF CaptureOK
<1>12. ASSUME NEW c \in Copies, LateEvent(o, c) PROVE CaptureOK(o)'
  BY <1>1, <1>12 DEF TypeOK, CaptureOK, LateEvent
<1> QED BY <1>2, <1>3, <1>4, <1>5, <1>6, <1>7, <1>8, <1>9, <1>10, <1>11, <1>12
        DEF Step, CallStep, ActStep, Failure

\* What a killed dedupe leaves to do is doomed or surplus.
LEMMA RemainingDoomed ==
    ASSUME TypeOK, NEW o \in Ops, call[o].kind = "dedupe", NEW c \in Remaining(o)
    PROVE  c \in Doomed(o) \/ \E m \in Msgs : c \in Surplus(CopiesIn(call[o].src, m))
<1>1. PICK m \in call[o].ids :
         c \in CASE result[o][m] = "deleting" -> Undeleted(o, m)
                [] result[o][m] = "none" -> Surplus(CopiesIn(call[o].src, m))
                [] OTHER -> {}
  BY DEF Remaining
<1>2. m \in Msgs
  BY DEF TypeOK
<1>3. CASE result[o][m] = "deleting"
  BY <1>1, <1>2, <1>3 DEF Undeleted, Doomed
<1>4. CASE result[o][m] = "none"
  BY <1>1, <1>2, <1>4
<1> QED BY <1>1, <1>3, <1>4

\* A step dooms only what a bulk read of its call shows to be surplus.
LEMMA DoomedGrows ==
    ASSUME CollapseInv, NEW o \in Ops, Step(o), call'[o].kind = "dedupe", NEW c \in Doomed(o)'
    PROVE  /\ call'[o] = call[o]
           /\ c \in Doomed(o) \/ \E m \in Msgs : c \in Surplus(CopiesIn(call[o].src, m))
<1> USE DEF Goto, mailVars, logVars, actVars, ForgetAct
<1>1. TypeOK /\ CaptureOK(o)
  BY DEF CollapseInv
<1>2. ASSUME NEW m PROVE Losers(o, m)' = Surplus({d \in found'[o] : IdOf[d] = m})
  BY DEF Losers, Surplus, First
<1>3. ASSUME found'[o] = {} PROVE Doomed(o)' = late'[o]
  <2>1. ASSUME NEW m PROVE Losers(o, m)' = {}
    BY <1>2, <1>3 DEF Surplus
  <2> QED BY <2>1 DEF Doomed
<1>4. ASSUME found'[o] = found[o], late'[o] \subseteq late[o], call' = call
      PROVE  call'[o] = call[o] /\ c \in Doomed(o)
  BY <1>4, <1>2 DEF Doomed, Losers
<1>5. CASE Start(o)
  <2>1. ASSUME NEW k, NEW s, NEW d, NEW ms, Begin(o, k, s, d, ms) PROVE FALSE
    <3>1. found'[o] = {} /\ late'[o] = {}
      BY <1>1, <2>1 DEF Begin, CaptureOK
    <3> QED BY <1>3, <3>1
  <2>2. CASE Preview(o)
    BY <1>4, <2>2 DEF Preview
  <2> QED BY <1>5, <2>1, <2>2 DEF Start, MoveMail, TrashMail, DedupeBatch, Undo
<1>6. CASE Backup(o) \/ BackupFails(o) \/ WritePlan(o) \/ PlanRefused(o)
  BY <1>4, <1>6 DEF Backup, BackupFails, WritePlan, PlanRefused
<1>7. ASSUME call[o].kind # "dedupe", call' = call PROVE FALSE
  BY <1>7
<1>8. CASE ReadCopies(o) \/ ReadBefore(o) \/ Fold(o) \/ ScriptReturns(o) \/ VerifyTrash(o)
  BY <1>1, <1>7, <1>8
     DEF CaptureOK, ReadCopies, ReadBefore, Fold, ScriptReturns, VerifyTrash
<1>9. CASE DeletePassEnds(o)
  BY <1>4, <1>9 DEF DeletePassEnds
<1>10. CASE DedupeReturns(o)
  <2>1. found'[o] = {} /\ late' = late /\ call' = call
    BY <1>1, <1>10 DEF TypeOK, DedupeReturns
  <2> QED BY <1>3, <2>1 DEF Doomed
<1>11. ASSUME NEW d \in Copies,
              \/ NotInSource(o, d) \/ VerbRaises(o, d) \/ MoveCopy(o, d)
              \/ ProbeMove(o, d) \/ DeleteCopy(o, d)
       PROVE  call'[o] = call[o] /\ c \in Doomed(o)
  BY <1>4, <1>11 DEF NotInSource, VerbRaises, MoveCopy, ProbeMove, DeleteCopy
<1>12. ASSUME NEW m \in Msgs, DedupeDelete(o, m) \/ DedupeRaises(o, m) \/ VerifyDedupe(o, m)
       PROVE  call'[o] = call[o] /\ c \in Doomed(o)
  BY <1>4, <1>12 DEF DedupeDelete, DedupeRaises, VerifyDedupe
<1>13. ASSUME NEW m \in Msgs, Capture(o, m)
       PROVE  /\ call'[o] = call[o]
              /\ c \in Doomed(o) \/ c \in Surplus(CopiesIn(call[o].src, m))
  <2> DEFINE matches == CopiesIn(call[o].src, m)
  <2>1. /\ call' = call /\ late' = late /\ call[o].kind = "dedupe" /\ result[o][m] = "none"
        /\ found'[o] = found[o] \/ found'[o] = found[o] \cup matches
    BY <1>1, <1>13 DEF TypeOK, Capture
  <2>2. CASE found'[o] = found[o]
    BY <1>4, <2>1, <2>2
  <2>3. CASE found'[o] = found[o] \cup matches
    <3>1. {d \in found'[o] : IdOf[d] = m} = matches
      BY <1>1, <2>1, <2>3 DEF CaptureOK, CopiesIn
    <3>2. ASSUME NEW n \in Msgs, n # m
          PROVE  {d \in found'[o] : IdOf[d] = n} = {d \in found[o] : IdOf[d] = n}
      BY <2>3, <3>2 DEF CopiesIn
    <3>3. ASSUME NEW n \in Msgs, n # m PROVE Losers(o, n)' = Losers(o, n)
      BY <1>2, <3>2, <3>3 DEF Losers
    <3>4. Losers(o, m)' = Surplus(matches)
      BY <1>2, <3>1
    <3> HIDE DEF matches
    <3>5. c \in late[o] \/ \E n \in Msgs : c \in Losers(o, n)'
      BY <2>1 DEF Doomed
    <3>6. c \in Doomed(o) \/ c \in Surplus(matches)
      BY <3>3, <3>4, <3>5 DEF Doomed
    <3> QED BY <2>1, <3>6 DEF matches
  <2> QED BY <2>1, <2>2, <2>3
<1>14. CASE WriteDone(o)
  BY <1>4, <1>14 DEF WriteDone
<1>15. CASE ActRaises(o)
  <2>1. found'[o] = {} /\ late' = late /\ call' = call
    BY <1>1, <1>15 DEF TypeOK, ActRaises
  <2> QED BY <1>3, <2>1 DEF Doomed
<1>16. CASE Timeout(o) \/ Crash(o)
  <2>1. found'[o] = {} /\ late'[o] \subseteq late[o] \cup Remaining(o) /\ call' = call
    BY <1>1, <1>16 DEF TypeOK, Timeout, Crash
  <2>2. c \in late[o] \/ c \in Remaining(o)
    BY <1>3, <2>1
  <2> QED BY <1>1, <2>1, <2>2, RemainingDoomed DEF Doomed
<1>17. ASSUME NEW d \in Copies, LateEvent(o, d) PROVE call'[o] = call[o] /\ c \in Doomed(o)
  <2>1. late'[o] \subseteq late[o]
    BY <1>1, <1>17 DEF TypeOK, LateEvent
  <2> QED BY <1>4, <1>17, <2>1 DEF LateEvent
<1> QED BY <1>5, <1>6, <1>8, <1>9, <1>10, <1>11, <1>12, <1>13, <1>14, <1>15, <1>16, <1>17
        DEF Step, CallStep, ActStep, Failure

\* What a step of a call does in Mail is at most one event, and a dedupe's is for a copy it
\* had doomed.
LEMMA StepEvent ==
    ASSUME CollapseInv, NEW o \in Ops, Step(o)
    PROVE  /\ userMoves' = userMoves
           /\ \/ UNCHANGED mailVars
              \/ \E c \in Copies : /\ Verb(o, c) /\ call[o].kind # "none"
                                   /\ call[o].kind = "dedupe" => c \in Doomed(o)
<1>1. TypeOK /\ CaptureOK(o)
  BY DEF CollapseInv
<1>2. CASE Start(o)
  BY <1>2 DEF Start, MoveMail, TrashMail, DedupeBatch, Undo, Begin, Preview
<1>3. CASE Backup(o) \/ BackupFails(o) \/ WritePlan(o) \/ PlanRefused(o) \/ WriteDone(o)
  BY <1>3 DEF Backup, BackupFails, WritePlan, PlanRefused, WriteDone
<1>4. CASE ReadCopies(o) \/ ReadBefore(o) \/ Fold(o) \/ ScriptReturns(o) \/ VerifyTrash(o)
  BY <1>4 DEF ReadCopies, ReadBefore, Fold, ScriptReturns, VerifyTrash
<1>5. CASE DeletePassEnds(o) \/ DedupeReturns(o) \/ Timeout(o) \/ ActRaises(o) \/ Crash(o)
  BY <1>5 DEF DeletePassEnds, DedupeReturns, Timeout, ActRaises, Crash
<1>6. ASSUME NEW c \in Copies, NotInSource(o, c) \/ VerbRaises(o, c) \/ ProbeMove(o, c)
      PROVE  UNCHANGED mailVars /\ userMoves' = userMoves
  BY <1>6 DEF NotInSource, VerbRaises, ProbeMove
<1>7. ASSUME NEW c \in Copies, MoveCopy(o, c) \/ DeleteCopy(o, c)
      PROVE  /\ Verb(o, c) /\ call[o].kind \notin {"none", "dedupe"}
             /\ userMoves' = userMoves
  BY <1>7 DEF MoveCopy, DeleteCopy
<1>8. ASSUME NEW m \in Msgs, Capture(o, m) \/ DedupeRaises(o, m) \/ VerifyDedupe(o, m)
      PROVE  UNCHANGED mailVars /\ userMoves' = userMoves
  BY <1>8 DEF Capture, DedupeRaises, VerifyDedupe
<1>9. ASSUME NEW m \in Msgs, DedupeDelete(o, m)
      PROVE  /\ userMoves' = userMoves
             /\ \E c \in Copies : Verb(o, c) /\ call[o].kind # "none" /\ c \in Doomed(o)
  <2>1. PICK c : c = Last(Undeleted(o, m))
    OBVIOUS
  <2>2. Undeleted(o, m) \subseteq Losers(o, m) /\ Losers(o, m) \subseteq Copies
    BY <1>1, SurplusSubset DEF TypeOK, Undeleted, Losers
  <2>3. Undeleted(o, m) # {} /\ Verb(o, c) /\ pc[o] = "script" /\ userMoves' = userMoves
    BY <1>9, <2>1 DEF DedupeDelete
  <2>4. c \in Undeleted(o, m)
    BY <2>1, <2>2, <2>3, LastEnds
  <2>5. call[o].kind # "none"
    BY <1>1, <2>3 DEF CaptureOK
  <2> QED BY <2>2, <2>3, <2>4, <2>5 DEF Doomed
<1>10. ASSUME NEW c \in Copies, LateEvent(o, c)
       PROVE  /\ userMoves' = userMoves
              /\ Verb(o, c) /\ call[o].kind # "none" /\ c \in Doomed(o)
  BY <1>1, <1>10 DEF LateEvent, CaptureOK, Doomed
<1> QED BY <1>2, <1>3, <1>4, <1>5, <1>6, <1>7, <1>8, <1>9, <1>10
        DEF Step, CallStep, ActStep, Failure

\* A call is given once.
LEMMA OnlyCollapsesBefore ==
    ASSUME CollapseInv, [Next]_vars, OnlyCollapses'
    PROVE  OnlyCollapses /\ ~\E c \in Copies, b \in Mailboxes : UserMoves(c, b)
<1>1. TypeOK /\ \A o \in Ops : CaptureOK(o)
  BY DEF CollapseInv
<1>2. ASSUME NEW c \in Copies, NEW b \in Mailboxes, UserMoves(c, b) PROVE FALSE
  BY <1>1, <1>2 DEF TypeOK, UserMoves, OnlyCollapses
<1>3. userMoves' = userMoves
  <2>1. CASE UNCHANGED vars
    BY <2>1 DEF vars
  <2>2. CASE Environment
    BY <1>2, <2>2 DEF Environment, SourceClears
  <2>3. ASSUME NEW o \in Ops, Step(o) PROVE userMoves' = userMoves
    BY <2>3, StepEvent
  <2> QED BY <2>1, <2>2, <2>3 DEF Next, Step
<1>4. ASSUME NEW p \in Ops PROVE call'[p] = call[p] \/ call[p].kind = "none"
  <2>1. CASE UNCHANGED vars
    BY <2>1 DEF vars
  <2>2. CASE Environment
    BY <1>1, <2>2, EnvironmentFrame DEF SameCall
  <2>3. ASSUME NEW o \in Ops, Step(o), p # o PROVE call'[p] = call[p]
    BY <1>1, <2>3, StepFrame DEF SameCall
  <2>4. CASE Start(p)
    BY <1>1, <2>4
       DEF Start, MoveMail, TrashMail, DedupeBatch, Undo, Begin, Preview, CaptureOK
  <2>5. CASE ActStep(p)
    BY <2>5 DEF ActStep, ReadCopies, ReadBefore, ScriptReturns, VerifyTrash, Fold,
        DeletePassEnds, DedupeReturns, NotInSource, VerbRaises, MoveCopy, ProbeMove,
        DeleteCopy, Capture, DedupeDelete, DedupeRaises, VerifyDedupe
  <2>6. CASE CallStep(p) \/ Failure(p)
    BY <2>5, <2>6 DEF CallStep, Backup, BackupFails, WritePlan, PlanRefused, WriteDone,
        Failure, Timeout, ActRaises, Crash, LateEvent
  <2> QED BY <2>1, <2>2, <2>3, <2>4, <2>6 DEF Next, Step
<1> QED BY <1>2, <1>3, <1>4 DEF OnlyCollapses

Survives(c, b) == at[c] = b => at'[c] = b \/ Outlived(c, b)'

LEMMA SameDoomed ==
    ASSUME NEW o \in Ops, SameCall(o)
    PROVE  Doomed(o)' = Doomed(o)
<1>1. /\ pc'[o] = pc[o] /\ late'[o] = late[o] /\ found'[o] = found[o]
      /\ outcome'[o] = outcome[o] /\ result'[o] = result[o] /\ call'[o] = call[o]
  BY DEF SameCall
<1>2. \A m : Losers(o, m)' = Losers(o, m)
  BY <1>1 DEF Losers, Surplus, First
<1> QED BY <1>1, <1>2 DEF Doomed

\* A step of a call keeps what outlives each condemned copy, and takes no other copy.
LEMMA StepSpares ==
    ASSUME CollapseInv, OnlyCollapses, NEW o \in Ops, Step(o),
           NEW c \in Copies, NEW b \in Mailboxes \ {"Trash"}
    PROVE  (Condemned(c, b)' => Outlived(c, b)') /\ Survives(c, b)
<1>1. TypeOK
  BY DEF CollapseInv
<1>2. /\ Outlived(c, b) => Outlived(c, b)'
      /\ lingers'[c] = b => Outlived(c, b)'
      /\ Survives(c, b)
  <2>1. CASE UNCHANGED mailVars
    BY <2>1 DEF CollapseInv, SurvivorInv, Condemned, Outlived, Survives, mailVars
  <2>2. ASSUME NEW c0 \in Copies, Verb(o, c0), call[o].kind # "none",
               call[o].kind = "dedupe" => c0 \in Doomed(o)
        PROVE  /\ Outlived(c, b) => Outlived(c, b)'
               /\ lingers'[c] = b => Outlived(c, b)'
               /\ Survives(c, b)
    BY <2>2, VerbSpares DEF Survives
  <2>3. \/ UNCHANGED mailVars
        \/ \E c0 \in Copies : /\ Verb(o, c0) /\ call[o].kind # "none"
                              /\ call[o].kind = "dedupe" => c0 \in Doomed(o)
    BY StepEvent
  <2> QED BY <2>1, <2>2, <2>3
<1>3. ASSUME NEW p \in Ops, (call[p].kind = "dedupe" /\ call[p].src = b /\ c \in Doomed(p))'
      PROVE  Outlived(c, b)
  <2>1. CASE p = o
    <3>1. /\ call'[o] = call[o]
          /\ c \in Doomed(o) \/ \E m \in Msgs : c \in Surplus(CopiesIn(call[o].src, m))
      BY <1>3, <2>1, DoomedGrows
    <3>2. CASE c \in Doomed(o)
      BY <1>3, <2>1, <3>1, <3>2 DEF CollapseInv, SurvivorInv, Condemned
    <3>3. ASSUME NEW m \in Msgs, c \in Surplus(CopiesIn(call[o].src, m)) PROVE Outlived(c, b)
      BY <1>3, <2>1, <3>1, <3>3, SurplusOutlived
    <3> QED BY <3>1, <3>2, <3>3
  <2>2. CASE p # o
    <3>1. SameCall(p)
      BY <1>1, <2>2, StepFrame
    <3>2. Doomed(p)' = Doomed(p)
      BY <3>1, SameDoomed
    <3> QED BY <1>3, <3>1, <3>2 DEF SameCall, CollapseInv, SurvivorInv, Condemned
  <2> QED BY <2>1, <2>2
<1> QED BY <1>2, <1>3 DEF Condemned

\* Any step: the invariant, and that nothing but a spared copy leaves.
LEMMA CollapseStep ==
    ASSUME CollapseInv, [Next]_vars
    PROVE  /\ CollapseInv'
           /\ OnlyCollapses' => \A c \in Copies, b \in Mailboxes \ {"Trash"} : Survives(c, b)
<1>1. TypeOK /\ \A o \in Ops : CaptureOK(o)
  BY DEF CollapseInv
<1>2. TypeOK'
  <2>1. CASE UNCHANGED vars
    BY <1>1, <2>1 DEF TypeOK, vars, mailVars, logVars, actVars
  <2> QED BY <1>1, <2>1, EnvironmentType, StartType, CallStepType, FailureType DEF Next
<1>3. ASSUME NEW p \in Ops, SameCall(p) PROVE CaptureOK(p)'
  BY <1>1, <1>3 DEF CaptureOK, SameCall
<1>4. ASSUME NEW p \in Ops PROVE CaptureOK(p)'
  <2>1. CASE UNCHANGED vars
    BY <1>3, <2>1 DEF vars, SameCall, mailVars, logVars, actVars
  <2>2. CASE Environment
    BY <1>1, <1>3, <2>2, EnvironmentFrame
  <2>3. ASSUME NEW o \in Ops, Step(o) PROVE CaptureOK(p)'
    BY <1>1, <1>3, <2>3, StepFrame, CaptureKeeps
  <2> QED BY <2>1, <2>2, <2>3 DEF Next, Step
<1>5. ASSUME OnlyCollapses', NEW c \in Copies, NEW b \in Mailboxes \ {"Trash"}
      PROVE  (Condemned(c, b)' => Outlived(c, b)') /\ Survives(c, b)
  <2>1. OnlyCollapses /\ ~\E d \in Copies, e \in Mailboxes : UserMoves(d, e)
    BY <1>5, OnlyCollapsesBefore
  <2>2. ASSUME at' = at, \A d \in Copies : lingers'[d] \in {lingers[d], Nowhere},
               \A p \in Ops : SameCall(p)
        PROVE  (Condemned(c, b)' => Outlived(c, b)') /\ Survives(c, b)
    <3>1. ASSUME NEW p \in Ops PROVE Doomed(p)' = Doomed(p)
      BY <2>2, SameDoomed
    <3>2. Condemned(c, b)' => Condemned(c, b)
      BY <2>2, <3>1 DEF SameCall, Condemned, Mailboxes, Nowhere
    <3>3. Outlived(c, b) => Outlived(c, b)'
      BY <2>2 DEF Outlived
    <3> QED BY <2>1, <2>2, <3>2, <3>3 DEF CollapseInv, SurvivorInv, Survives
  <2>3. CASE UNCHANGED vars
    BY <2>2, <2>3 DEF vars, SameCall, mailVars, logVars, actVars
  <2>4. CASE Environment
    <3>1. at' = at /\ \A d \in Copies : lingers'[d] \in {lingers[d], Nowhere}
      BY <1>1, <2>1, <2>4 DEF TypeOK, Environment, SourceClears
    <3> QED BY <1>1, <2>2, <2>4, <3>1, EnvironmentFrame
  <2>5. ASSUME NEW o \in Ops, Step(o)
        PROVE  (Condemned(c, b)' => Outlived(c, b)') /\ Survives(c, b)
    BY <2>1, <2>5, StepSpares
  <2> QED BY <2>3, <2>4, <2>5 DEF Next, Step
<1>6. SurvivorInv'
  BY <1>5 DEF SurvivorInv
<1> QED BY <1>2, <1>4, <1>5, <1>6 DEF CollapseInv

LEMMA CollapseInit == Init => CollapseInv
<1> SUFFICES ASSUME Init PROVE CollapseInv
  OBVIOUS
<1>1. ASSUME NEW o \in Ops PROVE CaptureOK(o)
  BY DEF Init, CaptureOK, NoCall
<1>2. ASSUME NEW c \in Copies, NEW b \in Mailboxes PROVE ~Condemned(c, b)
  BY DEF Init, Condemned, NoCall, Mailboxes, Nowhere
<1> QED BY <1>1, <1>2, InitType DEF CollapseInv, SurvivorInv

\* For any number of dedupes and of undos of them, and any number of copies in any
\* mailboxes: whatever they read of one another, are killed in or send late, a copy of each
\* message stays in each mailbox that had one (_DEDUPE deletes items n to 2 of what it
\* captured once).
THEOREM CollapsesSpareOne == Spec => OneCopySurvives
<1> DEFINE Spares == OnlyCollapses' =>
                        \A b \in Mailboxes \ {"Trash"}, m \in Msgs :
                           (\E c \in Copies : IdOf[c] = m /\ at[c] = b)
                              => \E c \in Copies : IdOf[c] = m /\ at'[c] = b
<1>1. CollapseInv /\ [Next]_vars => CollapseInv'
  BY CollapseStep
<1>2. CollapseInv /\ [Next]_vars => [Spares]_vars
  <2> SUFFICES ASSUME CollapseInv, [Next]_vars, OnlyCollapses',
                      NEW b \in Mailboxes \ {"Trash"}, NEW c \in Copies, at[c] = b
               PROVE  \E d \in Copies : IdOf[d] = IdOf[c] /\ at'[d] = b
    OBVIOUS
  <2>1. Survives(c, b)
    BY CollapseStep
  <2> QED BY <2>1 DEF Survives, Outlived
<1> QED BY <1>1, <1>2, CollapseInit, PTL DEF Spec, OneCopySurvives

-----------------------------------------------------------------------------
(* The answers of an id claim no more than what happened.                  *)

\* What a call has answered, step by step.
AnswersOK(o) ==
    /\ pc[o] = "idle" => late[o] = {} /\ \A m \in Msgs : result[o][m] = "none"
    /\ pc[o] \notin {"idle", "previewed"} => call[o].kind # "none"
    /\ pc[o] \in {"idle", "backup", "plan", "copies", "before"} =>
          \A c \in Copies : outcome[o][c] = "none"
    /\ pc[o] \in {"backup", "copies", "before", "fold"} => call[o].kind \in {"move", "trash"}
    /\ pc[o] \in {"backup", "plan", "copies", "before"} => \A m \in Msgs : result[o][m] = "none"
    /\ pc[o] \in {"script", "verify", "fold"} /\ call[o].kind # "dedupe" =>
          \A m \in Msgs : result[o][m] = "none"
    /\ pc[o] = "expired" => \A m \in Msgs : result[o][m] = "unknown"
    /\ pc[o] \in {"timedout", "crashed"} => \A m \in Msgs : result[o][m] = "none"
    /\ late[o] # {} => pc[o] \in {"expired", "timedout", "crashed"}

\* What a call knows of a copy that it filed.
FiledKnown(o, c) ==
    /\ pc[o] \notin {"idle", "backup", "plan", "copies", "before"}
    /\ pc[o] \in {"script", "verify", "fold"} =>
          IF call[o].kind = "dedupe" THEN result[o][IdOf[c]] # "none"
          ELSE c \in found[o] /\ outcome[o][c] \notin {"none", "not-in-source"}
    /\ result[o][IdOf[c]] \notin {"not-in-source", "not-duplicated"}

\* A copy that the script of a move reported as moved has left the source, and comes back
\* only when somebody files it there.
ReportIsTrue(o, c) ==
    pc[o] \in {"script", "fold"} /\ call[o].kind = "move" /\ outcome[o][c] = "moved"
        => ~(at[c] = call[o].src /\ mover[c] = Nobody)

AnswerInv ==
    /\ TypeOK
    /\ \A o \in Ops : AnswersOK(o)
    /\ \A o \in Ops, c \in Copies : mover[c] = o => FiledKnown(o, c)
    /\ userMoves = 0 => \A o \in Ops, c \in Copies : ReportIsTrue(o, c)

LEMMA VerbFiles ==
    ASSUME TypeOK, NEW o \in Ops, NEW c \in Copies, Verb(o, c), NEW d \in Copies
    PROVE  /\ mover'[d] \in {mover[d], o}
           /\ d # c => mover'[d] = mover[d]
           /\ mover'[d] = Nobody => mover[d] = Nobody /\ at'[d] = at[d]
BY NobodyAssumption DEF TypeOK, Verb, FileAs, DeleteAs, mailVars

\* The delete of a dedupe takes a copy of the message it is at.
LEMMA DeletesOne ==
    ASSUME TypeOK, NEW o \in Ops, NEW m, DedupeDelete(o, m)
    PROVE  \E c \in Copies : Verb(o, c) /\ IdOf[c] = m
<1>1. Undeleted(o, m) \subseteq {c \in Copies : IdOf[c] = m}
  BY SurplusSubset DEF TypeOK, Undeleted, Losers
<1>2. Last(Undeleted(o, m)) \in Undeleted(o, m)
  BY <1>1, LastEnds DEF DedupeDelete
<1> QED BY <1>1, <1>2 DEF DedupeDelete

\* What folds to "ok" was reported as moved, copy by copy; what folds to "not-in-source" is
\* empty, or was not found, copy by copy.
LEMMA FoldClaims ==
    ASSUME NEW outs, NEW rose \in BOOLEAN
    PROVE  /\ FoldMove(outs, rose)[1] = "ok" => outs = {"moved"}
           /\ FoldMove(outs, rose)[1] = "not-in-source" => outs \subseteq {"not-in-source"}
           /\ FoldMove(outs, rose)[1] # "not-duplicated"
           /\ FoldTrash(outs, rose)[1] = "not-in-source" => outs \subseteq {"not-in-source"}
           /\ FoldTrash(outs, rose)[1] # "not-duplicated"
BY DEF FoldMove, FoldTrash

\* The answers a step of o leaves, for o itself.
AnsweredBy(o) ==
    /\ AnswersOK(o)
    /\ \A c \in Copies : mover[c] = o => FiledKnown(o, c)
    /\ userMoves = 0 => \A c \in Copies : ReportIsTrue(o, c)

\* A call that begins has filed nothing and answered nothing.
LEMMA QuietAnswers ==
    ASSUME TypeOK, NEW o \in Ops, AnsweredBy(o),
           UNCHANGED <<mailVars, actVars, late, userMoves>>, pc[o] = "idle",
           \/ pc'[o] = "backup" /\ call'[o].kind \in {"move", "trash"}
           \/ pc'[o] = "plan" /\ call'[o].kind = "dedupe"
           \/ pc'[o] = "previewed"
    PROVE  AnsweredBy(o)'
BY DEF TypeOK, AnsweredBy, AnswersOK, FiledKnown, ReportIsTrue, mailVars, actVars

LEMMA StartAnswers ==
    ASSUME TypeOK, NEW o \in Ops, AnsweredBy(o), Start(o)
    PROVE  AnsweredBy(o)'
<1>1. ASSUME NEW k \in {"move", "trash", "dedupe"}, NEW s, NEW d, NEW ms, Begin(o, k, s, d, ms)
      PROVE  AnsweredBy(o)'
  <2>1. /\ pc[o] = "idle" /\ UNCHANGED <<mailVars, actVars, late, userMoves>>
        /\ pc'[o] = IF k = "dedupe" THEN "plan" ELSE "backup"
        /\ call'[o].kind = k
    BY <1>1 DEF TypeOK, Begin, Goto
  <2> QED BY <1>1, <2>1, QuietAnswers
<1>2. CASE Preview(o)
  BY <1>2, QuietAnswers DEF TypeOK, Preview, Goto
<1> QED BY <1>1, <1>2 DEF Start, MoveMail, TrashMail, DedupeBatch, Undo

LEMMA LogAnswers ==
    ASSUME TypeOK, NEW o \in Ops, AnsweredBy(o),
           \/ Backup(o) \/ BackupFails(o) \/ WritePlan(o) \/ PlanRefused(o)
           \/ ReadCopies(o) \/ ScriptReturns(o) \/ DeletePassEnds(o) \/ WriteDone(o)
    PROVE  AnsweredBy(o)'
<1> USE DEF AnsweredBy
<1>1. CASE Backup(o) \/ BackupFails(o) \/ WritePlan(o) \/ PlanRefused(o)
  <2>1. /\ pc[o] \in {"backup", "plan"} /\ pc'[o] \in {"plan", "refused", "script", "copies"}
        /\ pc'[o] = "copies" => pc[o] = "plan" /\ call[o].kind # "dedupe"
        /\ UNCHANGED <<mailVars, call, actVars, late, userMoves>>
    BY <1>1 DEF TypeOK, Backup, BackupFails, WritePlan, PlanRefused, Goto
  <2>2. AnswersOK(o)'
    BY <2>1 DEF AnswersOK, actVars, TypeOK
  <2>3. ASSUME NEW c \in Copies PROVE mover'[c] # o /\ ReportIsTrue(o, c)'
    BY <2>1 DEF AnswersOK, FiledKnown, ReportIsTrue, mailVars, actVars
  <2> QED BY <2>2, <2>3
<1>2. CASE ReadCopies(o)
  <2>1. /\ pc[o] = "copies" /\ pc'[o] = "before"
        /\ UNCHANGED <<mailVars, call, outcome, result, late, userMoves>>
    BY <1>2 DEF TypeOK, ReadCopies, Goto
  <2> QED BY <2>1 DEF AnswersOK, FiledKnown, ReportIsTrue, mailVars
<1>3. CASE ScriptReturns(o) \/ DeletePassEnds(o)
  <2>1. /\ pc[o] = "script" /\ UNCHANGED <<mailVars, call, actVars, late, userMoves>>
        /\ \/ pc'[o] = "verify"
           \/ pc'[o] = "fold" /\ call[o].kind \notin {"dedupe", "trash"}
    BY <1>3 DEF TypeOK, ScriptReturns, DeletePassEnds, Goto
  <2>2. call[o].kind # "none"
    BY <2>1, <1>3 DEF AnswersOK
  <2>3. AnswersOK(o)'
    BY <2>1, <2>2 DEF AnswersOK, actVars, TypeOK
  <2> QED BY <2>1, <2>3 DEF FiledKnown, ReportIsTrue, mailVars, actVars
<1>4. CASE WriteDone(o)
  <2>1. /\ pc[o] \in {"record", "expired"} /\ pc'[o] \in {"answered", "timedout"}
        /\ pc'[o] = "answered" <=> pc[o] = "record"
        /\ UNCHANGED <<mailVars, call, late, userMoves>>
        /\ \A m \in Msgs : result'[o][m] = "none"
    BY <1>4 DEF TypeOK, WriteDone, ForgetAnswers, Goto
  <2> QED BY <2>1, IdOfAssumption DEF AnswersOK, FiledKnown, ReportIsTrue, mailVars
<1> QED BY <1>1, <1>2, <1>3, <1>4

LEMMA ReadBeforeAnswers ==
    ASSUME TypeOK, NEW o \in Ops, AnsweredBy(o), ReadBefore(o)
    PROVE  AnsweredBy(o)'
<1>1. /\ pc[o] = "before" /\ pc'[o] \in {"script", "record"}
      /\ pc'[o] = "script" => result' = result
      /\ UNCHANGED <<mailVars, call, outcome, late, userMoves>>
  BY DEF TypeOK, ReadBefore, Goto
<1> QED BY <1>1 DEF AnsweredBy, AnswersOK, FiledKnown, ReportIsTrue, mailVars

LEMMA ScriptAnswers ==
    ASSUME TypeOK, NEW o \in Ops, AnsweredBy(o), NEW c \in Copies,
           \/ NotInSource(o, c) \/ VerbRaises(o, c) \/ MoveCopy(o, c)
           \/ ProbeMove(o, c) \/ DeleteCopy(o, c)
    PROVE  AnsweredBy(o)'
<1>1. /\ pc[o] = "script" /\ UNCHANGED <<call, pc, found, result, late, userMoves>>
      /\ \A d \in Copies : d # c => outcome'[o][d] = outcome[o][d]
  BY DEF TypeOK, NotInSource, VerbRaises, MoveCopy, ProbeMove, DeleteCopy, Turn, Answer
<1>2. AnswersOK(o)'
  BY <1>1 DEF AnsweredBy, AnswersOK
<1>3. CASE NotInSource(o, c) \/ VerbRaises(o, c) \/ ProbeMove(o, c)
  <2>1. /\ UNCHANGED mailVars /\ outcome'[o][c] \notin {"none", "sent"}
        /\ call[o].kind # "dedupe" => outcome[o][c] \in {"none", "sent"}
    BY <1>3 DEF TypeOK, NotInSource, VerbRaises, ProbeMove, Turn, Todo, Answer
  <2>2. outcome'[o][c] = "not-in-source" => outcome[o][c] = "none" /\ call[o].kind # "dedupe"
    BY <1>3 DEF TypeOK, NotInSource, VerbRaises, ProbeMove, Turn, Todo, Answer
  <2>3. outcome'[o][c] = "moved" => at[c] # call[o].src
    BY <1>3 DEF TypeOK, NotInSource, VerbRaises, ProbeMove, Turn, Todo, Answer, Listed
  <2>4. ASSUME NEW d \in Copies, mover'[d] = o PROVE FiledKnown(o, d)'
    BY <1>1, <2>1, <2>2, <2>4 DEF AnsweredBy, FiledKnown, mailVars
  <2>5. ASSUME userMoves = 0, NEW d \in Copies PROVE ReportIsTrue(o, d)'
    BY <1>1, <2>1, <2>3, <2>5 DEF AnsweredBy, ReportIsTrue, mailVars
  <2> QED BY <1>1, <1>2, <2>4, <2>5 DEF AnsweredBy
<1>4. CASE MoveCopy(o, c) \/ DeleteCopy(o, c)
  <2>1. /\ Verb(o, c) /\ call[o].kind # "dedupe" /\ c \in found[o]
        /\ outcome'[o][c] \in {"sent", "deleted"}
    BY <1>4 DEF TypeOK, MoveCopy, DeleteCopy, Turn, Todo, Answer
  <2>2. ASSUME NEW d \in Copies, mover'[d] = o PROVE FiledKnown(o, d)'
    BY <1>1, <2>1, <2>2, VerbFiles, IdOfAssumption DEF AnsweredBy, AnswersOK, FiledKnown
  <2>3. ASSUME userMoves = 0, NEW d \in Copies PROVE ReportIsTrue(o, d)'
    BY <1>1, <2>1, <2>3, VerbFiles DEF AnsweredBy, ReportIsTrue
  <2> QED BY <1>1, <1>2, <2>2, <2>3 DEF AnsweredBy
<1> QED BY <1>3, <1>4

LEMMA FoldAnswers ==
    ASSUME TypeOK, NEW o \in Ops, AnsweredBy(o), VerifyTrash(o) \/ Fold(o)
    PROVE  AnsweredBy(o)'
<1>1. CASE VerifyTrash(o)
  <2>1. /\ pc[o] = "verify" /\ pc'[o] = "fold" /\ call[o].kind = "trash"
        /\ UNCHANGED <<mailVars, call, found, result, late, userMoves>>
    BY <1>1 DEF TypeOK, VerifyTrash, Goto
  <2>2. \A c \in Copies :
           outcome'[o][c] \in {outcome[o][c], "unknown"} \cup
                              (IF outcome[o][c] = "deleted" THEN {"gone"} ELSE {})
    BY <1>1 DEF TypeOK, VerifyTrash
  <2> QED BY <2>1, <2>2 DEF AnsweredBy, AnswersOK, FiledKnown, ReportIsTrue, mailVars
<1>2. CASE Fold(o)
  <2>1. /\ pc[o] = "fold" /\ pc'[o] = "record"
        /\ UNCHANGED <<mailVars, call, late, userMoves>>
        /\ \A m \in Msgs : result'[o][m] = Folded(o, m)[1]
    BY <1>2 DEF TypeOK, Fold, Goto
  <2>2. ASSUME NEW c \in Copies, mover[c] = o
        PROVE  Folded(o, IdOf[c])[1] \notin {"not-in-source", "not-duplicated"}
    <3> DEFINE outs == {outcome[o][d] : d \in {e \in found[o] : IdOf[e] = IdOf[c]}}
               rose == Counts(call[o].dst)[IdOf[c]] > before[o][IdOf[c]]
    <3>1. outcome[o][c] \in outs /\ outcome[o][c] # "not-in-source"
      BY <2>1, <2>2 DEF AnsweredBy, AnswersOK, FiledKnown
    <3>2. Folded(o, IdOf[c]) \in {FoldTrash(outs, rose), FoldMove(outs, rose)}
      BY DEF Folded
    <3>3. rose \in BOOLEAN
      OBVIOUS
    <3> HIDE DEF outs, rose
    <3> QED BY <3>1, <3>2, <3>3, FoldClaims
  <2> QED BY <2>1, <2>2, IdOfAssumption
          DEF AnsweredBy, AnswersOK, FiledKnown, ReportIsTrue, mailVars
<1> QED BY <1>1, <1>2

LEMMA DedupeAnswers ==
    ASSUME TypeOK, NEW o \in Ops, AnsweredBy(o), NEW m \in Msgs,
           Capture(o, m) \/ DedupeDelete(o, m) \/ DedupeRaises(o, m) \/ VerifyDedupe(o, m)
    PROVE  AnsweredBy(o)'
<1>1. /\ pc[o] \in {"script", "verify"} /\ call[o].kind = "dedupe"
      /\ UNCHANGED <<call, pc, late, userMoves>>
  BY DEF Capture, DedupeDelete, DedupeRaises, VerifyDedupe, AnsweredBy, AnswersOK
<1>2. AnswersOK(o)'
  BY <1>1 DEF AnsweredBy, AnswersOK
<1>3. \A c \in Copies : ReportIsTrue(o, c)'
  BY <1>1 DEF ReportIsTrue
<1>4. CASE DedupeDelete(o, m)
  <2>1. PICK c \in Copies : Verb(o, c) /\ IdOf[c] = m
    BY <1>4, DeletesOne
  <2>2. result[o][m] = "deleting" /\ result' = result
    BY <1>4 DEF DedupeDelete
  <2>3. ASSUME NEW d \in Copies, mover'[d] = o PROVE FiledKnown(o, d)'
    BY <1>1, <2>1, <2>2, <2>3, VerbFiles DEF AnsweredBy, FiledKnown
  <2> QED BY <1>1, <1>2, <1>3, <2>3 DEF AnsweredBy
<1>5. CASE Capture(o, m) \/ DedupeRaises(o, m) \/ VerifyDedupe(o, m)
  <2>1. /\ mover' = mover /\ \A n \in Msgs : n # m => result'[o][n] = result[o][n]
        /\ \/ result'[o][m] \in {"deleting", "ERROR", "ok"}
           \/ result[o][m] = "none" /\ result'[o][m] = "not-duplicated"
    BY <1>5 DEF TypeOK, Capture, DedupeRaises, VerifyDedupe, mailVars
  <2>2. ASSUME NEW d \in Copies, mover'[d] = o PROVE FiledKnown(o, d)'
    BY <1>1, <2>1, <2>2, IdOfAssumption DEF AnsweredBy, FiledKnown
  <2> QED BY <1>1, <1>2, <1>3, <2>2 DEF AnsweredBy
<1> QED BY <1>4, <1>5

LEMMA EndAnswers ==
    ASSUME TypeOK, NEW o \in Ops, AnsweredBy(o), DedupeReturns(o) \/ Failure(o)
    PROVE  AnsweredBy(o)'
<1> USE DEF AnsweredBy, AnswersOK, FiledKnown, ReportIsTrue
<1>1. CASE DedupeReturns(o)
  BY <1>1 DEF TypeOK, DedupeReturns, ForgetAct, Goto, mailVars
<1>2. CASE Timeout(o)
  <2>1. /\ pc[o] \in Acting /\ pc'[o] = "expired" /\ UNCHANGED <<mailVars, call, userMoves>>
        /\ \A m \in Msgs : result'[o][m] = "unknown"
    BY <1>2 DEF TypeOK, Timeout, Goto
  <2>2. AnswersOK(o)'
    BY <2>1 DEF Acting
  <2> QED BY <2>1, <2>2, IdOfAssumption DEF mailVars
<1>3. CASE ActRaises(o)
  BY <1>3 DEF TypeOK, ActRaises, ForgetAct, Goto, mailVars
<1>4. CASE Crash(o)
  <2>1. /\ pc[o] \in Running /\ pc'[o] = "crashed" /\ UNCHANGED <<mailVars, call, userMoves>>
        /\ \A m \in Msgs : result'[o][m] = "none"
    BY <1>4 DEF TypeOK, Crash, ForgetAnswers, Goto
  <2>2. ~(pc[o] \in {"backup", "plan", "copies", "before"} /\ \E c \in Copies : mover[c] = o)
    OBVIOUS
  <2> QED BY <2>1, <2>2, IdOfAssumption DEF mailVars, Running, Acting
<1>5. ASSUME NEW c \in Copies, LateEvent(o, c) PROVE AnsweredBy(o)'
  <2>1. /\ Verb(o, c) /\ late[o] # {} /\ late'[o] \subseteq late[o]
        /\ UNCHANGED <<call, pc, found, outcome, result, userMoves>>
    BY <1>5 DEF TypeOK, LateEvent, actVars
  <2>2. AnswersOK(o)'
    BY <2>1
  <2>3. ASSUME NEW d \in Copies, mover'[d] = o PROVE FiledKnown(o, d)'
    BY <2>1, <2>3, VerbFiles, IdOfAssumption
  <2> QED BY <2>1, <2>2, <2>3
<1> HIDE DEF AnsweredBy
<1> QED BY <1>1, <1>2, <1>3, <1>4, <1>5 DEF Failure

\* A step of a call files for that call, and nothing becomes nobody's.
LEMMA AnswerEvent ==
    ASSUME TypeOK, NEW o \in Ops, Step(o)
    PROVE  /\ userMoves' = userMoves
           /\ \A d \in Copies : mover'[d] = Nobody => mover[d] = Nobody /\ at'[d] = at[d]
<1>1. ASSUME NEW c \in Copies, Verb(o, c), NEW d \in Copies, mover'[d] = Nobody
      PROVE  mover[d] = Nobody /\ at'[d] = at[d]
  BY <1>1, VerbFiles
<1>2. CASE Start(o)
  BY <1>2 DEF Start, MoveMail, TrashMail, DedupeBatch, Undo, Begin, Preview, mailVars
<1>3. CASE Backup(o) \/ BackupFails(o) \/ WritePlan(o) \/ PlanRefused(o) \/ WriteDone(o)
  BY <1>3 DEF Backup, BackupFails, WritePlan, PlanRefused, WriteDone, mailVars
<1>4. CASE ReadCopies(o) \/ ReadBefore(o) \/ Fold(o) \/ ScriptReturns(o) \/ VerifyTrash(o)
  BY <1>4 DEF ReadCopies, ReadBefore, Fold, ScriptReturns, VerifyTrash, mailVars
<1>5. CASE DeletePassEnds(o) \/ DedupeReturns(o) \/ Timeout(o) \/ ActRaises(o) \/ Crash(o)
  BY <1>5 DEF DeletePassEnds, DedupeReturns, Timeout, ActRaises, Crash, mailVars
<1>6. ASSUME NEW c \in Copies, NotInSource(o, c) \/ VerbRaises(o, c) \/ ProbeMove(o, c)
      PROVE  UNCHANGED <<mailVars, userMoves>>
  BY <1>6 DEF NotInSource, VerbRaises, ProbeMove
<1>7. ASSUME NEW c \in Copies, MoveCopy(o, c) \/ DeleteCopy(o, c) \/ LateEvent(o, c)
      PROVE  Verb(o, c) /\ userMoves' = userMoves
  BY <1>7 DEF MoveCopy, DeleteCopy, LateEvent
<1>8. ASSUME NEW m \in Msgs, Capture(o, m) \/ DedupeRaises(o, m) \/ VerifyDedupe(o, m)
      PROVE  UNCHANGED <<mailVars, userMoves>>
  BY <1>8 DEF Capture, DedupeRaises, VerifyDedupe
<1>9. ASSUME NEW m \in Msgs, DedupeDelete(o, m)
      PROVE  userMoves' = userMoves /\ \E c \in Copies : Verb(o, c)
  BY <1>9, DeletesOne DEF DedupeDelete
<1> QED BY <1>1, <1>2, <1>3, <1>4, <1>5, <1>6, <1>7, <1>8, <1>9
        DEF Step, CallStep, ActStep, Failure, mailVars

LEMMA AnswersInductive == AnswerInv /\ [Next]_vars => AnswerInv'
<1> SUFFICES ASSUME AnswerInv, [Next]_vars PROVE AnswerInv'
  OBVIOUS
<1>1. TypeOK /\ \A o \in Ops : AnsweredBy(o)
  BY DEF AnswerInv, AnsweredBy
<1>2. TypeOK'
  <2>1. CASE UNCHANGED vars
    BY <1>1, <2>1 DEF TypeOK, vars, mailVars, logVars, actVars
  <2> QED BY <1>1, <2>1, EnvironmentType, StartType, CallStepType, FailureType DEF Next
<1>3. ASSUME NEW p \in Ops, SameCall(p), NothingNewFiled(p),
             /\ userMoves' \in Nat /\ userMoves' >= userMoves
             /\ userMoves' = 0 =>
                   \A d \in Copies : mover'[d] = Nobody => mover[d] = Nobody /\ at'[d] = at[d]
      PROVE  AnsweredBy(p)'
  BY <1>1, <1>3
     DEF TypeOK, AnsweredBy, AnswersOK, FiledKnown, ReportIsTrue, SameCall, NothingNewFiled
<1>4. CASE UNCHANGED vars
  <2>1. ASSUME NEW p \in Ops PROVE AnsweredBy(p)'
    BY <1>1, <1>3, <1>4, SameMail DEF TypeOK, vars, mailVars, logVars, actVars, SameCall
  <2> QED BY <1>2, <2>1 DEF AnswerInv, AnsweredBy
<1>5. CASE Environment
  <2>1. /\ userMoves' \in Nat /\ userMoves' >= userMoves
        /\ userMoves' = 0 =>
              \A d \in Copies : mover'[d] = Nobody => mover[d] = Nobody /\ at'[d] = at[d]
    BY <1>1, <1>5 DEF TypeOK, Environment, SourceClears, UserMoves
  <2>2. ASSUME NEW p \in Ops PROVE AnsweredBy(p)'
    BY <1>1, <1>3, <1>5, <2>1, EnvironmentFrame
  <2> QED BY <1>2, <2>2 DEF AnswerInv, AnsweredBy
<1>6. ASSUME NEW o \in Ops, Step(o) PROVE AnswerInv'
  <2>1. AnsweredBy(o)'
    BY <1>1, <1>6, StartAnswers, LogAnswers, ReadBeforeAnswers, ScriptAnswers, FoldAnswers,
       DedupeAnswers, EndAnswers DEF Step, CallStep, ActStep
  <2>2. userMoves' = userMoves /\
        \A d \in Copies : mover'[d] = Nobody => mover[d] = Nobody /\ at'[d] = at[d]
    BY <1>1, <1>6, AnswerEvent
  <2>3. ASSUME NEW p \in Ops, p # o PROVE AnsweredBy(p)'
    BY <1>1, <1>3, <1>6, <2>2, <2>3, StepFrame DEF TypeOK
  <2> QED BY <1>2, <2>1, <2>3 DEF AnswerInv, AnsweredBy
<1> QED BY <1>4, <1>5, <1>6 DEF Next, Step

LEMMA AnswersInit == Init => AnswerInv
<1> SUFFICES ASSUME Init PROVE AnswerInv
  OBVIOUS
<1>1. ASSUME NEW o \in Ops PROVE AnswersOK(o)
  BY DEF Init, AnswersOK, NoCall
<1>2. ASSUME NEW o \in Ops, NEW c \in Copies PROVE mover[c] # o /\ ReportIsTrue(o, c)
  BY NobodyAssumption DEF Init, ReportIsTrue
<1> QED BY <1>1, <1>2, InitType DEF AnswerInv

\* Only the fold turns what a move reported into "ok".
LEMMA OnlyFoldSaysOk ==
    ASSUME AnswerInv, NEW o \in Ops, [Next]_vars, pc[o] = "fold", call[o].kind = "move",
           NEW m \in Msgs, result'[o][m] = "ok"
    PROVE  Fold(o)
<1>1. TypeOK /\ result[o][m] = "none"
  BY DEF AnswerInv, AnswersOK
<1>2. ~UNCHANGED vars /\ ~Environment
  BY <1>1, EnvironmentFrame DEF SameCall, vars, actVars
<1>3. PICK p \in Ops : Step(p)
  BY <1>2 DEF Next, Step
<1>4. p = o
  BY <1>1, <1>3, StepFrame DEF SameCall
<1>5. ~Start(o)
  BY DEF Start, MoveMail, TrashMail, DedupeBatch, Undo, Begin, Preview
<1>6. CASE ActStep(o)
  BY <1>6 DEF ActStep, ReadCopies, ReadBefore, ScriptReturns, VerifyTrash,
        DeletePassEnds, DedupeReturns, NotInSource, VerbRaises, MoveCopy, ProbeMove, Turn,
        DeleteCopy, Capture, DedupeDelete, DedupeRaises, VerifyDedupe
<1>7. ~(Backup(o) \/ BackupFails(o) \/ WritePlan(o) \/ PlanRefused(o) \/ WriteDone(o))
  BY DEF Backup, BackupFails, WritePlan, PlanRefused, WriteDone
<1>8. ~Failure(o)
  BY <1>1 DEF TypeOK, Failure, Timeout, ActRaises, Crash, LateEvent, ForgetAnswers, actVars
<1> QED BY <1>3, <1>4, <1>5, <1>6, <1>7, <1>8 DEF Step, CallStep

\* For any calls of any kind at once, however they are cut off: a move does not say "ok" of
\* a message of which a copy it had read still sits in the source as it was, and no call
\* says "not-in-source" or "not-duplicated" of a message of which it moved a copy.
THEOREM AnswersAreHonest == Spec => AnswersClaimNoMore
<1> DEFINE Claims ==
             \A o \in Ops, c \in Copies :
                /\ /\ pc[o] = "fold" /\ call[o].kind = "move" /\ c \in found[o]
                   /\ userMoves = 0
                   /\ result'[o][IdOf[c]] = "ok"
                   => ~(at[c] = call[o].src /\ mover[c] = Nobody)
                /\ mover'[c] = o =>
                      result'[o][IdOf[c]] \notin {"not-in-source", "not-duplicated"}
<1>1. AnswerInv /\ AnswerInv' /\ [Next]_vars => [Claims]_vars
  <2> SUFFICES ASSUME AnswerInv, AnswerInv', [Next]_vars, NEW o \in Ops, NEW c \in Copies
               PROVE  /\ /\ pc[o] = "fold" /\ call[o].kind = "move" /\ c \in found[o]
                         /\ userMoves = 0
                         /\ result'[o][IdOf[c]] = "ok"
                         => ~(at[c] = call[o].src /\ mover[c] = Nobody)
                      /\ mover'[c] = o =>
                            result'[o][IdOf[c]] \notin {"not-in-source", "not-duplicated"}
    OBVIOUS
  <2>1. mover'[c] = o => result'[o][IdOf[c]] \notin {"not-in-source", "not-duplicated"}
    BY DEF AnswerInv, FiledKnown
  <2>2. ASSUME pc[o] = "fold", call[o].kind = "move", c \in found[o], userMoves = 0,
               result'[o][IdOf[c]] = "ok"
        PROVE  ~(at[c] = call[o].src /\ mover[c] = Nobody)
    <3> DEFINE outs == {outcome[o][d] : d \in {e \in found[o] : IdOf[e] = IdOf[c]}}
               rose == Counts(call[o].dst)[IdOf[c]] > before[o][IdOf[c]]
    <3>1. IdOf[c] \in Msgs
      BY IdOfAssumption
    <3>2. Fold(o)
      BY <2>2, <3>1, OnlyFoldSaysOk
    <3>3. Folded(o, IdOf[c])[1] = "ok"
      BY <2>2, <3>1, <3>2 DEF Fold, AnswerInv, TypeOK
    <3>4. Folded(o, IdOf[c]) = FoldMove(outs, rose)
      BY <2>2 DEF Folded
    <3>5. outcome[o][c] \in outs /\ rose \in BOOLEAN
      BY <2>2
    <3>6. outs = {"moved"}
      <4> HIDE DEF outs, rose
      <4> QED BY <3>3, <3>4, <3>5, FoldClaims
    <3> QED BY <2>2, <3>5, <3>6 DEF AnswerInv, ReportIsTrue
  <2> QED BY <2>1, <2>2
<1> QED BY <1>1, AnswersInit, AnswersInductive, PTL DEF Spec, AnswersClaimNoMore

=============================================================================
