------------------------- MODULE NativeReply_proofs -------------------------
(***************************************************************************)
(* What holds of NativeReply for every length of the waits, every bound    *)
(* and every number of rows: what the caller is told is true, the sweep    *)
(* deletes only the call's own copy, and what is kept holds the text.      *)
(***************************************************************************)
EXTENDS NativeReply, SequenceTheorems, TLAPS

-----------------------------------------------------------------------------
(* The fields of the three records, after each update a step makes.        *)

LEMMA LocalsFields ==
    ASSUME NEW i \in Locals
    PROVE  /\ i.snap \in Contents /\ i.before \in Pasted /\ i.copied \in 0..MaxCopies
           /\ i.unmoved \in BOOLEAN /\ i.wrote \in BOOLEAN /\ i.settled \in BOOLEAN
           /\ i.alike \in BOOLEAN
BY DEF Locals

SameLocals(j, i) ==
    /\ j.snap = i.snap /\ j.copied = i.copied /\ j.wrote = i.wrote /\ j.settled = i.settled

LEMMA LocalsUnmoved ==
    ASSUME NEW i \in Locals, NEW b \in BOOLEAN, NEW j, j = [i EXCEPT !.unmoved = b]
    PROVE  j \in Locals /\ SameLocals(j, i) /\ j.before = i.before /\ j.unmoved = b
BY DEF Locals, SameLocals

LEMMA LocalsSnap ==
    ASSUME NEW i \in Locals, NEW c \in Contents, NEW j, j = [i EXCEPT !.snap = c]
    PROVE  /\ j \in Locals /\ j.snap = c /\ j.copied = i.copied /\ j.wrote = i.wrote
           /\ j.settled = i.settled /\ j.before = i.before /\ j.unmoved = i.unmoved
BY DEF Locals

LEMMA LocalsUnsettled ==
    ASSUME NEW i \in Locals, NEW j, j = [i EXCEPT !.before = <<>>, !.alike = FALSE]
    PROVE  j \in Locals /\ SameLocals(j, i) /\ j.unmoved = i.unmoved
<1>1. <<>> \in Pasted
  BY DEF Pasted
<1> QED BY <1>1 DEF Locals, SameLocals

LEMMA LocalsMine ==
    ASSUME NEW i \in Locals, NEW j, j = [i EXCEPT !.wrote = TRUE, !.unmoved = TRUE]
    PROVE  /\ j \in Locals /\ j.wrote /\ j.unmoved /\ j.snap = i.snap /\ j.copied = i.copied
           /\ j.settled = i.settled /\ j.before = i.before
BY DEF Locals

LEMMA LocalsSettled ==
    ASSUME NEW i \in Locals, NEW j, j = [i EXCEPT !.settled = TRUE]
    PROVE  /\ j \in Locals /\ j.settled /\ j.snap = i.snap /\ j.copied = i.copied
           /\ j.wrote = i.wrote /\ j.unmoved = i.unmoved
BY DEF Locals

LEMMA LocalsCopied ==
    ASSUME NEW i \in Locals, i.copied < MaxCopies, NEW j,
           j = [i EXCEPT !.copied = @ + 1, !.unmoved = FALSE]
    PROVE  /\ j \in Locals /\ j.copied > 0 /\ ~j.unmoved /\ j.snap = i.snap
           /\ j.wrote = i.wrote /\ j.settled = i.settled /\ j.before = i.before
<1>1. i.copied \in Nat /\ i.copied + 1 \in 0..MaxCopies /\ i.copied + 1 > 0
  BY LocalsFields, CopiesAssumption
<1>2. PICK n \in 0..MaxCopies : n = i.copied + 1
  BY <1>1
<1>3. j = [i EXCEPT !.copied = n, !.unmoved = FALSE]
  BY <1>2
<1>4. /\ j \in Locals /\ j.copied = n /\ ~j.unmoved /\ j.snap = i.snap
      /\ j.wrote = i.wrote /\ j.settled = i.settled /\ j.before = i.before
  BY <1>3 DEF Locals
<1> QED BY <1>1, <1>2, <1>4

LEMMA NoLocals ==
    /\ NotInserting \in Locals
    /\ ~NotInserting.wrote /\ ~NotInserting.settled /\ NotInserting.copied = 0
BY CopiesAssumption DEF NotInserting, Locals, Contents, Pasted

LEMMA FlowFields ==
    ASSUME NEW f \in Flow
    PROVE  /\ f.index_top \in Nat \cup {None} /\ f.landed_by \in Nat \cup {None}
           /\ f.started_at \in Nat /\ f.opened_at \in Nat \cup {None}
           /\ f.discarded_at \in Nat \cup {None} /\ f.id_known \in BOOLEAN
           /\ f.discarded \in Answers /\ f.sent \in BOOLEAN /\ f.next \in {"newer", "sweep"}
BY DEF Flow

LEMMA SaidFields ==
    ASSUME NEW as \in Refusals \cup {"running", "not_started", "ok", "sent", "send_unsure"},
           NEW copy \in Verdicts \cup {"unswept"}, NEW s, s = [as |-> as, copy |-> copy]
    PROVE  s \in Said /\ s.as = as /\ s.copy = copy
BY DEF Said

LEMMA RowGone ==
    ASSUME NEW rs \in Seq(Row), NEW k \in 1..Len(rs), NEW r, r = [rs EXCEPT ![k].gone = TRUE]
    PROVE  /\ r \in Seq(Row) /\ Len(r) = Len(rs) /\ r[k].gone
           /\ \A i \in 1..Len(rs) : /\ r[i].by = rs[i].by /\ r[i].box = rs[i].box
                                    /\ r[i].ours = rs[i].ours
                                    /\ i # k => r[i] = rs[i]
<1>1. rs[k] \in Row
  OBVIOUS
<1>2. /\ [rs[k] EXCEPT !.gone = TRUE] \in Row
      /\ [rs[k] EXCEPT !.gone = TRUE].by = rs[k].by
      /\ [rs[k] EXCEPT !.gone = TRUE].box = rs[k].box
      /\ [rs[k] EXCEPT !.gone = TRUE].ours = rs[k].ours
      /\ [rs[k] EXCEPT !.gone = TRUE].gone
  BY <1>1 DEF Row
<1>3. r = [rs EXCEPT ![k] = [rs[k] EXCEPT !.gone = TRUE]]
  OBVIOUS
<1> HIDE DEF Row
<1> QED BY <1>2, <1>3

LEMMA RowAppended ==
    ASSUME NEW rs \in Seq(Row), NEW row \in Row, NEW r, r = Append(rs, row)
    PROVE  /\ r \in Seq(Row) /\ Len(r) = Len(rs) + 1 /\ r[Len(rs) + 1] = row
           /\ \A i \in 1..Len(rs) : r[i] = rs[i]
OBVIOUS

-----------------------------------------------------------------------------
(* Types.                                                                  *)

LEMMA InsertType ==
    ASSUME TypeOK, Insert PROVE TypeOK'
<1> USE DEF SystemUnchanged, InsertSteps
<1>1. /\ insert \in Locals /\ keys \in Seq({"A", "V"}) /\ PasteTypeOK /\ body.top \in Pasted
      /\ clipboard \in Contents
  BY DEF TypeOK, PasteTypeOK, Body
<1>2. UNCHANGED flowVars
  BY DEF Insert
<1>3. Unsettled \in Locals
  BY <1>1, LocalsUnsettled DEF Unsettled
<1>4. /\ insert' \in Locals /\ keys' \in Seq({"A", "V"}) /\ UNCHANGED <<replace_all, window, body>>
      /\ clipboard' \in Contents /\ pc' \in InsertSteps \cup {"refusing", "confirmed"}
  <2>1. CASE InsertRefused \/ Confirm \/ ConfirmCutShort
    BY <1>1, <2>1, NoLocals DEF InsertRefused, Confirm, ConfirmCutShort
  <2>2. CASE ReadCount
    BY <1>1, <2>2, LocalsUnmoved DEF ReadCount
  <2>3. CASE SaveClipboard
    BY <1>1, <2>3, LocalsSnap DEF SaveClipboard
  <2>4. CASE HoldWindow
    BY <1>1, <2>4 DEF HoldWindow
  <2>5. CASE ReadBodyBefore
    <3>1. PICK a \in BOOLEAN : insert' = [insert EXCEPT !.before = body.top, !.alike = a]
      BY <2>5 DEF ReadBodyBefore
    <3>2. insert' \in Locals
      BY <1>1, <3>1 DEF Locals
    <3> QED BY <1>1, <2>5, <3>2 DEF ReadBodyBefore
  <2>6. CASE CheckCount
    BY <1>1, <2>6, NoLocals DEF CheckCount
  <2>7. CASE WriteText
    BY <1>1, <2>7, LocalsUnmoved DEF WriteText, Contents
  <2>8. CASE WriteFails
    BY <1>1, <1>3, <2>8, LocalsUnmoved DEF WriteFails, Contents
  <2>9. CASE ReadMine
    BY <1>1, <2>9, LocalsMine DEF ReadMine
  <2>10. CASE PressPaste
    BY <1>1, <2>10 DEF PressPaste
  <2>11. CASE PasteSettles
    BY <1>1, <2>11, LocalsSettled DEF PasteSettles
  <2>12. CASE PasteDoesNotSettle \/ CheckNewer
    BY <1>1, <1>3, <2>12 DEF PasteDoesNotSettle, CheckNewer
  <2>13. CASE Restore
    BY <1>1, <2>13, LocalsFields DEF Restore
  <2> QED BY <2>1, <2>2, <2>3, <2>4, <2>5, <2>6, <2>7, <2>8, <2>9, <2>10, <2>11, <2>12, <2>13
          DEF Insert, InsertStep
<1> QED BY <1>2, <1>4 DEF TypeOK, PasteTypeOK, flowVars

\* A window that changes: a window that goes leaves a time.
LEMMA WindowType ==
    ASSUME TypeOK
    PROVE  /\ \A w \in {"none", "coming", "open", "dead", "sent"} :
                 WindowBecomes(w) =>
                    /\ window' = w /\ UNCHANGED <<body, keys>>
                    /\ goneAt' = IF w \in {"dead", "sent"} /\ goneAt = None THEN now ELSE goneAt
           /\ WindowGoes =>
                 /\ window' = "dead" /\ goneAt' = IF goneAt = None THEN now ELSE goneAt
                 /\ body' \in Body /\ body'.top = <<>> /\ keys' = <<>>
<1>1. [top |-> <<>>, quote |-> FALSE, selected |-> FALSE] \in Body
  BY DEF Body, Pasted
<1>2. ASSUME WindowGoes PROVE body' \in Body /\ body'.top = <<>>
  BY <1>1, <1>2 DEF WindowGoes
<1> QED BY <1>2 DEF WindowBecomes, WindowGoes

LEMMA WindowTyped ==
    ASSUME TypeOK,
           \/ SameWindow \/ WindowGoes
           \/ \E w \in {"none", "coming", "open", "dead", "sent"} : WindowBecomes(w)
    PROVE  /\ window' \in {"none", "coming", "open", "dead", "sent"} /\ goneAt' \in Nat \cup {None}
           /\ body' \in Body /\ keys' \in Seq({"A", "V"})
<1>1. /\ window \in {"none", "coming", "open", "dead", "sent"} /\ goneAt \in Nat \cup {None}
      /\ body \in Body /\ keys \in Seq({"A", "V"}) /\ now \in Nat /\ <<>> \in Seq({"A", "V"})
  BY DEF TypeOK, PasteTypeOK
<1>2. CASE SameWindow
  BY <1>1, <1>2 DEF SameWindow
<1>3. CASE WindowGoes
  BY <1>1, <1>3, WindowType
<1>4. ASSUME NEW w \in {"none", "coming", "open", "dead", "sent"}, WindowBecomes(w)
      PROVE  /\ window' = w /\ goneAt' \in Nat \cup {None} /\ UNCHANGED <<body, keys>>
  BY <1>1, <1>4 DEF WindowBecomes
<1> QED BY <1>1, <1>2, <1>3, <1>4

\* What a step of the flow leaves to be typed, when it goes through no field of insert.
FlowTyped ==
    /\ pc \in InsertSteps \cup {"facts", "baseline", "top", "open", "refusing", "confirmed",
                               "top_after", "sweep", "delete", "word", "ended"}
    /\ window \in {"none", "coming", "open", "dead", "sent"}
    /\ body \in Body /\ keys \in Seq({"A", "V"})
    /\ goneAt \in Nat \cup {None}
    /\ flow \in Flow /\ said \in Said

LEMMA FlowTyping ==
    ASSUME TypeOK, FlowTyped', CallUnchanged, OthersUnchanged, claimed' = claimed
    PROVE  TypeOK'
BY DEF TypeOK, PasteTypeOK, FlowTyped, CallUnchanged, OthersUnchanged

\* What the steps before the window and the send do to the flow.
LEMMA TopFlow ==
    ASSUME TypeOK, ReadTop
    PROVE  /\ flow'.index_top \in {Len(rows), None} /\ flow'.landed_by = flow.landed_by
           /\ flow'.discarded_at = flow.discarded_at /\ flow'.id_known = flow.id_known
           /\ flow'.discarded = flow.discarded /\ flow'.sent = flow.sent /\ flow' \in Flow
<1>1. flow \in Flow /\ rows \in Seq(Row) /\ now \in Nat
  BY DEF TypeOK
<1>2. PICK top \in {Len(rows), None} :
         flow' = [flow EXCEPT !.index_top = top, !.started_at = now]
  BY DEF ReadTop
<1>3. top \in Nat \cup {None}
  BY <1>1
<1> QED BY <1>1, <1>2, <1>3 DEF Flow

LEMMA OpenFlow ==
    ASSUME TypeOK, OpenAnswers \/ OpenFails
    PROVE  /\ flow'.index_top = flow.index_top /\ flow'.landed_by = flow.landed_by
           /\ flow'.discarded_at = flow.discarded_at /\ flow' \in Flow
           /\ flow'.discarded = flow.discarded /\ flow'.sent = flow.sent
           /\ IF OpenAnswers /\ pc' = "insert" THEN flow'.id_known
              ELSE flow'.id_known = flow.id_known
<1>1. flow \in Flow /\ now \in Nat
  BY DEF TypeOK
<1>2. CASE OpenAnswers
  <2>1. flow' = [flow EXCEPT !.opened_at = now, !.id_known = TRUE] /\ pc' = "insert"
    BY <1>2 DEF OpenAnswers
  <2> QED BY <1>1, <1>2, <2>1 DEF Flow
<1>3. CASE OpenFails
  <2>1. flow' = [flow EXCEPT !.opened_at = now] /\ pc' = "refusing"
    BY <1>3 DEF OpenFails
  <2> QED BY <1>1, <1>3, <2>1 DEF Flow
<1> QED BY <1>2, <1>3

LEMMA SendFlow ==
    ASSUME TypeOK, SendAnswers
    PROVE  /\ flow'.index_top = flow.index_top /\ flow'.landed_by = flow.landed_by
           /\ flow'.discarded_at = now /\ flow'.id_known = flow.id_known
           /\ flow'.discarded = flow.discarded /\ flow'.sent /\ flow'.next = "sweep"
           /\ flow' \in Flow
<1>1. flow \in Flow /\ now \in Nat
  BY DEF TypeOK
<1>2. flow' = [flow EXCEPT !.discarded_at = now, !.sent = TRUE, !.next = "sweep"]
  BY DEF SendAnswers
<1> QED BY <1>1, <1>2 DEF Flow

LEMMA AfterFlow ==
    ASSUME TypeOK, ReadTopAfter
    PROVE  /\ flow'.index_top = flow.index_top /\ flow'.landed_by \in {Len(rows), None}
           /\ flow'.discarded_at = flow.discarded_at /\ flow'.id_known = flow.id_known
           /\ flow'.discarded = flow.discarded /\ flow'.sent = flow.sent
           /\ flow'.next = flow.next /\ flow' \in Flow /\ pc' \in {"newer", "sweep"}
           /\ pc' = flow.next
<1>1. flow \in Flow /\ rows \in Seq(Row)
  BY DEF TypeOK
<1>2. PICK top \in {Len(rows), None} : flow' = [flow EXCEPT !.landed_by = top]
  BY DEF ReadTopAfter
<1>3. top \in Nat \cup {None}
  BY <1>1
<1> QED BY <1>1, <1>2, <1>3 DEF Flow, ReadTopAfter

LEMMA BeginType == ASSUME TypeOK, Begin \/ Send PROVE TypeOK'
<1> USE DEF SameWindow
<1>1. FlowTyped /\ now \in Nat /\ rows \in Seq(Row)
  BY DEF TypeOK, PasteTypeOK, FlowTyped
<1>2. CASE NotStarted \/ QuoteFacts \/ ReadBaseline \/ Reviewed
  <2>1. CASE NotStarted
    BY <1>1, <2>1, SaidFields, FlowTyping DEF NotStarted, FlowTyped, Say, Refusals
  <2>2. CASE QuoteFacts
    BY <1>1, <2>2, SaidFields, FlowTyping DEF QuoteFacts, FlowTyped, Say, Refusals
  <2>3. CASE ReadBaseline
    BY <1>1, <2>3, SaidFields, FlowTyping DEF ReadBaseline, FlowTyped, Say, Refusals
  <2>4. CASE Reviewed
    BY <1>1, <2>4, SaidFields, FlowTyping DEF Reviewed, FlowTyped, Say, Refusals
  <2> QED BY <1>2, <2>1, <2>2, <2>3, <2>4
<1>3. CASE ReadTop
  <2>1. flow' \in Flow
    BY <1>3, TopFlow
  <2> QED BY <1>1, <1>3, <2>1, FlowTyping DEF ReadTop, FlowTyped
<1>4. CASE OpenAnswers \/ OpenFails
  <2>1. flow' \in Flow
    BY <1>4, OpenFlow
  <2>2. /\ window' \in {"none", "coming", "open", "dead", "sent"} /\ goneAt' \in Nat \cup {None}
        /\ body' \in Body /\ keys' \in Seq({"A", "V"})
    BY <1>4, WindowTyped DEF OpenAnswers, OpenFails
  <2> QED BY <1>1, <1>4, <2>1, <2>2, FlowTyping
          DEF OpenAnswers, OpenFails, FlowTyped, InsertSteps
<1>5. CASE SendAnswers
  <2>1. flow' \in Flow
    BY <1>5, SendFlow
  <2> QED BY <1>1, <1>5, <2>1, WindowType, FlowTyping DEF SendAnswers, FlowTyped
<1>6. CASE SendFails
  BY <1>1, <1>6, WindowType, SaidFields, FlowTyping
     DEF SendFails, FlowTyped, Say, Refusals, Verdicts
<1> QED BY <1>2, <1>3, <1>4, <1>5, <1>6 DEF Begin, Send

LEMMA DiscardedFlow ==
    ASSUME TypeOK, NEW answer \in Answers, Discarded(answer)
    PROVE  /\ flow' \in Flow /\ flow'.index_top = flow.index_top
           /\ flow'.landed_by = flow.landed_by /\ flow'.discarded_at = now
           /\ flow'.id_known = flow.id_known /\ flow'.discarded = answer
           /\ flow'.sent = flow.sent /\ flow'.next = AfterDiscard
<1>1. AfterDiscard \in {"newer", "sweep"} /\ flow \in Flow /\ now \in Nat
  BY DEF AfterDiscard, TypeOK
<1>2. flow' = [flow EXCEPT !.discarded = answer, !.discarded_at = now, !.next = AfterDiscard]
  BY DEF Discarded
<1> QED BY <1>1, <1>2 DEF Flow

LEMMA RivalFlow ==
    ASSUME TypeOK, DiscardRival
    PROVE  /\ flow' \in Flow /\ flow'.index_top = flow.index_top
           /\ flow'.landed_by = flow.landed_by /\ flow'.discarded_at = now
           /\ flow'.id_known = flow.id_known /\ flow'.discarded = "dead"
           /\ flow'.sent = flow.sent /\ flow'.next = AfterDiscard
<1>1. AfterDiscard \in {"newer", "sweep"} /\ flow \in Flow /\ now \in Nat /\ "dead" \in Answers
  BY DEF AfterDiscard, TypeOK, Answers
<1>2. flow' = [flow EXCEPT !.discarded = "dead", !.discarded_at = now, !.next = AfterDiscard]
  BY DEF DiscardRival
<1> QED BY <1>1, <1>2 DEF Flow

LEMMA DiscardType == ASSUME TypeOK, Discard PROVE TypeOK'
<1> USE DEF SameWindow
<1>1. FlowTyped /\ now \in Nat /\ rows \in Seq(Row)
  BY DEF TypeOK, PasteTypeOK, FlowTyped
<1>2. ASSUME NEW a \in Answers, Discarded(a), SameWindow \/ WindowGoes PROVE TypeOK'
  <2>1. flow' \in Flow
    BY <1>2, DiscardedFlow
  <2>2. /\ window' \in {"none", "coming", "open", "dead", "sent"} /\ goneAt' \in Nat \cup {None}
        /\ body' \in Body /\ keys' \in Seq({"A", "V"})
    BY <1>2, WindowTyped
  <2> QED BY <1>1, <1>2, <2>1, <2>2, FlowTyping DEF Discarded, FlowTyped
<1>3. CASE DiscardOutgoing \/ DiscardNewReply \/ DiscardUnknown
  BY <1>2, <1>3 DEF DiscardOutgoing, DiscardNewReply, DiscardUnknown, Answers
<1>4. CASE DiscardRival
  <2>1. flow' \in Flow
    BY <1>4, RivalFlow
  <2> QED BY <1>1, <1>4, <2>1 DEF DiscardRival, TypeOK, PasteTypeOK, CallUnchanged
<1>5. CASE DiscardAgain \/ ReadTopAfter
  <2>1. flow' \in Flow /\ flow.next \in InsertSteps \cup {"sweep"}
    BY <1>1, <1>5, FlowFields, AfterFlow DEF DiscardAgain, FlowTyped, InsertSteps
  <2> QED BY <1>1, <1>5, <2>1, FlowTyping DEF DiscardAgain, ReadTopAfter, FlowTyped
<1> QED BY <1>3, <1>4, <1>5 DEF Discard

LEMMA RefusalType == ASSUME NEW v PROVE Refusal(v) \in Refusals
BY DEF Refusal, Refusals

LEMMA SweepType == ASSUME TypeOK, Sweep, pc = "delete" => claimed \in 1..Len(rows) PROVE TypeOK'
<1> USE DEF SameWindow
<1>1. FlowTyped /\ now \in Nat /\ rows \in Seq(Row)
  BY DEF TypeOK, PasteTypeOK, FlowTyped
<1>2. ASSUME NEW v \in Verdicts,
             Say(IF flow.sent THEN "sent" ELSE Refusal(v), v)
      PROVE  said' \in Said /\ pc' = "ended"
  BY <1>2, RefusalType, SaidFields DEF Say
<1>3. ASSUME NEW v \in Verdicts, Swept(v) PROVE TypeOK'
  BY <1>1, <1>2, <1>3, FlowTyping DEF Swept, FlowTyped
<1>4. CASE SweepUnavailable \/ SweepUnreadable \/ SweepReads
  BY <1>3, <1>4 DEF SweepUnavailable, SweepUnreadable, SweepReads, Verdicts
<1>5. CASE SweepClaims
  <2>1. claimed' \in Nat
    <3>1. flow.index_top \in Nat
      BY <1>1, <1>5, FlowFields DEF SweepClaims, FlowTyped
    <3> QED BY <1>5, <3>1 DEF SweepClaims, FoundRows, NewRows
  <2> QED BY <1>1, <1>5, <2>1 DEF SweepClaims, TypeOK, PasteTypeOK, CallUnchanged, OthersUnchanged
<1>6. CASE SweepDeletes \/ SweepDeleteUnproven
  <2>1. rows' \in Seq(Row)
    BY <1>1, <1>6, RowGone DEF SweepDeletes, SweepDeleteUnproven
  <2>2. said' \in Said /\ pc' = "ended"
    BY <1>2, <1>6 DEF SweepDeletes, SweepDeleteUnproven, Verdicts
  <2> QED BY <1>1, <1>6, <2>1, <2>2
          DEF SweepDeletes, SweepDeleteUnproven, TypeOK, PasteTypeOK, CallUnchanged
<1> QED BY <1>4, <1>5, <1>6 DEF Sweep

\* What a copy that lands adds to the rows.
LEMMA LandsAdds ==
    ASSUME TypeOK, NEW steps, NEW row \in Row, Lands(steps, row)
    PROVE  /\ rows' \in Seq(Row) /\ Len(rows') = Len(rows) + 1 /\ rows'[Len(rows) + 1] = row
           /\ \A i \in 1..Len(rows) : rows'[i] = rows[i]
           /\ pc \in steps /\ (pc \in {"top_after", "sweep"} => flow.index_top # None)
BY RowAppended DEF TypeOK, Lands

RowOf(by, box, ours) == [by |-> by, box |-> box, ours |-> ours, gone |-> FALSE]

LEMMA RowFields ==
    ASSUME NEW by \in {"reply", "older", "hand", "sent"},
           NEW box \in {"drafts", "family", "sentbox", "folder"}, NEW ours \in BOOLEAN
    PROVE  /\ RowOf(by, box, ours) \in Row /\ RowOf(by, box, ours).by = by
           /\ RowOf(by, box, ours).box = box /\ RowOf(by, box, ours).ours = ours
           /\ ~RowOf(by, box, ours).gone
BY DEF RowOf, Row

\* Which row a copy that lands adds.
LEMMA LandsOne ==
    ASSUME TypeOK, CopyLands \/ SentCopyLands \/ OlderCopyLands \/ HandDraftLands
    PROVE  \E row \in Row :
              /\ rows' \in Seq(Row) /\ Len(rows') = Len(rows) + 1 /\ rows'[Len(rows) + 1] = row
              /\ \A i \in 1..Len(rows) : rows'[i] = rows[i]
              /\ ~row.gone
              /\ pc \in {"top_after", "sweep"} => flow.index_top # None
              /\ row.by = "reply" => /\ CopyLands /\ row.box \in {"drafts", "folder"}
                                     /\ pc \in {"top_after", "sweep", "ended"}
              /\ row.by = "older" => older \in {"same", "landing"}
              /\ row.by = "sent" => row.box \in {"sentbox", "folder"}
              /\ row.by = "hand" /\ row.ours /\ row.box = "drafts" =>
                    flow.landed_by # None \/ pc = "top"
              /\ row.by # "reply" => saved' = saved /\ pc \in {"top", "top_after", "sweep"}
<1>1. CASE CopyLands
  <2>1. PICK box \in {"drafts", "folder"}, ours \in BOOLEAN :
           Lands({"top_after", "sweep", "ended"}, RowOf("reply", box, ours))
    BY <1>1 DEF CopyLands, RowOf
  <2> DEFINE row == RowOf("reply", box, ours)
  <2>2. row \in Row /\ row.by = "reply" /\ row.box = box /\ ~row.gone
    BY RowFields
  <2>3. Lands({"top_after", "sweep", "ended"}, row)
    BY <2>1
  <2> HIDE DEF row
  <2> QED BY <1>1, <2>2, <2>3, LandsAdds
<1>2. CASE SentCopyLands
  <2>1. PICK box \in {"sentbox", "folder"} :
           Lands({"top_after", "sweep"}, RowOf("sent", box, TRUE)) /\ saved' = saved
    BY <1>2 DEF SentCopyLands, OtherLands, RowOf
  <2> DEFINE row == RowOf("sent", box, TRUE)
  <2>2. row \in Row /\ row.by = "sent" /\ row.box = box /\ ~row.gone
    BY DEF RowOf, Row
  <2>3. Lands({"top_after", "sweep"}, row) /\ saved' = saved
    BY <2>1
  <2> HIDE DEF row
  <2> QED BY <2>2, <2>3, LandsAdds
<1>3. CASE OlderCopyLands
  <2>1. Lands({"top_after", "sweep"}, RowOf("older", "drafts", TRUE)) /\ saved' = saved
        /\ older \in {"same", "landing"}
    BY <1>3 DEF OlderCopyLands, OtherLands, RowOf
  <2> DEFINE row == RowOf("older", "drafts", TRUE)
  <2>2. row \in Row /\ row.by = "older" /\ row.box = "drafts" /\ ~row.gone
    BY ZenonT(30), RowFields
  <2>3. Lands({"top_after", "sweep"}, row) /\ saved' = saved /\ older \in {"same", "landing"}
    BY <2>1
  <2> HIDE DEF row
  <2> QED BY <2>2, <2>3, LandsAdds
<1>4. CASE HandDraftLands
  <2>1. PICK box \in {"drafts", "family"}, ours \in BOOLEAN :
           /\ Lands({"top", "top_after", "sweep"}, RowOf("hand", box, ours)) /\ saved' = saved
           /\ ours /\ box = "drafts" => flow.landed_by # None \/ pc = "top"
    BY <1>4 DEF HandDraftLands, OtherLands, RowOf
  <2> DEFINE row == RowOf("hand", box, ours)
  <2>2. row \in Row /\ row.by = "hand" /\ row.box = box /\ row.ours = ours /\ ~row.gone
    BY RowFields
  <2>3. Lands({"top", "top_after", "sweep"}, row) /\ saved' = saved
    BY <2>1
  <2>4. row.ours /\ row.box = "drafts" => flow.landed_by # None \/ pc = "top"
    BY <2>1, <2>2
  <2> HIDE DEF row
  <2> QED BY <2>2, <2>3, <2>4, LandsAdds
<1> QED BY <1>1, <1>2, <1>3, <1>4

LEMMA OutsideType == ASSUME TypeOK, Environment \/ Tick PROVE TypeOK'
<1> USE DEF SameWindow
<1>1. ASSUME rows' \in Seq(Row), SameWindow, EnvironmentUnchanged, now' = now,
             saved' \in BOOLEAN, older' = older, rival' = rival
      PROVE  TypeOK'
  BY <1>1 DEF TypeOK, PasteTypeOK, EnvironmentUnchanged
<1>2. CASE MailHandlesKey /\ UNCHANGED flowVars
  <2>1. body \in Body /\ clipboard \in Contents /\ keys \in Seq({"A", "V"})
    BY DEF TypeOK, PasteTypeOK
  <2>2. body' \in Body
    <3>1. body.top \in Pasted
      BY <2>1 DEF Body
    <3>2. clipboard # "none" => <<clipboard>> \in Pasted /\ <<clipboard>> \o body.top \in Pasted
      BY <2>1, <3>1 DEF Contents, Pasted
    <3> QED BY <1>2, <2>1, <3>2 DEF MailHandlesKey, Body
  <2> QED BY <1>2, <2>1, <2>2 DEF MailHandlesKey, TypeOK, PasteTypeOK, flowVars
<1>3. CASE UserCopies /\ UNCHANGED flowVars
  BY <1>3, LocalsCopied DEF UserCopies, Contents, TypeOK, PasteTypeOK, flowVars
<1>4. CASE LateOpen
  BY <1>4, WindowType DEF LateOpen, TypeOK, PasteTypeOK, EnvironmentUnchanged
<1>5. CASE CopyLands \/ SentCopyLands \/ OlderCopyLands \/ HandDraftLands
  <2>1. rows' \in Seq(Row)
    BY <1>5, LandsOne
  <2> QED BY <1>1, <1>5, <2>1
          DEF CopyLands, SentCopyLands, OlderCopyLands, HandDraftLands, TypeOK
<1>6. CASE RivalOpens
  BY <1>6 DEF RivalOpens, TypeOK, PasteTypeOK, EnvironmentUnchanged
<1>7. CASE Tick
  BY <1>7 DEF Tick, TypeOK, PasteTypeOK, EnvironmentUnchanged
<1> QED BY <1>2, <1>3, <1>4, <1>5, <1>6, <1>7 DEF Environment

-----------------------------------------------------------------------------
(* The invariant, one part per concern.                                    *)

\* Where the call is, and what its fields say there.
FlowOK ==
    /\ pc \in {"facts", "baseline", "top"} => flow.index_top = None
    /\ pc \in InsertSteps \cup {"facts", "baseline", "top", "open", "confirmed"} =>
          ~flow.sent /\ said = Running
    /\ pc \in (InsertSteps \ {"newer", "restore", "confirm"})
              \cup {"facts", "baseline", "top", "open", "confirmed"} =>
          flow.discarded = "unasked" /\ flow.discarded_at = None /\ flow.landed_by = None
    /\ pc \in InsertSteps \cup {"confirmed"} => flow.id_known
    /\ pc \in {"facts", "baseline", "top", "open"} => ~flow.id_known
    /\ said.as \in Refusals => ~flow.sent
    /\ pc \in {"newer", "restore", "confirm"} /\ flow.discarded # "unasked" => ~insert.settled
    /\ flow.landed_by # None => flow.discarded # "unasked" \/ flow.sent
    /\ flow.sent => pc \in {"top_after", "sweep", "delete", "ended"} /\ flow.next = "sweep"
    /\ pc = "top_after" => flow.landed_by = None /\ flow.discarded_at # None
    /\ pc = "top_after" /\ flow.next = "newer" =>
          flow.id_known /\ ~insert.settled /\ flow.discarded # "unasked" /\ ~flow.sent
    /\ pc \in {"refusing", "sweep", "delete"} => said = Running
    /\ pc \in {"top_after"} => said = Running
    /\ pc = "refusing" => ~flow.sent
    /\ pc \in {"sweep", "delete"} => flow.discarded_at # None
    /\ said # Running => pc = "ended"
    /\ flow.discarded_at = None <=> flow.discarded = "unasked" /\ ~flow.sent

\* The keys that were posted, and what they have done to the body.
KeysOK ==
    /\ keys \in {<<>>, <<"A">>, <<"V">>, <<"A", "V">>}
    /\ body.top \in {<<>>, <<"users">>, <<"text">>, <<"newer">>}
    /\ pc \in {"facts", "baseline", "top", "open", "insert", "snapshot", "window"} =>
          keys = <<>> /\ body.top = <<>>
    /\ pc \in {"body", "check", "write", "mine", "press"} =>
          keys \in {<<>>, <<"A">>} /\ body.top = <<>>
    /\ pc \in {"check", "write", "mine", "press", "settling"} => insert.before = <<>>
    /\ body.top # <<>> => keys = <<>>
    /\ ~flow.id_known => keys = <<>> /\ body.top = <<>>
    /\ insert.settled => pc \in {"newer", "restore", "confirm"}
    /\ insert.settled => body.top = <<"text">>
    /\ pc = "confirmed" \/ flow.sent \/ said.as \in {"ok", "sent", "send_unsure"} =>
          body.top = <<"text">> /\ body.quote = ~replace_all
    /\ keys \in {<<"V">>, <<"A", "V">>} /\ window = "open" /\ flow.discarded \notin {"alive", "unknown"}
          => pc \in {"settling", "rollback"}
    /\ window = "open" /\ body.top = <<"users">> => flow.discarded \in {"alive", "unknown"}

\* What the clipboard holds as long as the call has not written to it.
Undisturbed == IF insert.copied = 0 THEN "users" ELSE "newer"

\* What was on the clipboard before the call is not there while the key may be handled.
BorrowOK ==
    /\ pc \in {"facts", "baseline", "top", "open"} => clipboard = "users" /\ insert = NotInserting
    /\ pc \in {"mine", "press", "settling", "rollback"} => clipboard # "users"

\* Whose the clipboard is, and what is known of it.
ClipboardOK ==
    /\ pc \in {"insert", "snapshot", "window", "body", "check", "write"} =>
          clipboard = Undisturbed /\ ~insert.wrote
    /\ pc \in {"window", "body", "check"} /\ insert.unmoved => insert.snap = clipboard
    /\ pc = "write" => insert.snap = clipboard
    /\ pc = "mine" => clipboard = "text" /\ insert.snap = Undisturbed /\ ~insert.wrote
    /\ pc \in {"press", "settling"} => insert.wrote
    /\ pc \in {"press", "settling", "rollback", "newer", "restore"}
          \/ (pc = "top_after" /\ flow.next = "newer") =>
          /\ insert.wrote => IF insert.unmoved THEN insert.snap = Undisturbed
                             ELSE clipboard = "newer" /\ insert.copied > 0
          /\ ~insert.wrote /\ insert.copied = 0 => insert.snap = "users"
    /\ pc = "restore" /\ insert.wrote => insert.unmoved
    /\ pc = "confirm" /\ (insert.wrote \/ insert.copied = 0) => clipboard = Undisturbed

\* When the window went, and what a discard that answered proves.
WindowOK ==
    /\ pc \in {"facts", "baseline", "top", "open"} => window = "none"
    /\ goneAt # None => goneAt <= now
    /\ flow.discarded_at # None => flow.discarded_at <= now
    /\ goneAt # None /\ flow.discarded_at # None => goneAt <= flow.discarded_at
    /\ window \in {"dead", "sent"} => goneAt # None
    /\ flow.discarded = "dead" => window \notin {"open", "coming"}
    /\ flow.sent => window = "sent"
    /\ window = "sent" => flow.sent \/ said.as = "send_unsure"
    /\ flow.id_known => window # "coming"

\* The rows: the call's own copy is one and lands after the index top was read, and so does
\* what may be claimed for it.
RowsOK ==
    /\ older # "landing"
    /\ flow.index_top # None => flow.index_top <= Len(rows)
    /\ flow.landed_by # None => flow.landed_by <= Len(rows)
    /\ \A i \in 1..Len(rows) :
          /\ rows[i].by = "reply" =>
                /\ saved /\ rows[i].box \in {"drafts", "folder"}
                /\ \A j \in 1..Len(rows) : rows[j].by = "reply" => j = i
                /\ pc # "ended" => flow.index_top # None /\ i > flow.index_top
          /\ rows[i].by # "older" \/ older = "same"
          /\ rows[i].by = "sent" => rows[i].box \in {"sentbox", "folder"}
          /\ rows[i].by = "hand" /\ rows[i].ours /\ rows[i].box = "drafts" =>
                /\ flow.index_top # None /\ flow.landed_by = None => i <= flow.index_top
                /\ flow.index_top # None /\ flow.landed_by # None =>
                      i <= flow.index_top \/ i > flow.landed_by
          /\ rows[i].gone => rows[i].by = "reply"
    /\ pc = "delete" => rows[claimed].by = "reply"

\* The claimed row is one of Mail's.
ClaimOK == pc = "delete" => claimed \in 1..Len(rows)

\* After a report without a leftover nothing can land any more.
EndOK ==
    \/ said.as = "nothing"
    \/ said.as = "sent" /\ said.copy \in {"none", "removed"}
    => /\ window \notin {"open", "coming"}
       /\ \A i \in 1..Len(rows) : rows[i].by = "reply" => rows[i].gone
       /\ saved \/ (window \in {"dead", "sent"} => now > goneAt + Lag)

\* What holds of every call; RowsOK, EndOK and ClipboardOK rest on an assumption each.
ReplyInv == TypeOK /\ ClaimOK /\ FlowOK /\ KeysOK /\ BorrowOK /\ WindowOK

\* No earlier reply's copy is still on the way; the user copies nothing in three short steps.
NoneLanding == "landing" \notin Older
ShortSteps == {"write", "mine", "restore"} \subseteq Instant

-----------------------------------------------------------------------------
(* FlowOK is kept.                                                         *)

\* Where the steps of the insert lead.
LEMMA InsertPc ==
    ASSUME Insert, insert \in Locals
    PROVE  /\ UNCHANGED flowVars /\ UNCHANGED <<replace_all, window, body>>
           /\ \/ /\ pc \in InsertSteps \ {"newer", "restore", "confirm"}
                 /\ pc' \in (InsertSteps \ {"insert", "newer", "restore", "confirm"}) \cup {"refusing"}
              \/ pc = "settling" /\ pc' = "newer" /\ Settled
              \/ /\ pc \in {"newer", "restore"} /\ pc' \in {"restore", "confirm"}
                 /\ insert' = insert
              \/ pc = "confirm" /\ pc' = "refusing" /\ insert' = NotInserting
              \/ /\ pc = "confirm" /\ pc' = "confirmed" /\ insert.settled /\ Confirmed
                 /\ insert' = NotInserting
<1> USE DEF SystemUnchanged, InsertSteps
<1>1. CASE InsertRefused \/ ReadCount \/ SaveClipboard \/ HoldWindow \/ ReadBodyBefore
  BY <1>1 DEF Insert, InsertRefused, ReadCount, SaveClipboard, HoldWindow, ReadBodyBefore
<1>2. CASE CheckCount \/ WriteText \/ WriteFails \/ ReadMine \/ PressPaste
  BY <1>2 DEF Insert, CheckCount, WriteText, WriteFails, ReadMine, PressPaste
<1>3. CASE PasteSettles \/ PasteDoesNotSettle
  BY <1>3 DEF Insert, PasteSettles, PasteDoesNotSettle
<1>4. CASE CheckNewer \/ Restore
  BY <1>4 DEF Insert, CheckNewer, Restore
<1>5. CASE Confirm \/ ConfirmCutShort
  BY <1>5 DEF Insert, Confirm, ConfirmCutShort
<1> QED BY <1>1, <1>2, <1>3, <1>4, <1>5 DEF Insert, InsertStep

\* What every step of the sweep leaves alone, and what it says.
LEMMA SweepKeeps ==
    ASSUME Sweep
    PROVE  /\ UNCHANGED <<window, goneAt, body, keys, replace_all, clipboard, insert, now,
                          saved, older, rival, flow>>
           /\ pc \in {"sweep", "delete"} /\ pc' \in {"delete", "ended"}
           /\ pc' = "delete" => SweepClaims
           /\ \/ SweepClaims /\ said' = said
              \/ flow.sent /\ said'.as = "sent" /\ said'.copy \in Verdicts
              \/ /\ ~flow.sent /\ said'.copy \in Verdicts
                 /\ said'.as = Refusal(said'.copy) /\ said'.as \in Refusals
<1> USE DEF SameWindow, CallUnchanged, OthersUnchanged, Say, Verdicts
<1>1. CASE SweepUnavailable \/ SweepUnreadable \/ SweepReads
  BY <1>1, RefusalType DEF SweepUnavailable, SweepUnreadable, SweepReads, Swept
<1>2. CASE SweepClaims
  BY <1>2 DEF SweepClaims
<1>3. CASE SweepDeletes \/ SweepDeleteUnproven
  BY <1>3, RefusalType DEF SweepDeletes, SweepDeleteUnproven
<1> QED BY <1>1, <1>2, <1>3 DEF Sweep

LEMMA FlowInsert == ASSUME TypeOK, FlowOK, Insert PROVE FlowOK'
<1>1. flow' = flow /\ said' = said
  BY DEF Insert, flowVars
<1>2. insert \in Locals /\ flow \in Flow
  BY DEF TypeOK, PasteTypeOK
<1> QED BY <1>1, <1>2, InsertPc, NoLocals DEF FlowOK, InsertSteps, Running

LEMMA FlowBegin == ASSUME TypeOK, FlowOK, BorrowOK, Begin \/ Send PROVE FlowOK'
<1> USE DEF FlowOK, InsertSteps, Running, CallUnchanged
<1>1. CASE NotStarted \/ QuoteFacts \/ ReadBaseline \/ Reviewed
  BY <1>1 DEF NotStarted, QuoteFacts, ReadBaseline, Reviewed, Say
<1>2. CASE ReadTop
  BY <1>2, TopFlow DEF ReadTop
<1>3. CASE OpenAnswers \/ OpenFails
  <2>1. ~insert.settled
    BY <1>3, NoLocals DEF OpenAnswers, OpenFails, BorrowOK
  <2> QED BY <1>3, <2>1, OpenFlow DEF OpenAnswers, OpenFails
<1>4. CASE SendAnswers
  BY <1>4, SendFlow, NoneAssumption DEF SendAnswers, TypeOK, Refusals
<1>5. CASE SendFails
  BY <1>5 DEF SendFails, Say
<1> QED BY <1>1, <1>2, <1>3, <1>4, <1>5 DEF Begin, Send

LEMMA FlowDiscard == ASSUME TypeOK, FlowOK, KeysOK, Discard PROVE FlowOK'
<1> USE DEF FlowOK, InsertSteps, Running, CallUnchanged
<1>1. flow \in Flow /\ now \in Nat /\ now # None
  BY NoneAssumption DEF TypeOK, PasteTypeOK
<1>2. ASSUME NEW a \in Answers \ {"unasked"}, pc' = "top_after", MayDiscard,
             UNCHANGED <<insert, said>>,
             /\ flow'.landed_by = flow.landed_by /\ flow'.discarded_at = now
             /\ flow'.id_known = flow.id_known /\ flow'.discarded = a
             /\ flow'.sent = flow.sent /\ flow'.next = AfterDiscard
      PROVE  FlowOK'
  BY <1>1, <1>2 DEF MayDiscard, AfterDiscard, KeysOK
<1>3. ASSUME NEW a \in Answers \ {"unasked"}, Discarded(a), MayDiscard PROVE FlowOK'
  BY <1>2, <1>3, DiscardedFlow DEF Discarded
<1>4. CASE DiscardOutgoing \/ DiscardNewReply \/ DiscardUnknown
  BY <1>3, <1>4 DEF DiscardOutgoing, DiscardNewReply, DiscardUnknown, Answers
<1>5. CASE DiscardRival
  BY <1>2, <1>5, RivalFlow DEF DiscardRival, Answers
<1>6. CASE DiscardAgain
  BY <1>6 DEF DiscardAgain
<1>7. CASE ReadTopAfter
  BY <1>1, <1>7, AfterFlow, FlowFields DEF ReadTopAfter
<1> QED BY <1>4, <1>5, <1>6, <1>7 DEF Discard

LEMMA FlowSweep == ASSUME TypeOK, FlowOK, Sweep PROVE FlowOK'
BY SweepKeeps DEF FlowOK, InsertSteps, Running, SweepClaims, Refusals

LEMMA FlowOutside == ASSUME TypeOK, FlowOK, KeysOK, Environment \/ Tick PROVE FlowOK'
<1>1. UNCHANGED <<pc, flow, said>>
  BY DEF Environment, Tick, MailHandlesKey, UserCopies, LateOpen, CopyLands, SentCopyLands,
         OlderCopyLands, HandDraftLands, RivalOpens, EnvironmentUnchanged, flowVars
<1>2. insert'.settled = insert.settled
  <2>1. CASE UserCopies
    BY <2>1, LocalsCopied DEF UserCopies, TypeOK, PasteTypeOK
  <2> QED BY <2>1 DEF Environment, Tick, MailHandlesKey, LateOpen, CopyLands, SentCopyLands,
         OlderCopyLands, HandDraftLands, RivalOpens, EnvironmentUnchanged
<1> QED BY <1>1, <1>2 DEF FlowOK

-----------------------------------------------------------------------------
(* KeysOK is kept.                                                         *)

LEMMA SelectThenPaste == Append(<<"A">>, "V") = <<"A", "V">>
<1> DEFINE a == Append(<<"A">>, "V")
           b == <<"A", "V">>
<1>1. <<"A">> \in Seq({"A", "V"}) /\ Len(<<"A">>) = 1
  OBVIOUS
<1>2. a \in Seq({"A", "V"}) /\ Len(a) = 2 /\ a[1] = "A" /\ a[2] = "V"
  BY <1>1
<1>3. b \in Seq({"A", "V"}) /\ Len(b) = 2 /\ b[1] = "A" /\ b[2] = "V"
  OBVIOUS
<1> HIDE DEF a, b
<1>4. \A i \in 1..Len(a) : a[i] = b[i]
  BY <1>2, <1>3
<1>5. a = b
  BY <1>2, <1>3, <1>4, SeqEqual
<1> QED BY <1>5 DEF a, b

LEMMA KeyFacts ==
    /\ Append(<<>>, "A") = <<"A">> /\ Append(<<>>, "V") = <<"V">>
    /\ Append(<<"A">>, "V") = <<"A", "V">>
    /\ Tail(<<"A">>) = <<>> /\ Tail(<<"V">>) = <<>> /\ Tail(<<"A", "V">>) = <<"V">>
    /\ Head(<<"A">>) = "A" /\ Head(<<"V">>) = "V" /\ Head(<<"A", "V">>) = "A"
    /\ <<"A">> # <<>> /\ <<"V">> # <<>> /\ <<"A", "V">> # <<>>
    /\ <<"A">> # <<"V">> /\ <<"A">> # <<"A", "V">> /\ <<"V">> # <<"A", "V">>
<1>1. /\ Append(<<>>, "A") = <<"A">> /\ Append(<<>>, "V") = <<"V">>
      /\ Append(<<"A">>, "V") = <<"A", "V">>
  BY SelectThenPaste
<1>2. Tail(<<"A">>) = <<>> /\ Tail(<<"V">>) = <<>>
  OBVIOUS
<1>3. Tail(<<"A", "V">>) = <<"V">>
  OBVIOUS
<1>4. Head(<<"A">>) = "A" /\ Head(<<"V">>) = "V" /\ Head(<<"A", "V">>) = "A"
  OBVIOUS
<1>5. /\ <<"A">> # <<>> /\ <<"V">> # <<>> /\ <<"A", "V">> # <<>>
      /\ <<"A">> # <<"V">> /\ <<"A">> # <<"A", "V">> /\ <<"V">> # <<"A", "V">>
  OBVIOUS
<1> QED BY <1>1, <1>2, <1>3, <1>4, <1>5

LEMMA TopFacts ==
    /\ \A c : <<c>> \o <<>> = <<c>> /\ Head(<<c>>) = c /\ <<c>> # <<>> /\ Len(<<c>>) = 1
    /\ <<"text">> # <<"users">> /\ <<"newer">> # <<"users">> /\ <<"text">> # <<"newer">>
OBVIOUS

\* What a step of the insert does to the keys and to what it holds of the body.
LEMMA InsertKeys ==
    ASSUME TypeOK, KeysOK, Insert
    PROVE  /\ \/ keys' = keys
              \/ pc = "window" /\ pc' = "body" /\ keys' = Append(keys, "A")
              \/ pc = "press" /\ pc' = "settling" /\ keys' = Append(keys, "V")
           /\ pc' \in {"insert", "snapshot", "window"} => pc \in {"insert", "snapshot"}
           /\ pc' \in {"body", "check", "write", "mine", "press"}
                 => pc \in {"window", "body", "check", "write", "mine"}
           /\ pc' \in {"write", "mine", "press", "settling"} =>
                 /\ pc \in {"check", "write", "mine", "press"}
                 /\ insert'.before = insert.before
           /\ pc' = "check" => insert'.before = body.top
           /\ insert'.settled =>
                 \/ pc = "settling" /\ pc' = "newer" /\ Settled
                 \/ insert.settled /\ pc' \in {"restore", "confirm"}
<1> USE DEF SystemUnchanged
<1>1. insert \in Locals /\ body.top \in Pasted
  BY DEF TypeOK, PasteTypeOK, Body
<1>2. CASE InsertRefused \/ Confirm \/ ConfirmCutShort
  BY <1>1, <1>2, NoLocals DEF InsertRefused, Confirm, ConfirmCutShort, KeysOK
<1>3. CASE ReadCount \/ WriteText
  BY <1>1, <1>3, LocalsUnmoved DEF ReadCount, WriteText, SameLocals, KeysOK
<1>4. CASE SaveClipboard
  BY <1>1, <1>4, LocalsSnap DEF SaveClipboard, KeysOK, TypeOK, PasteTypeOK
<1>5. CASE HoldWindow \/ PressPaste
  BY <1>1, <1>5 DEF HoldWindow, PressPaste, KeysOK
<1>6. CASE ReadBodyBefore
  <2>1. PICK a \in BOOLEAN : insert' = [insert EXCEPT !.before = body.top, !.alike = a]
    BY <1>6 DEF ReadBodyBefore
  <2>2. insert'.before = body.top /\ insert'.settled = insert.settled
    BY <1>1, <2>1 DEF Locals
  <2> QED BY <1>6, <2>2 DEF ReadBodyBefore, KeysOK
<1>7. CASE CheckCount
  BY <1>1, <1>7, NoLocals DEF CheckCount, KeysOK
<1>8. CASE WriteFails
  <2>1. Unsettled \in Locals /\ Unsettled.settled = insert.settled
    BY <1>1, LocalsUnsettled DEF Unsettled, SameLocals
  <2>2. insert'.settled = insert.settled
    BY <1>8, <2>1, LocalsUnmoved DEF WriteFails, SameLocals
  <2> QED BY <1>8, <2>2 DEF WriteFails, KeysOK
<1>9. CASE ReadMine
  BY <1>1, <1>9, LocalsMine DEF ReadMine, KeysOK
<1>10. CASE PasteSettles
  BY <1>10 DEF PasteSettles
<1>11. CASE PasteDoesNotSettle
  BY <1>1, <1>11, LocalsUnsettled DEF PasteDoesNotSettle, Unsettled, SameLocals, KeysOK
<1>12. CASE CheckNewer \/ Restore
  BY <1>12 DEF CheckNewer, Restore
<1> QED BY <1>2, <1>3, <1>4, <1>5, <1>6, <1>7, <1>8, <1>9, <1>10, <1>11, <1>12
        DEF Insert, InsertStep

LEMMA KeysInsert == ASSUME TypeOK, FlowOK, KeysOK, Insert PROVE KeysOK'
<1>1. /\ UNCHANGED <<flow, said, window, body, replace_all>> /\ insert \in Locals
      /\ body.quote \in BOOLEAN /\ replace_all \in BOOLEAN
  BY InsertPc DEF TypeOK, PasteTypeOK, Body, flowVars
<1>2. pc \in InsertSteps /\ flow.id_known /\ said = Running /\ ~flow.sent
  BY <1>1, InsertPc DEF FlowOK, InsertSteps
<1>3. ASSUME Settled, pc = "settling" PROVE body.top = <<"text">> /\ keys = <<>>
  <2>1. body.top # <<>> /\ Head(body.top) = "text"
    BY <1>3 DEF Settled, StartsWithText, KeysOK
  <2> QED BY <2>1, TopFacts DEF KeysOK
<1>4. ASSUME pc' = "confirmed" PROVE body.top = <<"text">> /\ body.quote = ~replace_all
  BY <1>1, <1>4, InsertPc, TopFacts DEF Confirmed, KeysOK, InsertSteps
<1>5. /\ keys' \in {<<>>, <<"A">>, <<"V">>, <<"A", "V">>}
      /\ pc' \in {"insert", "snapshot", "window"} => keys' = <<>>
      /\ pc' \in {"body", "check", "write", "mine", "press"} => keys' \in {<<>>, <<"A">>}
      /\ body.top # <<>> => keys' = <<>>
      /\ /\ keys' \in {<<"V">>, <<"A", "V">>} /\ window = "open"
         /\ flow.discarded \notin {"alive", "unknown"}
         => pc' \in {"settling", "rollback"}
  <2>1. CASE keys' = keys
    <3>1. /\ keys \in {<<"V">>, <<"A", "V">>} /\ window = "open"
          /\ flow.discarded \notin {"alive", "unknown"}
          => pc = "settling" /\ pc' \in {"settling", "rollback"}
      BY <1>1, <1>3, <2>1, InsertPc, KeyFacts DEF KeysOK, InsertSteps, Insert, InsertStep,
         InsertRefused, ReadCount, SaveClipboard, HoldWindow, ReadBodyBefore, CheckCount,
         WriteText, WriteFails, ReadMine, PressPaste, PasteSettles, PasteDoesNotSettle,
         CheckNewer, Restore, Confirm, ConfirmCutShort
    <3> QED BY <2>1, <3>1, InsertKeys DEF KeysOK
  <2>2. CASE keys' # keys
    <3>1. \/ pc = "window" /\ pc' = "body" /\ keys' = Append(keys, "A")
          \/ pc = "press" /\ pc' = "settling" /\ keys' = Append(keys, "V")
      BY <2>2, InsertKeys
    <3> QED BY <3>1, KeyFacts DEF KeysOK
  <2> QED BY <2>1, <2>2
<1>6. /\ pc' \in {"insert", "snapshot", "window", "body", "check", "write", "mine", "press"}
         => body.top = <<>>
      /\ pc' \in {"check", "write", "mine", "press", "settling"} => insert'.before = <<>>
  BY InsertKeys DEF KeysOK
<1>7. insert'.settled => pc' \in {"newer", "restore", "confirm"} /\ body.top = <<"text">>
  BY <1>3, InsertKeys DEF KeysOK
<1>8. pc' \notin {"facts", "baseline", "top", "open"}
  BY <1>1, InsertPc DEF InsertSteps
<1>9. body.top \in {<<>>, <<"users">>, <<"text">>, <<"newer">>}
  BY DEF KeysOK
<1>10. window = "open" /\ body.top = <<"users">> => flow.discarded \in {"alive", "unknown"}
  BY DEF KeysOK
<1>11. said.as \notin {"ok", "sent", "send_unsure"}
  BY <1>2 DEF Running
<1> QED BY <1>1, <1>2, <1>4, <1>5, <1>6, <1>7, <1>8, <1>9, <1>10, <1>11 DEF KeysOK

\* The body and the keys stay, or the window takes them along.
LEMMA WindowKeys ==
    ASSUME TypeOK, SameWindow \/ WindowGoes \/ \E w : WindowBecomes(w)
    PROVE  \/ UNCHANGED <<body, keys>>
           \/ window' = "dead" /\ body'.top = <<>> /\ keys' = <<>>
BY WindowType DEF SameWindow, WindowBecomes

LEMMA KeysBegin == ASSUME TypeOK, FlowOK, KeysOK, BorrowOK, Begin \/ Send PROVE KeysOK'
<1> USE DEF SameWindow, Running, CallUnchanged, FlowOK, KeysOK
<1>1. CASE NotStarted \/ QuoteFacts \/ ReadBaseline \/ Reviewed
  BY <1>1 DEF NotStarted, QuoteFacts, ReadBaseline, Reviewed, Say
<1>2. CASE ReadTop
  BY <1>2, TopFlow DEF ReadTop
<1>3. CASE OpenAnswers \/ OpenFails
  <2>1. keys = <<>> /\ body.top = <<>> /\ ~flow.sent /\ said = Running
    BY <1>3 DEF OpenAnswers, OpenFails
  <2>2. keys' = <<>> /\ body'.top = <<>>
    BY <1>3, <2>1, WindowKeys DEF OpenAnswers, OpenFails
  <2>3. insert' = insert /\ ~insert.settled /\ pc' \in {"insert", "refusing"} /\ said' = said
    BY <1>3 DEF OpenAnswers, OpenFails
  <2>4. <<>> # <<"users">> /\ <<>> # <<"V">> /\ <<>> # <<"A", "V">>
    BY KeyFacts, TopFacts
  <2> HIDE DEF KeysOK
  <2>5. flow'.sent = flow.sent
    BY <1>3, OpenFlow
  <2> QED BY <2>1, <2>2, <2>3, <2>4, <2>5 DEF KeysOK
<1>4. CASE SendAnswers
  BY <1>4, SendFlow, KeyFacts, TopFacts DEF SendAnswers, WindowBecomes
<1>5. CASE SendFails
  BY <1>5, KeyFacts, TopFacts DEF SendFails, Say, WindowBecomes
<1> QED BY <1>1, <1>2, <1>3, <1>4, <1>5 DEF Begin, Send

\* What a discard that answered leaves of the keys.
LEMMA KeysDiscarded ==
    ASSUME TypeOK, FlowOK, KeysOK, MayDiscard, pc' = "top_after",
           UNCHANGED <<replace_all, insert, said>>, flow'.sent = flow.sent,
           flow'.id_known = flow.id_known,
           \/ SameWindow /\ (flow'.discarded \in {"alive", "unknown"} \/ ~flow.id_known)
           \/ WindowGoes
    PROVE  KeysOK'
<1>1. said = Running /\ ~flow.sent /\ ~insert.settled
  BY DEF MayDiscard, FlowOK, KeysOK, InsertSteps
<1>2. CASE WindowGoes
  <2>1. window' = "dead" /\ body'.top = <<>> /\ keys' = <<>>
    BY <1>2, WindowType
  <2> QED BY <1>1, <2>1, KeyFacts, TopFacts DEF KeysOK, Running
<1>3. CASE SameWindow
  <2>1. UNCHANGED <<window, body, keys>>
    BY <1>3 DEF SameWindow
  <2>2. flow'.discarded \in {"alive", "unknown"} \/ (keys = <<>> /\ body.top = <<>>)
        \/ window = "dead"
    BY <2>1, WindowType DEF KeysOK
  <2> QED BY <1>1, <2>1, <2>2, KeyFacts, TopFacts DEF KeysOK, Running
<1> QED BY <1>2, <1>3

LEMMA KeysDiscard == ASSUME TypeOK, FlowOK, KeysOK, Discard PROVE KeysOK'
<1>1. ASSUME NEW a \in Answers, Discarded(a), MayDiscard,
             \/ SameWindow /\ (a \in {"alive", "unknown"} \/ ~flow.id_known)
             \/ WindowGoes
      PROVE  KeysOK'
  <2>1. /\ pc' = "top_after" /\ UNCHANGED <<replace_all, insert, said>>
        /\ flow'.sent = flow.sent /\ flow'.id_known = flow.id_known /\ flow'.discarded = a
    BY <1>1, DiscardedFlow DEF Discarded, CallUnchanged
  <2> QED BY <1>1, <2>1, KeysDiscarded
<1>2. CASE DiscardOutgoing \/ DiscardNewReply \/ DiscardUnknown
  BY <1>1, <1>2 DEF DiscardOutgoing, DiscardNewReply, DiscardUnknown, Answers
<1>3. CASE DiscardRival
  BY <1>3, RivalFlow, KeysDiscarded DEF DiscardRival, CallUnchanged
<1>4. CASE DiscardAgain
  BY <1>4 DEF DiscardAgain, KeysOK, FlowOK, SameWindow, CallUnchanged
<1>5. CASE ReadTopAfter
  BY <1>5, AfterFlow DEF ReadTopAfter, KeysOK, FlowOK, SameWindow, CallUnchanged
<1> QED BY <1>2, <1>3, <1>4, <1>5 DEF Discard

LEMMA KeysSweep == ASSUME TypeOK, FlowOK, KeysOK, Sweep PROVE KeysOK'
BY SweepKeeps DEF KeysOK, Refusals

LEMMA KeysHandled ==
    ASSUME TypeOK, FlowOK, KeysOK, BorrowOK, MailHandlesKey, UNCHANGED flowVars PROVE KeysOK'
<1>1. /\ UNCHANGED <<pc, replace_all, window, clipboard, insert, flow, said>>
      /\ clipboard \in Contents /\ body \in Body /\ insert \in Locals
  BY DEF MailHandlesKey, flowVars, TypeOK, PasteTypeOK
<1>2. /\ keys \in {<<"A">>, <<"V">>, <<"A", "V">>} /\ keys # <<>> /\ body.top = <<>>
      /\ keys' = Tail(keys)
  BY KeyFacts DEF MailHandlesKey, KeysOK
<1>3. flow.id_known /\ ~insert.settled /\ <<"text">> # <<>>
  BY <1>2, TopFacts DEF KeysOK
<1>4. ~(pc = "confirmed" \/ flow.sent \/ said.as \in {"ok", "sent", "send_unsure"})
  BY <1>2, TopFacts DEF KeysOK
<1>5. pc \notin {"facts", "baseline", "top", "open", "insert", "snapshot", "window"}
  BY <1>2 DEF KeysOK
<1>6. CASE Head(keys) = "A"
  <2>1. keys \in {<<"A">>, <<"A", "V">>}
    BY <1>2, <1>6, KeyFacts
  <2>2. body'.top = <<>>
    BY <1>1, <1>2, <1>6 DEF MailHandlesKey, Body
  <2>3. keys' \in {<<>>, <<"V">>} /\ (keys' = <<"V">> => keys = <<"A", "V">>)
    BY <1>2, <2>1, KeyFacts
  <2>4. pc \in {"body", "check", "write", "mine", "press"} => keys' = <<>>
    BY <2>3, KeyFacts DEF KeysOK
  <2> QED BY <1>1, <1>2, <1>3, <1>4, <1>5, <2>2, <2>3, <2>4, KeyFacts, TopFacts DEF KeysOK
<1>7. CASE Head(keys) # "A"
  <2>1. keys = <<"V">> /\ keys' = <<>>
    BY <1>2, <1>7, KeyFacts
  <2>2. pc \notin {"body", "check", "write", "mine", "press"}
    BY <2>1, KeyFacts DEF KeysOK
  <2>3. body'.top = <<>> \/ (body'.top = <<clipboard>> /\ clipboard # "none" /\ window = "open")
    BY <1>1, <1>2, <1>7, TopFacts DEF MailHandlesKey, Body
  <2>4. body'.top = <<"users">> => flow.discarded \in {"alive", "unknown"}
    <3>1. CASE pc \in {"settling", "rollback"}
      <4>1. clipboard # "users"
        BY <3>1 DEF BorrowOK
      <4> QED BY <2>3, <4>1, TopFacts
    <3>2. CASE pc \notin {"settling", "rollback"}
      BY <2>1, <2>3, <3>2, TopFacts DEF KeysOK
    <3> QED BY <3>1, <3>2
  <2>5. body'.top \in {<<>>, <<"users">>, <<"text">>, <<"newer">>}
    BY <1>1, <2>3 DEF Contents
  <2> QED BY <1>1, <1>2, <1>3, <1>4, <1>5, <2>1, <2>2, <2>4, <2>5, KeyFacts DEF KeysOK
<1> QED BY <1>6, <1>7

LEMMA KeysOutside ==
    ASSUME TypeOK, FlowOK, KeysOK, BorrowOK, WindowOK, Environment \/ Tick PROVE KeysOK'
<1>1. CASE MailHandlesKey /\ UNCHANGED flowVars
  BY <1>1, KeysHandled
<1>2. CASE UserCopies /\ UNCHANGED flowVars
  <2>1. insert'.settled = insert.settled /\ insert'.before = insert.before
    BY <1>2, LocalsCopied DEF UserCopies, TypeOK, PasteTypeOK
  <2> QED BY <1>2, <2>1 DEF UserCopies, KeysOK, flowVars
<1>3. CASE LateOpen
  BY <1>3, KeyFacts, TopFacts DEF LateOpen, WindowBecomes, KeysOK, WindowOK, EnvironmentUnchanged
<1>4. CASE CopyLands \/ SentCopyLands \/ OlderCopyLands \/ HandDraftLands \/ RivalOpens \/ Tick
  BY <1>4 DEF CopyLands, SentCopyLands, OlderCopyLands, HandDraftLands, RivalOpens, Tick,
              SameWindow, EnvironmentUnchanged, KeysOK
<1> QED BY <1>1, <1>2, <1>3, <1>4 DEF Environment

-----------------------------------------------------------------------------
(* BorrowOK and ClipboardOK are kept.                                      *)

LEMMA BorrowInsert == ASSUME BorrowOK, Insert PROVE BorrowOK'
<1> USE DEF SystemUnchanged, BorrowOK
<1>1. CASE InsertRefused \/ ReadCount \/ SaveClipboard \/ HoldWindow \/ ReadBodyBefore
  BY <1>1 DEF InsertRefused, ReadCount, SaveClipboard, HoldWindow, ReadBodyBefore
<1>2. CASE CheckCount \/ WriteText \/ WriteFails \/ ReadMine \/ PressPaste
  BY <1>2 DEF CheckCount, WriteText, WriteFails, ReadMine, PressPaste
<1>3. CASE PasteSettles \/ PasteDoesNotSettle \/ CheckNewer \/ Restore
  BY <1>3 DEF PasteSettles, PasteDoesNotSettle, CheckNewer, Restore
<1>4. CASE Confirm \/ ConfirmCutShort
  BY <1>4 DEF Confirm, ConfirmCutShort
<1> QED BY <1>1, <1>2, <1>3, <1>4 DEF Insert, InsertStep

LEMMA BorrowElse ==
    ASSUME TypeOK, BorrowOK, Begin \/ Send \/ Discard \/ Sweep \/ Environment \/ Tick
    PROVE  BorrowOK'
<1> USE DEF BorrowOK, CallUnchanged
<1>1. CASE Begin \/ Send
  BY <1>1 DEF Begin, Send, NotStarted, QuoteFacts, ReadBaseline, ReadTop, OpenAnswers, OpenFails,
              Reviewed, SendAnswers, SendFails, Say
<1>2. CASE Discard
  <2>1. pc' \in {"top_after", "sweep", "newer"}
    BY <1>2, AfterFlow DEF Discard, DiscardOutgoing, DiscardNewReply, DiscardRival,
       DiscardUnknown, DiscardAgain, Discarded
  <2> QED BY <2>1
<1>3. CASE Sweep
  BY <1>3, SweepKeeps
<1>4. CASE Environment \/ Tick
  BY <1>4 DEF Environment, Tick, MailHandlesKey, UserCopies, LateOpen, CopyLands, SentCopyLands,
              OlderCopyLands, HandDraftLands, RivalOpens, EnvironmentUnchanged, InsertSteps
<1> QED BY <1>1, <1>2, <1>3, <1>4

LEMMA ClipboardInsert == ASSUME TypeOK, FlowOK, ClipboardOK, Insert PROVE ClipboardOK'
<1> USE DEF SystemUnchanged, ClipboardOK
<1>1. insert \in Locals /\ body.top \in Pasted /\ clipboard \in Contents
  BY DEF TypeOK, PasteTypeOK, Body
<1>2. CASE InsertRefused \/ Confirm \/ ConfirmCutShort
  BY <1>2 DEF InsertRefused, Confirm, ConfirmCutShort
<1>3. CASE ReadCount \/ WriteText
  <2>1. SameLocals(insert', insert)
    BY <1>1, <1>3, LocalsUnmoved DEF ReadCount, WriteText
  <2> QED BY <1>3, <2>1 DEF ReadCount, WriteText, SameLocals, Undisturbed
<1>4. CASE SaveClipboard
  BY <1>1, <1>4, LocalsSnap DEF SaveClipboard, Undisturbed
<1>5. CASE HoldWindow
  BY <1>5 DEF HoldWindow, Undisturbed
<1>6. CASE ReadBodyBefore
  <2>1. PICK a \in BOOLEAN : insert' = [insert EXCEPT !.before = body.top, !.alike = a]
    BY <1>6 DEF ReadBodyBefore
  <2>2. /\ insert'.unmoved = insert.unmoved /\ insert'.snap = insert.snap
        /\ insert'.copied = insert.copied /\ insert'.wrote = insert.wrote
    BY <1>1, <2>1 DEF Locals
  <2> QED BY <1>6, <2>2 DEF ReadBodyBefore, Undisturbed
<1>7. CASE CheckCount
  BY <1>7 DEF CheckCount, Undisturbed
<1>8. CASE WriteFails
  <2>1. Unsettled \in Locals /\ SameLocals(Unsettled, insert)
    BY <1>1, LocalsUnsettled DEF Unsettled
  <2>2. SameLocals(insert', insert)
    BY <1>8, <2>1, LocalsUnmoved DEF WriteFails, SameLocals
  <2> QED BY <1>8, <2>2 DEF WriteFails, SameLocals, Undisturbed
<1>9. CASE ReadMine
  BY ZenonT(30), <1>1, <1>9, LocalsMine DEF ReadMine, Undisturbed
<1>10. CASE PressPaste
  BY <1>10 DEF PressPaste, Undisturbed
<1>11. CASE PasteSettles
  BY <1>1, <1>11, LocalsSettled DEF PasteSettles, Undisturbed
<1>12. CASE PasteDoesNotSettle
  BY <1>1, <1>12, LocalsUnsettled DEF PasteDoesNotSettle, Unsettled, SameLocals, Undisturbed
<1>13. CASE CheckNewer
  <2>1. insert.copied \in Nat
    BY <1>1, LocalsFields, CopiesAssumption
  <2> QED BY <1>13, <2>1 DEF CheckNewer, Undisturbed
<1>14. CASE Restore
  BY <1>14 DEF Restore, Undisturbed
<1> QED BY <1>2, <1>3, <1>4, <1>5, <1>6, <1>7, <1>8, <1>9, <1>10, <1>11, <1>12, <1>13, <1>14
        DEF Insert, InsertStep

LEMMA ClipboardElse ==
    ASSUME TypeOK, FlowOK, BorrowOK, ClipboardOK, ShortSteps,
           Begin \/ Send \/ Discard \/ Sweep \/ Environment \/ Tick
    PROVE  ClipboardOK'
<1> USE DEF ClipboardOK, CallUnchanged
<1>1. CASE Begin \/ Send
  BY <1>1, NoLocals, SendFlow
     DEF Begin, Send, NotStarted, QuoteFacts, ReadBaseline, ReadTop, OpenAnswers, OpenFails,
         Reviewed, SendAnswers, SendFails, Say, BorrowOK, Undisturbed
<1>2. CASE Discard
  <2>1. ASSUME NEW a \in Answers, Discarded(a), MayDiscard PROVE ClipboardOK'
    <3>1. /\ UNCHANGED <<insert, clipboard>> /\ pc' = "top_after"
          /\ flow'.next = "newer" => pc = "rollback"
      <4>1. flow'.next = AfterDiscard
        BY <2>1, DiscardedFlow
      <4> QED BY <2>1, <4>1 DEF Discarded, AfterDiscard
    <3> QED BY <3>1 DEF Undisturbed
  <2>2. CASE DiscardOutgoing \/ DiscardNewReply \/ DiscardUnknown
    BY <2>1, <2>2 DEF DiscardOutgoing, DiscardNewReply, DiscardUnknown, Answers
  <2>3. CASE DiscardRival
    BY <2>3, RivalFlow DEF DiscardRival, MayDiscard, AfterDiscard, Undisturbed
  <2>4. CASE DiscardAgain
    BY <2>4 DEF DiscardAgain, Undisturbed
  <2>5. CASE ReadTopAfter
    BY <2>5, AfterFlow DEF ReadTopAfter, Undisturbed
  <2> QED BY <1>2, <2>2, <2>3, <2>4, <2>5 DEF Discard
<1>3. CASE Sweep
  BY <1>3, SweepKeeps
<1>4. CASE UserCopies /\ UNCHANGED flowVars
  <2>1. insert \in Locals /\ insert.copied < MaxCopies
        /\ insert' = [insert EXCEPT !.copied = @ + 1, !.unmoved = FALSE]
    BY <1>4 DEF UserCopies, TypeOK, PasteTypeOK
  <2>2. /\ insert' \in Locals /\ insert'.copied > 0 /\ ~insert'.unmoved
        /\ insert'.snap = insert.snap /\ insert'.wrote = insert.wrote
    BY <2>1, LocalsCopied
  <2>3. insert'.copied # 0
    BY <2>2, LocalsFields, CopiesAssumption
  <2> QED BY <1>4, <2>2, <2>3 DEF UserCopies, ShortSteps, Undisturbed, flowVars, InsertSteps
<1>5. CASE \/ MailHandlesKey /\ UNCHANGED flowVars
           \/ LateOpen \/ CopyLands \/ SentCopyLands \/ OlderCopyLands \/ HandDraftLands
           \/ RivalOpens \/ Tick
  <2>1. UNCHANGED <<pc, clipboard, insert, flow>>
    BY <1>5 DEF Tick, MailHandlesKey, LateOpen, CopyLands, SentCopyLands,
                OlderCopyLands, HandDraftLands, RivalOpens, EnvironmentUnchanged, flowVars
  <2> QED BY <2>1 DEF Undisturbed
<1> QED BY <1>1, <1>2, <1>3, <1>4, <1>5 DEF Environment

-----------------------------------------------------------------------------
(* WindowOK and ClaimOK are kept.                                          *)

LEMMA Times ==
    ASSUME TypeOK
    PROVE  /\ now \in Nat /\ now # None /\ goneAt \in Nat \cup {None}
           /\ flow.discarded_at \in Nat \cup {None}
BY NoneAssumption, FlowFields DEF TypeOK

LEMMA WindowBegin == ASSUME TypeOK, FlowOK, WindowOK, Begin \/ Send PROVE WindowOK'
<1> USE DEF WindowOK, SameWindow, OthersUnchanged, Running
<1>1. CASE NotStarted \/ QuoteFacts \/ ReadBaseline \/ Reviewed
  BY <1>1 DEF NotStarted, QuoteFacts, ReadBaseline, Reviewed, Say, FlowOK
<1>2. CASE ReadTop
  BY <1>2, TopFlow DEF ReadTop
<1>3. CASE OpenAnswers \/ OpenFails
  <2>1. /\ pc = "open" /\ window = "none" /\ ~flow.sent /\ flow.discarded = "unasked"
        /\ flow.discarded_at = None /\ said = Running /\ ~flow.id_known
    BY <1>3 DEF OpenAnswers, OpenFails, FlowOK
  <2>2. /\ window' \in {"none", "coming", "open", "dead"}
        /\ goneAt' \in {goneAt, now} /\ (window' = "dead" => goneAt' # None)
        /\ window' = "coming" => ~OpenAnswers
    BY <1>3, Times DEF OpenAnswers, OpenFails, WindowBecomes, WindowGoes
  <2>3. pc' \in {"insert", "refusing"} /\ now' = now /\ said' = said
    BY <1>3 DEF OpenAnswers, OpenFails
  <2>4. /\ flow'.discarded_at = None /\ flow'.discarded = "unasked" /\ ~flow'.sent
        /\ flow'.id_known => OpenAnswers
    BY <1>3, <2>1, OpenFlow DEF OpenAnswers, OpenFails
  <2> QED BY <2>1, <2>2, <2>3, <2>4, Times
<1>4. CASE SendAnswers
  BY <1>4, SendFlow, Times DEF SendAnswers, WindowBecomes, FlowOK
<1>5. CASE SendFails
  <2>1. pc = "confirmed" /\ said = Running /\ flow.discarded = "unasked" /\ ~flow.sent
        /\ flow' = flow /\ now' = now /\ said'.as = "send_unsure" /\ pc' = "ended"
        /\ flow.discarded_at = None
    BY <1>5 DEF SendFails, FlowOK, Say
  <2>2. \/ window' = window /\ goneAt' = goneAt
        \/ window' = "sent" /\ goneAt' \in {goneAt, now} /\ goneAt' # None
    BY <1>5, Times DEF SendFails, WindowBecomes
  <2> QED BY <2>1, <2>2, Times
<1> QED BY <1>1, <1>2, <1>3, <1>4, <1>5 DEF Begin, Send

LEMMA WindowDiscard == ASSUME TypeOK, FlowOK, WindowOK, Discard PROVE WindowOK'
<1> USE DEF WindowOK, OthersUnchanged, Running
<1>1. ASSUME MayDiscard, pc' = "top_after", UNCHANGED <<now, said>>,
             flow'.discarded_at = now, flow'.id_known = flow.id_known, flow'.sent = flow.sent,
             \/ SameWindow /\ (flow'.discarded = "dead" => window \notin {"open", "coming"})
             \/ WindowGoes
      PROVE  WindowOK'
  <2>1. ~flow.sent /\ said = Running
    BY <1>1 DEF MayDiscard, FlowOK, InsertSteps
  <2>2. CASE SameWindow
    <3>1. UNCHANGED <<window, goneAt>>
      BY <2>2 DEF SameWindow
    <3>2. flow'.discarded = "dead" => window \notin {"open", "coming"}
      BY <1>1, <3>1, WindowType
    <3> QED BY <1>1, <2>1, <3>1, <3>2, Times
  <2>3. CASE WindowGoes
    BY <1>1, <2>1, <2>3, Times DEF WindowGoes
  <2> QED BY <1>1, <2>2, <2>3
<1>2. ASSUME NEW a \in Answers, Discarded(a), MayDiscard,
             (SameWindow /\ a # "dead") \/ WindowGoes
      PROVE  WindowOK'
  BY <1>1, <1>2, DiscardedFlow DEF Discarded
<1>3. CASE DiscardOutgoing \/ DiscardNewReply \/ DiscardUnknown
  BY <1>2, <1>3 DEF DiscardOutgoing, DiscardNewReply, DiscardUnknown, Answers
<1>4. CASE DiscardRival
  BY <1>1, <1>4, RivalFlow DEF DiscardRival, Candidates
<1>5. CASE DiscardAgain
  BY <1>5 DEF DiscardAgain, SameWindow
<1>6. CASE ReadTopAfter
  BY <1>6, AfterFlow DEF ReadTopAfter, SameWindow
<1> QED BY <1>3, <1>4, <1>5, <1>6 DEF Discard

LEMMA WindowElse ==
    ASSUME TypeOK, FlowOK, WindowOK, Insert \/ Sweep \/ Environment \/ Tick PROVE WindowOK'
<1> USE DEF WindowOK
<1>1. CASE Insert
  BY <1>1, InsertPc DEF InsertSteps, flowVars, TypeOK, PasteTypeOK
<1>2. CASE Sweep
  BY <1>2, SweepKeeps DEF FlowOK, Running
<1>3. CASE LateOpen
  BY <1>3 DEF LateOpen, WindowBecomes, EnvironmentUnchanged
<1>4. CASE Tick
  BY <1>4, Times DEF Tick, SameWindow, EnvironmentUnchanged
<1>5. CASE Environment /\ ~LateOpen
  BY <1>5 DEF Environment, MailHandlesKey, UserCopies, CopyLands, SentCopyLands,
              OlderCopyLands, HandDraftLands, RivalOpens, SameWindow, EnvironmentUnchanged, flowVars
<1> QED BY <1>1, <1>2, <1>3, <1>4, <1>5

LEMMA ClaimKept ==
    ASSUME TypeOK, ClaimOK, CallStep \/ Environment \/ Tick PROVE ClaimOK'
<1>1. CASE Begin \/ Insert \/ Discard \/ Send
  <2>1. pc' # "delete"
    BY <1>1, InsertPc, AfterFlow
       DEF Begin, Discard, Send, NotStarted, QuoteFacts, ReadBaseline, ReadTop, OpenAnswers,
           OpenFails, Reviewed, SendAnswers, SendFails, Say, DiscardOutgoing, DiscardNewReply,
           DiscardRival, DiscardUnknown, DiscardAgain, Discarded, InsertSteps, TypeOK, PasteTypeOK
  <2> QED BY <2>1 DEF ClaimOK
<1>2. CASE Sweep
  <2>1. CASE SweepClaims
    <3>1. flow.index_top \in Nat /\ rows \in Seq(Row) /\ rows' = rows
      BY <2>1, FlowFields DEF SweepClaims, TypeOK, OthersUnchanged
    <3> QED BY <2>1, <3>1 DEF SweepClaims, FoundRows, NewRows, ClaimOK
  <2> QED BY <1>2, <2>1, SweepKeeps DEF ClaimOK
<1>3. CASE CopyLands \/ SentCopyLands \/ OlderCopyLands \/ HandDraftLands
  BY <1>3, LandsOne
     DEF ClaimOK, CopyLands, SentCopyLands, OlderCopyLands, HandDraftLands, EnvironmentUnchanged,
         TypeOK
<1>4. CASE LateOpen \/ RivalOpens \/ Tick \/ (MailHandlesKey /\ UNCHANGED flowVars)
           \/ (UserCopies /\ UNCHANGED flowVars)
  BY <1>4 DEF ClaimOK, LateOpen, RivalOpens, Tick, MailHandlesKey, UserCopies, flowVars,
              EnvironmentUnchanged
<1> QED BY <1>1, <1>2, <1>3, <1>4 DEF CallStep, Environment

-----------------------------------------------------------------------------
(* RowsOK is kept.                                                         *)

\* One row, as RowsOK has it.
RowOK(i) ==
    /\ rows[i].by = "reply" =>
          /\ saved /\ rows[i].box \in {"drafts", "folder"}
          /\ \A j \in 1..Len(rows) : rows[j].by = "reply" => j = i
          /\ pc # "ended" => flow.index_top # None /\ i > flow.index_top
    /\ rows[i].by # "older" \/ older = "same"
    /\ rows[i].by = "sent" => rows[i].box \in {"sentbox", "folder"}
    /\ rows[i].by = "hand" /\ rows[i].ours /\ rows[i].box = "drafts" =>
          /\ flow.index_top # None /\ flow.landed_by = None => i <= flow.index_top
          /\ flow.index_top # None /\ flow.landed_by # None =>
                i <= flow.index_top \/ i > flow.landed_by
    /\ rows[i].gone => rows[i].by = "reply"

LEMMA RowsAre ==
    RowsOK <=> /\ older # "landing"
               /\ flow.index_top # None => flow.index_top <= Len(rows)
               /\ flow.landed_by # None => flow.landed_by <= Len(rows)
               /\ \A i \in 1..Len(rows) : RowOK(i)
               /\ pc = "delete" => rows[claimed].by = "reply"
BY DEF RowsOK, RowOK

\* The rows stay, and so does what the flow says of them.
LEMMA SameRows ==
    ASSUME RowsOK, UNCHANGED <<rows, saved, older>>, flow'.index_top = flow.index_top,
           flow'.landed_by = flow.landed_by, pc # "ended", pc' # "delete"
    PROVE  RowsOK'
BY DEF RowsOK

LEMMA RowsBegin == ASSUME TypeOK, FlowOK, RowsOK, Begin \/ Send PROVE RowsOK'
<1> USE DEF OthersUnchanged
<1>1. CASE NotStarted \/ QuoteFacts \/ ReadBaseline \/ Reviewed \/ SendFails
  BY <1>1, SameRows DEF NotStarted, QuoteFacts, ReadBaseline, Reviewed, SendFails, Say
<1>2. CASE ReadTop
  <2>1. /\ flow.index_top = None /\ flow.landed_by = None /\ pc = "top" /\ pc' = "open"
        /\ UNCHANGED <<rows, saved, older>> /\ rows \in Seq(Row)
    BY <1>2 DEF ReadTop, FlowOK, InsertSteps, TypeOK
  <2>2. flow'.index_top \in {Len(rows), None} /\ flow'.landed_by = None
    BY <1>2, <2>1, TopFlow
  <2>3. \A i \in 1..Len(rows) : rows[i].by # "reply"
    BY <2>1 DEF RowsOK
  <2>4. ASSUME NEW i \in 1..Len(rows) PROVE RowOK(i)'
    <3>1. RowOK(i)
      BY RowsAre
    <3>2. flow'.index_top # None => i <= flow'.index_top
      BY <2>1, <2>2
    <3> QED BY <2>1, <2>2, <2>3, <3>1, <3>2 DEF RowOK
  <2>5. flow'.index_top # None => flow'.index_top <= Len(rows)
    BY <2>1, <2>2
  <2> QED BY <2>1, <2>2, <2>4, <2>5 DEF RowsOK, RowOK
<1>3. CASE OpenAnswers \/ OpenFails
  BY <1>3, OpenFlow, SameRows DEF OpenAnswers, OpenFails
<1>4. CASE SendAnswers
  BY <1>4, SendFlow, SameRows DEF SendAnswers
<1> QED BY <1>1, <1>2, <1>3, <1>4 DEF Begin, Send

LEMMA RowsDiscard == ASSUME TypeOK, FlowOK, RowsOK, Discard PROVE RowsOK'
<1> USE DEF OthersUnchanged
<1>1. ASSUME NEW a \in Answers, Discarded(a), MayDiscard PROVE RowsOK'
  BY <1>1, DiscardedFlow, SameRows DEF Discarded, MayDiscard
<1>2. CASE DiscardOutgoing \/ DiscardNewReply \/ DiscardUnknown
  BY <1>1, <1>2 DEF DiscardOutgoing, DiscardNewReply, DiscardUnknown, Answers
<1>3. CASE DiscardRival
  BY <1>3, RivalFlow, SameRows DEF DiscardRival, MayDiscard
<1>4. CASE DiscardAgain
  BY <1>4, SameRows DEF DiscardAgain
<1>5. CASE ReadTopAfter
  <2>1. /\ flow.landed_by = None /\ pc = "top_after" /\ pc' \in {"newer", "sweep"}
        /\ UNCHANGED <<rows, saved, older>> /\ rows \in Seq(Row)
        /\ flow'.index_top = flow.index_top /\ flow'.landed_by \in {Len(rows), None}
    BY <1>5, AfterFlow DEF ReadTopAfter, FlowOK, TypeOK
  <2>2. ASSUME NEW i \in 1..Len(rows) PROVE RowOK(i)'
    <3>1. RowOK(i)
      BY RowsAre
    <3> QED BY <2>1, <3>1 DEF RowOK
  <2>3. flow'.landed_by # None => flow'.landed_by <= Len(rows)
    BY <2>1
  <2> QED BY <2>1, <2>2, <2>3 DEF RowsOK, RowOK
<1> QED BY <1>2, <1>3, <1>4, <1>5 DEF Discard

\* What the sweep claims is the call's own copy.
LEMMA ClaimsOwn == ASSUME TypeOK, RowsOK, SweepClaims
    PROVE /\ claimed' \in 1..Len(rows) /\ rows[claimed'].by = "reply"
<1>1. PICK i \in FoundRows : Own(i) /\ MayClaim(i) /\ claimed' = i
  BY DEF SweepClaims
<1>2. /\ flow.index_top \in Nat /\ flow.index_top # None /\ rows \in Seq(Row)
      /\ flow.landed_by \in Nat /\ flow.landed_by # None /\ i <= flow.landed_by
      /\ rows[i].box = "drafts" /\ rows[i].ours /\ older # "same"
  BY <1>1, FlowFields, NoneAssumption DEF SweepClaims, TypeOK, Own, MayClaim
<1>3. i \in 1..Len(rows) /\ i > flow.index_top
  BY <1>2 DEF FoundRows, NewRows
<1>4. rows[i].by \in {"reply", "older", "hand", "sent"}
  <2>1. rows[i] \in Row
    BY <1>2, <1>3
  <2> QED BY <2>1 DEF Row
<1>5. RowOK(i)
  BY <1>3, RowsAre
<1> QED BY <1>1, <1>2, <1>3, <1>4, <1>5 DEF RowOK

LEMMA RowsSweep == ASSUME TypeOK, ClaimOK, RowsOK, Sweep PROVE RowsOK'
<1>1. UNCHANGED <<saved, older, flow>> /\ pc \in {"sweep", "delete"}
  BY SweepKeeps
<1>2. CASE SweepUnavailable \/ SweepUnreadable \/ SweepReads
  BY <1>1, <1>2, SameRows
     DEF SweepUnavailable, SweepUnreadable, SweepReads, Swept, Say, OthersUnchanged
<1>3. CASE SweepClaims
  <2>1. rows' = rows
    BY <1>3 DEF SweepClaims, OthersUnchanged
  <2> QED BY <1>1, <1>3, <2>1, ClaimsOwn DEF RowsOK
<1>4. CASE SweepDeletes \/ SweepDeleteUnproven
  <2>1. pc = "delete" /\ pc' = "ended" /\ claimed \in 1..Len(rows) /\ rows[claimed].by = "reply"
    BY <1>4 DEF SweepDeletes, SweepDeleteUnproven, Say, ClaimOK, RowsOK
  <2>2. CASE rows' = rows
    BY <1>1, <2>1, <2>2 DEF RowsOK
  <2>3. CASE rows' = [rows EXCEPT ![claimed].gone = TRUE]
    <3>1. /\ Len(rows') = Len(rows)
          /\ \A i \in 1..Len(rows) : /\ rows'[i].by = rows[i].by /\ rows'[i].box = rows[i].box
                                     /\ rows'[i].ours = rows[i].ours
                                     /\ i # claimed => rows'[i] = rows[i]
      BY <2>1, <2>3, RowGone DEF TypeOK
    <3>2. ASSUME NEW i \in 1..Len(rows) PROVE RowOK(i)'
      <4>1. RowOK(i)
        BY RowsAre
      <4> QED BY <1>1, <2>1, <3>1, <4>1 DEF RowOK
    <3> QED BY <1>1, <2>1, <3>1, <3>2 DEF RowsOK, RowOK
  <2> QED BY <1>4, <2>2, <2>3 DEF SweepDeletes, SweepDeleteUnproven
<1> QED BY <1>2, <1>3, <1>4 DEF Sweep

LEMMA RowsInsert == ASSUME TypeOK, RowsOK, Insert PROVE RowsOK'
BY InsertPc, SameRows DEF InsertSteps, flowVars, TypeOK, PasteTypeOK

LEMMA RowsOutside ==
    ASSUME TypeOK, FlowOK, ClaimOK, RowsOK, Environment \/ Tick PROVE RowsOK'
<1>1. CASE CopyLands \/ SentCopyLands \/ OlderCopyLands \/ HandDraftLands
  <2>1. UNCHANGED <<pc, older, flow, claimed>>
    BY <1>1 DEF CopyLands, SentCopyLands, OlderCopyLands, HandDraftLands, EnvironmentUnchanged
  <2>2. PICK row \in Row :
           /\ rows' \in Seq(Row) /\ Len(rows') = Len(rows) + 1 /\ rows'[Len(rows) + 1] = row
           /\ \A i \in 1..Len(rows) : rows'[i] = rows[i]
           /\ ~row.gone
           /\ pc \in {"top_after", "sweep"} => flow.index_top # None
           /\ row.by = "reply" => /\ CopyLands /\ row.box \in {"drafts", "folder"}
                                  /\ pc \in {"top_after", "sweep", "ended"}
           /\ row.by = "older" => older \in {"same", "landing"}
           /\ row.by = "sent" => row.box \in {"sentbox", "folder"}
           /\ row.by = "hand" /\ row.ours /\ row.box = "drafts" =>
                 flow.landed_by # None \/ pc = "top"
           /\ row.by # "reply" => saved' = saved /\ pc \in {"top", "top_after", "sweep"}
    BY <1>1, LandsOne
  <2>3. Len(rows) \in Nat /\ flow.index_top \in Nat \cup {None}
        /\ flow.landed_by \in Nat \cup {None}
    BY FlowFields DEF TypeOK
  <2>4. row.by = "reply" =>
           saved' /\ pc # "delete" /\ \A i \in 1..Len(rows) : rows[i].by # "reply"
    BY <2>2 DEF CopyLands, MayLand, RowsOK
  <2>5. ASSUME NEW i \in 1..Len(rows) PROVE RowOK(i)'
    <3>1. RowOK(i)
      BY RowsAre
    <3>2. rows[i].by = "reply" => row.by # "reply" /\ saved' = saved
      BY <2>2, <2>4
    <3>3. rows[i].by = "reply" =>
             \A j \in 1..Len(rows) + 1 : rows'[j].by = "reply" => j = i
      <4> SUFFICES ASSUME rows[i].by = "reply", NEW j \in 1..Len(rows) + 1,
                          rows'[j].by = "reply"
                   PROVE  j = i
        OBVIOUS
      <4>1. j \in 1..Len(rows)
        BY <2>2, <2>3, <3>2
      <4>2. rows[j].by = "reply"
        BY <2>2, <4>1
      <4> QED BY <3>1, <4>1, <4>2 DEF RowOK
    <3> QED BY <2>1, <2>2, <3>1, <3>2, <3>3 DEF RowOK
  <2>6. PICK n \in Nat : n = Len(rows) + 1
    BY <2>3
  <2>7. RowOK(n)'
    <3>1. rows'[n] = row /\ n \in Nat /\ Len(rows') = n
      BY <2>2, <2>3, <2>6
    <3>2. /\ flow.index_top # None => n > flow.index_top
          /\ flow.landed_by # None => n > flow.landed_by
      BY <2>3, <2>6 DEF RowsOK
    <3>3. row.by = "reply" => \A j \in 1..n : rows'[j].by = "reply" => j = n
      <4> SUFFICES ASSUME row.by = "reply", NEW j \in 1..n, rows'[j].by = "reply", j # n
                   PROVE  FALSE
        OBVIOUS
      <4>1. j \in 1..Len(rows)
        BY <2>3, <2>6
      <4> QED BY <2>2, <2>4, <4>1
    <3>4. row.by = "hand" /\ row.ours /\ row.box = "drafts" =>
             flow.landed_by # None \/ flow.index_top = None
      BY <2>2 DEF FlowOK
    <3>5. row.by # "older" \/ older = "same"
      BY <2>2 DEF RowsOK
    <3>6. /\ row.by = "reply" =>
                /\ saved' /\ row.box \in {"drafts", "folder"}
                /\ pc # "ended" => flow.index_top # None /\ n > flow.index_top
          /\ row.by = "hand" /\ row.ours /\ row.box = "drafts" =>
                /\ flow.index_top # None /\ flow.landed_by = None => n <= flow.index_top
                /\ flow.index_top # None /\ flow.landed_by # None =>
                      n <= flow.index_top \/ n > flow.landed_by
      BY <2>2, <2>4, <3>2, <3>4
    <3> QED BY <2>1, <2>2, <3>1, <3>3, <3>5, <3>6 DEF RowOK
  <2>8. ASSUME NEW i \in 1..Len(rows') PROVE RowOK(i)'
    <3>1. i \in 1..Len(rows) \/ i = n
      BY <2>2, <2>3, <2>6
    <3> QED BY <2>5, <2>7, <3>1
  <2>9. /\ flow.index_top # None => flow.index_top <= Len(rows')
        /\ flow.landed_by # None => flow.landed_by <= Len(rows')
    BY <2>2, <2>3 DEF RowsOK
  <2>10. pc = "delete" => rows'[claimed].by = "reply"
    BY <2>2 DEF RowsOK, ClaimOK
  <2> QED BY <2>1, <2>8, <2>9, <2>10 DEF RowsOK, RowOK
<1>2. CASE \/ MailHandlesKey /\ UNCHANGED flowVars
           \/ UserCopies /\ UNCHANGED flowVars
           \/ LateOpen \/ RivalOpens \/ Tick
  <2>1. UNCHANGED <<pc, rows, saved, older, flow, claimed>>
    BY <1>2 DEF MailHandlesKey, UserCopies, LateOpen, RivalOpens, Tick, flowVars,
                EnvironmentUnchanged
  <2> QED BY <2>1 DEF RowsOK
<1> QED BY <1>1, <1>2 DEF Environment

-----------------------------------------------------------------------------
(* EndOK is kept.                                                          *)

\* What is said without a leftover.
CleanEnd == said.as = "nothing" \/ (said.as = "sent" /\ said.copy \in {"none", "removed"})

\* A clean end is reached by two steps of the sweep.
LEMMA CleanBySweep ==
    ASSUME Sweep, said = Running, CleanEnd'
    PROVE  /\ flow.sent \/ flow.discarded = "dead"
           /\ \/ SweepReads /\ FoundRows = {} /\ ~Late /\ rows' = rows
              \/ SweepDeletes
<1> USE DEF CleanEnd, Running, Say, Refusal
<1>1. CASE SweepUnavailable \/ SweepUnreadable
  BY <1>1 DEF SweepUnavailable, SweepUnreadable, Swept
<1>2. CASE SweepReads
  BY <1>2 DEF SweepReads, Swept, OthersUnchanged
<1>3. CASE SweepClaims
  BY <1>3 DEF SweepClaims
<1>4. CASE SweepDeletes
  BY <1>4 DEF SweepDeletes
<1>5. CASE SweepDeleteUnproven
  BY <1>5 DEF SweepDeleteUnproven
<1> QED BY <1>1, <1>2, <1>3, <1>4, <1>5 DEF Sweep

LEMMA EndSweep ==
    ASSUME TypeOK, ClaimOK, FlowOK, WindowOK, RowsOK, Sweep PROVE EndOK'
<1> SUFFICES ASSUME CleanEnd'
             PROVE  /\ window' \notin {"open", "coming"}
                    /\ \A i \in 1..Len(rows') : rows'[i].by = "reply" => rows'[i].gone
                    /\ saved' \/ (window' \in {"dead", "sent"} => now' > goneAt' + Lag)
  BY DEF EndOK, CleanEnd
<1>1. /\ UNCHANGED <<window, goneAt, now, saved, flow>> /\ pc \in {"sweep", "delete"}
      /\ said = Running
  BY SweepKeeps DEF FlowOK
<1>2. flow.sent \/ flow.discarded = "dead"
  BY <1>1, CleanBySweep
<1>3. window \notin {"open", "coming"}
  BY <1>2 DEF WindowOK
<1>4. CASE SweepReads /\ FoundRows = {} /\ ~Late /\ rows' = rows
  <2>1. /\ flow.index_top # None /\ flow.index_top \in Nat /\ rows \in Seq(Row)
        /\ pc # "ended"
    BY <1>1, <1>4, FlowFields DEF SweepReads, TypeOK
  <2>2. ASSUME NEW i \in 1..Len(rows), rows[i].by = "reply", ~rows[i].gone PROVE FALSE
    <3>1. i > flow.index_top /\ rows[i].box \in {"drafts", "folder"}
      BY <2>1, <2>2 DEF RowsOK
    <3>2. i \in FoundRows
      BY <2>1, <2>2, <3>1 DEF FoundRows, NewRows, SentTwin
    <3> QED BY <1>4, <3>2
  <2>3. flow.discarded_at # None /\ ~(now - flow.discarded_at < SweepGap)
    BY <1>4 DEF Late
  <2>4. window \in {"dead", "sent"} => now > goneAt + Lag
    BY <2>3, Times, LagAssumption, TimesAssumption DEF WindowOK
  <2> QED BY <1>1, <1>3, <1>4, <2>2, <2>4
<1>5. CASE SweepDeletes
  <2>1. /\ pc = "delete" /\ claimed \in 1..Len(rows) /\ rows[claimed].by = "reply"
        /\ rows' = [rows EXCEPT ![claimed].gone = TRUE]
    BY <1>5 DEF SweepDeletes, ClaimOK, RowsOK
  <2>2. /\ Len(rows') = Len(rows) /\ rows'[claimed].gone
        /\ \A i \in 1..Len(rows) : rows'[i].by = rows[i].by
    BY <2>1, RowGone DEF TypeOK
  <2>3. saved /\ \A i \in 1..Len(rows) : rows[i].by = "reply" => i = claimed
    BY <2>1 DEF RowsOK
  <2> QED BY <1>1, <1>3, <2>2, <2>3
<1> QED BY <1>1, <1>4, <1>5, CleanBySweep

LEMMA EndElse ==
    ASSUME TypeOK, FlowOK, WindowOK, EndOK, Begin \/ Insert \/ Discard \/ Send \/ Environment \/ Tick
    PROVE  EndOK'
<1>1. CASE Begin \/ Insert \/ Discard \/ Send
  <2>1. said = Running
    BY <1>1, InsertPc
       DEF Begin, Discard, Send, NotStarted, QuoteFacts, ReadBaseline, ReadTop, OpenAnswers,
           OpenFails, Reviewed, SendAnswers, SendFails, DiscardOutgoing, DiscardNewReply,
           DiscardRival, DiscardUnknown, DiscardAgain, ReadTopAfter, MayDiscard, FlowOK,
           InsertSteps, TypeOK, PasteTypeOK
  <2>2. said' = said \/ said'.as \in {"not_started", "ok", "send_unsure"}
    BY <1>1, InsertPc
       DEF Begin, Discard, Send, NotStarted, QuoteFacts, ReadBaseline, ReadTop, OpenAnswers,
           OpenFails, Reviewed, SendAnswers, SendFails, DiscardOutgoing, DiscardNewReply,
           DiscardRival, DiscardUnknown, DiscardAgain, ReadTopAfter, Discarded, Say, flowVars,
           TypeOK, PasteTypeOK
  <2> QED BY <2>1, <2>2 DEF EndOK, Running
<1>2. CASE Environment \/ Tick
  <2>1. said' = said
    BY <1>2 DEF Environment, Tick, MailHandlesKey, UserCopies, LateOpen, CopyLands,
                SentCopyLands, OlderCopyLands, HandDraftLands, RivalOpens, EnvironmentUnchanged,
                flowVars
  <2>2. CASE CleanEnd
    <3>1. pc = "ended" /\ window \notin {"open", "coming"}
      BY <2>2 DEF CleanEnd, FlowOK, EndOK, Running
    <3>2. ~Tick /\ ~LateOpen /\ ~RivalOpens
      BY <3>1 DEF Tick, LateOpen, RivalOpens
    <3>3. ~SentCopyLands /\ ~OlderCopyLands /\ ~HandDraftLands
      BY <3>1 DEF SentCopyLands, OlderCopyLands, HandDraftLands, OtherLands, Lands
    <3>4. ~CopyLands
      <4>1. ~MayLand
        <5>1. saved \/ (window \in {"dead", "sent"} => now > goneAt + Lag)
          BY <2>2 DEF CleanEnd, EndOK
        <5>2. window \in {"dead", "sent"} => goneAt \in Nat
          BY Times DEF WindowOK
        <5> QED BY <3>1, <5>1, <5>2, Times, TimesAssumption DEF MayLand
      <4> QED BY <4>1 DEF CopyLands
    <3>5. UNCHANGED <<window, goneAt, rows, saved, now>>
      BY <1>2, <3>2, <3>3, <3>4 DEF Environment, MailHandlesKey, UserCopies, flowVars
    <3> QED BY <2>1, <3>5 DEF EndOK
  <2>3. CASE ~CleanEnd
    BY <2>1, <2>3 DEF CleanEnd, EndOK
  <2> QED BY <2>2, <2>3
<1> QED BY <1>1, <1>2

-----------------------------------------------------------------------------
(* The theorems.                                                           *)

LEMMA InitHolds == ASSUME Init PROVE ReplyInv /\ ClipboardOK /\ EndOK
<1>1. TypeOK
  <2>1. flow \in Flow
    BY DEF Init, Flow, Answers
  <2>2. said \in Said
    BY DEF Init, Running, Said
  <2>3. body \in Body /\ insert \in Locals /\ keys \in Seq({"A", "V"})
    <3>1. <<>> \in Pasted /\ keys = <<>> /\ insert = NotInserting
      BY DEF Init, PasteInit, Pasted
    <3>2. body \in [top : {<<>>}, quote : BOOLEAN, selected : {FALSE}]
      BY DEF Init, PasteInit
    <3>3. body \in Body
      BY <3>1, <3>2 DEF Body
    <3> QED BY <3>1, <3>3, NoLocals
  <2>4. rows \in Seq(Row) /\ older \in {"none", "same", "landing"}
    BY OthersAssumption DEF Init
  <2> QED BY <2>1, <2>2, <2>3, <2>4
          DEF Init, PasteInit, TypeOK, PasteTypeOK, NoRow, Contents
<1>2. /\ ~flow.sent /\ ~flow.id_known /\ flow.index_top = None /\ flow.landed_by = None
      /\ flow.discarded_at = None /\ flow.discarded = "unasked"
  BY DEF Init
<1>3. pc = "facts" /\ said = Running /\ keys = <<>> /\ body.top = <<>> /\ insert = NotInserting
      /\ window = "none" /\ goneAt = None /\ clipboard = "users"
  BY DEF Init, PasteInit
<1>4. FlowOK /\ ClaimOK /\ BorrowOK /\ WindowOK /\ ClipboardOK /\ EndOK
  BY <1>2, <1>3 DEF FlowOK, ClaimOK, BorrowOK, WindowOK, ClipboardOK, EndOK, InsertSteps, Running,
                    Refusals
<1>5. KeysOK
  BY <1>2, <1>3, NoLocals, KeyFacts, TopFacts DEF KeysOK, Running
<1> QED BY <1>1, <1>4, <1>5 DEF ReplyInv

LEMMA ReplyStep == ReplyInv /\ [Next]_vars => ReplyInv'
<1> SUFFICES ASSUME ReplyInv, [Next]_vars PROVE ReplyInv'
  OBVIOUS
<1> USE DEF ReplyInv
<1>1. CASE Insert
  BY <1>1, InsertType, ClaimKept, FlowInsert, KeysInsert, BorrowInsert, WindowElse DEF CallStep
<1>2. CASE Begin \/ Send
  BY <1>2, BeginType, ClaimKept, FlowBegin, KeysBegin, BorrowElse, WindowBegin DEF CallStep
<1>3. CASE Discard
  BY <1>3, DiscardType, ClaimKept, FlowDiscard, KeysDiscard, BorrowElse, WindowDiscard DEF CallStep
<1>4. CASE Sweep
  BY <1>4, SweepType, ClaimKept, FlowSweep, KeysSweep, BorrowElse, WindowElse
     DEF CallStep, ClaimOK
<1>5. CASE Environment \/ Tick
  BY <1>5, OutsideType, ClaimKept, FlowOutside, KeysOutside, BorrowElse, WindowElse
<1>6. CASE UNCHANGED vars
  BY <1>6 DEF vars, pasteVars, flowVars, TypeOK, PasteTypeOK, ClaimOK, FlowOK, KeysOK, BorrowOK,
              WindowOK
<1> QED BY <1>1, <1>2, <1>3, <1>4, <1>5, <1>6 DEF Next, CallStep

LEMMA ReplyHolds == Spec => []ReplyInv
<1>1. Init => ReplyInv
  BY InitHolds
<1> QED BY <1>1, ReplyStep, PTL DEF Spec

\* Every variable keeps its type.
THEOREM TypeCorrect == Spec => []TypeOK
<1>1. ReplyInv => TypeOK
  BY DEF ReplyInv
<1> QED BY <1>1, ReplyHolds, PTL

\* A reply that is kept for review, or sent, holds the text once, with Mail's quote as asked
\* for, and no paste is still to come: _wait_settled and _confirm.
THEOREM KeptRepliesHoldTheText == Spec => []KeptReplyHoldsTheText
<1>1. ReplyInv => KeptReplyHoldsTheText
  BY TopFacts DEF ReplyInv, KeysOK, KeptReplyHoldsTheText
<1> QED BY <1>1, ReplyHolds, PTL

\* What was on the clipboard gets into a reply only when the discard of that reply was tried
\* first and failed: the order of compose_insert's rollback.
THEOREM ClipboardStaysOut == Spec => []ClipboardStaysOutOfReply
<1>1. ASSUME ReplyInv PROVE ClipboardStaysOutOfReply
  <2> SUFFICES ASSUME window = "open", NEW i \in 1..Len(body.top), body.top[i] = "users"
               PROVE  flow.discarded \in {"alive", "unknown"}
    BY DEF ClipboardStaysOutOfReply
  <2>1. body.top \in {<<>>, <<"users">>, <<"text">>, <<"newer">>}
    BY <1>1 DEF ReplyInv, KeysOK
  <2>2. body.top = <<"users">>
    BY <2>1
  <2> QED BY <1>1, <2>2 DEF ReplyInv, KeysOK
<1> QED BY <1>1, ReplyHolds, PTL

\* The user finds on the clipboard what was copied last, as long as the three short steps of
\* compose_insert hold no copy of the user's: its finally block.
THEOREM NewestCopySurvives ==
    ASSUME ShortSteps
    PROVE  Spec => []NewestCopySurvivesAWrite
<1>1. Init => ReplyInv /\ ClipboardOK
  BY InitHolds
<1>2. ReplyInv /\ ClipboardOK /\ [Next]_vars => ClipboardOK'
  <2> SUFFICES ASSUME ReplyInv, ClipboardOK, [Next]_vars PROVE ClipboardOK'
    OBVIOUS
  <2>1. TypeOK /\ FlowOK /\ BorrowOK
    BY DEF ReplyInv
  <2>2. CASE Insert
    BY <2>1, <2>2, ClipboardInsert
  <2>3. CASE Begin \/ Send \/ Discard \/ Sweep \/ Environment \/ Tick
    BY <2>1, <2>3, ClipboardElse
  <2>4. CASE UNCHANGED vars
    BY <2>4 DEF vars, pasteVars, flowVars, ClipboardOK, Undisturbed
  <2> QED BY <2>2, <2>3, <2>4 DEF Next, CallStep
<1>3. ReplyInv /\ ClipboardOK => NewestCopySurvivesAWrite
  BY DEF ClipboardOK, NewestCopySurvivesAWrite, Undisturbed
<1> QED BY <1>1, <1>2, <1>3, ReplyStep, PTL DEF Spec

LEMMA RowsStep == ReplyInv /\ RowsOK /\ [Next]_vars => RowsOK'
<1> SUFFICES ASSUME ReplyInv, RowsOK, [Next]_vars PROVE RowsOK'
  OBVIOUS
<1>1. TypeOK /\ FlowOK /\ ClaimOK
  BY DEF ReplyInv
<1>2. CASE UNCHANGED vars
  BY <1>2 DEF vars, pasteVars, flowVars, RowsOK
<1> QED BY <1>1, <1>2, RowsInsert, RowsBegin, RowsDiscard, RowsSweep, RowsOutside
        DEF Next, CallStep

LEMMA RowsHold == ASSUME NoneLanding PROVE Spec => []RowsOK
<1>1. Init => ReplyInv /\ RowsOK
  <2>1. ASSUME Init PROVE RowsOK
    BY <2>1 DEF Init, RowsOK, NoneLanding
  <2> QED BY <2>1, InitHolds
<1> QED BY <1>1, RowsStep, ReplyStep, PTL DEF Spec

\* The sweep deletes only the call's own copy, unless an earlier reply's copy is still on the
\* way when the call starts: find_own_draft and _may_claim.
THEOREM SweepTakesOwn ==
    ASSUME NoneLanding
    PROVE  Spec => []SweepTakesOnlyOwnCopy
<1>1. RowsOK => SweepTakesOnlyOwnCopy
  BY DEF RowsOK, SweepTakesOnlyOwnCopy
<1> QED BY <1>1, RowsHold, PTL

\* "Nothing is left", "no copy" and "removed" are true when they are said and stay true, since
\* the last read came more than the lag after the window went: refusal, after_send, sweep.
THEOREM CleanReportsAreTrue ==
    ASSUME NoneLanding
    PROVE  Spec => []CleanReportIsTrue
<1>1. Init => EndOK
  BY InitHolds
<1>2. ReplyInv /\ RowsOK /\ EndOK /\ [Next]_vars => EndOK'
  <2> SUFFICES ASSUME ReplyInv, RowsOK, EndOK, [Next]_vars PROVE EndOK'
    OBVIOUS
  <2>1. TypeOK /\ ClaimOK /\ FlowOK /\ WindowOK
    BY DEF ReplyInv
  <2>2. CASE UNCHANGED vars
    BY <2>2 DEF vars, pasteVars, flowVars, EndOK
  <2> QED BY <2>1, <2>2, EndSweep, EndElse DEF Next, CallStep
<1>3. ReplyInv /\ EndOK => CleanReportIsTrue
  <2>1. ASSUME ReplyInv PROVE said.as \in Refusals => window # "sent"
    BY <2>1 DEF ReplyInv, FlowOK, WindowOK, Refusals
  <2> QED BY <2>1 DEF EndOK, CleanReportIsTrue
<1> QED BY <1>1, <1>2, <1>3, ReplyHolds, RowsHold, PTL DEF Spec

=============================================================================
