------------------------ MODULE OutgoingMail_proofs ------------------------
(***************************************************************************)
(* Proofs about OutgoingMail, for every set of calls, drafts and           *)
(* addresses, as long as Mail does not quit between accepting a message    *)
(* and answering: type correctness, what an unwarned answer says of the    *)
(* send, what a rolled back one says of the leftover, and when the         *)
(* approved draft is removed.                                              *)
(***************************************************************************)
EXTENDS OutgoingMail, TLAPS

Steps == Reading \cup Scripted
            \cup {"idle", "preview", "outbox", "drop", "done"}
Answers == {"none", "preview", "error", "leftover", "timeout", "unsure", "ok"}
Events == {"make", "fill", "address", "rollback", "send", "drop"}

CallRecord == [op : Operations, id : Ids \cup {Default}, from : Addresses \cup {Default},
               dry : BOOLEAN, step : Steps, answer : Answers, at : Steps, removed : BOOLEAN]

\* The operations on a stored draft name one; only send_draft reads it.
Targeted ==
    \A c \in Calls :
        /\ call[c].op \in {"send_draft", "delete_draft"} => call[c].id \in Ids
        /\ call[c].step = "read" => call[c].op = "send_draft"

TypeInv == TypeOK /\ call \in [Calls -> CallRecord] /\ Targeted

-----------------------------------------------------------------------------
(* What the operators of the model do to the state.                        *)

LEMMA GoesEffect ==
    ASSUME TypeInv, NEW c \in Calls, NEW s \in Steps \ {"read"}, Goes(c, s)
    PROVE  /\ call' \in [Calls -> CallRecord]
           /\ call'[c] = [call[c] EXCEPT !.step = s]
           /\ \A e \in Calls \ {c} : call'[e] = call[e]
           /\ Targeted'
BY DEF TypeInv, Goes, CallRecord, Targeted

LEMMA AnswerEffect ==
    ASSUME TypeInv, NEW c \in Calls, NEW a \in Answers, Answer(c, a)
    PROVE  /\ call' \in [Calls -> CallRecord]
           /\ call'[c] = [call[c] EXCEPT !.step = "done", !.answer = a, !.at = call[c].step]
           /\ \A e \in Calls \ {c} : call'[e] = call[e]
           /\ Targeted'
<1> DEFINE new == [call[c] EXCEPT !.step = "done", !.answer = a, !.at = call[c].step]
<1>1. call[c] \in CallRecord /\ "done" \in Steps
  BY DEF TypeInv, Steps
<1>2. /\ new \in CallRecord
      /\ new.op = call[c].op /\ new.id = call[c].id /\ new.step = "done"
  BY <1>1 DEF CallRecord
<1>3. call' = [call EXCEPT ![c] = new]
  BY <1>1 DEF TypeInv, Answer, CallRecord
<1> HIDE DEF new
<1>4. /\ call' \in [Calls -> CallRecord] /\ call'[c] = new
      /\ \A e \in Calls \ {c} : call'[e] = call[e]
  BY <1>2, <1>3 DEF TypeInv
<1>5. Targeted'
  BY <1>2, <1>4 DEF TypeInv, Targeted
<1> QED BY <1>4, <1>5 DEF new

\* What Mail does when it handles an event of call c.
LEMMA HandleEffect ==
    ASSUME TypeInv, NEW c \in Calls, NEW event \in Events, Handle(c, event)
    PROVE  /\ drafts' \in [Ids -> Kinds \cup {"unborn", "absent"}]
           /\ owned' \subseteq Addresses
           /\ object' \in [Calls -> {"none", "live", "accepted", "gone"}]
           /\ object'[c] = CASE event = "make" /\ object[c] = "none" -> "live"
                             [] event = "send" /\ object[c] = "live" -> "accepted"
                             [] event = "rollback" /\ object[c] = "live" -> "gone"
                             [] OTHER -> object[c]
           /\ \A e \in Calls \ {c} : object'[e] = object[e]
           /\ sender' \in [Calls -> Addresses \cup {Default}]
           /\ dropped' \subseteq Calls \X Ids
           /\ \A pair \in dropped' : pair \in dropped \/ (event = "drop" /\ pair[1] = c)
           /\ \A d \in Ids : drafts[d] = "absent" => drafts'[d] = "absent"
           /\ event = "drop" /\ call[c].id \in Ids /\ drafts[call[c].id] \in Kinds
                  => drafts'[call[c].id] = "absent"
<1> DEFINE gone == {d \in Ids : event = "drop" /\ d = call[c].id /\ drafts[d] \in Kinds}
<1>1. /\ drafts' = [d \in Ids |-> IF d \in gone THEN "absent" ELSE drafts[d]]
      /\ dropped' = dropped \cup ({c} \X gone)
  BY DEF Handle
<1>2. /\ drafts' \in [Ids -> Kinds \cup {"unborn", "absent"}]
      /\ \A d \in Ids : drafts[d] = "absent" => drafts'[d] = "absent"
      /\ event = "drop" /\ call[c].id \in Ids /\ drafts[call[c].id] \in Kinds
             => drafts'[call[c].id] = "absent"
  BY <1>1 DEF TypeInv, TypeOK
<1>3. /\ dropped' \subseteq Calls \X Ids
      /\ \A pair \in dropped' : pair \in dropped \/ (event = "drop" /\ pair[1] = c)
  BY <1>1 DEF TypeInv, TypeOK
<1>4. sender' \in [Calls -> Addresses \cup {Default}]
  <2>1. call[c].from \in Addresses \cup {Default}
    BY DEF TypeInv, CallRecord
  <2> QED BY <2>1 DEF Handle, TypeInv, TypeOK
<1>5. /\ object' \in [Calls -> {"none", "live", "accepted", "gone"}]
      /\ object'[c] = CASE event = "make" /\ object[c] = "none" -> "live"
                        [] event = "send" /\ object[c] = "live" -> "accepted"
                        [] event = "rollback" /\ object[c] = "live" -> "gone"
                        [] OTHER -> object[c]
      /\ \A e \in Calls \ {c} : object'[e] = object[e]
  <2> DEFINE new == CASE event = "make" /\ object[c] = "none" -> "live"
                      [] event = "send" /\ object[c] = "live" -> "accepted"
                      [] event = "rollback" /\ object[c] = "live" -> "gone"
                      [] OTHER -> object[c]
  <2>1. object' = [object EXCEPT ![c] = new]
    BY DEF Handle
  <2>2. new \in {"none", "live", "accepted", "gone"}
    BY DEF TypeInv, TypeOK
  <2> QED BY <2>1, <2>2 DEF TypeInv, TypeOK
<1>6. owned' \subseteq Addresses
  BY DEF Handle, TypeInv, TypeOK
<1> QED BY <1>2, <1>3, <1>4, <1>5, <1>6

LEMMA UnansweredEffect ==
    ASSUME TypeInv, NEW c \in Calls, Unanswered(c)
    PROVE  /\ TypeOK'
           /\ pending'[c] = IF call[c].step \in {"make", "rollback", "send", "drop"}
                            THEN call[c].step ELSE pending[c]
           /\ \A e \in Calls \ {c} : pending'[e] = pending[e]
           /\ UNCHANGED <<drafts, object, dropped>>
BY DEF Unanswered, TypeInv, TypeOK

\* The answer that an error or a kill ends in, and the step that it leads to.
LEMMA EndEffect ==
    ASSUME TypeInv, NEW c \in Calls, call[c].step \in InMail,
           NEW otherwise \in Answers, OnError(c, otherwise) \/ OnKill(c)
    PROVE  /\ call' \in [Calls -> CallRecord]
           /\ \A e \in Calls \ {c} : call'[e] = call[e]
           /\ Targeted'
<1>1. \A s \in {"rollback", "probe", "drop"} : s \in Steps \ {"read"}
  BY DEF Steps, Scripted
<1>2. \A a \in {"leftover", "ok", "timeout", "unsure"} : a \in Answers
  BY DEF Answers
<1>3. CASE \E s \in {"rollback", "probe", "drop"} : Goes(c, s)
  BY <1>1, <1>3, GoesEffect
<1>4. CASE \E a \in {"leftover", "ok", "timeout", "unsure", otherwise} : Answer(c, a)
  BY <1>2, <1>4, AnswerEffect
<1> QED BY <1>3, <1>4 DEF OnError, OnKill, AfterOutbox, DropFailed, TimeoutText

-----------------------------------------------------------------------------
(* The inductive invariant: what there can be in Mail, and on its way to   *)
(* Mail, of a call at each of its steps and after each of its answers.     *)

StepFits(step, op, there, coming) ==
    /\ step \in {"idle", "preview", "owned", "read", "resolve", "make"} =>
           there = "none" /\ coming = "none"
    /\ step \in {"fill", "address", "send"} => there \in {"live", "gone"} /\ coming = "none"
    /\ step \in {"rollback", "probe"} =>
           there \in {"live", "gone"} /\ coming \in {"none", "rollback"}
    /\ step = "outbox" => there = "accepted" /\ coming = "none"
    /\ step = "drop" =>
           /\ coming = "none"
           /\ \/ op = "send_draft" /\ there = "accepted"
              \/ op = "delete_draft" /\ there = "none"
    /\ step \in Scripted \cup {"owned"} => op # "delete_draft"
    /\ step = "address" => op = "forward"
    /\ step \in {"send", "outbox"} => op \in Sending

AnswerFits(answer, at, op, there, coming) ==
    /\ answer \in {"error", "leftover", "timeout"} => there # "accepted" /\ coming # "send"
    /\ answer = "error" /\ at # "send" => there # "live" /\ coming # "make"
    /\ answer = "preview" => there = "none" /\ coming = "none"
    /\ answer = "ok" /\ op \in Sending => there = "accepted"
    /\ coming = "drop" /\ op = "send_draft" => there = "accepted"

Shape(c) ==
    /\ StepFits(call[c].step, call[c].op, object[c], pending[c])
    /\ call[c].step # "done" => call[c].answer = "none"
    /\ AnswerFits(call[c].answer, call[c].at, call[c].op, object[c], pending[c])

Shapes == \A c \in Calls : Shape(c)

LEMMA InitShape == Init => TypeInv /\ Shapes
<1> SUFFICES ASSUME Init PROVE TypeInv /\ Shapes
  OBVIOUS
<1>1. Nothing \in CallRecord
  BY DEF Nothing, CallRecord, Operations, Steps, Answers
<1>2. TypeInv
  BY <1>1 DEF Init, TypeInv, TypeOK, Targeted, Nothing
<1>3. Shapes
  BY DEF Init, Shapes, Shape, StepFits, AnswerFits, Nothing, Scripted
<1> QED BY <1>2, <1>3

\* Mail holds of the other calls what it held.
OthersStay(c) ==
    \A e \in Calls \ {c} : object'[e] = object[e] /\ pending'[e] = pending[e]

LEMMA OthersKeepShape ==
    ASSUME Shapes, NEW c \in Calls, OthersStay(c), \A e \in Calls \ {c} : call'[e] = call[e],
           Shape(c)'
    PROVE  Shapes'
<1>1. ASSUME NEW e \in Calls \ {c} PROVE Shape(e)'
  BY <1>1 DEF Shapes, Shape, OthersStay
<1> QED BY <1>1 DEF Shapes

LEMMA GoesOn ==
    ASSUME TypeInv, Shapes, TypeOK', NEW c \in Calls, call[c].step # "done", OthersStay(c),
           NEW s \in Steps \ {"read", "done"}, Goes(c, s),
           StepFits(s, call[c].op, object'[c], pending'[c])
    PROVE  TypeInv' /\ Shapes'
<1>0. /\ call' \in [Calls -> CallRecord] /\ Targeted'
      /\ call'[c] = [call[c] EXCEPT !.step = s]
      /\ \A e \in Calls \ {c} : call'[e] = call[e]
  BY GoesEffect
<1>1. TypeInv'
  BY <1>0 DEF TypeInv
<1>2. /\ call'[c].step = s /\ call'[c].op = call[c].op
      /\ call'[c].answer = "none"
  BY <1>0 DEF TypeInv, CallRecord, Shapes, Shape
<1>3. pending'[c] # "drop"
  BY DEF StepFits, Steps, Reading, Scripted
<1>4. Shape(c)'
  BY <1>2, <1>3 DEF Shape, AnswerFits
<1> QED BY <1>0, <1>1, <1>4, OthersKeepShape

LEMMA EndsWith ==
    ASSUME TypeInv, Shapes, TypeOK', NEW c \in Calls, OthersStay(c),
           NEW a \in Answers, Answer(c, a),
           AnswerFits(a, call[c].step, call[c].op, object'[c], pending'[c])
    PROVE  TypeInv' /\ Shapes'
<1>0. /\ call' \in [Calls -> CallRecord] /\ Targeted'
      /\ call'[c] = [call[c] EXCEPT !.step = "done", !.answer = a, !.at = call[c].step]
      /\ \A e \in Calls \ {c} : call'[e] = call[e]
  BY AnswerEffect
<1>1. TypeInv'
  BY <1>0 DEF TypeInv
<1>2. /\ call'[c].step = "done" /\ call'[c].op = call[c].op
      /\ call'[c].answer = a /\ call'[c].at = call[c].step
  BY <1>0 DEF TypeInv, CallRecord
<1>3. Shape(c)'
  BY <1>2 DEF Shape, StepFits, Scripted
<1> QED BY <1>0, <1>1, <1>3, OthersKeepShape

-----------------------------------------------------------------------------
(* Before the script.                                                      *)

LEMMA RequestStep ==
    ASSUME TypeInv, Shapes, NEW c \in Calls, NEW op \in Operations, NEW id \in Ids \cup {Default},
           NEW from \in Addresses \cup {Default}, NEW dry \in BOOLEAN,
           Request(c, op, id, from, dry)
    PROVE  TypeInv' /\ Shapes'
<1> DEFINE s == FirstStep(op, from, dry)
           new == [Nothing EXCEPT !.op = op, !.id = id, !.from = from, !.dry = dry, !.step = s]
<1>1. /\ op = "send_draft" => s = "read"
      /\ op = "delete_draft" => s \in {"resolve", "drop"}
      /\ op \notin {"send_draft", "delete_draft"} => s \in {"preview", "owned", "make"}
  BY DEF FirstStep
<1>2. s \in Steps
  BY <1>1 DEF Operations, Steps, Reading, Scripted
<1>3. call' = [call EXCEPT ![c] = new]
  BY DEF Request
<1> HIDE DEF s
<1>4. /\ new \in CallRecord
      /\ new.op = op /\ new.id = id /\ new.step = s /\ new.answer = "none" /\ new.at = "idle"
  BY ZenonT(30), <1>2 DEF Nothing, CallRecord, Operations, Steps, Answers
<1> HIDE DEF new
<1>5. call'[c] = new /\ call' \in [Calls -> CallRecord] /\ \A e \in Calls \ {c} : call'[e] = call[e]
  BY <1>3, <1>4 DEF TypeInv
<1>6. op \in {"send_draft", "delete_draft"} => id \in Ids
  BY DEF Request
<1>7. Targeted'
  <2>1. s = "read" => op = "send_draft"
    BY <1>1 DEF Operations
  <2> QED BY <1>4, <1>5, <1>6, <2>1 DEF TypeInv, Targeted
<1>8. TypeInv'
  BY <1>5, <1>7 DEF TypeInv, TypeOK, Request, Untouched
<1>9. Shape(c)'
  <2>1. object'[c] = "none" /\ pending'[c] = "none"
    BY DEF Shapes, Shape, StepFits, Request, At, Untouched
  <2>2. StepFits(s, op, "none", "none")
    BY <1>1 DEF StepFits, Operations, Scripted
  <2> QED BY <1>4, <1>5, <2>1, <2>2 DEF Shape, AnswerFits
<1>10. OthersStay(c)
  BY DEF OthersStay, Request, Untouched
<1> QED BY <1>5, <1>8, <1>9, <1>10, OthersKeepShape

LEMMA UntouchedStays ==
    ASSUME TypeInv, Untouched
    PROVE  /\ TypeOK'
           /\ \A c \in Calls : /\ OthersStay(c)
                               /\ object'[c] = object[c] /\ pending'[c] = pending[c]
BY DEF TypeInv, TypeOK, Untouched, OthersStay

LEMMA BeginStep == ASSUME TypeInv, Shapes, NEW c \in Calls, Begin(c) PROVE TypeInv' /\ Shapes'
<1>1. Shape(c)
  BY DEF Shapes
<1>2. CASE RefuseArguments(c) \/ Preview(c) \/ CheckOwner(c) \/ ResolveDraft(c)
  <2>1. Untouched /\ call[c].step \in {"idle", "preview", "owned", "resolve"}
    BY <1>2 DEF RefuseArguments, Preview, CheckOwner, ResolveDraft, At
  <2>2. object[c] = "none" /\ pending[c] = "none"
    BY <1>1, <2>1 DEF Shape, StepFits
  <2>3. ASSUME NEW a \in {"error", "preview"}, Answer(c, a) PROVE TypeInv' /\ Shapes'
    <3>1. a \in Answers /\ AnswerFits(a, call[c].step, call[c].op, "none", "none")
      BY DEF Answers, AnswerFits
    <3> QED BY <2>1, <2>2, <2>3, <3>1, UntouchedStays, EndsWith
  <2>4. CASE CheckOwner(c) /\ Goes(c, "make")
    <3>1. "make" \in Steps \ {"read", "done"}
      BY DEF Steps, Scripted
    <3>2. call[c].op # "delete_draft"
      BY <1>1, <2>4 DEF Shape, StepFits, CheckOwner, At
    <3>3. StepFits("make", call[c].op, "none", "none")
      BY <3>2 DEF StepFits
    <3> QED BY <2>1, <2>2, <2>4, <3>1, <3>3, UntouchedStays, GoesOn
  <2> QED BY <1>2, <2>3, <2>4 DEF RefuseArguments, Preview, CheckOwner, ResolveDraft
<1>3. CASE ReadDraft(c)
  <2>1. Untouched /\ call[c].step = "read" /\ object[c] = "none" /\ pending[c] = "none"
    BY <1>1, <1>3 DEF ReadDraft, At, Shape, StepFits
  <2>2. CASE \E a \in {"error", "preview"} : Answer(c, a)
    <3>1. \A a \in {"error", "preview"} :
             a \in Answers /\ AnswerFits(a, call[c].step, call[c].op, "none", "none")
      BY DEF Answers, AnswerFits
    <3> QED BY <2>1, <2>2, <3>1, UntouchedStays, EndsWith
  <2>3. CASE call' = [call EXCEPT ![c].step = "make", ![c].from = StoredSender[call[c].id]]
    <3> DEFINE from == StoredSender[call[c].id]
               new == [call[c] EXCEPT !.step = "make", !.from = from]
    <3>1. call[c] \in CallRecord /\ call[c].op = "send_draft" /\ call[c].answer = "none"
          /\ from \in Addresses
      BY <1>1, <2>1, OutgoingAssumption DEF TypeInv, Targeted, Shape
    <3>2. call' = [call EXCEPT ![c] = new]
      BY <2>3, <3>1 DEF TypeInv, CallRecord
    <3> HIDE DEF from
    <3>3. /\ new \in CallRecord
          /\ new.op = "send_draft" /\ new.id = call[c].id /\ new.step = "make"
          /\ new.answer = "none"
      BY <3>1 DEF CallRecord, Steps, Scripted
    <3> HIDE DEF new
    <3>4. /\ call' \in [Calls -> CallRecord] /\ call'[c] = new
          /\ \A e \in Calls \ {c} : call'[e] = call[e]
      BY <3>2, <3>3 DEF TypeInv
    <3>5. TypeInv'
      BY <2>1, <3>1, <3>3, <3>4, UntouchedStays DEF TypeInv, Targeted
    <3>6. Shape(c)'
      <4>1. object'[c] = "none" /\ pending'[c] = "none"
        BY <2>1, UntouchedStays
      <4> QED BY <3>3, <3>4, <4>1 DEF Shape, StepFits, AnswerFits
    <3> QED BY <2>1, <3>4, <3>5, <3>6, UntouchedStays, OthersKeepShape
  <2> QED BY <1>3, <2>2, <2>3 DEF ReadDraft
<1> QED BY <1>2, <1>3, RequestStep DEF Begin

-----------------------------------------------------------------------------
(* The script's events, and what happens to them.                          *)

LEMMA HandledStays ==
    ASSUME TypeInv, NEW c \in Calls, NEW event \in Events, Handle(c, event),
           pending' \in [Calls -> {"none", "make", "rollback", "send", "drop"}],
           \A e \in Calls \ {c} : pending'[e] = pending[e]
    PROVE  TypeOK' /\ OthersStay(c)
BY HandleEffect DEF TypeOK, OthersStay

LEMMA HandledInTime ==
    ASSUME TypeInv, NEW c \in Calls, NEW event \in Events, Handled(c, event)
    PROVE  TypeOK' /\ OthersStay(c) /\ pending'[c] = pending[c]
<1>1. Handle(c, event) /\ pending' = pending
  BY DEF Handled
<1> QED BY <1>1, HandledStays DEF TypeInv, TypeOK

LEMMA DropStep == ASSUME TypeInv, Shapes, NEW c \in Calls, Drop(c) PROVE TypeInv' /\ Shapes'
<1> DEFINE there == drafts[call[c].id] \in Kinds
           answer == IF call[c].op = "delete_draft" /\ drafts[call[c].id] \notin Kinds
                     THEN "error" ELSE "ok"
           new == [call[c] EXCEPT !.step = "done", !.at = "drop", !.answer = answer,
                                  !.removed = there]
<1>1. Handled(c, "drop") /\ "drop" \in Events /\ call[c].step = "drop" /\ call[c] \in CallRecord
  BY DEF Drop, Handled, At, Events, TypeInv
<1>2. call' = [call EXCEPT ![c] = new]
  BY <1>1 DEF Drop, TypeInv, CallRecord
<1>3. answer \in {"error", "ok"} /\ there \in BOOLEAN
  OBVIOUS
<1>4. answer = "error" => call[c].op = "delete_draft"
  OBVIOUS
<1> HIDE DEF there, answer
<1>5. /\ new \in CallRecord
      /\ new.op = call[c].op /\ new.id = call[c].id /\ new.step = "done" /\ new.at = "drop"
      /\ new.answer = answer
  BY ZenonT(30), <1>1, <1>3 DEF CallRecord, Steps, Answers
<1> HIDE DEF new
<1>6. /\ call' \in [Calls -> CallRecord] /\ call'[c] = new
      /\ \A e \in Calls \ {c} : call'[e] = call[e]
  BY <1>2, <1>5 DEF TypeInv
<1>7. TypeOK' /\ OthersStay(c) /\ pending'[c] = pending[c]
  BY <1>1, HandledInTime
<1>8. object'[c] = object[c]
  BY <1>1, HandleEffect DEF Handled
<1>9. TypeInv'
  BY <1>5, <1>6, <1>7 DEF TypeInv, Targeted
<1>10. StepFits("drop", call[c].op, object[c], pending[c])
  BY <1>1 DEF Shapes, Shape
<1>11. Shape(c)'
  BY <1>3, <1>4, <1>5, <1>6, <1>7, <1>8, <1>10 DEF Shape, StepFits, AnswerFits, Scripted, Sending
<1> QED BY <1>6, <1>7, <1>9, <1>11, OthersKeepShape

LEMMA ScriptStep == ASSUME TypeInv, Shapes, NEW c \in Calls, Script(c) PROVE TypeInv' /\ Shapes'
<1>1. StepFits(call[c].step, call[c].op, object[c], pending[c])
  BY DEF Shapes, Shape
<1>2. {"fill", "address", "send", "outbox", "drop", "rollback", "probe"} \subseteq Steps \ {"read", "done"}
      /\ {"ok", "error", "leftover"} \subseteq Answers
      /\ {"make", "fill", "address", "send", "rollback"} \subseteq Events
  BY DEF Steps, Reading, Scripted, Answers, Events
<1>3. call[c].op \in Operations
  BY DEF TypeInv, CallRecord
<1>4. CASE Make(c)
  <2>1. call[c].step = "make" /\ Handled(c, "make")
    BY <1>4 DEF Make, Handled, At
  <2>2. /\ TypeOK' /\ OthersStay(c)
        /\ object'[c] = "live" /\ pending'[c] = "none"
    BY <1>1, <1>2, <2>1, HandledInTime, HandleEffect DEF Handled, StepFits
  <2>3. /\ StepFits("fill", call[c].op, "live", "none")
        /\ call[c].op = "forward" => StepFits("address", call[c].op, "live", "none")
    BY <1>1, <2>1 DEF StepFits, Scripted
  <2>4. CASE Goes(c, "address") /\ call[c].op = "forward"
    BY <1>2, <2>1, <2>2, <2>3, <2>4, GoesOn
  <2>5. CASE Goes(c, "fill")
    BY <1>2, <2>1, <2>2, <2>3, <2>5, GoesOn
  <2> QED BY <1>4, <2>4, <2>5 DEF Make
<1>5. CASE Fill(c) \/ Address(c)
  <2>1. PICK event \in {"fill", "address"} : call[c].step = event /\ Handled(c, event)
    BY <1>5 DEF Fill, Address, Handled, At
  <2>2. /\ TypeOK' /\ OthersStay(c)
        /\ object'[c] = "live" /\ pending'[c] = "none"
    <3>1. object[c] = "live"
      BY <1>5 DEF Fill, Address
    <3> QED BY <1>1, <1>2, <2>1, <3>1, HandledInTime, HandleEffect DEF Handled, StepFits
  <2>3. CASE Answer(c, "ok") /\ call[c].op = "create_draft"
    <3>1. AnswerFits("ok", call[c].step, call[c].op, "live", "none")
      BY <2>3 DEF AnswerFits, Sending
    <3> QED BY <1>2, <2>2, <2>3, <3>1, EndsWith
  <2>4. CASE Goes(c, "send") /\ call[c].op # "create_draft"
    <3>1. StepFits("send", call[c].op, "live", "none")
      BY <1>1, <1>3, <2>1, <2>4 DEF StepFits, Scripted, Operations, Sending
    <3> QED BY <1>2, <2>1, <2>2, <2>4, <3>1, GoesOn
  <2>5. Address(c) => call[c].op # "create_draft"
    BY <1>1 DEF StepFits, Address, Handled, At
  <2> QED BY <1>5, <2>3, <2>4, <2>5 DEF Fill, Address
<1>6. CASE Send(c)
  <2>1. call[c].step = "send" /\ Handled(c, "send") /\ object[c] = "live"
    BY <1>6 DEF Send, Handled, At
  <2>2. /\ TypeOK' /\ OthersStay(c)
        /\ object'[c] = "accepted" /\ pending'[c] = "none"
    BY <1>1, <1>2, <2>1, HandledInTime, HandleEffect DEF Handled, StepFits
  <2>3. StepFits("outbox", call[c].op, "accepted", "none")
    BY <1>1, <2>1 DEF StepFits, Scripted
  <2> QED BY <1>2, <1>6, <2>1, <2>2, <2>3, GoesOn DEF Send
<1>7. CASE RollBack(c) \/ DeleteIgnored(c)
  <2>1. call[c].step = "rollback" /\ Goes(c, "probe")
    BY <1>7 DEF RollBack, DeleteIgnored, Handled, At
  <2>2. /\ TypeOK' /\ OthersStay(c)
        /\ object'[c] \in {"live", "gone"} /\ pending'[c] = pending[c]
    <3>1. CASE RollBack(c)
      BY <1>1, <1>2, <2>1, <3>1, HandledInTime, HandleEffect DEF RollBack, Handled, StepFits
    <3>2. CASE DeleteIgnored(c)
      BY <1>1, <2>1, <3>2, UntouchedStays DEF DeleteIgnored, StepFits
    <3> QED BY <1>7, <3>1, <3>2
  <2>3. StepFits("probe", call[c].op, object'[c], pending'[c])
    BY <1>1, <2>1, <2>2 DEF StepFits, Scripted
  <2> QED BY <1>2, <2>1, <2>2, <2>3, GoesOn
<1>8. CASE Probe(c)
  <2>1. call[c].step = "probe" /\ Untouched
    BY <1>8 DEF Probe, At
  <2>2. /\ AnswerFits("leftover", call[c].step, call[c].op, object[c], pending[c])
        /\ object[c] # "live" => AnswerFits("error", call[c].step, call[c].op, object[c], pending[c])
    BY <1>1, <2>1 DEF StepFits, AnswerFits
  <2>3. CASE Answer(c, "leftover")
    BY <1>2, <2>1, <2>2, <2>3, UntouchedStays, EndsWith
  <2>4. CASE Answer(c, "error") /\ object[c] # "live"
    BY <1>2, <2>1, <2>2, <2>4, UntouchedStays, EndsWith
  <2> QED BY <1>8, <2>3, <2>4 DEF Probe
<1>9. CASE ReadOutbox(c)
  <2>1. call[c].step = "outbox" /\ Untouched
    BY <1>9 DEF ReadOutbox, At
  <2>2. CASE Goes(c, "drop") /\ call[c].op = "send_draft"
    <3>1. StepFits("drop", call[c].op, object[c], pending[c])
      BY <1>1, <2>1, <2>2 DEF StepFits, Scripted
    <3> QED BY <1>2, <2>1, <2>2, <3>1, UntouchedStays, GoesOn
  <2>3. CASE Answer(c, "ok")
    <3>1. AnswerFits("ok", call[c].step, call[c].op, object[c], pending[c])
      BY <1>1, <2>1 DEF StepFits, AnswerFits
    <3> QED BY <1>2, <2>1, <2>3, <3>1, UntouchedStays, EndsWith
  <2> QED BY <1>9, <2>2, <2>3 DEF ReadOutbox, AfterOutbox
<1> QED BY <1>4, <1>5, <1>6, <1>7, <1>8, <1>9, DropStep DEF Script

\* The text of a timeout and the answer that it becomes.
LEMMA TimeoutFits ==
    ASSUME NEW c \in Calls, StepFits(call[c].step, call[c].op, object[c], pending[c]),
           call[c].step \in InMail \ {"outbox", "drop"}, NEW coming,
           coming \in {call[c].step, pending[c]}
    PROVE  /\ TimeoutText(c) \in Answers
           /\ AnswerFits(TimeoutText(c), call[c].step, call[c].op, object[c], coming)
<1>1. TimeoutText(c) \in {"unsure", "timeout"}
  BY DEF TimeoutText
<1>2. CASE TimeoutText(c) = "unsure"
  BY <1>2 DEF AnswerFits, Answers, StepFits, InMail, Scripted, Reading
<1>3. CASE TimeoutText(c) = "timeout"
  <2>1. ~(call[c].step \in Scripted /\ call[c].op \in Sending)
    BY <1>3 DEF TimeoutText
  <2>2. object[c] # "accepted" /\ pending[c] # "send" /\ pending[c] # "drop"
        /\ coming # "send" /\ coming # "drop"
    BY <2>1 DEF StepFits, InMail, Scripted, Reading
  <2> QED BY <1>3, <2>2 DEF AnswerFits, Answers
<1> QED BY <1>1, <1>2, <1>3

\* An event fails (coming = pending), or is not answered in time.
LEMMA FailureStep ==
    ASSUME TypeInv, Shapes, NEW c \in Calls, call[c].step \in InMail, NEW otherwise \in Answers,
           OnError(c, otherwise) \/ OnKill(c),
           TypeOK', OthersStay(c), object' = object,
           \/ pending'[c] = pending[c] /\ (otherwise = "error" \/ otherwise = TimeoutText(c))
           \/ /\ pending'[c] = IF call[c].step \in {"make", "rollback", "send", "drop"}
                               THEN call[c].step ELSE pending[c]
              /\ otherwise = TimeoutText(c)
    PROVE  TypeInv' /\ Shapes'
<1>1. StepFits(call[c].step, call[c].op, object[c], pending[c])
  BY DEF Shapes, Shape
<1>2. pending'[c] \in {call[c].step, pending[c]}
  OBVIOUS
<1>3. {"drop", "rollback", "probe"} \subseteq Steps \ {"read", "done"}
      /\ {"ok", "timeout", "error", "leftover", "unsure"} \subseteq Answers
      /\ call[c].step # "done"
  BY DEF Steps, Reading, Scripted, Answers, InMail
<1>4. CASE call[c].step \in InTry /\ Goes(c, "rollback")
  <2>1. pending'[c] = pending[c]
    BY <1>4 DEF InTry
  <2>2. StepFits("rollback", call[c].op, object'[c], pending'[c])
    BY <1>1, <1>4, <2>1 DEF StepFits, InTry, Scripted
  <2> QED BY <1>3, <1>4, <2>2, GoesOn
<1>5. CASE call[c].step = "rollback" /\ Goes(c, "probe")
  <2>1. StepFits("probe", call[c].op, object'[c], pending'[c])
    BY <1>1, <1>2, <1>5 DEF StepFits, Scripted
  <2> QED BY <1>3, <1>5, <2>1, GoesOn
<1>6. CASE call[c].step = "probe" /\ Answer(c, "leftover")
  <2>1. AnswerFits("leftover", call[c].step, call[c].op, object'[c], pending'[c])
    BY <1>1, <1>2, <1>6 DEF StepFits, AnswerFits
  <2> QED BY <1>3, <1>6, <2>1, EndsWith
<1>7. CASE call[c].step = "outbox" /\ AfterOutbox(c)
  <2>1. pending'[c] = pending[c]
    BY <1>7
  <2>2. CASE Goes(c, "drop") /\ call[c].op = "send_draft"
    <3>1. StepFits("drop", call[c].op, object'[c], pending'[c])
      BY <1>1, <1>7, <2>1, <2>2 DEF StepFits, Scripted
    <3> QED BY <1>3, <2>2, <3>1, GoesOn
  <2>3. CASE Answer(c, "ok")
    <3>1. AnswerFits("ok", call[c].step, call[c].op, object'[c], pending'[c])
      BY <1>1, <1>7, <2>1 DEF StepFits, AnswerFits
    <3> QED BY <1>3, <2>3, <3>1, EndsWith
  <2> QED BY <1>7, <2>2, <2>3 DEF AfterOutbox
<1>8. CASE call[c].step = "drop" /\ \E a \in {"error", "timeout"} : DropFailed(c, a)
  <2>1. PICK a \in {"error", "timeout"} : DropFailed(c, a)
    BY <1>8
  <2>2. CASE call[c].op = "send_draft"
    <3>1. AnswerFits("ok", call[c].step, call[c].op, object'[c], pending'[c])
      BY <1>1, <1>2, <1>8, <2>2 DEF StepFits, AnswerFits
    <3> QED BY <1>3, <2>1, <2>2, <3>1, EndsWith DEF DropFailed
  <2>3. CASE call[c].op = "delete_draft"
    <3>1. AnswerFits(a, call[c].step, call[c].op, object'[c], pending'[c])
      BY <1>1, <1>2, <1>8, <2>3 DEF StepFits, AnswerFits
    <3> QED BY <1>3, <2>1, <2>3, <3>1, EndsWith DEF DropFailed
  <2> QED BY <1>1, <1>8, <2>2, <2>3 DEF StepFits
<1>9. CASE call[c].step \in InMail \ {"outbox", "drop"} /\ Answer(c, TimeoutText(c))
  <2>1. /\ TimeoutText(c) \in Answers
        /\ AnswerFits(TimeoutText(c), call[c].step, call[c].op, object[c], pending'[c])
    BY <1>1, <1>2, <1>9, TimeoutFits
  <2> QED BY <1>9, <2>1, EndsWith
<1>10. CASE /\ call[c].step \in InMail \ (InTry \cup {"rollback", "probe", "outbox", "drop"})
            /\ Answer(c, "error") /\ pending'[c] = pending[c]
  <2>1. AnswerFits("error", call[c].step, call[c].op, object'[c], pending'[c])
    BY <1>1, <1>10 DEF StepFits, AnswerFits, InMail, InTry, Scripted, Reading
  <2> QED BY <1>3, <1>10, <2>1, EndsWith
<1>11. call[c].step = "drop" => TimeoutText(c) = "timeout"
  BY DEF TimeoutText, Scripted
<1> QED
  BY <1>4, <1>5, <1>6, <1>7, <1>8, <1>9, <1>10, <1>11
     DEF OnError, OnKill, At, InMail, InTry, Scripted, Reading, TimeoutText

LEMMA LateStep ==
    ASSUME TypeInv, Shapes, NEW c \in Calls, HandledLate(c) PROVE TypeInv' /\ Shapes'
<1>1. Shape(c)
  BY DEF Shapes
<1>2. pending[c] \in {"make", "rollback", "send", "drop"} /\ pending[c] \in Events
  BY DEF HandledLate, TypeInv, TypeOK, Events
<1>3. /\ Handle(c, pending[c]) /\ call' = call
      /\ pending' \in [Calls -> {"none", "make", "rollback", "send", "drop"}]
      /\ pending'[c] = "none" /\ \A e \in Calls \ {c} : pending'[e] = pending[e]
  BY DEF HandledLate, TypeInv, TypeOK
<1>4. TypeOK' /\ OthersStay(c)
  BY <1>2, <1>3, HandledStays
<1>5. TypeInv'
  BY <1>3, <1>4 DEF TypeInv, Targeted
<1>6. object'[c] = CASE pending[c] = "make" /\ object[c] = "none" -> "live"
                     [] pending[c] = "send" /\ object[c] = "live" -> "accepted"
                     [] pending[c] = "rollback" /\ object[c] = "live" -> "gone"
                     [] OTHER -> object[c]
  BY <1>2, <1>3, HandleEffect
<1>7. StepFits(call[c].step, call[c].op, object'[c], "none")
  BY <1>1, <1>2, <1>6 DEF Shape, StepFits
<1>8. AnswerFits(call[c].answer, call[c].at, call[c].op, object'[c], "none")
  BY <1>1, <1>2, <1>6 DEF Shape, AnswerFits
<1>9. Shape(c)'
  BY <1>1, <1>3, <1>7, <1>8 DEF Shape
<1> QED BY <1>3, <1>4, <1>5, <1>9, OthersKeepShape

LEMMA FaultStep == ASSUME TypeInv, Shapes, NEW c \in Calls, Fault(c) PROVE TypeInv' /\ Shapes'
<1>1. "error" \in Answers /\ TimeoutText(c) \in Answers
  BY DEF Answers, TimeoutText
<1>2. CASE EventFails(c)
  <2>1. TypeOK' /\ OthersStay(c) /\ object' = object /\ pending'[c] = pending[c]
    BY <1>2, UntouchedStays DEF EventFails, Untouched
  <2> QED BY <1>1, <1>2, <2>1, FailureStep DEF EventFails
<1>3. CASE ScriptTimesOut(c) \/ HostKills(c)
  <2>1. Unanswered(c) /\ call[c].step \in InMail
    BY <1>3 DEF ScriptTimesOut, HostKills, Unanswered
  <2>2. TypeOK' /\ OthersStay(c) /\ object' = object
    BY <2>1, UnansweredEffect DEF OthersStay
  <2>3. pending'[c] = IF call[c].step \in {"make", "rollback", "send", "drop"}
                      THEN call[c].step ELSE pending[c]
    BY <2>1, UnansweredEffect
  <2> QED BY <1>1, <1>3, <2>1, <2>2, <2>3, FailureStep DEF ScriptTimesOut, HostKills
<1> QED BY <1>2, <1>3, LateStep DEF Fault

-----------------------------------------------------------------------------
(* Mail quits, and the user acts.                                          *)

LEMMA QuitStep ==
    ASSUME TypeInv, Shapes, ~QuitMayAccept, MailQuits PROVE TypeInv' /\ Shapes'
<1>1. /\ object' = [c \in Calls |-> IF object[c] = "live" THEN "gone" ELSE object[c]]
      /\ pending' = [c \in Calls |-> "none"]
      /\ UNCHANGED <<drafts, owned, call, sender, dropped>>
  BY DEF MailQuits
<1>2. TypeInv'
  BY <1>1 DEF TypeInv, TypeOK, Targeted
<1>3. ASSUME NEW c \in Calls PROVE Shape(c)'
  <2>1. Shape(c)
    BY DEF Shapes
  <2>2. /\ object'[c] = IF object[c] = "live" THEN "gone" ELSE object[c]
        /\ pending'[c] = "none" /\ call'[c] = call[c]
    BY <1>1
  <2>3. StepFits(call[c].step, call[c].op, object'[c], "none")
    BY <2>1, <2>2 DEF Shape, StepFits
  <2>4. AnswerFits(call[c].answer, call[c].at, call[c].op, object'[c], "none")
    BY <2>1, <2>2 DEF Shape, AnswerFits
  <2> QED BY <2>1, <2>2, <2>3, <2>4 DEF Shape
<1> QED BY <1>2, <1>3 DEF Shapes

LEMMA UserStep == ASSUME TypeInv, Shapes, User PROVE TypeInv' /\ Shapes'
<1>1. UNCHANGED <<call, object, sender, pending, dropped>>
  BY DEF User, Saves, Removes, Edits, RemovesAccount
<1>2. drafts' \in [Ids -> Kinds \cup {"unborn", "absent"}] /\ owned' \subseteq Addresses
  <2>1. CASE \E d \in Ids, kind \in Kinds : Saves(d, kind)
    BY <2>1 DEF Saves, TypeInv, TypeOK
  <2>2. CASE \E d \in Ids : Removes(d)
    BY <2>2 DEF Removes, TypeInv, TypeOK
  <2>3. CASE \E old, new \in Ids : Edits(old, new)
    BY <2>3 DEF Edits, TypeInv, TypeOK
  <2>4. CASE \E a \in Addresses : RemovesAccount(a)
    BY <2>4 DEF RemovesAccount, TypeInv, TypeOK
  <2> QED BY <2>1, <2>2, <2>3, <2>4 DEF User
<1> QED BY <1>1, <1>2 DEF TypeInv, TypeOK, Targeted, Shapes, Shape

LEMMA StepShapes ==
    ASSUME TypeInv, Shapes, ~QuitMayAccept, [Next]_vars PROVE TypeInv' /\ Shapes'
<1>1. CASE UNCHANGED vars
  BY <1>1 DEF vars, TypeInv, TypeOK, Targeted, Shapes, Shape
<1>2. CASE Next
  BY <1>2, BeginStep, ScriptStep, FaultStep, QuitStep, UserStep DEF Next
<1> QED BY <1>1, <1>2

\* The variables hold what they are declared to hold.
THEOREM TypeCorrect == ASSUME ~QuitMayAccept PROVE Spec => []TypeOK
<1>1. TypeInv => TypeOK
  BY DEF TypeInv
<1> QED BY <1>1, InitShape, StepShapes, PTL DEF Spec

\* An answer without the warning that the message may have gone out means that it has not
\* and will not: whatever event failed, timed out or was killed, the caller may try again.
THEOREM UnwarnedIsUnsent == ASSUME ~QuitMayAccept PROVE Spec => []UnwarnedErrorSentNothing
<1>1. Shapes => UnwarnedErrorSentNothing
  BY DEF Shapes, Shape, AnswerFits, UnwarnedErrorSentNothing
<1> QED BY <1>1, InitShape, StepShapes, PTL DEF Spec

\* A plain error after rollback() leaves no live message in Mail, and none to come.
THEOREM RollbackHonest == ASSUME ~QuitMayAccept PROVE Spec => []RollbackIsHonest
<1>1. Shapes => RollbackIsHonest
  BY DEF Shapes, Shape, AnswerFits, RollbackIsHonest
<1> QED BY <1>1, InitShape, StepShapes, PTL DEF Spec

-----------------------------------------------------------------------------
(* The approved draft.                                                     *)

DraftInv ==
    /\ \A pair \in dropped :
          /\ call[pair[1]].step # "idle"
          /\ call[pair[1]].op = "send_draft" => object[pair[1]] = "accepted"
    /\ \A c \in Calls :
          call[c].removed => call[c].id \in Ids /\ drafts[call[c].id] = "absent"

\* What no step takes back: what Mail accepted, what left Drafts, what a call has asked.
Lasting ==
    /\ \A c \in Calls : object[c] = "accepted" => object'[c] = "accepted"
    /\ \A d \in Ids : drafts[d] = "absent" => drafts'[d] = "absent"

SameQuestion(c) ==
    /\ call'[c].op = call[c].op /\ call'[c].id = call[c].id
    /\ call[c].step # "idle" => call'[c].step # "idle"

LEMMA DraftsLast ==
    ASSUME TypeInv, Lasting, DraftInv, dropped' \subseteq dropped,
           \A c \in Calls : /\ SameQuestion(c) \/ (call[c].step = "idle" /\ call'[c].removed = FALSE)
                            /\ call'[c].removed => call[c].removed
    PROVE  DraftInv'
<1>1. ASSUME NEW pair \in dropped'
      PROVE  /\ call'[pair[1]].step # "idle"
             /\ call'[pair[1]].op = "send_draft" => object'[pair[1]] = "accepted"
  <2>1. pair \in dropped /\ pair[1] \in Calls
    BY DEF TypeInv, TypeOK
  <2> QED BY <2>1 DEF DraftInv, Lasting, SameQuestion
<1>2. ASSUME NEW c \in Calls, call'[c].removed
      PROVE  call'[c].id \in Ids /\ drafts'[call'[c].id] = "absent"
  BY <1>2 DEF DraftInv, Lasting, SameQuestion
<1> QED BY <1>1, <1>2 DEF DraftInv

LEMMA GoesAsks ==
    ASSUME TypeInv, NEW c \in Calls,
           \/ \E s \in Steps \ {"read", "idle"} : Goes(c, s)
           \/ \E a \in Answers : Answer(c, a)
    PROVE  \A e \in Calls : SameQuestion(e) /\ call'[e].removed = call[e].removed
<1>1. ASSUME NEW s \in Steps \ {"read", "idle"}, Goes(c, s)
      PROVE  \A e \in Calls : SameQuestion(e) /\ call'[e].removed = call[e].removed
  <2>1. call[c] \in CallRecord
    BY DEF TypeInv
  <2>2. /\ call'[c] = [call[c] EXCEPT !.step = s]
        /\ \A e \in Calls \ {c} : call'[e] = call[e]
    BY <1>1, GoesEffect
  <2> QED BY <2>1, <2>2 DEF SameQuestion, CallRecord
<1>2. ASSUME NEW a \in Answers, Answer(c, a)
      PROVE  \A e \in Calls : SameQuestion(e) /\ call'[e].removed = call[e].removed
  <2>1. call[c] \in CallRecord
    BY DEF TypeInv
  <2>2. /\ call'[c] = [call[c] EXCEPT !.step = "done", !.answer = a, !.at = call[c].step]
        /\ \A e \in Calls \ {c} : call'[e] = call[e]
    BY <1>2, AnswerEffect
  <2>3. /\ call'[c].op = call[c].op /\ call'[c].id = call[c].id
        /\ call'[c].step = "done" /\ call'[c].removed = call[c].removed
    BY <2>1, <2>2 DEF CallRecord
  <2> QED BY <2>2, <2>3 DEF SameQuestion
<1> QED BY <1>1, <1>2

LEMMA HandleLasts ==
    ASSUME TypeInv, NEW c \in Calls, NEW event \in Events, Handle(c, event)
    PROVE  Lasting /\ (event # "drop" => dropped' \subseteq dropped)
BY HandleEffect DEF Lasting

LEMMA BeginDrafts ==
    ASSUME TypeInv, Shapes, DraftInv, NEW c \in Calls, Begin(c) PROVE DraftInv'
<1>1. ASSUME Untouched PROVE Lasting /\ dropped' \subseteq dropped
  BY <1>1 DEF Untouched, Lasting
<1>2. CASE RefuseArguments(c) \/ Preview(c) \/ CheckOwner(c) \/ ResolveDraft(c)
  <2>1. Untouched
    BY <1>2 DEF RefuseArguments, Preview, CheckOwner, ResolveDraft
  <2>2. \/ Goes(c, "make")
        \/ \E a \in {"error", "preview"} : Answer(c, a)
    BY <1>2 DEF RefuseArguments, Preview, CheckOwner, ResolveDraft
  <2>3. "make" \in Steps \ {"read", "idle"} /\ {"error", "preview"} \subseteq Answers
    BY DEF Steps, Scripted, Answers
  <2> QED BY <1>1, <2>1, <2>2, <2>3, GoesAsks, DraftsLast
<1>3. CASE ReadDraft(c)
  <2>1. CASE \E a \in {"error", "preview"} : Answer(c, a)
    <3>1. {"error", "preview"} \subseteq Answers
      BY DEF Answers
    <3> QED BY <1>1, <1>3, <2>1, <3>1, GoesAsks, DraftsLast DEF ReadDraft
  <2>2. CASE call' = [call EXCEPT ![c].step = "make", ![c].from = StoredSender[call[c].id]]
    <3>1. /\ call'[c].op = call[c].op /\ call'[c].id = call[c].id
          /\ call'[c].step = "make" /\ call'[c].removed = call[c].removed
          /\ \A e \in Calls \ {c} : call'[e] = call[e]
      BY <2>2 DEF TypeInv, CallRecord
    <3>2. \A e \in Calls : SameQuestion(e) /\ call'[e].removed = call[e].removed
      BY <3>1 DEF SameQuestion
    <3> QED BY <1>1, <1>3, <3>2, DraftsLast DEF ReadDraft
  <2> QED BY <1>3, <2>1, <2>2 DEF ReadDraft
<1>4. ASSUME NEW op \in Operations, NEW id \in Ids \cup {Default},
             NEW from \in Addresses \cup {Default}, NEW dry \in BOOLEAN,
             Request(c, op, id, from, dry)
      PROVE  DraftInv'
  <2>1. Untouched /\ call[c].step = "idle"
    BY <1>4 DEF Request, At
  <2>2. call'[c].removed = FALSE /\ \A e \in Calls \ {c} : call'[e] = call[e]
    BY <1>4 DEF Request, TypeInv, Nothing
  <2>3. \A e \in Calls : /\ SameQuestion(e) \/ (call[e].step = "idle" /\ call'[e].removed = FALSE)
                         /\ call'[e].removed => call[e].removed
    BY <2>1, <2>2 DEF SameQuestion
  <2> QED BY <1>1, <2>1, <2>3, DraftsLast
<1> QED BY <1>2, <1>3, <1>4 DEF Begin

\* The removal of the draft, by the script or after it: the send was accepted before.
LEMMA RemovalDrafts ==
    ASSUME TypeInv, Shapes, DraftInv, NEW c \in Calls, Handle(c, "drop"), call[c].step # "idle",
           call[c].op = "send_draft" => object[c] = "accepted",
           \A e \in Calls : /\ SameQuestion(e)
                            /\ e # c => call'[e].removed = call[e].removed,
           call'[c].removed => \/ call[c].removed
                               \/ call[c].id \in Ids /\ drafts[call[c].id] \in Kinds
    PROVE  DraftInv'
<1>1. "drop" \in Events
  BY DEF Events
<1>2. Lasting
  BY <1>1, HandleLasts
<1>3. ASSUME NEW pair \in dropped'
      PROVE  /\ call'[pair[1]].step # "idle"
             /\ call'[pair[1]].op = "send_draft" => object'[pair[1]] = "accepted"
  <2>1. (pair \in dropped /\ pair[1] \in Calls) \/ pair[1] = c
    BY <1>1, HandleEffect DEF TypeInv, TypeOK
  <2> QED BY <1>2, <2>1 DEF DraftInv, Lasting, SameQuestion
<1>4. ASSUME NEW e \in Calls, call'[e].removed
      PROVE  call'[e].id \in Ids /\ drafts'[call'[e].id] = "absent"
  <2>1. CASE call[e].removed
    BY <1>2, <2>1 DEF DraftInv, Lasting, SameQuestion
  <2>2. CASE ~call[e].removed
    <3>1. e = c /\ call[c].id \in Ids /\ drafts[call[c].id] \in Kinds
      BY <1>4, <2>2
    <3>2. drafts'[call[c].id] = "absent"
      BY <1>1, <3>1, HandleEffect
    <3> QED BY <3>1, <3>2 DEF SameQuestion
  <2> QED BY <2>1, <2>2
<1> QED BY <1>3, <1>4 DEF DraftInv

LEMMA ScriptDrafts ==
    ASSUME TypeInv, Shapes, DraftInv, NEW c \in Calls, Script(c) PROVE DraftInv'
<1>1. StepFits(call[c].step, call[c].op, object[c], pending[c])
  BY DEF Shapes, Shape
<1>2. CASE Drop(c)
  <2> DEFINE there == drafts[call[c].id] \in Kinds
             answer == IF call[c].op = "delete_draft" /\ drafts[call[c].id] \notin Kinds
                       THEN "error" ELSE "ok"
  <2>1. Handle(c, "drop") /\ call[c].step = "drop" /\ call[c] \in CallRecord
    BY <1>2 DEF Drop, Handled, At, TypeInv
  <2>2. call' = [call EXCEPT ![c] = [call[c] EXCEPT !.step = "done", !.at = "drop",
                                        !.answer = answer, !.removed = there]]
    BY <1>2, <2>1 DEF Drop, TypeInv, CallRecord
  <2> HIDE DEF there, answer
  <2>3. /\ call'[c].op = call[c].op /\ call'[c].id = call[c].id /\ call'[c].step = "done"
        /\ call'[c].removed = there
        /\ \A e \in Calls \ {c} : call'[e] = call[e]
    BY <2>1, <2>2 DEF TypeInv, CallRecord
  <2>4. call[c].id \in Ids /\ (call[c].op = "send_draft" => object[c] = "accepted")
    BY <1>1, <2>1 DEF StepFits, TypeInv, Targeted
  <2>5. \A e \in Calls : SameQuestion(e) /\ (e # c => call'[e].removed = call[e].removed)
    BY <2>3 DEF SameQuestion
  <2>6. call'[c].removed => call[c].id \in Ids /\ drafts[call[c].id] \in Kinds
    BY <2>3, <2>4 DEF there
  <2> QED BY <2>1, <2>4, <2>5, <2>6, RemovalDrafts
<1>3. CASE ~Drop(c)
  <2>1. \/ Untouched
        \/ \E event \in {"make", "fill", "address", "rollback", "send"} : Handle(c, event)
    BY <1>3 DEF Script, Make, Fill, Address, Send, ReadOutbox, RollBack, DeleteIgnored, Probe, Handled
  <2>2. Lasting /\ dropped' \subseteq dropped
    <3>1. {"make", "fill", "address", "rollback", "send"} \subseteq Events
      BY DEF Events
    <3> QED BY <2>1, <3>1, HandleLasts DEF Untouched, Lasting
  <2>3. \/ \E s \in {"address", "fill", "send", "outbox", "drop", "probe"} : Goes(c, s)
        \/ \E a \in {"ok", "leftover", "error"} : Answer(c, a)
    BY <1>3 DEF Script, Make, Fill, Address, Send, ReadOutbox, AfterOutbox, RollBack, DeleteIgnored,
                Probe
  <2>4. /\ {"address", "fill", "send", "outbox", "drop", "probe"} \subseteq Steps \ {"read", "idle"}
        /\ {"ok", "leftover", "error"} \subseteq Answers
    BY DEF Steps, Scripted, Reading, Answers
  <2> QED BY <2>2, <2>3, <2>4, GoesAsks, DraftsLast
<1> QED BY <1>2, <1>3

LEMMA FaultDrafts ==
    ASSUME TypeInv, Shapes, DraftInv, NEW c \in Calls, Fault(c) PROVE DraftInv'
<1>1. CASE HandledLate(c)
  <2>1. pending[c] \in Events /\ Handle(c, pending[c]) /\ call' = call
    BY <1>1 DEF HandledLate, TypeInv, TypeOK, Events
  <2>2. \A e \in Calls : SameQuestion(e) /\ call'[e].removed = call[e].removed
    BY <2>1 DEF SameQuestion
  <2>3. CASE pending[c] = "drop"
    <3>1. call[c].step # "idle" /\ (call[c].op = "send_draft" => object[c] = "accepted")
      BY <2>3 DEF Shapes, Shape, StepFits, AnswerFits
    <3> QED BY <2>1, <2>2, <2>3, <3>1, RemovalDrafts
  <2>4. CASE pending[c] # "drop"
    BY <2>1, <2>2, <2>4, HandleLasts, DraftsLast
  <2> QED BY <2>3, <2>4
<1>2. CASE EventFails(c) \/ ScriptTimesOut(c) \/ HostKills(c)
  <2>1. Lasting /\ dropped' \subseteq dropped
    BY <1>2 DEF EventFails, ScriptTimesOut, HostKills, Unanswered, Untouched, Lasting
  <2>2. \/ \E s \in {"rollback", "probe", "drop"} : Goes(c, s)
        \/ \E a \in {"leftover", "ok", "timeout", "unsure", "error"} : Answer(c, a)
    BY <1>2 DEF EventFails, ScriptTimesOut, HostKills, OnError, OnKill, AfterOutbox, DropFailed,
                TimeoutText
  <2>3. /\ {"rollback", "probe", "drop"} \subseteq Steps \ {"read", "idle"}
        /\ {"leftover", "ok", "timeout", "unsure", "error"} \subseteq Answers
    BY DEF Steps, Scripted, Reading, Answers
  <2> QED BY <2>1, <2>2, <2>3, GoesAsks, DraftsLast
<1> QED BY <1>1, <1>2 DEF Fault

LEMMA StepDrafts ==
    ASSUME TypeInv, Shapes, DraftInv, ~QuitMayAccept, [Next]_vars PROVE DraftInv'
<1>1. ASSUME call' = call, Lasting, dropped' \subseteq dropped PROVE DraftInv'
  BY <1>1, DraftsLast DEF SameQuestion
<1>2. CASE UNCHANGED vars
  BY <1>1, <1>2 DEF vars, Lasting
<1>3. CASE MailQuits
  <2>1. object' = [c \in Calls |-> IF object[c] = "live" THEN "gone" ELSE object[c]]
        /\ UNCHANGED <<drafts, call, dropped>>
    BY <1>3 DEF MailQuits
  <2> QED BY <1>1, <2>1 DEF Lasting
<1>4. CASE User
  <2>1. UNCHANGED <<call, object, dropped>>
    BY <1>4 DEF User, Saves, Removes, Edits, RemovesAccount
  <2>2. \A d \in Ids : drafts[d] = "absent" => drafts'[d] = "absent"
    BY <1>4 DEF User, Saves, Removes, Edits, RemovesAccount, Kinds, TypeInv, TypeOK
  <2> QED BY <1>1, <2>1, <2>2 DEF Lasting
<1>5. CASE \E c \in Calls : Begin(c) \/ Script(c) \/ Fault(c)
  BY <1>5, BeginDrafts, ScriptDrafts, FaultDrafts
<1> QED BY <1>2, <1>3, <1>4, <1>5 DEF Next

\* The approved copy leaves Drafts only once Mail has accepted its text, also when Mail
\* handles the removal after the script was given up; and draft_removed is final.
THEOREM DraftsFollow == ASSUME ~QuitMayAccept PROVE Spec => []DraftsFollowSends
<1>1. Init => DraftInv
  BY DEF Init, DraftInv, Nothing
<1>2. DraftInv => DraftsFollowSends
  BY DEF DraftInv, DraftsFollowSends
<1> QED BY <1>1, <1>2, InitShape, StepShapes, StepDrafts, PTL DEF Spec

=============================================================================
