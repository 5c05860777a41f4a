---------------------------- MODULE OutgoingMail ----------------------------
(***************************************************************************)
(* The scripts that build an outgoing message in Mail (mail_outgoing.py,   *)
(* mail_drafts.py): send_mail with fresh text or with a stored draft,      *)
(* forward_mail, create_draft, and delete_draft.  reply_all has its own    *)
(* flow, which is NativeReply.                                             *)
(*                                                                         *)
(* A call is a row of Apple events.  Mail may answer one, refuse it, not   *)
(* answer in time (the event may still be handled later), or quit.  Two    *)
(* timeouts may give up on an unanswered event: the script's own, which an *)
(* error handler of the script sees, and the host's, which kills the       *)
(* script.  A text is not modelled: an id of a draft stands for one text,  *)
(* and an edit is saved under a new id.                                    *)
(***************************************************************************)
EXTENDS FiniteSets

CONSTANTS
    Calls,          \* tool calls, each made once
    Ids,            \* Message-IDs of drafts
    Addresses,      \* addresses a caller or a stored draft names as the sender
    Default,        \* Mail's default sender; as a request: no sender was named
    StoredSender,   \* the sender a draft was saved with
    QuitMayAccept   \* TRUE: Mail may accept a message and quit before it answers

ASSUME OutgoingAssumption ==
    /\ Default \notin Addresses
    /\ StoredSender \in [Ids -> Addresses]
    /\ QuitMayAccept \in BOOLEAN

VARIABLES
    drafts,     \* the Drafts mailbox: what each Message-ID is
    owned,      \* addresses some Mail account owns
    call,       \* the tool calls
    object,     \* the outgoing message of each call, in Mail
    sender,     \* what that message goes out from
    pending,    \* the event of a call that Mail has not handled yet
    dropped     \* drafts that a script removed, with the call it ran for

vars == <<drafts, owned, call, object, sender, pending, dropped>>

Operations == {"send", "send_draft", "forward", "create_draft", "delete_draft"}
Sending == {"send", "send_draft", "forward"}
Kinds == {"plain", "attached", "threaded", "unaddressed"}
Nothing == [op |-> "send", id |-> Default, from |-> Default, dry |-> FALSE,
            step |-> "idle", answer |-> "none", at |-> "idle", removed |-> FALSE]

Init ==
    /\ drafts = [d \in Ids |-> "unborn"]
    /\ owned = Addresses
    /\ call = [c \in Calls |-> Nothing]
    /\ object = [c \in Calls |-> "none"]
    /\ sender = [c \in Calls |-> Default]
    /\ pending = [c \in Calls |-> "none"]
    /\ dropped = {}

-----------------------------------------------------------------------------
At(c, step) == call[c].step = step
Answer(c, answer) ==
    call' = [call EXCEPT ![c].step = "done", ![c].answer = answer, ![c].at = call[c].step]
Goes(c, step) == call' = [call EXCEPT ![c].step = step]

\* Nothing of the call is in Mail or on its way to it.
Untouched == UNCHANGED <<drafts, owned, object, sender, pending, dropped>>

(***************************************************************************)
(* The builders.  A preview of fresh text or of a forward makes no call    *)
(* into Mail; a stored draft is read for its preview and for its send.     *)
(***************************************************************************)
FirstStep(op, from, dry) ==
    CASE op = "send_draft" -> "read"
      [] op = "delete_draft" -> IF dry THEN "resolve" ELSE "drop"
      [] OTHER -> IF dry THEN "preview" ELSE IF from # Default THEN "owned" ELSE "make"

Request(c, op, id, from, dry) ==
    /\ At(c, "idle")
    /\ op = "create_draft" => ~dry
    /\ op \in {"send_draft", "delete_draft"} <=> id # Default
    /\ op \notin {"send", "create_draft"} => from = Default
    /\ call' = [call EXCEPT ![c] =
            [Nothing EXCEPT !.op = op, !.id = id, !.from = from, !.dry = dry,
             !.step = FirstStep(op, from, dry)]]
    /\ Untouched

RefuseArguments(c) == At(c, "idle") /\ Answer(c, "error") /\ Untouched

Preview(c) == At(c, "preview") /\ Answer(c, "preview") /\ Untouched

\* owned_sender: before any native write.
CheckOwner(c) ==
    /\ At(c, "owned")
    /\ IF call[c].from \in owned THEN Goes(c, "make") ELSE Answer(c, "error")
    /\ Untouched

\* A draft that a rebuild would degrade is refused.
Sendable(d) == drafts[d] = "plain"
ReadDraft(c) ==
    /\ At(c, "read")
    /\ IF ~Sendable(call[c].id) THEN Answer(c, "error")
       ELSE IF call[c].dry THEN Answer(c, "preview")
       ELSE call' = [call EXCEPT ![c].step = "make", ![c].from = StoredSender[call[c].id]]
    /\ Untouched

ResolveDraft(c) ==
    /\ At(c, "resolve")
    /\ Answer(c, IF drafts[call[c].id] \in Kinds THEN "preview" ELSE "error")
    /\ Untouched

(***************************************************************************)
(* What one event does in Mail when it handles it, now or late.            *)
(***************************************************************************)
Handle(c, event) ==
    /\ object' = [object EXCEPT ![c] =
            CASE event = "make" /\ @ = "none" -> "live"
              [] event = "send" /\ @ = "live" -> "accepted"
              [] event = "rollback" /\ @ = "live" -> "gone"
              [] OTHER -> @]
    /\ LET gone == {d \in Ids : event = "drop" /\ d = call[c].id /\ drafts[d] \in Kinds} IN
        /\ drafts' = [d \in Ids |-> IF d \in gone THEN "absent" ELSE drafts[d]]
        /\ dropped' = dropped \cup ({c} \X gone)
    /\ sender' = [sender EXCEPT ![c] =
            IF event # "fill" THEN @
            ELSE IF call[c].from \in owned THEN call[c].from ELSE Default]
    /\ UNCHANGED owned

Handled(c, event) == At(c, event) /\ Handle(c, event) /\ UNCHANGED pending

Make(c) ==
    /\ Handled(c, "make")
    /\ Goes(c, IF call[c].op = "forward" THEN "address" ELSE "fill")

Fill(c) ==
    /\ object[c] = "live"
    /\ Handled(c, "fill")
    /\ IF call[c].op = "create_draft" THEN Answer(c, "ok") ELSE Goes(c, "send")

\* A forward gets recipients only: its content and sender are never written.
Address(c) == object[c] = "live" /\ Handled(c, "address") /\ Goes(c, "send")

\* The verb stands after the script's `try`.
Send(c) == object[c] = "live" /\ Handled(c, "send") /\ Goes(c, "outbox")

\* with_outbox_pending never raises: the send has happened.
AfterOutbox(c) ==
    IF call[c].op = "send_draft" THEN Goes(c, "drop") ELSE Answer(c, "ok")
ReadOutbox(c) == At(c, "outbox") /\ AfterOutbox(c) /\ Untouched

Drop(c) ==
    /\ Handled(c, "drop")
    /\ call' = [call EXCEPT ![c].step = "done", ![c].at = "drop",
            ![c].answer = IF call[c].op = "delete_draft" /\ drafts[call[c].id] \notin Kinds
                          THEN "error" ELSE "ok",
            ![c].removed = drafts[call[c].id] \in Kinds]

(***************************************************************************)
(* rollback(): delete the message, then prove it by reading it.            *)
(***************************************************************************)
RollBack(c) == Handled(c, "rollback") /\ Goes(c, "probe")
DeleteIgnored(c) == At(c, "rollback") /\ Goes(c, "probe") /\ Untouched
\* Mutant: the delete is believed.
ProbeBelievesDelete(c) == At(c, "probe") /\ Answer(c, "error") /\ Untouched

Probe(c) ==
    /\ At(c, "probe")
    /\ Answer(c, IF object[c] = "live" THEN "leftover" ELSE "error")
    /\ Untouched

(***************************************************************************)
(* An event fails, or nobody answers it.                                   *)
(***************************************************************************)
Scripted == {"make", "fill", "address", "rollback", "probe", "send"}
InTry == {"fill", "address"}
Reading == {"read", "owned", "resolve"}
InMail == Scripted \cup Reading \cup {"outbox", "drop"}

\* Mutant: no _send_may_have_happened around the dispatch.
GenericTimeoutText(c) == IF At(c, "preview") THEN "unsure" ELSE "timeout"

\* _send_may_have_happened: a timeout around a script that holds `send`.
TimeoutText(c) ==
    IF call[c].step \in Scripted /\ call[c].op \in Sending THEN "unsure" ELSE "timeout"

\* Mutant: the failed delete still answers draft_removed.
DropFailedUnseen(c, otherwise) ==
    IF call[c].op = "send_draft"
    THEN call' = [call EXCEPT ![c].step = "done", ![c].answer = "ok", ![c].removed = TRUE]
    ELSE Answer(c, otherwise)

\* _drop_sent_draft answers False, and the call is ok: the send has happened.
DropFailed(c, otherwise) ==
    Answer(c, IF call[c].op = "send_draft" THEN "ok" ELSE otherwise)

\* What the script's handlers and the Python around it do with an error.
OnError(c, otherwise) ==
    CASE call[c].step \in InTry -> Goes(c, "rollback")
      [] At(c, "rollback") -> Goes(c, "probe")
      [] At(c, "probe") -> Answer(c, "leftover")
      [] At(c, "outbox") -> AfterOutbox(c)
      [] At(c, "drop") -> DropFailed(c, otherwise)
      [] OTHER -> Answer(c, otherwise)

OnKill(c) ==
    CASE At(c, "outbox") -> AfterOutbox(c)
      [] At(c, "drop") -> DropFailed(c, "timeout")
      [] OTHER -> Answer(c, TimeoutText(c))

EventFails(c) == call[c].step \in InMail /\ OnError(c, "error") /\ Untouched

Unanswered(c) ==
    /\ call[c].step \in InMail
    /\ pending' = [pending EXCEPT ![c] =
            IF call[c].step \in {"make", "rollback", "send", "drop"} THEN call[c].step ELSE @]
    /\ UNCHANGED <<drafts, owned, object, sender, dropped>>

ScriptTimesOut(c) == Unanswered(c) /\ OnError(c, TimeoutText(c))
HostKills(c) == Unanswered(c) /\ OnKill(c)

HandledLate(c) ==
    /\ pending[c] # "none"
    /\ Handle(c, pending[c])
    /\ pending' = [pending EXCEPT ![c] = "none"]
    /\ UNCHANGED call

\* Mail quits: messages that it has not accepted are lost with it, and the event
\* that was on its way fails (AppNotRunning).
MailQuits ==
    \E accepted \in SUBSET {c \in Calls : At(c, "send") /\ object[c] = "live"} :
        /\ accepted # {} => QuitMayAccept
        /\ \E c \in Calls : object[c] = "live" \/ pending[c] # "none"
        /\ object' = [c \in Calls |-> IF c \in accepted THEN "accepted"
                                     ELSE IF object[c] = "live" THEN "gone" ELSE object[c]]
        /\ pending' = [c \in Calls |-> "none"]
        /\ UNCHANGED <<drafts, owned, call, sender, dropped>>

(***************************************************************************)
(* The user.                                                               *)
(***************************************************************************)
Saves(d, kind) ==
    /\ drafts[d] = "unborn"
    /\ drafts' = [drafts EXCEPT ![d] = kind]
    /\ UNCHANGED <<owned, call, object, sender, pending, dropped>>
Removes(d) ==
    /\ drafts[d] \in Kinds
    /\ drafts' = [drafts EXCEPT ![d] = "absent"]
    /\ UNCHANGED <<owned, call, object, sender, pending, dropped>>
Edits(old, new) ==
    /\ drafts[old] \in Kinds /\ drafts[new] = "unborn"
    /\ drafts' = [drafts EXCEPT ![old] = "absent", ![new] = drafts[old]]
    /\ UNCHANGED <<owned, call, object, sender, pending, dropped>>
RemovesAccount(a) ==
    /\ a \in owned
    /\ owned' = owned \ {a}
    /\ UNCHANGED <<drafts, call, object, sender, pending, dropped>>

-----------------------------------------------------------------------------
Begin(c) ==
    \/ \E op \in Operations, id \in Ids \cup {Default},
          from \in Addresses \cup {Default}, dry \in BOOLEAN : Request(c, op, id, from, dry)
    \/ RefuseArguments(c) \/ Preview(c)
    \/ CheckOwner(c) \/ ReadDraft(c) \/ ResolveDraft(c)

Script(c) ==
    Make(c) \/ Fill(c) \/ Address(c) \/ Send(c) \/ ReadOutbox(c) \/ Drop(c)
    \/ RollBack(c) \/ DeleteIgnored(c) \/ Probe(c)

Fault(c) == EventFails(c) \/ ScriptTimesOut(c) \/ HostKills(c) \/ HandledLate(c)

User ==
    \/ \E d \in Ids, kind \in Kinds : Saves(d, kind)
    \/ \E d \in Ids : Removes(d)
    \/ \E old, new \in Ids : Edits(old, new)
    \/ \E a \in Addresses : RemovesAccount(a)

Next == (\E c \in Calls : Begin(c) \/ Script(c) \/ Fault(c)) \/ MailQuits \/ User

Spec == Init /\ [][Next]_vars

-----------------------------------------------------------------------------
TypeOK ==
    /\ drafts \in [Ids -> Kinds \cup {"unborn", "absent"}]
    /\ owned \subseteq Addresses
    /\ object \in [Calls -> {"none", "live", "accepted", "gone"}]
    /\ sender \in [Calls -> Addresses \cup {Default}]
    /\ pending \in [Calls -> {"none", "make", "rollback", "send", "drop"}]
    /\ dropped \subseteq Calls \X Ids

\* A caller may retry an error that carries no warning: whatever was lost, late or
\* killed on the way, such a call sent nothing and never will, a preview built
\* nothing, and a send that answers ok was accepted.  (deliver,
\* _send_may_have_happened, with_outbox_pending, _drop_sent_draft)
UnwarnedErrorSentNothing ==
    \A c \in Calls :
        /\ call[c].answer \in {"error", "leftover", "timeout"} =>
               object[c] # "accepted" /\ pending[c] # "send"
        /\ call[c].answer = "preview" => object[c] = "none" /\ pending[c] = "none"
        /\ call[c].answer = "ok" /\ call[c].op \in Sending => object[c] = "accepted"

\* When rollback() ends in the plain error, the partial message is proved gone: no
\* live message stays in Mail that the error does not tell of.  (ROLLBACK)
RollbackIsHonest ==
    \A c \in Calls :
        call[c].answer = "error" /\ call[c].at # "send" => object[c] # "live"

\* The approved copy leaves Drafts only after its text was accepted, and once the
\* caller reads draft_removed it can never be sent from there again.
\* (MailAdapter.send, _drop_sent_draft)
DraftsFollowSends ==
    /\ \A pair \in dropped :
           call[pair[1]].op = "send_draft" => object[pair[1]] = "accepted"
    /\ \A c \in Calls : call[c].removed => drafts[call[c].id] = "absent"

\* Every error of a script tells of the partial message that it leaves: "past that
\* verb the honest move is to report the leftover".  Does not hold: a refused `send`
\* is re-raised as it is.
LeftoverIsReported ==
    \A c \in Calls : call[c].answer = "error" => object[c] # "live"

\* A message goes out from the sender its result reports.  Does not hold: the sender
\* of a stored draft is not checked by owned_sender.
SentFromAsReported ==
    \A c \in Calls :
        call[c].answer = "ok" /\ call[c].op = "send_draft" => sender[c] = call[c].from
=============================================================================
