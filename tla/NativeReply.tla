---------------------------- MODULE NativeReply ----------------------------
(***************************************************************************)
(* mail_outgoing.open_reply_with_text and _ReplyFlow, with the Drafts      *)
(* sweep of mail_reply_cleanup: one native reply (mail_reply) or reply-all *)
(* (reply_all, which sends), from the baseline reads to what the caller is *)
(* told.  The insert itself is ClipboardPaste.                             *)
(*                                                                         *)
(* The whole call is one closure on the native worker, so no other native  *)
(* call of the process comes between its steps; Mail, its user and other   *)
(* programs do.  Mail saves a copy of the reply into Drafts at a time of   *)
(* its own, even after the window went.  Time is a clock in ticks, because *)
(* what the call says rests on when it reads.                              *)
(***************************************************************************)
EXTENDS ClipboardPaste, FiniteSets

CONSTANTS
    None,         \* Python's None: a time or an index top that was not read
    SweepAfter,   \* SWEEP_AFTER_S, in ticks
    SweepGap,     \* SWEEP_GAP_S
    ClaimSpan,    \* CLAIM_SPAN_S = ORIGINAL_TIMEOUT
    Lag,          \* a copy lands at most so long after its window went
    OpenBy,       \* bound on the clock up to the answer of the open
    Horizon,      \* bound on the clock
    MaxOthers,    \* bound on the rows of others that land meanwhile
    Older,        \* what an earlier reply to the same original may have left
    Rivals        \* whether another program may script a reply to it meanwhile

ASSUME NoneAssumption == None \notin Nat

ASSUME TimesAssumption ==
    /\ SweepAfter \in Nat /\ SweepGap \in Nat /\ ClaimSpan \in Nat /\ Lag \in Nat
    /\ OpenBy \in Nat /\ Horizon \in Nat /\ MaxOthers \in Nat

\* The sitting on the device proved reads that follow the discard by the gap.
ASSUME LagAssumption == Lag < SweepGap

ASSUME OthersAssumption ==
    Older \subseteq {"none", "same", "landing"} /\ Rivals \in BOOLEAN

VARIABLES
    now,          \* the clock
    goneAt,       \* when the reply window went, if it did
    rows,         \* Mail's index: the rows that thread to the original, by ROWID
    saved,        \* whether Mail saved its copy of the reply
    older,        \* an earlier scripted reply to the same original
    rival,        \* a reply to it that another program scripts
    flow,         \* _ReplyFlow's fields
    claimed,      \* the row find_own_draft proved to be the call's, or NoRow
    said          \* what the caller was told, and of the Drafts copy

flowVars == <<now, goneAt, rows, saved, older, rival, flow, claimed, said>>
vars == <<pasteVars, flowVars>>

NoRow == 0
Running == [as |-> "running", copy |-> "unswept"]

Row == [by : {"reply", "older", "hand", "sent"},
        box : {"drafts", "family", "sentbox", "folder"},   \* drafts: of the sending account
        ours : BOOLEAN,      \* reads like the call's own: its text, its quote, a Message-ID
        gone : BOOLEAN]

Answers == {"unasked", "dead", "alive", "unknown", "none", "several", "original-missing"}
Refusals == {"nothing", "still_land", "drafts_left", "window_left", "left_over"}
Verdicts == {"none", "late", "removed", "unproven", "unavailable"}

Flow == [index_top : Nat \cup {None}, landed_by : Nat \cup {None}, started_at : Nat,
         opened_at : Nat \cup {None}, discarded_at : Nat \cup {None}, id_known : BOOLEAN,
         discarded : Answers, sent : BOOLEAN, next : {"newer", "sweep"}]

Said == [as : Refusals \cup {"running", "not_started", "ok", "sent", "send_unsure"},
         copy : Verdicts \cup {"unswept"}]

TypeOK ==
    /\ PasteTypeOK
    /\ pc \in InsertSteps \cup {"facts", "baseline", "top", "open", "refusing", "confirmed",
                                "top_after", "sweep", "delete", "word", "ended"}
    /\ now \in Nat
    /\ goneAt \in Nat \cup {None}
    /\ rows \in Seq(Row)
    /\ saved \in BOOLEAN
    /\ older \in {"none", "same", "landing"}
    /\ rival \in {"none", "open", "dead"}
    /\ flow \in Flow
    /\ claimed \in Nat
    /\ said \in Said

Init ==
    /\ PasteInit
    /\ pc = "facts"
    /\ window = "none"
    /\ now = 0
    /\ goneAt = None
    /\ rows = <<>>
    /\ saved = FALSE
    /\ older \in Older
    /\ rival = "none"
    /\ flow = [index_top |-> None, landed_by |-> None, started_at |-> 0,
               opened_at |-> None, discarded_at |-> None, id_known |-> FALSE,
               discarded |-> "unasked", sent |-> FALSE, next |-> "sweep"]
    /\ claimed = NoRow
    /\ said = Running

-----------------------------------------------------------------------------
(* What changes together. *)

CallUnchanged == UNCHANGED <<replace_all, clipboard, insert>>
OthersUnchanged == UNCHANGED <<now, rows, saved, older, rival>>

\* Mail's windows change as the step says; a window that goes leaves a time.
WindowBecomes(w) ==
    /\ window' = w
    /\ goneAt' = IF w \in {"dead", "sent"} /\ goneAt = None THEN now ELSE goneAt
    /\ UNCHANGED <<body, keys>>

\* A reply that is discarded takes its body along; keys for it change no reply any more.
WindowGoes ==
    /\ window' = "dead"
    /\ goneAt' = IF goneAt = None THEN now ELSE goneAt
    /\ body' = [top |-> <<>>, quote |-> FALSE, selected |-> FALSE]
    /\ keys' = <<>>

SameWindow == UNCHANGED <<window, goneAt, body, keys>>

Say(as, copy) ==
    /\ pc' = "ended"
    /\ said' = [as |-> as, copy |-> copy]

-----------------------------------------------------------------------------
(* Up to the window. *)

\* Accessibility off, the original unreadable or without a tail, a baseline that cannot
\* be read: the call ends and nothing was created.
NotStarted ==
    /\ pc \in {"facts", "baseline"}
    /\ Say("not_started", "unswept")
    /\ SameWindow /\ CallUnchanged /\ OthersUnchanged /\ UNCHANGED <<flow, claimed>>

QuoteFacts ==
    /\ pc = "facts" /\ pc' = "baseline"
    /\ SameWindow /\ CallUnchanged /\ OthersUnchanged /\ UNCHANGED <<flow, claimed, said>>

\* _OUTGOING_IDS; what it lists is older's window, when there is one.
ReadBaseline ==
    /\ pc = "baseline" /\ pc' = "top"
    /\ SameWindow /\ CallUnchanged /\ OthersUnchanged /\ UNCHANGED <<flow, claimed, said>>

\* The index top; the flow starts here.  None when the index cannot be read.
ReadTop ==
    /\ pc = "top" /\ pc' = "open"
    /\ \E top \in {Len(rows), None} :
          flow' = [flow EXCEPT !.index_top = top, !.started_at = now]
    /\ SameWindow /\ CallUnchanged /\ OthersUnchanged /\ UNCHANGED <<claimed, said>>

OpenAnswers ==
    /\ pc = "open" /\ pc' = "insert"
    /\ WindowBecomes("open")
    /\ flow' = [flow EXCEPT !.opened_at = now, !.id_known = TRUE]
    /\ CallUnchanged /\ OthersUnchanged /\ UNCHANGED <<claimed, said>>

\* An error before the verb, an error rolled back by the script (or not), an answer that
\* does not parse, a timeout whose verb Mail still handles: the outgoing id is unknown.
OpenFails ==
    /\ pc = "open" /\ pc' = "refusing"
    /\ WindowGoes \/ \E w \in {"none", "open", "coming"} : WindowBecomes(w)
    /\ flow' = [flow EXCEPT !.opened_at = now]
    /\ CallUnchanged /\ OthersUnchanged /\ UNCHANGED <<claimed, said>>

-----------------------------------------------------------------------------
(* THE DISCARD RULE. *)

\* After the rollback of the insert the clipboard comes back; the refusal goes on to its
\* sweep.  A discard that ran answers the second caller from its field.
AfterDiscard == IF pc = "rollback" THEN "newer" ELSE "sweep"

Discarded(answer) ==
    /\ pc' = "top_after"
    /\ flow' = [flow EXCEPT !.discarded = answer, !.discarded_at = now,
                            !.next = AfterDiscard]
    /\ CallUnchanged /\ OthersUnchanged /\ UNCHANGED <<claimed, said>>

MayDiscard == pc \in {"rollback", "refusing"} /\ flow.discarded = "unasked"

\* The verifying rollback: dead is Mail's -1728 for a reply that is gone.
DiscardOutgoing ==
    /\ MayDiscard /\ flow.id_known
    /\ \/ Discarded("dead") /\ window \in {"open", "dead"} /\ WindowGoes
       \/ Discarded("alive") /\ window \in {"open", "sent"} /\ SameWindow

\* The outgoing messages that are new since the baseline and answer the original.
Candidates ==
    (IF window = "open" THEN {"reply"} ELSE {})
        \cup (IF rival = "open" THEN {"rival"} ELSE {})

\* The id-free discard: Mail handles it after the open it may still have queued.
DiscardNewReply ==
    /\ MayDiscard /\ ~flow.id_known /\ window # "coming"
    /\ \/ Discarded("original-missing") /\ SameWindow
       \/ Candidates = {} /\ Discarded("none") /\ SameWindow
       \/ Cardinality(Candidates) > 1 /\ Discarded("several") /\ SameWindow
       \/ Candidates = {"reply"} /\ Discarded("dead") /\ WindowGoes
       \/ Cardinality(Candidates) = 1 /\ Discarded("alive") /\ SameWindow

DiscardRival ==
    /\ MayDiscard /\ ~flow.id_known /\ window # "coming"
    /\ Candidates = {"rival"}
    /\ rival' = "dead"
    /\ pc' = "top_after"
    /\ flow' = [flow EXCEPT !.discarded = "dead", !.discarded_at = now,
                            !.next = AfterDiscard]
    /\ SameWindow /\ CallUnchanged
    /\ UNCHANGED <<now, rows, saved, older, claimed, said>>

\* The script failed or timed out, before or after the delete.
DiscardUnknown ==
    /\ MayDiscard
    /\ Discarded("unknown")
    /\ SameWindow \/ (window = "open" /\ WindowGoes)

DiscardAgain ==
    /\ pc = "refusing" /\ flow.discarded # "unasked"
    /\ pc' = "sweep"
    /\ SameWindow /\ CallUnchanged /\ OthersUnchanged /\ UNCHANGED <<flow, claimed, said>>

\* window_gone: the index top right after the discard, or the send, answered.
ReadTopAfter ==
    /\ pc = "top_after" /\ pc' = flow.next
    /\ \E top \in {Len(rows), None} : flow' = [flow EXCEPT !.landed_by = top]
    /\ SameWindow /\ CallUnchanged /\ OthersUnchanged /\ UNCHANGED <<claimed, said>>

-----------------------------------------------------------------------------
(* The sweep. *)

\* The live rows that are new since the baseline.
NewRows == {i \in flow.index_top + 1 .. Len(rows) : ~rows[i].gone}

\* A Drafts row that landed before the window went and reads like the call's own.
Own(i) ==
    /\ flow.landed_by # None /\ i <= flow.landed_by
    /\ rows[i].box \in {"drafts", "family"}
    /\ rows[i].ours

\* A copy of the message that was sent.
SentTwin(i) == flow.sent /\ rows[i].box = "sentbox" /\ rows[i].ours

FoundRows == {i \in NewRows : ~SentTwin(i)}

\* The same without the gap.
LateNoGap == flow.discarded_at = None

\* The gap between the discard and the read, without which "no copy" is not said.
Late == flow.discarded_at = None \/ now - flow.discarded_at < SweepGap

\* _may_claim without the windows of the baseline.
MayClaimAnyWindow(i) ==
    /\ flow.discarded_at # None
    /\ flow.discarded_at - flow.started_at <= ClaimSpan
    /\ flow.id_known /\ rows[i].box = "drafts"

\* _may_claim: the span, the account the reply is sent from (its From comes with the
\* outgoing id), the windows that were open at the start.  A read that fails is SweepUnreadable's answer.
MayClaim(i) ==
    /\ flow.discarded_at # None
    /\ flow.discarded_at - flow.started_at <= ClaimSpan
    /\ flow.id_known /\ rows[i].box = "drafts"
    /\ older # "same"

\* The wait counted from now instead of from the open.
SweepDueFromNow == now >= now + SweepAfter

SweepDue == flow.opened_at = None \/ now >= flow.opened_at + SweepAfter

\* What the caller is told, by the discard's answer and the sweep's.
Refusal(swept) ==
    CASE flow.discarded = "dead" /\ swept \in {"none", "removed"} -> "nothing"
      [] flow.discarded = "dead" /\ swept = "late" -> "still_land"
      [] flow.discarded = "dead" /\ swept \in {"unproven", "unavailable"} -> "drafts_left"
      [] flow.discarded # "dead" /\ swept = "removed" -> "window_left"
      [] OTHER -> "left_over"

Swept(verdict) ==
    /\ Say(IF flow.sent THEN "sent" ELSE Refusal(verdict), verdict)
    /\ SameWindow /\ CallUnchanged /\ OthersUnchanged /\ UNCHANGED <<flow, claimed>>

\* No read of the index, at the start or now: at once, or after the wait.
SweepUnavailable ==
    /\ pc = "sweep"
    /\ flow.index_top = None \/ SweepDue
    /\ Swept("unavailable")

\* A row that cannot be read, or more rows than are read.
SweepUnreadable ==
    /\ pc = "sweep" /\ flow.index_top # None /\ SweepDue
    /\ Swept("unproven")

SweepReads ==
    /\ pc = "sweep" /\ flow.index_top # None /\ SweepDue
    /\ IF FoundRows = {} THEN Swept(IF Late THEN "late" ELSE "none")
       ELSE /\ ~\E i \in FoundRows : FoundRows = {i} /\ Own(i) /\ MayClaim(i)
            /\ Swept("unproven")

SweepClaims ==
    /\ pc = "sweep" /\ flow.index_top # None /\ SweepDue
    /\ \E i \in FoundRows :
          /\ FoundRows = {i} /\ Own(i) /\ MayClaim(i)
          /\ claimed' = i
    /\ pc' = "delete"
    /\ SameWindow /\ CallUnchanged /\ OthersUnchanged /\ UNCHANGED <<flow, said>>

\* _SWEEP_DELETE: "deleted" only when the row is gone after the bounded delay.
SweepDeletes ==
    /\ pc = "delete"
    /\ rows' = [rows EXCEPT ![claimed].gone = TRUE]
    /\ Say(IF flow.sent THEN "sent" ELSE Refusal("removed"), "removed")
    /\ SameWindow /\ CallUnchanged
    /\ UNCHANGED <<now, saved, older, rival, flow, claimed>>

\* Several rows have the Message-ID, the delete is not confirmed, or the script failed.
SweepDeleteUnproven ==
    /\ pc = "delete"
    /\ rows' \in {rows, [rows EXCEPT ![claimed].gone = TRUE]}
    /\ Say(IF flow.sent THEN "sent" ELSE Refusal("unproven"), "unproven")
    /\ SameWindow /\ CallUnchanged
    /\ UNCHANGED <<now, saved, older, rival, flow, claimed>>

-----------------------------------------------------------------------------
(* The confirmed reply: mail_reply leaves it for review, reply_all sends it. *)

\* mail_reply: the window stays open for the user.
Reviewed ==
    /\ pc = "confirmed"
    /\ Say("ok", "unswept")
    /\ SameWindow /\ CallUnchanged /\ OthersUnchanged /\ UNCHANGED <<flow, claimed>>

SendAnswers ==
    /\ pc = "confirmed"
    /\ WindowBecomes("sent")
    /\ pc' = "top_after"
    /\ flow' = [flow EXCEPT !.discarded_at = now, !.sent = TRUE, !.next = "sweep"]
    /\ CallUnchanged /\ OthersUnchanged /\ UNCHANGED <<claimed, said>>

\* A failing send, a timeout included: Mail may have accepted it.  No discard, no sweep.
SendFails ==
    /\ pc = "confirmed"
    /\ SameWindow \/ WindowBecomes("sent")
    /\ Say("send_unsure", "unswept")
    /\ CallUnchanged /\ OthersUnchanged /\ UNCHANGED <<flow, claimed>>

-----------------------------------------------------------------------------
(* Mail, its user and other programs. *)

EnvironmentUnchanged ==
    UNCHANGED <<pc, replace_all, clipboard, insert, flow, claimed, said>>

\* The open that timed out is handled late.
LateOpen ==
    /\ window = "coming"
    /\ WindowBecomes("open")
    /\ EnvironmentUnchanged /\ UNCHANGED <<now, rows, saved, older, rival>>

\* May a copy of the reply still land?
MayLand ==
    /\ ~saved
    /\ \/ window = "open"
       \/ window \in {"dead", "sent"} /\ now <= goneAt + Lag

\* Only a read of the index tells when a row landed, so it lands right before one: "top",
\* "top_after" and "sweep" (there is none after it without an index top); or at last, when
\* the call has ended.
Lands(steps, row) ==
    /\ pc \in steps
    /\ pc \in {"top_after", "sweep"} => flow.index_top # None
    /\ rows' = Append(rows, row)

OtherLands(steps, row) ==
    /\ Cardinality({i \in 1..Len(rows) : rows[i].by # "reply"}) < MaxOthers
    /\ Lands(steps, row)

\* Mail saves its copy once, in the Drafts of the sending account or in one with a
\* localized name; a copy saved before the insert does not hold the text.  Whether it
\* does is told apart only where the sweep looks.
CopyLands ==
    /\ MayLand
    /\ saved' = TRUE
    /\ \E box \in {"drafts", "folder"}, ours \in BOOLEAN :
          /\ ours => flow.id_known /\ box = "drafts" /\ pc # "ended"
          /\ Lands({"top_after", "sweep", "ended"},
                   [by |-> "reply", box |-> box, ours |-> ours, gone |-> FALSE])
    /\ SameWindow /\ EnvironmentUnchanged /\ UNCHANGED <<now, older, rival>>

\* The sent message's own copy: a known Sent mailbox, or one with another name.
SentCopyLands ==
    /\ window = "sent"
    /\ \E box \in {"sentbox", "folder"} :
          OtherLands({"top_after", "sweep"},
                [by |-> "sent", box |-> box, ours |-> TRUE, gone |-> FALSE])
    /\ SameWindow /\ EnvironmentUnchanged /\ UNCHANGED <<now, saved, older, rival>>

\* An earlier reply to this original saves a copy: its window is still open ("same"), or
\* it went so late that its copy is still on the way ("landing").
OlderCopyLands ==
    /\ older \in {"same", "landing"}
    /\ OtherLands({"top_after", "sweep"},
             [by |-> "older", box |-> "drafts", ours |-> TRUE, gone |-> FALSE])
    /\ SameWindow /\ EnvironmentUnchanged /\ UNCHANGED <<now, saved, older, rival>>

\* Someone answers the same message by hand.  A hand draft that reads like the call's own
\* is in another account or lands once the window went: the one case the code cannot
\* tell, and says so, is left out (_is_own, the residual).
HandDraftLands ==
    /\ \E box \in {"drafts", "family"}, ours \in BOOLEAN :
          /\ ours /\ box = "drafts" => flow.landed_by # None \/ pc = "top"
          /\ ~ours => box = "drafts"
          /\ OtherLands({"top", "top_after", "sweep"},
                [by |-> "hand", box |-> box, ours |-> ours, gone |-> FALSE])
    /\ SameWindow /\ EnvironmentUnchanged /\ UNCHANGED <<now, saved, older, rival>>

\* Another program's reply to the original, scripted after the baseline was read; only the
\* id-free discard can meet it.
RivalOpens ==
    /\ Rivals /\ rival = "none"
    /\ pc = "refusing" /\ ~flow.id_known
    /\ rival' = "open"
    /\ SameWindow /\ EnvironmentUnchanged /\ UNCHANGED <<now, rows, saved, older>>

\* Time passes while the open runs, up to the answer of the discard or the send, and while
\* the sweep waits for a read.  No step of the insert asks the time: all of it is at its end.
Tick ==
    /\ pc \in {"open", "rollback", "refusing", "confirmed", "sweep"}
    /\ pc = "sweep" => flow.index_top # None
    /\ now < IF flow.opened_at = None THEN OpenBy ELSE Horizon
    /\ now' = now + 1
    /\ SameWindow /\ EnvironmentUnchanged /\ UNCHANGED <<rows, saved, older, rival>>

-----------------------------------------------------------------------------
Insert == InsertStep /\ UNCHANGED flowVars

Discard ==
    \/ DiscardOutgoing \/ DiscardNewReply \/ DiscardRival \/ DiscardUnknown
    \/ DiscardAgain \/ ReadTopAfter

Sweep ==
    \/ SweepUnavailable \/ SweepUnreadable \/ SweepReads \/ SweepClaims
    \/ SweepDeletes \/ SweepDeleteUnproven

Send == Reviewed \/ SendAnswers \/ SendFails

Begin == NotStarted \/ QuoteFacts \/ ReadBaseline \/ ReadTop \/ OpenAnswers \/ OpenFails

CallStep == Begin \/ Insert \/ Discard \/ Sweep \/ Send

Environment ==
    \/ MailHandlesKey /\ UNCHANGED flowVars
    \/ UserCopies /\ UNCHANGED flowVars
    \/ LateOpen \/ CopyLands \/ SentCopyLands \/ OlderCopyLands \/ HandDraftLands
    \/ RivalOpens

Next == CallStep \/ Environment \/ Tick

\* Every script has a host timeout, the paste a bound and the sweep one wait; time goes on.
Spec == Init /\ [][Next]_vars /\ WF_vars(CallStep) /\ WF_vars(Tick)

-----------------------------------------------------------------------------
(* Properties. *)

\* A report without a leftover is true, then and later: after "nothing was created and
\* nothing was sent" no reply window is open or about to open and no copy of the reply is
\* or comes to be in Mail; after a send, "no copy" and "removed" leave none; and a caller
\* who is refused may send again, since Mail did not accept that reply (refusal,
\* after_send, sweep, _send_reply).
CleanReportIsTrue ==
    /\ \/ said.as = "nothing"
       \/ said.as = "sent" /\ said.copy \in {"none", "removed"}
       => /\ window \notin {"open", "coming"}
          /\ ~\E i \in 1..Len(rows) : rows[i].by = "reply" /\ ~rows[i].gone
    /\ said.as \in Refusals => window # "sent"

\* The sweep never deletes what is not the call's own: not a draft written by hand, not an
\* earlier reply's copy, not the message that was sent (find_own_draft, _may_claim).
SweepTakesOnlyOwnCopy == \A i \in 1..Len(rows) : rows[i].gone => rows[i].by = "reply"

\* What is handed to the user for review, or sent, holds the text once, with Mail's quote
\* under it if and only if it was asked for, and no paste is still to come (_wait_settled,
\* _confirm).
KeptReplyHoldsTheText ==
    said.as \in {"ok", "sent", "send_unsure"} =>
        /\ body.top = <<"text">>
        /\ body.quote = ~replace_all
        /\ keys = <<>>

\* The clipboard's own content gets into a reply only when the discard of that reply was
\* tried before the clipboard came back, and failed (compose_insert's rollback).
ClipboardStaysOutOfReply ==
    window = "open" /\ (\E i \in 1..Len(body.top) : body.top[i] = "users")
        => flow.discarded \in {"alive", "unknown"}

\* The user finds on the clipboard what was copied last: the reply text never stays there,
\* and a copy made while the text is pasted, settles or is rolled back is not overwritten
\* (compose_insert's finally block; without a write mine is None, and that block does
\* not look).
NewestCopySurvivesAWrite ==
    pc = "confirm" /\ (insert.wrote \/ insert.copied = 0)
        => clipboard = IF insert.copied = 0 THEN "users" ELSE "newer"

\* The id-free discard never deletes another program's reply (the comment on
\* _DISCARD_NEW_REPLY).
DiscardTakesOnlyOwnReply == rival # "dead"

\* Every call ends and says something, whatever Mail and the user do.
EveryReplyEnds == <>(pc = "ended")
=============================================================================
