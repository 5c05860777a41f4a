--------------------------- MODULE ClipboardPaste ---------------------------
(***************************************************************************)
(* runtime.compose_insert: the text of a reply reaches Mail's compose body *)
(* by one Cmd-V from a clipboard that is borrowed and given back, while    *)
(* the user may copy something at any moment and Mail handles the keys     *)
(* that were posted to it when it likes, late or not at all.               *)
(*                                                                         *)
(* The module holds the steps of one call.  Its caller (NativeReply) opens *)
(* the window before them and runs `rollback', the discard of the reply,   *)
(* in the step "rollback"; the steps end in "confirmed" or "refusing".     *)
(* What is on the clipboard is told apart by whose it is: "users" is what  *)
(* the call found there, "text" is the reply text, "newer" what the user   *)
(* copied during the call, "none" an emptied clipboard.                    *)
(***************************************************************************)
EXTENDS Naturals, Sequences

CONSTANTS
    Instant,      \* steps so short that the user copies nothing in them
    MaxCopies     \* bound on the user's copies during the call

ASSUME CopiesAssumption == MaxCopies \in Nat

VARIABLES
    pc,           \* the next step of the call
    replace_all,  \* whether the whole body is replaced (a reply without the quote)
    window,       \* the reply window in Mail
    body,         \* its body: what was pasted on top, Mail's quote below, a selection
    keys,         \* the keys that were posted to Mail and not handled
    clipboard,    \* what the general pasteboard holds
    insert        \* the call's locals, and what it cannot see: alike and copied

pasteVars == <<pc, replace_all, window, body, keys, clipboard, insert>>

Contents == {"users", "text", "newer", "none"}

InsertSteps == {"insert", "snapshot", "window", "body", "check", "write", "mine",
                "press", "settling", "rollback", "newer", "restore", "confirm"}

Pasted == Seq({"users", "text", "newer"})

Body == [top : Pasted, quote : BOOLEAN, selected : BOOLEAN]

Locals == [snap : Contents, before : Pasted, unmoved : BOOLEAN, wrote : BOOLEAN,
           settled : BOOLEAN, alike : BOOLEAN, copied : 0..MaxCopies]

PasteTypeOK ==
    /\ replace_all \in BOOLEAN
    /\ window \in {"none", "coming", "open", "dead", "sent"}
    /\ body \in Body
    /\ keys \in Seq({"A", "V"})
    /\ clipboard \in Contents
    /\ insert \in Locals

\* unmoved: the changeCount is still what the call read last (`count', then `mine').
\* wrote: mine is not None.  alike: the body begins like the text before anything was
\* pasted (a text that is the beginning of the signature, or of Mail's attribution).
NotInserting == [snap |-> "none", before |-> <<>>, unmoved |-> FALSE, wrote |-> FALSE,
                 settled |-> FALSE, alike |-> FALSE, copied |-> 0]

PasteInit ==
    /\ replace_all \in BOOLEAN
    /\ body \in [top : {<<>>}, quote : BOOLEAN, selected : {FALSE}]
    /\ keys = <<>>
    /\ clipboard = "users"
    /\ insert = NotInserting

-----------------------------------------------------------------------------
(* What the Accessibility read of the body shows. *)

StartsWithText == IF body.top = <<>> THEN insert.alike ELSE Head(body.top) = "text"

\* The settle rule without "and changed since just before the key event".
SettledAtOnce == StartsWithText

Settled == StartsWithText /\ body.top # insert.before

\* _confirm: the text first, then the quote; after a whole-body replace nothing.
Confirmed ==
    /\ StartsWithText
    /\ IF replace_all THEN Len(body.top) = 1 /\ ~body.quote ELSE body.quote

-----------------------------------------------------------------------------
(* The steps of compose_insert. *)

SystemUnchanged == UNCHANGED <<replace_all, window, body, keys, clipboard>>

\* Accessibility off, an unknown tail, a clipboard that cannot be saved completely, a
\* window that is not Mail's front window, a body without the focus: a ComposeRefused
\* before anything was written.
InsertRefused ==
    /\ pc \in {"insert", "snapshot", "window", "body"}
    /\ pc' = "refusing"
    /\ insert' = NotInserting
    /\ SystemUnchanged

ReadCount ==
    /\ pc = "insert" /\ pc' = "snapshot"
    /\ insert' = [insert EXCEPT !.unmoved = TRUE]
    /\ SystemUnchanged

SaveClipboard ==
    /\ pc = "snapshot" /\ pc' = "window"
    /\ insert' = [insert EXCEPT !.snap = clipboard]
    /\ SystemUnchanged

\* Mail active, the window in front, the focus in its body; then Cmd-A for a reply
\* without a quote.
HoldWindow ==
    /\ pc = "window" /\ pc' = "body"
    /\ keys' = IF replace_all THEN Append(keys, "A") ELSE keys
    /\ UNCHANGED <<replace_all, window, body, clipboard, insert>>

\* alike: the body begins like the text before anything was pasted (a text that is the
\* beginning of the signature, or of Mail's own attribution).
ReadBodyBefore ==
    /\ pc = "body" /\ pc' = "check"
    /\ \E alike \in BOOLEAN :
          insert' = [insert EXCEPT !.before = body.top, !.alike = alike]
    /\ SystemUnchanged

CheckCount ==
    /\ pc = "check"
    /\ \/ insert.unmoved /\ pc' = "write" /\ UNCHANGED insert
       \/ ~insert.unmoved /\ pc' = "refusing" /\ insert' = NotInserting
    /\ SystemUnchanged

WriteText ==
    /\ pc = "write" /\ pc' = "mine"
    /\ clipboard' = "text"
    /\ insert' = [insert EXCEPT !.unmoved = FALSE]
    /\ UNCHANGED <<replace_all, window, body, keys>>

\* What nothing reads any more once the paste has not settled.
Unsettled == [insert EXCEPT !.before = <<>>, !.alike = FALSE]

\* clearContents went through and writeObjects raised: mine stays None.
WriteFails ==
    /\ pc = "write" /\ pc' = "rollback"
    /\ clipboard' = "none"
    /\ insert' = [Unsettled EXCEPT !.unmoved = FALSE]
    /\ UNCHANGED <<replace_all, window, body, keys>>

ReadMine ==
    /\ pc = "mine" /\ pc' = "press"
    /\ insert' = [insert EXCEPT !.wrote = TRUE, !.unmoved = TRUE]
    /\ SystemUnchanged

PressPaste ==
    /\ pc = "press" /\ pc' = "settling"
    /\ keys' = Append(keys, "V")
    /\ UNCHANGED <<replace_all, window, body, clipboard, insert>>

PasteSettles ==
    /\ pc = "settling" /\ pc' = "newer"
    /\ Settled
    /\ insert' = [insert EXCEPT !.settled = TRUE]
    /\ SystemUnchanged

\* The clipboard given back first, the reply discarded after it.
NotSettledKept ==
    /\ pc \in {"press", "settling"} /\ pc' = "newer"
    /\ insert' = Unsettled
    /\ SystemUnchanged

\* The key could not be posted, _PASTE_SETTLE_S went by, or an Accessibility read raised:
\* the caller's rollback runs before the clipboard comes back.
PasteDoesNotSettle ==
    /\ pc \in {"press", "settling"} /\ pc' = "rollback"
    /\ insert' = Unsettled
    /\ SystemUnchanged

\* The finally block without the read of the changeCount.
RestoreAlways ==
    /\ pc = "newer" /\ pc' = "restore"
    /\ SystemUnchanged /\ UNCHANGED insert

\* The finally block: restore, unless the user copied something newer.
CheckNewer ==
    /\ pc = "newer"
    /\ pc' = IF insert.wrote => insert.unmoved THEN "restore" ELSE "confirm"
    /\ SystemUnchanged /\ UNCHANGED insert

Restore ==
    /\ pc = "restore" /\ pc' = "confirm"
    /\ clipboard' = insert.snap
    /\ UNCHANGED <<replace_all, window, body, keys, insert>>

Confirm ==
    /\ pc = "confirm"
    /\ pc' = IF insert.settled /\ Confirmed THEN "confirmed" ELSE "refusing"
    /\ insert' = NotInserting
    /\ SystemUnchanged

\* The read of the body failed, or ended early in a long body, so what follows the text
\* proves nothing.
ConfirmCutShort ==
    /\ pc = "confirm" /\ pc' = "refusing"
    /\ insert.settled
    /\ insert' = NotInserting
    /\ SystemUnchanged

InsertStep ==
    \/ InsertRefused \/ ReadCount \/ SaveClipboard \/ HoldWindow \/ ReadBodyBefore
    \/ CheckCount \/ WriteText \/ WriteFails \/ ReadMine \/ PressPaste
    \/ PasteSettles \/ PasteDoesNotSettle
    \/ CheckNewer \/ Restore \/ Confirm \/ ConfirmCutShort

-----------------------------------------------------------------------------
(* Mail and the user. *)

\* Mail handles the next key: it selects the body, or pastes what is on the clipboard
\* now.  A key for a window that is gone changes no reply.
MailHandlesKey ==
    /\ keys # <<>>
    /\ keys' = Tail(keys)
    /\ body' = IF window # "open" THEN body
               ELSE IF Head(keys) = "A" THEN [body EXCEPT !.selected = TRUE]
               ELSE IF clipboard = "none" THEN body
               ELSE IF body.selected
                    THEN [body EXCEPT !.top = <<clipboard>>, !.quote = FALSE,
                                      !.selected = FALSE]
                    ELSE [body EXCEPT !.top = <<clipboard>> \o @]
    /\ UNCHANGED <<pc, replace_all, window, clipboard, insert>>

UserCopies ==
    /\ pc \in InsertSteps \ Instant
    /\ insert.copied < MaxCopies
    /\ insert' = [insert EXCEPT !.copied = @ + 1, !.unmoved = FALSE]
    /\ clipboard' = "newer"
    /\ UNCHANGED <<pc, replace_all, window, body, keys>>
=============================================================================
