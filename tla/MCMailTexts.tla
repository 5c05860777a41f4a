---------------------------- MODULE MCMailTexts ----------------------------
(***************************************************************************)
(* The readers of the .emlx files' text for TLC.  Dedupe: a message with a *)
(* copy in account a and two in b, one of which may say something else or  *)
(* be in a; account c holds nothing.  Bodies: two builds, or a build and a *)
(* read, of one message that arrives as a partial and one draft.           *)
(***************************************************************************)
EXTENDS MailTexts, TLC

CONSTANTS a, b, c, m, x, y, r1, r2, i1, i2, q1, draft, partial

MCMailboxes == {a, b} \X {"Inbox", "Trash"}
MCIdOf == <<m, m, m>>
Inbox(acct) == {<<acct, "Inbox">>}
MCHomes == <<Inbox(a), Inbox(b), Inbox(b) \cup Inbox(a)>>
MCSays == <<{x}, {x}, {x, y}>>
MCOrders == {<<a, b>>, <<c, b>>}

PartialAndDraft == <<partial, partial, draft>>
FillsTheFirst == <<1, 1, 3>>

Alike == Permutations({r1, r2}) \cup Permutations({i1, i2})

\* What is not yet read may as well come later; the first path holds the whole message.
MCInit ==
    /\ TextsInit
    /\ side = "bodies" => disk[2] # Nobody /\ (disk[3] = Nobody \/ disk[3].text = "other")

\* At most two of the calls are made in a behaviour.
TwoCalls ==
    Cardinality({i \in Builds : builder'[i].step # "idle"})
        + Cardinality({q \in Asks : ask'[q].step # "idle"}) <= 2

MCNext == TextsNext /\ TwoCalls

MCSpec == MCInit /\ [][MCNext]_textVars
=============================================================================
