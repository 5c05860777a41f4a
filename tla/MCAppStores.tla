---------------------------- MODULE MCAppStores ----------------------------
(***************************************************************************)
(* AppStores for TLC: a reminder, its subtask or a new one, and an event;  *)
(* two keys in two stores of notes.                                        *)
(***************************************************************************)
EXTENDS AppStores, TLC

CONSTANTS n1, n2, p, k, e, c1, u1, u2

WithAndWithoutSubtask ==
    {[i \in {p, k, e} |-> CASE i = k -> start [] OTHER -> None] : start \in {p, Gone}}

ANote(title, body, decodes, at) ==
    [title |-> title, body |-> body, locked |-> FALSE, decodes |-> decodes, at |-> at]

SomeNotes == {ANote("without", "tail", TRUE, "folder"), ANote("with", "none", TRUE, "trash"),
              [ANote("without", "head", FALSE, "folder") EXCEPT !.locked = TRUE]}

Alike == Permutations({n1, n2}) \cup Permutations({u1, u2})
=============================================================================
