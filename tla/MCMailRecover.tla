--------------------------- MODULE MCMailRecover ---------------------------
(* Instances of MailRecover for TLC: whose copies there are and where they *)
(* start.                                                                   *)
EXTENDS MailRecover, TLC

CONSTANTS o1, o2, m1, m2

\* Every message is stored once.
OneCopyEach == [c \in Copies |-> IF c = 1 THEN m1 ELSE m2]

\* One message, stored as often as there are copies.
SameMessage == [c \in Copies |-> m1]

AllInInbox == [c \in Copies |-> {"Inbox"}]

\* The first copy in Inbox, the others in Trash already.
OthersInTrash == [c \in Copies |-> IF c = 1 THEN {"Inbox"} ELSE {"Trash"}]

OpSymmetry == Permutations(Ops)

=============================================================================
