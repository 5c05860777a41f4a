--------------------------- MODULE MCOutgoingMail ---------------------------
(* OutgoingMail for TLC: two calls, two drafts, one address. *)
EXTENDS OutgoingMail, TLC

CONSTANTS c1, c2, d1, d2, a

SavedWithAddress == [d \in {d1, d2} |-> a]
CallsAndDraftsAlike == Permutations({c1, c2}) \cup Permutations({d1, d2})
=============================================================================
