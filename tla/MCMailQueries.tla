--------------------------- MODULE MCMailQueries ---------------------------
(* MailQueries for TLC: a Gmail account with All Mail and an INBOX label, and *)
(* another account with a folder.                                             *)
EXTENDS MailQueries, TLC

CONSTANTS x, g, h, c, d

MCAccount == <<g, g, h>>
MCRole == <<"special", "inbox", "filed">>
MCBacking == <<Null, 1, Null>>

\* The third row differs from the others.
MCSizeDate == <<1, 1, 2>>

\* A conversation is only compared with another one.
ConvSymmetry == Permutations(Convs)
=============================================================================
