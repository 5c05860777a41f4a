--------------------------- MODULE MCDaemonSocket ---------------------------
(* Instances of DaemonSocket for TLC.                                       *)
EXTENDS DaemonSocket, TLC

CONSTANTS d1, d2, c1, c2

=============================================================================
