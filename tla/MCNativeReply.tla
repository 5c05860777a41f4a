--------------------------- MODULE MCNativeReply ---------------------------
(***************************************************************************)
(* The code's times in ticks, with their order kept: the sweep's gap of    *)
(* 30 s is 1 tick, its wait of 45 s 2, the claim span of 120 s 2, and the  *)
(* clock goes to 3, so that a discard can be inside the span and not, and  *)
(* a read inside the gap and not.  A copy lands before the gap is over.    *)
(* The user's copy misses only the three steps of compose_insert with      *)
(* nothing between a check of the clipboard and the write it allows.       *)
(***************************************************************************)
EXTENDS NativeReply
=============================================================================
