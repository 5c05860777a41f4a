--------------------------- MODULE MCNativeWorker ---------------------------
(* NativeWorker for TLC: one job of each kind that a tool call submits. *)
EXTENDS NativeWorker, TLC

CONSTANTS c1, c2, p1, p2

ScriptAndRead == (c1 :> "script") @@ (c2 :> "sqlite")
=============================================================================
