---------------------------- MODULE MCDashboard ----------------------------
(***************************************************************************)
(* The dashboard for TLC.                                                  *)
(*                                                                         *)
(* Switches: two adapters, one of which sends, two requests and one        *)
(* terminal.  Records: a move, an undo of it and the preview of that undo, *)
(* all of the current version, the move of an older one, or both batches.  *)
(***************************************************************************)
EXTENDS Dashboard, TLC

CONSTANTS r1, r2, t1, a, u, v

Tool(app, tier) == [app |-> app, tier |-> tier]
TwoAdapters == <<Tool("notes", "read"), Tool("mail", "send"), Tool("mail", "read"), Tool("mail", "send"),
                 Tool("notes", "read")>>
Plain == {{"notes"}, {"mail", "stray"}}
Alike == Permutations({r1, r2})

MoveUndoPreview == a :> "move" @@ u :> "undo" @@ v :> "undo preview"
OfTheMove == a :> NoOne @@ u :> a @@ v :> a
Upgrades == {{}, {a}, {a, u}}
=============================================================================
