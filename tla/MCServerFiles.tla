--------------------------- MODULE MCServerFiles ---------------------------
(***************************************************************************)
(* What the server writes on the disk, for TLC: its log, by two writers    *)
(* (AuditLog); and the files it exports, by two calls in two processes     *)
(* into a directory of two names (FileExports).  The two share no state,   *)
(* so one of them moves in a behaviour and the other stays as it began.    *)
(***************************************************************************)
EXTENDS AuditLog, FileExports, TLC

CONSTANTS w1, w2, c1, c2, p1, p2, e1, e2, m1, m2, m3

VARIABLES side

NamedAlike == m1 :> e1 @@ m2 :> e2 @@ m3 :> e2
Alike == Permutations({c1, c2}) \cup Permutations({p1, p2})

filesVars == <<vars, side, exportVars>>

\* The side that stands still has one initial state.
ExportsAtRest == ExportsInit /\ \A e \in {e1, e2} : entry[e] = Nothing

FilesInit ==
    \/ side = "log" /\ Init /\ ExportsAtRest
    \/ side = "exports" /\ Init /\ ExportsInit

FilesNext ==
    /\ UNCHANGED side
    /\ \/ side = "log" /\ Next /\ UNCHANGED exportVars
       \/ side = "exports" /\ ExportsNext /\ UNCHANGED vars

FilesSpec == FilesInit /\ [][FilesNext]_filesVars
=============================================================================
