----------------------------- MODULE Dashboard -----------------------------
(***************************************************************************)
(* The dashboard's pages that keep or show state: the Adapters page over   *)
(* the daemon's switches (AdapterSwitches) and the Writes and Backups      *)
(* pages over the audit log (DashboardRecords).  The two share no state:   *)
(* one of them moves in a behaviour and the other stays as it began.       *)
(***************************************************************************)
EXTENDS AdapterSwitches

CONSTANTS
    Calls, Kind, Undoes, Versions, None, MaxTicks, MaxRotations, MaxMissing
                    \* of DashboardRecords

ASSUME RecordsAssumption ==
    /\ None \notin Calls
    /\ Kind \in [Calls -> {"move", "dedupe", "undo", "undo preview", "plain"}]
    /\ Undoes \in [Calls -> Calls \cup {None}]
    /\ Versions \subseteq SUBSET Calls

VARIABLES page, old, older, live, rotations, missing, clock, callPc, results, beside

R == INSTANCE DashboardRecords WITH pc <- callPc

recordVars == <<old, older, live, rotations, missing, clock, callPc, results, beside>>
dashboardVars == <<vars, page, recordVars>>

DashboardInit ==
    \/ page = "switches" /\ Init /\ R!Init /\ old = {}
    \/ page = "records" /\ Init /\ ~file.there /\ gate = {} /\ R!Init

DashboardNext ==
    /\ UNCHANGED page
    /\ \/ page = "switches" /\ Next /\ UNCHANGED recordVars
       \/ page = "records" /\ R!Next /\ UNCHANGED vars

DashboardSpec == DashboardInit /\ [][DashboardNext]_dashboardVars

\* One write, one row: DashboardRecords, where the exception for an older version is stated.
RowsAreCalls == R!RowsAreCalls

\* A page that says a batch's messages are back is right.
BackIsTrue == R!BackIsTrue

\* A row keeps the address its page shows while records are appended.
RowsKeepTheirPlace == R!RowsKeepTheirPlace
=============================================================================
