----------------------------- MODULE AppStores -----------------------------
(***************************************************************************)
(* The adapters over the stores of Reminders, Calendar and Notes: the      *)
(* writes of the first two (EventKitWrites) and the notes tools            *)
(* (NotesPlanes).  The two share no state: one of them moves in a          *)
(* behaviour and the other stays as it began.                              *)
(***************************************************************************)
EXTENDS EventKitWrites

CONSTANTS
    Clients, Pks, Uuids, NoteKinds, MaxNotes, MaxByOthers      \* of NotesPlanes

VARIABLES side, store, app, disk, shut, byOthers, client, told, had, unmoved

N == INSTANCE NotesPlanes WITH Kinds <- NoteKinds, Absent <- None

ASSUME NotesAssumption ==
    /\ Pks \subseteq Nat /\ IsFiniteSet(Pks)
    /\ NoteKinds \subseteq N!Note
    /\ MaxNotes \in Nat \ {0}

notesState == <<store, app, disk, shut, byOthers, client, told, had, unmoved>>
storesVars == <<vars, side, notesState>>

StoresInit ==
    \/ side = "eventkit" /\ Init /\ N!NotesInit /\ shut = {} /\ \A key \in Pks : app[key] = None
    \/ side = "notes" /\ Init /\ (\A i \in Reminders : db[i] # Gone) /\ N!NotesInit

StoresNext ==
    /\ UNCHANGED side
    /\ \/ side = "eventkit" /\ Next /\ UNCHANGED notesState
       \/ side = "notes" /\ N!NotesNext /\ UNCHANGED vars

StoresSpec == StoresInit /\ [][StoresNext]_storesVars

\* What an answer tells of an id was true of that note during the call (NotesPlanes).
AnswersAreTrue == N!AnswersAreTrue

\* A search without a coverage note has found what it could (NotesPlanes).
NoNoteMeansSearched == N!NoNoteMeansSearched
=============================================================================
