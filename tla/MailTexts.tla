----------------------------- MODULE MailTexts -----------------------------
(***************************************************************************)
(* What reads the text of the .emlx files: the dedupe command, which       *)
(* weighs copies by what they say (DedupeMail), and the body index and     *)
(* mail_bodies (MailBodies).  The two share no state: one of them moves in *)
(* a behaviour and the other stays as it began.                            *)
(***************************************************************************)
EXTENDS DedupeMail

CONSTANTS
    Builds, Asks, Paths, Mids, MidAt, FullOf, ReusesIds, MaxChanged     \* of MailBodies

VARIABLES side, wholeText, disk, live, sidecar, writer, builder, ask, changed

D == INSTANCE MailBodies WITH Absent <- Nobody

ASSUME TextsAssumption ==
    /\ Paths \subseteq Nat /\ IsFiniteSet(Paths) /\ IsFiniteSet(Mids)
    /\ MidAt \in [Paths -> Mids] /\ FullOf \in [Paths -> Paths]
    /\ \A p \in Paths : MidAt[FullOf[p]] = MidAt[p]
    /\ MaxChanged \in Nat /\ ReusesIds \in BOOLEAN
    /\ Nobody \notin Builds

bodyState == <<wholeText, disk, live, sidecar, writer, builder, ask, changed>>
textVars == <<vars, side, bodyState>>

\* A side that stands still has one initial state.
BodiesAtRest ==
    /\ D!BodiesInit
    /\ disk = [p \in Paths |-> Nobody] /\ wholeText = [m \in Mids |-> "word"]

DedupeAtRest ==
    /\ Init
    /\ at = [c \in Copies |-> CHOOSE u \in Homes[c] : TRUE]
    /\ body = [c \in Copies |-> CHOOSE x \in Says[c] : TRUE]

TextsInit ==
    \/ side = "dedupe" /\ Init /\ BodiesAtRest
    \/ side = "bodies" /\ DedupeAtRest /\ D!BodiesInit

TextsNext ==
    /\ UNCHANGED side
    /\ \/ side = "dedupe" /\ Next /\ UNCHANGED bodyState
       \/ side = "bodies" /\ D!BodiesNext /\ UNCHANGED vars

TextsSpec == TextsInit /\ [][TextsNext]_textVars

\* Nothing that the reads of bodies say or skip hides a text on the disk (MailBodies).
BodyReadsAreHonest == D!BodyReadsAreHonest
=============================================================================
