------------------------ MODULE RecoverableReceipts ------------------------
(***************************************************************************)
(* What the recoverable plane promises, without its steps: a message that  *)
(* an operation filed somewhere is always one that the operation's receipt *)
(* would move back.  A receipt is promised before anything moves, it may   *)
(* be narrowed once, when the outcome is recorded, and never past a        *)
(* message the operation did move.                                         *)
(***************************************************************************)
CONSTANTS Ops, Nobody, Msgs, Copies, IdOf

VARIABLES
    holder,     \* the operation that filed each copy where it is, or Nobody
    phase,      \* per receipt: "none", "open" (promised) or "closed" (settled)
    replay      \* per receipt: the messages an undo would move back

Init ==
    /\ holder = [c \in Copies |-> Nobody]
    /\ phase = [r \in Ops |-> "none"]
    /\ replay = [r \in Ops |-> {}]

Promise(r) ==
    /\ phase[r] = "none"
    /\ \E ms \in SUBSET Msgs : replay' = [replay EXCEPT ![r] = ms]
    /\ phase' = [phase EXCEPT ![r] = "open"]
    /\ UNCHANGED holder

File(r, c) ==
    /\ phase[r] # "none"
    /\ IdOf[c] \in replay[r]
    /\ holder' = [holder EXCEPT ![c] = r]
    /\ UNCHANGED <<phase, replay>>

\* The user moved the copy: no receipt answers for it any more.
Take(c) ==
    /\ holder' = [holder EXCEPT ![c] = Nobody]
    /\ UNCHANGED <<phase, replay>>

Settle(r) ==
    /\ phase[r] = "open"
    /\ \E ms \in SUBSET replay[r] :
          /\ \A c \in Copies : holder[c] = r => IdOf[c] \in ms
          /\ replay' = [replay EXCEPT ![r] = ms]
    /\ phase' = [phase EXCEPT ![r] = "closed"]
    /\ UNCHANGED holder

Next ==
    \/ \E r \in Ops : Promise(r) \/ Settle(r) \/ \E c \in Copies : File(r, c)
    \/ \E c \in Copies : Take(c)

Spec == Init /\ [][Next]_<<holder, phase, replay>>

=============================================================================
