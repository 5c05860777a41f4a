----------------------------- MODULE MCMailIds -----------------------------
(* MailIds for TLC. *)
EXTENDS MailIds, TLC

CONSTANTS m1, m2, g1, g2, b1, p1

VARIABLE begun

Symmetries == Permutations({m1, m2}) \cup Permutations({g1, g2})

\* Mail has rebuilt an index that was harvested up to its second row.
Rebuilt ==
    /\ used = 1 /\ rebuilds = MaxRebuilds /\ files \in {{}, {1}}
    /\ \E m \in Msgs, g \in Gids :
          /\ rows = {[id |-> 1, gid |-> g, msg |-> m]} /\ spent = {g}
          /\ map \in {NoMap, [NoMap EXCEPT ![g] = m]}
    /\ exists = TRUE /\ inode = MaxWipes /\ mark = 2 /\ wipes = MaxWipes
    /\ build = [b \in Builds |-> IdleBuild]
    /\ read = [p \in Reads |-> IdleRead]
    /\ cache = [p \in Reads |-> [e \in BOOLEAN |-> "unknown"]]
    /\ sought = {} /\ unsettled = "rebuilt"

MCInit == (begun = "empty" /\ Init) \/ (begun = "rebuilt" /\ Rebuilt)

\* Two rows from an empty index on; one row more where a stale mark stands above the index.
MCNext == Next /\ UNCHANGED begun /\ (begun = "empty" => used' < MaxRow)

MCSpec == MCInit /\ [][MCNext]_<<vars, begun>>
=============================================================================
