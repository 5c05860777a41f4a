--------------------------- MODULE MailReads_proofs ---------------------------
(***************************************************************************)
(* Proofs about the reads of Mail's index.                                 *)
(*                                                                         *)
(* MailIds, for every set of builds, of reading processes, of messages and *)
(* of gids, every top-up limit, and any number of rebuilds and wipes: an   *)
(* answer without a note lacks no message that no harvest looked for,      *)
(* where Mail rebuilds its index only between our calls.                   *)
(*                                                                         *)
(* MailQueries, for every set of mailboxes, whatever their accounts,   *)
(* roles and sources, and every number of rows and labels: what move_mail  *)
(* and trash_mail are let act on is stored there, and the reads agree.     *)
(***************************************************************************)
EXTENDS MailIds, MailQueries, FiniteSetTheorems, FunctionTheorems, TLAPS

-----------------------------------------------------------------------------
(* The helpers: the highest ROWID, and what a harvest leaves to be found.   *)

\* A finite set of numbers has a least and a greatest element (induction over finite sets,
\* by a least counterexample).
LEMMA FiniteBounds ==
    ASSUME NEW S, S \subseteq Nat, IsFiniteSet(S), S # {}
    PROVE  /\ \E x \in S : \A y \in S : x =< y
           /\ \E x \in S : \A y \in S : y =< x
<1> DEFINE Bounded(T) == /\ \E x \in T : \A y \in T : x =< y
                         /\ \E x \in T : \A y \in T : y =< x
           Bad == {T \in FiniteSubsetsOf(Nat) : T # {} /\ ~Bounded(T)}
<1>1. SUFFICES Bad = {}
  BY DEF FiniteSubsetsOf
<1>2. SUFFICES ASSUME Bad # {} PROVE FALSE
  OBVIOUS
<1>3. PICK T \in Bad : \A U \in Bad : <<U, T>> \notin StrictSubsetOrdering(Nat)
  <2>1. Bad \subseteq FiniteSubsetsOf(Nat)
    OBVIOUS
  <2> HIDE DEF Bad
  <2> QED BY <1>2, <2>1, FS_StrictSubsetOrderingWellFounded, WFMin
<1>4. T \subseteq Nat /\ IsFiniteSet(T) /\ T # {} /\ ~Bounded(T)
  BY DEF FiniteSubsetsOf
<1>5. PICK z \in T : TRUE
  BY <1>4
<1> DEFINE U == T \ {z}
<1>6. U \in FiniteSubsetsOf(Nat) /\ <<U, T>> \in StrictSubsetOrdering(Nat)
  <2>1. IsFiniteSet(U)
    BY <1>4, FS_Subset
  <2> QED BY <1>4, <1>5, <2>1 DEF FiniteSubsetsOf, StrictSubsetOrdering
<1>7. U = {} \/ Bounded(U)
  BY <1>3, <1>6
<1>8. CASE U = {}
  <2>1. T = {z}
    BY <1>5, <1>8
  <2> QED BY <1>4, <2>1
<1>9. CASE Bounded(U)
  <2>1. z \in Nat /\ T = U \cup {z}
    BY <1>4, <1>5
  <2>2. PICK lo \in U : \A y \in U : lo =< y
    BY <1>9
  <2>3. PICK hi \in U : \A y \in U : y =< hi
    BY <1>9
  <2>4. lo \in Nat /\ hi \in Nat /\ U \subseteq Nat
    BY <1>4
  <2>5. \E x \in T : \A y \in T : x =< y
    <3>1. CASE z =< lo
      BY <2>1, <2>2, <2>4, <3>1
    <3>2. CASE ~(z =< lo)
      BY <2>1, <2>2, <2>4, <3>2
    <3> QED BY <3>1, <3>2
  <2>6. \E x \in T : \A y \in T : y =< x
    <3>1. CASE hi =< z
      BY <2>1, <2>3, <2>4, <3>1
    <3>2. CASE ~(hi =< z)
      BY <2>1, <2>3, <2>4, <3>2
    <3> QED BY <3>1, <3>2
  <2> QED BY <1>4, <2>5, <2>6
<1> QED BY <1>7, <1>8, <1>9

LEMMA TopIs ==
    ASSUME NEW rs, NEW n \in Nat, \A r \in rs : r.id \in 1..n
    PROVE  /\ Top(rs) \in 0..n
           /\ \A r \in rs : r.id =< Top(rs)
           /\ Top(rs) = 0 \/ \E r \in rs : r.id = Top(rs)
<1> DEFINE S == {r.id : r \in rs} \cup {0}
<1>1. S \subseteq 0..n /\ 0 \in S
  OBVIOUS
<1>2. Top(rs) = Max(S)
  BY DEF Top
<1>3. \A x \in S : x = 0 \/ \E r \in rs : r.id = x
  OBVIOUS
<1>4. \A r \in rs : r.id \in S
  OBVIOUS
<1> HIDE DEF S
<1>5. IsFiniteSet(0..n)
  BY FS_Interval
<1>6. IsFiniteSet(S) /\ S # {} /\ S \subseteq Nat
  <2>1. IsFiniteSet(S)
    BY <1>1, <1>5, FS_Subset
  <2> QED BY <1>1, <2>1
<1>7. \E x \in S : \A y \in S : y =< x
  BY <1>6, FiniteBounds
<1>8. Max(S) \in S /\ \A y \in S : y =< Max(S)
  BY <1>6, <1>7 DEF Max
<1> QED BY <1>1, <1>2, <1>3, <1>4, <1>8

LEMMA MinIs == ASSUME NEW S, S \subseteq Nat, S # {} PROVE Min(S) \in S
<1>1. PICK k \in S : TRUE
  OBVIOUS
<1> DEFINE Low == S \cap 0..k
<1>2. IsFiniteSet(Low) /\ k \in Low /\ Low \subseteq Nat
  <2>1. IsFiniteSet(0..k)
    BY FS_Interval
  <2>2. k \in Nat /\ Low \subseteq 0..k
    OBVIOUS
  <2> QED BY <2>1, <2>2, FS_Subset
<1>3. PICK x \in Low : \A y \in Low : x =< y
  <2> HIDE DEF Low
  <2> QED BY <1>2, FiniteBounds
<1>4. x \in S /\ \A y \in S : x =< y
  BY <1>1, <1>3
<1> QED BY <1>4 DEF Min

AnyRow == [id : Nat, gid : Gids, msg : Msgs]

\* No harvest has found the row's id, nor looked for it in vain.
Missed(r) == map[r.gid] = None /\ r.id \notin sought

LEMMA HeaderIs ==
    ASSUME rows \subseteq AnyRow, NEW id PROVE HeaderOn(id) \in Msgs \cup {None}
BY DEF HeaderOn, AnyRow

\* A harvest forgets no id, and looks for each row whose gid is not known.
LEMMA HarvestLooks ==
    ASSUME rows \subseteq AnyRow, map \in [Gids -> Msgs \cup {None}],
           NEW rs, rs \subseteq AnyRow, NEW known
    PROVE  /\ Harvest(rs, known) \in [Gids -> Msgs \cup {None}]
           /\ \A g \in Gids : map[g] # None => Harvest(rs, known)[g] # None
           /\ \A r \in rs : r.gid \notin known =>
                 Harvest(rs, known)[r.gid] # None \/ r.id \in NotFound(rs, known)
<1> DEFINE new == {r \in rs : r.gid \notin known /\ HeaderOn(r.id) # None}
           Ids(g) == {r.id : r \in {n \in new : n.gid = g}}
<1>1. Harvest(rs, known) = [g \in Gids |-> IF \E r \in new : r.gid = g
                                           THEN HeaderOn(Min(Ids(g))) ELSE map[g]]
  BY DEF Harvest
<1>2. \A id : HeaderOn(id) \in Msgs \cup {None}
  BY HeaderIs
<1>3. ASSUME NEW g \in Gids, \E r \in new : r.gid = g PROVE HeaderOn(Min(Ids(g))) # None
  <2>1. Ids(g) \subseteq Nat /\ Ids(g) # {}
    BY <1>3 DEF AnyRow
  <2>2. Min(Ids(g)) \in Ids(g)
    BY <2>1, MinIs
  <2>3. PICK r \in new : r.id = Min(Ids(g))
    BY <2>2
  <2> QED BY <2>3
<1> HIDE DEF Ids
<1>4. ASSUME NEW r \in rs, r.gid \notin known
      PROVE  Harvest(rs, known)[r.gid] # None \/ r.id \in NotFound(rs, known)
  <2>1. r.gid \in Gids
    BY DEF AnyRow
  <2>2. CASE HeaderOn(r.id) = None
    BY <1>4, <2>2 DEF NotFound
  <2>3. CASE HeaderOn(r.id) # None
    <3>1. r \in new
      BY <1>4, <2>3
    <3> QED BY <1>1, <1>3, <2>1, <3>1
  <2> QED BY <2>2, <2>3
<1> QED BY <1>1, <1>2, <1>3, <1>4

-----------------------------------------------------------------------------
(* The invariant.                                                           *)

Holding(b) == build[b].at \in {"open", "commit"}
Topping(p) == read[p].at = "topup"

BuildRec == [at : {"idle", "rows", "open", "commit"}, snap : SUBSET AnyRow, again : BOOLEAN,
             known : SUBSET Gids, inode : Nat, whole : BOOLEAN]
ReadRec == [at : {"idle", "detect", "setup", "topup", "query", "note", "told"}, key : BOOLEAN,
            from : Nat, to : Nat, stale : BOOLEAN, missing : SUBSET AnyRow, sure : BOOLEAN,
            note : {"none", "behind", "rebuilt"}]

IdsType ==
    /\ rows \subseteq AnyRow /\ IsFiniteSet(rows) /\ used \in Nat
    /\ \A r \in rows : r.id \in 1..used
    /\ exists \in BOOLEAN /\ inode \in Nat
    /\ map \in [Gids -> Msgs \cup {None}] /\ mark \in Nat \cup {None}
    /\ build \in [Builds -> BuildRec] /\ read \in [Reads -> ReadRec]
    /\ cache \in [Reads -> [BOOLEAN -> {"unknown", "sidecar", "floor"}]]
    /\ unsettled \in {"no", "wiped", "rebuilt", "overtaken"}

\* A mark belongs to a sidecar that is there, and to the index as it is numbered now.
SideInv ==
    /\ mark # None => exists
    /\ unsettled # "rebuilt" /\ mark # None => mark =< used

\* A build has read every row up to the highest of those it has; what it knows is known, as long
\* as nobody unlinks the sidecar it has opened.
SnapInv(b) ==
    /\ Holding(b) =>
          /\ \A r \in build[b].snap : r.id \in 1..used
          /\ \A r \in rows, s \in build[b].snap : r.id =< s.id => r \in build[b].snap
    /\ build[b].at = "commit" =>
          /\ build[b].inode =< inode
          /\ build[b].inode = inode => exists /\ \A g \in build[b].known : map[g] # None

\* A top-up begins where the mark was.
TopInv(p) ==
    Topping(p) => /\ read[p].from < read[p].to /\ read[p].to =< used
                  /\ ~read[p].stale => unsettled # "rebuilt"

\* Below the mark, and below where a top-up began, a build that is to settle the index has read
\* every row that was missed.
WholeInv(b) ==
    Holding(b) /\ build[b].whole =>
        \A r \in rows : Missed(r) =>
            /\ mark # None /\ r.id =< mark /\ unsettled # "rebuilt" => r \in build[b].snap
            /\ \A p \in Reads :
                  /\ Topping(p) /\ r.id =< read[p].from
                  /\ ~read[p].stale \/ unsettled \in {"wiped", "overtaken"}
                  => r \in build[b].snap

\* In a settled index nothing below them is missed.
SettledInv ==
    unsettled = "no" =>
        \A r \in rows : Missed(r) =>
            /\ mark # None => ~(r.id =< mark)
            /\ \A p \in Reads : Topping(p) /\ ~read[p].stale => ~(r.id =< read[p].from)

ToldInv == NoNoteMeansLookedFor

IdsInv ==
    /\ IdsType /\ SideInv /\ SettledInv /\ ToldInv
    /\ \A b \in Builds : SnapInv(b) /\ WholeInv(b)
    /\ \A p \in Reads : TopInv(p)

LEMMA InitIds == Init => IdsInv
<1> SUFFICES ASSUME Init PROVE IdsInv
  OBVIOUS
<1>1. IdleBuild \in BuildRec /\ IdleRead \in ReadRec
  BY DEF IdleBuild, IdleRead, BuildRec, ReadRec
<1>2. IdsType
  <2>1. rows = {} /\ IsFiniteSet(rows) /\ NoMap \in [Gids -> Msgs \cup {None}]
    BY FS_EmptySet DEF Init, NoMap
  <2> QED BY <1>1, <2>1 DEF Init, IdsType
<1>3. \A b \in Builds : build[b].at = "idle"
  BY DEF Init, IdleBuild
<1>4. \A p \in Reads : read[p].at = "idle"
  BY DEF Init, IdleRead
<1> QED BY <1>2, <1>3, <1>4
        DEF Init, IdsInv, SideInv, SettledInv, ToldInv, NoNoteMeansLookedFor, SnapInv, WholeInv,
            TopInv, Holding, Topping

-----------------------------------------------------------------------------
(* Mail.                                                                    *)

\* A row that arrives, goes, or is filed again.
LEMMA MailIds1 ==
    ASSUME IdsInv, UNCHANGED <<sideVars, build, read, cache, sought, unsettled>>,
           used' \in Nat, used =< used', IsFiniteSet(rows'), rows' \subseteq AnyRow,
           \A r \in rows' : r \in rows \/ (r.id = used + 1 /\ used' = used + 1)
    PROVE  IdsInv'
<1> USE DEF sideVars
<1>1. IdsType'
  BY DEF IdsInv, IdsType
<1>2. SideInv'
  BY DEF IdsInv, IdsType, SideInv
<1>3. ToldInv'
  BY DEF IdsInv, ToldInv, NoNoteMeansLookedFor
<1>4. ASSUME NEW r \in rows', NEW n \in Nat, n =< used, r.id =< n PROVE r \in rows
  BY <1>4 DEF IdsInv, IdsType
<1>5. ASSUME NEW p \in Reads PROVE TopInv(p)'
  BY DEF IdsInv, IdsType, TopInv, Topping, ReadRec
<1>6. ASSUME NEW b \in Builds PROVE SnapInv(b)'
  <2>1. SnapInv(b) /\ build[b].snap \subseteq AnyRow
    BY DEF IdsInv, IdsType, BuildRec
  <2>2. ASSUME NEW r \in rows', NEW s \in build[b].snap, Holding(b), r.id =< s.id
        PROVE  r \in build[b].snap
    <3>1. s.id \in Nat /\ s.id =< used
      BY <2>1, <2>2 DEF SnapInv, IdsInv, IdsType
    <3> QED BY <1>4, <2>1, <2>2, <3>1 DEF SnapInv
  <2> QED BY <2>1, <2>2 DEF SnapInv, Holding, IdsInv, IdsType
<1>7. ASSUME NEW p \in Reads, Topping(p) PROVE read[p].from \in Nat /\ read[p].from =< used
  BY <1>7 DEF IdsInv, IdsType, TopInv, ReadRec
<1>8. ASSUME NEW b \in Builds PROVE WholeInv(b)'
  <2> SUFFICES ASSUME Holding(b), build[b].whole, NEW r \in rows', Missed(r)
               PROVE  /\ mark # None /\ r.id =< mark /\ unsettled # "rebuilt" => r \in build[b].snap
                      /\ \A p \in Reads :
                            /\ Topping(p) /\ r.id =< read[p].from
                            /\ ~read[p].stale \/ unsettled \in {"wiped", "overtaken"}
                            => r \in build[b].snap
    BY DEF WholeInv, Holding, Topping, Missed
  <2>1. WholeInv(b)
    BY DEF IdsInv
  <2>2. mark # None /\ r.id =< mark /\ unsettled # "rebuilt" => r \in rows
    BY <1>4 DEF IdsInv, IdsType, SideInv
  <2>3. \A p \in Reads : Topping(p) /\ r.id =< read[p].from => r \in rows
    BY <1>4, <1>7
  <2> QED BY <2>1, <2>2, <2>3 DEF WholeInv
<1>9. SettledInv'
  <2> SUFFICES ASSUME unsettled = "no", NEW r \in rows', Missed(r)
               PROVE  /\ mark # None => ~(r.id =< mark)
                      /\ \A p \in Reads : Topping(p) /\ ~read[p].stale => ~(r.id =< read[p].from)
    BY DEF SettledInv, Topping, Missed
  <2>1. mark # None /\ r.id =< mark => r \in rows
    BY <1>4 DEF IdsInv, IdsType, SideInv
  <2>2. \A p \in Reads : Topping(p) /\ r.id =< read[p].from => r \in rows
    BY <1>4, <1>7
  <2> QED BY <2>1, <2>2 DEF IdsInv, SettledInv
<1> QED BY <1>1, <1>2, <1>3, <1>5, <1>6, <1>8, <1>9 DEF IdsInv

LEMMA MailMoves ==
    ASSUME IdsInv, Deliver \/ Refile \/ Expunge \/ Downloaded PROVE IdsInv'
<1>1. IdsType
  BY DEF IdsInv
<1>2. CASE Deliver
  <2>0. PICK m \in Msgs :
           \E g \in GidsFor(m) : rows' = rows \cup {[id |-> used + 1, gid |-> g, msg |-> m]}
    BY <1>2 DEF Deliver
  <2>1. PICK g \in GidsFor(m) : rows' = rows \cup {[id |-> used + 1, gid |-> g, msg |-> m]}
    BY <2>0
  <2>2. g \in Gids
    BY <1>1 DEF GidsFor, IdsType, AnyRow
  <2> DEFINE new == [id |-> used + 1, gid |-> g, msg |-> m]
  <2>3. new \in AnyRow /\ new.id = used + 1
    BY <1>1, <2>2 DEF AnyRow, IdsType
  <2>4. IsFiniteSet(rows')
    BY <1>1, <2>1, FS_AddElement DEF IdsType
  <2>5. /\ used' = used + 1
        /\ UNCHANGED <<sideVars, build, read, cache, sought, unsettled>>
    BY <1>2 DEF Deliver
  <2> HIDE DEF new
  <2>6. /\ rows' \subseteq AnyRow /\ used \in Nat
        /\ \A r \in rows' : r \in rows \/ r.id = used + 1
    BY <1>1, <2>1, <2>3 DEF IdsType, new
  <2> QED BY <2>4, <2>5, <2>6, MailIds1
<1>3. CASE Refile
  <2>1. PICK r \in rows : rows' = (rows \ {r}) \cup {[r EXCEPT !.id = used + 1]}
    BY <1>3 DEF Refile
  <2> DEFINE new == [r EXCEPT !.id = used + 1]
  <2>2. new \in AnyRow /\ new.id = used + 1
    BY <1>1 DEF AnyRow, IdsType
  <2>3. IsFiniteSet(rows')
    BY <1>1, <2>1, FS_AddElement, FS_RemoveElement DEF IdsType
  <2>4. /\ used' = used + 1
        /\ UNCHANGED <<sideVars, build, read, cache, sought, unsettled>>
    BY <1>3 DEF Refile
  <2> HIDE DEF new
  <2>5. /\ rows' \subseteq AnyRow /\ used \in Nat
        /\ \A s \in rows' : s \in rows \/ s.id = used + 1
    BY <1>1, <2>1, <2>2 DEF IdsType, new
  <2> QED BY <2>3, <2>4, <2>5, MailIds1
<1>4. CASE Expunge \/ Downloaded
  <2>1. rows' \subseteq rows /\ used' = used
        /\ UNCHANGED <<sideVars, build, read, cache, sought, unsettled>>
    BY <1>4 DEF Expunge, Downloaded
  <2>2. IsFiniteSet(rows')
    BY <1>1, <2>1, FS_Subset DEF IdsType
  <2>3. /\ rows' \subseteq AnyRow /\ used' \in Nat /\ used =< used'
        /\ \A r \in rows' : r \in rows \/ (r.id = used + 1 /\ used' = used + 1)
    BY <1>1, <2>1 DEF IdsType
  <2> QED BY <2>1, <2>2, <2>3, MailIds1
<1> QED BY <1>2, <1>3, <1>4

\* The index is numbered anew while no call runs.
LEMMA RebuildMoves ==
    ASSUME ~RebuildsAnytime, IdsInv, RebuildIndex PROVE IdsInv'
<1>1. IdsType
  BY DEF IdsInv
<1>2. /\ \A b \in Builds : build[b].at = "idle"
      /\ \A p \in Reads : read[p].at \in {"idle", "told"}
      /\ UNCHANGED <<sideVars, read, cache>> /\ sought' = {} /\ unsettled' = "rebuilt"
      /\ used' = Cardinality(rows) /\ build' = Outdated(build)
  BY DEF RebuildIndex
<1>3. PICK gidOf \in [{r.msg : r \in rows} -> Gids], idOf \in [rows -> 1..Cardinality(rows)] :
         rows' = {[id |-> idOf[r], gid |-> gidOf[r.msg], msg |-> r.msg] : r \in rows}
  BY DEF RebuildIndex
<1>4. Cardinality(rows) \in Nat
  BY <1>1, FS_CardinalityType DEF IdsType
<1> DEFINE renumbered == [r \in rows |-> [id |-> idOf[r], gid |-> gidOf[r.msg], msg |-> r.msg]]
<1>5. renumbered \in [rows -> rows'] /\ \A s \in rows' : \E r \in rows : renumbered[r] = s
  BY <1>3
<1>6. IsFiniteSet(rows')
  <2> HIDE DEF renumbered
  <2>1. renumbered \in Surjection(rows, rows')
    BY <1>5 DEF Surjection
  <2> QED BY <1>1, <2>1, FS_Surjection DEF IdsType
<1>7. rows' \subseteq AnyRow /\ \A r \in rows' : r.id \in 1..used'
  BY <1>1, <1>2, <1>3, <1>4 DEF AnyRow, IdsType
<1>8. build' \in [Builds -> BuildRec] /\ \A b \in Builds : build'[b].at = "idle"
  BY <1>1, <1>2 DEF IdsType, Outdated, BuildRec
<1>9. IdsType'
  BY <1>1, <1>2, <1>4, <1>6, <1>7, <1>8 DEF IdsType, sideVars
<1>10. SideInv' /\ SettledInv' /\ ToldInv'
  BY <1>2 DEF IdsInv, SideInv, SettledInv, ToldInv, NoNoteMeansLookedFor, sideVars
<1>11. \A b \in Builds : SnapInv(b)' /\ WholeInv(b)'
  BY <1>8 DEF SnapInv, WholeInv, Holding
<1>12. \A p \in Reads : TopInv(p)'
  BY <1>2 DEF TopInv, Topping
<1> QED BY <1>9, <1>10, <1>11, <1>12 DEF IdsInv

-----------------------------------------------------------------------------
(* Builds.                                                                  *)

\* A build that has begun, or has ended without a transaction.
LEMMA BuildAside ==
    ASSUME IdsInv, NEW b \in Builds, NEW rec \in BuildRec, rec.at \in {"idle", "rows"},
           build' = [build EXCEPT ![b] = rec],
           UNCHANGED <<mailVars, sideVars, read, cache, sought, unsettled>>
    PROVE  IdsInv'
<1> USE DEF mailVars, sideVars
<1>1. build' \in [Builds -> BuildRec] /\ \A c \in Builds : c # b => build'[c] = build[c]
  BY DEF IdsInv, IdsType
<1>2. build'[b].at \in {"idle", "rows"}
  BY DEF IdsInv, IdsType
<1>3. IdsType' /\ SideInv' /\ SettledInv' /\ ToldInv'
  BY <1>1 DEF IdsInv, IdsType, SideInv, SettledInv, ToldInv, NoNoteMeansLookedFor, Missed, Topping
<1>4. \A p \in Reads : TopInv(p)'
  BY DEF IdsInv, TopInv, Topping
<1>5. ASSUME NEW c \in Builds PROVE SnapInv(c)' /\ WholeInv(c)'
  <2>1. CASE c = b
    BY <1>2, <2>1 DEF SnapInv, WholeInv, Holding
  <2>2. CASE c # b
    <3>1. build'[c] = build[c] /\ SnapInv(c) /\ WholeInv(c)
      BY <1>1, <2>2 DEF IdsInv
    <3> QED BY <3>1 DEF SnapInv, WholeInv, Holding, Missed, Topping
  <2> QED BY <2>1, <2>2
<1> QED BY <1>3, <1>4, <1>5 DEF IdsInv

\* A build that can settle nothing any more reads and writes what it would have.
OutdatedRec(b) ==
    /\ Outdated(build)[b].at = build[b].at /\ Outdated(build)[b].snap = build[b].snap
    /\ Outdated(build)[b].known = build[b].known /\ Outdated(build)[b].inode = build[b].inode
    /\ Outdated(build)[b].whole = FALSE

LEMMA OutdatedIs ==
    ASSUME build \in [Builds -> BuildRec]
    PROVE  Outdated(build) \in [Builds -> BuildRec] /\ \A b \in Builds : OutdatedRec(b)
<1>1. ASSUME NEW b \in Builds PROVE Outdated(build)[b] \in BuildRec /\ OutdatedRec(b)
  <2>1. Outdated(build)[b] = [build[b] EXCEPT !.whole = FALSE] /\ build[b] \in BuildRec
    BY DEF Outdated
  <2>2. [build[b] EXCEPT !.whole = FALSE] \in BuildRec
    BY <2>1 DEF BuildRec
  <2> QED BY <2>1, <2>2 DEF OutdatedRec, BuildRec
<1> QED BY <1>1 DEF Outdated

LEMMA WipeIds == ASSUME IdsInv, NEW b \in Builds, Wipe(b) PROVE IdsInv'
<1> USE DEF mailVars
<1>1. IdsType
  BY DEF IdsInv
<1>2. /\ exists' = FALSE /\ inode' = inode + 1 /\ map' = NoMap /\ mark' = None
      /\ unsettled' = "wiped" /\ build' = [Outdated(build) EXCEPT ![b].at = "rows"]
      /\ UNCHANGED <<mailVars, read, cache, sought>>
  BY DEF Wipe
<1> DEFINE rec == [Outdated(build)[b] EXCEPT !.at = "rows"]
<1>3. /\ build' \in [Builds -> BuildRec] /\ build'[b].at = "rows"
      /\ \A c \in Builds : /\ build'[c].whole = FALSE
                           /\ c # b => /\ build'[c].at = build[c].at
                                       /\ build'[c].snap = build[c].snap
                                       /\ build'[c].inode = build[c].inode
  <2>1. Outdated(build) \in [Builds -> BuildRec] /\ \A c \in Builds : OutdatedRec(c)
    BY <1>1, OutdatedIs DEF IdsType
  <2>2. rec \in BuildRec /\ rec.at = "rows" /\ rec.whole = FALSE
    BY <2>1 DEF OutdatedRec, BuildRec
  <2>3. build' = [Outdated(build) EXCEPT ![b] = rec]
    BY <1>2, <2>1
  <2> HIDE DEF rec
  <2> QED BY <2>1, <2>2, <2>3 DEF OutdatedRec
<1> HIDE DEF rec
<1>4. NoMap \in [Gids -> Msgs \cup {None}]
  BY DEF NoMap
<1>5. IdsType' /\ SideInv' /\ SettledInv' /\ ToldInv'
  <2>1. IdsType'
    <3>1. /\ rows' \subseteq AnyRow /\ IsFiniteSet(rows') /\ used' \in Nat
          /\ \A r \in rows' : r.id \in 1..used'
      BY <1>1, <1>2 DEF IdsType
    <3>2. exists' \in BOOLEAN /\ inode' \in Nat /\ mark' \in Nat \cup {None}
      <4>1. exists' \in BOOLEAN
        BY <1>2
      <4>2. inode' = inode + 1 /\ inode \in Nat /\ mark' = None
        BY <1>1, <1>2 DEF IdsType
      <4>3. inode' \in Nat /\ mark' \in Nat \cup {None}
        BY <4>2
      <4> QED BY <4>1, <4>3
    <3>3. read' \in [Reads -> ReadRec]
          /\ cache' \in [Reads -> [BOOLEAN -> {"unknown", "sidecar", "floor"}]]
      BY <1>1, <1>2 DEF IdsType
    <3>4. map' \in [Gids -> Msgs \cup {None}]
          /\ unsettled' \in {"no", "wiped", "rebuilt", "overtaken"}
      BY <1>2, <1>4
    <3> QED BY <1>3, <3>1, <3>2, <3>3, <3>4 DEF IdsType
  <2>2. SideInv' /\ SettledInv' /\ ToldInv'
    BY <1>2 DEF IdsInv, SideInv, SettledInv, ToldInv, NoNoteMeansLookedFor
  <2> QED BY <2>1, <2>2
<1>6. \A p \in Reads : TopInv(p)'
  BY <1>2 DEF IdsInv, TopInv, Topping
<1>7. \A c \in Builds : WholeInv(c)'
  BY <1>3 DEF WholeInv
<1>8. ASSUME NEW c \in Builds PROVE SnapInv(c)'
  <2>1. CASE c = b
    BY <1>3, <2>1 DEF SnapInv, Holding
  <2>2. CASE c # b
    <3>1. SnapInv(c) /\ build[c].inode \in Nat /\ inode \in Nat
      BY <1>1 DEF IdsInv, IdsType, BuildRec
    <3> QED BY <1>2, <1>3, <2>2, <3>1 DEF SnapInv, Holding
  <2> QED BY <2>1, <2>2
<1> QED BY <1>5, <1>6, <1>7, <1>8 DEF IdsInv

LEMMA BuildReadsIds == ASSUME IdsInv, NEW b \in Builds, BuildReadsRows(b) PROVE IdsInv'
<1> USE DEF mailVars, sideVars
<1>1. IdsType
  BY DEF IdsInv
<1>2. /\ build' = [build EXCEPT ![b].at = "open", ![b].snap = rows, ![b].whole = TRUE]
      /\ UNCHANGED <<mailVars, sideVars, read, cache, sought, unsettled>>
  BY DEF BuildReadsRows
<1>3. /\ build' \in [Builds -> BuildRec] /\ build'[b].at = "open" /\ build'[b].snap = rows
      /\ \A c \in Builds : c # b => build'[c] = build[c]
  <2> DEFINE rec == [build[b] EXCEPT !.at = "open", !.snap = rows, !.whole = TRUE]
  <2>1. rec \in BuildRec /\ rec.at = "open" /\ rec.snap = rows
    BY <1>1 DEF IdsType, BuildRec
  <2>2. build' = [build EXCEPT ![b] = rec]
    BY <1>1, <1>2 DEF IdsType
  <2> HIDE DEF rec
  <2> QED BY <1>1, <2>1, <2>2 DEF IdsType
<1>4. IdsType' /\ SideInv' /\ SettledInv' /\ ToldInv'
  BY <1>1, <1>2, <1>3
     DEF IdsInv, IdsType, SideInv, SettledInv, ToldInv, NoNoteMeansLookedFor, Missed, Topping
<1>5. \A p \in Reads : TopInv(p)'
  BY <1>2 DEF IdsInv, TopInv, Topping
<1>6. ASSUME NEW c \in Builds PROVE SnapInv(c)' /\ WholeInv(c)'
  <2>1. CASE c = b
    BY <1>1, <1>2, <1>3, <2>1 DEF IdsType, SnapInv, WholeInv
  <2>2. CASE c # b
    <3>1. build'[c] = build[c] /\ SnapInv(c) /\ WholeInv(c)
      BY <1>3, <2>2 DEF IdsInv
    <3> QED BY <1>2, <3>1 DEF SnapInv, WholeInv, Holding, Missed, Topping
  <2> QED BY <2>1, <2>2
<1> QED BY <1>4, <1>5, <1>6 DEF IdsInv

LEMMA BuildOpensIds == ASSUME IdsInv, NEW b \in Builds, BuildOpens(b) PROVE IdsInv'
<1> USE DEF mailVars
<1>1. IdsType
  BY DEF IdsInv
<1>2. /\ exists' = TRUE
      /\ UNCHANGED <<mailVars, inode, map, mark, read, cache, sought, unsettled>>
  BY DEF BuildOpens
<1> DEFINE again == mark # None /\ Top(build[b].snap) < mark
           known == IF again THEN {} ELSE {g \in Gids : map[g] # None}
<1>3. build[b].at = "open"
      /\ build' = [build EXCEPT ![b].at = "commit", ![b].again = again, ![b].inode = inode,
                                ![b].known = known]
  BY DEF BuildOpens
<1>4. again \in BOOLEAN /\ known \subseteq Gids /\ \A g \in known : map[g] # None
  OBVIOUS
<1> HIDE DEF again, known
<1>5. /\ build' \in [Builds -> BuildRec] /\ build'[b].at = "commit"
      /\ build'[b].snap = build[b].snap /\ build'[b].whole = build[b].whole
      /\ build'[b].inode = inode /\ build'[b].known = known
      /\ \A c \in Builds : c # b => build'[c] = build[c]
  <2> DEFINE rec == [build[b] EXCEPT !.at = "commit", !.again = again, !.inode = inode,
                                     !.known = known]
  <2>1. /\ rec \in BuildRec /\ rec.at = "commit" /\ rec.inode = inode /\ rec.known = known
        /\ rec.snap = build[b].snap /\ rec.whole = build[b].whole
    BY <1>1, <1>4 DEF IdsType, BuildRec
  <2>2. build' = [build EXCEPT ![b] = rec]
    BY <1>1, <1>3 DEF IdsType
  <2> HIDE DEF rec
  <2> QED BY <1>1, <2>1, <2>2 DEF IdsType
<1>6. IdsType' /\ SideInv' /\ SettledInv' /\ ToldInv'
  BY <1>1, <1>2, <1>5
     DEF IdsInv, IdsType, SideInv, SettledInv, ToldInv, NoNoteMeansLookedFor, Missed, Topping
<1>7. \A p \in Reads : TopInv(p)'
  BY <1>2 DEF IdsInv, TopInv, Topping
<1>8. ASSUME NEW c \in Builds PROVE SnapInv(c)' /\ WholeInv(c)'
  <2>1. CASE c = b
    <3>1. SnapInv(b) /\ WholeInv(b) /\ Holding(b) /\ inode \in Nat
      BY <1>1, <1>3 DEF IdsInv, IdsType, Holding
    <3>2. SnapInv(b)'
      BY <1>2, <1>4, <1>5, <3>1 DEF SnapInv
    <3>3. WholeInv(b)'
      BY <1>2, <1>5, <3>1 DEF WholeInv, Missed, Topping
    <3> QED BY <2>1, <3>2, <3>3
  <2>2. CASE c # b
    <3>1. build'[c] = build[c] /\ SnapInv(c) /\ WholeInv(c)
      BY <1>5, <2>2 DEF IdsInv
    <3> QED BY <1>2, <3>1 DEF SnapInv, WholeInv, Holding, Missed, Topping
  <2> QED BY <2>1, <2>2
<1> QED BY <1>6, <1>7, <1>8 DEF IdsInv

\* What a transaction commits was looked for, up to its mark.
LEMMA CommitLooks ==
    ASSUME IdsInv, NEW b \in Builds, build[b].at = "commit", build[b].inode = inode,
           BuildCommits(b)
    PROVE  /\ map' \in [Gids -> Msgs \cup {None}] /\ mark' \in Nat /\ mark' =< used /\ exists
           /\ \A g \in Gids : map[g] # None => map'[g] # None
           /\ \A r \in rows : Missed(r)' => Missed(r) /\ r \notin build[b].snap
           /\ \A r \in rows : Missed(r)' => ~(r.id =< mark')
<1>1. IdsType /\ SnapInv(b)
  BY DEF IdsInv
<1> DEFINE snap == build[b].snap
           known == build[b].known
<1>2. /\ map' = Harvest(snap, known) /\ mark' = Top(snap)
      /\ sought' = sought \cup NotFound(snap, known)
  BY DEF BuildCommits
<1>3. snap \subseteq AnyRow /\ known \subseteq Gids /\ used \in Nat
  BY <1>1 DEF IdsType, BuildRec
<1>4. /\ \A r \in snap : r.id \in 1..used
      /\ \A r \in rows, s \in snap : r.id =< s.id => r \in snap
      /\ exists /\ \A g \in known : map[g] # None
  BY <1>1 DEF SnapInv, Holding
<1> HIDE DEF snap, known
<1>5. /\ map' \in [Gids -> Msgs \cup {None}]
      /\ \A g \in Gids : map[g] # None => map'[g] # None
      /\ \A r \in snap : r.gid \notin known => map'[r.gid] # None \/ r.id \in NotFound(snap, known)
  BY <1>1, <1>2, <1>3, HarvestLooks DEF IdsType
<1>6. /\ mark' \in 0..used
      /\ mark' = 0 \/ \E s \in snap : s.id = mark'
  BY <1>2, <1>3, <1>4, TopIs
<1>7. rows' = rows
  BY DEF BuildCommits, mailVars
<1>8. \A r \in snap : ~Missed(r)'
  BY <1>2, <1>3, <1>4, <1>5 DEF Missed, AnyRow
<1>9. \A r \in rows : r.id =< mark' => r \in snap
  BY <1>1, <1>3, <1>4, <1>6 DEF IdsType
<1>10. \A r \in rows : Missed(r)' => Missed(r)
  BY <1>1, <1>2, <1>5 DEF Missed, IdsType, AnyRow
<1> QED BY <1>3, <1>4, <1>5, <1>6, <1>8, <1>9, <1>10 DEF snap

LEMMA BuildCommitsIds == ASSUME IdsInv, NEW b \in Builds, BuildCommits(b) PROVE IdsInv'
<1> USE DEF mailVars
<1>1. IdsType
  BY DEF IdsInv
<1>2. /\ build[b].at = "commit" /\ build' = [build EXCEPT ![b] = IdleBuild]
      /\ UNCHANGED <<mailVars, exists, inode, read, cache>>
  BY DEF BuildCommits
<1>3. IdleBuild \in BuildRec /\ IdleBuild.at = "idle"
  BY DEF IdleBuild, BuildRec
<1>4. CASE build[b].inode # inode
  <2>1. UNCHANGED <<sideVars, sought, unsettled>>
    BY <1>2, <1>4 DEF BuildCommits, sideVars
  <2> QED BY <1>2, <1>3, <2>1, BuildAside
<1>5. CASE build[b].inode = inode
  <2>1. /\ map' \in [Gids -> Msgs \cup {None}] /\ mark' \in Nat /\ mark' =< used /\ exists
        /\ \A g \in Gids : map[g] # None => map'[g] # None
        /\ \A r \in rows : Missed(r)' => Missed(r) /\ r \notin build[b].snap
        /\ \A r \in rows : Missed(r)' => ~(r.id =< mark')
    BY <1>2, <1>5, CommitLooks
  <2>2. unsettled' = IF Settles(b) THEN "no" ELSE unsettled
    BY <1>5 DEF BuildCommits
  <2>3. /\ build' \in [Builds -> BuildRec] /\ build'[b].at = "idle"
        /\ \A c \in Builds : c # b => build'[c] = build[c]
    BY <1>1, <1>2, <1>3 DEF IdsType
  <2>4. IdsType' /\ SideInv' /\ ToldInv'
    BY <1>1, <1>2, <2>1, <2>2, <2>3
       DEF IdsInv, IdsType, SideInv, ToldInv, NoNoteMeansLookedFor
  <2>5. \A p \in Reads : TopInv(p)'
    BY <1>2, <2>2 DEF IdsInv, TopInv, Topping
  <2>6. SettledInv'
    <3> SUFFICES ASSUME unsettled' = "no", NEW r \in rows, Missed(r)', NEW p \in Reads,
                        Topping(p), ~read[p].stale, r.id =< read[p].from
                 PROVE  FALSE
      BY <1>2, <2>1 DEF SettledInv, Topping
    <3>1. CASE Settles(b)
      BY <1>2, <2>1, <3>1 DEF IdsInv, WholeInv, Settles, Holding
    <3>2. CASE ~Settles(b)
      BY <2>1, <2>2, <3>2 DEF IdsInv, SettledInv
    <3> QED BY <3>1, <3>2
  <2>7. ASSUME NEW c \in Builds PROVE SnapInv(c)' /\ WholeInv(c)'
    <3>1. CASE c = b
      BY <2>3, <3>1 DEF SnapInv, WholeInv, Holding
    <3>2. CASE c # b
      <4>1. build'[c] = build[c] /\ SnapInv(c) /\ WholeInv(c) /\ build[c].known \subseteq Gids
        BY <1>1, <2>3, <3>2 DEF IdsInv, IdsType, BuildRec
      <4>2. SnapInv(c)'
        BY <1>2, <2>1, <4>1 DEF SnapInv, Holding
      <4>3. WholeInv(c)'
        BY <1>2, <2>1, <2>2, <4>1 DEF WholeInv, Holding, Topping
      <4> QED BY <4>2, <4>3
    <3> QED BY <3>1, <3>2
  <2> QED BY <2>4, <2>5, <2>6, <2>7 DEF IdsInv
<1> QED BY <1>4, <1>5

-----------------------------------------------------------------------------
(* Reads.                                                                   *)

\* A step of a read that neither begins nor lands a top-up.
LEMMA ReadAside ==
    ASSUME IdsInv, NEW p \in Reads, NEW rec \in ReadRec, rec.at # "topup",
           read' = [read EXCEPT ![p] = rec],
           cache' \in [Reads -> [BOOLEAN -> {"unknown", "sidecar", "floor"}]],
           \A q \in Reads : q # p => cache'[q] = cache[q],
           (/\ rec.at = "told" /\ rec.note = "none" /\ rec.sure
            /\ cache'[p][TRUE] # "floor") => rec.missing = {},
           UNCHANGED <<mailVars, sideVars, build, sought, unsettled>>
    PROVE  IdsInv'
<1> USE DEF mailVars, sideVars
<1>1. /\ read' \in [Reads -> ReadRec] /\ read'[p] = rec
      /\ \A q \in Reads : q # p => read'[q] = read[q]
  BY DEF IdsInv, IdsType
<1>2. IdsType' /\ SideInv'
  BY <1>1 DEF IdsInv, IdsType, SideInv
<1>3. \A q \in Reads : Topping(q)' => Topping(q) /\ read'[q] = read[q]
  BY <1>1 DEF Topping
<1>4. SettledInv'
  BY <1>3 DEF IdsInv, SettledInv, Missed
<1>5. ToldInv'
  BY <1>1 DEF IdsInv, ToldInv, NoNoteMeansLookedFor
<1>6. \A q \in Reads : TopInv(q)'
  BY <1>3 DEF IdsInv, TopInv
<1>7. ASSUME NEW b \in Builds PROVE SnapInv(b)' /\ WholeInv(b)'
  <2>1. SnapInv(b) /\ WholeInv(b)
    BY DEF IdsInv
  <2> QED BY <1>3, <2>1 DEF SnapInv, WholeInv, Holding, Missed
<1> QED BY <1>2, <1>4, <1>5, <1>6, <1>7 DEF IdsInv

LEMMA ReadBegins ==
    ASSUME IdsInv, NEW p \in Reads, ReadStarts(p) \/ Detect(p) \/ Query(p) PROVE IdsInv'
<1>1. IdsType /\ IdleRead \in ReadRec /\ IdleRead.at = "idle"
  BY DEF IdsInv, IdleRead, ReadRec
<1>2. CASE ReadStarts(p)
  <2> DEFINE rec == [IdleRead EXCEPT !.key = exists /\ cache[p][exists] = "unknown",
                                     !.at = IF cache[p][exists] = "unknown" THEN "detect"
                                            ELSE "setup"]
  <2>1. read' = [read EXCEPT ![p] = rec] /\ rec \in ReadRec /\ rec.at \in {"detect", "setup"}
    BY <1>1, <1>2 DEF ReadStarts, IdsType, IdleRead, ReadRec
  <2>2. UNCHANGED <<mailVars, sideVars, build, cache, sought, unsettled>>
    BY <1>2 DEF ReadStarts
  <2> HIDE DEF rec
  <2>3. /\ cache' \in [Reads -> [BOOLEAN -> {"unknown", "sidecar", "floor"}]]
        /\ \A q \in Reads : q # p => cache'[q] = cache[q]
    BY <1>1, <2>2 DEF IdsType
  <2> QED BY <2>1, <2>2, <2>3, ReadAside
<1>3. CASE Detect(p)
  <2> DEFINE mode == IF exists THEN "sidecar" ELSE "floor"
             rec == [IdleRead EXCEPT !.at = IF mode = "sidecar" THEN "setup" ELSE "idle"]
  <2>1. /\ cache' = [cache EXCEPT ![p][read[p].key] = mode]
        /\ read' = [read EXCEPT ![p] = rec]
        /\ UNCHANGED <<mailVars, sideVars, build, sought, unsettled>>
    BY <1>3 DEF Detect
  <2>2. rec \in ReadRec /\ rec.at \in {"idle", "setup"}
    BY DEF IdleRead, ReadRec
  <2>3. mode \in {"sidecar", "floor"} /\ read[p].key \in BOOLEAN
    BY <1>1 DEF IdsType, ReadRec
  <2> HIDE DEF mode, rec
  <2>4. /\ cache' \in [Reads -> [BOOLEAN -> {"unknown", "sidecar", "floor"}]]
        /\ \A q \in Reads : q # p => cache'[q] = cache[q]
    BY <1>1, <2>1, <2>3 DEF IdsType
  <2> QED BY <2>1, <2>2, <2>4, ReadAside
<1>4. CASE Query(p)
  <2> DEFINE rec == IF exists
                    THEN [read[p] EXCEPT !.at = "note",
                                         !.missing = {r \in rows : map[r.gid] = None},
                                         !.sure = mark # None /\ unsettled = "no"]
                    ELSE IdleRead
  <2>1. rec \in ReadRec /\ rec.at \in {"note", "idle"}
    BY <1>1 DEF IdsType, ReadRec
  <2>2. read' = [read EXCEPT ![p] = rec]
        /\ UNCHANGED <<mailVars, sideVars, build, cache, sought, unsettled>>
    BY <1>1, <1>4 DEF Query, IdsType
  <2> HIDE DEF rec
  <2>3. /\ cache' \in [Reads -> [BOOLEAN -> {"unknown", "sidecar", "floor"}]]
        /\ \A q \in Reads : q # p => cache'[q] = cache[q]
    BY <1>1, <2>2 DEF IdsType
  <2> QED BY <2>1, <2>2, <2>3, ReadAside
<1> QED BY <1>2, <1>3, <1>4

LEMMA SetupIds == ASSUME IdsInv, NEW p \in Reads, Setup(p) PROVE IdsInv'
<1> USE DEF mailVars, sideVars
<1>1. IdsType /\ used \in Nat
  BY DEF IdsInv, IdsType
<1> DEFINE small == mark # None /\ Top(rows) > mark /\ Top(rows) - mark <= TopUpMax
<1>2. /\ read' = [read EXCEPT ![p] =
                     IF small
                     THEN [@ EXCEPT !.at = "topup", !.from = mark, !.to = Top(rows),
                                    !.stale = unsettled = "rebuilt"]
                     ELSE [@ EXCEPT !.at = "query"]]
      /\ UNCHANGED <<mailVars, sideVars, build, cache, sought, unsettled>>
  BY DEF Setup
<1>3. CASE ~small
  <2> DEFINE rec == [read[p] EXCEPT !.at = "query"]
  <2>1. rec \in ReadRec /\ rec.at = "query" /\ read' = [read EXCEPT ![p] = rec]
    BY <1>1, <1>2, <1>3 DEF IdsType, ReadRec
  <2> HIDE DEF rec
  <2>2. /\ cache' \in [Reads -> [BOOLEAN -> {"unknown", "sidecar", "floor"}]]
        /\ \A q \in Reads : q # p => cache'[q] = cache[q]
    BY <1>1, <1>2 DEF IdsType
  <2> QED BY <1>2, <2>1, <2>2, ReadAside
<1>4. CASE small
  <2>1. mark \in Nat /\ mark < Top(rows) /\ Top(rows) \in 0..used
    BY <1>1, <1>4, TopIs DEF IdsType
  <2>2. /\ read' \in [Reads -> ReadRec] /\ read'[p].at = "topup"
        /\ read'[p].from = mark /\ read'[p].to = Top(rows)
        /\ read'[p].stale <=> unsettled = "rebuilt"
        /\ \A q \in Reads : q # p => read'[q] = read[q]
    <3> DEFINE old == unsettled = "rebuilt"
               rec == [read[p] EXCEPT !.at = "topup", !.from = mark, !.to = Top(rows),
                                      !.stale = old]
    <3>1. read' = [read EXCEPT ![p] = rec]
      BY <1>1, <1>2, <1>4 DEF IdsType
    <3>2. old \in BOOLEAN /\ (old <=> unsettled = "rebuilt")
      OBVIOUS
    <3> HIDE DEF old
    <3>3. /\ rec \in ReadRec /\ rec.at = "topup" /\ rec.from = mark /\ rec.to = Top(rows)
          /\ rec.stale = old
      <4> DEFINE top == Top(rows)
      <4>1. top \in Nat /\ mark \in Nat /\ read[p] \in ReadRec /\ old \in BOOLEAN
        BY <1>1, <2>1, <3>2 DEF IdsType
      <4> HIDE DEF top
      <4>2. rec = [read[p] EXCEPT !.at = "topup", !.from = mark, !.to = top, !.stale = old]
        BY DEF top
      <4> HIDE DEF rec
      <4>3. rec \in ReadRec
        BY <4>1, <4>2 DEF ReadRec
      <4>4. rec.at = "topup" /\ rec.from = mark /\ rec.to = top /\ rec.stale = old
        BY <4>1, <4>2 DEF ReadRec
      <4> QED BY <4>3, <4>4 DEF top
    <3> HIDE DEF rec
    <3> QED BY <1>1, <3>1, <3>2, <3>3 DEF IdsType
  <2> HIDE DEF small
  <2>3. IdsType' /\ SideInv' /\ ToldInv'
    BY <1>1, <1>2, <2>2 DEF IdsInv, IdsType, SideInv, ToldInv, NoNoteMeansLookedFor
  <2>4. mark # None
    BY <1>4 DEF small
  <2>5. SettledInv'
    BY <1>2, <2>2, <2>4 DEF IdsInv, SettledInv, Missed, Topping
  <2>6. \A q \in Reads : TopInv(q)'
    <3>1. TopInv(p)'
      <4>1. read'[p].from < read'[p].to /\ read'[p].to =< used
        BY <1>1, <2>1, <2>2
      <4>2. ~read'[p].stale => unsettled # "rebuilt"
        BY <2>2
      <4> QED BY <1>2, <4>1, <4>2 DEF TopInv
    <3>2. \A q \in Reads : q # p => TopInv(q)'
      BY <1>2, <2>2 DEF IdsInv, TopInv, Topping
    <3> QED BY <3>1, <3>2
  <2>7. ASSUME NEW b \in Builds PROVE SnapInv(b)' /\ WholeInv(b)'
    <3>1. SnapInv(b) /\ WholeInv(b)
      BY DEF IdsInv
    <3>2. SnapInv(b)'
      BY <1>2, <3>1 DEF SnapInv, Holding
    <3>3. WholeInv(b)'
      <4> SUFFICES ASSUME Holding(b), build[b].whole, NEW r \in rows, Missed(r)
                   PROVE  /\ r.id =< mark /\ unsettled # "rebuilt" => r \in build[b].snap
                          /\ \A q \in Reads :
                                /\ Topping(q)' /\ r.id =< read'[q].from
                                /\ ~read'[q].stale \/ unsettled \in {"wiped", "overtaken"}
                                => r \in build[b].snap
        BY <1>2, <2>4 DEF WholeInv, Holding, Missed
      <4>1. r.id =< mark /\ unsettled # "rebuilt" => r \in build[b].snap
        BY <2>4, <3>1 DEF WholeInv
      <4>2. \A q \in Reads : q # p => (Topping(q)' <=> Topping(q)) /\ read'[q] = read[q]
        BY <2>2 DEF Topping
      <4> QED BY <2>2, <3>1, <4>1, <4>2 DEF WholeInv
    <3> QED BY <3>2, <3>3
  <2> QED BY <2>3, <2>5, <2>6, <2>7 DEF IdsInv
<1> QED BY <1>3, <1>4

LEMMA TopUpIds == ASSUME IdsInv, NEW p \in Reads, TopUp(p) PROVE IdsInv'
<1> USE DEF mailVars
<1>1. IdsType /\ used \in Nat
  BY DEF IdsInv, IdsType
<1>2. /\ read[p].at = "topup" /\ read' = [read EXCEPT ![p] = [IdleRead EXCEPT !.at = "query"]]
      /\ UNCHANGED <<mailVars, inode, cache>>
  BY DEF TopUp
<1> DEFINE rec == [IdleRead EXCEPT !.at = "query"]
           new == {r \in rows : r.id > read[p].from}
<1>3. rec \in ReadRec /\ rec.at = "query"
  BY DEF IdleRead, ReadRec
<1>4. CASE UNCHANGED <<map, mark, exists, sought, unsettled, build>>
  <2>1. /\ cache' \in [Reads -> [BOOLEAN -> {"unknown", "sidecar", "floor"}]]
        /\ \A q \in Reads : q # p => cache'[q] = cache[q]
    BY <1>1, <1>2 DEF IdsType
  <2>2. read' = [read EXCEPT ![p] = rec] /\ UNCHANGED sideVars
    BY <1>2, <1>4 DEF sideVars
  <2> HIDE DEF rec, new
  <2> QED BY <1>2, <1>3, <1>4, <2>1, <2>2, ReadAside
<1>5. CASE /\ map' = Harvest(new, {}) /\ mark' = read[p].to /\ exists' = TRUE
           /\ sought' = sought \cup NotFound(new, {})
           /\ IF Overtakes(p) THEN unsettled' = "overtaken" /\ build' = Outdated(build)
              ELSE UNCHANGED <<unsettled, build>>
  <2>1. /\ read' \in [Reads -> ReadRec] /\ read'[p].at = "query"
        /\ \A q \in Reads : q # p => read'[q] = read[q]
    BY <1>1, <1>2, <1>3 DEF IdsType
  <2>2. /\ \A q \in Reads : Topping(q)' => Topping(q) /\ read'[q] = read[q]
        /\ Topping(p) /\ TopInv(p)
    BY <1>2, <2>1 DEF Topping, IdsInv
  <2>3. read[p].from \in Nat /\ read[p].to \in Nat /\ read[p].to =< used
        /\ read[p].from < read[p].to
    BY <1>1, <2>2 DEF IdsType, ReadRec, TopInv
  <2>4. new \subseteq AnyRow
    BY <1>1 DEF IdsType
  <2>5. /\ map' \in [Gids -> Msgs \cup {None}]
        /\ \A g \in Gids : map[g] # None => map'[g] # None
        /\ \A r \in new : map'[r.gid] # None \/ r.id \in NotFound(new, {})
    <3> HIDE DEF new
    <3> QED BY <1>1, <1>5, <2>4, HarvestLooks DEF IdsType
  <2>6. \A r \in rows : Missed(r)' => Missed(r) /\ r.id =< read[p].from
    <3>1. \A r \in rows : r.gid \in Gids /\ r.id \in Nat
      BY <1>1 DEF IdsType, AnyRow
    <3>2. \A r \in new : ~Missed(r)'
      BY <1>5, <2>5 DEF Missed
    <3>3. \A r \in rows : Missed(r)' => Missed(r)
      BY <1>5, <2>5, <3>1 DEF Missed
    <3>4. \A r \in rows : r \in new \/ r.id =< read[p].from
      BY <2>3, <3>1
    <3> QED BY <3>2, <3>3, <3>4
  <2> HIDE DEF new
  <2>7. /\ build' \in [Builds -> BuildRec]
        /\ \A b \in Builds : /\ build'[b].at = build[b].at /\ build'[b].snap = build[b].snap
                             /\ build'[b].known = build[b].known /\ build'[b].inode = build[b].inode
                             /\ ~Overtakes(p) => build'[b].whole = build[b].whole
                             /\ Overtakes(p) => ~build'[b].whole
    BY <1>1, <1>5, OutdatedIs DEF IdsType, OutdatedRec
  <2>8. unsettled' \in {"no", "wiped", "rebuilt", "overtaken"}
        /\ unsettled' = IF Overtakes(p) THEN "overtaken" ELSE unsettled
    BY <1>1, <1>5 DEF IdsType
  <2>9. IdsType' /\ SideInv' /\ ToldInv'
    BY <1>1, <1>2, <1>5, <2>1, <2>3, <2>5, <2>7, <2>8
       DEF IdsInv, IdsType, SideInv, ToldInv, NoNoteMeansLookedFor
  <2>10. \A q \in Reads : TopInv(q)'
    BY <1>2, <2>2, <2>8 DEF IdsInv, TopInv
  <2>11. SettledInv'
    <3> SUFFICES ASSUME unsettled' = "no", NEW r \in rows, Missed(r)'
                 PROVE  /\ mark' # None => ~(r.id =< mark')
                        /\ \A q \in Reads : Topping(q)' /\ ~read'[q].stale
                                            => ~(r.id =< read'[q].from)
      BY <1>2 DEF SettledInv
    <3>1. ~Overtakes(p) /\ unsettled = "no" /\ ~read[p].stale
      BY <2>8 DEF Overtakes
    <3> QED BY <2>2, <2>6, <3>1 DEF IdsInv, SettledInv
  <2>12. ASSUME NEW b \in Builds PROVE SnapInv(b)'
    <3>1. SnapInv(b) /\ build[b].known \subseteq Gids
      BY <1>1 DEF IdsInv, IdsType, BuildRec
    <3> QED BY <1>2, <1>5, <2>5, <2>7, <3>1 DEF SnapInv, Holding
  <2>13. ASSUME NEW b \in Builds PROVE WholeInv(b)'
    <3>1. CASE Overtakes(p)
      BY <2>7, <3>1 DEF WholeInv
    <3>2. CASE ~Overtakes(p)
      <4> SUFFICES ASSUME Holding(b), build[b].whole, NEW r \in rows, Missed(r)'
                   PROVE  /\ unsettled # "rebuilt" => r \in build[b].snap
                          /\ \A q \in Reads :
                                /\ Topping(q) /\ r.id =< read[q].from
                                /\ ~read[q].stale \/ unsettled \in {"wiped", "overtaken"}
                                => r \in build[b].snap
        BY <1>2, <2>2, <2>7, <2>8, <3>2 DEF WholeInv, Holding
      <4>1. Missed(r) /\ r.id =< read[p].from /\ WholeInv(b)
        BY <2>6 DEF IdsInv
      <4>2. unsettled # "rebuilt" => ~read[p].stale \/ unsettled \in {"wiped", "overtaken"}
        BY <1>1, <3>2 DEF Overtakes, IdsType
      <4> QED BY <2>2, <4>1, <4>2 DEF WholeInv
    <3> QED BY <3>1, <3>2
  <2> QED BY <2>9, <2>10, <2>11, <2>12, <2>13 DEF IdsInv
<1> QED BY <1>4, <1>5 DEF TopUp

LEMMA NoteIds == ASSUME IdsInv, NEW p \in Reads, Note(p) PROVE IdsInv'
<1>1. IdsType
  BY DEF IdsInv
<1> DEFINE rec == [read[p] EXCEPT
                      !.at = "told", !.note = StalenessNote(p),
                      !.missing = {r \in @ : r \in rows /\ r.id \notin sought
                                             /\ map[r.gid] = None},
                      !.sure = @ /\ mark # None /\ unsettled = "no"]
<1>2. /\ cache' = [cache EXCEPT ![p][exists] = ModeNow(p)]
      /\ read' = [read EXCEPT ![p] = rec]
      /\ UNCHANGED <<mailVars, sideVars, build, sought, unsettled>>
  BY <1>1 DEF Note, IdsType
<1>3. ModeNow(p) \in {"sidecar", "floor"} /\ exists \in BOOLEAN
  BY <1>1 DEF ModeNow, IdsType
<1>4. StalenessNote(p) \in {"none", "behind", "rebuilt"}
  BY DEF StalenessNote
<1>5. /\ rec \in ReadRec /\ rec.at = "told" /\ rec.note = StalenessNote(p)
      /\ rec.missing \subseteq {r \in rows : Missed(r)}
      /\ rec.sure => mark # None /\ unsettled = "no"
  BY <1>1, <1>4 DEF IdsType, ReadRec, Missed
<1> HIDE DEF rec
<1>6. /\ cache' \in [Reads -> [BOOLEAN -> {"unknown", "sidecar", "floor"}]]
      /\ \A q \in Reads : q # p => cache'[q] = cache[q]
      /\ exists => cache'[p][TRUE] = ModeNow(p)
  BY <1>1, <1>2, <1>3 DEF IdsType
<1>7. ASSUME rec.note = "none", rec.sure, cache'[p][TRUE] # "floor" PROVE rec.missing = {}
  <2>1. mark # None /\ unsettled = "no" /\ exists /\ SettledInv
    BY <1>5, <1>7 DEF IdsInv, SideInv
  <2>2. ModeNow(p) = "sidecar"
    BY <1>3, <1>6, <1>7, <2>1
  <2>3. Top(rows) = mark
    BY <1>5, <1>7, <2>1, <2>2 DEF StalenessNote
  <2>4. \A r \in rows : r.id =< mark
    BY <1>1, <2>3, TopIs DEF IdsType
  <2> QED BY <1>5, <2>1, <2>4 DEF SettledInv
<1> QED BY <1>2, <1>5, <1>6, <1>7, ReadAside

-----------------------------------------------------------------------------
LEMMA StepIds == ASSUME ~RebuildsAnytime, IdsInv, [Next]_vars PROVE IdsInv'
<1>1. CASE UNCHANGED vars
  BY <1>1 DEF vars, mailVars, sideVars, IdsInv, IdsType, SideInv, SettledInv, ToldInv,
              NoNoteMeansLookedFor, SnapInv, WholeInv, TopInv, Holding, Topping, Missed
<1>2. CASE Mail
  BY <1>2, MailMoves, RebuildMoves DEF Mail
<1>3. ASSUME NEW b \in Builds, Build(b) PROVE IdsInv'
  <2>1. CASE BuildStarts(b) \/ BuildCrashes(b)
    <3> DEFINE rec == IF BuildStarts(b) THEN [build[b] EXCEPT !.at = "rows"] ELSE IdleBuild
    <3>1. rec \in BuildRec /\ rec.at \in {"idle", "rows"}
      BY DEF IdsInv, IdsType, BuildRec, IdleBuild
    <3>2. build' = [build EXCEPT ![b] = rec]
          /\ UNCHANGED <<mailVars, sideVars, read, cache, sought, unsettled>>
      BY <2>1 DEF BuildStarts, BuildCrashes, IdsInv, IdsType
    <3> HIDE DEF rec
    <3> QED BY <3>1, <3>2, BuildAside
  <2> QED BY <1>3, <2>1, WipeIds, BuildReadsIds, BuildOpensIds, BuildCommitsIds DEF Build
<1>4. ASSUME NEW p \in Reads, Read(p) PROVE IdsInv'
  BY <1>4, ReadBegins, SetupIds, TopUpIds, NoteIds DEF Read
<1> QED BY <1>1, <1>2, <1>3, <1>4 DEF Next

\* Where Mail rebuilds its index only between our calls, an answer that carries no note
\* lacks no message that a harvest never looked for, however builds, wipes, top-ups, reads and
\* Mail's own changes interleave (mail_index.staleness_note).
THEOREM NoNoteIsHonest == ASSUME ~RebuildsAnytime PROVE Spec => []NoNoteMeansLookedFor
<1>1. IdsInv => NoNoteMeansLookedFor
  BY DEF IdsInv, ToldInv
<1> QED BY <1>1, InitIds, StepIds, PTL DEF Spec

-----------------------------------------------------------------------------
(* MailQueries.                                                            *)

(* Rows keep their numbers.                                                *)

RowsInv ==
    /\ StoredTypeOK /\ IsFiniteSet(stored)
    /\ \A r \in stored : r.id =< Cardinality(stored)

LEMMA InitRows == ASSUME StoredInit PROVE RowsInv
<1>1. stored = {} /\ labels = {} /\ changes = 0 /\ source = [b \in Boxes |-> Null]
  BY DEF StoredInit
<1>2. MaxChanges \in Nat
  BY QueriesAssumption
<1> QED BY <1>1, <1>2, FS_EmptySet DEF RowsInv, StoredTypeOK

LEMMA DeliverRows == ASSUME RowsInv, Store PROVE RowsInv'
<1>1. PICK b \in Stores, mid \in Mids \cup {Null}, conv \in Convs, date \in Dates,
           seen \in BOOLEAN :
         stored' = stored \cup {[id |-> Cardinality(stored) + 1, box |-> b, mid |-> mid,
                                 conv |-> conv, date |-> date, read |-> seen,
                                 deleted |-> FALSE]}
  BY DEF Store
<1> DEFINE new == [id |-> Cardinality(stored) + 1, box |-> b, mid |-> mid, conv |-> conv,
                   date |-> date, read |-> seen, deleted |-> FALSE]
<1>2. Cardinality(stored) \in Nat /\ MaxStored \in Nat /\ Cardinality(stored) < MaxStored
      /\ Stores \subseteq Boxes
  BY FS_CardinalityType, QueriesAssumption DEF RowsInv, Store
<1>3. new \in StoredRow /\ new.id = Cardinality(stored) + 1
  BY <1>2 DEF StoredRow
<1>4. stored' = stored \cup {new}
  BY <1>1
<1> HIDE DEF new
<1>5. \A r \in stored : r.id \in Nat /\ r.id =< Cardinality(stored)
  BY DEF RowsInv, StoredTypeOK, StoredRow
<1>6. new \notin stored
  BY <1>2, <1>3, <1>5
<1>7. IsFiniteSet(stored') /\ Cardinality(stored') = Cardinality(stored) + 1
  BY <1>4, <1>6, FS_AddElement DEF RowsInv
<1>8. \A r \in stored' : r.id =< Cardinality(stored')
  BY <1>2, <1>3, <1>4, <1>5, <1>7
<1>9. \A r, s \in stored' : r.id = s.id => r = s
  BY <1>2, <1>3, <1>4, <1>5 DEF RowsInv, StoredTypeOK
<1>10. stored' \subseteq StoredRow /\ labels' \subseteq {r.id : r \in stored'} \X Boxes
       /\ UNCHANGED <<source, changes>>
  BY <1>3, <1>4 DEF RowsInv, StoredTypeOK, Store
<1> QED BY <1>7, <1>8, <1>9, <1>10 DEF RowsInv, StoredTypeOK

LEMMA TombstoneRows == ASSUME RowsInv, Tombstone PROVE RowsInv'
<1>1. PICK r \in Live : stored' = (stored \ {r}) \cup {[r EXCEPT !.deleted = TRUE]}
  BY DEF Tombstone
<1> DEFINE new == [r EXCEPT !.deleted = TRUE]
<1>2. r \in stored /\ ~r.deleted /\ r \in StoredRow
  BY DEF Live, RowsInv, StoredTypeOK
<1>3. new \in StoredRow /\ new.id = r.id /\ new # r
  BY <1>2 DEF StoredRow
<1>4. stored' = (stored \ {r}) \cup {new}
  BY <1>1
<1> HIDE DEF new
<1>5. \A s, t \in stored : s.id = t.id => s = t
  BY DEF RowsInv, StoredTypeOK
<1>6. new \notin stored
  BY <1>2, <1>3, <1>5
<1>7. Cardinality(stored) \in Nat
  BY FS_CardinalityType DEF RowsInv
<1>8. IsFiniteSet(stored \ {r}) /\ Cardinality(stored \ {r}) = Cardinality(stored) - 1
  BY <1>2, FS_RemoveElement DEF RowsInv
<1>9. IsFiniteSet(stored')
      /\ Cardinality(stored') = Cardinality(stored \ {r}) + 1
  BY <1>4, <1>6, <1>8, FS_AddElement
<1>10. \A s \in stored' : s.id =< Cardinality(stored')
  BY <1>2, <1>3, <1>4, <1>7, <1>8, <1>9 DEF RowsInv
<1>11. \A s, t \in stored' : s.id = t.id => s = t
  BY <1>2, <1>3, <1>4, <1>5
<1>12. {s.id : s \in stored} = {s.id : s \in stored'}
  BY <1>2, <1>3, <1>4
<1>13. stored' \subseteq StoredRow
  BY <1>3, <1>4 DEF RowsInv, StoredTypeOK
<1>14. changes' \in 0..MaxChanges
  BY QueriesAssumption DEF Tombstone, Change, RowsInv, StoredTypeOK
<1>15. labels' \subseteq {s.id : s \in stored'} \X Boxes /\ source' = source
  BY <1>12 DEF RowsInv, StoredTypeOK, Tombstone
<1> QED BY <1>9, <1>10, <1>11, <1>13, <1>14, <1>15 DEF RowsInv, StoredTypeOK

LEMMA StepRows == ASSUME RowsInv, [StoredNext]_storedVars PROVE RowsInv'
<1>1. CASE UNCHANGED storedVars
  BY <1>1 DEF storedVars, RowsInv, StoredTypeOK
<1>2. CASE Label
  <2>1. PICK r \in Live, b \in Boxes : labels' = labels \cup {<<r.id, b>>}
    BY <1>2 DEF Label
  <2> QED BY <1>2, <2>1 DEF Label, Live, RowsInv, StoredTypeOK
<1>3. CASE Unlabel
  BY <1>3, QueriesAssumption DEF Unlabel, Change, RowsInv, StoredTypeOK
<1>4. CASE SourceKnown
  <2>1. PICK b \in Boxes : source' = [source EXCEPT ![b] = Backing[b]]
    BY <1>4 DEF SourceKnown
  <2>2. Backing[b] \in Boxes \cup {Null}
    BY QueriesAssumption
  <2> QED BY <1>4, <2>1, <2>2, QueriesAssumption DEF SourceKnown, Change, RowsInv, StoredTypeOK
<1> QED BY <1>1, <1>2, <1>3, <1>4, DeliverRows, TombstoneRows DEF StoredNext

-----------------------------------------------------------------------------
(* The membership, and the guard.                                          *)

LEMMA MembersAre == ASSUME RowsInv PROVE Membership \subseteq Live \X Boxes
BY DEF Membership, Direct, Labelled, BareLabelled, BareLabels

LEMMA GuardSparesStored ==
    ASSUME RowsInv PROVE WhatMovesIsStored
<1> SUFFICES ASSUME NEW m \in Citable(Membership), ~IsLabelMailbox(m[2])
             PROVE  \E at \in Locations(m[1].mid) : at[2] = m[2]
  BY DEF WhatMovesIsStored
<1>1. m \in Membership /\ m[1] \in Live /\ m[1] \in stored /\ m[2] \in Boxes
  BY MembersAre DEF Citable, Live
<1>2. m[1].box \in Boxes /\ Null \notin Boxes
  BY <1>1, QueriesAssumption DEF RowsInv, StoredTypeOK, StoredRow
<1>3. CASE m \in Direct
  <2>1. <<m[1].id, m[1].box>> \in Locations(m[1].mid) /\ m[1].box = m[2]
    BY <1>1, <1>3 DEF Direct, Locations
  <2> QED BY <2>1
<1>4. CASE m \in Labelled
  BY <1>2, <1>4 DEF Labelled, IsLabelMailbox
<1>5. CASE m \in BareLabelled
  <2>1. /\ m[2] \in BareLabels /\ <<m[1].id, m[2]>> \in labels
        /\ Account[m[2]] = Account[m[1].box]
    BY <1>5 DEF BareLabelled
  <2>2. Account[m[2]] \in LabelAccounts
    BY <1>1, <2>1 DEF LabelAccounts
  <2>3. m[2] \notin Physical
    BY <2>1 DEF BareLabels, Physical
  <2> QED BY <2>2, <2>3 DEF IsLabelMailbox
<1> QED BY <1>1, <1>3, <1>4, <1>5 DEF Membership

\* A message that a read shows in a mailbox which the label guard lets move_mail and trash_mail
\* act on is stored there, whatever labels, sources and tombstones Mail's index has
\* (mail_index.is_label_mailbox, #291, #299).
THEOREM MovesAreStored == StoredSpec => []WhatMovesIsStored
BY InitRows, StepRows, GuardSparesStored, PTL DEF StoredSpec

-----------------------------------------------------------------------------
(* Counting: what stands once for each key.                                *)

\* A finite set has a member with the least value of f, and one with the greatest.
LEMMA Extremes ==
    ASSUME NEW T, IsFiniteSet(T), T # {}, NEW f \in [T -> Nat]
    PROVE  /\ \E m \in T : \A n \in T : f[m] =< f[n]
           /\ \E m \in T : \A n \in T : f[n] =< f[m]
<1> DEFINE R == {f[m] : m \in T}
<1>1. f \in Surjection(T, R)
  BY DEF Surjection
<1>2. IsFiniteSet(R) /\ R # {} /\ R \subseteq Nat
  BY <1>1, FS_Surjection
<1> HIDE DEF R
<1>3. /\ \E x \in R : \A y \in R : x =< y
      /\ \E x \in R : \A y \in R : y =< x
  BY <1>2, FiniteBounds
<1> QED BY <1>3 DEF R

\* As many keys as members that stand for them.
LEMMA Representatives ==
    ASSUME NEW S, IsFiniteSet(S), NEW f, DOMAIN f = S, NEW R, R \subseteq S,
           \A x \in S : \E y \in R : f[y] = f[x],
           \A x, y \in R : f[x] = f[y] => x = y
    PROVE  Cardinality({f[x] : x \in S}) = Cardinality(R)
<1> DEFINE T == {f[x] : x \in S}
           g == [x \in R |-> f[x]]
<1>1. g \in Bijection(R, T)
  <2>1. /\ g \in [R -> T] /\ \A t \in T : \E x \in R : g[x] = t
        /\ \A x, y \in R : g[x] = g[y] => x = y
    OBVIOUS
  <2> QED BY <2>1, Fun_IsBij
<1>2. IsFiniteSet(R)
  BY FS_Subset
<1> QED BY <1>1, <1>2, FS_Bijection DEF ExistsBijection

-----------------------------------------------------------------------------
(* One citation for each Message-ID.                                       *)

\* What a read ranks: memberships of live rows.
Hits(hits) == hits \subseteq Live \X Boxes

LEMMA RowIs ==
    ASSUME RowsInv, NEW hits, Hits(hits), NEW m \in hits
    PROVE  /\ m[1] \in stored /\ m[1] \in Live /\ m[2] \in Boxes /\ m = <<m[1], m[2]>>
           /\ m[1].id \in Nat /\ m[1].date \in Nat /\ m[2] \in Nat
           /\ CopyRank(m[2]) \in Nat
<1>1. m[1] \in stored /\ m[1] \in Live /\ m[2] \in Boxes /\ m = <<m[1], m[2]>>
  BY DEF Hits, Live
<1>2. m[1].id \in Nat /\ m[1].date \in Nat /\ m[2] \in Nat
  BY <1>1, QueriesAssumption DEF RowsInv, StoredTypeOK, StoredRow
<1>3. CopyRank(m[2]) \in Nat
  BY DEF CopyRank
<1> QED BY <1>1, <1>2, <1>3

LEMMA BeforeIs ==
    ASSUME NEW m, NEW n
    PROVE  Before(m, n) <=>
              \/ CopyRank(m[2]) < CopyRank(n[2])
              \/ /\ CopyRank(m[2]) = CopyRank(n[2])
                 /\ \/ m[1].date > n[1].date
                    \/ /\ m[1].date = n[1].date
                       /\ \/ m[1].id < n[1].id
                          \/ m[1].id = n[1].id /\ m[2] < n[2]
BY DEF Before, Ranks

LEMMA HitsFinite == ASSUME RowsInv, NEW hits, Hits(hits) PROVE IsFiniteSet(hits)
<1>1. IsFiniteSet(Boxes)
  BY QueriesAssumption
<1>2. IsFiniteSet(Live)
  BY FS_Subset DEF RowsInv, Live
<1>3. IsFiniteSet(Live \X Boxes)
  BY <1>1, <1>2, FS_Product
<1> QED BY <1>3, FS_Subset DEF Hits

\* Any hits have one that comes before all others.
LEMMA FirstHit ==
    ASSUME RowsInv, NEW hits, Hits(hits), hits # {}
    PROVE  \E m \in hits : \A n \in hits : m = n \/ Before(m, n)
<1> DEFINE rank == [m \in hits |-> CopyRank(m[2])]
<1>1. \A T : T \subseteq hits => IsFiniteSet(T)
  BY HitsFinite, FS_Subset
<1>2. PICK m1 \in hits : \A n \in hits : CopyRank(m1[2]) =< CopyRank(n[2])
  <2>1. rank \in [hits -> Nat]
    BY RowIs
  <2>2. \E m \in hits : \A n \in hits : rank[m] =< rank[n]
    <3> HIDE DEF rank
    <3> QED BY <1>1, <2>1, Extremes
  <2> QED BY <2>2
<1> DEFINE T2 == {n \in hits : CopyRank(n[2]) = CopyRank(m1[2])}
           dates == [m \in T2 |-> m[1].date]
<1>3. PICK m2 \in T2 : \A n \in T2 : n[1].date =< m2[1].date
  <2>1. dates \in [T2 -> Nat] /\ T2 # {} /\ T2 \subseteq hits
    BY RowIs
  <2>2. \E m \in T2 : \A n \in T2 : dates[n] =< dates[m]
    <3> HIDE DEF dates, T2
    <3> QED BY <1>1, <2>1, Extremes
  <2> QED BY <2>2
<1> DEFINE T3 == {n \in T2 : n[1].date = m2[1].date}
           ids == [m \in T3 |-> m[1].id]
<1>4. PICK m3 \in T3 : \A n \in T3 : m3[1].id =< n[1].id
  <2>1. ids \in [T3 -> Nat] /\ T3 # {} /\ T3 \subseteq hits
    BY RowIs
  <2>2. \E m \in T3 : \A n \in T3 : ids[m] =< ids[n]
    <3> HIDE DEF ids, T3
    <3> QED BY <1>1, <2>1, Extremes
  <2> QED BY <2>2
<1> DEFINE T4 == {n \in T3 : n[1].id = m3[1].id}
           boxes == [m \in T4 |-> m[2]]
<1>5. PICK m4 \in T4 : \A n \in T4 : m4[2] =< n[2]
  <2>1. boxes \in [T4 -> Nat] /\ T4 # {} /\ T4 \subseteq hits
    BY RowIs
  <2>2. \E m \in T4 : \A n \in T4 : boxes[m] =< boxes[n]
    <3> HIDE DEF boxes, T4
    <3> QED BY <1>1, <2>1, Extremes
  <2> QED BY <2>2
<1>6. ASSUME NEW n \in hits PROVE m4 = n \/ Before(m4, n)
  <2>1. /\ CopyRank(m4[2]) = CopyRank(m1[2]) /\ m4[1].date = m2[1].date
        /\ m4[1].id = m3[1].id /\ m4 \in hits
    OBVIOUS
  <2>2. /\ CopyRank(n[2]) \in Nat /\ n[1].date \in Nat /\ n[1].id \in Nat /\ n[2] \in Nat
        /\ n[1] \in stored /\ n = <<n[1], n[2]>>
    BY RowIs
  <2>3. /\ CopyRank(m4[2]) \in Nat /\ m4[1].date \in Nat /\ m4[1].id \in Nat /\ m4[2] \in Nat
        /\ m4[1] \in stored /\ m4 = <<m4[1], m4[2]>>
    BY <2>1, RowIs
  <2>4. CopyRank(m4[2]) =< CopyRank(n[2])
    BY <1>2, <2>1
  <2>5. CopyRank(m4[2]) = CopyRank(n[2]) => n \in T2 /\ n[1].date =< m4[1].date
    BY <1>3, <2>1
  <2>6. n \in T2 /\ n[1].date = m4[1].date => n \in T3 /\ m4[1].id =< n[1].id
    BY <1>4, <2>1
  <2>7. n \in T3 /\ m4[1].id = n[1].id => m4[2] =< n[2] /\ m4[1] = n[1]
    BY <1>5, <2>1, <2>2, <2>3 DEF RowsInv, StoredTypeOK
  <2> HIDE DEF T2, T3, T4
  <2>8. m4[1] = n[1] /\ m4[2] = n[2] => m4 = n
    BY <2>2, <2>3
  <2> QED BY <2>2, <2>3, <2>4, <2>5, <2>6, <2>7, <2>8, BeforeIs
<1> QED BY <1>6

\* Every hit is cited by one of its Message-ID, and by no other.
LEMMA CitedOnce ==
    ASSUME RowsInv, NEW hits, Hits(hits)
    PROVE  /\ Cited(hits) \subseteq hits
           /\ \A m \in hits : \E n \in Cited(hits) : n[1].mid = m[1].mid
           /\ \A m, n \in Cited(hits) : m[1].mid = n[1].mid => m = n
<1>1. ASSUME NEW m \in hits PROVE \E n \in Cited(hits) : n[1].mid = m[1].mid
  <2> DEFINE T == {n \in hits : n[1].mid = m[1].mid}
  <2>1. Hits(T) /\ T # {}
    BY DEF Hits
  <2>2. PICK n \in T : \A k \in T : n = k \/ Before(n, k)
    <3> HIDE DEF T
    <3> QED BY <2>1, FirstHit
  <2>3. n \in Cited(hits)
    BY <2>2 DEF Cited
  <2> QED BY <2>3
<1>2. ASSUME NEW m \in Cited(hits), NEW n \in Cited(hits), m[1].mid = n[1].mid, m # n
      PROVE  FALSE
  <2>1. m \in hits /\ n \in hits /\ Before(m, n) /\ Before(n, m)
    BY <1>2 DEF Cited
  <2>2. /\ CopyRank(n[2]) \in Nat /\ n[1].date \in Nat /\ n[1].id \in Nat /\ n[2] \in Nat
        /\ CopyRank(m[2]) \in Nat /\ m[1].date \in Nat /\ m[1].id \in Nat /\ m[2] \in Nat
    BY <2>1, RowIs
  <2> QED BY <2>1, <2>2, BeforeIs
<1> QED BY <1>1, <1>2 DEF Cited

-----------------------------------------------------------------------------
(* The reads.                                                              *)

\* Two keys are equal where the Message-IDs are, or where there is none and the row is one.
LEMMA KeyIs ==
    ASSUME RowsInv, NEW r \in stored, NEW s \in stored
    PROVE  Key(r) = Key(s) <=> r = s \/ (r.mid = s.mid /\ r.mid # Null)
<1>1. /\ r.mid \in Mids \cup {Null} /\ s.mid \in Mids \cup {Null}
      /\ r.id \in 1..MaxStored /\ s.id \in 1..MaxStored /\ (r.id = s.id => r = s)
  BY DEF RowsInv, StoredTypeOK, StoredRow
<1>2. <<r.id>> \notin Mids /\ <<s.id>> \notin Mids
  BY <1>1, QueriesAssumption
<1>3. <<r.id>> = <<s.id>> <=> r.id = s.id
  OBVIOUS
<1> QED BY <1>1, <1>2, <1>3 DEF Key

\* mail_overview and a search filtered to one mailbox.
LEMMA OverviewIsSearch ==
    ASSUME RowsInv, NEW mem, Hits(mem), NEW b \in Boxes
    PROVE  OverviewTotal(mem, b) = Cardinality(Search(mem, {b}))
               + Cardinality({r \in MembersOf(mem, b) : r.mid = Null})
<1> DEFINE hits == {m \in Citable(mem) : m[2] \in {b}}
           members == MembersOf(mem, b)
           named == {m[1] : m \in Cited(hits)}
           plain == {r \in members : r.mid = Null}
           key == [r \in members |-> Key(r)]
<1>1. Hits(hits) /\ hits = {m \in mem : m[2] = b /\ m[1].mid # Null}
  BY DEF Hits, Citable
<1>2. members = {m[1] : m \in {n \in mem : n[2] = b}} /\ members \subseteq stored
  BY DEF MembersOf, Hits, Live
<1>3. /\ Cited(hits) \subseteq hits
      /\ \A m \in hits : \E n \in Cited(hits) : n[1].mid = m[1].mid
      /\ \A m, n \in Cited(hits) : m[1].mid = n[1].mid => m = n
  <2> HIDE DEF hits
  <2> QED BY <1>1, CitedOnce
<1>4. Search(mem, {b}) = Cited(hits)
  BY DEF Search
<1> HIDE DEF hits, members
<1>5. IsFiniteSet(members) /\ IsFiniteSet(Cited(hits)) /\ IsFiniteSet(plain)
  <2>1. IsFiniteSet(members)
    BY <1>2, FS_Subset DEF RowsInv
  <2>2. IsFiniteSet(Cited(hits))
    BY <1>1, <1>3, HitsFinite, FS_Subset
  <2>3. IsFiniteSet(plain)
    BY <2>1, FS_Subset
  <2> QED BY <2>1, <2>2, <2>3
<1>6. named \subseteq members /\ \A r \in named : r.mid # Null
  <2> SUFFICES ASSUME NEW m \in Cited(hits) PROVE m[1] \in members /\ m[1].mid # Null
    OBVIOUS
  <2>1. m \in mem /\ m[2] = b /\ m[1].mid # Null
    BY <1>1, <1>3
  <2> QED BY <2>1, <1>2
<1>7. Cardinality({key[r] : r \in members}) = Cardinality(named \cup plain)
  <2>1. DOMAIN key = members /\ named \cup plain \subseteq members
    BY <1>6
  <2>2. ASSUME NEW r \in members PROVE \E s \in named \cup plain : key[s] = key[r]
    <3>1. CASE r.mid = Null
      BY <3>1
    <3>2. CASE r.mid # Null
      <4>1. PICK m \in hits : m[1] = r
        BY <1>1, <1>2, <3>2
      <4>2. PICK n \in Cited(hits) : n[1].mid = r.mid
        BY <1>3, <4>1
      <4>3. n[1] \in named /\ n[1] \in stored /\ r \in stored /\ n[1] \in members
        BY <1>2, <1>6
      <4>4. Key(n[1]) = Key(r)
        BY <3>2, <4>2, <4>3, KeyIs
      <4> QED BY <4>3, <4>4
    <3> QED BY <3>1, <3>2
  <2>3. ASSUME NEW r \in named \cup plain, NEW s \in named \cup plain, key[r] = key[s]
        PROVE  r = s
    <3>1. r \in members /\ s \in members /\ r \in stored /\ s \in stored
      BY <1>2, <1>6
    <3>2. Key(r) = Key(s)
      BY <2>3, <3>1
    <3>3. r = s \/ (r.mid = s.mid /\ r.mid # Null)
      BY <3>1, <3>2, KeyIs
    <3>4. CASE r.mid = s.mid /\ r.mid # Null
      BY <1>3, <3>4
    <3> QED BY <3>3, <3>4
  <2> HIDE DEF key, named, plain
  <2> QED BY <1>5, <2>1, <2>2, <2>3, Representatives
<1>8. Cardinality(named) = Cardinality(Cited(hits)) /\ IsFiniteSet(named)
  <2> DEFINE f == [m \in Cited(hits) |-> m[1]]
  <2>1. /\ f \in [Cited(hits) -> named] /\ \A r \in named : \E m \in Cited(hits) : f[m] = r
        /\ \A m, n \in Cited(hits) : f[m] = f[n] => m = n
    BY <1>3
  <2> HIDE DEF f, named
  <2>2. f \in Bijection(Cited(hits), named)
    BY <2>1, Fun_IsBij
  <2> QED BY <1>5, <2>2, FS_Bijection DEF ExistsBijection
<1>9. Cardinality(named \cup plain) = Cardinality(named) + Cardinality(plain)
  <2>1. named \cap plain = {}
    BY <1>6
  <2>2. Cardinality(named) \in Nat /\ Cardinality(plain) \in Nat
    BY <1>5, <1>8, FS_CardinalityType
  <2> HIDE DEF named, plain
  <2>3. /\ Cardinality(named \cup plain)
              = Cardinality(named) + Cardinality(plain) - Cardinality(named \cap plain)
        /\ Cardinality(named \cap plain) = 0
    BY <1>5, <1>8, <2>1, FS_Union, FS_EmptySet
  <2> QED BY <2>2, <2>3
<1>10. OverviewTotal(mem, b) = Cardinality({key[r] : r \in members})
  <2>1. {key[r] : r \in members} = {Key(r) : r \in members}
    OBVIOUS
  <2> QED BY <2>1 DEF OverviewTotal, members
<1> QED BY <1>4, <1>7, <1>8, <1>9, <1>10 DEF members

LEMMA StoredFinite ==
    ASSUME RowsInv, NEW b
    PROVE  StoredIn(b) \subseteq stored /\ IsFiniteSet(StoredIn(b))
BY FS_Subset DEF RowsInv, StoredIn, Live

\* A mailbox that stores rows, and has no source, holds just these.
LEMMA MembersOfStore ==
    ASSUME RowsInv, NEW b \in Boxes, source[b] = Null, StoredIn(b) # {}
    PROVE  MembersOf(Membership, b) = StoredIn(b)
<1>1. ASSUME NEW m \in Membership, m[2] = b PROVE m[1] \in StoredIn(b)
  <2>1. CASE m \in Direct
    BY <1>1, <2>1 DEF Direct, StoredIn
  <2>2. CASE m \in Labelled
    <3>1. m[1] \in stored /\ source[b] = m[1].box
      BY <1>1, <2>2 DEF Labelled, Live
    <3> QED BY <3>1, QueriesAssumption DEF RowsInv, StoredTypeOK, StoredRow
  <2>3. CASE m \in BareLabelled
    <3>1. b \in BareLabels
      BY <1>1, <2>3 DEF BareLabelled
    <3> QED BY <3>1 DEF BareLabels, StoredIn
  <2> QED BY <2>1, <2>2, <2>3 DEF Membership
<1>2. ASSUME NEW r \in StoredIn(b) PROVE <<r, b>> \in Membership
  <2>1. r \in Live /\ r.box = b
    BY DEF StoredIn
  <2>2. <<r, b>> \in Live \X Boxes /\ <<r, b>>[1] = r /\ <<r, b>>[2] = b
    BY <2>1
  <2> QED BY <2>1, <2>2 DEF Direct, Membership
<1>3. ASSUME NEW r \in StoredIn(b) PROVE r \in MembersOf(Membership, b)
  <2>1. <<r, b>> \in Membership /\ <<r, b>>[1] = r /\ <<r, b>>[2] = b
    BY <1>2
  <2> QED BY <2>1 DEF MembersOf
<1> QED BY <1>1, <1>3 DEF MembersOf

LEMMA OverviewIsDistinct ==
    ASSUME RowsInv, NEW b \in Boxes, source[b] = Null, StoredIn(b) # {}
    PROVE  OverviewTotal(Membership, b) + Redundant(b) = Cardinality(StoredIn(b))
<1> DEFINE S == StoredIn(b)
           key == [r \in S |-> Key(r)]
           keys == {key[r] : r \in S}
<1>1. keys = {Key(r) : r \in S}
  OBVIOUS
<1>2. OverviewTotal(Membership, b) = Cardinality(keys)
  BY <1>1, MembersOfStore DEF OverviewTotal
<1>3. Redundant(b) = Cardinality(S) - Cardinality(keys)
  BY <1>1 DEF Redundant
<1>4. key \in Surjection(S, keys)
  BY DEF Surjection
<1> HIDE DEF S, keys
<1>5. IsFiniteSet(S)
  BY StoredFinite DEF S
<1>6. IsFiniteSet(keys)
  BY <1>4, <1>5, FS_Surjection
<1>7. Cardinality(S) \in Nat /\ Cardinality(keys) \in Nat
  BY <1>5, <1>6, FS_CardinalityType
<1> QED BY <1>2, <1>3, <1>7 DEF S

\* Of stored rows, as many are beyond the first of their Message-ID as the rows outnumber
\* their keys.
LEMMA BeyondFirstCount ==
    ASSUME RowsInv, NEW S, S \subseteq stored, IsFiniteSet(S)
    PROVE  Cardinality(S) - Cardinality({Key(r) : r \in S})
               = Cardinality(BeyondFirst({r \in S : r.mid # Null}))
<1> DEFINE beyond == BeyondFirst({r \in S : r.mid # Null})
           kept == S \ beyond
           key == [r \in S |-> Key(r)]
           keys == {key[r] : r \in S}
<1>1. \A r \in S : r \in beyond <=> r.mid # Null /\ \E s \in S : s.mid = r.mid /\ s.id < r.id
  BY DEF BeyondFirst
<1>2. beyond \subseteq S
  BY DEF BeyondFirst
<1>3. keys = {Key(r) : r \in S}
  OBVIOUS
<1> HIDE DEF beyond
<1>4. \A r, s \in S : key[r] = key[s] <=> r = s \/ (r.mid = s.mid /\ r.mid # Null)
  <2> SUFFICES ASSUME NEW r \in S, NEW s \in S
               PROVE  Key(r) = Key(s) <=> r = s \/ (r.mid = s.mid /\ r.mid # Null)
    OBVIOUS
  <2>1. r \in stored /\ s \in stored
    OBVIOUS
  <2> QED BY <2>1, KeyIs
<1>5. \A r \in stored : r.id \in Nat
  BY DEF RowsInv, StoredTypeOK, StoredRow
<1>6. ASSUME NEW r \in S PROVE \E s \in kept : key[s] = key[r]
  <2>1. CASE r.mid = Null
    BY <1>1, <2>1
  <2>2. CASE r.mid # Null
    <3> DEFINE copies == {c \in S : c.mid = r.mid}
               ids == [c \in copies |-> c.id]
    <3>1. copies \subseteq S /\ copies # {} /\ ids \in [copies -> Nat]
      BY <1>5
    <3>2. IsFiniteSet(copies)
      BY <3>1, FS_Subset
    <3>3. PICK s \in copies : \A c \in copies : ids[s] =< ids[c]
      <4> HIDE DEF copies, ids
      <4> QED BY <3>1, <3>2, Extremes
    <3>4. s \in S /\ s.mid = r.mid /\ s.id \in Nat
      BY <1>5
    <3>5. \A c \in S : c.mid = s.mid => c.id \in Nat /\ s.id =< c.id
      BY <1>5, <3>3, <3>4
    <3>6. s \notin beyond
      BY <1>1, <3>4, <3>5
    <3> QED BY <1>4, <2>2, <3>4, <3>6
  <2> QED BY <2>1, <2>2
<1>7. ASSUME NEW r \in kept, NEW s \in kept, key[r] = key[s] PROVE r = s
  <2>1. r = s \/ (r.mid = s.mid /\ r.mid # Null)
    BY <1>4, <1>7
  <2>2. CASE r.mid = s.mid /\ r.mid # Null
    <3>1. ~(r.id < s.id) /\ ~(s.id < r.id) /\ r.id \in Nat /\ s.id \in Nat
      BY <1>1, <1>5, <2>2
    <3>2. r.id = s.id
      BY <3>1
    <3> QED BY <3>2 DEF RowsInv, StoredTypeOK
  <2> QED BY <2>1, <2>2
<1>8. Cardinality(keys) = Cardinality(kept)
  <2>1. DOMAIN key = S /\ kept \subseteq S
    OBVIOUS
  <2> HIDE DEF key, kept
  <2> QED BY <1>6, <1>7, <2>1, Representatives
<1>9. Cardinality(kept) = Cardinality(S) - Cardinality(beyond)
  <2>1. S \cap beyond = beyond
    BY <1>2
  <2> QED BY <2>1, FS_Difference
<1>10. IsFiniteSet(beyond)
  BY <1>2, FS_Subset
<1>11. Cardinality(S) \in Nat /\ Cardinality(beyond) \in Nat
  BY <1>10, FS_CardinalityType
<1>12. Cardinality(S) - Cardinality(keys) = Cardinality(beyond)
  <2> HIDE DEF keys, kept
  <2> QED BY <1>8, <1>9, <1>11
<1>13. Cardinality(S) - Cardinality({Key(r) : r \in S}) = Cardinality(beyond)
  BY <1>3, <1>12
<1> QED BY <1>13 DEF beyond

\* The rows that dedupe-mail reads: those with a later or an earlier copy in the mailbox.
LEMMA DuplicateRowsAre ==
    ASSUME RowsInv, NEW b
    PROVE  /\ DuplicateRows(b) \subseteq StoredIn(b) /\ Offenders(b) \subseteq Mids
           /\ \A r \in DuplicateRows(b) : r.mid # Null
           /\ \A r \in StoredIn(b), s \in StoredIn(b) :
                 r.mid # Null /\ r.mid = s.mid /\ s.id < r.id =>
                     r \in DuplicateRows(b) /\ s \in DuplicateRows(b)
<1> DEFINE S == StoredIn(b)
<1>1. S \subseteq stored /\ IsFiniteSet(S)
  BY StoredFinite
<1>2. Offenders(b) \subseteq Mids /\ Null \notin Mids
  BY QueriesAssumption DEF Offenders
<1>3. ASSUME NEW r \in S, NEW s \in S, r.mid # Null, r.mid = s.mid, s.id < r.id
      PROVE  r.mid \in Offenders(b)
  <2> DEFINE copies == {c \in S : c.mid = r.mid}
  <2>1. r.mid \in Mids /\ r.id \in Nat /\ s.id \in Nat
    BY <1>1, <1>3 DEF RowsInv, StoredTypeOK, StoredRow
  <2>2. r \in copies /\ s \in copies /\ r # s /\ copies \subseteq S
    BY <1>3, <2>1
  <2>3. IsFiniteSet(copies)
    BY <1>1, <2>2, FS_Subset
  <2>4. {r, s} \subseteq copies /\ IsFiniteSet({s}) /\ Cardinality({s}) = 1 /\ r \notin {s}
    BY <2>2, FS_Singleton
  <2>5. {r, s} = {s} \cup {r}
    OBVIOUS
  <2>6. Cardinality({r, s}) = 2
    <3>1. Cardinality({s} \cup {r}) = Cardinality({s}) + 1
      BY <2>4, FS_AddElement
    <3> QED BY <2>4, <2>5, <3>1
  <2>7. Cardinality({r, s}) =< Cardinality(copies) /\ Cardinality(copies) \in Nat
    BY <2>3, <2>4, FS_Subset, FS_CardinalityType
  <2>8. Cardinality(copies) > 1
    <3> HIDE DEF copies
    <3> QED BY <2>6, <2>7
  <2> QED BY <2>1, <2>8 DEF Offenders
<1> QED BY <1>2, <1>3 DEF DuplicateRows

\* The mail_duplicates table and dedupe-mail's output count the same copies.
LEMMA RedundantIsAnnounced ==
    ASSUME RowsInv, NEW b
    PROVE  /\ Redundant(b) = Announced(b)
           /\ Announced(b) = Cardinality(BeyondFirst(DuplicateRows(b)))
           /\ IsFiniteSet(BeyondFirst(DuplicateRows(b)))
<1> DEFINE S == StoredIn(b)
           D == DuplicateRows(b)
<1>1. S \subseteq stored /\ IsFiniteSet(S)
  BY StoredFinite
<1>2. D \subseteq S /\ \A r \in D : r.mid # Null
  BY DuplicateRowsAre
<1>3. D \subseteq stored /\ IsFiniteSet(D)
  BY <1>1, <1>2, FS_Subset
<1>4. Redundant(b) = Cardinality(BeyondFirst({r \in S : r.mid # Null}))
  BY <1>1, BeyondFirstCount DEF Redundant
<1>5. Announced(b) = Cardinality(BeyondFirst(D))
  <2>1. {r \in D : r.mid # Null} = D
    BY <1>2
  <2>2. {Key(r) : r \in D} = {r.mid : r \in D}
    BY <1>2 DEF Key
  <2>3. Announced(b) = Cardinality(D) - Cardinality({Key(r) : r \in D})
    BY <2>2 DEF Announced
  <2> QED BY <1>3, <2>1, <2>3, BeyondFirstCount
<1>6. BeyondFirst({r \in S : r.mid # Null}) = BeyondFirst(D)
  <2>1. ASSUME NEW r \in S, NEW s \in S, r.mid # Null, s.mid = r.mid, s.id < r.id
        PROVE  r \in D /\ s \in D
    BY <2>1, DuplicateRowsAre
  <2> HIDE DEF S, D
  <2> QED BY <1>2, <2>1 DEF BeyondFirst
<1>7. BeyondFirst(D) \subseteq D
  BY DEF BeyondFirst
<1> QED BY <1>3, <1>4, <1>5, <1>6, <1>7, FS_Subset

\* dedupe-mail deletes what it announces where it leaves no set alone, and nowhere else.
LEMMA DeletesAnnounced ==
    ASSUME RowsInv, NEW b
    PROVE  Cardinality(DoomedCopies(b)) = Announced(b) <=> LeftAlone(b) = {}
<1> DEFINE D == DuplicateRows(b)
           safe == {r \in D : r.mid \in SafeIn(b)}
           doomed == DoomedCopies(b)
           beyond == BeyondFirst(D)
<1>1. /\ Announced(b) = Cardinality(beyond) /\ IsFiniteSet(beyond)
  BY RedundantIsAnnounced
<1>2. /\ doomed = {r \in safe : \E s \in safe : s.mid = r.mid /\ s.id < r.id}
      /\ beyond = {r \in D : \E s \in D : s.mid = r.mid /\ s.id < r.id}
  BY DEF DoomedCopies, BeyondFirst
<1>3. doomed = {r \in beyond : r.mid \in SafeIn(b)}
  BY <1>2
<1>4. ASSUME LeftAlone(b) = {} PROVE doomed = beyond
  <2>1. \A r \in D : r.mid \in SafeIn(b)
    BY <1>4 DEF LeftAlone, DuplicateRows
  <2> QED BY <1>2, <1>3, <2>1
<1>5. ASSUME NEW mid \in LeftAlone(b) PROVE \E r \in beyond : r.mid = mid
  <2>1. mid \in Offenders(b) /\ mid \notin SafeIn(b)
    BY <1>5 DEF LeftAlone
  <2>2. PICK r \in D, s \in D : r.mid = mid /\ s.mid = mid /\ SizeDate[r.id] # SizeDate[s.id]
    BY <2>1 DEF SafeIn
  <2>3. r \in stored /\ s \in stored
    BY StoredFinite, DuplicateRowsAre
  <2>4. r.id \in Nat /\ s.id \in Nat /\ r.id # s.id
    BY <2>2, <2>3 DEF RowsInv, StoredTypeOK, StoredRow
  <2>5. r.id < s.id \/ s.id < r.id
    BY <2>4
  <2> HIDE DEF D, beyond
  <2> QED BY <1>2, <2>2, <2>5
<1>6. ASSUME Cardinality(doomed) = Cardinality(beyond) PROVE LeftAlone(b) = {}
  <2>1. doomed = beyond
    <3>1. doomed \subseteq beyond
      BY <1>3
    <3> HIDE DEF doomed, beyond
    <3> QED BY <1>1, <1>6, <3>1, FS_Subset
  <2>2. SUFFICES ASSUME NEW mid \in LeftAlone(b) PROVE FALSE
    OBVIOUS
  <2>3. PICK r \in beyond : r.mid = mid
    BY <1>5
  <2>4. mid \notin SafeIn(b)
    BY DEF LeftAlone
  <2> HIDE DEF doomed, beyond
  <2> QED BY <1>3, <2>1, <2>3, <2>4
<1> QED BY <1>1, <1>4, <1>6

\* A set of copies that dedupe-mail deletes from differs in neither size nor date.
LEMMA DeletesIdentical ==
    ASSUME RowsInv, NEW b, NEW r \in DoomedCopies(b), NEW s \in StoredIn(b), r.mid = s.mid
    PROVE  SizeDate[r.id] = SizeDate[s.id]
<1>1. r \in DuplicateRows(b) /\ r.mid \in SafeIn(b)
  BY DEF DoomedCopies, BeyondFirst
<1>2. s \in DuplicateRows(b)
  BY <1>1 DEF SafeIn, DuplicateRows
<1> QED BY <1>1, <1>2 DEF SafeIn

\* mail_stats and mail_overview count the same messages as unread.
LEMMA StatsIsOverview ==
    ASSUME RowsInv, NEW mem, Hits(mem)
    PROVE  StatsUnread(mem, 0) = UNION {OverviewUnread(mem, b) : b \in Boxes}
<1>1. ASSUME NEW m \in mem PROVE m[2] \in Boxes /\ m[1].date >= 0
  BY RowIs
<1>2. StatsUnread(mem, 0) = {Key(m[1]) : m \in {n \in mem : ~n[1].read}}
  BY <1>1 DEF StatsUnread
<1>3. ASSUME NEW m \in mem, ~m[1].read
      PROVE  Key(m[1]) \in UNION {OverviewUnread(mem, b) : b \in Boxes}
  <2>1. m[1] \in MembersOf(mem, m[2])
    BY DEF MembersOf
  <2>2. Key(m[1]) \in OverviewUnread(mem, m[2])
    BY <1>3, <2>1 DEF OverviewUnread
  <2> QED BY <1>1, <2>2
<1>4. ASSUME NEW b \in Boxes, NEW k \in OverviewUnread(mem, b)
      PROVE  k \in {Key(m[1]) : m \in {n \in mem : ~n[1].read}}
  <2>1. PICK r \in MembersOf(mem, b) : ~r.read /\ k = Key(r)
    BY DEF OverviewUnread
  <2>2. PICK m \in mem : m[1] = r
    BY DEF MembersOf
  <2> QED BY <2>1, <2>2
<1> QED BY <1>2, <1>3, <1>4

\* What a search cites, the thread of that message cites.
LEMMA ThreadHasSearch ==
    ASSUME RowsInv, NEW mem, Hits(mem), NEW m \in Search(mem, Boxes)
    PROVE  m \in Thread(mem, m[1].mid)
<1> DEFINE found == {n \in Citable(mem) : n[2] \in Boxes}
           thread == {n \in Citable(mem) : n[1].conv \in ConversationsOf(m[1].mid)}
<1>1. m \in found /\ \A n \in found : n[1].mid = m[1].mid => m = n \/ Before(m, n)
  BY DEF Search, Cited
<1>2. m[1] \in Live
  BY <1>1 DEF Citable, Hits
<1>3. m[1].conv \in ConversationsOf(m[1].mid)
  BY <1>2 DEF ConversationsOf
<1>4. thread \subseteq found /\ m \in thread
  BY <1>1, <1>3 DEF Citable, Hits
<1> QED BY <1>1, <1>4 DEF Thread, Cited

\* The reads agree over one index, whatever rows, labels, sources and tombstones it has: totals
\* with searches, the redundant copies of mail_duplicates with what dedupe-mail announces, unread
\* counts, and a message's thread with the search that found it (#287). dedupe-mail deletes all
\* it announces just where it leaves no set alone, and no copy that has one of another size or
\* date in the mailbox (dedupe._sets).
THEOREM ReadsAllAgree == StoredSpec => []ReadsAgree
<1>1. ASSUME RowsInv PROVE ReadsAgree
  <2>1. Hits(Membership)
    BY <1>1, MembersAre DEF Hits
  <2> QED BY <1>1, <2>1, OverviewIsSearch, OverviewIsDistinct, RedundantIsAnnounced,
             DeletesAnnounced, DeletesIdentical, StatsIsOverview, ThreadHasSearch DEF ReadsAgree
<1> QED BY <1>1, InitRows, StepRows, PTL DEF StoredSpec
=============================================================================
