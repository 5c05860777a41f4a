------------------------- MODULE MailTexts_proofs -------------------------
(***************************************************************************)
(* Proofs about what reads the text of Mail's files.  Dedupe, for every    *)
(* number of runs and copies, whatever orders are typed and wherever the   *)
(* user drags the copies: a run never sends a copy to Trash that says      *)
(* something else than the copies it was weighed against, and the last     *)
(* copies never go silently.  Bodies, for any builds, reads and files:     *)
(* what a build records and what the reads answer hides no text.           *)
(***************************************************************************)
EXTENDS MailTexts, FiniteSetTheorems, WellFoundedInduction, TLAPS

Pairs == Mailboxes \X Ids

Places ==
    /\ at \in [Copies -> Mailboxes] /\ by \in [Copies -> Runs \cup {Nobody}]
    /\ pc \in [Runs -> {"idle", "verify"} \cup Acting \cup Ended]
    /\ DOMAIN order = Runs
    /\ todo \in [Runs -> SUBSET Pairs] /\ evidence \in [Runs -> SUBSET Copies]
    /\ DOMAIN where = Runs
    /\ hit \in [Runs -> SUBSET Copies] /\ late \in [Runs -> SUBSET Copies]

\* All copies of the message say the same.
OneBody(m) == \A c, d \in CopiesOf(m) : body[c] = body[d]

\* Those that the run read again before acting do.
OneBodyRead(r, m) == \A c, d \in CopiesOf(m) \cap evidence[r] : body[c] = body[d]

\* A run that has not begun has nothing in hand.
IdleInv(r) ==
    pc[r] = "idle" =>
        ~Cross(r) /\ todo[r] = {} /\ hit[r] = {} /\ late[r] = {} /\ \A c \in Copies : by[c] # r

\* Whatever a cross-account run deletes, has yet to delete or has deleted is of one body.
CrossInv(r) ==
    Cross(r) =>
        /\ \A t \in todo[r] : OneBody(t[2])
        /\ \A c \in hit[r] \cup late[r] : OneBody(IdOf[c])
        /\ \A c \in Copies : by[c] = r => OneBody(IdOf[c])

\* The same of a same-mailbox run, for the rows of the mailbox it works on; between two
\* mailboxes it has nothing in hand.
SameInv(r) ==
    ~Cross(r) =>
        /\ pc[r] \in {"idle", "mailbox"} => hit[r] = {} /\ late[r] = {}
        /\ pc[r] \in {"batch", "script"} =>
              \A t \in todo[r] : t[1] = where[r] => OneBodyRead(r, t[2])
        /\ \A c \in hit[r] \cup late[r] : OneBodyRead(r, IdOf[c])
        /\ \A c \in evidence[r] : by[c] = r => OneBodyRead(r, IdOf[c])

\* Only a run whose script was cut, and that deletes no more, has a delete that may land.
LateInv(r) == pc[r] \in {"idle", "script"} \cup Acting => late[r] = {}

RunInv(r) == IdleInv(r) /\ CrossInv(r) /\ SameInv(r) /\ LateInv(r)

IInv == Places /\ \A r \in Runs : RunInv(r)

-----------------------------------------------------------------------------
(* What one body means.                                                    *)

LEMMA OneOf == ASSUME NEW S, Cardinality(S) = 1, IsFiniteSet(S), NEW x \in S, NEW y \in S PROVE x = y
BY FS_Singleton

LEMMA CopiesFinite == ASSUME NEW S \in SUBSET Copies PROVE IsFiniteSet({body[c] : c \in S})
<1> DEFINE f == [c \in S |-> body[c]]
           T == {body[c] : c \in S}
<1>1. IsFiniteSet(S)
  BY DedupeAssumption, FS_Subset
<1>2. f \in Surjection(S, T)
  BY DEF Surjection
<1> HIDE DEF f, T
<1>3. IsFiniteSet(T)
  BY <1>1, <1>2, FS_Surjection
<1> QED BY <1>3 DEF T

LEMMA IdenticalIsOne == ASSUME NEW m, NEW dark, Identical(m, dark) PROVE OneBody(m)
<1>1. IsFiniteSet({body[c] : c \in CopiesOf(m)})
  BY CopiesFinite DEF CopiesOf
<1> QED BY <1>1, OneOf DEF Identical, OneBody

LEMMA SafeIsOne ==
    ASSUME NEW f, NEW u, NEW m \in SafeSets(f, u)
    PROVE  \A c, d \in RowsIn(f, u, m) : body[c] = body[d]
<1>1. IsFiniteSet({body[c] : c \in RowsIn(f, u, m)})
  BY CopiesFinite DEF RowsIn, CopiesOf
<1> QED BY <1>1, OneOf DEF SafeSets

LEMMA InitInv == Init => IInv
<1> SUFFICES ASSUME Init PROVE IInv
  OBVIOUS
<1>1. Places
  BY DEF Init, Places, Pairs
<1>2. \A r \in Runs : RunInv(r)
  BY DedupeAssumption DEF Init, RunInv, IdleInv, CrossInv, SameInv, LateInv, Cross
<1> QED BY <1>1, <1>2 DEF IInv

-----------------------------------------------------------------------------
(* The steps.                                                              *)

\* What a step leaves alone for the runs that do not take it.
Kept(r) ==
    /\ pc'[r] = pc[r] /\ order'[r] = order[r] /\ todo'[r] = todo[r]
    /\ evidence'[r] = evidence[r] /\ where'[r] = where[r]
    /\ hit'[r] = hit[r] /\ late'[r] = late[r]

\* A copy that a step files is not the run's, or was the run's already.
NoneTaken(r) == \A c \in Copies : by'[c] = r => by[c] = r

LEMMA OthersKept ==
    ASSUME NEW r \in Runs, RunInv(r), evidence[r] \subseteq Copies,
           Kept(r), NoneTaken(r), body' = body
    PROVE  RunInv(r)'
<1>1. \A m : (OneBody(m) => OneBody(m)') /\ (OneBodyRead(r, m) => OneBodyRead(r, m)')
  BY DEF OneBody, OneBodyRead, CopiesOf, Kept
<1>2. IdleInv(r)' /\ LateInv(r)'
  BY DEF RunInv, IdleInv, LateInv, Kept, NoneTaken, Cross
<1>3. CrossInv(r)'
  BY <1>1 DEF RunInv, CrossInv, Kept, NoneTaken, Cross
<1>4. SameInv(r)'
  BY <1>1 DEF RunInv, SameInv, Kept, NoneTaken, Cross
<1> QED BY <1>2, <1>3, <1>4 DEF RunInv

LEMMA OneRun ==
    ASSUME IInv, NEW r \in Runs, Places', body' = body,
           \A q \in Runs \ {r} : Kept(q) /\ NoneTaken(q), RunInv(r)'
    PROVE  IInv'
<1>1. \A q \in Runs : RunInv(q) /\ evidence[q] \subseteq Copies
  BY DEF IInv, Places
<1>2. \A q \in Runs \ {r} : RunInv(q)'
  BY <1>1, OthersKept
<1> QED BY <1>2 DEF IInv

LEMMA PlanCrossInv == ASSUME IInv, NEW r \in Runs, PlanCross(r) PROVE IInv'
<1>1. PICK o \in Orders, dark \in {d \in SUBSET Copies : Cardinality(d) <= MaxDark},
           only \in MailboxOption, execute \in BOOLEAN :
       \E sets \in SUBSET Collapsible(o, at, dark) :
          LET targets == {t \in TargetsOf(o, at, sets) : t[1] \in only}
              won == [m \in Ids |-> IF \E t \in targets : t[2] = m
                                    THEN Winner(o, at, m) ELSE NoKeeper]
              known == \E m \in AcrossAccounts(at) : HoldersIn(at, m) \cap ToSet(o) # {}
          IN IF known /\ Preflight({t[1] : t \in targets}) /\ execute
             THEN /\ pc' = [pc EXCEPT ![r] = "batch"]
                  /\ order' = [order EXCEPT ![r] = o]
                  /\ rows' = [rows EXCEPT ![r] = at]
                  /\ keepers' = [keepers EXCEPT ![r] = won]
                  /\ todo' = [todo EXCEPT ![r] = targets]
                  /\ unseen' = [unseen EXCEPT ![r] = KeeperRows(at, won)]
             ELSE /\ pc' = [pc EXCEPT ![r] = "nothing"]
                  /\ UNCHANGED <<order, rows, keepers, todo, unseen>>
  BY DEF PlanCross
<1>0. PICK sets \in SUBSET Collapsible(o, at, dark) :
          LET targets == {t \in TargetsOf(o, at, sets) : t[1] \in only}
              known == \E m \in AcrossAccounts(at) : HoldersIn(at, m) \cap ToSet(o) # {}
          IN \/ /\ known
                /\ pc' = [pc EXCEPT ![r] = "batch"]
                /\ order' = [order EXCEPT ![r] = o]
                /\ todo' = [todo EXCEPT ![r] = targets]
             \/ /\ pc' = [pc EXCEPT ![r] = "nothing"]
                /\ UNCHANGED <<order, todo>>
  BY <1>1
<1> DEFINE targets == {t \in TargetsOf(o, at, sets) : t[1] \in only}
<1>2. Places /\ RunInv(r) /\ pc[r] = "idle"
  BY DEF IInv, PlanCross
<1>3. /\ at' = at /\ by' = by /\ body' = body
      /\ evidence' = evidence /\ where' = where /\ hit' = hit /\ late' = late
  BY DEF PlanCross, mailVars
<1>4. sets \subseteq Ids /\ \A m \in sets : OneBody(m)
  BY IdenticalIsOne DEF Collapsible, AcrossAccounts
<1>5. \A t \in targets : t \in Pairs /\ OneBody(t[2])
  <2>1. ASSUME NEW t \in targets PROVE t \in Pairs /\ OneBody(t[2])
    <3>1. PICK m \in sets : \E c \in LosersOf(o, at, m) : t = <<at[c], m>>
      BY DEF TargetsOf
    <3> QED BY <1>2, <1>4, <3>1 DEF LosersOf, CopiesOf, Places, Pairs
  <2> QED BY <2>1
<1> HIDE DEF targets
<1>6. CASE /\ pc' = [pc EXCEPT ![r] = "nothing"]
           /\ UNCHANGED <<order, todo>>
  <2>1. Places' /\ \A q \in Runs \ {r} : Kept(q) /\ NoneTaken(q)
    BY <1>2, <1>3, <1>6 DEF Places, Kept, NoneTaken, Ended
  <2>2. RunInv(r)'
    BY <1>2, <1>3, <1>6 DEF Places, RunInv, IdleInv, CrossInv, SameInv, LateInv, Cross, OneBody,
                            OneBodyRead, CopiesOf, Ended, Acting
  <2> QED BY <1>3, <2>1, <2>2, OneRun
<1>7. CASE /\ pc' = [pc EXCEPT ![r] = "batch"]
           /\ order' = [order EXCEPT ![r] = o]
           /\ todo' = [todo EXCEPT ![r] = targets]
           /\ o # <<>>
  <2>1. Places' /\ \A q \in Runs \ {r} : Kept(q) /\ NoneTaken(q)
    BY <1>2, <1>3, <1>5, <1>7 DEF Places, Kept, NoneTaken, Acting
  <2>2. Cross(r)' /\ todo'[r] = targets /\ pc'[r] = "batch"
    BY <1>2, <1>7 DEF Places, Cross
  <2>3. \A t \in targets : OneBody(t[2])'
    BY <1>3, <1>5 DEF OneBody, CopiesOf
  <2>4. RunInv(r)'
    BY <1>2, <1>3, <2>2, <2>3 DEF RunInv, IdleInv, CrossInv, SameInv, LateInv, Acting
  <2> QED BY <1>3, <2>1, <2>4, OneRun
<1>8. (\E m \in AcrossAccounts(at) : HoldersIn(at, m) \cap ToSet(o) # {}) => o # <<>>
  BY DEF ToSet
<1> QED BY <1>0, <1>6, <1>7, <1>8 DEF targets

LEMMA PlanSameInv == ASSUME IInv, NEW r \in Runs, PlanSame(r) PROVE IInv'
<1>1. Places /\ RunInv(r) /\ pc[r] = "idle" /\ ~Cross(r)
  BY DEF IInv, PlanSame, RunInv, IdleInv
<1>2. /\ at' = at /\ by' = by /\ body' = body /\ order' = order
      /\ evidence' = evidence /\ where' = where /\ hit' = hit /\ late' = late
  BY DEF PlanSame, mailVars, planVars
<1>3. PICK what \in {"mailbox", "nothing"}, pairs \in SUBSET Pairs :
        pc' = [pc EXCEPT ![r] = what] /\ todo' = [todo EXCEPT ![r] = pairs]
  <2>1. PICK only \in MailboxOption :
          \/ /\ pc' = [pc EXCEPT ![r] = "mailbox"]
             /\ todo' = [todo EXCEPT ![r] = {u \in only : DuplicatesIn(at, u) # {}} \X Ids]
          \/ pc' = [pc EXCEPT ![r] = "nothing"] /\ UNCHANGED todo
    BY DEF PlanSame
  <2>2. only \subseteq Mailboxes
    BY DEF MailboxOption
  <2>3. {u \in only : DuplicatesIn(at, u) # {}} \X Ids \in SUBSET Pairs
    BY <2>2 DEF Pairs
  <2>4. todo[r] \in SUBSET Pairs /\ todo = [todo EXCEPT ![r] = todo[r]]
    BY <1>1 DEF Places
  <2> QED BY <2>1, <2>3, <2>4
<1>4. Places' /\ \A q \in Runs \ {r} : Kept(q) /\ NoneTaken(q)
  BY <1>1, <1>2, <1>3 DEF Places, Kept, NoneTaken, Ended, Acting
<1>5. RunInv(r)'
  BY <1>1, <1>2, <1>3 DEF Places, RunInv, IdleInv, CrossInv, SameInv, LateInv, Cross,
                          OneBodyRead, CopiesOf
<1> QED BY <1>2, <1>4, <1>5, OneRun

LEMMA NextMailboxInv == ASSUME IInv, NEW r \in Runs, NextMailbox(r) PROVE IInv'
<1>1. Places /\ RunInv(r) /\ pc[r] = "mailbox"
  BY DEF IInv, NextMailbox
<1>2. /\ at' = at /\ by' = by /\ body' = body /\ order' = order
      /\ hit' = hit /\ late' = late
  BY DEF NextMailbox, mailVars, planVars
<1>3. CASE pc' = [pc EXCEPT ![r] = "ended"] /\ UNCHANGED <<todo, evidence, where>>
  <2>1. Places' /\ \A q \in Runs \ {r} : Kept(q) /\ NoneTaken(q)
    BY <1>1, <1>2, <1>3 DEF Places, Kept, NoneTaken, Ended
  <2>2. RunInv(r)'
    BY <1>1, <1>2, <1>3 DEF Places, RunInv, IdleInv, CrossInv, SameInv, LateInv, Cross, OneBody,
                            OneBodyRead, CopiesOf, Acting
  <2> QED BY <1>2, <2>1, <2>2, OneRun
<1>4. ASSUME NEW u \in {t[1] : t \in todo[r]},
             where' = [where EXCEPT ![r] = u],
             evidence' = [evidence EXCEPT ![r] = {c \in Copies : at[c] = u /\ by[c] # r}],
             todo' = [todo EXCEPT ![r] = {t \in @ : t[1] = u => t[2] \in SafeSets(at, u)}],
             pc' = [pc EXCEPT ![r] = IF SafeSets(at, u) = {} THEN "mailbox" ELSE "batch"]
      PROVE  IInv'
  <2>1. /\ where'[r] = u /\ evidence'[r] = {c \in Copies : at[c] = u /\ by[c] # r}
        /\ todo'[r] = {t \in todo[r] : t[1] = u => t[2] \in SafeSets(at, u)}
        /\ pc'[r] \in {"mailbox", "batch"}
    BY <1>1, <1>4 DEF Places
  <2>2. Places' /\ \A q \in Runs \ {r} : Kept(q) /\ NoneTaken(q)
    <3>1. todo'[r] \subseteq Pairs /\ evidence'[r] \subseteq Copies
      BY <1>1, <2>1 DEF Places
    <3> QED BY <1>1, <1>2, <1>4, <3>1 DEF Places, Kept, NoneTaken, Acting
  <2>3. \A t \in todo'[r] : t[1] = u => OneBodyRead(r, t[2])'
    <3>1. ASSUME NEW m \in SafeSets(at, u) PROVE OneBodyRead(r, m)'
      <4>1. \A c, d \in RowsIn(at, u, m) : body[c] = body[d]
        BY SafeIsOne
      <4> QED BY <1>2, <2>1, <4>1 DEF OneBodyRead, RowsIn, CopiesOf
    <3> QED BY <2>1, <3>1
  <2>4. CASE Cross(r)
    <3>1. \A m : OneBody(m) => OneBody(m)'
      BY <1>2 DEF OneBody, CopiesOf
    <3>2. Cross(r)' /\ todo'[r] \subseteq todo[r] /\ late'[r] = {}
      BY <1>1, <1>2, <2>1, <2>4 DEF Cross, RunInv, LateInv, Acting
    <3>3. CrossInv(r)'
      BY <1>1, <1>2, <2>4, <3>1, <3>2 DEF RunInv, CrossInv
    <3>4. RunInv(r)'
      BY <2>1, <3>2, <3>3 DEF RunInv, IdleInv, SameInv, LateInv
    <3> QED BY <1>2, <2>2, <3>4, OneRun
  <2>5. CASE ~Cross(r)
    <3>1. hit'[r] = {} /\ late'[r] = {} /\ ~Cross(r)'
      BY <1>1, <1>2, <2>5 DEF RunInv, SameInv, Cross
    <3>2. \A c \in evidence'[r] : by'[c] # r
      BY <1>2, <2>1
    <3> QED BY <1>2, <2>1, <2>2, <2>3, <3>1, <3>2, OneRun
               DEF RunInv, IdleInv, CrossInv, SameInv, LateInv
  <2> QED BY <1>2, <2>2, <2>4, <2>5, OneRun
<1> QED BY <1>3, <1>4 DEF NextMailbox

\* A step of a run whose claims only shrink: it turns to another place of the pass.
Shrinks(r) ==
    /\ order'[r] = order[r] /\ evidence'[r] = evidence[r] /\ body' = body
    /\ todo'[r] \subseteq todo[r] /\ hit'[r] \subseteq hit[r]
    /\ late'[r] \subseteq late[r] \cup hit[r]
    /\ \A c \in Copies : by'[c] = r => by[c] = r \/ c \in hit[r] \cup late[r]

LEMMA ShrunkInv ==
    ASSUME NEW r \in Runs, Places, RunInv(r), Shrinks(r), pc[r] # "idle", pc'[r] # "idle",
           pc'[r] \in {"script"} \cup Acting => late'[r] = {},
           ~Cross(r) => /\ pc'[r] = "mailbox" => hit'[r] = {} /\ late'[r] = {}
                        /\ pc'[r] \in {"batch", "script"} =>
                              pc[r] \in {"batch", "script"} /\ where'[r] = where[r]
    PROVE  RunInv(r)'
<1>1. \A m : (OneBody(m) => OneBody(m)') /\ (OneBodyRead(r, m) => OneBodyRead(r, m)')
  BY DEF OneBody, OneBodyRead, CopiesOf, Shrinks
<1>2. IdleInv(r)' /\ LateInv(r)'
  BY DEF IdleInv, LateInv
<1>3. CrossInv(r)'
  <2> SUFFICES ASSUME Cross(r)' PROVE CrossInv(r)'
    BY DEF CrossInv
  <2>1. Cross(r)
    BY DEF Cross, Shrinks
  <2>2. \A t \in todo'[r] : OneBody(t[2])'
    BY <1>1, <2>1 DEF RunInv, CrossInv, Shrinks
  <2>3. \A c \in hit'[r] \cup late'[r] : OneBody(IdOf[c])'
    BY <1>1, <2>1 DEF RunInv, CrossInv, Shrinks
  <2>4. \A c \in Copies : by'[c] = r => OneBody(IdOf[c])'
    BY <1>1, <2>1 DEF RunInv, CrossInv, Shrinks
  <2> QED BY <2>2, <2>3, <2>4 DEF CrossInv
<1>4. SameInv(r)'
  <2> SUFFICES ASSUME ~Cross(r)' PROVE SameInv(r)'
    BY DEF SameInv
  <2>1. ~Cross(r) /\ evidence[r] \subseteq Copies
    BY DEF Cross, Shrinks, Places
  <2>2. pc'[r] \in {"batch", "script"} =>
            \A t \in todo'[r] : t[1] = where'[r] => OneBodyRead(r, t[2])'
    BY <1>1, <2>1 DEF RunInv, SameInv, Shrinks
  <2>3. \A c \in hit'[r] \cup late'[r] : OneBodyRead(r, IdOf[c])'
    BY <1>1, <2>1 DEF RunInv, SameInv, Shrinks
  <2>4. \A c \in evidence'[r] : by'[c] = r => OneBodyRead(r, IdOf[c])'
    BY <1>1, <2>1 DEF RunInv, SameInv, Shrinks
  <2>5. pc'[r] \in {"idle", "mailbox"} => hit'[r] = {} /\ late'[r] = {}
    BY <2>1
  <2> QED BY <2>2, <2>3, <2>4, <2>5 DEF SameInv
<1> QED BY <1>2, <1>3, <1>4 DEF RunInv

LEMMA StartBatchInv == ASSUME IInv, NEW r \in Runs, StartBatch(r) PROVE IInv'
<1>1. Places /\ RunInv(r) /\ pc[r] = "batch"
  BY DEF IInv, StartBatch
<1>2. /\ at' = at /\ by' = by /\ body' = body /\ order' = order
      /\ evidence' = evidence /\ late' = late
  BY DEF StartBatch, mailVars, planVars
<1>3. PICK u \in {t[1] : t \in todo[r]} :
        LET waiting == {t[2] : t \in {s \in todo[r] : s[1] = u}}
            size == IF Cardinality(waiting) < BatchSize THEN Cardinality(waiting) ELSE BatchSize
        IN /\ Continues(r, u)
           /\ \E ids \in kSubset(size, waiting) :
                 /\ todo' = [todo EXCEPT ![r] = @ \ ({u} \X ids)]
                 /\ hit' = [hit EXCEPT ![r] = Doomed(r, u, ids)]
           /\ where' = [where EXCEPT ![r] = u]
           /\ pc' = [pc EXCEPT ![r] = "script"]
  BY DEF StartBatch
<1> DEFINE waiting == {t[2] : t \in {s \in todo[r] : s[1] = u}}
<1>4. PICK ids \in SUBSET waiting :
        /\ todo' = [todo EXCEPT ![r] = @ \ ({u} \X ids)]
        /\ hit' = [hit EXCEPT ![r] = Doomed(r, u, ids)]
  BY <1>3 DEF kSubset
<1>5. \A m \in ids : \E t \in todo[r] : t[1] = u /\ t[2] = m
  BY <1>4
<1> HIDE DEF waiting
<1>6. /\ todo'[r] = todo[r] \ ({u} \X ids) /\ hit'[r] = Doomed(r, u, ids)
      /\ where'[r] = u /\ pc'[r] = "script" /\ late[r] = {}
  BY <1>1, <1>3, <1>4 DEF Places, RunInv, LateInv, Acting
<1>7. Doomed(r, u, ids) \subseteq {c \in Copies : IdOf[c] \in ids}
  BY DEF Doomed
<1>8. Places' /\ \A q \in Runs \ {r} : Kept(q) /\ NoneTaken(q)
  BY <1>1, <1>2, <1>3, <1>4, <1>7 DEF Places, Kept, NoneTaken, Acting
<1>9. \A m : (OneBody(m) => OneBody(m)') /\ (OneBodyRead(r, m) => OneBodyRead(r, m)')
  BY <1>2 DEF OneBody, OneBodyRead, CopiesOf
<1>10. IdleInv(r)' /\ LateInv(r)' /\ (Cross(r)' <=> Cross(r))
  BY <1>2, <1>6 DEF IdleInv, LateInv, Cross
<1>11. CrossInv(r)'
  <2> SUFFICES ASSUME Cross(r) PROVE CrossInv(r)'
    BY <1>10 DEF CrossInv
  <2>1. \A m \in ids : OneBody(m)
    BY <1>1, <1>5 DEF RunInv, CrossInv
  <2>2. \A t \in todo'[r] : OneBody(t[2])'
    BY <1>1, <1>6, <1>9 DEF RunInv, CrossInv
  <2>3. \A c \in hit'[r] \cup late'[r] : OneBody(IdOf[c])'
    BY <1>2, <1>6, <1>7, <1>9, <2>1
  <2>4. \A c \in Copies : by'[c] = r => OneBody(IdOf[c])'
    BY <1>1, <1>2, <1>9 DEF RunInv, CrossInv
  <2> QED BY <2>2, <2>3, <2>4 DEF CrossInv
<1>12. SameInv(r)'
  <2> SUFFICES ASSUME ~Cross(r) PROVE SameInv(r)'
    BY <1>10 DEF SameInv
  <2>1. u = where[r]
    BY <1>3 DEF Continues
  <2>2. \A m \in ids : OneBodyRead(r, m)
    BY <1>1, <1>5, <2>1 DEF RunInv, SameInv
  <2>3. \A t \in todo'[r] : t[1] = where'[r] => OneBodyRead(r, t[2])'
    BY <1>1, <1>6, <1>9, <2>1 DEF RunInv, SameInv
  <2>4. \A c \in hit'[r] \cup late'[r] : OneBodyRead(r, IdOf[c])'
    BY <1>2, <1>6, <1>7, <1>9, <2>2
  <2>5. \A c \in evidence'[r] : by'[c] = r => OneBodyRead(r, IdOf[c])'
    BY <1>1, <1>2, <1>9 DEF RunInv, SameInv
  <2> QED BY <1>6, <2>3, <2>4, <2>5 DEF SameInv
<1>13. RunInv(r)'
  BY <1>10, <1>11, <1>12 DEF RunInv
<1> QED BY <1>2, <1>8, <1>13, OneRun

\* One copy goes to the Trash of its account, or stays.
LEMMA TakenPlaces ==
    ASSUME Places, NEW r \in Runs, NEW c \in Copies, Trashed(c, r) \/ UNCHANGED <<at, by>>
    PROVE  /\ at' \in [Copies -> Mailboxes] /\ by' \in [Copies -> Runs \cup {Nobody}]
           /\ \A d \in Copies : d # c => by'[d] = by[d]
           /\ by'[c] \in {by[c], r}
<1>1. TrashOf(AccountOf(at[c])) \in Mailboxes
  BY DedupeAssumption DEF Places, TrashOf, AccountOf
<1> QED BY <1>1 DEF Places, Trashed

LEMMA DeleteCopyInv == ASSUME IInv, NEW r \in Runs, DeleteCopy(r) PROVE IInv'
<1>1. Places /\ RunInv(r) /\ pc[r] = "script" /\ late[r] = {}
  BY DEF IInv, DeleteCopy, RunInv, LateInv
<1>2. /\ body' = body /\ pc' = pc /\ order' = order /\ todo' = todo
      /\ evidence' = evidence /\ where' = where /\ late' = late
  BY DEF DeleteCopy, planVars
<1>3. PICK c \in hit[r] :
        /\ hit' = [hit EXCEPT ![r] = @ \ {c}]
        /\ Trashed(c, r) \/ UNCHANGED <<at, by>>
  BY DEF DeleteCopy
<1>4. /\ c \in Copies
      /\ at' \in [Copies -> Mailboxes] /\ by' \in [Copies -> Runs \cup {Nobody}]
      /\ \A d \in Copies : d # c => by'[d] = by[d]
      /\ by'[c] \in {by[c], r}
  BY <1>1, <1>3, TakenPlaces DEF Places
<1>5. Places' /\ \A q \in Runs \ {r} : Kept(q) /\ NoneTaken(q)
  BY <1>1, <1>2, <1>3, <1>4 DEF Places, Kept, NoneTaken
<1>6. Shrinks(r)
  BY <1>1, <1>2, <1>3, <1>4 DEF Places, Shrinks
<1>7. RunInv(r)'
  BY <1>1, <1>2, <1>6, ShrunkInv
<1> QED BY <1>2, <1>5, <1>7, OneRun

LEMMA LateDeleteInv == ASSUME IInv, NEW r \in Runs, LateDelete(r) PROVE IInv'
<1>1. Places /\ RunInv(r)
  BY DEF IInv
<1>2. /\ body' = body /\ pc' = pc /\ order' = order /\ todo' = todo
      /\ evidence' = evidence /\ where' = where /\ hit' = hit
  BY DEF LateDelete, planVars
<1>3. PICK c \in late[r] :
        /\ late' = [late EXCEPT ![r] = @ \ {c}]
        /\ Trashed(c, r) \/ UNCHANGED <<at, by>>
  BY DEF LateDelete
<1>4. /\ c \in Copies
      /\ at' \in [Copies -> Mailboxes] /\ by' \in [Copies -> Runs \cup {Nobody}]
      /\ \A d \in Copies : d # c => by'[d] = by[d]
      /\ by'[c] \in {by[c], r}
  BY <1>1, <1>3, TakenPlaces DEF Places
<1>5. Places' /\ \A q \in Runs \ {r} : Kept(q) /\ NoneTaken(q)
  BY <1>1, <1>2, <1>3, <1>4 DEF Places, Kept, NoneTaken
<1>6. Shrinks(r)
  BY <1>1, <1>2, <1>3, <1>4 DEF Places, Shrinks
<1>7. pc[r] \notin {"idle", "script"} \cup Acting
  BY <1>1, <1>3 DEF RunInv, LateInv
<1>8. RunInv(r)'
  BY <1>1, <1>2, <1>6, <1>7, ShrunkInv DEF Acting
<1> QED BY <1>2, <1>5, <1>8, OneRun

LEMMA BatchTurnsInv ==
    ASSUME IInv, NEW r \in Runs, BatchEnds(r) \/ BatchFails(r) \/ PassEnds(r) PROVE IInv'
<1>1. Places /\ RunInv(r) /\ pc[r] \in {"batch", "script"} /\ late[r] = {}
  BY DEF IInv, BatchEnds, BatchFails, PassEnds, RunInv, LateInv, Acting
<1>2. /\ at' = at /\ by' = by /\ body' = body /\ order' = order
      /\ evidence' = evidence /\ where' = where
  BY DEF BatchEnds, BatchFails, PassEnds, mailVars, planVars, actVars
<1>3. PICK to \in Acting \cup Ended \cup {"verify"} :
        /\ pc' = [pc EXCEPT ![r] = to]
        /\ \/ /\ BatchEnds(r) /\ to \in {"batch", "mailbox"}
              /\ todo' = todo /\ late' = late /\ hit' = hit /\ hit[r] = {}
           \/ /\ to \in {"verify", "stopped", "raised", "ended"}
              /\ \E left \in SUBSET todo[r], some \in SUBSET hit[r], cut \in SUBSET hit[r] :
                    /\ todo' = [todo EXCEPT ![r] = left]
                    /\ hit' = [hit EXCEPT ![r] = some] /\ late' = [late EXCEPT ![r] = cut]
  <2>1. CASE BatchEnds(r)
    BY <2>1 DEF BatchEnds, actVars, Acting
  <2>2. CASE BatchFails(r)
    <3>1. PICK to \in {"verify", "stopped", "raised"} : pc' = [pc EXCEPT ![r] = to]
      BY <2>2 DEF BatchFails
    <3>2. todo' = [todo EXCEPT ![r] = {}]
      BY <2>2 DEF BatchFails
    <3>3. hit = [hit EXCEPT ![r] = hit[r]] /\ late = [late EXCEPT ![r] = {}]
      BY <1>1 DEF Places
    <3>4. \E some \in SUBSET hit[r], cut \in SUBSET hit[r] :
             hit' = [hit EXCEPT ![r] = some] /\ late' = [late EXCEPT ![r] = cut]
      <4>1. CASE pc[r] = "batch"
        BY <2>2, <3>3, <4>1 DEF BatchFails
      <4>2. CASE pc[r] = "script"
        BY <2>2, <4>2 DEF BatchFails
      <4> QED BY <1>1, <4>1, <4>2
    <3> QED BY <3>1, <3>2, <3>4 DEF Ended
  <2>3. CASE PassEnds(r)
    <3>1. /\ todo = [todo EXCEPT ![r] = todo[r]] /\ hit = [hit EXCEPT ![r] = hit[r]]
          /\ late = [late EXCEPT ![r] = {}]
      BY <1>1 DEF Places
    <3>2. todo' = todo /\ hit' = hit /\ late' = late /\ pc' = [pc EXCEPT ![r] = "verify"]
      BY <2>3 DEF PassEnds, actVars
    <3> QED BY <3>1, <3>2
  <2> QED BY <2>1, <2>2, <2>3
<1>4. pc'[r] = to
  BY <1>1, <1>3 DEF Places
<1>5. Places' /\ \A q \in Runs \ {r} : Kept(q) /\ NoneTaken(q)
  BY <1>1, <1>2, <1>3 DEF Places, Kept, NoneTaken
<1>6. Shrinks(r)
  BY <1>1, <1>2, <1>3 DEF Places, Shrinks
<1>7. /\ to # "idle"
      /\ to \in Acting => hit'[r] = {} /\ late'[r] = {}
      /\ to # "script"
  BY <1>1, <1>3 DEF Acting, Ended
<1>8. RunInv(r)'
  BY <1>1, <1>2, <1>4, <1>6, <1>7, ShrunkInv DEF Acting
<1> QED BY <1>2, <1>5, <1>8, OneRun

LEMMA PostPassInv == ASSUME IInv, NEW r \in Runs, PostPass(r) PROVE IInv'
<1>1. Places /\ RunInv(r) /\ pc[r] = "verify"
  BY DEF IInv, PostPass, VerifyKeeper, VerifyRaises, Report
<1>2. /\ at' = at /\ by' = by /\ body' = body /\ order' = order /\ todo' = todo
      /\ evidence' = evidence /\ where' = where /\ hit' = hit /\ late' = late
  BY DEF PostPass, VerifyKeeper, VerifyRaises, Report, mailVars, planVars, actVars
<1>3. PICK to \in {"verify"} \cup Ended : pc' = [pc EXCEPT ![r] = to]
  <2>1. pc = [pc EXCEPT ![r] = "verify"]
    BY <1>1 DEF Places
  <2> QED BY <2>1 DEF PostPass, VerifyKeeper, VerifyRaises, Report, Ended
<1>4. Places' /\ \A q \in Runs \ {r} : Kept(q) /\ NoneTaken(q)
  BY <1>1, <1>2, <1>3 DEF Places, Kept, NoneTaken
<1>5. Shrinks(r) /\ pc'[r] = to
  BY <1>1, <1>2, <1>3 DEF Places, Shrinks
<1>6. RunInv(r)'
  BY <1>1, <1>3, <1>5, ShrunkInv DEF Acting, Ended
<1> QED BY <1>2, <1>4, <1>6, OneRun

LEMMA UserInv == ASSUME IInv, UserDrags \/ SecondTrashAppears PROVE IInv'
<1>1. /\ body' = body /\ pc' = pc /\ order' = order /\ todo' = todo
      /\ evidence' = evidence /\ where' = where /\ hit' = hit /\ late' = late
  BY DEF UserDrags, SecondTrashAppears, planVars, actVars
<1>2. /\ at' \in [Copies -> Mailboxes] /\ by' \in [Copies -> Runs \cup {Nobody}]
      /\ \A c \in Copies : by'[c] \in {by[c], Nobody}
  BY DEF IInv, Places, UserDrags, SecondTrashAppears
<1>3. Places'
  BY <1>1, <1>2 DEF IInv, Places
<1>4. \A r \in Runs : Kept(r) /\ NoneTaken(r)
  BY <1>1, <1>2, DedupeAssumption DEF Kept, NoneTaken
<1>5. \A r \in Runs : RunInv(r) /\ evidence[r] \subseteq Copies
  BY DEF IInv, Places
<1>6. \A r \in Runs : RunInv(r)'
  BY <1>1, <1>4, <1>5, OthersKept
<1> QED BY <1>3, <1>6 DEF IInv

LEMMA StepInv == IInv /\ [Next]_vars => IInv'
<1> SUFFICES ASSUME IInv, [Next]_vars PROVE IInv'
  OBVIOUS
<1>1. CASE UNCHANGED vars
  <2>1. /\ at' = at /\ by' = by /\ body' = body /\ pc' = pc /\ order' = order /\ todo' = todo
        /\ evidence' = evidence /\ where' = where /\ hit' = hit /\ late' = late
    BY <1>1 DEF vars, mailVars, planVars, actVars
  <2>2. \A r \in Runs : Kept(r) /\ NoneTaken(r) /\ RunInv(r) /\ evidence[r] \subseteq Copies
    BY <2>1 DEF Kept, NoneTaken, IInv, Places
  <2>3. \A r \in Runs : RunInv(r)'
    BY <2>1, <2>2, OthersKept
  <2>4. Places'
    BY <2>1 DEF IInv, Places
  <2> QED BY <2>3, <2>4 DEF IInv
<1>2. ASSUME NEW r \in Runs, Plan(r) PROVE IInv'
  BY <1>2, PlanCrossInv, PlanSameInv, NextMailboxInv DEF Plan
<1>3. ASSUME NEW r \in Runs, Act(r) PROVE IInv'
  BY <1>3, StartBatchInv, DeleteCopyInv, BatchTurnsInv DEF Act
<1> QED BY <1>1, <1>2, <1>3, PostPassInv, LateDeleteInv, UserInv DEF Next

\* A run never trashes a copy that says something else than those it was weighed against.
THEOREM DistinctStay == Spec => []DistinctBodiesStay
<1>1. IInv => DistinctBodiesStay
  <2> SUFFICES ASSUME IInv, NEW r \in Runs, NEW c \in Copies, by[c] = r,
                      NEW d \in CopiesOf(IdOf[c]), Cross(r) \/ {c, d} \subseteq evidence[r]
               PROVE  body[c] = body[d]
    BY DEF DistinctBodiesStay
  <2>1. RunInv(r) /\ c \in CopiesOf(IdOf[c])
    BY DEF IInv, CopiesOf
  <2>2. CASE Cross(r)
    BY <2>1, <2>2 DEF RunInv, CrossInv, OneBody
  <2>3. CASE ~Cross(r)
    BY <2>1, <2>3 DEF RunInv, SameInv, OneBodyRead
  <2> QED BY <2>2, <2>3
<1> QED BY <1>1, InitInv, StepInv, PTL DEF Spec

-----------------------------------------------------------------------------
(* No set is lost silently: what a run's report owes to the copies that it  *)
(* took.  A run takes only copies with another before them, or copies       *)
(* against which it weighs a keeper; and as long as it took the last copy   *)
(* of a message and has not said so, it has a keeper to look for.           *)

\* The keeper of the message is in another account.
Against(r, m, acct) == keepers[r][m] # NoKeeper /\ acct # keepers[r][m]

\* The account has a copy of the same message that comes first.
Before(c, acct) == \E d \in CopiesOf(IdOf[c]) : d < c /\ AccountOf(at[d]) = acct

\* A run that did nothing has nothing, and one that was cut says that it failed.
Quiet(r) ==
    /\ pc[r] \in {"idle", "nothing"} =>
          hit[r] = {} /\ late[r] = {} /\ \A c \in Copies : by[c] # r
    /\ late[r] # {} => refused[r]

\* What a cross-account run takes it weighs against a keeper, which its post-pass looks for.
AgainstKeepers(r) ==
    Cross(r) =>
        /\ pc[r] # "mailbox"
        /\ pc[r] \in {"batch", "script"} => unseen[r] = KeeperRows(rows[r], keepers[r])
        /\ pc[r] = "ended" => unseen[r] = {}
        /\ \A t \in todo[r] : Against(r, t[2], AccountOf(t[1]))
        /\ \A c \in hit[r] \cup late[r] : Against(r, IdOf[c], AccountOf(where[r]))
        /\ \A c \in Copies : by[c] = r => Against(r, IdOf[c], AccountOf(at[c]))

\* What a same-mailbox run takes has a copy before it in the same account.
AllButTheFirst(r) ==
    ~Cross(r) =>
        /\ \A c \in hit[r] \cup late[r] : Before(c, AccountOf(where[r]))
        /\ \A c \in Copies : by[c] = r => Before(c, AccountOf(at[c]))

Told(r) == Quiet(r) /\ AgainstKeepers(r) /\ AllButTheFirst(r)

\* The run has not said yet, or has said, that the keeper of the message is not there; or it
\* is a run that owes no such answer.
Pending(s, m) ==
    \/ ~Cross(s) \/ refused[s] \/ pc[s] \in {"batch", "script", "raised"}
    \/ ~KeeperInUse(s, m)
    \/ \E t \in unseen[s] \cup lost[s] : t[2] = m /\ ~IsTrash(t[1])

AllTaken(m) == \A c \in CopiesOf(m) : by[c] # Nobody

\* Of the runs that took the copies of a message, one has something to say of it.
SomeoneOwes(m) == AllTaken(m) => \E s \in TrashersOf(m) : Pending(s, m)

Stored ==
    /\ rows \in [Runs -> [Copies -> Mailboxes]] /\ DOMAIN keepers = Runs
    /\ DOMAIN unseen = Runs /\ DOMAIN lost = Runs /\ refused \in [Runs -> BOOLEAN]
    /\ \A c \in Copies : by[c] # Nobody => IsTrash(at[c])
    /\ \A r \in Runs, c \in Copies : AccountOf(rows[r][c]) = AccountOf(at[c])

AnswerInv ==
    Stored /\ (\A r \in Runs : Told(r)) /\ \A c \in Copies : SomeoneOwes(IdOf[c])

LEMMA InitAnswers == Init => AnswerInv
<1> SUFFICES ASSUME Init PROVE AnswerInv
  OBVIOUS
<1>1. Stored
  BY DEF Init, Stored
<1>2. \A r \in Runs : Told(r)
  BY DedupeAssumption DEF Init, Told, Quiet, AgainstKeepers, AllButTheFirst, Cross
<1>3. \A c \in Copies : SomeoneOwes(IdOf[c])
  BY DEF Init, SomeoneOwes, AllTaken, CopiesOf
<1> QED BY <1>1, <1>2, <1>3 DEF AnswerInv

-----------------------------------------------------------------------------
(* What steps leave alone.                                                 *)

\* What a step leaves alone for the runs that do not take it.
KeptToo(r) ==
    /\ Kept(r) /\ rows'[r] = rows[r] /\ keepers'[r] = keepers[r]
    /\ unseen'[r] = unseen[r] /\ lost'[r] = lost[r] /\ refused'[r] = refused[r]

\* No copy changes its account, and one that changes hands goes to Trash for a run, or is the
\* user's again.
Filed ==
    \A c \in Copies :
        /\ AccountOf(at'[c]) = AccountOf(at[c])
        /\ \/ by'[c] = by[c] /\ at'[c] = at[c]
           \/ by'[c] = Nobody
           \/ IsTrash(at'[c])

\* A run takes the copies of a set of its own.
FiledBy(r) == Filed /\ \A c \in Copies : by'[c] \in {by[c], r}

LEMMA TrashedIsFiled ==
    ASSUME Places, NEW r \in Runs, NEW c \in Copies, Trashed(c, r) \/ UNCHANGED <<at, by>>
    PROVE  /\ FiledBy(r)
           /\ at'[c] # at[c] \/ by'[c] # by[c] => Trashed(c, r)
           /\ \A d \in Copies : d # c => by'[d] = by[d]
<1>1. TrashOf(AccountOf(at[c])) = <<AccountOf(at[c]), "Trash">>
  BY DEF TrashOf
<1>2. CASE Trashed(c, r)
  <2>1. /\ \A d \in Copies : d # c => at'[d] = at[d] /\ by'[d] = by[d]
        /\ at'[c] = TrashOf(AccountOf(at[c])) /\ by'[c] = r
    BY <1>2 DEF Trashed, Places
  <2>2. AccountOf(TrashOf(AccountOf(at[c]))) = AccountOf(at[c])
        /\ IsTrash(TrashOf(AccountOf(at[c])))
    BY <1>1 DEF AccountOf, IsTrash
  <2>3. \A d \in Copies : by'[d] \in {by[d], r}
    BY <2>1
  <2>4. Filed
    BY <2>1, <2>2 DEF Filed
  <2> QED BY <1>2, <2>1, <2>3, <2>4 DEF FiledBy
<1>3. CASE UNCHANGED <<at, by>>
  BY <1>3 DEF FiledBy, Filed
<1> QED BY <1>2, <1>3

LEMMA BeforeStays ==
    ASSUME Filed, NEW c, NEW acct, Before(c, acct)
    PROVE  \E d \in CopiesOf(IdOf[c]) : d < c /\ AccountOf(at'[d]) = acct
BY DEF Before, Filed, CopiesOf

LEMMA OthersTold ==
    ASSUME NEW r \in Runs, Told(r), KeptToo(r), NoneTaken(r), Filed,
           hit[r] \subseteq Copies, late[r] \subseteq Copies
    PROVE  Told(r)'
<1>1. Quiet(r)'
  BY DEF Told, Quiet, KeptToo, Kept, NoneTaken
<1>2. AgainstKeepers(r)'
  <2> SUFFICES ASSUME Cross(r)' PROVE AgainstKeepers(r)'
    BY DEF AgainstKeepers
  <2>1. Cross(r)
    BY DEF Cross, KeptToo, Kept
  <2>2. ASSUME NEW c \in Copies, by'[c] = r PROVE Against(r, IdOf[c], AccountOf(at[c]))'
    BY <2>1, <2>2 DEF Told, AgainstKeepers, Against, KeptToo, Filed, NoneTaken
  <2>3. \A t \in todo'[r] : Against(r, t[2], AccountOf(t[1]))'
    BY <2>1 DEF Told, AgainstKeepers, Against, KeptToo, Kept
  <2>4. \A c \in hit'[r] \cup late'[r] : Against(r, IdOf[c], AccountOf(where[r]))'
    BY <2>1 DEF Told, AgainstKeepers, Against, KeptToo, Kept
  <2>5. /\ pc'[r] # "mailbox"
        /\ pc'[r] \in {"batch", "script"} => unseen'[r] = KeeperRows(rows'[r], keepers'[r])
        /\ pc'[r] = "ended" => unseen'[r] = {}
    BY <2>1 DEF Told, AgainstKeepers, KeptToo, Kept
  <2> QED BY <2>2, <2>3, <2>4, <2>5 DEF AgainstKeepers, KeeperRows
<1>3. AllButTheFirst(r)'
  <2> SUFFICES ASSUME ~Cross(r)' PROVE AllButTheFirst(r)'
    BY DEF AllButTheFirst
  <2>1. ~Cross(r)
    BY DEF Cross, KeptToo, Kept
  <2>2. ASSUME NEW c \in hit'[r] \cup late'[r] PROVE Before(c, AccountOf(where[r]))'
    <3>1. Before(c, AccountOf(where[r])) /\ where'[r] = where[r]
      BY <2>1 DEF Told, AllButTheFirst, KeptToo, Kept
    <3> QED BY <3>1, BeforeStays DEF Before
  <2>3. ASSUME NEW c \in Copies, by'[c] = r PROVE Before(c, AccountOf(at[c]))'
    <3>1. Before(c, AccountOf(at[c])) /\ AccountOf(at'[c]) = AccountOf(at[c])
      BY <2>1, <2>3 DEF Told, AllButTheFirst, Filed, NoneTaken
    <3> QED BY <3>1, BeforeStays DEF Before
  <2> QED BY <2>2, <2>3 DEF AllButTheFirst
<1> QED BY <1>1, <1>2, <1>3 DEF Told

\* A step that goes on with what the run has in hand.
Goes(r) ==
    /\ order'[r] = order[r] /\ rows'[r] = rows[r] /\ keepers'[r] = keepers[r]
    /\ where'[r] = where[r]
    /\ todo'[r] \subseteq todo[r] /\ hit'[r] \subseteq hit[r]
    /\ late'[r] \subseteq late[r] \cup hit[r]
    /\ \A c \in Copies : by'[c] = r =>
          by[c] = r \/ (c \in hit[r] \cup late[r] /\ AccountOf(at[c]) = AccountOf(where[r]))
    /\ late'[r] # {} => refused'[r]
    /\ pc'[r] \notin {"idle", "nothing"} /\ (Cross(r) => pc'[r] # "mailbox")
    /\ pc'[r] \in {"batch", "script"} =>
          pc[r] \in {"batch", "script"} /\ unseen'[r] = unseen[r]
    /\ pc'[r] = "ended" /\ Cross(r) => unseen'[r] = {}

LEMMA GoesTold ==
    ASSUME NEW r \in Runs, Told(r), Goes(r), Filed,
           hit[r] \subseteq Copies, late[r] \subseteq Copies
    PROVE  Told(r)'
<1>1. Quiet(r)'
  BY DEF Quiet, Goes
<1>2. AgainstKeepers(r)'
  <2> SUFFICES ASSUME Cross(r)' PROVE AgainstKeepers(r)'
    BY DEF AgainstKeepers
  <2>1. Cross(r)
    BY DEF Cross, Goes
  <2>2. ASSUME NEW c \in Copies, by'[c] = r PROVE Against(r, IdOf[c], AccountOf(at[c]))'
    BY <2>1, <2>2 DEF Told, AgainstKeepers, Against, Goes, Filed
  <2>3. \A t \in todo'[r] : Against(r, t[2], AccountOf(t[1]))'
    BY <2>1 DEF Told, AgainstKeepers, Against, Goes
  <2>4. \A c \in hit'[r] \cup late'[r] : Against(r, IdOf[c], AccountOf(where[r]))'
    BY <2>1 DEF Told, AgainstKeepers, Against, Goes
  <2>5. /\ pc'[r] # "mailbox"
        /\ pc'[r] \in {"batch", "script"} => unseen'[r] = KeeperRows(rows'[r], keepers'[r])
        /\ pc'[r] = "ended" => unseen'[r] = {}
    BY <2>1 DEF Told, AgainstKeepers, Goes
  <2> QED BY <2>2, <2>3, <2>4, <2>5 DEF AgainstKeepers, KeeperRows
<1>3. AllButTheFirst(r)'
  <2> SUFFICES ASSUME ~Cross(r)' PROVE AllButTheFirst(r)'
    BY DEF AllButTheFirst
  <2>1. ~Cross(r)
    BY DEF Cross, Goes
  <2>2. ASSUME NEW c \in hit'[r] \cup late'[r] PROVE Before(c, AccountOf(where[r]))'
    <3>1. Before(c, AccountOf(where[r])) /\ where'[r] = where[r]
      BY <2>1 DEF Told, AllButTheFirst, Goes
    <3> QED BY <3>1, BeforeStays DEF Before
  <2>3. ASSUME NEW c \in Copies, by'[c] = r PROVE Before(c, AccountOf(at[c]))'
    <3>1. Before(c, AccountOf(at[c])) /\ AccountOf(at'[c]) = AccountOf(at[c])
      BY <2>1, <2>3 DEF Told, AllButTheFirst, Filed, Goes
    <3> QED BY <3>1, BeforeStays DEF Before
  <2> QED BY <2>2, <2>3 DEF AllButTheFirst
<1> QED BY <1>1, <1>2, <1>3 DEF Told

\* A step of one run.
OnlyRun(r) == \A q \in Runs \ {r} : KeptToo(q) /\ NoneTaken(q)

LEMMA OneRunTold ==
    ASSUME IInv, AnswerInv, NEW r \in Runs, Filed, OnlyRun(r), Told(r)'
    PROVE  \A q \in Runs : Told(q)'
<1>1. \A q \in Runs : Told(q) /\ hit[q] \subseteq Copies /\ late[q] \subseteq Copies
  BY DEF AnswerInv, IInv, Places
<1>2. \A q \in Runs \ {r} : Told(q)'
  BY <1>1, OthersTold DEF OnlyRun
<1> QED BY <1>2

LEMMA StoredStays ==
    ASSUME Stored, Filed, DOMAIN keepers' = Runs, DOMAIN unseen' = Runs, DOMAIN lost' = Runs,
           refused' \in [Runs -> BOOLEAN], rows' \in [Runs -> [Copies -> Mailboxes]],
           \A r \in Runs : rows'[r] = rows[r] \/ rows'[r] = at,
           \A c \in Copies : by'[c] # Nobody => IsTrash(at'[c])
    PROVE  Stored'
<1>1. ASSUME NEW r \in Runs, NEW c \in Copies
      PROVE  AccountOf(rows'[r][c]) = AccountOf(at'[c])
  BY DEF Stored, Filed
<1> QED BY <1>1 DEF Stored

\* Nothing moves.
LEMMA StillFiled ==
    ASSUME at' = at, by' = by
    PROVE  Filed /\ \A r : NoneTaken(r)
BY DEF Filed, NoneTaken

LEMMA PlanCrossTold ==
    ASSUME IInv, AnswerInv, NEW r \in Runs, PlanCross(r)
    PROVE  Stored' /\ OnlyRun(r) /\ Told(r)'
<1>1. PICK o \in Orders, dark \in {d \in SUBSET Copies : Cardinality(d) <= MaxDark},
           only \in MailboxOption, execute \in BOOLEAN :
       \E sets \in SUBSET Collapsible(o, at, dark) :
          LET targets == {t \in TargetsOf(o, at, sets) : t[1] \in only}
              won == [m \in Ids |-> IF \E t \in targets : t[2] = m
                                    THEN Winner(o, at, m) ELSE NoKeeper]
              known == \E m \in AcrossAccounts(at) : HoldersIn(at, m) \cap ToSet(o) # {}
          IN IF known /\ Preflight({t[1] : t \in targets}) /\ execute
             THEN /\ pc' = [pc EXCEPT ![r] = "batch"]
                  /\ order' = [order EXCEPT ![r] = o]
                  /\ rows' = [rows EXCEPT ![r] = at]
                  /\ keepers' = [keepers EXCEPT ![r] = won]
                  /\ todo' = [todo EXCEPT ![r] = targets]
                  /\ unseen' = [unseen EXCEPT ![r] = KeeperRows(at, won)]
             ELSE /\ pc' = [pc EXCEPT ![r] = "nothing"]
                  /\ UNCHANGED <<order, rows, keepers, todo, unseen>>
  BY DEF PlanCross
<1>0. PICK sets \in SUBSET Collapsible(o, at, dark) :
          LET targets == {t \in TargetsOf(o, at, sets) : t[1] \in only}
              won == [m \in Ids |-> IF \E t \in targets : t[2] = m
                                    THEN Winner(o, at, m) ELSE NoKeeper]
          IN \/ /\ pc' = [pc EXCEPT ![r] = "batch"]
                /\ order' = [order EXCEPT ![r] = o]
                /\ rows' = [rows EXCEPT ![r] = at]
                /\ keepers' = [keepers EXCEPT ![r] = won]
                /\ todo' = [todo EXCEPT ![r] = targets]
                /\ unseen' = [unseen EXCEPT ![r] = KeeperRows(at, won)]
                /\ \E m \in AcrossAccounts(at) : HoldersIn(at, m) \cap ToSet(o) # {}
             \/ /\ pc' = [pc EXCEPT ![r] = "nothing"]
                /\ UNCHANGED <<order, rows, keepers, todo, unseen>>
  BY <1>1
<1> DEFINE targets == {t \in TargetsOf(o, at, sets) : t[1] \in only}
           won == [m \in Ids |-> IF \E t \in targets : t[2] = m
                                 THEN Winner(o, at, m) ELSE NoKeeper]
<1>2. /\ Places /\ Stored /\ Told(r) /\ pc[r] = "idle" /\ ~Cross(r)
      /\ hit[r] = {} /\ late[r] = {} /\ \A c \in Copies : by[c] # r
  BY DEF IInv, AnswerInv, PlanCross, RunInv, IdleInv
<1>3. /\ at' = at /\ by' = by /\ evidence' = evidence /\ where' = where /\ hit' = hit
      /\ late' = late /\ refused' = refused /\ lost' = lost
  BY DEF PlanCross, mailVars
<1>4. Filed /\ \A q : NoneTaken(q)
  BY <1>3, StillFiled
<1>5. ASSUME NEW t \in targets PROVE won[t[2]] # NoKeeper /\ AccountOf(t[1]) # won[t[2]]
  <2>1. PICK m \in sets : \E c \in LosersOf(o, at, m) : t = <<at[c], m>>
    BY DEF TargetsOf
  <2>2. m \in Ids /\ Winner(o, at, m) # NoKeeper /\ t[2] = m
    BY <2>1 DEF Collapsible, AcrossAccounts
  <2>3. AccountOf(t[1]) # Winner(o, at, m)
    BY <2>1 DEF LosersOf
  <2>4. won[m] = Winner(o, at, m)
    BY <2>2
  <2> HIDE DEF targets, won
  <2> QED BY <2>2, <2>3, <2>4
<1> HIDE DEF targets, won
<1>6. CASE /\ pc' = [pc EXCEPT ![r] = "nothing"]
           /\ UNCHANGED <<order, rows, keepers, todo, unseen>>
  <2>1. Stored'
    BY <1>2, <1>3, <1>6 DEF Stored
  <2>2. OnlyRun(r)
    BY <1>2, <1>3, <1>4, <1>6 DEF OnlyRun, KeptToo, Kept, Places
  <2>3. Told(r)'
    BY <1>2, <1>3, <1>6 DEF Places, Told, Quiet, AgainstKeepers, AllButTheFirst, Cross
  <2> QED BY <2>1, <2>2, <2>3
<1>7. CASE /\ pc' = [pc EXCEPT ![r] = "batch"]
           /\ order' = [order EXCEPT ![r] = o]
           /\ rows' = [rows EXCEPT ![r] = at]
           /\ keepers' = [keepers EXCEPT ![r] = won]
           /\ todo' = [todo EXCEPT ![r] = targets]
           /\ unseen' = [unseen EXCEPT ![r] = KeeperRows(at, won)]
           /\ o # <<>>
  <2>1. Stored'
    <3>1. /\ rows' \in [Runs -> [Copies -> Mailboxes]]
          /\ \A q \in Runs : rows'[q] = rows[q] \/ rows'[q] = at
      BY <1>2, <1>7 DEF Stored, Places
    <3>2. /\ DOMAIN keepers' = Runs /\ DOMAIN unseen' = Runs /\ DOMAIN lost' = Runs
          /\ refused' \in [Runs -> BOOLEAN]
          /\ \A c \in Copies : by'[c] # Nobody => IsTrash(at'[c])
      BY <1>2, <1>3, <1>7 DEF Stored
    <3> QED BY <1>2, <1>4, <3>1, <3>2, StoredStays
  <2>2. OnlyRun(r)
    BY <1>2, <1>3, <1>4, <1>7 DEF OnlyRun, KeptToo, Kept, Places, Stored
  <2>3. /\ pc'[r] = "batch" /\ order'[r] = o /\ rows'[r] = at /\ keepers'[r] = won
        /\ todo'[r] = targets /\ unseen'[r] = KeeperRows(at, won)
    BY <1>2, <1>7 DEF Places, Stored
  <2>4. Quiet(r)'
    BY <1>2, <1>3, <2>3 DEF Quiet
  <2>5. \A t \in todo'[r] : Against(r, t[2], AccountOf(t[1]))'
    BY <1>5, <2>3 DEF Against
  <2>6. unseen'[r] = KeeperRows(rows'[r], keepers'[r])
    BY <2>3
  <2>7. AgainstKeepers(r)'
    BY <1>2, <1>3, <2>3, <2>5, <2>6 DEF AgainstKeepers, KeeperRows
  <2>8. AllButTheFirst(r)'
    BY <1>7, <2>3 DEF AllButTheFirst, Cross
  <2> QED BY <2>1, <2>2, <2>4, <2>7, <2>8 DEF Told
<1>8. (\E m \in AcrossAccounts(at) : HoldersIn(at, m) \cap ToSet(o) # {}) => o # <<>>
  BY DEF ToSet
<1> QED BY <1>0, <1>6, <1>7, <1>8 DEF targets, won

LEMMA PlanSameTold ==
    ASSUME IInv, AnswerInv, NEW r \in Runs, PlanSame(r)
    PROVE  Stored' /\ OnlyRun(r) /\ Told(r)'
<1>1. /\ Places /\ Stored /\ Told(r) /\ pc[r] = "idle" /\ ~Cross(r)
      /\ hit[r] = {} /\ late[r] = {} /\ \A c \in Copies : by[c] # r
  BY DEF IInv, AnswerInv, PlanSame, RunInv, IdleInv
<1>2. /\ at' = at /\ by' = by /\ evidence' = evidence /\ where' = where /\ hit' = hit
      /\ late' = late /\ refused' = refused /\ lost' = lost /\ unseen' = unseen
      /\ order' = order /\ rows' = rows /\ keepers' = keepers
  BY DEF PlanSame, mailVars, planVars
<1>3. \A q \in Runs \ {r} : pc'[q] = pc[q] /\ todo'[q] = todo[q]
  BY <1>1 DEF PlanSame, Places
<1>4. Stored'
  BY <1>1, <1>2 DEF Stored
<1>5. OnlyRun(r)
  BY <1>2, <1>3, StillFiled DEF OnlyRun, KeptToo, Kept
<1>6. Told(r)'
  BY <1>1, <1>2 DEF Told, Quiet, AgainstKeepers, AllButTheFirst, Cross
<1> QED BY <1>4, <1>5, <1>6

LEMMA NextMailboxTold ==
    ASSUME IInv, AnswerInv, NEW r \in Runs, NextMailbox(r)
    PROVE  Stored' /\ OnlyRun(r) /\ Told(r)'
<1>1. Places /\ Stored /\ RunInv(r) /\ Told(r) /\ pc[r] = "mailbox"
  BY DEF IInv, AnswerInv, NextMailbox
<1>2. ~Cross(r) /\ hit[r] = {} /\ late[r] = {}
  BY <1>1 DEF Told, AgainstKeepers, RunInv, SameInv
<1>3. /\ at' = at /\ by' = by /\ hit' = hit /\ late' = late /\ refused' = refused
      /\ lost' = lost /\ unseen' = unseen /\ order' = order /\ rows' = rows
      /\ keepers' = keepers
  BY DEF NextMailbox, mailVars, planVars
<1>4. \A q \in Runs \ {r} : /\ pc'[q] = pc[q] /\ todo'[q] = todo[q]
                            /\ where'[q] = where[q] /\ evidence'[q] = evidence[q]
  BY <1>1 DEF NextMailbox, Places
<1>5. pc'[r] \in {"ended", "mailbox", "batch"}
  BY <1>1 DEF NextMailbox, Places
<1>6. Stored'
  BY <1>1, <1>3 DEF Stored
<1>7. OnlyRun(r)
  BY <1>3, <1>4, StillFiled DEF OnlyRun, KeptToo, Kept
<1>8. ASSUME NEW c \in Copies, by[c] = r PROVE Before(c, AccountOf(at[c]))'
  BY <1>1, <1>2, <1>3, <1>8 DEF Told, AllButTheFirst, Before
<1>9. Told(r)'
  BY <1>2, <1>3, <1>5, <1>8 DEF Told, Quiet, AgainstKeepers, AllButTheFirst, Cross
<1> QED BY <1>6, <1>7, <1>9

LEMMA StartBatchTold ==
    ASSUME IInv, AnswerInv, NEW r \in Runs, StartBatch(r)
    PROVE  Stored' /\ OnlyRun(r) /\ Told(r)'
<1>1. Places /\ Stored /\ RunInv(r) /\ Told(r) /\ pc[r] = "batch" /\ late[r] = {}
  BY DEF IInv, AnswerInv, StartBatch, RunInv, LateInv, Acting
<1>2. /\ at' = at /\ by' = by /\ evidence' = evidence /\ late' = late /\ refused' = refused
      /\ lost' = lost /\ unseen' = unseen /\ order' = order /\ rows' = rows
      /\ keepers' = keepers
  BY DEF StartBatch, mailVars, planVars
<1>3. PICK u \in {t[1] : t \in todo[r]} :
        LET waiting == {t[2] : t \in {s \in todo[r] : s[1] = u}}
            size == IF Cardinality(waiting) < BatchSize THEN Cardinality(waiting) ELSE BatchSize
        IN /\ \E ids \in kSubset(size, waiting) :
                 /\ todo' = [todo EXCEPT ![r] = @ \ ({u} \X ids)]
                 /\ hit' = [hit EXCEPT ![r] = Doomed(r, u, ids)]
           /\ where' = [where EXCEPT ![r] = u]
           /\ pc' = [pc EXCEPT ![r] = "script"]
  BY DEF StartBatch
<1> DEFINE waiting == {t[2] : t \in {s \in todo[r] : s[1] = u}}
<1>4. PICK ids \in SUBSET waiting :
        /\ todo' = [todo EXCEPT ![r] = @ \ ({u} \X ids)]
        /\ hit' = [hit EXCEPT ![r] = Doomed(r, u, ids)]
  BY <1>3 DEF kSubset
<1>5. \A m \in ids : \E t \in todo[r] : t[1] = u /\ t[2] = m
  BY <1>4
<1> HIDE DEF waiting
<1>6. /\ todo'[r] = todo[r] \ ({u} \X ids) /\ hit'[r] = Doomed(r, u, ids)
      /\ where'[r] = u /\ pc'[r] = "script"
  BY <1>1, <1>3, <1>4 DEF Places
<1>7. Stored'
  BY <1>1, <1>2 DEF Stored
<1>8. OnlyRun(r)
  BY <1>1, <1>2, <1>3, <1>4, StillFiled DEF OnlyRun, KeptToo, Kept, Places
<1>9. Quiet(r)'
  BY <1>1, <1>2, <1>6 DEF Quiet
<1>10. AgainstKeepers(r)'
  <2> SUFFICES ASSUME Cross(r)' PROVE AgainstKeepers(r)'
    BY DEF AgainstKeepers
  <2>1. Cross(r)
    BY <1>2 DEF Cross
  <2>2. \A m \in ids : Against(r, m, AccountOf(u))
    BY <1>1, <1>5, <2>1 DEF Told, AgainstKeepers
  <2>3. ASSUME NEW c \in hit'[r] \cup late'[r] PROVE Against(r, IdOf[c], AccountOf(where[r]))'
    <3>1. IdOf[c] \in ids
      BY <1>1, <1>2, <1>6 DEF Doomed
    <3> QED BY <1>2, <1>6, <2>2, <3>1 DEF Against
  <2>4. \A t \in todo'[r] : Against(r, t[2], AccountOf(t[1]))'
    BY <1>1, <1>2, <1>6, <2>1 DEF Told, AgainstKeepers, Against
  <2>5. \A c \in Copies : by'[c] = r => Against(r, IdOf[c], AccountOf(at[c]))'
    BY <1>1, <1>2, <2>1 DEF Told, AgainstKeepers, Against
  <2>6. unseen'[r] = KeeperRows(rows'[r], keepers'[r])
    BY <1>1, <1>2, <2>1 DEF Told, AgainstKeepers
  <2> QED BY <1>6, <2>3, <2>4, <2>5, <2>6 DEF AgainstKeepers, KeeperRows
<1>11. AllButTheFirst(r)'
  <2> SUFFICES ASSUME ~Cross(r)' PROVE AllButTheFirst(r)'
    BY DEF AllButTheFirst
  <2>1. ~Cross(r)
    BY <1>2 DEF Cross
  <2>2. ASSUME NEW c \in hit'[r] \cup late'[r] PROVE Before(c, AccountOf(where[r]))'
    <3>1. \E d \in Copies : at[d] = u /\ IdOf[d] = IdOf[c] /\ d < c
      BY <1>1, <1>2, <1>6, <2>1 DEF Doomed
    <3> QED BY <1>2, <1>6, <3>1 DEF Before, CopiesOf
  <2>3. \A c \in Copies : by'[c] = r => Before(c, AccountOf(at[c]))'
    BY <1>1, <1>2, <2>1 DEF Told, AllButTheFirst, Before
  <2> QED BY <2>2, <2>3 DEF AllButTheFirst
<1> QED BY <1>7, <1>8, <1>9, <1>10, <1>11 DEF Told

\* What a delete files, at once or late, was in the mailbox of the batch.
LEMMA DeletesTold ==
    ASSUME IInv, AnswerInv, NEW r \in Runs, DeleteCopy(r) \/ LateDelete(r)
    PROVE  /\ Stored' /\ OnlyRun(r) /\ Told(r)' /\ FiledBy(r)
           /\ \A c \in Copies : by'[c] = by[c] \/ pc[r] = "script" \/ refused[r]
<1>1. Places /\ Stored /\ Told(r)
  BY DEF IInv, AnswerInv
<1>2. /\ pc' = pc /\ order' = order /\ todo' = todo /\ evidence' = evidence /\ where' = where
      /\ refused' = refused /\ lost' = lost /\ unseen' = unseen /\ rows' = rows
      /\ keepers' = keepers
  BY DEF DeleteCopy, LateDelete, planVars
<1>3. PICK c \in hit[r] \cup late[r] :
        /\ (at[c] = where[r] /\ Trashed(c, r)) \/ UNCHANGED <<at, by>>
        /\ \/ pc[r] = "script" /\ hit' = [hit EXCEPT ![r] = @ \ {c}] /\ late' = late
           \/ c \in late[r] /\ late' = [late EXCEPT ![r] = @ \ {c}] /\ hit' = hit
  BY DEF DeleteCopy, LateDelete
<1>4. c \in Copies
  BY <1>1, <1>3 DEF Places
<1>5. FiledBy(r) /\ \A d \in Copies : d # c => by'[d] = by[d]
  BY <1>1, <1>3, <1>4, TrashedIsFiled
<1>6. pc[r] = "script" \/ refused[r]
  BY <1>1, <1>3 DEF Told, Quiet
<1>7. pc[r] \notin {"idle", "nothing"} /\ (Cross(r) => pc[r] # "mailbox")
  BY <1>1, <1>3 DEF Told, Quiet, AgainstKeepers
<1>8. \A d \in Copies \ {c} : by'[d] = r => by[d] = r
  BY <1>5
<1>9. by'[c] = r => by[c] = r \/ at[c] = where[r]
  BY <1>3
<1>10. /\ hit'[r] \subseteq hit[r] /\ late'[r] \subseteq late[r]
       /\ \A q \in Runs \ {r} : hit'[q] = hit[q] /\ late'[q] = late[q]
  BY <1>1, <1>3 DEF Places
<1>11. Goes(r)
  <2>1. late'[r] # {} => refused'[r]
    BY <1>1, <1>2, <1>10 DEF Told, Quiet
  <2>2. pc'[r] = "ended" /\ Cross(r) => unseen'[r] = {}
    BY <1>1, <1>2 DEF Told, AgainstKeepers
  <2>3. \A d \in Copies : by'[d] = r =>
          by[d] = r \/ (d \in hit[r] \cup late[r] /\ AccountOf(at[d]) = AccountOf(where[r]))
    BY <1>3, <1>8, <1>9
  <2> QED BY <1>2, <1>7, <1>10, <2>1, <2>2, <2>3 DEF Goes
<1>12. Told(r)'
  BY <1>1, <1>5, <1>11, GoesTold DEF FiledBy, Places
<1>13. OnlyRun(r)
  BY <1>2, <1>5, <1>10 DEF OnlyRun, KeptToo, Kept, NoneTaken, FiledBy
<1>14. \A d \in Copies : by'[d] # Nobody => IsTrash(at'[d])
  BY <1>1, <1>5 DEF FiledBy, Filed, Stored
<1>15. Stored'
  BY <1>1, <1>2, <1>5, <1>14, StoredStays DEF FiledBy, Stored
<1> QED BY <1>5, <1>6, <1>12, <1>13, <1>15

LEMMA BatchTurnsTold ==
    ASSUME IInv, AnswerInv, NEW r \in Runs, BatchEnds(r) \/ BatchFails(r) \/ PassEnds(r)
    PROVE  Stored' /\ OnlyRun(r) /\ Told(r)'
<1>1. /\ Places /\ Stored /\ Told(r) /\ late[r] = {} /\ pc[r] \in {"batch", "script"}
  BY DEF IInv, AnswerInv, BatchEnds, BatchFails, PassEnds, RunInv, LateInv, Acting
<1>2. /\ at' = at /\ by' = by /\ evidence' = evidence /\ where' = where /\ lost' = lost
      /\ unseen' = unseen /\ order' = order /\ rows' = rows /\ keepers' = keepers
  BY DEF BatchEnds, BatchFails, PassEnds, mailVars, planVars, actVars
<1>3. Filed /\ \A q : NoneTaken(q)
  BY <1>2, StillFiled
<1>4. CASE BatchEnds(r)
  <2>1. todo' = todo /\ hit' = hit /\ late' = late /\ refused' = refused
    BY <1>4 DEF BatchEnds, actVars
  <2>2. PICK to \in {"batch", "mailbox"} :
          pc' = [pc EXCEPT ![r] = to] /\ (Cross(r) => to = "batch")
    BY <1>4 DEF BatchEnds
  <2>3. Stored'
    BY <1>1, <1>2, <2>1 DEF Stored
  <2>4. OnlyRun(r)
    BY <1>1, <1>2, <1>3, <2>1, <2>2 DEF OnlyRun, KeptToo, Kept, Places
  <2>5. Goes(r)
    BY <1>1, <1>2, <2>1, <2>2 DEF Goes, Places
  <2> QED BY <1>1, <1>3, <2>3, <2>4, <2>5, GoesTold DEF Places
<1>5. CASE BatchFails(r)
  <2>1. PICK to \in {"verify", "stopped", "raised"} : pc' = [pc EXCEPT ![r] = to]
    BY <1>5 DEF BatchFails
  <2>2. todo' = [todo EXCEPT ![r] = {}] /\ refused' = [refused EXCEPT ![r] = TRUE]
    BY <1>5 DEF BatchFails
  <2>3. /\ hit'[r] \subseteq hit[r] /\ late'[r] \subseteq hit[r] \cup late[r]
        /\ \A q \in Runs \ {r} : hit'[q] = hit[q] /\ late'[q] = late[q]
    <3>1. CASE pc[r] = "batch"
      BY <1>5, <3>1 DEF BatchFails
    <3>2. CASE pc[r] = "script"
      BY <1>1, <1>5, <3>2 DEF BatchFails, Places
    <3> QED BY <1>1, <3>1, <3>2
  <2>4. Stored'
    BY <1>1, <1>2, <2>2 DEF Stored
  <2>5. OnlyRun(r)
    BY <1>1, <1>2, <1>3, <2>1, <2>2, <2>3 DEF OnlyRun, KeptToo, Kept, Places
  <2>6. Goes(r)
    BY <1>1, <1>2, <2>1, <2>2, <2>3 DEF Goes, Places, Stored
  <2> QED BY <1>1, <1>3, <2>4, <2>5, <2>6, GoesTold DEF Places
<1>6. CASE PassEnds(r)
  <2>1. /\ todo' = todo /\ hit' = hit /\ late' = late /\ refused' = refused
        /\ pc' = [pc EXCEPT ![r] = "verify"]
    BY <1>6 DEF PassEnds, actVars
  <2>2. Stored'
    BY <1>1, <1>2, <2>1 DEF Stored
  <2>3. OnlyRun(r)
    BY <1>1, <1>2, <1>3, <2>1 DEF OnlyRun, KeptToo, Kept, Places
  <2>4. Goes(r)
    BY <1>1, <1>2, <2>1 DEF Goes, Places
  <2> QED BY <1>1, <1>3, <2>2, <2>3, <2>4, GoesTold DEF Places
<1> QED BY <1>4, <1>5, <1>6

LEMMA PostPassTold ==
    ASSUME IInv, AnswerInv, NEW r \in Runs, PostPass(r)
    PROVE  Stored' /\ OnlyRun(r) /\ Told(r)'
<1>1. Places /\ Stored /\ Told(r) /\ pc[r] = "verify"
  BY DEF IInv, AnswerInv, PostPass, VerifyKeeper, VerifyRaises, Report
<1>2. /\ at' = at /\ by' = by /\ evidence' = evidence /\ where' = where /\ hit' = hit
      /\ late' = late /\ refused' = refused /\ todo' = todo
      /\ order' = order /\ rows' = rows /\ keepers' = keepers
  BY DEF PostPass, VerifyKeeper, VerifyRaises, Report, mailVars, planVars, actVars
<1>3. Filed /\ \A q : NoneTaken(q)
  BY <1>2, StillFiled
<1>4. /\ DOMAIN unseen' = Runs /\ DOMAIN lost' = Runs
      /\ \A q \in Runs \ {r} : pc'[q] = pc[q] /\ unseen'[q] = unseen[q] /\ lost'[q] = lost[q]
      /\ pc'[r] \in {"verify", "raised", "ended"}
      /\ pc'[r] = "ended" => unseen'[r] = {}
  <2>1. CASE VerifyKeeper(r)
    BY <1>1, <2>1 DEF VerifyKeeper, Stored
  <2>2. CASE VerifyRaises(r)
    BY <1>1, <2>2 DEF VerifyRaises, Stored, Places
  <2>3. CASE Report(r)
    BY <1>1, <2>3 DEF Report, Stored, Places
  <2> QED BY <2>1, <2>2, <2>3 DEF PostPass
<1>5. Stored'
  BY <1>1, <1>2, <1>4 DEF Stored
<1>6. OnlyRun(r)
  BY <1>2, <1>3, <1>4 DEF OnlyRun, KeptToo, Kept
<1>7. Goes(r)
  BY <1>1, <1>2, <1>4 DEF Goes, Told, Quiet
<1> QED BY <1>1, <1>3, <1>5, <1>6, <1>7, GoesTold DEF Places

LEMMA UserTold ==
    ASSUME IInv, AnswerInv, ~DragsAcross, UserDrags \/ SecondTrashAppears
    PROVE  /\ Stored' /\ Filed /\ \A r \in Runs : KeptToo(r) /\ NoneTaken(r)
           /\ \A c \in Copies : by'[c] \in {by[c], Nobody}
<1>1. Places /\ Stored
  BY DEF IInv, AnswerInv
<1>2. /\ pc' = pc /\ order' = order /\ todo' = todo /\ evidence' = evidence /\ where' = where
      /\ refused' = refused /\ lost' = lost /\ unseen' = unseen /\ rows' = rows
      /\ keepers' = keepers /\ hit' = hit /\ late' = late
  BY DEF UserDrags, SecondTrashAppears, planVars, actVars
<1>3. Filed /\ \A c \in Copies : by'[c] \in {by[c], Nobody}
  <2>1. CASE UserDrags
    BY <1>1, <2>1 DEF UserDrags, Filed, Places
  <2>2. CASE SecondTrashAppears
    BY <2>2 DEF SecondTrashAppears, Filed
  <2> QED BY <2>1, <2>2
<1>4. \A c \in Copies : by'[c] # Nobody => IsTrash(at'[c])
  BY <1>1, <1>3 DEF Filed, Stored
<1>5. Stored'
  BY <1>1, <1>2, <1>3, <1>4, StoredStays DEF Stored
<1>6. \A r \in Runs : KeptToo(r) /\ NoneTaken(r)
  BY <1>2, <1>3, DedupeAssumption DEF KeptToo, Kept, NoneTaken
<1> QED BY <1>3, <1>5, <1>6

-----------------------------------------------------------------------------
(* Who owes an answer.                                                     *)

\* A run that took a copy of a message whose every copy is taken goes on owing its answer.
LEMMA PendingStays ==
    ASSUME IInv, AnswerInv, [Next]_vars, ~DragsAcross, NEW s \in Runs, NEW m,
           NEW c \in CopiesOf(m), by[c] = s, AllTaken(m), Pending(s, m)
    PROVE  Pending(s, m)'
<1>1. Places /\ Stored /\ Told(s) /\ c \in Copies
  BY DEF IInv, AnswerInv, CopiesOf
<1>2. pc[s] \notin {"idle", "nothing"}
  BY <1>1 DEF Told, Quiet
<1>3. CASE KeptToo(s)
  BY <1>3 DEF KeptToo, Kept, Pending, Cross, KeeperInUse
<1>4. CASE NextMailbox(s) \/ BatchEnds(s) \/ StartBatch(s) \/ DeleteCopy(s)
  <2>1. CASE Cross(s)
    <3>1. pc[s] # "mailbox"
      BY <1>1, <2>1 DEF Told, AgainstKeepers
    <3>2. pc'[s] \in {"batch", "script"}
      BY <1>1, <1>4, <2>1, <3>1 DEF NextMailbox, BatchEnds, StartBatch, DeleteCopy, Places
    <3> QED BY <3>2 DEF Pending
  <2>2. CASE ~Cross(s)
    <3>1. order' = order
      BY <1>4 DEF NextMailbox, BatchEnds, StartBatch, DeleteCopy, planVars
    <3> QED BY <2>2, <3>1 DEF Pending, Cross
  <2> QED BY <2>1, <2>2
<1>5. CASE BatchFails(s)
  <2>1. refused'[s]
    BY <1>1, <1>5 DEF BatchFails, Stored
  <2> QED BY <2>1 DEF Pending
<1>6. CASE PassEnds(s)
  <2>1. /\ order' = order /\ rows' = rows /\ keepers' = keepers /\ unseen' = unseen
        /\ pc[s] = "batch" /\ Cross(s)
    BY <1>6 DEF PassEnds, planVars
  <2>2. unseen[s] = KeeperRows(rows[s], keepers[s])
    BY <1>1, <2>1 DEF Told, AgainstKeepers
  <2>3. CASE KeeperInUse(s, m)
    <3>1. PICK d \in CopiesOf(m) :
            AccountOf(rows[s][d]) = keepers[s][m] /\ ~IsTrash(rows[s][d])
      BY <2>3 DEF KeeperInUse
    <3>2. <<rows[s][d], m>> \in unseen'[s]
      BY <2>1, <2>2, <3>1 DEF KeeperRows, CopiesOf
    <3> QED BY <3>1, <3>2 DEF Pending
  <2>4. CASE ~KeeperInUse(s, m)
    BY <2>1, <2>4 DEF Pending, KeeperInUse
  <2> QED BY <2>3, <2>4
<1>7. CASE VerifyKeeper(s)
  <2>1. PICK t \in unseen[s] :
          /\ unseen' = [unseen EXCEPT ![s] = @ \ {t}]
          /\ lost' = [lost EXCEPT ![s] = IF Present(t[1], t[2]) THEN @ ELSE @ \cup {t}]
    BY <1>7 DEF VerifyKeeper
  <2>2. /\ order' = order /\ rows' = rows /\ keepers' = keepers /\ refused' = refused
        /\ pc' = pc /\ pc[s] = "verify"
    BY <1>7 DEF VerifyKeeper, planVars, actVars
  <2>3. t[2] = m /\ ~IsTrash(t[1]) => ~Present(t[1], t[2])
    BY <1>1 DEF AllTaken, Stored, Present, CopiesOf
  <2>4. /\ unseen'[s] = unseen[s] \ {t}
        /\ lost'[s] = IF Present(t[1], t[2]) THEN lost[s] ELSE lost[s] \cup {t}
    BY <1>1, <2>1 DEF Stored
  <2>5. CASE \E x \in unseen[s] \cup lost[s] : x[2] = m /\ ~IsTrash(x[1])
    <3>1. PICK x \in unseen[s] \cup lost[s] : x[2] = m /\ ~IsTrash(x[1])
      BY <2>5
    <3>2. x \in unseen'[s] \cup lost'[s]
      BY <2>3, <2>4, <3>1
    <3> QED BY <3>1, <3>2 DEF Pending
  <2>6. CASE ~Cross(s) \/ refused[s] \/ ~KeeperInUse(s, m)
    BY <2>2, <2>6 DEF Pending, Cross, KeeperInUse
  <2> QED BY <2>2, <2>5, <2>6 DEF Pending
<1>8. CASE VerifyRaises(s)
  <2>1. pc'[s] = "raised"
    BY <1>1, <1>8 DEF VerifyRaises, Places
  <2> QED BY <2>1 DEF Pending
<1>9. CASE Report(s)
  <2>1. /\ order' = order /\ rows' = rows /\ keepers' = keepers /\ refused' = refused
        /\ unseen' = unseen /\ lost' = lost /\ pc[s] = "verify"
    BY <1>9 DEF Report, planVars, actVars
  <2> QED BY <2>1 DEF Pending, Cross, KeeperInUse
<1>10. CASE LateDelete(s)
  <2>1. /\ order' = order /\ rows' = rows /\ keepers' = keepers /\ refused' = refused
        /\ unseen' = unseen /\ lost' = lost /\ pc' = pc
    BY <1>10 DEF LateDelete, planVars
  <2> QED BY <2>1 DEF Pending, Cross, KeeperInUse
<1>11. ASSUME NEW r \in Runs \ {s},
              Plan(r) \/ Act(r) \/ PostPass(r) \/ LateDelete(r)
       PROVE  KeptToo(s)
  BY <1>11, PlanCrossTold, PlanSameTold, NextMailboxTold, StartBatchTold, DeletesTold,
     BatchTurnsTold, PostPassTold DEF Plan, Act, OnlyRun
<1>12. CASE UserDrags \/ SecondTrashAppears
  BY <1>3, <1>12, UserTold
<1>13. CASE UNCHANGED vars
  BY <1>3, <1>13 DEF vars, mailVars, planVars, actVars, KeptToo, Kept
<1>14. ~PlanCross(s) /\ ~PlanSame(s)
  BY <1>2 DEF PlanCross, PlanSame
<1>15. ASSUME NEW r \in Runs, Plan(r) \/ Act(r) \/ PostPass(r) \/ LateDelete(r)
       PROVE  Pending(s, m)'
  <2>1. CASE r = s
    BY <1>4, <1>5, <1>6, <1>7, <1>8, <1>9, <1>10, <1>14, <1>15, <2>1 DEF Plan, Act, PostPass
  <2> QED BY <1>3, <1>11, <1>15, <2>1
<1> QED BY <1>12, <1>13, <1>15 DEF Next

\* A step that files the copies of no message for anyone else.
LEMMA SameTrashers ==
    ASSUME IInv, AnswerInv, [Next]_vars, ~DragsAcross, NEW k \in Copies,
           \A c \in CopiesOf(IdOf[k]) : by'[c] = by[c]
    PROVE  SomeoneOwes(IdOf[k])'
<1> SUFFICES ASSUME AllTaken(IdOf[k])' PROVE \E s \in TrashersOf(IdOf[k])' : Pending(s, IdOf[k])'
  BY DEF SomeoneOwes
<1>1. AllTaken(IdOf[k]) /\ TrashersOf(IdOf[k])' = TrashersOf(IdOf[k])
  BY DEF AllTaken, TrashersOf, CopiesOf
<1>2. PICK s \in TrashersOf(IdOf[k]) : Pending(s, IdOf[k])
  BY <1>1 DEF AnswerInv, SomeoneOwes
<1>3. PICK c \in CopiesOf(IdOf[k]) : by[c] = s
  BY <1>2 DEF TrashersOf
<1>4. s \in Runs
  BY <1>2, <1>3 DEF TrashersOf, IInv, Places, CopiesOf
<1>5. Pending(s, IdOf[k])'
  BY <1>1, <1>2, <1>3, <1>4, PendingStays
<1> QED BY <1>1, <1>2, <1>5

LEMMA OweStays ==
    ASSUME IInv, AnswerInv, [Next]_vars, ~DragsAcross, NEW k \in Copies
    PROVE  SomeoneOwes(IdOf[k])'
<1>1. CASE \A c \in Copies : by'[c] = by[c]
  BY <1>1, SameTrashers DEF CopiesOf
<1>2. ASSUME NEW r \in Runs, DeleteCopy(r) \/ LateDelete(r) PROVE SomeoneOwes(IdOf[k])'
  <2>1. /\ \A c \in Copies : by'[c] \in {by[c], r}
        /\ \A c \in Copies : by'[c] = by[c] \/ pc[r] = "script" \/ refused[r]
    BY <1>2, DeletesTold DEF FiledBy
  <2>2. pc' = pc /\ refused' = refused
    BY <1>2 DEF DeleteCopy, LateDelete
  <2>3. CASE \A c \in CopiesOf(IdOf[k]) : by'[c] = by[c]
    BY <2>3, SameTrashers
  <2>4. ASSUME NEW c \in CopiesOf(IdOf[k]), by'[c] # by[c] PROVE SomeoneOwes(IdOf[k])'
    <3>1. by'[c] = r /\ (pc[r] = "script" \/ refused[r]) /\ r # Nobody
      BY <2>1, <2>4, DedupeAssumption DEF CopiesOf
    <3>2. Pending(r, IdOf[k])'
      BY <2>2, <3>1 DEF Pending
    <3>3. r \in TrashersOf(IdOf[k])'
      BY <3>1 DEF TrashersOf, CopiesOf
    <3> QED BY <3>2, <3>3 DEF SomeoneOwes
  <2> QED BY <2>3, <2>4
<1>3. CASE UserDrags \/ SecondTrashAppears
  <2>1. \A c \in Copies : by'[c] \in {by[c], Nobody}
    BY <1>3, UserTold
  <2>2. CASE \A c \in CopiesOf(IdOf[k]) : by'[c] = by[c]
    BY <2>2, SameTrashers
  <2>3. CASE \E c \in CopiesOf(IdOf[k]) : by'[c] = Nobody
    BY <2>3 DEF SomeoneOwes, AllTaken, CopiesOf
  <2> QED BY <2>1, <2>2, <2>3 DEF CopiesOf
<1>4. ASSUME NEW r \in Runs, Plan(r) \/ Act(r) \/ PostPass(r), ~DeleteCopy(r)
      PROVE  by' = by
  BY <1>4 DEF Plan, Act, PostPass, PlanCross, PlanSame, NextMailbox, StartBatch, BatchEnds,
              BatchFails, PassEnds, VerifyKeeper, VerifyRaises, Report, mailVars
<1>5. CASE UNCHANGED vars
  BY <1>1, <1>5 DEF vars, mailVars
<1> QED BY <1>1, <1>2, <1>3, <1>4, <1>5 DEF Next

LEMMA AnswersStay ==
    ASSUME IInv, AnswerInv, [Next]_vars, ~DragsAcross
    PROVE  AnswerInv'
<1>1. \A c \in Copies : SomeoneOwes(IdOf[c])'
  BY OweStays
<1>2. ASSUME NEW r \in Runs, Plan(r) \/ Act(r) \/ PostPass(r) \/ LateDelete(r)
      PROVE  Stored' /\ \A q \in Runs : Told(q)'
  <2>1. Stored' /\ OnlyRun(r) /\ Told(r)'
    BY <1>2, PlanCrossTold, PlanSameTold, NextMailboxTold, StartBatchTold, DeletesTold,
       BatchTurnsTold, PostPassTold DEF Plan, Act
  <2>2. Filed
    <3>1. CASE DeleteCopy(r) \/ LateDelete(r)
      BY <3>1, DeletesTold DEF FiledBy
    <3>2. CASE ~DeleteCopy(r) /\ ~LateDelete(r)
      <4>1. at' = at /\ by' = by
        BY <1>2, <3>2 DEF Plan, Act, PostPass, PlanCross, PlanSame, NextMailbox, StartBatch,
             BatchEnds, BatchFails, PassEnds, VerifyKeeper, VerifyRaises, Report, mailVars
      <4> QED BY <4>1, StillFiled
    <3> QED BY <3>1, <3>2
  <2> QED BY <2>1, <2>2, OneRunTold
<1>3. \A r \in Runs : Told(r) /\ hit[r] \subseteq Copies /\ late[r] \subseteq Copies
  BY DEF AnswerInv, IInv, Places
<1>4. CASE UserDrags \/ SecondTrashAppears
  BY <1>1, <1>3, <1>4, UserTold, OthersTold DEF AnswerInv
<1>5. CASE UNCHANGED vars
  <2>1. Filed /\ \A r \in Runs : KeptToo(r) /\ NoneTaken(r)
    BY <1>5, StillFiled DEF vars, mailVars, planVars, actVars, KeptToo, Kept
  <2>2. Stored'
    BY <1>5 DEF vars, mailVars, planVars, actVars, AnswerInv, Stored
  <2> QED BY <1>1, <1>3, <2>1, <2>2, OthersTold DEF AnswerInv
<1>6. CASE \E r \in Runs : Plan(r) \/ Act(r) \/ PostPass(r) \/ LateDelete(r)
  BY <1>1, <1>2, <1>6 DEF AnswerInv
<1> QED BY <1>4, <1>5, <1>6 DEF Next

-----------------------------------------------------------------------------
(* No set is lost silently.                                                *)

LEMMA FirstOf ==
    ASSUME NEW S \in SUBSET Copies, S # {}
    PROVE  \E c \in S : \A d \in S : ~(d < c)
<1> DEFINE Below(n) == 0..(n - 1)
           B == {Below(n) : n \in S}
<1>1. S \subseteq Nat
  BY DedupeAssumption
<1>2. B \subseteq FiniteSubsetsOf(Nat) /\ B # {}
  <2>1. ASSUME NEW n \in S PROVE Below(n) \in FiniteSubsetsOf(Nat)
    <3>1. IsFiniteSet(Below(n)) /\ Below(n) \subseteq Nat
      BY <1>1, FS_Interval
    <3> QED BY <3>1 DEF FiniteSubsetsOf
  <2> QED BY <2>1
<1>3. PICK T \in B : \A U \in B : <<U, T>> \notin StrictSubsetOrdering(Nat)
  <2> HIDE DEF B
  <2> QED BY <1>2, FS_StrictSubsetOrderingWellFounded, WFMin
<1>4. PICK c \in S : T = Below(c)
  OBVIOUS
<1>5. ASSUME NEW d \in S, d < c PROVE FALSE
  <2>1. Below(d) \in B /\ Below(d) \in SUBSET Nat /\ Below(c) \in SUBSET Nat
    BY <1>1
  <2>2. Below(d) \subseteq Below(c) /\ d \in Below(c) /\ d \notin Below(d)
    BY <1>1, <1>5
  <2>3. <<Below(d), Below(c)>> \in StrictSubsetOrdering(Nat)
    <3> HIDE DEF Below
    <3> QED BY <2>1, <2>2 DEF StrictSubsetOrdering
  <2> QED BY <1>3, <1>4, <2>1, <2>3
<1> QED BY <1>5

\* When every run is done or reports success, and a cross-account run that took copies kept one
\* in use, some copy of each message was left alone.
LEMMA NoneLost ==
    ASSUME IInv, AnswerInv, \A r \in Runs : pc[r] \in {"idle", "nothing"} \/ Clean(r),
           NEW k \in Copies,
           \A r \in Runs : keepers[r][IdOf[k]] # NoKeeper => KeeperInUse(r, IdOf[k]),
           ~OutOfStep(IdOf[k])
    PROVE  \E c \in CopiesOf(IdOf[k]) : by[c] = Nobody
<1> DEFINE m == IdOf[k]
<1> SUFFICES ASSUME AllTaken(m) PROVE FALSE
  BY DEF AllTaken
<1>1. \A c \in CopiesOf(m) : c \in Copies /\ IdOf[c] = m /\ by[c] \in Runs /\ by[c] \in TrashersOf(m)
  BY DEF AllTaken, CopiesOf, IInv, Places, TrashersOf
<1>2. \A r \in TrashersOf(m) : r \in Runs /\ Told(r) /\ Clean(r)
  <2>1. \A r \in TrashersOf(m) : \E c \in Copies : by[c] = r /\ r \in Runs
    BY <1>1 DEF TrashersOf
  <2> QED BY <2>1 DEF AnswerInv, Told, Quiet
<1>3. \A r \in TrashersOf(m) : Cross(r) => keepers[r][m] # NoKeeper /\ KeeperInUse(r, m)
  <2>1. \A r \in TrashersOf(m) : \E c \in Copies : by[c] = r /\ IdOf[c] = m
    BY <1>1 DEF TrashersOf
  <2> QED BY <1>2, <2>1 DEF Told, AgainstKeepers, Against
<1>4. \E s \in TrashersOf(m) : Pending(s, m)
  BY DEF AnswerInv, SomeoneOwes
<1>5. PICK same \in TrashersOf(m) : ~Cross(same)
  <2>1. ASSUME NEW s \in TrashersOf(m), Cross(s) PROVE ~Pending(s, m)
    <3>1. unseen[s] = {} /\ lost[s] = {} /\ ~refused[s] /\ pc[s] = "ended"
      BY <1>2, <2>1 DEF Told, AgainstKeepers, Clean
    <3> QED BY <1>3, <2>1, <3>1 DEF Pending
  <2> QED BY <1>4, <2>1
<1>6. \A r, s \in TrashersOf(m) : Cross(r) /\ Cross(s) => keepers[r][m] = keepers[s][m]
  BY <1>5 DEF OutOfStep
<1>7. PICK acct : /\ \A r \in TrashersOf(m) : Cross(r) => keepers[r][m] = acct
                  /\ \E c \in CopiesOf(m) : AccountOf(at[c]) = acct
  <2>1. CASE \E r \in TrashersOf(m) : Cross(r)
    <3>1. PICK r \in TrashersOf(m) : Cross(r)
      BY <2>1
    <3>2. \E c \in CopiesOf(m) : AccountOf(rows[r][c]) = keepers[r][m]
      BY <1>3, <3>1 DEF KeeperInUse
    <3>3. \E c \in CopiesOf(m) : AccountOf(at[c]) = keepers[r][m]
      BY <1>1, <1>2, <3>2 DEF AnswerInv, Stored
    <3> QED BY <1>6, <3>1, <3>3
  <2>2. CASE ~\E r \in TrashersOf(m) : Cross(r)
    <3>1. k \in CopiesOf(m)
      BY DEF CopiesOf
    <3> QED BY <2>2, <3>1
  <2> QED BY <2>1, <2>2
<1> DEFINE S == {c \in CopiesOf(m) : AccountOf(at[c]) = acct}
<1>8. PICK c \in S : \A d \in S : ~(d < c)
  <2>1. S \in SUBSET Copies /\ S # {}
    BY <1>7 DEF CopiesOf
  <2> QED BY <2>1, FirstOf
<1>9. /\ c \in CopiesOf(m) /\ AccountOf(at[c]) = acct /\ IdOf[c] = m
      /\ by[c] \in TrashersOf(m)
  BY <1>1
<1>10. CASE Cross(by[c])
  <2>1. Against(by[c], m, acct)
    BY <1>1, <1>2, <1>9, <1>10 DEF Told, AgainstKeepers
  <2> QED BY <1>7, <1>9, <1>10, <2>1 DEF Against
<1>11. CASE ~Cross(by[c])
  <2>1. Before(c, acct)
    BY <1>1, <1>2, <1>9, <1>11 DEF Told, AllButTheFirst
  <2>2. \E d \in S : d < c
    BY <1>9, <2>1 DEF Before
  <2> QED BY <1>8, <2>2
<1> QED BY <1>10, <1>11

\* Several runs never send the last copies of a message to Trash between them with every run
\* reporting success, but for the two cases that the property names; provided that nobody
\* drags a copy from one account into another meanwhile, which no plan or post-pass sees.
THEOREM NoneLostSilently == ASSUME ~DragsAcross PROVE Spec => []NoSetIsLostSilently
<1>1. IInv /\ AnswerInv => NoSetIsLostSilently
  BY NoneLost DEF NoSetIsLostSilently
<1>2. IInv /\ AnswerInv /\ [Next]_vars => (IInv /\ AnswerInv)'
  BY StepInv, AnswersStay
<1>3. Init => IInv /\ AnswerInv
  BY InitInv, InitAnswers
<1> QED BY <1>1, <1>2, <1>3, PTL DEF Spec

-----------------------------------------------------------------------------
(* MailBodies.  A stamp names one text of a path: whatever a build has in  *)
(* hand is that text, or its stamp is no longer the file's.                *)

BuildRecord ==
    [step : {"idle", "list", "next", "read", "store", "finish", "done", "failed"},
     seen : [Paths -> 0..changed + 1], todo : SUBSET Paths, stamp : 0..changed + 1,
     text : D!Texts \cup {Nobody}, open : [Paths -> 0..changed + 1]]

AskRecord ==
    [step : {"idle", "query", "have", "live", "files", "texts", "done"},
     hits : SUBSET Mids, have : SUBSET Mids, todo : SUBSET Paths, got : SUBSET Mids,
     covered : BOOLEAN, still : BOOLEAN]

BodiesType ==
    /\ wholeText \in [Mids -> {"word", "other"}] /\ changed \in Nat /\ live \subseteq Mids
    /\ disk \in [Paths -> [text : D!Texts, stamp : 1..changed + 1] \cup {Nobody}]
    /\ sidecar \in [there : BOOLEAN, bodies : [Mids -> D!Texts \cup {Nobody}],
                    recorded : [Paths -> 0..changed + 1]]
    /\ builder \in [Builds -> BuildRecord] /\ ask \in [Asks -> AskRecord]

\* A file that stands holds one of the texts its message may have.
DiskInv == \A p \in Paths : D!OnDisk(p) => disk[p].text \in D!MayHold(p)

\* What a build is about to store of a file was in it under the stamp it will record.
InHand(b) ==
    builder[b].step \in {"read", "store"} =>
        /\ builder[b].todo # {} /\ builder[b].stamp # 0
        /\ builder[b].step = "store" =>
              \A p \in Paths : p = D!NextPath(b) =>
                  /\ builder[b].text \in D!MayHold(p)
                  /\ D!OnDisk(p) /\ disk[p].stamp = builder[b].stamp => disk[p].text = builder[b].text

\* What a build has recorded without a body, and not yet committed, has no text.
OpenTextless(b) ==
    \A p \in Paths :
        builder[b].open[p] # 0 /\ D!OnDisk(p) /\ disk[p].stamp = builder[b].open[p]
            => disk[p].text = "none"

NoWord == \A m \in Mids : sidecar.bodies[m] # "word"

\* What a read has found so far, unless something changed meanwhile.
AskInv(a) ==
    /\ ask[a].step = "query" => ~ask[a].covered
    /\ ask[a].still =>
        /\ ask[a].step = "have" => NoWord
        /\ ask[a].step = "live" => NoWord /\ ask[a].have = {m \in Mids : sidecar.bodies[m] # Nobody}
        /\ ask[a].step = "done" /\ ask[a].covered =>
              \A m \in live : sidecar.bodies[m] \notin {Nobody, "word"}
        /\ ask[a].step = "texts" => ask[a].todo = {}
        /\ ask[a].step \in {"files", "texts"} =>
              \A p \in Paths \ ask[a].todo :
                  D!OnDisk(p) /\ MidAt[p] \in ask[a].hits \ ask[a].got => disk[p].text = "none"

BodiesInv ==
    /\ BodiesType /\ DiskInv /\ D!RecordedIsSearchable
    /\ \A b \in Builds : InHand(b) /\ OpenTextless(b)
    /\ \A a \in Asks : AskInv(a)

\* What every step of Mail does: another file is Nobody's or has a stamp that nobody has seen.
MailStep ==
    /\ changed' = changed + 1 /\ UNCHANGED <<wholeText, sidecar, builder>>
    /\ ask' = [a \in Asks |-> [ask[a] EXCEPT !.still = FALSE]]
    /\ live' \subseteq Mids /\ disk' = [p \in Paths |-> disk'[p]]
    /\ \A p \in Paths :
          \/ disk'[p] \in {disk[p], Nobody}
          \/ \E text \in D!MayHold(p) : disk'[p] = [text |-> text, stamp |-> changed + 2]

LEMMA MayHoldTexts ==
    ASSUME BodiesType, NEW p \in Paths PROVE D!MayHold(p) \subseteq D!Texts
BY TextsAssumption DEF BodiesType, D!MayHold, D!Texts

LEMMA StirredType ==
    ASSUME BodiesType, ask' = [a \in Asks |-> [ask[a] EXCEPT !.still = FALSE]]
    PROVE  ask' \in [Asks -> AskRecord]
<1>1. ASSUME NEW a \in Asks PROVE [ask[a] EXCEPT !.still = FALSE] \in AskRecord
  <2>1. ask[a] \in AskRecord
    BY DEF BodiesType
  <2> QED BY <2>1 DEF AskRecord
<1> QED BY <1>1

LEMMA MailSteps ==
    ASSUME BodiesType, DiskInv,
           \/ \E p \in Paths : D!Arrives(p) \/ D!Rewrites(p) \/ D!FillsIn(p) \/ D!Expunges(p)
           \/ \E m \in Mids : D!Deletes(m)
    PROVE  MailStep
<1> USE TextsAssumption DEF D!Changes, D!Stirred, D!SameSidecar, D!File
<1>1. disk = [p \in Paths |-> disk[p]] /\ live \subseteq Mids
  BY DEF BodiesType
<1>2. CASE \E p \in Paths : D!Arrives(p)
  <2>1. PICK p \in Paths : D!Arrives(p)
    BY <1>2
  <2>2. PICK text \in D!MayHold(p) : disk' = [disk EXCEPT ![p] = D!File(text)]
    BY <2>1 DEF D!Arrives
  <2>3. /\ disk'[p] = [text |-> text, stamp |-> changed + 2] /\ disk' = [q \in Paths |-> disk'[q]]
        /\ \A q \in Paths \ {p} : disk'[q] = disk[q]
    BY <1>1, <2>2
  <2> QED BY <1>1, <2>1, <2>2, <2>3 DEF D!Arrives, MailStep
<1>3. CASE \E p \in Paths : D!Rewrites(p)
  <2>1. PICK p \in Paths : D!Rewrites(p)
    BY <1>3
  <2>2. PICK text \in D!Texts : /\ D!Draft(p) \/ text = disk[p].text
                                /\ disk' = [disk EXCEPT ![p] = D!File(text)]
    BY <2>1 DEF D!Rewrites
  <2>3. text \in D!MayHold(p)
    BY <2>1, <2>2 DEF DiskInv, D!MayHold, D!Rewrites
  <2>4. disk'[p] = [text |-> text, stamp |-> changed + 2]
        /\ (\A q \in Paths \ {p} : disk'[q] = disk[q]) /\ disk' = [q \in Paths |-> disk'[q]]
    BY <1>1, <2>2
  <2> QED BY <1>1, <2>1, <2>3, <2>4 DEF D!Rewrites, MailStep
<1>4. CASE \E p \in Paths : D!FillsIn(p)
  <2>1. PICK p \in Paths : D!FillsIn(p)
    BY <1>4
  <2>2. PICK text \in D!MayHold(p) :
           disk' = [disk EXCEPT ![p] = Nobody, ![FullOf[p]] = D!File(text)]
    BY <2>1 DEF D!FillsIn
  <2>3. text \in D!MayHold(FullOf[p])
    BY <2>1, <2>2 DEF D!MayHold, D!Draft, D!FillsIn
  <2>4. /\ disk'[FullOf[p]] = [text |-> text, stamp |-> changed + 2] /\ disk' = [q \in Paths |-> disk'[q]]
        /\ \A q \in Paths \ {FullOf[p]} : disk'[q] \in {disk[q], Nobody}
    BY <1>1, <2>2
  <2> QED BY <1>1, <2>1, <2>3, <2>4 DEF D!FillsIn, MailStep
<1>5. CASE \E p \in Paths : D!Expunges(p)
  BY <1>1, <1>5 DEF D!Expunges, MailStep
<1>6. CASE \E m \in Mids : D!Deletes(m)
  <2>1. PICK m \in Mids : D!Deletes(m)
    BY <1>6
  <2>2. disk' = [p \in Paths |-> disk'[p]] /\ \A p \in Paths : disk'[p] = disk[p]
    BY <1>1, <2>1 DEF D!Deletes
  <2> QED BY <1>1, <2>1, <2>2 DEF D!Deletes, MailStep
<1> QED BY <1>2, <1>3, <1>4, <1>5, <1>6

LEMMA MailKeepsBodies == ASSUME BodiesInv, MailStep PROVE BodiesInv'
<1>1. BodiesType /\ DiskInv
  BY DEF BodiesInv
<1>2. \A p \in Paths :
         /\ D!MayHold(p)' = D!MayHold(p) /\ D!MayHold(p) \subseteq D!Texts
         /\ disk'[p] # Nobody => \/ disk'[p] = disk[p]
                                 \/ disk'[p].stamp = changed + 2 /\ disk'[p].text \in D!MayHold(p)
  BY <1>1, MayHoldTexts DEF MailStep, D!MayHold
<1>3. BodiesType'
  <2>1. disk' \in [Paths -> [text : D!Texts, stamp : 1..changed' + 1] \cup {Nobody}]
    <3>1. ASSUME NEW p \in Paths
          PROVE  disk'[p] \in [text : D!Texts, stamp : 1..changed' + 1] \cup {Nobody}
      BY <1>1, <1>2 DEF BodiesType, MailStep
    <3>2. disk' = [p \in Paths |-> disk'[p]]
      BY <1>1, <1>2 DEF MailStep, BodiesType
    <3> QED BY <3>1, <3>2
  <2>2. sidecar' \in [there : BOOLEAN, bodies : [Mids -> D!Texts \cup {Nobody}],
                      recorded : [Paths -> 0..changed' + 1]]
    BY <1>1 DEF BodiesType, MailStep
  <2>3. builder' \in [Builds -> BuildRecord']
    BY <1>1 DEF BodiesType, MailStep, BuildRecord
  <2>4. ask' \in [Asks -> AskRecord']
    BY <1>1, StirredType DEF MailStep, AskRecord
  <2> QED BY <1>1, <2>1, <2>2, <2>3, <2>4 DEF BodiesType, MailStep
<1>4. DiskInv'
  BY <1>1, <1>2 DEF DiskInv, D!OnDisk
<1>5. \A p \in Paths : D!OnDisk(p)' => \/ disk'[p] = disk[p] /\ D!OnDisk(p)
                                    \/ disk'[p].stamp = changed + 2
  BY <1>2 DEF D!OnDisk
<1>6. D!RecordedIsSearchable'
  <2>1. ASSUME NEW p \in Paths PROVE sidecar.recorded[p] # changed + 2
    BY <1>1 DEF BodiesType
  <2> QED BY <1>1, <1>5, <2>1 DEF BodiesInv, D!RecordedIsSearchable, MailStep, D!OnDisk
<1>7. ASSUME NEW b \in Builds PROVE InHand(b)' /\ OpenTextless(b)'
  <2>1. builder[b] \in BuildRecord /\ builder' = builder /\ changed \in Nat
    BY <1>1 DEF BodiesType, MailStep
  <2>2. builder[b].stamp # changed + 2 /\ \A p \in Paths : builder[b].open[p] # changed + 2
    BY <2>1 DEF BuildRecord
  <2>3. InHand(b) /\ OpenTextless(b) /\ D!NextPath(b)' = D!NextPath(b)
    BY <2>1 DEF BodiesInv, D!NextPath
  <2>4. OpenTextless(b)'
    BY <1>5, <2>1, <2>2, <2>3 DEF OpenTextless
  <2>5. InHand(b)'
    BY <1>2, <1>5, <2>1, <2>2, <2>3 DEF InHand
  <2> QED BY <2>4, <2>5
<1>8. ASSUME NEW a \in Asks PROVE AskInv(a)'
  BY <1>1 DEF BodiesInv, BodiesType, MailStep, AskInv, AskRecord
<1> QED BY <1>3, <1>4, <1>6, <1>7, <1>8 DEF BodiesInv

-----------------------------------------------------------------------------
(* The steps of a build.                                                   *)

\* Mail's files stay; the reads that see other bodies know it.
SameMail == UNCHANGED <<wholeText, disk, live, changed>>

LEMMA BuildKeepsBodies ==
    ASSUME BodiesInv, NEW b \in Builds, SameMail,
           builder' \in [Builds -> BuildRecord], \A d \in Builds \ {b} : builder'[d] = builder[d],
           InHand(b)', OpenTextless(b)', D!RecordedIsSearchable',
           sidecar' \in [there : BOOLEAN, bodies : [Mids -> D!Texts \cup {Nobody}],
                         recorded : [Paths -> 0..changed + 1]],
           \/ ask' = ask /\ sidecar'.bodies = sidecar.bodies
           \/ ask' = [a \in Asks |-> [ask[a] EXCEPT !.still = FALSE]]
    PROVE  BodiesInv'
<1>1. BodiesType
  BY DEF BodiesInv
<1>2. ask' \in [Asks -> AskRecord]
  BY <1>1, StirredType DEF BodiesType
<1>3. BodiesType'
  BY <1>1, <1>2 DEF BodiesType, SameMail, BuildRecord, AskRecord
<1>4. DiskInv'
  BY DEF BodiesInv, DiskInv, SameMail, D!OnDisk, D!MayHold
<1>5. ASSUME NEW d \in Builds \ {b} PROVE InHand(d)' /\ OpenTextless(d)'
  <2>1. D!NextPath(d)' = D!NextPath(d) /\ builder'[d] = builder[d] /\ InHand(d) /\ OpenTextless(d)
    BY DEF D!NextPath, BodiesInv
  <2>2. \A p \in Paths : D!MayHold(p)' = D!MayHold(p) /\ (D!OnDisk(p)' <=> D!OnDisk(p))
    BY DEF SameMail, D!MayHold, D!OnDisk
  <2>3. InHand(d)'
    BY <2>1, <2>2 DEF InHand, SameMail
  <2>4. OpenTextless(d)'
    BY <2>1, <2>2 DEF OpenTextless, SameMail
  <2> QED BY <2>3, <2>4
<1>6. ASSUME NEW a \in Asks PROVE AskInv(a)'
  <2>1. AskInv(a) /\ ask[a] \in AskRecord
    BY <1>1 DEF BodiesInv, BodiesType
  <2>2. CASE ask' = ask /\ sidecar'.bodies = sidecar.bodies
    BY <2>1, <2>2 DEF AskInv, NoWord, SameMail, D!OnDisk
  <2>3. CASE ask' = [e \in Asks |-> [ask[e] EXCEPT !.still = FALSE]]
    BY <2>1, <2>3 DEF AskInv, AskRecord
  <2> QED BY <2>2, <2>3
<1> QED BY <1>3, <1>4, <1>5, <1>6 DEF BodiesInv

LEMMA LeastNumber ==
    ASSUME NEW S \in SUBSET Nat, S # {} PROVE \E n \in S : \A m \in S : n <= m
<1>1. PICK less : less = OpToRel(<, Nat)
  OBVIOUS
<1>2. PICK n \in S : \A m \in S : <<m, n>> \notin less
  BY <1>1, NatLessThanWellFounded, WFMin
<1>3. \A m \in Nat : m < n => <<m, n>> \in less
  BY <1>1 DEF OpToRel
<1>4. \A m \in S : ~(m < n) /\ m \in Nat /\ n \in Nat
  BY <1>2, <1>3
<1> QED BY <1>4


\* The next path is one of those that are left.
LEMMA NextIsLeft ==
    ASSUME BodiesType, NEW b \in Builds, builder[b].todo # {}
    PROVE  D!NextPath(b) \in builder[b].todo /\ D!NextPath(b) \in Paths
<1>1. builder[b].todo \in SUBSET Paths /\ Paths \subseteq Nat
  BY TextsAssumption DEF BodiesType, BuildRecord
<1>2. \E p \in builder[b].todo : \A q \in builder[b].todo : p <= q
  BY <1>1, LeastNumber
<1> QED BY <1>1, <1>2 DEF D!NextPath, D!Min

LEMMA OneBuilder ==
    ASSUME BodiesType, NEW b \in Builds, NEW new \in BuildRecord,
           builder' = [builder EXCEPT ![b] = new]
    PROVE  /\ builder' \in [Builds -> BuildRecord] /\ builder'[b] = new
           /\ \A d \in Builds \ {b} : builder'[d] = builder[d]
BY DEF BodiesType

\* A step that only moves on, or takes nothing in hand.
LEMMA BuildMoves ==
    ASSUME BodiesInv, NEW b \in Builds, SameMail, sidecar' = sidecar, ask' = ask,
           NEW new \in BuildRecord, builder' = [builder EXCEPT ![b] = new],
           new.open = builder[b].open, InHand(b)'
    PROVE  BodiesInv'
<1>1. BodiesType /\ OpenTextless(b)
  BY DEF BodiesInv
<1>2. /\ builder' \in [Builds -> BuildRecord] /\ builder'[b] = new
      /\ \A d \in Builds \ {b} : builder'[d] = builder[d]
  BY <1>1, OneBuilder
<1>3. OpenTextless(b)'
  BY <1>1, <1>2 DEF OpenTextless, SameMail, D!OnDisk
<1>4. D!RecordedIsSearchable'
  BY DEF BodiesInv, D!RecordedIsSearchable, SameMail, D!OnDisk
<1> QED BY <1>1, <1>2, <1>3, <1>4, BuildKeepsBodies DEF BodiesType

LEMMA OpenKeeps == ASSUME BodiesInv, NEW b \in Builds, D!Open(b) PROVE BodiesInv'
<1>1. BodiesType /\ builder[b] \in BuildRecord
  BY DEF BodiesInv, BodiesType
<1>2. PICK rebuild \in BOOLEAN, now \in {sidecar, D!NoSidecar} :
         /\ sidecar' = [now EXCEPT !.there = TRUE]
         /\ builder' = [builder EXCEPT ![b].step = "list", ![b].seen = now.recorded]
  BY DEF D!Open
<1>3. now \in [there : BOOLEAN, bodies : [Mids -> D!Texts \cup {Nobody}],
               recorded : [Paths -> 0..changed + 1]]
  <2>1. CASE now = sidecar
    BY <1>1, <2>1 DEF BodiesType
  <2>2. CASE now = D!NoSidecar
    <3>1. 0 \in 0..changed + 1
      BY <1>1 DEF BodiesType
    <3> QED BY <2>2, <3>1 DEF D!NoSidecar
  <2> QED BY <2>1, <2>2
<1> DEFINE new == [builder[b] EXCEPT !.step = "list", !.seen = now.recorded]
<1>4. builder' = [builder EXCEPT ![b] = new]
  BY <1>1, <1>2 DEF BodiesType
<1>5. new \in BuildRecord /\ new.step = "list" /\ new.open = builder[b].open
  BY <1>1, <1>3 DEF BuildRecord
<1> HIDE DEF new
<1>6. /\ builder' \in [Builds -> BuildRecord] /\ builder'[b] = new
      /\ \A d \in Builds \ {b} : builder'[d] = builder[d]
  BY <1>1, <1>4, <1>5, OneBuilder
<1>7. SameMail /\ ask' = [a \in Asks |-> [ask[a] EXCEPT !.still = FALSE]]
  BY DEF D!Open, D!Stirred, SameMail
<1>8. InHand(b)'
  BY <1>5, <1>6 DEF InHand
<1>9. OpenTextless(b)'
  BY <1>5, <1>6, <1>7 DEF BodiesInv, OpenTextless, SameMail, D!OnDisk
<1>10. sidecar'.recorded = now.recorded /\ sidecar'.bodies = now.bodies
       /\ sidecar' \in [there : BOOLEAN, bodies : [Mids -> D!Texts \cup {Nobody}],
                        recorded : [Paths -> 0..changed + 1]]
  BY <1>2, <1>3
<1>11. D!RecordedIsSearchable'
  <2>1. ASSUME NEW p \in Paths, D!OnDisk(p) PROVE disk[p].stamp # 0
    BY <1>1, <2>1 DEF BodiesType, D!OnDisk
  <2>2. now = D!NoSidecar => \A p \in Paths : now.recorded[p] = 0
    BY DEF D!NoSidecar
  <2> QED BY <1>2, <1>7, <1>10, <2>1, <2>2
          DEF BodiesInv, D!RecordedIsSearchable, SameMail, D!OnDisk
<1> QED BY <1>6, <1>7, <1>8, <1>9, <1>10, <1>11, BuildKeepsBodies

LEMMA ListAndStatKeep ==
    ASSUME BodiesInv, NEW b \in Builds, D!ListFiles(b) \/ D!StatFile(b) \/ D!Killed(b)
    PROVE  BodiesInv'
<1>1. BodiesType /\ builder[b] \in BuildRecord
  BY DEF BodiesInv, BodiesType
<1>2. SameMail /\ sidecar' = sidecar /\ ask' = ask
  BY DEF D!ListFiles, D!StatFile, D!Killed, D!OnlyBuilder, SameMail
<1>3. \E new \in BuildRecord :
         /\ builder' = [builder EXCEPT ![b] = new] /\ new.open = builder[b].open
         /\ new.step \in {"read", "store"} =>
               new.step = "read" /\ new.todo # {} /\ new.stamp # 0
  <2>1. CASE D!ListFiles(b)
    <3> DEFINE new == [builder[b] EXCEPT !.step = "next", !.todo = {p \in Paths : D!OnDisk(p)}]
    <3>1. builder' = [builder EXCEPT ![b] = new]
      BY <1>1, <2>1 DEF D!ListFiles, BodiesType
    <3>2. new \in BuildRecord /\ new.step = "next" /\ new.open = builder[b].open
      BY <1>1 DEF BuildRecord
    <3> QED BY <3>1, <3>2
  <2>2. CASE D!Killed(b)
    <3> DEFINE new == [builder[b] EXCEPT !.step = "failed"]
    <3>1. builder' = [builder EXCEPT ![b] = new]
      BY <1>1, <2>2 DEF D!Killed, D!Goto, BodiesType
    <3>2. new \in BuildRecord /\ new.step = "failed" /\ new.open = builder[b].open
      BY <1>1 DEF BuildRecord
    <3> QED BY <3>1, <3>2
  <2>3. CASE D!StatFile(b)
    <3> DEFINE p == D!NextPath(b)
               skip == [builder[b] EXCEPT !.step = "next", !.todo = @ \ {p}]
               read == [builder[b] EXCEPT !.step = "read", !.stamp = disk[p].stamp]
    <3>1. builder[b].todo # {} /\ p \in Paths
      BY <1>1, <2>3, NextIsLeft DEF D!StatFile
    <3>2. CASE builder' = [builder EXCEPT ![b].step = "read", ![b].stamp = disk[p].stamp]
               /\ D!OnDisk(p)
      <4>1. disk[p].stamp \in 0..changed + 1 /\ disk[p].stamp # 0
        BY <1>1, <3>1, <3>2 DEF BodiesType, D!OnDisk
      <4>2. builder' = [builder EXCEPT ![b] = read]
        BY <1>1, <3>2 DEF BodiesType
      <4>3. read \in BuildRecord /\ read.step = "read" /\ read.open = builder[b].open
            /\ read.todo = builder[b].todo /\ read.stamp = disk[p].stamp
        BY <1>1, <4>1 DEF BuildRecord
      <4> QED BY <3>1, <4>1, <4>2, <4>3
    <3>3. CASE D!Skip(b)
      <4>1. builder' = [builder EXCEPT ![b] = skip]
        BY <1>1, <3>3 DEF D!Skip, BodiesType
      <4>2. skip \in BuildRecord /\ skip.step = "next" /\ skip.open = builder[b].open
        BY <1>1 DEF BuildRecord
      <4> QED BY <4>1, <4>2
    <3> QED BY <2>3, <3>2, <3>3 DEF D!StatFile
  <2> QED BY <2>1, <2>2, <2>3
<1>4. PICK new \in BuildRecord :
         /\ builder' = [builder EXCEPT ![b] = new] /\ new.open = builder[b].open
         /\ new.step \in {"read", "store"} =>
               new.step = "read" /\ new.todo # {} /\ new.stamp # 0
  BY <1>3
<1>5. InHand(b)'
  <2>1. builder'[b] = new
    BY <1>1, <1>4, OneBuilder
  <2> QED BY <1>4, <2>1 DEF InHand
<1> QED BY <1>2, <1>4, <1>5, BuildMoves

LEMMA ReadFileKeeps == ASSUME BodiesInv, NEW b \in Builds, D!ReadFile(b) PROVE BodiesInv'
<1> DEFINE p == D!NextPath(b)
           skip == [builder[b] EXCEPT !.step = "next", !.todo = @ \ {p}]
           store == [builder[b] EXCEPT !.step = "store", !.text = disk[p].text]
<1>1. BodiesType /\ DiskInv /\ InHand(b) /\ builder[b] \in BuildRecord
  BY DEF BodiesInv, BodiesType
<1>2. SameMail /\ sidecar' = sidecar /\ ask' = ask /\ builder[b].step = "read"
  BY DEF D!ReadFile, D!At, D!OnlyBuilder, SameMail
<1>3. p \in Paths /\ builder[b].todo # {} /\ builder[b].stamp # 0
  BY <1>1, <1>2, NextIsLeft DEF InHand
<1>4. CASE D!OnDisk(p)
  <2>1. disk[p].text \in D!MayHold(p) /\ disk[p].text \in D!Texts
    BY <1>1, <1>3, <1>4, MayHoldTexts DEF DiskInv
  <2>2. builder' = [builder EXCEPT ![b] = store]
    BY <1>1, <1>4 DEF D!ReadFile, BodiesType
  <2>3. /\ store \in BuildRecord /\ store.step = "store" /\ store.open = builder[b].open
        /\ store.todo = builder[b].todo /\ store.stamp = builder[b].stamp /\ store.text = disk[p].text
    BY <1>1, <2>1 DEF BuildRecord
  <2> HIDE DEF store
  <2>4. builder'[b] = store
    BY <1>1, <2>2, <2>3, OneBuilder
  <2>5. D!NextPath(b)' = p /\ D!MayHold(p)' = D!MayHold(p)
    BY <1>2, <2>3, <2>4 DEF D!NextPath, D!MayHold, SameMail
  <2>6. InHand(b)'
    BY <1>2, <1>3, <2>1, <2>3, <2>4, <2>5 DEF InHand, SameMail
  <2> QED BY <1>2, <2>2, <2>3, <2>6, BuildMoves
<1>5. CASE ~D!OnDisk(p)
  <2>1. builder' = [builder EXCEPT ![b] = skip]
    BY <1>1, <1>5 DEF D!ReadFile, D!Skip, BodiesType
  <2>2. skip \in BuildRecord /\ skip.step = "next" /\ skip.open = builder[b].open
    BY <1>1 DEF BuildRecord
  <2>3. builder'[b] = skip
    BY <1>1, <2>1, <2>2, OneBuilder
  <2>4. InHand(b)'
    BY <2>2, <2>3 DEF InHand
  <2> QED BY <1>2, <2>1, <2>2, <2>4, BuildMoves
<1> QED BY <1>4, <1>5

LEMMA StoreKeeps ==
    ASSUME ~ReusesIds, BodiesInv, NEW b \in Builds, D!Store(b) PROVE BodiesInv'
<1> DEFINE p == D!NextPath(b)
           text == builder[b].text
           stamp == builder[b].stamp
           open == [builder[b].open EXCEPT ![p] = stamp]
<1>1. BodiesType /\ InHand(b) /\ OpenTextless(b) /\ builder[b] \in BuildRecord
  BY DEF BodiesInv, BodiesType
<1>2. builder[b].step = "store" /\ SameMail
  BY DEF D!Store, D!StoreStamped, D!At, SameMail
<1>3. /\ p \in Paths /\ stamp # 0 /\ text \in D!MayHold(p) /\ text \in D!Texts
      /\ D!OnDisk(p) /\ disk[p].stamp = stamp => disk[p].text = text
  <2>1. p \in Paths /\ stamp # 0
    BY <1>1, <1>2, NextIsLeft DEF InHand
  <2> QED BY <1>1, <1>2, <2>1, MayHoldTexts DEF InHand
<1>4. /\ open \in [Paths -> 0..changed + 1] /\ open[p] = stamp
      /\ \A q \in Paths \ {p} : open[q] = builder[b].open[q]
  BY <1>1, <1>3 DEF BuildRecord
<1>5. PICK step \in {"next", "finish"} :
         builder' = [builder EXCEPT
             ![b].step = step, ![b].todo = @ \ {p},
             ![b].open = IF text = "none" THEN open ELSE D!IdleBuild.open]
  BY DEF D!Store, D!StoreStamped
<1> DEFINE left == IF text = "none" THEN open ELSE D!IdleBuild.open
           new == [builder[b] EXCEPT !.step = step, !.todo = @ \ {p}, !.open = left]
<1>6. builder' = [builder EXCEPT ![b] = new]
  BY <1>1, <1>5 DEF BodiesType
<1>7. /\ IF text = "none" THEN UNCHANGED <<sidecar, ask>>
         ELSE /\ sidecar' = [sidecar EXCEPT !.bodies[MidAt[p]] = text,
                                            !.recorded = D!Overlay(@, open)]
              /\ ask' = [a \in Asks |-> [ask[a] EXCEPT !.still = FALSE]]
  BY DEF D!Store, D!StoreStamped, D!Stirred
<1>8. left \in [Paths -> 0..changed + 1] /\ (text # "none" => \A q \in Paths : left[q] = 0)
  BY <1>1, <1>4 DEF D!IdleBuild, BodiesType
<1> HIDE DEF text, stamp, open, p
<1>9. left = IF text = "none" THEN open ELSE D!IdleBuild.open
  OBVIOUS
<1> HIDE DEF left
<1>10. new \in BuildRecord /\ new.step = step /\ new.open = left
  BY <1>1, <1>8 DEF BuildRecord
<1> HIDE DEF new
<1>11. /\ builder' \in [Builds -> BuildRecord] /\ builder'[b] = new
       /\ \A d \in Builds \ {b} : builder'[d] = builder[d]
  BY <1>1, <1>6, <1>10, OneBuilder
<1>12. InHand(b)'
  BY <1>10, <1>11 DEF InHand
<1>13. \A q \in Paths : open[q] # 0 /\ q # p /\ D!OnDisk(q) /\ disk[q].stamp = open[q]
                           => disk[q].text = "none"
  BY <1>1, <1>4 DEF OpenTextless
<1>14. OpenTextless(b)'
  BY <1>2, <1>3, <1>4, <1>8, <1>9, <1>10, <1>11, <1>13 DEF OpenTextless, SameMail, D!OnDisk
<1>15. CASE text = "none"
  <2>1. D!RecordedIsSearchable'
    BY <1>2, <1>7, <1>15 DEF BodiesInv, D!RecordedIsSearchable, SameMail, D!OnDisk
  <2> QED BY <1>1, <1>2, <1>7, <1>11, <1>12, <1>14, <1>15, <2>1, BuildKeepsBodies DEF BodiesType
<1>16. CASE text # "none"
  <2>1. MidAt[p] \in Mids
    BY <1>3, TextsAssumption
  <2>2. /\ sidecar'.bodies = [sidecar.bodies EXCEPT ![MidAt[p]] = text]
        /\ sidecar'.recorded = D!Overlay(sidecar.recorded, open)
        /\ sidecar'.there = sidecar.there
        /\ sidecar' = [there |-> sidecar'.there, bodies |-> sidecar'.bodies,
                       recorded |-> sidecar'.recorded]
    BY <1>1, <1>7, <1>16 DEF BodiesType
  <2>3. sidecar' \in [there : BOOLEAN, bodies : [Mids -> D!Texts \cup {Nobody}],
                      recorded : [Paths -> 0..changed + 1]]
    BY <1>1, <1>3, <1>4, <2>1, <2>2 DEF BodiesType, D!Overlay
  <2>4. D!RecordedIsSearchable'
    <3> SUFFICES ASSUME NEW q \in Paths, D!OnDisk(q), disk[q].text # "none",
                        sidecar'.recorded[q] = disk[q].stamp
                 PROVE  sidecar'.bodies[MidAt[q]] = disk[q].text
      BY <1>2 DEF D!RecordedIsSearchable, SameMail, D!OnDisk
    <3>1. MidAt[q] \in Mids /\ sidecar.bodies \in [Mids -> D!Texts \cup {Nobody}]
      BY <1>1, TextsAssumption DEF BodiesType
    <3>2. CASE q = p
      BY <1>3, <1>4, <2>1, <2>2, <3>1, <3>2 DEF D!Overlay
    <3>3. CASE q # p
      <4>1. open[q] = 0
        BY <1>13, <2>2, <3>3 DEF D!Overlay
      <4>2. sidecar.bodies[MidAt[q]] = disk[q].text
        BY <2>2, <4>1 DEF BodiesInv, D!RecordedIsSearchable, D!Overlay
      <4>3. MidAt[q] = MidAt[p] => text = disk[q].text
        BY <1>3, <1>16, <3>3 DEF BodiesInv, DiskInv, D!MayHold, D!Draft
      <4> QED BY <2>1, <2>2, <3>1, <4>2, <4>3
    <3> QED BY <3>2, <3>3
  <2> QED BY <1>2, <1>7, <1>11, <1>12, <1>14, <1>16, <2>3, <2>4, BuildKeepsBodies
<1> QED BY <1>15, <1>16

LEMMA CloseKeeps == ASSUME BodiesInv, NEW b \in Builds, D!Close(b) PROVE BodiesInv'
<1> DEFINE new == [builder[b] EXCEPT !.step = IF D!At(b, "store") THEN "failed" ELSE "done"]
<1>1. BodiesType /\ OpenTextless(b) /\ builder[b] \in BuildRecord
  BY DEF BodiesInv, BodiesType
<1>2. SameMail /\ ask' = ask
      /\ sidecar' = [sidecar EXCEPT !.recorded = D!Overlay(@, builder[b].open)]
  BY DEF D!Close, SameMail
<1>3. builder' = [builder EXCEPT ![b] = new]
  BY <1>1 DEF D!Close, D!Goto, BodiesType
<1>4. new \in BuildRecord /\ new.step \in {"done", "failed"} /\ new.open = builder[b].open
  BY <1>1 DEF BuildRecord
<1> HIDE DEF new
<1>5. /\ builder' \in [Builds -> BuildRecord] /\ builder'[b] = new
      /\ \A d \in Builds \ {b} : builder'[d] = builder[d]
  BY <1>1, <1>3, <1>4, OneBuilder
<1>6. InHand(b)' /\ OpenTextless(b)'
  BY <1>1, <1>2, <1>4, <1>5 DEF InHand, OpenTextless, SameMail, D!OnDisk
<1>7. /\ sidecar'.bodies = sidecar.bodies /\ sidecar'.there = sidecar.there
      /\ sidecar'.recorded = D!Overlay(sidecar.recorded, builder[b].open)
      /\ sidecar' = [there |-> sidecar'.there, bodies |-> sidecar'.bodies,
                     recorded |-> sidecar'.recorded]
  BY <1>1, <1>2 DEF BodiesType
<1>8. sidecar' \in [there : BOOLEAN, bodies : [Mids -> D!Texts \cup {Nobody}],
                    recorded : [Paths -> 0..changed + 1]]
  BY <1>1, <1>7 DEF BodiesType, BuildRecord, D!Overlay
<1>9. D!RecordedIsSearchable'
  BY <1>1, <1>2, <1>7
     DEF BodiesInv, D!RecordedIsSearchable, OpenTextless, D!Overlay, SameMail, D!OnDisk
<1> QED BY <1>2, <1>5, <1>6, <1>7, <1>8, <1>9, BuildKeepsBodies

-----------------------------------------------------------------------------
(* The steps of a read.                                                    *)

LEMMA SameCountOfBodies == \A S : D!Cardinality(S) = Cardinality(S)
BY DEF D!Cardinality, Cardinality, D!IsFiniteSet, IsFiniteSet

LEMMA AskKeepsBodies ==
    ASSUME BodiesInv, NEW a \in Asks, D!OnlyAsk, NEW new \in AskRecord,
           ask' = [ask EXCEPT ![a] = new], AskInv(a)'
    PROVE  BodiesInv'
<1>1. BodiesType /\ ask' \in [Asks -> AskRecord] /\ \A e \in Asks \ {a} : ask'[e] = ask[e]
  BY DEF BodiesInv, BodiesType
<1>2. BodiesType'
  BY <1>1 DEF BodiesType, D!OnlyAsk, BuildRecord, AskRecord
<1>3. DiskInv' /\ D!RecordedIsSearchable'
  BY DEF BodiesInv, DiskInv, D!RecordedIsSearchable, D!OnlyAsk, D!OnDisk, D!MayHold
<1>4. ASSUME NEW b \in Builds PROVE InHand(b)' /\ OpenTextless(b)'
  <2>1. D!NextPath(b)' = D!NextPath(b) /\ builder' = builder /\ disk' = disk
        /\ InHand(b) /\ OpenTextless(b)
    BY DEF D!NextPath, BodiesInv, D!OnlyAsk
  <2>2. \A p \in Paths : D!MayHold(p)' = D!MayHold(p) /\ (D!OnDisk(p)' <=> D!OnDisk(p))
    BY DEF D!OnlyAsk, D!MayHold, D!OnDisk
  <2> QED BY <2>1, <2>2 DEF InHand, OpenTextless
<1>5. ASSUME NEW e \in Asks \ {a} PROVE AskInv(e)'
  BY <1>1 DEF BodiesInv, AskInv, NoWord, D!OnlyAsk, D!OnDisk
<1> QED BY <1>2, <1>3, <1>4, <1>5 DEF BodiesInv

LEMMA SearchKeeps ==
    ASSUME BodiesInv, NEW a \in Asks,
           D!SearchBodies(a) \/ D!QueryHits(a) \/ D!ReadHave(a) \/ D!Coverage(a)
    PROVE  BodiesInv'
<1>1. BodiesType /\ AskInv(a) /\ ask[a] \in AskRecord /\ live \subseteq Mids
  BY DEF BodiesInv, BodiesType
<1>2. D!OnlyAsk
  BY DEF D!SearchBodies, D!QueryHits, D!ReadHave, D!Coverage
<1>3. CASE D!SearchBodies(a)
  <2> DEFINE hits == {m \in Mids : sidecar.bodies[m] = "word"}
             new == [D!IdleAsk EXCEPT !.hits = hits, !.step = IF hits = {} THEN "have" ELSE "query"]
  <2>1. ask' = [ask EXCEPT ![a] = new]
    BY <1>3 DEF D!SearchBodies
  <2>2. new \in AskRecord /\ ~new.covered /\ new.step = IF hits = {} THEN "have" ELSE "query"
    BY DEF D!IdleAsk, AskRecord
  <2>3. ask'[a] = new
    BY <1>1, <2>1 DEF BodiesType
  <2>4. hits = {} => NoWord'
    BY <1>2 DEF NoWord, D!OnlyAsk
  <2> HIDE DEF new
  <2>5. AskInv(a)'
    BY <2>2, <2>3, <2>4 DEF AskInv
  <2> QED BY <1>2, <2>1, <2>2, <2>5, AskKeepsBodies
<1>4. CASE D!QueryHits(a)
  <2> DEFINE new == [ask[a] EXCEPT !.step = "done", !.hits = @ \cap live]
  <2>1. ask' = [ask EXCEPT ![a] = new] /\ ask[a].step = "query"
    BY <1>1, <1>4 DEF D!QueryHits, D!Asked, BodiesType
  <2>2. new \in AskRecord /\ new.step = "done" /\ new.covered = ask[a].covered
    BY <1>1 DEF AskRecord
  <2>3. ask'[a] = new
    BY <1>1, <2>1 DEF BodiesType
  <2> HIDE DEF new
  <2>4. AskInv(a)'
    BY <1>1, <2>1, <2>2, <2>3 DEF AskInv
  <2> QED BY <1>2, <2>1, <2>2, <2>4, AskKeepsBodies
<1>5. CASE D!ReadHave(a)
  <2> DEFINE have == {m \in Mids : sidecar.bodies[m] # Nobody}
             new == [ask[a] EXCEPT !.step = "live", !.have = have]
  <2>1. ask' = [ask EXCEPT ![a] = new] /\ ask[a].step = "have"
    BY <1>1, <1>5 DEF D!ReadHave, D!Asked, BodiesType
  <2>2. new \in AskRecord /\ new.step = "live" /\ new.have = have /\ new.still = ask[a].still
    BY <1>1 DEF AskRecord
  <2>3. ask'[a] = new /\ sidecar' = sidecar
    BY <1>1, <1>2, <2>1 DEF BodiesType, D!OnlyAsk
  <2> HIDE DEF new
  <2>4. AskInv(a)'
    BY <1>1, <2>1, <2>2, <2>3 DEF AskInv, NoWord
  <2> QED BY <1>2, <2>1, <2>2, <2>4, AskKeepsBodies
<1>6. CASE D!Coverage(a)
  <2> DEFINE full == D!Cardinality(ask[a].have \cap live) = D!Cardinality(live)
             new == [ask[a] EXCEPT !.step = "done", !.covered = full]
  <2>1. ask' = [ask EXCEPT ![a] = new] /\ ask[a].step = "live"
    BY <1>1, <1>6 DEF D!Coverage, D!Asked, BodiesType
  <2>2. full \in BOOLEAN
    OBVIOUS
  <2>3. full => live \subseteq ask[a].have
    <3>1. IsFiniteSet(live)
      BY <1>1, TextsAssumption, FS_Subset
    <3>2. Cardinality(ask[a].have \cap live) = Cardinality(live) => ask[a].have \cap live = live
      BY <3>1, FS_Subset
    <3> QED BY <3>2, SameCountOfBodies
  <2> HIDE DEF full
  <2>4. /\ new \in AskRecord /\ new.step = "done" /\ new.covered = full
        /\ new.still = ask[a].still
    BY <1>1, <2>2 DEF AskRecord
  <2>5. ask'[a] = new /\ sidecar' = sidecar /\ live' = live
    BY <1>1, <1>2, <2>1 DEF BodiesType, D!OnlyAsk
  <2> HIDE DEF new
  <2>6. AskInv(a)'
    BY <1>1, <2>1, <2>3, <2>4, <2>5 DEF AskInv, NoWord
  <2> QED BY <1>2, <2>1, <2>4, <2>6, AskKeepsBodies
<1> QED BY <1>3, <1>4, <1>5, <1>6

LEMMA WalkKeeps ==
    ASSUME BodiesInv, NEW a \in Asks, D!WalkFiles(a) \/ D!ReadText(a) \/ D!Texted(a)
    PROVE  BodiesInv'
<1>1. BodiesType /\ AskInv(a) /\ ask[a] \in AskRecord /\ live \subseteq Mids
  BY DEF BodiesInv, BodiesType
<1>2. D!OnlyAsk /\ disk' = disk
  BY DEF D!WalkFiles, D!ReadText, D!Texted, D!OnlyAsk
<1>3. CASE D!WalkFiles(a)
  <2> DEFINE new == [D!IdleAsk EXCEPT !.step = "files", !.hits = live,
                                      !.todo = {p \in Paths : D!OnDisk(p)}]
  <2>1. ask' = [ask EXCEPT ![a] = new]
    BY <1>3 DEF D!WalkFiles
  <2>2. new \in AskRecord /\ new.step = "files" /\ new.todo = {p \in Paths : D!OnDisk(p)}
    BY <1>1 DEF D!IdleAsk, AskRecord
  <2>3. ask'[a] = new
    BY <1>1, <2>1 DEF BodiesType
  <2> HIDE DEF new
  <2>4. AskInv(a)'
    BY <1>2, <2>2, <2>3 DEF AskInv, D!OnDisk
  <2> QED BY <1>2, <2>1, <2>2, <2>4, AskKeepsBodies
<1>4. CASE D!ReadText(a)
  <2>1. PICK p \in ask[a].todo : ask' = [ask EXCEPT
            ![a].todo = @ \ {p},
            ![a].got = IF D!OnDisk(p) /\ disk[p].text # "none" /\ MidAt[p] \in ask[a].hits
                       THEN @ \cup {MidAt[p]} ELSE @]
    BY <1>4 DEF D!ReadText
  <2>2. p \in Paths /\ MidAt[p] \in Mids
    BY <1>1, TextsAssumption DEF AskRecord
  <2> DEFINE got == IF D!OnDisk(p) /\ disk[p].text # "none" /\ MidAt[p] \in ask[a].hits
                    THEN ask[a].got \cup {MidAt[p]} ELSE ask[a].got
             new == [ask[a] EXCEPT !.todo = @ \ {p}, !.got = got]
  <2>3. ask' = [ask EXCEPT ![a] = new] /\ ask[a].step = "files"
    BY <1>1, <1>4, <2>1 DEF D!ReadText, D!Asked, BodiesType
  <2>4. /\ got \subseteq Mids /\ ask[a].got \subseteq got
        /\ D!OnDisk(p) /\ MidAt[p] \in ask[a].hits \ got => disk[p].text = "none"
    BY <1>1, <2>2 DEF AskRecord
  <2> HIDE DEF got
  <2>5. /\ new \in AskRecord /\ new.step = "files" /\ new.todo = ask[a].todo \ {p}
        /\ new.hits = ask[a].hits /\ new.got = got /\ new.still = ask[a].still
    BY <1>1, <2>3, <2>4 DEF AskRecord
  <2>6. ask'[a] = new
    BY <1>1, <2>3 DEF BodiesType
  <2> HIDE DEF new
  <2>7. AskInv(a)'
    BY <1>1, <1>2, <2>2, <2>3, <2>4, <2>5, <2>6 DEF AskInv, D!OnDisk
  <2> QED BY <1>2, <2>3, <2>5, <2>7, AskKeepsBodies
<1>5. CASE D!Texted(a)
  <2> DEFINE new == [ask[a] EXCEPT !.step = "texts"]
  <2>1. ask' = [ask EXCEPT ![a] = new] /\ ask[a].step = "files" /\ ask[a].todo = {}
    BY <1>1, <1>5 DEF D!Texted, D!Asked, BodiesType
  <2>2. /\ new \in AskRecord /\ new.step = "texts" /\ new.todo = ask[a].todo
        /\ new.hits = ask[a].hits /\ new.got = ask[a].got /\ new.still = ask[a].still
    BY <1>1 DEF AskRecord
  <2>3. ask'[a] = new
    BY <1>1, <2>1 DEF BodiesType
  <2> HIDE DEF new
  <2>4. AskInv(a)'
    BY <1>1, <1>2, <2>1, <2>2, <2>3 DEF AskInv, D!OnDisk
  <2> QED BY <1>2, <2>1, <2>2, <2>4, AskKeepsBodies
<1> QED BY <1>3, <1>4, <1>5

-----------------------------------------------------------------------------
(* All steps.                                                              *)

LEMMA BodiesBegin == ASSUME D!BodiesInit PROVE BodiesInv
<1> USE DEF D!BodiesInit
<1>1. changed = 0 /\ 0 \in 0..changed + 1 /\ 1 \in 1..changed + 1
  OBVIOUS
<1>2. disk \in [Paths -> [text : D!Texts, stamp : 1..changed + 1] \cup {Nobody}]
  <2>1. \A p \in Paths : disk[p] \in [text : D!Texts, stamp : 1..changed + 1] \cup {Nobody}
    BY <1>1
  <2> QED BY <2>1
<1>3. /\ live \subseteq Mids
      /\ sidecar \in [there : BOOLEAN, bodies : [Mids -> D!Texts \cup {Nobody}],
                      recorded : [Paths -> 0..changed + 1]]
  BY <1>1, TextsAssumption DEF D!NoSidecar
<1>4. D!IdleBuild \in BuildRecord /\ D!IdleBuild.step = "idle"
      /\ \A p \in Paths : D!IdleBuild.open[p] = 0
  BY <1>1 DEF D!IdleBuild, BuildRecord
<1>5. D!IdleAsk \in AskRecord /\ D!IdleAsk.step = "idle"
  BY DEF D!IdleAsk, AskRecord
<1>6. BodiesType
  BY <1>1, <1>2, <1>3, <1>4, <1>5 DEF BodiesType
<1>7. DiskInv
  BY DEF DiskInv
<1>8. D!RecordedIsSearchable
  <2>1. \A p \in Paths : sidecar.recorded[p] = 0
    BY DEF D!NoSidecar
  <2>2. \A p \in Paths : D!OnDisk(p) => disk[p].stamp = 1
    BY DEF D!OnDisk
  <2> QED BY <2>1, <2>2 DEF D!RecordedIsSearchable
<1>9. \A b \in Builds : InHand(b) /\ OpenTextless(b)
  BY <1>4 DEF InHand, OpenTextless
<1>10. \A a \in Asks : AskInv(a)
  BY <1>5 DEF AskInv
<1> QED BY <1>6, <1>7, <1>8, <1>9, <1>10 DEF BodiesInv

LEMMA BodiesStay == ASSUME BodiesInv, UNCHANGED bodyState PROVE BodiesInv'
<1>1. SameMail /\ builder' = builder /\ sidecar' = sidecar /\ ask' = ask
  BY DEF bodyState, SameMail
<1>2. BodiesType' /\ DiskInv' /\ D!RecordedIsSearchable'
  BY <1>1 DEF BodiesInv, BodiesType, BuildRecord, AskRecord, DiskInv, D!RecordedIsSearchable,
              SameMail, D!OnDisk, D!MayHold
<1>3. \A b \in Builds : InHand(b)' /\ OpenTextless(b)'
  BY <1>1 DEF BodiesInv, InHand, OpenTextless, SameMail, D!OnDisk, D!MayHold, D!NextPath
<1>4. \A a \in Asks : AskInv(a)'
  BY <1>1 DEF BodiesInv, AskInv, NoWord, SameMail, D!OnDisk
<1> QED BY <1>2, <1>3, <1>4 DEF BodiesInv

LEMMA BodiesStep == ASSUME ~ReusesIds, BodiesInv, D!BodiesNext PROVE BodiesInv'
<1>1. ASSUME NEW b \in Builds, D!BuildStep(b) PROVE BodiesInv'
  BY <1>1, OpenKeeps, ListAndStatKeep, ReadFileKeeps, StoreKeeps, CloseKeeps DEF D!BuildStep
<1>2. ASSUME NEW a \in Asks, D!AskStep(a) PROVE BodiesInv'
  BY <1>2, SearchKeeps, WalkKeeps DEF D!AskStep
<1>3. CASE \/ \E p \in Paths : D!Arrives(p) \/ D!Rewrites(p) \/ D!FillsIn(p) \/ D!Expunges(p)
           \/ \E m \in Mids : D!Deletes(m)
  <2>1. BodiesType /\ DiskInv
    BY DEF BodiesInv
  <2> QED BY <1>3, <2>1, MailSteps, MailKeepsBodies
<1> QED BY <1>1, <1>2, <1>3 DEF D!BodiesNext

\* The composition that the run checks behaves as each of its parts, so that what holds of
\* DedupeMail alone holds of it.
LEMMA TextsAreBoth == TextsSpec => Spec /\ D!BodiesSpec
<1>1. TextsInit => Init /\ D!BodiesInit
  BY DEF TextsInit, DedupeAtRest, BodiesAtRest
<1>2. [TextsNext]_textVars => [Next]_vars /\ [D!BodiesNext]_(D!bodyVars)
  BY DEF TextsNext, textVars, bodyState, D!bodyVars
<1> QED BY <1>1, <1>2, PTL DEF TextsSpec, Spec, D!BodiesSpec

\* For any number of builds, reads, files and changes: nothing that a later build will skip as
\* unchanged, that a search calls covered or that mail_bodies calls missing hides a text that
\* stands on the disk, unless a message comes back elsewhere with another text under its
\* Message-ID: build_body_index, body_coverage, get_bodies.
THEOREM BodiesHideNothing ==
    ASSUME ~ReusesIds PROVE TextsSpec => []BodyReadsAreHonest
<1>1. TextsInit => BodiesInv
  BY BodiesBegin DEF TextsInit, BodiesAtRest
<1>2. BodiesInv /\ [TextsNext]_textVars => BodiesInv'
  <2> SUFFICES ASSUME BodiesInv, [TextsNext]_textVars PROVE BodiesInv'
    OBVIOUS
  <2>1. UNCHANGED bodyState \/ D!BodiesNext
    BY DEF TextsNext, textVars
  <2> QED BY <2>1, BodiesStay, BodiesStep
<1>3. BodiesInv => BodyReadsAreHonest
  BY DEF BodiesInv, AskInv, NoWord, BodiesType, BodyReadsAreHonest, D!BodyReadsAreHonest,
         D!FullCoverageMeansSearched, D!MissingMeansNoText, D!Asked
<1> QED BY <1>1, <1>2, <1>3, PTL DEF TextsSpec

=============================================================================
