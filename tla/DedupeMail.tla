----------------------------- MODULE DedupeMail -----------------------------
(***************************************************************************)
(* The dedupe-mail command (dedupe.py): runs that collapse the copies of   *)
(* one message inside a mailbox (#140) or over several accounts (#153),    *)
(* each from a plan it reads once from Mail's index and executes for       *)
(* hours, while other runs and the user change the same mailboxes.         *)
(*                                                                         *)
(* A batch is the native part of trash_mail or dedupe_batch: a bulk read   *)
(* of the loser mailbox, then one delete verb per copy, which may silently *)
(* do nothing, and a host timeout that may cut it anywhere.  What those    *)
(* calls record and how they fold their statuses is in MailRecover.        *)
(* The order over mailboxes and batches, sorted in the code, is left open. *)
(***************************************************************************)
EXTENDS Naturals, Sequences, FiniteSets, SequencesExt, FiniteSetsExt

CONSTANTS
    Runs,           \* runs of the command
    Nobody,         \* not a run: the user, the server, or the start
    Ids,            \* bare Message-IDs
    Copies,         \* stored copies, numbered by ROWID
    IdOf,           \* the Message-ID of each copy
    Accounts,
    Mailboxes,      \* pairs of an account and a name
    Homes,          \* the mailboxes each copy may be stored in at the start
    Bodies,
    Says,           \* what each copy may say at the start
    Orders,         \* the --keep-account orders that humans type
    BatchSize,      \* _CHUNK
    MaxDark,        \* bound: copies whose file cannot be read
    DragsAcross,    \* TRUE: the user may drag a copy into another account
    MaxUserMoves    \* bound: drags by the user, and new Trash-like mailboxes

ASSUME DedupeAssumption ==
    /\ Nobody \notin Runs
    /\ \A u \in Mailboxes : u[1] \in Accounts /\ <<u[1], "Trash">> \in Mailboxes
    /\ IsFiniteSet(Copies) /\ Copies \subseteq Nat /\ IdOf \in [Copies -> Ids]
    /\ Homes \in [Copies -> SUBSET Mailboxes] /\ Says \in [Copies -> SUBSET Bodies]
    /\ Orders \subseteq Seq(Accounts)
    /\ BatchSize \in Nat \ {0} /\ MaxUserMoves \in Nat /\ MaxDark \in Nat
    /\ DragsAcross \in BOOLEAN

AccountOf(u) == u[1]

TrashOf(a) == <<a, "Trash">>
IsTrash(u) == u[2] = "Trash"

VARIABLES
    at,         \* the mailbox that stores each copy
    body,       \* what each copy says
    by,         \* the run whose delete filed a copy where it is, or Nobody
    doubtful,   \* accounts with a second mailbox that is named like a Trash
    userMoves,
    pc,
    order,      \* per run: the order typed, <<>> for the same-mailbox pass
    rows,       \* per run: what the index said of each copy when it was read
    keepers,    \* per run: the sets to collapse, each with the account that won
    todo,       \* per run: the mailboxes and ids not yet in a batch
    evidence,   \* same-mailbox: the rows read again before acting, but for its own losers
    where,      \* per run: the mailbox of the current batch
    hit,        \* per run: copies the running script will still delete
    late,       \* per run: a copy whose delete may land after the host gave up
    refused,    \* per run: a batch failed and the pass stopped
    unseen,     \* per run: keeper mailboxes and ids the post-pass has to look at
    lost        \* per run: the keepers it did not find

mailVars == <<at, by, doubtful, userMoves, body>>
planVars == <<order, rows, keepers>>
actVars == <<todo, evidence, where, hit, late, refused>>
vars == <<mailVars, pc, planVars, actVars, unseen, lost>>

Cross(r) == order[r] # <<>>
NoKeeper == "none"
AnyMailbox == CHOOSE u \in Mailboxes : TRUE

Acting == {"mailbox", "batch", "script"}
Ended == {"nothing", "stopped", "raised", "ended"}

TypeOK ==
    /\ at \in [Copies -> Mailboxes] /\ body \in [Copies -> Bodies]
    /\ by \in [Copies -> Runs \cup {Nobody}]
    /\ doubtful \subseteq Accounts /\ userMoves \in 0..MaxUserMoves
    /\ pc \in [Runs -> {"idle", "verify"} \cup Acting \cup Ended]
    /\ order \in [Runs -> Orders \cup {<<>>}]
    /\ rows \in [Runs -> [Copies -> Mailboxes]]
    /\ keepers \in [Runs -> [Ids -> Accounts \cup {NoKeeper}]]
    /\ \A r \in Runs :
          /\ todo[r] \subseteq Mailboxes \X Ids /\ unseen[r] \subseteq Mailboxes \X Ids
          /\ lost[r] \subseteq Mailboxes \X Ids
          /\ evidence[r] \subseteq Copies /\ hit[r] \subseteq Copies
          /\ where[r] \in Mailboxes /\ late[r] \subseteq Copies
          /\ Cardinality({IdOf[c] : c \in hit[r]}) <= BatchSize
    /\ refused \in [Runs -> BOOLEAN]

Init ==
    /\ at \in {f \in [Copies -> Mailboxes] : \A c \in Copies : f[c] \in Homes[c]}
    /\ body \in {f \in [Copies -> Bodies] : \A c \in Copies : f[c] \in Says[c]}
    /\ by = [c \in Copies |-> Nobody]
    /\ doubtful = {} /\ userMoves = 0
    /\ pc = [r \in Runs |-> "idle"] /\ order = [r \in Runs |-> <<>>]
    /\ rows = [r \in Runs |-> at]
    /\ keepers = [r \in Runs |-> [m \in Ids |-> NoKeeper]]
    /\ todo = [r \in Runs |-> {}] /\ evidence = [r \in Runs |-> {}]
    /\ where = [r \in Runs |-> AnyMailbox]
    /\ hit = [r \in Runs |-> {}] /\ late = [r \in Runs |-> {}]
    /\ refused = [r \in Runs |-> FALSE]
    /\ unseen = [r \in Runs |-> {}] /\ lost = [r \in Runs |-> {}]

-----------------------------------------------------------------------------
(* What the index tells: the rows f, and the plans made from them. *)

CopiesOf(m) == {c \in Copies : IdOf[c] = m}
HoldersIn(f, m) == {AccountOf(f[c]) : c \in CopiesOf(m)}
AcrossAccounts(f) == {m \in Ids : Cardinality(HoldersIn(f, m)) > 1}

\* The sets of one mailbox, and those whose copies agree on size and date.
RowsIn(f, u, m) == {c \in CopiesOf(m) : f[c] = u}
DuplicatesIn(f, u) == {m \in Ids : Cardinality(RowsIn(f, u, m)) > 1}
SafeSets(f, u) ==
    {m \in DuplicatesIn(f, u) : Cardinality({body[c] : c \in RowsIn(f, u, m)}) = 1}

Winner(o, f, m) ==
    IF HoldersIn(f, m) \cap ToSet(o) = {} THEN NoKeeper
    ELSE LET first == CHOOSE i \in DOMAIN o :
                          /\ o[i] \in HoldersIn(f, m)
                          /\ \A j \in 1..(i - 1) : o[j] \notin HoldersIn(f, m)
         IN o[first]

\* As Identical, were it enough that every body could be read.
IdenticalIfReadable(m, dark) == CopiesOf(m) \cap dark = {}

\* Copies whose bodies were all read and say the same (dark: unreadable ones).
Identical(m, dark) ==
    /\ CopiesOf(m) \cap dark = {}
    /\ Cardinality({body[c] : c \in CopiesOf(m)}) = 1

LosersOf(o, f, m) ==
    {c \in CopiesOf(m) : AccountOf(f[c]) # Winner(o, f, m) /\ ~IsTrash(f[c])}

Collapsible(o, f, dark) ==
    {m \in AcrossAccounts(f) : /\ Winner(o, f, m) # NoKeeper
                               /\ Identical(m, dark)
                               /\ LosersOf(o, f, m) # {}}

TargetsOf(o, f, sets) ==
    UNION {{<<f[c], m>> : c \in LosersOf(o, f, m)} : m \in sets}

\* The rows of the winning account: where the post-pass will look.
KeeperRows(f, won) ==
    {<<f[c], IdOf[c]>> : c \in {d \in Copies : AccountOf(f[d]) = won[IdOf[d]]}}

-----------------------------------------------------------------------------
(* The plan. *)

\* The preflight of every account that a batch would touch (#556): an account
\* whose Trash is not the only one named so refuses the whole pass.
Preflight(urls) == {AccountOf(u) : u \in urls} \cap doubtful = {}

\* --mailbox: all of them, or one.
MailboxOption == {Mailboxes} \cup {{u} : u \in Mailboxes}

\* The rows, the bodies, the plan and the preflight: nothing is changed before
\* they are done, and a preview, a refusal or an empty plan ("nothing") stops
\* here.  --mailbox and --limit hold back some of the sets and some loser mailboxes.
PlanCross(r) ==
    /\ pc[r] = "idle"
    /\ \E o \in Orders, dark \in {d \in SUBSET Copies : Cardinality(d) <= MaxDark},
          only \in MailboxOption, execute \in BOOLEAN :
       \E sets \in SUBSET Collapsible(o, at, dark) :
          LET targets == {t \in TargetsOf(o, at, sets) : t[1] \in only}
              won == [m \in Ids |-> IF \E t \in targets : t[2] = m
                                    THEN Winner(o, at, m) ELSE NoKeeper]
              known == \E m \in AcrossAccounts(at) : HoldersIn(at, m) \cap ToSet(o) # {}
          IN IF known /\ Preflight({t[1] : t \in targets}) /\ execute
             THEN /\ pc' = [pc EXCEPT ![r] = "batch"]
                  /\ order' = [order EXCEPT ![r] = o]
                  /\ rows' = [rows EXCEPT ![r] = at]
                  /\ keepers' = [keepers EXCEPT ![r] = won]
                  /\ todo' = [todo EXCEPT ![r] = targets]
                  /\ unseen' = [unseen EXCEPT ![r] = KeeperRows(at, won)]
             ELSE /\ pc' = [pc EXCEPT ![r] = "nothing"]
                  /\ UNCHANGED <<order, rows, keepers, todo, unseen>>
    /\ UNCHANGED <<mailVars, evidence, where, hit, late, refused, lost>>

\* The same-mailbox pass plans whole mailboxes; it reads each of them again
\* before it acts there.
PlanSame(r) ==
    /\ pc[r] = "idle"
    /\ \E only \in MailboxOption, execute \in BOOLEAN :
          LET urls == {u \in only : DuplicatesIn(at, u) # {}}
          IN IF execute /\ Preflight({u \in urls : SafeSets(at, u) # {}})
             THEN /\ pc' = [pc EXCEPT ![r] = "mailbox"]
                  /\ todo' = [todo EXCEPT ![r] = urls \X Ids]
             ELSE /\ pc' = [pc EXCEPT ![r] = "nothing"]
                  /\ UNCHANGED todo
    /\ UNCHANGED <<mailVars, planVars, evidence, where, hit, late, refused, unseen,
                   lost>>

\* _run_mailbox: the current rows of the next mailbox replace the planned ones.
NextMailbox(r) ==
    /\ pc[r] = "mailbox"
    /\ \/ /\ todo[r] = {}
          /\ pc' = [pc EXCEPT ![r] = "ended"]
          /\ UNCHANGED <<todo, evidence, where>>
       \/ \E u \in {t[1] : t \in todo[r]} :
             /\ where' = [where EXCEPT ![r] = u]
             /\ evidence' = [evidence EXCEPT ![r] = {c \in Copies : at[c] = u /\ by[c] # r}]
             /\ todo' = [todo EXCEPT ![r] =
                            {t \in @ : t[1] = u => t[2] \in SafeSets(at, u)}]
             /\ pc' = [pc EXCEPT ![r] =
                          IF SafeSets(at, u) = {} THEN "mailbox" ELSE "batch"]
    /\ UNCHANGED <<mailVars, planVars, hit, late, refused, unseen, lost>>

-----------------------------------------------------------------------------
(* A batch. *)

\* Both passes stay in one mailbox until its ids are done.
Continues(r, u) ==
    IF Cross(r) THEN (\E t \in todo[r] : t[1] = where[r]) => u = where[r]
    ELSE u = where[r]

\* What the script will delete: every copy in the mailbox, or all but the
\* first of each set.
Doomed(r, u, ids) ==
    LET there == {c \in Copies : at[c] = u /\ IdOf[c] \in ids}
    IN IF Cross(r) THEN there
       ELSE {c \in there : \E d \in there : IdOf[d] = IdOf[c] /\ d < c}

\* The call resolves the account's Trash again, and reads the mailbox.
StartBatch(r) ==
    /\ pc[r] = "batch"
    /\ \E u \in {t[1] : t \in todo[r]} :
          LET waiting == {t[2] : t \in {s \in todo[r] : s[1] = u}}
              size == IF Cardinality(waiting) < BatchSize
                      THEN Cardinality(waiting) ELSE BatchSize
          IN /\ Continues(r, u)
             /\ AccountOf(u) \notin doubtful
             /\ \E ids \in kSubset(size, waiting) :
                   /\ todo' = [todo EXCEPT ![r] = @ \ ({u} \X ids)]
                   /\ hit' = [hit EXCEPT ![r] = Doomed(r, u, ids)]
             /\ where' = [where EXCEPT ![r] = u]
             /\ pc' = [pc EXCEPT ![r] = "script"]
    /\ UNCHANGED <<mailVars, planVars, evidence, late, refused, unseen, lost>>

Trashed(c, r) ==
    /\ at' = [at EXCEPT ![c] = TrashOf(AccountOf(@))]
    /\ by' = [by EXCEPT ![c] = r]

\* One delete verb, by internal id: it acts, or finds the copy gone, or returns
\* cleanly having done nothing.
DeleteCopy(r) ==
    /\ pc[r] = "script"
    /\ \E c \in hit[r] :
          /\ hit' = [hit EXCEPT ![r] = @ \ {c}]
          /\ \/ at[c] = where[r] /\ Trashed(c, r)
             \/ UNCHANGED <<at, by>>
    /\ UNCHANGED <<doubtful, userMoves, body, pc, planVars, todo, evidence, where,
                   late, refused, unseen, lost>>

BatchEnds(r) ==
    /\ pc[r] = "script" /\ hit[r] = {}
    /\ pc' = [pc EXCEPT ![r] =
                 IF Cross(r) \/ \E t \in todo[r] : t[1] = where[r]
                 THEN "batch" ELSE "mailbox"]
    /\ UNCHANGED <<mailVars, planVars, actVars, unseen, lost>>

\* A batch that fails: the Trash is no longer the only one, or the script times
\* out, and its delete of one copy may land later.  The cross-account pass stops
\* there and still verifies (#577); the other pass reports only the first kind.
BatchFails(r) ==
    /\ \/ /\ pc[r] = "batch" /\ \E t \in todo[r] : /\ Continues(r, t[1])
                                                  /\ AccountOf(t[1]) \in doubtful
          /\ UNCHANGED <<hit, late>>
          /\ pc' = [pc EXCEPT ![r] = IF Cross(r) THEN "verify" ELSE "stopped"]
       \/ /\ pc[r] = "script"
          /\ \E cut \in SUBSET hit[r] : /\ Cardinality(cut) <= 1
                                        /\ late' = [late EXCEPT ![r] = cut]
          /\ hit' = [hit EXCEPT ![r] = {}]
          /\ pc' = [pc EXCEPT ![r] = IF Cross(r) THEN "verify" ELSE "raised"]
    /\ todo' = [todo EXCEPT ![r] = {}]
    /\ refused' = [refused EXCEPT ![r] = TRUE]
    /\ UNCHANGED <<mailVars, planVars, evidence, where, unseen, lost>>

\* As PassEnds, were the post-pass left out.
PassEndsUnverified(r) ==
    /\ pc[r] = "batch" /\ Cross(r) /\ todo[r] = {}
    /\ pc' = [pc EXCEPT ![r] = "ended"]
    /\ UNCHANGED <<mailVars, planVars, actVars, unseen, lost>>

PassEnds(r) ==
    /\ pc[r] = "batch" /\ Cross(r) /\ todo[r] = {}
    /\ pc' = [pc EXCEPT ![r] = "verify"]
    /\ UNCHANGED <<mailVars, planVars, actVars, unseen, lost>>

-----------------------------------------------------------------------------
(* The post-pass: it asks Mail, one mailbox at a time, for every keeper row. *)

Present(u, m) == \E c \in CopiesOf(m) : at[c] = u

VerifyKeeper(r) ==
    /\ pc[r] = "verify"
    /\ \E t \in unseen[r] :
          /\ unseen' = [unseen EXCEPT ![r] = @ \ {t}]
          /\ lost' = [lost EXCEPT ![r] = IF Present(t[1], t[2]) THEN @ ELSE @ \cup {t}]
    /\ UNCHANGED <<mailVars, pc, planVars, actVars>>

\* presence() raises: the command ends with the error and no verdict.
VerifyRaises(r) ==
    /\ pc[r] = "verify" /\ unseen[r] # {}
    /\ pc' = [pc EXCEPT ![r] = "raised"]
    /\ UNCHANGED <<mailVars, planVars, actVars, unseen, lost>>

Report(r) ==
    /\ pc[r] = "verify" /\ unseen[r] = {}
    /\ pc' = [pc EXCEPT ![r] = "ended"]
    /\ UNCHANGED <<mailVars, planVars, actVars, unseen, lost>>

-----------------------------------------------------------------------------
(* Mail, the server and the user. *)

LateDelete(r) ==
    /\ \E c \in late[r] :
          /\ late' = [late EXCEPT ![r] = @ \ {c}]
          /\ IF at[c] = where[r] THEN Trashed(c, r) ELSE UNCHANGED <<at, by>>
    /\ UNCHANGED <<doubtful, userMoves, body, pc, planVars, todo, evidence, where,
                   hit, refused, unseen, lost>>

UserDrags ==
    /\ userMoves < MaxUserMoves
    /\ \E c \in Copies, u \in Mailboxes :
          /\ u # at[c] /\ (AccountOf(u) = AccountOf(at[c]) \/ DragsAcross)
          /\ at' = [at EXCEPT ![c] = u] /\ by' = [by EXCEPT ![c] = Nobody]
    /\ userMoves' = userMoves + 1
    /\ UNCHANGED <<doubtful, body, pc, planVars, actVars, unseen, lost>>

SecondTrashAppears ==
    /\ userMoves < MaxUserMoves
    /\ \E a \in Accounts \ doubtful : doubtful' = doubtful \cup {a}
    /\ userMoves' = userMoves + 1
    /\ UNCHANGED <<at, by, body, pc, planVars, actVars, unseen, lost>>

Plan(r) == PlanCross(r) \/ PlanSame(r) \/ NextMailbox(r)
Act(r) == StartBatch(r) \/ DeleteCopy(r) \/ BatchEnds(r) \/ BatchFails(r) \/ PassEnds(r)
PostPass(r) == VerifyKeeper(r) \/ VerifyRaises(r) \/ Report(r)

Next ==
    \/ \E r \in Runs : Plan(r) \/ Act(r) \/ PostPass(r) \/ LateDelete(r)
    \/ UserDrags \/ SecondTrashAppears

Spec == Init /\ [][Next]_vars

-----------------------------------------------------------------------------
(* Properties. *)

\* The run reported that every keeper copy is present and stopped nowhere.
Clean(r) == pc[r] = "ended" /\ lost[r] = {} /\ ~refused[r]

\* The plan's winner held a copy outside its own Trash.
KeeperInUse(r, m) ==
    \E c \in CopiesOf(m) : AccountOf(rows[r][c]) = keepers[r][m] /\ ~IsTrash(rows[r][c])

\* The runs whose deletes took the copies of a message.
TrashersOf(m) == {by[c] : c \in CopiesOf(m)} \ {Nobody}

\* Three runs that took copies of one message: a same-mailbox pass, which looks for no
\* keeper afterwards, and two cross-account passes that kept different accounts.
OutOfStep(m) ==
    /\ \E r \in TrashersOf(m) : ~Cross(r)
    /\ \E r, s \in TrashersOf(m) : Cross(r) /\ Cross(s) /\ keepers[r][m] # keepers[s][m]

\* Several runs, also with opposite --keep-account orders, never send the last
\* copies of a message to Trash between them with every run reporting success:
\* one that comes too late to see its keeper says so (the mandatory post-pass,
\* dedupe.py:523).  Excepted are winners whose only copy was in Trash, and messages
\* that a same-mailbox pass takes apart together with two cross-account passes out of
\* step: of two opposite passes the first to verify may find its keeper, because the
\* second's delete silently did nothing, and the same-mailbox pass then takes that copy.
NoSetIsLostSilently ==
    (\A r \in Runs : pc[r] \in {"idle", "nothing"} \/ Clean(r)) =>
        \A m \in {IdOf[c] : c \in Copies} :
            /\ \A r \in Runs : keepers[r][m] # NoKeeper => KeeperInUse(r, m)
            /\ ~OutOfStep(m)
            => \E c \in CopiesOf(m) : by[c] = Nobody

\* A copy that a run trashed says what the copies it was weighed against say,
\* however stale the plan has become: the body gate of the cross-account pass,
\* size and date for the copies of the mailbox read again (dedupe.py:191, 229).
DistinctBodiesStay ==
    \A r \in Runs : \A c \in Copies :
        by[c] = r =>
            \A d \in CopiesOf(IdOf[c]) :
                (Cross(r) \/ {c, d} \subseteq evidence[r]) => body[c] = body[d]

=============================================================================
