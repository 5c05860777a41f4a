---------------------------- MODULE MailQueries ----------------------------
(***************************************************************************)
(* The reads of Mail's Envelope Index (mail_index.py): which mailboxes a   *)
(* stored row belongs to (#251, #287, #299), which of its copies a search  *)
(* or a thread cites, the counts of mail_overview, mail_stats and          *)
(* mail_duplicates, where the files are, and whether a mailbox is a Gmail  *)
(* label, which move_mail and trash_mail refuse.                           *)
(*                                                                         *)
(* Each of these reads is an operator over the index.  Only Mail changes   *)
(* the index; its actions lead to the indexes the reads are checked on.    *)
(* Mailboxes are numbered by ROWID; their urls are abstracted to an        *)
(* account and a role, and two urls never fold to one key.                 *)
(***************************************************************************)
EXTENDS Naturals, FiniteSets

CONSTANTS
    MaxStored,      \* bound on messages.ROWID
    Boxes,          \* mailboxes.ROWID
    Account,        \* per mailbox: the account in its url
    Role,           \* per mailbox: what the last segment of its url says
    Stores,         \* the mailboxes that messages are stored in
    Backing,        \* per label: the mailbox that stores its messages, or Null
    Mids,           \* Message-IDs
    Null,
    Convs,          \* messages.conversation_id
    Dates,          \* messages.date_received
    SizeDate,       \* per ROWID: messages.size and messages.date_sent, as one value
    MaxLabels,      \* bound on labels rows
    MaxChanges      \* bound on tombstones, labels taken off and sources set

Roles == {"inbox", "sent", "filed", "special"}

ASSUME QueriesAssumption ==
    /\ MaxStored \in Nat /\ Boxes \subseteq Nat /\ IsFiniteSet(Boxes)
    /\ Role \in [Boxes -> Roles] /\ Stores \subseteq Boxes
    /\ \A b \in Boxes : Backing[b] \in Stores \cup {Null}
    /\ Null \notin Mids \cup Boxes /\ Dates \subseteq Nat
    /\ \A id \in 1..MaxStored : <<id>> \notin Mids
    /\ SizeDate \in [1..MaxStored -> Nat]
    /\ MaxLabels \in Nat /\ MaxChanges \in Nat

VARIABLES
    stored,     \* messages
    labels,     \* labels: pairs of a ROWID and a mailbox
    source,     \* mailboxes.source
    changes

storedVars == <<stored, labels, source, changes>>

StoredRow == [id : 1..MaxStored, box : Boxes, mid : Mids \cup {Null}, conv : Convs,
              date : Dates, read : BOOLEAN, deleted : BOOLEAN]

StoredTypeOK ==
    /\ stored \subseteq StoredRow /\ \A r, s \in stored : r.id = s.id => r = s
    /\ labels \subseteq {r.id : r \in stored} \X Boxes
    /\ source \in [Boxes -> Boxes \cup {Null}]
    /\ changes \in 0..MaxChanges

StoredInit ==
    /\ stored = {} /\ labels = {} /\ changes = 0
    /\ source = [b \in Boxes |-> Null]

Live == {r \in stored : ~r.deleted}

-----------------------------------------------------------------------------
(* Logical membership. *)

\* Mailboxes that hold nothing and have no source, but have labels rows.
BareLabels ==
    {b \in Boxes : /\ source[b] = Null
                   /\ \E l \in labels : l[2] = b
                   /\ \A r \in Live : r.box # b}

Direct == {m \in Live \X Boxes : m[1].box = m[2] /\ source[m[2]] = Null}

Labelled ==
    {m \in Live \X Boxes : <<m[1].id, m[2]>> \in labels /\ source[m[2]] = m[1].box}

BareLabelled ==
    LET bare == BareLabels
    IN {m \in Live \X bare : /\ <<m[1].id, m[2]>> \in labels
                             /\ Account[m[2]] = Account[m[1].box]}

Membership == Direct \cup Labelled \cup BareLabelled

-----------------------------------------------------------------------------
(* Citations: one membership per Message-ID. *)

CopyRank(b) == CASE Role[b] = "inbox" -> 0 [] Role[b] = "special" -> 2 [] OTHER -> 1

\* The order of the window function: rank, newest, ROWID, mailbox.
Ranks(m) == <<CopyRank(m[2]), m[1].date, m[1].id, m[2]>>
Before(m, n) ==
    LET p == Ranks(m)  q == Ranks(n)
    IN \/ p[1] < q[1]
       \/ p[1] = q[1] /\ p[2] > q[2]
       \/ p[1] = q[1] /\ p[2] = q[2] /\ p[3] < q[3]
       \/ p[1] = q[1] /\ p[2] = q[2] /\ p[3] = q[3] /\ p[4] < q[4]

Cited(hits) ==
    {m \in hits : \A n \in hits : n[1].mid = m[1].mid => m = n \/ Before(m, n)}

Citable(mem) == {m \in mem : m[1].mid # Null}

\* As Search, were the filter applied to the copies already chosen.
SearchThenFilter(mem, urls) == {m \in Cited(Citable(mem)) : m[2] \in urls}

\* build_header_query with a mailbox filter, which is applied before the ranking.
\* The reads take the membership, mem, that they are computed over.
Search(mem, urls) == Cited({m \in Citable(mem) : m[2] \in urls})

ConversationsOf(mid) == {r.conv : r \in {s \in Live : s.mid = mid}}

\* build_thread_query: the rows of every conversation the message is in.
Thread(mem, mid) ==
    Cited({m \in Citable(mem) : m[1].conv \in ConversationsOf(mid)})

\* build_message_location_query: every stored copy.
Locations(mid) == {<<r.id, r.box>> : r \in {s \in Live : s.mid = mid}}

-----------------------------------------------------------------------------
(* Counts: a row without a Message-ID is a message of its own. *)

Key(r) == IF r.mid = Null THEN <<r.id>> ELSE r.mid

MembersOf(mem, b) == {m[1] : m \in {n \in mem : n[2] = b}}

\* build_overview_query.
OverviewTotal(mem, b) == Cardinality({Key(r) : r \in MembersOf(mem, b)})
OverviewUnread(mem, b) == {Key(r) : r \in {s \in MembersOf(mem, b) : ~s.read}}

\* build_duplicate_summary_query counts the stored rows of a mailbox.
StoredIn(b) == {r \in Live : r.box = b}
Redundant(b) ==
    Cardinality(StoredIn(b)) - Cardinality({Key(r) : r \in StoredIn(b)})

\* build_duplicate_offenders_query, build_duplicate_rows_query: the Message-IDs with
\* several copies in a mailbox, and those copies.
Offenders(b) ==
    {mid \in Mids : Cardinality({r \in StoredIn(b) : r.mid = mid}) > 1}
DuplicateRows(b) ==
    LET mids == Offenders(b) IN {r \in StoredIn(b) : r.mid \in mids}

\* As SafeIn, were a shared Message-ID enough.
AnyOffender(b) == Offenders(b)

\* _sets: the sets whose copies agree on size and date_sent; the others are left alone.
SafeIn(b) ==
    {mid \in Offenders(b) : \A r, s \in DuplicateRows(b) :
        r.mid = mid /\ s.mid = mid => SizeDate[r.id] = SizeDate[s.id]}
LeftAlone(b) == Offenders(b) \ SafeIn(b)

\* All copies of each Message-ID but one: which one survives is Mail's choice.
BeyondFirst(rows) == {r \in rows : \E s \in rows : s.mid = r.mid /\ s.id < r.id}
DoomedCopies(b) ==
    LET safe == SafeIn(b) IN BeyondFirst({r \in DuplicateRows(b) : r.mid \in safe})

\* _run_mailbox: the redundant copies that dedupe-mail prints for a mailbox.
Announced(b) ==
    Cardinality(DuplicateRows(b)) - Cardinality({r.mid : r \in DuplicateRows(b)})

\* build_stats_query: the messages of the window that it counts as unread.
StatsUnread(mem, since) ==
    {Key(m[1]) : m \in {n \in mem : n[1].date >= since /\ ~n[1].read}}

-----------------------------------------------------------------------------
(* The label guard. *)

\* As LabelAccounts, before #299: labels whose source is not known do not count.
SourcedAccounts == {Account[b] : b \in {c \in Boxes : source[c] # Null}}

\* The labels rows are joined to every row of messages, the tombstones too.
LabelAccounts ==
    {Account[b] : b \in {c \in Boxes : source[c] # Null}}
    \cup {Account[l[2]] : l \in {k \in labels :
                                   \E r \in stored : /\ r.id = k[1]
                                                     /\ Account[k[2]] = Account[r.box]}}

Physical == {r.box : r \in Live}

IsLabelMailbox(b) ==
    source[b] # Null \/ (Account[b] \in LabelAccounts /\ b \notin Physical)

-----------------------------------------------------------------------------
(* Mail changes its index. *)

Store ==
    /\ Cardinality(stored) < MaxStored
    /\ \E b \in Stores, mid \in Mids \cup {Null}, conv \in Convs, date \in Dates,
          read \in BOOLEAN :
          /\ stored' = stored \cup {[id |-> Cardinality(stored) + 1, box |-> b, mid |-> mid,
                                   conv |-> conv, date |-> date, read |-> read,
                                   deleted |-> FALSE]}
    /\ UNCHANGED <<labels, source, changes>>

Label ==
    /\ Cardinality(labels) < MaxLabels
    /\ \E r \in Live, b \in Boxes :
          b # r.box /\ labels' = labels \cup {<<r.id, b>>}
    /\ UNCHANGED <<stored, source, changes>>

Change == changes < MaxChanges /\ changes' = changes + 1

Unlabel ==
    /\ Change
    /\ \E l \in labels : labels' = labels \ {l}
    /\ UNCHANGED <<stored, source>>

\* A message goes: its row stays as a tombstone, with its labels.
Tombstone ==
    /\ Change
    /\ \E r \in Live : stored' = (stored \ {r}) \cup {[r EXCEPT !.deleted = TRUE]}
    /\ UNCHANGED <<labels, source>>

\* Mail learns, some time after the first labels row, where a label is stored.
SourceKnown ==
    /\ Change
    /\ \E b \in Boxes : /\ Backing[b] # Null /\ source[b] = Null
                        /\ source' = [source EXCEPT ![b] = Backing[b]]
    /\ UNCHANGED <<stored, labels>>

StoredNext == Store \/ Label \/ Unlabel \/ Tombstone \/ SourceKnown

StoredSpec == StoredInit /\ [][StoredNext]_storedVars

-----------------------------------------------------------------------------
(* Properties. *)

\* A message that a read shows in a mailbox which the guard lets move_mail and
\* trash_mail act on is stored there: it has a file to back up and a copy to move
\* (mail_index.is_label_mailbox, #291, #299).
WhatMovesIsStored ==
    \A m \in Citable(Membership) :
        ~IsLabelMailbox(m[2]) => \E at \in Locations(m[1].mid) : at[2] = m[2]

\* The reads do not disagree over one index: mail_overview's total of a mailbox is
\* what a search filtered to it cites and what has no id, and for a mailbox of
\* stored rows what mail_duplicates counts as distinct; that table calls redundant
\* there what dedupe-mail announces, all of which it would delete unless it leaves a
\* set alone, and no copy that it deletes has one in the mailbox of another size or
\* date; mail_stats over all dates counts as unread what some mailbox does; and a
\* message's own thread cites it in the folder that a search cites, whatever
\* conversations Mail has put its copies in.
ReadsAgree ==
    LET mem == Membership IN
    /\ \A b \in Boxes :
          /\ OverviewTotal(mem, b) = Cardinality(Search(mem, {b}))
                 + Cardinality({r \in MembersOf(mem, b) : r.mid = Null})
          /\ (source[b] = Null /\ StoredIn(b) # {}) =>
                OverviewTotal(mem, b) + Redundant(b) = Cardinality(StoredIn(b))
          /\ Redundant(b) = Announced(b)
          /\ Cardinality(DoomedCopies(b)) = Announced(b) <=> LeftAlone(b) = {}
          /\ \A r \in DoomedCopies(b), s \in StoredIn(b) :
                r.mid = s.mid => SizeDate[r.id] = SizeDate[s.id]
    /\ StatsUnread(mem, 0) = UNION {OverviewUnread(mem, b) : b \in Boxes}
    /\ \A m \in Search(mem, Boxes) : m \in Thread(mem, m[1].mid)

\* "So thread and search cite the same folder (#287)" (build_thread_query), for
\* every message of a thread: a copy in a conversation that the seed is not in is
\* left out before the ranking, so the thread may cite a lesser copy.
ThreadCitesAsSearch ==
    \A mid \in Mids : Thread(Membership, mid) \subseteq Search(Membership, Boxes)
=============================================================================
