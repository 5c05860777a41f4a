--------------------------- MODULE EventKitWrites ---------------------------
(***************************************************************************)
(* The writes of reminders.py and calendar.py: create, update, complete    *)
(* and delete.  Each is one block on the native worker, so calls follow    *)
(* one another, but Reminders.app, Calendar.app and iCloud act between any *)
(* two EventKit calls of a block.                                          *)
(*                                                                         *)
(* EventKit hands out one object per item and may keep it ("same-store     *)
(* fetches can serve the registered in-memory object", _fresh_item): what  *)
(* a setter left on it may still be there at the next call.  A subtask is  *)
(* invisible to EventKit and goes with its parent; only the Reminders      *)
(* store shows it, some time later (reminders_store.py).                   *)
(*                                                                         *)
(* A field's value is told apart by who set it: the user or a call.  An    *)
(* event stands for the occurrence its id cites; `rest` is the later part  *)
(* of its series.                                                          *)
(***************************************************************************)
EXTENDS Naturals, FiniteSets

CONSTANTS
    Calls,
    User,           \* whoever is not a call
    Reminders, Events,
    Boxes,          \* reminder lists and calendars, by identifier
    Default,        \* the one a new item goes to when none is named
    ReadOnly,       \* those whose account takes no change
    Starts,         \* what may be stored at the start: each item's parent or Gone
    None,           \* no rule, not completed, no parent, nothing asked
    Gone,           \* no such item, occurrence, object or row
    MaxOutside      \* bound: changes by the user and by iCloud

Items == Reminders \cup Events
Nowhere == "unknown or ambiguous"

\* refused: an error that says no change was made.
Answers == {"refused", "preview", "failed", "unverified", "ok"}

Fields == {"text", "rule", "done", "box"}
Author == Calls \cup {User}
Value == [text : Author \cup {Gone}, rest : Author \cup {Gone}, rule : Author \cup {None},
          done : Author \cup {None}, box : Boxes, parent : Items \cup {None}]

\* An object of EventKit's: what it shows and its unsaved fields.
Objects == [value : Value, dirty : SUBSET Fields]

ASSUME EventKitAssumption ==
    /\ Reminders \cap Events = {}
    /\ Starts \subseteq [Items -> Reminders \cup {None, Gone}]
    /\ User \notin Calls /\ None \notin Calls \cup {User} \cup Items \cup Answers
    /\ Gone \notin Calls \cup {User} \cup Items \cup Objects /\ Gone # None
    /\ ReadOnly \subseteq Boxes /\ Default \in Boxes /\ MaxOutside \in Nat

VARIABLES
    db,         \* what the account holds of each item
    rows,       \* the parent the Reminders store shows of each, Gone: no row
    object,     \* the object EventKit keeps of an item, and its unsaved fields
    before,     \* what a save or a remove replaced and iCloud may put back
    outside,    \* changes so far by the user and by iCloud
    running,    \* the call on the worker, or None
    pc,
    request,    \* per call: what was asked, or None
    listed,     \* the subtasks the store listed to the running call
    wanted,     \* the list of the item, read before the save (container_id)
    answer,     \* per call: None until it has ended
    named,      \* per call: the subtasks its answer tells of
    steady,     \* history: subtasks the store has shown since the running call began
    taken       \* history: the steady ones that the call's remove took, and its item

outsideVars == <<db, rows, before, outside>>
flowVars == <<running, pc, request, listed, wanted>>
endVars == <<answer, named>>
historyVars == <<steady, taken>>
vars == <<outsideVars, object, flowVars, endVars, historyVars>>

TypeOK ==
    /\ db \in [Items -> Value \cup {Gone}] /\ before \in [Items -> Value \cup {Gone, None}]
    /\ rows \in [Items -> Items \cup {None, Gone}]
    /\ object \in [Items -> Objects \cup {Gone}]
    /\ outside \in 0..MaxOutside /\ running \in Calls \cup {None}
    /\ pc \in {"idle", "fetch", "store", "apply", "save", "remove", "verify"}
    /\ listed \subseteq Items /\ wanted \in Boxes \cup {None} /\ steady \subseteq Items
    /\ answer \in [Calls -> Answers \cup {None}]
    /\ named \in [Calls -> SUBSET Items] /\ taken \in [Calls -> SUBSET Items]

Blank(b) == [text |-> User, rest |-> User, rule |-> None, done |-> None,
             box |-> b, parent |-> None]

Init ==
    /\ \E parent \in Starts :
          /\ db = [i \in Items |-> IF parent[i] = Gone THEN Gone
                                  ELSE [Blank(Default) EXCEPT !.parent = parent[i]]]
          /\ rows = [i \in Items |-> IF i \in Reminders THEN parent[i] ELSE Gone]
    /\ object = [i \in Items |-> Gone] /\ before = [i \in Items |-> None]
    /\ outside = 0 /\ running = None /\ pc = "idle"
    /\ request = [n \in Calls |-> None] /\ listed = {} /\ wanted = None
    /\ answer = [n \in Calls |-> None] /\ named = [n \in Calls |-> {}]
    /\ steady = {} /\ taken = [n \in Calls |-> {}]

-----------------------------------------------------------------------------
(* Requests. *)

\* rule: omitted, an RRULE, or 'none'; box: omitted, a list, or a name that
\* resolve_container refuses.
Shapes ==
    [op : {"create", "update", "complete", "delete"}, via : {"reminders", "calendar"},
     item : Items, rule : {"omitted", "set", "none"}, box : Boxes \cup {None, Nowhere},
     span : {None, "this", "future"}, dry : BOOLEAN, subtasks : BOOLEAN]

Requests ==
    {q \in Shapes :
        /\ q.op \in {"complete", "delete"} => q.rule = "omitted" /\ q.box = None
        /\ q.op # "delete" => ~q.dry /\ ~q.subtasks
        /\ q.op = "create" => /\ q.rule # "none" /\ q.span = None
                              /\ (q.via = "reminders") = (q.item \in Reminders)
        /\ q.via = "reminders" => q.span = None
        /\ q.via = "calendar" => q.op # "complete" /\ ~q.subtasks}

Target(n) == request[n].item

-----------------------------------------------------------------------------
(* EventKit and the two stores. *)

Held(v) == [value |-> v, dirty |-> {}]
Exists(i) == IF db[i] = Gone THEN FALSE ELSE db[i].text # Gone

\* calendarItemWithIdentifier_, eventsMatchingPredicate_: the object that was
\* kept, or one read anew.
Fetched(i) == (IF object[i] # Gone THEN {object[i]} ELSE {})
              \cup (IF Exists(i) THEN {Held(db[i])} ELSE {})

ParentOf(i) == IF db[i] = Gone THEN Gone ELSE db[i].parent
ChildrenOf(i) == {c \in Items : ParentOf(c) = i}
ShownUnder(i) == IF rows[i] = Gone THEN {} ELSE {c \in Items : rows[c] = i}

\* A setter: a field whose value changed is unsaved.
Set(o, f, v) ==
    [value |-> [o.value EXCEPT ![f] = v],
     dirty |-> IF o.value[f] = v THEN o.dirty ELSE o.dirty \cup {f}]

\* _apply_reminder, _apply_event: every setter but the container's.
WithFields(o, n, q) ==
    LET titled == Set(o, "text", n)
    IN IF q.via = "calendar" /\ q.rule # "set" THEN titled
       ELSE Set(titled, "rule", IF q.rule = "set" THEN n ELSE None)

\* A save writes the unsaved fields; span "future" also the later occurrences.
Saved(o, i, span) ==
    LET stored == IF db[i] = Gone THEN o.value ELSE db[i]
        merged == [f \in DOMAIN stored |-> IF f \in o.dirty THEN o.value[f] ELSE stored[f]]
    IN IF span = "future" THEN [merged EXCEPT !.rest = merged.text] ELSE merged

-----------------------------------------------------------------------------
(* The block of one call. *)

\* A finished call's request keeps its item, its rule and its confirmation.
Finish(n, a, subs) ==
    /\ running' = None /\ pc' = "idle" /\ listed' = {} /\ wanted' = None
    /\ answer' = [answer EXCEPT ![n] = a] /\ named' = [named EXCEPT ![n] = subs]
    /\ request' = [request EXCEPT ![n] =
                      [@ EXCEPT !.box = None, !.span = None, !.dry = FALSE, !.via = "reminders"]]
    /\ steady' = {}

Goto(step) == pc' = step /\ UNCHANGED <<running, request, listed, wanted, endVars, steady>>

Begin(n) ==
    /\ running = None /\ answer[n] = None
    /\ \E q \in Requests :
          /\ (q.op = "create") = (db[q.item] = Gone /\ before[q.item] = None)
          /\ request' = [request EXCEPT ![n] = q]
          /\ IF q.op = "create"
             THEN /\ pc' = "apply"
                  /\ object' = [object EXCEPT ![q.item] = Held(Blank(Default))]
             ELSE pc' = "fetch" /\ UNCHANGED object
          /\ steady' = ShownUnder(q.item)
    /\ running' = n
    /\ UNCHANGED <<outsideVars, listed, wanted, endVars, taken>>

\* _resolve_span, over the rules of the object before any setter.
NeedsSpan(o, q) ==
    o.value.rule # None /\ (q.span = None \/ (q.rule = "set" /\ q.span = "this"))

SpanOf(o, q) ==
    IF q.via = "reminders" THEN None
    ELSE IF o.value.rule # None THEN q.span
    ELSE IF q.rule = "set" THEN "future" ELSE "this"

\* What is refused before any setter: the other adapter's item, a repeating
\* reminder whose rule was not sent again, a series without a span.
Refuses(o, q) ==
    \/ (q.via = "reminders") # (q.item \in Reminders)
    \/ /\ q.op = "update" /\ q.via = "reminders"
       /\ o.value.rule # None /\ q.rule = "omitted"
    \/ /\ q.via = "calendar"
       /\ \/ NeedsSpan(o, q)
          \/ q.op = "update" /\ q.rule = "none" /\ o.value.rule # None

AfterFetch(q) ==
    IF q.op = "update" THEN "apply"
    ELSE IF q.op = "complete" \/ q.via = "reminders" THEN "store" ELSE "remove"

\* As Leaves, were the setters called before the checks.
LeavesSetters(o, n, q) == WithFields(o, n, q)

\* What a refused call leaves on the object: no setter has been called.
Leaves(o, n, q) == o

Fetch(n) ==
    LET q == request[n] IN
    /\ running = n /\ pc = "fetch"
    /\ \/ Fetched(q.item) = {} /\ Finish(n, "refused", {}) /\ UNCHANGED object
       \/ \E o \in Fetched(q.item) :
             IF Refuses(o, q)
             THEN /\ object' = [object EXCEPT ![q.item] = Leaves(o, n, q)]
                  /\ Finish(n, "refused", {})
             ELSE /\ object' = [object EXCEPT ![q.item] = o]
                  /\ IF AfterFetch(q) = "remove" /\ q.dry
                     THEN Finish(n, "preview", {}) ELSE Goto(AfterFetch(q))
    /\ UNCHANGED <<outsideVars, taken>>

\* As StoreSays, were an unreadable store one without subtasks.
StoreSaysOrNone(i) == {{}} \cup (IF rows[i] = Gone THEN {} ELSE {ShownUnder(i)})

\* subtasks_of: no grant, a drifted schema and a reminder without a live row
\* all raise (None).
StoreSays(i) == {None} \cup (IF rows[i] = Gone THEN {} ELSE {ShownUnder(i)})

AfterSubtasks(q) == IF q.op = "delete" THEN "remove" ELSE "apply"
Unconfirmed(q, shown) == q.op = "delete" /\ shown # {} /\ ~q.subtasks

ReadSubtasks(n) ==
    LET q == request[n] IN
    /\ running = n /\ pc = "store"
    /\ \E shown \in StoreSays(q.item) :
          \/ shown = None /\ Finish(n, "refused", {})
          \/ shown # None /\ Unconfirmed(q, shown) /\ Finish(n, "refused", shown)
          \/ /\ shown # None /\ ~Unconfirmed(q, shown) /\ q.dry
             /\ Finish(n, "preview", shown)
          \/ /\ shown # None /\ ~Unconfirmed(q, shown) /\ ~q.dry
             /\ pc' = AfterSubtasks(q) /\ listed' = shown
             /\ UNCHANGED <<running, request, wanted, endVars, steady>>
    /\ UNCHANGED <<outsideVars, object, taken>>

\* The span is resolved first; the container last, and may raise with the other setters done.
BoxAsked(o, q) ==
    IF q.box \in Boxes THEN q.box ELSE IF q.op = "create" THEN Default ELSE o.value.box

Apply(n) ==
    LET q == request[n]
        o == object[q.item]
    IN /\ running = n /\ pc = "apply"
       /\ \/ /\ q.op = "complete"
             /\ object' = [object EXCEPT ![q.item] = Set(o, "done", n)]
             /\ Goto("save")
          \/ /\ q.op # "complete" /\ q.box = Nowhere
             /\ object' = [object EXCEPT ![q.item] = WithFields(o, n, q)]
             /\ Finish(n, "failed", {})
          \/ /\ q.op # "complete" /\ q.box # Nowhere
             /\ object' = [object EXCEPT ![q.item] =
                              Set(WithFields(o, n, q), "box", BoxAsked(o, q))]
             /\ pc' = "save" /\ request' = [request EXCEPT ![n].span = SpanOf(o, q)]
             /\ UNCHANGED <<running, listed, wanted, endVars, steady>>
       /\ UNCHANGED <<outsideVars, taken>>

MayTake(n) ==
    LET q == request[n] IN
    /\ object[q.item].value.box \notin ReadOnly
    /\ IF q.op = "create" THEN TRUE ELSE Exists(q.item) /\ db[q.item].box \notin ReadOnly

\* The account refuses the save: what was set stays on the object.
Refused(n) ==
    /\ running = n /\ pc \in {"save", "remove"}
    /\ Finish(n, "failed", {})
    /\ UNCHANGED <<outsideVars, object, taken>>

\* The commit may put the item into another list than asked.
Save(n) ==
    LET q == request[n]
        o == object[q.item]
    IN /\ running = n /\ pc = "save" /\ MayTake(n)
       /\ wanted' = o.value.box
       /\ \E b \in Boxes :
             /\ b # o.value.box => q.op # "complete" /\ outside < MaxOutside
             /\ outside' = IF b = o.value.box THEN outside ELSE outside + 1
             /\ LET saved == [Saved(o, q.item, q.span) EXCEPT !.box = b]
                IN /\ db' = [db EXCEPT ![q.item] = saved]
                   /\ object' = [object EXCEPT ![q.item] = Held(saved)]
       /\ before' = [before EXCEPT ![q.item] = db[q.item]]
       /\ pc' = "verify"
       /\ UNCHANGED <<rows, running, request, listed, endVars, historyVars>>

\* A removed reminder takes its subtasks; an occurrence leaves its series.
Remove(n) ==
    LET q == request[n]
        span == SpanOf(object[q.item], q)
        kids == IF q.via = "reminders" THEN ChildrenOf(q.item) ELSE {}
        left == IF q.via = "calendar" /\ span = "this" /\ db[q.item].rule # None
                THEN [db[q.item] EXCEPT !.text = Gone] ELSE Gone
    IN /\ running = n /\ pc = "remove" /\ MayTake(n)
       /\ db' = [i \in Items |-> IF i = q.item THEN left
                                  ELSE IF i \in kids THEN Gone ELSE db[i]]
       /\ before' = [i \in Items |-> IF i \in kids \cup {q.item} THEN db[i] ELSE before[i]]
       /\ object' = [i \in Items |-> IF i \in kids \cup {q.item} THEN Gone ELSE object[i]]
       /\ taken' = [taken EXCEPT ![n] = {q.item} \cup (kids \cap steady)]
       /\ Goto("verify") /\ UNCHANGED <<rows, outside>>

-----------------------------------------------------------------------------
(* The verification. *)

\* As Reread, without the refresh.
RereadKept(i) == Fetched(i)

\* _fresh_item refreshes the object; an event is only resolved again.
Reread(i) ==
    IF i \in Events THEN Fetched(i) ELSE IF Exists(i) THEN {Held(db[i])} ELSE {}

\* Does this object show what was asked?
Shows(o, n) ==
    LET q == request[n] IN
    IF q.op = "complete" THEN o.value.done # None
    ELSE /\ o.value.text = n /\ o.value.box = wanted
         /\ q.rule = "set" => o.value.rule = n
         /\ q.rule # "set" /\ q.via = "reminders" => o.value.rule = None

\* complete_reminder: subtasks that may be reported open; one that cannot be
\* fetched is.
Completed(o) == o.value.done # None
ReportsOpen(open) ==
    /\ \A c \in open : Fetched(c) = {} \/ \E o \in Fetched(c) : ~Completed(o)
    /\ \A c \in listed \ open : \E o \in Fetched(c) : Completed(o)

Verify(n) ==
    LET q == request[n] IN
    /\ running = n /\ pc = "verify" /\ q.op # "delete"
    /\ \/ Reread(q.item) = {} /\ Finish(n, "unverified", {}) /\ UNCHANGED object
       \/ \E o \in Reread(q.item) :
             /\ object' = [object EXCEPT ![q.item] = o]
             /\ \/ ~Shows(o, n) /\ Finish(n, "unverified", {})
                \/ /\ Shows(o, n)
                   /\ \E open \in SUBSET listed :
                         ReportsOpen(open) /\ Finish(n, "ok", open)
    /\ UNCHANGED <<outsideVars, taken>>

VerifyGone(n) ==
    LET q == request[n] IN
    /\ running = n /\ pc = "verify" /\ q.op = "delete"
    /\ \/ (\E i \in {q.item} \cup listed : Exists(i)) /\ Finish(n, "unverified", {})
       \/ (\A i \in {q.item} \cup listed : ~Exists(i)) /\ Finish(n, "ok", listed)
    /\ UNCHANGED <<outsideVars, object, taken>>

-----------------------------------------------------------------------------
(* The apps, the account and EventKit's cache. *)

Outside == outside < MaxOutside /\ outside' = outside + 1

UserSets(i) ==
    /\ Outside /\ Exists(i)
    /\ \E f \in {"text", "rule", "done"}, v \in {User, None} :
          /\ f = "text" => v = User
          /\ f = "done" => i \in Reminders
          /\ db[i][f] # v /\ db' = [db EXCEPT ![i][f] = v]
    /\ UNCHANGED <<rows, before, object, flowVars, endVars, historyVars>>

UserIndents(c) ==
    /\ Outside /\ c \in Reminders /\ Exists(c) /\ ChildrenOf(c) = {}
    /\ \E p \in (Reminders \ {c}) \cup {None} :
          /\ p # ParentOf(c)
          /\ p # None => Exists(p) /\ ParentOf(p) = None
          /\ db' = [db EXCEPT ![c].parent = p]
    /\ UNCHANGED <<rows, before, object, flowVars, endVars, historyVars>>

UserDeletes(i) ==
    /\ Outside /\ Exists(i)
    /\ db' = [j \in Items |-> IF j = i \/ j \in ChildrenOf(i) THEN Gone ELSE db[j]]
    /\ UNCHANGED <<rows, before, object, flowVars, endVars, historyVars>>

\* iCloud reverts a save, or restores what was deleted.
RollsBack(i) ==
    /\ Outside /\ before[i] # None /\ before[i] # db[i]
    /\ db' = [db EXCEPT ![i] = before[i]]
    /\ UNCHANGED <<rows, before, object, flowVars, endVars, historyVars>>

\* The Reminders store catches up with one reminder.
Syncs(i) ==
    /\ i \in Reminders /\ rows[i] # ParentOf(i)
    /\ rows' = [rows EXCEPT ![i] = ParentOf(i)]
    /\ steady' = IF running # None /\ rows'[i] # Target(running) THEN steady \ {i} ELSE steady
    /\ UNCHANGED <<db, before, outside, object, flowVars, endVars, taken>>

\* EventKit lets go of an object that no call is working on.
Forgets(i) ==
    /\ object[i] # Gone /\ (running # None => Target(running) # i)
    /\ object' = [object EXCEPT ![i] = Gone]
    /\ UNCHANGED <<outsideVars, flowVars, endVars, historyVars>>

Step(n) == \/ Begin(n) \/ Fetch(n) \/ ReadSubtasks(n) \/ Apply(n) \/ Refused(n)
           \/ Save(n) \/ Remove(n) \/ Verify(n) \/ VerifyGone(n)
Environment(i) == \/ UserSets(i) \/ UserIndents(i) \/ UserDeletes(i)
                  \/ RollsBack(i) \/ Syncs(i) \/ Forgets(i)

Next == (\E n \in Calls : Step(n)) \/ (\E i \in Items : Environment(i))

Spec == Init /\ [][Next]_vars

-----------------------------------------------------------------------------
(* Properties. *)

Marks(i) == IF db[i] = Gone THEN {} ELSE {db[i].text, db[i].rest, db[i].rule, db[i].done}

(* A call that answered "no change was made", or with a preview, left      *)
(* nothing that is or ever will be saved: its values are on no item, not   *)
(* even through a later call that saves the object EventKit kept of it.    *)
RefusedIsNeverSaved ==
    \A n \in Calls : answer[n] \in {"refused", "preview"} =>
        taken[n] = {} /\ \A i \in Items : n \notin Marks(i)

(* A subtask that the Reminders store has shown since a delete began goes  *)
(* with its parent only if the caller confirmed it, and an answer that the *)
(* reminder was deleted names it.                                          *)
NoSubtaskGoesUnasked ==
    \A n \in Calls : \A c \in taken[n] : c # Target(n) =>
        request[n].subtasks /\ (answer[n] = "ok" => c \in named[n])

(* A reminder's write is answered with success only while the account      *)
(* holds what was asked, in the list that was asked: a save that iCloud    *)
(* reverted or moved in between is not reported as done.                   *)
OkIsTrueWhenSaid ==
    [][\A n \in Calls : (answer'[n] = "ok" /\ answer[n] = None /\ request[n].via = "reminders") =>
        IF request[n].op = "delete" THEN ~Exists(Target(n))
        ELSE Exists(Target(n)) /\ Shows(Held(db[Target(n)]), n)]_vars
=============================================================================
