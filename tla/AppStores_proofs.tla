-------------------------- MODULE AppStores_proofs --------------------------
(***************************************************************************)
(* The proofs about the adapters over the stores of Reminders, Calendar    *)
(* and Notes, for every set of calls, items, lists, keys and libraries and *)
(* whatever the apps, the user and iCloud do between two steps.            *)
(*                                                                         *)
(* EventKit: what a refused call asked for is never saved, no subtask that *)
(* was shown goes without being asked, success is said only of what is     *)
(* there.  Notes: an answer was true during the call, and a search that    *)
(* says nothing of its coverage is complete.                               *)
(***************************************************************************)
EXTENDS AppStores, FiniteSetTheorems, WellFoundedInduction, TLAPS

-----------------------------------------------------------------------------
(* The writes of Reminders and Calendar.                                   *)

Steps == {"idle", "fetch", "store", "apply", "save", "remove", "verify"}

Stores ==
    /\ db \in [Items -> Value \cup {Gone}] /\ before \in [Items -> Value \cup {Gone, None}]
    /\ object \in [Items -> Objects \cup {Gone}]

Kinds ==
    /\ Stores
    /\ DOMAIN rows = Items
    /\ running \in Calls \cup {None} /\ pc \in Steps
    /\ request \in [Calls -> Shapes \cup {None}]
    /\ answer \in [Calls -> Answers \cup {None}]
    /\ DOMAIN named = Calls /\ DOMAIN taken = Calls
    /\ wanted \in Boxes \cup {None} /\ steady \subseteq Items

Who(v) == {v.text, v.rest, v.rule, v.done}

\* The call's values are on no item, nor where a later save could take them from.
NoTrace(n) ==
    \A i \in Items :
        /\ db[i] # Gone => n \notin Who(db[i])
        /\ before[i] \notin {Gone, None} => n \notin Who(before[i])
        /\ object[i] # Gone => n \notin Who(object[i].value)

\* It has not begun, has called no setter yet, or has said that it changed nothing.
Untouched(n) ==
    \/ answer[n] \in {"refused", "preview"}
    \/ answer[n] = None /\ running # n
    \/ running = n /\ pc \in {"fetch", "store", "apply"}

TraceInv ==
    \A n \in Calls :
        /\ Untouched(n) => NoTrace(n)
        /\ Untouched(n) \/ (running = n /\ pc \in {"save", "remove"}) => taken[n] = {}

\* Where the running call is.
RunInv ==
    /\ running = None => listed = {}
    /\ running # None =>
          /\ answer[running] = None /\ request[running] \in Shapes /\ pc # "idle"
          /\ Target(running) \in Items
          /\ \A c \in steady : rows[c] = Target(running)
          /\ pc \in {"fetch", "store"} => listed = {} /\ request[running].op # "create"
          /\ pc = "remove" => request[running].op = "delete"
          /\ pc = "remove" /\ request[running].via = "reminders" =>
                steady \subseteq listed /\ (listed = {} \/ request[running].subtasks)
          /\ request[running].op # "delete" => taken[running] = {}
          /\ pc \in {"store", "apply", "save"} => object[Target(running)] \in Objects

\* The subtasks that a call took were asked for, and its answer names them.
TakenInv ==
    \A n \in Calls : \A c \in taken[n] :
        c # Target(n) =>
            /\ request[n] \in Shapes /\ request[n].subtasks
            /\ running = n => c \in listed
            /\ answer[n] = "ok" => c \in named[n]

IInv == Kinds /\ TraceInv /\ RunInv /\ TakenInv

-----------------------------------------------------------------------------
(* Values. *)

LEMMA Distinct ==
    /\ User \notin Calls /\ None \notin Calls /\ Gone \notin Calls
    /\ None \notin Answers /\ Gone \notin Objects /\ Gone # None /\ User # None /\ User # Gone
BY EventKitAssumption DEF Author

LEMMA BlankValue ==
    ASSUME NEW b \in Boxes
    PROVE  Blank(b) \in Value /\ Who(Blank(b)) \subseteq {User, None}
BY DEF Blank, Value, Author, Who

LEMMA SetObject ==
    ASSUME NEW o \in Objects, NEW f \in Fields, NEW v,
           f = "text" => v \in Author, f = "rule" => v \in Author \cup {None},
           f = "done" => v \in Author \cup {None}, f = "box" => v \in Boxes
    PROVE  Set(o, f, v) \in Objects
           /\ Who(Set(o, f, v).value) \subseteq Who(o.value) \cup (IF f = "box" THEN {} ELSE {v})
<1>1. [o.value EXCEPT ![f] = v] \in Value
  BY DEF Objects, Value, Fields
<1>2. Who([o.value EXCEPT ![f] = v]) \subseteq Who(o.value) \cup (IF f = "box" THEN {} ELSE {v})
  BY DEF Objects, Value, Fields, Who
<1> QED BY <1>1, <1>2 DEF Set, Objects

LEMMA SavedValue ==
    ASSUME Kinds, NEW i \in Items, NEW o \in Objects, NEW span, NEW b \in Boxes,
           NEW s, s = [Saved(o, i, span) EXCEPT !.box = b]
    PROVE  /\ s \in Value
           /\ Who(s) \subseteq Who(o.value) \cup (IF db[i] = Gone THEN {} ELSE Who(db[i]))
<1> DEFINE stored == IF db[i] = Gone THEN o.value ELSE db[i]
           merged == [f \in DOMAIN stored |-> IF f \in o.dirty THEN o.value[f] ELSE stored[f]]
<1>1. stored \in Value /\ o.value \in Value
  BY DEF Kinds, Stores, Objects
<1>2. DOMAIN stored = {"text", "rest", "rule", "done", "box", "parent"}
  BY <1>1 DEF Value
<1> HIDE DEF stored
<1>3. merged \in Value
  BY <1>1, <1>2 DEF Value
<1>4. /\ merged.text \in {o.value.text, stored.text} /\ merged.rest \in {o.value.rest, stored.rest}
      /\ merged.rule \in {o.value.rule, stored.rule} /\ merged.done \in {o.value.done, stored.done}
  BY <1>2
<1> HIDE DEF merged
<1>5. Saved(o, i, span) \in {merged, [merged EXCEPT !.rest = merged.text]}
  BY DEF Saved, merged, stored
<1>6. Who(merged) \subseteq Who(o.value) \cup Who(stored)
  BY <1>4 DEF Who
<1>7. LET later == [merged EXCEPT !.rest = merged.text]
      IN later \in Value /\ Who(later) \subseteq Who(merged)
  BY <1>3 DEF Value, Who
<1>8. /\ Saved(o, i, span) \in Value
      /\ Who(Saved(o, i, span)) \subseteq Who(o.value) \cup Who(stored)
  BY <1>3, <1>5, <1>6, <1>7
<1>9. s \in Value /\ Who(s) = Who(Saved(o, i, span))
  BY <1>8 DEF Value, Who
<1>10. Who(stored) \subseteq Who(o.value) \cup (IF db[i] = Gone THEN {} ELSE Who(db[i]))
  BY DEF stored
<1> QED BY <1>8, <1>9, <1>10

LEMMA InitInv == Init => IInv
<1> SUFFICES ASSUME Init PROVE IInv
  OBVIOUS
<1>1. PICK parent \in Starts :
        /\ db = [i \in Items |-> IF parent[i] = Gone THEN Gone
                                ELSE [Blank(Default) EXCEPT !.parent = parent[i]]]
        /\ rows = [i \in Items |-> IF i \in Reminders THEN parent[i] ELSE Gone]
  BY DEF Init
<1>2. ASSUME NEW i \in Items
      PROVE  /\ db[i] \in Value \cup {Gone}
             /\ db[i] # Gone => Who(db[i]) \subseteq {User, None}
  <2>1. parent[i] \in Reminders \cup {None, Gone}
    BY EventKitAssumption
  <2>2. Default \in Boxes
    BY EventKitAssumption
  <2>3. CASE parent[i] # Gone
    <3>1. [Blank(Default) EXCEPT !.parent = parent[i]] \in Value
      BY <2>1, <2>2, <2>3 DEF Blank, Value, Author, Items
    <3>2. Who([Blank(Default) EXCEPT !.parent = parent[i]]) \subseteq {User, None}
      BY DEF Blank, Who
    <3> QED BY <1>1, <3>1, <3>2
  <2> QED BY <1>1, <2>3
<1>3. db \in [Items -> Value \cup {Gone}]
  BY <1>1, <1>2
<1>4. Kinds
  BY <1>1, <1>3 DEF Init, Kinds, Stores, Steps
<1>5. \A n \in Calls : NoTrace(n) /\ taken[n] = {}
  BY <1>2, Distinct DEF Init, NoTrace
<1> QED BY <1>4, <1>5 DEF Init, IInv, TraceInv, RunInv, TakenInv

-----------------------------------------------------------------------------
(* What a step does to the stores and to the calls that do not take it.    *)

\* No value of call n comes to where it was not.
Spreads(n) ==
    \A i \in Items :
        /\ db'[i] # Gone => (NoTrace(n) => n \notin Who(db'[i]))
        /\ before'[i] \notin {Gone, None} => (NoTrace(n) => n \notin Who(before'[i]))
        /\ object'[i] # Gone => (NoTrace(n) => n \notin Who(object'[i].value))

LEMMA SpreadsKeeps == ASSUME NEW n \in Calls, Spreads(n), NoTrace(n) PROVE NoTrace(n)'
BY DEF Spreads, NoTrace

\* No request is another call's, of another item or with another confirmation.
SameTargets ==
    \A n \in Calls :
        \/ request'[n] = request[n]
        \/ /\ request[n] \in Shapes /\ request'[n] \in Shapes
           /\ request'[n].item = request[n].item /\ request'[n].subtasks = request[n].subtasks

\* A step of the running call n that goes on.
LEMMA GoesOn ==
    ASSUME IInv, NEW n \in Calls, running = n, running' = n, SameTargets,
           answer' = answer, named' = named, Kinds', taken' = taken,
           \A m \in Calls \ {n} : Spreads(m),
           pc' \in {"store", "apply"} => pc \in {"fetch", "store"} /\ Spreads(n),
           pc' \in {"save", "remove"} => pc \in {"fetch", "store", "apply"},
           pc' # "fetch" /\ pc' # "idle", RunInv',
           listed \subseteq listed'
    PROVE  IInv'
<1>1. TraceInv'
  <2> SUFFICES ASSUME NEW m \in Calls
               PROVE  (/\ Untouched(m) => NoTrace(m)
                       /\ Untouched(m) \/ (running = m /\ pc \in {"save", "remove"}) => taken[m] = {})'
    BY DEF TraceInv
  <2>1. CASE m # n
    <3>1. Untouched(m)' => Untouched(m)
      BY <2>1 DEF Untouched
    <3> QED BY <2>1, <3>1, SpreadsKeeps DEF IInv, TraceInv
  <2>2. CASE m = n
    <3>1. answer[n] = None /\ None \notin Answers
      BY Distinct DEF IInv, RunInv
    <3>2. Untouched(n)' => pc' \in {"store", "apply"} /\ Untouched(n)
      BY <3>1 DEF Untouched, Answers
    <3>3. ASSUME Untouched(n)' PROVE NoTrace(n)' /\ taken'[n] = {}
      <4>1. Spreads(n) /\ NoTrace(n) /\ taken[n] = {}
        BY <3>2, <3>3 DEF IInv, TraceInv
      <4> QED BY <4>1, SpreadsKeeps
    <3>4. ASSUME pc' \in {"save", "remove"} PROVE taken'[n] = {}
      <4>1. Untouched(n)
        BY <3>4 DEF Untouched
      <4> QED BY <4>1 DEF IInv, TraceInv
    <3> QED BY <2>2, <3>3, <3>4
  <2> QED BY <2>1, <2>2
<1>2. TakenInv'
  BY DEF IInv, TakenInv, Target, SameTargets
<1> QED BY <1>1, <1>2 DEF IInv

LEMMA SameSpreads == ASSUME UNCHANGED <<db, before, object>>, NEW n PROVE Spreads(n)
BY DEF Spreads, NoTrace

\* The running call ends.
LEMMA Ends ==
    ASSUME IInv, NEW n \in Calls, running = n, NEW a \in Answers, NEW subs, Finish(n, a, subs),
           taken' = taken, Stores', DOMAIN rows' = Items,
           \A m \in Calls \ {n} : Spreads(m),
           a \in {"refused", "preview"} => pc \in {"fetch", "store"} /\ Spreads(n),
           a = "ok" => \A c \in taken[n] : c # Target(n) => c \in subs
    PROVE  IInv'
<1>1. /\ Kinds /\ request[n] \in Shapes /\ answer[n] = None
      /\ None \notin Answers /\ None \notin Calls
  BY Distinct DEF IInv, RunInv
<1>2. PICK q \in Shapes : q = [request[n] EXCEPT !.box = None, !.span = None, !.dry = FALSE,
                                                !.via = "reminders"]
  BY <1>1 DEF Shapes
<1>3. q.item = request[n].item /\ q.subtasks = request[n].subtasks
  BY <1>1, <1>2 DEF Shapes
<1>4. request' = [request EXCEPT ![n] = q]
  BY <1>1, <1>2 DEF Finish, Kinds
<1>5. /\ running' = None /\ pc' = "idle" /\ listed' = {} /\ wanted' = None
      /\ answer' = [answer EXCEPT ![n] = a] /\ named' = [named EXCEPT ![n] = subs]
      /\ steady' = {}
  BY DEF Finish
<1>6. Kinds'
  BY <1>1, <1>4, <1>5 DEF Kinds, Steps
<1>7. RunInv'
  BY <1>5 DEF RunInv
<1>8. TraceInv'
  <2> SUFFICES ASSUME NEW m \in Calls, Untouched(m)' PROVE NoTrace(m)' /\ taken'[m] = {}
    BY <1>1, <1>5 DEF TraceInv
  <2>1. CASE m # n
    <3>1. Untouched(m) /\ Spreads(m)
      BY <1>1, <1>5, <2>1 DEF Untouched, Kinds
    <3> QED BY <3>1, SpreadsKeeps DEF IInv, TraceInv
  <2>2. CASE m = n
    <3>1. a \in {"refused", "preview"}
      BY <1>1, <1>5, <2>2 DEF Untouched, Kinds
    <3>2. Untouched(n) /\ Spreads(n)
      BY <3>1 DEF Untouched
    <3> QED BY <2>2, <3>2, SpreadsKeeps DEF IInv, TraceInv
  <2> QED BY <2>1, <2>2
<1>9. TakenInv'
  <2> SUFFICES ASSUME NEW m \in Calls, NEW c \in taken[m], c # Target(m)'
               PROVE  (/\ request[m] \in Shapes /\ request[m].subtasks
                       /\ running = m => c \in listed
                       /\ answer[m] = "ok" => c \in named[m])'
    BY DEF TakenInv
  <2>1. CASE m # n
    <3>1. request'[m] = request[m] /\ answer'[m] = answer[m] /\ named'[m] = named[m]
      BY <1>1, <1>4, <1>5, <2>1 DEF Kinds
    <3> QED BY <1>1, <1>5, <2>1, <3>1 DEF IInv, TakenInv, Target
  <2>2. CASE m = n
    <3>1. request'[n] = q /\ answer'[n] = a /\ named'[n] = subs
      BY <1>1, <1>4, <1>5 DEF Kinds
    <3> QED BY <1>1, <1>3, <1>5, <2>2, <3>1 DEF IInv, TakenInv, Target
  <2> QED BY <2>1, <2>2
<1> QED BY <1>6, <1>7, <1>8, <1>9 DEF IInv

\* The outside world changes the stores, and no call.
LEMMA OutsideInv ==
    ASSUME IInv, UNCHANGED <<flowVars, endVars, taken>>, Stores', DOMAIN rows' = Items,
           \A n \in Calls : Spreads(n),
           steady' \subseteq steady,
           running # None => \A c \in steady' : rows'[c] = Target(running),
           running # None /\ object[Target(running)] \in Objects =>
              object'[Target(running)] \in Objects
    PROVE  IInv'
<1>1. /\ running' = running /\ pc' = pc /\ request' = request /\ listed' = listed
      /\ wanted' = wanted /\ answer' = answer /\ named' = named /\ taken' = taken
  BY DEF flowVars, endVars
<1>2. Kinds'
  BY <1>1 DEF IInv, Kinds
<1>3. RunInv'
  BY <1>1 DEF IInv, RunInv, Target
<1>4. TakenInv'
  BY <1>1 DEF IInv, TakenInv, Target
<1>5. \A n \in Calls : Untouched(n)' <=> Untouched(n)
  BY <1>1 DEF Untouched
<1>6. TraceInv'
  BY <1>1, <1>5, SpreadsKeeps DEF IInv, TraceInv
<1> QED BY <1>2, <1>3, <1>4, <1>6 DEF IInv

-----------------------------------------------------------------------------
(* The steps.                                                              *)

LEMMA EnvironmentInv == ASSUME IInv, NEW i \in Items, Environment(i) PROVE IInv'
<1>1. Kinds /\ Stores /\ RunInv /\ \A n \in Calls : n \notin {User, None, Gone}
  BY Distinct DEF IInv, Kinds
<1>2. CASE Syncs(i)
  <2>1. Stores' /\ \A n \in Calls : Spreads(n)
    BY <1>1, <1>2, SameSpreads DEF Syncs, Stores
  <2>2. DOMAIN rows' = Items
    BY <1>1, <1>2 DEF Syncs, Kinds
  <2>3. /\ steady' \subseteq steady
        /\ running # None => \A c \in steady' : rows'[c] = Target(running)
    BY <1>1, <1>2 DEF Syncs, RunInv, Kinds
  <2> QED BY <1>2, <2>1, <2>2, <2>3, OutsideInv DEF Syncs
<1>3. CASE UserSets(i)
  <2>1. PICK f \in {"text", "rule", "done"}, v \in {User, None} :
          (f = "text" => v = User) /\ db' = [db EXCEPT ![i][f] = v]
    BY <1>3 DEF UserSets
  <2>2. db[i] \in Value /\ db[i] # Gone
    BY <1>1, <1>3 DEF UserSets, Exists, Stores
  <2>3. [db[i] EXCEPT ![f] = v] \in Value
        /\ Who([db[i] EXCEPT ![f] = v]) \subseteq Who(db[i]) \cup {User, None}
    BY <2>1, <2>2 DEF Value, Author, Who
  <2>4. db' = [db EXCEPT ![i] = [db[i] EXCEPT ![f] = v]]
    BY <2>1
  <2>5. Stores' /\ before' = before /\ object' = object
    BY <1>1, <1>3, <2>3, <2>4 DEF Stores, UserSets
  <2>6. \A n \in Calls : Spreads(n)
    BY <1>1, <2>2, <2>3, <2>4, <2>5 DEF Spreads, NoTrace, Stores
  <2> QED BY <1>1, <1>3, <2>5, <2>6, OutsideInv DEF UserSets, historyVars, Kinds, RunInv
<1>4. CASE UserIndents(i)
  <2>1. PICK p \in Reminders \cup {None} : db' = [db EXCEPT ![i].parent = p]
    BY <1>4 DEF UserIndents
  <2>2. db[i] \in Value /\ db[i] # Gone
    BY <1>1, <1>4 DEF UserIndents, Exists, Stores
  <2>3. [db[i] EXCEPT !.parent = p] \in Value
        /\ Who([db[i] EXCEPT !.parent = p]) \subseteq Who(db[i])
    BY <2>1, <2>2 DEF Value, Items, Who
  <2>4. db' = [db EXCEPT ![i] = [db[i] EXCEPT !.parent = p]]
    BY <2>1
  <2>5. Stores' /\ before' = before /\ object' = object
    BY <1>1, <1>4, <2>3, <2>4 DEF Stores, UserIndents
  <2>6. \A n \in Calls : Spreads(n)
    BY <1>1, <2>2, <2>3, <2>4, <2>5 DEF Spreads, NoTrace, Stores
  <2> QED BY <1>1, <1>4, <2>5, <2>6, OutsideInv DEF UserIndents, historyVars, Kinds, RunInv
<1>5. CASE UserDeletes(i) \/ RollsBack(i)
  <2>1. before' = before /\ object' = object /\ rows' = rows
        /\ UNCHANGED <<flowVars, endVars, historyVars>>
    BY <1>5 DEF UserDeletes, RollsBack
  <2>2. Stores' /\ \A j \in Items : db'[j] \in {db[j], Gone} \/ (db'[j] = before[j] /\ before[j] # None)
    BY <1>1, <1>5 DEF UserDeletes, RollsBack, Stores
  <2>3. \A n \in Calls : Spreads(n)
    BY <1>1, <2>1, <2>2 DEF Spreads, NoTrace
  <2> QED BY <1>1, <2>1, <2>2, <2>3, OutsideInv DEF historyVars, Kinds, RunInv
<1>6. CASE Forgets(i)
  <2>1. Stores'
    BY <1>1, <1>6 DEF Forgets, Stores, outsideVars
  <2>2. \A n \in Calls : Spreads(n)
    BY <1>1, <1>6 DEF Forgets, outsideVars, Spreads, NoTrace, Stores
  <2>3. running # None => object'[Target(running)] = object[Target(running)]
    BY <1>1, <1>6 DEF Forgets, Stores, RunInv
  <2> QED BY <1>1, <1>6, <2>1, <2>2, <2>3, OutsideInv DEF Forgets, outsideVars, historyVars, Kinds, RunInv
<1> QED BY <1>2, <1>3, <1>4, <1>5, <1>6 DEF Environment

LEMMA BeginInv == ASSUME IInv, NEW n \in Calls, Begin(n) PROVE IInv'
<1>1. PICK q \in Shapes :
        /\ request' = [request EXCEPT ![n] = q]
        /\ \/ pc' = "apply" /\ q.op = "create"
              /\ object' = [object EXCEPT ![q.item] = Held(Blank(Default))]
           \/ pc' = "fetch" /\ q.op # "create" /\ UNCHANGED object
        /\ steady' = ShownUnder(q.item)
  BY DEF Begin, Requests
<1>2. /\ Kinds /\ Stores /\ running = None /\ answer[n] = None /\ listed = {}
      /\ running' = n /\ listed' = listed /\ answer' = answer /\ named' = named
      /\ taken' = taken /\ db' = db /\ before' = before /\ rows' = rows /\ wanted' = wanted
      /\ None \notin Calls /\ None \notin Answers
  BY Distinct DEF IInv, Kinds, RunInv, Begin, outsideVars, endVars
<1>3. q.item \in Items
  BY DEF Shapes
<1>4. Held(Blank(Default)) \in Objects /\ Who(Held(Blank(Default)).value) \subseteq {User, None}
  BY BlankValue, EventKitAssumption DEF Held, Objects
<1>5. Kinds'
  <2>1. Stores'
    BY <1>1, <1>2, <1>3, <1>4 DEF Stores
  <2> QED BY <1>1, <1>2, <2>1 DEF Kinds, Steps, ShownUnder
<1>6. \A m \in Calls : Spreads(m)
  BY <1>1, <1>2, <1>3, <1>4, Distinct DEF Spreads, NoTrace, Stores
<1>7. request'[n] = q /\ \A m \in Calls \ {n} : request'[m] = request[m]
  BY <1>1, <1>2 DEF Kinds
<1>8. Untouched(n) /\ taken[n] = {}
  BY <1>2 DEF IInv, TraceInv, Untouched
<1>9. RunInv'
  <2>1. \A c \in steady' : rows'[c] = q.item
    BY <1>1, <1>2 DEF ShownUnder
  <2>2. pc' = "apply" => object'[q.item] \in Objects
    BY <1>1, <1>2, <1>3, <1>4 DEF Stores
  <2> QED BY <1>1, <1>2, <1>3, <1>7, <1>8, <2>1, <2>2 DEF RunInv, Target
<1>10. TraceInv'
  <2> SUFFICES ASSUME NEW m \in Calls,
                      Untouched(m)' \/ (running = m /\ pc \in {"save", "remove"})'
               PROVE  NoTrace(m)' /\ taken'[m] = {}
    BY DEF TraceInv
  <2>1. Untouched(m)
    BY <1>1, <1>2, <1>8 DEF Untouched
  <2>2. NoTrace(m) /\ taken[m] = {}
    BY <2>1 DEF IInv, TraceInv
  <2> QED BY <1>2, <1>6, <2>2, SpreadsKeeps
<1>11. TakenInv'
  BY <1>2, <1>7, <1>8 DEF IInv, TakenInv, Target
<1> QED BY <1>5, <1>9, <1>10, <1>11 DEF IInv

\* What stays when a step is not the worker's last.
LEMMA GotoEffect ==
    ASSUME IInv, NEW n \in Calls, running = n, NEW step \in Steps, Goto(step)
    PROVE  /\ pc' = step /\ running' = n /\ request' = request /\ listed' = listed
           /\ wanted' = wanted /\ answer' = answer /\ named' = named /\ steady' = steady
BY DEF Goto, endVars

LEMMA FetchedObject ==
    ASSUME Stores, NEW i \in Items, NEW o \in Fetched(i)
    PROVE  o \in Objects /\ \A n \in Calls : NoTrace(n) => n \notin Who(o.value)
<1>1. CASE o = object[i] /\ object[i] # Gone
  BY <1>1 DEF Stores, NoTrace
<1>2. CASE o = Held(db[i]) /\ Exists(i)
  BY <1>2 DEF Stores, NoTrace, Exists, Held, Objects
<1> QED BY <1>1, <1>2 DEF Fetched

LEMMA FetchInv == ASSUME IInv, NEW n \in Calls, Fetch(n) PROVE IInv'
<1> DEFINE i == Target(n)
<1>1. /\ Kinds /\ Stores /\ RunInv /\ running = n /\ pc = "fetch" /\ request[n] \in Shapes
      /\ i \in Items /\ listed = {} /\ taken' = taken /\ None \notin Calls
      /\ db' = db /\ before' = before /\ rows' = rows /\ outside' = outside
  BY Distinct DEF IInv, Kinds, RunInv, Fetch, outsideVars
<1>2. taken[n] = {}
  BY <1>1 DEF IInv, TraceInv, Untouched
<1>3. object' = object \/ \E o \in Fetched(i) : object' = [object EXCEPT ![i] = o]
  BY DEF Fetch, Target, Leaves
<1>4. Stores'
  BY <1>1, <1>3, FetchedObject DEF Stores
<1>5. \A m \in Calls : Spreads(m)
  BY <1>1, <1>3, FetchedObject DEF Spreads, NoTrace, Stores
<1>6. DOMAIN rows' = Items
  BY <1>1 DEF Kinds
<1>7. ASSUME NEW a \in {"refused", "preview"}, Finish(n, a, {}) PROVE IInv'
  BY <1>1, <1>2, <1>4, <1>5, <1>6, <1>7, Ends DEF Answers
<1>8. ASSUME Goto(AfterFetch(request[n])),
             NEW o \in Fetched(i), object' = [object EXCEPT ![i] = o]
      PROVE  IInv'
  <2>1. AfterFetch(request[n]) \in {"apply", "store", "remove"}
    BY DEF AfterFetch
  <2>2. AfterFetch(request[n]) = "remove" =>
          request[n].via # "reminders" /\ request[n].op = "delete"
    BY <1>1 DEF AfterFetch, RunInv, Shapes
  <2>3. /\ pc' = AfterFetch(request[n]) /\ running' = n /\ request' = request /\ listed' = listed
        /\ wanted' = wanted /\ answer' = answer /\ named' = named /\ steady' = steady
    BY <1>1, <1>8, <2>1, GotoEffect DEF Steps
  <2>4. Kinds'
    BY <1>1, <1>4, <2>1, <2>3 DEF Kinds, Steps
  <2>5. object'[i] \in Objects
    BY <1>1, <1>8, FetchedObject DEF Stores
  <2>6. RunInv'
    BY <1>1, <1>2, <2>1, <2>2, <2>3, <2>5 DEF RunInv, Target
  <2> QED BY <1>1, <1>5, <2>1, <2>3, <2>4, <2>6, GoesOn DEF SameTargets
<1> QED BY <1>7, <1>8 DEF Fetch, Target

LEMMA ReadSubtasksInv == ASSUME IInv, NEW n \in Calls, ReadSubtasks(n) PROVE IInv'
<1> DEFINE q == request[n]
<1>1. /\ Kinds /\ Stores /\ RunInv /\ running = n /\ pc = "store" /\ q \in Shapes
      /\ Target(n) \in Items /\ listed = {} /\ taken' = taken /\ None \notin Calls
      /\ db' = db /\ before' = before /\ rows' = rows /\ object' = object
  BY Distinct DEF IInv, Kinds, RunInv, ReadSubtasks, outsideVars
<1>2. taken[n] = {}
  BY <1>1 DEF IInv, TraceInv, Untouched
<1>3. Stores' /\ DOMAIN rows' = Items /\ \A m \in Calls : Spreads(m)
  BY <1>1, SameSpreads DEF Stores, Kinds
<1>4. ASSUME NEW a \in {"refused", "preview"}, NEW subs, Finish(n, a, subs) PROVE IInv'
  BY <1>1, <1>2, <1>3, <1>4, Ends DEF Answers
<1>5. ASSUME NEW shown \in StoreSays(q.item), shown # None, ~Unconfirmed(q, shown),
             pc' = AfterSubtasks(q), listed' = shown,
             UNCHANGED <<running, request, wanted, endVars, steady>>
      PROVE  IInv'
  <2>1. shown = {c \in Items : rows[c] = Target(n)}
    BY <1>5 DEF StoreSays, ShownUnder, Target
  <2>2. steady \subseteq Items
    BY <1>1 DEF Kinds
  <2>3. RunInv'
    BY <1>1, <1>2, <1>5, <2>1, <2>2 DEF RunInv, Target, AfterSubtasks, Unconfirmed, endVars
  <2>4. Kinds'
    BY <1>1, <1>3, <1>5 DEF Kinds, Steps, AfterSubtasks, endVars
  <2> QED BY <1>1, <1>3, <1>5, <2>3, <2>4, GoesOn
         DEF AfterSubtasks, endVars, SameTargets
<1> QED BY <1>4, <1>5 DEF ReadSubtasks

LEMMA WithFieldsObject ==
    ASSUME NEW o \in Objects, NEW n \in Calls, NEW q
    PROVE  /\ WithFields(o, n, q) \in Objects
           /\ Who(WithFields(o, n, q).value) \subseteq Who(o.value) \cup {n, None}
<1>1. n \in Author /\ {"text", "rule"} \subseteq Fields
  BY DEF Author, Fields
<1>2. Set(o, "text", n) \in Objects /\ Who(Set(o, "text", n).value) \subseteq Who(o.value) \cup {n}
  BY <1>1, SetObject
<1> DEFINE titled == Set(o, "text", n)
           v == IF q.rule = "set" THEN n ELSE None
<1> HIDE DEF titled
<1>3. v \in Author \cup {None}
  BY <1>1
<1> HIDE DEF v
<1>4. Set(titled, "rule", v) \in Objects
      /\ Who(Set(titled, "rule", v).value) \subseteq Who(titled.value) \cup {v}
  BY <1>1, <1>2, <1>3, SetObject DEF titled
<1>5. v \in {n, None}
  BY DEF v
<1> QED BY <1>2, <1>4, <1>5 DEF WithFields, titled, v

LEMMA ApplyInv == ASSUME IInv, NEW n \in Calls, Apply(n) PROVE IInv'
<1> DEFINE q == request[n]
<1>1. /\ Kinds /\ Stores /\ RunInv /\ running = n /\ pc = "apply" /\ q \in Shapes
      /\ q.item \in Items /\ taken' = taken /\ None \notin Calls /\ User \notin Calls
      /\ db' = db /\ before' = before /\ rows' = rows /\ "refused" # "failed"
  BY Distinct DEF IInv, Kinds, RunInv, Apply, outsideVars, Target
<1>2. taken[n] = {}
  BY <1>1 DEF IInv, TraceInv, Untouched
<1>3. PICK o \in Objects : o = object[q.item]
  BY <1>1 DEF RunInv, Target
<1>4. o # Gone
  BY <1>3, Distinct
<1>5. ASSUME NEW new \in Objects, Who(new.value) \subseteq Who(o.value) \cup {n, None},
             object' = [object EXCEPT ![q.item] = new]
      PROVE  Stores' /\ object'[q.item] \in Objects /\ \A m \in Calls \ {n} : Spreads(m)
  <2>1. Stores' /\ object'[q.item] = new /\ \A i \in Items \ {q.item} : object'[i] = object[i]
    BY <1>1, <1>5 DEF Stores
  <2>2. ASSUME NEW m \in Calls \ {n} PROVE Spreads(m)
    <3>1. NoTrace(m) => m \notin Who(o.value)
      BY <1>1, <1>3, <1>4 DEF NoTrace
    <3> QED BY <1>1, <1>5, <2>1, <3>1 DEF Spreads, NoTrace
  <2> QED BY <1>5, <2>1, <2>2
<1>6. ASSUME NEW new \in Objects, Who(new.value) \subseteq Who(o.value) \cup {n, None},
             object' = [object EXCEPT ![q.item] = new],
             NEW r \in Shapes, r = [q EXCEPT !.span = r.span],
             pc' = "save", request' = [request EXCEPT ![n] = r],
             UNCHANGED <<running, listed, wanted, endVars, steady>>
      PROVE  IInv'
  <2>0. request'[n] = r /\ \A m \in Calls \ {n} : request'[m] = request[m]
    BY <1>1, <1>6 DEF Kinds
  <2>1. /\ pc' = "save" /\ running' = n /\ listed' = listed
        /\ wanted' = wanted /\ answer' = answer /\ named' = named /\ steady' = steady
        /\ r.item = q.item /\ r.op = q.op /\ r.subtasks = q.subtasks
    BY <1>1, <1>6 DEF endVars, Shapes
  <2>2. Stores' /\ object'[q.item] \in Objects /\ \A m \in Calls \ {n} : Spreads(m)
    BY <1>5, <1>6
  <2>3. Kinds'
    BY <1>1, <1>6, <2>1, <2>2 DEF Kinds, Steps
  <2>4. RunInv'
    BY <1>1, <2>0, <2>1, <2>2 DEF RunInv, Target
  <2>5. SameTargets
    BY <1>1, <2>0, <2>1 DEF SameTargets
  <2> QED BY <1>1, <2>1, <2>2, <2>3, <2>4, <2>5, GoesOn
<1>7. ASSUME NEW new \in Objects, Who(new.value) \subseteq Who(o.value) \cup {n, None},
             object' = [object EXCEPT ![q.item] = new], Finish(n, "failed", {})
      PROVE  IInv'
  <2>1. Stores' /\ \A m \in Calls \ {n} : Spreads(m)
    BY <1>5, <1>7
  <2> QED BY <1>1, <1>7, <2>1, Ends DEF Answers, Kinds
<1>8. CASE /\ object' = [object EXCEPT ![q.item] = Set(o, "done", n)] /\ Goto("save")
  <2>1. /\ Set(o, "done", n) \in Objects
        /\ Who(Set(o, "done", n).value) \subseteq Who(o.value) \cup {n, None}
    BY SetObject DEF Fields, Author
  <2>2. /\ pc' = "save" /\ request' = request
        /\ UNCHANGED <<running, listed, wanted, endVars, steady>>
    BY <1>8 DEF Goto
  <2>3. request' = [request EXCEPT ![n] = q] /\ q = [q EXCEPT !.span = q.span]
    BY <1>1, <2>2 DEF Kinds, Shapes
  <2> QED BY <1>1, <1>6, <1>8, <2>1, <2>2, <2>3
<1>9. CASE /\ object' = [object EXCEPT ![q.item] = WithFields(o, n, q)]
           /\ Finish(n, "failed", {})
  BY <1>7, <1>9, WithFieldsObject
<1>10. CASE /\ object' = [object EXCEPT ![q.item] =
                              Set(WithFields(o, n, q), "box", BoxAsked(o, q))]
            /\ pc' = "save" /\ request' = [request EXCEPT ![n].span = SpanOf(o, q)]
            /\ UNCHANGED <<running, listed, wanted, endVars, steady>>
  <2>1. BoxAsked(o, q) \in Boxes
    BY EventKitAssumption DEF BoxAsked, Objects, Value
  <2>2. PICK w \in Objects : /\ w = WithFields(o, n, q)
                             /\ Who(w.value) \subseteq Who(o.value) \cup {n, None}
    BY WithFieldsObject
  <2>3. /\ Set(w, "box", BoxAsked(o, q)) \in Objects
        /\ Who(Set(w, "box", BoxAsked(o, q)).value) \subseteq Who(w.value)
    BY <2>1, SetObject DEF Fields
  <2>4. PICK r : r = [q EXCEPT !.span = SpanOf(o, q)]
    OBVIOUS
  <2>5. r \in Shapes /\ r.span = SpanOf(o, q)
    BY <1>1, <2>4 DEF Shapes, SpanOf
  <2>6. request' = [request EXCEPT ![n] = r] /\ r = [q EXCEPT !.span = r.span]
    BY <1>10, <2>4, <2>5
  <2> QED BY <1>6, <1>10, <2>2, <2>3, <2>5, <2>6
<1> QED BY <1>3, <1>8, <1>9, <1>10 DEF Apply

LEMMA RefusedInv == ASSUME IInv, NEW n \in Calls, Refused(n) PROVE IInv'
<1>1. /\ Kinds /\ Stores /\ running = n /\ Finish(n, "failed", {}) /\ taken' = taken
      /\ db' = db /\ before' = before /\ rows' = rows /\ object' = object
  BY DEF IInv, Kinds, Refused, outsideVars
<1>2. Stores' /\ DOMAIN rows' = Items /\ \A m \in Calls : Spreads(m)
  BY <1>1, SameSpreads DEF Stores, Kinds
<1> QED BY <1>1, <1>2, Ends DEF Answers

LEMMA SaveInv == ASSUME IInv, NEW n \in Calls, Save(n) PROVE IInv'
<1> DEFINE i == Target(n)
<1>1. /\ Kinds /\ Stores /\ RunInv /\ running = n /\ pc = "save" /\ request[n] \in Shapes
      /\ i \in Items /\ taken' = taken /\ None \notin Calls /\ rows' = rows
      /\ running' = n /\ request' = request /\ listed' = listed /\ answer' = answer
      /\ named' = named /\ steady' = steady /\ pc' = "verify"
      /\ before' = [before EXCEPT ![i] = db[i]]
  BY Distinct DEF IInv, Kinds, RunInv, Save, endVars, historyVars, Target
<1>2. PICK o \in Objects : o = object[i]
  BY <1>1 DEF RunInv
<1>3. PICK v \in Value :
        /\ Who(v) \subseteq Who(o.value) \cup (IF db[i] = Gone THEN {} ELSE Who(db[i]))
        /\ db' = [db EXCEPT ![i] = v] /\ object' = [object EXCEPT ![i] = Held(v)]
  <2>1. PICK span : \E b \in Boxes :
          LET saved == [Saved(o, i, span) EXCEPT !.box = b]
          IN /\ db' = [db EXCEPT ![i] = saved]
             /\ object' = [object EXCEPT ![i] = Held(saved)]
    BY <1>2 DEF Save, Target
  <2>2. PICK b \in Boxes : \E s :
          /\ s = [Saved(o, i, span) EXCEPT !.box = b]
          /\ db' = [db EXCEPT ![i] = s] /\ object' = [object EXCEPT ![i] = Held(s)]
    BY <2>1
  <2>3. PICK s :
          /\ s = [Saved(o, i, span) EXCEPT !.box = b]
          /\ db' = [db EXCEPT ![i] = s] /\ object' = [object EXCEPT ![i] = Held(s)]
    BY <2>2
  <2>4. s \in Value
        /\ Who(s) \subseteq Who(o.value) \cup (IF db[i] = Gone THEN {} ELSE Who(db[i]))
    BY <1>1, <2>3, SavedValue
  <2> QED BY <2>3, <2>4
<1>4. wanted' \in Boxes
  BY <1>2 DEF Save, Target, Objects, Value
<1>5. Held(v) \in Objects /\ Held(v).value = v
  BY DEF Held, Objects
<1>6. Stores'
  BY <1>1, <1>3, <1>5 DEF Stores
<1>7. Kinds'
  BY <1>1, <1>4, <1>6 DEF Kinds, Steps
<1>8. ASSUME NEW m \in Calls \ {n} PROVE Spreads(m)
  <2>1. NoTrace(m) => m \notin Who(v)
    BY <1>1, <1>2, <1>3, Distinct DEF NoTrace
  <2>2. /\ db'[i] = v /\ before'[i] = db[i] /\ object'[i] = Held(v)
        /\ \A j \in Items \ {i} : db'[j] = db[j] /\ before'[j] = before[j] /\ object'[j] = object[j]
    BY <1>1, <1>3 DEF Stores
  <2> QED BY <1>5, <2>1, <2>2 DEF Spreads, NoTrace
<1>9. RunInv'
  BY <1>1 DEF RunInv, Target
<1> QED BY <1>1, <1>7, <1>8, <1>9, GoesOn DEF SameTargets

LEMMA RemoveInv == ASSUME IInv, NEW n \in Calls, Remove(n) PROVE IInv'
<1> DEFINE i == Target(n)
<1>1. /\ Kinds /\ Stores /\ RunInv /\ running = n /\ pc = "remove" /\ request[n] \in Shapes
      /\ i \in Items /\ None \notin Calls /\ rows' = rows /\ MayTake(n)
      /\ pc' = "verify" /\ running' = n /\ request' = request /\ listed' = listed
      /\ wanted' = wanted /\ answer' = answer /\ named' = named /\ steady' = steady
  BY Distinct, GotoEffect DEF IInv, Kinds, RunInv, Remove, Target, Steps
<1> DEFINE kids == IF request[n].via = "reminders" THEN ChildrenOf(i) ELSE {}
<1>2. /\ before' = [j \in Items |-> IF j \in kids \cup {i} THEN db[j] ELSE before[j]]
      /\ object' = [j \in Items |-> IF j \in kids \cup {i} THEN Gone ELSE object[j]]
      /\ taken' = [taken EXCEPT ![n] = {i} \cup (kids \cap steady)]
  BY DEF Remove, Target
<1>3. PICK left :
        /\ left = Gone \/ (db[i] # Gone /\ left = [db[i] EXCEPT !.text = Gone])
        /\ db' = [j \in Items |-> IF j = i THEN left ELSE IF j \in kids THEN Gone ELSE db[j]]
  <2>1. request[n].op = "delete"
    BY <1>1 DEF RunInv
  <2>2. db[i] # Gone
    BY <1>1, <2>1 DEF MayTake, Exists, Target
  <2> QED BY <2>2 DEF Remove, Target
<1>4. left = Gone \/ (/\ db[i] # Gone /\ left \in Value /\ Who(left) \subseteq Who(db[i]) \cup {Gone})
  <2>1. ASSUME NEW v \in Value
        PROVE  [v EXCEPT !.text = Gone] \in Value /\ Who([v EXCEPT !.text = Gone]) \subseteq Who(v) \cup {Gone}
    BY DEF Value, Who
  <2>2. db[i] \in Value \cup {Gone}
    BY <1>1 DEF Stores
  <2> QED BY <1>3, <2>1, <2>2
<1> HIDE DEF kids
<1>5. Stores'
  BY <1>1, <1>2, <1>3, <1>4 DEF Stores
<1>6. Kinds'
  BY <1>1, <1>2, <1>5 DEF Kinds, Steps
<1>7. ASSUME NEW m \in Calls PROVE Spreads(m)
  <2>1. /\ \A j \in Items : db'[j] = Gone \/ db'[j] = db[j] \/ (j = i /\ db'[j] = left)
        /\ \A j \in Items : before'[j] = before[j] \/ before'[j] = db[j]
        /\ \A j \in Items : object'[j] = Gone \/ object'[j] = object[j]
    BY <1>2, <1>3
  <2> QED BY <1>1, <1>4, <2>1, Distinct DEF Spreads, NoTrace
<1>8. RunInv'
  BY <1>1 DEF RunInv, Target
<1>9. TraceInv'
  <2> SUFFICES ASSUME NEW m \in Calls,
                      Untouched(m)' \/ (running = m /\ pc \in {"save", "remove"})'
               PROVE  NoTrace(m)' /\ taken'[m] = {}
    BY DEF TraceInv
  <2>1. m # n /\ Untouched(m)
    BY <1>1, Distinct DEF Untouched, RunInv, Answers
  <2>2. NoTrace(m) /\ taken[m] = {}
    BY <2>1 DEF IInv, TraceInv
  <2> QED BY <1>1, <1>2, <1>7, <2>1, <2>2, SpreadsKeeps DEF Kinds
<1>10. TakenInv'
  <2> SUFFICES ASSUME NEW m \in Calls, NEW c \in taken'[m], c # Target(m)'
               PROVE  (/\ request[m] \in Shapes /\ request[m].subtasks
                       /\ running = m => c \in listed
                       /\ answer[m] = "ok" => c \in named[m])'
    BY DEF TakenInv
  <2>1. CASE m # n
    <3>1. c \in taken[m]
      BY <1>1, <1>2, <2>1 DEF Kinds
    <3> QED BY <1>1, <2>1, <3>1 DEF IInv, TakenInv, Target
  <2>2. CASE m = n
    <3>1. c \in kids /\ c \in steady
      BY <1>1, <1>2, <2>2 DEF Kinds, Target
    <3>2. request[n].via = "reminders"
      BY <3>1 DEF kids
    <3>3. c \in listed /\ request[n].subtasks
      BY <1>1, <3>1, <3>2 DEF RunInv
    <3>4. answer'[n] # "ok"
      BY <1>1, Distinct DEF RunInv, Answers
    <3> QED BY <1>1, <2>2, <3>3, <3>4
  <2> QED BY <2>1, <2>2
<1> QED BY <1>6, <1>8, <1>9, <1>10 DEF IInv

LEMMA VerifyInv == ASSUME IInv, NEW n \in Calls, Verify(n) PROVE IInv'
<1> DEFINE i == Target(n)
<1>1. /\ Kinds /\ Stores /\ RunInv /\ running = n /\ pc = "verify" /\ request[n] \in Shapes
      /\ i \in Items /\ request[n].op # "delete" /\ taken' = taken /\ None \notin Calls
      /\ db' = db /\ before' = before /\ rows' = rows
  BY Distinct DEF IInv, Kinds, RunInv, Verify, outsideVars, Target
<1>2. taken[n] = {}
  BY <1>1 DEF RunInv
<1>3. object' = object \/ \E o \in Fetched(i) : object' = [object EXCEPT ![i] = o]
  BY DEF Verify, Target, Reread, Fetched
<1>4. Stores' /\ DOMAIN rows' = Items
  BY <1>1, <1>3, FetchedObject DEF Stores, Kinds
<1>5. \A m \in Calls : Spreads(m)
  BY <1>1, <1>3, FetchedObject DEF Spreads, NoTrace, Stores
<1>6. (\E subs : Finish(n, "unverified", subs)) \/ (\E subs : Finish(n, "ok", subs))
  BY DEF Verify
<1> QED BY <1>1, <1>2, <1>4, <1>5, <1>6, Ends DEF Answers

LEMMA VerifyGoneInv == ASSUME IInv, NEW n \in Calls, VerifyGone(n) PROVE IInv'
<1>1. /\ Kinds /\ Stores /\ running = n /\ taken' = taken
      /\ db' = db /\ before' = before /\ rows' = rows /\ object' = object
      /\ Finish(n, "unverified", {}) \/ Finish(n, "ok", listed)
  BY DEF IInv, Kinds, VerifyGone, outsideVars
<1>2. Stores' /\ DOMAIN rows' = Items /\ \A m \in Calls : Spreads(m)
  BY <1>1, SameSpreads DEF Stores, Kinds
<1>3. \A c \in taken[n] : c # Target(n) => c \in listed
  BY <1>1 DEF IInv, TakenInv
<1>4. CASE Finish(n, "unverified", {})
  BY <1>1, <1>2, <1>4, Ends DEF Answers
<1>5. CASE Finish(n, "ok", listed)
  BY <1>1, <1>2, <1>3, <1>5, Ends DEF Answers
<1> QED BY <1>1, <1>4, <1>5

LEMMA StepInv == ASSUME IInv, [Next]_vars PROVE IInv'
<1>1. CASE UNCHANGED vars
  <2>1. UNCHANGED <<db, before, object, rows, running, pc, request, listed, wanted,
                    answer, named, steady, taken>>
    BY <1>1 DEF vars, outsideVars, flowVars, endVars, historyVars
  <2>2. Kinds' /\ RunInv' /\ TakenInv'
    BY <2>1 DEF IInv, Kinds, Stores, RunInv, TakenInv, Target
  <2>3. TraceInv'
    BY <2>1 DEF IInv, TraceInv, Untouched, NoTrace
  <2> QED BY <2>2, <2>3 DEF IInv
<1>2. ASSUME NEW n \in Calls, Step(n) PROVE IInv'
  BY <1>2, BeginInv, FetchInv, ReadSubtasksInv, ApplyInv, RefusedInv, SaveInv, RemoveInv,
     VerifyInv, VerifyGoneInv DEF Step
<1>3. ASSUME NEW i \in Items, Environment(i) PROVE IInv'
  BY <1>3, EnvironmentInv
<1> QED BY <1>1, <1>2, <1>3 DEF Next

-----------------------------------------------------------------------------
(* The theorems. *)

(* Whatever the user, the apps and iCloud do between two EventKit calls,   *)
(* and whatever object EventKit keeps: a call that answered that it        *)
(* changed nothing, or with a preview, has no value of its own on any      *)
(* item.  The invariant also keeps its values off the kept objects and off *)
(* what iCloud may put back, where a later save would find them.           *)
THEOREM RefusedStaysUnsaved == Spec => []RefusedIsNeverSaved
<1>1. IInv => RefusedIsNeverSaved
  <2> SUFFICES ASSUME IInv, NEW n \in Calls, answer[n] \in {"refused", "preview"}
               PROVE  taken[n] = {} /\ \A i \in Items : n \notin Marks(i)
    BY DEF RefusedIsNeverSaved
  <2>1. NoTrace(n) /\ taken[n] = {}
    BY DEF IInv, TraceInv, Untouched
  <2> QED BY <2>1 DEF NoTrace, Marks, Who
<1> QED BY InitInv, StepInv, <1>1, PTL DEF Spec

(* However the Reminders store lags behind EventKit: a subtask that it has *)
(* shown since a delete began went with its parent only if the caller      *)
(* confirmed it, and the answer that the reminder was deleted names it.    *)
THEOREM SubtasksAsked == Spec => []NoSubtaskGoesUnasked
<1>1. IInv => NoSubtaskGoesUnasked
  BY DEF IInv, TakenInv, NoSubtaskGoesUnasked
<1> QED BY InitInv, StepInv, <1>1, PTL DEF Spec

-----------------------------------------------------------------------------
(* The answer of success.                                                  *)

\* The reminders tools work on reminders from their checks on.
ViaInv ==
    running # None /\ pc \in {"store", "apply", "save", "remove", "verify"}
        /\ request[running].via = "reminders" => Target(running) \in Reminders

LEMMA InitVia == Init => ViaInv
BY DEF Init, ViaInv

\* A call that goes on with its request, or one that ends.
LEMMA ViaGoesOn ==
    ASSUME ViaInv, request' = request, running' = running \/ running' = None,
           pc' \in {"store", "apply", "save", "remove", "verify"} =>
              pc \in {"store", "apply", "save", "remove", "verify"}
    PROVE  ViaInv'
BY DEF ViaInv, Target

LEMMA ViaEnds == ASSUME NEW n, NEW a, NEW subs, Finish(n, a, subs) PROVE ViaInv'
BY DEF Finish, ViaInv

LEMMA StepVia == ASSUME IInv, ViaInv, [Next]_vars PROVE ViaInv'
<1>1. Kinds /\ None \notin Calls
  BY Distinct DEF IInv
<1>2. CASE UNCHANGED flowVars
  BY <1>2, ViaGoesOn DEF flowVars
<1>3. ASSUME NEW n \in Calls, Begin(n) PROVE ViaInv'
  <2>1. PICK q \in Requests :
          /\ request' = [request EXCEPT ![n] = q]
          /\ IF q.op = "create" THEN pc' = "apply" ELSE pc' = "fetch"
    BY <1>3 DEF Begin
  <2>2. running' = n /\ request'[n] = q
    BY <1>1, <1>3, <2>1 DEF Begin, Kinds
  <2>3. q.op = "create" /\ q.via = "reminders" => q.item \in Reminders
    BY <2>1 DEF Requests
  <2> QED BY <2>1, <2>2, <2>3 DEF ViaInv, Target
<1>4. ASSUME NEW n \in Calls, Fetch(n) PROVE ViaInv'
  <2>1. CASE \E a, subs : Finish(n, a, subs)
    BY <2>1, ViaEnds
  <2>2. CASE \E o : ~Refuses(o, request[n]) /\ Goto(AfterFetch(request[n]))
    <3>1. request' = request /\ running' = n /\ running = n
      BY <1>4, <2>2 DEF Goto, Fetch
    <3>2. request[n].via = "reminders" => request[n].item \in Reminders
      BY <2>2 DEF Refuses
    <3> QED BY <3>1, <3>2 DEF ViaInv, Target
  <2> QED BY <1>4, <2>1, <2>2 DEF Fetch
<1>5. ASSUME NEW n \in Calls, ReadSubtasks(n) PROVE ViaInv'
  <2>1. CASE \E a, subs : Finish(n, a, subs)
    BY <2>1, ViaEnds
  <2>2. CASE UNCHANGED <<running, request>> /\ pc = "store"
    BY <2>2, ViaGoesOn
  <2> QED BY <1>5, <2>1, <2>2 DEF ReadSubtasks
<1>6. ASSUME NEW n \in Calls, Apply(n) PROVE ViaInv'
  <2>1. CASE \E a, subs : Finish(n, a, subs)
    BY <2>1, ViaEnds
  <2>2. CASE Goto("save") /\ pc = "apply"
    BY <2>2, ViaGoesOn DEF Goto
  <2>3. CASE /\ \E span : request' = [request EXCEPT ![n].span = span]
             /\ running = n /\ running' = n /\ pc = "apply"
    <3>1. PICK span : request' = [request EXCEPT ![n].span = span]
      BY <2>3
    <3>2. request[n] \in Shapes
      BY <1>1, <2>3 DEF IInv, RunInv
    <3>3. request'[n].via = request[n].via /\ request'[n].item = request[n].item
      BY <1>1, <3>1, <3>2 DEF Kinds, Shapes
    <3> QED BY <2>3, <3>3 DEF ViaInv, Target
  <2> QED BY <1>6, <2>1, <2>2, <2>3 DEF Apply
<1>7. ASSUME NEW n \in Calls, Refused(n) \/ Verify(n) \/ VerifyGone(n) PROVE ViaInv'
  <2>1. \E a, subs : Finish(n, a, subs)
    BY <1>7 DEF Refused, Verify, VerifyGone
  <2> QED BY <2>1, ViaEnds
<1>8. ASSUME NEW n \in Calls, Save(n) \/ Remove(n) PROVE ViaInv'
  <2>1. UNCHANGED <<running, request>> /\ pc \in {"save", "remove"}
    BY <1>8 DEF Save, Remove, Goto
  <2> QED BY <2>1, ViaGoesOn
<1>9. ASSUME NEW i \in Items, Environment(i) PROVE UNCHANGED flowVars
  BY <1>9 DEF Environment, UserSets, UserIndents, UserDeletes, RollsBack, Syncs, Forgets
<1> QED BY <1>2, <1>3, <1>4, <1>5, <1>6, <1>7, <1>8, <1>9 DEF Next, Step, vars

SaysOk(n) ==
    answer'[n] = "ok" /\ answer[n] = None /\ request[n].via = "reminders" =>
        IF request[n].op = "delete" THEN ~Exists(Target(n))
        ELSE Exists(Target(n)) /\ Shows(Held(db[Target(n)]), n)

\* Only the two verifications say so.
LEMMA OthersSayNothing ==
    ASSUME Kinds, NEW n \in Calls,
           answer' = answer \/ \E m, subs : \E a \in {"refused", "preview", "failed", "unverified"} :
                                  answer' = [answer EXCEPT ![m] = a]
    PROVE  SaysOk(n)
BY Distinct DEF Kinds, SaysOk, Answers

LEMMA StepSaysOk == ASSUME IInv, ViaInv, [Next]_vars, NEW n \in Calls PROVE SaysOk(n)
<1>1. Kinds /\ None \notin Calls /\ Reminders \cap Events = {}
  BY Distinct, EventKitAssumption DEF IInv
<1>2. CASE UNCHANGED endVars
  BY <1>1, <1>2, OthersSayNothing DEF endVars
<1>3. ASSUME NEW m \in Calls, NEW a \in {"refused", "preview", "failed", "unverified"}, NEW subs,
             Finish(m, a, subs)
      PROVE  SaysOk(n)
  BY <1>1, <1>3, OthersSayNothing DEF Finish
<1>4. ASSUME NEW m \in Calls, Verify(m) PROVE SaysOk(n)
  <2>1. running = m /\ pc = "verify" /\ request[m].op # "delete"
    BY <1>4 DEF Verify
  <2>2. CASE \E o \in Reread(request[m].item) : Shows(o, m) /\ \E open : Finish(m, "ok", open)
    <3> SUFFICES ASSUME answer'[n] = "ok", answer[n] = None, request[n].via = "reminders"
                 PROVE  Exists(Target(n)) /\ Shows(Held(db[Target(n)]), n) /\ request[n].op # "delete"
      BY DEF SaysOk
    <3>1. n = m
      BY <1>1, <2>2, Distinct DEF Finish, Kinds, Answers
    <3>2. Target(n) \in Reminders /\ Target(n) = request[m].item
      BY <1>1, <2>1, <3>1 DEF ViaInv, Target
    <3>3. Target(n) \notin Events
      BY <1>1, <3>2
    <3>4. PICK o \in Reread(Target(n)) : Shows(o, n)
      BY <2>2, <3>1, <3>2
    <3>5. Exists(Target(n)) /\ o = Held(db[Target(n)])
      BY <3>3, <3>4 DEF Reread
    <3> QED BY <2>1, <3>1, <3>4, <3>5
  <2> QED BY <1>3, <1>4, <2>2 DEF Verify
<1>5. ASSUME NEW m \in Calls, VerifyGone(m) PROVE SaysOk(n)
  <2>1. running = m /\ request[m].op = "delete"
    BY <1>5 DEF VerifyGone
  <2>2. CASE ~Exists(request[m].item) /\ Finish(m, "ok", listed)
    <3>1. n # m => answer'[n] = answer[n]
      BY <1>1, <2>2 DEF Finish, Kinds
    <3> QED BY <2>1, <2>2, <3>1, Distinct DEF SaysOk, Target, Answers
  <2> QED BY <1>3, <1>5, <2>2 DEF VerifyGone
<1>6. ASSUME NEW m \in Calls, Fetch(m) PROVE SaysOk(n)
  <2>1. \/ UNCHANGED endVars
        \/ \E a \in {"refused", "preview", "failed", "unverified"} : Finish(m, a, {})
    BY <1>6 DEF Fetch, Goto
  <2> QED BY <1>2, <1>3, <2>1
<1>7. ASSUME NEW m \in Calls, ReadSubtasks(m) PROVE SaysOk(n)
  <2>1. \/ UNCHANGED endVars
        \/ \E a \in {"refused", "preview", "failed", "unverified"} : \E subs : Finish(m, a, subs)
    BY <1>7 DEF ReadSubtasks
  <2> QED BY <1>2, <1>3, <2>1
<1>8. ASSUME NEW m \in Calls, Begin(m) \/ Apply(m) \/ Refused(m) \/ Save(m) \/ Remove(m) PROVE SaysOk(n)
  <2>1. \/ UNCHANGED endVars
        \/ \E a \in {"refused", "preview", "failed", "unverified"} : Finish(m, a, {})
    BY <1>8 DEF Begin, Apply, Refused, Save, Remove, Goto, endVars
  <2> QED BY <1>2, <1>3, <2>1
<1>9. ASSUME NEW i \in Items, Environment(i) PROVE UNCHANGED endVars
  BY <1>9 DEF Environment, UserSets, UserIndents, UserDeletes, RollsBack, Syncs, Forgets
<1> QED BY <1>2, <1>4, <1>5, <1>6, <1>7, <1>8, <1>9 DEF Next, Step, vars

(* Whatever the user and iCloud do between a save and its verification: a  *)
(* write of the reminders tools is answered with success only while the    *)
(* account holds what was asked, and a delete only while the item is gone. *)
THEOREM OkIsTrue == Spec => OkIsTrueWhenSaid
<1>1. Init => IInv /\ ViaInv
  BY InitInv, InitVia
<1>2. IInv /\ ViaInv /\ [Next]_vars => (IInv /\ ViaInv)'
  BY StepInv, StepVia
<1>3. IInv /\ ViaInv /\ [Next]_vars =>
        \A n \in Calls : (answer'[n] = "ok" /\ answer[n] = None /\ request[n].via = "reminders") =>
            IF request[n].op = "delete" THEN ~Exists(Target(n))
            ELSE Exists(Target(n)) /\ Shows(Held(db[Target(n)]), n)
  BY StepSaysOk DEF SaysOk
<1> QED BY <1>1, <1>2, <1>3, PTL DEF Spec, OkIsTrueWhenSaid

-----------------------------------------------------------------------------
(* The notes tools: what a call has told was true while it ran.            *)

CallSteps == {"idle", "rows", "bodies", "title", "write", "check", "hits", "rows app",
              "bodies app", "title app", "gaps", "trash", "done", "failed"}

Asking == [op : N!Ops \cup {None}, ids : SUBSET N!Ids, query : N!Queries \cup {None},
           title : N!Titles \cup {None}, step : CallSteps, opened : Uuids \cup {None},
           rows : SUBSET Pks, titled : SUBSET Pks, noted : BOOLEAN]

NotesType ==
    /\ store \in Uuids /\ DOMAIN app = Pks
    /\ DOMAIN disk = Uuids /\ \A u \in Uuids : DOMAIN disk[u] = Pks
    /\ client \in [Clients -> Asking]
    /\ DOMAIN told = Clients

Open(c) == client[c].step \notin {"idle", "done", "failed"}

\* A running call remembers what is true now and what it has told.
Recalls(c) == Open(c) => N!Facts \subseteq had[c] /\ told[c] \subseteq had[c]

\* What is asked at each step.
Shape(c) ==
    LET q == client[c]
    IN  /\ q.step \in {"idle", "rows", "rows app", "hits"} => told[c] = {}
        /\ q.step \in {"rows", "rows app", "bodies", "bodies app", "gaps", "hits"} =>
              q.op \notin {"create", "update"}
        /\ q.step \in {"bodies", "bodies app", "gaps", "title", "title app", "write", "check", "trash"} =>
              q.op # "notes"
        /\ Open(c) /\ q.op \in {"create", "update"} => q.title # None
        /\ q.step \in {"title", "title app"} => q.op \in {"snapshot", "update preview", "create", "update"}
        /\ q.step \in {"title", "title app", "check", "trash"} => q.ids # {}
        /\ q.step = "write" /\ q.op = "update" => q.ids # {}
        /\ Open(c) /\ q.op = "notes" => q.query \in N!Queries

\* A note that stays is there, and the file shows it as it is.
Stays(c) == Open(c) => \A p \in unmoved[c] : p \in Pks /\ app[p] # None /\ disk[store][p] = app[p]

\* Between the two statements of a search.
BetweenReads(c) ==
    client[c].step = "hits" =>
        LET q == client[c]
        IN  /\ q.opened \in Uuids /\ q.titled \subseteq q.rows
            /\ N!Listed(q.opened, q.rows) \subseteq had[c]
            /\ Cardinality(q.titled) < MaxNotes
            /\ \A p \in unmoved[c] :
                  /\ q.opened = store /\ (p \in q.rows <=> app[p].at = "folder")
                  /\ p \in q.titled <=> p \in q.rows /\ (N!TitleHit(app[p]) \/ N!SnippetHit(app[p]))

NoteInv == NotesType /\ \A c \in Clients : Recalls(c) /\ Shape(c) /\ Stays(c) /\ BetweenReads(c)

LEMMA InitNotes == N!NotesInit => NoteInv
<1> SUFFICES ASSUME N!NotesInit PROVE NoteInv
  OBVIOUS
<1>1. /\ store \in Uuids /\ app \in [Pks -> NoteKinds \cup {None}]
      /\ disk = [u \in Uuids |-> IF u = store THEN app ELSE [p \in Pks |-> None]]
      /\ client = [c \in Clients |-> N!Resting] /\ told = [c \in Clients |-> {}]
  BY DEF N!NotesInit
<1>2. N!Resting \in Asking /\ N!Resting.step = "idle" /\ N!Resting.op = None
  BY DEF N!Resting, Asking, CallSteps
<1>3. NotesType
  BY <1>1, <1>2 DEF NotesType
<1>4. ASSUME NEW c \in Clients PROVE Recalls(c) /\ Shape(c) /\ Stays(c) /\ BetweenReads(c)
  <2>1. client[c].step = "idle" /\ told[c] = {}
    BY <1>1, <1>2, <1>4
  <2> QED BY <2>1 DEF Recalls, Shape, Stays, BetweenReads, Open
<1> QED BY <1>3, <1>4 DEF NoteInv

\* NotesPlanes counts as we do.
LEMMA SameCount == \A S : N!Cardinality(S) = Cardinality(S)
BY DEF N!Cardinality, Cardinality, N!IsFiniteSet, IsFiniteSet

-----------------------------------------------------------------------------
(* What is true of the stores.                                             *)

LEMMA FactsOfFile ==
    ASSUME NEW u \in Uuids, NEW p \in Pks, disk[u][p] # None
    PROVE  /\ <<<<u, p>>, "title", disk[u][p].title>> \in N!Facts
           /\ <<<<u, p>>, "body", disk[u][p].body>> \in N!Facts
           /\ disk[u][p].at = "folder" => <<<<u, p>>, "listed">> \in N!Facts
<1>1. PICK f : f = disk[u]
  OBVIOUS
<1>2. N!FactsIn(u, f) \subseteq N!Facts
  BY <1>1 DEF N!Facts
<1>3. /\ <<<<u, p>>, "title", f[p].title>> \in N!FactsIn(u, f)
      /\ <<<<u, p>>, "body", f[p].body>> \in N!FactsIn(u, f)
  BY <1>1 DEF N!FactsIn, N!TitlesIn, N!BodiesIn, N!Present
<1>4. f[p].at = "folder" => <<<<u, p>>, "listed">> \in N!FactsIn(u, f)
  BY <1>1 DEF N!FactsIn, N!Listed, N!Live
<1> QED BY <1>1, <1>2, <1>3, <1>4

LEMMA FactsOfApp ==
    ASSUME NEW p \in Pks, app[p] # None
    PROVE  /\ <<<<store, p>>, "title", app[p].title>> \in N!Facts
           /\ <<<<store, p>>, "body", app[p].body>> \in N!Facts
           /\ app[p].at = "folder" => <<<<store, p>>, "listed">> \in N!Facts
<1>2. N!FactsIn(store, app) \subseteq N!Facts
  BY DEF N!Facts
<1>3. /\ <<<<store, p>>, "title", app[p].title>> \in N!FactsIn(store, app)
      /\ <<<<store, p>>, "body", app[p].body>> \in N!FactsIn(store, app)
  BY DEF N!FactsIn, N!TitlesIn, N!BodiesIn, N!Present
<1>4. app[p].at = "folder" => <<<<store, p>>, "listed">> \in N!FactsIn(store, app)
  BY DEF N!FactsIn, N!Listed, N!Live
<1> QED BY <1>2, <1>3, <1>4

LEMMA ListedIsFact ==
    ASSUME NotesType, NEW S \in SUBSET N!Live(disk[store]) PROVE N!Listed(store, S) \subseteq N!Facts
<1>1. ASSUME NEW p \in S PROVE <<<<store, p>>, "listed">> \in N!Facts
  BY <1>1, FactsOfFile DEF N!Live, NotesType
<1> QED BY <1>1 DEF N!Listed

LEMMA ListedInApp ==
    ASSUME NotesType, NEW S \in SUBSET N!Live(app) PROVE N!Listed(store, S) \subseteq N!Facts
<1>1. ASSUME NEW p \in S PROVE <<<<store, p>>, "listed">> \in N!Facts
  BY <1>1, FactsOfApp DEF N!Live, NotesType
<1> QED BY <1>1 DEF N!Listed

LEMMA IdParts == ASSUME NEW id \in N!Ids PROVE id = <<id[1], id[2]>> /\ id[1] \in Uuids /\ id[2] \in Pks
BY DEF N!Ids

LEMMA ShownIsFact ==
    ASSUME NotesType, NEW id \in N!Ids, N!ShownAs(id) # None
    PROVE  /\ <<id, "title", N!ShownAs(id).title>> \in N!Facts
           /\ <<id, "body", N!ShownAs(id).body>> \in N!Facts
<1>1. id[1] = store /\ N!ShownAs(id) = app[id[2]] /\ id = <<store, id[2]>> /\ id[2] \in Pks
  BY IdParts DEF N!ShownAs
<1> QED BY <1>1, FactsOfApp

LEMMA StoredIsFact ==
    ASSUME NotesType, NEW id \in N!Ids, N!Local(id, store), disk[store][id[2]] # None
    PROVE  /\ <<id, "title", disk[store][id[2]].title>> \in N!Facts
           /\ <<id, "body", disk[store][id[2]].body>> \in N!Facts
<1>1. id[1] = store /\ id = <<store, id[2]>> /\ id[2] \in Pks
  BY IdParts DEF N!Local
<1> QED BY <1>1, FactsOfFile DEF NotesType

-----------------------------------------------------------------------------
(* Steps.                                                                  *)

\* The other calls are not touched.
OnlyOf(c) ==
    /\ client' \in [Clients -> Asking] /\ DOMAIN told' = Clients
    /\ \A d \in Clients \ {c} : client'[d] = client[d] /\ told'[d] = told[d]

LEMMA CallGoes ==
    ASSUME NotesType, NEW c \in Clients, NEW step \in CallSteps, N!Goto(c, step)
    PROVE  /\ client' \in [Clients -> Asking]
           /\ client'[c] = [client[c] EXCEPT !.step = step]
           /\ client'[c].step = step /\ client'[c].op = client[c].op
           /\ client'[c].ids = client[c].ids /\ client'[c].title = client[c].title
           /\ client'[c].query = client[c].query
           /\ \A d \in Clients \ {c} : client'[d] = client[d]
<1>1. client[c] \in Asking /\ client' = [client EXCEPT ![c] = [client[c] EXCEPT !.step = step]]
  BY DEF NotesType, N!Goto
<1>2. PICK q : q = [client[c] EXCEPT !.step = step]
  OBVIOUS
<1>3. /\ q \in Asking /\ q.step = step /\ q.op = client[c].op
      /\ q.ids = client[c].ids /\ q.title = client[c].title /\ q.query = client[c].query
  BY <1>1, <1>2 DEF Asking
<1> QED BY <1>1, <1>2, <1>3 DEF NotesType

LEMMA TellEffect ==
    ASSUME NotesType, NEW c \in Clients, NEW what, N!Tell(c, what)
    PROVE  /\ DOMAIN told' = Clients /\ told'[c] = told[c] \cup what
           /\ \A d \in Clients \ {c} : told'[d] = told[d]
BY DEF NotesType, N!Tell

LEMMA LeaveEffect ==
    ASSUME NotesType, NEW c \in Clients, NEW step \in {"done", "failed"}, NEW noted \in BOOLEAN,
           N!Leave(c, step, noted)
    PROVE  /\ client' \in [Clients -> Asking] /\ client'[c].step = step /\ client'[c].noted = noted
           /\ \A d \in Clients \ {c} : client'[d] = client[d]
<1>1. PICK q : q = [N!Resting EXCEPT !.step = step, !.noted = noted]
  OBVIOUS
<1>2. q \in Asking /\ q.step = step /\ q.noted = noted
  BY <1>1 DEF N!Resting, Asking, CallSteps
<1>3. client' = [client EXCEPT ![c] = q]
  BY <1>1 DEF N!Leave
<1> QED BY <1>2, <1>3 DEF NotesType

LEMMA AnswerEffect ==
    ASSUME NotesType, NEW c \in Clients, NEW what, N!Answer(c, what)
    PROVE  /\ OnlyOf(c) /\ client'[c].step = "done" /\ client'[c].noted = FALSE
           /\ told'[c] = told[c] \cup what
<1>1. N!Leave(c, "done", FALSE) /\ N!Tell(c, what)
  BY DEF N!Answer
<1> QED BY <1>1, LeaveEffect, TellEffect DEF OnlyOf

LEMMA RaiseEffect ==
    ASSUME NotesType, NEW c \in Clients, N!Raise(c)
    PROVE  OnlyOf(c) /\ client'[c].step = "failed" /\ told'[c] = {}
<1>1. N!Leave(c, "failed", FALSE) /\ told' = [told EXCEPT ![c] = {}]
  BY DEF N!Raise
<1>2. DOMAIN told' = Clients /\ told'[c] = {} /\ \A d \in Clients \ {c} : told'[d] = told[d]
  BY <1>1 DEF NotesType
<1> QED BY <1>1, <1>2, LeaveEffect DEF OnlyOf

\* A call's own step: what it tells is true, and where it goes is asked as it should be.
Well(c) ==
    /\ OnlyOf(c) /\ client'[c].step # "idle"
    /\ told'[c] \subseteq IF Open(c) THEN had[c] ELSE {}
    /\ Shape(c)'
    /\ client[c].step \notin {"done", "failed"}

LEMMA Ending ==
    ASSUME NotesType, NEW c \in Clients, Open(c), OnlyOf(c),
           client'[c].step \in {"done", "failed"}, told'[c] \subseteq had[c]
    PROVE  Well(c) /\ client'[c].step # "hits"
BY DEF Well, Shape, Open

LEMMA AnswerWell ==
    ASSUME NoteInv, NEW c \in Clients, Open(c), NEW what, what \subseteq had[c], N!Answer(c, what)
    PROVE  Well(c) /\ client'[c].step # "hits"
<1>1. NotesType /\ told[c] \subseteq had[c]
  BY DEF NoteInv, Recalls
<1>2. OnlyOf(c) /\ client'[c].step = "done" /\ told'[c] = told[c] \cup what
  BY <1>1, AnswerEffect
<1>3. told'[c] \subseteq had[c]
  BY <1>1, <1>2
<1> QED BY <1>1, <1>2, <1>3, Ending

LEMMA RaiseWell ==
    ASSUME NoteInv, NEW c \in Clients, Open(c), N!Raise(c)
    PROVE  Well(c) /\ client'[c].step # "hits"
<1>1. NotesType
  BY DEF NoteInv
<1>2. OnlyOf(c) /\ client'[c].step = "failed" /\ told'[c] \subseteq had[c]
  BY <1>1, RaiseEffect
<1> QED BY <1>1, <1>2, Ending

LEMMA AskWell ==
    ASSUME NoteInv, NEW c \in Clients, N!Ask(c)
    PROVE  Well(c) /\ client'[c].step \notin {"hits", "done"}
<1>1. PICK op \in N!Ops, ids \in SUBSET N!Ids, q \in N!Queries \cup {None}, t \in N!Titles \cup {None} :
        /\ N!Cardinality(ids) = CASE op \in {"notes", "notes_all", "create"} -> 0
                                [] op = "note_bodies" -> 2
                                [] OTHER -> 1
        /\ (q = None) = (op # "notes")
        /\ (t = None) = (op \notin {"create", "update"})
        /\ client' = [client EXCEPT ![c] = [N!Resting EXCEPT !.op = op, !.ids = ids,
                          !.query = q, !.title = t, !.step = N!EntryStep(op)]]
  BY DEF N!Ask
<1>2. PICK now : now = [N!Resting EXCEPT !.op = op, !.ids = ids, !.query = q, !.title = t,
                                         !.step = N!EntryStep(op)]
  OBVIOUS
<1>3. N!EntryStep(op) \in CallSteps \ {"idle", "hits", "rows app", "bodies app", "title app", "gaps",
                                       "trash", "done", "failed"}
  BY DEF N!EntryStep, CallSteps
<1>4. /\ now \in Asking /\ now.op = op /\ now.ids = ids /\ now.title = t /\ now.step = N!EntryStep(op)
      /\ now.query = q
  BY <1>2, <1>3 DEF N!Resting, Asking, CallSteps
<1>5. NotesType /\ Shape(c) /\ client[c].step = "idle" /\ told' = told
  BY DEF NoteInv, N!Ask, N!At
<1>6. OnlyOf(c) /\ client'[c] = now /\ told'[c] = {}
  BY <1>1, <1>2, <1>4, <1>5 DEF OnlyOf, NotesType, Shape
<1>7. ids = {} => op \in {"notes", "notes_all", "create"}
  <2>1. Cardinality(ids) = 0 => op \in {"notes", "notes_all", "create"}
    BY <1>1, SameCount
  <2> QED BY <2>1, FS_EmptySet
<1>8. Shape(c)'
  BY <1>1, <1>4, <1>6, <1>7 DEF Shape, N!EntryStep, N!Ops
<1> QED BY <1>3, <1>4, <1>5, <1>6, <1>8 DEF Well, Open

LEMMA ReadRowsWell ==
    ASSUME NoteInv, NEW c \in Clients, N!ReadRows(c)
    PROVE  Well(c) /\ (client'[c].step = "hits" =>
              /\ client'[c].opened = store /\ client'[c].rows = N!Live(disk[store])
              /\ client'[c].titled = {p \in N!Live(disk[store]) :
                    N!TitleHit(disk[store][p]) \/ N!SnippetHit(disk[store][p])}
              /\ Cardinality(client'[c].titled) < MaxNotes)
<1>1. PICK f, live1, titled :
        /\ f = disk[store] /\ live1 = N!Live(f)
        /\ titled = {p \in live1 : N!TitleHit(f[p]) \/ N!SnippetHit(f[p])}
  OBVIOUS
<1>2. NotesType /\ Recalls(c) /\ Shape(c) /\ client[c].step = "rows" /\ Open(c) /\ told[c] = {}
  BY DEF NoteInv, N!ReadRows, N!At, Open, Shape
<1>3. CASE \E S \in SUBSET live1 : N!Answer(c, N!Listed(store, S))
  <2>1. PICK S \in SUBSET live1 : N!Answer(c, N!Listed(store, S))
    BY <1>3
  <2>2. N!Listed(store, S) \subseteq had[c]
    BY <1>1, <1>2, ListedIsFact DEF Recalls
  <2>3. client'[c].step # "hits" /\ Well(c)
    BY <1>2, <2>1, <2>2, AnswerWell
  <2> QED BY <2>3
<1>4. CASE /\ client[c].op = "notes" /\ Cardinality(titled) < MaxNotes
           /\ client' = [client EXCEPT ![c].step = "hits", ![c].opened = store,
                                       ![c].rows = live1, ![c].titled = titled]
           /\ UNCHANGED told
  <2>1. client[c] \in Asking
    BY <1>2 DEF NotesType
  <2>2. PICK q : q = [client[c] EXCEPT !.step = "hits", !.opened = store, !.rows = live1, !.titled = titled]
    OBVIOUS
  <2>3. live1 \subseteq Pks /\ titled \subseteq live1 /\ store \in Uuids
    BY <1>1, <1>2 DEF N!Live, NotesType
  <2>4. /\ q \in Asking /\ q.step = "hits" /\ q.opened = store /\ q.rows = live1 /\ q.titled = titled
        /\ q.op = client[c].op /\ q.query = client[c].query
    BY <2>1, <2>2, <2>3 DEF Asking, CallSteps
  <2>5. client' = [client EXCEPT ![c] = q]
    BY <1>4, <2>2
  <2>8. /\ client'[c] = q /\ client' \in [Clients -> Asking]
        /\ \A d \in Clients \ {c} : client'[d] = client[d]
    BY <1>2, <2>4, <2>5 DEF NotesType
  <2>6. client'[c] = q /\ OnlyOf(c) /\ told'[c] = {}
    BY <1>2, <1>4, <2>8 DEF OnlyOf, NotesType
  <2>7. Shape(c)'
    BY <1>2, <1>4, <2>4, <2>6 DEF Shape
  <2> QED BY <1>1, <1>2, <1>4, <2>4, <2>6, <2>7 DEF Well
<1>5. N!Newest(live1) \subseteq live1 /\ N!Newest(titled) \subseteq live1
  BY <1>1 DEF N!Newest
<1>6. \/ \E S \in {N!Newest(live1), N!Newest(titled)} : N!Answer(c, N!Listed(store, S))
      \/ /\ client[c].op = "notes" /\ Cardinality(titled) < MaxNotes
         /\ client' = [client EXCEPT ![c].step = "hits", ![c].opened = store,
                                     ![c].rows = live1, ![c].titled = titled]
         /\ UNCHANGED told
  <2>1. PICK g, hits :
          /\ g = disk[store] /\ hits = {p \in N!Live(g) : N!TitleHit(g[p]) \/ N!SnippetHit(g[p])}
          /\ \/ N!Answer(c, N!Listed(store, N!Newest(N!Live(g))))
             \/ N!Answer(c, N!Listed(store, N!Newest(hits)))
             \/ /\ client[c].op = "notes" /\ Cardinality(hits) < MaxNotes
                /\ client' = [client EXCEPT ![c].step = "hits", ![c].opened = store,
                                            ![c].rows = N!Live(g), ![c].titled = hits]
                /\ UNCHANGED told
    BY SameCount DEF N!ReadRows
  <2>2. hits = titled /\ N!Live(g) = live1
    BY <1>1, <2>1
  <2> QED BY <2>1, <2>2
<1> QED BY <1>3, <1>4, <1>5, <1>6

LEMMA ReadHitsWell ==
    ASSUME NoteInv, NEW c \in Clients, N!ReadHits(c) \/ N!CannotReadHits(c)
    PROVE  Well(c) /\ client'[c].step # "hits"
<1>1. /\ NotesType /\ Recalls(c) /\ BetweenReads(c) /\ Shape(c)
      /\ client[c].step = "hits" /\ Open(c) /\ told[c] = {}
  BY DEF NoteInv, N!ReadHits, N!CannotReadHits, N!At, Open, Shape
<1>2. PICK q : q = client[c]
  OBVIOUS
<1>3. q.titled \subseteq q.rows /\ N!Listed(q.opened, q.rows) \subseteq had[c]
  BY <1>1, <1>2 DEF BetweenReads
<1>4. ASSUME NEW S \in SUBSET q.rows PROVE N!Listed(q.opened, S) \subseteq had[c]
  BY <1>3 DEF N!Listed
<1>5. CASE N!ReadHits(c)
  <2>1. PICK f, more : f = disk[q.opened]
          /\ more = {p \in (N!Live(f) \cap q.rows) \ q.titled : N!BodyHit(f[p])}
    OBVIOUS
  <2>2. PICK few \in N!Cut(more, MaxNotes - Cardinality(q.titled)) :
          N!Answer(c, N!Listed(q.opened, q.titled \cup few))
    <3>1. PICK g, rest : g = disk[client[c].opened]
            /\ rest = {p \in (N!Live(g) \cap client[c].rows) \ client[c].titled : N!BodyHit(g[p])}
            /\ \E few \in N!Cut(rest, MaxNotes - Cardinality(client[c].titled)) :
                  N!Answer(c, N!Listed(client[c].opened, client[c].titled \cup few))
      BY <1>5, SameCount DEF N!ReadHits
    <3>2. rest = more
      BY <1>2, <2>1, <3>1
    <3> QED BY <1>2, <3>1, <3>2
  <2>3. q.titled \cup few \subseteq q.rows
    BY <1>3, <2>1, <2>2 DEF N!Cut
  <2> QED BY <1>1, <1>4, <2>2, <2>3, AnswerWell
<1>6. CASE N!CannotReadHits(c)
  <2>1. N!Leave(c, "done", TRUE) /\ N!Tell(c, N!Listed(q.opened, q.titled))
    BY <1>2, <1>6 DEF N!CannotReadHits
  <2>3. PICK what : what = N!Listed(q.opened, q.titled) /\ what \subseteq had[c]
    BY <1>3, <1>4
  <2>4. /\ client' \in [Clients -> Asking] /\ client'[c].step = "done"
        /\ \A d \in Clients \ {c} : client'[d] = client[d]
    BY <1>1, <2>1, LeaveEffect
  <2>5. /\ DOMAIN told' = Clients /\ told'[c] = told[c] \cup what
        /\ \A d \in Clients \ {c} : told'[d] = told[d]
    BY <1>1, <2>1, <2>3, TellEffect
  <2>2. OnlyOf(c) /\ client'[c].step = "done" /\ told'[c] \subseteq had[c]
    BY <1>1, <2>3, <2>4, <2>5 DEF OnlyOf
  <2> QED BY <1>1, <2>2, Ending
<1> QED BY <1>5, <1>6

LEMMA FallsBackWell ==
    ASSUME NoteInv, NEW c \in Clients, N!FallsBack(c) PROVE Well(c) /\ client'[c].step # "hits"
<1>1. /\ NotesType /\ Recalls(c) /\ Shape(c) /\ Open(c) /\ told' = told
      /\ client[c].step \in {"rows", "bodies", "title"}
  BY DEF NoteInv, N!FallsBack, Open
<1>2. PICK step : N!Goto(c, step)
          /\ step = CASE N!At(c, "rows") -> "rows app" [] N!At(c, "bodies") -> "bodies app"
                      [] OTHER -> "title app"
  BY DEF N!FallsBack
<1>3. \/ client[c].step = "rows" /\ step = "rows app"
      \/ client[c].step = "bodies" /\ step = "bodies app"
      \/ client[c].step = "title" /\ step = "title app"
  BY <1>1, <1>2 DEF N!At
<1>4. step \in CallSteps
  BY <1>3 DEF CallSteps
<1>5. /\ client' \in [Clients -> Asking] /\ client'[c].step = step /\ client'[c].op = client[c].op
      /\ client'[c].query = client[c].query
      /\ client'[c].ids = client[c].ids /\ client'[c].title = client[c].title
      /\ \A d \in Clients \ {c} : client'[d] = client[d]
  BY <1>1, <1>2, <1>4, CallGoes
<1>6. OnlyOf(c)
  BY <1>1, <1>5 DEF OnlyOf, NotesType
<1>7. Shape(c)'
  BY <1>1, <1>3, <1>5 DEF Shape, Open
<1> QED BY <1>1, <1>3, <1>5, <1>6, <1>7 DEF Well, Recalls, Open

LEMMA ListInAppWell ==
    ASSUME NoteInv, NEW c \in Clients, N!ListInApp(c) PROVE Well(c) /\ client'[c].step # "hits"
<1>1. NotesType /\ Recalls(c) /\ Open(c)
  BY DEF NoteInv, N!ListInApp, N!At, Open
<1>2. PICK S \in SUBSET N!Live(app) : N!Tell(c, N!Listed(store, S))
  BY DEF N!ListInApp, N!Cut
<1>3. N!Listed(store, S) \subseteq had[c]
  BY <1>1, ListedInApp DEF Recalls
<1>4. \E noted \in BOOLEAN : N!Leave(c, "done", noted)
  BY DEF N!ListInApp
<1>5. OnlyOf(c) /\ client'[c].step = "done" /\ told'[c] \subseteq had[c]
  BY <1>1, <1>2, <1>3, <1>4, LeaveEffect, TellEffect DEF OnlyOf, Recalls
<1> QED BY <1>1, <1>5, Ending

LEMMA ReadBodiesWell ==
    ASSUME NoteInv, NEW c \in Clients, N!ReadBodies(c) PROVE Well(c) /\ client'[c].step # "hits"
<1>1. NotesType /\ Recalls(c) /\ Shape(c) /\ Open(c) /\ client[c].step = "bodies"
  BY DEF NoteInv, N!ReadBodies, N!At, Open
<1>2. PICK f, found, texts :
        /\ f = disk[store]
        /\ found = {id \in client[c].ids :
                       N!Local(id, store) /\ id[2] \in {p \in N!Present(f) : N!Searchable(f[p])}}
        /\ texts = {<<id, "body", f[id[2]].body>> : id \in found}
  OBVIOUS
<1>3. texts \subseteq had[c]
  <2>1. ASSUME NEW id \in found PROVE <<id, "body", f[id[2]].body>> \in N!Facts
    <3>1. id \in N!Ids /\ N!Local(id, store) /\ disk[store][id[2]] # None
      BY <1>1, <1>2, <2>1 DEF NotesType, Asking, N!Present
    <3> QED BY <1>1, <1>2, <3>1, StoredIsFact
  <2> QED BY <1>1, <1>2, <2>1 DEF Recalls
<1>4. CASE N!Answer(c, texts)
  <2> QED BY <1>1, <1>3, <1>4, AnswerWell
<1>5. CASE /\ client' = [client EXCEPT ![c].step = "gaps", ![c].ids = client[c].ids \ found]
           /\ N!Tell(c, texts)
  <2>1. PICK q : q = [client[c] EXCEPT !.step = "gaps", !.ids = client[c].ids \ found]
    OBVIOUS
  <2>2. client[c] \in Asking
    BY <1>1 DEF NotesType
  <2>3. q \in Asking /\ q.step = "gaps" /\ q.op = client[c].op
    BY <2>1, <2>2 DEF Asking, CallSteps
  <2>4. client' = [client EXCEPT ![c] = q]
    BY <1>5, <2>1
  <2>7. /\ client'[c] = q /\ client' \in [Clients -> Asking]
        /\ \A d \in Clients \ {c} : client'[d] = client[d]
    BY <1>1, <2>3, <2>4 DEF NotesType
  <2>8. /\ DOMAIN told' = Clients /\ told'[c] = told[c] \cup texts
        /\ \A d \in Clients \ {c} : told'[d] = told[d]
    BY <1>1, <1>5, TellEffect
  <2>5. client'[c] = q /\ OnlyOf(c) /\ told'[c] \subseteq had[c]
    BY <1>1, <1>3, <2>7, <2>8 DEF OnlyOf, Recalls
  <2>6. Shape(c)'
    BY <1>1, <2>3, <2>5 DEF Shape
  <2> QED BY <1>1, <2>3, <2>5, <2>6 DEF Well
<1> QED BY <1>2, <1>4, <1>5 DEF N!ReadBodies

LEMMA BodiesFromAppWell ==
    ASSUME NoteInv, NEW c \in Clients, N!BodiesFromApp(c) \/ N!NoGapsFilled(c)
    PROVE  Well(c) /\ client'[c].step # "hits"
<1>1. NotesType /\ Recalls(c) /\ Open(c)
  BY DEF NoteInv, N!BodiesFromApp, N!NoGapsFilled, N!At, Open
<1>2. PICK texts : N!Answer(c, texts)
          /\ texts \in {{}, {<<id, "body", N!ShownAs(id).body>> :
                                id \in {i \in N!InApp(client[c].ids) : ~N!ShownAs(i).locked}}}
  BY DEF N!BodiesFromApp, N!NoGapsFilled
<1>3. texts \subseteq had[c]
  <2>1. ASSUME NEW id \in N!InApp(client[c].ids) PROVE <<id, "body", N!ShownAs(id).body>> \in N!Facts
    <3>1. id \in N!Ids /\ N!ShownAs(id) # None
      BY <1>1, <2>1 DEF NotesType, Asking, N!InApp
    <3> QED BY <1>1, <3>1, ShownIsFact
  <2> QED BY <1>1, <1>2, <2>1 DEF Recalls
<1> QED BY <1>1, <1>2, <1>3, AnswerWell

LEMMA TitleWell ==
    ASSUME NoteInv, NEW c \in Clients, client[c].step \in {"title", "title app"},
           NEW t, N!WithTitle(c, t),
           t # None => <<N!Id(c), "title", t>> \in N!Facts
    PROVE  Well(c) /\ client'[c].step # "hits"
<1>1. NotesType /\ Recalls(c) /\ Shape(c) /\ Open(c)
  BY DEF NoteInv, Open
<1>2. PICK id : id = N!Id(c)
  OBVIOUS
<1>3. t # None => {<<id, "title", t>>} \subseteq had[c]
  BY <1>1, <1>2 DEF Recalls
<1>4. ASSUME NEW what \in SUBSET had[c], N!Answer(c, what) PROVE Well(c) /\ client'[c].step # "hits"
  BY <1>1, <1>4, AnswerWell
<1>5. ASSUME N!Raise(c) PROVE Well(c) /\ client'[c].step # "hits"
  BY <1>1, <1>5, RaiseWell
<1>6. CASE client[c].op = "snapshot"
  <2>1. N!Answer(c, IF t = None THEN {} ELSE {<<id, "title", t>>})
    BY <1>2, <1>6 DEF N!WithTitle
  <2>2. (IF t = None THEN {} ELSE {<<id, "title", t>>}) \in SUBSET had[c]
    BY <1>3
  <2> QED BY <1>4, <2>1, <2>2
<1>7. CASE client[c].op = "update preview"
  <2>1. CASE t = None
    <3>1. N!Raise(c)
      BY <1>7, <2>1 DEF N!WithTitle
    <3> QED BY <1>5, <3>1
  <2>2. CASE t # None
    <3>1. N!Goto(c, "bodies") /\ N!Tell(c, {<<id, "title", t>>})
      BY <1>2, <1>7, <2>2 DEF N!WithTitle
    <3>2. "bodies" \in CallSteps
      BY DEF CallSteps
    <3>3. /\ OnlyOf(c) /\ client'[c].step = "bodies" /\ client'[c].op = client[c].op
          /\ told'[c] = told[c] \cup {<<id, "title", t>>}
      BY <1>1, <3>1, <3>2, CallGoes, TellEffect DEF OnlyOf
    <3>4. Shape(c)'
      BY <1>7, <3>3 DEF Shape
    <3>5. told'[c] \subseteq had[c]
      BY <1>1, <1>3, <2>2, <3>3 DEF Recalls
    <3> QED BY <1>1, <3>3, <3>4, <3>5 DEF Well, Open
  <2> QED BY <2>1, <2>2
<1>8. CASE client[c].op \notin {"snapshot", "update preview"}
  <2>1. IF t = client[c].title THEN N!Answer(c, {<<id, "title", t>>}) ELSE N!Raise(c)
    BY <1>2, <1>8 DEF N!WithTitle
  <2>2. CASE t = client[c].title /\ t # None
    BY <1>3, <1>4, <2>1, <2>2
  <2>3. CASE t # client[c].title
    BY <1>5, <2>1, <2>3
  <2>4. client[c].title # None
    <3>1. client[c].op \in {"create", "update"}
      BY <1>1, <1>8 DEF Shape
    <3> QED BY <1>1, <3>1 DEF Shape
  <2> QED BY <2>2, <2>3, <2>4
<1> QED BY <1>6, <1>7, <1>8

LEMMA TitlesWell ==
    ASSUME NoteInv, NEW c \in Clients, N!ReadTitle(c) \/ N!TitleInApp(c)
    PROVE  Well(c) /\ client'[c].step # "hits"
<1>1. NotesType /\ Shape(c) /\ client[c].step \in {"title", "title app"}
  BY DEF NoteInv, N!ReadTitle, N!TitleInApp, N!At
<1>2. PICK id : id = N!Id(c)
  OBVIOUS
<1>3. id \in N!Ids
  <2>1. client[c].ids # {} /\ client[c].ids \subseteq N!Ids
    BY <1>1 DEF Shape, NotesType, Asking
  <2> QED BY <1>2, <2>1 DEF N!Id
<1>4. CASE N!ReadTitle(c)
  <2>1. PICK t : N!WithTitle(c, t)
          /\ t = IF N!Local(id, store) /\ disk[store][id[2]] # None
                 THEN disk[store][id[2]].title ELSE None
    BY <1>2, <1>4 DEF N!ReadTitle
  <2>2. t # None => <<id, "title", t>> \in N!Facts
    BY <1>1, <1>3, <2>1, StoredIsFact
  <2> QED BY <1>1, <1>2, <2>1, <2>2, TitleWell
<1>5. CASE N!TitleInApp(c)
  <2>1. PICK t : N!WithTitle(c, t) /\ t = IF N!ShownAs(id) # None THEN N!ShownAs(id).title ELSE None
    BY <1>2, <1>5 DEF N!TitleInApp
  <2>2. t # None => <<id, "title", t>> \in N!Facts
    BY <1>1, <1>3, <2>1, ShownIsFact
  <2> QED BY <1>1, <1>2, <2>1, <2>2, TitleWell
<1> QED BY <1>4, <1>5

LEMMA WritesWell ==
    ASSUME NoteInv, NEW c \in Clients, N!Create(c) \/ N!Update(c)
    PROVE  Well(c) /\ client'[c].step # "hits" /\ DOMAIN app' = Pks
<1>1. /\ NotesType /\ Recalls(c) /\ Shape(c) /\ Open(c) /\ client[c].step = "write" /\ told' = told
      /\ client[c].op \in {"create", "update"}
  BY DEF NoteInv, N!Create, N!Update, N!At, Open
<1>2. told'[c] \subseteq had[c] /\ client[c] \in Asking
  BY <1>1 DEF Recalls, NotesType
<1>3. ASSUME NEW q \in Asking, q.step = "title", q.op = client[c].op, q.title = client[c].title,
             q.ids # {}, client'[c] = q, client' \in [Clients -> Asking],
             \A d \in Clients \ {c} : client'[d] = client[d]
      PROVE  Well(c) /\ client'[c].step # "hits"
  <2>1. OnlyOf(c)
    BY <1>1, <1>3 DEF OnlyOf, NotesType
  <2>2. Shape(c)'
    BY <1>1, <1>3 DEF Shape, Open
  <2> QED BY <1>1, <1>2, <1>3, <2>1, <2>2 DEF Well, Open
<1>4. CASE N!Create(c)
  <2>1. PICK p \in N!Fresh :
          /\ app' = [app EXCEPT ![p] = N!Written(client[c].title)]
          /\ client' = [client EXCEPT ![c].step = "title", ![c].ids = {<<store, p>>}]
    BY <1>4 DEF N!Create
  <2>2. PICK q : q = [client[c] EXCEPT !.step = "title", !.ids = {<<store, p>>}]
    OBVIOUS
  <2>3. <<store, p>> \in N!Ids
    BY <1>1, <2>1 DEF NotesType, N!Ids, N!Fresh
  <2>4. /\ q \in Asking /\ q.step = "title" /\ q.op = client[c].op /\ q.title = client[c].title
        /\ q.ids # {}
    BY <1>2, <2>2, <2>3 DEF Asking, CallSteps
  <2>5. client' = [client EXCEPT ![c] = q]
    BY <2>1, <2>2
  <2>6. client'[c] = q /\ client' \in [Clients -> Asking] /\ \A d \in Clients \ {c} : client'[d] = client[d]
    BY <1>1, <2>4, <2>5 DEF NotesType
  <2>7. DOMAIN app' = Pks
    BY <1>1, <2>1 DEF NotesType
  <2> QED BY <1>3, <2>4, <2>6, <2>7
<1>5. CASE N!Update(c)
  <2>1. N!Goto(c, "title") /\ client[c].op = "update" /\ DOMAIN app' = Pks
    BY <1>1, <1>5 DEF N!Update, NotesType
  <2>2. "title" \in CallSteps
    BY DEF CallSteps
  <2>3. /\ client'[c].step = "title" /\ client'[c].op = client[c].op
        /\ client'[c].ids = client[c].ids /\ client'[c].title = client[c].title
        /\ client' \in [Clients -> Asking] /\ \A d \in Clients \ {c} : client'[d] = client[d]
    BY <1>1, <2>1, <2>2, CallGoes
  <2>4. client[c].ids # {} /\ client'[c] \in Asking
    BY <1>1, <2>1, <2>3 DEF Shape
  <2> QED BY <1>3, <2>1, <2>3, <2>4
<1> QED BY <1>4, <1>5

LEMMA DeletesWell ==
    ASSUME NoteInv, NEW c \in Clients, N!Check(c) \/ N!Trash(c)
    PROVE  Well(c) /\ client'[c].step # "hits" /\ DOMAIN app' = Pks
<1>1. NotesType /\ Recalls(c) /\ Shape(c) /\ Open(c) /\ client[c].step \in {"check", "trash"}
  BY DEF NoteInv, N!Check, N!Trash, N!At, Open
<1>2. PICK id : id = N!Id(c)
  OBVIOUS
<1>3. id \in N!Ids
  <2>1. client[c].ids # {} /\ client[c].ids \subseteq N!Ids
    BY <1>1 DEF Shape, NotesType, Asking
  <2> QED BY <1>2, <2>1 DEF N!Id
<1>4. CASE N!Check(c)
  <2>1. /\ N!ShownAs(id) # None /\ app' = app /\ client[c].step = "check"
        /\ \/ N!Goto(c, "trash") /\ told' = told
           \/ N!Answer(c, {<<id, "title", N!ShownAs(id).title>>})
    BY <1>2, <1>4 DEF N!Check, N!At
  <2>2. CASE N!Goto(c, "trash") /\ told' = told
    <3>1. "trash" \in CallSteps
      BY DEF CallSteps
    <3>2. /\ client'[c].step = "trash" /\ client'[c].op = client[c].op
          /\ client'[c].ids = client[c].ids /\ client'[c].title = client[c].title
          /\ client' \in [Clients -> Asking] /\ \A d \in Clients \ {c} : client'[d] = client[d]
      BY <1>1, <2>2, <3>1, CallGoes
    <3>3. OnlyOf(c)
      BY <1>1, <2>2, <3>2 DEF OnlyOf, NotesType
    <3>4. Shape(c)'
      BY <1>1, <2>1, <3>2 DEF Shape, Open
    <3> QED BY <1>1, <2>1, <2>2, <3>2, <3>3, <3>4 DEF Well, Open, Recalls, NotesType
  <2>3. CASE N!Answer(c, {<<id, "title", N!ShownAs(id).title>>})
    <3>1. {<<id, "title", N!ShownAs(id).title>>} \subseteq had[c]
      BY <1>1, <1>3, <2>1, ShownIsFact DEF Recalls
    <3> QED BY <1>1, <2>1, <2>3, <3>1, AnswerWell DEF NotesType
  <2> QED BY <2>1, <2>2, <2>3
<1>5. CASE N!Trash(c)
  <2>1. N!Answer(c, {}) /\ DOMAIN app' = Pks
    BY <1>1, <1>5 DEF N!Trash, NotesType
  <2> QED BY <1>1, <2>1, AnswerWell
<1> QED BY <1>4, <1>5

LEMMA FailsWell ==
    ASSUME NoteInv, NEW c \in Clients, N!Fails(c) PROVE Well(c) /\ client'[c].step # "hits"
<1>1. Open(c) /\ N!Raise(c)
  BY DEF N!Fails, Open
<1> QED BY <1>1, RaiseWell

LEMMA CallWell ==
    ASSUME NoteInv, NEW c \in Clients, N!Call(c)
    PROVE  /\ Well(c) /\ DOMAIN app' = Pks
           /\ client'[c].step = "hits" => N!ReadRows(c)
<1>1. app' = app => DOMAIN app' = Pks
  BY DEF NoteInv, NotesType
<1>2. CASE N!Create(c) \/ N!Update(c)
  BY <1>2, WritesWell
<1>3. CASE N!Check(c) \/ N!Trash(c)
  BY <1>3, DeletesWell
<1>4. CASE N!ReadRows(c)
  <2>1. app' = app
    BY <1>4 DEF N!ReadRows
  <2> QED BY <1>1, <1>4, <2>1, ReadRowsWell
<1>5. CASE N!Ask(c)
  <2>1. app' = app
    BY <1>5 DEF N!Ask
  <2> QED BY <1>1, <1>5, <2>1, AskWell
<1>6. CASE N!ReadHits(c) \/ N!CannotReadHits(c)
  <2>1. app' = app
    BY <1>6 DEF N!ReadHits, N!CannotReadHits
  <2> QED BY <1>1, <1>6, <2>1, ReadHitsWell
<1>7. CASE N!FallsBack(c)
  <2>1. app' = app
    BY <1>7 DEF N!FallsBack
  <2> QED BY <1>1, <1>7, <2>1, FallsBackWell
<1>8. CASE N!ListInApp(c)
  <2>1. app' = app
    BY <1>8 DEF N!ListInApp
  <2> QED BY <1>1, <1>8, <2>1, ListInAppWell
<1>9. CASE N!ReadBodies(c)
  <2>1. app' = app
    BY <1>9 DEF N!ReadBodies
  <2> QED BY <1>1, <1>9, <2>1, ReadBodiesWell
<1>10. CASE N!BodiesFromApp(c) \/ N!NoGapsFilled(c)
  <2>1. app' = app
    BY <1>10 DEF N!BodiesFromApp, N!NoGapsFilled
  <2> QED BY <1>1, <1>10, <2>1, BodiesFromAppWell
<1>11. CASE N!ReadTitle(c) \/ N!TitleInApp(c)
  <2>1. app' = app
    BY <1>11 DEF N!ReadTitle, N!TitleInApp
  <2> QED BY <1>1, <1>11, <2>1, TitlesWell
<1>12. CASE N!Fails(c)
  <2>1. app' = app
    BY <1>12 DEF N!Fails
  <2> QED BY <1>1, <1>12, <2>1, FailsWell
<1> QED BY <1>2, <1>3, <1>4, <1>5, <1>6, <1>7, <1>8, <1>9, <1>10, <1>11, <1>12 DEF N!Call

-----------------------------------------------------------------------------
(* The histories.                                                          *)

LEMMA Remembered ==
    ASSUME N!Remembers, NEW c \in Clients, Open(c)'
    PROVE  /\ N!Facts' \subseteq had'[c]
           /\ client[c].step # "idle" => had[c] \subseteq had'[c]
           /\ client[c].step = "idle" => unmoved'[c] = N!InStep(store', app', disk')
           /\ client[c].step # "idle" =>
                 unmoved'[c] = {p \in unmoved[c] : store' = store /\ app'[p] = app[p]
                                                   /\ disk'[store][p] = disk[store][p]}
<1>1. ~(N!Ended(c)') /\ ~(N!At(c, "idle")')
  BY DEF N!Ended, N!At, Open
<1>2. N!At(c, "idle") = (client[c].step = "idle")
  BY DEF N!At
<1>3. had'[c] = IF client[c].step = "idle" THEN N!Facts' ELSE had[c] \cup N!Facts'
  BY <1>1, <1>2 DEF N!Remembers
<1>4. unmoved'[c] = IF client[c].step = "idle" THEN N!InStep(store', app', disk')
                    ELSE {p \in unmoved[c] : store' = store /\ app'[p] = app[p]
                                             /\ disk'[store][p] = disk[store][p]}
  BY <1>1, <1>2 DEF N!Remembers
<1> QED BY <1>3, <1>4

LEMMA StaysKept ==
    ASSUME N!Remembers, NEW c \in Clients, Stays(c), client[c].step \notin {"done", "failed"}
    PROVE  Stays(c)'
<1> SUFFICES ASSUME Open(c)', NEW p \in unmoved'[c]
             PROVE  p \in Pks /\ app'[p] # None /\ disk'[store'][p] = app'[p]
  BY DEF Stays
<1>1. CASE client[c].step = "idle"
  <2>1. p \in N!InStep(store', app', disk')
    BY <1>1, Remembered
  <2> QED BY <2>1 DEF N!InStep
<1>2. CASE client[c].step # "idle"
  <2>1. p \in unmoved[c] /\ store' = store /\ app'[p] = app[p] /\ disk'[store][p] = disk[store][p]
    BY <1>2, Remembered
  <2>2. Open(c)
    BY <1>2 DEF Open
  <2> QED BY <2>1, <2>2 DEF Stays
<1> QED BY <1>1, <1>2

\* A call that takes no step.
LEMMA Waits ==
    ASSUME NoteInv, N!Remembers, NEW c \in Clients, client'[c] = client[c], told'[c] = told[c]
    PROVE  (Recalls(c) /\ Shape(c) /\ Stays(c) /\ BetweenReads(c))'
<1>1. Recalls(c) /\ Shape(c) /\ Stays(c) /\ BetweenReads(c)
  BY DEF NoteInv
<1>2. Shape(c)'
  BY <1>1 DEF Shape, Open
<1>3. Open(c)' = Open(c)
  BY DEF Open
<1>4. CASE ~Open(c)
  BY <1>2, <1>3, <1>4 DEF Recalls, Stays, BetweenReads, Open
<1>5. CASE Open(c)
  <2>1. client[c].step \notin {"idle", "done", "failed"}
    BY <1>5 DEF Open
  <2>2. N!Facts' \subseteq had'[c] /\ had[c] \subseteq had'[c]
    BY <1>3, <1>5, <2>1, Remembered
  <2>3. Recalls(c)'
    BY <1>1, <1>5, <2>2 DEF Recalls
  <2>4. Stays(c)'
    BY <1>1, <2>1, StaysKept
  <2>5. ASSUME NEW p \in unmoved'[c] PROVE p \in unmoved[c] /\ store' = store /\ app'[p] = app[p]
    BY <1>3, <1>5, <2>1, <2>5, Remembered
  <2>6. BetweenReads(c)'
    <3> SUFFICES ASSUME client[c].step = "hits" PROVE BetweenReads(c)'
      BY DEF BetweenReads
    <3>1. PICK q : q = client[c] /\ q = client'[c]
      OBVIOUS
    <3>2. /\ q.opened \in Uuids /\ q.titled \subseteq q.rows
          /\ N!Listed(q.opened, q.rows) \subseteq had[c]
          /\ Cardinality(q.titled) < MaxNotes
          /\ \A p \in unmoved[c] :
                /\ q.opened = store /\ (p \in q.rows <=> app[p].at = "folder")
                /\ p \in q.titled <=> p \in q.rows /\ (N!TitleHit(app[p]) \/ N!SnippetHit(app[p]))
      BY <1>1, <3>1 DEF BetweenReads
    <3>3. N!Listed(q.opened, q.rows) \subseteq had'[c]
      BY <2>2, <3>2
    <3>4. ASSUME NEW p \in unmoved'[c]
          PROVE  /\ q.opened = store' /\ (p \in q.rows <=> app'[p].at = "folder")
                 /\ p \in q.titled <=> p \in q.rows /\ (N!TitleHit(app'[p]) \/ N!SnippetHit(app'[p]))
      BY <2>5, <3>2, <3>4
    <3> QED BY <3>1, <3>2, <3>3, <3>4 DEF BetweenReads, N!Listed, N!TitleHit, N!SnippetHit
  <2> QED BY <1>2, <2>3, <2>4, <2>6
<1> QED BY <1>4, <1>5

\* A call that takes one.
LEMMA Goes ==
    ASSUME NoteInv, N!Remembers, NEW c \in Clients, N!Call(c), UNCHANGED <<store, disk>>
    PROVE  (Recalls(c) /\ Shape(c) /\ Stays(c) /\ BetweenReads(c))'
<1>1. Well(c) /\ Stays(c) /\ NotesType
  BY CallWell DEF NoteInv
<1>2. Shape(c)' /\ client[c].step \notin {"done", "failed"}
  BY <1>1 DEF Well
<1>3. Stays(c)'
  BY <1>1, <1>2, StaysKept
<1>4. Recalls(c)'
  <2> SUFFICES ASSUME Open(c)' PROVE N!Facts' \subseteq had'[c] /\ told'[c] \subseteq had'[c]
    BY DEF Recalls
  <2>1. N!Facts' \subseteq had'[c] /\ (client[c].step # "idle" => had[c] \subseteq had'[c])
    BY Remembered
  <2>2. client[c].step = "idle" => ~Open(c)
    BY DEF Open
  <2> QED BY <1>1, <2>1, <2>2 DEF Well
<1>5. BetweenReads(c)'
  <2> SUFFICES ASSUME client'[c].step = "hits" PROVE BetweenReads(c)'
    BY DEF BetweenReads
  <2>1. N!ReadRows(c)
    BY CallWell
  <2>2. PICK q, f : q = client'[c] /\ f = disk[store]
    OBVIOUS
  <2>3. /\ q.opened = store /\ q.rows = N!Live(f) /\ Cardinality(q.titled) < MaxNotes
        /\ q.titled = {p \in N!Live(f) : N!TitleHit(f[p]) \/ N!SnippetHit(f[p])}
    BY <2>1, <2>2, ReadRowsWell
  <2>4. client[c].step = "rows" /\ Open(c) /\ Open(c)' /\ app' = app
    BY <2>1 DEF N!ReadRows, N!At, Open
  <2>5. had[c] \subseteq had'[c]
    BY <2>4, Remembered
  <2>6. N!Listed(q.opened, q.rows) \subseteq had'[c]
    <3>1. N!Listed(store, N!Live(f)) \subseteq N!Facts
      BY <1>1, <2>2, ListedIsFact
    <3>2. N!Facts \subseteq had[c]
      BY <2>4 DEF NoteInv, Recalls
    <3> QED BY <2>3, <2>5, <3>1, <3>2
  <2>7. ASSUME NEW p \in unmoved'[c]
        PROVE  /\ p \in q.rows <=> app'[p].at = "folder"
               /\ p \in q.titled <=> p \in q.rows /\ (N!TitleHit(app'[p]) \/ N!SnippetHit(app'[p]))
    <3>1. p \in Pks /\ app'[p] # None /\ disk[store][p] = app'[p]
      BY <1>3, <2>4, <2>7 DEF Stays
    <3>2. p \in N!Live(f) <=> app'[p].at = "folder"
      BY <2>2, <3>1 DEF N!Live
    <3> QED BY <2>2, <2>3, <3>1, <3>2
  <2>8. q.opened \in Uuids /\ q.titled \subseteq q.rows /\ store' = store
    BY <1>1, <2>3 DEF NotesType
  <2> QED BY <2>2, <2>3, <2>6, <2>7, <2>8 DEF BetweenReads, N!Listed, N!TitleHit, N!SnippetHit
<1> QED BY <1>2, <1>3, <1>4, <1>5

LEMMA OthersKeepDomains ==
    ASSUME NotesType, N!Others
    PROVE  store' \in Uuids /\ DOMAIN app' = Pks /\ DOMAIN disk' = Uuids
           /\ \A u \in Uuids : DOMAIN disk'[u] = Pks
<1>1. store \in Uuids /\ DOMAIN app = Pks /\ DOMAIN disk = Uuids /\ \A u \in Uuids : DOMAIN disk[u] = Pks
  BY DEF NotesType
<1>2. CASE N!Replaces
  <2>1. PICK u \in Uuids \ {store}, k \in NoteKinds :
          LET f == [p \in Pks |-> k] IN store' = u /\ app' = f /\ disk' = [disk EXCEPT ![u] = f]
    BY <1>2 DEF N!Replaces
  <2> QED BY <1>1, <2>1
<1>3. ASSUME NEW p \in Pks, N!Saves(p) PROVE store' = store /\ app' = app /\ DOMAIN disk' = Uuids
             /\ \A u \in Uuids : DOMAIN disk'[u] = Pks
  <2>1. PICK row : disk' = [disk EXCEPT ![store] = [disk[store] EXCEPT ![p] = row]]
    BY <1>3 DEF N!Saves
  <2> QED BY <1>1, <1>3, <2>1 DEF N!Saves
<1>4. ASSUME NEW p \in Pks, N!Edits(p) \/ N!Writes(p) \/ N!Moves(p) \/ N!Purges(p)
      PROVE  store' = store /\ disk' = disk /\ DOMAIN app' = Pks
  BY <1>1, <1>4 DEF N!Edits, N!Writes, N!Moves, N!Purges
<1> QED BY <1>1, <1>2, <1>3, <1>4 DEF N!Others

LEMMA StepNotes == ASSUME NoteInv, [N!NotesNext]_notesState PROVE NoteInv'
<1>1. CASE UNCHANGED notesState
  <2>1. UNCHANGED <<store, app, disk, client, told, had, unmoved>>
    BY <1>1 DEF notesState
  <2>2. NotesType'
    BY <2>1 DEF NoteInv, NotesType
  <2>3. ASSUME NEW c \in Clients PROVE (Recalls(c) /\ Shape(c) /\ Stays(c) /\ BetweenReads(c))'
    <3>1. Recalls(c) /\ Shape(c) /\ Stays(c) /\ BetweenReads(c)
      BY DEF NoteInv
    <3>2. N!Facts' = N!Facts /\ Open(c)' = Open(c)
      BY <2>1 DEF N!Facts, N!FactsIn, N!TitlesIn, N!BodiesIn, N!Listed, N!Present, N!Live, Open
    <3>3. Recalls(c)'
      BY <2>1, <3>1, <3>2 DEF Recalls
    <3>4. Shape(c)'
      BY <2>1, <3>1 DEF Shape, Open
    <3>5. Stays(c)'
      BY <2>1, <3>1, <3>2 DEF Stays
    <3>6. BetweenReads(c)'
      BY <2>1, <3>1 DEF BetweenReads, N!Listed, N!TitleHit, N!SnippetHit
    <3> QED BY <3>3, <3>4, <3>5, <3>6
  <2> QED BY <2>2, <2>3 DEF NoteInv
<1>2. CASE N!Others /\ UNCHANGED <<client, told>> /\ N!Remembers
  <2>1. NotesType'
    BY <1>2, OthersKeepDomains DEF NoteInv, NotesType
  <2>2. \A c \in Clients : (Recalls(c) /\ Shape(c) /\ Stays(c) /\ BetweenReads(c))'
    BY <1>2, Waits
  <2> QED BY <2>1, <2>2 DEF NoteInv
<1>3. ASSUME NEW c \in Clients, N!Call(c), UNCHANGED <<store, disk>>, N!Remembers PROVE NoteInv'
  <2>1. OnlyOf(c) /\ DOMAIN app' = Pks
    BY <1>3, CallWell DEF Well
  <2>2. NotesType'
    BY <1>3, <2>1 DEF NoteInv, NotesType, OnlyOf
  <2>3. (Recalls(c) /\ Shape(c) /\ Stays(c) /\ BetweenReads(c))'
    BY <1>3, Goes
  <2>4. ASSUME NEW d \in Clients \ {c} PROVE (Recalls(d) /\ Shape(d) /\ Stays(d) /\ BetweenReads(d))'
    BY <1>3, <2>1, <2>4, Waits DEF OnlyOf
  <2> QED BY <2>2, <2>3, <2>4 DEF NoteInv
<1> QED BY <1>1, <1>2, <1>3 DEF N!NotesNext

-----------------------------------------------------------------------------
(* What a search finds.                                                    *)

LEMMA LeastNumber ==
    ASSUME NEW S \in SUBSET Nat, S # {} PROVE \E n \in S : \A m \in S : n <= m
<1>1. PICK less : less = OpToRel(<, Nat)
  OBVIOUS
<1>2. PICK n \in S : \A m \in S : <<m, n>> \notin less
  BY <1>1, NatLessThanWellFounded, WFMin
<1>3. \A m \in Nat : m < n => <<m, n>> \in less
  BY <1>1 DEF OpToRel
<1>4. \A m \in S : ~(m < n) /\ m \in Nat /\ n \in Nat
  BY <1>2, <1>3
<1> QED BY <1>4

\* A cut that is shorter than it may be has left nothing out.
LEMMA NewestOfFew ==
    ASSUME NEW S \in SUBSET Pks, Cardinality(N!Newest(S)) < MaxNotes PROVE N!Newest(S) = S
<1> DEFINE above(p) == {q \in S : q > p}
<1>1. /\ Pks \subseteq Nat /\ IsFiniteSet(Pks) /\ MaxNotes \in Nat
      /\ N!Newest(S) = {p \in S : Cardinality(above(p)) < MaxNotes}
  BY NotesAssumption, SameCount DEF N!Newest
<1>2. IsFiniteSet(S) /\ \A T \in SUBSET S : IsFiniteSet(T) /\ Cardinality(T) \in Nat
  BY <1>1, FS_Subset, FS_CardinalityType
<1> SUFFICES ASSUME N!Newest(S) # S PROVE FALSE
  OBVIOUS
<1>3. PICK out : out = S \ N!Newest(S)
  OBVIOUS
<1>4. out # {} /\ out \subseteq S /\ \A p \in out : ~(Cardinality(above(p)) < MaxNotes)
  BY <1>1, <1>3
<1> HIDE DEF above
<1>5. \A p \in S : above(p) \in SUBSET S /\ Cardinality(above(p)) \in Nat
  BY <1>2 DEF above
<1>6. PICK counts : counts = {Cardinality(above(p)) : p \in out}
  OBVIOUS
<1>7. counts \in SUBSET Nat /\ counts # {}
  BY <1>4, <1>5, <1>6
<1>8. PICK n \in counts : \A m \in counts : n <= m
  BY <1>7, LeastNumber
<1>9. PICK p \in out : n = Cardinality(above(p))
  BY <1>6
<1>10. above(p) \subseteq N!Newest(S)
  <2> SUFFICES ASSUME NEW q \in above(p), q \notin N!Newest(S) PROVE FALSE
    OBVIOUS
  <2>1. q \in S /\ q > p /\ q \in out /\ p \in Nat /\ q \in Nat
    BY <1>1, <1>3, <1>4, <1>9 DEF above
  <2>7. \A r \in S : r > q => r > p
    <3> SUFFICES ASSUME NEW r \in S, r > q PROVE r > p
      OBVIOUS
    <3>1. r \in Nat
      BY <1>1
    <3> QED BY <2>1, <3>1
  <2>2. above(q) \subseteq above(p) /\ q \notin above(q)
    <3>1. ~(q > q)
      BY <2>1
    <3>2. above(q) = {r \in S : r > q} /\ above(p) = {r \in S : r > p}
      BY DEF above
    <3> QED BY <2>7, <3>1, <3>2
  <2>3. above(q) \in SUBSET above(p) /\ above(q) # above(p) /\ IsFiniteSet(above(p))
    BY <1>2, <1>4, <1>5, <2>2
  <2>4. Cardinality(above(q)) <= Cardinality(above(p)) /\ Cardinality(above(q)) # Cardinality(above(p))
    BY <2>3, FS_Subset
  <2>5. Cardinality(above(q)) \in counts
    BY <1>6, <2>1
  <2>6. Cardinality(above(p)) <= Cardinality(above(q))
    BY <1>8, <1>9, <2>5
  <2> QED BY <1>4, <1>5, <1>9, <2>1, <2>4, <2>6
<1>11. N!Newest(S) \in SUBSET S /\ p \in S
  BY <1>1, <1>4
<1>12. Cardinality(above(p)) <= Cardinality(N!Newest(S)) /\ Cardinality(N!Newest(S)) \in Nat
  BY <1>2, <1>10, <1>11, FS_Subset
<1> QED BY <1>1, <1>4, <1>5, <1>11, <1>12

\* As many ids are listed as there are keys.
LEMMA ListedCount ==
    ASSUME NEW u, NEW S \in SUBSET Pks
    PROVE  Cardinality(N!Listed(u, S)) = Cardinality(S)
<1>1. IsFiniteSet(S)
  BY NotesAssumption, FS_Subset
<1>2. PICK f : f = [p \in S |-> <<<<u, p>>, "listed">>]
  OBVIOUS
<1>3. f \in Bijection(S, N!Listed(u, S))
  <2>1. \A p \in S : f[p] \in N!Listed(u, S)
    BY <1>2 DEF N!Listed
  <2>2. f \in [S -> N!Listed(u, S)]
    BY <1>2, <2>1
  <2>3. \A p, q \in S : f[p] = f[q] => p = q
    BY <1>2
  <2>4. \A x \in N!Listed(u, S) : \E p \in S : f[p] = x
    BY <1>2 DEF N!Listed
  <2>5. f \in Injection(S, N!Listed(u, S))
    BY <2>2, <2>3 DEF Injection, IsInjective
  <2>6. f \in Surjection(S, N!Listed(u, S))
    BY <2>2, <2>4 DEF Surjection
  <2> QED BY <2>5, <2>6 DEF Bijection
<1>4. ExistsBijection(S, N!Listed(u, S))
  BY <1>3 DEF ExistsBijection
<1> QED BY <1>1, <1>4, FS_Bijection

\* The notes that a search should list.
Holds(c, p) ==
    /\ app[p].at = "folder"
    /\ \/ N!TitleHit(app[p]) \/ N!SnippetHit(app[p])
       \/ N!BodyHit(app[p]) /\ client[c].query # "letter"

LEMMA ReadRowsFinds ==
    ASSUME NoteInv, NEW c \in Clients, N!ReadRows(c), client[c].op = "notes",
           client'[c].step = "done", Cardinality(told'[c]) < MaxNotes,
           NEW p \in unmoved[c], Holds(c, p)
    PROVE  <<<<store, p>>, "listed">> \in told'[c]
<1>1. NotesType /\ Stays(c) /\ told[c] = {} /\ Open(c)
  BY DEF NoteInv, N!ReadRows, N!At, Shape, Open
<1>2. PICK f, titled : f = disk[store]
        /\ titled = {q \in N!Live(f) : N!TitleHit(f[q]) \/ N!SnippetHit(f[q])}
  OBVIOUS
<1>3. /\ Cardinality(titled) >= MaxNotes \/ client[c].query \notin {"long", "short"}
      /\ N!Answer(c, N!Listed(store, N!Newest(titled)))
  <2>1. client'[c].step # "hits"
    OBVIOUS
  <2>2. PICK g, hits :
          /\ g = disk[store] /\ hits = {q \in N!Live(g) : N!TitleHit(g[q]) \/ N!SnippetHit(g[q])}
          /\ \/ /\ Cardinality(hits) >= MaxNotes \/ ~N!HasWord(client[c].query)
                /\ N!Answer(c, N!Listed(store, N!Newest(hits)))
             \/ client' = [client EXCEPT ![c].step = "hits", ![c].opened = store,
                                         ![c].rows = N!Live(g), ![c].titled = hits]
    BY SameCount DEF N!ReadRows
  <2>3. client[c] \in Asking
    BY <1>1 DEF NotesType
  <2>4. client' # [client EXCEPT ![c].step = "hits", ![c].opened = store,
                                 ![c].rows = N!Live(g), ![c].titled = hits]
    <3> SUFFICES ASSUME client' = [client EXCEPT ![c].step = "hits", ![c].opened = store,
                                                 ![c].rows = N!Live(g), ![c].titled = hits]
                 PROVE  FALSE
      OBVIOUS
    <3>1. client'[c] = [client[c] EXCEPT !.step = "hits", !.opened = store, !.rows = N!Live(g),
                                         !.titled = hits]
      BY <1>1 DEF NotesType
    <3>2. client'[c].step = "hits"
      BY ZenonT(30), <2>3, <3>1 DEF Asking
    <3> QED BY <3>2
  <2>5. hits = titled
    BY <1>2, <2>2
  <2> QED BY <2>2, <2>4, <2>5 DEF N!HasWord
<1>4. titled \in SUBSET Pks /\ N!Newest(titled) \in SUBSET Pks
  BY <1>1, <1>2 DEF N!Live, N!Newest, NotesType
<1>5. told'[c] = N!Listed(store, N!Newest(titled))
  BY <1>1, <1>3, AnswerEffect
<1>6. Cardinality(N!Newest(titled)) < MaxNotes
  BY <1>4, <1>5, ListedCount
<1>7. N!Newest(titled) = titled
  BY <1>4, <1>6, NewestOfFew
<1>8. client[c].query \notin {"long", "short"}
  <2>1. Cardinality(titled) \in Nat /\ MaxNotes \in Nat
    BY <1>4, NotesAssumption, FS_Subset, FS_CardinalityType
  <2> QED BY <1>3, <1>6, <1>7, <2>1
<1>9. p \in Pks /\ app[p] # None /\ f[p] = app[p]
  BY <1>1, <1>2 DEF Stays
<1>10. p \in titled
  <2>1. p \in N!Live(f)
    BY <1>9 DEF Holds, N!Live
  <2>2. N!TitleHit(app[p]) \/ N!SnippetHit(app[p])
    <3>1. client[c].query \in {"long", "short", "letter"}
      BY <1>1 DEF NoteInv, Shape, N!Queries
    <3> QED BY <1>8, <3>1 DEF Holds
  <2> QED BY <1>2, <1>9, <2>1, <2>2
<1> QED BY <1>5, <1>7, <1>10 DEF N!Listed

LEMMA ReadHitsFinds ==
    ASSUME NoteInv, NEW c \in Clients, N!ReadHits(c), Cardinality(told'[c]) < MaxNotes,
           NEW p \in unmoved[c], Holds(c, p)
    PROVE  <<<<store, p>>, "listed">> \in told'[c]
<1>1. /\ NotesType /\ Stays(c) /\ BetweenReads(c) /\ told[c] = {} /\ Open(c)
      /\ client[c].step = "hits"
  BY DEF NoteInv, N!ReadHits, N!At, Shape, Open
<1>2. PICK q : q = client[c]
  OBVIOUS
<1>3. PICK f, more : f = disk[q.opened]
        /\ more = {r \in (N!Live(f) \cap q.rows) \ q.titled : N!BodyHit(f[r])}
  OBVIOUS
<1>4. PICK few \in N!Cut(more, MaxNotes - Cardinality(q.titled)) :
        N!Answer(c, N!Listed(q.opened, q.titled \cup few))
  <2>1. PICK g, rest : g = disk[client[c].opened]
          /\ rest = {r \in (N!Live(g) \cap client[c].rows) \ client[c].titled : N!BodyHit(g[r])}
          /\ \E few \in N!Cut(rest, MaxNotes - Cardinality(client[c].titled)) :
                N!Answer(c, N!Listed(client[c].opened, client[c].titled \cup few))
    BY SameCount DEF N!ReadHits
  <2>2. rest = more
    BY <1>2, <1>3, <2>1
  <2> QED BY <1>2, <2>1, <2>2
<1>5. /\ q.titled \subseteq Pks /\ q.rows \subseteq Pks /\ few \subseteq more /\ more \subseteq Pks
      /\ few \cap q.titled = {}
      /\ few = more \/ Cardinality(few) = MaxNotes - Cardinality(q.titled)
  <2>1. q.titled \subseteq Pks /\ q.rows \subseteq Pks
    BY <1>1, <1>2 DEF NotesType, Asking
  <2>2. few \subseteq more /\ (few = more \/ Cardinality(few) = MaxNotes - Cardinality(q.titled))
    BY <1>4, SameCount DEF N!Cut
  <2> QED BY <1>3, <2>1, <2>2
<1>6. told'[c] = N!Listed(q.opened, q.titled \cup few)
  BY ZenonT(30), <1>1, <1>4, AnswerEffect
<1>7. Cardinality(q.titled \cup few) < MaxNotes
  BY <1>5, <1>6, ListedCount
<1>8. few = more
  <2>1. IsFiniteSet(q.titled) /\ IsFiniteSet(few)
    BY <1>5, NotesAssumption, FS_Subset
  <2>2. Cardinality(q.titled) \in Nat /\ Cardinality(few) \in Nat /\ MaxNotes \in Nat
    BY <2>1, NotesAssumption, FS_CardinalityType
  <2>3. Cardinality(q.titled \cup few) = Cardinality(q.titled) + Cardinality(few)
    <3>1. Cardinality(q.titled \cap few) = 0
      BY <1>5, FS_EmptySet
    <3>2. \A A, B : IsFiniteSet(A) /\ IsFiniteSet(B) =>
            Cardinality(A \cup B) = Cardinality(A) + Cardinality(B) - Cardinality(A \cap B)
      BY FS_Union
    <3>3. Cardinality(q.titled \cup few) = Cardinality(q.titled) + Cardinality(few) - 0
      BY <2>1, <3>1, <3>2
    <3> QED BY <2>2, <3>3
  <2> QED BY <1>5, <1>7, <2>2, <2>3
<1>9. p \in Pks /\ app[p] # None /\ disk[store][p] = app[p]
  BY <1>1 DEF Stays
<1>10. /\ q.opened = store /\ p \in q.rows
       /\ p \in q.titled <=> N!TitleHit(app[p]) \/ N!SnippetHit(app[p])
  BY <1>1, <1>2 DEF BetweenReads, Holds
<1>11. p \in q.titled \cup few
  <2> SUFFICES ASSUME p \notin q.titled PROVE p \in more
    BY <1>8
  <2>1. N!BodyHit(app[p])
    BY <1>10 DEF Holds
  <2>2. f[p] = app[p] /\ p \in N!Live(f)
    BY <1>3, <1>9, <1>10 DEF Holds, N!Live
  <2> QED BY <1>3, <1>10, <2>1, <2>2
<1> QED BY <1>6, <1>10, <1>11 DEF N!Listed

\* The other ends of a search have a note, and the other tools are not searches.
LEMMA SearchEnds ==
    ASSUME NoteInv, NEW c \in Clients, N!Call(c), client[c].op = "notes", Open(c),
           client'[c].step = "done", ~client'[c].noted
    PROVE  N!ReadRows(c) \/ N!ReadHits(c)
<1>1. NotesType /\ Shape(c) /\ client[c].step \in {"rows", "rows app", "hits"}
  BY DEF NoteInv, NotesType, Shape, Open, Asking, CallSteps
<1>2. ~N!CannotReadHits(c)
  <2> SUFFICES ASSUME N!CannotReadHits(c) PROVE FALSE
    OBVIOUS
  <2>1. N!Leave(c, "done", TRUE)
    BY DEF N!CannotReadHits
  <2> QED BY <1>1, <2>1, LeaveEffect
<1>3. ~N!ListInApp(c)
  <2> SUFFICES ASSUME N!ListInApp(c) PROVE FALSE
    OBVIOUS
  <2>1. N!Leave(c, "done", TRUE)
    BY DEF N!ListInApp
  <2> QED BY <1>1, <2>1, LeaveEffect
<1>4. ~N!FallsBack(c)
  <2> SUFFICES ASSUME N!FallsBack(c) PROVE FALSE
    OBVIOUS
  <2>1. N!Goto(c, "rows app")
    BY <1>1 DEF N!FallsBack, N!At
  <2>2. "rows app" \in CallSteps
    BY DEF CallSteps
  <2>3. client'[c].step = "rows app"
    BY <1>1, <2>1, <2>2, CallGoes
  <2> QED BY <2>3
<1>5. ~N!Fails(c)
  <2> SUFFICES ASSUME N!Fails(c) PROVE FALSE
    OBVIOUS
  <2>1. N!Raise(c)
    BY DEF N!Fails
  <2>2. client'[c].step = "failed"
    BY <1>1, <2>1, RaiseEffect
  <2> QED BY <2>2
<1>6. ~(N!Ask(c) \/ N!ReadBodies(c) \/ N!BodiesFromApp(c) \/ N!NoGapsFilled(c) \/ N!ReadTitle(c)
        \/ N!TitleInApp(c) \/ N!Create(c) \/ N!Update(c) \/ N!Check(c) \/ N!Trash(c))
  BY <1>1 DEF N!Ask, N!ReadBodies, N!BodiesFromApp, N!NoGapsFilled, N!ReadTitle, N!TitleInApp,
     N!Create, N!Update, N!Check, N!Trash, N!At
<1> QED BY <1>2, <1>3, <1>4, <1>5, <1>6 DEF N!Call

-----------------------------------------------------------------------------
(* The theorems.                                                           *)

EndsWell(c) ==
    N!Ends(c) =>
        /\ told'[c] \subseteq had[c] \cup N!Facts'
        /\ client[c].op = "notes" /\ ~client'[c].noted /\ N!Cardinality(told'[c]) < MaxNotes
           => \A p \in unmoved[c] : Holds(c, p) => <<<<store, p>>, "listed">> \in told'[c]

LEMMA StepEnds == ASSUME NoteInv, [N!NotesNext]_notesState, NEW c \in Clients PROVE EndsWell(c)
<1> SUFFICES ASSUME N!Ends(c) PROVE EndsWell(c)
  BY DEF EndsWell
<1>1. client[c].step \notin {"done", "failed"} /\ client'[c].step = "done"
  BY DEF N!Ends, N!Ended
<1>2. client' # client
  BY <1>1
<1>3. PICK d \in Clients : N!Call(d)
  BY <1>2 DEF N!NotesNext, notesState
<1>4. c = d
  BY <1>1, <1>3, CallWell DEF Well, OnlyOf
<1>5. told'[c] \subseteq had[c]
  BY <1>3, <1>4, CallWell DEF Well
<1>6. ASSUME client[c].op = "notes", ~client'[c].noted, N!Cardinality(told'[c]) < MaxNotes,
             NEW p \in unmoved[c], Holds(c, p)
      PROVE  <<<<store, p>>, "listed">> \in told'[c]
  <2>1. Cardinality(told'[c]) < MaxNotes
    BY <1>6, SameCount
  <2>2. CASE Open(c)
    <3>1. N!ReadRows(c) \/ N!ReadHits(c)
      BY <1>1, <1>3, <1>4, <1>6, <2>2, SearchEnds
    <3> QED BY <1>1, <1>6, <2>1, <3>1, ReadRowsFinds, ReadHitsFinds
  <2>3. CASE client[c].step = "idle"
    <3>1. N!Ask(c)
      BY <1>3, <1>4, <2>3 DEF N!Call, N!ReadRows, N!ReadHits, N!CannotReadHits, N!FallsBack, N!ListInApp,
         N!ReadBodies, N!BodiesFromApp, N!NoGapsFilled, N!ReadTitle, N!TitleInApp, N!Fails, N!Create,
         N!Update, N!Check, N!Trash, N!At
    <3>2. client'[c].step # "done"
      BY <3>1, AskWell
    <3> QED BY <1>1, <3>2
  <2> QED BY <1>1, <2>2, <2>3 DEF Open
<1> QED BY <1>5, <1>6 DEF EndsWell

LEMMA NotesSteps ==
    /\ StoresInit => NoteInv
    /\ NoteInv /\ [StoresNext]_storesVars => NoteInv' /\ \A c \in Clients : EndsWell(c)
<1>1. StoresInit => NoteInv
  BY InitNotes DEF StoresInit
<1>2. [StoresNext]_storesVars => [N!NotesNext]_notesState
  BY DEF StoresNext, storesVars
<1> QED BY <1>1, <1>2, StepNotes, StepEnds

\* The composition that the run checks behaves as each of its parts, so that what holds of
\* EventKitWrites alone holds of it.
LEMMA StoresAreBoth == StoresSpec => Spec /\ N!NotesSpec
<1>1. StoresInit => Init /\ N!NotesInit
  BY DEF StoresInit
<1>2. [StoresNext]_storesVars => [Next]_vars /\ [N!NotesNext]_(N!notesVars)
  BY DEF StoresNext, storesVars, notesState, N!notesVars
<1> QED BY <1>1, <1>2, PTL DEF StoresSpec, Spec, N!NotesSpec

(* Whatever the user, iCloud and other calls do between two statements of  *)
(* a call, and whichever store a stale id is of: what an answer of the     *)
(* notes tools tells of an id was true of the note with that id at some    *)
(* moment of the call.                                                     *)
THEOREM AnswersWereTrue == StoresSpec => AnswersAreTrue
<1>1. NoteInv /\ [StoresNext]_storesVars =>
        \A c \in Clients : N!Ends(c) => told'[c] \subseteq had[c] \cup N!Facts'
  BY NotesSteps DEF EndsWell
<1>2. notesState = N!notesVars
  BY DEF notesState, N!notesVars
<1> QED BY <1>1, <1>2, NotesSteps, PTL DEF StoresSpec, AnswersAreTrue, N!AnswersAreTrue

(* And a search that has room left and says nothing of its coverage has    *)
(* listed every note that stayed as it was and holds the word.             *)
THEOREM SearchIsComplete == StoresSpec => NoNoteMeansSearched
<1>1. NoteInv /\ [StoresNext]_storesVars =>
        \A c \in Clients :
          N!Ends(c) /\ client[c].op = "notes" /\ ~client'[c].noted /\ N!Cardinality(told'[c]) < MaxNotes
          => \A p \in unmoved[c] :
                /\ app[p].at = "folder"
                /\ \/ N!TitleHit(app[p]) \/ N!SnippetHit(app[p])
                   \/ N!BodyHit(app[p]) /\ client[c].query # "letter"
                => <<<<store, p>>, "listed">> \in told'[c]
  BY NotesSteps DEF EndsWell, Holds
<1>2. notesState = N!notesVars
  BY DEF notesState, N!notesVars
<1> QED BY <1>1, <1>2, NotesSteps, PTL DEF StoresSpec, NoNoteMeansSearched, N!NoNoteMeansSearched
=============================================================================
