-------------------------- MODULE Dashboard_proofs --------------------------
(***************************************************************************)
(* The proofs about the dashboard.                                         *)
(*                                                                         *)
(* The Adapters page loses nobody's change and says what the daemon may    *)
(* send, for every set of tools, requests and terminals and any number of  *)
(* restarts, crashes and edits by hand.  The Writes and Backups pages show *)
(* one write as one row, at an address that stays, and call back only what *)
(* was moved, for every set of calls of both versions, any number of       *)
(* missing records and rotations.                                          *)
(***************************************************************************)
EXTENDS Dashboard, FiniteSetTheorems, FunctionTheorems, WellFoundedInduction, TLAPS

-----------------------------------------------------------------------------
(* The Adapters page.                                                      *)

SwitchType ==
    /\ file \in [there : BOOLEAN, readable : BOOLEAN, names : SUBSET Names]
    /\ lock \in Requests \cup {NoOne}
    /\ pc \in [Requests -> {"new", "waiting", "checked", "writing", "written", "answering",
                            "saved", "locked", "failed", "restarting", "cut"}]
    /\ reading \in [Requests -> SUBSET Names]
    /\ request \in [Requests -> Asked \cup {NoOne}]
    /\ word \in [Known -> {"on", "off", "none"}]

\* _write_lock: what a request knows from its look at the file is still so.
LockInv ==
    \A r \in Requests :
        /\ pc[r] = "waiting" => request[r] \in Asked
        /\ pc[r] \in {"checked", "writing", "written"} => lock = r /\ request[r] \in Asked
        /\ pc[r] \in {"checked", "writing"} => EnvOff = {} /\ request[r].op # "restart"
        /\ pc[r] = "checked" => ~file.there \/ file.readable

\* The file says what was asked of it last.
WordInv ==
    \A a \in Known : word[a] # "none" => file.there /\ Says(file.names, a) = word[a]

\* What a toggle is about to write changes its own adapter only.
NextWordInv ==
    \A r \in Requests : pc[r] = "writing" /\ request[r].op = "toggle" =>
        /\ request[r].adapter \in reading[r] <=> ~request[r].on
        /\ \A a \in Known \ {request[r].adapter} :
               word[a] # "none" => Says(reading[r], a) = word[a]

IInv == SwitchType /\ LockInv /\ WordInv /\ NextWordInv

LEMMA InitInv == Init => IInv
<1> SUFFICES ASSUME Init PROVE IInv
  OBVIOUS
<1>1. file \in [there : BOOLEAN, readable : BOOLEAN, names : SUBSET Names]
  BY SwitchesAssumption DEF Init
<1> QED BY <1>1 DEF Init, IInv, SwitchType, LockInv, WordInv, NextWordInv

\* Steps that leave the switches alone.
LEMMA Elsewhere ==
    ASSUME IInv, UNCHANGED <<file, lock, pc, request, reading, word>> PROVE IInv'
BY DEF IInv, SwitchType, LockInv, WordInv, NextWordInv

\* The process ends: no request is under way any more.
LEMMA EndsInv == ASSUME IInv, Ends, word' = word PROVE IInv'
<1>1. /\ file' = file /\ request' = request /\ lock' = NoOne
      /\ pc' \in [Requests -> {"new", "waiting", "checked", "writing", "written", "answering",
                               "saved", "locked", "failed", "restarting", "cut"}]
      /\ \A r \in Requests :
            pc'[r] \notin {"waiting", "checked", "writing", "written", "answering"}
      /\ reading' \in [Requests -> SUBSET Names]
  BY DEF Ends, IInv, SwitchType, fileVars
<1> QED BY <1>1 DEF IInv, SwitchType, LockInv, WordInv, NextWordInv

LEMMA PostInv ==
    ASSUME IInv, NEW r \in Requests, NEW what \in Asked, Post(r, what) PROVE IInv'
<1>1. /\ UNCHANGED <<file, lock, reading, word>> /\ pc[r] = "new"
      /\ request' = [request EXCEPT ![r] = what]
      /\ \E label \in {"locked", "answering", "waiting"} : pc' = [pc EXCEPT ![r] = label]
  BY DEF Post, Stay, Goto, fileVars, history
<1>2. \A q \in Requests \ {r} : request'[q] = request[q] /\ pc'[q] = pc[q]
  BY <1>1 DEF IInv, SwitchType
<1>3. request'[r] = what /\ pc'[r] \in {"locked", "answering", "waiting"}
  BY <1>1 DEF IInv, SwitchType
<1>4. SwitchType'
  BY <1>1 DEF IInv, SwitchType
<1> QED BY <1>1, <1>2, <1>3, <1>4 DEF IInv, LockInv, WordInv, NextWordInv

LEMMA EnterInv == ASSUME IInv, NEW r \in Requests, Enter(r) PROVE IInv'
<1>1. /\ UNCHANGED <<file, reading, request, word>> /\ pc[r] = "waiting" /\ lock = NoOne
      /\ \/ request[r].op = "restart" /\ lock' = r /\ pc' = [pc EXCEPT ![r] = "written"]
         \/ Locked /\ lock' = lock /\ pc' = [pc EXCEPT ![r] = "locked"]
         \/ ~Locked /\ request[r].op # "restart" /\ lock' = r /\ pc' = [pc EXCEPT ![r] = "checked"]
  BY DEF Enter, Admits, Stay, Goto, fileVars, history
<1>2. \A q \in Requests : pc[q] \notin {"checked", "writing", "written"}
  BY <1>1, SwitchesAssumption DEF IInv, LockInv
<1>3. \A q \in Requests \ {r} : pc'[q] = pc[q]
  BY <1>1 DEF IInv, SwitchType
<1>4. SwitchType'
  BY <1>1 DEF IInv, SwitchType
<1>5. ~Locked => EnvOff = {} /\ (~file.there \/ file.readable)
  BY DEF Locked, AdaptersOff, AdaptersOffFile, IsDaemonRole
<1>6. \/ pc'[r] \in {"written", "locked"}
      \/ pc'[r] = "checked" /\ ~Locked /\ request[r].op # "restart"
  BY <1>1 DEF IInv, SwitchType
<1>7. pc'[r] \in {"written", "checked"} => lock' = r
  BY <1>1 DEF IInv, SwitchType
<1>8. LockInv'
  BY <1>1, <1>2, <1>3, <1>5, <1>6, <1>7 DEF IInv, LockInv
<1>9. NextWordInv'
  BY <1>1, <1>2, <1>3, <1>6 DEF NextWordInv
<1> QED BY <1>1, <1>4, <1>8, <1>9 DEF IInv, WordInv

\* _apply_toggle keeps what the file says of the other adapters.
LEMMA ReadNamesInv == ASSUME IInv, NEW r \in Requests, ReadNames(r) PROVE IInv'
<1>1. /\ UNCHANGED <<file, lock, request, word>> /\ pc[r] = "checked"
      /\ pc' = [pc EXCEPT ![r] = "writing"]
      /\ reading' = [reading EXCEPT ![r] = NewNames(request[r])]
  BY DEF ReadNames, Stay, Goto, fileVars, history
<1>2. NewNames(request[r]) \subseteq Names
  <2>1. request[r] \in Asked /\ request[r].op # "restart"
    BY <1>1 DEF IInv, LockInv
  <2>2. CASE request[r].op = "discard"
    BY <2>2 DEF NewNames, Names
  <2>3. CASE request[r].op = "toggle"
    <3>1. request[r].adapter \in Known /\ request[r].on \in BOOLEAN
      BY <2>1, <2>3 DEF Asked
    <3> QED BY <2>3, <3>1 DEF NewNames, Names
  <2> QED BY <2>1, <2>2, <2>3 DEF Asked
<1>3. SwitchType'
  BY <1>1, <1>2 DEF IInv, SwitchType
<1>4. /\ \A q \in Requests \ {r} : pc'[q] = pc[q] /\ reading'[q] = reading[q]
      /\ pc'[r] = "writing" /\ reading'[r] = NewNames(request[r])
  BY <1>1 DEF IInv, SwitchType
<1>5. LockInv'
  BY <1>1, <1>4 DEF IInv, LockInv
<1>6. ASSUME request[r].op = "toggle"
      PROVE  /\ request[r].adapter \in reading'[r] <=> ~request[r].on
             /\ \A a \in Known \ {request[r].adapter} :
                    word[a] # "none" => Says(reading'[r], a) = word[a]
  <2>1. request[r].adapter \in Known /\ request[r].on \in BOOLEAN
    BY <1>1, <1>6 DEF IInv, LockInv, Asked
  <2>2. AdaptersOff = IF file.there THEN file.names ELSE {}
    BY <1>1 DEF IInv, LockInv, AdaptersOff, AdaptersOffFile, IsDaemonRole
  <2>3. reading'[r] = IF request[r].on THEN (AdaptersOff \cap Known) \ {request[r].adapter}
                      ELSE (AdaptersOff \cap Known) \cup {request[r].adapter}
    BY <1>4, <1>6 DEF NewNames
  <2>4. \A a \in Known \ {request[r].adapter} : a \in reading'[r] <=> a \in AdaptersOff
    BY <2>3
  <2> QED BY <2>1, <2>2, <2>3, <2>4 DEF IInv, WordInv, Says
<1>7. NextWordInv'
  BY <1>1, <1>4, <1>6 DEF IInv, NextWordInv
<1> QED BY <1>1, <1>3, <1>5, <1>7 DEF IInv, WordInv

LEMMA WriteNamesInv == ASSUME IInv, NEW r \in Requests, WriteNames(r) PROVE IInv'
<1>1. /\ request' = request /\ pc[r] = "writing" /\ lock = r
      /\ reading' = [reading EXCEPT ![r] = {}]
      /\ request[r] \in Asked /\ request[r].op # "restart"
  BY DEF WriteNames, IInv, LockInv
<1>2. \A q \in Requests \ {r} : pc[q] \notin {"checked", "writing", "written"}
  BY <1>1 DEF IInv, LockInv
<1>3. CASE pc' = [pc EXCEPT ![r] = "failed"] /\ lock' = NoOne /\ UNCHANGED <<file, word>>
  <2>1. /\ \A q \in Requests \ {r} : pc'[q] = pc[q]
        /\ pc'[r] = "failed"
    BY <1>3 DEF IInv, SwitchType
  <2>2. SwitchType'
    BY <1>1, <1>3 DEF IInv, SwitchType
  <2> QED BY <1>1, <1>2, <1>3, <2>1, <2>2 DEF IInv, LockInv, WordInv, NextWordInv
<1>4. CASE /\ file' = [there |-> TRUE, readable |-> TRUE, names |-> reading[r]]
           /\ word' = IF request[r].op = "discard" THEN [a \in Known |-> Says(reading[r], a)]
                      ELSE [word EXCEPT ![request[r].adapter] = IF request[r].on THEN "on" ELSE "off"]
           /\ pc' = [pc EXCEPT ![r] = "written"] /\ lock' = lock
  <2>1. /\ \A q \in Requests \ {r} : pc'[q] = pc[q]
        /\ pc'[r] = "written"
    BY <1>4 DEF IInv, SwitchType
  <2>2. word' \in [Known -> {"on", "off", "none"}]
    BY <1>4 DEF IInv, SwitchType, Says
  <2>3. SwitchType'
    BY <1>1, <1>4, <2>2 DEF IInv, SwitchType
  <2>4. LockInv'
    BY <1>1, <1>2, <1>4, <2>1 DEF IInv, LockInv
  <2>5. NextWordInv'
    BY <1>2, <2>1 DEF NextWordInv
  <2>6. WordInv'
    <3>1. CASE request[r].op = "discard"
      BY <1>4, <3>1 DEF WordInv, Says
    <3>2. CASE request[r].op = "toggle"
      <4>1. /\ request[r].adapter \in Known
            /\ request[r].adapter \in reading[r] <=> ~request[r].on
            /\ \A a \in Known \ {request[r].adapter} :
                   word[a] # "none" => Says(reading[r], a) = word[a]
        BY <1>1, <3>2 DEF IInv, NextWordInv, Asked
      <4>2. word'[request[r].adapter] = Says(reading[r], request[r].adapter)
        BY <1>4, <3>2, <4>1 DEF IInv, SwitchType, Says
      <4>3. \A a \in Known \ {request[r].adapter} : word'[a] = word[a]
        BY <1>4, <3>2 DEF IInv, SwitchType
      <4>4. file'.there /\ file'.names = reading[r]
        BY <1>4
      <4> QED BY <4>1, <4>2, <4>3, <4>4 DEF WordInv, Says
    <3> QED BY <1>1, <3>1, <3>2 DEF Asked
  <2> QED BY <2>3, <2>4, <2>5, <2>6 DEF IInv
<1> QED BY <1>3, <1>4 DEF WriteNames, Goto

LEMMA LogChangeInv == ASSUME IInv, NEW r \in Requests, LogChange(r) PROVE IInv'
<1>1. /\ UNCHANGED <<file, request, reading, word>> /\ pc[r] = "written" /\ lock = r /\ lock' = NoOne
      /\ pc' = [pc EXCEPT ![r] = IF request[r].op = "restart" THEN "answering" ELSE "saved"]
  BY DEF LogChange, Stay, Goto, fileVars, history, IInv, LockInv
<1>2. /\ \A q \in Requests \ {r} :
            pc'[q] = pc[q] /\ pc[q] \notin {"checked", "writing", "written"}
      /\ pc'[r] \in {"answering", "saved"}
  BY <1>1 DEF IInv, LockInv, SwitchType
<1>3. SwitchType'
  BY <1>1 DEF IInv, SwitchType
<1> QED BY <1>1, <1>2, <1>3 DEF IInv, LockInv, WordInv, NextWordInv

LEMMA AnswerRestartInv == ASSUME IInv, NEW r \in Requests, AnswerRestart(r) PROVE IInv'
<1>1. /\ UNCHANGED <<file, lock, request, reading, word>>
      /\ pc' = [pc EXCEPT ![r] = "restarting"]
  BY DEF AnswerRestart, Goto, fileVars, history
<1>2. /\ \A q \in Requests \ {r} : pc'[q] = pc[q]
      /\ pc'[r] = "restarting"
  BY <1>1 DEF IInv, SwitchType
<1>3. SwitchType'
  BY <1>1 DEF IInv, SwitchType
<1> QED BY <1>1, <1>2, <1>3 DEF IInv, LockInv, WordInv, NextWordInv

LEMMA OutsideInv == ASSUME IInv, ~ReadsMayDiffer, Outside PROVE IInv'
<1>1. UNCHANGED <<lock, pc, request, reading>>
  BY DEF Outside, EditFile, BecomesUnreadable, BecomesReadable, ByHand, processVars, requestVars
<1>2. CASE EditFile
  <2>1. file' \in [there : BOOLEAN, readable : BOOLEAN, names : SUBSET Names] /\ file'.readable
    BY <1>2, SwitchesAssumption DEF EditFile
  <2>2. word' = [a \in Known |-> "none"]
    BY <1>2 DEF EditFile
  <2> QED BY <1>1, <2>1, <2>2 DEF IInv, SwitchType, LockInv, WordInv, NextWordInv
<1>3. CASE BecomesUnreadable
  <2>1. lock = NoOne /\ word' = word /\ file' = [file EXCEPT !.readable = FALSE]
    BY <1>3 DEF BecomesUnreadable
  <2>2. \A r \in Requests : pc[r] \notin {"checked", "writing", "written"}
    BY <2>1, SwitchesAssumption DEF IInv, LockInv
  <2>3. /\ file' \in [there : BOOLEAN, readable : BOOLEAN, names : SUBSET Names]
        /\ file'.there = file.there /\ file'.names = file.names
    BY <2>1 DEF IInv, SwitchType
  <2> QED BY <1>1, <2>1, <2>2, <2>3 DEF IInv, SwitchType, LockInv, WordInv, NextWordInv
<1>4. CASE BecomesReadable
  <2>1. /\ file' \in [there : BOOLEAN, readable : BOOLEAN, names : SUBSET Names]
        /\ file'.there = file.there /\ file'.names = file.names /\ file'.readable
        /\ word' = word
    BY <1>4 DEF BecomesReadable, IInv, SwitchType
  <2> QED BY <1>1, <2>1 DEF IInv, SwitchType, LockInv, WordInv, NextWordInv
<1> QED BY <1>2, <1>3, <1>4 DEF Outside

LEMMA CommandInv == ASSUME IInv, NEW t \in Terminals, Command(t) PROVE IInv'
<1>1. CASE Ends /\ word' = word
  BY <1>1, EndsInv
<1>2. CASE UNCHANGED <<file, lock, pc, request, reading, word>>
  BY <1>2, Elsewhere
<1> QED
  BY <1>1, <1>2 DEF Command, EmptyGate, FillGate, Kick, SayRestarted, Wrote, fileVars, processVars,
                    requestVars, history

LEMMA StepInv == ASSUME IInv, ~ReadsMayDiffer, [Next]_vars PROVE IInv'
<1>1. CASE UNCHANGED vars
  BY <1>1, Elsewhere DEF vars, fileVars, processVars, requestVars, history
<1>2. CASE Launch \/ Import
  BY <1>2, Elsewhere DEF Launch, Import, fileVars, requestVars, history
<1>3. CASE Leave \/ Dies
  BY <1>3, EndsInv DEF Leave, Dies, history
<1>4. ASSUME NEW r \in Requests, Handle(r) PROVE IInv'
  BY <1>4, PostInv, EnterInv, ReadNamesInv, WriteNamesInv, LogChangeInv, AnswerRestartInv DEF Handle
<1> QED BY <1>1, <1>2, <1>3, <1>4, OutsideInv, CommandInv DEF Next

\* A switch stays as the page has set it until it is set again or the file is edited.
THEOREM LastWord == ASSUME ~ReadsMayDiffer PROVE Spec => []LastWordStands
<1>1. IInv => LastWordStands
  BY DEF IInv, WordInv, LastWordStands
<1> QED BY <1>1, InitInv, StepInv, PTL DEF Spec

-----------------------------------------------------------------------------
(* What the operator was told of sending.                                  *)

\* The send tools registered so far are those the gate and the deny-list let through.
Agrees ==
    \A i \in DOMAIN registered :
        Tools[i].tier = "send" =>
            (registered[i] <=> (Tools[i].app \in gate /\ AdapterEnabled(Tools[i].app, snapshot)))

ImportInv ==
    /\ registered \in Seq(BOOLEAN) /\ Len(registered) =< Len(Tools)
    /\ daemon \in {"down", "importing", "serving", "leaving"}
    /\ daemon = "down" => registered = <<>>
    /\ daemon = "importing" => Len(registered) < Len(Tools)
    /\ daemon \in {"serving", "leaving"} => Len(registered) = Len(Tools)

\* A terminal that wrote the gate last finds its value there; once it has restarted the daemon,
\* and once it has said so, the gate is what every later import has read.
ToldInv ==
    /\ DOMAIN tpc = Terminals /\ DOMAIN value = Terminals
    /\ \A t \in Terminals : writer = t /\ tpc[t] \in {"wrote", "kicked"} => gate = value[t]
    /\ \A t \in Terminals : writer = t /\ tpc[t] = "kicked" => Agrees
    /\ told # NoOne => told = gate /\ Agrees

SendInv == ImportInv /\ ToldInv

LEMMA ToolsAreSome == Tools \in Seq([app : Known, tier : {"read", "additive", "destructive", "send"}])
                      /\ Len(Tools) > 0
BY SwitchesAssumption

LEMMA ElementOf == ASSUME NEW S, NEW s \in Seq(S), NEW i \in 1..Len(s) PROVE s[i] \in S
OBVIOUS

LEMMA InitSend == Init => SendInv
<1> SUFFICES ASSUME Init PROVE SendInv
  OBVIOUS
<1>1. ImportInv
  BY ToolsAreSome DEF Init, ImportInv
<1>2. ToldInv
  BY SwitchesAssumption DEF Init, ToldInv
<1> QED BY <1>1, <1>2 DEF SendInv

\* Steps that import nothing and write no gate.
LEMMA SendElsewhere ==
    ASSUME SendInv, UNCHANGED <<gate, snapshot, registered, terminalVars, writer, told>>,
           daemon' = daemon \/ (daemon = "serving" /\ daemon' = "leaving")
    PROVE  SendInv'
<1>1. ImportInv'
  BY DEF SendInv, ImportInv
<1>2. ToldInv'
  BY DEF SendInv, ToldInv, Agrees, terminalVars
<1> QED BY <1>1, <1>2 DEF SendInv

\* The process ends: what it registered is gone.
LEMMA EndsSend ==
    ASSUME SendInv, Ends, UNCHANGED <<value, writer, told>>, DOMAIN tpc' = Terminals,
           \A t \in Terminals :
              tpc'[t] = tpc[t] \/ (tpc[t] = "wrote" /\ tpc'[t] = "kicked")
    PROVE  SendInv'
<1>1. daemon' = "down" /\ registered' = <<>> /\ gate' = gate
  BY DEF Ends, fileVars
<1>2. ImportInv'
  BY <1>1, ToolsAreSome DEF ImportInv
<1>3. Agrees'
  BY <1>1 DEF Agrees
<1>4. ToldInv'
  BY <1>1, <1>3 DEF SendInv, ToldInv
<1> QED BY <1>2, <1>4 DEF SendInv

LEMMA LaunchSend == ASSUME SendInv, Launch PROVE SendInv'
<1>1. /\ daemon = "down" /\ daemon' = "importing" /\ registered' = registered /\ gate' = gate
      /\ UNCHANGED <<tpc, value, writer, told>>
  BY DEF Launch, fileVars, terminalVars, history
<1>2. registered = <<>>
  BY <1>1 DEF SendInv, ImportInv
<1>3. ImportInv'
  BY <1>1, <1>2, ToolsAreSome DEF ImportInv
<1>4. Agrees'
  BY <1>1, <1>2 DEF Agrees
<1>5. ToldInv'
  BY <1>1, <1>4 DEF SendInv, ToldInv
<1> QED BY <1>3, <1>5 DEF SendInv

LEMMA ImportSend == ASSUME EnvSend = {}, ~ReadOnly, SendInv, Import PROVE SendInv'
<1> DEFINE n == Len(registered) + 1
           yes == Registers(Tools[n])
<1>1. /\ daemon = "importing" /\ registered' = Append(registered, yes)
      /\ daemon' = IF Len(registered') = Len(Tools) THEN "serving" ELSE "importing"
      /\ UNCHANGED <<gate, snapshot, tpc, value, writer, told>>
  BY DEF Import, fileVars, terminalVars, history
<1>2. /\ registered \in Seq(BOOLEAN) /\ Len(registered) < Len(Tools)
      /\ n \in 1..Len(Tools) /\ Len(Tools) \in Nat /\ yes \in BOOLEAN
  <2>1. registered \in Seq(BOOLEAN) /\ Len(registered) < Len(Tools) /\ Len(Tools) \in Nat
    BY <1>1, ToolsAreSome DEF SendInv, ImportInv
  <2>2. n \in 1..Len(Tools)
    BY <2>1
  <2>3. Tools[n].tier \in {"read", "additive", "destructive", "send"}
    <3> HIDE DEF n
    <3>1. Tools[n] \in [app : Known, tier : {"read", "additive", "destructive", "send"}]
      BY <2>2, ToolsAreSome, ElementOf
    <3> QED BY <3>1
  <2>4. yes \in BOOLEAN
    BY <2>3 DEF Registers, AllowSend, AdapterEnabled
  <2> QED BY <2>1, <2>2, <2>4
<1>3. Tools[n].tier = "send" =>
        (yes <=> (Tools[n].app \in gate /\ AdapterEnabled(Tools[n].app, snapshot)))
  BY DEF Registers, AllowSend, IsDaemonRole
<1> HIDE DEF yes
<1>4. PICK k : k = n
  OBVIOUS
<1>5. /\ registered' \in Seq(BOOLEAN) /\ Len(registered') = k /\ DOMAIN registered' = 1..k
      /\ registered'[k] = yes /\ \A i \in 1..(k - 1) : registered'[i] = registered[i]
      /\ DOMAIN registered = 1..(k - 1)
  BY <1>1, <1>2, <1>4
<1>6. ImportInv'
  BY <1>1, <1>2, <1>4, <1>5 DEF ImportInv
<1>7. Agrees => Agrees'
  <2> SUFFICES ASSUME Agrees, NEW i \in 1..k, Tools[i].tier = "send"
               PROVE  registered'[i] <=>
                        (Tools[i].app \in gate /\ AdapterEnabled(Tools[i].app, snapshot))
    BY <1>1, <1>5 DEF Agrees, AdapterEnabled
  <2>1. CASE i = k
    BY <1>3, <1>4, <1>5, <2>1
  <2>2. CASE i \in 1..(k - 1)
    BY <1>5, <2>2 DEF Agrees
  <2> QED BY <1>2, <1>4, <2>1, <2>2
<1>8. ToldInv'
  BY <1>1, <1>7 DEF SendInv, ToldInv
<1> QED BY <1>6, <1>8 DEF SendInv

LEMMA CommandSend == ASSUME SendInv, NEW t \in Terminals, Command(t) PROVE SendInv'
<1>1. CASE EmptyGate(t)
  <2>1. /\ writer' = t /\ told' = NoOne /\ tpc' = [tpc EXCEPT ![t] = "emptied"]
        /\ UNCHANGED <<daemon, snapshot, registered>>
        /\ \E v : value' = [value EXCEPT ![t] = v]
    BY <1>1 DEF EmptyGate, Wrote, processVars
  <2>2. tpc'[t] = "emptied" /\ DOMAIN tpc' = Terminals /\ DOMAIN value' = Terminals
    BY <2>1 DEF SendInv, ToldInv
  <2>3. ImportInv'
    BY <2>1 DEF SendInv, ImportInv
  <2> QED BY <2>1, <2>2, <2>3 DEF SendInv, ToldInv
<1>2. CASE FillGate(t)
  <2>1. /\ writer' = t /\ told' = NoOne /\ tpc' = [tpc EXCEPT ![t] = "wrote"]
        /\ gate' = value[t] /\ UNCHANGED <<daemon, snapshot, registered, value>>
    BY <1>2 DEF FillGate, Wrote, processVars
  <2>2. tpc'[t] = "wrote" /\ DOMAIN tpc' = Terminals
    BY <2>1 DEF SendInv, ToldInv
  <2>3. ImportInv'
    BY <2>1 DEF SendInv, ImportInv
  <2> QED BY <2>1, <2>2, <2>3 DEF SendInv, ToldInv
<1>3. CASE Kick(t) /\ Installed
  <2>1. /\ Ends /\ tpc[t] = "wrote" /\ tpc' = [tpc EXCEPT ![t] = "kicked"]
        /\ UNCHANGED <<value, writer, told>>
    BY <1>3 DEF Kick, history
  <2>2. DOMAIN tpc' = Terminals
        /\ \A q \in Terminals : tpc'[q] = tpc[q] \/ (tpc[q] = "wrote" /\ tpc'[q] = "kicked")
    BY <2>1 DEF SendInv, ToldInv
  <2> QED BY <2>1, <2>2, EndsSend
<1>4. CASE Kick(t) /\ ~Installed
  <2>1. /\ tpc' = [tpc EXCEPT ![t] = "not restarted"]
        /\ UNCHANGED <<gate, daemon, snapshot, registered, value, writer, told>>
    BY <1>4 DEF Kick, history, fileVars
  <2>2. ImportInv'
    BY <2>1 DEF SendInv, ImportInv
  <2>3. DOMAIN tpc' = Terminals /\ \A q \in Terminals : tpc'[q] \in {tpc[q], "not restarted"}
    BY <2>1 DEF SendInv, ToldInv
  <2> QED BY <2>1, <2>2, <2>3 DEF SendInv, ToldInv, Agrees
<1>5. CASE SayRestarted(t)
  <2>1. /\ tpc[t] = "kicked" /\ tpc' = [tpc EXCEPT ![t] = "restarted"]
        /\ told' = IF writer = t THEN value[t] ELSE told
        /\ UNCHANGED <<gate, daemon, snapshot, registered, value, writer>>
    BY <1>5 DEF SayRestarted, fileVars, processVars
  <2>2. ImportInv'
    BY <2>1 DEF SendInv, ImportInv
  <2>3. DOMAIN tpc' = Terminals /\ \A q \in Terminals : tpc'[q] \in {tpc[q], "restarted"}
    BY <2>1 DEF SendInv, ToldInv
  <2>4. writer = t => gate = value[t] /\ Agrees
    BY <2>1 DEF SendInv, ToldInv
  <2> QED BY <2>1, <2>2, <2>3, <2>4 DEF SendInv, ToldInv, Agrees
<1> QED BY <1>1, <1>2, <1>3, <1>4, <1>5 DEF Command

LEMMA StepSend == ASSUME EnvSend = {}, ~ReadOnly, SendInv, [Next]_vars PROVE SendInv'
<1>1. CASE UNCHANGED vars
  BY <1>1, SendElsewhere DEF vars, fileVars, processVars, history
<1>2. CASE Leave \/ Dies
  BY <1>2, EndsSend DEF Leave, Dies, history, terminalVars, SendInv, ToldInv
<1>3. ASSUME NEW r \in Requests, Handle(r) PROVE SendInv'
  <2>1. UNCHANGED <<gate, snapshot, registered, terminalVars, writer, told>>
    BY <1>3 DEF Handle, Post, Enter, ReadNames, WriteNames, LogChange, AnswerRestart, Stay,
                fileVars, history
  <2>2. daemon' = daemon \/ (daemon = "serving" /\ daemon' = "leaving")
    BY <1>3 DEF Handle, Post, Enter, ReadNames, WriteNames, LogChange, AnswerRestart, Stay
  <2> QED BY <2>1, <2>2, SendElsewhere
<1>4. CASE Outside
  BY <1>4, SendElsewhere DEF Outside, EditFile, BecomesUnreadable, BecomesReadable, ByHand,
                             processVars
<1> QED BY <1>1, <1>2, <1>3, <1>4, LaunchSend, ImportSend, CommandSend DEF Next

\* What the operator was told of sending is what every daemon does that serves afterwards,
\* whatever the switches, the environment and the other terminals are.
THEOREM SendingAsTold == Spec => []SendingIsAsTold
<1>1. CASE EnvSend = {} /\ ~ReadOnly
  <2>1. SendInv => SendingIsAsTold
    BY ToolsAreSome DEF SendInv, ImportInv, ToldInv, Agrees, SendingIsAsTold
  <2>2. SendInv /\ [Next]_vars => SendInv'
    BY <1>1, StepSend
  <2> QED BY <2>1, <2>2, InitSend, PTL DEF Spec
<1>2. CASE ~(EnvSend = {} /\ ~ReadOnly)
  <2>1. SendingIsAsTold
    BY <1>2 DEF SendingIsAsTold
  <2> QED BY <2>1, PTL
<1> QED BY <1>1, <1>2


-----------------------------------------------------------------------------
(* The rows of the Writes and Backups pages.                               *)

\* What a record says of its call, once it is in the log.
Honest(rec) ==
    LET c == rec.call
    IN  /\ c \in Calls /\ rec.phase \in {"plan", "done", "line"}
        /\ rec.receipt = IF c \in R!Batches /\ (rec.phase # "line" \/ c \notin old) THEN c ELSE None
        /\ rec.phase # "line" => c \in R!Batches
        /\ rec.phase = "line" => /\ callPc[c] = "ended" /\ Kind[c] # "dedupe"
                                 /\ rec.tool = R!Tool(c) /\ rec.names = Undoes[c]
        /\ rec.dry <=> Kind[c] = "undo preview"
        /\ rec.phase = "done" => callPc[c] \notin {"new", "planned"} /\ rec.results = results[c]
        /\ callPc[c] # "new"

\* No call writes two records of one phase.
OncePerPhase(log) ==
    \A i, j \in DOMAIN log :
        log[i].call = log[j].call /\ log[i].phase = log[j].phase => i = j

\* A batch's line that comes next to another's done record ran beside it.
NextToRanBeside(log) ==
    \A i \in DOMAIN log :
        /\ i + 1 \in DOMAIN log
        /\ log[i].phase = "done" /\ log[i + 1].phase = "line"
        /\ log[i + 1].call \in R!Batches /\ log[i + 1].call # log[i].call
        => log[i + 1].call \in beside[log[i].call]

\* A batch under way ran beside the one whose done record is the last.
LastRanBeside(log) ==
    log # <<>> /\ log[Len(log)].phase = "done" =>
        \A d \in R!Running : d # log[Len(log)].call => d \in beside[log[Len(log)].call]

GoodLog(log) ==
    /\ log \in Seq(R!Records)
    /\ \A i \in DOMAIN log : Honest(log[i])
    /\ OncePerPhase(log) /\ NextToRanBeside(log) /\ LastRanBeside(log)

\* Who ran at the same time, and of which version they are.
BesideInv ==
    /\ \A c, d \in R!Running : c # d => d \in beside[c]
    /\ \A c, d \in Calls : d \in beside[c] => c \in beside[d] /\ (c \in old <=> d \in old)
    /\ \A c \in Calls : callPc[c] = "new" => beside[c] = {}

RecordsType ==
    /\ old \subseteq Calls /\ clock \in Nat
    /\ older \in Seq(R!Records) /\ live \in Seq(R!Records)
    /\ callPc \in [Calls -> {"new", "planned", "done", "ended", "stopped"}]
    /\ results \in [Calls -> {"all", "some", "none", "unknown"}]
    /\ beside \in [Calls -> SUBSET Calls]

\* Only batches have a plan.
PlannedInv == \A c \in Calls : callPc[c] \in {"planned", "done"} => c \in R!Batches

RecordsInv == RecordsType /\ PlannedInv /\ BesideInv /\ GoodLog(R!read_all)

LEMMA InitRecords == R!Init => RecordsInv
<1> SUFFICES ASSUME R!Init PROVE RecordsInv
  OBVIOUS
<1>1. RecordsType
  <2>1. old \subseteq Calls
    BY RecordsAssumption DEF R!Init
  <2>2. older = <<>> /\ live = <<>> /\ clock = 0
    BY DEF R!Init
  <2>3. /\ callPc = [c \in Calls |-> "new"] /\ results = [c \in Calls |-> "unknown"]
        /\ beside = [c \in Calls |-> {}]
    BY DEF R!Init
  <2> QED BY <2>1, <2>2, <2>3 DEF RecordsType
<1>2. BesideInv
  BY DEF R!Init, BesideInv, R!Running
<1>5. PlannedInv
  BY DEF R!Init, PlannedInv
<1>3. R!read_all = <<>>
  BY DEF R!Init, R!read_all
<1>4. GoodLog(<<>>)
  BY DEF GoodLog, OncePerPhase, NextToRanBeside, LastRanBeside
<1> QED BY <1>1, <1>2, <1>3, <1>4, <1>5 DEF RecordsInv

\* A record goes to the end of the log, a rotation takes some from its beginning.
LEMMA AppendedToAll ==
    ASSUME NEW S, NEW s \in Seq(S), NEW t \in Seq(S), NEW x
    PROVE  s \o Append(t, x) = Append(s \o t, x)
OBVIOUS

LEMMA RestOfAll ==
    ASSUME NEW S, NEW s \in Seq(S), NEW t \in Seq(S)
    PROVE  /\ s \o t \in Seq(S) /\ Len(s \o t) = Len(s) + Len(t) /\ Len(s) \in Nat
           /\ \A i \in 1..Len(t) : Len(s) + i \in 1..Len(s \o t) /\ t[i] = (s \o t)[Len(s) + i]
OBVIOUS

\* What a call has behind it stays so.
Onward ==
    /\ old' = old
    /\ \A c \in Calls : /\ callPc[c] # "new" => callPc'[c] # "new"
                        /\ callPc[c] \notin {"new", "planned"} =>
                              callPc'[c] \notin {"new", "planned"} /\ results'[c] = results[c]
                        /\ callPc[c] = "ended" => callPc'[c] = "ended"
                        /\ beside[c] \subseteq beside'[c]

LEMMA StillHonest ==
    ASSUME NEW rec, Honest(rec), Onward
    PROVE  Honest(rec)'
BY DEF Honest, Onward, R!Batches, R!Tool

\* The log when nothing is written.
LEMMA SameLog ==
    ASSUME NEW log, GoodLog(log), Onward, R!Running' \subseteq R!Running
    PROVE  GoodLog(log)'
<1>1. log \in Seq(R!Records) /\ \A i \in DOMAIN log : Honest(log[i]) /\ log[i].call \in Calls
  BY DEF GoodLog, Honest
<1>2. ASSUME NEW i \in DOMAIN log PROVE Honest(log[i])'
  BY <1>1, StillHonest
<1>3. NextToRanBeside(log)'
  BY <1>1 DEF GoodLog, NextToRanBeside, Onward, R!Batches
<1>4. LastRanBeside(log)'
  BY <1>1 DEF GoodLog, LastRanBeside, Onward
<1> QED BY <1>1, <1>2, <1>3, <1>4 DEF GoodLog, OncePerPhase

\* A record is added to the log.
LEMMA LongerLog ==
    ASSUME NEW log, GoodLog(log), Onward, NEW rec \in R!Records, Honest(rec)',
           \A i \in DOMAIN log : log[i].call = rec.call => log[i].phase # rec.phase,
           rec.phase = "line" /\ rec.call \in R!Batches => rec.call \in R!Running,
           rec.phase = "done" =>
              \A d \in R!Running' : d # rec.call => d \in beside'[rec.call]
    PROVE  GoodLog(Append(log, rec))'
<1>0. PICK n : n = Len(log) + 1
  OBVIOUS
<1>1. /\ log \in Seq(R!Records) /\ n \in Nat \ {0}
      /\ \A i \in DOMAIN log : Honest(log[i]) /\ log[i].call \in Calls
  <2>1. log \in Seq(R!Records) /\ \A i \in DOMAIN log : Honest(log[i])
    BY DEF GoodLog
  <2>2. Len(log) \in Nat
    BY <2>1
  <2>3. \A i \in DOMAIN log : log[i].call \in Calls
    BY <2>1 DEF Honest
  <2> QED BY <1>0, <2>1, <2>2, <2>3
<1>2. PICK more : more = Append(log, rec)
  OBVIOUS
<1>3. /\ more \in Seq(R!Records) /\ Len(more) = n /\ more[n] = rec
      /\ DOMAIN log = 1..(n - 1) /\ DOMAIN more = 1..n
      /\ \A i \in 1..(n - 1) : more[i] = log[i]
  BY <1>0, <1>1, <1>2
<1>4. ASSUME NEW i \in 1..n PROVE Honest(more[i])'
  <2>1. CASE i = n
    BY <1>3, <2>1
  <2>2. CASE i \in 1..(n - 1)
    BY <1>1, <1>3, <2>2, StillHonest
  <2> QED BY <1>1, <2>1, <2>2
<1>5. OncePerPhase(more)'
  <2> SUFFICES ASSUME NEW i \in 1..n, NEW j \in 1..n, more[i].call = more[j].call,
                      more[i].phase = more[j].phase
               PROVE  i = j
    BY <1>3 DEF OncePerPhase
  <2>1. CASE i \in 1..(n - 1) /\ j \in 1..(n - 1)
    BY <1>3, <2>1 DEF GoodLog, OncePerPhase
  <2>2. i = n /\ j # n => FALSE
    BY <1>1, <1>3
  <2>3. j = n /\ i # n => FALSE
    BY <1>1, <1>3
  <2> QED BY <1>1, <2>1, <2>2, <2>3
<1>6. NextToRanBeside(more)'
  <2> SUFFICES ASSUME NEW i \in 1..n, i + 1 \in 1..n, more[i].phase = "done",
                      more[i + 1].phase = "line", more[i + 1].call \in R!Batches,
                      more[i + 1].call # more[i].call
               PROVE  more[i + 1].call \in beside'[more[i].call]
    BY <1>3 DEF NextToRanBeside, R!Batches
  <2>1. more[i] = log[i] /\ i \in DOMAIN log /\ i \in 1..(n - 1)
    BY <1>1, <1>3
  <2>2. CASE i + 1 \in 1..(n - 1)
    <3>1. more[i + 1].call \in beside[more[i].call]
      BY <1>3, <2>1, <2>2 DEF GoodLog, NextToRanBeside
    <3> QED BY <1>1, <2>1, <3>1 DEF Onward
  <2>3. CASE i + 1 = n
    <3>1. rec.call \in R!Running /\ rec.call # log[i].call
      BY <1>3, <2>1, <2>3
    <3>4. i = Len(log) /\ log # <<>>
      BY <1>0, <1>1, <2>1, <2>3
    <3>2. rec.call \in beside[log[i].call]
      BY <1>3, <2>1, <3>1, <3>4 DEF GoodLog, LastRanBeside
    <3> QED BY <1>1, <1>3, <2>1, <2>3, <3>2 DEF Onward
  <2> QED BY <1>1, <2>2, <2>3
<1>7. LastRanBeside(more)'
  BY <1>3 DEF LastRanBeside
<1>8. GoodLog(more)'
  BY <1>3, <1>4, <1>5, <1>6, <1>7 DEF GoodLog
<1> QED BY <1>2, <1>8

\* The first records of the log are gone.
LEMMA ShorterLog ==
    ASSUME NEW gone \in Seq(R!Records), NEW log \in Seq(R!Records), log # <<>>,
           GoodLog(gone \o log)
    PROVE  GoodLog(log)
<1>1. PICK all, n : all = gone \o log /\ n = Len(gone)
  OBVIOUS
<1>2. /\ n \in Nat /\ Len(all) = n + Len(log)
      /\ \A i \in DOMAIN log : n + i \in DOMAIN all /\ log[i] = all[n + i]
  BY <1>1
<1>3. GoodLog(all)
  BY <1>1
<1>4. \A i \in DOMAIN log : Honest(log[i])
  BY <1>2, <1>3 DEF GoodLog
<1>5. OncePerPhase(log)
  <2> SUFFICES ASSUME NEW i \in DOMAIN log, NEW j \in DOMAIN log,
                      log[i].call = log[j].call, log[i].phase = log[j].phase
               PROVE  i = j
    BY DEF OncePerPhase
  <2>0. /\ n + i \in DOMAIN all /\ n + j \in DOMAIN all
        /\ log[i] = all[n + i] /\ log[j] = all[n + j]
    BY <1>2
  <2>1. n + i = n + j
    BY <1>3, <2>0 DEF GoodLog, OncePerPhase
  <2> QED BY <1>2, <2>1
<1>6. NextToRanBeside(log)
  <2> SUFFICES ASSUME NEW i \in DOMAIN log, i + 1 \in DOMAIN log, log[i].phase = "done",
                      log[i + 1].phase = "line", log[i + 1].call \in R!Batches,
                      log[i + 1].call # log[i].call
               PROVE  log[i + 1].call \in beside[log[i].call]
    BY DEF NextToRanBeside
  <2>1. n + i \in DOMAIN all /\ (n + i) + 1 \in DOMAIN all
        /\ log[i] = all[n + i] /\ log[i + 1] = all[(n + i) + 1]
    BY <1>2
  <2> QED BY <1>3, <2>1 DEF GoodLog, NextToRanBeside
<1>7. LastRanBeside(log)
  <2>1. all # <<>> /\ log[Len(log)] = all[Len(all)]
    BY <1>1, <1>2
  <2> QED BY <1>3, <2>1 DEF GoodLog, LastRanBeside
<1> QED BY <1>4, <1>5, <1>6, <1>7 DEF GoodLog

LEMMA RecordHonest ==
    ASSUME RecordsType, NEW c \in Calls, NEW phase \in {"plan", "done", "line"},
           results'[c] \in {"all", "some", "none", "unknown"}, old' = old, callPc'[c] # "new",
           phase # "line" => c \in R!Batches,
           phase = "line" => callPc'[c] = "ended" /\ Kind[c] # "dedupe",
           phase = "done" => callPc'[c] # "planned"
    PROVE  /\ R!Record(c, phase) \in R!Records
           /\ R!Record(c, phase).call = c /\ R!Record(c, phase).phase = phase
           /\ \A rec : rec = R!Record(c, phase) => Honest(rec)'
<1>1. PICK rec : rec = R!Record(c, phase)
  OBVIOUS
<1>2. /\ rec.call = c /\ rec.phase = phase
      /\ rec.tool = IF phase = "line" THEN R!Tool(c) ELSE "mail_recover"
      /\ rec.receipt = IF c \in R!Batches /\ (phase # "line" \/ c \notin old) THEN c ELSE None
      /\ rec.op = R!Op(c) /\ rec.dry = (Kind[c] = "undo preview")
      /\ rec.names = IF phase = "line" THEN Undoes[c] ELSE None
      /\ rec.results = IF phase = "done" THEN results'[c] ELSE "unknown"
      /\ rec.ts = clock
  BY <1>1 DEF R!Record
<1>3. rec \in R!Records
  <2>1. R!Tool(c) \in R!Labels /\ R!Op(c) \in {"move", "dedupe"}
    BY DEF R!Tool, R!Op, R!Labels
  <2>2. Undoes[c] \in Calls \cup {None} /\ clock \in Nat
    BY RecordsAssumption DEF RecordsType
  <2>3. (IF phase = "line" THEN R!Tool(c) ELSE "mail_recover") \in R!Labels
    BY <2>1 DEF R!Labels
  <2> QED BY <1>1, <2>1, <2>2, <2>3 DEF R!Record, R!Records
<1>4. Honest(rec)'
  BY <1>2 DEF Honest, R!Batches, R!Tool
<1> QED BY <1>1, <1>2, <1>3, <1>4

LEMMA PlanRecords == ASSUME RecordsInv, NEW c \in Calls, R!Plan(c) PROVE RecordsInv'
<1>1. PICK log, rec : log = R!read_all /\ rec = R!Record(c, "plan")
  OBVIOUS
<1>2. /\ RecordsType /\ BesideInv /\ GoodLog(log)
      /\ c \in R!Batches /\ R!MayStart(c) /\ callPc[c] = "new"
      /\ live' = Append(live, rec) /\ callPc' = [callPc EXCEPT ![c] = "planned"]
      /\ beside' = [d \in Calls |-> IF d = c THEN R!Running
                                    ELSE IF d \in R!Running THEN beside[d] \cup {c} ELSE beside[d]]
      /\ UNCHANGED <<old, older, results, clock>>
  BY <1>1 DEF R!Plan, R!Goto, RecordsInv, R!MayStart
<1>3. rec \in R!Records /\ rec.call = c /\ rec.phase = "plan" /\ Honest(rec)'
  <2>1. callPc'[c] = "planned" /\ results'[c] \in {"all", "some", "none", "unknown"}
    BY <1>2 DEF RecordsType
  <2> QED BY <1>1, <1>2, <2>1, RecordHonest
<1>4. /\ R!Running \subseteq Calls /\ c \notin R!Running /\ R!Running' = R!Running \cup {c}
  BY <1>2 DEF R!Running, RecordsType
<1>5. RecordsType'
  <2>1. Append(live, rec) \in Seq(R!Records)
    BY <1>2, <1>3 DEF RecordsType
  <2>2. beside' \in [Calls -> SUBSET Calls]
    BY <1>2, <1>4 DEF RecordsType
  <2> QED BY <1>2, <2>1, <2>2 DEF RecordsType, R!Records
<1>6. BesideInv'
  <2>1. \A d \in R!Running : c \in old <=> d \in old
    BY <1>2, <1>4 DEF R!MayStart, R!Running
  <2>2. \A d, e \in R!Running' : d # e => e \in beside'[d]
    BY <1>2, <1>4 DEF BesideInv
  <2>3. \A d, e \in Calls : e \in beside'[d] => d \in beside'[e] /\ (d \in old <=> e \in old)
    BY <1>2, <1>4, <2>1 DEF BesideInv
  <2>4. \A d \in Calls : callPc'[d] = "new" => beside'[d] = {}
    BY <1>2, <1>4 DEF BesideInv, RecordsType, R!Running
  <2> QED BY <1>2, <2>2, <2>3, <2>4 DEF BesideInv
<1>7. Onward
  <2>1. \A d \in Calls : beside[d] \subseteq beside'[d]
    BY <1>2, <1>4 DEF BesideInv
  <2> QED BY <1>2, <1>4, <2>1 DEF Onward, RecordsType
<1>8. \A i \in DOMAIN log : log[i].call # c
  BY <1>2 DEF GoodLog, Honest
<1>9. GoodLog(Append(log, rec))'
  BY <1>2, <1>3, <1>7, <1>8, LongerLog
<1>10. R!read_all' = Append(log, rec)
  BY <1>1, <1>2, AppendedToAll DEF R!read_all, RecordsType
<1>11. PlannedInv'
  <2>1. PlannedInv
    BY DEF RecordsInv
  <2> QED BY <1>2, <2>1 DEF PlannedInv, RecordsType, R!Batches
<1> QED BY <1>5, <1>6, <1>9, <1>10, <1>11 DEF RecordsInv, GoodLog, OncePerPhase, NextToRanBeside, LastRanBeside

\* The other steps of a call bring nobody in.
LEMMA CallGoesOn ==
    ASSUME RecordsInv, NEW c \in Calls, NEW to \in {"done", "ended", "stopped"},
           callPc[c] \in {"new", "planned", "done"},
           callPc' = [callPc EXCEPT ![c] = to], to = "done" => callPc[c] = "planned",
           results' = results \/ (callPc[c] = "planned"
                                  /\ \E what \in {"all", "some"} : results' = [results EXCEPT ![c] = what]),
           UNCHANGED <<old, older, clock, beside>>,
           live' \in Seq(R!Records)
    PROVE  /\ RecordsType' /\ PlannedInv' /\ BesideInv' /\ Onward
           /\ R!Running' \subseteq R!Running /\ results'[c] \in {"all", "some", "none", "unknown"}
<1>1. RecordsType /\ BesideInv
  BY DEF RecordsInv
<1>2. results' \in [Calls -> {"all", "some", "none", "unknown"}]
      /\ \A d \in Calls : callPc[d] # "planned" => results'[d] = results[d]
  BY <1>1 DEF RecordsType
<1>3. callPc' \in [Calls -> {"new", "planned", "done", "ended", "stopped"}]
      /\ callPc'[c] = to /\ \A d \in Calls \ {c} : callPc'[d] = callPc[d]
  BY <1>1 DEF RecordsType
<1>4. RecordsType'
  BY <1>1, <1>2, <1>3 DEF RecordsType, R!Records
<1>5. R!Running' \subseteq R!Running
  BY <1>3 DEF R!Running
<1>6. BesideInv'
  BY <1>1, <1>3, <1>5 DEF BesideInv
<1>7. Onward
  BY <1>2, <1>3 DEF Onward
<1>8. PlannedInv'
  <2>1. PlannedInv
    BY DEF RecordsInv
  <2> QED BY <1>3, <2>1 DEF PlannedInv, R!Batches
<1> QED BY <1>2, <1>4, <1>5, <1>6, <1>7, <1>8

LEMMA AppendsRecords ==
    ASSUME RecordsInv, NEW c \in Calls, R!Done(c) \/ R!Line(c) PROVE RecordsInv'
<1>1. PICK phase, to :
        /\ R!Appends(c, phase) /\ callPc' = [callPc EXCEPT ![c] = to]
        /\ \/ phase = "done" /\ to = "done" /\ callPc[c] = "planned"
           \/ phase = "line" /\ to = "ended" /\ results' = results
              /\ \/ callPc[c] = "done" /\ Kind[c] # "dedupe"
                 \/ callPc[c] = "new" /\ c \notin R!Batches
        /\ \E what \in {"all", "some"} : results' \in {results, [results EXCEPT ![c] = what]}
        /\ UNCHANGED <<old, older, clock, beside>>
  <2>1. CASE R!Done(c)
    BY <2>1 DEF R!Done, R!Goto
  <2>2. CASE R!Line(c)
    BY <2>2 DEF R!Line, R!Goto, R!MayStart
  <2> QED BY <2>1, <2>2
<1>2. PICK log, rec : log = R!read_all /\ rec = R!Record(c, phase)
  OBVIOUS
<1>3. /\ RecordsType /\ BesideInv /\ GoodLog(log)
      /\ live' = Append(live, rec) \/ live' = live
  BY <1>1, <1>2 DEF RecordsInv, R!Appends
<1>4. results'[c] \in {"all", "some", "none", "unknown"} /\ callPc'[c] = to
  BY <1>1, <1>3 DEF RecordsType
<1>5. rec \in R!Records /\ rec.call = c /\ rec.phase = phase /\ Honest(rec)'
  <2>1. phase # "line" => c \in R!Batches
    <3>1. callPc[c] = "planned" => c \in R!Batches
      BY DEF RecordsInv, PlannedInv
    <3> QED BY <1>1, <3>1
  <2>2. phase = "line" => Kind[c] # "dedupe"
    BY <1>1 DEF R!Batches
  <2> QED BY <1>1, <1>2, <1>3, <1>4, <2>1, <2>2, RecordHonest
<1>6. live' \in Seq(R!Records)
  BY SMTT(30), <1>3, <1>5 DEF RecordsType
<1>7. RecordsType' /\ PlannedInv' /\ BesideInv' /\ Onward /\ R!Running' \subseteq R!Running
  <2>1. to \in {"done", "ended", "stopped"} /\ callPc[c] \in {"new", "planned", "done"}
    BY <1>1
  <2> QED BY <1>1, <1>6, <2>1, CallGoesOn
<1>8. CASE live' = live
  <2>1. GoodLog(log)'
    BY <1>3, <1>7, SameLog
  <2>2. R!read_all' = log
    BY <1>1, <1>2, <1>8 DEF R!read_all
  <2> QED BY <1>7, <2>1, <2>2 DEF RecordsInv, GoodLog, OncePerPhase, NextToRanBeside, LastRanBeside
<1>9. CASE live' = Append(live, rec)
  <2>1. \A i \in DOMAIN log : log[i].call = c => log[i].phase # phase
    BY <1>1, <1>3 DEF GoodLog, Honest
  <2>2. phase = "line" /\ c \in R!Batches => c \in R!Running
    BY <1>1 DEF R!Running
  <2>3. phase = "done" => \A d \in R!Running' : d # c => d \in beside'[c]
    <3>1. phase = "done" => c \in R!Running
      BY <1>1 DEF R!Running
    <3> QED BY <1>1, <1>3, <1>7, <3>1 DEF BesideInv
  <2>4. GoodLog(Append(log, rec))'
    BY <1>3, <1>5, <1>7, <2>1, <2>2, <2>3, LongerLog
  <2>5. R!read_all' = Append(log, rec)
    BY <1>1, <1>2, <1>3, <1>9, AppendedToAll DEF R!read_all, RecordsType
  <2> QED BY <1>7, <2>4, <2>5 DEF RecordsInv, GoodLog, OncePerPhase, NextToRanBeside, LastRanBeside
<1> QED BY <1>3, <1>8, <1>9

LEMMA RestRecords ==
    ASSUME RecordsInv, (\E c \in Calls : R!Stop(c)) \/ R!Rotate \/ R!Tick PROVE RecordsInv'
<1>1. RecordsType /\ BesideInv /\ GoodLog(R!read_all)
  BY DEF RecordsInv
<1>2. PICK log : log = R!read_all
  OBVIOUS
<1>3. ASSUME NEW c \in Calls, R!Stop(c) PROVE RecordsInv'
  <2>1. PICK to \in {"ended", "stopped"} : callPc' = [callPc EXCEPT ![c] = to]
    BY <1>3 DEF R!Stop, R!Goto
  <2>2. /\ callPc[c] \in {"planned", "done"} /\ live' = live
        /\ UNCHANGED <<old, older, clock, beside, results>>
    BY <1>3 DEF R!Stop
  <2>3. RecordsType' /\ PlannedInv' /\ BesideInv' /\ Onward /\ R!Running' \subseteq R!Running
    BY <1>1, <2>1, <2>2, CallGoesOn DEF RecordsType
  <2>4. GoodLog(log)' /\ R!read_all' = log
    BY <1>1, <1>2, <2>2, <2>3, SameLog DEF R!read_all
  <2> QED BY <2>3, <2>4 DEF RecordsInv, GoodLog, OncePerPhase, NextToRanBeside, LastRanBeside
<1>4. CASE R!Rotate \/ R!Tick
  <2>1. UNCHANGED <<old, callPc, results, beside>> /\ clock' \in Nat
    BY <1>1, <1>4 DEF R!Rotate, R!Tick, RecordsType
  <2>2. older' \in Seq(R!Records) /\ live' \in Seq(R!Records)
    <3>1. <<>> \in Seq(R!Records)
      OBVIOUS
    <3> QED BY <1>1, <1>4, <3>1 DEF R!Rotate, R!Tick, RecordsType
  <2>3. RecordsType' /\ PlannedInv' /\ BesideInv' /\ Onward /\ R!Running' = R!Running
    BY <1>1, <2>1, <2>2 DEF RecordsInv, RecordsType, PlannedInv, BesideInv, Onward, R!Running, R!Records,
                           R!Batches
  <2>4. CASE R!Tick
    <3>1. GoodLog(log)' /\ R!read_all' = log
      BY <1>1, <1>2, <2>3, <2>4, SameLog DEF R!read_all, R!Tick
    <3> QED BY <2>3, <3>1 DEF RecordsInv, GoodLog, OncePerPhase, NextToRanBeside, LastRanBeside
  <2>5. CASE R!Rotate
    <3>1. live # <<>> /\ older' = live /\ live' = <<>>
      BY <2>5 DEF R!Rotate
    <3>2. PICK rest : rest = live
      OBVIOUS
    <3>3. GoodLog(rest)
      BY <1>1, <3>1, <3>2, ShorterLog DEF R!read_all, RecordsType
    <3>4. GoodLog(rest)'
      BY <2>3, <3>3, SameLog
    <3>5. R!read_all' = rest
      BY <1>1, <3>1, <3>2 DEF R!read_all, RecordsType
    <3> QED BY <2>3, <3>4, <3>5 DEF RecordsInv, GoodLog, OncePerPhase, NextToRanBeside, LastRanBeside
  <2> QED BY <1>4, <2>4, <2>5
<1> QED BY <1>3, <1>4

LEMMA StepRecords == ASSUME RecordsInv, [R!Next]_recordVars PROVE RecordsInv'
<1>1. CASE UNCHANGED recordVars
  <2>1. PICK log : log = R!read_all
    OBVIOUS
  <2>2. RecordsType' /\ PlannedInv' /\ BesideInv' /\ Onward /\ R!Running' = R!Running
    BY <1>1 DEF recordVars, RecordsInv, RecordsType, PlannedInv, BesideInv, Onward, R!Running, R!Records,
                R!Batches
  <2>3. GoodLog(log)' /\ R!read_all' = log
    BY <1>1, <2>1, <2>2, SameLog DEF recordVars, R!read_all, RecordsInv
  <2> QED BY <2>2, <2>3 DEF RecordsInv, GoodLog, OncePerPhase, NextToRanBeside, LastRanBeside
<1> QED BY <1>1, PlanRecords, AppendsRecords, RestRecords DEF R!Next

-----------------------------------------------------------------------------
(* The rows.                                                               *)

RowAt(log, g) ==
    [at |-> g.at, receipt |-> g.receipt, lines |-> g.lines, ts |-> log[g.at].ts,
     n |-> R!Ordinal(log, R!Gathered(log), g), tool |-> R!RowTool(log[g.at]),
     preview |-> log[g.at].dry, names |-> log[g.at].names,
     calls |-> {log[i].call : i \in g.lines}]

LEMMA RowsAreThese == ASSUME NEW log PROVE R!Rows(log) = {RowAt(log, g) : g \in R!Gathered(log)}
BY DEF R!Rows, RowAt

\* The records that a receipt's key finds are those of the call that wrote it, one of a phase.
LEMMA KeyedRecords ==
    ASSUME NEW log, GoodLog(log), NEW c \in R!Receipts(log), NEW phase
    PROVE  /\ c \in R!Batches
           /\ R!At(log, c, phase) \subseteq DOMAIN log
           /\ \A i \in R!At(log, c, phase) : /\ log[i].call = c /\ log[i].phase = phase
                                             /\ R!At(log, c, phase) = {i}
                                             /\ R!First(R!At(log, c, phase)) = i
           /\ R!At(log, c, "plan") # {} \/ R!At(log, c, "done") # {}
<1>1. /\ \A i \in DOMAIN log : Honest(log[i])
      /\ \A i \in DOMAIN log : log[i].receipt # None => log[i].call = log[i].receipt
                                                         /\ log[i].call \in R!Batches
  BY DEF GoodLog, Honest
<1>2. PICK k \in DOMAIN log : log[k].phase \in {"plan", "done"} /\ log[k].receipt = c
  BY DEF R!Receipts
<1>3. log[k].receipt # None
  <2>1. log[k].call \in R!Batches /\ log[k].receipt = log[k].call
    BY <1>1, <1>2 DEF Honest
  <2> QED BY <2>1, RecordsAssumption DEF R!Batches
<1>4. c # None /\ c \in R!Batches
  BY <1>1, <1>2, <1>3
<1>5. ASSUME NEW i \in R!At(log, c, phase)
      PROVE  /\ log[i].call = c /\ log[i].phase = phase
             /\ R!At(log, c, phase) = {i} /\ R!First(R!At(log, c, phase)) = i
  <2>1. i \in DOMAIN log /\ log[i].call = c /\ log[i].phase = phase
    BY <1>1, <1>4, <1>5 DEF R!At
  <2>2. R!At(log, c, phase) = {i}
    BY <1>1, <1>4, <1>5, <2>1 DEF R!At, GoodLog, OncePerPhase
  <2>3. i \in Nat
    BY <2>1 DEF GoodLog
  <2>4. R!First({i}) = i
    BY <2>3 DEF R!First
  <2> QED BY <2>1, <2>2, <2>4
<1>6. R!At(log, c, phase) \subseteq DOMAIN log
  BY DEF R!At
<1>7. k \in R!At(log, c, "plan") \/ k \in R!At(log, c, "done")
  BY <1>2 DEF R!At
<1> QED BY <1>4, <1>5, <1>6, <1>7

\* The line of a batch is its own, or, in the older version, its neighbour's.
LEMMA LineOfBatch ==
    ASSUME NEW log, GoodLog(log), BesideInv, RecordsType, NEW c \in R!Receipts(log),
           NEW i \in R!LineOf(log, c)
    PROVE  /\ i \in DOMAIN log /\ R!LineOf(log, c) = {i} /\ R!First({i}) = i
           /\ log[i].phase = "line" /\ log[i].call \in R!Batches
           /\ log[i].call # c => {c, log[i].call} \subseteq old /\ log[i].call \in beside[c]
                                 /\ c \in beside[log[i].call]
<1>1. PICK lines, dones : lines = R!At(log, c, "line") /\ dones = R!At(log, c, "done")
  OBVIOUS
<1>2. c \in R!Batches /\ c \in Calls
  BY KeyedRecords DEF R!Batches
<1>3. CASE lines # {}
  <2>1. R!LineOf(log, c) = {R!First(lines)}
    BY <1>1, <1>3 DEF R!LineOf
  <2>2. i \in lines /\ log[i].call = c /\ log[i].phase = "line" /\ i \in DOMAIN log
        /\ R!First(lines) = i /\ lines = {i}
    BY <1>1, <1>3, <2>1, KeyedRecords
  <2> QED BY <1>2, <2>1, <2>2
<1>4. CASE lines = {}
  <2>1. R!LineOf(log, c) = {j + 1 : j \in {k \in dones : R!Follows(log, k)}}
    BY <1>1, <1>4 DEF R!LineOf
  <2>2. PICK j \in dones : i = j + 1 /\ R!Follows(log, j)
    BY <2>1
  <2>3. dones = {j} /\ log[j].call = c /\ log[j].phase = "done" /\ j \in DOMAIN log /\ j \in Nat
    BY <1>1, <2>2, KeyedRecords DEF GoodLog
  <2>4. R!LineOf(log, c) = {i}
    BY <2>1, <2>2, <2>3
  <2>5. /\ i \in DOMAIN log /\ i \in Nat /\ Honest(log[i])
        /\ log[i].phase = "line" /\ ~log[i].dry
        /\ log[i].receipt = None /\ log[i].tool \in {"move_mail", "mail_undo"}
    BY <2>2, <2>3 DEF R!Follows, GoodLog
  <2>6. log[i].call \in Calls /\ log[i].call \in R!Batches /\ log[i].call \in old
    <3>1. log[i].call \in Calls /\ Kind[log[i].call] # "undo preview"
      BY <2>5 DEF Honest
    <3>5. R!Tool(log[i].call) \in {"move_mail", "mail_undo"}
      BY <2>5 DEF Honest
    <3>6. Kind[log[i].call] \in {"move", "dedupe", "undo", "undo preview", "plain"}
      BY <3>1, RecordsAssumption
    <3>2. Kind[log[i].call] \in {"move", "undo"}
      BY <3>1, <3>5, <3>6 DEF R!Tool
    <3>3. log[i].call \in R!Batches
      BY <3>1, <3>2 DEF R!Batches
    <3>4. None \notin Calls
      BY RecordsAssumption
    <3> QED BY <2>5, <3>1, <3>3, <3>4 DEF Honest
  <2>7. log[i].call # c => log[i].call \in beside[c]
    BY <2>2, <2>3, <2>5, <2>6 DEF GoodLog, NextToRanBeside
  <2>8. log[i].call # c => c \in old /\ c \in beside[log[i].call]
    BY <1>2, <2>6, <2>7 DEF BesideInv
  <2>9. R!First({i}) = i
    BY <2>5 DEF R!First
  <2> QED BY <2>4, <2>5, <2>6, <2>7, <2>8, <2>9
<1> QED BY <1>3, <1>4

ReceiptGathered(log, c) ==
    [at |-> IF R!LineOf(log, c) # {} THEN R!First(R!LineOf(log, c))
            ELSE IF R!At(log, c, "plan") # {} THEN R!First(R!At(log, c, "plan"))
            ELSE R!First(R!At(log, c, "done")),
     receipt |-> c, lines |-> R!At(log, c, "plan") \cup R!At(log, c, "done") \cup R!LineOf(log, c)]

Lone(log) ==
    {j \in DOMAIN log : log[j].phase = "line"
                        /\ j \notin UNION {R!LineOf(log, c) : c \in R!Receipts(log)}}

LEMMA GatheredAreThese ==
    ASSUME NEW log
    PROVE  R!Gathered(log) = {ReceiptGathered(log, c) : c \in R!Receipts(log)}
                             \cup {[at |-> i, receipt |-> None, lines |-> {i}] : i \in Lone(log)}
<1>1. PICK lineOf, plans, dones :
        /\ lineOf = [c \in R!Receipts(log) |-> R!LineOf(log, c)]
        /\ plans = [c \in R!Receipts(log) |-> R!At(log, c, "plan")]
        /\ dones = [c \in R!Receipts(log) |-> R!At(log, c, "done")]
  OBVIOUS
<1>2. UNION {lineOf[c] : c \in R!Receipts(log)} = UNION {R!LineOf(log, c) : c \in R!Receipts(log)}
  BY <1>1
<1>3. R!Gathered(log) =
        {[at |-> IF lineOf[c] # {} THEN R!First(lineOf[c])
                ELSE IF plans[c] # {} THEN R!First(plans[c]) ELSE R!First(dones[c]),
          receipt |-> c, lines |-> plans[c] \cup dones[c] \cup lineOf[c]] : c \in R!Receipts(log)}
            \cup {[at |-> i, receipt |-> None, lines |-> {i}] :
                    i \in {j \in DOMAIN log : log[j].phase = "line"
                                              /\ j \notin UNION {lineOf[c] : c \in R!Receipts(log)}}}
  BY <1>1 DEF R!Gathered
<1>4. \A c \in R!Receipts(log) :
        [at |-> IF lineOf[c] # {} THEN R!First(lineOf[c])
                ELSE IF plans[c] # {} THEN R!First(plans[c]) ELSE R!First(dones[c]),
         receipt |-> c, lines |-> plans[c] \cup dones[c] \cup lineOf[c]] = ReceiptGathered(log, c)
  BY <1>1 DEF ReceiptGathered
<1> QED BY <1>2, <1>3, <1>4 DEF Lone

\* A record stands in the row of its call, unless the older version's neighbour took it.
LEMMA RowsOfCalls ==
    ASSUME NEW log, GoodLog(log), BesideInv, RecordsType, NEW g \in R!Gathered(log),
           NEW i \in g.lines
    PROVE  /\ i \in DOMAIN log /\ log[i].call \in Calls
           /\ \/ g.receipt \in R!Receipts(log) /\ g = ReceiptGathered(log, g.receipt)
                 /\ \/ log[i].call = g.receipt
                    \/ /\ i \in R!LineOf(log, g.receipt)
                       /\ {g.receipt, log[i].call} \subseteq old
                       /\ log[i].call \in beside[g.receipt] /\ g.receipt \in beside[log[i].call]
              \/ g = [at |-> i, receipt |-> None, lines |-> {i}] /\ i \in Lone(log)
<1>1. CASE \E c \in R!Receipts(log) : g = ReceiptGathered(log, c)
  <2>1. PICK c \in R!Receipts(log) : g = ReceiptGathered(log, c)
    BY <1>1
  <2>2. g.receipt = c /\ g.lines = R!At(log, c, "plan") \cup R!At(log, c, "done") \cup R!LineOf(log, c)
    BY <2>1 DEF ReceiptGathered
  <2>3. c \in Calls
    BY KeyedRecords DEF R!Batches
  <2>4. i \in R!At(log, c, "plan") \cup R!At(log, c, "done") => i \in DOMAIN log /\ log[i].call = c
    BY KeyedRecords
  <2>5. ASSUME i \in R!LineOf(log, c)
        PROVE  /\ i \in DOMAIN log /\ log[i].call \in R!Batches
               /\ log[i].call # c => {c, log[i].call} \subseteq old /\ log[i].call \in beside[c]
                                     /\ c \in beside[log[i].call]
    BY <2>5, LineOfBatch
  <2>6. i \in DOMAIN log /\ log[i].call \in Calls
    BY <2>2, <2>3, <2>4, <2>5 DEF R!Batches
  <2> QED BY <2>1, <2>2, <2>4, <2>5, <2>6
<1>2. CASE \E j \in Lone(log) : g = [at |-> j, receipt |-> None, lines |-> {j}]
  <2>1. PICK j \in Lone(log) : g = [at |-> j, receipt |-> None, lines |-> {j}]
    BY <1>2
  <2>2. g.lines = {j}
    BY <2>1
  <2>3. i = j
    BY <2>2
  <2>4. i \in DOMAIN log
    BY <2>1, <2>3 DEF Lone
  <2>5. log[i].call \in Calls
    BY <2>4 DEF GoodLog, Honest
  <2> QED BY <2>1, <2>3, <2>4, <2>5
<1> QED BY <1>1, <1>2, GatheredAreThese

\* Two rows with a record of one call of the new version are one row.
LEMMA OneRowPerCall ==
    ASSUME NEW log, GoodLog(log), BesideInv, RecordsType,
           NEW g \in R!Gathered(log), NEW h \in R!Gathered(log),
           NEW i \in g.lines, NEW j \in h.lines, log[i].call = log[j].call, log[i].call \notin old
    PROVE  g = h
<1>1. /\ i \in DOMAIN log /\ j \in DOMAIN log /\ Honest(log[i]) /\ Honest(log[j])
      /\ log[i].call \in Calls
  BY RowsOfCalls DEF GoodLog
<1>2. \/ g.receipt = log[i].call /\ g.receipt \in R!Receipts(log) /\ g = ReceiptGathered(log, g.receipt)
      \/ g = [at |-> i, receipt |-> None, lines |-> {i}] /\ i \in Lone(log)
  BY RowsOfCalls
<1>3. \/ h.receipt = log[j].call /\ h.receipt \in R!Receipts(log) /\ h = ReceiptGathered(log, h.receipt)
      \/ h = [at |-> j, receipt |-> None, lines |-> {j}] /\ j \in Lone(log)
  BY RowsOfCalls
\* A line of the new version carries its receipt, so its batch has it.
<1>4. ASSUME NEW k \in Lone(log), log[k].call = log[i].call, log[i].call \in R!Receipts(log)
      PROVE  FALSE
  <2>1. PICK c : c = log[i].call
    OBVIOUS
  <2>2. c \in R!Batches /\ c \in R!Receipts(log)
    BY <1>4, <2>1, KeyedRecords
  <2>3. k \in DOMAIN log /\ Honest(log[k]) /\ log[k].phase = "line"
    BY <1>4 DEF Lone, GoodLog
  <2>4. log[k].receipt = c
    BY <1>4, <2>1, <2>2, <2>3 DEF Honest
  <2>5. k \in R!At(log, c, "line")
    BY <2>3, <2>4 DEF R!At
  <2>6. R!LineOf(log, c) = {R!First(R!At(log, c, "line"))} /\ R!First(R!At(log, c, "line")) = k
    BY <2>2, <2>5, KeyedRecords DEF R!LineOf
  <2>7. k \in UNION {R!LineOf(log, d) : d \in R!Receipts(log)}
    BY <2>2, <2>6
  <2> QED BY <1>4, <2>7 DEF Lone
<1>5. i \in Lone(log) /\ j \in Lone(log) => i = j
  BY <1>1 DEF Lone, GoodLog, OncePerPhase
<1> QED BY <1>2, <1>3, <1>4, <1>5

LEMMA RecordsGiveRows == RecordsInv => RowsAreCalls
<1> SUFFICES ASSUME RecordsInv PROVE RowsAreCalls
  OBVIOUS
<1>1. PICK log, rows : log = R!read_all /\ rows = R!Rows(log)
  OBVIOUS
<1>2. GoodLog(log) /\ BesideInv /\ RecordsType
  BY <1>1 DEF RecordsInv
<1>3. ASSUME NEW row \in rows, NEW c \in row.calls, NEW d \in row.calls, c # d
      PROVE  {c, d} \subseteq old /\ d \in beside[c]
  <2>1. PICK g \in R!Gathered(log) : row = RowAt(log, g)
    BY <1>1, <1>3, RowsAreThese
  <2>2. row.calls = {log[i].call : i \in g.lines}
    BY <2>1 DEF RowAt
  <2>3. PICK i \in g.lines, j \in g.lines : c = log[i].call /\ d = log[j].call
    BY <1>3, <2>2
  <2>4. g.receipt \in R!Receipts(log)
    <3> SUFFICES ASSUME g.receipt \notin R!Receipts(log) PROVE FALSE
      OBVIOUS
    <3>1. g = [at |-> i, receipt |-> None, lines |-> {i}]
      BY <1>2, RowsOfCalls
    <3> QED BY <1>3, <2>3, <3>1
  <2>5. g.receipt # None
    <3>1. g.receipt \in R!Batches
      BY <1>2, <2>4, KeyedRecords
    <3> QED BY <3>1, RecordsAssumption DEF R!Batches
  <2>6. /\ \/ c = g.receipt
           \/ i \in R!LineOf(log, g.receipt) /\ {g.receipt, c} \subseteq old
              /\ c \in beside[g.receipt] /\ g.receipt \in beside[c]
        /\ \/ d = g.receipt
           \/ j \in R!LineOf(log, g.receipt) /\ {g.receipt, d} \subseteq old
              /\ d \in beside[g.receipt] /\ g.receipt \in beside[d]
    <3>1. g # [at |-> i, receipt |-> None, lines |-> {i}] /\ g # [at |-> j, receipt |-> None, lines |-> {j}]
      BY <2>5
    <3> QED BY <1>2, <2>3, <3>1, RowsOfCalls
  <2>7. i \in R!LineOf(log, g.receipt) /\ j \in R!LineOf(log, g.receipt) => i = j
    <3> SUFFICES ASSUME i \in R!LineOf(log, g.receipt), j \in R!LineOf(log, g.receipt) PROVE i = j
      OBVIOUS
    <3>1. R!LineOf(log, g.receipt) = {i}
      BY <1>2, <2>4, LineOfBatch
    <3> QED BY <3>1
  <2> QED BY <1>3, <2>3, <2>6, <2>7
<1>4. ASSUME NEW row \in rows, NEW other \in rows \ {row}, NEW c \in row.calls \cap other.calls
      PROVE  c \in old
  <2>1. PICK g \in R!Gathered(log), h \in R!Gathered(log) : row = RowAt(log, g) /\ other = RowAt(log, h)
    BY <1>1, <1>4, RowsAreThese
  <2>2. row.calls = {log[i].call : i \in g.lines} /\ other.calls = {log[i].call : i \in h.lines}
    BY <2>1 DEF RowAt
  <2>3. PICK i \in g.lines, j \in h.lines : c = log[i].call /\ c = log[j].call
    BY <1>4, <2>2
  <2>4. g # h
    BY <1>4, <2>1
  <2>5. log[i].call = log[j].call /\ g \in R!Gathered(log) /\ h \in R!Gathered(log)
    BY <2>3
  <2>6. c \notin old => g = h
    BY <1>2, <2>3, <2>5, OneRowPerCall
  <2> QED BY <2>4, <2>6
<1> QED BY <1>1, <1>3, <1>4 DEF RowsAreCalls, R!RowsAreCalls

\* The row of an undo whose done record is gathered: the batch its receipt names, or one that
\* ran beside it.
LEMMA UndoOfRow ==
    ASSUME NEW log, GoodLog(log), BesideInv, RecordsType, NEW g \in R!Gathered(log),
           NEW row, row = RowAt(log, g), row.tool = "mail_undo", ~row.preview,
           row.receipt # None, R!Outcomes(log, row) = "all"
    PROVE  \E u \in Calls : /\ Kind[u] = "undo" /\ Undoes[u] = row.names /\ callPc[u] = "ended"
                            /\ results[u] = "all" \/ R!MayBeMistaken(u)
<1>1. /\ row.at = g.at /\ row.receipt = g.receipt /\ row.lines = g.lines
      /\ row.tool = R!RowTool(log[g.at]) /\ row.preview = log[g.at].dry /\ row.names = log[g.at].names
  BY DEF RowAt
<1>2. PICK c \in R!Receipts(log) : g = ReceiptGathered(log, c)
  <2>1. \A i \in Lone(log) : g # [at |-> i, receipt |-> None, lines |-> {i}]
    BY <1>1
  <2> QED BY <2>1, GatheredAreThese
<1>3. /\ g.at = (IF R!LineOf(log, c) # {} THEN R!First(R!LineOf(log, c))
                 ELSE IF R!At(log, c, "plan") # {} THEN R!First(R!At(log, c, "plan"))
                 ELSE R!First(R!At(log, c, "done")))
      /\ g.lines = R!At(log, c, "plan") \cup R!At(log, c, "done") \cup R!LineOf(log, c)
  BY <1>2 DEF ReceiptGathered
<1>4. c \in Calls
  BY KeyedRecords DEF R!Batches
<1>5. log[g.at].phase = "line" /\ log[g.at].tool = "mail_undo"
  BY <1>1 DEF R!RowTool
<1>6. R!LineOf(log, c) # {}
  <2> SUFFICES ASSUME R!LineOf(log, c) = {} PROVE FALSE
    OBVIOUS
  <2>1. CASE R!At(log, c, "plan") # {}
    <3>1. log[g.at].phase = "plan"
      BY <1>3, <2>1, KeyedRecords
    <3> QED BY <1>5, <3>1
  <2>2. CASE R!At(log, c, "plan") = {}
    <3>1. R!At(log, c, "done") # {}
      BY <2>2, KeyedRecords
    <3>2. log[g.at].phase = "done"
      BY <1>3, <2>2, <3>1, KeyedRecords
    <3> QED BY <1>5, <3>2
  <2> QED BY <2>1, <2>2
<1>7. PICK i \in R!LineOf(log, c) : TRUE
  BY <1>6
<1>8. /\ i \in DOMAIN log /\ g.at = i /\ R!LineOf(log, c) = {i}
      /\ log[i].call # c => {c, log[i].call} \subseteq old /\ log[i].call \in beside[c]
                            /\ c \in beside[log[i].call]
  <2>1. /\ i \in DOMAIN log /\ R!LineOf(log, c) = {i} /\ R!First({i}) = i
        /\ log[i].call # c => {c, log[i].call} \subseteq old /\ log[i].call \in beside[c]
                              /\ c \in beside[log[i].call]
    BY LineOfBatch
  <2> QED BY <1>3, <2>1
<1>9. PICK u : u = log[i].call
  OBVIOUS
<1>10. u \in Calls /\ Kind[u] = "undo" /\ Undoes[u] = row.names /\ callPc[u] = "ended"
  <2>1. Honest(log[i]) /\ log[i].phase = "line" /\ log[i].tool = "mail_undo" /\ ~log[i].dry
    BY <1>1, <1>5, <1>8 DEF GoodLog
  <2>2. u \in Calls /\ R!Tool(u) = "mail_undo" /\ Kind[u] # "undo preview"
        /\ callPc[u] = "ended" /\ Undoes[u] = row.names
    BY <1>1, <1>8, <1>9, <2>1 DEF Honest
  <2>3. Kind[u] \in {"move", "dedupe", "undo", "undo preview", "plain"}
    BY <2>2, RecordsAssumption
  <2> QED BY <2>2, <2>3 DEF R!Tool
<1>11. CASE u = c
  <2>1. PICK dones : dones = {k \in row.lines : log[k].phase = "done"}
    OBVIOUS
  <2>2. dones = R!At(log, c, "done")
    BY <1>1, <1>3, <1>5, <1>8, <2>1, KeyedRecords
  <2>3. dones # {} /\ log[R!First(dones)].results = "all"
    BY <2>1 DEF R!Outcomes
  <2>4. PICK k \in dones : R!First(dones) = k /\ log[k].call = c /\ log[k].phase = "done" /\ k \in DOMAIN log
    BY <2>2, <2>3, KeyedRecords
  <2>5. results[c] = "all"
    BY <2>3, <2>4 DEF GoodLog, Honest
  <2> QED BY <1>10, <1>11, <2>5
<1>12. CASE u # c
  BY <1>8, <1>9, <1>10, <1>12 DEF R!MayBeMistaken
<1> QED BY <1>11, <1>12

LEMMA FirstUndo ==
    ASSUME NEW rows, NEW c, R!UndoRows(rows, c) # {}, \A row \in rows : row.at \in Nat
    PROVE  R!UndoRow(rows, c) \in R!UndoRows(rows, c)
<1>1. PICK places : places = {row.at : row \in R!UndoRows(rows, c)}
  OBVIOUS
<1>2. places \in SUBSET Nat /\ places # {}
  BY <1>1 DEF R!UndoRows
<1>3. PICK n \in places : \A m \in places : n <= m
  <2>1. PICK less : less = OpToRel(<, Nat)
    OBVIOUS
  <2>2. PICK n \in places : \A m \in places : <<m, n>> \notin less
    BY <1>2, <2>1, NatLessThanWellFounded, WFMin
  <2>3. \A m \in Nat : m < n => <<m, n>> \in less
    BY <1>2, <2>1 DEF OpToRel
  <2>4. \A m \in places : ~(m < n) /\ m \in Nat /\ n \in Nat
    BY <1>2, <2>2, <2>3
  <2> QED BY <2>4
<1>4. PICK row \in R!UndoRows(rows, c) : n = row.at
  BY <1>1
<1>5. \A other \in R!UndoRows(rows, c) : row.at <= other.at
  BY <1>1, <1>3, <1>4
<1> QED BY <1>5 DEF R!UndoRow

LEMMA PlacesAreNumbers ==
    ASSUME NEW log, GoodLog(log), BesideInv, RecordsType, NEW g \in R!Gathered(log)
    PROVE  g.at \in Nat
<1>1. DOMAIN log \subseteq Nat
  BY DEF GoodLog
<1>2. CASE \E c \in R!Receipts(log) : g = ReceiptGathered(log, c)
  <2>1. PICK c \in R!Receipts(log) : g = ReceiptGathered(log, c)
    BY <1>2
  <2>2. g.at = (IF R!LineOf(log, c) # {} THEN R!First(R!LineOf(log, c))
                ELSE IF R!At(log, c, "plan") # {} THEN R!First(R!At(log, c, "plan"))
                ELSE R!First(R!At(log, c, "done")))
    BY <2>1 DEF ReceiptGathered
  <2>3. R!LineOf(log, c) # {} => R!First(R!LineOf(log, c)) \in DOMAIN log
    BY LineOfBatch
  <2>4. R!At(log, c, "plan") # {} => R!First(R!At(log, c, "plan")) \in DOMAIN log
    BY KeyedRecords
  <2>5. R!At(log, c, "done") # {} => R!First(R!At(log, c, "done")) \in DOMAIN log
    BY KeyedRecords
  <2>6. R!At(log, c, "plan") # {} \/ R!At(log, c, "done") # {}
    BY KeyedRecords
  <2> QED BY <1>1, <2>2, <2>3, <2>4, <2>5, <2>6
<1>3. CASE \E i \in Lone(log) : g = [at |-> i, receipt |-> None, lines |-> {i}]
  BY <1>1, <1>3 DEF Lone
<1> QED BY <1>2, <1>3, GatheredAreThese

LEMMA RecordsTellBack == RecordsInv => BackIsTrue
<1> SUFFICES ASSUME RecordsInv PROVE BackIsTrue
  OBVIOUS
<1>1. PICK log, rows : log = R!read_all /\ rows = R!Rows(log)
  OBVIOUS
<1>2. GoodLog(log) /\ BesideInv /\ RecordsType
  BY <1>1 DEF RecordsInv
<1>3. ASSUME NEW c \in R!Receipts(log), R!Card(log, rows, c) = "back"
      PROVE  \E u \in Calls : /\ Kind[u] = "undo" /\ Undoes[u] = c /\ callPc[u] = "ended"
                              /\ results[u] = "all" \/ R!MayBeMistaken(u)
  <2>1. PICK undo : undo = R!UndoRow(rows, c)
    OBVIOUS
  <2>2. R!UndoRows(rows, c) # {} /\ undo.receipt # None /\ R!Outcomes(log, undo) = "all"
    BY <1>3, <2>1 DEF R!Card
  <2>3. \A row \in rows : row.at \in Nat
    <3> SUFFICES ASSUME NEW row \in rows PROVE row.at \in Nat
      OBVIOUS
    <3>1. PICK g \in R!Gathered(log) : row = RowAt(log, g)
      BY <1>1, RowsAreThese
    <3>2. row.at = g.at
      BY <3>1 DEF RowAt
    <3> QED BY <1>2, <3>2, PlacesAreNumbers
  <2>4. undo \in R!UndoRows(rows, c)
    BY <2>1, <2>2, <2>3, FirstUndo
  <2>5. undo \in rows /\ undo.tool = "mail_undo" /\ ~undo.preview /\ undo.names = c
    BY <2>4 DEF R!UndoRows
  <2>6. PICK g \in R!Gathered(log) : undo = RowAt(log, g)
    BY <1>1, <2>5, RowsAreThese
  <2> QED BY <1>2, <2>2, <2>5, <2>6, UndoOfRow
<1> QED BY <1>1, <1>3 DEF BackIsTrue, R!BackIsTrue

\* The composition that the run checks behaves as each of its parts, so that what holds of
\* AdapterSwitches alone holds of it.
LEMMA PagesAreBoth == DashboardSpec => Spec /\ R!Spec
<1>1. DashboardInit => Init /\ R!Init
  BY DEF DashboardInit
<1>2. [DashboardNext]_dashboardVars => [Next]_vars /\ [R!Next]_(R!vars)
  BY DEF DashboardNext, dashboardVars, recordVars, R!vars
<1> QED BY <1>1, <1>2, PTL DEF DashboardSpec, Spec, R!Spec

LEMMA RecordsSteps ==
    /\ DashboardInit => RecordsInv
    /\ RecordsInv /\ [DashboardNext]_dashboardVars => RecordsInv'
<1>1. DashboardInit => RecordsInv
  BY InitRecords DEF DashboardInit
<1>2. [DashboardNext]_dashboardVars => [R!Next]_recordVars
  BY DEF DashboardNext, dashboardVars
<1> QED BY <1>1, <1>2, StepRecords

\* One write, one row: no row of the Writes page mixes two calls, and no two rows share one
\* (build_rows), but for batches of the older version that ran at once.
THEOREM RecordsOfOneCall == DashboardSpec => []RowsAreCalls
<1>1. DashboardSpec => []RecordsInv
  BY RecordsSteps, PTL DEF DashboardSpec
<1> QED BY <1>1, RecordsGiveRows, PTL

\* A receipt card that says the messages are back has an undo that brought them all back
\* (recovery.py), whichever of its records a rotation or a failed write has left.
THEOREM BackWasMoved == DashboardSpec => []BackIsTrue
<1>1. DashboardSpec => []RecordsInv
  BY RecordsSteps, PTL DEF DashboardSpec
<1> QED BY <1>1, RecordsTellBack, PTL

-----------------------------------------------------------------------------
(* The addresses of the rows.                                              *)

\* A record that a call may add now.
MayAdd(rec) ==
    LET c == rec.call
    IN  /\ c \in Calls /\ rec.phase \in {"plan", "done", "line"}
        /\ rec.receipt = IF c \in R!Batches /\ (rec.phase # "line" \/ c \notin old) THEN c ELSE None
        /\ rec.phase # "line" => c \in R!Batches
        /\ rec.phase = "line" => rec.tool = R!Tool(c) /\ (c \in R!Batches => callPc[c] = "done")
        /\ rec.dry <=> Kind[c] = "undo preview"
        /\ rec.phase = "plan" => callPc[c] = "new"
        /\ rec.phase = "done" => callPc[c] = "planned"

Grows(log, rec) == RecordsType /\ BesideInv /\ GoodLog(log) /\ MayAdd(rec)

\* The log when one record is added: the old one, and its last.
LEMMA GrownLog ==
    ASSUME NEW log, NEW rec, Grows(log, rec)
    PROVE  /\ Len(log) \in Nat /\ DOMAIN log = 1..Len(log)
           /\ DOMAIN Append(log, rec) = 1..(Len(log) + 1)
           /\ \A i \in DOMAIN log : Append(log, rec)[i] = log[i]
           /\ Append(log, rec)[Len(log) + 1] = rec
<1>1. log \in Seq(R!Records)
  BY DEF Grows, GoodLog
<1> QED BY <1>1

\* A key finds what it found, and the record that is added.
LEMMA FoundLater ==
    ASSUME NEW log, NEW rec, Grows(log, rec), NEW c, NEW phase
    PROVE  R!At(Append(log, rec), c, phase)
             = IF rec.phase = phase /\ rec.receipt = c
               THEN R!At(log, c, phase) \cup {Len(log) + 1} ELSE R!At(log, c, phase)
<1> DEFINE longer == Append(log, rec)
           n == Len(log)
<1>1. /\ n \in Nat /\ DOMAIN log = 1..n /\ DOMAIN longer = 1..(n + 1)
      /\ \A i \in DOMAIN log : longer[i] = log[i]
      /\ longer[n + 1] = rec
  BY GrownLog
<1> HIDE DEF longer, n
<1>2. \A i \in DOMAIN longer : i \in DOMAIN log \/ i = n + 1
  BY <1>1
<1>3. \A i \in DOMAIN log : i \in DOMAIN longer /\ i # n + 1
  BY <1>1
<1>4. n + 1 \in DOMAIN longer
  BY <1>1
<1>5. R!At(longer, c, phase)
        = IF rec.phase = phase /\ rec.receipt = c THEN R!At(log, c, phase) \cup {n + 1}
          ELSE R!At(log, c, phase)
  BY <1>1, <1>2, <1>3, <1>4 DEF R!At
<1> QED BY <1>5 DEF longer, n

LEMMA ReceiptsGrow ==
    ASSUME NEW log, NEW rec, Grows(log, rec)
    PROVE  R!Receipts(Append(log, rec))
             = IF rec.phase \in {"plan", "done"} THEN R!Receipts(log) \cup {rec.receipt}
               ELSE R!Receipts(log)
<1> DEFINE longer == Append(log, rec)
           n == Len(log)
<1>1. /\ n \in Nat /\ DOMAIN log = 1..n /\ DOMAIN longer = 1..(n + 1)
      /\ \A i \in DOMAIN log : longer[i] = log[i]
      /\ longer[n + 1] = rec
  BY GrownLog
<1> HIDE DEF longer, n
<1>2. \A i \in DOMAIN longer : i \in DOMAIN log \/ i = n + 1
  BY <1>1
<1>3. \A i \in DOMAIN log : i \in DOMAIN longer
  BY <1>1
<1>4. n + 1 \in DOMAIN longer
  BY <1>1
<1>5. R!Receipts(longer)
        = IF rec.phase \in {"plan", "done"} THEN R!Receipts(log) \cup {rec.receipt}
          ELSE R!Receipts(log)
  BY <1>1, <1>2, <1>3, <1>4 DEF R!Receipts
<1> QED BY <1>5 DEF longer

\* A call has no record yet of the phase that it adds, nor of a later one.
LEMMA NothingYet ==
    ASSUME NEW log, NEW rec, Grows(log, rec), NEW i \in DOMAIN log, log[i].call = rec.call
    PROVE  /\ rec.phase # "plan"
           /\ rec.phase = "done" => log[i].phase = "plan"
           /\ rec.phase = "line" /\ rec.call \in R!Batches => log[i].phase # "line"
<1>1. Honest(log[i]) /\ MayAdd(rec)
  BY DEF Grows, GoodLog
<1>2. /\ callPc[rec.call] # "new" /\ log[i].phase \in {"plan", "done", "line"}
      /\ log[i].phase = "line" => callPc[rec.call] = "ended"
      /\ log[i].phase = "done" => callPc[rec.call] # "planned"
  <2>1. PICK entry : entry = log[i]
    OBVIOUS
  <2>2. Honest(entry) /\ entry.call = rec.call
    BY <1>1, <2>1
  <2>3. callPc[entry.call] # "new" /\ entry.phase \in {"plan", "done", "line"}
    BY <2>2 DEF Honest
  <2>4. entry.phase = "line" => callPc[entry.call] = "ended"
    BY <2>2 DEF Honest
  <2>5. entry.phase = "done" => callPc[entry.call] # "planned"
    BY <2>2 DEF Honest
  <2> QED BY <2>1, <2>2, <2>3, <2>4, <2>5
<1>3. /\ rec.phase = "plan" => callPc[rec.call] = "new"
      /\ rec.phase = "done" => callPc[rec.call] = "planned"
      /\ rec.phase = "line" => (rec.call \in R!Batches => callPc[rec.call] = "done")
  BY <1>1 DEF MayAdd
<1> QED BY <1>2, <1>3

\* What follows a record of the log follows it later; only the last gets a follower.
LEMMA FollowsLater ==
    ASSUME NEW log, NEW rec, Grows(log, rec)
    PROVE  /\ \A k \in DOMAIN log : k # Len(log) =>
                  (R!Follows(Append(log, rec), k) <=> R!Follows(log, k))
           /\ ~R!Follows(Append(log, rec), Len(log) + 1) /\ ~R!Follows(log, Len(log))
<1> DEFINE longer == Append(log, rec)
           n == Len(log)
<1>1. /\ n \in Nat /\ DOMAIN log = 1..n /\ DOMAIN longer = 1..(n + 1)
      /\ \A i \in DOMAIN log : longer[i] = log[i]
  BY GrownLog
<1> HIDE DEF longer, n
<1>2. \A k \in DOMAIN log : k # n => k + 1 \in DOMAIN log /\ k + 1 \in DOMAIN longer
  BY <1>1
<1>3. (n + 1) + 1 \notin DOMAIN longer /\ n + 1 \notin DOMAIN log
  BY <1>1
<1>4. /\ \A k \in DOMAIN log : k # n => (R!Follows(longer, k) <=> R!Follows(log, k))
      /\ ~R!Follows(longer, n + 1) /\ ~R!Follows(log, n)
  BY <1>1, <1>2, <1>3 DEF R!Follows
<1> QED BY <1>4 DEF longer, n

\* The line that takes its place next to another's done record is of a batch under way, of the
\* older version.
LEMMA FollowerRuns ==
    ASSUME NEW log, NEW rec, Grows(log, rec), NEW c \in R!Receipts(log),
           Len(log) \in R!At(log, c, "done"), R!Follows(Append(log, rec), Len(log))
    PROVE  c \in R!Running \/ R!MayBeMistaken(c)
<1> DEFINE n == Len(log)
<1>1. /\ n \in Nat /\ DOMAIN log = 1..n /\ Append(log, rec)[n + 1] = rec
      /\ RecordsType /\ BesideInv /\ GoodLog(log) /\ MayAdd(rec)
  BY GrownLog DEF Grows
<1> HIDE DEF n
<1>2. n \in DOMAIN log /\ log[n].call = c /\ log[n].phase = "done" /\ c \in R!Batches
  BY <1>1, KeyedRecords DEF n
<1>3. /\ rec.phase = "line" /\ ~rec.dry /\ rec.receipt = None
      /\ rec.tool \in {"move_mail", "mail_undo"}
  BY <1>1 DEF R!Follows, n
<1>4. rec.call \in Calls /\ Kind[rec.call] # "undo preview"
      /\ R!Tool(rec.call) \in {"move_mail", "mail_undo"}
  BY <1>1, <1>3 DEF MayAdd
<1>5. Kind[rec.call] \in {"move", "dedupe", "undo", "undo preview", "plain"} /\ None \notin Calls
  BY <1>4, RecordsAssumption
<1>6. Kind[rec.call] \in {"move", "undo"}
  BY <1>4, <1>5 DEF R!Tool
<1>7. rec.call \in R!Batches
  BY <1>4, <1>6 DEF R!Batches
<1>8. rec.call \in R!Running /\ rec.call \in old
  BY <1>1, <1>3, <1>4, <1>5, <1>7 DEF MayAdd, R!Running
<1>9. CASE rec.call = c
  BY <1>8, <1>9
<1>10. CASE rec.call # c
  <2>1. log # <<>> /\ log[Len(log)] = log[n]
    BY <1>1, <1>2 DEF n
  <2>2. rec.call \in beside[c]
    BY <1>1, <1>2, <1>8, <1>10, <2>1 DEF GoodLog, LastRanBeside
  <2>3. c \in old
    BY <1>1, <1>2, <1>4, <1>8, <2>2 DEF BesideInv, R!Batches
  <2> QED BY <2>2, <2>3 DEF R!MayBeMistaken
<1> QED BY <1>9, <1>10

\* The line of a batch that has one stays; one that had none may get it, and was waiting.
LEMMA LinesStay ==
    ASSUME NEW log, NEW rec, Grows(log, rec), NEW c \in R!Receipts(log)
    PROVE  \/ R!LineOf(Append(log, rec), c) = R!LineOf(log, c)
           \/ /\ R!LineOf(Append(log, rec), c) = {Len(log) + 1} /\ R!LineOf(log, c) = {}
              /\ c \in R!Running \/ R!MayBeMistaken(c)
<1> DEFINE longer == Append(log, rec)
           n == Len(log)
           dones == R!At(log, c, "done")
<1>1. /\ n \in Nat /\ DOMAIN log = 1..n /\ GoodLog(log) /\ BesideInv /\ RecordsType /\ MayAdd(rec)
      /\ c \in R!Batches /\ dones \subseteq DOMAIN log
  BY GrownLog, KeyedRecords DEF Grows
<1>2. /\ R!At(longer, c, "line") = IF rec.phase = "line" /\ rec.receipt = c
                                   THEN R!At(log, c, "line") \cup {n + 1} ELSE R!At(log, c, "line")
      /\ R!At(longer, c, "done") = IF rec.phase = "done" /\ rec.receipt = c
                                   THEN dones \cup {n + 1} ELSE dones
  BY FoundLater
<1>3. /\ \A k \in DOMAIN log : k # n => (R!Follows(longer, k) <=> R!Follows(log, k))
      /\ ~R!Follows(longer, n + 1) /\ ~R!Follows(log, n)
  BY FollowsLater
<1>4. n \in dones /\ R!Follows(longer, n) => (c \in R!Running \/ R!MayBeMistaken(c)) /\ dones = {n}
  BY FollowerRuns, <1>1, KeyedRecords
<1> HIDE DEF longer, n, dones
<1>5. CASE rec.phase = "line" /\ rec.receipt = c
  <2>1. rec.call = c /\ c \notin old /\ callPc[c] = "done"
    <3>1. c # None
      BY <1>1, RecordsAssumption DEF R!Batches
    <3> QED BY <1>1, <1>5, <3>1 DEF MayAdd
  <2>2. R!At(log, c, "line") = {}
    <3> SUFFICES ASSUME NEW i \in R!At(log, c, "line") PROVE FALSE
      OBVIOUS
    <3>1. i \in DOMAIN log /\ log[i].call = rec.call /\ log[i].phase = "line"
      BY <1>1, <2>1, KeyedRecords
    <3> QED BY <1>1, <1>5, <2>1, <3>1, NothingYet
  <2>3. R!LineOf(longer, c) = {n + 1}
    <3>1. R!At(longer, c, "line") = {n + 1}
      BY <1>2, <1>5, <2>2
    <3>2. R!First({n + 1}) = n + 1
      BY <1>1 DEF R!First
    <3> QED BY <3>1, <3>2 DEF R!LineOf
  <2>4. ASSUME NEW i \in R!LineOf(log, c) PROVE FALSE
    <3>1. i \in DOMAIN log /\ log[i].phase = "line" /\ log[i].call = c
      BY <1>1, <2>1, LineOfBatch
    <3> QED BY <1>1, <1>5, <2>1, <3>1, NothingYet
  <2>5. c \in R!Running
    BY <1>1, <2>1 DEF R!Running, R!Batches
  <2> QED BY <2>3, <2>4, <2>5 DEF longer, n
<1>6. CASE ~(rec.phase = "line" /\ rec.receipt = c)
  <2>1. R!At(longer, c, "line") = R!At(log, c, "line")
    BY <1>2, <1>6
  <2>2. CASE R!At(log, c, "line") # {}
    <3>1. R!LineOf(longer, c) = R!LineOf(log, c)
      BY <2>1, <2>2 DEF R!LineOf
    <3> QED BY <3>1 DEF longer
  <2>3. CASE R!At(log, c, "line") = {}
    <3>1. R!LineOf(longer, c) = {j + 1 : j \in {k \in R!At(longer, c, "done") : R!Follows(longer, k)}}
          /\ R!LineOf(log, c) = {j + 1 : j \in {k \in dones : R!Follows(log, k)}}
      BY <2>1, <2>3 DEF R!LineOf, dones
    <3>2. {k \in R!At(longer, c, "done") : R!Follows(longer, k)} = {k \in dones : R!Follows(longer, k)}
      BY <1>2, <1>3
    <3>3. CASE ~(n \in dones /\ R!Follows(longer, n))
      <4>1. {k \in dones : R!Follows(longer, k)} = {k \in dones : R!Follows(log, k)}
        BY <1>1, <1>3, <3>3
      <4>2. R!LineOf(longer, c) = R!LineOf(log, c)
        BY <3>1, <3>2, <4>1
      <4> QED BY <4>2 DEF longer
    <3>4. CASE n \in dones /\ R!Follows(longer, n)
      <4>1. {k \in dones : R!Follows(longer, k)} = {n} /\ {k \in dones : R!Follows(log, k)} = {}
        BY <1>3, <1>4, <3>4
      <4>2. R!LineOf(longer, c) = {n + 1} /\ R!LineOf(log, c) = {}
        BY <3>1, <3>2, <4>1
      <4> QED BY <1>4, <3>4, <4>2 DEF longer, n
    <3> QED BY <3>3, <3>4
  <2> QED BY <2>2, <2>3
<1> QED BY <1>5, <1>6

\* Where the row of a receipt stands.
Place(log, c) == ReceiptGathered(log, c).at

\* The row of a batch that may still get its line.
Waits(log, c) ==
    log[Place(log, c)].phase # "line" /\ (c \in R!Running \/ R!MayBeMistaken(c))

\* A row stands at a record of the log.
LEMMA PlaceInLog ==
    ASSUME NEW log, GoodLog(log), BesideInv, RecordsType, NEW c \in R!Receipts(log)
    PROVE  /\ Place(log, c) \in DOMAIN log
           /\ R!LineOf(log, c) = {} => log[Place(log, c)].phase # "line"
<1>1. CASE R!LineOf(log, c) # {}
  <2>1. PICK i : i \in R!LineOf(log, c)
    BY <1>1
  <2>2. i \in DOMAIN log /\ R!LineOf(log, c) = {i} /\ R!First({i}) = i
    BY <2>1, LineOfBatch
  <2> QED BY <2>2 DEF Place, ReceiptGathered
<1>2. CASE R!LineOf(log, c) = {} /\ R!At(log, c, "plan") # {}
  <2>1. PICK i : i \in R!At(log, c, "plan")
    BY <1>2
  <2>2. i \in DOMAIN log /\ log[i].phase = "plan" /\ R!First(R!At(log, c, "plan")) = i
    BY <2>1, KeyedRecords
  <2> QED BY <1>2, <2>2 DEF Place, ReceiptGathered
<1>3. CASE R!LineOf(log, c) = {} /\ R!At(log, c, "plan") = {}
  <2>1. PICK i : i \in R!At(log, c, "done")
    BY <1>3, KeyedRecords
  <2>2. i \in DOMAIN log /\ log[i].phase = "done" /\ R!First(R!At(log, c, "done")) = i
    BY <2>1, KeyedRecords
  <2> QED BY <1>3, <2>2 DEF Place, ReceiptGathered
<1> QED BY <1>1, <1>2, <1>3

\* A batch's row stays where it is unless it waits, and loses no record.
LEMMA PlaceStays ==
    ASSUME NEW log, NEW rec, Grows(log, rec), NEW c \in R!Receipts(log)
    PROVE  /\ c \in R!Receipts(Append(log, rec))
           /\ \/ Place(Append(log, rec), c) = Place(log, c)
              \/ Place(Append(log, rec), c) = Len(log) + 1 /\ Waits(log, c)
           /\ ReceiptGathered(log, c).lines \subseteq ReceiptGathered(Append(log, rec), c).lines
<1> DEFINE longer == Append(log, rec)
           n == Len(log)
<1>1. /\ n \in Nat /\ DOMAIN log = 1..n /\ GoodLog(log) /\ BesideInv /\ RecordsType /\ MayAdd(rec)
      /\ c \in R!Batches
  BY GrownLog, KeyedRecords DEF Grows
<1>2. /\ R!At(longer, c, "plan") = IF rec.phase = "plan" /\ rec.receipt = c
                                   THEN R!At(log, c, "plan") \cup {n + 1} ELSE R!At(log, c, "plan")
      /\ R!At(longer, c, "done") = IF rec.phase = "done" /\ rec.receipt = c
                                   THEN R!At(log, c, "done") \cup {n + 1} ELSE R!At(log, c, "done")
  BY FoundLater
<1>3. c \in R!Receipts(longer)
  BY ReceiptsGrow
<1>4. \/ R!LineOf(longer, c) = R!LineOf(log, c)
      \/ /\ R!LineOf(longer, c) = {n + 1} /\ R!LineOf(log, c) = {}
         /\ c \in R!Running \/ R!MayBeMistaken(c)
  BY LinesStay
<1> HIDE DEF longer, n
\* The batch has a record, so the plan is not to come.
<1>5. R!At(longer, c, "plan") = R!At(log, c, "plan")
  <2> SUFFICES ASSUME rec.phase = "plan", rec.receipt = c PROVE FALSE
    BY <1>2
  <2>1. c # None
    BY <1>1, RecordsAssumption DEF R!Batches
  <2>2. rec.call = c
    BY <1>1, <2>1 DEF MayAdd
  <2>3. PICK i : i \in DOMAIN log /\ log[i].call = c
    BY <1>1, KeyedRecords
  <2> QED BY <2>2, <2>3, NothingYet
\* The done record comes after the plan, or to a row that has neither.
<1>6. R!At(log, c, "done") # {} => R!At(longer, c, "done") = R!At(log, c, "done")
  <2> SUFFICES ASSUME rec.phase = "done", rec.receipt = c, NEW i \in R!At(log, c, "done") PROVE FALSE
    BY <1>2
  <2>1. c # None
    BY <1>1, RecordsAssumption DEF R!Batches
  <2>2. rec.call = c
    BY <1>1, <2>1 DEF MayAdd
  <2>3. i \in DOMAIN log /\ log[i].call = c /\ log[i].phase = "done"
    BY <1>1, KeyedRecords
  <2> QED BY <2>2, <2>3, NothingYet
<1>7. R!At(log, c, "plan") # {} \/ R!At(log, c, "done") # {}
  BY <1>1, KeyedRecords
<1>8. R!At(log, c, "done") \subseteq R!At(longer, c, "done")
  BY <1>2
<1>9. CASE R!LineOf(longer, c) = R!LineOf(log, c)
  <2>1. Place(longer, c) = Place(log, c)
    BY <1>5, <1>6, <1>7, <1>9 DEF Place, ReceiptGathered
  <2>2. ReceiptGathered(log, c).lines \subseteq ReceiptGathered(longer, c).lines
    BY <1>5, <1>8, <1>9 DEF ReceiptGathered
  <2> QED BY <1>3, <2>1, <2>2 DEF longer
<1>10. CASE /\ R!LineOf(longer, c) = {n + 1} /\ R!LineOf(log, c) = {}
            /\ c \in R!Running \/ R!MayBeMistaken(c)
  <2>1. R!First({n + 1}) = n + 1
    BY <1>1 DEF R!First
  <2>2. Place(longer, c) = n + 1
    BY <1>10, <2>1 DEF Place, ReceiptGathered
  <2>3. Waits(log, c)
    BY <1>1, <1>10, PlaceInLog DEF Waits
  <2>4. ReceiptGathered(log, c).lines \subseteq ReceiptGathered(longer, c).lines
    BY <1>5, <1>8, <1>10 DEF ReceiptGathered
  <2> QED BY <1>3, <2>2, <2>3, <2>4 DEF longer, n
<1> QED BY <1>4, <1>9, <1>10

\* A batch that is new to the log has its row at the end.
LEMMA NewPlace ==
    ASSUME NEW log, NEW rec, Grows(log, rec),
           NEW c \in R!Receipts(Append(log, rec)), c \notin R!Receipts(log)
    PROVE  Place(Append(log, rec), c) = Len(log) + 1 /\ R!LineOf(Append(log, rec), c) = {}
<1> DEFINE longer == Append(log, rec)
           n == Len(log)
<1>1. /\ n \in Nat /\ DOMAIN log = 1..n /\ GoodLog(log) /\ MayAdd(rec)
      /\ \A i \in DOMAIN log : Honest(log[i])
  BY GrownLog DEF Grows, GoodLog
<1>2. rec.phase \in {"plan", "done"} /\ rec.receipt = c
  BY ReceiptsGrow
<1>3. \A phase : R!At(longer, c, phase)
                   = IF rec.phase = phase /\ rec.receipt = c
                     THEN R!At(log, c, phase) \cup {n + 1} ELSE R!At(log, c, phase)
  BY FoundLater
<1>4. ~R!Follows(longer, n + 1)
  BY FollowsLater
<1>5. rec.call = c /\ c \in Calls /\ c # None
  BY <1>1, <1>2, RecordsAssumption DEF MayAdd, R!Batches
<1> HIDE DEF longer, n
<1>6. R!At(log, c, "plan") = {} /\ R!At(log, c, "done") = {}
  BY DEF R!At, R!Receipts
<1>7. R!At(log, c, "line") = {}
  <2> SUFFICES ASSUME NEW i \in DOMAIN log, log[i].phase = "line", log[i].receipt = c PROVE FALSE
    BY DEF R!At
  <2>1. log[i].call = c
    BY <1>1, <1>5 DEF Honest
  <2> QED BY <1>2, <1>5, <2>1, NothingYet
<1>8. R!At(longer, c, "line") = {}
  BY <1>2, <1>3, <1>7
<1>9. R!At(longer, c, "done") \subseteq {n + 1}
  BY <1>3, <1>6
<1>10. R!LineOf(longer, c) = {}
  BY <1>4, <1>8, <1>9 DEF R!LineOf
<1>11. R!First({n + 1}) = n + 1
  BY <1>1 DEF R!First
<1>12. CASE rec.phase = "plan"
  <2>1. R!At(longer, c, "plan") = {n + 1}
    BY <1>2, <1>3, <1>6, <1>12
  <2> QED BY <1>10, <1>11, <2>1 DEF Place, ReceiptGathered, longer, n
<1>13. CASE rec.phase = "done"
  <2>1. R!At(longer, c, "plan") = {} /\ R!At(longer, c, "done") = {n + 1}
    BY <1>2, <1>3, <1>6, <1>13
  <2> QED BY <1>10, <1>11, <2>1 DEF Place, ReceiptGathered, longer, n
<1> QED BY <1>2, <1>12, <1>13

\* A line has a row of its own later if it has one now.
LEMMA LoneLater ==
    ASSUME NEW log, NEW rec, Grows(log, rec), NEW i \in DOMAIN log
    PROVE  i \in Lone(Append(log, rec)) <=> i \in Lone(log)
<1> DEFINE longer == Append(log, rec)
           n == Len(log)
<1>1. /\ n \in Nat /\ i \in 1..n /\ i \in DOMAIN longer /\ longer[i] = log[i]
  BY GrownLog
<1>2. \A c \in R!Receipts(log) : /\ c \in R!Receipts(longer)
                                 /\ \/ R!LineOf(longer, c) = R!LineOf(log, c)
                                    \/ R!LineOf(longer, c) = {n + 1} /\ R!LineOf(log, c) = {}
  BY LinesStay, PlaceStays
<1>3. \A c \in R!Receipts(longer) : c \notin R!Receipts(log) => R!LineOf(longer, c) = {}
  BY NewPlace
<1> HIDE DEF longer, n
<1>4. i # n + 1
  BY <1>1
<1>5. (\E c \in R!Receipts(longer) : i \in R!LineOf(longer, c))
        <=> (\E c \in R!Receipts(log) : i \in R!LineOf(log, c))
  BY <1>2, <1>3, <1>4
<1>6. i \in Lone(longer) <=> i \in Lone(log)
  BY <1>1, <1>5 DEF Lone
<1> QED BY <1>6 DEF longer

\* R brings its own copy of FiniteSets.
LEMMA SameCounts == \A S : R!Cardinality(S) = Cardinality(S)
BY DEF R!Cardinality, Cardinality

LEMMA ImageFinite ==
    ASSUME NEW S, IsFiniteSet(S), NEW f PROVE IsFiniteSet({f[x] : x \in S})
<1> DEFINE g == [x \in S |-> f[x]]
           T == {f[x] : x \in S}
<1>1. g \in [S -> T] /\ \A t \in T : \E x \in S : g[x] = t
  OBVIOUS
<1>2. g \in Surjection(S, T)
  BY <1>1, Fun_IsSurj
<1> QED BY <1>2, FS_Surjection

LEMMA RowsFinite ==
    ASSUME NEW log, GoodLog(log) PROVE IsFiniteSet(R!Gathered(log))
<1> DEFINE receiptOf == [i \in DOMAIN log |-> log[i].receipt]
           rowOf == [c \in R!Receipts(log) |-> ReceiptGathered(log, c)]
           ownRow == [i \in Lone(log) |-> [at |-> i, receipt |-> None, lines |-> {i}]]
           recorded == {j \in DOMAIN log : log[j].phase \in {"plan", "done"}}
<1>1. IsFiniteSet(DOMAIN log)
  <2>1. DOMAIN log = 1..Len(log) /\ Len(log) \in Nat
    BY DEF GoodLog
  <2> QED BY <2>1, FS_Interval
<1>2. IsFiniteSet(recorded) /\ IsFiniteSet(Lone(log))
  BY <1>1, FS_Subset DEF Lone
<1>3. R!Receipts(log) = {receiptOf[i] : i \in recorded}
  BY DEF R!Receipts
<1>4. IsFiniteSet(R!Receipts(log))
  <2> HIDE DEF recorded, receiptOf
  <2> QED BY <1>2, <1>3, ImageFinite
<1>5. /\ IsFiniteSet({rowOf[c] : c \in R!Receipts(log)})
      /\ IsFiniteSet({ownRow[i] : i \in Lone(log)})
  BY <1>2, <1>4, ImageFinite
<1>6. R!Gathered(log) = {rowOf[c] : c \in R!Receipts(log)} \cup {ownRow[i] : i \in Lone(log)}
  BY GatheredAreThese
<1> HIDE DEF rowOf, ownRow
<1> QED BY <1>5, <1>6, FS_Union

\* A row is a batch's or one line's.
LEMMA GatheredCases ==
    ASSUME NEW log, None \notin R!Receipts(log), NEW g \in R!Gathered(log)
    PROVE  \/ /\ g.receipt \in R!Receipts(log) /\ g.receipt # None
              /\ g = ReceiptGathered(log, g.receipt) /\ g.at = Place(log, g.receipt)
           \/ /\ g.receipt = None /\ g.at \in Lone(log)
              /\ g = [at |-> g.at, receipt |-> None, lines |-> {g.at}]
<1>1. CASE \E c \in R!Receipts(log) : g = ReceiptGathered(log, c)
  <2>1. PICK c \in R!Receipts(log) : g = ReceiptGathered(log, c)
    BY <1>1
  <2>2. g.receipt = c
    BY <2>1 DEF ReceiptGathered
  <2> QED BY <2>1, <2>2 DEF Place
<1>2. CASE \E i \in Lone(log) : g = [at |-> i, receipt |-> None, lines |-> {i}]
  BY <1>2
<1> QED BY <1>1, <1>2, GatheredAreThese

\* The longer log has no receipt None either.
LEMMA KeysAreCalls ==
    ASSUME NEW log, NEW rec, Grows(log, rec)
    PROVE  None \notin R!Receipts(log) /\ None \notin R!Receipts(Append(log, rec))
<1>1. GoodLog(log) /\ MayAdd(rec)
  BY DEF Grows
<1>2. None \notin R!Receipts(log)
  BY <1>1, KeyedRecords, RecordsAssumption DEF R!Batches
<1>3. rec.phase \in {"plan", "done"} => rec.receipt # None
  BY <1>1, RecordsAssumption DEF MayAdd, R!Batches
<1> QED BY <1>2, <1>3, ReceiptsGrow

\* No batch waits among the rows up to a place, in its second.
Settled(log, at) ==
    \A c \in R!Receipts(log) :
        Waits(log, c) /\ log[Place(log, c)].ts = log[at].ts => Place(log, c) > at

\* Where nothing waits before a row, the rows before it in its second stay those.
LEMMA OrdinalStays ==
    ASSUME NEW log, NEW rec, Grows(log, rec), NEW g \in R!Gathered(log),
           NEW h \in R!Gathered(Append(log, rec)), h.at = g.at, g.at \in DOMAIN log,
           Settled(log, g.at)
    PROVE  R!Ordinal(Append(log, rec), R!Gathered(Append(log, rec)), h)
             = R!Ordinal(log, R!Gathered(log), g)
<1> DEFINE longer == Append(log, rec)
           n == Len(log)
           before == {o \in R!Gathered(log) : o.at < g.at /\ log[o.at].ts = log[g.at].ts}
           later == {o \in R!Gathered(longer) : o.at < h.at /\ longer[o.at].ts = longer[h.at].ts}
           same == [o \in before |-> IF o.receipt = None THEN o ELSE ReceiptGathered(longer, o.receipt)]
<1>1. /\ n \in Nat /\ DOMAIN log = 1..n /\ \A i \in DOMAIN log : longer[i] = log[i]
      /\ GoodLog(log) /\ BesideInv /\ RecordsType
      /\ None \notin R!Receipts(log) /\ None \notin R!Receipts(longer)
  BY GrownLog, KeysAreCalls DEF Grows
<1>2. /\ \A c \in R!Receipts(log) :
           /\ c \in R!Receipts(longer) /\ Place(log, c) \in DOMAIN log
           /\ Place(longer, c) = Place(log, c) \/ (Place(longer, c) = n + 1 /\ Waits(log, c))
      /\ \A c \in R!Receipts(longer) : c \notin R!Receipts(log) => Place(longer, c) = n + 1
  BY <1>1, PlaceStays, NewPlace, PlaceInLog
<1>3. \A i \in DOMAIN log : i \in Lone(longer) <=> i \in Lone(log)
  BY LoneLater
<1>4. /\ \A o \in R!Gathered(log) :
           \/ /\ o.receipt \in R!Receipts(log) /\ o.receipt # None
              /\ o = ReceiptGathered(log, o.receipt) /\ o.at = Place(log, o.receipt)
           \/ /\ o.receipt = None /\ o.at \in Lone(log)
              /\ o = [at |-> o.at, receipt |-> None, lines |-> {o.at}]
      /\ \A o \in R!Gathered(longer) :
           \/ /\ o.receipt \in R!Receipts(longer) /\ o.receipt # None
              /\ o = ReceiptGathered(longer, o.receipt) /\ o.at = Place(longer, o.receipt)
           \/ /\ o.receipt = None /\ o.at \in Lone(longer)
              /\ o = [at |-> o.at, receipt |-> None, lines |-> {o.at}]
  BY <1>1, GatheredCases
<1>5. /\ \A c \in R!Receipts(longer) : /\ ReceiptGathered(longer, c) \in R!Gathered(longer)
                                       /\ ReceiptGathered(longer, c).at = Place(longer, c)
                                       /\ ReceiptGathered(longer, c).receipt = c
      /\ \A c \in R!Receipts(log) : /\ ReceiptGathered(log, c) \in R!Gathered(log)
                                    /\ ReceiptGathered(log, c).at = Place(log, c)
                                    /\ ReceiptGathered(log, c).receipt = c
      /\ \A i \in Lone(longer) : [at |-> i, receipt |-> None, lines |-> {i}] \in R!Gathered(longer)
      /\ \A i \in Lone(log) : [at |-> i, receipt |-> None, lines |-> {i}] \in R!Gathered(log)
  BY GatheredAreThese DEF ReceiptGathered, Place
<1>6. Lone(log) \subseteq DOMAIN log /\ g.at \in 1..n /\ h.at = g.at /\ longer[h.at] = log[g.at]
  BY <1>1 DEF Lone
<1>7. \A c \in R!Receipts(log) :
         Place(log, c) < g.at /\ log[Place(log, c)].ts = log[g.at].ts
           => Place(longer, c) = Place(log, c)
  BY <1>1, <1>2, <1>6 DEF Settled
<1> HIDE DEF longer, n
<1>8. \A o \in before : same[o] \in later /\ same[o].receipt = o.receipt /\ same[o].at = o.at
  <2> SUFFICES ASSUME NEW o \in before
               PROVE  same[o] \in later /\ same[o].receipt = o.receipt /\ same[o].at = o.at
    OBVIOUS
  <2>1. CASE o.receipt = None
    <3>1. /\ same[o] = o /\ o.at \in Lone(log) /\ o = [at |-> o.at, receipt |-> None, lines |-> {o.at}]
      BY <1>1, <1>4, <2>1
    <3>2. o.at \in Lone(longer) /\ longer[o.at] = log[o.at]
      BY <1>1, <1>3, <1>6, <3>1
    <3>3. o \in R!Gathered(longer)
      BY <1>5, <3>1, <3>2
    <3> QED BY <1>6, <3>1, <3>2, <3>3
  <2>2. CASE o.receipt # None
    <3>1. /\ same[o] = ReceiptGathered(longer, o.receipt) /\ o.receipt \in R!Receipts(log)
          /\ o.at = Place(log, o.receipt)
      BY <1>4, <2>2
    <3>2. Place(longer, o.receipt) = o.at /\ o.receipt \in R!Receipts(longer) /\ o.at \in DOMAIN log
      BY <1>2, <1>7, <3>1
    <3>3. same[o] \in R!Gathered(longer) /\ same[o].at = o.at /\ same[o].receipt = o.receipt
      BY <1>5, <3>1, <3>2
    <3> QED BY <1>1, <1>6, <3>2, <3>3
  <2> QED BY <2>1, <2>2
<1>9. \A o, p \in before : same[o] = same[p] => o = p
  <2> SUFFICES ASSUME NEW o \in before, NEW p \in before, same[o] = same[p] PROVE o = p
    OBVIOUS
  <2>1. o.receipt = p.receipt /\ o.at = p.at
    BY <1>8
  <2> QED BY <1>4, <2>1
<1>10. \A t \in later : \E o \in before : same[o] = t
  <2> SUFFICES ASSUME NEW t \in later PROVE \E o \in before : same[o] = t
    OBVIOUS
  <2>1. CASE t.receipt = None
    <3>1. t.at \in Lone(longer) /\ t = [at |-> t.at, receipt |-> None, lines |-> {t.at}]
      BY <1>1, <1>4, <2>1
    <3>2. t.at \in DOMAIN log
      <4>1. t.at \in 1..(n + 1) /\ t.at < g.at
        BY <1>6, <3>1, GrownLog DEF Lone, longer, n
      <4> QED BY <1>1, <1>6, <4>1
    <3>3. t \in R!Gathered(log) /\ longer[t.at] = log[t.at]
      BY <1>1, <1>3, <1>5, <3>1, <3>2
    <3>4. t \in before
      BY <1>6, <3>3
    <3> QED BY <2>1, <3>4
  <2>2. CASE t.receipt # None
    <3>1. /\ t.receipt \in R!Receipts(longer) /\ t = ReceiptGathered(longer, t.receipt)
          /\ t.at = Place(longer, t.receipt)
      BY <1>4, <2>2
    <3>2. t.at # n + 1
      BY <1>1, <1>6
    <3>3. /\ t.receipt \in R!Receipts(log) /\ Place(log, t.receipt) = t.at
          /\ t.at \in DOMAIN log
      BY <1>2, <3>1, <3>2
    <3>4. PICK o : o = ReceiptGathered(log, t.receipt)
      OBVIOUS
    <3>5. o \in R!Gathered(log) /\ o.at = t.at /\ o.receipt = t.receipt
      BY <1>5, <3>3, <3>4
    <3>6. o \in before
      BY <1>1, <1>6, <3>3, <3>5
    <3>7. same[o] = t
      BY <2>2, <3>1, <3>5, <3>6
    <3> QED BY <3>6, <3>7
  <2> QED BY <2>1, <2>2
<1>11. IsFiniteSet(before)
  <2>1. before \subseteq R!Gathered(log)
    OBVIOUS
  <2> QED BY <1>1, <2>1, RowsFinite, FS_Subset
<1>12. same \in Bijection(before, later)
  <2> HIDE DEF before, later
  <2>1. same \in [before -> later]
    BY <1>8
  <2> HIDE DEF same
  <2> QED BY <1>9, <1>10, <2>1, Fun_IsBij
<1>13. Cardinality(later) = Cardinality(before)
  <2> HIDE DEF before, later, same
  <2> QED BY <1>11, <1>12, FS_Bijection, Fun_ExistsBij
<1>14. /\ R!Ordinal(log, R!Gathered(log), g) = Cardinality(before)
       /\ R!Ordinal(longer, R!Gathered(longer), h) = Cardinality(later)
  BY SameCounts DEF R!Ordinal
<1> QED BY <1>13, <1>14 DEF longer

\* The row of a batch that has not to wait, or of a line, keeps its address and its records.
LEMMA RowStays ==
    ASSUME NEW log, NEW rec, Grows(log, rec), NEW g \in R!Gathered(log), Settled(log, g.at)
    PROVE  \E h \in R!Gathered(Append(log, rec)) :
              LET row == RowAt(log, g)
                  now == RowAt(Append(log, rec), h)
              IN  now.ts = row.ts /\ now.n = row.n /\ row.calls \subseteq now.calls
<1> DEFINE longer == Append(log, rec)
           n == Len(log)
<1>1. /\ n \in Nat /\ DOMAIN log = 1..n /\ \A i \in DOMAIN log : longer[i] = log[i]
      /\ GoodLog(log) /\ BesideInv /\ RecordsType
      /\ None \notin R!Receipts(log)
  BY GrownLog, KeysAreCalls DEF Grows
<1>2. g.lines \subseteq DOMAIN log
  BY <1>1, RowsOfCalls
<1>3. g.at \in DOMAIN log /\ \E h \in R!Gathered(longer) : h.at = g.at /\ g.lines \subseteq h.lines
  <2>1. CASE g.receipt = None
    <3>1. g.at \in Lone(log) /\ g = [at |-> g.at, receipt |-> None, lines |-> {g.at}]
      BY <1>1, <2>1, GatheredCases
    <3>2. g.at \in DOMAIN log
      BY <3>1 DEF Lone
    <3>3. g.at \in Lone(longer)
      BY <3>1, <3>2, LoneLater
    <3>4. g \in R!Gathered(longer)
      BY <3>1, <3>3, GatheredAreThese
    <3> QED BY <3>2, <3>4
  <2>2. CASE g.receipt # None
    <3>1. PICK c : c = g.receipt /\ c \in R!Receipts(log) /\ g = ReceiptGathered(log, c)
                   /\ g.at = Place(log, c)
      BY <1>1, <2>2, GatheredCases
    <3>2. g.at \in DOMAIN log
      BY <1>1, <3>1, PlaceInLog
    <3>3. ~Waits(log, c)
      <4>1. Waits(log, c) => g.at > g.at
        BY <3>1 DEF Settled
      <4>2. g.at \in Nat
        BY <1>1, <3>2
      <4> QED BY <4>1, <4>2
    <3>4. /\ c \in R!Receipts(longer) /\ Place(longer, c) = g.at
          /\ g.lines \subseteq ReceiptGathered(longer, c).lines
      BY <3>1, <3>3, PlaceStays
    <3>5. ReceiptGathered(longer, c) \in R!Gathered(longer) /\ ReceiptGathered(longer, c).at = g.at
      BY <3>4, GatheredAreThese DEF Place
    <3> QED BY <3>2, <3>4, <3>5
  <2> QED BY <2>1, <2>2
<1>4. PICK h \in R!Gathered(longer) : h.at = g.at /\ g.lines \subseteq h.lines
  BY <1>3
<1>5. R!Ordinal(longer, R!Gathered(longer), h) = R!Ordinal(log, R!Gathered(log), g)
  BY <1>3, <1>4, OrdinalStays
<1>6. longer[h.at] = log[g.at]
  BY <1>1, <1>3, <1>4
<1>7. {log[i].call : i \in g.lines} \subseteq {longer[i].call : i \in h.lines}
  BY <1>1, <1>2, <1>4
<1> HIDE DEF longer
<1>8. /\ RowAt(longer, h).ts = RowAt(log, g).ts /\ RowAt(longer, h).n = RowAt(log, g).n
      /\ RowAt(log, g).calls \subseteq RowAt(longer, h).calls
  BY <1>5, <1>6, <1>7 DEF RowAt
<1> QED BY <1>4, <1>8 DEF longer

\* What a step makes of the log, if it does not cut it: the same one, or one record more.
LEMMA StepOfLog ==
    ASSUME RecordsInv, [R!Next]_recordVars, older' = older
    PROVE  \/ R!read_all' = R!read_all
           \/ \E rec : Grows(R!read_all, rec) /\ R!read_all' = Append(R!read_all, rec)
<1>1. RecordsType /\ PlannedInv /\ BesideInv /\ GoodLog(R!read_all)
  BY DEF RecordsInv
<1>2. live' = live => R!read_all' = R!read_all
  BY DEF R!read_all
<1>3. ASSUME NEW c \in Calls, NEW phase \in {"plan", "done", "line"},
             live' = Append(live, R!Record(c, phase)),
             phase # "line" => c \in R!Batches,
             phase = "line" => (c \in R!Batches => callPc[c] = "done"),
             phase = "plan" => callPc[c] = "new",
             phase = "done" => callPc[c] = "planned"
      PROVE  \E rec : Grows(R!read_all, rec) /\ R!read_all' = Append(R!read_all, rec)
  <2>1. PICK rec : rec = R!Record(c, phase)
    OBVIOUS
  <2>2. /\ rec.call = c /\ rec.phase = phase /\ (phase = "line" => rec.tool = R!Tool(c))
        /\ rec.receipt = IF c \in R!Batches /\ (phase # "line" \/ c \notin old) THEN c ELSE None
        /\ rec.dry = (Kind[c] = "undo preview")
    BY <2>1 DEF R!Record
  <2>3. MayAdd(rec)
    BY <1>3, <2>2 DEF MayAdd
  <2>4. R!read_all' = Append(R!read_all, rec)
    BY <1>1, <1>3, <2>1, AppendedToAll DEF R!read_all, RecordsType
  <2> QED BY <1>1, <2>3, <2>4 DEF Grows
<1>4. ASSUME NEW c \in Calls, R!Plan(c)
      PROVE  \E rec : Grows(R!read_all, rec) /\ R!read_all' = Append(R!read_all, rec)
  <2>1. c \in R!Batches /\ callPc[c] = "new" /\ live' = Append(live, R!Record(c, "plan"))
    BY <1>4 DEF R!Plan, R!MayStart
  <2> QED BY <1>3, <2>1
<1>5. ASSUME NEW c \in Calls, R!Done(c), live' # live
      PROVE  \E rec : Grows(R!read_all, rec) /\ R!read_all' = Append(R!read_all, rec)
  <2>1. callPc[c] = "planned" /\ live' = Append(live, R!Record(c, "done"))
    BY <1>5 DEF R!Done, R!Appends
  <2>2. c \in R!Batches
    BY <1>1, <2>1 DEF PlannedInv
  <2> QED BY <1>3, <2>1, <2>2
<1>6. ASSUME NEW c \in Calls, R!Line(c), live' # live
      PROVE  \E rec : Grows(R!read_all, rec) /\ R!read_all' = Append(R!read_all, rec)
  <2>1. /\ live' = Append(live, R!Record(c, "line"))
        /\ c \in R!Batches => callPc[c] = "done"
    BY <1>6 DEF R!Line, R!Appends
  <2> QED BY <1>3, <2>1
\* A rotation replaces audit.jsonl.1 by the live file, whose records it did not have.
<1>7. CASE R!Rotate
  <2>1. live # <<>> /\ live = older
    BY <1>7 DEF R!Rotate
  <2>2. /\ Len(live) \in Nat /\ 1 \in 1..Len(live)
        /\ Len(older) + 1 \in DOMAIN R!read_all /\ 1 \in DOMAIN R!read_all
        /\ R!read_all[1] = live[1] /\ R!read_all[Len(older) + 1] = live[1]
        /\ Len(older) + 1 # 1
    BY <1>1, <2>1 DEF R!read_all, RecordsType
  <2>3. Len(older) + 1 = 1
    BY <1>1, <2>2 DEF GoodLog, OncePerPhase
  <2> QED BY <2>2, <2>3
<1>8. R!Tick \/ UNCHANGED recordVars \/ (\E c \in Calls : R!Stop(c)) => live' = live
  BY DEF R!Tick, R!Stop, recordVars
<1> QED BY <1>2, <1>4, <1>5, <1>6, <1>7, <1>8 DEF R!Next

LEMMA RecordsKeepPlaces ==
    ASSUME RecordsInv, [R!Next]_recordVars, older' = older
    PROVE  LET rows == R!Rows(R!read_all)
               waits == {row \in rows : /\ R!read_all[row.at].phase # "line"
                                        /\ row.receipt \in R!Running \/ R!MayBeMistaken(row.receipt)}
               later == R!Rows(R!read_all')
           IN  \A row \in rows :
                  (\A other \in waits : other.ts = row.ts => other.at > row.at) =>
                      \E now \in later : now.ts = row.ts /\ now.n = row.n
                                         /\ row.calls \subseteq now.calls
<1> DEFINE rows == R!Rows(R!read_all)
           waits == {row \in rows : /\ R!read_all[row.at].phase # "line"
                                    /\ row.receipt \in R!Running \/ R!MayBeMistaken(row.receipt)}
           later == R!Rows(R!read_all')
<1> SUFFICES ASSUME NEW row \in rows, \A other \in waits : other.ts = row.ts => other.at > row.at
             PROVE  \E now \in later : now.ts = row.ts /\ now.n = row.n /\ row.calls \subseteq now.calls
  OBVIOUS
<1>1. CASE R!read_all' = R!read_all
  BY <1>1
<1>2. ASSUME NEW rec, Grows(R!read_all, rec), R!read_all' = Append(R!read_all, rec)
      PROVE  \E now \in later : now.ts = row.ts /\ now.n = row.n /\ row.calls \subseteq now.calls
  <2>1. PICK log : log = R!read_all
    OBVIOUS
  <2>2. PICK g \in R!Gathered(log) : row = RowAt(log, g)
    BY <2>1, RowsAreThese
  <2>3. ASSUME NEW c \in R!Receipts(log), Waits(log, c), log[Place(log, c)].ts = log[g.at].ts
        PROVE  Place(log, c) > g.at
    <3>1. PICK o : o = RowAt(log, ReceiptGathered(log, c))
      OBVIOUS
    <3>2. ReceiptGathered(log, c) \in R!Gathered(log)
      BY GatheredAreThese
    <3>3. o \in rows
      BY <2>1, <3>1, <3>2, RowsAreThese
    <3>4. o.at = Place(log, c) /\ o.receipt = c /\ o.ts = log[Place(log, c)].ts
      BY <3>1 DEF RowAt, Place, ReceiptGathered
    <3>5. o \in waits
      BY <2>1, <2>3, <3>3, <3>4 DEF Waits
    <3>6. row.ts = log[g.at].ts /\ row.at = g.at
      BY <2>2 DEF RowAt
    <3> QED BY <2>3, <3>4, <3>5, <3>6
  <2>4. Settled(log, g.at)
    BY <2>3 DEF Settled
  <2>5. PICK h \in R!Gathered(Append(log, rec)) :
            /\ RowAt(Append(log, rec), h).ts = row.ts /\ RowAt(Append(log, rec), h).n = row.n
            /\ row.calls \subseteq RowAt(Append(log, rec), h).calls
    BY <1>2, <2>1, <2>2, <2>4, RowStays
  <2>6. RowAt(Append(log, rec), h) \in later
    BY <1>2, <2>1, <2>5, RowsAreThese
  <2> QED BY <2>5, <2>6
<1> QED BY <1>1, <1>2, StepOfLog

\* A row keeps the address of its page, its second and its ordinal (build_rows), and its records
\* while records are appended, but for a batch that waits for its line and the rows after it.
THEOREM RowsStay == DashboardSpec => RowsKeepTheirPlace
<1>1. DashboardSpec => []RecordsInv
  BY RecordsSteps, PTL DEF DashboardSpec
<1>2. [DashboardNext]_dashboardVars => [R!Next]_recordVars
  BY DEF DashboardNext, dashboardVars
<1> QED BY <1>1, <1>2, RecordsKeepPlaces, PTL DEF DashboardSpec, RowsKeepTheirPlace, R!RowsKeepTheirPlace
=============================================================================
