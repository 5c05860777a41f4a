-------------------------- MODULE AdapterSwitches --------------------------
(***************************************************************************)
(* Which tools the daemon offers, and who decides it: the two files        *)
(* adapters_off and allow_send (deploy.py, tiers.py), read when the        *)
(* package is imported (server.py's _tool), rewritten by the Adapters page *)
(* (dashboard/adapters.py), by `allow-send` in a terminal and by hand.     *)
(*                                                                         *)
(* Every file access is a step: the operator, the page's other requests,   *)
(* launchd and a second terminal act between any two of them.              *)
(***************************************************************************)
EXTENDS Naturals, Sequences, FiniteSets

CONSTANTS
    Tools,          \* the decorated functions in their order: [app, tier]
    Stray,          \* a name in adapters_off that is no adapter
    HandWritten,    \* what somebody may have written into adapters_off by hand
    EnvOff,         \* the names in MACOS_APPS_ADAPTERS_OFF, {} when unset
    EnvSend,        \* the adapters in MACOS_APPS_ALLOW_SEND, {} when unset
    ReadOnly,       \* MACOS_APPS_READ_ONLY
    Installed,      \* the agent is registered with launchd
    Requests,       \* POSTs to the page
    Terminals,      \* runs of `allow-send <value>`
    NoOne,
    ReadsMayDiffer, \* a file may become unreadable between two reads of one request
    MaxOutside,     \* bound: changes to the file by hand
    MaxEnds         \* bound: ends of the daemon that nobody asked for

Known == {Tools[i].app : i \in DOMAIN Tools}
Senders == {Tools[i].app : i \in {j \in DOMAIN Tools : Tools[j].tier = "send"}}
Names == Known \cup {Stray}
AllOff == "*"

ASSUME SwitchesAssumption ==
    /\ Tools # <<>>
    /\ Tools \in Seq([app : Known, tier : {"read", "additive", "destructive", "send"}])
    /\ Stray \notin Known /\ HandWritten \subseteq SUBSET Names
    /\ EnvOff \subseteq Names /\ EnvSend \subseteq Senders
    /\ AllOff \notin Names
    /\ ReadOnly \in BOOLEAN /\ Installed \in BOOLEAN /\ ReadsMayDiffer \in BOOLEAN
    /\ NoOne \notin Requests \cup Terminals /\ MaxOutside \in Nat /\ MaxEnds \in Nat

VARIABLES
    file,       \* adapters_off: is it there, can it be read, which names it holds
    gate,       \* allow_send: the adapters it names
    outside,
    daemon,     \* "down", "importing", "serving", "leaving"
    snapshot,   \* _ADAPTERS_OFF
    registered, \* per decorated function so far: is it a tool of this process
    lock,       \* the request that holds _write_lock
    logged,     \* restart_logged
    lost,       \* _audit_lost
    pc, request, \* per POST
    reading,    \* per POST: the names it will write
    tpc, value, \* per terminal
    ends,
    word,       \* history: what the page's last change of each adapter asked, None if
                \* the file was changed by hand since
    writer,     \* history: the terminal that wrote the gate last
    told        \* history: the value of the terminal that was told "daemon restarted",
                \* NoOne once the gate has been written again

fileVars == <<file, gate, outside>>
processVars == <<daemon, snapshot, registered, lock, logged, lost, ends>>
requestVars == <<pc, request, reading>>
terminalVars == <<tpc, value>>
history == <<word, writer, told>>
vars == <<fileVars, processVars, requestVars, terminalVars, history>>

Asked == [op : {"toggle"}, adapter : Known, on : BOOLEAN]
            \cup [op : {"discard", "restart"}, adapter : {NoOne}, on : {FALSE}]

TypeOK ==
    /\ file \in [there : BOOLEAN, readable : BOOLEAN, names : SUBSET Names]
    /\ gate \in SUBSET Senders
    /\ daemon \in {"down", "importing", "serving", "leaving"}
    /\ snapshot \in SUBSET (Names \cup {AllOff})
    /\ registered \in UNION {[1 .. n -> BOOLEAN] : n \in 0 .. Len(Tools)}
    /\ lock \in Requests \cup {NoOne}
    /\ logged \in BOOLEAN /\ lost \in BOOLEAN
    /\ pc \in [Requests -> {"new", "waiting", "checked", "writing", "written", "answering",
                            "saved", "locked", "failed", "restarting", "cut"}]
    /\ request \in [Requests -> Asked \cup {NoOne}]
    /\ reading \in [Requests -> SUBSET Names]
    /\ tpc \in [Terminals -> {"new", "emptied", "wrote", "kicked", "restarted", "not restarted"}]
    /\ value \in [Terminals -> SUBSET Senders]
    /\ outside \in Nat /\ ends \in Nat
    /\ word \in [Known -> {"on", "off", "none"}]
    /\ writer \in Terminals \cup {NoOne}
    /\ told \in SUBSET Senders \cup {NoOne}

Init ==
    /\ \E names \in HandWritten, there \in BOOLEAN :
          file = [there |-> there, readable |-> TRUE, names |-> IF there THEN names ELSE {}]
    /\ gate \in SUBSET Senders
    /\ daemon = "down" /\ snapshot = {} /\ registered = <<>>
    /\ lock = NoOne /\ logged = FALSE /\ lost = FALSE
    /\ pc = [r \in Requests |-> "new"] /\ request = [r \in Requests |-> NoOne]
    /\ reading = [r \in Requests |-> {}]
    /\ tpc = [t \in Terminals |-> "new"] /\ value = [t \in Terminals |-> {}]
    /\ outside = 0 /\ ends = 0
    /\ word = [a \in Known |-> "none"] /\ writer = NoOne /\ told = NoOne

-----------------------------------------------------------------------------
(* The gates: tiers.py over the files of deploy.py.                        *)

\* Bug: the role is read from the variable that serve() sets after the import.
RoleByVariable == daemon \in {"serving", "leaving"}

\* This process is the daemon by its argv, from its first moment.
IsDaemonRole == TRUE

AdaptersOffFile ==
    IF ~file.there THEN {} ELSE IF file.readable THEN file.names ELSE {AllOff}

AdaptersOff == IF EnvOff = {} /\ IsDaemonRole THEN AdaptersOffFile ELSE EnvOff
AdapterEnabled(a, off) == AllOff \notin off /\ a \notin off
AllowSend(a) == ~ReadOnly /\ a \in (IF EnvSend = {} /\ IsDaemonRole THEN gate ELSE EnvSend)

\* adapter_status: what registered when the process started, and what would now.
RegisteredApps == {Tools[i].app : i \in {j \in DOMAIN registered : registered[j]}}

-----------------------------------------------------------------------------
(* The daemon: launchd starts it, the import registers one tool after the  *)
(* other, a restart or an end takes it down.                               *)

\* The import's first look at the deny-list.
Launch ==
    /\ daemon = "down"
    /\ daemon' = "importing"
    /\ snapshot' = AdaptersOff
    /\ UNCHANGED <<fileVars, registered, lock, logged, lost, ends, requestVars, terminalVars, history>>

\* _tool: the deny-list is the snapshot's, the outbound gate is read for each tool.
Registers(tool) ==
    /\ AdapterEnabled(tool.app, snapshot)
    /\ CASE tool.tier = "send" -> AllowSend(tool.app)
         [] tool.tier = "read" -> TRUE
         [] OTHER -> ~ReadOnly

Import ==
    /\ daemon = "importing"
    /\ registered' = Append(registered, Registers(Tools[Len(registered) + 1]))
    /\ daemon' = IF Len(registered') = Len(Tools) THEN "serving" ELSE "importing"
    /\ UNCHANGED <<fileVars, snapshot, lock, logged, lost, ends, requestVars, terminalVars, history>>

\* The process is gone, with whatever its threads had under way.
Ends ==
    /\ daemon' = "down" /\ snapshot' = {} /\ registered' = <<>>
    /\ lock' = NoOne /\ logged' = FALSE /\ lost' = FALSE
    /\ reading' = [r \in Requests |-> {}]
    /\ pc' = [r \in Requests |-> IF pc[r] \in {"waiting", "checked", "writing", "written", "answering"}
                                    THEN "cut" ELSE pc[r]]
    /\ UNCHANGED <<fileVars, request>>

\* should_exit, or the watchdog's os._exit three seconds later.
Leave == daemon = "leaving" /\ Ends /\ UNCHANGED <<ends, terminalVars, history>>

Dies ==
    /\ daemon # "down" /\ ends < MaxEnds
    /\ ends' = ends + 1
    /\ Ends
    /\ UNCHANGED <<terminalVars, history>>

-----------------------------------------------------------------------------
(* The page's POSTs.                                                       *)

\* _lock_reason: the switches are locked by the variable, or by a file nobody can read.
Locked == EnvOff # {} \/ AllOff \in AdaptersOff

Goto(r, label) == pc' = [pc EXCEPT ![r] = label]
Stay == UNCHANGED <<fileVars, daemon, snapshot, registered, ends, terminalVars, history>>

\* The early check of toggle and of restart.  A restart is logged once per process: the
\* flag is set before the record is written.
Post(r, what) ==
    /\ daemon = "serving" /\ pc[r] = "new"
    /\ request' = [request EXCEPT ![r] = what]
    /\ IF Locked THEN Goto(r, "locked") /\ UNCHANGED logged
       ELSE IF what.op = "restart" /\ logged THEN Goto(r, "answering") /\ UNCHANGED logged
       ELSE Goto(r, "waiting") /\ logged' = (logged \/ what.op = "restart")
    /\ Stay /\ UNCHANGED <<lock, lost, reading>>

\* Bug: nothing keeps two requests apart.
AdmitsAnyone == TRUE

\* The request has _write_lock.
Admits == lock = NoOne

\* The request takes _write_lock and looks again.
Enter(r) ==
    /\ pc[r] = "waiting" /\ Admits
    /\ IF request[r].op = "restart" THEN lock' = r /\ Goto(r, "written")
       ELSE IF Locked THEN Goto(r, "locked") /\ UNCHANGED lock
       ELSE lock' = r /\ Goto(r, "checked")
    /\ Stay /\ UNCHANGED <<logged, lost, request, reading>>

\* _apply_toggle keeps the known names the file has now, _apply_discard takes the adapters
\* this process did not register.
NewNames(what) ==
    CASE what.op = "discard" -> Known \ RegisteredApps
      [] what.on -> (AdaptersOff \cap Known) \ {what.adapter}
      [] OTHER -> (AdaptersOff \cap Known) \cup {what.adapter}

ReadNames(r) ==
    /\ pc[r] = "checked"
    /\ reading' = [reading EXCEPT ![r] = NewNames(request[r])]
    /\ Goto(r, "writing")
    /\ Stay /\ UNCHANGED <<lock, logged, lost, request>>

Says(names, a) == IF a \in names THEN "off" ELSE "on"

\* write_adapters_off: a temp file takes the place of whatever was there, or nothing happens.
WriteNames(r) ==
    /\ pc[r] = "writing"
    /\ \/ /\ file' = [there |-> TRUE, readable |-> TRUE, names |-> reading[r]]
          /\ word' = IF request[r].op = "discard" THEN [a \in Known |-> Says(reading[r], a)]
                     ELSE [word EXCEPT ![request[r].adapter] = IF request[r].on THEN "on" ELSE "off"]
          /\ Goto(r, "written") /\ UNCHANGED lock
       \/ Goto(r, "failed") /\ lock' = NoOne /\ UNCHANGED <<file, word>>
    /\ reading' = [reading EXCEPT ![r] = {}]
    /\ UNCHANGED <<gate, outside, daemon, snapshot, registered, logged, lost, ends, request,
                   terminalVars, writer, told>>

\* _log, still under the lock; its record may not have been written.
LogChange(r) ==
    /\ pc[r] = "written"
    /\ lost' \in BOOLEAN
    /\ lock' = NoOne
    /\ Goto(r, IF request[r].op = "restart" THEN "answering" ELSE "saved")
    /\ Stay /\ UNCHANGED <<logged, request, reading>>

\* The restarting page is sent; then the hook asks the server to leave (daemon.restart: the
\* second time it is told that a restart is under way).
AnswerRestart(r) ==
    /\ pc[r] = "answering"
    /\ Goto(r, "restarting")
    /\ daemon' = IF daemon = "serving" THEN "leaving" ELSE daemon
    /\ UNCHANGED <<fileVars, snapshot, registered, lock, logged, lost, ends, request, reading,
                   terminalVars, history>>

Handle(r) ==
    \/ \E what \in Asked : Post(r, what)
    \/ Enter(r) \/ ReadNames(r) \/ WriteNames(r) \/ LogChange(r) \/ AnswerRestart(r)

-----------------------------------------------------------------------------
(* `allow-send <value>` in a terminal.                                     *)

Wrote(t, label) ==
    /\ tpc' = [tpc EXCEPT ![t] = label]
    /\ writer' = t /\ told' = NoOne
    /\ UNCHANGED <<file, outside, processVars, requestVars, word>>

\* write_text empties the file, then fills it.
EmptyGate(t) ==
    /\ tpc[t] = "new"
    /\ gate' = {}
    /\ \E v \in SUBSET Senders : value' = [value EXCEPT ![t] = v]
    /\ Wrote(t, "emptied")

FillGate(t) ==
    /\ tpc[t] = "emptied"
    /\ gate' = value[t]
    /\ Wrote(t, "wrote") /\ UNCHANGED value

\* launchctl kickstart -k ends the running daemon and starts one; without an agent it fails.
Kick(t) ==
    /\ tpc[t] = "wrote"
    /\ IF Installed THEN Ends /\ tpc' = [tpc EXCEPT ![t] = "kicked"]
       ELSE tpc' = [tpc EXCEPT ![t] = "not restarted"]
            /\ UNCHANGED <<fileVars, daemon, snapshot, registered, lock, logged, lost, requestVars>>
    /\ UNCHANGED <<ends, value, history>>

SayRestarted(t) ==
    /\ tpc[t] = "kicked"
    /\ tpc' = [tpc EXCEPT ![t] = "restarted"]
    /\ told' = IF writer = t THEN value[t] ELSE told
    /\ UNCHANGED <<fileVars, processVars, requestVars, value, word, writer>>

Command(t) == EmptyGate(t) \/ FillGate(t) \/ Kick(t) \/ SayRestarted(t)

-----------------------------------------------------------------------------
(* The operator and the file system.                                       *)

ByHand ==
    /\ outside < MaxOutside
    /\ outside' = outside + 1
    /\ UNCHANGED <<gate, processVars, requestVars, terminalVars, writer, told>>

EditFile ==
    /\ \E names \in HandWritten, there \in BOOLEAN :
          file' = [there |-> there, readable |-> TRUE, names |-> IF there THEN names ELSE {}]
    /\ word' = [a \in Known |-> "none"]
    /\ ByHand

\* Its permissions change, or the system runs out of descriptors for a while.
BecomesUnreadable ==
    /\ file.there /\ file.readable
    /\ lock = NoOne \/ ReadsMayDiffer
    /\ file' = [file EXCEPT !.readable = FALSE]
    /\ ByHand /\ UNCHANGED word

BecomesReadable ==
    /\ ~file.readable
    /\ file' = [file EXCEPT !.readable = TRUE]
    /\ ByHand /\ UNCHANGED word

Outside == EditFile \/ BecomesUnreadable \/ BecomesReadable

-----------------------------------------------------------------------------

Next ==
    \/ Launch \/ Import \/ Leave \/ Dies
    \/ \E r \in Requests : Handle(r)
    \/ \E t \in Terminals : Command(t)
    \/ Outside

Spec == Init /\ [][Next]_vars

-----------------------------------------------------------------------------
(* Properties.                                                             *)

\* A switch that the page has set stays as it was set, until it is set again or somebody
\* edits the file: two toggles at once, a discard between them, a write that dies half way
\* or a file that cannot be read for a while undo nobody's change (the lock and the second
\* look of _apply_toggle and _apply_discard).
LastWordStands ==
    file.there => \A a \in Known : word[a] # "none" => Says(file.names, a) = word[a]

\* What the operator was told of sending is what the daemon does: after "outbound: v, daemon
\* restarted" a serving daemon has exactly the send tools of v's adapters that are on, however
\* it came up and whoever restarted it (allow_send writes before it kicks; the gate is read
\* by argv, since the import is over before serve() could set a role).
SendingIsAsTold ==
    daemon = "serving" /\ told # NoOne /\ EnvSend = {} /\ ~ReadOnly =>
        \A i \in DOMAIN Tools :
            Tools[i].tier = "send" =>
                (registered[i] <=> (Tools[i].app \in told /\ AdapterEnabled(Tools[i].app, snapshot)))

=============================================================================
