---------------------------- MODULE DaemonSocket ----------------------------
(***************************************************************************)
(* The unix socket of the daemon: who owns mcp.sock (bind_socket, serve,   *)
(* restart) and what a client learns of a tool call that it sent through   *)
(* the shim (shim_check, _InterruptedToolWarning).                         *)
(*                                                                         *)
(* The path names the socket of one daemon or nothing.  A daemon's steps   *)
(* are the system calls of bind_socket and of the end of serve(): another  *)
(* daemon may run between any two of them, when there is one.  launchd     *)
(* starts one daemon at a time and starts it again whenever it has ended;  *)
(* a second one is started by hand (macos-apps-mcp daemon in a terminal).  *)
(***************************************************************************)
EXTENDS Naturals, FiniteSets

CONSTANTS
    Daemons,        \* the processes that run serve()
    NoOne,          \* the path does not exist, or a call has no connection
    Requests,       \* tool calls of clients, each by its shim
    OnlyLaunchd,    \* TRUE: a daemon starts only when no other runs
    MaxExits        \* bound on the exits and crashes of daemons

ASSUME NoOneAssumption == NoOne \notin Daemons
ASSUME BoundAssumption == OnlyLaunchd \in BOOLEAN /\ MaxExits \in Nat

VARIABLES
    path,       \* the daemon whose socket the path names, or NoOne
    dpc,        \* per daemon: the next step
    listening,  \* the daemons whose socket accepts connections
    exits,
    cpc,        \* per call: what its client knows
    via,        \* per call: the daemon that has it, or NoOne
    cut,        \* the calls whose connection the daemon has ended
    ran         \* the calls whose tool has acted

daemonVars == <<path, dpc, listening, exits>>
callVars == <<cpc, via, cut, ran>>
socketVars == <<daemonVars, callVars>>

DaemonTypeOK ==
    /\ path \in Daemons \cup {NoOne}
    /\ dpc \in [Daemons -> {"off", "bind", "probe", "unlink", "rebind", "listen", "serving",
                            "draining", "remove", "joining"}]
    /\ listening \subseteq Daemons
    /\ exits \in Nat
    /\ cpc \in [Requests -> {"new", "sent", "answered", "refused", "unsure"}]
    /\ via \in [Requests -> Daemons \cup {NoOne}]
    /\ cut \subseteq Requests
    /\ ran \subseteq Requests

DaemonInit ==
    /\ path = NoOne
    /\ dpc = [d \in Daemons |-> "off"]
    /\ listening = {}
    /\ exits = 0
    /\ cpc = [c \in Requests |-> "new"]
    /\ via = [c \in Requests |-> NoOne]
    /\ cut = {}
    /\ ran = {}

Held(d) == {c \in Requests : via[c] = d}
EndProcess(d) == via' = [c \in Requests |-> IF via[c] = d THEN NoOne ELSE via[c]]

Enter(d, label) == dpc' = [dpc EXCEPT ![d] = label]

-----------------------------------------------------------------------------
(* bind_socket.                                                            *)

Start(d) ==
    /\ dpc[d] = "off"
    /\ OnlyLaunchd => \A e \in Daemons : dpc[e] = "off"
    /\ Enter(d, "bind")
    /\ UNCHANGED <<path, listening, exits, callVars>>

Bind(d) ==
    /\ dpc[d] = "bind"
    /\ IF path = NoOne THEN path' = d /\ Enter(d, "listen") ELSE Enter(d, "probe") /\ UNCHANGED path
    /\ UNCHANGED <<listening, exits, callVars>>

\* Bug: an existing socket file always means a running daemon.
ProbeTrustsFile(d) ==
    /\ dpc[d] = "probe"
    /\ Enter(d, IF path # NoOne THEN "off" ELSE "unlink")
    /\ UNCHANGED <<path, listening, exits, callVars>>

\* Connect-probe: a live owner raises AlreadyRunning, a refusal means a stale file.
Probe(d) ==
    /\ dpc[d] = "probe"
    /\ Enter(d, IF path \in listening THEN "off" ELSE "unlink")
    /\ UNCHANGED <<path, listening, exits, callVars>>

Unlink(d) ==
    /\ dpc[d] = "unlink"
    /\ path' = NoOne
    /\ Enter(d, "rebind")
    /\ UNCHANGED <<listening, exits, callVars>>

\* The second bind is not guarded: EADDRINUSE ends the process.
Rebind(d) ==
    /\ dpc[d] = "rebind"
    /\ IF path = NoOne THEN path' = d /\ Enter(d, "listen") ELSE Enter(d, "off") /\ UNCHANGED path
    /\ UNCHANGED <<listening, exits, callVars>>

Listen(d) ==
    /\ dpc[d] = "listen"
    /\ listening' = listening \cup {d}
    /\ Enter(d, "serving")
    /\ UNCHANGED <<path, exits, callVars>>

-----------------------------------------------------------------------------
(* The end of serve().                                                     *)

\* SIGTERM or the dashboard's restart: uvicorn closes its sockets, then waits for the
\* open connections.
Shutdown(d) ==
    /\ dpc[d] = "serving"
    /\ exits < MaxExits
    /\ exits' = exits + 1
    /\ listening' = listening \ {d}
    /\ Enter(d, "draining")
    /\ UNCHANGED <<path, callVars>>

\* server.run returns when the connections have ended, or without waiting for them
\* (force_exit); the finally of serve() comes next.
Drained(d) ==
    /\ dpc[d] = "draining"
    /\ cut' = cut \cup Held(d)
    /\ Enter(d, "remove")
    /\ UNCHANGED <<path, listening, exits, cpc, via, ran>>

\* path.unlink(missing_ok=True), whatever the path names by then.
RemovePath(d) ==
    /\ dpc[d] = "remove"
    /\ path' = NoOne
    /\ Enter(d, "joining")
    /\ UNCHANGED <<listening, exits, callVars>>

\* The interpreter joins the tool threads, or the watchdog does not wait for them.
Exit(d) ==
    /\ dpc[d] = "joining"
    /\ EndProcess(d)
    /\ Enter(d, "off")
    /\ UNCHANGED <<path, listening, exits, cpc, cut, ran>>

\* A crash, or the watchdog's os._exit: serve()'s finally never runs.
HardExit(d) ==
    /\ dpc[d] # "off"
    /\ exits < MaxExits
    /\ exits' = exits + 1
    /\ listening' = listening \ {d}
    /\ cut' = cut \cup Held(d)
    /\ EndProcess(d)
    /\ Enter(d, "off")
    /\ UNCHANGED <<path, cpc, ran>>

-----------------------------------------------------------------------------
(* A tool call over the shim.                                              *)

\* shim_check or the connect of the request: refused when nobody accepts.
Connect(c) ==
    /\ cpc[c] = "new"
    /\ IF path \in listening
       THEN /\ via' = [via EXCEPT ![c] = path]
            /\ cpc' = [cpc EXCEPT ![c] = "sent"]
       ELSE /\ cpc' = [cpc EXCEPT ![c] = "refused"]
            /\ UNCHANGED via
    /\ UNCHANGED <<cut, ran, daemonVars>>

\* The tool acts on its thread, also when nobody waits for its answer any more.
Act(c) ==
    /\ via[c] # NoOne
    /\ c \notin ran
    /\ ran' = ran \cup {c}
    /\ UNCHANGED <<cpc, via, cut, daemonVars>>

Answer(c) ==
    /\ cpc[c] = "sent"
    /\ c \in ran \ cut
    /\ cpc' = [cpc EXCEPT ![c] = "answered"]
    /\ via' = [via EXCEPT ![c] = NoOne]
    /\ UNCHANGED <<cut, ran, daemonVars>>

\* Bug: every transport error is reported like a refused connection.
RefuseInterrupted(c) ==
    /\ cpc[c] = "sent"
    /\ c \in cut
    /\ cpc' = [cpc EXCEPT ![c] = "refused"]
    /\ UNCHANGED <<via, cut, ran, daemonVars>>

\* Bug: a stream that ends without a result is only logged (#170).
IgnoreInterrupted(c) ==
    /\ cpc[c] = "sent"
    /\ c \in cut \ ran
    /\ cpc' = [cpc EXCEPT ![c] = "unsure"]
    /\ UNCHANGED <<via, cut, ran, daemonVars>>

\* The connection ends without a result: "the operation MAY HAVE COMPLETED".
Interrupted(c) ==
    /\ cpc[c] = "sent"
    /\ c \in cut
    /\ cpc' = [cpc EXCEPT ![c] = "unsure"]
    /\ UNCHANGED <<via, cut, ran, daemonVars>>

-----------------------------------------------------------------------------
BindSocket(d) == Bind(d) \/ Probe(d) \/ Unlink(d) \/ Rebind(d) \/ Listen(d)
EndOfServe(d) == Drained(d) \/ RemovePath(d) \/ Exit(d)
Progress(c) == Connect(c) \/ Act(c) \/ Answer(c) \/ Interrupted(c)

DaemonNext ==
    \/ \E d \in Daemons : Start(d) \/ BindSocket(d) \/ Shutdown(d) \/ EndOfServe(d) \/ HardExit(d)
    \/ \E c \in Requests : Progress(c)

\* launchd's KeepAlive starts an ended daemon; a started one runs; a tool that was called
\* ends, each native call being bounded by a host timeout.  Nothing makes a daemon exit.
DaemonSpec ==
    /\ DaemonInit /\ [][DaemonNext]_socketVars
    /\ \A d \in Daemons : /\ WF_socketVars(Start(d)) /\ WF_socketVars(BindSocket(d))
                          /\ WF_socketVars(EndOfServe(d))
    /\ \A c \in Requests : WF_socketVars(Progress(c))

-----------------------------------------------------------------------------
(* Properties.                                                             *)

\* "single-instance semantics": two daemons never accept connections at once.
OneDaemonServes == \A d, e \in listening : d = e

\* A client that is told the daemon refused the call may repeat it: it did not run.
RefusedMeansNotRun == \A c \in Requests : cpc[c] = "refused" => c \notin ran

\* A stale socket file, left by a crash at any step, never keeps the daemon down: in the
\* end one serves and stays reachable.
ServesAgain == <>[](\E d \in Daemons : dpc[d] = "serving" /\ path = d /\ d \in listening)

\* Every call ends for its client, although the shim has no read deadline.
EveryCallEnds == \A c \in Requests : cpc[c] = "sent" ~> cpc[c] \in {"answered", "unsure"}

=============================================================================
