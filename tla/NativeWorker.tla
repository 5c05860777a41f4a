---------------------------- MODULE NativeWorker ----------------------------
(***************************************************************************)
(* One process of macos-apps-mcp: its single native worker (runtime.py),   *)
(* the children it tracks, the ways the process ends (lifecycle.py for a   *)
(* stdio server, daemon.restart for the daemon) and the Health page, whose *)
(* report waits behind the same worker (dashboard/health.py, doctor.py).   *)
(*                                                                         *)
(* A job is named after the thread that submitted it and waits for it: a   *)
(* tool call, the worker thread of a Health request, or Boot, the first    *)
(* permission request of a stdio server.  A job that never comes back      *)
(* ("wedged") is part of the model: nothing bounds a plain native read.    *)
(***************************************************************************)
EXTENDS Naturals, Sequences, FiniteSets

CONSTANTS
    ToolCalls,      \* tool calls
    Pages,          \* requests of the Health page
    Boot,           \* the permission request of bootstrap()
    NoThread,
    Kind,           \* what a call's job does: "script", "async" or "sqlite"
    Reads,          \* worker jobs in one doctor report
    SignalAnywhere  \* TRUE: SIGTERM may arrive while main holds the children lock

Jobs == ToolCalls \cup Pages \cup {Boot}
Enders == {"main", "handler", "watcher"}

ASSUME NativeWorkerAssumption ==
    /\ Kind \in [ToolCalls -> {"script", "async", "sqlite"}]
    /\ Reads \in Nat \ {0}
    /\ SignalAnywhere \in BOOLEAN
    /\ Boot \notin ToolCalls \cup Pages /\ ToolCalls \cap Pages = {}
    /\ NoThread \notin Jobs \cup Enders

VARIABLES
    role,           \* "stdio" or "daemon", fixed for the process
    parent,         \* the process that launched a stdio server: "alive" or "gone"
    main,           \* the main thread
    told,           \* _restart_armed: the dashboard asked the daemon to restart
    queue,          \* the executor's queue
    running,        \* the job the worker runs
    step,           \* where that job is
    done,           \* futures with a result or an exception
    alive,          \* jobs whose child process is running
    children,       \* _children: the children an exit path can terminate
    lock,           \* the holder of _children_lock between two bytecodes
    ender,          \* where each exit path is in terminate_children
    copied,         \* the list each exit path took of the registry
    tool, request, thread, reads, healthLock

worker == <<queue, running, step>>
ending == <<lock, ender, copied>>
health == <<request, thread, reads, healthLock>>
workerVars == <<role, parent, main, told, worker, done, alive, children, ending, tool, health>>

Up == main # "exited"

WorkerInit ==
    /\ role \in {"stdio", "daemon"}
    /\ main = IF role = "stdio" THEN "boot" ELSE "serve"
    /\ queue = IF role = "stdio" THEN <<Boot>> ELSE <<>>
    /\ parent = "alive" /\ told = FALSE
    /\ running = NoThread /\ step = "none" /\ done = {}
    /\ alive = {} /\ children = {} /\ lock = NoThread
    /\ ender = [t \in Enders |-> "off"]
    /\ copied = [t \in Enders |-> {}]
    /\ tool = [c \in ToolCalls |-> "idle"]
    /\ request = [p \in Pages |-> "idle"]
    /\ thread = [p \in Pages |-> "none"]
    /\ reads = [p \in Pages |-> 0]
    /\ healthLock = NoThread

-----------------------------------------------------------------------------
(* The worker. *)

FirstStep(j) ==
    IF j \in ToolCalls /\ Kind[j] = "script" THEN "start"
    ELSE IF j = Boot \/ (j \in ToolCalls /\ Kind[j] = "async") THEN "await"
    ELSE "read"

WorkerTakes ==
    /\ Up /\ running = NoThread /\ queue # <<>>
    /\ running' = Head(queue)
    /\ queue' = Tail(queue)
    /\ step' = FirstStep(Head(queue))
    /\ UNCHANGED <<role, parent, main, told, done, alive, children, ending, tool, health>>

\* The future gets a result or an exception; its submitter may go on.
JobEnds ==
    /\ running' = NoThread
    /\ step' = "none"
    /\ done' = done \cup {running}
    /\ UNCHANGED queue

\* Popen returned; the child is registered only by the next step.
Popen ==
    /\ Up /\ step = "start"
    /\ alive' = alive \cup {running}
    /\ step' = "spawned"
    /\ UNCHANGED <<role, parent, main, told, queue, running, done, children, ending, tool, health>>

TrackChild ==
    /\ Up /\ step = "spawned" /\ lock = NoThread
    /\ children' = children \cup {running}
    /\ step' = "talk"
    /\ UNCHANGED <<role, parent, main, told, queue, running, done, alive, ending, tool, health>>

\* communicate() returned: output, an error of the script, or a child that was terminated.
ChildAnswers ==
    /\ Up /\ step = "talk" /\ running \notin alive /\ lock = NoThread
    /\ children' = children \ {running}
    /\ JobEnds
    /\ UNCHANGED <<role, parent, main, told, alive, ending, tool, health>>

\* As HostTimeout, were the wait for osascript not bounded.
HostTimeoutNever == FALSE /\ UNCHANGED workerVars

\* The host timeout: kill and reap; the hint about a wedged app is read before the
\* child leaves the registry, with two reads of the process table that have timeouts.
HostTimeout ==
    /\ Up /\ step = "talk" /\ running \in alive
    /\ alive' = alive \ {running}
    /\ step' = "hint"
    /\ UNCHANGED <<role, parent, main, told, queue, running, done, children, ending, tool, health>>

HintRead ==
    /\ Up /\ step = "hint" /\ lock = NoThread
    /\ children' = children \ {running}
    /\ JobEnds
    /\ UNCHANGED <<role, parent, main, told, alive, ending, tool, health>>

\* A completion handler fired, or its wait ran out: the job ends either way.
CallbackOrTimeout ==
    /\ Up /\ step = "await"
    /\ JobEnds
    /\ UNCHANGED <<role, parent, main, told, alive, children, ending, tool, health>>

ReadReturns ==
    /\ Up /\ step = "read"
    /\ JobEnds
    /\ UNCHANGED <<role, parent, main, told, alive, children, ending, tool, health>>

\* A store that cannot be read: the same job runs the adapter's AppleScript reader.
ReadFallsBack ==
    /\ Up /\ step = "read" /\ running \in ToolCalls
    /\ step' = "start"
    /\ UNCHANGED <<role, parent, main, told, queue, running, done, alive, children, ending, tool,
                   health>>

\* The native read never returns; neither does any job behind it.
ReadStalls ==
    /\ Up /\ step = "read"
    /\ step' = "wedged"
    /\ UNCHANGED <<role, parent, main, told, queue, running, done, alive, children, ending, tool,
                   health>>

WorkerStep ==
    \/ WorkerTakes \/ Popen \/ TrackChild \/ ChildAnswers \/ HostTimeout
    \/ HintRead \/ CallbackOrTimeout \/ ReadReturns \/ ReadFallsBack

\* osascript ends by itself, with the process or after it (its own `with timeout`).
ChildEnds(j) ==
    /\ j \in alive
    /\ alive' = alive \ {j}
    /\ UNCHANGED <<role, parent, main, told, worker, done, children, ending, tool, health>>

-----------------------------------------------------------------------------
(* Tool calls: run_native from a thread of the server. *)

\* The executor takes no job once the interpreter is shutting down.
Accepts == main \in {"boot", "serve"}

CallStarts(c) ==
    /\ main = "serve" /\ tool[c] = "idle"
    /\ tool' = [tool EXCEPT ![c] = "waiting"]
    /\ queue' = Append(queue, c)
    /\ UNCHANGED <<role, parent, main, told, running, step, done, alive, children, ending, health>>

CallReturns(c) ==
    /\ Up /\ tool[c] = "waiting" /\ c \in done
    /\ tool' = [tool EXCEPT ![c] = "ended"]
    /\ done' = done \ {c}
    /\ UNCHANGED <<role, parent, main, told, worker, alive, children, ending, health>>

-----------------------------------------------------------------------------
(* The Health page: a request, and the thread that runs doctor for it. *)

\* A call in flight: the busy page at once.  Otherwise a thread, and a wait of _WAIT.
PageRequested(p) ==
    /\ role = "daemon" /\ main = "serve" /\ request[p] = "idle"
    /\ IF healthLock # NoThread
          THEN request' = [request EXCEPT ![p] = "answered"] /\ UNCHANGED thread
          ELSE /\ request' = [request EXCEPT ![p] = "open"]
               /\ thread' = [thread EXCEPT ![p] = "try"]
    /\ UNCHANGED <<role, parent, main, told, worker, done, alive, children, ending, tool, reads,
                   healthLock>>

\* As TryLock, with the test of the lock left to page().
TryLockUnlocked(p) ==
    /\ Up /\ thread[p] = "try"
    /\ healthLock' = p
    /\ thread' = [thread EXCEPT ![p] = "doctor"]
    /\ reads' = [reads EXCEPT ![p] = Reads]
    /\ UNCHANGED <<role, parent, main, told, worker, done, alive, children, ending, tool, request>>

\* _lock.acquire(blocking=False): the loser has no report and does not wait for one.
TryLock(p) ==
    /\ Up /\ thread[p] = "try"
    /\ IF healthLock = NoThread
          THEN /\ healthLock' = p
               /\ thread' = [thread EXCEPT ![p] = "doctor"]
               /\ reads' = [reads EXCEPT ![p] = Reads]
          ELSE thread' = [thread EXCEPT ![p] = "ended"] /\ UNCHANGED <<reads, healthLock>>
    /\ UNCHANGED <<role, parent, main, told, worker, done, alive, children, ending, tool, request>>

DoctorAsks(p) ==
    /\ thread[p] = "doctor" /\ reads[p] > 0 /\ Accepts
    /\ thread' = [thread EXCEPT ![p] = "wait"]
    /\ queue' = Append(queue, p)
    /\ UNCHANGED <<role, parent, main, told, running, step, done, alive, children, ending, tool,
                   request, reads,
                   healthLock>>

DoctorHears(p) ==
    /\ Up /\ thread[p] = "wait" /\ p \in done
    /\ thread' = [thread EXCEPT ![p] = "doctor"]
    /\ reads' = [reads EXCEPT ![p] = @ - 1]
    /\ done' = done \ {p}
    /\ UNCHANGED <<role, parent, main, told, worker, alive, children, ending, tool, request,
                   healthLock>>

\* The report is stored, or diagnose raised (no job is accepted any more); `finally`
\* releases the lock in the thread that took it.
DoctorEnds(p) ==
    /\ Up /\ thread[p] = "doctor" /\ (reads[p] = 0 \/ ~Accepts)
    /\ thread' = [thread EXCEPT ![p] = "ended"]
    /\ healthLock' = NoThread
    /\ UNCHANGED <<role, parent, main, told, worker, done, alive, children, ending, tool, request,
                   reads>>

PageAnswers(p) ==
    /\ Up /\ request[p] = "open" /\ thread[p] = "ended"
    /\ request' = [request EXCEPT ![p] = "answered"]
    /\ UNCHANGED <<role, parent, main, told, worker, done, alive, children, ending, tool, thread,
                   reads, healthLock>>

\* move_on_after(_WAIT): the request goes on without its thread.
PageGivesUp(p) ==
    /\ Up /\ request[p] = "open" /\ thread[p] # "ended"
    /\ request' = [request EXCEPT ![p] = "answered"]
    /\ UNCHANGED <<role, parent, main, told, worker, done, alive, children, ending, tool, thread,
                   reads, healthLock>>

PageStep(p) ==
    \/ TryLock(p) \/ DoctorAsks(p) \/ DoctorHears(p) \/ DoctorEnds(p)
    \/ PageAnswers(p) \/ PageGivesUp(p)

-----------------------------------------------------------------------------
(* The end of the process. *)

\* A signal handler runs on the main thread, which then does nothing else.
MainFree == ender["handler"] = "off"

\* main(): the permission request came back; the guards are installed, mcp.run() starts.
BootEnds ==
    /\ main = "boot" /\ Boot \in done
    /\ main' = "serve"
    /\ done' = done \ {Boot}
    /\ UNCHANGED <<role, parent, told, worker, alive, children, ending, tool, health>>

ParentDies ==
    /\ role = "stdio" /\ parent = "alive"
    /\ parent' = "gone"
    /\ UNCHANGED <<role, main, told, worker, done, alive, children, ending, tool, health>>

\* The end of stdin (the client closed it, or is gone); the dashboard's should_exit.
ServerReturns ==
    /\ main = "serve" /\ MainFree
    /\ role = "daemon" => told
    /\ main' = "drain"
    /\ UNCHANGED <<role, parent, told, worker, done, alive, children, ending, tool, health>>

\* threading's shutdown joins the worker, which first runs what is queued; then atexit.
QueueDrained ==
    /\ main = "drain" /\ MainFree /\ running = NoThread /\ queue = <<>>
    /\ IF role = "stdio"
          THEN main' = "atexit" /\ ender' = [ender EXCEPT !["main"] = "lock"]
          ELSE main' = "exited" /\ UNCHANGED ender
    /\ UNCHANGED <<role, parent, told, worker, done, alive, children, lock, copied, tool, health>>

Guarded == role = "stdio" /\ main \in {"serve", "drain", "atexit"}

\* The watcher compares the parent with the one recorded at import.
WatcherSees ==
    /\ Guarded /\ ender["watcher"] = "off" /\ parent = "gone"
    /\ ender' = [ender EXCEPT !["watcher"] = "lock"]
    /\ UNCHANGED <<role, parent, main, told, worker, done, alive, children, lock, copied, tool,
                   health>>

\* SIGTERM: the handler once the guards are installed, the default action before.
Sigterm ==
    /\ role = "stdio" /\ Up /\ MainFree
    /\ IF main = "boot"
          THEN main' = "exited" /\ UNCHANGED ender
          ELSE /\ SignalAnywhere \/ lock # "main"
               /\ ender' = [ender EXCEPT !["handler"] = "lock"]
               /\ UNCHANGED main
    /\ UNCHANGED <<role, parent, told, worker, done, alive, children, lock, copied, tool, health>>

TakeLock(t) ==
    /\ Up /\ ender[t] = "lock" /\ lock = NoThread /\ (t = "main" => MainFree)
    /\ lock' = t
    /\ ender' = [ender EXCEPT ![t] = "copy"]
    /\ UNCHANGED <<role, parent, main, told, worker, done, alive, children, copied, tool, health>>

CopyChildren(t) ==
    /\ Up /\ ender[t] = "copy" /\ (t = "main" => MainFree)
    /\ copied' = [copied EXCEPT ![t] = children]
    /\ lock' = NoThread
    /\ ender' = [ender EXCEPT ![t] = "kill"]
    /\ UNCHANGED <<role, parent, main, told, worker, done, alive, children, tool, health>>

TerminateCopied(t) ==
    /\ Up /\ ender[t] = "kill" /\ (t = "main" => MainFree)
    /\ alive' = alive \ copied[t]
    /\ ender' = [ender EXCEPT ![t] = "end"]
    /\ UNCHANGED <<role, parent, main, told, worker, done, children, lock, copied, tool, health>>

ProcessEnds(t) ==
    /\ Up /\ ender[t] = "end" /\ (t = "main" => MainFree)
    /\ main' = "exited"
    /\ UNCHANGED <<role, parent, told, worker, done, alive, children, ending, tool, health>>

EndStep(t) == TakeLock(t) \/ CopyChildren(t) \/ TerminateCopied(t) \/ ProcessEnds(t)

\* daemon.restart: the server is told to stop, and a watchdog timer is armed.
RestartAsked ==
    /\ role = "daemon" /\ main = "serve" /\ ~told
    /\ told' = TRUE
    /\ UNCHANGED <<role, parent, main, worker, done, alive, children, ending, tool, health>>

\* As Watchdog, were it armed with the end of the worker's queue.
WatchdogWhenIdle ==
    /\ told /\ Up /\ running = NoThread
    /\ main' = "exited"
    /\ UNCHANGED <<role, parent, told, worker, done, alive, children, ending, tool, health>>

Watchdog ==
    /\ told /\ Up
    /\ main' = "exited"
    /\ UNCHANGED <<role, parent, told, worker, done, alive, children, ending, tool, health>>

-----------------------------------------------------------------------------
Outside ==
    \/ ReadStalls \/ ParentDies \/ Sigterm \/ RestartAsked
    \/ \E j \in Jobs : ChildEnds(j)
    \/ \E c \in ToolCalls : CallStarts(c)
    \/ \E p \in Pages : PageRequested(p)

WorkerNext ==
    \/ Outside
    \/ WorkerStep
    \/ \E c \in ToolCalls : CallReturns(c)
    \/ \E p \in Pages : PageStep(p)
    \/ BootEnds \/ ServerReturns \/ QueueDrained \/ WatcherSees \/ Watchdog
    \/ \E t \in Enders : EndStep(t)

\* Threads that can go on do; the child, the parent, the client and a stalled read owe
\* nothing, and a server may serve for ever.
WorkerSpec ==
    /\ WorkerInit /\ [][WorkerNext]_workerVars
    /\ WF_workerVars(WorkerStep)
    /\ \A c \in ToolCalls : WF_workerVars(CallReturns(c))
    /\ \A p \in Pages : WF_workerVars(PageStep(p)) /\ WF_workerVars(PageGivesUp(p))
    /\ WF_workerVars(BootEnds) /\ WF_workerVars(QueueDrained)
    /\ WF_workerVars(WatcherSees) /\ WF_workerVars(Watchdog)
    /\ \A t \in Enders : WF_workerVars(EndStep(t))

-----------------------------------------------------------------------------
(* Every variable keeps to its values. *)
WorkerTypeOK ==
    /\ role \in {"stdio", "daemon"} /\ parent \in {"alive", "gone"} /\ told \in BOOLEAN
    /\ main \in {"boot", "serve", "drain", "atexit", "exited"}
    /\ queue \in Seq(Jobs) /\ running \in Jobs \cup {NoThread} /\ done \subseteq Jobs
    /\ step \in {"none", "start", "spawned", "talk", "hint", "await", "read", "wedged"}
    /\ alive \subseteq Jobs /\ children \subseteq Jobs
    /\ lock \in Enders \cup {NoThread}
    /\ ender \in [Enders -> {"off", "lock", "copy", "kill", "end"}]
    /\ copied \in [Enders -> SUBSET Jobs]
    /\ tool \in [ToolCalls -> {"idle", "waiting", "ended"}]
    /\ request \in [Pages -> {"idle", "open", "answered"}]
    /\ thread \in [Pages -> {"none", "try", "doctor", "wait", "ended"}]
    /\ reads \in [Pages -> 0..Reads] /\ healthLock \in Pages \cup {NoThread}

Waiting(p) == thread[p] \in {"doctor", "wait"}
Queued(j) == \E i \in DOMAIN queue : queue[i] = j

(* However many Health pages are loaded and given up on while the worker is busy or     *)
(* wedged, one thread waits behind it and one job of theirs is queued: the lock is freed *)
(* by the thread that holds it, never by a request (health._run, page).                  *)
ThreadsStayBounded ==
    /\ \A p, q \in Pages : Waiting(p) /\ Waiting(q) => p = q
    /\ \A p \in Pages : Queued(p) \/ running = p => healthLock = p
    /\ \A p \in Pages : healthLock = p <=> Waiting(p)

(* A page is answered though the worker it asks may be wedged for ever, and a native     *)
(* call, which has no deadline of its own (each kind of job has), ends as long as no      *)
(* plain read stalls in front of it (run_native, health.page).                            *)
EveryWaitEnds ==
    /\ \A p \in Pages : request[p] = "open" ~> (request[p] = "answered" \/ ~Up)
    /\ \A c \in ToolCalls : tool[c] = "waiting" ~> (tool[c] = "ended" \/ step = "wedged" \/ ~Up)

(* A stdio server whose client is gone, even during the permission prompt of bootstrap,  *)
(* one that got SIGTERM, and a daemon that was told to restart end, whatever the worker   *)
(* is doing and with or without its children (lifecycle.py, daemon.restart).             *)
EndsWhenTold ==
    (parent = "gone" \/ told \/ ender["handler"] # "off") ~> ~Up
=============================================================================
