------------------------------ MODULE MobileShell ------------------------------
(***************************************************************************)
(* AppState of the iOS shell (ios-shell/src/state.rs).  The connect and    *)
(* disconnect commands run one at a time under lifecycle_lock; a           *)
(* disconnect first cancels the connect in flight, without the lock.  A    *)
(* connection has a generation and three workers (supervisor, audio,       *)
(* media), each of which may find the session dead and tear it down        *)
(* itself; teardown_coord keeps one teardown per generation, and no        *)
(* teardown waits for another.  A step is what one mutex protects.         *)
(***************************************************************************)
EXTENDS Integers

CONSTANTS MaxGen,      \* connect commands issued, hence connections made (bound)
          MaxCalls,    \* commands issued (bound)
          MaxFaults    \* terminal events of workers (bound)

ASSUME MobileShellAssumption == MaxGen \in Nat \ {0} /\ MaxCalls \in Nat /\ MaxFaults \in Nat

VARIABLES
    inner,         \* SessionInner: generation, state, session, tcp_runtime, worker_handles
    stopFlag,      \* generations whose stop_flag is set
    active,        \* active_connect: the generation registered, 0 if none
    cancelFlag,    \* generations whose cancel_flag is set
    cancelPending,
    lifecycle,     \* the task that holds lifecycle_lock, 0 if none
    coord,         \* TeardownCoordInner: inflight, done (-1 if none), failed
    task,          \* of each command task: where it is, which command, its generation
    tear,          \* of each thread: its call of handle_terminal_shutdown
    worker,        \* where each worker is
    live,          \* generations whose ClientSession is connected
    calls,         \* commands issued, connects among them, and terminal events
    missed         \* history: a connection began although an earlier one was not torn down

mobileVars == <<inner, stopFlag, active, cancelFlag, cancelPending, lifecycle, coord, task,
                tear, worker, live, calls, missed>>

Tasks == {1, 2}
Workers == {"sup", "aud", "med"} \X (1 .. MaxGen)
Threads == ({"task"} \X Tasks) \cup Workers
Task(t) == <<"task", t>>
NoTear == [pc |-> "none", gen |-> 0, target |-> "Idle", sess |-> 0, joins |-> {}, applied |-> FALSE, failed |-> FALSE]
IdleTask == [pc |-> "idle", cmd |-> "none", gen |-> 0]

MobileTypeOK ==
    /\ inner \in [gen: 0 .. MaxGen, state: {"Idle", "Connecting", "Ready", "Disconnected", "Error"},
                  session: 0 .. MaxGen, runtime: 0 .. MaxGen, handles: SUBSET Workers]
    /\ stopFlag \subseteq 0 .. MaxGen /\ cancelFlag \subseteq 1 .. MaxGen /\ live \subseteq 1 .. MaxGen
    /\ active \in 0 .. MaxGen /\ lifecycle \in {0} \cup Tasks /\ cancelPending \in BOOLEAN
    /\ coord \in [inflight: -1 .. MaxGen, done: -1 .. MaxGen, failed: BOOLEAN]
    /\ worker \in [Workers -> {"none", "run", "tear", "done"}]
    /\ calls \in [commands: 0 .. MaxCalls, connects: 0 .. MaxGen, faults: 0 .. MaxFaults]

MobileInit ==
    /\ inner = [gen |-> 0, state |-> "Idle", session |-> 0, runtime |-> 0, handles |-> {}]
    /\ stopFlag = {} /\ active = 0 /\ cancelFlag = {} /\ cancelPending = FALSE /\ lifecycle = 0
    /\ coord = [inflight |-> -1, done |-> -1, failed |-> FALSE]
    /\ task = [t \in Tasks |-> IdleTask]
    /\ tear = [x \in Threads |-> NoTear]
    /\ worker = [w \in Workers |-> "none"]
    /\ live = {} /\ calls = [commands |-> 0, connects |-> 0, faults |-> 0] /\ missed = FALSE

(***************************************************************************)
(* handle_terminal_shutdown and execute_teardown, by any thread.           *)
(***************************************************************************)
Calls(x, g, target) ==
    tear' = [tear EXCEPT ![x] = [NoTear EXCEPT !.pc = "enter", !.gen = g, !.target = target]]
TearGo(x, p) == tear' = [tear EXCEPT ![x].pc = p]
Leaves(x, failed) == tear' = [tear EXCEPT ![x].pc = "returned", ![x].failed = failed]

becomeIdle == [inner EXCEPT !.state = "Idle", !.session = 0]

\* Mutant: waits until the teardown in flight is over.
TeardownEnterWaits(x) ==
    /\ ~(tear[x].pc = "enter" /\ coord.inflight = tear[x].gen)
    /\ tear[x].pc = "enter"
    /\ IF coord.done = tear[x].gen THEN Leaves(x, coord.failed) /\ UNCHANGED coord
       ELSE coord' = [coord EXCEPT !.inflight = tear[x].gen] /\ TearGo(x, "exec")
    /\ UNCHANGED <<inner, stopFlag, active, cancelFlag, cancelPending, lifecycle, task, worker, live, calls, missed>>

\* A teardown of this generation in flight: return at once.  One that is over: its result.
TeardownEnter(x) ==
    LET g == tear[x].gen IN
    /\ tear[x].pc = "enter"
    /\ \/ /\ coord.inflight = g
          /\ Leaves(x, FALSE) /\ UNCHANGED <<coord, inner>>
       \/ /\ coord.inflight # g /\ coord.done = g
          /\ Leaves(x, coord.failed)
          /\ inner' = IF ~coord.failed /\ tear[x].target = "Idle" /\ inner.gen = g
                      THEN becomeIdle ELSE inner
          /\ UNCHANGED coord
       \/ /\ coord.inflight # g /\ coord.done # g
          /\ coord' = [coord EXCEPT !.inflight = g]
          /\ TearGo(x, "exec") /\ UNCHANGED inner
    /\ UNCHANGED <<stopFlag, active, cancelFlag, cancelPending, lifecycle, task, worker, live, calls, missed>>

\* The events a teardown ignores: of an earlier generation, of a session already idle, an
\* error after the remote end closed.
Stale(x) == inner.gen # tear[x].gen
NothingToDo(x) ==
    \/ inner.state = "Idle" /\ inner.session = 0 /\ inner.handles = {}
    \/ inner.state = "Disconnected" /\ tear[x].target = "Error"

\* Under inner: the state is set, the workers are told, session, runtime and handles taken.
TeardownTake(x) ==
    /\ tear[x].pc = "exec"
    /\ IF Stale(x) \/ NothingToDo(x)
       THEN /\ tear' = [tear EXCEPT ![x].pc = "finish", ![x].applied = ~Stale(x)]
            /\ UNCHANGED <<inner, stopFlag>>
       ELSE /\ tear' = [tear EXCEPT ![x].pc = "stop", ![x].applied = TRUE,
                                    ![x].sess = inner.session, ![x].joins = inner.handles \ {x}]
            /\ stopFlag' = stopFlag \cup {inner.gen}
            /\ inner' = [inner EXCEPT !.state = IF tear[x].target = "Idle" THEN @ ELSE tear[x].target,
                                      !.session = 0, !.runtime = 0, !.handles = {}]
    /\ UNCHANGED <<active, cancelFlag, cancelPending, lifecycle, coord, task, worker, live, calls, missed>>

\* Outside inner: disconnect the session, stop the runtime.
TeardownStop(x) ==
    /\ tear[x].pc = "stop"
    /\ live' = live \ {tear[x].sess}
    /\ \E failed \in BOOLEAN : tear' = [tear EXCEPT ![x].pc = "join", ![x].failed = failed]
    /\ UNCHANGED <<inner, stopFlag, active, cancelFlag, cancelPending, lifecycle, coord, task, worker, calls, missed>>

\* Every worker but the calling one has been joined.
TeardownJoin(x) ==
    /\ tear[x].pc = "join" /\ \A w \in tear[x].joins : worker[w] = "done"
    /\ inner' = IF tear[x].failed THEN [inner EXCEPT !.state = "Error"]
                ELSE IF tear[x].target = "Idle" THEN becomeIdle ELSE inner
    /\ TearGo(x, "finish")
    /\ UNCHANGED <<stopFlag, active, cancelFlag, cancelPending, lifecycle, coord, task, worker, live, calls, missed>>

\* The completion is recorded if the teardown applied.
TeardownFinish(x) ==
    /\ tear[x].pc = "finish"
    /\ coord' = [inflight |-> -1,
                 done |-> IF tear[x].applied THEN tear[x].gen ELSE coord.done,
                 failed |-> IF tear[x].applied THEN tear[x].failed ELSE coord.failed]
    /\ Leaves(x, tear[x].failed)
    /\ UNCHANGED <<inner, stopFlag, active, cancelFlag, cancelPending, lifecycle, task, worker, live, calls, missed>>

Teardown(x) ==
    TeardownEnter(x) \/ TeardownTake(x) \/ TeardownStop(x) \/ TeardownJoin(x) \/ TeardownFinish(x)

(***************************************************************************)
(* The commands.                                                           *)
(***************************************************************************)
TaskAt(t, p) == task[t].pc = p
TaskGoes(t, p) == task' = [task EXCEPT ![t].pc = p]
\* The command returns: the guard of active_connect and lifecycle_lock are dropped.
Return(t) ==
    /\ task' = [task EXCEPT ![t] = IdleTask]
    /\ lifecycle' = 0
    /\ active' = IF active = task[t].gen THEN 0 ELSE active
IsCancelled(t) == task[t].gen \in cancelFlag \/ cancelPending
SetError == inner' = [inner EXCEPT !.state = "Error"]

\* A new command is the first task that is free: their numbers mean nothing.
FreeTask(t) == TaskAt(t, "idle") /\ \A u \in Tasks : TaskAt(u, "idle") => t <= u

\* connect_async: a cancel that is pending refuses it.
CallMobileConnect(t) ==
    /\ FreeTask(t) /\ calls.commands < MaxCalls /\ calls.connects < MaxGen
    /\ calls' = [calls EXCEPT !.commands = @ + 1, !.connects = @ + 1]
    /\ cancelPending' = FALSE
    /\ IF cancelPending THEN UNCHANGED task
       ELSE task' = [task EXCEPT ![t] = [pc |-> "wait", cmd |-> "connect", gen |-> 0]]
    /\ UNCHANGED <<inner, stopFlag, active, cancelFlag, lifecycle, coord, tear, worker, live, missed>>

\* disconnect_async: cancel_active_connect in three steps, then the lock.
CallDisconnect(t) ==
    /\ FreeTask(t) /\ calls.commands < MaxCalls /\ calls' = [calls EXCEPT !.commands = @ + 1]
    /\ cancelPending' = TRUE
    /\ task' = [task EXCEPT ![t] = [pc |-> "cancel", cmd |-> "disconnect", gen |-> 0]]
    /\ UNCHANGED <<inner, stopFlag, active, cancelFlag, lifecycle, coord, tear, worker, live, missed>>

CancelActiveConnect(t) ==
    /\ \/ /\ TaskAt(t, "cancel")
          /\ cancelFlag' = cancelFlag \cup ({active} \ {0})
          /\ active' = 0
          /\ TaskGoes(t, "signal") /\ UNCHANGED stopFlag
       \/ /\ TaskAt(t, "signal")
          /\ stopFlag' = stopFlag \cup {inner.gen}
          /\ TaskGoes(t, "wait") /\ UNCHANGED <<cancelFlag, active>>
    /\ UNCHANGED <<inner, cancelPending, lifecycle, coord, tear, worker, live, calls, missed>>

LockLifecycle(t) ==
    /\ TaskAt(t, "wait") /\ lifecycle = 0
    /\ lifecycle' = t
    /\ TaskGoes(t, IF task[t].cmd = "connect" THEN "entry" ELSE "down")
    /\ UNCHANGED <<inner, stopFlag, active, cancelFlag, cancelPending, coord, tear, worker, live, calls, missed>>

\* connect_blocking before and after its disconnect_blocking: swap(false) of the pending cancel.
CheckPending(t) ==
    /\ task[t].pc \in {"entry", "check"}
    /\ cancelPending' = FALSE
    /\ IF cancelPending THEN Return(t)
       ELSE TaskGoes(t, IF TaskAt(t, "entry") THEN "down" ELSE "begin") /\ UNCHANGED <<lifecycle, active>>
    /\ UNCHANGED <<inner, stopFlag, cancelFlag, coord, tear, worker, live, calls, missed>>

\* disconnect_blocking, as the command or at the start of a connect.
DisconnectBlocking(t) ==
    /\ TaskAt(t, "down")
    /\ cancelPending' = FALSE
    /\ Calls(Task(t), inner.gen, "Idle")
    /\ TaskGoes(t, "tearing")
    /\ UNCHANGED <<inner, stopFlag, active, cancelFlag, lifecycle, coord, worker, live, calls, missed>>

\* The teardown a task called has returned.
TornDown(t) ==
    LET x == Task(t) IN
    /\ TaskAt(t, "tearing") /\ tear[x].pc = "returned"
    /\ tear' = [tear EXCEPT ![x] = NoTear]
    /\ IF task[t].cmd = "connect" /\ task[t].gen = 0 /\ ~tear[x].failed
       THEN TaskGoes(t, "check") /\ UNCHANGED <<lifecycle, active>>
       ELSE Return(t)
    /\ UNCHANGED <<inner, stopFlag, cancelFlag, cancelPending, coord, worker, live, calls, missed>>

BeginGeneration(t) ==
    /\ TaskAt(t, "begin")
    /\ inner' = [inner EXCEPT !.gen = @ + 1, !.state = "Connecting"]
    /\ missed' = (missed \/ inner.session # 0)
    /\ task' = [task EXCEPT ![t].pc = "register", ![t].gen = inner.gen + 1]
    /\ UNCHANGED <<stopFlag, active, cancelFlag, cancelPending, lifecycle, coord, tear, worker, live, calls>>

RegisterConnect(t) ==
    /\ TaskAt(t, "register")
    /\ active' = task[t].gen
    /\ TaskGoes(t, "dial")
    /\ UNCHANGED <<inner, stopFlag, cancelFlag, cancelPending, lifecycle, coord, tear, worker, live, calls, missed>>

\* The stored record, the ClientSession and its pairing or handshake, or an error.
MobileDial(t) ==
    /\ TaskAt(t, "dial")
    /\ \/ IsCancelled(t) /\ Return(t) /\ UNCHANGED <<inner, live>>
       \/ ~IsCancelled(t) /\ SetError /\ Return(t) /\ UNCHANGED live
       \/ /\ live' = live \cup {task[t].gen}
          /\ TaskGoes(t, "connected") /\ UNCHANGED <<inner, lifecycle, active>>
    /\ UNCHANGED <<stopFlag, cancelFlag, cancelPending, coord, tear, worker, calls, missed>>

\* Mutant: a cancel that comes late returns without disconnecting.
ConnectedLeavesSession(t) ==
    /\ TaskAt(t, "connected")
    /\ \/ IsCancelled(t) /\ Return(t)
       \/ ~IsCancelled(t) /\ TaskGoes(t, "install") /\ UNCHANGED <<lifecycle, active>>
    /\ UNCHANGED <<inner, live, cancelPending, tear, stopFlag, cancelFlag, coord, worker, calls, missed>>

\* A connected session is given up: a late cancel, or the store cannot remember the endpoint.
Connected(t) ==
    /\ TaskAt(t, "connected")
    /\ \/ /\ IsCancelled(t)
          /\ live' = live \ {task[t].gen} /\ Return(t)
          /\ UNCHANGED <<inner, cancelPending, tear>>
       \/ /\ ~IsCancelled(t)
          /\ live' = live \ {task[t].gen} /\ SetError
          /\ cancelPending' = FALSE
          /\ Calls(Task(t), inner.gen, "Idle") /\ TaskGoes(t, "tearing")
          /\ UNCHANGED <<lifecycle, active>>
       \/ /\ ~IsCancelled(t) /\ TaskGoes(t, "install")
          /\ UNCHANGED <<inner, live, cancelPending, tear, lifecycle, active>>
    /\ UNCHANGED <<stopFlag, cancelFlag, coord, worker, calls, missed>>

\* spawn_tcp_runtime, then the session becomes the current one.
Install(t) ==
    /\ TaskAt(t, "install")
    /\ \/ ~IsCancelled(t) /\ SetError /\ live' = live \ {task[t].gen} /\ Return(t)
       \/ IsCancelled(t) /\ live' = live \ {task[t].gen} /\ Return(t) /\ UNCHANGED inner
       \/ /\ ~IsCancelled(t)
          /\ inner' = [inner EXCEPT !.state = "Ready", !.session = task[t].gen, !.runtime = task[t].gen]
          /\ live' = live \ ({inner.runtime} \ {0})    \* a runtime left there stops when dropped
          /\ TaskGoes(t, "sup") /\ UNCHANGED <<lifecycle, active>>
    /\ UNCHANGED <<stopFlag, cancelFlag, cancelPending, coord, tear, worker, calls, missed>>

AfterPush == [sup |-> "aud", aud |-> "init", med |-> "final"]
Pushing == [sup |-> "push sup", aud |-> "push aud", med |-> "push med"]

\* thread::Builder::spawn of the next worker; a failure tears the session down.
SpawnWorker(t, k) ==
    /\ TaskAt(t, k)
    /\ \/ /\ worker' = [worker EXCEPT ![<<k, task[t].gen>>] = "run"]
          /\ TaskGoes(t, Pushing[k]) /\ UNCHANGED tear
       \/ /\ Calls(Task(t), task[t].gen, "Error") /\ TaskGoes(t, "tearing")
          /\ UNCHANGED worker
    /\ UNCHANGED <<inner, stopFlag, active, cancelFlag, cancelPending, lifecycle, coord, live, calls, missed>>

PushHandle(t, k) ==
    /\ TaskAt(t, Pushing[k])
    /\ inner' = [inner EXCEPT !.handles = @ \cup {<<k, task[t].gen>>}]
    /\ TaskGoes(t, AfterPush[k])
    /\ UNCHANGED <<stopFlag, active, cancelFlag, cancelPending, lifecycle, coord, tear, worker, live, calls, missed>>

\* The audio worker reports that its output started, that it did not, or not in time.
AudioInitialised(t) ==
    LET aud == <<"aud", task[t].gen>> IN
    /\ TaskAt(t, "init")
    /\ \/ TaskGoes(t, "med") /\ UNCHANGED <<tear, worker>>
       \/ /\ Calls(Task(t), task[t].gen, "Error") /\ TaskGoes(t, "tearing")
          /\ worker' \in {worker, [worker EXCEPT ![aud] = IF @ = "run" THEN "done" ELSE @]}
    /\ UNCHANGED <<inner, stopFlag, active, cancelFlag, cancelPending, lifecycle, coord, live, calls, missed>>

ConnectReturns(t) ==
    /\ TaskAt(t, "final") /\ Return(t)
    /\ UNCHANGED <<inner, stopFlag, cancelFlag, cancelPending, coord, tear, worker, live, calls, missed>>

MobileCommand(t) ==
    \/ CancelActiveConnect(t) \/ CheckPending(t) \/ DisconnectBlocking(t) \/ TornDown(t)
    \/ BeginGeneration(t) \/ RegisterConnect(t) \/ MobileDial(t) \/ Connected(t) \/ Install(t)
    \/ \E k \in {"sup", "aud", "med"} : SpawnWorker(t, k) \/ PushHandle(t, k)
    \/ AudioInitialised(t) \/ ConnectReturns(t)

(***************************************************************************)
(* The workers.                                                            *)
(***************************************************************************)
\* The loop sees stop_flag; the media worker also ends when the session is not ready.
WorkerStops(w) ==
    /\ worker[w] = "run" /\ (w[2] \in stopFlag \/ (w[1] = "med" /\ w[2] \notin live))
    /\ worker' = [worker EXCEPT ![w] = "done"]
    /\ UNCHANGED <<inner, stopFlag, active, cancelFlag, cancelPending, lifecycle, coord, task, tear, live, calls, missed>>

\* A terminal event: the runtime's error or end, an audio error, a dead receiver or decoder.
WorkerFails(w) ==
    /\ calls.faults < MaxFaults /\ calls' = [calls EXCEPT !.faults = @ + 1]
    /\ worker[w] = "run" /\ (w[1] = "aud" \/ w[2] \notin stopFlag)
    /\ worker' = [worker EXCEPT ![w] = "tear"]
    /\ Calls(w, w[2], IF w[1] = "sup" THEN "Disconnected" ELSE "Error")
    /\ UNCHANGED <<inner, stopFlag, active, cancelFlag, cancelPending, lifecycle, coord, task, live, missed>>

WorkerTornDown(w) ==
    /\ worker[w] = "tear" /\ tear[w].pc = "returned"
    /\ worker' = [worker EXCEPT ![w] = "done"]
    /\ tear' = [tear EXCEPT ![w] = NoTear]
    /\ UNCHANGED <<inner, stopFlag, active, cancelFlag, cancelPending, lifecycle, coord, task, live, calls, missed>>

MobileNext ==
    \/ \E t \in Tasks : CallMobileConnect(t) \/ CallDisconnect(t) \/ LockLifecycle(t) \/ MobileCommand(t)
    \/ \E x \in Threads : Teardown(x)
    \/ \E w \in Workers : WorkerStops(w) \/ WorkerFails(w) \/ WorkerTornDown(w)

\* Threads run, calls on the network time out, a worker polls its stop flag every 50 ms, and
\* tokio's mutex is fair.
MobileThread(x) ==
    \/ Teardown(x)
    \/ x[1] = "task" /\ MobileCommand(x[2])
    \/ x[1] # "task" /\ (WorkerStops(x) \/ WorkerTornDown(x))

MobileFairness ==
    /\ \A x \in Threads : WF_mobileVars(MobileThread(x))
    /\ \A t \in Tasks : SF_mobileVars(LockLifecycle(t))

MobileSpec == MobileInit /\ [][MobileNext]_mobileVars /\ MobileFairness

(***************************************************************************)
(* Properties.                                                             *)
(***************************************************************************)
TearingDown(g) == \E x \in Threads : tear[x].gen = g /\ tear[x].pc \in {"stop", "join"}

\* A connection shown as ready is there, unless it is being torn down.
ReadyIsLive ==
    inner.state = "Ready" /\ ~TearingDown(inner.gen) =>
        inner.session = inner.gen /\ inner.runtime = inner.gen /\ inner.gen \in live

\* Every connected session is held by the state as the current one, by the connect that made
\* it or by a teardown.
SessionAccounted ==
    \A g \in live :
        \/ inner.session = g /\ inner.gen = g
        \/ \E t \in Tasks : task[t].gen = g /\ task[t].pc \in {"connected", "install"}
        \/ TearingDown(g)

\* Once idle, nothing of an earlier connection goes on that was not told to stop.
IdleIsQuiet ==
    inner.state = "Idle" =>
        inner.session = 0 /\ \A w \in Workers : worker[w] = "run" => w[2] \in stopFlag

\* The iOS shell is safe whatever the order of commands, cancels and dying workers: a late
\* teardown never touches a newer connection (execute_teardown), no connected session is
\* forgotten on an early return of connect_blocking, and idle means idle; as long as no
\* connection began beside one whose teardown another thread had claimed.
MobileShellSafe == MobileTypeOK /\ (~missed => ReadyIsLive /\ SessionAccounted /\ IdleIsQuiet)

\* Every command returns: no teardown waits for a thread that waits for it
\* (handle_terminal_shutdown, "a circular deadlock").  A session left to a stale teardown is
\* the exception: the audio worker of that session is then never told to stop.
MobileCommandsReturn == \A t \in Tasks : (task[t].pc # "idle") ~> (task[t].pc = "idle" \/ missed)
================================================================================
