--------------------------- MODULE WindowsService ---------------------------
(***************************************************************************)
(* The Windows service of the host (maho-host service_windows,             *)
(* windows_session and the worker's part of main): a supervisor in session *)
(* 0 keeps one worker process on the desktop that has the input.  It       *)
(* learns that desktop only from a file the worker writes, and it knows    *)
(* its workers only in memory and by a marker file for each.  The console  *)
(* switches, workers die or give up, calls fail, and the service crashes   *)
(* and is started again between any two of its steps.                      *)
(***************************************************************************)
EXTENDS Integers, Sequences, FiniteSets

CONSTANTS ConsoleSessions, \* the sessions that may be attached to the console
          Desktops,        \* the desktops that may have the input; "Winlogon" is the secure one
          MaxWorkers,      \* processes the supervisor creates
          MaxSwitches, MaxStops, MaxMishapsW

ASSUME WindowsServiceAssumption ==
    /\ "Winlogon" \in Desktops /\ 0 \notin ConsoleSessions /\ ConsoleSessions # {}
    /\ MaxWorkers \in Nat

NoSession == 0
NoHint == "none"
NoWorkerHandle == [pid |-> 0, session |-> NoSession, desktop |-> NoHint]
Dead == [phase |-> "dead", session |-> NoSession, desktop |-> NoHint, view |-> NoHint]

VARIABLES
    console,  \* [session, desktop]: the session on the console and the desktop with its input
    hint,     \* input-desktop.txt
    service,  \* [installed, state, stop, worker (WorkerHandle), step, plan, created]
    procs,    \* the worker processes, by pid
    markers,  \* the pids with a file in the workers directory
    escaped,  \* pids of live workers no supervisor will ever find again
    used      \* bounds: [switches, stops (crashes too), mishaps]

serviceVars == <<console, hint, service, procs, markers, escaped, used>>

Alive(pid) == pid \in DOMAIN procs /\ procs[pid].phase # "dead"
LivePids == {p \in DOMAIN procs : Alive(p)}
Kill(pids) == [p \in DOMAIN procs |-> IF p \in pids THEN Dead ELSE procs[p]]

\* A hint file of an earlier run may be there.
ServiceInit ==
    /\ console = [session |-> CHOOSE s \in ConsoleSessions : TRUE, desktop |-> "Winlogon"]
    /\ hint \in {NoHint} \cup Desktops
    /\ service = [installed |-> FALSE, state |-> "stopped", stop |-> FALSE, worker |-> NoWorkerHandle, step |-> "none", plan |-> NoWorkerHandle, created |-> 0]
    /\ procs = <<>>
    /\ markers = {} /\ escaped = {}
    /\ used = [switches |-> 0, stops |-> 0, mishaps |-> 0]

ServiceAt(step) == service.state = "running" /\ service.step = step
AtStop(step) == service.state \in {"running", "ending"} /\ service.step = step
Mishap == used.mishaps < MaxMishapsW /\ used' = [used EXCEPT !.mishaps = @ + 1]
NoMishap == UNCHANGED used
Stops == used.stops < MaxStops /\ used' = [used EXCEPT !.stops = @ + 1]

(***************************************************************************)
(* The console and the service control manager.                            *)
(***************************************************************************)
ConsoleSwitches ==
    /\ used.switches < MaxSwitches
    /\ used' = [used EXCEPT !.switches = @ + 1]
    /\ console' \in [session : ConsoleSessions \cup {NoSession}, desktop : Desktops] \ {console}
    /\ UNCHANGED <<hint, service, procs, markers, escaped>>

\* install: a service that exists is given the new command line and started; one that is still
\* being deleted refuses.
InstallService ==
    /\ service.state = "stopped"
    /\ service' = [service EXCEPT !.installed = TRUE, !.state = "starting"]
    /\ UNCHANGED <<console, hint, procs, markers, escaped, used>>

\* uninstall: the stop control, then the deletion.
Uninstall ==
    /\ service.installed /\ service.state \in {"running", "stopped"}
    /\ service' = [service EXCEPT !.installed = FALSE, !.stop = @ \/ service.state = "running"]
    /\ Stops
    /\ UNCHANGED <<console, hint, procs, markers, escaped>>

\* control_handler, stop.
StopControl ==
    /\ service.state = "running" /\ ~ service.stop
    /\ service' = [service EXCEPT !.stop = TRUE]
    /\ Stops
    /\ UNCHANGED <<console, hint, procs, markers, escaped>>

\* The service process dies: what it knew is gone, the workers and the files stay.
ServiceCrashes ==
    /\ service.state \in {"running", "ending"} /\ Stops
    /\ service' = [service EXCEPT !.state = IF service.installed THEN "crashed" ELSE "stopped", !.worker = NoWorkerHandle, !.plan = NoWorkerHandle, !.created = 0, !.step = "none", !.stop = FALSE]
    /\ escaped' = escaped \cup (LivePids \ markers)
    /\ UNCHANGED <<console, hint, procs, markers>>

\* apply_failure_actions: the service control manager starts it again.
ScmRestarts ==
    /\ service.state = "crashed"
    /\ service' = [service EXCEPT !.state = "starting"]
    /\ UNCHANGED <<console, hint, procs, markers, escaped, used>>

(***************************************************************************)
(* service_main.                                                           *)
(***************************************************************************)
\* The workers a starting service clears: running and with a marker.
Reapable == LivePids \cap markers

\* Mutant: what an earlier instance left is not cleared.
ReapNothing(pids) == {}

\* reap_previous_workers: those of the given processes that are cleared.
Reap(pids) == pids \cap Reapable

\* The start of service_main; a process that cannot be opened is skipped.
StartService(skips) ==
    LET gone == Reap(IF skips THEN {} ELSE LivePids) IN
    /\ service.state = "starting"
    /\ IF skips THEN Reapable # {} /\ Mishap ELSE NoMishap
    /\ procs' = Kill(gone)
    /\ markers' = markers \ gone
    /\ escaped' = IF skips THEN escaped \cup Reapable ELSE escaped
    /\ service' = [service EXCEPT !.state = "running", !.step = "tick", !.stop = FALSE]
    /\ UNCHANGED <<console, hint>>

\* console_desktop_from_hint: no hint means the secure desktop.
ConsoleDesktop == IF hint = NoHint THEN "Winlogon" ELSE hint

\* Mutant: a worker of the right session is good enough.
DecideActionBySession(session, desktop, worker) ==
    CASE session = NoSession -> "stop"
      [] session # NoSession /\ worker = NoWorkerHandle -> "spawn"
      [] worker # NoWorkerHandle /\ worker.session = session -> "idle"
      [] OTHER -> "respawn"

\* decide_action.
DecideAction(session, desktop, worker) ==
    CASE session = NoSession -> "stop"
      [] session # NoSession /\ worker = NoWorkerHandle -> "spawn"
      [] worker # NoWorkerHandle /\ worker.session = session /\ worker.desktop = desktop -> "idle"
      [] OTHER -> "respawn"

\* One tick of supervise: the worker in hand, the console and the hint; a dead worker is
\* noticed only when there is nothing else to do.
Supervise ==
    LET action == DecideAction(console.session, ConsoleDesktop, service.worker)
        plan == [pid |-> 0, session |-> console.session, desktop |-> ConsoleDesktop]
        held == service.worker # NoWorkerHandle
    IN /\ ServiceAt("tick") /\ ~ service.stop
       /\ service' =
            CASE action = "idle" -> [service EXCEPT !.worker = IF Alive(@.pid) THEN @ ELSE NoWorkerHandle, !.step = "sleep"]
              [] action = "spawn" -> [service EXCEPT !.plan = plan, !.step = "spawn"]
              [] action = "respawn" -> [service EXCEPT !.plan = plan, !.step = "forget"]
              [] action = "stop" -> [service EXCEPT !.plan = NoWorkerHandle, !.step = IF held THEN "forget" ELSE "sleep"]
       /\ UNCHANGED <<console, hint, procs, markers, escaped, used>>

Sleep ==
    /\ ServiceAt("sleep")
    /\ service' = [service EXCEPT !.step = "tick"]
    /\ UNCHANGED <<console, hint, procs, markers, escaped, used>>

\* stop_session_worker: the marker goes first, then the process.
ForgetWorker ==
    /\ AtStop("forget")
    /\ markers' = markers \ {service.worker.pid}
    /\ service' = [service EXCEPT !.step = "terminate"]
    /\ UNCHANGED <<console, hint, procs, escaped, used>>

\* TerminateProcess; a failure matters only while the worker lives, and then it is kept.
StopWorker(fails) ==
    LET after == IF service.state = "ending" THEN "stopping" ELSE "sleep" IN
    /\ AtStop("terminate")
    /\ IF fails THEN Alive(service.worker.pid) /\ Mishap ELSE NoMishap
    /\ procs' = IF fails THEN procs ELSE Kill({service.worker.pid})
    /\ service' = IF fails THEN [service EXCEPT !.step = after, !.plan = NoWorkerHandle]
                  ELSE [service EXCEPT !.worker = NoWorkerHandle, !.step = IF service.plan # NoWorkerHandle THEN "spawn" ELSE after]
    /\ UNCHANGED <<console, hint, markers, escaped>>

\* spawn_session_worker up to CreateProcessAsUserW.
LaunchWorker(fails) ==
    /\ ServiceAt("spawn")
    /\ IF fails
       THEN /\ Mishap
            /\ service' = [service EXCEPT !.step = "sleep", !.plan = NoWorkerHandle]
            /\ UNCHANGED procs
       ELSE /\ Len(procs) < MaxWorkers /\ NoMishap
            /\ procs' = Append(procs, [phase |-> "started", session |-> service.plan.session, desktop |-> service.plan.desktop, view |-> NoHint])
            /\ service' = [service EXCEPT !.step = "record", !.created = Len(procs) + 1]
    /\ UNCHANGED <<console, hint, markers, escaped>>

\* record_worker, and the handle.
RecordWorker ==
    /\ ServiceAt("record")
    /\ markers' = markers \cup {service.created}
    /\ service' = [service EXCEPT !.worker = [service.plan EXCEPT !.pid = service.created], !.plan = NoWorkerHandle, !.created = 0, !.step = "sleep"]
    /\ UNCHANGED <<console, hint, procs, escaped, used>>

\* The end of service_main: the worker is stopped, and if that fails it is left behind.
EndService ==
    /\ \/ /\ ServiceAt("tick") /\ service.stop /\ service.worker # NoWorkerHandle
          /\ service' = [service EXCEPT !.state = "ending", !.step = "forget", !.plan = NoWorkerHandle]
          /\ UNCHANGED escaped
       \/ /\ AtStop("stopping") \/ (ServiceAt("tick") /\ service.stop /\ service.worker = NoWorkerHandle)
          /\ service' = [service EXCEPT !.state = "stopped", !.step = "none", !.worker = NoWorkerHandle]
          /\ escaped' = escaped \cup (LivePids \ markers)
    /\ UNCHANGED <<console, hint, procs, markers, used>>

(***************************************************************************)
(* The worker process.                                                     *)
(***************************************************************************)
Become(pid, phase) == procs' = [procs EXCEPT ![pid].phase = phase]

\* current_input_desktop_name: what this worker sees; off the console it sees no input desktop.
SeesDesktop(pid) == IF procs[pid].session = console.session THEN console.desktop ELSE "Winlogon"
ReadDesktop(pid) ==
    /\ Alive(pid) /\ procs[pid].view # SeesDesktop(pid)
    /\ procs' = [procs EXCEPT ![pid].view = SeesDesktop(pid)]
    /\ UNCHANGED <<console, hint, service, markers, escaped, used>>

\* write_input_desktop: the file is replaced as a whole.
WriteHint(pid) ==
    /\ Alive(pid) /\ procs[pid].view # NoHint /\ hint # procs[pid].view
    /\ hint' = procs[pid].view
    /\ UNCHANGED <<console, service, procs, markers, escaped, used>>

\* windows_default_blocking: the worker waits for an output, and gives up in the end.
WaitForOutput(pid) ==
    /\ Alive(pid) /\ procs[pid].phase = "started" /\ procs[pid].view # NoHint
    /\ \/ Become(pid, "ready") /\ NoMishap
       \/ Mishap /\ procs' = Kill({pid})
    /\ UNCHANGED <<console, hint, service, markers, escaped>>

\* HostServer::bind: the ports may be taken by another worker.
BindServer(pid) ==
    /\ Alive(pid) /\ procs[pid].phase = "ready"
    /\ IF \E q \in LivePids \ {pid} : procs[q].phase = "serving" THEN procs' = Kill({pid}) ELSE Become(pid, "serving")
    /\ UNCHANGED <<console, hint, service, markers, escaped, used>>

\* worker_should_recycle, or a crash of the worker.
WorkerExits(pid) ==
    /\ Alive(pid) /\ Mishap
    /\ procs' = Kill({pid})
    /\ UNCHANGED <<console, hint, service, markers, escaped>>

ServiceSteps ==
    \/ Supervise \/ Sleep \/ ForgetWorker \/ RecordWorker \/ EndService \/ ScmRestarts
    \/ \E b \in BOOLEAN : StartService(b) \/ StopWorker(b) \/ LaunchWorker(b)
WorkerSteps(pid) == ReadDesktop(pid) \/ WriteHint(pid) \/ WaitForOutput(pid) \/ BindServer(pid)

ServiceNext ==
    \/ ConsoleSwitches \/ InstallService \/ Uninstall \/ StopControl \/ ServiceCrashes
    \/ ServiceSteps
    \/ \E pid \in DOMAIN procs : WorkerSteps(pid) \/ WorkerExits(pid)

\* The supervisor's loop runs every second, the service control manager restarts what crashed,
\* a worker's threads run; a console that keeps switching and calls that keep failing are
\* bounded.
WorkerThread(pid, publishes) ==
    /\ pid \in DOMAIN procs
    /\ IF publishes THEN ReadDesktop(pid) \/ WriteHint(pid) ELSE WaitForOutput(pid) \/ BindServer(pid)

ServiceFairness ==
    /\ WF_serviceVars(ServiceSteps)
    /\ \A pid \in 1..MaxWorkers : \A publishes \in BOOLEAN :
         WF_serviceVars(WorkerThread(pid, publishes))

ServiceSpec == ServiceInit /\ [][ServiceNext]_serviceVars /\ ServiceFairness

(***************************************************************************)
(* Properties.                                                             *)
(***************************************************************************)
\* While a supervisor runs, every worker that lives is the one it holds, the one it is creating,
\* or one that escaped every supervisor; a worker it holds and is not stopping could be cleared
\* by the next instance unless a failed stop took its marker.
WindowsServiceSafe ==
    /\ service.state \in {"running", "ending"} => LivePids \subseteq {service.worker.pid, service.created} \cup escaped
    /\ (service.state \in {"crashed", "starting"}) => LivePids \subseteq markers \cup escaped

Follows ==
    \/ service.state # "running" \/ service.stop \/ console.session = NoSession
    \/ escaped # {}
    \/ /\ Alive(service.worker.pid) /\ procs[service.worker.pid].phase = "serving"
       /\ service.worker.session = console.session /\ service.worker.desktop = console.desktop

\* Once the console stays where it is, a worker serves on the desktop that has the input: the
\* hint that only a worker can correct, the workers that die and the supervisor that restarts
\* do not keep each other from getting there.
WorkerFollowsConsole == <>[]Follows
=============================================================================
