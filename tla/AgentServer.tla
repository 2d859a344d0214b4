------------------------------ MODULE AgentServer ------------------------------
(***************************************************************************)
(* The agent HTTP server: maho-app/src/agent_server.rs with the tracker of *)
(* agent_input.rs.  Each connection is a task that serves one request;     *)
(* input is sent by blocking jobs that own the tracker's lock and one of   *)
(* the MaxWork permits, and outlive a task that gave up or was aborted.    *)
(* The watchdog task releases what was held too long; run() accepts, and   *)
(* on a disconnect or a shutdown closes the gate, aborts the tasks, drains *)
(* the jobs and stops the backend.                                         *)
(*                                                                         *)
(* A key or a button is an item; an event the backend refuses does not     *)
(* reach the host.                                                         *)
(***************************************************************************)
EXTENDS Naturals, Sequences, FiniteSets

CONSTANTS
    Requests,        \* connections (each carries one request)
    Items,           \* keys and buttons
    MaxWork          \* MAX_WORK: permits for blocking jobs

ASSUME AgentAssumption == MaxWork \in Nat \ {0} /\ IsFiniteSet(Requests) /\ "none" \notin Requests

VARIABLES
    server,       \* run(): "serving", "draining", "stopping", "ended", "failed"
    inputClosed,  \* ConnectionWork::input_closed
    finished,         \* the done watch: a disconnect was answered
    req,          \* each connection's task: at and kind of request
    jobs,         \* requests whose blocking job holds a permit
    shot,         \* the screenshot permit is taken
    lock,         \* the request that owns the tracker's lock, or "none"
    job,          \* the input job under that lock: actions and events left, downs sent
    tracker,      \* InputStateTracker: items believed held
    hostHeld,     \* items the host holds down
    shut          \* history: released (a disconnect released everything), stops (of the backend),
                  \*          spilled (an event was sent after the backend's stop)

agentVars == <<server, inputClosed, finished, req, jobs, shot, lock, job, tracker, hostHeld, shut>>

NoJob == [acts |-> <<>>, evs |-> <<>>, downs |-> {}]
Kinds == {"input", "reset", "disconnect", "screen", "screenshot"}
Act(k, i) == [kind |-> k, item |-> i]
AgentActions == {Act(k, i) : k \in {"down", "up", "press", "drag", "releaseAll"}, i \in Items}
\* Bodies of /input/action and /input/batch: one or two actions.
Batches == {<<a>> : a \in AgentActions} \cup
           {<<Act("down", i), b>> : i \in Items, b \in AgentActions}

AgentTypeOK ==
    /\ server \in {"serving", "draining", "stopping", "ended", "failed"}
    /\ inputClosed \in BOOLEAN /\ finished \in BOOLEAN /\ shot \in BOOLEAN
    /\ req \in [Requests -> [at: {"none", "waiting", "running", "answering", "over"},
                             kind: Kinds \cup {"none"}]]
    /\ jobs \subseteq Requests /\ Cardinality(jobs) <= MaxWork
    /\ lock \in Requests \cup {"none"}
    /\ tracker \subseteq Items /\ hostHeld \subseteq Items

AgentInit ==
    /\ server = "serving" /\ inputClosed = FALSE /\ finished = FALSE
    /\ req = [r \in Requests |-> [at |-> "none", kind |-> "none"]]
    /\ jobs = {} /\ shot = FALSE /\ lock = "none" /\ job = NoJob
    /\ tracker = {} /\ hostHeld = {}
    /\ shut = [released |-> FALSE, stops |-> 0, spilled |-> FALSE]

ReqAt(r, p) == req' = [req EXCEPT ![r].at = p]
PermitFree == Cardinality(jobs) < MaxWork

(***************************************************************************)
(* agent_input.rs: the events of an action and what the tracker records.   *)
(***************************************************************************)
Down(i) == [type |-> "down", item |-> i]
Up(i) == [type |-> "up", item |-> i]
Reset == [type |-> "reset", item |-> CHOOSE i \in Items : TRUE]
SomeOrder(S) == CHOOSE s \in [1 .. Cardinality(S) -> S] : \A i \in S : \E n \in DOMAIN s : s[n] = i

\* A click, a key press, a hotkey, a typed character: down and up at once, untracked.
PressEvents(i) == <<Down(i), Up(i)>>

ConvertAgentAction(a) ==
    CASE a.kind = "down" -> <<Down(a.item)>>
      [] a.kind = "up" -> <<Up(a.item)>>
      [] a.kind \in {"press", "drag"} -> PressEvents(a.item)
      [] a.kind = "releaseAll" ->
           LET order == SomeOrder(tracker) IN
           Append([n \in DOMAIN order |-> Up(order[n])], Reset)

TrackerAfter(a) ==
    CASE a.kind = "down" -> tracker \cup {a.item}
      [] a.kind \in {"up", "drag"} -> tracker \ {a.item}
      [] a.kind = "press" -> tracker
      [] a.kind = "releaseAll" -> {}

\* What the host holds after an event that reached it.
Held(held, e) ==
    CASE e.type = "down" -> held \cup {e.item}
      [] e.type = "up" -> held \ {e.item}
      [] e.type = "reset" -> {}

\* release_inputs: an up for everything recorded, then a Reset, each of which may fail; only
\* a Reset that was sent lets the tracker forget.
ReleaseInputs(recorded, ok) ==
    \E ups \in SUBSET recorded, reset \in BOOLEAN :
        /\ hostHeld' = IF reset THEN {} ELSE hostHeld \ ups
        /\ tracker' = IF reset THEN {} ELSE recorded
        /\ ok = (reset /\ ups = recorded)

Sends(n) == shut' = [shut EXCEPT !.spilled = @ \/ (n > 0 /\ shut.stops > 0)]

(***************************************************************************)
(* Connections.                                                            *)
(***************************************************************************)
\* The accept loop and read_request; health, bad requests and missing tokens change nothing.
Accept(r, kind) ==
    /\ server = "serving" /\ ~finished /\ req[r].at = "none"
    /\ kind = "screenshot" => ~shot          \* else 429
    /\ req' = [req EXCEPT ![r] = [at |-> "waiting", kind |-> kind]]
    /\ shot' = (shot \/ kind = "screenshot")
    /\ UNCHANGED <<server, inputClosed, finished, jobs, lock, job, tracker, hostHeld, shut>>

\* screen/info and the screenshot: a job that needs no lock.
StartScreen(r) ==
    /\ req[r].at = "waiting" /\ req[r].kind \in {"screen", "screenshot"} /\ PermitFree
    /\ jobs' = jobs \cup {r}
    /\ ReqAt(r, "running")
    /\ UNCHANGED <<server, inputClosed, finished, shot, lock, job, tracker, hostHeld, shut>>

EndScreen(r) ==
    /\ r \in jobs /\ req[r].kind \in {"screen", "screenshot"}
    /\ jobs' = jobs \ {r}
    /\ shot' = (shot /\ req[r].kind # "screenshot")
    /\ req' = IF req[r].at = "running" THEN [req EXCEPT ![r].at = "over"] ELSE req
    /\ UNCHANGED <<server, inputClosed, finished, lock, job, tracker, hostHeld, shut>>

\* Mutant: the gate is only looked at before the wait.
TakeTrackerUnchecked(r) ==
    /\ req[r].at = "waiting" /\ req[r].kind \in {"input", "reset"} /\ lock = "none"
    /\ PermitFree
    /\ lock' = r /\ jobs' = jobs \cup {r} /\ ReqAt(r, "running")
    /\ \E b \in IF req[r].kind = "input" THEN Batches ELSE {<<>>} :
          job' = [NoJob EXCEPT !.acts = b]
    /\ UNCHANGED <<server, inputClosed, finished, shot, tracker, hostHeld, shut>>

\* Input and reset look at the gate, wait for the tracker, and look at it again.
TakeTracker(r) ==
    /\ req[r].at = "waiting" /\ req[r].kind \in {"input", "reset"} /\ lock = "none"
    /\ \/ /\ inputClosed
          /\ ReqAt(r, "over") /\ UNCHANGED <<lock, jobs, job>>
       \/ /\ ~inputClosed /\ PermitFree
          /\ lock' = r /\ jobs' = jobs \cup {r} /\ ReqAt(r, "running")
          /\ \E b \in IF req[r].kind = "input" THEN Batches ELSE {<<>>} :
                job' = [NoJob EXCEPT !.acts = b]
    /\ UNCHANGED <<server, inputClosed, finished, shot, tracker, hostHeld, shut>>

\* The job ends: guard and permit are dropped, the task answers if it still waits.
JobEnds ==
    /\ jobs' = jobs \ {lock} /\ lock' = "none" /\ job' = NoJob
    /\ req' = IF req[lock].at = "running" THEN [req EXCEPT ![lock].at = "over"] ELSE req

InputRuns == lock \in Requests /\ req[lock].kind = "input"

\* The next action is converted, or the batch ends (with 400 if it cannot be converted).
NextAction ==
    /\ InputRuns /\ job.evs = <<>>
    /\ \/ /\ job.acts # <<>>
          /\ tracker' = TrackerAfter(Head(job.acts))
          /\ job' = [job EXCEPT !.acts = Tail(@), !.evs = ConvertAgentAction(Head(job.acts))]
          /\ UNCHANGED <<jobs, lock, req>>
       \/ JobEnds /\ UNCHANGED tracker
    /\ UNCHANGED <<server, inputClosed, finished, shot, hostHeld, shut>>

\* One event; a refused one rolls back: downs are recorded again and everything released.
SendEvent ==
    /\ InputRuns /\ job.evs # <<>>
    /\ Sends(1)
    /\ LET e == Head(job.evs) IN
       \/ /\ hostHeld' = Held(hostHeld, e)
          /\ job' = [job EXCEPT !.evs = Tail(@), !.downs = Held(@, e)]
          /\ UNCHANGED <<tracker, jobs, lock, req>>
       \/ /\ \E ok \in BOOLEAN : ReleaseInputs(tracker \cup job.downs, ok)
          /\ JobEnds
    /\ UNCHANGED <<server, inputClosed, finished, shot>>

\* /input/reset.
ResetInput ==
    /\ lock \in Requests /\ req[lock].kind = "reset"
    /\ \E ok \in BOOLEAN : ReleaseInputs(tracker, ok)
    /\ Sends(1)
    /\ JobEnds
    /\ UNCHANGED <<server, inputClosed, finished, shot>>

\* WORK_TIMEOUT: the task gives up; its job, if it runs, keeps guard and permit.
GivesUp(r) ==
    /\ req[r].at \in {"waiting", "running"}
    /\ ReqAt(r, "over")
    /\ shot' = (shot /\ ~(req[r].kind = "screenshot" /\ req[r].at = "waiting"))
    /\ UNCHANGED <<server, inputClosed, finished, jobs, lock, job, tracker, hostHeld, shut>>

(***************************************************************************)
(* /session/disconnect: one at a time, and the gate before the wait.       *)
(***************************************************************************)
DisconnectLocked == \E r \in Requests : req[r].kind = "disconnect" /\ req[r].at \in {"running", "answering"}

BeginDisconnect(r) ==
    /\ req[r].at = "waiting" /\ req[r].kind = "disconnect"
    /\ IF DisconnectLocked \/ finished
       THEN ReqAt(r, "over") /\ UNCHANGED inputClosed
       ELSE ReqAt(r, "running") /\ inputClosed' = TRUE
    /\ UNCHANGED <<server, finished, jobs, shot, lock, job, tracker, hostHeld, shut>>

DisconnectReleases(r) ==
    /\ req[r].at = "running" /\ req[r].kind = "disconnect" /\ lock = "none" /\ PermitFree
    /\ \E ok \in BOOLEAN :
          /\ ReleaseInputs(tracker, ok)
          /\ shut' = [shut EXCEPT !.released = @ \/ ok,
                                  !.spilled = @ \/ shut.stops > 0]
    /\ ReqAt(r, "answering")
    /\ UNCHANGED <<server, inputClosed, finished, jobs, shot, lock, job>>

\* The answer; a write that fails after an error returns before done is set.
DisconnectAnswered(r) ==
    /\ req[r].at = "answering"
    /\ ReqAt(r, "over")
    /\ \/ finished' = TRUE
       \/ ~shut.released /\ UNCHANGED finished
    /\ UNCHANGED <<server, inputClosed, jobs, shot, lock, job, tracker, hostHeld, shut>>

(***************************************************************************)
(* The watchdog and run().                                                 *)
(***************************************************************************)
\* Held for longer than the timeout: released under the lock, retried if that failed.
WatchdogReleases ==
    /\ server = "serving" /\ lock = "none" /\ tracker # {}
    /\ \E ok \in BOOLEAN : ReleaseInputs(tracker, ok)
    /\ Sends(1)
    /\ UNCHANGED <<server, inputClosed, finished, req, jobs, shot, lock, job>>

\* done, or the shutdown watch: gate, listener, tasks; jobs cannot be aborted.
StopServing ==
    /\ server = "serving"
    /\ server' = "draining"
    /\ inputClosed' = TRUE
    /\ req' = [r \in Requests |-> [req[r] EXCEPT !.at = "over"]]
    /\ shot' = (shot /\ \E r \in jobs : req[r].kind = "screenshot")
    /\ UNCHANGED <<finished, jobs, lock, job, tracker, hostHeld, shut>>

\* All permits are taken, or the wait times out and the backend is not stopped.
Drain ==
    /\ server = "draining"
    /\ \/ jobs = {} /\ server' = "stopping"
       \/ jobs # {} /\ server' = "failed"
    /\ UNCHANGED <<inputClosed, finished, req, jobs, shot, lock, job, tracker, hostHeld, shut>>

\* try_disconnect_session after a disconnect, a last release after a shutdown.
EndServer ==
    /\ server = "stopping"
    /\ \/ /\ finished
          /\ shut' = [shut EXCEPT !.stops = @ + 1]
          /\ server' \in {"ended", "failed"}
          /\ UNCHANGED <<tracker, hostHeld>>
       \/ /\ ~finished /\ lock = "none"
          /\ IF tracker = {} THEN UNCHANGED <<tracker, hostHeld>>
             ELSE \E ok \in BOOLEAN : ReleaseInputs(tracker, ok)
          /\ server' = "ended"
          /\ UNCHANGED shut
    /\ UNCHANGED <<inputClosed, finished, req, jobs, shot, lock, job>>

AgentNext ==
    \/ \E r \in Requests, k \in Kinds : Accept(r, k)
    \/ \E r \in Requests :
          \/ StartScreen(r) \/ EndScreen(r) \/ TakeTracker(r) \/ GivesUp(r)
          \/ BeginDisconnect(r) \/ DisconnectReleases(r) \/ DisconnectAnswered(r)
    \/ NextAction \/ SendEvent \/ ResetInput \/ WatchdogReleases \/ StopServing \/ Drain \/ EndServer

AgentSpec == AgentInit /\ [][AgentNext]_agentVars

(***************************************************************************)
(* Properties.                                                             *)
(***************************************************************************)
\* The agent server hands the host back clean: once a disconnect released the inputs no
\* request, queued or running, makes the host hold anything again (input_closed is looked
\* at again under the tracker's lock); the backend is stopped at most once, after the gate
\* closed and with no job left that could still send.
AgentServerSafe ==
    /\ AgentTypeOK
    /\ shut.released => hostHeld = {}
    /\ shut.stops <= 1 /\ ~shut.spilled
    /\ shut.stops = 1 => inputClosed /\ finished /\ jobs = {}
=============================================================================
