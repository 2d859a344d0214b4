---------------------------- MODULE MediaPipeline ----------------------------
(***************************************************************************)
(* The media side of one authenticated host session                        *)
(* (maho-host/src/session.rs, handle_connection and serve_connection).     *)
(*                                                                         *)
(* Three threads share a session: the session thread, which reads control  *)
(* packets, replaces the capture pipeline (new stream options, or a        *)
(* monitor that vanished) and tears everything down; the UDP sender, which *)
(* drains the current pipeline's channel; and the watchdog, which stops    *)
(* the pipeline of a session thread that makes no progress. A pipeline has *)
(* workers that send into a bounded channel: stop() joins them, so it      *)
(* returns only when nobody keeps their channel full.                      *)
(***************************************************************************)
EXTENDS Naturals, Sequences, FiniteSets

CONSTANTS
    Pipes,          \* the pipelines the session may start, numbered from 1
    None

ASSUME PipelineAssumption ==
    /\ Pipes \subseteq Nat /\ 1 \in Pipes
    /\ None \notin Pipes

VARIABLES
    s,              \* the session thread's locals; factory: restart_factory is there
    pipe,           \* what each pipeline's workers do
    full,           \* pipelines whose channel is full
    slot,           \* the PipelineSlot shared with the watchdog
    held,           \* media_receiver: the channel no sender thread has yet
    swapTx,         \* swap_tx: "none", "open", "dropped"
    swap,           \* receivers on their way to the sender thread
    stopSent,       \* a stop signal was sent to the sender thread
    status,         \* the media_status channel holds a token
    snd,            \* the sender thread and the receiver it reads
    udpPeer,        \* the client's UDP address is known
    wd,             \* the watchdog thread
    shut,           \* the watchdog shut the socket down
    aborted,        \* SessionWatch.aborted
    stop,           \* the host is asked to stop
    output          \* the selected monitor is connected

session == <<s, held, swapTx, stopSent, udpPeer>>
outside == <<stop, output>>
watch == <<wd, shut, aborted>>
vars == <<session, pipe, full, slot, swap, status, snd, watch, outside>>

Packets == {"none", "options", "keyframe", "other"}

Unused == {p \in Pipes : pipe[p] = "unused"}
Next1(set) == CHOOSE p \in set : \A q \in set : p <= q

\* Somebody owns the receiving end of p's channel.
Held(p) ==
    \/ p = held
    \/ snd.pc \in {"run", "wait"} /\ p = snd.rx
    \/ snd.pc # "exited" /\ \E i \in 1 .. Len(swap) : swap[i] = p

\* The workers of p are gone and its channel is empty.
Ended(p) == pipe[p] \in {"failed", "stopped"} /\ p \notin full

\* Handing pipeline p its stop signal: workers that died already are joined at
\* once, others when their channel lets them go.
Signalled(p) ==
    IF p = None \/ pipe[p] = "stopped" THEN pipe
    ELSE [pipe EXCEPT ![p] = IF @ = "failed" THEN "stopped" ELSE "stopping"]
Joined(p) == p # None => pipe[p] = "stopped"

Goto(pc) == s' = [s EXCEPT !.pc = pc]
\* Leaving the loop, by break or by an error.
End(why) == s' = [s EXCEPT !.pc = "teardown", !.why = why]

Init ==
    /\ s \in {[pc |-> "loop", failed |-> FALSE, packet |-> "none", new |-> None,
               old |-> None, why |-> "none", factory |-> f] : f \in BOOLEAN}
    /\ pipe = [p \in Pipes |-> IF p = 1 THEN "running" ELSE "unused"]
    /\ full = {}
    /\ slot = 1
    /\ held = 1
    /\ swapTx = "none"
    /\ swap = << >>
    /\ stopSent = FALSE
    /\ status = FALSE
    /\ snd = [pc |-> "none", rx |-> None]
    /\ udpPeer = FALSE
    /\ wd = "watching"
    /\ shut = FALSE
    /\ aborted = FALSE
    /\ stop = FALSE
    /\ output = TRUE

-----------------------------------------------------------------------------
(* The session thread: one round of the loop *)

\* Top of the loop: the watchdog's and the host's requests, then the sender's
\* terminal status, which is taken before control is read.
LoopTop ==
    /\ s.pc = "loop"
    /\ IF aborted \/ stop
       THEN End("stopped") /\ UNCHANGED status
       ELSE /\ s' = [s EXCEPT !.pc = "read", !.failed = status]
            /\ status' = FALSE
    /\ UNCHANGED <<held, swapTx, stopSent, udpPeer, pipe, full, slot, swap, snd, watch, outside>>

\* read_frame_step: nothing, a packet, or the end of the connection; a
\* Disconnect ends the session before anything else is looked at.
Read(packet) ==
    /\ s.pc = "read"
    /\ IF shut \/ packet = "disconnect"
       THEN End("left")
       ELSE s' = [s EXCEPT !.pc = "topology", !.packet = packet]
    /\ UNCHANGED <<held, swapTx, stopSent, udpPeer, pipe, full, slot, swap, status, snd, watch, outside>>

StartPipe(pc) ==
    /\ Unused # {}
    /\ LET p == Next1(Unused) IN
          /\ pipe' = [pipe EXCEPT ![p] = "running"]
          /\ s' = [s EXCEPT !.pc = pc, !.new = p]

\* A dead pipeline ends the session while its monitor is there. Otherwise, and
\* every two seconds, a vanished monitor is replaced by another pipeline, if
\* the host can build one and a monitor is left.
Topology(due, left) ==
    /\ s.pc = "topology"
    /\ CASE ~ s.failed /\ (~ due \/ output) -> Goto("serve") /\ UNCHANGED pipe
         [] s.failed /\ output -> End("media") /\ UNCHANGED pipe
         [] ~ output /\ ~ s.factory /\ (s.failed \/ due) ->
                /\ IF s.failed THEN End("media") ELSE Goto("loop")
                /\ UNCHANGED pipe
         [] ~ output /\ s.factory /\ (s.failed \/ due) ->
                \/ ~ left /\ End("media") /\ UNCHANGED pipe
                \/ left /\ End("start failed") /\ UNCHANGED pipe
                \/ left /\ StartPipe("hot swap")
    /\ UNCHANGED <<held, swapTx, stopSent, udpPeer, full, slot, swap, status, snd, watch, outside>>

\* The new receiver goes to the sender thread, or waits for one.
HandOver(p) ==
    IF swapTx = "open"
    THEN swap' = Append(swap, p) /\ UNCHANGED held
    ELSE held' = p /\ UNCHANGED swap

HotSwap ==
    /\ s.pc = "hot swap"
    /\ HandOver(s.new)
    /\ Goto("hot replace")
    /\ UNCHANGED <<swapTx, stopSent, udpPeer, pipe, full, slot, status, snd, watch, outside>>

\* Slot replaced in one step; then the old pipeline is stopped.
HotReplace ==
    /\ s.pc = "hot replace"
    /\ slot' = s.new
    /\ pipe' = Signalled(slot)
    /\ s' = [s EXCEPT !.pc = "hot stop", !.old = slot, !.new = None]
    /\ UNCHANGED <<held, swapTx, stopSent, udpPeer, full, swap, status, snd, watch, outside>>

HotStopped ==
    /\ s.pc = "hot stop"
    /\ Joined(s.old)
    /\ s' = [s EXCEPT !.pc = "serve", !.old = None]
    /\ output' = TRUE
    /\ UNCHANGED <<held, swapTx, stopSent, udpPeer, pipe, full, slot, swap, status, snd, watch, stop>>

\* The rest of the round: guest commands, expiry, permissions and heartbeat may
\* end the session, and so may any write. A registration datagram may have
\* come; with it and a receiver in hand, the sender thread is started.
Serve(registers) ==
    /\ s.pc = "serve"
    /\ udpPeer' = (udpPeer \/ registers)
    /\ IF udpPeer' /\ held # None /\ snd.pc = "none"
       THEN /\ snd' = [pc |-> "run", rx |-> held]
            /\ held' = None
            /\ swapTx' = "open"
       ELSE UNCHANGED <<snd, held, swapTx>>
    /\ Goto("packet")
    /\ UNCHANGED <<stopSent, pipe, full, slot, swap, status, watch, outside>>

ServeEnds ==
    /\ s.pc \in {"serve", "read"}
    /\ End("left")
    /\ UNCHANGED <<held, swapTx, stopSent, udpPeer, pipe, full, slot, swap, status, snd, watch, outside>>

\* RequestKeyFrame ends the session when the pipeline in the slot is dead.
HandlePacket ==
    /\ s.pc = "packet"
    /\ s.packet # "options"
    /\ \/ Goto("loop")
       \/ /\ s.packet = "keyframe" /\ slot # None
          /\ pipe[slot] = "failed"
          /\ End("key frame failed")
    /\ UNCHANGED <<held, swapTx, stopSent, udpPeer, pipe, full, slot, swap, status, snd, watch, outside>>

\* StreamOptionsRequest: refused (no factory, invalid, start failed) or a new
\* pipeline is started while the old one runs.
OptionsStart ==
    /\ s.pc = "packet"
    /\ s.packet = "options"
    /\ \/ Goto("loop") /\ UNCHANGED pipe
       \/ s.factory /\ StartPipe("options swap")
    /\ UNCHANGED <<held, swapTx, stopSent, udpPeer, full, slot, swap, status, snd, watch, outside>>

\* "Hand the receiver over FIRST"
OptionsSwap ==
    /\ s.pc = "options swap"
    /\ HandOver(s.new)
    /\ Goto("options take")
    /\ UNCHANGED <<swapTx, stopSent, udpPeer, pipe, full, slot, status, snd, watch, outside>>

\* "THEN take old handle and stop it"
OptionsTake ==
    /\ s.pc = "options take"
    /\ slot' = None
    /\ pipe' = Signalled(slot)
    /\ s' = [s EXCEPT !.pc = "options stop", !.old = slot]
    /\ UNCHANGED <<held, swapTx, stopSent, udpPeer, full, swap, status, snd, watch, outside>>

\* The join is over, the new pipeline enters the slot, the reply is sent. The
\* monitor asked for was there when the request was checked.
OptionsPut ==
    /\ s.pc = "options stop"
    /\ Joined(s.old)
    /\ slot' = s.new
    /\ s' = [s EXCEPT !.pc = "loop", !.old = None, !.new = None]
    /\ output' \in {output, TRUE}
    /\ UNCHANGED <<held, swapTx, stopSent, udpPeer, pipe, full, swap, status, snd, watch, stop>>

-----------------------------------------------------------------------------
(* The session thread: teardown *)

\* Mutant: the receiver nobody reads is kept until the function returns.
TeardownKeepsReceiver ==
    /\ s.pc = "teardown"
    /\ Goto("take")
    /\ stopSent' = (snd.pc # "none")
    /\ swapTx' = IF swapTx = "open" THEN "dropped" ELSE swapTx
    /\ UNCHANGED <<held, udpPeer, pipe, full, slot, swap, status, snd, watch, outside>>

\* Receiver dropped, sender told to stop, swap channel closed.
Teardown ==
    /\ s.pc = "teardown"
    /\ Goto("take")
    /\ held' = None
    /\ stopSent' = (snd.pc # "none")
    /\ swapTx' = IF swapTx = "open" THEN "dropped" ELSE swapTx
    /\ UNCHANGED <<udpPeer, pipe, full, slot, swap, status, snd, watch, outside>>

\* Mutant: the pipeline is left to the watchdog.
TeardownLeavesPipeline ==
    /\ s.pc = "take"
    /\ Goto("join")
    /\ UNCHANGED <<slot, pipe, held, swapTx, stopSent, udpPeer, full, swap, status, snd, watch, outside>>

TeardownStop ==
    /\ s.pc = "take"
    /\ slot' = None
    /\ pipe' = Signalled(slot)
    /\ s' = [s EXCEPT !.pc = "join", !.old = slot]
    /\ UNCHANGED <<held, swapTx, stopSent, udpPeer, full, swap, status, snd, watch, outside>>

\* join_with_deadline: the sender exited, or its deadline passed. Then input is
\* released, the guards are dropped and `finished` is set.
TeardownJoin ==
    /\ s.pc = "join"
    /\ Joined(s.old)
    /\ s' = [s EXCEPT !.pc = "done", !.old = None]
    /\ UNCHANGED <<held, swapTx, stopSent, udpPeer, pipe, full, slot, swap, status, snd, watch, outside>>

-----------------------------------------------------------------------------
(* The sender thread *)

\* A new receiver replaces, and drops, the one in use: at the top of the loop,
\* after the old one ended, or while waiting for it.
SenderSwap ==
    /\ snd.pc \in {"run", "wait"}
    /\ swap # << >>
    /\ snd' = [pc |-> "run", rx |-> Head(swap)]
    /\ swap' = Tail(swap)
    /\ UNCHANGED <<session, pipe, full, slot, status, watch, outside>>

SenderStops ==
    /\ snd.pc = "run"
    /\ stopSent
    /\ snd' = [pc |-> "exited", rx |-> None]
    /\ UNCHANGED <<session, pipe, full, slot, swap, status, watch, outside>>

SenderDrains ==
    /\ snd.pc = "run"
    /\ snd.rx \in full
    /\ full' = full \ {snd.rx}
    /\ UNCHANGED <<session, pipe, slot, swap, status, snd, watch, outside>>

\* Mutant: the sender waits without leaving its status.
SenderLosesSilently ==
    /\ snd.pc = "run"
    /\ Ended(snd.rx)
    /\ swap = << >>
    /\ snd' = [snd EXCEPT !.pc = "wait"]
    /\ UNCHANGED <<session, status, pipe, full, slot, swap, watch, outside>>

\* The channel reports an error or is closed and no replacement is pending: the
\* status token is left (or is there already) and the thread waits.
SenderLoses ==
    /\ snd.pc = "run"
    /\ Ended(snd.rx)
    /\ swap = << >>
    /\ status' = TRUE
    /\ snd' = [snd EXCEPT !.pc = "wait"]
    /\ UNCHANGED <<session, pipe, full, slot, swap, watch, outside>>

SenderWoken ==
    /\ snd.pc = "wait"
    /\ swap = << >>
    /\ swapTx = "dropped"
    /\ snd' = [pc |-> "exited", rx |-> None]
    /\ UNCHANGED <<session, pipe, full, slot, swap, status, watch, outside>>

Sender == SenderSwap \/ SenderStops \/ SenderDrains \/ SenderLoses \/ SenderWoken

-----------------------------------------------------------------------------
(* The pipelines' workers *)

PipeFails(p) ==
    /\ pipe[p] = "running"
    /\ pipe' = [pipe EXCEPT ![p] = "failed"]
    /\ UNCHANGED <<session, full, slot, swap, status, snd, watch, outside>>

PipeFills(p) ==
    /\ pipe[p] = "running"
    /\ p \notin full
    /\ Held(p)
    /\ full' = full \cup {p}
    /\ UNCHANGED <<session, pipe, slot, swap, status, snd, watch, outside>>

\* A worker told to stop leaves unless it sits in a send into a full channel
\* that somebody owns and does not read.
WorkerExits(p) ==
    /\ pipe[p] = "stopping"
    /\ p \notin full \/ ~ Held(p)
    /\ pipe' = [pipe EXCEPT ![p] = "stopped"]
    /\ full' = full \ {p}
    /\ UNCHANGED <<session, slot, swap, status, snd, watch, outside>>

-----------------------------------------------------------------------------
(* The watchdog *)

\* The session thread made no progress for its timeout: the socket is shut
\* down, the session marked, and what is in the slot is stopped.
WatchdogShuts ==
    /\ wd = "watching"
    /\ s.pc # "done"
    /\ shut' = TRUE
    /\ wd' = "shut"
    /\ UNCHANGED <<session, pipe, full, slot, swap, status, snd, aborted, outside>>

WatchdogAborts ==
    /\ wd = "shut"
    /\ aborted' = TRUE
    /\ wd' = "aborted"
    /\ UNCHANGED <<session, pipe, full, slot, swap, status, snd, shut, outside>>

\* stop_pipeline
WatchdogStops ==
    /\ wd = "aborted"
    /\ slot' = None
    /\ pipe' = Signalled(slot)
    /\ wd' = "done"
    /\ UNCHANGED <<session, full, swap, status, snd, shut, aborted, outside>>

WatchdogLeaves ==
    /\ wd = "watching"
    /\ s.pc = "done"
    /\ wd' = "done"
    /\ UNCHANGED <<session, pipe, full, slot, swap, status, snd, shut, aborted, outside>>

-----------------------------------------------------------------------------
(* The environment *)

HostStops ==
    /\ ~ stop
    /\ stop' = TRUE
    /\ UNCHANGED <<session, pipe, full, slot, swap, status, snd, watch, output>>

OutputVanishes ==
    /\ output
    /\ output' = FALSE
    /\ UNCHANGED <<session, pipe, full, slot, swap, status, snd, watch, stop>>

Session ==
    \/ LoopTop
    \/ \E packet \in Packets \cup {"disconnect"} : Read(packet)
    \/ \E due, left \in BOOLEAN : Topology(due, left)
    \/ HotSwap \/ HotReplace \/ HotStopped
    \/ \E registers \in BOOLEAN : Serve(registers)
    \/ ServeEnds \/ HandlePacket
    \/ OptionsStart \/ OptionsSwap \/ OptionsTake \/ OptionsPut
    \/ Teardown \/ TeardownStop \/ TeardownJoin

Watchdog == WatchdogShuts \/ WatchdogAborts \/ WatchdogStops \/ WatchdogLeaves

Workers == \E p \in Pipes : PipeFails(p) \/ PipeFills(p) \/ WorkerExits(p)

Next == Session \/ Sender \/ Workers \/ Watchdog \/ HostStops \/ OutputVanishes

Spec == Init /\ [][Next]_vars

\* Threads that can go on do, and a worker that was told to stop and is not
\* blocked leaves. Nothing is owed by the client, the pipelines or the host's
\* user, and the watchdog need not find the thread idle.
ThreadFairness ==
    /\ WF_vars(Session) /\ WF_vars(Sender)
    /\ WF_vars(WatchdogAborts) /\ WF_vars(WatchdogStops)

FairSpec ==
    /\ Spec /\ ThreadFairness
    /\ \A p \in Pipes : WF_vars(WorkerExits(p))

-----------------------------------------------------------------------------
(* Properties *)

\* The three threads, their channels and the pipelines stay in their types.
TypeOK ==
    /\ s \in [pc : {"loop", "read", "topology", "hot swap", "hot replace", "hot stop",
                    "serve", "packet", "options swap", "options take", "options stop",
                    "teardown", "take", "join", "done"},
              failed : BOOLEAN, packet : Packets, new : Pipes \cup {None},
              old : Pipes \cup {None}, factory : BOOLEAN,
              why : {"none", "stopped", "left", "media", "start failed",
                     "key frame failed"}]
    /\ pipe \in [Pipes -> {"unused", "running", "failed", "stopping", "stopped"}]
    /\ full \subseteq Pipes
    /\ slot \in Pipes \cup {None} /\ held \in Pipes \cup {None}
    /\ swapTx \in {"none", "open", "dropped"}
    /\ swap \in Seq(Pipes)
    /\ stopSent \in BOOLEAN /\ status \in BOOLEAN /\ udpPeer \in BOOLEAN
    /\ snd \in [pc : {"none", "run", "wait", "exited"}, rx : Pipes \cup {None}]
    /\ wd \in {"watching", "shut", "aborted", "done"}
    /\ shut \in BOOLEAN /\ aborted \in BOOLEAN /\ stop \in BOOLEAN /\ output \in BOOLEAN

\* Whoever ended the session, and wherever the watchdog got in between, every
\* pipeline the session started was told to stop: capture and encode workers
\* never outlive it.
NoPipelineOutlivesSession ==
    s.pc = "done" => \A p \in Pipes : pipe[p] \in {"unused", "stopping", "stopped"}

\* Outside a replacement at most one pipeline captures.
OnePipelineCaptures ==
    s.pc \in {"loop", "read", "topology", "serve", "packet"} =>
        Cardinality({p \in Pipes : pipe[p] = "running"}) <= 1

\* The channel of the pipeline in the slot is the newest one handed over, so the
\* client sees what the session controls.
Newest == IF held # None THEN held
          ELSE IF swap # << >> THEN swap[Len(swap)] ELSE snd.rx
SenderFollowsSlot ==
    (slot # None /\ s.pc \in {"loop", "read", "topology", "serve", "packet"})
        => Newest = slot

\* Pipelines, slot and sender thread belong together through every replacement (the hot-plug
\* restart and the stream options of handle_connection) and through the teardown.
PipelinesFollowSession ==
    TypeOK /\ NoPipelineOutlivesSession /\ OnePipelineCaptures /\ SenderFollowsSlot

\* Teardown ends with both threads gone: neither a full channel nor a sender
\* that waits for a replacement holds it.
TeardownEnds == s.pc = "teardown" ~> s.pc = "done" /\ snd.pc \in {"none", "exited"}

\* Replacing a pipeline ends, also when the client does not read.
ReplacementEnds ==
    s.pc \in {"hot swap", "options swap"} ~> s.pc \in {"serve", "loop", "teardown"}

\* Neither a replacement nor the teardown hangs on a worker, a full channel or the sender
\* thread (stop() of the handle in handle_connection).
StoppingEnds == TeardownEnds /\ ReplacementEnds

\* A pipeline that dies is replaced or ends the session, once the client's
\* address is known.
DeadPipelineNoticed ==
    \A p \in Pipes :
        (udpPeer /\ slot = p /\ pipe[p] = "failed") ~> (slot # p \/ s.pc = "done")

-----------------------------------------------------------------------------
(* A statement of a comment that the code does not keep. *)

\* "Checked independently of UDP registration: a media pipeline that died must
\* end the session instead of serving heartbeats forever."
DeadPipelineEndsSession ==
    \A p \in Pipes :
        (slot = p /\ pipe[p] = "failed" /\ output)
            ~> (slot # p \/ s.pc = "done" \/ ~ output)
=============================================================================
