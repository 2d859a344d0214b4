----------------------------- MODULE DesktopShell -----------------------------
(***************************************************************************)
(* The desktop shell (tauri-shell/src-tauri/src/lib.rs): one AppState and  *)
(*   life   the command that holds the `lifecycle` mutex (connect,         *)
(*          disconnect, poll_frame, the audio commands);                   *)
(*   ui     the synchronous commands, one at a time on the main thread     *)
(*          (send_input, cancel_connect, set_client_clipboard), which do   *)
(*          not take that mutex;                                           *)
(*   rx     the media worker of run_media_pipeline, with its decoder dec;  *)
(* and the audio owner thread, which serves one request of life at a time. *)
(* Sessions are numbered in the order connect_session creates them.        *)
(***************************************************************************)
EXTENDS Naturals

CONSTANT MaxSessions       \* sessions created (bound)

ASSUME DesktopAssumption == MaxSessions \in Nat \ {0}

VARIABLES
    slot,        \* AppState::session: the session it holds, 0 if none
    link,        \* each ClientSession: "new", "ready", "lost" or "closed" (cancelled)
    tcpSlot,     \* AppState::tcp_runtime: the session its runtime serves, 0 if none
    pairing,     \* AppState::active_pairing_id is set
    stopMedia,   \* AppState::stop_media_flag
    life,        \* the lifecycle command: at, why (what a teardown is for), own, tcp, join
    ui,          \* the synchronous command: at, own (its clone of the session)
    rx,          \* the media worker: at, own, event
    dec,         \* its decoder: at ("idle", "decoding", "done")
    heldInput,        \* AppState::media_handle holds the worker's handle
    mailbox,     \* FrameMailbox: frame and cursor trailer by session, pending
    cursor,      \* latest_cursor: the session it came from, 0 if none
    audio,       \* DesktopAudio: up (worker runs), output, queue attached, active, pcm
    monitor,     \* the clipboard monitor: the session it pushes to, 0 if none
    clipOn,      \* clipboard_enabled
    released     \* history: sessions whose inputs were reset; late: a key sent after that

desktopVars == <<slot, link, tcpSlot, pairing, stopMedia, life, ui, rx, dec, heldInput,
                 mailbox, cursor, audio, monitor, clipOn, released>>

Sessions == 1 .. MaxSessions
SessionOrNone == 0 .. MaxSessions
EmptyMailbox == [frame |-> 0, cursor |-> 0, pending |-> FALSE]
LifeIdle == [at |-> "idle", why |-> "none", own |-> 0, tcp |-> 0, join |-> FALSE]
UiIdle == [at |-> "idle", own |-> 0]
Created == {s \in Sessions : link[s] # "none"}

DesktopTypeOK ==
    /\ slot \in SessionOrNone /\ tcpSlot \in SessionOrNone /\ cursor \in SessionOrNone
    /\ monitor \in SessionOrNone
    /\ link \in [Sessions -> {"none", "new", "ready", "lost", "closed"}]
    /\ stopMedia \in BOOLEAN /\ heldInput \in BOOLEAN /\ clipOn \in BOOLEAN /\ pairing \in BOOLEAN
    /\ mailbox \in [frame: SessionOrNone, cursor: SessionOrNone, pending: BOOLEAN]
    /\ audio \in [up: BOOLEAN, output: BOOLEAN, queue: BOOLEAN, active: BOOLEAN,
                  pcm: SUBSET Sessions]
    /\ released \in [of: SUBSET Sessions, late: BOOLEAN]

DesktopInit ==
    /\ slot = 0 /\ link = [s \in Sessions |-> "none"] /\ tcpSlot = 0 /\ pairing = FALSE
    /\ stopMedia = FALSE
    /\ life = LifeIdle /\ ui = UiIdle
    /\ rx = [at |-> "none", own |-> 0, event |-> "none"] /\ dec = "done" /\ heldInput = FALSE
    /\ mailbox = EmptyMailbox /\ cursor = 0
    /\ audio = [up |-> FALSE, output |-> FALSE, queue |-> FALSE, active |-> FALSE, pcm |-> {}]
    /\ monitor = 0 /\ clipOn = TRUE
    /\ released = [of |-> {}, late |-> FALSE]

LifeGoes(p) == life' = [life EXCEPT !.at = p]
mediaSide == <<rx, dec, mailbox, cursor>>

(***************************************************************************)
(* Teardown: disconnect_with_stop, entered for a purpose life.why.         *)
(***************************************************************************)
TeardownBegins(why, own) ==
    /\ life' = [LifeIdle EXCEPT !.at = "monitor", !.why = why, !.own = own]
    /\ stopMedia' = TRUE

TeardownMonitor ==
    /\ life.at = "monitor"
    /\ monitor' = 0
    /\ LifeGoes("take")
    /\ UNCHANGED <<slot, link, tcpSlot, pairing, stopMedia, ui, heldInput, audio, clipOn, released, mediaSide>>

\* The runtime and the worker's handle are taken; audio is asked to stop if it was started.
TeardownTakes ==
    /\ life.at = "take"
    /\ life' = [life EXCEPT !.at = IF audio.up THEN "detach" ELSE "reset",
                            !.tcp = tcpSlot, !.join = heldInput]
    /\ tcpSlot' = 0 /\ heldInput' = FALSE
    /\ UNCHANGED <<slot, link, pairing, stopMedia, ui, audio, monitor, clipOn, released, mediaSide>>

\* DesktopAudio::stop_output: the queue is detached before the output is dropped.
Detached == [audio EXCEPT !.queue = FALSE, !.pcm = {}]

\* AudioAction::Stop.
AudioDetach ==
    /\ life.at = "detach"
    /\ audio' = [Detached EXCEPT !.active = FALSE]
    /\ LifeGoes("dropOutput")
    /\ UNCHANGED <<slot, link, tcpSlot, pairing, stopMedia, ui, heldInput, monitor, clipOn, released, mediaSide>>

AudioDropOutput ==
    /\ life.at = "dropOutput"
    /\ audio' = [audio EXCEPT !.output = FALSE]
    /\ LifeGoes("reset")
    /\ UNCHANGED <<slot, link, tcpSlot, pairing, stopMedia, ui, heldInput, monitor, clipOn, released, mediaSide>>

\* Under the session lock: reset_session_inputs, then the session is taken.
TeardownReset ==
    /\ life.at = "reset"
    /\ released' = IF slot # 0 /\ link[slot] = "ready"
                   THEN [released EXCEPT !.of = @ \cup {slot}] ELSE released
    /\ life' = [life EXCEPT !.at = "disconnect", !.own = slot]
    /\ slot' = 0
    /\ UNCHANGED <<link, tcpSlot, pairing, stopMedia, ui, heldInput, audio, monitor, clipOn, mediaSide>>

\* ClientSession::disconnect, which wakes the worker's receive, then the runtime's stop.
TeardownDisconnects ==
    /\ life.at = "disconnect"
    /\ link' = IF life.own = 0 THEN link ELSE [link EXCEPT ![life.own] = "closed"]
    /\ LifeGoes("join")
    /\ UNCHANGED <<slot, tcpSlot, pairing, stopMedia, ui, heldInput, audio, monitor, clipOn, released, mediaSide>>

\* Mutant: the worker is not waited for.
TeardownNeverJoins ==
    /\ life.at = "join"
    /\ mailbox' = EmptyMailbox /\ cursor' = 0
    /\ LifeGoes("torn")
    /\ UNCHANGED <<slot, link, tcpSlot, pairing, stopMedia, ui, rx, dec, heldInput, audio, monitor,
                   clipOn, released>>

\* The worker is joined, then clear_metrics empties what it wrote.
TeardownJoins ==
    /\ life.at = "join" /\ (life.join => rx.at = "done")
    /\ mailbox' = EmptyMailbox /\ cursor' = 0
    /\ LifeGoes("torn")
    /\ UNCHANGED <<slot, link, tcpSlot, pairing, stopMedia, ui, rx, dec, heldInput, audio, monitor,
                   clipOn, released>>

Torn ==
    /\ life.at = "torn"
    /\ \/ /\ life.why \in {"disconnect", "final"}
          /\ life' = LifeIdle /\ UNCHANGED <<clipOn, stopMedia>>
       \/ \* connect: nothing ran before it, or no record answers to the request
          /\ life.why = "connect"
          /\ life' = LifeIdle /\ clipOn' = TRUE /\ UNCHANGED stopMedia
       \/ /\ life.why = "connect"
          /\ LifeGoes("create") /\ clipOn' = TRUE /\ UNCHANGED stopMedia
       \/ \* a failed attempt: another stored pairing of this host, or the final cleanup
          /\ life.why = "fallback"
          /\ LifeGoes("create") /\ UNCHANGED <<clipOn, stopMedia>>
       \/ /\ life.why \in {"fallback", "failed"}
          /\ TeardownBegins("final", 0) /\ UNCHANGED clipOn
    /\ UNCHANGED <<slot, link, tcpSlot, pairing, ui, heldInput, audio, monitor, released, mediaSide>>

(***************************************************************************)
(* The commands under the lifecycle mutex.                                 *)
(***************************************************************************)
Command(why) ==
    /\ life.at = "idle"
    /\ TeardownBegins(why, 0)
    /\ UNCHANGED <<slot, link, tcpSlot, pairing, ui, heldInput, audio, monitor, clipOn, released, mediaSide>>

\* connect_session: the new session is published before anything can fail.
CreateSession ==
    /\ life.at = "create" /\ Created # Sessions
    /\ LET s == CHOOSE n \in Sessions \ Created : \A m \in Sessions \ Created : n <= m IN
       /\ link' = [link EXCEPT ![s] = "new"] /\ slot' = s
       /\ life' = [life EXCEPT !.at = "authenticate", !.own = s]
    /\ UNCHANGED <<tcpSlot, pairing, stopMedia, ui, heldInput, audio, monitor, clipOn, released, mediaSide>>

ConnectFails(why) ==
    /\ TeardownBegins(why, 0)
    /\ UNCHANGED <<slot, tcpSlot, pairing, ui, heldInput, audio, monitor, clipOn, released, mediaSide>>

\* The handshake on a blocking thread; only an authentication error tries other records.
Authenticate ==
    /\ life.at = "authenticate"
    /\ \/ /\ link[life.own] = "new"
          /\ link' = [link EXCEPT ![life.own] = "ready"]
          /\ LifeGoes("endpoint")
          /\ UNCHANGED <<slot, tcpSlot, pairing, stopMedia, ui, heldInput, audio, monitor, clipOn,
                         released, mediaSide>>
       \/ UNCHANGED link /\ \E why \in {"fallback", "failed"} : ConnectFails(why)

\* remember_endpoint (an error disconnects), then spawn_tcp_runtime.
StartRuntime ==
    /\ life.at = "endpoint"
    /\ \/ /\ link[life.own] = "ready"
          /\ tcpSlot' = life.own
          /\ LifeGoes("audioOpen")
          /\ UNCHANGED <<slot, link, pairing, stopMedia, ui, heldInput, audio, monitor, clipOn, released, mediaSide>>
       \/ /\ link' = [link EXCEPT ![life.own] = "closed"]
          /\ ConnectFails("failed")
       \/ /\ link[life.own] # "ready"
          /\ UNCHANGED link /\ ConnectFails("failed")

\* start_output: a new queue is attached only to an output that opened.
AudioOpen ==
    /\ life.at = "audioOpen"
    /\ \E opened \in BOOLEAN :
          audio' = [Detached EXCEPT !.up = TRUE, !.active = TRUE, !.output = opened]
    /\ LifeGoes("audioAttach")
    /\ UNCHANGED <<slot, link, tcpSlot, pairing, stopMedia, ui, heldInput, monitor, clipOn, released, mediaSide>>

AudioAttach ==
    /\ life.at = "audioAttach"
    /\ audio' = [audio EXCEPT !.queue = audio.output]
    /\ LifeGoes(IF life.why = "device" THEN "idle" ELSE "worker")
    /\ UNCHANGED <<slot, link, tcpSlot, pairing, stopMedia, ui, heldInput, monitor, clipOn, released, mediaSide>>

\* worker_stop_flag, then the media thread (the thread may not start).
StartWorker ==
    /\ life.at = "worker"
    /\ \/ /\ stopMedia' = FALSE
          /\ rx' = [at |-> "loop", own |-> life.own, event |-> "none"] /\ dec' = "idle"
          /\ heldInput' = TRUE
          /\ LifeGoes("startMonitor")
          /\ UNCHANGED <<slot, link, tcpSlot, pairing, ui, mailbox, cursor, audio, monitor, clipOn,
                         released>>
       \/ UNCHANGED link /\ ConnectFails("failed")

\* start_clipboard_monitor (which may be unavailable), then active_pairing_id.
ConnectEnds ==
    /\ life.at = "startMonitor"
    /\ monitor' \in IF clipOn THEN {0, life.own} ELSE {monitor}
    /\ pairing' = TRUE
    /\ life' = LifeIdle
    /\ UNCHANGED <<slot, link, tcpSlot, stopMedia, ui, heldInput, audio, clipOn, released, mediaSide>>

\* poll_frame_with_clipboard: the newest frame is shown once.
PollFrame ==
    /\ life.at = "idle" /\ mailbox.pending
    /\ mailbox' = [mailbox EXCEPT !.pending = FALSE]
    /\ UNCHANGED <<slot, link, tcpSlot, pairing, stopMedia, life, ui, rx, dec, heldInput, cursor, audio,
                   monitor, clipOn, released>>

\* The audio commands: another device closes the output and, in a session and if it is
\* supported, opens the new one; a status whose output failed closes it.
AudioDevice ==
    /\ life.at = "idle" /\ audio.up
    /\ \/ /\ audio' = [Detached EXCEPT !.output = FALSE]
          /\ life' \in IF audio.active
                      THEN {life, [LifeIdle EXCEPT !.at = "audioOpen", !.why = "device"]} ELSE {life}
       \/ /\ audio.output
          /\ audio' = [Detached EXCEPT !.output = FALSE]
          /\ UNCHANGED life
    /\ UNCHANGED <<slot, link, tcpSlot, pairing, stopMedia, ui, heldInput, monitor, clipOn, released, mediaSide>>

(***************************************************************************)
(* Input and the other commands on the main thread.                        *)
(***************************************************************************)
uiOnly == <<stopMedia, life, heldInput, audio, pairing, slot>>

\* send_input_guarded: the session lock is released on return.
SendGuarded ==
    /\ ui.at = "idle" /\ slot # 0 /\ ~stopMedia
    /\ ui' = [at |-> "send", own |-> slot]
    /\ UNCHANGED <<link, tcpSlot, monitor, clipOn, released, uiOnly, mediaSide>>

\* A key-down on a connection that still stands reaches the host.
DeliveredTo == released' = [released EXCEPT !.late = @ \/ ui.own \in released.of]

SendInput ==
    /\ ui.at = "send"
    /\ \/ /\ link[ui.own] = "ready"
          /\ DeliveredTo /\ ui' = UiIdle
       \/ /\ link[ui.own] # "ready" /\ pairing
          /\ ui' = [ui EXCEPT !.at = "steal"] /\ UNCHANGED released
       \/ /\ link[ui.own] # "ready" /\ ~pairing
          /\ ui' = UiIdle /\ UNCHANGED released
    /\ UNCHANGED <<link, tcpSlot, monitor, clipOn, uiOnly, mediaSide>>

\* The runtime in the slot is stopped, which closes its connection, then this session
\* reconnects with its pairing: one that was closed cannot, and its user gets an error.
SendReconnects ==
    \/ /\ ui.at = "steal"
       /\ link' = [s \in Sessions |-> IF s = tcpSlot /\ link[s] = "ready" THEN "lost" ELSE link[s]]
       /\ tcpSlot' = 0
       /\ ui' = [ui EXCEPT !.at = "reconnect"]
       /\ UNCHANGED <<monitor, clipOn, released, uiOnly, mediaSide>>
    \/ /\ ui.at = "reconnect"
       /\ \/ /\ link[ui.own] \in {"ready", "lost"}
             /\ link' = [link EXCEPT ![ui.own] = "ready"]
             /\ ui' = [ui EXCEPT !.at = "respawn"]
          \/ UNCHANGED link /\ ui' = UiIdle
       /\ UNCHANGED <<tcpSlot, monitor, clipOn, released, uiOnly, mediaSide>>

\* A new runtime (if the session is still ready) goes into the slot, and the event is sent.
SendAgain ==
    \/ /\ ui.at = "respawn"
       /\ ui' = [ui EXCEPT !.at = IF link[ui.own] = "ready" THEN "store" ELSE "again"]
       /\ UNCHANGED <<link, tcpSlot, monitor, clipOn, released, uiOnly, mediaSide>>
    \/ /\ ui.at = "store"
       /\ tcpSlot' = ui.own
       /\ ui' = [ui EXCEPT !.at = "again"]
       /\ UNCHANGED <<link, monitor, clipOn, released, uiOnly, mediaSide>>
    \/ /\ ui.at = "again"
       /\ IF link[ui.own] = "ready" THEN DeliveredTo ELSE UNCHANGED released
       /\ ui' = UiIdle
       /\ UNCHANGED <<link, tcpSlot, monitor, clipOn, uiOnly, mediaSide>>

\* cancel_connect interrupts whichever session is in the slot.
CancelConnect ==
    /\ ui.at = "idle" /\ slot # 0
    /\ link' = [link EXCEPT ![slot] = "closed"]
    /\ UNCHANGED <<tcpSlot, ui, monitor, clipOn, released, uiOnly, mediaSide>>

\* set_client_clipboard: the flag, then the monitor is stopped and started again.
SetClientClipboard ==
    \/ /\ ui.at = "idle" /\ slot # 0 /\ link[slot] = "ready"
       /\ clipOn' \in BOOLEAN
       /\ monitor' = 0
       /\ ui' = IF clipOn' THEN [at |-> "monitor", own |-> slot] ELSE UiIdle
       /\ UNCHANGED <<link, tcpSlot, released, uiOnly, mediaSide>>
    \/ /\ ui.at = "monitor"
       /\ monitor' \in {0, ui.own}
       /\ ui' = UiIdle
       /\ UNCHANGED <<link, tcpSlot, clipOn, released, uiOnly, mediaSide>>

\* The host goes away, and the supervisor of a runtime reconnects by itself.
LinkChanges ==
    /\ \E s \in Created :
          \/ link[s] = "ready" /\ link' = [link EXCEPT ![s] = "lost"]
          \/ link[s] = "lost" /\ tcpSlot = s /\ link' = [link EXCEPT ![s] = "ready"]
    /\ UNCHANGED <<tcpSlot, ui, monitor, clipOn, released, uiOnly, mediaSide>>

(***************************************************************************)
(* The media worker: run_media_pipeline, dispatch_media_event.             *)
(***************************************************************************)
workerOnly == <<slot, link, tcpSlot, pairing, stopMedia, life, ui, heldInput, monitor, clipOn, released>>

\* The loop looks at the flag, then receives; an event may be in hand when the session ends.
ReceiveMedia ==
    /\ rx.at = "loop"
    /\ \/ /\ ~stopMedia /\ link[rx.own] = "ready"
          /\ \E e \in {"frame", "audio", "cursor"} : rx' = [rx EXCEPT !.at = "event", !.event = e]
       \/ /\ stopMedia \/ link[rx.own] \in {"lost", "closed"}   \* NotReady ends it too
          /\ rx' = [rx EXCEPT !.at = "joining"]
    /\ UNCHANGED <<dec, mailbox, cursor, audio, workerOnly>>

DispatchMediaEvent ==
    /\ rx.at = "event"
    /\ \/ /\ rx.event = "audio"
          /\ audio' = [audio EXCEPT !.pcm = IF audio.queue THEN @ \cup {rx.own} ELSE @]
          /\ UNCHANGED <<cursor, dec>>
       \/ rx.event = "cursor" /\ cursor' = rx.own /\ UNCHANGED <<audio, dec>>
       \/ /\ rx.event = "frame"
          /\ dec' = IF dec = "idle" THEN "decoding" ELSE dec
          /\ UNCHANGED <<audio, cursor>>
    /\ rx' = [rx EXCEPT !.at = "loop", !.event = "none"]
    /\ UNCHANGED <<mailbox, workerOnly>>

\* The decoder looks at the flag, then decodes and publishes with the cursor of the moment.
PublishFrame ==
    /\ dec = "decoding"
    /\ dec' = "idle"
    /\ mailbox' \in {mailbox, [frame |-> rx.own, cursor |-> cursor, pending |-> TRUE]}
    /\ UNCHANGED <<rx, cursor, audio, workerOnly>>

\* The queue is closed and the decoder joined before the worker ends.
WorkerEnds ==
    /\ rx.at = "joining" /\ dec = "idle"
    /\ rx' = [rx EXCEPT !.at = "done"] /\ dec' = "done"
    /\ UNCHANGED <<mailbox, cursor, audio, workerOnly>>

DesktopNext ==
    \/ TeardownMonitor \/ TeardownTakes \/ AudioDetach \/ AudioDropOutput \/ TeardownReset
    \/ TeardownDisconnects \/ TeardownJoins \/ Torn
    \/ \E why \in {"connect", "disconnect"} : Command(why)
    \/ CreateSession \/ Authenticate \/ StartRuntime \/ AudioOpen \/ AudioAttach \/ StartWorker
    \/ ConnectEnds \/ PollFrame \/ AudioDevice
    \/ SendGuarded \/ SendInput \/ SendReconnects \/ SendAgain \/ CancelConnect
    \/ SetClientClipboard \/ LinkChanges
    \/ ReceiveMedia \/ DispatchMediaEvent \/ PublishFrame \/ WorkerEnds

DesktopSpec == DesktopInit /\ [][DesktopNext]_desktopVars

(***************************************************************************)
(* Properties.                                                             *)
(***************************************************************************)
\* What the webview can be shown belongs to the session of the slot, cursor and all.
ShownIsCurrent ==
    slot # 0 => /\ mailbox.frame \in {0, slot}
                /\ mailbox.cursor \in {0, slot}
                /\ cursor \in {0, slot}

\* Once disconnected nothing of the old session runs or is left to be shown or heard.
DisconnectedIsClean ==
    life.at = "idle" /\ slot = 0 =>
        /\ mailbox = EmptyMailbox /\ cursor = 0
        /\ rx.at \in {"none", "done"} /\ ~heldInput
        /\ ~audio.output /\ ~audio.queue

\* Samples wait only for an open output, and only those of the running session.
SamplesAreCurrent ==
    /\ audio.pcm \subseteq {slot}
    /\ audio.queue => audio.output

\* The desktop shell never mixes sessions: after disconnect_with_stop and connect_session,
\* in any interleaving with the worker of the old session, no frame, cursor or sample of the
\* old session is shown or heard in the new one, and nothing is left of a session that ended.
DesktopShellSafe ==
    /\ DesktopTypeOK /\ ShownIsCurrent /\ DisconnectedIsClean /\ SamplesAreCurrent
=============================================================================
