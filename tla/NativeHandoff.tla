--------------------------- MODULE NativeHandoff ---------------------------
(***************************************************************************)
(* The Linux host's media pipeline: a capture thread, an encoder thread    *)
(* and an audio recorder around one Handoff (native_pipeline.rs), as       *)
(* LinuxMediaSource::start of session.rs puts them together.               *)
(*                                                                         *)
(* The handoff is a mutex around one raw frame and the controls (a key     *)
(* frame request, a bitrate) the session asked for since the encoder last  *)
(* looked.  A raw frame not yet encoded may be replaced by a newer one;    *)
(* controls may not be lost; encoded packets go through a bounded channel  *)
(* whose send blocks.  Audio goes through a slot of one block, announced   *)
(* in the same channel by at most one notification at a time.              *)
(*                                                                         *)
(* Every critical section of a mutex is one action; the threads interleave *)
(* between them.  The consumer (the session's UDP sender thread) and the   *)
(* owner of the handle are modelled as far as they touch the pipeline.     *)
(***************************************************************************)
EXTENDS Naturals, Sequences

CONSTANTS
    MaxFrame,   \* frames the capture delivers (bound)
    Rates,      \* bitrates the session may ask for
    StartRate,  \* the bitrate the encoder is opened with
    MaxAsks,    \* control requests of the session (bound)
    Capacity    \* of the media channel

ASSUME HandoffAssumption ==
    /\ MaxFrame \in Nat /\ MaxAsks \in Nat
    /\ Capacity \in Nat \ {0}
    /\ Rates \subseteq Nat \ {0} /\ StartRate \in Rates

\* No frame, no bitrate: the None of an Option.
None == 0

VARIABLES
    hand,       \* State<T>: active, stopped, frame, controls (key, rate)
    owner,      \* where start() or the handle is
    pc,         \* where each worker thread is
    captured,   \* the newest captured frame
    work,       \* the encoder thread's Work: frame, controls
    coder,      \* the codec: its bitrate, force_keyframe, the last frame put in
    chan,       \* the media channel: "video", "note" (NativeAudio), "error"
    rx,         \* its receiver: not yet read, read, abandoned after an error, dropped
    told,       \* LatestAudio: its block was announced
    allowed,    \* audio_allowed
    ghost       \* while it runs: the newest bitrate asked for, a key frame is owed
                \* (none was encoded since it was needed), requests so far (bound)

vars == <<hand, owner, pc, captured, work, coder, chan, rx, told, allowed,
          ghost>>

Workers == {"capture", "encode", "audio"}
Critical == {"capture", "encode"}
Frame == 0 .. MaxFrame
Rate == Rates \cup {None}
NewCoder == [rate |-> StartRate, forced |-> TRUE, last |-> None]
NoWork == [frame |-> None, key |-> FALSE, rate |-> None]
PC == {"none", "gate", "open", "run", "publish", "next", "rate", "drain", "reselect",
       "submit", "emit", "notify", "fail", "report", "done"}
\* The encoder thread holds a Work.
HasWork == pc.encode \in {"rate", "drain", "reselect", "submit"}

(***************************************************************************)
(* The type invariant.                                                     *)
(***************************************************************************)
TypeOK ==
    /\ hand \in [active: BOOLEAN, stopped: BOOLEAN, frame: Frame, key: BOOLEAN, rate: Rate]
    /\ owner \in {"capture", "encode", "audio", "activate", "running", "joining", "stopped"}
    /\ pc \in [Workers -> PC]
    /\ captured \in Frame
    /\ work \in [frame: Frame, key: BOOLEAN, rate: Rate]
    /\ coder \in [rate: Rates, forced: BOOLEAN, last: Frame]
    /\ chan \in Seq({"video", "note", "error"}) /\ Len(chan) <= Capacity
    /\ rx \in {"held", "reading", "parked", "gone"}
    /\ told \in BOOLEAN
    /\ allowed \in BOOLEAN
    /\ ghost \in [asked: Rate, wantKey: BOOLEAN, asks: 0 .. MaxAsks]

Init ==
    /\ hand = [active |-> FALSE, stopped |-> FALSE, frame |-> None, key |-> FALSE, rate |-> None]
    /\ owner = "capture"
    /\ pc = [w \in Workers |-> "none"]
    /\ captured = None
    /\ work = NoWork
    /\ coder = NewCoder
    /\ chan = << >>
    /\ rx = "held"
    /\ told = FALSE
    /\ allowed \in BOOLEAN
    /\ ghost = [asked |-> StartRate, wantKey |-> TRUE, asks |-> 0]

(***************************************************************************)
(* Handoff: the critical sections.                                         *)
(***************************************************************************)
\* stop(): no frame and no control survives it.
Stopped == [hand EXCEPT !.stopped = TRUE, !.frame = None, !.key = FALSE, !.rate = None]

\* It ends the promises made to the session.
Stop == hand' = Stopped /\ ghost' = [asked |-> None, wantKey |-> FALSE, asks |-> 0]

Goto(w, label) == pc' = [pc EXCEPT ![w] = label]

\* A worker function returns: StopOnExit stops the handoff for a critical one.
Exit(w) == Goto(w, "done") /\ IF w \in Critical THEN Stop ELSE UNCHANGED <<hand, ghost>>

\* SyncSender::send and try_send of the media channel.
Room == Len(chan) < Capacity
Put(event) == chan' = Append(chan, event)

\* Handoff::next: what the encoder takes when it takes anything.
Pending == hand.frame # None \/ hand.key \/ hand.rate # None
Take == [frame |-> hand.frame, key |-> hand.key, rate |-> hand.rate]

\* Mutant: the request of the work is overwritten instead of merged.
MergeForgetsKey == [frame |-> IF hand.frame # None THEN hand.frame ELSE work.frame,
                    key |-> hand.key,
                    rate |-> IF hand.rate # None THEN hand.rate ELSE work.rate]

\* Mutant: the newer frame is taken and dropped.
MergeKeepsOldFrame == [frame |-> IF work.frame # None THEN work.frame ELSE hand.frame,
                       key |-> work.key \/ hand.key,
                       rate |-> IF hand.rate # None THEN hand.rate ELSE work.rate]

\* Handoff::reselect: a newer frame replaces the raw one, controls are merged.
Merge == [frame |-> IF hand.frame # None THEN hand.frame ELSE work.frame,
          key |-> work.key \/ hand.key,
          rate |-> IF hand.rate # None THEN hand.rate ELSE work.rate]
Emptied == [hand EXCEPT !.frame = None, !.key = FALSE, !.rate = None]

(***************************************************************************)
(* LinuxMediaSource::start: spawn the workers one after the other behind   *)
(* the gate, then open it.  A spawn that fails drops Workers, which stops  *)
(* and joins those already there.                                          *)
(***************************************************************************)
AfterSpawn == [capture |-> "encode", encode |-> "audio", audio |-> "activate"]

Spawn(w) ==
    /\ owner = w
    /\ Goto(w, "gate")
    /\ owner' = AfterSpawn[w]
    /\ UNCHANGED <<hand, captured, work, coder, chan, rx, told, allowed, ghost>>

SpawnFails ==
    /\ owner \in Workers
    /\ Stop
    /\ owner' = "joining"
    /\ UNCHANGED <<pc, captured, work, coder, chan, rx, told, allowed>>

\* capture_audio is off.
NoAudio ==
    /\ owner = "audio"
    /\ owner' = "activate"
    /\ UNCHANGED <<hand, pc, captured, work, coder, chan, rx, told, allowed, ghost>>

Activate ==
    /\ owner = "activate"
    /\ hand' = [hand EXCEPT !.active = TRUE]
    /\ owner' = "running"
    /\ UNCHANGED <<pc, captured, work, coder, chan, rx, told, allowed, ghost>>

\* Mutant: the wait at the gate does not look at the stop flag.
PassGateWhenActive(w) ==
    /\ pc[w] = "gate"
    /\ hand.active
    /\ Goto(w, "open")
    /\ UNCHANGED <<hand, owner, captured, work, coder, chan, rx, told, allowed, ghost>>

\* await_activation: a worker stopped at the gate leaves without StopOnExit.
PassGate(w) ==
    /\ pc[w] = "gate"
    /\ hand.active \/ hand.stopped
    /\ Goto(w, IF hand.stopped THEN "done" ELSE "open")
    /\ UNCHANGED <<hand, owner, captured, work, coder, chan, rx, told, allowed, ghost>>

(***************************************************************************)
(* LinuxMediaHandle: requests of the session, and stop with its joins.     *)
(***************************************************************************)
ForceKeyFrame ==
    /\ owner = "running" /\ ghost.asks < MaxAsks
    /\ ~hand.stopped                         \* otherwise MediaStopped, no effect
    /\ hand' = [hand EXCEPT !.key = TRUE]
    /\ ghost' = [ghost EXCEPT !.wantKey = TRUE, !.asks = @ + 1]
    /\ UNCHANGED <<owner, pc, captured, work, coder, chan, rx, told, allowed>>

UpdateBitrate(r) ==
    /\ owner = "running" /\ ghost.asks < MaxAsks
    /\ ~hand.stopped
    /\ hand' = [hand EXCEPT !.rate = r]
    /\ ghost' = [ghost EXCEPT !.asked = r, !.asks = @ + 1]
    /\ UNCHANGED <<owner, pc, captured, work, coder, chan, rx, told, allowed>>

HandleStop ==
    /\ owner = "running"
    /\ Stop
    /\ owner' = "joining"
    /\ UNCHANGED <<pc, captured, work, coder, chan, rx, told, allowed>>

AllDone == \A w \in Workers : pc[w] \in {"none", "done"}

Joined ==
    /\ owner = "joining"
    /\ AllDone
    /\ owner' = "stopped"
    /\ UNCHANGED <<hand, pc, captured, work, coder, chan, rx, told, allowed, ghost>>

(***************************************************************************)
(* native_media_error of a failing worker: stop, then report without       *)
(* waiting for room in the channel.                                        *)
(***************************************************************************)
Fails(w) ==
    /\ pc[w] = "fail"
    /\ Stop
    /\ Goto(w, "report")
    /\ UNCHANGED <<owner, captured, work, coder, chan, rx, told, allowed>>

Report(w) ==
    /\ pc[w] = "report"
    /\ Exit(w)
    /\ IF rx # "gone" /\ Room THEN Put("error") ELSE UNCHANGED chan
    /\ UNCHANGED <<owner, captured, work, coder, rx, told, allowed>>

(***************************************************************************)
(* The capture thread.  Its pacing between two frames is time only.        *)
(***************************************************************************)
\* A failed connect or capture is reported unless the pipeline is stopped.
CaptureFails ==
    /\ pc.capture \in {"open", "run"}
    /\ IF hand.stopped THEN Exit("capture") ELSE Goto("capture", "fail") /\ UNCHANGED <<hand, ghost>>
    /\ UNCHANGED <<owner, captured, work, coder, chan, rx, told, allowed>>

CaptureConnects ==
    /\ pc.capture = "open"
    /\ Goto("capture", "run")
    /\ UNCHANGED <<hand, owner, captured, work, coder, chan, rx, told, allowed, ghost>>

CaptureFrame ==
    /\ pc.capture = "run"
    /\ ~hand.stopped
    /\ captured < MaxFrame
    /\ captured' = captured + 1
    /\ Goto("capture", "publish")
    /\ UNCHANGED <<hand, owner, work, coder, chan, rx, told, allowed, ghost>>

CaptureEnds ==
    /\ pc.capture = "run"
    /\ hand.stopped
    /\ Exit("capture")
    /\ UNCHANGED <<owner, captured, work, coder, chan, rx, told, allowed>>

Publish ==
    /\ pc.capture = "publish"
    /\ IF hand.stopped
       THEN Exit("capture")
       ELSE /\ hand' = [hand EXCEPT !.frame = captured]
            /\ Goto("capture", "run")
            /\ UNCHANGED ghost
    /\ UNCHANGED <<owner, captured, work, coder, chan, rx, told, allowed>>

(***************************************************************************)
(* The encoder thread: run_encoder with the LinuxSessionEncoder.           *)
(***************************************************************************)
EncoderOpens(ok) ==
    /\ pc.encode = "open"
    /\ Goto("encode", IF ok THEN "next" ELSE "fail")
    /\ UNCHANGED <<hand, owner, captured, work, coder, chan, rx, told, allowed, ghost>>

\* run_encoder returns: its work and its codec are dropped.
Dropped == work' = NoWork /\ coder' = NewCoder

NextWork ==
    /\ pc.encode = "next"
    /\ IF hand.stopped
       THEN Exit("encode") /\ Dropped
       ELSE /\ Pending
            /\ work' = Take
            /\ hand' = Emptied
            /\ Goto("encode", "rate")
            /\ UNCHANGED <<coder, ghost>>
    /\ UNCHANGED <<owner, captured, chan, rx, told, allowed>>

\* Encoder::bitrate: the codec is reopened for a new rate, which drains the
\* old one and makes the next frame a key frame; the same rate changes nothing.
SetBitrate(drained) ==
    /\ pc.encode = "rate"
    /\ work' = [work EXCEPT !.rate = None]
    /\ IF work.rate \in {None, coder.rate}
       THEN /\ ~drained
            /\ UNCHANGED <<coder, ghost>>
       ELSE /\ coder' = [coder EXCEPT !.rate = work.rate, !.forced = TRUE]
            /\ ghost' = [ghost EXCEPT !.wantKey = ~hand.stopped]
    /\ Goto("encode", IF drained THEN "drain" ELSE "reselect")
    /\ UNCHANGED <<hand, owner, captured, chan, rx, told, allowed>>

\* emit: a send that blocks while the channel is full; a closed channel ends the worker.
Emit(from, to) ==
    /\ pc.encode = from
    /\ IF rx = "gone"
       THEN Exit("encode") /\ Dropped /\ UNCHANGED chan
       ELSE /\ Room
            /\ Put("video")
            /\ Goto("encode", to)
            /\ UNCHANGED <<hand, work, coder, ghost>>
    /\ UNCHANGED <<owner, captured, rx, told, allowed>>

Reselect ==
    /\ pc.encode = "reselect"
    /\ IF hand.stopped
       THEN Exit("encode") /\ Dropped
       ELSE /\ work' = Merge
            /\ hand' = Emptied
            /\ Goto("encode", IF Merge.rate = None THEN "submit" ELSE "rate")
            /\ UNCHANGED <<coder, ghost>>
    /\ UNCHANGED <<owner, captured, chan, rx, told, allowed>>

\* force_keyframe, then encode if there is a frame; the codec may hold its packet back.
Submit(packet) ==
    /\ pc.encode = "submit"
    /\ work' = NoWork
    /\ IF work.frame = None
       THEN /\ ~packet
            /\ coder' = [coder EXCEPT !.forced = @ \/ work.key]
            /\ UNCHANGED ghost
       ELSE /\ coder' = [coder EXCEPT !.forced = FALSE, !.last = work.frame]
            /\ ghost' = [ghost EXCEPT !.wantKey = @ /\ ~(coder.forced \/ work.key)]
    /\ Goto("encode", IF packet THEN "emit" ELSE "next")
    /\ UNCHANGED <<hand, owner, captured, chan, rx, told, allowed>>

\* A reopen or an encode that fails ends run_encoder with its error.
EncoderFails ==
    /\ \/ pc.encode = "rate" /\ work.rate # None
       \/ pc.encode = "submit" /\ work.frame # None
    /\ Goto("encode", "fail")
    /\ Dropped
    /\ UNCHANGED <<hand, owner, captured, chan, rx, told, allowed, ghost>>

(***************************************************************************)
(* The audio thread, which is not critical, and LatestAudio.               *)
(***************************************************************************)
AudioOpens ==
    /\ pc.audio = "open"
    /\ Goto("audio", "run")
    /\ UNCHANGED <<hand, owner, captured, work, coder, chan, rx, told, allowed, ghost>>

\* It cannot open the recorder, reading fails, or the pipeline is stopped.
AudioEnds ==
    /\ pc.audio \in {"open", "run"}
    /\ Goto("audio", "done")
    /\ UNCHANGED <<hand, owner, captured, work, coder, chan, rx, told, allowed, ghost>>

\* LatestAudio::publish: replace the block, announce it unless that was done.
AudioBlock ==
    /\ pc.audio = "run"
    /\ ~hand.stopped
    /\ told' = TRUE
    /\ Goto("audio", IF told THEN "run" ELSE "notify")
    /\ UNCHANGED <<hand, owner, captured, work, coder, chan, rx, allowed, ghost>>

\* Mutant: a rejected notification is forgotten.
AudioNotifyForgotten ==
    /\ pc.audio = "notify"
    /\ IF rx # "gone" /\ Room THEN Put("note") ELSE UNCHANGED chan
    /\ IF rx = "gone" THEN Stop /\ Goto("audio", "done")
       ELSE Goto("audio", "run") /\ UNCHANGED <<hand, ghost>>
    /\ UNCHANGED <<told, owner, captured, work, coder, rx, allowed>>

\* try_send of the notification; notification_rejected when there is no room.
AudioNotify ==
    /\ pc.audio = "notify"
    /\ \/ /\ rx = "gone"
          /\ Stop
          /\ Goto("audio", "done")
          /\ UNCHANGED <<chan, told>>
       \/ /\ rx # "gone" /\ Room
          /\ Put("note")
          /\ Goto("audio", "run")
          /\ UNCHANGED <<hand, told, ghost>>
       \/ /\ rx # "gone" /\ ~Room
          /\ told' = FALSE
          /\ Goto("audio", "run")
          /\ UNCHANGED <<hand, chan, ghost>>
    /\ UNCHANGED <<owner, captured, work, coder, rx, allowed>>

(***************************************************************************)
(* The consumer: the session's UDP sender thread.                          *)
(***************************************************************************)
SenderStarts ==
    /\ rx = "held"
    /\ rx' = "reading"
    /\ UNCHANGED <<hand, owner, pc, captured, work, coder, chan, told, allowed, ghost>>

\* One event.  A notification is discarded unread while audio is not allowed;
\* otherwise take_fresh empties the slot.  After an error nothing more is read.
Receive ==
    /\ rx = "reading"
    /\ chan # << >>
    /\ chan' = Tail(chan)
    /\ rx' = IF Head(chan) = "error" THEN "parked" ELSE rx
    /\ told' = (told /\ ~(Head(chan) = "note" /\ allowed))
    /\ UNCHANGED <<hand, owner, pc, captured, work, coder, allowed, ghost>>

\* The sender thread ends, or takes the receiver of another pipeline.
DropReceiver ==
    /\ rx # "gone"
    /\ rx' = "gone"
    /\ chan' = << >>
    /\ UNCHANGED <<hand, owner, pc, captured, work, coder, told, allowed, ghost>>

\* The session applies a changed permission.
SetAudioAllowed ==
    /\ owner = "running"
    /\ allowed' = ~allowed
    /\ UNCHANGED <<hand, owner, pc, captured, work, coder, chan, rx, told, ghost>>

Owner ==
    \/ \E w \in Workers : Spawn(w)
    \/ SpawnFails \/ NoAudio \/ Activate \/ HandleStop \/ Joined
Session == ForceKeyFrame \/ (\E r \in Rates : UpdateBitrate(r)) \/ SetAudioAllowed
Failure == \E w \in Critical : Fails(w) \/ Report(w)
Capture == CaptureConnects \/ CaptureFrame \/ CaptureEnds \/ Publish
Encode ==
    \/ \E ok \in BOOLEAN : EncoderOpens(ok)
    \/ NextWork \/ Reselect
    \/ \E p \in BOOLEAN : SetBitrate(p) \/ Submit(p)
    \/ Emit("drain", "reselect") \/ Emit("emit", "next")
Audio == AudioOpens \/ AudioBlock \/ AudioNotify \/ AudioEnds

Next ==
    \/ Owner \/ Session \/ Failure \/ (\E w \in Workers : PassGate(w))
    \/ Capture \/ CaptureFails
    \/ Encode \/ EncoderFails
    \/ Audio
    \/ SenderStarts \/ Receive \/ DropReceiver

Spec == Init /\ [][Next]_vars

(***************************************************************************)
(* Threads run (the operating system schedules them), a sender thread      *)
(* that reads goes on reading, and whoever stops the handle drops the      *)
(* receiver (MediaPipeline shows that the session does).  Nothing is       *)
(* assumed of failures, requests, the start of the sender, or the audio    *)
(* recorder except that it looks at the stop flag again.                   *)
(***************************************************************************)
Fairness ==
    /\ WF_vars(Owner /\ owner \notin {"running"})
    /\ WF_vars(Failure)
    /\ \A w \in Workers : WF_vars(PassGate(w))
    /\ WF_vars(Capture)
    /\ WF_vars(Encode)
    /\ WF_vars(AudioNotify)
    /\ WF_vars(hand.stopped /\ AudioEnds)
    /\ WF_vars(Receive)
    /\ WF_vars(owner = "joining" /\ DropReceiver)

FairSpec == Spec /\ Fairness

(***************************************************************************)
(* Properties.                                                             *)
(***************************************************************************)
\* A key frame that is owed (the session asked for one, the codec was opened
\* or reopened) is on its way: asked for in the handoff, in the encoder's work
\* or in the codec, until the codec gets a frame with the request.
KeyIntentKept ==
    ghost.wantKey => hand.key \/ (HasWork /\ work.key) \/ coder.forced

\* The newest bitrate asked for is the one that will be in force: superseded
\* requests are gone, wherever the newest one is.
NewestRateWins ==
    ghost.asked = IF hand.rate # None THEN hand.rate
            ELSE IF HasWork /\ work.rate # None THEN work.rate
            ELSE coder.rate

\* The newest frame is ahead: waiting frames are newer than the one in the
\* encoder's hands, which is newer than the last one encoded.
FramesInOrder ==
    /\ hand.frame # None => hand.frame > coder.last /\ (HasWork => hand.frame > work.frame)
    /\ HasWork /\ work.frame # None => work.frame > coder.last
    /\ coder.last <= captured /\ work.frame <= captured /\ hand.frame <= captured
    /\ pc.capture = "publish" =>
         captured > coder.last /\ captured > hand.frame /\ captured > work.frame

\* A critical worker that returned after the gate has stopped the pipeline.
CriticalExitStops ==
    \A w \in Critical : pc[w] \in {"report", "done"} => hand.stopped

\* What the handoff promises its users while it runs: key frame requests and
\* the newest bitrate survive every interleaving of control(), next(),
\* reselect() and a reopened codec; frames only move forward; and the
\* pipeline runs only while both critical workers do.
NothingAskedIsLost ==
    /\ ~hand.stopped /\ pc.encode # "fail" => KeyIntentKept /\ NewestRateWins /\ FramesInOrder
    /\ CriticalExitStops

\* The notification of the audio slot is in the channel or about to be sent.
Announced ==
    \/ pc.audio = "notify"
    \/ \E i \in 1 .. Len(chan) : chan[i] = "note"

\* LatestAudio's flag: the channel holds at most one notification, and a slot
\* marked as announced loses its notification only when the sender thread
\* discards it while audio is not allowed.
AudioAnnouncedOnce ==
    [][rx' # "gone" =>
         /\ told' /\ ~Announced' => ~allowed \/ (told /\ ~Announced)
         /\ \A i, j \in 1 .. Len(chan') : chan'[i] = "note" /\ chan'[j] = "note" => i = j]_vars

\* The comment on LatestAudio, "One notification represents the slot, not the
\* block present when queued": a slot marked as announced has its
\* notification.  Without it the recorder announces no later block either, and
\* with audio allowed (again) none is ever sent.
AnnouncedSlotIsHeard == rx = "reading" /\ allowed /\ told => Announced

\* A published frame, or one that replaced it, is encoded as long as the
\* pipeline runs and the channel is read.
NewestFrameIsEncoded ==
    \A n \in 1 .. MaxFrame :
        hand.frame = n ~> coder.last >= n \/ hand.stopped \/ rx # "reading"

\* One failing critical worker ends all of them unless the encoder is blocked
\* on a channel nobody reads; stopping the handle, also in the middle of the
\* start, always reaps every worker.
OneEndsAll ==
    /\ hand.stopped ~> AllDone \/ (rx \in {"held", "parked"} /\ ~Room)
    /\ owner = "joining" ~> owner = "stopped"
=============================================================================
