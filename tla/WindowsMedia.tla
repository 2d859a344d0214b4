---------------------------- MODULE WindowsMedia ----------------------------
(***************************************************************************)
(* The Windows host's media pipeline.  WindowsGpuMediaSource::start        *)
(* (media_gpu_windows.rs) duplicates the display on the GPU and opens an   *)
(* asynchronous hardware encoder; when either cannot be opened it falls    *)
(* back to WindowsMediaSource::start (session.rs), which captures into     *)
(* memory and encodes with a synchronous transform.  Both put a capture    *)
(* thread and an encoder thread around one native_pipeline::Handoff.       *)
(*                                                                         *)
(* Desktop duplication fails in ordinary use (a switch to the secure       *)
(* desktop, a new display mode), and the capture thread rebuilds it with   *)
(* capture_recovery.  The size of the newest captured frame travels to the *)
(* encoder in an atomic beside the handoff (frame_dims), so a frame and    *)
(* the size read for it need not belong together.                          *)
(*                                                                         *)
(* The two transforms are external: they hold up to Depth inputs, give     *)
(* outputs in order, make a key frame when asked to (or of their own       *)
(* accord) and may or may not mark it as a clean point.  Audio and the     *)
(* pointer share no state with the rest and are left out; the bounded      *)
(* media channel is NativeHandoff's subject.                               *)
(***************************************************************************)
EXTENDS Naturals, Sequences

CONSTANTS
    DeskModes,       \* display modes
    StartMode,       \* the one the session was configured for
    Nv12Len,         \* the NV12 length of a frame of each mode
    AbortThreshold,  \* OTHER_FAILURE_ABORT_THRESHOLD
    PoolSize,        \* textures of a GpuCapture
    Depth,           \* inputs a transform holds
    MaxCaptures,     \* frames captured (bound)
    MaxDisturbances  \* mode changes, failures and requests of the session (bound)

ASSUME WindowsMediaAssumption ==
    /\ StartMode \in DeskModes /\ Nv12Len \in [DeskModes -> Nat \ {0}]
    /\ AbortThreshold \in Nat /\ PoolSize \in Nat \ {0} /\ Depth \in Nat \ {0}

VARIABLES
    desk,     \* the display's mode
    starter,  \* MediaSource::start and the handle: kind of pipeline, stage, the
              \* encoder's init result, encoder_ready
    hand,     \* Handoff<T>: stopped, frame, key, rate
    dims,     \* frame_dims
    cap,      \* the capture thread
    pools,    \* what the textures of each GpuCapture hold: a capture id, 0 for none
    enc,      \* the encoder thread and its transform
    channel,  \* the media channel: open, the kinds of pipeline whose Error is in it
    sentLog,     \* ghost: what was sent and asked for
    left      \* what is left of the bounds

mediaVars == <<desk, starter, hand, dims, cap, pools, enc, channel, sentLog, left>>

Failures == {"access_lost", "access_denied", "refresh_failure", "capture"}

NoFrame == [id |-> 0, mode |-> "none", gen |-> 0, slot |-> 0]
NoWork == [frame |-> NoFrame, key |-> FALSE, rate |-> FALSE]
FreshHand == [stopped |-> FALSE, frame |-> NoFrame, key |-> FALSE, rate |-> FALSE]
FreshCap(pc, mode) ==
    [pc |-> pc, mode |-> mode, id |-> 0, last |-> NoFrame, fails |-> 0, other |-> FALSE]
FreshTransform(mode) ==
    [mode |-> mode, forced |-> TRUE, first |-> FALSE, queue |-> << >>]
FreshEnc(mode) ==
    [pc |-> "open", work |-> NoWork, batch |-> << >>, pending |-> NoFrame,
     need |-> 0, ready |-> 0, tr |-> FreshTransform(mode)]

MediaInit ==
    /\ desk = StartMode
    /\ \E kind \in {"gpu", "cpu"} :           \* gpu_pipeline_requested
        starter = [kind |-> kind, stage |-> "open", init |-> "none", ready |-> FALSE]
    /\ hand = FreshHand
    /\ dims = desk
    /\ cap = FreshCap("none", desk)
    /\ pools = << >>
    /\ enc = [FreshEnc(desk) EXCEPT !.pc = "none"]
    /\ channel = [open |-> TRUE, errors |-> {}]
    /\ sentLog = [owed |-> FALSE, wrongKey |-> FALSE, badLength |-> FALSE, sent |-> 0]
    /\ left = [captures |-> MaxCaptures, disturbances |-> MaxDisturbances]

Disturb == left.disturbances > 0 /\ left' = [left EXCEPT !.disturbances = @ - 1]
Quiet == UNCHANGED left

\* Handoff::stop: no frame and no control survives it.
StoppedHand == [FreshHand EXCEPT !.stopped = TRUE]

\* native_media_error: the handoff is stopped, then the error is put into the channel.
ReportError ==
    /\ hand' = StoppedHand
    /\ channel' = IF channel.open THEN [channel EXCEPT !.errors = @ \cup {starter.kind}]
                                  ELSE channel

(***************************************************************************)
(* The desktop.                                                            *)
(***************************************************************************)
ChangeMode(m) ==
    /\ m # desk /\ ~hand.stopped /\ Disturb
    /\ desk' = m
    /\ UNCHANGED <<starter, hand, dims, cap, pools, enc, channel, sentLog>>

(***************************************************************************)
(* WindowsGpuMediaSource::start.                                           *)
(***************************************************************************)
\* Textures of a new GpuCapture hold nothing yet.
NewPool == [s \in 0 .. PoolSize - 1 |-> 0]

\* GpuCapture::new works: both workers are spawned and the gate opens.
StartGpu ==
    /\ starter.kind = "gpu" /\ starter.stage = "open"
    /\ starter' = [starter EXCEPT !.stage = "wait"]
    /\ pools' = Append(pools, NewPool)
    /\ cap' = FreshCap("ready", desk)
    /\ enc' = FreshEnc(desk)
    /\ dims' = desk
    /\ UNCHANGED <<desk, hand, channel, sentLog, left>>

\* GpuCapture::new fails: "cpu fallback: dxgi init".
NoGpuCapture ==
    /\ starter.kind = "gpu" /\ starter.stage = "open" /\ Disturb
    /\ starter' = [starter EXCEPT !.kind = "cpu"]
    /\ UNCHANGED <<desk, hand, dims, cap, pools, enc, channel, sentLog>>

\* init_rx: the encoder is up, the capture thread may go.
EncoderIsReady ==
    /\ starter.stage = "wait" /\ starter.init = "ok"
    /\ starter' = [starter EXCEPT !.stage = "running", !.ready = TRUE]
    /\ UNCHANGED <<desk, hand, dims, cap, pools, enc, channel, sentLog, left>>

\* init_rx: an error, or nothing for five seconds: the workers are stopped.
GiveUpGpu ==
    /\ starter.stage = "wait"
    /\ \/ starter.init = "failed" /\ Quiet
       \/ starter.init = "none" /\ Disturb
    /\ starter' = [starter EXCEPT !.stage = "fallback"]
    /\ hand' = StoppedHand
    /\ UNCHANGED <<desk, dims, cap, pools, enc, channel, sentLog>>

WorkersJoined == cap.pc = "done" /\ enc.pc = "done"

\* The workers are joined: self.cpu.start(sender), with the same channel.
FallBack ==
    /\ starter.stage = "fallback" /\ WorkersJoined
    /\ starter' = [starter EXCEPT !.kind = "cpu", !.stage = "open"]
    /\ hand' = FreshHand
    /\ pools' = << >>
    /\ UNCHANGED <<desk, dims, cap, enc, channel, sentLog, left>>

(***************************************************************************)
(* WindowsMediaSource::start.  It is sized by what the session configured. *)
(***************************************************************************)
StartCpu ==
    /\ starter.kind = "cpu" /\ starter.stage = "open"
    /\ starter' = [starter EXCEPT !.stage = "running"]
    /\ dims' = StartMode
    /\ cap' = FreshCap("open", StartMode)
    /\ enc' = FreshEnc(StartMode)
    /\ UNCHANGED <<desk, hand, pools, channel, sentLog, left>>

(***************************************************************************)
(* The handle: controls and stop.                                          *)
(***************************************************************************)
ForceKeyFrame ==
    /\ starter.stage = "running" /\ ~hand.stopped /\ Disturb
    /\ hand' = [hand EXCEPT !.key = TRUE]
    /\ sentLog' = [sentLog EXCEPT !.owed = TRUE]
    /\ UNCHANGED <<desk, starter, dims, cap, pools, enc, channel>>

UpdateBitrate ==
    /\ starter.stage = "running" /\ ~hand.stopped /\ Disturb
    /\ hand' = [hand EXCEPT !.rate = TRUE]
    /\ UNCHANGED <<desk, starter, dims, cap, pools, enc, channel, sentLog>>

\* The session ends the pipeline; its sender thread may have dropped the receiver before.
StopHandle ==
    /\ starter.stage = "running"
    /\ starter' = [starter EXCEPT !.stage = "joining"]
    /\ hand' = StoppedHand
    /\ UNCHANGED <<desk, dims, cap, pools, enc, channel, sentLog, left>>

ReceiverGone ==
    /\ starter.stage = "running" /\ channel.open
    /\ channel' = [open |-> FALSE, errors |-> {}]
    /\ UNCHANGED <<desk, starter, hand, dims, cap, pools, enc, sentLog, left>>

HandleStopped ==
    /\ starter.stage = "joining" /\ WorkersJoined
    /\ starter' = [starter EXCEPT !.stage = "stopped"]
    /\ UNCHANGED <<desk, hand, dims, cap, pools, enc, channel, sentLog, left>>

(***************************************************************************)
(* The capture thread.                                                     *)
(***************************************************************************)
CaptureOnly == UNCHANGED <<desk, starter, enc, sentLog>>
CaptureDone == cap' = FreshCap("done", StartMode)
CaptureExits == CaptureDone /\ hand' = StoppedHand

\* The GPU thread waits for the encoder before it blits.
AwaitEncoder ==
    /\ cap.pc = "ready" /\ (starter.ready \/ hand.stopped)
    /\ IF starter.ready /\ ~hand.stopped
       THEN cap' = [cap EXCEPT !.pc = "acquire"] /\ UNCHANGED hand
       ELSE CaptureExits
    /\ Quiet /\ CaptureOnly /\ UNCHANGED <<dims, pools, channel>>

\* WindowsCapture::new: the size probe before it may fail, then no frame is validated.
OpenCapture ==
    /\ cap.pc = "open"
    /\ \/ cap' = [cap EXCEPT !.pc = "acquire", !.mode = desk] /\ Quiet
          /\ UNCHANGED <<hand, channel>>
       \/ cap' = [cap EXCEPT !.pc = "acquire", !.mode = "none"] /\ Disturb
          /\ UNCHANGED <<hand, channel>>
       \/ CaptureDone /\ Disturb /\ ReportError
    /\ CaptureOnly /\ UNCHANGED <<dims, pools>>

CaptureSeesStop ==
    /\ cap.pc \in {"acquire", "recover"} /\ hand.stopped
    /\ CaptureExits
    /\ Quiet /\ CaptureOnly /\ UNCHANGED <<dims, pools, channel>>

Generation == Len(pools)

\* A frame of the next id.  On the GPU it is blitted into the slot of the id before it,
\* and the texture it carries is the slot of its own.
CapturedFrame ==
    IF starter.kind = "gpu"
    THEN [id |-> cap.id + 1, mode |-> desk, gen |-> Generation,
          slot |-> (cap.id + 1) % PoolSize]
    ELSE [NoFrame EXCEPT !.id = cap.id + 1, !.mode = desk]
Blit ==
    IF starter.kind = "gpu"
    THEN [pools EXCEPT ![Generation][cap.id % PoolSize] = cap.id + 1]
    ELSE pools

\* acquire_next_frame or acquire_and_blt: an update, with the size of the duplicated mode.
AcquireFrame ==
    /\ cap.pc = "acquire" /\ ~hand.stopped /\ left.captures > 0
    /\ cap.mode \in {desk, "none"}
    /\ pools' = Blit
    /\ dims' = desk
    /\ cap' = [cap EXCEPT !.pc = "publish", !.id = @ + 1, !.fails = 0, !.last = CapturedFrame]
    /\ left' = [left EXCEPT !.captures = @ - 1]
    /\ CaptureOnly /\ UNCHANGED <<hand, channel>>

\* The cursor was sent and the pixels were converted since; then Handoff::publish.
PublishFrame ==
    /\ cap.pc = "publish"
    /\ IF hand.stopped THEN CaptureExits
       ELSE /\ hand' = [hand EXCEPT !.frame = cap.last]
            /\ cap' = [cap EXCEPT !.pc = "acquire"]
    /\ Quiet /\ CaptureOnly /\ UNCHANGED <<dims, pools, channel>>

\* Timeout: the last frame is published again, as a repeat.
KeepAlive ==
    /\ cap.pc = "acquire" /\ ~hand.stopped /\ cap.last # NoFrame
    /\ hand.frame # cap.last
    /\ hand' = [hand EXCEPT !.frame = cap.last]
    /\ Quiet /\ CaptureOnly /\ UNCHANGED <<dims, cap, pools, channel>>

\* bgra_to_nv12 fails, on the CPU path alone.
ConversionFails ==
    /\ cap.pc = "publish" /\ starter.kind = "cpu" /\ Disturb
    /\ CaptureDone
    /\ ReportError
    /\ CaptureOnly /\ UNCHANGED <<dims, pools>>

\* The duplication was lost with the mode it was made for, or the frame does not have the
\* size that was probed.
AcquireFails ==
    /\ cap.pc = "acquire" /\ ~hand.stopped
    /\ \E failure \in Failures :
        /\ \/ cap.mode \notin {desk, "none"} /\ failure \in {"access_lost", "capture"} /\ Quiet
           \/ Disturb
        /\ cap' = [cap EXCEPT !.pc = "recover", !.other = (failure = "capture")]
    /\ CaptureOnly /\ UNCHANGED <<hand, dims, pools, channel>>

\* should_abort_capture.
ShouldAbort == cap.other /\ cap.fails >= AbortThreshold

Abort ==
    /\ cap.pc = "recover" /\ ~hand.stopped /\ ShouldAbort
    /\ CaptureDone
    /\ ReportError
    /\ Quiet /\ CaptureOnly /\ UNCHANGED <<dims, pools>>

\* After the backoff the duplication is made anew; the count of failures goes up either way.
Reacquire ==
    /\ cap.pc = "recover" /\ ~hand.stopped /\ ~ShouldAbort
    /\ LET counted == [cap EXCEPT !.fails = IF @ > AbortThreshold THEN @ ELSE @ + 1]
       IN  \/ /\ cap' = [counted EXCEPT !.pc = "acquire", !.mode = desk]
              /\ pools' = IF starter.kind = "gpu" THEN Append(pools, NewPool) ELSE pools
              /\ Quiet
           \/ cap' = counted /\ UNCHANGED pools /\ Disturb
    /\ CaptureOnly /\ UNCHANGED <<hand, dims, channel>>

(***************************************************************************)
(* The transforms, and the label of an output.                             *)
(***************************************************************************)
\* An input is encoded as a key frame when one is forced, when none came out yet, or when
\* the transform's own interval says so; each key frame may be marked as a clean point.
Inputs(tr, frame, force) ==
    {[frame |-> frame, force |-> force, key |-> force \/ ~tr.first \/ periodic,
      clean |-> (force \/ ~tr.first \/ periodic) /\ marked]
       : periodic, marked \in BOOLEAN}

\* Mutant: the label is taken from the encoder's flag, not from the input's metadata.
LabelByFlag(tr, out) == out.clean \/ tr.forced \/ ~tr.first

\* MediaFoundationEncoder::take_output: the label belongs to the input.
CpuLabel(tr, out) == out.clean \/ out.force \/ ~tr.first

\* HwMftEncoder::take_output: the label belongs to the encoder.
HwLabel(tr, out) == out.clean \/ tr.forced \/ ~tr.first

\* An output leaves the transform: a key frame ends the force.
AfterOutput(tr, label) ==
    [tr EXCEPT !.queue = Tail(@), !.forced = @ /\ ~label, !.first = @ \/ label]

\* What the ghost notes when the input is accepted and when its output is labelled.
NoteInput(key) == [sentLog EXCEPT !.owed = @ /\ ~key]

EncoderOnly == UNCHANGED <<desk, cap, pools, dims>>
EncoderExits == enc' = [FreshEnc(StartMode) EXCEPT !.pc = "done"]

(***************************************************************************)
(* The CPU encoder thread: run_encoder over WindowsSessionEncoder.         *)
(***************************************************************************)
OpenCpuEncoder ==
    /\ enc.pc = "open" /\ starter.kind = "cpu"
    /\ \/ enc' = [enc EXCEPT !.pc = "next"] /\ Quiet /\ UNCHANGED <<hand, channel>>
       \/ EncoderExits /\ Disturb /\ ReportError
    /\ EncoderOnly /\ UNCHANGED <<starter, sentLog>>

\* Handoff::next.
NextWork ==
    /\ enc.pc = "next" /\ starter.kind = "cpu"
    /\ \/ /\ hand.stopped /\ EncoderExits /\ UNCHANGED hand
       \/ /\ ~hand.stopped /\ (hand.frame # NoFrame \/ hand.key \/ hand.rate)
          /\ enc' = [enc EXCEPT !.pc = "rate",
                        !.work = [frame |-> hand.frame, key |-> hand.key, rate |-> hand.rate]]
          /\ hand' = FreshHand
    /\ Quiet /\ EncoderOnly /\ UNCHANGED <<starter, channel, sentLog>>

\* MediaFoundationEncoder::update_bitrate: set at run time, or the transform is built anew
\* and what it held is gone.
ApplyBitrate ==
    /\ enc.pc = "rate"
    /\ IF ~enc.work.rate
       THEN enc' = [enc EXCEPT !.pc = "reselect"] /\ Quiet /\ UNCHANGED <<hand, channel>>
       ELSE \/ /\ \E rebuilt \in BOOLEAN :
                    enc' = [enc EXCEPT !.pc = "reselect", !.work.rate = FALSE,
                              !.tr = IF rebuilt THEN FreshTransform(@.mode) ELSE @]
               /\ Quiet /\ UNCHANGED <<hand, channel>>
            \/ EncoderExits /\ Disturb /\ ReportError
    /\ EncoderOnly /\ UNCHANGED <<starter, sentLog>>

\* Handoff::reselect, and encoder.force_keyframe() when no bitrate came with it.
Reselect ==
    /\ enc.pc = "reselect"
    /\ IF hand.stopped THEN EncoderExits /\ UNCHANGED hand
       ELSE LET frame == IF hand.frame # NoFrame THEN hand.frame ELSE enc.work.frame
                key   == enc.work.key \/ hand.key
            IN  /\ hand' = FreshHand
                /\ enc' = IF hand.rate
                          THEN [enc EXCEPT !.pc = "rate",
                                  !.work = [frame |-> frame, key |-> key, rate |-> TRUE]]
                          ELSE [enc EXCEPT !.pc = IF frame = NoFrame THEN "next" ELSE "encode",
                                  !.work = [frame |-> frame, key |-> FALSE, rate |-> FALSE],
                                  !.tr.forced = @ \/ key]
    /\ Quiet /\ EncoderOnly /\ UNCHANGED <<starter, channel, sentLog>>

\* The frame has the length of the mode that frame_dims reports, and it is another mode.
ReportedFits ==
    dims # enc.tr.mode /\ Nv12Len[dims] = Nv12Len[enc.work.frame.mode]

\* WindowsSessionEncoder::encode up to the submission: a frame that does not have the
\* encoder's length is skipped as stale, or the encoder is rebuilt for it.
Encode ==
    /\ enc.pc = "encode"
    /\ LET fits == Nv12Len[enc.work.frame.mode] = Nv12Len[enc.tr.mode]
       IN  \/ /\ fits
              /\ enc' = [enc EXCEPT !.pc = "submit"] /\ Quiet /\ UNCHANGED <<hand, channel>>
           \/ /\ ~fits /\ ~ReportedFits
              /\ enc' = [enc EXCEPT !.pc = "next"] /\ Quiet /\ UNCHANGED <<hand, channel>>
           \/ /\ ~fits /\ ReportedFits
              /\ \/ /\ enc' = [enc EXCEPT !.pc = "submit", !.tr = FreshTransform(dims)]
                    /\ Quiet /\ UNCHANGED <<hand, channel>>
                 \/ EncoderExits /\ Disturb /\ ReportError
    /\ EncoderOnly /\ UNCHANGED <<starter, sentLog>>

\* encode_nv12 and submit_and_drain: process_input, or a rejection that drains first.
Submit ==
    /\ enc.pc \in {"submit", "retry"}
    /\ IF Nv12Len[enc.work.frame.mode] # Nv12Len[enc.tr.mode]
       THEN /\ EncoderExits /\ ReportError /\ sentLog' = [sentLog EXCEPT !.badLength = TRUE]
       ELSE /\ UNCHANGED <<hand, channel>>
            /\ IF Len(enc.tr.queue) < Depth
               THEN \E input \in Inputs(enc.tr, enc.work.frame, enc.tr.forced \/ enc.work.key) :
                      /\ enc' = [enc EXCEPT !.pc = "drain", !.work = NoWork,
                                   !.tr.queue = Append(@, input)]
                      /\ sentLog' = NoteInput(input.key)
               ELSE /\ enc' = [enc EXCEPT !.pc = "makeRoom", !.work.key = enc.tr.forced]
                    /\ UNCHANGED sentLog
    /\ Quiet /\ EncoderOnly /\ UNCHANGED starter

\* process_output: a frame, or NEED_MORE_INPUT (after a rejection, only with room made).
DrainOutput ==
    /\ enc.pc \in {"drain", "makeRoom"}
    /\ \/ /\ enc.tr.queue # << >>
          /\ LET out == Head(enc.tr.queue) IN
             /\ enc' = [enc EXCEPT !.tr = AfterOutput(@, CpuLabel(@, out)),
                                   !.batch = Append(@, out.frame.id)]
             /\ sentLog' = [sentLog EXCEPT !.wrongKey = @ \/ (CpuLabel(enc.tr, out) /\ ~out.key)]
       \/ /\ enc.pc = "drain" \/ Len(enc.tr.queue) < Depth
          /\ enc' = [enc EXCEPT !.pc = IF @ = "drain" THEN "emit" ELSE "retry"]
          /\ UNCHANGED sentLog
    /\ Quiet /\ EncoderOnly /\ UNCHANGED <<starter, hand, channel>>

\* A transform error: what was drained with it is dropped.
TransformFails ==
    /\ enc.pc \in {"submit", "drain", "makeRoom"} /\ Disturb
    /\ EncoderExits /\ ReportError
    /\ EncoderOnly /\ UNCHANGED <<starter, sentLog>>

\* emit: the packets go out one by one; a closed channel stops the pipeline.
EmitSample ==
    /\ enc.pc = "emit"
    /\ IF enc.batch = << >>
       THEN enc' = [enc EXCEPT !.pc = "next"] /\ UNCHANGED <<hand, sentLog>>
       ELSE IF channel.open
            THEN /\ enc' = [enc EXCEPT !.batch = Tail(@)]
                 /\ sentLog' = [sentLog EXCEPT !.sent = Head(enc.batch)]
                 /\ UNCHANGED hand
            ELSE EncoderExits /\ hand' = StoppedHand /\ UNCHANGED sentLog
    /\ Quiet /\ EncoderOnly /\ UNCHANGED <<starter, channel>>

(***************************************************************************)
(* The GPU encoder thread: its loop around MftScheduler.                   *)
(***************************************************************************)
\* HwMftEncoder::new and the result it sends to start().
OpenHwEncoder ==
    /\ enc.pc = "open" /\ starter.kind = "gpu"
    /\ \/ /\ enc' = [enc EXCEPT !.pc = "loop"] /\ Quiet
          /\ starter' = [starter EXCEPT !.init = "ok"]
          /\ UNCHANGED <<hand, channel>>
       \/ /\ EncoderExits /\ Disturb
          /\ starter' = [starter EXCEPT !.init = "failed"]
          /\ ReportError
    /\ EncoderOnly /\ UNCHANGED sentLog

\* METransformNeedInput and METransformHaveOutput, as pump_events counts them.
TransformAsks ==
    /\ starter.kind = "gpu" /\ enc.pc = "loop"
    /\ enc.need + Len(enc.tr.queue) < Depth
    /\ enc' = [enc EXCEPT !.need = @ + 1]
    /\ Quiet /\ EncoderOnly /\ UNCHANGED <<starter, hand, channel, sentLog>>

TransformDelivers ==
    /\ starter.kind = "gpu" /\ enc.pc \in {"loop", "flush"}
    /\ enc.ready < Len(enc.tr.queue)
    /\ enc' = [enc EXCEPT !.ready = @ + 1]
    /\ Quiet /\ EncoderOnly /\ UNCHANGED <<starter, hand, channel, sentLog>>

\* SchedulerAction::ProcessOutput comes first; while draining the stop is not looked at.
HwOutput ==
    /\ \/ enc.pc = "loop" /\ ~hand.stopped
       \/ enc.pc = "flush"
    /\ enc.ready > 0
    /\ LET out == Head(enc.tr.queue) IN
       /\ sentLog' = [sentLog EXCEPT !.sent = IF channel.open THEN out.frame.id ELSE @]
       /\ IF channel.open \/ enc.pc = "loop"
          THEN enc' = [enc EXCEPT !.tr = AfterOutput(@, HwLabel(@, out)), !.ready = @ - 1,
                                  !.pc = IF channel.open THEN @ ELSE "flush"]
          ELSE EncoderExits
       /\ hand' = IF channel.open THEN hand ELSE StoppedHand
    /\ Quiet /\ EncoderOnly /\ UNCHANGED <<starter, channel>>

\* SchedulerAction::SubmitInput.
HwSubmit ==
    /\ enc.pc = "loop" /\ ~hand.stopped
    /\ enc.ready = 0 /\ enc.need > 0 /\ enc.pending # NoFrame
    /\ \E input \in Inputs(enc.tr, enc.pending, enc.tr.forced) :
        /\ enc' = [enc EXCEPT !.tr.queue = Append(@, input), !.need = @ - 1,
                              !.pending = NoFrame]
        /\ sentLog' = NoteInput(input.key)
    /\ Quiet /\ EncoderOnly /\ UNCHANGED <<starter, hand, channel>>

\* pump_events, take_output, submit_frame or update_bitrate fails.
HwFails ==
    /\ enc.pc = "loop" /\ ~hand.stopped /\ Disturb
    /\ enc' = [enc EXCEPT !.pc = "flush"] /\ ReportError
    /\ EncoderOnly /\ UNCHANGED <<starter, sentLog>>

\* SchedulerAction::Wait: next_timeout with reselect right after it.  A bitrate only
\* changes the configuration.
HwNextWork ==
    /\ enc.pc = "loop" /\ ~hand.stopped
    /\ enc.ready = 0 /\ (enc.need = 0 \/ enc.pending = NoFrame)
    /\ hand.frame # NoFrame \/ hand.key \/ hand.rate
    /\ enc' = [enc EXCEPT !.tr.forced = @ \/ hand.key,
                 !.pending = IF hand.frame # NoFrame THEN hand.frame ELSE @]
    /\ hand' = FreshHand
    /\ Quiet /\ EncoderOnly /\ UNCHANGED <<starter, channel, sentLog>>

\* The loop is left: drain, for at most 60 ms, then the thread ends.
HwSeesStop ==
    /\ enc.pc = "loop" /\ hand.stopped
    /\ enc' = [enc EXCEPT !.pc = "flush"]
    /\ Quiet /\ EncoderOnly /\ UNCHANGED <<starter, hand, channel, sentLog>>

HwFlushed ==
    /\ enc.pc = "flush"
    /\ EncoderExits /\ hand' = StoppedHand
    /\ Quiet /\ EncoderOnly /\ UNCHANGED <<starter, channel, sentLog>>

MediaNext ==
    \/ \E m \in DeskModes : ChangeMode(m)
    \/ StartGpu \/ NoGpuCapture \/ EncoderIsReady \/ GiveUpGpu \/ FallBack \/ StartCpu
    \/ ForceKeyFrame \/ UpdateBitrate \/ StopHandle \/ ReceiverGone \/ HandleStopped
    \/ AwaitEncoder \/ OpenCapture \/ CaptureSeesStop \/ AcquireFrame \/ PublishFrame
    \/ KeepAlive \/ ConversionFails \/ AcquireFails \/ Abort \/ Reacquire
    \/ OpenCpuEncoder \/ NextWork \/ ApplyBitrate \/ Reselect \/ Encode \/ Submit
    \/ DrainOutput \/ TransformFails \/ EmitSample
    \/ OpenHwEncoder \/ TransformAsks \/ TransformDelivers \/ HwOutput \/ HwSubmit
    \/ HwNextWork \/ HwFails \/ HwSeesStop \/ HwFlushed

MediaSpec == MediaInit /\ [][MediaNext]_mediaVars

(***************************************************************************)
(* Properties.                                                             *)
(***************************************************************************)
\* The ids of the frames between the capture thread and the channel, oldest first.
InTransit ==
    LET id(f) == IF f = NoFrame THEN << >> ELSE <<f.id>>
    IN  <<sentLog.sent>> \o enc.batch
        \o [i \in DOMAIN enc.tr.queue |-> enc.tr.queue[i].frame.id]
        \o id(enc.pending) \o id(enc.work.frame) \o id(hand.frame)

\* Whatever the interleaving of mode changes, keepalive repeats, lost duplications and
\* controls: frames are never sent out of order; on the CPU path a frame that matches
\* neither the encoder's mode nor the reported one never kills the encoder ("Skip it
\* instead of killing the encoder worker", session.rs) and the transform takes no input
\* that is not as long as its mode's frames; an output called a key frame is one
\* ("Keyframe status belongs to the input that produced this sample", encode_windows.rs);
\* and a requested key frame stays on its way until an input was encoded as one.
WindowsMediaSafe ==
    /\ \A i \in 1 .. Len(InTransit) - 1 : InTransit[i] <= InTransit[i + 1]
    /\ ~sentLog.badLength
    /\ ~sentLog.wrongKey
    /\ starter.kind = "cpu" =>
        /\ \A i \in DOMAIN enc.tr.queue :
               Nv12Len[enc.tr.queue[i].frame.mode] = Nv12Len[enc.tr.mode]
        /\ sentLog.owed => hand.key \/ enc.work.key \/ enc.tr.forced \/ hand.stopped

\* encode_windows.rs: reconfigure "Rebuilds the transform when the desktop resolution
\* changes".  WindowsSessionEncoder::encode compares lengths, and two modes (1920x1080 and
\* 1080x1920) may have frames of one length: a frame then enters the other's transform.
EncodedInItsMode ==
    starter.kind = "cpu" =>
        \A i \in DOMAIN enc.tr.queue : enc.tr.queue[i].frame.mode = enc.tr.mode
=============================================================================
