----------------------------- MODULE FrameQueue -----------------------------
(***************************************************************************)
(* The client's queue of encoded frames between the UDP receiver and the   *)
(* decoder (maho-app/src/frame_queue.rs, and the two threads around it in  *)
(* run_media_pipeline of the desktop shell).                               *)
(*                                                                         *)
(* A frame that is not a key frame can only be decoded after the frame     *)
(* before it. Frames arrive with gaps and late, their ids wrap around, the *)
(* queue is short, and decoding fails while more frames come in: the queue *)
(* decides which frames the decoder gets and when a key frame is asked     *)
(* for. An index n beside the id of a frame tells frames apart that the    *)
(* id does not; the code never sees it.                                    *)
(***************************************************************************)
EXTENDS Naturals, Sequences, FiniteSets

CONSTANTS
    Ring,           \* number of frame ids (2^32 in the code)
    Capacity,       \* FRAME_QUEUE_CAPACITY
    Epoch,          \* bound: indices are counted modulo Epoch
    Window,         \* bound: frames made since the newest one accepted
    MaxAir,         \* bound: frames on their way at a time
    None

ASSUME FrameQueueAssumption ==
    /\ Ring \in Nat /\ Ring > 3
    /\ Capacity \in Nat \ {0}
    /\ Epoch \in Nat /\ Epoch > 0
    /\ Window \in Nat /\ MaxAir \in Nat

Ids == 0 .. (Ring - 1)
Frames == [n : 0 .. (Epoch - 1), id : Ids, key : BOOLEAN]
ASSUME NoneIsNoFrame == None \notin Frames /\ None \notin Ids /\ None \notin 0 .. (Epoch - 1)

VARIABLES
    frames,         \* FrameQueueState.frames
    last,           \* FrameQueueState.last_frame_id
    recovering,     \* FrameQueueState.recovering
    stopped,        \* FrameQueueState.stopped
    ret,            \* the result of the latest push or decode_failed
    dec,            \* the decoder thread: "idle", "decoding", "failed", "gone"
    handed,         \* the frame the decoder got last
    ref,            \* the frame the decoder's state is that of, if any
    next,           \* the next frame the host encodes: its n and id
    air,            \* frames sent and not yet delivered or lost
    newest          \* index of the newest frame accepted, or None

queue == <<frames, last, recovering, stopped, ret>>
decoder == <<dec, handed, ref>>
host == <<next, air>>
vars == <<queue, decoder, host, newest>>

Succ(id) == IF id + 1 = Ring THEN 0 ELSE id + 1
\* id.wrapping_sub(last)
Advance(id, from) == IF id >= from THEN id - from ELSE id + Ring - from
Late(id) == LET a == Advance(id, last) IN last # None /\ (a = 0 \/ 2 * a >= Ring)

Follows(f, g) == f.id = Succ(g.id)
Lag(from) == IF next.n >= from THEN next.n - from ELSE next.n + Epoch - from

Init ==
    /\ frames = << >> /\ last = None
    /\ recovering = FALSE /\ stopped = FALSE /\ ret = FALSE
    /\ dec = "idle" /\ handed = None /\ ref = None
    /\ next = [n |-> 0, id |-> 1]
    /\ air = {}
    /\ newest = None

-----------------------------------------------------------------------------
(* The host and the network *)

\* Ids are compared over half a ring, so fewer frames than that may be lost in
\* a row or be late.
InRange ==
    /\ newest # None => Lag(newest) < Window
    /\ \A f \in air : Lag(f.n) < Window

Encode(key) ==
    /\ Cardinality(air) < MaxAir
    /\ InRange
    /\ air' = air \cup {[n |-> next.n, id |-> next.id, key |-> key]}
    /\ next' = [n |-> IF next.n + 1 = Epoch THEN 0 ELSE next.n + 1, id |-> Succ(next.id)]
    /\ UNCHANGED <<queue, decoder, newest>>

Lose(f) ==
    /\ f \in air
    /\ InRange
    /\ air' = air \ {f}
    /\ UNCHANGED <<queue, decoder, next, newest>>

-----------------------------------------------------------------------------
(* FrameQueue::push *)

\* Mutant: the flag is set before it is looked at.
AcceptAsksNever(f, gap) ==
    LET broken == gap \/ Len(frames) = Capacity
        kept == IF broken THEN << >> ELSE frames
    IN  /\ last' = f.id
        /\ ret' = FALSE
        /\ IF (recovering \/ broken) /\ ~ f.key
           THEN frames' = kept /\ recovering' = TRUE
           ELSE frames' = Append(kept, f) /\ recovering' = FALSE

\* Mutant: an overflow drops the frame that does not fit and nothing else.
AcceptDropsNewest(f, gap) ==
    LET broken == gap
        kept == IF broken THEN << >> ELSE frames
    IN  /\ last' = f.id
        /\ ret' = (broken /\ ~ recovering /\ ~ f.key)
        /\ IF (recovering \/ broken) /\ ~ f.key
           THEN frames' = kept /\ recovering' = TRUE
           ELSE /\ frames' = IF Len(kept) < Capacity THEN Append(kept, f) ELSE kept
                /\ recovering' = FALSE

\* Mutant: a key frame after a gap waits for the next one.
AcceptGapAlwaysWaits(f, gap) ==
    LET broken == gap \/ Len(frames) = Capacity
        kept == IF broken THEN << >> ELSE frames
    IN  /\ last' = f.id
        /\ ret' = (broken /\ ~ recovering)
        /\ IF broken \/ (recovering /\ ~ f.key)
           THEN frames' = kept /\ recovering' = TRUE
           ELSE frames' = Append(kept, f) /\ recovering' = FALSE

\* A frame that is not late: a gap or a full queue breaks the chain of pending
\* frames, and until a key frame comes the others are dropped. The first break
\* asks for a key frame, unless this is one.
Accept(f, gap) ==
    LET broken == gap \/ Len(frames) = Capacity
        kept == IF broken THEN << >> ELSE frames
    IN  /\ last' = f.id
        /\ ret' = (broken /\ ~ recovering /\ ~ f.key)
        /\ IF (recovering \/ broken) /\ ~ f.key
           THEN frames' = kept /\ recovering' = TRUE
           ELSE frames' = Append(kept, f) /\ recovering' = FALSE

\* Mutant: the gap is computed on ids as numbers, so none is seen at the turn of the ring.
PushGapUnwrapped(f) ==
    /\ f \in air
    /\ ~ stopped
    /\ air' = air \ {f}
    /\ IF Late(f.id)
       THEN ret' = FALSE /\ UNCHANGED <<frames, last, recovering, newest>>
       ELSE /\ Accept(f, last # None /\ f.id > last + 1)
            /\ newest' = f.n
    /\ UNCHANGED <<stopped, decoder, next>>

\* A late frame is refused before anything changes.
Push(f) ==
    /\ f \in air
    /\ ~ stopped
    /\ air' = air \ {f}
    /\ IF Late(f.id)
       THEN ret' = FALSE /\ UNCHANGED <<frames, last, recovering, newest>>
       ELSE /\ Accept(f, last # None /\ f.id # Succ(last))
            /\ newest' = f.n
    /\ UNCHANGED <<stopped, decoder, next>>

-----------------------------------------------------------------------------
(* The decoder thread *)

\* recv, recv_timeout
Recv ==
    /\ dec = "idle"
    /\ ~ stopped
    /\ frames # << >>
    /\ frames' = Tail(frames)
    /\ handed' = Head(frames)
    /\ dec' = "decoding"
    /\ UNCHANGED <<last, recovering, stopped, ret, ref, host, newest>>

\* Nothing but a key frame can be decoded without the frame before it.
DecodeOk ==
    /\ dec = "decoding"
    /\ handed.key \/ (ref # None /\ Follows(handed, ref))
    /\ ref' = handed
    /\ dec' = "idle"
    /\ UNCHANGED <<queue, handed, host, newest>>

DecodeFails ==
    /\ dec = "decoding"
    /\ ref' = None
    /\ dec' = "failed"
    /\ UNCHANGED <<queue, handed, host, newest>>

FirstKey == CHOOSE i \in 1 .. Len(frames) :
    frames[i].key /\ \A j \in 1 .. (i - 1) : ~ frames[j].key

\* Mutant: the frames behind a failed one are kept.
DecodeFailedKeepsQueue ==
    /\ dec = "failed"
    /\ dec' = "idle"
    /\ ret' = (~ recovering /\ frames = << >>)
    /\ recovering' = (recovering \/ frames = << >>)
    /\ UNCHANGED <<frames, last, stopped, handed, ref, host, newest>>

\* decode_failed: frames up to the next key frame depend on the one that
\* failed; without a key frame the whole queue does.
DecodeFailed ==
    /\ dec = "failed"
    /\ dec' = "idle"
    /\ IF stopped THEN ret' = FALSE /\ UNCHANGED <<frames, recovering>>
       ELSE IF \E i \in 1 .. Len(frames) : frames[i].key
       THEN /\ frames' = SubSeq(frames, FirstKey, Len(frames))
            /\ recovering' = FALSE
            /\ ret' = FALSE
       ELSE /\ frames' = << >>
            /\ ret' = ~ recovering
            /\ recovering' = TRUE
    /\ UNCHANGED <<last, stopped, handed, ref, host, newest>>

Stop ==
    /\ ~ stopped
    /\ stopped' = TRUE
    /\ frames' = << >>
    /\ UNCHANGED <<last, recovering, ret, decoder, host, newest>>

\* A waiting decoder is woken by stop and leaves; one that just got a frame
\* looks at the stop flag first.
DecoderLeaves ==
    /\ dec \in {"idle", "decoding"} /\ stopped
    /\ dec' = "gone"
    /\ UNCHANGED <<queue, handed, ref, host, newest>>

-----------------------------------------------------------------------------

Next ==
    \/ \E key \in BOOLEAN : Encode(key)
    \/ \E f \in air : Lose(f) \/ Push(f)
    \/ Recv \/ DecodeOk \/ DecodeFails \/ DecodeFailed
    \/ Stop \/ DecoderLeaves

Spec == Init /\ [][Next]_vars

KeyArrives == \E f \in air : f.key /\ ~ Late(f.id) /\ Push(f)

\* The encoder's GOP makes key frames again and again, and not every one of
\* them is lost or overtaken. The receiver reads what arrives and the decoder's
\* calls return.
FairSpec ==
    /\ Spec
    /\ SF_vars(Encode(TRUE)) /\ SF_vars(KeyArrives)
    /\ WF_vars(\E f \in air : Push(f))
    /\ WF_vars(Recv) /\ WF_vars(DecodeOk \/ DecodeFails) /\ WF_vars(DecodeFailed)
    /\ WF_vars(DecoderLeaves)

-----------------------------------------------------------------------------
(* Properties *)

\* The queue holds frames of the stream and never more than FRAME_QUEUE_CAPACITY.
TypeOK ==
    /\ frames \in Seq(Frames) /\ Len(frames) <= Capacity
    /\ last \in Ids \cup {None}
    /\ recovering \in BOOLEAN /\ stopped \in BOOLEAN /\ ret \in BOOLEAN
    /\ dec \in {"idle", "decoding", "failed", "gone"}
    /\ handed \in Frames \cup {None} /\ ref \in Frames \cup {None}
    /\ next \in [n : 0 .. (Epoch - 1), id : Ids]
    /\ air \subseteq Frames
    /\ newest \in 0 .. (Epoch - 1) \cup {None}

\* Pending frames form a chain: each is a key frame or follows the one before,
\* and a queue that waits for a key frame or was stopped is empty.
PendingIsChain ==
    /\ \A i \in 1 .. Len(frames) :
          i > 1 => frames[i].key \/ Follows(frames[i], frames[i - 1])
    /\ recovering \/ stopped => frames = << >>
    /\ frames # << >> => last = frames[Len(frames)].id

\* What is first in line can be decoded once the decoder is done with what it
\* has: a key frame, or the successor of the frame handed out last, unless that
\* one failed and the queue was told.
HeadIsNext ==
    /\ (frames # << >> /\ handed # None) =>
          Head(frames).key \/ Follows(Head(frames), handed)
    /\ (frames = << >> /\ handed # None /\ ~ recovering /\ ~ stopped) => last = handed.id
    /\ (dec = "idle" /\ handed # None /\ ref # handed) =>
          IF frames = << >> THEN recovering \/ stopped ELSE Head(frames).key

\* The decoder state between calls.
DecoderState ==
    /\ dec \in {"decoding", "failed"} => handed # None
    /\ dec = "failed" => ref = None
    /\ ref # None /\ dec \notin {"decoding", "gone"} => ref = handed

QueueInvariant == PendingIsChain /\ HeadIsNext /\ DecoderState

\* Across gaps, overflows and failed decodes, whatever the order of the two
\* threads, the decoder never gets a frame whose reference it lacks, except as
\* the first frame of all (a client that joined between key frames).
HandedIsDecodable ==
    [][handed' # handed =>
          \/ handed = None
          \/ handed'.key
          \/ ref # None /\ ref = handed /\ Follows(handed', ref)]_vars

\* The same with indices: a frame whose id came around the ring is not taken
\* for the successor of the one handed out before.
HandedInOrder ==
    [][(handed' # handed /\ handed # None /\ ~ handed'.key) =>
          handed'.n = IF handed.n + 1 = Epoch THEN 0 ELSE handed.n + 1]_vars

\* A key frame is asked for exactly when the queue starts to wait for one.
AsksOncePerRecovery ==
    [][(recovering' /\ ~ recovering => ret') /\ (ret' /\ ~ ret => recovering')]_vars

\* The stream comes back after every break.
Recovers == recovering ~> (~ recovering \/ stopped)

\* Stop reaches a decoder wherever it is.
StopEndsDecoder == stopped ~> dec = "gone"

\* The decoder thread is never left waiting: not for a key frame (FrameQueue::push after a
\* gap, an overflow or a failed decode), nor for the join of the receiver after stop().
DecoderNeverStuck == Recovers /\ StopEndsDecoder
=============================================================================
