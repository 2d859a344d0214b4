------------------------ MODULE NativeHandoffProofs ------------------------
(***************************************************************************)
(* The handoff keeps what it was asked for, for every number of frames,    *)
(* every set of bitrates and every capacity of the channel.                *)
(*                                                                         *)
(* NothingAskedIsLost together with the type invariant is inductive: its   *)
(* parts say where a request, the newest bitrate and the newest frame are  *)
(* at every program point of the encoder thread, which is what each step   *)
(* of the three threads needs to know.  At the end: the notification of    *)
(* the audio slot, which its flag stands for.                              *)
(***************************************************************************)
EXTENDS NativeHandoff, TLAPS

\* The encoder thread does not exist before start() spawned it, and it submits
\* a frame only with every bitrate request of its work applied.
EncoderPoint ==
    /\ owner \in {"capture", "encode"} => pc.encode = "none"
    /\ pc.encode = "submit" => work.rate = None

HandoffInv == TypeOK /\ EncoderPoint /\ NothingAskedIsLost

\* Handoff::stop and the exits of the workers keep the types.
LEMMA StopType ==
    ASSUME TypeOK, Stop
    PROVE  /\ hand' \in [active: BOOLEAN, stopped: BOOLEAN, frame: Frame, key: BOOLEAN, rate: Rate]
           /\ hand'.stopped
           /\ ghost' \in [asked: Rate, wantKey: BOOLEAN, asks: 0 .. MaxAsks]
  <1>1. 0 \in Frame /\ 0 \in 0 .. MaxAsks
    BY HandoffAssumption DEF Frame
  <1>2. hand' = [active |-> hand.active, stopped |-> TRUE, frame |-> 0, key |-> FALSE, rate |-> 0]
    BY DEF TypeOK, Stop, Stopped, None
  <1>3. ghost' = [asked |-> 0, wantKey |-> FALSE, asks |-> 0]
    BY DEF Stop, None
  <1>4. hand.active \in BOOLEAN
    BY DEF TypeOK
  <1>5. 0 \in Rate
    BY DEF Rate, None
  <1>6. hand'.stopped
    BY <1>2
  <1> QED BY <1>1, <1>2, <1>3, <1>4, <1>5, <1>6

\* So does a jump of a worker to one of the program points.
LEMMA GotoType ==
    ASSUME TypeOK, NEW w \in Workers, NEW l \in PC, Goto(w, l)
    PROVE  /\ pc' \in [Workers -> PC]
           /\ pc'[w] = l
           /\ \A v \in Workers : v # w => pc'[v] = pc[v]
  BY DEF TypeOK, Goto

\* What StopOnExit leaves behind.
LEMMA ExitType ==
    ASSUME TypeOK, NEW w \in Workers, Exit(w)
    PROVE  /\ pc' \in [Workers -> PC]
           /\ pc'[w] = "done"
           /\ \A v \in Workers : v # w => pc'[v] = pc[v]
           /\ hand' \in [active: BOOLEAN, stopped: BOOLEAN, frame: Frame, key: BOOLEAN, rate: Rate]
           /\ w \in Critical => hand'.stopped
           /\ w \notin Critical => hand' = hand
           /\ ghost' \in [asked: Rate, wantKey: BOOLEAN, asks: 0 .. MaxAsks]
  <1>1. "done" \in PC
    BY DEF PC
  <1>2. Goto(w, "done")
    BY DEF Exit
  <1>3. CASE w \in Critical
    BY <1>1, <1>2, <1>3, StopType, GotoType DEF Exit
  <1>4. CASE w \notin Critical
    BY <1>1, <1>2, <1>4, GotoType DEF Exit, TypeOK
  <1> QED BY <1>3, <1>4

\* The channel takes an event when it has room for it.
LEMMA PutType ==
    ASSUME TypeOK, NEW e \in {"video", "note", "error"}, Room, Put(e)
    PROVE  chan' \in Seq({"video", "note", "error"}) /\ Len(chan') <= Capacity
  BY HandoffAssumption DEF TypeOK, Room, Put

\* The workers' names and program points the actions mention.
LEMMA Names ==
    /\ "capture" \in Workers /\ "encode" \in Workers /\ "audio" \in Workers
    /\ "capture" \in Critical /\ "encode" \in Critical /\ "audio" \notin Critical
    /\ {"none", "gate", "open", "run", "publish", "next", "rate", "drain", "reselect",
        "submit", "emit", "notify", "fail", "report", "done"} \subseteq PC
  BY DEF Workers, Critical, PC

\* The encoder's work and its codec stay what they are.
LEMMA WorkType ==
    ASSUME TypeOK
    PROVE  /\ NoWork \in [frame: Frame, key: BOOLEAN, rate: Rate]
           /\ Take \in [frame: Frame, key: BOOLEAN, rate: Rate]
           /\ Merge \in [frame: Frame, key: BOOLEAN, rate: Rate]
           /\ NewCoder \in [rate: Rates, forced: BOOLEAN, last: Frame]
           /\ Emptied \in [active: BOOLEAN, stopped: BOOLEAN, frame: Frame, key: BOOLEAN, rate: Rate]
           /\ Emptied.stopped = hand.stopped
           /\ Emptied.frame = None /\ ~Emptied.key /\ Emptied.rate = None
  <1>1. None \in Frame /\ None \in Rate
    BY HandoffAssumption DEF Frame, Rate, None
  <1>2. /\ hand.active \in BOOLEAN /\ hand.stopped \in BOOLEAN /\ hand.frame \in Frame
        /\ hand.key \in BOOLEAN /\ hand.rate \in Rate
        /\ work.frame \in Frame /\ work.key \in BOOLEAN /\ work.rate \in Rate
    BY DEF TypeOK
  <1>0. hand \in [active: BOOLEAN, stopped: BOOLEAN, frame: Frame, key: BOOLEAN, rate: Rate]
    BY DEF TypeOK
  <1>3. Emptied \in [active: BOOLEAN, stopped: BOOLEAN, frame: Frame, key: BOOLEAN, rate: Rate]
    BY <1>0, <1>1 DEF Emptied
  <1>8. /\ Emptied.stopped = hand.stopped
        /\ Emptied.frame = None /\ ~Emptied.key /\ Emptied.rate = None
    BY <1>0 DEF Emptied
  <1>4. NoWork \in [frame: Frame, key: BOOLEAN, rate: Rate]
    BY <1>1 DEF NoWork
  <1>5. Take \in [frame: Frame, key: BOOLEAN, rate: Rate]
    BY <1>2 DEF Take
  <1>6. Merge \in [frame: Frame, key: BOOLEAN, rate: Rate]
    BY <1>2 DEF Merge
  <1>7. NewCoder \in [rate: Rates, forced: BOOLEAN, last: Frame]
    BY <1>1, HandoffAssumption DEF NewCoder
  <1> QED BY <1>1, <1>2, <1>3, <1>4, <1>5, <1>6, <1>7, <1>8

\* The initial state has the types.
LEMMA InitType == Init => TypeOK
  <1> SUFFICES ASSUME Init PROVE TypeOK
    OBVIOUS
  <1>1. None \in Frame /\ None \in Rate /\ 0 \in 0 .. MaxAsks /\ StartRate \in Rate
    BY HandoffAssumption DEF Frame, Rate, None
  <1>2. chan \in Seq({"video", "note", "error"}) /\ Len(chan) <= Capacity
    BY HandoffAssumption DEF Init
  <1>3. hand \in [active: BOOLEAN, stopped: BOOLEAN, frame: Frame, key: BOOLEAN, rate: Rate]
    BY <1>1 DEF Init
  <1>4. pc \in [Workers -> PC]
    BY Names DEF Init
  <1>5. work \in [frame: Frame, key: BOOLEAN, rate: Rate]
    BY <1>1 DEF Init, NoWork
  <1>6. coder \in [rate: Rates, forced: BOOLEAN, last: Frame]
    BY <1>1, HandoffAssumption DEF Init, NewCoder
  <1>7. ghost \in [asked: Rate, wantKey: BOOLEAN, asks: 0 .. MaxAsks]
    BY <1>1 DEF Init
  <1> QED BY <1>1, <1>2, <1>3, <1>4, <1>5, <1>6, <1>7 DEF TypeOK, Init
\* Every step keeps the types.
LEMMA TypeStep ==
    ASSUME TypeOK, [Next]_vars
    PROVE  TypeOK'
  <1> USE Names, WorkType, HandoffAssumption
  <1>1. ASSUME NEW w \in Workers, Spawn(w) PROVE TypeOK'
    BY <1>1, GotoType DEF TypeOK, Spawn, AfterSpawn, Workers
  <1>2. CASE SpawnFails
    BY <1>2, StopType DEF TypeOK, SpawnFails
  <1>3. CASE NoAudio
    BY <1>3 DEF TypeOK, NoAudio
  <1>4. CASE Activate
    BY <1>4 DEF TypeOK, Activate
  <1>5. CASE HandleStop
    BY <1>5, StopType DEF TypeOK, HandleStop
  <1>6. CASE Joined
    BY <1>6 DEF TypeOK, Joined
  <1>7. CASE ForceKeyFrame
    <2>1. ghost.asks + 1 \in 0 .. MaxAsks
      BY <1>7 DEF TypeOK, ForceKeyFrame
    <2>2. ghost' \in [asked: Rate, wantKey: BOOLEAN, asks: 0 .. MaxAsks]
      BY <1>7, <2>1 DEF TypeOK, ForceKeyFrame
    <2> QED BY <1>7, <2>2 DEF TypeOK, ForceKeyFrame
  <1>8. ASSUME NEW r \in Rates, UpdateBitrate(r) PROVE TypeOK'
    <2>1. ghost.asks + 1 \in 0 .. MaxAsks /\ r \in Rate
      BY <1>8 DEF TypeOK, UpdateBitrate, Rate
    <2>2. ghost' \in [asked: Rate, wantKey: BOOLEAN, asks: 0 .. MaxAsks]
      BY <1>8, <2>1 DEF TypeOK, UpdateBitrate
    <2> QED BY <1>8, <2>1, <2>2 DEF TypeOK, UpdateBitrate
  <1>9. CASE SetAudioAllowed
    BY <1>9 DEF TypeOK, SetAudioAllowed
  <1>10. ASSUME NEW w \in Critical, Fails(w) PROVE TypeOK'
    BY <1>10, StopType, GotoType DEF TypeOK, Fails, Critical, Workers
  <1>11. ASSUME NEW w \in Critical, Report(w) PROVE TypeOK'
    BY <1>11, ExitType, PutType DEF TypeOK, Report, Critical, Workers
  <1>12. ASSUME NEW w \in Workers, PassGate(w) PROVE TypeOK'
    BY <1>12, GotoType DEF TypeOK, PassGate
  <1>13. CASE CaptureConnects
    BY <1>13, GotoType DEF TypeOK, CaptureConnects
  <1>14. CASE CaptureFrame
    BY <1>14, GotoType DEF TypeOK, CaptureFrame, Frame
  <1>15. CASE CaptureEnds
    BY <1>15, ExitType DEF TypeOK, CaptureEnds
  <1>16. CASE Publish
    BY <1>16, ExitType, GotoType DEF TypeOK, Publish
  <1>17. CASE CaptureFails
    BY <1>17, ExitType, GotoType DEF TypeOK, CaptureFails
  <1>18. ASSUME NEW ok \in BOOLEAN, EncoderOpens(ok) PROVE TypeOK'
    BY <1>18, GotoType DEF TypeOK, EncoderOpens
  <1>19. CASE NextWork
    BY <1>19, ExitType, GotoType DEF TypeOK, NextWork, Dropped
  <1>20. CASE Reselect
    BY <1>20, ExitType, GotoType DEF TypeOK, Reselect, Dropped
  <1>21. ASSUME NEW p \in BOOLEAN, SetBitrate(p) PROVE TypeOK'
    <2>1. pc' \in [Workers -> PC]
      BY <1>21, GotoType DEF SetBitrate
    <2>2. work' \in [frame: Frame, key: BOOLEAN, rate: Rate]
      BY <1>21 DEF SetBitrate, TypeOK, Rate
    <2>3. /\ coder' \in [rate: Rates, forced: BOOLEAN, last: Frame]
          /\ ghost' \in [asked: Rate, wantKey: BOOLEAN, asks: 0 .. MaxAsks]
      <3>1. CASE work.rate \in {None, coder.rate}
        BY <1>21, <3>1 DEF SetBitrate, TypeOK
      <3>2. CASE work.rate \notin {None, coder.rate}
        <4>1. work.rate \in Rates
          BY <3>2 DEF TypeOK, Rate
        <4>2. coder' = [coder EXCEPT !.rate = work.rate, !.forced = TRUE]
          BY <1>21, <3>2 DEF SetBitrate
        <4>3. ghost' = [ghost EXCEPT !.wantKey = ~hand.stopped]
          BY <1>21, <3>2 DEF SetBitrate
        <4> QED BY <4>1, <4>2, <4>3 DEF TypeOK
      <3> QED BY <3>1, <3>2
    <2> QED BY <1>21, <2>1, <2>2, <2>3 DEF TypeOK, SetBitrate
  <1>22. ASSUME NEW p \in BOOLEAN, Submit(p) PROVE TypeOK'
    <2>1. pc' \in [Workers -> PC]
      BY <1>22, GotoType DEF Submit
    <2>2. work' \in [frame: Frame, key: BOOLEAN, rate: Rate]
      BY <1>22 DEF Submit
    <2>3. CASE work.frame = None
      <3>1. coder' \in [rate: Rates, forced: BOOLEAN, last: Frame]
        BY <1>22, <2>3 DEF Submit, TypeOK
      <3> QED BY <1>22, <2>1, <2>2, <2>3, <3>1 DEF TypeOK, Submit
    <2>4. CASE work.frame # None
      <3>1. coder' \in [rate: Rates, forced: BOOLEAN, last: Frame]
        BY <1>22, <2>4 DEF Submit, TypeOK
      <3>2. ghost' \in [asked: Rate, wantKey: BOOLEAN, asks: 0 .. MaxAsks]
        BY <1>22, <2>4 DEF Submit, TypeOK
      <3> QED BY <1>22, <2>1, <2>2, <3>1, <3>2 DEF TypeOK, Submit
    <2> QED BY <2>3, <2>4
  <1>23. CASE Emit("drain", "reselect")
    BY <1>23, ExitType, GotoType, PutType DEF TypeOK, Emit, Dropped
  <1>24. CASE Emit("emit", "next")
    BY <1>24, ExitType, GotoType, PutType DEF TypeOK, Emit, Dropped
  <1>25. CASE EncoderFails
    BY <1>25, GotoType DEF TypeOK, EncoderFails, Dropped
  <1>26. CASE AudioOpens
    BY <1>26, GotoType DEF TypeOK, AudioOpens
  <1>27. CASE AudioBlock
    BY <1>27, GotoType DEF TypeOK, AudioBlock
  <1>28. CASE AudioEnds
    BY <1>28, GotoType DEF TypeOK, AudioEnds
  <1>29. CASE AudioNotify
    <2>1. CASE rx = "gone"
      BY <1>29, <2>1, StopType, GotoType DEF TypeOK, AudioNotify
    <2>2. CASE rx # "gone" /\ Room
      BY <1>29, <2>2, GotoType, PutType DEF TypeOK, AudioNotify
    <2>3. CASE rx # "gone" /\ ~Room
      <3>1. Goto("audio", "run") /\ told' = FALSE
        BY <1>29, <2>3 DEF AudioNotify
      <3>2. UNCHANGED <<hand, chan, ghost, owner, captured, work, coder, rx, allowed>>
        BY <1>29, <2>3 DEF AudioNotify
      <3>3. pc' \in [Workers -> PC]
        BY <3>1, GotoType
      <3>4. told' \in BOOLEAN
        BY <3>1
      <3> QED BY <2>3, <3>2, <3>3, <3>4 DEF TypeOK
    <2> QED BY <2>1, <2>2, <2>3
  <1>30. CASE SenderStarts
    BY <1>30 DEF TypeOK, SenderStarts
  <1>31. CASE Receive
    BY <1>31 DEF TypeOK, Receive
  <1>32. CASE DropReceiver
    BY <1>32 DEF TypeOK, DropReceiver
  <1>33. CASE UNCHANGED vars
    BY <1>33 DEF TypeOK, vars
  <1> QED BY <1>1, <1>2, <1>3, <1>4, <1>5, <1>6, <1>7, <1>8, <1>9, <1>10, <1>11, <1>12, <1>13, <1>14, <1>15, <1>16, <1>17, <1>18, <1>19, <1>20, <1>21, <1>22, <1>23, <1>24, <1>25, <1>26, <1>27, <1>28, <1>29, <1>30, <1>31, <1>32, <1>33
          DEF Next, Owner, Session, Failure, Capture, Encode, Audio
-----------------------------------------------------------------------------

\* Once the handoff is stopped nothing is promised any more.
LEMMA StoppedKeeps ==
    ASSUME hand'.stopped
    PROVE  NothingAskedIsLost'
  BY DEF NothingAskedIsLost, CriticalExitStops

\* A step that leaves the requests, the frames and the encoder's side of the
\* program alone keeps the invariant.
LEMMA QuietKeeps ==
    ASSUME NothingAskedIsLost,
           UNCHANGED <<hand, work, coder, ghost, captured>>,
           pc'.encode = "fail" \/ (pc.encode # "fail" /\ (HasWork' <=> HasWork)),
           pc'.capture = "publish" => pc.capture = "publish",
           \A w \in Critical : pc'[w] \in {"report", "done"} =>
               hand.stopped \/ pc[w] \in {"report", "done"}
    PROVE  NothingAskedIsLost'
  <1>1. CriticalExitStops'
    BY DEF NothingAskedIsLost, CriticalExitStops
  <1>2. CASE pc'.encode = "fail"
    BY <1>1, <1>2 DEF NothingAskedIsLost
  <1>3. CASE pc.encode # "fail" /\ (HasWork' <=> HasWork) /\ pc'.encode # "fail" /\ ~hand.stopped
    <2>1. KeyIntentKept /\ NewestRateWins /\ FramesInOrder
      BY <1>3 DEF NothingAskedIsLost
    <2>2. KeyIntentKept'
      BY <1>3, <2>1 DEF KeyIntentKept
    <2>3. NewestRateWins'
      BY <1>3, <2>1 DEF NewestRateWins
    <2>4. FramesInOrder'
      BY <1>3, <2>1 DEF FramesInOrder
    <2> QED BY <1>1, <2>2, <2>3, <2>4 DEF NothingAskedIsLost
  <1> QED BY <1>1, <1>2, <1>3, StoppedKeeps DEF NothingAskedIsLost

\* The initial state owes the first key frame to the new codec.
LEMMA InitKeeps == Init => NothingAskedIsLost
  BY HandoffAssumption DEF Init, NothingAskedIsLost, KeyIntentKept, NewestRateWins, FramesInOrder,
     CriticalExitStops, NewCoder, NoWork, None, HasWork, Critical, Workers
\* Every step keeps what was asked for.
LEMMA InvStep ==
    ASSUME TypeOK, TypeOK', EncoderPoint, NothingAskedIsLost, [Next]_vars
    PROVE  NothingAskedIsLost'
  <1> SUFFICES ASSUME ~hand'.stopped PROVE NothingAskedIsLost'
    BY StoppedKeeps
  <1> USE Names, HandoffAssumption
  <1>0. CriticalExitStops
    BY DEF NothingAskedIsLost
  <1>1. ASSUME NEW w \in Workers, Spawn(w) PROVE NothingAskedIsLost'
    BY <1>1, QuietKeeps DEF TypeOK, EncoderPoint, Spawn, Goto, HasWork, Critical, Workers
  <1>2. CASE SpawnFails
    BY <1>2, StopType DEF SpawnFails
  <1>3. CASE NoAudio
    BY <1>3, QuietKeeps DEF TypeOK, NoAudio, Goto, HasWork, Critical, Workers
  <1>4. CASE Activate
    <2>1. /\ hand'.stopped = hand.stopped /\ hand'.frame = hand.frame
          /\ hand'.key = hand.key /\ hand'.rate = hand.rate
      BY <1>4 DEF Activate, TypeOK
    <2>2. UNCHANGED <<pc, work, coder, ghost, captured>>
      BY <1>4 DEF Activate
    <2> QED BY <2>1, <2>2 DEF NothingAskedIsLost, KeyIntentKept, NewestRateWins, FramesInOrder,
            CriticalExitStops, HasWork
  <1>5. CASE HandleStop
    BY <1>5, StopType DEF HandleStop
  <1>6. CASE Joined
    BY <1>6, QuietKeeps DEF TypeOK, Joined, Goto, HasWork, Critical, Workers
  <1>7. CASE ForceKeyFrame
    BY <1>7 DEF TypeOK, NothingAskedIsLost, KeyIntentKept, NewestRateWins, FramesInOrder, CriticalExitStops, HasWork, ForceKeyFrame
  <1>8. ASSUME NEW r \in Rates, UpdateBitrate(r) PROVE NothingAskedIsLost'
    BY <1>8 DEF TypeOK, NothingAskedIsLost, KeyIntentKept, NewestRateWins, FramesInOrder, CriticalExitStops, HasWork, UpdateBitrate, None
  <1>9. CASE SetAudioAllowed
    BY <1>9, QuietKeeps DEF TypeOK, SetAudioAllowed, Goto, HasWork, Critical, Workers
  <1>10. ASSUME NEW w \in Critical, Fails(w) PROVE NothingAskedIsLost'
    BY <1>10, StopType DEF Fails
  <1>11. ASSUME NEW w \in Critical, Report(w) PROVE NothingAskedIsLost'
    BY <1>11, ExitType DEF Report, Critical, Workers
  <1>12. ASSUME NEW w \in Workers, PassGate(w) PROVE NothingAskedIsLost'
    BY <1>12, QuietKeeps DEF TypeOK, PassGate, Goto, HasWork, Critical, Workers
  <1>13. CASE CaptureConnects
    BY <1>13, QuietKeeps DEF TypeOK, CaptureConnects, Goto, HasWork, Critical, Workers
  <1>14. CASE CaptureFrame
    BY <1>14 DEF TypeOK, NothingAskedIsLost, KeyIntentKept, NewestRateWins, FramesInOrder, CriticalExitStops, HasWork, CaptureFrame, Goto, Frame, Critical, Workers
  <1>15. CASE CaptureEnds
    BY <1>15, ExitType DEF CaptureEnds
  <1>16. CASE Publish
    <2>1. ~hand.stopped
      BY <1>16, ExitType DEF Publish
    <2>2. /\ hand' = [hand EXCEPT !.frame = captured] /\ Goto("capture", "run")
          /\ pc.capture = "publish"
          /\ UNCHANGED <<work, coder, ghost, captured>>
      BY <1>16, <2>1 DEF Publish
    <2>3. /\ hand'.frame = captured /\ hand'.key = hand.key /\ hand'.rate = hand.rate
          /\ pc'.capture = "run" /\ pc'.encode = pc.encode
      BY <2>2, GotoType DEF TypeOK
    <2>4. captured \in Nat /\ coder.last \in Nat /\ work.frame \in Nat
      BY DEF TypeOK, Frame
    <2> QED BY <1>0, <2>1, <2>2, <2>3, <2>4 DEF NothingAskedIsLost, KeyIntentKept,
            NewestRateWins, FramesInOrder, CriticalExitStops, HasWork, Critical, None
  <1>17. CASE CaptureFails
    <2>1. ~hand.stopped
      BY <1>17, ExitType DEF CaptureFails
    <2> QED BY <1>17, <2>1, QuietKeeps DEF TypeOK, CaptureFails, Goto, HasWork, Critical, Workers
  <1>18. ASSUME NEW ok \in BOOLEAN, EncoderOpens(ok) PROVE NothingAskedIsLost'
    BY <1>18, QuietKeeps DEF TypeOK, EncoderOpens, Goto, HasWork, Critical, Workers
  <1>19. CASE NextWork
    <2>1. ~hand.stopped
      BY <1>19, ExitType DEF NextWork
    <2>2. /\ work' = Take /\ hand' = Emptied /\ pc.encode = "next"
          /\ UNCHANGED <<coder, ghost, captured>>
      BY <1>19, <2>1 DEF NextWork
    <2>3. pc'.encode = "rate" /\ pc'.capture = pc.capture
      BY <1>19, <2>1, GotoType DEF NextWork
    <2>4. /\ hand'.frame = None /\ ~hand'.key /\ hand'.rate = None
          /\ work'.frame = hand.frame /\ work'.key = hand.key /\ work'.rate = hand.rate
      BY <2>2, WorkType DEF Take
    <2>5. captured \in Nat /\ coder.last \in Nat /\ work.frame \in Nat /\ hand.frame \in Nat
      BY DEF TypeOK, Frame
    <2>6. KeyIntentKept /\ NewestRateWins /\ FramesInOrder
      BY <2>1, <2>2 DEF NothingAskedIsLost
    <2>7. CriticalExitStops'
      BY <1>0, <2>1, <2>2, <2>3 DEF CriticalExitStops, Critical
    <2>8. KeyIntentKept'
      BY <2>2, <2>3, <2>4, <2>6 DEF KeyIntentKept, HasWork
    <2>9. NewestRateWins'
      BY <2>2, <2>3, <2>4, <2>6 DEF NewestRateWins, HasWork, None
    <2>10. FramesInOrder'
      BY <2>2, <2>3, <2>4, <2>5, <2>6 DEF FramesInOrder, HasWork, None
    <2> QED BY <2>7, <2>8, <2>9, <2>10 DEF NothingAskedIsLost
  <1>20. CASE Reselect
    <2>1. ~hand.stopped
      BY <1>20, ExitType DEF Reselect
    <2>2. /\ work' = Merge /\ hand' = Emptied /\ pc.encode = "reselect"
          /\ UNCHANGED <<coder, ghost, captured>>
      BY <1>20, <2>1 DEF Reselect
    <2>3. pc'.encode \in {"submit", "rate"} /\ pc'.capture = pc.capture
      BY <1>20, <2>1, GotoType DEF Reselect
    <2>4. /\ hand'.frame = None /\ ~hand'.key /\ hand'.rate = None
          /\ work'.frame = IF hand.frame # None THEN hand.frame ELSE work.frame
          /\ work'.key <=> work.key \/ hand.key
          /\ work'.rate = IF hand.rate # None THEN hand.rate ELSE work.rate
      BY <2>2, WorkType DEF Merge
    <2>5. captured \in Nat /\ coder.last \in Nat /\ work.frame \in Nat /\ hand.frame \in Nat
      BY DEF TypeOK, Frame
    <2>6. KeyIntentKept /\ NewestRateWins /\ FramesInOrder
      BY <2>1, <2>2 DEF NothingAskedIsLost
    <2>7. CriticalExitStops'
      BY <1>0, <2>1, <2>2, <2>3 DEF CriticalExitStops, Critical
    <2>8. KeyIntentKept'
      BY <2>2, <2>3, <2>4, <2>6 DEF KeyIntentKept, HasWork
    <2>9. NewestRateWins'
      BY <2>2, <2>3, <2>4, <2>6 DEF NewestRateWins, HasWork, None
    <2>10. FramesInOrder'
      BY <2>2, <2>3, <2>4, <2>5, <2>6 DEF FramesInOrder, HasWork, None
    <2> QED BY <2>7, <2>8, <2>9, <2>10 DEF NothingAskedIsLost
  <1>21. ASSUME NEW p \in BOOLEAN, SetBitrate(p) PROVE NothingAskedIsLost'
    <2>1. ~hand.stopped
      BY <1>21 DEF SetBitrate
    <2>2. /\ pc.encode = "rate" /\ UNCHANGED <<hand, captured>>
          /\ work' = [work EXCEPT !.rate = None]
      BY <1>21 DEF SetBitrate
    <2>3. pc'.encode \in {"drain", "reselect"} /\ pc'.capture = pc.capture
      BY <1>21, GotoType DEF SetBitrate
    <2>4. /\ work'.frame = work.frame /\ work'.key = work.key /\ work'.rate = None
          /\ coder'.last = coder.last /\ ghost'.asked = ghost.asked
          /\ coder'.rate = IF work.rate # None THEN work.rate ELSE coder.rate
          /\ coder'.forced \/ (coder' = coder /\ ghost' = ghost)
      <3>1. CASE work.rate \in {None, coder.rate}
        BY <1>21, <2>2, <3>1 DEF SetBitrate, TypeOK
      <3>2. CASE work.rate \notin {None, coder.rate}
        <4>1. coder' = [coder EXCEPT !.rate = work.rate, !.forced = TRUE]
          BY <1>21, <3>2 DEF SetBitrate
        <4>2. ghost' = [ghost EXCEPT !.wantKey = ~hand.stopped]
          BY <1>21, <3>2 DEF SetBitrate
        <4>3. coder'.last = coder.last /\ coder'.rate = work.rate /\ coder'.forced
          BY <4>1 DEF TypeOK
        <4>4. ghost'.asked = ghost.asked
          BY <4>2 DEF TypeOK
        <4>5. work'.frame = work.frame /\ work'.key = work.key /\ work'.rate = None
          BY <2>2 DEF TypeOK
        <4> QED BY <3>2, <4>3, <4>4, <4>5
      <3> QED BY <3>1, <3>2
    <2>5. captured \in Nat /\ coder.last \in Nat /\ work.frame \in Nat /\ hand.frame \in Nat
      BY DEF TypeOK, Frame
    <2>6. KeyIntentKept /\ NewestRateWins /\ FramesInOrder
      BY <2>1, <2>2 DEF NothingAskedIsLost
    <2>7. CriticalExitStops'
      BY <1>0, <2>1, <2>2, <2>3 DEF CriticalExitStops, Critical
    <2>8. KeyIntentKept'
      BY <2>2, <2>3, <2>4, <2>6 DEF KeyIntentKept, HasWork
    <2>9. NewestRateWins'
      BY <2>2, <2>3, <2>4, <2>6 DEF NewestRateWins, HasWork, None
    <2>10. FramesInOrder'
      BY <2>2, <2>3, <2>4, <2>5, <2>6 DEF FramesInOrder, HasWork, None
    <2> QED BY <2>7, <2>8, <2>9, <2>10 DEF NothingAskedIsLost
  <1>22. ASSUME NEW p \in BOOLEAN, Submit(p) PROVE NothingAskedIsLost'
    <2>1. ~hand.stopped
      BY <1>22 DEF Submit
    <2>2. /\ pc.encode = "submit" /\ UNCHANGED <<hand, captured>>
          /\ work' = NoWork
      BY <1>22 DEF Submit
    <2>3. pc'.encode \in {"emit", "next"} /\ pc'.capture = pc.capture
      BY <1>22, GotoType DEF Submit
    <2>4. /\ work'.frame = None
          /\ coder'.last = IF work.frame # None THEN work.frame ELSE coder.last
          /\ coder'.rate = coder.rate /\ ghost'.asked = ghost.asked
          /\ ghost'.wantKey => ghost.wantKey
          /\ ghost'.wantKey => (coder.forced \/ work.key => coder'.forced)
      <3>1. CASE work.frame = None
        BY <1>22, <3>1 DEF Submit, TypeOK, NoWork
      <3>2. CASE work.frame # None
        BY <1>22, <3>2 DEF Submit, TypeOK, NoWork
      <3> QED BY <3>1, <3>2
    <2>5. captured \in Nat /\ coder.last \in Nat /\ work.frame \in Nat /\ hand.frame \in Nat
      BY DEF TypeOK, Frame
    <2>6. KeyIntentKept /\ NewestRateWins /\ FramesInOrder
      BY <2>1, <2>2 DEF NothingAskedIsLost
    <2>7. CriticalExitStops'
      BY <1>0, <2>1, <2>2, <2>3 DEF CriticalExitStops, Critical
    <2>8. KeyIntentKept'
      <3>1. ghost'.wantKey => hand.key \/ coder'.forced
        BY <2>4, <2>6 DEF KeyIntentKept
      <3>2. hand' = hand
        BY <2>2
      <3> QED BY <3>1, <3>2 DEF KeyIntentKept
    <2>9. NewestRateWins'
      <3>1. work.rate = None
        BY <2>2 DEF EncoderPoint
      <3> QED BY <2>2, <2>3, <2>4, <2>6, <3>1 DEF NewestRateWins, HasWork
    <2>10. FramesInOrder'
      BY <2>2, <2>3, <2>4, <2>5, <2>6 DEF FramesInOrder, HasWork, None
    <2> QED BY <2>7, <2>8, <2>9, <2>10 DEF NothingAskedIsLost
  <1>23. CASE Emit("drain", "reselect")
    <2>1. rx # "gone"
      BY <1>23, ExitType DEF Emit
    <2> QED BY <1>23, <2>1, QuietKeeps DEF TypeOK, Emit, Goto, HasWork, Critical, Workers
  <1>24. CASE Emit("emit", "next")
    <2>1. rx # "gone"
      BY <1>24, ExitType DEF Emit
    <2> QED BY <1>24, <2>1, QuietKeeps DEF TypeOK, Emit, Goto, HasWork, Critical, Workers
  <1>25. CASE EncoderFails
    BY <1>25 DEF TypeOK, NothingAskedIsLost, KeyIntentKept, NewestRateWins, FramesInOrder, CriticalExitStops, HasWork, EncoderFails, Goto, Critical, Workers
  <1>26. CASE AudioOpens
    BY <1>26, QuietKeeps DEF TypeOK, AudioOpens, Goto, HasWork, Critical, Workers
  <1>27. CASE AudioBlock
    BY <1>27, QuietKeeps DEF TypeOK, AudioBlock, Goto, HasWork, Critical, Workers
  <1>28. CASE AudioEnds
    BY <1>28, QuietKeeps DEF TypeOK, AudioEnds, Goto, HasWork, Critical, Workers
  <1>29. CASE AudioNotify
    <2>1. rx # "gone"
      BY <1>29, StopType DEF AudioNotify
    <2> QED BY <1>29, <2>1, QuietKeeps DEF TypeOK, AudioNotify, Goto, HasWork, Critical, Workers
  <1>30. CASE SenderStarts
    BY <1>30, QuietKeeps DEF TypeOK, SenderStarts, Goto, HasWork, Critical, Workers
  <1>31. CASE Receive
    BY <1>31, QuietKeeps DEF TypeOK, Receive, Goto, HasWork, Critical, Workers
  <1>32. CASE DropReceiver
    BY <1>32, QuietKeeps DEF TypeOK, DropReceiver, Goto, HasWork, Critical, Workers
  <1>33. CASE UNCHANGED vars
    BY <1>33, QuietKeeps DEF vars, HasWork, Critical, TypeOK, Workers, NothingAskedIsLost, CriticalExitStops
  <1> QED BY <1>1, <1>2, <1>3, <1>4, <1>5, <1>6, <1>7, <1>8, <1>9, <1>10, <1>11, <1>12, <1>13, <1>14, <1>15, <1>16, <1>17, <1>18, <1>19, <1>20, <1>21, <1>22, <1>23, <1>24, <1>25, <1>26, <1>27, <1>28, <1>29, <1>30, <1>31, <1>32, <1>33
          DEF Next, Owner, Session, Failure, Capture, Encode, Audio
\* Every step keeps the encoder's program points.
LEMMA PointStep ==
    ASSUME TypeOK, EncoderPoint, [Next]_vars
    PROVE  EncoderPoint'
  <1> USE Names
  <1>1. ASSUME NEW w \in Workers, Spawn(w) PROVE EncoderPoint'
    BY <1>1, GotoType DEF EncoderPoint, Spawn, AfterSpawn, Workers
  <1>2. CASE SpawnFails
    BY <1>2 DEF EncoderPoint, SpawnFails
  <1>3. CASE NoAudio
    BY <1>3 DEF EncoderPoint, NoAudio
  <1>4. CASE Activate
    BY <1>4 DEF EncoderPoint, Activate
  <1>5. CASE HandleStop
    BY <1>5 DEF EncoderPoint, HandleStop
  <1>6. CASE Joined
    BY <1>6 DEF EncoderPoint, Joined
  <1>7. CASE ForceKeyFrame
    BY <1>7 DEF EncoderPoint, ForceKeyFrame
  <1>8. ASSUME NEW r \in Rates, UpdateBitrate(r) PROVE EncoderPoint'
    BY <1>8 DEF EncoderPoint, UpdateBitrate
  <1>9. CASE SetAudioAllowed
    BY <1>9 DEF EncoderPoint, SetAudioAllowed
  <1>10. ASSUME NEW w \in Critical, Fails(w) PROVE EncoderPoint'
    BY <1>10, GotoType DEF EncoderPoint, Fails, Critical, Workers
  <1>11. ASSUME NEW w \in Critical, Report(w) PROVE EncoderPoint'
    BY <1>11, ExitType DEF EncoderPoint, Report, Critical, Workers
  <1>12. ASSUME NEW w \in Workers, PassGate(w) PROVE EncoderPoint'
    BY <1>12, GotoType DEF EncoderPoint, PassGate
  <1>13. CASE CaptureConnects
    BY <1>13, GotoType DEF EncoderPoint, CaptureConnects
  <1>14. CASE CaptureFrame
    BY <1>14, GotoType DEF EncoderPoint, CaptureFrame
  <1>15. CASE CaptureEnds
    BY <1>15, ExitType DEF EncoderPoint, CaptureEnds
  <1>16. CASE Publish
    BY <1>16, GotoType, ExitType DEF EncoderPoint, Publish
  <1>17. CASE CaptureFails
    BY <1>17, GotoType, ExitType DEF EncoderPoint, CaptureFails
  <1>18. ASSUME NEW ok \in BOOLEAN, EncoderOpens(ok) PROVE EncoderPoint'
    BY <1>18, GotoType DEF EncoderPoint, EncoderOpens
  <1>19. CASE NextWork
    BY <1>19, GotoType, ExitType DEF EncoderPoint, NextWork
  <1>20. CASE Reselect
    BY <1>20, GotoType, ExitType DEF EncoderPoint, Reselect
  <1>21. ASSUME NEW p \in BOOLEAN, SetBitrate(p) PROVE EncoderPoint'
    BY <1>21, GotoType DEF EncoderPoint, SetBitrate
  <1>22. ASSUME NEW p \in BOOLEAN, Submit(p) PROVE EncoderPoint'
    BY <1>22, GotoType DEF EncoderPoint, Submit
  <1>23. CASE Emit("drain", "reselect")
    BY <1>23, GotoType, ExitType DEF EncoderPoint, Emit
  <1>24. CASE Emit("emit", "next")
    BY <1>24, GotoType, ExitType DEF EncoderPoint, Emit
  <1>25. CASE EncoderFails
    BY <1>25, GotoType DEF EncoderPoint, EncoderFails
  <1>26. CASE AudioOpens
    BY <1>26, GotoType DEF EncoderPoint, AudioOpens
  <1>27. CASE AudioBlock
    BY <1>27, GotoType DEF EncoderPoint, AudioBlock
  <1>28. CASE AudioEnds
    BY <1>28, GotoType DEF EncoderPoint, AudioEnds
  <1>29. CASE AudioNotify
    BY <1>29, GotoType DEF EncoderPoint, AudioNotify
  <1>30. CASE SenderStarts
    BY <1>30 DEF EncoderPoint, SenderStarts
  <1>31. CASE Receive
    BY <1>31 DEF EncoderPoint, Receive
  <1>32. CASE DropReceiver
    BY <1>32 DEF EncoderPoint, DropReceiver
  <1>33. CASE UNCHANGED vars
    BY <1>33 DEF EncoderPoint, vars
  <1> QED BY <1>1, <1>2, <1>3, <1>4, <1>5, <1>6, <1>7, <1>8, <1>9, <1>10, <1>11, <1>12, <1>13, <1>14, <1>15, <1>16, <1>17, <1>18, <1>19, <1>20, <1>21, <1>22, <1>23, <1>24, <1>25, <1>26, <1>27, <1>28, <1>29, <1>30, <1>31, <1>32, <1>33
          DEF Next, Owner, Session, Failure, Capture, Encode, Audio

-----------------------------------------------------------------------------

\* The three conjuncts together are an invariant of the pipeline.
THEOREM HandoffInvariant == Spec => []HandoffInv
  <1>1. Init => HandoffInv
    BY InitType, InitKeeps DEF HandoffInv, EncoderPoint, Init, Workers
  <1>2. HandoffInv /\ [Next]_vars => HandoffInv'
    BY TypeStep, PointStep, InvStep DEF HandoffInv
  <1> QED BY <1>1, <1>2, PTL DEF Spec

\* The state of the pipeline is well typed; in particular the media channel
\* never holds more than its capacity, whoever sends.
THEOREM HandoffTypeOK == Spec => []TypeOK
  BY HandoffInvariant, PTL DEF HandoffInv

\* Key frame requests, the newest bitrate and the order of frames survive every
\* interleaving of the session's control(), the capture's publish() and the
\* encoder's next() and reselect(), and no critical worker ends alone.
THEOREM HandoffKeepsRequests == Spec => []NothingAskedIsLost
  BY HandoffInvariant, PTL DEF HandoffInv
-----------------------------------------------------------------------------
(***************************************************************************)
(* The one notification of the audio slot.                                 *)
(***************************************************************************)
Notified == \E i \in 1 .. Len(chan) : chan[i] = "note"
OneNote == \A i, j \in 1 .. Len(chan) : chan[i] = "note" /\ chan[j] = "note" => i = j

\* The slot is marked from the block on until its notification is taken with leave to read,
\* and no second one is on its way to the channel while the first is in it.
OneAnnouncement ==
    rx # "gone" => /\ OneNote
                   /\ Notified => told /\ pc.audio # "notify"
                   /\ pc.audio = "notify" => told

\* The recorder does not exist before start() spawned it.
RecorderPoint == owner \in Workers => pc.audio = "none"

AudioInv == OneAnnouncement /\ RecorderPoint

\* What one step may do: the action of AudioAnnouncedOnce.
AnnouncedOnceStep ==
    rx' # "gone" =>
        /\ told' /\ ~Announced' => ~allowed \/ (told /\ ~Announced)
        /\ \A i, j \in 1 .. Len(chan') : chan'[i] = "note" /\ chan'[j] = "note" => i = j

\* Where the elements of the channel are after a send.
LEMMA SentAtTheEnd ==
    ASSUME NEW S, NEW q \in Seq(S), NEW e \in S
    PROVE  /\ Len(Append(q, e)) \in 1 .. Len(Append(q, e))
           /\ Append(q, e)[Len(Append(q, e))] = e
           /\ \A i \in 1 .. Len(q) : i \in 1 .. Len(Append(q, e)) /\ Append(q, e)[i] = q[i]
           /\ \A i \in 1 .. Len(Append(q, e)) :
                i = Len(Append(q, e)) \/ (i \in 1 .. Len(q) /\ Append(q, e)[i] = q[i])
  OBVIOUS

\* Where they are after a receive.
LEMMA ReadAtTheFront ==
    ASSUME NEW S, NEW q \in Seq(S), q # << >>
    PROVE  /\ 1 \in 1 .. Len(q) /\ Head(q) = q[1]
           /\ \A i \in 1 .. Len(Tail(q)) :
                /\ i + 1 \in 1 .. Len(q) /\ Tail(q)[i] = q[i + 1]
                /\ i \in Nat
           /\ \A i \in 1 .. Len(q) :
                i = 1 \/ (i - 1 \in 1 .. Len(Tail(q)) /\ Tail(q)[i - 1] = q[i])
  OBVIOUS

\* Steps that neither read nor write the notification.
LEMMA OthersAnnounceNothing ==
    ASSUME TypeOK, AudioInv, rx' = rx, told' = told,
           pc'.audio = pc.audio \/ (pc.audio # "notify" /\ pc'.audio # "notify"),
           owner' \in Workers => owner \in Workers /\ pc'.audio = pc.audio,
           chan' = chan \/ \E e \in {"video", "error"} : Put(e)
    PROVE  AudioInv' /\ AnnouncedOnceStep
  <1>1. RecorderPoint'
    BY DEF AudioInv, RecorderPoint
  <1>2. CASE chan' = chan
    BY <1>1, <1>2 DEF AudioInv, OneAnnouncement, AnnouncedOnceStep, Announced, Notified, OneNote
  <1>3. ASSUME NEW e \in {"video", "error"}, Put(e) PROVE AudioInv' /\ AnnouncedOnceStep
    <2>1. chan \in Seq({"video", "note", "error"}) /\ e \in {"video", "note", "error"} /\ e # "note"
      BY DEF TypeOK
    <2>2. chan' = Append(chan, e)
      BY <1>3 DEF Put
    <2>3. /\ \A i \in 1 .. Len(chan) : i \in 1 .. Len(chan') /\ chan'[i] = chan[i]
          /\ \A i \in 1 .. Len(chan') :
                chan'[i] = "note" => i \in 1 .. Len(chan) /\ chan'[i] = chan[i]
      BY <2>1, <2>2, SentAtTheEnd
    <2>4. Notified' <=> Notified
      BY <2>3 DEF Notified
    <2>5. OneNote => OneNote'
      BY <2>3 DEF OneNote
    <2>6. Announced' <=> Announced
      BY <2>4, Zenon DEF Announced, Notified
    <2> QED
      BY <1>1, <2>4, <2>5, <2>6 DEF AudioInv, OneAnnouncement, AnnouncedOnceStep, OneNote
  <1> QED BY <1>2, <1>3

\* notify_rejected, or a notification that found room.
LEMMA NotifyAnnounces ==
    ASSUME TypeOK, AudioInv, AudioNotify
    PROVE  AudioInv' /\ AnnouncedOnceStep
  <1> USE Names
  <1>0. /\ pc.audio = "notify" /\ owner' = owner /\ rx' = rx /\ owner \notin Workers
    BY DEF AudioNotify, AudioInv, RecorderPoint
  <1>1. RecorderPoint'
    BY <1>0 DEF RecorderPoint
  <1>2. CASE rx = "gone"
    BY <1>0, <1>1, <1>2 DEF AudioInv, OneAnnouncement, AnnouncedOnceStep
  <1>3. CASE rx # "gone" /\ Room /\ Put("note") /\ Goto("audio", "run") /\ told' = told
    <2>1. told /\ ~Notified
      BY <1>0, <1>3 DEF AudioInv, OneAnnouncement
    <2>2. chan \in Seq({"video", "note", "error"})
      BY DEF TypeOK
    <2>3. /\ Len(chan') \in 1 .. Len(chan') /\ chan'[Len(chan')] = "note"
          /\ \A i \in 1 .. Len(chan') : chan'[i] = "note" => i = Len(chan')
      <3>1. chan' = Append(chan, "note")
        BY <1>3 DEF Put
      <3> QED BY <2>1, <2>2, <3>1, SentAtTheEnd DEF Notified
    <2>4. pc'.audio = "run"
      BY <1>3, GotoType
    <2>5. OneNote' /\ Notified' /\ Announced'
      BY <2>3, Zenon DEF OneNote, Notified, Announced
    <2> QED
      BY <1>0, <1>1, <1>3, <2>1, <2>4, <2>5 DEF AudioInv, OneAnnouncement, AnnouncedOnceStep, OneNote
  <1>4. CASE told' = FALSE /\ Goto("audio", "run") /\ chan' = chan
    <2>1. pc'.audio = "run"
      BY <1>4, GotoType
    <2>2. rx # "gone" => ~Notified /\ OneNote
      BY <1>0 DEF AudioInv, OneAnnouncement
    <2> QED
      BY <1>0, <1>1, <1>4, <2>1, <2>2
      DEF AudioInv, OneAnnouncement, AnnouncedOnceStep, OneNote, Notified
  <1> QED BY <1>2, <1>3, <1>4 DEF AudioNotify

\* The sender thread takes an event; a notification it may not follow stays announced.
LEMMA ReceiveAnnounces ==
    ASSUME TypeOK, AudioInv, Receive
    PROVE  AudioInv' /\ AnnouncedOnceStep
  <1>0. /\ rx # "gone" /\ chan # << >> /\ chan' = Tail(chan) /\ pc' = pc /\ owner' = owner
        /\ told' = (told /\ ~(Head(chan) = "note" /\ allowed))
    BY DEF Receive
  <1>1. RecorderPoint'
    BY <1>0 DEF AudioInv, RecorderPoint
  <1>2. chan \in Seq({"video", "note", "error"})
    BY DEF TypeOK
  <1>3. /\ 1 \in 1 .. Len(chan) /\ Head(chan) = chan[1]
        /\ \A i \in 1 .. Len(chan') :
             i + 1 \in 1 .. Len(chan) /\ chan'[i] = chan[i + 1] /\ i \in Nat
        /\ \A i \in 1 .. Len(chan) :
             i = 1 \/ (i - 1 \in 1 .. Len(chan') /\ chan'[i - 1] = chan[i])
    BY <1>0, <1>2, ReadAtTheFront
  <1>4. /\ OneNote /\ (Notified => told /\ pc.audio # "notify")
        /\ pc.audio = "notify" => told
    BY <1>0 DEF AudioInv, OneAnnouncement
  <1>5. OneNote'
    <2>1. ASSUME NEW i \in 1 .. Len(chan'), NEW j \in 1 .. Len(chan'),
                 chan'[i] = "note", chan'[j] = "note"
          PROVE  i = j
      <3>0. /\ i + 1 \in 1 .. Len(chan) /\ chan[i + 1] = "note"
            /\ j + 1 \in 1 .. Len(chan) /\ chan[j + 1] = "note"
        BY <1>3, <2>1, Zenon
      <3>1. i + 1 = j + 1
        BY <1>4, <3>0, Zenon DEF OneNote
      <3>2. i \in Nat /\ j \in Nat
        BY <1>3
      <3> QED BY <3>1, <3>2
    <2> QED BY <2>1 DEF OneNote
  <1>6. Notified' => Notified
    BY <1>3 DEF Notified
  <1>7. CASE Head(chan) = "note"
    <2>1. ~Notified'
      <3>1. ASSUME NEW i \in 1 .. Len(chan'), chan'[i] = "note" PROVE FALSE
        <4>1. i + 1 = 1
          BY <1>3, <1>4, <1>7, <3>1 DEF OneNote
        <4>2. i \in 1 .. Len(chan') /\ Len(chan') \in Nat
          BY <1>0, <1>2
        <4> QED BY <4>1, <4>2
      <3> QED BY <3>1 DEF Notified
    <2>2. Notified
      BY <1>3, <1>7 DEF Notified
    <2>3. pc.audio # "notify" /\ told
      BY <1>4, <2>2
    <2>4. Announced
      BY <2>2, Zenon DEF Announced, Notified
    <2> QED
      BY <1>0, <1>1, <1>5, <1>7, <2>1, <2>3, <2>4
      DEF AudioInv, OneAnnouncement, AnnouncedOnceStep, OneNote
  <1>8. CASE Head(chan) # "note"
    <2>1. Notified => Notified'
      BY <1>3, <1>8 DEF Notified
    <2>2. Announced' <=> Announced
      BY <1>0, <1>6, <2>1, Zenon DEF Announced, Notified
    <2> QED
      BY <1>0, <1>1, <1>4, <1>5, <1>6, <1>8, <2>1, <2>2
      DEF AudioInv, OneAnnouncement, AnnouncedOnceStep, OneNote
  <1> QED BY <1>7, <1>8

\* Every step of the pipeline, its session and the sender thread.
LEMMA AudioStep ==
    ASSUME TypeOK, AudioInv, [Next]_vars
    PROVE  AudioInv' /\ AnnouncedOnceStep
  <1> USE Names
  <1>0. DOMAIN pc = Workers /\ (\A w \in Workers : w # "audio" => w \in Critical)
    BY DEF TypeOK, Workers, Critical
  <1>1. ASSUME NEW w \in Workers, Spawn(w) PROVE AudioInv' /\ AnnouncedOnceStep
    <2>1. owner = w /\ owner' = AfterSpawn[w] /\ rx' = rx /\ told' = told /\ chan' = chan
      BY <1>1 DEF Spawn
    <2>2. pc.audio = "none" /\ pc'.audio \in {"none", "gate"}
      <3>1. pc.audio = "none"
        BY <2>1 DEF AudioInv, RecorderPoint
      <3> QED BY <1>1, <3>1, GotoType DEF Spawn
    <2>3. owner' \in Workers => w # "audio"
      BY <2>1 DEF AfterSpawn, Workers
    <2>4. w # "audio" => pc'.audio = pc.audio
      BY <1>1, GotoType DEF Spawn
    <2> QED BY <2>1, <2>2, <2>3, <2>4, OthersAnnounceNothing
  <1>2. CASE SpawnFails \/ NoAudio \/ Activate \/ HandleStop \/ Joined
    <2>1. rx' = rx /\ told' = told /\ chan' = chan /\ pc' = pc /\ owner' \notin Workers
      BY <1>2 DEF SpawnFails, NoAudio, Activate, HandleStop, Joined, Workers
    <2> QED BY <2>1, OthersAnnounceNothing
  <1>3. CASE Session
    <2>1. rx' = rx /\ told' = told /\ chan' = chan /\ pc' = pc /\ owner' = owner
      BY <1>3 DEF Session, ForceKeyFrame, UpdateBitrate, SetAudioAllowed
    <2> QED BY <2>1, OthersAnnounceNothing
  <1>4. CASE Failure
    <2>1. PICK w \in Critical : Fails(w) \/ Report(w)
      BY <1>4 DEF Failure
    <2>2. w \in Workers /\ w # "audio"
      BY DEF Critical, Workers
    <2>3. pc'.audio = pc.audio
      BY <2>1, <2>2, GotoType, ExitType DEF Fails, Report
    <2>4. rx' = rx /\ told' = told /\ owner' = owner /\ (chan' = chan \/ Put("error"))
      BY <2>1 DEF Fails, Report
    <2> QED BY <2>3, <2>4, OthersAnnounceNothing
  <1>5. ASSUME NEW w \in Workers, PassGate(w) PROVE AudioInv' /\ AnnouncedOnceStep
    <2>1. rx' = rx /\ told' = told /\ chan' = chan /\ owner' = owner
      BY <1>5 DEF PassGate
    <2>2. \E l \in {"done", "open"} : Goto(w, l)
      BY <1>5 DEF PassGate
    <2>3. w # "audio" => pc'.audio = pc.audio
      BY <2>2, GotoType
    <2>4. w = "audio" => pc.audio = "gate" /\ pc'.audio \in {"done", "open"}
      BY <1>5, <2>2, GotoType DEF PassGate
    <2>5. w = "audio" => owner \notin Workers
      BY <2>4 DEF AudioInv, RecorderPoint
    <2> QED BY <2>1, <2>3, <2>4, <2>5, OthersAnnounceNothing
  <1>6. CASE Capture \/ CaptureFails
    <2>1. rx' = rx /\ told' = told /\ chan' = chan /\ owner' = owner
      BY <1>6 DEF Capture, CaptureFails, CaptureConnects, CaptureFrame, CaptureEnds, Publish
    <2>2. Exit("capture") \/ (\E l \in {"fail", "run", "publish"} : Goto("capture", l))
      BY <1>6 DEF Capture, CaptureFails, CaptureConnects, CaptureFrame, CaptureEnds, Publish
    <2>3. pc'.audio = pc.audio
      BY <2>2, GotoType, ExitType
    <2> QED BY <2>1, <2>3, OthersAnnounceNothing
  <1>7. CASE Encode \/ EncoderFails
    <2>1. rx' = rx /\ told' = told /\ owner' = owner /\ (chan' = chan \/ Put("video"))
      BY <1>7 DEF Encode, EncoderFails, EncoderOpens, NextWork, Reselect, SetBitrate, Submit, Emit
    <2>2. Exit("encode") \/ (\E l \in PC : Goto("encode", l))
      BY <1>7, Zenon DEF Encode, EncoderFails, EncoderOpens, NextWork, Reselect, SetBitrate, Submit, Emit, PC
    <2>3. pc'.audio = pc.audio
      BY <2>2, GotoType, ExitType
    <2> QED BY <2>1, <2>3, OthersAnnounceNothing
  <1>8. CASE AudioOpens \/ AudioEnds
    <2>1. rx' = rx /\ told' = told /\ chan' = chan /\ owner' = owner
      BY <1>8 DEF AudioOpens, AudioEnds
    <2>2. pc.audio \in {"open", "run"} /\ pc'.audio \in {"run", "done"}
      BY <1>8, GotoType DEF AudioOpens, AudioEnds
    <2>3. owner \notin Workers
      BY <2>2 DEF AudioInv, RecorderPoint
    <2> QED BY <2>1, <2>2, <2>3, OthersAnnounceNothing
  <1>9. CASE AudioBlock
    <2>1. /\ rx' = rx /\ told' = TRUE /\ chan' = chan /\ owner' = owner
          /\ pc'.audio = (IF told THEN "run" ELSE "notify") /\ pc.audio = "run"
      BY <1>9, GotoType DEF AudioBlock
    <2>2. RecorderPoint'
      BY <2>1 DEF AudioInv, RecorderPoint
    <2> QED
      BY <2>1, <2>2 DEF AudioInv, OneAnnouncement, AnnouncedOnceStep, Announced, Notified, OneNote
  <1>10. CASE AudioNotify
    BY <1>10, NotifyAnnounces
  <1>11. CASE SenderStarts \/ DropReceiver
    BY <1>11 DEF SenderStarts, DropReceiver, AudioInv, OneAnnouncement, RecorderPoint,
       AnnouncedOnceStep, Announced, Notified, OneNote
  <1>12. CASE Receive
    BY <1>12, ReceiveAnnounces
  <1>13. CASE UNCHANGED vars
    <2>1. rx' = rx /\ told' = told /\ chan' = chan /\ pc' = pc /\ owner' = owner
      BY <1>13 DEF vars
    <2> QED BY <2>1, OthersAnnounceNothing
  <1> QED
    BY <1>1, <1>2, <1>3, <1>4, <1>5, <1>6, <1>7, <1>8, <1>9, <1>10, <1>11, <1>12, <1>13
    DEF Next, Owner, Audio

\* LatestAudio's flag, for every capacity of the channel and however often the permission is
\* switched: the channel holds at most one notification, and an announced block loses its
\* notification only to a sender thread that may not send audio.
THEOREM HandoffAnnouncesOnce == Spec => AudioAnnouncedOnce
  <1>1. Init => AudioInv
    BY DEF Init, AudioInv, OneAnnouncement, RecorderPoint, OneNote, Notified, Workers
  <1>2. TypeOK /\ AudioInv /\ [Next]_vars => AudioInv'
    BY AudioStep
  <1>3. TypeOK /\ AudioInv /\ [Next]_vars =>
          [rx' # "gone" =>
             /\ told' /\ ~Announced' => ~allowed \/ (told /\ ~Announced)
             /\ \A i, j \in 1 .. Len(chan') :
                  chan'[i] = "note" /\ chan'[j] = "note" => i = j]_vars
    BY AudioStep DEF AnnouncedOnceStep
  <1> QED BY <1>1, <1>2, <1>3, HandoffTypeOK, PTL DEF Spec, AudioAnnouncedOnce
=============================================================================
