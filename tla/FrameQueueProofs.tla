-------------------------- MODULE FrameQueueProofs --------------------------
(***************************************************************************)
(* The frame queue for every id range, capacity, number of frames and      *)
(* order of the two threads: the queue never exceeds its capacity, and the *)
(* decoder never gets a frame whose reference it lacks; and as long as the *)
(* network holds back fewer frames than the ring has ids, it gets them in  *)
(* the order they were encoded.                                            *)
(***************************************************************************)
EXTENDS FrameQueue, SequenceTheorems, WellFoundedInduction, TLAPS

(* Sequences of frames, element by element. *)
LEMMA AppendFrame ==
    ASSUME NEW s \in Seq(Frames), NEW f \in Frames
    PROVE  /\ Append(s, f) \in Seq(Frames)
           /\ Append(s, f) # << >>
           /\ Len(Append(s, f)) = Len(s) + 1
           /\ \A i \in 1 .. Len(s) : Append(s, f)[i] = s[i]
           /\ Append(s, f)[Len(s) + 1] = f
  BY AppendProperties

(* The same for taking the first frame. *)
LEMMA TailFrame ==
    ASSUME NEW s \in Seq(Frames), s # << >>
    PROVE  /\ Head(s) \in Frames /\ Head(s) = s[1]
           /\ Tail(s) \in Seq(Frames)
           /\ Len(s) > 0 /\ Len(Tail(s)) = Len(s) - 1
           /\ \A i \in 1 .. (Len(s) - 1) : Tail(s)[i] = s[i + 1]
  BY HeadTailProperties

(* decode_failed finds a pending key frame when there is one. *)
LEMMA FirstKeyExists ==
    ASSUME frames \in Seq(Frames), \E i \in 1 .. Len(frames) : frames[i].key
    PROVE  /\ FirstKey \in 1 .. Len(frames)
           /\ frames[FirstKey].key
<1> DEFINE K == {i \in 1 .. Len(frames) : frames[i].key}
<1>1. K \subseteq Nat /\ K # {}
  BY DEF K
<1>2. PICK i \in K : \A j \in K : ~ (<<j, i>> \in OpToRel(<, Nat))
  BY <1>1, NatLessThanWellFounded, WFMin
<1>3. \A j \in K : ~ (j < i)
  <2>1. SUFFICES ASSUME NEW j \in K, j < i PROVE FALSE
    OBVIOUS
  <2>2. <<j, i>> \in Nat \X Nat /\ <<j, i>>[1] < <<j, i>>[2]
    BY <1>1, <2>1
  <2> QED BY <1>2, <2>2 DEF OpToRel
<1>4. i \in 1 .. Len(frames) /\ frames[i].key /\ \A j \in 1 .. (i - 1) : ~ frames[j].key
  BY <1>3
<1> QED BY <1>4 DEF FirstKey

-----------------------------------------------------------------------------
(* Type correctness and the capacity *)

QInv == TypeOK /\ QueueInvariant

(* The empty queue has its type. *)
LEMMA InitType == Init => TypeOK
<1>1. << >> \in Seq(Frames) /\ Len(<< >>) = 0
  BY EmptySeq
<1>2. 0 \in 0 .. (Epoch - 1)
  BY FrameQueueAssumption
<1> SUFFICES ASSUME Init PROVE TypeOK
  OBVIOUS
<1>3. next \in [n : 0 .. (Epoch - 1), id : Ids]
  BY <1>2, FrameQueueAssumption DEF Init, Ids
<1>4. frames \in Seq(Frames) /\ Len(frames) <= Capacity
  <2>1. frames = << >>
    BY DEF Init
  <2> QED BY <1>1, <2>1, FrameQueueAssumption
<1>5. /\ last = None /\ newest = None /\ handed = None /\ ref = None /\ air = {}
      /\ recovering = FALSE /\ stopped = FALSE /\ ret = FALSE /\ dec = "idle"
  BY DEF Init
<1> QED BY <1>3, <1>4, <1>5 DEF TypeOK

(* An admitted frame leaves a queue of frames no longer than its capacity. *)
LEMMA AcceptType ==
    ASSUME TypeOK, NEW f \in Frames, NEW gap \in BOOLEAN, Accept(f, gap)
    PROVE  /\ frames' \in Seq(Frames) /\ Len(frames') <= Capacity
           /\ last' \in Ids
           /\ recovering' \in BOOLEAN /\ ret' \in BOOLEAN
<1> DEFINE broken == gap \/ Len(frames) = Capacity
           kept == IF broken THEN << >> ELSE frames
<1>1. kept \in Seq(Frames) /\ Len(kept) < Capacity
  <2>1. << >> \in Seq(Frames) /\ Len(<< >>) = 0
    BY EmptySeq
  <2>2. Len(frames) \in Nat
    BY LenProperties DEF TypeOK
  <2> QED BY <2>1, <2>2, FrameQueueAssumption DEF TypeOK
<1>2. Len(kept) \in Nat
  BY <1>1, LenProperties
<1>3. f.id \in Ids
  BY DEF Frames
<1>4. frames' = kept \/ frames' = Append(kept, f)
  BY DEF Accept
<1>5. recovering' \in BOOLEAN /\ ret' \in BOOLEAN /\ last' = f.id
  BY DEF Accept
<1> HIDE DEF kept
<1>6. frames' \in Seq(Frames) /\ Len(frames') <= Capacity
  BY <1>1, <1>2, <1>4, AppendFrame, FrameQueueAssumption
<1> QED BY <1>3, <1>5, <1>6

(* Every step keeps the types. *)
LEMMA NextType == TypeOK /\ [Next]_vars => TypeOK'
<1> SUFFICES ASSUME TypeOK, [Next]_vars PROVE TypeOK'
  OBVIOUS
<1>1. ASSUME NEW key \in BOOLEAN, Encode(key) PROVE TypeOK'
  <2>1. next.n \in 0 .. (Epoch - 1) /\ next.id \in Ids
    BY DEF TypeOK
  <2>2. [n |-> next.n, id |-> next.id, key |-> key] \in Frames
    BY <2>1 DEF Frames
  <2>3. Succ(next.id) \in Ids
    BY <2>1, FrameQueueAssumption DEF Ids, Succ
  <2>4. next' \in [n : 0 .. (Epoch - 1), id : Ids]
    BY <1>1, <2>1, <2>3, FrameQueueAssumption DEF Encode
  <2> QED BY <1>1, <2>2, <2>4 DEF Encode, TypeOK, queue, decoder
<1>2. ASSUME NEW f \in air, Lose(f) PROVE TypeOK'
  BY <1>2 DEF Lose, TypeOK, queue, decoder
<1>3. ASSUME NEW f \in air, Push(f) PROVE TypeOK'
  <2>1. f \in Frames /\ f.n \in 0 .. (Epoch - 1)
    BY DEF TypeOK, Frames
  <2>2. air' \subseteq Frames
    BY <1>3 DEF Push, TypeOK
  <2>3. CASE Late(f.id)
    BY <1>3, <2>2, <2>3 DEF Push, TypeOK, decoder
  <2>4. CASE ~ Late(f.id)
    <3> DEFINE gap == last # None /\ f.id # Succ(last)
    <3>1. gap \in BOOLEAN /\ Accept(f, gap) /\ newest' = f.n
      BY <1>3, <2>4 DEF Push
    <3>2. UNCHANGED <<stopped, dec, handed, ref, next>>
      BY <1>3 DEF Push, decoder
    <3> HIDE DEF gap
    <3> QED BY <2>1, <2>2, <3>1, <3>2, AcceptType DEF TypeOK
  <2> QED BY <2>3, <2>4
<1>4. CASE Recv
  <2>1. frames \in Seq(Frames) /\ frames # << >>
    BY <1>4 DEF Recv, TypeOK
  <2>2. frames' \in Seq(Frames) /\ handed' \in Frames /\ Len(frames') = Len(frames) - 1
    BY <1>4, <2>1, TailFrame DEF Recv
  <2>3. Len(frames) \in Nat
    BY <2>1, LenProperties
  <2>4. Len(frames') <= Capacity
    BY <2>2, <2>3, FrameQueueAssumption DEF TypeOK
  <2> QED BY <1>4, <2>2, <2>4 DEF Recv, TypeOK, host
<1>5. CASE DecodeOk
  BY <1>5 DEF DecodeOk, TypeOK, queue, host
<1>6. CASE DecodeFails
  BY <1>6 DEF DecodeFails, TypeOK, queue, host
<1>7. CASE DecodeFailed
  <2>1. frames' \in Seq(Frames) /\ Len(frames') <= Capacity
    <3>1. CASE stopped
      BY <1>7, <3>1 DEF DecodeFailed, TypeOK
    <3>2. CASE ~ stopped /\ \E i \in 1 .. Len(frames) : frames[i].key
      <4>1. frames' = SubSeq(frames, FirstKey, Len(frames))
        BY <1>7, <3>2 DEF DecodeFailed
      <4>2. FirstKey \in 1 .. Len(frames) /\ Len(frames) \in Nat
        BY <3>2, FirstKeyExists, LenProperties DEF TypeOK
      <4>3. \A i \in FirstKey .. Len(frames) : frames[i] \in Frames
        BY <4>2, ElementOfSeq DEF TypeOK
      <4>4. /\ frames' \in Seq(Frames)
            /\ Len(frames') = Len(frames) - FirstKey + 1
        BY <4>1, <4>2, <4>3, SubSeqProperties
      <4> QED BY <4>2, <4>4, FrameQueueAssumption DEF TypeOK
    <3>3. CASE ~ stopped /\ ~ \E i \in 1 .. Len(frames) : frames[i].key
      <4>1. frames' = << >>
        BY <1>7, <3>3 DEF DecodeFailed
      <4> QED BY <4>1, EmptySeq, FrameQueueAssumption
    <3> QED BY <3>1, <3>2, <3>3
  <2>2. recovering' \in BOOLEAN /\ ret' \in BOOLEAN
    BY <1>7 DEF DecodeFailed, TypeOK
  <2> QED BY <1>7, <2>1, <2>2 DEF DecodeFailed, TypeOK, host
<1>8. CASE Stop
  <2>1. frames' \in Seq(Frames) /\ Len(frames') <= Capacity
    BY <1>8, EmptySeq, FrameQueueAssumption DEF Stop
  <2> QED BY <1>8, <2>1 DEF Stop, TypeOK, decoder, host
<1>9. CASE DecoderLeaves
  BY <1>9 DEF DecoderLeaves, TypeOK, queue, host
<1>10. CASE UNCHANGED vars
  BY <1>10 DEF vars, TypeOK, queue, decoder, host
<1> QED BY <1>1, <1>2, <1>3, <1>4, <1>5, <1>6, <1>7, <1>8, <1>9, <1>10 DEF Next

-----------------------------------------------------------------------------
(* The queue invariant *)

(* No step of the host or the network touches what the invariant is about. *)
LEMMA QueueUnchanged ==
    ASSUME QueueInvariant, UNCHANGED <<frames, last, recovering, stopped, dec, handed, ref>>
    PROVE  QueueInvariant'
  BY DEF QueueInvariant, PendingIsChain, HeadIsNext, DecoderState, Follows

(* An admitted frame: what is kept behind a break is a key frame alone, and   *)
(* what is appended follows the last pending frame or, with none pending, the *)
(* frame the decoder has.                                                     *)
LEMMA AcceptInvariant ==
    ASSUME QInv, NEW f \in Frames, Accept(f, last # None /\ f.id # Succ(last)),
           ~ stopped, UNCHANGED <<stopped, dec, handed, ref>>
    PROVE  QueueInvariant'
<1> DEFINE gap == last # None /\ f.id # Succ(last)
           broken == gap \/ Len(frames) = Capacity
<1>1. /\ frames \in Seq(Frames) /\ Len(frames) \in Nat
      /\ last \in Ids \cup {None} /\ recovering \in BOOLEAN
      /\ last' = f.id /\ f.id \in Ids /\ f.key \in BOOLEAN
  BY LenProperties DEF QInv, TypeOK, Accept, Frames
<1>2. DecoderState'
  BY DEF QInv, QueueInvariant, DecoderState
<1>3. CASE (recovering \/ broken) /\ ~ f.key
  <2>1. frames' = << >> /\ recovering'
    BY <1>3 DEF Accept, QInv, QueueInvariant, PendingIsChain
  <2>2. PendingIsChain'
    BY <2>1 DEF PendingIsChain
  <2>3. HeadIsNext'
    BY <2>1 DEF HeadIsNext
  <2> QED BY <1>2, <2>2, <2>3 DEF QueueInvariant
<1>4. CASE ~ ((recovering \/ broken) /\ ~ f.key) /\ (broken \/ frames = << >>)
  <2>1. frames' = Append(<< >>, f) /\ recovering' = FALSE
    BY <1>4 DEF Accept
  <2>2. << >> \in Seq(Frames) /\ Len(<< >>) = 0
    BY EmptySeq
  <2>3. frames' # << >> /\ Len(frames') = 1 /\ frames'[1] = f /\ frames' \in Seq(Frames)
    BY <2>1, <2>2, AppendFrame
  <2>4. Head(frames') = f
    BY <2>3, TailFrame
  <2>5. f.key \/ (~ recovering /\ frames = << >> /\ ~ gap)
    BY <1>4
  <2>6. PendingIsChain'
    <3>1. \A i \in 1 .. Len(frames') : ~ (i > 1)
      BY <2>3
    <3> QED BY <1>1, <2>1, <2>3, <3>1 DEF PendingIsChain
  <2>7. f.key \/ (handed # None => Follows(f, handed))
    <3>1. CASE ~ f.key /\ handed # None
      <4>1. last = handed.id
        BY <2>5, <3>1 DEF QInv, QueueInvariant, HeadIsNext
      <4>2. handed \in Frames
        BY <3>1 DEF QInv, TypeOK
      <4>3. last # None
        BY <4>1, <4>2, NoneIsNoFrame DEF Frames
      <4> QED BY <2>5, <3>1, <4>1, <4>3 DEF Follows
    <3> QED BY <3>1
  <2>8. (dec = "idle" /\ handed # None /\ ref # handed) => f.key
    BY <2>5 DEF QInv, QueueInvariant, HeadIsNext
  <2>9. HeadIsNext'
    BY <2>3, <2>4, <2>7, <2>8 DEF HeadIsNext, Follows
  <2> QED BY <1>2, <2>6, <2>9 DEF QueueInvariant
<1>5. CASE ~ broken /\ frames # << >>
  <2>1. ~ recovering
    BY <1>5 DEF QInv, QueueInvariant, PendingIsChain
  <2>2. frames' = Append(frames, f) /\ recovering' = FALSE
    BY <1>5, <2>1 DEF Accept
  <2>3. Len(frames) > 0 /\ Head(frames) = frames[1]
    BY <1>1, <1>5, TailFrame
  <2>4. /\ frames' \in Seq(Frames) /\ frames' # << >>
        /\ Len(frames') = Len(frames) + 1
        /\ \A i \in 1 .. Len(frames) : frames'[i] = frames[i]
        /\ frames'[Len(frames) + 1] = f
    BY <1>1, <2>2, AppendFrame
  <2>5. Head(frames') = Head(frames)
    <3>1. Head(frames') = frames'[1]
      BY <2>4, TailFrame
    <3> QED BY <1>1, <2>3, <2>4, <3>1
  <2>6. Follows(f, frames[Len(frames)])
    <3>1. last = frames[Len(frames)].id
      BY <1>5 DEF QInv, QueueInvariant, PendingIsChain
    <3>2. frames[Len(frames)] \in Frames
      BY <1>1, <2>3, ElementOfSeq
    <3>3. last # None
      BY <3>1, <3>2, NoneIsNoFrame DEF Frames
    <3> QED BY <1>5, <3>1, <3>3 DEF Follows
  <2>7. PendingIsChain'
    <3>1. ASSUME NEW i \in 1 .. Len(frames'), i > 1
          PROVE  frames'[i].key \/ Follows(frames'[i], frames'[i - 1])
      <4>1. CASE i = Len(frames) + 1
        <5>1. frames'[i] = f /\ frames'[i - 1] = frames[Len(frames)]
          BY <1>1, <2>3, <2>4, <4>1
        <5> QED BY <2>6, <5>1
      <4>2. CASE i # Len(frames) + 1
        <5>1. i \in 1 .. Len(frames) /\ i - 1 \in 1 .. Len(frames)
          BY <1>1, <2>4, <3>1, <4>2
        <5>2. frames[i].key \/ Follows(frames[i], frames[i - 1])
          BY <5>1, <3>1 DEF QInv, QueueInvariant, PendingIsChain
        <5> QED BY <2>4, <5>1, <5>2
      <4> QED BY <4>1, <4>2
    <3>2. last' = frames'[Len(frames')].id
      BY <1>1, <2>4
    <3> QED BY <2>2, <3>1, <3>2 DEF PendingIsChain, Follows
  <2>8. HeadIsNext'
    BY <1>5, <2>4, <2>5 DEF HeadIsNext, QInv, QueueInvariant, Follows
  <2> QED BY <1>2, <2>7, <2>8 DEF QueueInvariant
<1> QED BY <1>3, <1>4, <1>5

(* The decoder takes the head: the next frame in line follows it. *)
LEMMA RecvInvariant ==
    ASSUME QInv, Recv
    PROVE  QueueInvariant'
<1>1. /\ frames \in Seq(Frames) /\ frames # << >> /\ Len(frames) \in Nat
      /\ frames' = Tail(frames) /\ handed' = Head(frames) /\ dec' = "decoding"
      /\ UNCHANGED <<last, recovering, stopped, ref>>
  BY LenProperties DEF QInv, TypeOK, Recv
<1>2. /\ handed' = frames[1] /\ handed' \in Frames
      /\ frames' \in Seq(Frames)
      /\ Len(frames) > 0 /\ Len(frames') = Len(frames) - 1
      /\ \A i \in 1 .. (Len(frames) - 1) : frames'[i] = frames[i + 1]
  BY <1>1, TailFrame
<1>3. /\ \A i \in 1 .. Len(frames) :
             i > 1 => frames[i].key \/ Follows(frames[i], frames[i - 1])
      /\ ~ recovering /\ ~ stopped
      /\ last = frames[Len(frames)].id
  BY <1>1 DEF QInv, QueueInvariant, PendingIsChain
<1>4. frames' # << >> => Len(frames) > 1
  <2>1. CASE frames' # << >>
    <3>1. Len(frames') > 0
      BY <1>2, <2>1, TailFrame
    <3> QED BY <1>1, <1>2, <3>1
  <2> QED BY <2>1
<1>5. PendingIsChain'
  <2>1. ASSUME NEW i \in 1 .. Len(frames'), i > 1
        PROVE  frames'[i].key \/ Follows(frames'[i], frames'[i - 1])
    <3>1. /\ i + 1 \in 1 .. Len(frames) /\ i + 1 > 1
          /\ frames'[i] = frames[i + 1]
          /\ frames'[i - 1] = frames[(i + 1) - 1]
      BY <1>1, <1>2, <2>1
    <3> QED BY <1>3, <3>1
  <2>2. frames' # << >> => last' = frames'[Len(frames')].id
    BY <1>1, <1>2, <1>3, <1>4
  <2> QED BY <1>1, <1>3, <2>1, <2>2 DEF PendingIsChain, Follows
<1>6. HeadIsNext'
  <2>1. frames' # << >> => Head(frames').key \/ Follows(Head(frames'), handed')
    <3>1. CASE frames' # << >>
      <4>1. Head(frames') = frames'[1]
        BY <1>2, <3>1, TailFrame
      <4>2. Head(frames') = frames[2]
        BY <1>1, <1>2, <1>4, <3>1, <4>1
      <4>3. frames[2].key \/ Follows(frames[2], frames[1])
        BY <1>1, <1>3, <1>4, <3>1
      <4> QED BY <1>2, <4>2, <4>3
    <3> QED BY <3>1
  <2>2. frames' = << >> => last' = handed'.id
    <3>1. CASE frames' = << >>
      <4>1. Len(frames') = 0
        BY <3>1, EmptySeq
      <4>2. Len(frames) = 1
        BY <1>1, <1>2, <4>1
      <4> QED BY <1>1, <1>2, <1>3, <4>2
    <3> QED BY <3>1
  <2> QED BY <1>1, <2>1, <2>2 DEF HeadIsNext, Follows
<1>7. DecoderState'
  BY <1>1, <1>2, NoneIsNoFrame DEF DecoderState
<1> QED BY <1>5, <1>6, <1>7 DEF QueueInvariant

(* A failed decode is reported: what is left behind starts with a key frame. *)
LEMMA DecodeFailedInvariant ==
    ASSUME QInv, DecodeFailed
    PROVE  QueueInvariant'
<1>1. /\ frames \in Seq(Frames) /\ Len(frames) \in Nat
      /\ dec = "failed" /\ dec' = "idle" /\ ref = None /\ handed # None
      /\ UNCHANGED <<last, stopped, handed, ref>>
  BY LenProperties DEF QInv, TypeOK, DecodeFailed, QueueInvariant, DecoderState
<1>2. DecoderState'
  BY <1>1 DEF DecoderState
<1>3. CASE stopped
  <2>1. frames = << >> /\ UNCHANGED <<frames, recovering>>
    BY <1>3 DEF DecodeFailed, QInv, QueueInvariant, PendingIsChain
  <2>2. PendingIsChain'
    BY <1>1, <2>1 DEF QInv, QueueInvariant, PendingIsChain, Follows
  <2>3. HeadIsNext'
    BY <1>1, <1>3, <2>1 DEF HeadIsNext
  <2> QED BY <1>2, <2>2, <2>3 DEF QueueInvariant
<1>4. CASE ~ stopped /\ \E i \in 1 .. Len(frames) : frames[i].key
  <2> DEFINE k == FirstKey
  <2>1. /\ frames' = SubSeq(frames, k, Len(frames)) /\ recovering' = FALSE
        /\ k \in 1 .. Len(frames) /\ frames[k].key
    BY <1>1, <1>4, FirstKeyExists DEF DecodeFailed
  <2>2. \A i \in k .. Len(frames) : frames[i] \in Frames
    BY <1>1, <2>1, ElementOfSeq
  <2> HIDE DEF k
  <2>3. /\ frames' \in Seq(Frames)
        /\ Len(frames') = (Len(frames) - k) + 1
        /\ \A i \in 1 .. ((Len(frames) - k) + 1) : frames'[i] = frames[(k + i) - 1]
    BY <1>1, <2>1, <2>2, SubSeqProperties
  <2>4. frames' # << >>
    <3>1. Len(frames') > 0
      BY <1>1, <2>1, <2>3
    <3> QED BY <3>1, EmptySeq
  <2>5. Head(frames') = frames[k]
    <3>1. Head(frames') = frames'[1]
      BY <2>3, <2>4, TailFrame
    <3> QED BY <1>1, <2>1, <2>3, <3>1
  <2>6. PendingIsChain'
    <3>1. ASSUME NEW i \in 1 .. Len(frames'), i > 1
          PROVE  frames'[i].key \/ Follows(frames'[i], frames'[i - 1])
      <4> DEFINE j == (k + i) - 1
      <4>1. /\ j \in 1 .. Len(frames) /\ j > 1
            /\ frames'[i] = frames[j] /\ frames'[i - 1] = frames[j - 1]
        BY <1>1, <2>1, <2>3, <3>1
      <4> HIDE DEF j
      <4>2. frames[j].key \/ Follows(frames[j], frames[j - 1])
        BY <4>1 DEF QInv, QueueInvariant, PendingIsChain
      <4> QED BY <4>1, <4>2
    <3>2. last' = frames'[Len(frames')].id
      <4>1. last = frames[Len(frames)].id
        BY <1>1, <2>1, EmptySeq DEF QInv, QueueInvariant, PendingIsChain
      <4>2. frames'[Len(frames')] = frames[Len(frames)]
        BY <1>1, <2>1, <2>3
      <4> QED BY <1>1, <4>1, <4>2
    <3> QED BY <1>1, <1>4, <2>1, <3>1, <3>2 DEF PendingIsChain, Follows
  <2>7. HeadIsNext'
    BY <1>1, <2>1, <2>4, <2>5 DEF HeadIsNext
  <2> QED BY <1>2, <2>6, <2>7 DEF QueueInvariant
<1>5. CASE ~ stopped /\ ~ \E i \in 1 .. Len(frames) : frames[i].key
  <2>1. frames' = << >> /\ recovering'
    BY <1>5 DEF DecodeFailed
  <2>2. PendingIsChain'
    BY <2>1 DEF PendingIsChain
  <2>3. HeadIsNext'
    BY <2>1 DEF HeadIsNext
  <2> QED BY <1>2, <2>2, <2>3 DEF QueueInvariant
<1> QED BY <1>3, <1>4, <1>5

(* Every step keeps the chain of pending frames. *)
LEMMA NextInvariant == QInv /\ [Next]_vars => QInv'
<1> SUFFICES ASSUME QInv, [Next]_vars PROVE QInv'
  OBVIOUS
<1>1. TypeOK'
  BY NextType DEF QInv
<1>2. QueueInvariant'
  <2>1. ASSUME NEW key \in BOOLEAN, Encode(key) PROVE QueueInvariant'
    BY <2>1, QueueUnchanged DEF Encode, QInv, queue, decoder
  <2>2. ASSUME NEW f \in air, Lose(f) PROVE QueueInvariant'
    BY <2>2, QueueUnchanged DEF Lose, QInv, queue, decoder
  <2>3. ASSUME NEW f \in air, Push(f) PROVE QueueInvariant'
    <3>1. f \in Frames /\ ~ stopped /\ UNCHANGED <<stopped, dec, handed, ref>>
      BY <2>3 DEF Push, QInv, TypeOK, decoder
    <3>2. CASE Late(f.id)
      BY <2>3, <3>1, <3>2, QueueUnchanged DEF Push, QInv
    <3>3. CASE ~ Late(f.id)
      <4>1. Accept(f, last # None /\ f.id # Succ(last))
        BY <2>3, <3>3 DEF Push
      <4> QED BY <3>1, <4>1, AcceptInvariant
    <3> QED BY <3>2, <3>3
  <2>4. CASE Recv
    BY <2>4, RecvInvariant
  <2>5. CASE DecodeOk
    BY <2>5 DEF DecodeOk, QInv, QueueInvariant, PendingIsChain, HeadIsNext, DecoderState,
                Follows, queue
  <2>6. CASE DecodeFails
    BY <2>6 DEF DecodeFails, QInv, QueueInvariant, PendingIsChain, HeadIsNext, DecoderState,
                Follows, queue
  <2>7. CASE DecodeFailed
    BY <2>7, DecodeFailedInvariant
  <2>8. CASE Stop
    <3>1. /\ frames' = << >> /\ stopped' /\ Len(<< >>) = 0
          /\ UNCHANGED <<last, recovering, dec, handed, ref>>
      BY <2>8, EmptySeq DEF Stop, decoder
    <3>2. PendingIsChain'
      BY <3>1 DEF PendingIsChain
    <3>3. HeadIsNext'
      BY <3>1 DEF HeadIsNext
    <3>4. DecoderState'
      BY <3>1 DEF QInv, QueueInvariant, DecoderState
    <3> QED BY <3>2, <3>3, <3>4 DEF QueueInvariant
  <2>9. CASE DecoderLeaves
    BY <2>9 DEF DecoderLeaves, QInv, QueueInvariant, PendingIsChain, HeadIsNext, DecoderState,
                Follows, queue
  <2>10. CASE UNCHANGED vars
    BY <2>10, QueueUnchanged DEF vars, QInv, queue, decoder
  <2> QED BY <2>1, <2>2, <2>3, <2>4, <2>5, <2>6, <2>7, <2>8, <2>9, <2>10 DEF Next
<1> QED BY <1>1, <1>2 DEF QInv

(* The invariant of FrameQueue holds in every reachable state: nothing pending *)
(* depends on a frame that push or decode_failed dropped.                      *)
THEOREM FrameQueueInvariant == Spec => []QInv
<1>1. Init => QInv
  <2> SUFFICES ASSUME Init PROVE QueueInvariant
    BY InitType DEF QInv
  <2>1. frames = << >> /\ Len(<< >>) = 0
    BY EmptySeq DEF Init
  <2> QED BY <2>1 DEF Init, QueueInvariant, PendingIsChain, HeadIsNext, DecoderState
<1> QED BY <1>1, NextInvariant, PTL DEF Spec

(* The queue holds frames only, and never more than FRAME_QUEUE_CAPACITY. *)
THEOREM FrameQueueTypeOK == Spec => []TypeOK
<1>1. QInv => TypeOK
  BY DEF QInv
<1> QED BY <1>1, FrameQueueInvariant, PTL

(* Pending frames form a chain the decoder can follow, and every break is    *)
(* known to the queue.                                                       *)
THEOREM FrameQueueChain == Spec => []QueueInvariant
<1>1. QInv => QueueInvariant
  BY DEF QInv
<1> QED BY <1>1, FrameQueueInvariant, PTL

-----------------------------------------------------------------------------
(* What a step may do *)

(* Only recv hands out a frame, and it hands out one the decoder can use: a   *)
(* key frame, or the successor of the frame its state is that of.             *)
THEOREM FrameQueueHandsDecodable == Spec => HandedIsDecodable
<1> DEFINE A == handed' # handed =>
          \/ handed = None
          \/ handed'.key
          \/ ref # None /\ ref = handed /\ Follows(handed', ref)
<1>1. QInv /\ [Next]_vars => [A]_vars
  <2> SUFFICES ASSUME QInv, Next, handed' # handed, handed # None
               PROVE  \/ handed'.key
                      \/ ref # None /\ ref = handed /\ Follows(handed', ref)
    BY DEF vars, decoder
  <2>1. Recv
    BY DEF Next, Encode, Lose, Push, DecodeOk, DecodeFails, DecodeFailed, Stop,
           DecoderLeaves, decoder
  <2>2. dec = "idle" /\ frames # << >> /\ handed' = Head(frames)
    BY <2>1 DEF Recv
  <2>3. Head(frames).key \/ Follows(Head(frames), handed)
    BY <2>2 DEF QInv, QueueInvariant, HeadIsNext
  <2>4. ref # handed => Head(frames).key
    BY <2>2 DEF QInv, QueueInvariant, HeadIsNext
  <2> QED BY <2>2, <2>3, <2>4
<1> QED BY <1>1, FrameQueueInvariant, PTL DEF Spec, HandedIsDecodable

(* push and decode_failed ask for a key frame exactly when a recovery starts. *)
THEOREM FrameQueueAsksOnce == Spec => AsksOncePerRecovery
<1> DEFINE A == (recovering' /\ ~ recovering => ret') /\ (ret' /\ ~ ret => recovering')
<1>1. QInv /\ [Next]_vars => [A]_vars
  <2> SUFFICES ASSUME QInv, Next PROVE A
    BY DEF vars, queue
  <2>1. recovering \in BOOLEAN /\ ret \in BOOLEAN
    BY DEF QInv, TypeOK
  <2>2. ASSUME NEW f \in air, Push(f) PROVE A
    <3>1. CASE Late(f.id)
      BY <2>2, <3>1, <2>1 DEF Push
    <3>2. CASE ~ Late(f.id)
      <4>1. Accept(f, last # None /\ f.id # Succ(last))
        BY <2>2, <3>2 DEF Push
      <4>2. f.key \in BOOLEAN
        BY DEF QInv, TypeOK, Frames
      <4> QED BY <2>1, <4>1, <4>2 DEF Accept
    <3> QED BY <3>1, <3>2
  <2>3. CASE DecodeFailed
    BY <2>1, <2>3 DEF DecodeFailed
  <2>4. ASSUME UNCHANGED <<recovering, ret>> PROVE A
    BY <2>1, <2>4
  <2> QED BY <2>2, <2>3, <2>4 DEF Next, Encode, Lose, Recv, DecodeOk, DecodeFails, Stop,
             DecoderLeaves, queue
<1> QED BY <1>1, FrameQueueInvariant, PTL DEF Spec, AsksOncePerRecovery
-----------------------------------------------------------------------------
(* Indices: what the ids say about the order of frames *)

SuccIndex(n) == IF n + 1 = Epoch THEN 0 ELSE n + 1

(* The host is fewer frames ahead of index n than the ids on the ring can      *)
(* tell apart, and they tell it rightly.                                       *)
Near(n, id) == Lag(n) \in 1 .. Window /\ Advance(next.id, id) = Lag(n)

(* The frames on their way and the one accepted last.                          *)
InWindow ==
    /\ \A f \in air : Near(f.n, f.id)
    /\ (newest = None) <=> (last = None)
    /\ newest # None => Near(newest, last)

(* PendingIsChain and HeadIsNext with indices in place of ids.                 *)
PendingInOrder ==
    /\ \A i \in 1 .. Len(frames) :
          i > 1 => frames[i].key \/ frames[i].n = SuccIndex(frames[i - 1].n)
    /\ frames # << >> => newest = frames[Len(frames)].n
    /\ (frames # << >> /\ handed # None) =>
          Head(frames).key \/ Head(frames).n = SuccIndex(handed.n)
    /\ (frames = << >> /\ handed # None /\ ~ recovering /\ ~ stopped) => newest = handed.n

OrderInv == InWindow /\ PendingInOrder

(* A new frame moves every other one by one, in indices as in ids.             *)
LEMMA WindowMoves ==
    ASSUME Window > 0, Window < Ring, Window < Epoch,
           NEW m \in 0 .. (Epoch - 1), NEW j \in Ids, NEW n \in 0 .. (Epoch - 1), NEW id \in Ids,
           next = [n |-> m, id |-> j],
           next' = [n |-> SuccIndex(m), id |-> Succ(j)],
           Lag(n) < Window, Near(n, id)
    PROVE  Near(n, id)'
<1>1. next.n = m /\ next.id = j /\ next'.n = SuccIndex(m) /\ next'.id = Succ(j)
  OBVIOUS
<1>2. /\ Lag(n) = (IF m >= n THEN m - n ELSE m + Epoch - n)
      /\ Lag(n)' = (IF SuccIndex(m) >= n THEN SuccIndex(m) - n ELSE SuccIndex(m) + Epoch - n)
      /\ Advance(next.id, id) = (IF j >= id THEN j - id ELSE j + Ring - id)
      /\ Advance(next.id, id)' = (IF Succ(j) >= id THEN Succ(j) - id ELSE Succ(j) + Ring - id)
  BY <1>1 DEF Lag, Advance
<1>3. Lag(n) \in 1 .. Window /\ Advance(next.id, id) = Lag(n)
  BY DEF Near
<1>4. Lag(n)' = Lag(n) + 1
  BY <1>2, <1>3, FrameQueueAssumption DEF SuccIndex
<1>5. Advance(next.id, id)' = Advance(next.id, id) + 1
  BY <1>2, <1>3, FrameQueueAssumption DEF Succ, Ids
<1>6. Lag(n)' \in 1 .. Window
  BY <1>3, <1>4, FrameQueueAssumption
<1> QED BY <1>3, <1>4, <1>5, <1>6 DEF Near

(* The frame the host makes is the nearest one.                                *)
LEMMA NewFrameIsNear ==
    ASSUME Window > 0, Window < Ring, Window < Epoch,
           NEW m \in 0 .. (Epoch - 1), NEW j \in Ids,
           next' = [n |-> SuccIndex(m), id |-> Succ(j)]
    PROVE  Near(m, j)'
<1>1. next'.n = SuccIndex(m) /\ next'.id = Succ(j)
  OBVIOUS
<1>2. /\ Lag(m)' = (IF SuccIndex(m) >= m THEN SuccIndex(m) - m ELSE SuccIndex(m) + Epoch - m)
      /\ Advance(next.id, j)' = (IF Succ(j) >= j THEN Succ(j) - j ELSE Succ(j) + Ring - j)
  BY <1>1 DEF Lag, Advance
<1>3. Lag(m)' = 1
  BY <1>2, FrameQueueAssumption DEF SuccIndex
<1>4. Advance(next.id, j)' = 1
  BY <1>2, FrameQueueAssumption DEF Succ, Ids
<1>5. 1 \in 1 .. Window
  BY FrameQueueAssumption
<1> QED BY <1>3, <1>4, <1>5 DEF Near

(* Within the window, the next id is the next index.                           *)
LEMMA NextIdIsNextIndex ==
    ASSUME Window > 0, Window < Ring, Window < Epoch, next \in [n : 0 .. (Epoch - 1), id : Ids],
           NEW n \in 0 .. (Epoch - 1), NEW id \in Ids, NEW k \in 0 .. (Epoch - 1),
           Near(n, id), Near(k, Succ(id))
    PROVE  k = SuccIndex(n)
<1> DEFINE m == next.n
           j == next.id
<1>1. m \in 0 .. (Epoch - 1) /\ j \in Ids
  OBVIOUS
<1>2. /\ Lag(n) = (IF m >= n THEN m - n ELSE m + Epoch - n)
      /\ Lag(k) = (IF m >= k THEN m - k ELSE m + Epoch - k)
      /\ Advance(next.id, id) = (IF j >= id THEN j - id ELSE j + Ring - id)
      /\ Advance(next.id, Succ(id)) =
            (IF j >= Succ(id) THEN j - Succ(id) ELSE j + Ring - Succ(id))
  BY DEF Lag, Advance
<1>3. /\ Lag(n) \in 1 .. Window /\ Advance(next.id, id) = Lag(n)
      /\ Lag(k) \in 1 .. Window /\ Advance(next.id, Succ(id)) = Lag(k)
  BY DEF Near
<1> HIDE DEF m, j
<1>4. Lag(n) = Lag(k) + 1
  BY <1>1, <1>2, <1>3, FrameQueueAssumption DEF Succ, Ids
<1> QED
  BY <1>1, <1>2, <1>3, <1>4, FrameQueueAssumption DEF SuccIndex

(* Steps that leave the queue and the frames on their way alone, or lose one.  *)
LEMMA OrderUnchanged ==
    ASSUME OrderInv, UNCHANGED <<frames, last, recovering, stopped, handed, next, newest>>,
           air' \subseteq air
    PROVE  OrderInv'
  BY DEF OrderInv, InWindow, PendingInOrder, Near, Lag, Advance, SuccIndex

(* The host encodes a frame.                                                   *)
LEMMA EncodeInOrder ==
    ASSUME Window > 0, Window < Ring, Window < Epoch, QInv, OrderInv,
           NEW key \in BOOLEAN, Encode(key)
    PROVE  OrderInv'
<1>1. PICK m \in 0 .. (Epoch - 1), j \in Ids :
      /\ next = [n |-> m, id |-> j]
      /\ next' = [n |-> SuccIndex(m), id |-> Succ(j)]
      /\ air' = air \cup {[n |-> m, id |-> j, key |-> key]}
  BY DEF Encode, QInv, TypeOK, SuccIndex
<1>0. UNCHANGED <<frames, last, recovering, stopped, handed, newest>>
  BY DEF Encode, queue, decoder
<1>2. /\ air \subseteq Frames /\ last \in Ids \cup {None} /\ newest \in 0 .. (Epoch - 1) \cup {None}
  BY DEF QInv, TypeOK
<1>3. /\ newest # None => Lag(newest) < Window
      /\ \A f \in air : Lag(f.n) < Window
  BY DEF Encode, InRange
<1>5. ASSUME NEW f \in air PROVE Near(f.n, f.id)'
  <2>1. f.n \in 0 .. (Epoch - 1) /\ f.id \in Ids /\ Lag(f.n) < Window /\ Near(f.n, f.id)
    BY <1>2, <1>3 DEF Frames, OrderInv, InWindow
  <2> QED BY <1>1, <2>1, WindowMoves
<1>6. Near(m, j)'
  BY <1>1, NewFrameIsNear
<1>7. newest # None => Near(newest, last)'
  <2>1. CASE newest # None
    <3> DEFINE n == newest
               id == last
    <3>1. n \in 0 .. (Epoch - 1) /\ id \in Ids /\ Lag(n) < Window /\ Near(n, id)
      BY <1>2, <1>3, <2>1 DEF OrderInv, InWindow
    <3> QED BY <1>0, <1>1, <3>1, WindowMoves
  <2> QED BY <2>1
<1>8. InWindow'
  <2>1. \A f \in air' : Near(f.n, f.id)'
    BY <1>1, <1>5, <1>6
  <2>2. (newest' = None) <=> (last' = None)
    BY <1>0 DEF InWindow, OrderInv
  <2> QED BY <1>0, <1>7, <2>1, <2>2 DEF InWindow
<1>9. PendingInOrder'
  BY <1>0 DEF PendingInOrder, OrderInv, SuccIndex
<1> QED BY <1>8, <1>9 DEF OrderInv

(* An admitted frame follows what is pending, or what the decoder has.         *)
LEMMA AcceptInOrder ==
    ASSUME Window > 0, Window < Ring, Window < Epoch, QInv, OrderInv,
           NEW f \in air, Push(f), ~ Late(f.id)
    PROVE  OrderInv'
<1> DEFINE gap == last # None /\ f.id # Succ(last)
           broken == gap \/ Len(frames) = Capacity
<1>0. /\ f \in Frames /\ ~ stopped /\ stopped' = stopped /\ handed' = handed /\ next' = next
      /\ air' \subseteq air /\ newest' = f.n
      /\ Accept(f, last # None /\ f.id # Succ(last))
  BY DEF Push, QInv, TypeOK, decoder
<1>1. /\ frames \in Seq(Frames) /\ Len(frames) \in Nat
      /\ last \in Ids \cup {None} /\ newest \in 0 .. (Epoch - 1) \cup {None}
      /\ last' = f.id /\ f.id \in Ids /\ f.n \in 0 .. (Epoch - 1) /\ f.key \in BOOLEAN
      /\ next \in [n : 0 .. (Epoch - 1), id : Ids] /\ Near(f.n, f.id)
  BY <1>0, LenProperties DEF QInv, TypeOK, Accept, Frames, OrderInv, InWindow
<1>2. newest' # None /\ last' # None
  BY <1>0, <1>1, NoneIsNoFrame
<1>3. InWindow'
  <2>1. \A g \in air' : Near(g.n, g.id)
    BY <1>0 DEF OrderInv, InWindow
  <2>2. \A g \in air' : Near(g.n, g.id)'
    BY <1>0, <2>1 DEF Near, Lag, Advance
  <2>3. Near(newest, last)'
    BY <1>0, <1>1 DEF Near, Lag, Advance
  <2> QED BY <1>2, <2>2, <2>3 DEF InWindow
<1>4. (last # None /\ f.id = Succ(last)) => f.n = SuccIndex(newest)
  <2>1. CASE last # None /\ f.id = Succ(last)
    <3> DEFINE n == newest
               id == last
               k == f.n
    <3>1. /\ n \in 0 .. (Epoch - 1) /\ id \in Ids /\ k \in 0 .. (Epoch - 1)
          /\ Near(n, id) /\ Near(k, Succ(id))
      BY <1>1, <2>1 DEF OrderInv, InWindow
    <3> QED BY <1>1, <3>1, NextIdIsNextIndex
  <2> QED BY <2>1
<1>5. CASE (recovering \/ broken) /\ ~ f.key
  <2>1. frames' = << >> /\ recovering' /\ Len(frames') = 0
    BY <1>0, <1>5, EmptySeq DEF Accept, QInv, QueueInvariant, PendingIsChain
  <2>2. PendingInOrder'
    BY <2>1 DEF PendingInOrder
  <2> QED BY <1>3, <2>2 DEF OrderInv
<1>6. CASE ~ ((recovering \/ broken) /\ ~ f.key) /\ (broken \/ frames = << >>)
  <2>1. frames' = Append(<< >>, f) /\ recovering' = FALSE
    BY <1>0, <1>6 DEF Accept
  <2>2. << >> \in Seq(Frames) /\ Len(<< >>) = 0
    BY EmptySeq
  <2>3. frames' # << >> /\ Len(frames') = 1 /\ frames'[1] = f /\ frames' \in Seq(Frames)
    BY <1>0, <2>1, <2>2, AppendFrame
  <2>4. Head(frames') = f
    BY <2>3, TailFrame
  <2>5. f.key \/ (~ recovering /\ frames = << >> /\ ~ gap)
    BY <1>6
  <2>6. f.key \/ (handed # None => f.n = SuccIndex(handed.n))
    <3>1. CASE ~ f.key /\ handed # None
      <4>1. newest = handed.n /\ last = handed.id
        BY <1>0, <2>5, <3>1 DEF OrderInv, PendingInOrder, QInv, QueueInvariant, HeadIsNext
      <4>2. handed \in Frames
        BY <3>1 DEF QInv, TypeOK
      <4>3. last # None
        BY <4>1, <4>2, NoneIsNoFrame DEF Frames
      <4> QED BY <1>4, <2>5, <3>1, <4>1, <4>3
    <3> QED BY <3>1
  <2>7. PendingInOrder'
    <3>1. \A i \in 1 .. Len(frames') : ~ (i > 1)
      BY <2>3
    <3> QED BY <1>0, <2>3, <2>4, <2>6, <3>1 DEF PendingInOrder, SuccIndex
  <2> QED BY <1>3, <2>7 DEF OrderInv
<1>7. CASE ~ broken /\ frames # << >>
  <2>1. ~ recovering
    BY <1>7 DEF QInv, QueueInvariant, PendingIsChain
  <2>2. frames' = Append(frames, f) /\ recovering' = FALSE
    BY <1>0, <1>7, <2>1 DEF Accept
  <2>3. Len(frames) > 0 /\ Head(frames) = frames[1]
    BY <1>1, <1>7, TailFrame
  <2>4. /\ frames' \in Seq(Frames) /\ frames' # << >>
        /\ Len(frames') = Len(frames) + 1
        /\ \A i \in 1 .. Len(frames) : frames'[i] = frames[i]
        /\ frames'[Len(frames) + 1] = f
    BY <1>0, <1>1, <2>2, AppendFrame
  <2>5. Head(frames') = Head(frames)
    <3>1. Head(frames') = frames'[1]
      BY <2>4, TailFrame
    <3> QED BY <1>1, <2>3, <2>4, <3>1
  <2>6. f.n = SuccIndex(frames[Len(frames)].n)
    <3>1. last = frames[Len(frames)].id /\ newest = frames[Len(frames)].n
      BY <1>7 DEF OrderInv, PendingInOrder, QInv, QueueInvariant, PendingIsChain
    <3>2. frames[Len(frames)] \in Frames
      BY <1>1, <2>3, ElementOfSeq
    <3>3. last # None
      BY <3>1, <3>2, NoneIsNoFrame DEF Frames
    <3> QED BY <1>4, <1>7, <3>1, <3>3
  <2>7. PendingInOrder'
    <3>1. ASSUME NEW i \in 1 .. Len(frames'), i > 1
          PROVE  frames'[i].key \/ frames'[i].n = SuccIndex(frames'[i - 1].n)
      <4>1. CASE i = Len(frames) + 1
        <5>1. frames'[i] = f /\ frames'[i - 1] = frames[Len(frames)]
          BY <1>1, <2>3, <2>4, <4>1
        <5> QED BY <2>6, <5>1
      <4>2. CASE i # Len(frames) + 1
        <5>1. i \in 1 .. Len(frames) /\ i - 1 \in 1 .. Len(frames)
          BY <1>1, <2>4, <3>1, <4>2
        <5>2. frames[i].key \/ frames[i].n = SuccIndex(frames[i - 1].n)
          BY <5>1, <3>1 DEF OrderInv, PendingInOrder
        <5> QED BY <2>4, <5>1, <5>2
      <4> QED BY <4>1, <4>2
    <3>2. newest' = frames'[Len(frames')].n
      BY <1>0, <1>1, <2>4
    <3>3. handed' # None => Head(frames').key \/ Head(frames').n = SuccIndex(handed'.n)
      BY <1>0, <1>7, <2>5 DEF OrderInv, PendingInOrder
    <3> QED BY <2>4, <3>1, <3>2, <3>3 DEF PendingInOrder, SuccIndex
  <2> QED BY <1>3, <2>7 DEF OrderInv
<1> QED BY <1>5, <1>6, <1>7

(* The decoder takes the head.                                                 *)
LEMMA RecvInOrder ==
    ASSUME QInv, OrderInv, Recv
    PROVE  OrderInv'
<1>1. /\ frames \in Seq(Frames) /\ frames # << >> /\ Len(frames) \in Nat
      /\ frames' = Tail(frames) /\ handed' = Head(frames)
      /\ UNCHANGED <<last, recovering, stopped, next, air, newest>>
  BY LenProperties DEF QInv, TypeOK, Recv, host
<1>2. /\ handed' = frames[1] /\ frames' \in Seq(Frames)
      /\ Len(frames) > 0 /\ Len(frames') = Len(frames) - 1
      /\ \A i \in 1 .. (Len(frames) - 1) : frames'[i] = frames[i + 1]
  BY <1>1, TailFrame
<1>3. /\ \A i \in 1 .. Len(frames) :
             i > 1 => frames[i].key \/ frames[i].n = SuccIndex(frames[i - 1].n)
      /\ newest = frames[Len(frames)].n
  BY <1>1 DEF OrderInv, PendingInOrder
<1>4. frames' # << >> => Len(frames) > 1
  <2>1. CASE frames' # << >>
    <3>1. Len(frames') > 0
      BY <1>2, <2>1, TailFrame
    <3> QED BY <1>1, <1>2, <3>1
  <2> QED BY <2>1
<1>5. InWindow'
  BY <1>1 DEF OrderInv, InWindow, Near, Lag, Advance
<1>6. ASSUME NEW i \in 1 .. Len(frames'), i > 1
      PROVE  frames'[i].key \/ frames'[i].n = SuccIndex(frames'[i - 1].n)
  <2>1. /\ i + 1 \in 1 .. Len(frames) /\ i + 1 > 1
        /\ frames'[i] = frames[i + 1]
        /\ frames'[i - 1] = frames[(i + 1) - 1]
    BY <1>1, <1>2, <1>6
  <2> QED BY <1>3, <2>1
<1>7. frames' # << >> => newest' = frames'[Len(frames')].n
  BY <1>1, <1>2, <1>3, <1>4
<1>8. frames' # << >> => Head(frames').key \/ Head(frames').n = SuccIndex(handed'.n)
  <2>1. CASE frames' # << >>
    <3>1. Head(frames') = frames'[1]
      BY <1>2, <2>1, TailFrame
    <3>2. Head(frames') = frames[2]
      BY <1>1, <1>2, <1>4, <2>1, <3>1
    <3>3. frames[2].key \/ frames[2].n = SuccIndex(frames[1].n)
      BY <1>1, <1>3, <1>4, <2>1
    <3> QED BY <1>2, <3>2, <3>3
  <2> QED BY <2>1
<1>9. frames' = << >> => newest' = handed'.n
  <2>1. CASE frames' = << >>
    <3>1. Len(frames') = 0
      BY <2>1, EmptySeq
    <3>2. Len(frames) = 1
      BY <1>1, <1>2, <3>1
    <3> QED BY <1>1, <1>2, <1>3, <3>2
  <2> QED BY <2>1
<1>10. PendingInOrder'
  BY <1>6, <1>7, <1>8, <1>9 DEF PendingInOrder, SuccIndex
<1> QED BY <1>5, <1>10 DEF OrderInv

(* What a failed decode leaves behind starts with a key frame.                 *)
LEMMA DecodeFailedInOrder ==
    ASSUME QInv, OrderInv, DecodeFailed
    PROVE  OrderInv'
<1>1. /\ frames \in Seq(Frames) /\ Len(frames) \in Nat
      /\ UNCHANGED <<last, stopped, handed, next, air, newest>>
  BY LenProperties DEF QInv, TypeOK, DecodeFailed, host
<1>2. CASE stopped
  BY <1>1, <1>2, OrderUnchanged DEF DecodeFailed
<1>3. InWindow'
  BY <1>1 DEF OrderInv, InWindow, Near, Lag, Advance
<1>4. CASE ~ stopped /\ \E i \in 1 .. Len(frames) : frames[i].key
  <2> DEFINE k == FirstKey
  <2>1. /\ frames' = SubSeq(frames, k, Len(frames)) /\ recovering' = FALSE
        /\ k \in 1 .. Len(frames) /\ frames[k].key
    BY <1>1, <1>4, FirstKeyExists DEF DecodeFailed
  <2>2. \A i \in k .. Len(frames) : frames[i] \in Frames
    BY <1>1, <2>1, ElementOfSeq
  <2> HIDE DEF k
  <2>3. /\ frames' \in Seq(Frames)
        /\ Len(frames') = (Len(frames) - k) + 1
        /\ \A i \in 1 .. ((Len(frames) - k) + 1) : frames'[i] = frames[(k + i) - 1]
    BY <1>1, <2>1, <2>2, SubSeqProperties
  <2>4. frames' # << >>
    <3>1. Len(frames') > 0
      BY <1>1, <2>1, <2>3
    <3> QED BY <3>1, EmptySeq
  <2>5. Head(frames') = frames[k]
    <3>1. Head(frames') = frames'[1]
      BY <2>3, <2>4, TailFrame
    <3> QED BY <1>1, <2>1, <2>3, <3>1
  <2>6. ASSUME NEW i \in 1 .. Len(frames'), i > 1
        PROVE  frames'[i].key \/ frames'[i].n = SuccIndex(frames'[i - 1].n)
    <3> DEFINE j == (k + i) - 1
    <3>1. /\ j \in 1 .. Len(frames) /\ j > 1
          /\ frames'[i] = frames[j] /\ frames'[i - 1] = frames[j - 1]
      BY <1>1, <2>1, <2>3, <2>6
    <3> HIDE DEF j
    <3>2. frames[j].key \/ frames[j].n = SuccIndex(frames[j - 1].n)
      BY <3>1 DEF OrderInv, PendingInOrder
    <3> QED BY <3>1, <3>2
  <2>7. newest' = frames'[Len(frames')].n
    <3>1. newest = frames[Len(frames)].n
      BY <1>1, <2>1, EmptySeq DEF OrderInv, PendingInOrder
    <3>2. frames'[Len(frames')] = frames[Len(frames)]
      BY <1>1, <2>1, <2>3
    <3> QED BY <1>1, <3>1, <3>2
  <2>8. PendingInOrder'
    BY <2>1, <2>4, <2>5, <2>6, <2>7 DEF PendingInOrder, SuccIndex
  <2> QED BY <1>3, <2>8 DEF OrderInv
<1>5. CASE ~ stopped /\ ~ \E i \in 1 .. Len(frames) : frames[i].key
  <2>1. frames' = << >> /\ recovering' /\ Len(frames') = 0
    BY <1>5, EmptySeq DEF DecodeFailed
  <2>2. PendingInOrder'
    BY <2>1 DEF PendingInOrder
  <2> QED BY <1>3, <2>2 DEF OrderInv
<1> QED BY <1>2, <1>4, <1>5

(* Every step of the host, the network and the two threads keeps the order.    *)
LEMMA NextInOrder ==
    ASSUME Window > 0, Window < Ring, Window < Epoch, QInv, OrderInv, [Next]_vars
    PROVE  OrderInv'
<1>1. ASSUME NEW key \in BOOLEAN, Encode(key) PROVE OrderInv'
  BY <1>1, EncodeInOrder
<1>2. ASSUME NEW f \in air, Lose(f) PROVE OrderInv'
  BY <1>2, OrderUnchanged DEF Lose, queue, decoder
<1>3. ASSUME NEW f \in air, Push(f) PROVE OrderInv'
  <2>1. CASE Late(f.id)
    BY <1>3, <2>1, OrderUnchanged DEF Push, decoder
  <2>2. CASE ~ Late(f.id)
    BY <1>3, <2>2, AcceptInOrder
  <2> QED BY <2>1, <2>2
<1>4. CASE Recv
  BY <1>4, RecvInOrder
<1>5. CASE DecodeOk \/ DecodeFails \/ DecoderLeaves
  BY <1>5, OrderUnchanged DEF DecodeOk, DecodeFails, DecoderLeaves, queue, host
<1>6. CASE DecodeFailed
  BY <1>6, DecodeFailedInOrder
<1>7. CASE Stop
  <2>1. /\ frames' = << >> /\ stopped' /\ Len(frames') = 0
        /\ UNCHANGED <<last, recovering, handed, next, air, newest>>
    BY <1>7, EmptySeq DEF Stop, decoder, host
  <2>2. PendingInOrder'
    BY <2>1 DEF PendingInOrder
  <2>3. InWindow'
    BY <2>1 DEF OrderInv, InWindow, Near, Lag, Advance
  <2> QED BY <2>2, <2>3 DEF OrderInv
<1>8. CASE UNCHANGED vars
  BY <1>8, OrderUnchanged DEF vars, queue, decoder, host
<1> QED BY <1>1, <1>2, <1>3, <1>4, <1>5, <1>6, <1>7, <1>8 DEF Next

(* As long as the network holds back fewer frames than the ring has ids, the   *)
(* frame that recv hands out after another is, unless it is a key frame, the   *)
(* one the host encoded after it: no id that came around the ring deceives the *)
(* queue.                                                                      *)
THEOREM FrameQueueHandsInOrder ==
    ASSUME Window > 0, Window < Ring, Window < Epoch
    PROVE  Spec => HandedInOrder
<1>1. Init => OrderInv
  <2> SUFFICES ASSUME Init PROVE OrderInv
    OBVIOUS
  <2>1. frames = << >> /\ Len(frames) = 0 /\ air = {} /\ newest = None /\ last = None
        /\ handed = None
    BY EmptySeq DEF Init
  <2> QED BY <2>1 DEF OrderInv, InWindow, PendingInOrder
<1>2. QInv /\ OrderInv /\ [Next]_vars => OrderInv'
  BY NextInOrder
<1>3. QInv /\ OrderInv /\ [Next]_vars =>
        [(handed' # handed /\ handed # None /\ ~ handed'.key) =>
            handed'.n = IF handed.n + 1 = Epoch THEN 0 ELSE handed.n + 1]_vars
  <2> SUFFICES ASSUME QInv, OrderInv, Next, handed' # handed, handed # None, ~ handed'.key
               PROVE  handed'.n = IF handed.n + 1 = Epoch THEN 0 ELSE handed.n + 1
    BY DEF vars, decoder
  <2>1. Recv
    BY DEF Next, Encode, Lose, Push, DecodeOk, DecodeFails, DecodeFailed, Stop,
           DecoderLeaves, decoder
  <2>2. frames # << >> /\ handed' = Head(frames)
    BY <2>1 DEF Recv
  <2> QED BY <2>2 DEF OrderInv, PendingInOrder, SuccIndex
<1> QED BY <1>1, <1>2, <1>3, FrameQueueInvariant, PTL DEF Spec, HandedInOrder
=============================================================================
