---------------------------- MODULE MediaTransport ----------------------------
(***************************************************************************)
(* Video and audio between UdpSender (maho-host/src/session.rs) and the    *)
(* client's reassembly: FrameAssembler (maho-app/src/media.rs) and         *)
(* AudioFragmentReassembler (maho-app/src/audio.rs), as handle_packet of   *)
(* maho-app/src/session.rs feeds them.  The network loses and reorders     *)
(* datagrams; it does not duplicate them, since the replay window of the   *)
(* cipher (module DatagramCipher) refuses the second copy before           *)
(* handle_packet sees it.                                                  *)
(*                                                                         *)
(* A chunk's bytes are represented by the number of the frame they were    *)
(* cut from (`origin'), which the receiver never reads.  Chunks are one    *)
(* unit long, so a frame's size is its chunk count.  The cursor and the    *)
(* timestamp datagrams touch neither assembler and are left out, and so is *)
(* the cap on pending audio: a newer block discards every older one, so at *)
(* most one is ever pending.                                               *)
(***************************************************************************)
EXTENDS Integers, Sequences, FiniteSets, Functions

CONSTANTS
    MaxFrames,      \* frames and audio blocks the host sends
    MaxInFlight,    \* datagrams the network holds at once
    FrameSizes,     \* the sizes of frames and audio blocks, in chunks
    MaxChunks,      \* MAX_CHUNKS_PER_FRAME
    MaxIncomplete,  \* MAX_INCOMPLETE_FRAMES
    MaxOrphans,     \* MAX_ORPHAN_FRAMES
    AssemblyTimeout, \* ASSEMBLY_TIMEOUT, in ticks
    IdRing          \* 2^32, the number of frame identifiers

ASSUME TransportAssumption ==
    /\ {MaxFrames, MaxInFlight, MaxChunks, MaxIncomplete, MaxOrphans, AssemblyTimeout} \subseteq Nat \ {0}
    /\ FrameSizes \subseteq Nat
    /\ IdRing \in Nat /\ IdRing % 2 = 0 /\ IdRing > 2 * MaxFrames

VARIABLES
    tx,        \* UdpSender: frame_id, audio_frame_id, what is left of the frame being sent
    origins,   \* frames and audio blocks handed to the sender so far
    air,       \* datagrams in flight
    frames,    \* FrameAssembler::frames
    orphans,   \* FrameAssembler::orphans
    expected,  \* FrameAssembler::expected_frame_id, -1 for None
    audioRx,   \* AudioFragmentReassembler: newest_frame_id (-1 for None), pending
    lost,      \* the sum of the losses track_loss recorded
    outcome       \* what the receiver was given and what it delivered or discarded (history)

transportVars == <<tx, origins, air, frames, orphans, expected, audioRx, lost, outcome>>

Ids == 0 .. IdRing - 1
NoIds == [i \in {} |-> 0]

\* A session that has just begun, or one whose identifiers are about to wrap and whose
\* receiver has everything behind it.
TransportInit ==
    /\ \E old \in BOOLEAN :
         /\ tx = [frame |-> IF old THEN IdRing - 2 ELSE 0, audio |-> 0, work |-> <<>>]
         /\ expected = IF old THEN IdRing - 1 ELSE -1
    /\ origins = <<>>
    /\ air = {}
    /\ frames = NoIds /\ orphans = NoIds
    /\ audioRx = [newest |-> -1, pending |-> NoIds]
    /\ lost = 0
    /\ outcome = [got |-> {}, shown |-> <<>>, dropped |-> {}, late |-> FALSE]

(***************************************************************************)
(* UdpSender.                                                              *)
(***************************************************************************)
Datagram(kind, id, index, count, key) ==
    [kind |-> kind, id |-> id, index |-> index, count |-> count, key |-> key, origin |-> Len(origins) + 1]

\* send_frame: the identifier, the header, then one datagram per chunk.  A frame of more than
\* MAX_CHUNKS_PER_FRAME chunks is refused by FrameHeader::encode before it takes an identifier;
\* the sender thread logs the error and goes on with the next frame.
SendFrame(n, key) ==
    /\ tx.work = <<>> /\ Len(origins) < MaxFrames
    /\ IF n > MaxChunks
       THEN UNCHANGED <<tx, origins>>
       ELSE LET id == (tx.frame + 1) % IdRing IN
            /\ tx' = [tx EXCEPT !.frame = id,
                         !.work = <<Datagram("header", id, 0, n, key)>> \o
                                  [i \in 1 .. n |-> Datagram("chunk", id, i - 1, n, key)]]
            /\ origins' = Append(origins, [kind |-> "video", id |-> id, count |-> n, key |-> key])
    /\ UNCHANGED <<air, frames, orphans, expected, audioRx, lost, outcome>>

\* send_audio: an empty block sends nothing.
SendAudio(n) ==
    /\ tx.work = <<>> /\ Len(origins) < MaxFrames
    /\ LET id == (tx.audio + 1) % IdRing IN
       /\ tx' = [tx EXCEPT !.audio = id,
                    !.work = [i \in 1 .. n |-> Datagram("audio", id, i - 1, n, FALSE)]]
       /\ origins' = Append(origins, [kind |-> "audio", id |-> id, count |-> n, key |-> FALSE])
    /\ UNCHANGED <<air, frames, orphans, expected, audioRx, lost, outcome>>

\* send_selected_packet: the datagram is on its way, or the network will lose it (when it does
\* so makes no difference to the receiver), or send_to failed: the error leaves send_frame or
\* send_audio in the middle, and the sender thread goes on with its next frame or block.
SendPacket(fate) ==
    /\ tx.work # <<>> /\ (fate = "sent" => Cardinality(air) < MaxInFlight)
    /\ tx' = IF fate = "failed" THEN [tx EXCEPT !.work = <<>>] ELSE [tx EXCEPT !.work = Tail(@)]
    /\ air' = IF fate = "sent" THEN air \cup {Head(tx.work)} ELSE air
    /\ UNCHANGED <<origins, frames, orphans, expected, audioRx, lost, outcome>>

(***************************************************************************)
(* FrameAssembler.  An assembly is [count, key, chunks, age], an orphan    *)
(* [chunks, age]; chunks maps an index to the origin of its bytes.         *)
(***************************************************************************)
SerialNotBefore(a, b) == (a - b) % IdRing < IdRing \div 2
Complete(a) == Cardinality(DOMAIN a.chunks) = a.count
Young(m) == Restrict(m, {i \in DOMAIN m : m[i].age < AssemblyTimeout})
Put(m, i, v) == [j \in DOMAIN m \cup {i} |-> IF j = i THEN v ELSE m[j]]
Drop(m, S) == Restrict(m, DOMAIN m \ S)

\* admit_chunks: what lies outside the declared frame stays out, the first copy is kept.
AdmitChunks(have, more, count) ==
    [i \in DOMAIN have \cup {j \in DOMAIN more : j < count} |-> IF i \in DOMAIN have THEN have[i] ELSE more[i]]

\* Mutant: the header starts an empty assembly although chunks of its frame are waiting.
NothingAdopted(id, held) == NoIds

AdoptedChunks(id, held) == IF id \in DOMAIN held THEN held[id].chunks ELSE NoIds
AdoptedAge(id, held) == IF id \in DOMAIN held THEN held[id].age ELSE 0

\* The frame capacity evicts: the one that started first, the lowest identifier among equals.
OldestFrame(fs) ==
    CHOOSE i \in DOMAIN fs : \A j \in DOMAIN fs :
        fs[i].age > fs[j].age \/ (fs[i].age = fs[j].age /\ i <= j)

\* track_loss: only forward progress counts a gap.
Gap(id) == IF expected = -1 \/ ~SerialNotBefore(id, expected) THEN 0 ELSE (id - expected) % IdRing
TrackLoss(id) ==
    /\ lost' = lost + Gap(id)
    /\ expected' = LET next == (id + 1) % IdRing IN
                   IF expected = -1 \/ SerialNotBefore(next, expected) THEN next ELSE expected

\* The parts of frames the receiver holds: <<origin, index>>, the header's index being -1.
ChunksIn(m) == UNION {{<<m[i].chunks[j], j>> : j \in DOMAIN m[i].chunks} : i \in DOMAIN m}
PartsIn(fs, os) == {<<fs[i].origin, -1>> : i \in DOMAIN fs} \cup ChunksIn(fs) \cup ChunksIn(os)
PartOf(d) == <<d.origin, IF d.kind = "header" THEN -1 ELSE d.index>>

\* finish_if_complete, and the history of what was delivered and discarded.
Deliver(d, fs, os) ==
    LET done == {i \in DOMAIN fs : i = d.id /\ Complete(fs[i])}
        rest == Drop(fs, done)
        kept == IF d.kind = "header" /\ Cardinality(DOMAIN rest) > MaxIncomplete
                THEN Drop(rest, {OldestFrame(rest)}) ELSE rest
        gone == (PartsIn(frames, orphans) \cup {PartOf(d)}) \ PartsIn(kept, os)
        out == {fs[i].origin : i \in done}
    IN /\ frames' = kept
       /\ orphans' = os
       /\ outcome' = [outcome EXCEPT
                     !.got = @ \cup {d},
                     !.shown = IF done = {} THEN @
                               ELSE Append(@, [origin |-> fs[d.id].origin, parts |-> fs[d.id].chunks]),
                     !.dropped = @ \cup ({p[1] : p \in gone} \ out)]

\* push_header.
PushHeader(d) ==
    LET young == Young(frames)
        waiting == Young(orphans)
        current == IF d.key THEN Restrict(young, {i \in DOMAIN young : SerialNotBefore(i, d.id)}) ELSE young
        again == d.id \in DOMAIN current
        same == again => current[d.id].count = d.count /\ current[d.id].key = d.key
        have == IF again THEN current[d.id].chunks ELSE NoIds
        fresh == [count |-> d.count, key |-> d.key, origin |-> d.origin,
                  chunks |-> AdmitChunks(have, AdoptedChunks(d.id, waiting), d.count),
                  age |-> IF again THEN current[d.id].age ELSE AdoptedAge(d.id, waiting)]
    IN /\ IF d.count = 0
          THEN outcome' = [outcome EXCEPT !.got = @ \cup {d}, !.dropped = @ \cup {d.origin}]
               /\ UNCHANGED <<frames, orphans, expected, lost>>
          ELSE /\ TrackLoss(d.id)
               /\ Deliver(d, IF same THEN Put(current, d.id, fresh) ELSE current, Drop(waiting, {d.id}))
       /\ UNCHANGED audioRx

\* push_chunk: into its frame, or among the orphans that wait for their header.
PushChunk(d) ==
    LET young == Young(frames)
        waiting == Young(orphans)
        mine == [j \in {d.index} |-> d.origin]
    IN /\ UNCHANGED <<expected, lost, audioRx>>
       /\ CASE d.id \in DOMAIN young ->
                 Deliver(d, [young EXCEPT ![d.id].chunks = AdmitChunks(@, mine, young[d.id].count)], waiting)
            [] d.id \notin DOMAIN young /\ d.id \notin DOMAIN waiting /\ Cardinality(DOMAIN waiting) >= MaxOrphans ->
                 Deliver(d, young, waiting)
            [] OTHER ->
                 Deliver(d, young,
                    Put(waiting, d.id, [chunks |-> AdmitChunks(AdoptedChunks(d.id, waiting), mine, MaxChunks),
                                        age |-> AdoptedAge(d.id, waiting)]))

(***************************************************************************)
(* AudioFragmentReassembler::push.                                         *)
(***************************************************************************)
PushAudio(d) ==
    LET newer == d.id > audioRx.newest
        left == IF newer THEN Restrict(audioRx.pending, {i \in DOMAIN audioRx.pending : i >= d.id})
                ELSE audioRx.pending
        parts == AdmitChunks(IF d.id \in DOMAIN left THEN left[d.id] ELSE NoIds,
                             [j \in {d.index} |-> d.origin], d.count)
        whole == Cardinality(DOMAIN parts) = d.count
    IN /\ IF d.id < audioRx.newest
          THEN /\ UNCHANGED audioRx
               /\ outcome' = [outcome EXCEPT !.got = @ \cup {d}, !.dropped = @ \cup {d.origin}]
          ELSE /\ audioRx' = [newest |-> d.id, pending |-> IF whole THEN Drop(left, {d.id}) ELSE Put(left, d.id, parts)]
               /\ outcome' = [outcome EXCEPT
                    !.got = @ \cup {d},
                    !.shown = IF whole THEN Append(@, [origin |-> d.origin, parts |-> parts]) ELSE @,
                    !.dropped = @ \cup UNION {Range(audioRx.pending[i]) : i \in DOMAIN audioRx.pending \ DOMAIN left}]
       /\ UNCHANGED <<frames, orphans, expected, lost>>

Receive(d) ==
    /\ d \in air
    /\ air' = air \ {d}
    /\ CASE d.kind = "header" -> PushHeader(d)
         [] d.kind = "chunk" -> PushChunk(d)
         [] d.kind = "audio" -> PushAudio(d)
    /\ UNCHANGED <<tx, origins>>

\* Time passes: every assembly grows older; expire acts at the next datagram.
Ages(m) == [i \in DOMAIN m |-> [m[i] EXCEPT !.age = IF @ < AssemblyTimeout THEN @ + 1 ELSE @]]
TransportTick ==
    /\ DOMAIN frames \cup DOMAIN orphans # {}
    /\ frames' = Ages(frames) /\ orphans' = Ages(orphans)
    /\ outcome' = [outcome EXCEPT !.late = TRUE]
    /\ UNCHANGED <<tx, origins, air, expected, audioRx, lost>>

TransportNext ==
    \/ \E n \in FrameSizes, key \in BOOLEAN : SendFrame(n, key)
    \/ \E n \in FrameSizes \cap 1 .. MaxChunks : SendAudio(n)
    \/ \E fate \in {"sent", "lost", "failed"} : SendPacket(fate)
    \/ \E d \in air : Receive(d)
    \/ TransportTick

TransportSpec == TransportInit /\ [][TransportNext]_transportVars

(***************************************************************************)
(* Properties.                                                             *)
(***************************************************************************)
Shown == {outcome.shown[n].origin : n \in DOMAIN outcome.shown}
Arrived(o) == {d \in outcome.got : d.origin = o}
Whole(o) == Cardinality(Arrived(o)) = origins[o].count + (IF origins[o].kind = "video" THEN 1 ELSE 0)
OfKind(kind) == {o \in DOMAIN origins : origins[o].kind = kind}

\* A delivered frame or audio block is made of its own chunks, all of them, and comes out once.
DeliveredAsSent ==
    \A n \in DOMAIN outcome.shown :
        LET o == outcome.shown[n].origin IN
        /\ outcome.shown[n].parts = [i \in 0 .. origins[o].count - 1 |-> o]
        /\ \A m \in DOMAIN outcome.shown : outcome.shown[m].origin = o => m = n

\* A frame all of whose datagrams arrived, in whatever order, was delivered or discarded.
ArrivedIsSettled == \A o \in DOMAIN origins : Whole(o) => o \in Shown \cup outcome.dropped

\* A frame is discarded only for a reason: it has no chunk, time ran out, a newer key frame
\* or newer audio came, or enough other frames were in progress to fill a table.
DiscardedForCause ==
    \A o \in outcome.dropped :
        \/ origins[o].count = 0 \/ outcome.late
        \/ \E d \in outcome.got : d.origin > o /\ (d.key \/ (d.kind = "audio" /\ origins[o].kind = "audio"))
        \/ Cardinality({p \in OfKind("video") \ {o} : Arrived(p) # {}}) >=
               (IF MaxOrphans < MaxIncomplete THEN MaxOrphans ELSE MaxIncomplete)

\* Losses are frames that were sent: the identifiers' wrap-around counts none.
LossIsReal == lost < Cardinality(OfKind("video")) \/ lost = 0

\* Audio comes out in the order it went in.
AudioInOrder ==
    \A m, n \in DOMAIN outcome.shown :
        /\ m < n
        /\ {outcome.shown[m].origin, outcome.shown[n].origin} \subseteq OfKind("audio")
        => outcome.shown[m].origin < outcome.shown[n].origin

\* Reordered, lost and late datagrams never make FrameAssembler (push_header, push_chunk) or
\* AudioFragmentReassembler::push deliver a frame mixed from two, deliver one twice, forget a
\* frame that arrived whole, discard one without cause, or exceed their tables.
TransportSafe ==
    /\ DeliveredAsSent /\ ArrivedIsSettled /\ DiscardedForCause /\ LossIsReal /\ AudioInOrder
    /\ Cardinality(DOMAIN frames) <= MaxIncomplete
    /\ Cardinality(DOMAIN orphans) <= MaxOrphans
    /\ Cardinality(DOMAIN audioRx.pending) <= 1
    /\ DOMAIN frames \cap DOMAIN orphans = {}
===============================================================================
