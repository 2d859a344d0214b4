----------------------------- MODULE ReceiverLoss -----------------------------
(***************************************************************************)
(* Packet loss as the client measures it: PacketLoss of                    *)
(* maho-app/src/receiver_stats.rs, fed by observe_datagram with the        *)
(* sequence numbers of authenticated datagrams.  The network loses and     *)
(* reorders; the replay window lets no number through twice.               *)
(*                                                                         *)
(* A datagram is named by its position in the stream (0, 1, 2, ...); what  *)
(* the receiver sees of it is only the sequence number, on a ring.         *)
(***************************************************************************)
EXTENDS Integers, Sequences, FiniteSets, SequencesExt

CONSTANTS
    MaxPosition,    \* the last position the stream reaches
    LossCapacity,   \* RECEIVER_TELEMETRY_CAPACITY
    Grace,          \* RECEIVER_REORDER_GRACE, in ticks
    SequenceRing,   \* 2^32
    MaxClock        \* bound on the ticks

ASSUME LossAssumption ==
    /\ {MaxPosition, LossCapacity, Grace, MaxClock} \subseteq Nat \ {0}
    /\ SequenceRing \in Nat /\ SequenceRing % 2 = 0 /\ SequenceRing > 2 * (MaxPosition + 1)

VARIABLES
    highestSequence,     \* PacketLoss::highest, -1 for None
    pending,     \* PacketLoss::pending: [received, at]
    finalized,   \* PacketLoss::finalized: [at, expected, missing]
    clock,       \* the receiver's clock
    stream       \* the position behind `highest', the first one seen, those received,
                 \* those received in time (history)

lossVars == <<highestSequence, pending, finalized, clock, stream>>

Start == SequenceRing - 2
WireSequence(position) == (Start + position) % SequenceRing

LossInit ==
    /\ highestSequence = -1 /\ pending = <<>> /\ finalized = <<>>
    /\ clock = 0
    /\ stream = [top |-> -1, first |-> -1, got |-> {}, counted |-> {}]

Ahead(sequence, previous) ==
    LET delta == (sequence - previous) % SequenceRing IN delta # 0 /\ delta < SequenceRing \div 2

Behind(sequence) == (highestSequence - sequence) % SequenceRing

(***************************************************************************)
(* record_finalized and finalize_due.                                      *)
(***************************************************************************)
RecordFinalized(done, at, expects, misses) ==
    CASE expects = 0 -> done
      [] expects > 0 /\ done # <<>> /\ Last(done).at = at ->
           [done EXCEPT ![Len(done)] = [at |-> at, expected |-> @.expected + expects, missing |-> @.missing + misses]]
      [] OTHER ->
           Append(IF Len(done) = LossCapacity THEN Tail(done) ELSE done,
                  [at |-> at, expected |-> expects, missing |-> misses])

Misses(positions) == Cardinality({i \in DOMAIN positions : ~positions[i].received})

\* The positions at the front that have waited for the grace period.
DueCount(now) ==
    Cardinality({n \in DOMAIN pending : \A i \in 1 .. n : now - pending[i].at >= Grace})

\* Each is recorded at its own deadline, not at the time of the call.
FinalizedDue(now) ==
    FoldLeft(LAMBDA done, p : RecordFinalized(done, p.at + Grace, 1, IF p.received THEN 0 ELSE 1),
             finalized, SubSeq(pending, 1, DueCount(now)))
PendingAfterDue(now) == SubSeq(pending, DueCount(now) + 1, Len(pending))

(***************************************************************************)
(* observe.                                                                *)
(***************************************************************************)
Placed(p, now) == [received |-> p, at |-> now]

\* Mutant: the positions a huge gap never materialised are forgotten.
ExtendWithoutSkipped(sequence, waiting, done) ==
    LET distance == (sequence - highestSequence) % SequenceRing
        room == Len(waiting) + distance - LossCapacity
        overflow == IF room > 0 THEN room ELSE 0
        old == IF overflow < Len(waiting) THEN overflow ELSE Len(waiting)
        retained == distance - (overflow - old)
    IN /\ pending' = SubSeq(waiting, old + 1, Len(waiting)) \o
                     [i \in 1 .. retained |-> Placed(i = retained, clock)]
       /\ finalized' = RecordFinalized(done, clock, old, Misses(SubSeq(waiting, 1, old)))
       /\ highestSequence' = sequence

\* A number ahead of the highest: the gap becomes missing positions, and what no longer fits
\* is finalized, the part of a huge gap that never was a position included.
Extend(sequence, waiting, done) ==
    LET distance == (sequence - highestSequence) % SequenceRing
        room == Len(waiting) + distance - LossCapacity
        overflow == IF room > 0 THEN room ELSE 0
        old == IF overflow < Len(waiting) THEN overflow ELSE Len(waiting)
        skipped == overflow - old
        retained == distance - skipped
    IN /\ pending' = SubSeq(waiting, old + 1, Len(waiting)) \o
                     [i \in 1 .. retained |-> Placed(i = retained, clock)]
       /\ finalized' = RecordFinalized(done, clock, overflow, Misses(SubSeq(waiting, 1, old)) + skipped)
       /\ highestSequence' = sequence

Observe(position) ==
    LET sequence == WireSequence(position)
        waiting == PendingAfterDue(clock)
        done == FinalizedDue(clock)
        index == Len(waiting) - Behind(sequence)
    IN /\ position \notin stream.got
       /\ CASE highestSequence = -1 ->
                 /\ highestSequence' = sequence
                 /\ pending' = Append(waiting, Placed(TRUE, clock))
                 /\ finalized' = done
            [] highestSequence # -1 /\ ~Ahead(sequence, highestSequence) ->
                 /\ pending' = IF index >= 1 THEN [waiting EXCEPT ![index].received = TRUE] ELSE waiting
                 /\ finalized' = done
                 /\ UNCHANGED highestSequence
            [] OTHER -> Extend(sequence, waiting, done)
       /\ stream' = [top |-> IF position > stream.top THEN position ELSE stream.top,
                     first |-> IF stream.first = -1 THEN position ELSE stream.first,
                     got |-> stream.got \cup {position},
                     counted |-> IF stream.top < position \/ index >= 1
                                 THEN stream.counted \cup {position} ELSE stream.counted]
       /\ UNCHANGED clock

\* snapshot: reading the statistics finalizes what is due.
LossSnapshot ==
    /\ DueCount(clock) > 0
    /\ finalized' = FinalizedDue(clock)
    /\ pending' = PendingAfterDue(clock)
    /\ UNCHANGED <<highestSequence, clock, stream>>

ClockTick ==
    /\ clock < MaxClock
    /\ clock' = clock + 1
    /\ UNCHANGED <<highestSequence, pending, finalized, stream>>

LossNext == (\E p \in 0 .. MaxPosition : Observe(p)) \/ LossSnapshot \/ ClockTick
LossSpec == LossInit /\ [][LossNext]_lossVars

(***************************************************************************)
(* Properties.                                                             *)
(***************************************************************************)
SumOf(field(_), s) == FoldLeft(LAMBDA total, e : total + field(e), 0, s)
Expected(e) == e.expected
Missing(e) == e.missing

Passed == stream.first .. (stream.top - Len(pending))
Recorded == SumOf(Expected, finalized)
RecordedMissing == SumOf(Missing, finalized)

\* Whatever is lost, reordered, late or too far ahead, and across the wrap of the sequence
\* numbers, PacketLoss::observe and finalize_due account for every position from the first
\* datagram to the highest exactly once, and count as missing exactly those that had not
\* arrived when they were finalized; a datagram that comes later changes nothing.  (As long
\* as the ring of results has not dropped its oldest.)
LossIsExact ==
    highestSequence # -1 =>
        /\ highestSequence = WireSequence(stream.top)
        /\ Len(pending) <= LossCapacity /\ Len(finalized) <= LossCapacity
        /\ \A i \in DOMAIN pending :
             pending[i].received <=> (stream.top - Len(pending) + i) \in stream.counted
        /\ Len(finalized) < LossCapacity =>
             /\ Recorded = Cardinality(Passed)
             /\ RecordedMissing = Cardinality(Passed \ stream.counted)
        /\ \A i, j \in DOMAIN finalized : i < j => finalized[i].at <= finalized[j].at
===============================================================================
