------------------------- MODULE MediaPipelineProofs -------------------------
(***************************************************************************)
(* Proofs about the pipelines, the slot and the sender thread of a host    *)
(* session: for any number of replacements, and wherever the watchdog gets *)
(* in between, what captures is in somebody's hands and what the client    *)
(* sees is what the session controls.  At the end: what a Windows host's   *)
(* capture and encoder threads send is in order and what it says it is.    *)
(***************************************************************************)
EXTENDS MediaPipeline, WindowsMedia, FiniteSetTheorems, SequenceTheorems,
        WellFoundedInduction, TLAPS

\* Outside a replacement and before the teardown.
Settled == {"loop", "read", "topology", "serve", "packet"}
Replacing == {"hot swap", "hot replace", "options swap", "options take", "options stop"}

\* The locals of the session thread, and the types of the rest.
Places == Settled \cup Replacing \cup {"hot stop", "teardown", "take", "join", "done"}
Reasons == {"none", "stopped", "left", "media", "start failed", "key frame failed"}
Locals == [pc : Places, failed : BOOLEAN, packet : Packets, new : Pipes \cup {None},
           old : Pipes \cup {None}, factory : BOOLEAN, why : Reasons]
PipesOK == pipe \in [Pipes -> {"unused", "running", "failed", "stopping", "stopped"}] /\ full \subseteq Pipes
ChannelsOK ==
    /\ slot \in Pipes \cup {None} /\ held \in Pipes \cup {None}
    /\ swapTx \in {"none", "open", "dropped"}
    /\ swap \in Seq(Pipes)
    /\ snd \in [pc : {"none", "run", "wait", "exited"}, rx : Pipes \cup {None}]
FlagsOK ==
    /\ stopSent \in BOOLEAN /\ status \in BOOLEAN /\ udpPeer \in BOOLEAN
    /\ wd \in {"watching", "shut", "aborted", "done"}
    /\ shut \in BOOLEAN /\ aborted \in BOOLEAN /\ stop \in BOOLEAN /\ output \in BOOLEAN

\* A pipeline whose workers nobody told to stop is in the slot or is the one that is being
\* put there.
CapturingIsOwned ==
    \A p \in Pipes : pipe[p] \in {"running", "failed"} => p = slot \/ p = s.new

NewIsReplacing == s.new # None <=> s.pc \in Replacing

\* Nothing is in the slot between its take and the end of the stop.
SlotIsTaken == s.pc \in {"options stop", "join", "done"} => slot = None

\* The receiver is either held for a sender thread to come, or on its way to the one there is.
OneWayToTheSender ==
    /\ swapTx = "open" => held = None /\ snd.pc # "none"
    /\ snd.pc = "none" => swap = << >>

\* The sender is told to leave only by the teardown.
SenderKeptUntilTeardown ==
    stopSent \/ swapTx = "dropped" => s.pc \in {"take", "join", "done"}

\* The newest channel is that of the pipeline being put into the slot, and then that of the slot.
NewestFollows ==
    /\ s.pc \in {"hot replace", "options take", "options stop"} => Newest = s.new
    /\ s.pc \in Settled \cup {"hot stop"} /\ slot # None => Newest = slot

PipelineInv ==
    /\ s \in Locals /\ PipesOK /\ ChannelsOK /\ FlagsOK
    /\ CapturingIsOwned /\ NewIsReplacing /\ SlotIsTaken
    /\ OneWayToTheSender /\ SenderKeptUntilTeardown /\ NewestFollows

\* There is a next pipeline to start whenever one is unused.
LEMMA NextIsUnused ==
    ASSUME Unused # {}
    PROVE  Next1(Unused) \in Unused
  <1> DEFINE Less == OpToRel(<, Nat)
  <1>1. Less = {ss \in Nat \X Nat : ss[1] < ss[2]}
    BY DEF OpToRel
  <1>2. Unused \subseteq Nat
    BY PipelineAssumption DEF Unused
  <1>3. IsWellFoundedOn(Less, Nat)
    BY NatLessThanWellFounded
  <1> HIDE DEF Less
  <1>4. PICK x \in Unused : \A y \in Unused : ~ (<<y, x>> \in Less)
    BY <1>2, <1>3, WFMin
  <1>5. ASSUME NEW y \in Unused PROVE x <= y
    <2>1. x \in Nat /\ y \in Nat
      BY <1>2
    <2>2. y < x => <<y, x>> \in {ss \in Nat \X Nat : ss[1] < ss[2]}
      BY <2>1
    <2>3. ~ (y < x)
      BY <1>1, <1>4, <2>2
    <2> QED
      BY <2>1, <2>3
  <1> QED
    BY <1>5 DEF Next1

LEMMA TypesAreTypeOK == (s \in Locals /\ PipesOK /\ ChannelsOK /\ FlagsOK) => TypeOK
  <1>1. s \in Locals => s \in [pc : {"loop", "read", "topology", "hot swap", "hot replace", "hot stop",
                    "serve", "packet", "options swap", "options take", "options stop",
                    "teardown", "take", "join", "done"},
              failed : BOOLEAN, packet : Packets, new : Pipes \cup {None},
              old : Pipes \cup {None}, factory : BOOLEAN,
              why : {"none", "stopped", "left", "media", "start failed",
                     "key frame failed"}]
    BY DEF Locals, Places, Settled, Replacing, Reasons
  <1> QED
    BY <1>1 DEF TypeOK, PipesOK, ChannelsOK, FlagsOK

LEMMA LocalsMove ==
    ASSUME s \in Locals
    PROVE  /\ \A pc \in Places : [s EXCEPT !.pc = pc] \in Locals
           /\ \A pc \in Places : \A w \in Reasons : [s EXCEPT !.pc = pc, !.why = w] \in Locals
           /\ \A pc \in Places : \A f \in BOOLEAN : [s EXCEPT !.pc = pc, !.failed = f] \in Locals
           /\ \A pc \in Places : \A k \in Packets : [s EXCEPT !.pc = pc, !.packet = k] \in Locals
           /\ \A pc \in Places : \A n \in Pipes \cup {None} : [s EXCEPT !.pc = pc, !.new = n] \in Locals
           /\ \A pc \in Places : \A o \in Pipes \cup {None} : [s EXCEPT !.pc = pc, !.old = o] \in Locals
           /\ \A pc \in Places : \A o, n \in Pipes \cup {None} : [s EXCEPT !.pc = pc, !.old = o, !.new = n] \in Locals
  BY DEF Locals

LEMMA EndDoes ==
    ASSUME s \in Locals, NEW w \in Reasons, End(w)
    PROVE  s' \in Locals /\ s'.pc = "teardown" /\ s'.new = s.new
  <1>1. s' \in Locals
    BY LocalsMove DEF End, Places
  <1> QED
    BY <1>1 DEF End, Locals

LEMMA GotoDoes ==
    ASSUME s \in Locals, NEW pc \in Places, Goto(pc)
    PROVE  s' \in Locals /\ s'.pc = pc /\ s'.new = s.new
  <1>1. s' \in Locals
    BY LocalsMove DEF Goto
  <1> QED
    BY <1>1 DEF Goto, Locals

\* What was signalled captures no more; the others are as they were.
LEMMA SignalledDoes ==
    ASSUME PipesOK, NEW p \in Pipes \cup {None}
    PROVE  /\ Signalled(p) \in [Pipes -> {"unused", "running", "failed", "stopping", "stopped"}]
           /\ \A q \in Pipes : q # p => Signalled(p)[q] = pipe[q]
           /\ p \in Pipes => Signalled(p)[p] \in {"stopping", "stopped"}
  BY PipelineAssumption DEF PipesOK, Signalled

\* The channels as they were, Newest is what it was.
LEMMA NewestKept ==
    ASSUME UNCHANGED <<held, swap, snd>>
    PROVE  Newest' = Newest
  BY DEF Newest

\* A step that touches no pipeline and no channel: the session thread stays where it is, goes
\* on, or goes into the teardown.
LEMMA QuietRound ==
    ASSUME PipelineInv, s' \in Locals, FlagsOK', full' \subseteq Pipes,
           UNCHANGED <<held, swapTx, stopSent, pipe, slot, swap, snd>>, s'.new = s.new,
           \/ s'.pc = s.pc
           \/ s.pc \in Settled \cup {"hot stop"} /\ s'.pc \in Settled \cup {"teardown"}
    PROVE  PipelineInv'
  <1>1. Newest' = Newest
    BY NewestKept
  <1>2. PipesOK' /\ ChannelsOK'
    BY DEF PipelineInv, PipesOK, ChannelsOK
  <1> QED
    BY <1>1, <1>2
    DEF PipelineInv, CapturingIsOwned, NewIsReplacing, SlotIsTaken, OneWayToTheSender,
        SenderKeptUntilTeardown, NewestFollows, Settled, Replacing

\* The steps of the session thread that only move it.
LEMMA RoundKeeps ==
    ASSUME PipelineInv,
           \/ LoopTop \/ ServeEnds \/ HandlePacket \/ HotStopped
           \/ \E packet \in Packets \cup {"disconnect"} : Read(packet)
    PROVE  PipelineInv'
  <1>t. s \in Locals /\ PipesOK /\ ChannelsOK /\ FlagsOK /\ full \subseteq Pipes
    BY DEF PipelineInv, PipesOK
  <1>e. ASSUME NEW w \in Reasons, End(w), s.pc \in Settled, status' = status,
               UNCHANGED <<held, swapTx, stopSent, udpPeer, pipe, full, slot, swap, snd, watch, outside>>
        PROVE  PipelineInv'
    <2>1. FlagsOK'
      BY <1>t, <1>e DEF FlagsOK, watch, outside
    <2>2. s' \in Locals /\ s'.pc = "teardown" /\ s'.new = s.new
      BY <1>t, <1>e, EndDoes
    <2> QED
      BY <1>t, <1>e, <2>1, <2>2, QuietRound
  <1>g. ASSUME s.pc \in Settled \cup {"hot stop"}, s' \in Locals, s'.pc \in Settled, s'.new = s.new,
               status' \in BOOLEAN, output' \in BOOLEAN,
               UNCHANGED <<held, swapTx, stopSent, udpPeer, pipe, full, slot, swap, snd, watch, stop>>
        PROVE  PipelineInv'
    <2>1. FlagsOK'
      BY <1>t, <1>g DEF FlagsOK, watch
    <2> QED
      BY <1>t, <1>g, <2>1, QuietRound
  <1>f. status \in BOOLEAN /\ output \in BOOLEAN
    BY <1>t DEF FlagsOK
  <1>1. CASE LoopTop
    <2>u. /\ UNCHANGED <<held, swapTx, stopSent, udpPeer, pipe, full, slot, swap, snd, watch, outside>>
          /\ s.pc = "loop"
      BY <1>1 DEF LoopTop
    <2>1. CASE aborted \/ stop
      BY <1>1, <1>e, <2>u, <2>1 DEF LoopTop, Reasons, Settled
    <2>2. CASE ~ (aborted \/ stop)
      <3>1. s' = [s EXCEPT !.pc = "read", !.failed = status] /\ status' = FALSE
        BY <1>1, <2>2 DEF LoopTop
      <3>2. s' \in Locals
        BY <1>t, <1>f, <3>1, LocalsMove DEF Places, Settled
      <3>3. s'.pc = "read" /\ s'.new = s.new
        BY <1>t, <3>1 DEF Locals
      <3> QED
        BY <1>f, <1>g, <2>u, <3>1, <3>2, <3>3 DEF Settled, outside
    <2> QED
      BY <2>1, <2>2
  <1>2. CASE ServeEnds
    BY <1>2, <1>e DEF ServeEnds, Reasons, Settled
  <1>3. CASE HandlePacket
    <2>u. /\ UNCHANGED <<held, swapTx, stopSent, udpPeer, pipe, full, slot, swap, status, snd, watch, outside>>
          /\ s.pc = "packet" /\ (Goto("loop") \/ End("key frame failed"))
      BY <1>3 DEF HandlePacket
    <2>1. CASE Goto("loop")
      <3>1. s' \in Locals /\ s'.pc = "loop" /\ s'.new = s.new
        BY <1>t, <2>1, GotoDoes DEF Places, Settled
      <3> QED
        BY <1>f, <1>g, <2>u, <3>1 DEF Settled, outside
    <2>2. CASE End("key frame failed")
      BY <1>e, <2>u, <2>2 DEF Reasons, Settled
    <2> QED
      BY <2>u, <2>1, <2>2
  <1>4. CASE HotStopped
    <2>1. s' = [s EXCEPT !.pc = "serve", !.old = None]
      BY <1>4 DEF HotStopped
    <2>2. s' \in Locals
      BY <1>t, <2>1, LocalsMove DEF Places, Settled
    <2>3. s'.pc = "serve" /\ s'.new = s.new
      BY <1>t, <2>1 DEF Locals
    <2>4. output' = TRUE /\ status' = status
      BY <1>4 DEF HotStopped
    <2> QED
      BY <1>4, <1>f, <1>g, <2>2, <2>3, <2>4 DEF HotStopped, Settled
  <1>5. ASSUME NEW packet \in Packets \cup {"disconnect"}, Read(packet) PROVE PipelineInv'
    <2>u. /\ UNCHANGED <<held, swapTx, stopSent, udpPeer, pipe, full, slot, swap, status, snd, watch, outside>>
          /\ s.pc = "read"
      BY <1>5 DEF Read
    <2>1. CASE shut \/ packet = "disconnect"
      BY <1>5, <1>e, <2>u, <2>1 DEF Read, Reasons, Settled
    <2>2. CASE ~ (shut \/ packet = "disconnect")
      <3>1. s' = [s EXCEPT !.pc = "topology", !.packet = packet] /\ packet \in Packets
        BY <1>5, <2>2 DEF Read
      <3>2. s' \in Locals
        BY <1>t, <3>1, LocalsMove DEF Places, Settled
      <3>3. s'.pc = "topology" /\ s'.new = s.new
        BY <1>t, <3>1 DEF Locals
      <3> QED
        BY <1>f, <1>g, <2>u, <3>2, <3>3 DEF Settled, outside
    <2> QED
      BY <2>1, <2>2
  <1> QED
    BY <1>1, <1>2, <1>3, <1>4, <1>5

\* A replacement begins: the new pipeline runs before the old one is told to stop.
LEMMA StartKeeps ==
    ASSUME PipelineInv, NEW pc \in {"hot swap", "options swap"}, s.pc \in Settled, StartPipe(pc),
           UNCHANGED <<held, swapTx, stopSent, udpPeer, full, slot, swap, status, snd, watch, outside>>
    PROVE  PipelineInv'
  <1>t. s \in Locals /\ PipesOK /\ ChannelsOK /\ FlagsOK
    BY DEF PipelineInv
  <1>1. PICK p \in Unused : /\ pipe' = [pipe EXCEPT ![p] = "running"]
                            /\ s' = [s EXCEPT !.pc = pc, !.new = p]
    BY NextIsUnused DEF StartPipe
  <1>2. p \in Pipes
    BY DEF Unused
  <1>3. s' \in Locals
    BY <1>t, <1>1, <1>2, LocalsMove DEF Places, Replacing
  <1>4. PipesOK' /\ ChannelsOK'
    BY <1>t, <1>1, <1>2 DEF PipesOK, ChannelsOK
  <1>5. FlagsOK'
    BY <1>t DEF FlagsOK, watch, outside
  <1>6. s'.pc = pc /\ s'.new = p
    BY <1>t, <1>1 DEF Locals
  <1>7. s.new = None
    BY DEF PipelineInv, NewIsReplacing, Settled, Replacing
  <1>8. CapturingIsOwned'
    <2>1. \A q \in Pipes : q # p => pipe'[q] = pipe[q]
      BY <1>t, <1>1 DEF PipesOK
    <2> QED
      BY <1>6, <1>7, <2>1, PipelineAssumption DEF PipelineInv, CapturingIsOwned
  <1>9. NewIsReplacing' /\ SlotIsTaken' /\ OneWayToTheSender' /\ SenderKeptUntilTeardown' /\ NewestFollows'
    BY <1>2, <1>6, PipelineAssumption
    DEF PipelineInv, NewIsReplacing, SlotIsTaken, OneWayToTheSender, SenderKeptUntilTeardown,
        NewestFollows, Settled, Replacing
  <1> QED
    BY <1>3, <1>4, <1>5, <1>8, <1>9 DEF PipelineInv

LEMMA AppendIsLast ==
    ASSUME NEW q \in Seq(Pipes), NEW p \in Pipes
    PROVE  /\ Append(q, p) \in Seq(Pipes) /\ Append(q, p) # << >>
           /\ Append(q, p)[Len(Append(q, p))] = p
  <1>1. Len(Append(q, p)) = Len(q) + 1 /\ Len(q) \in Nat
    OBVIOUS
  <1>2. Append(q, p)[Len(q) + 1] = p
    OBVIOUS
  <1> QED
    BY <1>1, <1>2

LEMMA TailKeepsLast ==
    ASSUME NEW q \in Seq(Pipes), q # << >>
    PROVE  /\ Head(q) \in Pipes /\ Tail(q) \in Seq(Pipes)
           /\ Tail(q) = << >> => q[Len(q)] = Head(q)
           /\ Tail(q) # << >> => Tail(q)[Len(Tail(q))] = q[Len(q)]
  <1>1. Len(q) \in Nat /\ Len(q) # 0 /\ Tail(q) \in Seq(Pipes) /\ Head(q) \in Pipes /\ Head(q) = q[1]
    OBVIOUS
  <1>2. Len(Tail(q)) = Len(q) - 1 /\ \A i \in 1 .. Len(q) - 1 : Tail(q)[i] = q[i + 1]
    BY <1>1
  <1>e. \A t \in Seq(Pipes) : t = << >> <=> Len(t) = 0
    OBVIOUS
  <1>3. Tail(q) = << >> => Len(q) = 1
    <2>1. Tail(q) = << >> => Len(Tail(q)) = 0
      BY <1>1, <1>e
    <2>2. Len(Tail(q)) = 0 => Len(q) = 1
      <3> DEFINE n == Len(q)
                 m == Len(Tail(q))
      <3>1. n \in Nat /\ m = n - 1
        BY <1>1, <1>2
      <3> HIDE DEF n, m
      <3>2. m = 0 => n = 1
        BY <3>1
      <3> QED
        BY <3>2 DEF n, m
    <2> QED
      BY <2>1, <2>2
  <1>4. Tail(q) # << >> => Len(Tail(q)) # 0
    BY <1>1, <1>e
  <1> QED
    BY <1>1, <1>2, <1>3, <1>4

\* The new receiver is handed over: it is the newest.
LEMMA HandOverKeeps ==
    ASSUME PipelineInv, NEW pc \in {"hot replace", "options take"},
           s.pc \in {"hot swap", "options swap"}, s.new \in Pipes, HandOver(s.new), Goto(pc),
           UNCHANGED <<swapTx, stopSent, udpPeer, pipe, full, slot, status, snd, watch, outside>>
    PROVE  PipelineInv'
  <1>t. s \in Locals /\ PipesOK /\ ChannelsOK /\ FlagsOK
    BY DEF PipelineInv
  <1>1. s' \in Locals /\ s'.pc = pc /\ s'.new = s.new
    BY <1>t, GotoDoes DEF Places, Replacing
  <1>2. PipesOK' /\ FlagsOK'
    BY <1>t DEF PipesOK, FlagsOK, watch, outside
  <1>3. ASSUME Newest' = s.new, ChannelsOK', swapTx = "open" => held' = None /\ snd.pc # "none",
               snd.pc = "none" => swap' = << >>
        PROVE  PipelineInv'
    BY <1>1, <1>2, <1>3
    DEF PipelineInv, CapturingIsOwned, NewIsReplacing, SlotIsTaken, OneWayToTheSender,
        SenderKeptUntilTeardown, NewestFollows, Settled, Replacing
  <1>4. CASE swapTx = "open"
    <2>1. swap' = Append(swap, s.new) /\ held' = None /\ held = None /\ snd.pc # "none"
      BY <1>4 DEF HandOver, PipelineInv, OneWayToTheSender
    <2>2. swap \in Seq(Pipes)
      BY <1>t DEF ChannelsOK
    <2>4. swap' \in Seq(Pipes) /\ swap' # << >> /\ swap'[Len(swap')] = s.new
      BY <2>1, <2>2, AppendIsLast
    <2>5. Newest' = s.new
      BY <2>1, <2>4 DEF Newest
    <2>6. ChannelsOK'
      BY <1>t, <2>1, <2>4 DEF ChannelsOK
    <2> QED
      BY <1>3, <2>1, <2>5, <2>6
  <1>5. CASE swapTx # "open"
    <2>1. swap' = swap /\ held' = s.new
      BY <1>5 DEF HandOver
    <2>2. Newest' = s.new
      BY <2>1, PipelineAssumption DEF Newest
    <2>3. ChannelsOK'
      BY <1>t, <2>1 DEF ChannelsOK
    <2> QED
      BY <1>3, <1>5, <2>1, <2>2, <2>3 DEF PipelineInv, OneWayToTheSender
  <1> QED
    BY <1>4, <1>5

\* The session thread or the watchdog takes what is in the slot, if anything is, and stops it.
LEMMA SlotStopped ==
    ASSUME PipelineInv, pipe' = Signalled(slot), s'.new = s.new \/ slot' = s.new
    PROVE  /\ pipe' \in [Pipes -> {"unused", "running", "failed", "stopping", "stopped"}]
           /\ CapturingIsOwned'
  <1>1. slot \in Pipes \cup {None} /\ PipesOK
    BY DEF PipelineInv, ChannelsOK
  <1>2. /\ pipe' \in [Pipes -> {"unused", "running", "failed", "stopping", "stopped"}]
        /\ \A q \in Pipes : q # slot => pipe'[q] = pipe[q]
        /\ slot \in Pipes => pipe'[slot] \in {"stopping", "stopped"}
    BY <1>1, SignalledDoes
  <1> QED
    BY <1>2 DEF PipelineInv, CapturingIsOwned

\* The middle and the end of a replacement.
LEMMA ReplaceKeeps ==
    ASSUME PipelineInv, HotReplace \/ OptionsTake \/ OptionsPut
    PROVE  PipelineInv'
  <1>t. s \in Locals /\ PipesOK /\ ChannelsOK /\ FlagsOK
        /\ slot \in Pipes \cup {None} /\ s.new \in Pipes \cup {None} /\ None \in Pipes \cup {None}
    BY DEF PipelineInv, ChannelsOK, Locals
  <1>u. /\ UNCHANGED <<held, swapTx, stopSent, udpPeer, full, swap, status, snd, watch, stop>>
        /\ output' \in BOOLEAN
    BY <1>t DEF HotReplace, OptionsTake, OptionsPut, outside, FlagsOK
  <1>n. Newest' = Newest
    BY <1>u, NewestKept
  <1>f. FlagsOK'
    BY <1>t, <1>u DEF FlagsOK, watch
  <1>1. CASE HotReplace
    <2>1. /\ s' = [s EXCEPT !.pc = "hot stop", !.old = slot, !.new = None]
          /\ slot' = s.new /\ pipe' = Signalled(slot) /\ s.pc = "hot replace"
      BY <1>1 DEF HotReplace
    <2>2. s' \in Locals
      BY <1>t, <2>1, LocalsMove DEF Places
    <2>3. s'.pc = "hot stop" /\ s'.new = None
      BY <1>t, <2>1 DEF Locals
    <2>4. pipe' \in [Pipes -> {"unused", "running", "failed", "stopping", "stopped"}] /\ CapturingIsOwned'
      BY <2>1, SlotStopped
    <2>5. PipesOK' /\ ChannelsOK'
      BY <1>t, <1>u, <2>1, <2>4 DEF PipesOK, ChannelsOK
    <2> QED
      BY <1>f, <1>n, <1>u, <2>1, <2>2, <2>3, <2>4, <2>5
      DEF PipelineInv, NewIsReplacing, SlotIsTaken, OneWayToTheSender, SenderKeptUntilTeardown,
          NewestFollows, Settled, Replacing
  <1>2. CASE OptionsTake
    <2>1. /\ s' = [s EXCEPT !.pc = "options stop", !.old = slot]
          /\ slot' = None /\ pipe' = Signalled(slot) /\ s.pc = "options take"
      BY <1>2 DEF OptionsTake
    <2>2. s' \in Locals
      BY <1>t, <2>1, LocalsMove DEF Places, Replacing
    <2>3. s'.pc = "options stop" /\ s'.new = s.new
      BY <1>t, <2>1 DEF Locals
    <2>4. pipe' \in [Pipes -> {"unused", "running", "failed", "stopping", "stopped"}] /\ CapturingIsOwned'
      BY <2>1, <2>3, SlotStopped
    <2>5. PipesOK' /\ ChannelsOK'
      BY <1>t, <1>u, <2>1, <2>4 DEF PipesOK, ChannelsOK
    <2> QED
      BY <1>f, <1>n, <1>u, <2>1, <2>2, <2>3, <2>4, <2>5
      DEF PipelineInv, NewIsReplacing, SlotIsTaken, OneWayToTheSender, SenderKeptUntilTeardown,
          NewestFollows, Settled, Replacing
  <1>3. CASE OptionsPut
    <2>1. /\ s' = [s EXCEPT !.pc = "loop", !.old = None, !.new = None]
          /\ slot' = s.new /\ pipe' = pipe /\ s.pc = "options stop"
      BY <1>3 DEF OptionsPut
    <2>2. s' \in Locals
      BY <1>t, <2>1, LocalsMove DEF Places, Settled
    <2>3. s'.pc = "loop" /\ s'.new = None
      BY <1>t, <2>1 DEF Locals
    <2>4. slot = None
      BY <2>1 DEF PipelineInv, SlotIsTaken
    <2>5. CapturingIsOwned'
      BY <2>1, <2>3, <2>4, PipelineAssumption DEF PipelineInv, CapturingIsOwned
    <2>6. PipesOK' /\ ChannelsOK'
      BY <1>t, <1>u, <2>1 DEF PipesOK, ChannelsOK
    <2> QED
      BY <1>f, <1>n, <1>u, <2>1, <2>2, <2>3, <2>5, <2>6
      DEF PipelineInv, NewIsReplacing, SlotIsTaken, OneWayToTheSender, SenderKeptUntilTeardown,
          NewestFollows, Settled, Replacing
  <1> QED
    BY <1>1, <1>2, <1>3

\* The rest of the session thread: a vanished monitor, a registration, a request for options.
LEMMA SettledKeeps ==
    ASSUME PipelineInv,
           \/ \E due, leaves \in BOOLEAN : Topology(due, leaves)
           \/ \E registers \in BOOLEAN : Serve(registers)
           \/ OptionsStart \/ HotSwap \/ OptionsSwap
    PROVE  PipelineInv'
  <1>t. s \in Locals /\ PipesOK /\ ChannelsOK /\ FlagsOK /\ full \subseteq Pipes
    BY DEF PipelineInv, PipesOK
  <1>n. s.pc \in Replacing => s.new \in Pipes
    BY <1>t DEF PipelineInv, NewIsReplacing, Locals
  <1>e. ASSUME NEW w \in Reasons, End(w) \/ Goto("serve") \/ Goto("loop"), s.pc \in Settled,
               UNCHANGED <<held, swapTx, stopSent, udpPeer, pipe, full, slot, swap, status, snd, watch, outside>>
        PROVE  PipelineInv'
    <2>1. FlagsOK'
      BY <1>t, <1>e DEF FlagsOK, watch, outside
    <2>2. s' \in Locals /\ s'.pc \in {"teardown", "serve", "loop"} /\ s'.new = s.new
      BY <1>t, <1>e, EndDoes, GotoDoes DEF Places, Settled
    <2> QED
      BY <1>t, <1>e, <2>1, <2>2, QuietRound DEF Settled
  <1>1. ASSUME NEW due \in BOOLEAN, NEW leaves \in BOOLEAN, Topology(due, leaves) PROVE PipelineInv'
    <2>u. /\ UNCHANGED <<held, swapTx, stopSent, udpPeer, full, slot, swap, status, snd, watch, outside>>
          /\ s.pc = "topology"
      BY <1>1 DEF Topology
    <2>1. \/ UNCHANGED pipe /\ (End("media") \/ End("start failed") \/ Goto("serve") \/ Goto("loop"))
          \/ StartPipe("hot swap")
      BY <1>1, <1>t DEF Topology, FlagsOK, Locals
    <2>2. CASE UNCHANGED pipe /\ (End("media") \/ End("start failed") \/ Goto("serve") \/ Goto("loop"))
      BY <1>e, <2>u, <2>2 DEF Settled, Reasons
    <2>3. CASE StartPipe("hot swap")
      BY <2>u, <2>3, StartKeeps DEF Settled
    <2> QED
      BY <2>1, <2>2, <2>3
  <1>2. CASE OptionsStart
    <2>u. /\ UNCHANGED <<held, swapTx, stopSent, udpPeer, full, slot, swap, status, snd, watch, outside>>
          /\ s.pc = "packet"
          /\ (Goto("loop") /\ UNCHANGED pipe) \/ StartPipe("options swap")
      BY <1>2 DEF OptionsStart
    <2>1. CASE Goto("loop") /\ UNCHANGED pipe
      BY <1>e, <2>u, <2>1 DEF Settled, Reasons
    <2>2. CASE StartPipe("options swap")
      BY <2>u, <2>2, StartKeeps DEF Settled
    <2> QED
      BY <2>u, <2>1, <2>2
  <1>3. CASE HotSwap
    BY <1>3, <1>n, HandOverKeeps DEF HotSwap, Replacing
  <1>4. CASE OptionsSwap
    BY <1>4, <1>n, HandOverKeeps DEF OptionsSwap, Replacing
  <1>5. ASSUME NEW registers \in BOOLEAN, Serve(registers) PROVE PipelineInv'
    <2>u. /\ UNCHANGED <<stopSent, pipe, full, slot, swap, status, watch, outside>>
          /\ s.pc = "serve" /\ Goto("packet")
      BY <1>5 DEF Serve
    <2>0. udpPeer' \in BOOLEAN
      BY <1>5 DEF Serve
    <2>1. s' \in Locals /\ s'.pc = "packet" /\ s'.new = s.new
      BY <1>t, <2>u, GotoDoes DEF Places, Settled
    <2>2. FlagsOK'
      BY <1>t, <2>u, <2>0 DEF FlagsOK, watch, outside
    <2>3. CASE UNCHANGED <<snd, held, swapTx>>
      BY <1>t, <2>u, <2>1, <2>2, <2>3, QuietRound DEF Settled
    <2>4. CASE /\ held # None /\ snd.pc = "none" /\ snd' = [pc |-> "run", rx |-> held]
               /\ held' = None /\ swapTx' = "open"
      <3>1. swap = << >> /\ swap' = << >>
        BY <2>u, <2>4 DEF PipelineInv, OneWayToTheSender
      <3>2. snd'.pc = "run" /\ snd'.rx = held
        BY <2>4
      <3>3. Newest' = held /\ Newest = held
        BY <2>4, <3>1, <3>2 DEF Newest
      <3>4. PipesOK' /\ ChannelsOK'
        BY <1>t, <2>u, <2>4 DEF PipesOK, ChannelsOK
      <3>5. ~ stopSent
        BY <2>u DEF PipelineInv, SenderKeptUntilTeardown
      <3> QED
        BY <2>u, <2>1, <2>2, <2>4, <3>2, <3>3, <3>4, <3>5
        DEF PipelineInv, CapturingIsOwned, NewIsReplacing, SlotIsTaken, OneWayToTheSender,
            SenderKeptUntilTeardown, NewestFollows, Settled, Replacing
    <2> QED
      BY <1>5, <2>3, <2>4 DEF Serve
  <1> QED
    BY <1>1, <1>2, <1>3, <1>4, <1>5

\* The teardown.
LEMMA TeardownKeeps ==
    ASSUME PipelineInv, Teardown \/ TeardownStop \/ TeardownJoin
    PROVE  PipelineInv'
  <1>t. s \in Locals /\ PipesOK /\ ChannelsOK /\ FlagsOK
        /\ slot \in Pipes \cup {None} /\ None \in Pipes \cup {None}
    BY DEF PipelineInv, ChannelsOK
  <1> USE DEF NewIsReplacing, SlotIsTaken, OneWayToTheSender, SenderKeptUntilTeardown, NewestFollows, Settled, Replacing
  <1>1. CASE Teardown
    <2>u. /\ UNCHANGED <<udpPeer, pipe, full, slot, swap, status, snd, watch, outside>>
          /\ s.pc = "teardown" /\ Goto("take") /\ held' = None
          /\ stopSent' \in BOOLEAN /\ swapTx' \in {"none", "dropped"}
      BY <1>1, <1>t DEF Teardown, ChannelsOK
    <2>1. s' \in Locals /\ s'.pc = "take" /\ s'.new = s.new
      BY <1>t, <2>u, GotoDoes DEF Places
    <2>2. FlagsOK'
      BY <1>t, <2>u DEF FlagsOK, watch, outside
    <2>3. PipesOK' /\ ChannelsOK'
      BY <1>t, <2>u DEF PipesOK, ChannelsOK
    <2> QED
      BY <2>u, <2>1, <2>2, <2>3 DEF PipelineInv, CapturingIsOwned
  <1>2. CASE TeardownStop
    <2>u. /\ UNCHANGED <<held, swapTx, stopSent, udpPeer, full, swap, status, snd, watch, outside>>
          /\ s.pc = "take" /\ slot' = None /\ pipe' = Signalled(slot)
          /\ s' = [s EXCEPT !.pc = "join", !.old = slot]
      BY <1>2 DEF TeardownStop
    <2>1. s' \in Locals
      BY <1>t, <2>u, LocalsMove DEF Places
    <2>2. s'.pc = "join" /\ s'.new = s.new
      BY <1>t, <2>u DEF Locals
    <2>3. pipe' \in [Pipes -> {"unused", "running", "failed", "stopping", "stopped"}] /\ CapturingIsOwned'
      BY <2>u, <2>2, SlotStopped
    <2>4. PipesOK' /\ ChannelsOK'
      BY <1>t, <2>u, <2>3 DEF PipesOK, ChannelsOK
    <2>5. FlagsOK'
      BY <1>t, <2>u DEF FlagsOK, watch, outside
    <2> QED
      BY <2>u, <2>1, <2>2, <2>3, <2>4, <2>5 DEF PipelineInv
  <1>3. CASE TeardownJoin
    <2>u. /\ UNCHANGED <<held, swapTx, stopSent, udpPeer, pipe, full, slot, swap, status, snd, watch, outside>>
          /\ s.pc = "join" /\ s' = [s EXCEPT !.pc = "done", !.old = None]
      BY <1>3 DEF TeardownJoin
    <2>1. s' \in Locals
      BY <1>t, <2>u, LocalsMove DEF Places
    <2>2. s'.pc = "done" /\ s'.new = s.new
      BY <1>t, <2>u DEF Locals
    <2>3. PipesOK' /\ ChannelsOK'
      BY <1>t, <2>u DEF PipesOK, ChannelsOK
    <2>4. FlagsOK'
      BY <1>t, <2>u DEF FlagsOK, watch, outside
    <2> QED
      BY <2>u, <2>1, <2>2, <2>3, <2>4 DEF PipelineInv, CapturingIsOwned
  <1> QED
    BY <1>1, <1>2, <1>3

\* The sender thread takes the oldest replacement first, and leaves only when told to.
LEMMA SenderKeeps ==
    ASSUME PipelineInv, Sender
    PROVE  PipelineInv'
  <1>t. s \in Locals /\ PipesOK /\ ChannelsOK /\ FlagsOK /\ full \subseteq Pipes
    BY DEF PipelineInv, PipesOK
  <1> USE DEF session, watch, outside
  <1>1. CASE SenderSwap
    <2>u. /\ UNCHANGED <<s, held, swapTx, stopSent, udpPeer, pipe, full, slot, status, wd, shut, aborted, stop, output>>
          /\ snd.pc \in {"run", "wait"} /\ swap # << >> /\ swap \in Seq(Pipes)
          /\ snd' = [pc |-> "run", rx |-> Head(swap)] /\ swap' = Tail(swap)
      BY <1>1, <1>t DEF SenderSwap, ChannelsOK
    <2>1. /\ Head(swap) \in Pipes /\ Tail(swap) \in Seq(Pipes)
          /\ Tail(swap) = << >> => swap[Len(swap)] = Head(swap)
          /\ Tail(swap) # << >> => Tail(swap)[Len(Tail(swap))] = swap[Len(swap)]
      BY <2>u, TailKeepsLast
    <2>2. snd'.pc = "run" /\ snd'.rx = Head(swap)
      BY <2>u
    <2>3. Newest' = Newest
      BY <2>u, <2>1, <2>2 DEF Newest
    <2>4. PipesOK' /\ ChannelsOK'
      BY <1>t, <2>u, <2>1 DEF PipesOK, ChannelsOK
    <2>5. FlagsOK'
      BY <1>t, <2>u DEF FlagsOK
    <2> QED
      BY <2>u, <2>2, <2>3, <2>4, <2>5
      DEF PipelineInv, CapturingIsOwned, NewIsReplacing, SlotIsTaken, OneWayToTheSender,
          SenderKeptUntilTeardown, NewestFollows
  <1>2. CASE SenderStops \/ SenderWoken
    <2>u. /\ UNCHANGED <<s, held, swapTx, stopSent, udpPeer, pipe, full, slot, status, swap, wd, shut, aborted, stop, output>>
          /\ snd' = [pc |-> "exited", rx |-> None]
      BY <1>2 DEF SenderStops, SenderWoken
    <2>1. s.pc \in {"take", "join", "done"}
      BY <1>2 DEF SenderStops, SenderWoken, PipelineInv, SenderKeptUntilTeardown
    <2>2. PipesOK' /\ ChannelsOK'
      BY <1>t, <2>u DEF PipesOK, ChannelsOK
    <2>3. FlagsOK'
      BY <1>t, <2>u DEF FlagsOK
    <2>4. snd.pc # "none" /\ snd'.pc = "exited"
      BY <1>2, <2>u DEF SenderStops, SenderWoken
    <2> QED
      BY <2>u, <2>1, <2>2, <2>3, <2>4
      DEF PipelineInv, CapturingIsOwned, NewIsReplacing, SlotIsTaken, OneWayToTheSender,
          SenderKeptUntilTeardown, NewestFollows, Settled
  <1>3. CASE SenderDrains
    <2>1. full' \subseteq Pipes /\ UNCHANGED <<s, held, swapTx, stopSent, udpPeer, pipe, slot, status, swap, snd, wd, shut, aborted, stop, output>>
      BY <1>3, <1>t DEF SenderDrains
    <2>2. FlagsOK'
      BY <1>t, <2>1 DEF FlagsOK
    <2> QED
      BY <1>t, <2>1, <2>2, QuietRound
  <1>4. CASE SenderLoses
    <2>u. /\ UNCHANGED <<s, held, swapTx, stopSent, udpPeer, pipe, full, slot, swap, wd, shut, aborted, stop, output>>
          /\ snd' = [snd EXCEPT !.pc = "wait"] /\ status' = TRUE /\ snd.pc = "run"
      BY <1>4 DEF SenderLoses
    <2>1. snd'.pc = "wait" /\ snd'.rx = snd.rx
      BY <1>t, <2>u DEF ChannelsOK
    <2>2. Newest' = Newest
      BY <2>u, <2>1 DEF Newest
    <2>3. PipesOK' /\ ChannelsOK'
      BY <1>t, <2>u DEF PipesOK, ChannelsOK
    <2>4. FlagsOK'
      BY <1>t, <2>u DEF FlagsOK
    <2> QED
      BY <2>u, <2>1, <2>2, <2>3, <2>4
      DEF PipelineInv, CapturingIsOwned, NewIsReplacing, SlotIsTaken, OneWayToTheSender,
          SenderKeptUntilTeardown, NewestFollows
  <1> QED
    BY <1>1, <1>2, <1>3, <1>4 DEF Sender

\* The workers, the watchdog and the world outside.
LEMMA OthersKeep ==
    ASSUME PipelineInv, Workers \/ Watchdog \/ HostStops \/ OutputVanishes
    PROVE  PipelineInv'
  <1>t. s \in Locals /\ PipesOK /\ ChannelsOK /\ FlagsOK /\ full \subseteq Pipes /\ slot \in Pipes \cup {None}
    BY DEF PipelineInv, PipesOK, ChannelsOK
  <1> USE DEF session, watch, outside
  <1>1. ASSUME NEW p \in Pipes, PipeFails(p) \/ PipeFills(p) \/ WorkerExits(p) PROVE PipelineInv'
    <2>u. UNCHANGED <<s, held, swapTx, stopSent, udpPeer, slot, status, swap, snd, wd, shut, aborted, stop, output>>
      BY <1>1 DEF PipeFails, PipeFills, WorkerExits
    <2>1. /\ PipesOK'
          /\ \A q \in Pipes : pipe'[q] \in {"running", "failed"} => pipe[q] \in {"running", "failed"}
      BY <1>1, <1>t DEF PipeFails, PipeFills, WorkerExits, PipesOK
    <2>2. ChannelsOK' /\ Newest' = Newest
      BY <1>t, <2>u, NewestKept DEF ChannelsOK
    <2>3. FlagsOK'
      BY <1>t, <2>u DEF FlagsOK
    <2> QED
      BY <2>u, <2>1, <2>2, <2>3
      DEF PipelineInv, CapturingIsOwned, NewIsReplacing, SlotIsTaken, OneWayToTheSender,
          SenderKeptUntilTeardown, NewestFollows
  <1>2. CASE WatchdogShuts \/ WatchdogAborts \/ WatchdogLeaves \/ HostStops \/ OutputVanishes
    <2>1. UNCHANGED <<s, held, swapTx, stopSent, udpPeer, pipe, full, slot, status, swap, snd>>
      BY <1>2 DEF WatchdogShuts, WatchdogAborts, WatchdogLeaves, HostStops, OutputVanishes
    <2>2. /\ shut' \in BOOLEAN /\ aborted' \in BOOLEAN /\ stop' \in BOOLEAN /\ output' \in BOOLEAN
          /\ wd' \in {"watching", "shut", "aborted", "done"}
      BY <1>2, <1>t DEF WatchdogShuts, WatchdogAborts, WatchdogLeaves, HostStops, OutputVanishes, FlagsOK
    <2>3. FlagsOK'
      BY <1>t, <2>1, <2>2 DEF FlagsOK
    <2> QED
      BY <1>t, <2>1, <2>3, QuietRound
  <1>3. CASE WatchdogStops
    <2>u. /\ UNCHANGED <<s, held, swapTx, stopSent, udpPeer, full, status, swap, snd, shut, aborted, stop, output>>
          /\ slot' = None /\ pipe' = Signalled(slot) /\ wd' = "done"
      BY <1>3 DEF WatchdogStops
    <2>1. pipe' \in [Pipes -> {"unused", "running", "failed", "stopping", "stopped"}] /\ CapturingIsOwned'
      BY <2>u, SlotStopped
    <2>2. PipesOK' /\ ChannelsOK' /\ Newest' = Newest
      BY <1>t, <2>u, <2>1, NewestKept DEF PipesOK, ChannelsOK
    <2>3. FlagsOK'
      BY <1>t, <2>u DEF FlagsOK
    <2> QED
      BY <2>u, <2>1, <2>2, <2>3
      DEF PipelineInv, NewIsReplacing, SlotIsTaken, OneWayToTheSender, SenderKeptUntilTeardown,
          NewestFollows
  <1> QED
    BY <1>1, <1>2, <1>3 DEF Workers, Watchdog

\* What the run checks follows from the invariant.
LEMMA InvIsSafe == PipelineInv => PipelinesFollowSession
  <1> SUFFICES ASSUME PipelineInv PROVE PipelinesFollowSession
    OBVIOUS
  <1>t. s \in Locals /\ PipesOK /\ ChannelsOK
    BY DEF PipelineInv
  <1>1. TypeOK
    BY TypesAreTypeOK DEF PipelineInv
  <1>2. NoPipelineOutlivesSession
    <2> SUFFICES ASSUME s.pc = "done", NEW p \in Pipes
                 PROVE  pipe[p] \in {"unused", "stopping", "stopped"}
      BY DEF NoPipelineOutlivesSession
    <2>1. slot = None /\ s.new = None
      BY DEF PipelineInv, SlotIsTaken, NewIsReplacing, Replacing
    <2> QED
      BY <1>t, <2>1, PipelineAssumption DEF PipelineInv, CapturingIsOwned, PipesOK
  <1>3. OnePipelineCaptures
    <2> SUFFICES ASSUME s.pc \in Settled
                 PROVE  Cardinality({p \in Pipes : pipe[p] = "running"}) <= 1
      BY DEF OnePipelineCaptures, Settled
    <2>1. s.new = None
      BY DEF PipelineInv, NewIsReplacing, Replacing, Settled
    <2>2. {p \in Pipes : pipe[p] = "running"} \subseteq {slot}
      BY <2>1, PipelineAssumption DEF PipelineInv, CapturingIsOwned
    <2>3. IsFiniteSet({slot}) /\ Cardinality({slot}) = 1
      BY FS_Singleton
    <2>4. Cardinality({p \in Pipes : pipe[p] = "running"}) <= Cardinality({slot})
      BY <2>2, <2>3, FS_Subset
    <2> QED
      BY <2>3, <2>4
  <1>4. SenderFollowsSlot
    BY DEF PipelineInv, NewestFollows, SenderFollowsSlot, Settled
  <1> QED
    BY <1>1, <1>2, <1>3, <1>4 DEF PipelinesFollowSession

\* For any number of pipelines: through every replacement and every end of a session of
\* handle_connection, the watchdog's stop_pipeline at any moment included, at most one pipeline
\* captures outside a replacement, the sender reads the one in the slot or is about to, and
\* none is left running when the session is over.
THEOREM PipelinesStayWithSession == Spec => []PipelinesFollowSession
  <1>1. Init => PipelineInv
    <2> SUFFICES ASSUME Init PROVE PipelineInv
      OBVIOUS
    <2>1. PICK f \in BOOLEAN : s = [pc |-> "loop", failed |-> FALSE, packet |-> "none", new |-> None,
                                    old |-> None, why |-> "none", factory |-> f]
      BY DEF Init
    <2>2. s \in Locals
      BY <2>1 DEF Locals, Places, Settled, Packets, Reasons
    <2>3. s.pc = "loop" /\ s.new = None
      BY <2>1
    <2>4. PipesOK
      BY DEF Init, PipesOK
    <2>5. ChannelsOK
      BY PipelineAssumption DEF Init, ChannelsOK
    <2>6. FlagsOK
      BY DEF Init, FlagsOK
    <2>7. held = 1 /\ slot = 1 /\ 1 # None /\ Newest = 1
      BY PipelineAssumption DEF Init, Newest
    <2>8. CapturingIsOwned
      BY <2>7 DEF Init, CapturingIsOwned
    <2>9. OneWayToTheSender /\ SenderKeptUntilTeardown
      BY DEF Init, OneWayToTheSender, SenderKeptUntilTeardown
    <2> QED
      BY <2>2, <2>3, <2>4, <2>5, <2>6, <2>7, <2>8, <2>9
      DEF PipelineInv, NewIsReplacing, SlotIsTaken, NewestFollows, Replacing
  <1>2. PipelineInv /\ [Next]_vars => PipelineInv'
    <2> SUFFICES ASSUME PipelineInv, [Next]_vars PROVE PipelineInv'
      OBVIOUS
    <2>1. CASE UNCHANGED vars
      <3>1. UNCHANGED <<s, held, swapTx, stopSent, udpPeer, pipe, full, slot, status, swap, snd,
                        wd, shut, aborted, stop, output>>
        BY <2>1 DEF vars, session, watch, outside
      <3>2. s' \in Locals /\ full' \subseteq Pipes
        BY <3>1 DEF PipelineInv, PipesOK
      <3>3. FlagsOK'
        BY <3>1 DEF PipelineInv, FlagsOK
      <3> QED
        BY <3>1, <3>2, <3>3, QuietRound
    <2>2. CASE Session
      BY <2>2, RoundKeeps, SettledKeeps, ReplaceKeeps, TeardownKeeps DEF Session
    <2>3. CASE Sender
      BY <2>3, SenderKeeps
    <2>4. CASE Workers \/ Watchdog \/ HostStops \/ OutputVanishes
      BY <2>4, OthersKeep
    <2> QED
      BY <2>1, <2>2, <2>3, <2>4 DEF Next
  <1> QED
    BY <1>1, <1>2, InvIsSafe, PTL DEF Spec

(***************************************************************************)
(* The Windows host's media pipeline (module WindowsMedia).                *)
(*                                                                         *)
(* WindowsMediaInv follows the ids from the capture thread through the     *)
(* handoff, the encoder's locals and its transform to the channel: the     *)
(* newest id is the capture thread's, so a repeat of it is never older     *)
(* than what went before, and every stage keeps the order.  The key frame  *)
(* that was asked for is followed the same way, stage by stage.            *)
(***************************************************************************)
MediaFrames == {NoFrame} \cup [id : Nat \ {0}, mode : DeskModes, gen : Nat, slot : Nat]
MediaWorks == [frame : MediaFrames, key : BOOLEAN, rate : BOOLEAN]
MediaHands == [stopped : BOOLEAN, frame : MediaFrames, key : BOOLEAN, rate : BOOLEAN]
QueuedInputs == [frame : MediaFrames \ {NoFrame}, force : BOOLEAN, key : BOOLEAN, clean : BOOLEAN]
Transforms == [mode : DeskModes, forced : BOOLEAN, first : BOOLEAN, queue : Seq(QueuedInputs)]
CaptureStages == {"none", "ready", "open", "acquire", "publish", "recover", "done"}
CaptureThreads ==
    [pc : CaptureStages, mode : DeskModes \cup {"none"}, id : Nat, last : MediaFrames,
     fails : Nat, other : BOOLEAN]
CpuStages == {"next", "rate", "reselect", "encode", "submit", "makeRoom", "retry", "drain", "emit"}
EncoderStages == CpuStages \cup {"none", "open", "loop", "flush", "done"}
EncoderThreads ==
    [pc : EncoderStages, work : MediaWorks, batch : Seq(Nat), pending : MediaFrames,
     need : Nat, ready : Nat, tr : Transforms]
MediaStarters ==
    [kind : {"gpu", "cpu"}, stage : {"open", "wait", "fallback", "running", "joining", "stopped"},
     init : {"none", "ok", "failed"}, ready : BOOLEAN]
MediaLogs == [owed : BOOLEAN, wrongKey : BOOLEAN, badLength : BOOLEAN, sent : Nat]

WindowsMediaTypes ==
    /\ desk \in DeskModes /\ dims \in DeskModes
    /\ starter \in MediaStarters /\ hand \in MediaHands /\ cap \in CaptureThreads
    /\ enc \in EncoderThreads /\ sentLog \in MediaLogs
    /\ pools \in Seq([0 .. PoolSize - 1 -> Nat])

\* Until a pipeline runs nothing was captured, and no key frame was asked for.
QuietStart ==
    starter.stage \in {"open", "wait", "fallback"} =>
        /\ ~starter.ready /\ ~sentLog.owed /\ sentLog.sent = 0 /\ hand.frame = NoFrame
        /\ enc.batch = << >> /\ enc.tr.queue = << >>
        /\ enc.pending = NoFrame /\ enc.work.frame = NoFrame
        /\ cap.pc \in {"none", "ready", "done"}
        /\ starter.stage = "open" => cap.pc # "ready" /\ enc.pc \in {"none", "done"}
        /\ starter.stage # "open" => starter.kind = "gpu"

\* What only one of the two encoder threads uses is at rest while the other one runs.
PathsApart ==
    /\ starter.kind = "gpu" =>
        /\ enc.pc \notin CpuStages /\ enc.batch = << >> /\ enc.work.frame = NoFrame
        /\ enc.ready <= Len(enc.tr.queue)
    /\ starter.kind = "cpu" => enc.pc \notin {"loop", "flush"} /\ enc.pending = NoFrame
    /\ enc.pc \in {"none", "open", "done"} =>
        /\ enc.batch = << >> /\ enc.tr.queue = << >>
        /\ enc.pending = NoFrame /\ enc.work = NoWork

\* No frame at an encoder or beyond it is newer than n.
NoneNewer(n) ==
    /\ sentLog.sent <= n
    /\ \A i \in DOMAIN enc.batch : enc.batch[i] <= n
    /\ \A i \in DOMAIN enc.tr.queue : enc.tr.queue[i].frame.id <= n

FramesInOrder ==
    /\ \A i, j \in DOMAIN enc.batch : i <= j => enc.batch[i] <= enc.batch[j]
    /\ \A i, j \in DOMAIN enc.tr.queue :
        i <= j => enc.tr.queue[i].frame.id <= enc.tr.queue[j].frame.id
    /\ \A i \in DOMAIN enc.batch : sentLog.sent <= enc.batch[i]
    /\ \A j \in DOMAIN enc.tr.queue :
        /\ sentLog.sent <= enc.tr.queue[j].frame.id
        /\ \A i \in DOMAIN enc.batch : enc.batch[i] <= enc.tr.queue[j].frame.id
    /\ enc.pending # NoFrame => NoneNewer(enc.pending.id)
    /\ enc.work.frame # NoFrame => NoneNewer(enc.work.frame.id)
    /\ hand.frame # NoFrame =>
        /\ NoneNewer(hand.frame.id)
        /\ enc.pending.id <= hand.frame.id /\ enc.work.frame.id <= hand.frame.id

\* The capture thread has the newest frame; an id follows all that came before it.
CaptureIsNewest ==
    cap.pc \notin {"none", "done"} =>
        /\ NoneNewer(cap.id)
        /\ enc.pending.id <= cap.id /\ enc.work.frame.id <= cap.id /\ hand.frame.id <= cap.id
        /\ cap.last = NoFrame \/ cap.last.id = cap.id

\* Length of a frame and length of a transform agree from the check to the transform.
SameLength(frame) == Nv12Len[frame.mode] = Nv12Len[enc.tr.mode]
LengthsFit ==
    /\ ~sentLog.badLength
    /\ enc.pc \in {"encode", "submit", "makeRoom", "retry"} => enc.work.frame # NoFrame
    /\ enc.pc \in {"submit", "makeRoom", "retry"} => SameLength(enc.work.frame)
    /\ starter.kind = "cpu" =>
        \A i \in DOMAIN enc.tr.queue : SameLength(enc.tr.queue[i].frame)

\* An input on which a label can rest is a key frame.
LabelsAreKeys ==
    /\ ~sentLog.wrongKey
    /\ \A i \in DOMAIN enc.tr.queue :
        enc.tr.queue[i].force \/ enc.tr.queue[i].clean \/ ~enc.tr.first => enc.tr.queue[i].key

\* Where the request of a key frame is, at each stage of the CPU encoder.
KeyOnItsWay ==
    /\ enc.pc \in {"next", "encode", "submit", "drain", "emit"} => ~enc.work.key
    /\ enc.pc = "retry" => Len(enc.tr.queue) < Depth
    /\ starter.kind = "cpu" /\ sentLog.owed /\ ~hand.stopped /\ ~hand.key =>
        /\ enc.work.key \/ enc.tr.forced
        /\ enc.pc # "drain"
        /\ enc.pc \in {"makeRoom", "retry"} => enc.work.key

WindowsMediaInv ==
    /\ WindowsMediaTypes /\ QuietStart /\ PathsApart /\ FramesInOrder /\ CaptureIsNewest
    /\ LengthsFit /\ LabelsAreKeys /\ KeyOnItsWay

\* What a frame and a piece of work are when there is none.
LEMMA NoMediaFrame ==
    /\ NoFrame \in MediaFrames /\ NoFrame.id = 0
    /\ \A f \in MediaFrames : f.id \in Nat /\ (f # NoFrame => f.id > 0 /\ f.mode \in DeskModes)
    /\ NoWork \in MediaWorks /\ NoWork.frame = NoFrame /\ NoWork.key = FALSE /\ NoWork.rate = FALSE
<1>1. NoFrame.id = 0
  BY Zenon DEF NoFrame
<1>2. NoFrame \in MediaFrames
  BY Zenon DEF MediaFrames
<1>3. ASSUME NEW f \in MediaFrames, f # NoFrame
      PROVE  f.id \in Nat /\ f.id > 0 /\ f.mode \in DeskModes
  <2>1. f \in [id : Nat \ {0}, mode : DeskModes, gen : Nat, slot : Nat]
    BY <1>3, Zenon DEF MediaFrames
  <2>2. f.id \in Nat \ {0} /\ f.mode \in DeskModes
    BY <2>1, Zenon
  <2> QED
    BY <2>2, SMT
<1>4. NoWork \in MediaWorks /\ NoWork.frame = NoFrame /\ NoWork.key = FALSE /\ NoWork.rate = FALSE
  BY <1>2, Zenon DEF NoWork, MediaWorks
<1>5. \A f \in MediaFrames : f.id \in Nat
  BY <1>1, <1>3, SMT
<1> QED
  BY <1>1, <1>2, <1>3, <1>4, <1>5, Zenon

\* A new handoff, and one that was stopped.
LEMMA FreshHandIs ==
    /\ FreshHand \in MediaHands /\ FreshHand.frame = NoFrame /\ FreshHand.stopped = FALSE
    /\ FreshHand.key = FALSE
    /\ StoppedHand \in MediaHands /\ StoppedHand.frame = NoFrame /\ StoppedHand.stopped = TRUE
<1>1. FreshHand \in MediaHands /\ FreshHand.frame = NoFrame /\ FreshHand.stopped = FALSE
      /\ FreshHand.key = FALSE
  BY NoMediaFrame, Zenon DEF FreshHand, MediaHands
<1>2. StoppedHand = [FreshHand EXCEPT !.stopped = TRUE]
  BY DEF StoppedHand
<1> HIDE DEF FreshHand
<1> QED
  BY <1>1, <1>2, Zenon DEF MediaHands

\* A new transform holds nothing and owes a key frame.
LEMMA FreshTransformIs ==
    ASSUME NEW m \in DeskModes
    PROVE  /\ FreshTransform(m) \in Transforms /\ FreshTransform(m).mode = m
           /\ FreshTransform(m).queue = << >> /\ FreshTransform(m).forced = TRUE
<1>1. << >> \in Seq(QueuedInputs)
  BY EmptySeq
<1> QED
  BY <1>1, Zenon DEF FreshTransform, Transforms

\* A new encoder thread has nothing to work on.
LEMMA FreshEncIs ==
    ASSUME NEW m \in DeskModes, NEW p \in EncoderStages
    PROVE  \E e \in EncoderThreads :
            /\ e = [FreshEnc(m) EXCEPT !.pc = p]
            /\ e.pc = p /\ e.work = NoWork /\ e.batch = << >>
            /\ e.pending = NoFrame /\ e.ready = 0 /\ e.tr = FreshTransform(m)
<1> DEFINE fresh == FreshEnc(m)
           e == [fresh EXCEPT !.pc = p]
<1>1. << >> \in Seq(Nat) /\ 0 \in Nat /\ "open" \in EncoderStages
  BY EmptySeq DEF EncoderStages
<1>2. /\ fresh \in EncoderThreads /\ fresh.work = NoWork /\ fresh.batch = << >>
      /\ fresh.pending = NoFrame /\ fresh.ready = 0 /\ fresh.tr = FreshTransform(m)
  BY <1>1, NoMediaFrame, FreshTransformIs, Zenon DEF FreshEnc, EncoderThreads
<1>3. /\ e \in EncoderThreads /\ e.pc = p /\ e.work = NoWork /\ e.batch = << >>
      /\ e.pending = NoFrame /\ e.ready = 0 /\ e.tr = FreshTransform(m)
  <2> HIDE DEF fresh
  <2> QED
    BY <1>2, Zenon DEF EncoderThreads
<1>4. e = [FreshEnc(m) EXCEPT !.pc = p]
  OBVIOUS
<1> HIDE DEF e
<1> QED
  BY <1>3, <1>4, Zenon

\* A new capture thread has captured nothing.
LEMMA FreshCapIs ==
    ASSUME NEW p \in CaptureStages, NEW m \in DeskModes
    PROVE  /\ FreshCap(p, m) \in CaptureThreads /\ FreshCap(p, m).pc = p /\ FreshCap(p, m).id = 0
           /\ FreshCap(p, m).last = NoFrame
<1>1. 0 \in Nat /\ FALSE \in BOOLEAN /\ m \in DeskModes \cup {"none"}
  OBVIOUS
<1> QED
  BY <1>1, NoMediaFrame, Zenon DEF FreshCap, CaptureThreads

\* The textures of one more GpuCapture.
LEMMA NewPoolIs ==
    ASSUME pools \in Seq([0 .. PoolSize - 1 -> Nat])
    PROVE  /\ NewPool \in [0 .. PoolSize - 1 -> Nat]
           /\ Append(pools, NewPool) \in Seq([0 .. PoolSize - 1 -> Nat])
<1>1. NewPool \in [0 .. PoolSize - 1 -> Nat]
  BY SMT DEF NewPool
<1> QED
  BY <1>1, AppendProperties, Zenon

\* The fields of what the two threads and the starter are made of.
LEMMA MediaFields ==
    ASSUME WindowsMediaTypes
    PROVE  /\ enc.pc \in EncoderStages /\ enc.work \in MediaWorks /\ enc.batch \in Seq(Nat)
           /\ enc.pending \in MediaFrames /\ enc.need \in Nat /\ enc.ready \in Nat
           /\ enc.tr \in Transforms /\ enc.work.frame \in MediaFrames /\ enc.work.key \in BOOLEAN
           /\ enc.tr.mode \in DeskModes /\ enc.tr.forced \in BOOLEAN /\ enc.tr.first \in BOOLEAN
           /\ enc.tr.queue \in Seq(QueuedInputs)
           /\ hand.stopped \in BOOLEAN /\ hand.frame \in MediaFrames /\ hand.key \in BOOLEAN
           /\ hand.rate \in BOOLEAN
           /\ cap.pc \in CaptureStages /\ cap.id \in Nat /\ cap.last \in MediaFrames
           /\ cap.fails \in Nat
           /\ starter.kind \in {"gpu", "cpu"} /\ starter.ready \in BOOLEAN
           /\ sentLog.owed \in BOOLEAN /\ sentLog.wrongKey \in BOOLEAN
           /\ sentLog.badLength \in BOOLEAN /\ sentLog.sent \in Nat
<1> USE DEF WindowsMediaTypes
<1>1. /\ enc.pc \in EncoderStages /\ enc.work \in MediaWorks /\ enc.batch \in Seq(Nat)
      /\ enc.pending \in MediaFrames /\ enc.need \in Nat /\ enc.ready \in Nat
      /\ enc.tr \in Transforms
  BY Zenon DEF EncoderThreads
<1>2. enc.work.frame \in MediaFrames /\ enc.work.key \in BOOLEAN
  BY <1>1, Zenon DEF MediaWorks
<1>3. /\ enc.tr.mode \in DeskModes /\ enc.tr.forced \in BOOLEAN /\ enc.tr.first \in BOOLEAN
      /\ enc.tr.queue \in Seq(QueuedInputs)
  BY <1>1, Zenon DEF Transforms
<1>4. /\ hand.stopped \in BOOLEAN /\ hand.frame \in MediaFrames /\ hand.key \in BOOLEAN
      /\ hand.rate \in BOOLEAN
  BY Zenon DEF MediaHands
<1>5. cap.pc \in CaptureStages /\ cap.id \in Nat /\ cap.last \in MediaFrames /\ cap.fails \in Nat
  BY Zenon DEF CaptureThreads
<1>6. starter.kind \in {"gpu", "cpu"} /\ starter.ready \in BOOLEAN
  BY Zenon DEF MediaStarters
<1>7. /\ sentLog.owed \in BOOLEAN /\ sentLog.wrongKey \in BOOLEAN
      /\ sentLog.badLength \in BOOLEAN /\ sentLog.sent \in Nat
  BY Zenon DEF MediaLogs
<1> QED
  BY <1>1, <1>2, <1>3, <1>4, <1>5, <1>6, <1>7, Zenon

\* A step of the starter, the desktop or the capture thread that leaves the encoder alone,
\* and the handoff too unless it stops it.
LEMMA CalmStep ==
    ASSUME WindowsMediaInv, enc' = enc, sentLog' = sentLog,
           hand' \in MediaHands, hand'.frame \in {hand.frame, NoFrame},
           hand'.stopped \/ (hand'.stopped = hand.stopped /\ (hand.key => hand'.key)),
           desk' \in DeskModes, dims' \in DeskModes,
           pools' \in Seq([0 .. PoolSize - 1 -> Nat]), cap' \in CaptureThreads,
           starter' \in MediaStarters, starter'.kind = starter.kind,
           QuietStart', CaptureIsNewest'
    PROVE  WindowsMediaInv'
<1> USE DEF WindowsMediaInv
<1>1. WindowsMediaTypes'
  BY Zenon DEF WindowsMediaTypes
<1>2. PathsApart' /\ LengthsFit' /\ LabelsAreKeys'
  BY Zenon DEF PathsApart, LengthsFit, LabelsAreKeys, SameLength
<1>3. NoFrame' = NoFrame
  BY Zenon DEF NoFrame
<1>4. FramesInOrder'
  <2> USE DEF FramesInOrder, NoneNewer
  <2>1. CASE hand'.frame = hand.frame
    BY <1>3, <2>1, SMT
  <2>2. CASE hand'.frame = NoFrame
    BY <1>3, <2>2, SMT
  <2> QED
    BY <2>1, <2>2
<1>5. KeyOnItsWay'
  BY Zenon DEF KeyOnItsWay
<1> QED
  BY <1>1, <1>2, <1>4, <1>5, Zenon

\* A step that takes no frame leaves the newest id with the capture thread.
LEMMA CalmCapture ==
    ASSUME WindowsMediaInv, enc' = enc, sentLog' = sentLog,
           hand' \in MediaHands, hand'.frame \in {hand.frame, NoFrame},
           \/ cap'.pc \in {"none", "done"}
           \/ cap.pc \notin {"none", "done"} /\ cap'.id = cap.id /\ cap'.last = cap.last
    PROVE  CaptureIsNewest'
<1> USE DEF WindowsMediaInv
<1>1. cap.id \in Nat
  BY MediaFields
<1>2. NoFrame' = NoFrame /\ NoFrame.id = 0
  BY Zenon DEF NoFrame
<1>3. CASE hand'.frame = hand.frame
  BY <1>2, <1>3, SMT DEF CaptureIsNewest, NoneNewer
<1>4. CASE hand'.frame = NoFrame
  BY <1>1, <1>2, <1>4, SMT DEF CaptureIsNewest, NoneNewer
<1> QED
  BY <1>3, <1>4

\* A step that starts an encoder thread or ends it: its transform and its locals hold nothing.
LEMMA EmptyEncoder ==
    ASSUME WindowsMediaInv, NEW m \in DeskModes, NEW p \in {"open", "done"},
           enc' = [FreshEnc(m) EXCEPT !.pc = p], sentLog' = sentLog,
           hand' \in MediaHands, hand'.frame \in {hand.frame, NoFrame},
           desk' \in DeskModes, dims' \in DeskModes,
           pools' \in Seq([0 .. PoolSize - 1 -> Nat]), cap' \in CaptureThreads,
           starter' \in MediaStarters, starter'.kind = starter.kind,
           QuietStart', CaptureIsNewest'
    PROVE  WindowsMediaInv'
<1> USE DEF WindowsMediaInv
<1>1. p \in EncoderStages
  BY DEF EncoderStages
<1>2. /\ enc' \in EncoderThreads /\ enc'.pc = p /\ enc'.work = NoWork /\ enc'.batch = << >>
      /\ enc'.pending = NoFrame /\ enc'.ready = 0 /\ enc'.tr = FreshTransform(m)
  <2>1. \E e \in EncoderThreads :
            /\ e = [FreshEnc(m) EXCEPT !.pc = p]
            /\ e.pc = p /\ e.work = NoWork /\ e.batch = << >>
            /\ e.pending = NoFrame /\ e.ready = 0 /\ e.tr = FreshTransform(m)
    BY <1>1, FreshEncIs
  <2> QED
    BY <2>1, Zenon
<1>3. enc'.tr.queue = << >> /\ enc'.tr.forced = TRUE /\ enc'.work.frame = NoFrame
  BY <1>2, FreshTransformIs, NoMediaFrame, Zenon
<1>4. NoFrame' = NoFrame /\ NoFrame.id = 0
  BY Zenon DEF NoFrame
<1>5. Len(<< >>) = 0 /\ DOMAIN << >> = {}
  BY EmptySeq, SMT
<1>6. WindowsMediaTypes'
  BY <1>2, Zenon DEF WindowsMediaTypes
<1>7. PathsApart'
  BY <1>2, <1>3, <1>4, <1>5, SMT DEF PathsApart, CpuStages
<1>8. FramesInOrder'
  <2>1. sentLog.sent \in Nat /\ hand.frame.id \in Nat
    BY MediaFields, NoMediaFrame
  <2>2. hand'.frame # NoFrame => sentLog.sent <= hand'.frame.id
    BY Zenon DEF FramesInOrder, NoneNewer
  <2>3. 0 <= hand'.frame.id
    BY <1>4, <2>1, SMT
  <2> QED
    BY <1>2, <1>3, <1>4, <1>5, <2>2, <2>3, Zenon DEF FramesInOrder, NoneNewer
<1>9. LengthsFit' /\ LabelsAreKeys'
  BY <1>2, <1>3, <1>5, Zenon DEF LengthsFit, LabelsAreKeys
<1>10. KeyOnItsWay'
  BY <1>2, <1>3, Zenon DEF KeyOnItsWay
<1> QED
  BY <1>6, <1>7, <1>8, <1>9, <1>10, Zenon

\* An encoder thread that ends: the starter hears of it, the handoff is stopped or it was.
LEMMA EncoderExitsSafely ==
    ASSUME WindowsMediaInv, EncoderExits, sentLog' = sentLog,
           hand' \in {hand, StoppedHand}, UNCHANGED <<desk, cap, pools, dims>>,
           starter' \in MediaStarters, starter'.kind = starter.kind,
           starter'.stage = starter.stage, starter'.ready = starter.ready
    PROVE  WindowsMediaInv'
<1> USE DEF WindowsMediaInv
<1>1. hand' \in MediaHands /\ hand'.frame \in {hand.frame, NoFrame}
  BY FreshHandIs, Zenon DEF WindowsMediaTypes
<1>2. enc' = [FreshEnc(StartMode) EXCEPT !.pc = "done"] /\ StartMode \in DeskModes
  BY WindowsMediaAssumption DEF EncoderExits
<1>3. /\ enc'.pc = "done" /\ enc'.work = NoWork /\ enc'.batch = << >>
      /\ enc'.pending = NoFrame /\ enc'.tr = FreshTransform(StartMode)
  <2>1. \E e \in EncoderThreads :
            /\ e = [FreshEnc(StartMode) EXCEPT !.pc = "done"]
            /\ e.pc = "done" /\ e.work = NoWork /\ e.batch = << >>
            /\ e.pending = NoFrame /\ e.ready = 0 /\ e.tr = FreshTransform(StartMode)
    BY <1>2, FreshEncIs DEF EncoderStages
  <2> QED
    BY <1>2, <2>1, Zenon
<1>4. enc'.tr.queue = << >> /\ enc'.work.frame = NoFrame
  BY <1>2, <1>3, FreshTransformIs, NoMediaFrame, Zenon
<1>5. NoFrame' = NoFrame /\ NoFrame.id = 0 /\ DOMAIN << >> = {}
  BY SMT DEF NoFrame
<1>6. QuietStart'
  BY <1>1, <1>3, <1>4, <1>5, Zenon DEF QuietStart
<1>7. CaptureIsNewest'
  <2>1. cap.id \in Nat /\ 0 <= cap.id
    BY MediaFields, SMT
  <2>2. cap.pc \notin {"none", "done"} =>
            sentLog.sent <= cap.id /\ hand'.frame.id <= cap.id
    BY <1>1, <1>5, <2>1, Zenon DEF CaptureIsNewest, NoneNewer
  <2>3. cap.pc \notin {"none", "done"} => NoneNewer(cap.id)'
    BY <1>3, <1>4, <1>5, <2>2, Zenon DEF NoneNewer
  <2> QED
    BY <1>3, <1>4, <1>5, <2>1, <2>2, <2>3, Zenon DEF CaptureIsNewest, NoneNewer
<1> QED
  BY <1>1, <1>2, <1>6, <1>7, EmptyEncoder, Zenon DEF WindowsMediaTypes

\* start() turns to the other kind of pipeline before anything was captured.
LEMMA KindTurns ==
    ASSUME WindowsMediaInv, enc' = enc, sentLog' = sentLog, cap' = cap, desk' = desk, dims' = dims,
           pools' \in {pools, << >>}, hand' \in {hand, FreshHand},
           enc.pc \in {"none", "done"}, cap.pc \in {"none", "done"},
           starter.stage \in {"open", "fallback"},
           starter' \in MediaStarters, starter'.kind = "cpu", starter'.stage = "open",
           starter'.ready = starter.ready
    PROVE  WindowsMediaInv'
<1> USE DEF WindowsMediaInv
<1>1. hand' \in MediaHands /\ hand'.frame = NoFrame /\ pools' \in Seq([0 .. PoolSize - 1 -> Nat])
  BY FreshHandIs, EmptySeq, Zenon DEF WindowsMediaTypes, QuietStart
<1>2. NoFrame' = NoFrame /\ NoFrame.id = 0 /\ DOMAIN << >> = {}
  BY SMT DEF NoFrame
<1>3. /\ ~starter.ready /\ ~sentLog.owed /\ sentLog.sent = 0
      /\ enc.batch = << >> /\ enc.tr.queue = << >>
      /\ enc.pending = NoFrame /\ enc.work.frame = NoFrame
  BY Zenon DEF QuietStart
<1>4. WindowsMediaTypes'
  BY <1>1, Zenon DEF WindowsMediaTypes
<1>5. QuietStart' /\ CaptureIsNewest'
  BY <1>1, <1>2, <1>3, Zenon DEF QuietStart, CaptureIsNewest
<1>6. PathsApart'
  BY <1>2, <1>3, SMT DEF PathsApart
<1>7. FramesInOrder'
  BY <1>1, <1>2, <1>3, Zenon DEF FramesInOrder, NoneNewer
<1>8. LengthsFit' /\ LabelsAreKeys'
  BY <1>2, <1>3, Zenon DEF LengthsFit, LabelsAreKeys, SameLength
<1>9. KeyOnItsWay'
  BY <1>3, Zenon DEF KeyOnItsWay
<1> QED
  BY <1>4, <1>5, <1>6, <1>7, <1>8, <1>9, Zenon

\* The display changes its mode: only what is compared with it changes.
LEMMA ChangeModeKeeps == ASSUME WindowsMediaInv, NEW m \in DeskModes, ChangeMode(m)
                         PROVE  WindowsMediaInv'
<1> USE DEF ChangeMode, WindowsMediaInv
<1>1. CaptureIsNewest' /\ QuietStart'
  BY Zenon DEF CaptureIsNewest, QuietStart, NoneNewer, NoFrame
<1> QED
  BY <1>1, CalmStep, Zenon DEF WindowsMediaTypes

\* WindowsGpuMediaSource::start spawns both workers.
LEMMA StartGpuKeeps == ASSUME WindowsMediaInv, StartGpu PROVE WindowsMediaInv'
<1> USE DEF WindowsMediaInv
<1>1. /\ starter.kind = "gpu" /\ starter.stage = "open"
      /\ starter' = [starter EXCEPT !.stage = "wait"] /\ pools' = Append(pools, NewPool)
      /\ cap' = FreshCap("ready", desk) /\ enc' = FreshEnc(desk) /\ dims' = desk
      /\ desk' = desk /\ hand' = hand /\ sentLog' = sentLog
  BY Zenon DEF StartGpu
<1>2. /\ starter' \in MediaStarters /\ starter'.kind = "gpu" /\ starter'.stage = "wait"
      /\ starter'.ready = starter.ready
  BY <1>1, Zenon DEF WindowsMediaTypes, MediaStarters
<1>3. pools' \in Seq([0 .. PoolSize - 1 -> Nat])
  BY <1>1, NewPoolIs DEF WindowsMediaTypes
<1>4. desk \in DeskModes /\ "ready" \in CaptureStages
  BY DEF WindowsMediaTypes, CaptureStages
<1>5. cap' \in CaptureThreads /\ cap'.pc = "ready" /\ cap'.id = 0 /\ cap'.last = NoFrame
  BY <1>1, <1>4, FreshCapIs, Zenon
<1>6. enc' = [FreshEnc(desk) EXCEPT !.pc = "open"] /\ enc'.tr = FreshTransform(desk)
      /\ enc'.batch = << >> /\ enc'.pending = NoFrame /\ enc'.work = NoWork
  <2>1. FreshEnc(desk) = [FreshEnc(desk) EXCEPT !.pc = "open"]
    BY SMT DEF FreshEnc
  <2>2. /\ FreshEnc(desk).tr = FreshTransform(desk) /\ FreshEnc(desk).batch = << >>
        /\ FreshEnc(desk).pending = NoFrame /\ FreshEnc(desk).work = NoWork
    BY Zenon DEF FreshEnc
  <2> QED
    BY <1>1, <2>1, <2>2, Zenon
<1>7. enc'.tr.queue = << >> /\ enc'.work.frame = NoFrame /\ NoFrame.id = 0 /\ NoFrame' = NoFrame
  BY <1>4, <1>6, FreshTransformIs, NoMediaFrame, Zenon DEF NoFrame
<1>8. /\ ~starter.ready /\ ~sentLog.owed /\ sentLog.sent = 0 /\ hand.frame = NoFrame
  BY <1>1, Zenon DEF QuietStart
<1>9. QuietStart'
  BY <1>1, <1>2, <1>5, <1>6, <1>7, <1>8, Zenon DEF QuietStart
<1>10. CaptureIsNewest'
  BY <1>1, <1>5, <1>6, <1>7, <1>8, SMT DEF CaptureIsNewest, NoneNewer
<1>11. hand' \in MediaHands /\ hand'.frame \in {hand.frame, NoFrame} /\ dims' \in DeskModes
       /\ desk' \in DeskModes
  BY <1>1 DEF WindowsMediaTypes
<1> QED
  BY <1>1, <1>2, <1>3, <1>4, <1>5, <1>6, <1>9, <1>10, <1>11, EmptyEncoder, Zenon

\* WindowsMediaSource::start, with the channel the GPU pipeline may have left.
LEMMA StartCpuKeeps == ASSUME WindowsMediaInv, StartCpu PROVE WindowsMediaInv'
<1> USE DEF WindowsMediaInv
<1>1. /\ starter.kind = "cpu" /\ starter.stage = "open"
      /\ starter' = [starter EXCEPT !.stage = "running"] /\ dims' = StartMode
      /\ cap' = FreshCap("open", StartMode) /\ enc' = FreshEnc(StartMode)
      /\ desk' = desk /\ hand' = hand /\ sentLog' = sentLog /\ pools' = pools
  BY Zenon DEF StartCpu
<1>2. /\ starter' \in MediaStarters /\ starter'.kind = "cpu" /\ starter'.stage = "running"
  BY <1>1, Zenon DEF WindowsMediaTypes, MediaStarters
<1>4. StartMode \in DeskModes /\ "open" \in CaptureStages
  BY WindowsMediaAssumption DEF CaptureStages
<1>5. cap' \in CaptureThreads /\ cap'.pc = "open" /\ cap'.id = 0 /\ cap'.last = NoFrame
  BY <1>1, <1>4, FreshCapIs, Zenon
<1>6. enc' = [FreshEnc(StartMode) EXCEPT !.pc = "open"] /\ enc'.tr = FreshTransform(StartMode)
      /\ enc'.batch = << >> /\ enc'.pending = NoFrame /\ enc'.work = NoWork
  <2>1. FreshEnc(StartMode) = [FreshEnc(StartMode) EXCEPT !.pc = "open"]
    BY SMT DEF FreshEnc
  <2>2. /\ FreshEnc(StartMode).tr = FreshTransform(StartMode) /\ FreshEnc(StartMode).batch = << >>
        /\ FreshEnc(StartMode).pending = NoFrame /\ FreshEnc(StartMode).work = NoWork
    BY Zenon DEF FreshEnc
  <2> QED
    BY <1>1, <2>1, <2>2, Zenon
<1>7. enc'.tr.queue = << >> /\ enc'.work.frame = NoFrame /\ NoFrame.id = 0 /\ NoFrame' = NoFrame
  BY <1>4, <1>6, FreshTransformIs, NoMediaFrame, Zenon DEF NoFrame
<1>8. sentLog.sent = 0 /\ hand.frame = NoFrame
  BY <1>1, Zenon DEF QuietStart
<1>9. QuietStart'
  BY <1>2, SMT DEF QuietStart
<1>10. CaptureIsNewest'
  BY <1>1, <1>5, <1>6, <1>7, <1>8, SMT DEF CaptureIsNewest, NoneNewer
<1>11. hand' \in MediaHands /\ hand'.frame \in {hand.frame, NoFrame} /\ dims' \in DeskModes
       /\ desk' \in DeskModes /\ pools' \in Seq([0 .. PoolSize - 1 -> Nat])
  BY <1>1, <1>4 DEF WindowsMediaTypes
<1> QED
  BY <1>1, <1>2, <1>4, <1>5, <1>6, <1>9, <1>10, <1>11, EmptyEncoder, Zenon

\* The two ways from the GPU pipeline to the CPU pipeline.
LEMMA KindTurnsKeeps == ASSUME WindowsMediaInv, NoGpuCapture \/ FallBack PROVE WindowsMediaInv'
<1> USE DEF WindowsMediaInv
<1>1. CASE NoGpuCapture
  <2>1. /\ starter.stage = "open" /\ starter' = [starter EXCEPT !.kind = "cpu"]
        /\ enc' = enc /\ sentLog' = sentLog /\ cap' = cap /\ desk' = desk /\ dims' = dims
        /\ pools' = pools /\ hand' = hand
    BY <1>1, Zenon DEF NoGpuCapture
  <2>2. /\ starter' \in MediaStarters /\ starter'.kind = "cpu" /\ starter'.stage = "open"
        /\ starter'.ready = starter.ready
    BY <2>1, Zenon DEF WindowsMediaTypes, MediaStarters
  <2>3. enc.pc \in {"none", "done"} /\ cap.pc \in {"none", "done"}
    BY <2>1, SMT DEF QuietStart
  <2> QED
    BY <2>1, <2>2, <2>3, KindTurns, Zenon
<1>2. CASE FallBack
  <2>1. /\ starter.stage = "fallback" /\ WorkersJoined
        /\ starter' = [starter EXCEPT !.kind = "cpu", !.stage = "open"]
        /\ enc' = enc /\ sentLog' = sentLog /\ cap' = cap /\ desk' = desk /\ dims' = dims
        /\ pools' = << >> /\ hand' = FreshHand
    BY <1>2, Zenon DEF FallBack
  <2>2. /\ starter' \in MediaStarters /\ starter'.kind = "cpu" /\ starter'.stage = "open"
        /\ starter'.ready = starter.ready
    BY <2>1, Zenon DEF WindowsMediaTypes, MediaStarters
  <2>3. enc.pc \in {"none", "done"} /\ cap.pc \in {"none", "done"}
    BY <2>1 DEF WorkersJoined
  <2> QED
    BY <2>1, <2>2, <2>3, KindTurns, Zenon
<1> QED
  BY <1>1, <1>2

\* start() once the workers are there, and the handle.
LEMMA StarterKeeps ==
    ASSUME WindowsMediaInv,
           EncoderIsReady \/ GiveUpGpu \/ UpdateBitrate \/ StopHandle \/ ReceiverGone
            \/ HandleStopped
    PROVE  WindowsMediaInv'
<1> USE DEF WindowsMediaInv
<1>1. enc' = enc /\ sentLog' = sentLog /\ cap' = cap /\ desk' = desk /\ dims' = dims
      /\ pools' = pools
  BY SMT DEF EncoderIsReady, GiveUpGpu, UpdateBitrate, StopHandle, ReceiverGone, HandleStopped
<1>2. hand' \in MediaHands /\ hand'.frame \in {hand.frame, NoFrame}
      /\ (hand'.stopped \/ (hand'.stopped = hand.stopped /\ (hand.key => hand'.key)))
  <2>1. hand' = hand \/ hand' = StoppedHand \/ hand' = [hand EXCEPT !.rate = TRUE]
    BY SMT DEF EncoderIsReady, GiveUpGpu, UpdateBitrate, StopHandle, ReceiverGone, HandleStopped
  <2>2. CASE hand' = [hand EXCEPT !.rate = TRUE]
    BY <2>2, Zenon DEF WindowsMediaTypes, MediaHands
  <2> QED
    BY <2>1, <2>2, FreshHandIs, Zenon DEF WindowsMediaTypes
<1>3. /\ starter' \in MediaStarters /\ starter'.kind = starter.kind
      /\ \/ starter'.stage = starter.stage /\ starter'.ready = starter.ready
         \/ starter'.stage = "fallback" /\ starter.stage = "wait" /\ starter'.ready = starter.ready
         \/ starter'.stage \notin {"open", "wait", "fallback"}
  <2>1. CASE EncoderIsReady
    <3>1. starter' = [starter EXCEPT !.stage = "running", !.ready = TRUE]
      BY <2>1 DEF EncoderIsReady
    <3> QED
      BY <3>1, Zenon DEF WindowsMediaTypes, MediaStarters
  <2>2. CASE GiveUpGpu
    BY <2>2, Zenon DEF WindowsMediaTypes, MediaStarters, GiveUpGpu
  <2>3. CASE StopHandle
    BY <2>3, Zenon DEF WindowsMediaTypes, MediaStarters, StopHandle
  <2>4. CASE HandleStopped
    BY <2>4, Zenon DEF WindowsMediaTypes, MediaStarters, HandleStopped
  <2>5. CASE UpdateBitrate \/ ReceiverGone
    BY <2>5, Zenon DEF WindowsMediaTypes, UpdateBitrate, ReceiverGone
  <2> QED
    BY <2>1, <2>2, <2>3, <2>4, <2>5
<1>4. CaptureIsNewest'
  BY <1>1, <1>2, CalmCapture, Zenon
<1>5. QuietStart'
  <2>1. NoFrame' = NoFrame
    BY Zenon DEF NoFrame
  <2> QED
    BY <1>1, <1>2, <1>3, <2>1, SMT DEF QuietStart
<1> QED
  BY <1>1, <1>2, <1>3, <1>4, <1>5, CalmStep, Zenon DEF WindowsMediaTypes

\* A key frame is asked for: from here on it is in the handoff.
LEMMA ForceKeyFrameKeeps == ASSUME WindowsMediaInv, ForceKeyFrame PROVE WindowsMediaInv'
<1> USE DEF WindowsMediaInv
<1>1. /\ starter.stage = "running" /\ hand' = [hand EXCEPT !.key = TRUE]
      /\ sentLog' = [sentLog EXCEPT !.owed = TRUE]
      /\ UNCHANGED <<desk, starter, dims, cap, pools, enc>>
  BY DEF ForceKeyFrame
<1>2. /\ hand' \in MediaHands /\ hand'.frame = hand.frame /\ hand'.key = TRUE
      /\ hand'.stopped = hand.stopped
  BY <1>1, Zenon DEF WindowsMediaTypes, MediaHands
<1>3. /\ sentLog' \in MediaLogs /\ sentLog'.sent = sentLog.sent
      /\ sentLog'.wrongKey = sentLog.wrongKey /\ sentLog'.badLength = sentLog.badLength
  BY <1>1, Zenon DEF WindowsMediaTypes, MediaLogs
<1>4. NoFrame' = NoFrame
  BY Zenon DEF NoFrame
<1>5. WindowsMediaTypes' /\ QuietStart' /\ PathsApart'
  BY <1>1, <1>2, <1>3, <1>4, SMT DEF WindowsMediaTypes, QuietStart, PathsApart
<1>6. FramesInOrder' /\ CaptureIsNewest'
  BY <1>1, <1>2, <1>3, <1>4, Zenon DEF FramesInOrder, CaptureIsNewest, NoneNewer
<1>7. LengthsFit' /\ LabelsAreKeys' /\ KeyOnItsWay'
  BY <1>1, <1>2, <1>3, <1>4, Zenon DEF LengthsFit, LabelsAreKeys, KeyOnItsWay, SameLength
<1> QED
  BY <1>5, <1>6, <1>7, Zenon

\* The capture thread ends, and the handoff is stopped with it.
LEMMA CaptureEnds ==
    ASSUME WindowsMediaInv, CaptureDone, CaptureOnly, UNCHANGED <<dims, pools>>, hand' = StoppedHand
    PROVE  WindowsMediaInv'
<1> USE DEF WindowsMediaInv
<1>1. StartMode \in DeskModes /\ "done" \in CaptureStages
  BY WindowsMediaAssumption DEF CaptureStages
<1>2. cap' \in CaptureThreads /\ cap'.pc = "done"
  BY <1>1, FreshCapIs, Zenon DEF CaptureDone
<1>3. hand' \in MediaHands /\ hand'.frame = NoFrame /\ hand'.stopped
  BY FreshHandIs, Zenon
<1>4. enc' = enc /\ sentLog' = sentLog /\ desk' = desk /\ starter' = starter
  BY DEF CaptureOnly
<1>5. CaptureIsNewest' /\ QuietStart'
  BY <1>2, <1>3, <1>4, Zenon DEF CaptureIsNewest, QuietStart, NoFrame
<1> QED
  BY <1>2, <1>3, <1>4, <1>5, CalmStep, Zenon DEF WindowsMediaTypes

\* Steps of the capture thread that take no frame from the desktop.
LEMMA CaptureMoves ==
    ASSUME WindowsMediaInv, CaptureOnly, dims' \in DeskModes, hand' = hand,
           cap.pc \notin {"none", "done"}, starter.stage \notin {"open", "wait", "fallback"},
           cap' \in CaptureThreads, cap'.id = cap.id, cap'.last = cap.last,
           pools' \in Seq([0 .. PoolSize - 1 -> Nat])
    PROVE  WindowsMediaInv'
<1> USE DEF WindowsMediaInv
<1>1. enc' = enc /\ sentLog' = sentLog /\ desk' = desk /\ starter' = starter
  BY DEF CaptureOnly
<1>2. hand' \in MediaHands
  BY DEF WindowsMediaTypes
<1>3. CaptureIsNewest'
  BY <1>1, <1>2, CalmCapture, Zenon
<1>4. QuietStart'
  BY <1>1, Zenon DEF QuietStart
<1> QED
  BY <1>1, <1>2, <1>3, <1>4, CalmStep, Zenon DEF WindowsMediaTypes

\* A capture thread past its gate has a pipeline that was started.
LEMMA CaptureRuns ==
    ASSUME WindowsMediaInv, cap.pc \in {"open", "acquire", "publish", "recover"}
    PROVE  starter.stage \notin {"open", "wait", "fallback"}
BY SMT DEF WindowsMediaInv, QuietStart

\* The capture thread sees the stop, fails to convert, or gives up recovering.
LEMMA CaptureExitsKeep ==
    ASSUME WindowsMediaInv, CaptureSeesStop \/ ConversionFails \/ Abort
    PROVE  WindowsMediaInv'
<1>1. CaptureDone /\ CaptureOnly /\ UNCHANGED <<dims, pools>> /\ hand' = StoppedHand
  BY Zenon DEF CaptureSeesStop, ConversionFails, Abort, CaptureExits, ReportError
<1> QED
  BY <1>1, CaptureEnds, Zenon

\* The gate before the first blit, and WindowsCapture::new.
LEMMA CaptureOpensKeep == ASSUME WindowsMediaInv, AwaitEncoder \/ OpenCapture PROVE WindowsMediaInv'
<1>1. CASE CaptureDone
  <2>1. CaptureDone /\ CaptureOnly /\ UNCHANGED <<dims, pools>> /\ hand' = StoppedHand
    <3>1. CASE AwaitEncoder
      <4>1. cap'.pc = "done"
        BY <1>1, WindowsMediaAssumption, Zenon DEF CaptureDone, FreshCap
      <4>2. cap' # [cap EXCEPT !.pc = "acquire"]
        BY <4>1, MediaFields, SMT DEF WindowsMediaInv, WindowsMediaTypes, CaptureThreads
      <4> QED
        BY <1>1, <3>1, <4>2, Zenon DEF AwaitEncoder, CaptureExits
    <3>2. CASE OpenCapture
      <4>1. cap'.pc = "done"
        BY <1>1, WindowsMediaAssumption, Zenon DEF CaptureDone, FreshCap
      <4> DEFINE opens(m) == [cap EXCEPT !.pc = "acquire", !.mode = m]
      <4>2. \A m : opens(m).pc = "acquire"
        BY Zenon DEF WindowsMediaInv, WindowsMediaTypes, CaptureThreads
      <4>3. cap' # opens(desk) /\ cap' # opens("none")
        BY <4>1, <4>2, Zenon
      <4> QED
        BY <1>1, <3>2, <4>3, Zenon DEF OpenCapture, ReportError
    <3> QED
      BY <3>1, <3>2
  <2> QED
    BY <2>1, CaptureEnds, Zenon
<1>2. CASE ~CaptureDone
  <2>1. /\ CaptureOnly /\ dims' = dims /\ hand' = hand /\ pools' = pools
        /\ cap.pc \in {"ready", "open"} /\ (cap.pc = "ready" => starter.ready)
        /\ \/ cap' = [cap EXCEPT !.pc = "acquire"]
           \/ \E m \in {desk, "none"} : cap' = [cap EXCEPT !.pc = "acquire", !.mode = m]
    BY <1>2, Zenon DEF AwaitEncoder, OpenCapture, CaptureExits
  <2>2. cap' \in CaptureThreads /\ cap'.id = cap.id /\ cap'.last = cap.last
    <3>1. "acquire" \in CaptureStages /\ cap \in CaptureThreads
          /\ \A m \in {desk, "none"} : m \in DeskModes \cup {"none"}
      BY DEF CaptureStages, WindowsMediaInv, WindowsMediaTypes
    <3>2. CASE cap' = [cap EXCEPT !.pc = "acquire"]
      BY <3>1, <3>2, Zenon DEF CaptureThreads
    <3>3. CASE \E m \in {desk, "none"} : cap' = [cap EXCEPT !.pc = "acquire", !.mode = m]
      <4>1. PICK m \in {desk, "none"} : cap' = [cap EXCEPT !.pc = "acquire", !.mode = m]
        BY <3>3
      <4> QED
        BY <3>1, <4>1, Zenon DEF CaptureThreads
    <3> QED
      BY <2>1, <3>2, <3>3
  <2>3. starter.stage \notin {"open", "wait", "fallback"}
    BY <2>1, SMT DEF WindowsMediaInv, QuietStart
  <2> QED
    BY <2>1, <2>2, <2>3, CaptureMoves, Zenon DEF WindowsMediaInv, WindowsMediaTypes
<1> QED
  BY <1>1, <1>2

\* The frame that is captured next has the id after the last.
LEMMA CapturedFrameIs ==
    ASSUME WindowsMediaInv
    PROVE  CapturedFrame \in MediaFrames /\ CapturedFrame.id = cap.id + 1
<1>1. cap.id \in Nat /\ cap.id + 1 \in Nat \ {0} /\ desk \in DeskModes
  BY MediaFields, SMT DEF WindowsMediaInv, WindowsMediaTypes
<1>2. Generation \in Nat
  BY LenProperties DEF Generation, WindowsMediaInv, WindowsMediaTypes
<1>3. (cap.id + 1) % PoolSize \in Nat
  BY <1>1, WindowsMediaAssumption, SMT
<1> DEFINE n == cap.id + 1
           k == (cap.id + 1) % PoolSize
<1> HIDE DEF n, k
<1>4. CASE starter.kind = "gpu"
  <2>1. CapturedFrame = [id |-> n, mode |-> desk, gen |-> Generation, slot |-> k]
    BY <1>4, Zenon DEF CapturedFrame, n, k
  <2>2. n \in Nat \ {0} /\ k \in Nat
    BY <1>1, <1>3 DEF n, k
  <2>3. CapturedFrame \in MediaFrames /\ CapturedFrame.id = n
    BY <1>1, <1>2, <2>1, <2>2, Zenon DEF MediaFrames
  <2> QED
    BY <2>3 DEF n
<1>5. CASE starter.kind # "gpu"
  <2>1. CapturedFrame = [NoFrame EXCEPT !.id = n, !.mode = desk]
    BY <1>5, Zenon DEF CapturedFrame, n
  <2> DEFINE Any == [id : Nat, mode : DeskModes \cup {"none"}, gen : Nat, slot : Nat]
  <2>2. NoFrame \in Any
    BY Zenon DEF NoFrame
  <2>3. n \in Nat /\ n \in Nat \ {0} /\ desk \in DeskModes \cup {"none"}
    BY <1>1 DEF n
  <2>4. CapturedFrame \in Any /\ CapturedFrame.id = n /\ CapturedFrame.mode = desk
    BY <2>1, <2>2, <2>3, Zenon
  <2>5. CapturedFrame \in MediaFrames
    BY <1>1, <2>3, <2>4, SMT DEF MediaFrames
  <2> QED
    BY <2>4, <2>5 DEF n
<1> QED
  BY <1>4, <1>5

\* A blit writes one texture of the newest GpuCapture.
LEMMA BlitIs ==
    ASSUME WindowsMediaInv
    PROVE  Blit \in Seq([0 .. PoolSize - 1 -> Nat])
<1> DEFINE Pool == [0 .. PoolSize - 1 -> Nat]
<1>1. pools \in Seq(Pool) /\ cap.id \in Nat
  BY MediaFields DEF WindowsMediaInv, WindowsMediaTypes
<1>2. CASE starter.kind # "gpu"
  BY <1>1, <1>2 DEF Blit
<1>3. CASE starter.kind = "gpu"
  <2>1. Blit = [pools EXCEPT ![Generation][cap.id % PoolSize] = cap.id + 1]
    BY <1>3 DEF Blit
  <2>2. CASE pools = << >>
    <3>1. Generation \notin DOMAIN pools
      BY <1>1, <2>2, SMT DEF Generation
    <3>2. Blit = pools
      BY <1>1, <2>1, <3>1, SMT
    <3> QED
      BY <1>1, <3>2
  <2>3. CASE pools # << >>
    <3>1. Generation \in 1 .. Len(pools)
      BY <1>1, <2>3, EmptySeq, LenProperties, SMT DEF Generation
    <3>2. pools[Generation] \in Pool
      BY <1>1, <3>1, ElementOfSeq, Zenon
    <3> DEFINE new == [pools[Generation] EXCEPT ![cap.id % PoolSize] = cap.id + 1]
    <3>3. new \in Pool
      <4> DEFINE k == cap.id % PoolSize
                 n == cap.id + 1
                 old == pools[Generation]
      <4>1. n \in Nat /\ old \in Pool
        BY <1>1, <3>2, SMT
      <4>2. new = [old EXCEPT ![k] = n]
        OBVIOUS
      <4> HIDE DEF k, n, old, new
      <4> QED
        BY <4>1, <4>2, Zenon
    <3>4. Blit = [pools EXCEPT ![Generation] = new]
      BY <2>1
    <3> QED
      BY <1>1, <3>1, <3>3, <3>4, ExceptSeq, Zenon
  <2> QED
    BY <2>2, <2>3
<1> QED
  BY <1>2, <1>3

\* A new frame is newer than everything that was captured before it.
LEMMA AcquireFrameKeeps == ASSUME WindowsMediaInv, AcquireFrame PROVE WindowsMediaInv'
<1> USE DEF WindowsMediaInv
<1> DEFINE n == cap.id + 1
           f == CapturedFrame
<1>1. /\ cap.pc = "acquire" /\ pools' = Blit /\ dims' = desk
      /\ cap' = [cap EXCEPT !.pc = "publish", !.id = n, !.fails = 0, !.last = f]
      /\ enc' = enc /\ sentLog' = sentLog /\ desk' = desk /\ starter' = starter /\ hand' = hand
  BY DEF AcquireFrame, CaptureOnly
<1>2. f \in MediaFrames /\ f.id = n /\ cap.id \in Nat /\ n \in Nat /\ n > cap.id
  BY CapturedFrameIs, MediaFields, SMT
<1>3. pools' \in Seq([0 .. PoolSize - 1 -> Nat])
  BY <1>1, BlitIs
<1> HIDE DEF n, f
<1>4. cap' \in CaptureThreads /\ cap'.pc = "publish" /\ cap'.id = n /\ cap'.last = f
  <2>1. 0 \in Nat /\ "publish" \in CaptureStages /\ cap \in CaptureThreads
    BY DEF CaptureStages, WindowsMediaTypes
  <2> QED
    BY <1>1, <1>2, <2>1, Zenon DEF CaptureThreads
<1>5. starter.stage \notin {"open", "wait", "fallback"}
  BY <1>1, CaptureRuns, SMT
<1>6. QuietStart'
  BY <1>1, <1>5, Zenon DEF QuietStart
<1>7. CaptureIsNewest'
  <2>1. /\ NoneNewer(cap.id)
        /\ enc.pending.id <= cap.id /\ enc.work.frame.id <= cap.id /\ hand.frame.id <= cap.id
    BY <1>1, SMT DEF CaptureIsNewest
  <2>2. enc.pending.id \in Nat /\ enc.work.frame.id \in Nat /\ hand.frame.id \in Nat
    BY MediaFields, NoMediaFrame
  <2>3. /\ sentLog.sent \in Nat /\ \A i \in DOMAIN enc.batch : enc.batch[i] \in Nat
        /\ \A i \in DOMAIN enc.tr.queue : enc.tr.queue[i].frame.id \in Nat
    <3>1. \A i \in DOMAIN enc.batch : enc.batch[i] \in Nat
      BY MediaFields, SMT
    <3>2. \A i \in DOMAIN enc.tr.queue : enc.tr.queue[i] \in QueuedInputs
      BY MediaFields, SMT
    <3>3. \A i \in DOMAIN enc.tr.queue : enc.tr.queue[i].frame \in MediaFrames
      BY <3>2, Zenon DEF QueuedInputs
    <3> QED
      BY <3>1, <3>3, MediaFields, NoMediaFrame, Zenon
  <2>4. NoneNewer(n)
    BY <1>2, <2>1, <2>3, SMT DEF NoneNewer
  <2>5. enc.pending.id <= n /\ enc.work.frame.id <= n /\ hand.frame.id <= n
    BY <1>2, <2>1, <2>2, SMT
  <2> QED
    BY <1>1, <1>2, <1>4, <2>4, <2>5, Zenon DEF CaptureIsNewest, NoneNewer
<1> QED
  BY <1>1, <1>3, <1>4, <1>6, <1>7, CalmStep, Zenon DEF WindowsMediaTypes

\* The newest frame, taken now or before, becomes the handoff's.
LEMMA PublishKeeps ==
    ASSUME WindowsMediaInv, CaptureOnly, UNCHANGED <<dims, pools>>,
           cap.pc \in {"acquire", "publish"}, hand' = [hand EXCEPT !.frame = cap.last],
           cap' \in CaptureThreads, cap'.id = cap.id, cap'.last = cap.last
    PROVE  WindowsMediaInv'
<1> USE DEF WindowsMediaInv
<1>1. enc' = enc /\ sentLog' = sentLog /\ desk' = desk /\ starter' = starter
  BY DEF CaptureOnly
<1>2. /\ hand' \in MediaHands /\ hand'.frame = cap.last /\ hand'.stopped = hand.stopped
      /\ hand'.key = hand.key
  BY MediaFields, Zenon DEF WindowsMediaTypes, MediaHands
<1>3. starter.stage \notin {"open", "wait", "fallback"}
  BY CaptureRuns, SMT
<1>4. NoFrame' = NoFrame /\ NoFrame.id = 0 /\ cap.id \in Nat /\ cap.pc \notin {"none", "done"}
  BY MediaFields, SMT DEF NoFrame
<1>5. WindowsMediaTypes' /\ QuietStart' /\ PathsApart'
  BY <1>1, <1>2, <1>3, <1>4, SMT DEF WindowsMediaTypes, QuietStart, PathsApart
<1>6. /\ NoneNewer(cap.id) /\ enc.pending.id <= cap.id /\ enc.work.frame.id <= cap.id
      /\ cap.last = NoFrame \/ cap.last.id = cap.id
  BY <1>4, Zenon DEF CaptureIsNewest
<1>7. cap.last.id <= cap.id
  BY <1>4, <1>6, SMT
<1>8. FramesInOrder'
  BY <1>1, <1>2, <1>4, <1>6, Zenon DEF FramesInOrder, NoneNewer
<1>9. CaptureIsNewest'
  BY <1>1, <1>2, <1>4, <1>6, <1>7, Zenon DEF CaptureIsNewest, NoneNewer
<1>10. LengthsFit' /\ LabelsAreKeys' /\ KeyOnItsWay'
  BY <1>1, <1>2, Zenon DEF LengthsFit, LabelsAreKeys, KeyOnItsWay, SameLength
<1> QED
  BY <1>5, <1>8, <1>9, <1>10, Zenon

\* Handoff::publish of the new frame, and the keepalive that repeats the last.
LEMMA PublishFramesKeep == ASSUME WindowsMediaInv, PublishFrame \/ KeepAlive PROVE WindowsMediaInv'
<1> USE DEF WindowsMediaInv
<1>1. CASE KeepAlive
  BY <1>1, PublishKeeps, SMT DEF KeepAlive, WindowsMediaTypes
<1>2. CASE PublishFrame /\ hand.stopped
  <2>1. CaptureDone /\ CaptureOnly /\ UNCHANGED <<dims, pools>> /\ hand' = StoppedHand
    BY <1>2, Zenon DEF PublishFrame, CaptureExits
  <2> QED
    BY <2>1, CaptureEnds, Zenon
<1>3. CASE PublishFrame /\ ~hand.stopped
  <2>1. /\ cap.pc = "publish" /\ CaptureOnly /\ UNCHANGED <<dims, pools>>
        /\ hand' = [hand EXCEPT !.frame = cap.last] /\ cap' = [cap EXCEPT !.pc = "acquire"]
    BY <1>3 DEF PublishFrame
  <2>2. cap' \in CaptureThreads /\ cap'.id = cap.id /\ cap'.last = cap.last
    BY <2>1, Zenon DEF WindowsMediaTypes, CaptureThreads, CaptureStages
  <2> QED
    BY <2>1, <2>2, PublishKeeps, SMT
<1> QED
  BY <1>1, <1>2, <1>3

\* A lost duplication, and the one made in its place.
LEMMA CaptureFailsKeep == ASSUME WindowsMediaInv, AcquireFails \/ Reacquire PROVE WindowsMediaInv'
<1> USE DEF WindowsMediaInv
<1>1. CASE AcquireFails
  <2>1. PICK failure \in Failures :
            cap' = [cap EXCEPT !.pc = "recover", !.other = (failure = "capture")]
    BY <1>1, Zenon DEF AcquireFails
  <2> DEFINE other == (failure = "capture")
  <2>2. other \in BOOLEAN /\ cap \in CaptureThreads /\ "recover" \in CaptureStages
    BY DEF WindowsMediaTypes, CaptureStages
  <2>3. cap' = [cap EXCEPT !.pc = "recover", !.other = other]
    BY <2>1
  <2> HIDE DEF other
  <2>4. cap' \in CaptureThreads /\ cap'.id = cap.id /\ cap'.last = cap.last
    BY <2>2, <2>3, Zenon DEF CaptureThreads
  <2>5. cap.pc = "acquire" /\ CaptureOnly /\ UNCHANGED <<hand, dims, pools>>
    BY <1>1, Zenon DEF AcquireFails
  <2> QED
    BY <2>4, <2>5, CaptureRuns, CaptureMoves, SMT DEF WindowsMediaTypes
<1>2. CASE Reacquire
  <2> DEFINE count == IF cap.fails > AbortThreshold THEN cap.fails ELSE cap.fails + 1
  <2>1. count \in Nat /\ cap \in CaptureThreads /\ "acquire" \in CaptureStages
        /\ desk \in DeskModes \cup {"none"}
    BY MediaFields, WindowsMediaAssumption, SMT DEF WindowsMediaTypes, CaptureStages
  <2>2. /\ cap.pc = "recover" /\ CaptureOnly /\ UNCHANGED <<hand, dims>>
        /\ \/ /\ cap' = [[cap EXCEPT !.fails = count] EXCEPT !.pc = "acquire", !.mode = desk]
              /\ pools' = IF starter.kind = "gpu" THEN Append(pools, NewPool) ELSE pools
           \/ cap' = [cap EXCEPT !.fails = count] /\ pools' = pools
    BY <1>2, Zenon DEF Reacquire
  <2>3. pools' \in Seq([0 .. PoolSize - 1 -> Nat])
    BY <2>2, NewPoolIs, SMT DEF WindowsMediaTypes
  <2> HIDE DEF count
  <2>4. cap' \in CaptureThreads /\ cap'.id = cap.id /\ cap'.last = cap.last
    <3> DEFINE counted == [cap EXCEPT !.fails = count]
    <3>1. counted \in CaptureThreads /\ counted.id = cap.id /\ counted.last = cap.last
      BY <2>1, Zenon DEF CaptureThreads
    <3>2. cap' = counted \/ cap' = [counted EXCEPT !.pc = "acquire", !.mode = desk]
      BY <2>2, Zenon
    <3> HIDE DEF counted
    <3> QED
      BY <2>1, <3>1, <3>2, Zenon DEF CaptureThreads
  <2> QED
    BY <2>2, <2>3, <2>4, CaptureRuns, CaptureMoves, SMT DEF WindowsMediaTypes
<1> QED
  BY <1>1, <1>2

\* A step of an encoder thread that puts no input into its transform and takes no output.
LEMMA OrderKept ==
    ASSUME WindowsMediaInv, enc' \in EncoderThreads, enc'.batch = enc.batch,
           enc'.tr.queue \in {enc.tr.queue, << >>}, sentLog'.sent = sentLog.sent, cap' = cap,
           enc'.pending \in {enc.pending, hand.frame, NoFrame},
           enc'.work.frame \in {enc.work.frame, hand.frame, NoFrame},
           enc'.pending = enc.pending \/ enc'.work.frame = enc.work.frame,
           hand'.frame \in {hand.frame, NoFrame}
    PROVE  FramesInOrder' /\ CaptureIsNewest'
<1> USE DEF WindowsMediaInv
<1>1. NoFrame' = NoFrame /\ NoFrame.id = 0
  BY Zenon DEF NoFrame
<1>2. /\ enc.pending.id \in Nat /\ enc.work.frame.id \in Nat /\ hand.frame.id \in Nat
      /\ cap.id \in Nat
  BY MediaFields, NoMediaFrame
<1>3. DOMAIN << >> = {}
  BY SMT
<1>4. \/ enc'.tr.queue = enc.tr.queue
      \/ enc'.tr.queue = << >> /\ DOMAIN enc'.tr.queue = {}
  BY <1>3
<1> DEFINE Newer(n) == /\ sentLog.sent <= n
                       /\ \A i \in DOMAIN enc.batch : enc.batch[i] <= n
                       /\ \A i \in DOMAIN enc'.tr.queue : enc'.tr.queue[i].frame.id <= n
<1>5. /\ enc.pending # NoFrame => Newer(enc.pending.id)
      /\ enc.work.frame # NoFrame => Newer(enc.work.frame.id)
      /\ hand.frame # NoFrame => Newer(hand.frame.id)
      /\ cap.pc \notin {"none", "done"} => Newer(cap.id)
  BY <1>4, Zenon DEF FramesInOrder, CaptureIsNewest, NoneNewer
<1>6. /\ \A i, j \in DOMAIN enc.batch : i <= j => enc.batch[i] <= enc.batch[j]
      /\ \A i, j \in DOMAIN enc'.tr.queue :
           i <= j => enc'.tr.queue[i].frame.id <= enc'.tr.queue[j].frame.id
      /\ \A i \in DOMAIN enc.batch : sentLog.sent <= enc.batch[i]
      /\ \A j \in DOMAIN enc'.tr.queue :
           /\ sentLog.sent <= enc'.tr.queue[j].frame.id
           /\ \A i \in DOMAIN enc.batch : enc.batch[i] <= enc'.tr.queue[j].frame.id
  BY <1>4, Zenon DEF FramesInOrder
<1> HIDE DEF Newer
<1>7. /\ enc'.pending # NoFrame => Newer(enc'.pending.id)
      /\ enc'.work.frame # NoFrame => Newer(enc'.work.frame.id)
      /\ hand'.frame # NoFrame => Newer(hand'.frame.id)
  BY <1>5, Zenon
<1>8. hand.frame # NoFrame =>
          enc.pending.id <= hand.frame.id /\ enc.work.frame.id <= hand.frame.id
  BY Zenon DEF FramesInOrder
<1>9. hand'.frame # NoFrame =>
          enc'.pending.id <= hand'.frame.id /\ enc'.work.frame.id <= hand'.frame.id
  <2>1. CASE hand'.frame = NoFrame
    BY <2>1
  <2>2. CASE hand'.frame = hand.frame /\ hand.frame # NoFrame
    <3>1. enc'.pending.id <= hand.frame.id
      BY <1>1, <1>2, <1>8, <2>2, SMT
    <3>2. enc'.work.frame.id <= hand.frame.id
      BY <1>1, <1>2, <1>8, <2>2, SMT
    <3> QED
      BY <2>2, <3>1, <3>2
  <2> QED
    BY <2>1, <2>2
<1>10. FramesInOrder'
  BY <1>1, <1>6, <1>7, <1>9, Zenon DEF FramesInOrder, NoneNewer, Newer
<1>11. CaptureIsNewest'
  <2> SUFFICES ASSUME cap.pc \notin {"none", "done"}
               PROVE  CaptureIsNewest'
    BY Zenon DEF CaptureIsNewest
  <2>1. /\ enc.pending.id <= cap.id /\ enc.work.frame.id <= cap.id /\ hand.frame.id <= cap.id
        /\ cap.last = NoFrame \/ cap.last.id = cap.id
    BY Zenon DEF CaptureIsNewest
  <2>2. 0 <= cap.id
    BY <1>2, SMT
  <2>3. enc'.pending.id <= cap.id /\ enc'.work.frame.id <= cap.id /\ hand'.frame.id <= cap.id
    BY <1>1, <2>1, <2>2, Zenon
  <2>4. NoneNewer(cap.id)'
    BY <1>5, Zenon DEF Newer, NoneNewer
  <2> QED
    BY <1>1, <2>1, <2>3, <2>4, Zenon DEF CaptureIsNewest, NoneNewer
<1> QED
  BY <1>10, <1>11

\* The CPU encoder runs only in a CPU pipeline that was started.
LEMMA CpuEncoderRuns ==
    ASSUME WindowsMediaInv, enc.pc \in CpuStages \/ (enc.pc = "open" /\ starter.kind = "cpu")
    PROVE  /\ starter.kind = "cpu" /\ starter.stage \notin {"open", "wait", "fallback"}
           /\ enc.pending = NoFrame
<1> USE DEF WindowsMediaInv
<1>1. starter.kind = "cpu"
  BY MediaFields, Zenon DEF PathsApart
<1>2. enc.pc \notin {"none", "done"}
  BY SMT DEF CpuStages
<1>3. starter.stage \notin {"open", "wait", "fallback"}
  BY <1>1, <1>2, SMT DEF QuietStart
<1> QED
  BY <1>1, <1>3, Zenon DEF PathsApart

\* The next stage of the CPU encoder, with what it is working on.
LEMMA CpuStep ==
    ASSUME WindowsMediaInv, enc.pc \in CpuStages \/ (enc.pc = "open" /\ starter.kind = "cpu"),
           EncoderOnly, starter' = starter, sentLog' = sentLog,
           enc' \in EncoderThreads, enc'.pc \in CpuStages, enc'.batch = enc.batch,
           enc'.pending = enc.pending,
           enc'.work.frame \in {enc.work.frame, hand.frame, NoFrame},
           \/ enc'.tr.queue = enc.tr.queue /\ enc'.tr.first = enc.tr.first
           \/ enc'.tr.queue = << >>,
           hand' \in MediaHands, hand'.frame \in {hand.frame, NoFrame},
           LengthsFit', KeyOnItsWay'
    PROVE  WindowsMediaInv'
<1> USE DEF WindowsMediaInv
<1>1. /\ starter.kind = "cpu" /\ starter.stage \notin {"open", "wait", "fallback"}
      /\ enc.pending = NoFrame
  BY CpuEncoderRuns
<1>2. NoFrame' = NoFrame /\ DOMAIN << >> = {}
  BY SMT DEF NoFrame
<1>3. desk' = desk /\ cap' = cap /\ pools' = pools /\ dims' = dims
  BY DEF EncoderOnly
<1>4. WindowsMediaTypes'
  BY <1>3, Zenon DEF WindowsMediaTypes
<1>5. QuietStart'
  BY <1>1, Zenon DEF QuietStart
<1>6. PathsApart'
  BY <1>1, <1>2, SMT DEF PathsApart, CpuStages
<1>7. FramesInOrder' /\ CaptureIsNewest'
  BY <1>3, OrderKept, SMT
<1>8. LabelsAreKeys'
  BY <1>2, Zenon DEF LabelsAreKeys
<1> QED
  BY <1>4, <1>5, <1>6, <1>7, <1>8, Zenon

\* The CPU encoder thread ends.
LEMMA CpuExits ==
    ASSUME WindowsMediaInv, EncoderExits, EncoderOnly, starter' = starter, sentLog' = sentLog,
           hand' = hand \/ hand' = StoppedHand
    PROVE  WindowsMediaInv'
BY EncoderExitsSafely, Zenon DEF EncoderOnly, WindowsMediaInv, WindowsMediaTypes

\* An error stops the handoff before it reaches the channel.
LEMMA ReportStops == ReportError => hand' = StoppedHand
BY DEF ReportError

\* The CPU encoder is opened, or its error reported.
LEMMA OpenCpuEncoderKeeps == ASSUME WindowsMediaInv, OpenCpuEncoder PROVE WindowsMediaInv'
<1> USE DEF WindowsMediaInv
<1>1. CASE EncoderExits /\ ReportError
  BY <1>1, CpuExits, ReportStops, Zenon DEF OpenCpuEncoder
<1>2. CASE enc' = [enc EXCEPT !.pc = "next"] /\ hand' = hand
  <2>1. /\ enc' \in EncoderThreads /\ enc'.pc = "next" /\ enc'.work = enc.work
        /\ enc'.batch = enc.batch /\ enc'.pending = enc.pending /\ enc'.tr = enc.tr
    BY <1>2, Zenon DEF WindowsMediaTypes, EncoderThreads, EncoderStages, CpuStages
  <2>2. /\ enc.pc = "open" /\ starter.kind = "cpu" /\ EncoderOnly /\ starter' = starter
        /\ sentLog' = sentLog
    BY Zenon DEF OpenCpuEncoder
  <2>3. enc.work = NoWork
    BY <2>2, Zenon DEF PathsApart
  <2>4. ~enc.work.key
    BY <2>3, NoMediaFrame
  <2>5. LengthsFit' /\ KeyOnItsWay'
    BY <1>2, <2>1, <2>2, <2>4, SMT DEF LengthsFit, SameLength, KeyOnItsWay
  <2>6. hand' \in MediaHands /\ enc'.pc \in CpuStages
    BY <1>2, <2>1 DEF WindowsMediaTypes, CpuStages
  <2> QED
    BY <1>2, <2>1, <2>2, <2>5, <2>6, CpuStep, Zenon
<1> QED
  BY <1>1, <1>2, Zenon DEF OpenCpuEncoder

\* Handoff::next hands over the frame and the controls together.
LEMMA NextWorkKeeps == ASSUME WindowsMediaInv, NextWork PROVE WindowsMediaInv'
<1> USE DEF WindowsMediaInv
<1>0. /\ enc.pc = "next" /\ EncoderOnly /\ starter' = starter /\ sentLog' = sentLog
      /\ enc.pc \in CpuStages
  BY Zenon DEF NextWork, CpuStages
<1>1. CASE EncoderExits /\ hand' = hand
  BY <1>0, <1>1, CpuExits, Zenon
<1>2. CASE /\ ~hand.stopped /\ hand' = FreshHand
           /\ enc' = [enc EXCEPT !.pc = "rate",
                        !.work = [frame |-> hand.frame, key |-> hand.key, rate |-> hand.rate]]
  <2> DEFINE w == [frame |-> hand.frame, key |-> hand.key, rate |-> hand.rate]
  <2>1. w \in MediaWorks /\ w.frame = hand.frame /\ w.key = hand.key
    BY MediaFields, Zenon DEF MediaWorks
  <2>2. enc' = [enc EXCEPT !.pc = "rate", !.work = w]
    BY <1>2
  <2> HIDE DEF w
  <2>3. /\ enc' \in EncoderThreads /\ enc'.pc = "rate" /\ enc'.work = w
        /\ enc'.batch = enc.batch /\ enc'.pending = enc.pending /\ enc'.tr = enc.tr
    BY <2>1, <2>2, Zenon DEF WindowsMediaTypes, EncoderThreads, EncoderStages, CpuStages
  <2>4. LengthsFit'
    BY <1>0, <2>3, SMT DEF LengthsFit, SameLength
  <2>5. KeyOnItsWay'
    BY <1>0, <1>2, <2>1, <2>3, FreshHandIs, SMT DEF KeyOnItsWay
  <2>6. hand' \in MediaHands /\ hand'.frame \in {hand.frame, NoFrame} /\ enc'.pc \in CpuStages
    BY <1>2, <2>3, FreshHandIs DEF CpuStages
  <2> QED
    BY <1>0, <2>1, <2>3, <2>4, <2>5, <2>6, CpuStep, Zenon
<1> QED
  BY <1>1, <1>2, Zenon DEF NextWork

\* update_bitrate, with a transform that may have to be built anew.
LEMMA ApplyBitrateKeeps == ASSUME WindowsMediaInv, ApplyBitrate PROVE WindowsMediaInv'
<1> USE DEF WindowsMediaInv
<1>0. /\ enc.pc = "rate" /\ EncoderOnly /\ starter' = starter /\ sentLog' = sentLog
      /\ enc.pc \in CpuStages
  BY Zenon DEF ApplyBitrate, CpuStages
<1>1. CASE EncoderExits /\ ReportError
  BY <1>0, <1>1, CpuExits, ReportStops, Zenon
<1>2. ASSUME hand' = hand, enc' \in EncoderThreads, enc'.pc = "reselect", enc'.batch = enc.batch,
             enc'.pending = enc.pending, enc'.work.frame = enc.work.frame,
             enc'.work.key = enc.work.key,
             enc'.tr = enc.tr \/ enc'.tr = FreshTransform(enc.tr.mode)
      PROVE  WindowsMediaInv'
  <2>1. /\ enc'.tr.mode = enc.tr.mode
        /\ \/ enc'.tr = enc.tr
           \/ enc'.tr.queue = << >> /\ enc'.tr.forced = TRUE
    BY <1>2, MediaFields, FreshTransformIs, Zenon
  <2>2. LengthsFit'
    <3>1. DOMAIN << >> = {}
      BY SMT
    <3> QED
      BY <1>0, <1>2, <2>1, <3>1, SMT DEF LengthsFit, SameLength
  <2>3. KeyOnItsWay'
    BY <1>0, <1>2, <2>1, SMT DEF KeyOnItsWay
  <2>4. hand' \in MediaHands /\ enc'.pc \in CpuStages
    BY <1>2 DEF WindowsMediaTypes, CpuStages
  <2> QED
    BY <1>0, <1>2, <2>1, <2>2, <2>3, <2>4, CpuStep, Zenon
<1>3. CASE enc' = [enc EXCEPT !.pc = "reselect"] /\ hand' = hand
  <2>1. /\ enc' \in EncoderThreads /\ enc'.pc = "reselect" /\ enc'.work = enc.work
        /\ enc'.batch = enc.batch /\ enc'.pending = enc.pending /\ enc'.tr = enc.tr
    BY <1>3, Zenon DEF WindowsMediaTypes, EncoderThreads, EncoderStages, CpuStages
  <2> QED
    BY <1>2, <1>3, <2>1, Zenon
<1>4. CASE /\ hand' = hand
           /\ \E rebuilt \in BOOLEAN :
                enc' = [enc EXCEPT !.pc = "reselect", !.work.rate = FALSE,
                          !.tr = IF rebuilt THEN FreshTransform(@.mode) ELSE @]
  <2>1. PICK rebuilt \in BOOLEAN :
            enc' = [enc EXCEPT !.pc = "reselect", !.work.rate = FALSE,
                      !.tr = IF rebuilt THEN FreshTransform(@.mode) ELSE @]
    BY <1>4, Zenon
  <2> DEFINE w == [enc.work EXCEPT !.rate = FALSE]
             t == IF rebuilt THEN FreshTransform(enc.tr.mode) ELSE enc.tr
  <2>2. w \in MediaWorks /\ w.frame = enc.work.frame /\ w.key = enc.work.key
    BY MediaFields, Zenon DEF MediaWorks
  <2>3. t \in Transforms /\ (t = enc.tr \/ t = FreshTransform(enc.tr.mode))
    BY MediaFields, FreshTransformIs, Zenon
  <2>4. enc' = [enc EXCEPT !.pc = "reselect", !.work = w, !.tr = t]
    BY <2>1, Zenon
  <2> HIDE DEF w, t
  <2>5. /\ enc' \in EncoderThreads /\ enc'.pc = "reselect" /\ enc'.work = w
        /\ enc'.batch = enc.batch /\ enc'.pending = enc.pending /\ enc'.tr = t
    BY <2>2, <2>3, <2>4, Zenon DEF WindowsMediaTypes, EncoderThreads, EncoderStages, CpuStages
  <2> QED
    BY <1>2, <1>4, <2>2, <2>3, <2>5, Zenon
<1> QED
  BY <1>1, <1>3, <1>4, Zenon DEF ApplyBitrate

\* Handoff::reselect: a newer frame replaces the one in work, the controls add up.
LEMMA ReselectKeeps == ASSUME WindowsMediaInv, Reselect PROVE WindowsMediaInv'
<1> USE DEF WindowsMediaInv
<1>0. /\ enc.pc = "reselect" /\ EncoderOnly /\ starter' = starter /\ sentLog' = sentLog
      /\ enc.pc \in CpuStages
  BY Zenon DEF Reselect, CpuStages
<1>1. CASE hand.stopped
  BY <1>0, <1>1, CpuExits, Zenon DEF Reselect
<1>2. CASE ~hand.stopped
  <2> DEFINE frame == IF hand.frame # NoFrame THEN hand.frame ELSE enc.work.frame
             key == enc.work.key \/ hand.key
             w == [frame |-> frame, key |-> key, rate |-> TRUE]
             v == [frame |-> frame, key |-> FALSE, rate |-> FALSE]
             p == IF frame = NoFrame THEN "next" ELSE "encode"
             t == [enc.tr EXCEPT !.forced = enc.tr.forced \/ key]
  <2>1. /\ hand' = FreshHand
        /\ enc' = IF hand.rate THEN [enc EXCEPT !.pc = "rate", !.work = w]
                  ELSE [enc EXCEPT !.pc = p, !.work = v, !.tr = t]
    BY <1>2, Zenon DEF Reselect
  <2>2. frame \in MediaFrames /\ frame \in {enc.work.frame, hand.frame} /\ key \in BOOLEAN
    BY MediaFields, SMT
  <2>3. p \in {"next", "encode"} /\ (p = "encode" => frame # NoFrame)
    OBVIOUS
  <2>4. key <=> enc.work.key \/ hand.key
    OBVIOUS
  <2> HIDE DEF frame, key, p
  <2>5. /\ w \in MediaWorks /\ w.frame = frame /\ w.key = key
        /\ v \in MediaWorks /\ v.frame = frame /\ v.key = FALSE
    BY <2>2, Zenon DEF MediaWorks
  <2>6. /\ t \in Transforms /\ t.queue = enc.tr.queue /\ t.first = enc.tr.first
        /\ t.mode = enc.tr.mode /\ t.forced = (enc.tr.forced \/ key)
    <3> DEFINE forces == enc.tr.forced \/ key
    <3>1. forces \in BOOLEAN /\ enc.tr \in Transforms /\ t = [enc.tr EXCEPT !.forced = forces]
      BY MediaFields
    <3>2. (enc.tr.forced \/ key) = forces
      OBVIOUS
    <3> HIDE DEF forces, t
    <3> QED
      BY <3>1, <3>2, Zenon DEF Transforms
  <2> HIDE DEF w, v, t
  <2>7. CASE hand.rate
    <3>1. /\ enc' \in EncoderThreads /\ enc'.pc = "rate" /\ enc'.work = w
          /\ enc'.batch = enc.batch /\ enc'.pending = enc.pending /\ enc'.tr = enc.tr
      BY <2>1, <2>5, <2>7, Zenon DEF WindowsMediaTypes, EncoderThreads, EncoderStages, CpuStages
    <3>2. LengthsFit'
      BY <1>0, <3>1, SMT DEF LengthsFit, SameLength
    <3>3. KeyOnItsWay'
      BY <1>0, <1>2, <2>1, <2>4, <2>5, <3>1, FreshHandIs, Zenon DEF KeyOnItsWay
    <3>4. hand' \in MediaHands /\ hand'.frame \in {hand.frame, NoFrame} /\ enc'.pc \in CpuStages
      BY <2>1, <3>1, FreshHandIs DEF CpuStages
    <3> QED
      BY <1>0, <2>2, <2>5, <3>1, <3>2, <3>3, <3>4, CpuStep, Zenon
  <2>8. CASE ~hand.rate
    <3>1. /\ enc' \in EncoderThreads /\ enc'.pc = p /\ enc'.work = v
          /\ enc'.batch = enc.batch /\ enc'.pending = enc.pending /\ enc'.tr = t
      <4>1. p \in EncoderStages
        BY <2>3, SMT DEF EncoderStages, CpuStages
      <4> QED
        BY <2>1, <2>5, <2>6, <2>8, <4>1, Zenon DEF WindowsMediaTypes, EncoderThreads
    <3>2. LengthsFit'
      <4>1. NoFrame' = NoFrame
        BY Zenon DEF NoFrame
      <4> QED
        BY <1>0, <2>3, <2>5, <2>6, <3>1, <4>1, SMT DEF LengthsFit, SameLength
    <3>3. KeyOnItsWay'
      <4>1. enc'.pc \notin {"drain", "makeRoom", "retry"}
        BY <2>3, <3>1, SMT
      <4>2. ~enc'.work.key
        BY <2>5, <3>1
      <4>3. sentLog.owed /\ starter.kind = "cpu" => enc'.tr.forced
        BY <1>0, <1>2, <2>4, <2>6, <3>1, Zenon DEF KeyOnItsWay
      <4> QED
        BY <1>0, <4>1, <4>2, <4>3, Zenon DEF KeyOnItsWay
    <3>4. hand' \in MediaHands /\ hand'.frame \in {hand.frame, NoFrame} /\ enc'.pc \in CpuStages
      BY <2>1, <2>3, <3>1, FreshHandIs, SMT DEF CpuStages
    <3> QED
      BY <1>0, <2>2, <2>5, <2>6, <3>1, <3>2, <3>3, <3>4, CpuStep, Zenon
  <2> QED
    BY <2>7, <2>8
<1> QED
  BY <1>1, <1>2

\* The check of the length, and the transform rebuilt for a reported mode.
LEMMA EncodeKeeps == ASSUME WindowsMediaInv, Encode PROVE WindowsMediaInv'
<1> USE DEF WindowsMediaInv
<1>0. /\ enc.pc = "encode" /\ EncoderOnly /\ starter' = starter /\ sentLog' = sentLog
      /\ enc.pc \in CpuStages /\ enc.work.frame # NoFrame /\ ~enc.work.key
  BY SMT DEF Encode, CpuStages, LengthsFit, KeyOnItsWay
<1>1. CASE EncoderExits /\ ReportError
  BY <1>0, <1>1, CpuExits, ReportStops, Zenon
<1>2. ASSUME NEW p \in {"submit", "next"}, NEW t \in {enc.tr, FreshTransform(dims)},
             hand' = hand, enc' = [enc EXCEPT !.pc = p, !.tr = t],
             p = "submit" => Nv12Len[enc.work.frame.mode] = Nv12Len[t.mode]
      PROVE  WindowsMediaInv'
  <2>1. t \in Transforms /\ (t = enc.tr \/ (t.queue = << >> /\ t.forced = TRUE))
    BY MediaFields, FreshTransformIs, Zenon DEF WindowsMediaTypes
  <2>2. p \in EncoderStages /\ p \in CpuStages
    BY SMT DEF EncoderStages, CpuStages
  <2>3. /\ enc' \in EncoderThreads /\ enc'.pc = p /\ enc'.work = enc.work
        /\ enc'.batch = enc.batch /\ enc'.pending = enc.pending /\ enc'.tr = t
    BY <1>2, <2>1, <2>2, Zenon DEF WindowsMediaTypes, EncoderThreads
  <2>4. LengthsFit'
    <3>1. NoFrame' = NoFrame /\ DOMAIN << >> = {}
      BY SMT DEF NoFrame
    <3> QED
      BY <1>0, <1>2, <2>1, <2>3, <3>1, SMT DEF LengthsFit, SameLength
  <2>5. KeyOnItsWay'
    BY <1>0, <1>2, <2>1, <2>3, SMT DEF KeyOnItsWay
  <2>6. hand' \in MediaHands
    BY <1>2 DEF WindowsMediaTypes
  <2>7. \/ enc'.tr.queue = enc.tr.queue /\ enc'.tr.first = enc.tr.first
        \/ enc'.tr.queue = << >>
    BY <2>1, <2>3
  <2> QED
    BY <1>0, <1>2, <2>2, <2>3, <2>4, <2>5, <2>6, <2>7, CpuStep, Zenon
<1>3. CASE /\ Nv12Len[enc.work.frame.mode] = Nv12Len[enc.tr.mode]
           /\ enc' = [enc EXCEPT !.pc = "submit"] /\ hand' = hand
  <2>1. [enc EXCEPT !.pc = "submit"] = [enc EXCEPT !.pc = "submit", !.tr = enc.tr]
    BY Zenon DEF WindowsMediaTypes, EncoderThreads
  <2> QED
    BY <1>2, <1>3, <2>1, Zenon
<1>4. CASE enc' = [enc EXCEPT !.pc = "next"] /\ hand' = hand
  <2>1. [enc EXCEPT !.pc = "next"] = [enc EXCEPT !.pc = "next", !.tr = enc.tr]
    BY Zenon DEF WindowsMediaTypes, EncoderThreads
  <2>2. "next" # "submit"
    OBVIOUS
  <2> QED
    BY <1>2, <1>4, <2>1, <2>2, Zenon
<1>5. CASE /\ ReportedFits /\ hand' = hand
           /\ enc' = [enc EXCEPT !.pc = "submit", !.tr = FreshTransform(dims)]
  <2>1. Nv12Len[enc.work.frame.mode] = Nv12Len[FreshTransform(dims).mode]
    BY <1>5, FreshTransformIs, Zenon DEF ReportedFits, WindowsMediaTypes
  <2> QED
    BY <1>2, <1>5, <2>1, Zenon
<1> QED
  BY <1>1, <1>3, <1>4, <1>5, Zenon DEF Encode

\* The elements of a sequence and of the one with an element more.
LEMMA AppendedIs ==
    ASSUME NEW S, NEW q \in Seq(S), NEW x \in S
    PROVE  /\ Append(q, x) \in Seq(S) /\ Len(Append(q, x)) = Len(q) + 1
           /\ DOMAIN Append(q, x) = DOMAIN q \cup {Len(q) + 1}
           /\ \A i \in DOMAIN q : Append(q, x)[i] = q[i] /\ i < Len(q) + 1
           /\ Append(q, x)[Len(q) + 1] = x
<1>1. Append(q, x) \in Seq(S) /\ Len(q) \in Nat /\ DOMAIN q = 1 .. Len(q)
  BY AppendProperties, LenProperties
<1>2. DOMAIN Append(q, x) = 1 .. Len(q) + 1
  BY <1>1, AppendProperties, LenProperties, SMT
<1> QED
  BY <1>1, <1>2, AppendProperties, SMT

\* The elements of a sequence and of the one without its first.
LEMMA TailIs ==
    ASSUME NEW S, NEW q \in Seq(S), q # << >>
    PROVE  /\ Tail(q) \in Seq(S) /\ Len(Tail(q)) = Len(q) - 1 /\ Len(q) \in Nat \ {0}
           /\ 1 \in DOMAIN q /\ Head(q) = q[1] /\ Head(q) \in S
           /\ \A i \in DOMAIN Tail(q) : i + 1 \in DOMAIN q /\ Tail(q)[i] = q[i + 1] /\ 1 <= i + 1
           /\ DOMAIN Tail(q) \subseteq Nat
<1>1. /\ Len(q) \in Nat \ {0} /\ DOMAIN q = 1 .. Len(q)
  BY EmptySeq, LenProperties
<1>2. Tail(q) \in Seq(S) /\ Head(q) \in S /\ Len(Tail(q)) = Len(q) - 1
      /\ \A i \in 1 .. Len(Tail(q)) : Tail(q)[i] = q[i + 1]
  BY HeadTailProperties
<1>3. DOMAIN Tail(q) = 1 .. Len(q) - 1
  BY <1>2, LenProperties
<1>4. Head(q) = q[1]
  BY <1>1, SMT
<1> QED
  BY <1>1, <1>2, <1>3, <1>4, SMT

\* An input enters the transform: it is not older than what the transform holds.
LEMMA InputKeepsOrder ==
    ASSUME WindowsMediaInv, NEW x \in QueuedInputs, enc' \in EncoderThreads,
           enc'.tr.queue = Append(enc.tr.queue, x), x.frame \in {enc.work.frame, enc.pending},
           enc'.batch = enc.batch, sentLog'.sent = sentLog.sent, cap' = cap,
           hand'.frame = hand.frame, enc'.pending = NoFrame, enc'.work.frame = NoFrame
    PROVE  FramesInOrder' /\ CaptureIsNewest'
<1> USE DEF WindowsMediaInv
<1> DEFINE q == enc.tr.queue
           n == Len(q) + 1
           id == x.frame.id
           queue == Append(q, x)
<1>1. NoFrame' = NoFrame /\ NoFrame.id = 0
  BY Zenon DEF NoFrame
<1>2. x.frame \in MediaFrames /\ x.frame # NoFrame
  BY Zenon DEF QueuedInputs
<1>3. id \in Nat /\ hand.frame.id \in Nat /\ cap.id \in Nat
  BY <1>2, MediaFields, NoMediaFrame
<1>4. /\ DOMAIN queue = DOMAIN q \cup {n} /\ queue[n] = x /\ n \in Nat /\ DOMAIN q \subseteq Nat
      /\ \A i \in DOMAIN q : queue[i] = q[i] /\ i < n
  <2>1. q \in Seq(QueuedInputs)
    BY MediaFields
  <2>2. Len(q) \in Nat /\ DOMAIN q = 1 .. Len(q)
    BY <2>1, LenProperties
  <2> QED
    BY <2>1, <2>2, AppendedIs, SMT
<1>5. NoneNewer(id)
  BY <1>2, Zenon DEF FramesInOrder
<1>6. hand.frame # NoFrame => NoneNewer(hand.frame.id) /\ id <= hand.frame.id
  BY Zenon DEF FramesInOrder
<1>7. cap.pc \notin {"none", "done"} =>
        /\ NoneNewer(cap.id) /\ id <= cap.id /\ hand.frame.id <= cap.id
        /\ cap.last = NoFrame \/ cap.last.id = cap.id
  BY Zenon DEF CaptureIsNewest
<1>8. enc'.tr.queue = queue
  OBVIOUS
<1> HIDE DEF id, n, queue
<1>9. queue[n].frame.id = id
  BY <1>4 DEF id
<1> DEFINE Newer(k) == /\ sentLog.sent <= k
                       /\ \A i \in DOMAIN enc.batch : enc.batch[i] <= k
                       /\ \A i \in DOMAIN queue : queue[i].frame.id <= k
<1>10. ASSUME NEW k, NoneNewer(k), id <= k
       PROVE  Newer(k)
  BY <1>4, <1>9, <1>10, SMT DEF NoneNewer
<1>11. FramesInOrder'
  <2>1. \A i, j \in DOMAIN queue : i <= j => queue[i].frame.id <= queue[j].frame.id
    <3>1. SUFFICES ASSUME NEW i \in DOMAIN queue, NEW j \in DOMAIN queue, i <= j
                   PROVE  queue[i].frame.id <= queue[j].frame.id
      OBVIOUS
    <3>2. CASE i \in DOMAIN q /\ j \in DOMAIN q
      BY <1>4, <3>1, <3>2, Zenon DEF FramesInOrder
    <3>3. CASE j = n /\ i \in DOMAIN q
      BY <1>4, <1>5, <1>9, <3>3, Zenon DEF NoneNewer
    <3>4. CASE i = n /\ j \in DOMAIN q
      BY <1>4, <3>1, <3>4, SMT
    <3>5. CASE i = n /\ j = n
      BY <1>3, <1>9, <3>5, SMT
    <3> QED
      BY <1>4, <3>2, <3>3, <3>4, <3>5, Zenon
  <2>2. \A j \in DOMAIN queue :
           /\ sentLog.sent <= queue[j].frame.id
           /\ \A i \in DOMAIN enc.batch : enc.batch[i] <= queue[j].frame.id
    <3>1. SUFFICES ASSUME NEW j \in DOMAIN queue
                   PROVE  /\ sentLog.sent <= queue[j].frame.id
                          /\ \A i \in DOMAIN enc.batch : enc.batch[i] <= queue[j].frame.id
      OBVIOUS
    <3>2. CASE j \in DOMAIN q
      BY <1>4, <3>2, Zenon DEF FramesInOrder
    <3>3. CASE j = n
      BY <1>5, <1>9, <3>3, Zenon DEF NoneNewer
    <3> QED
      BY <1>4, <3>2, <3>3, Zenon
  <2>3. hand.frame # NoFrame => Newer(hand.frame.id) /\ 0 <= hand.frame.id
    BY <1>3, <1>6, <1>10, SMT
  <2> QED
    BY <1>1, <1>8, <2>1, <2>2, <2>3, Zenon DEF FramesInOrder, NoneNewer
<1>12. CaptureIsNewest'
  <2>1. cap.pc \notin {"none", "done"} => Newer(cap.id) /\ 0 <= cap.id
    BY <1>3, <1>7, <1>10, SMT
  <2> QED
    BY <1>1, <1>7, <1>8, <2>1, Zenon DEF CaptureIsNewest, NoneNewer
<1> QED
  BY <1>11, <1>12

\* An output leaves the transform, for the batch, for the channel or for nowhere.
LEMMA OutputKeepsOrder ==
    ASSUME WindowsMediaInv, enc' \in EncoderThreads, enc.tr.queue # << >>,
           enc'.tr.queue = Tail(enc.tr.queue), cap' = cap, enc'.pending = enc.pending,
           enc'.work.frame = enc.work.frame, hand'.frame \in {hand.frame, NoFrame},
           \/ /\ enc'.batch = Append(enc.batch, Head(enc.tr.queue).frame.id)
              /\ sentLog'.sent = sentLog.sent
           \/ /\ enc'.batch = enc.batch /\ enc.batch = << >>
              /\ sentLog'.sent \in {sentLog.sent, Head(enc.tr.queue).frame.id}
    PROVE  FramesInOrder' /\ CaptureIsNewest'
<1> USE DEF WindowsMediaInv
<1> DEFINE q == enc.tr.queue
           b == enc.batch
           id == Head(q).frame.id
           queue == Tail(q)
<1>1. NoFrame' = NoFrame /\ NoFrame.id = 0 /\ hand.frame.id \in Nat /\ cap.id \in Nat
      /\ sentLog.sent \in Nat /\ b \in Seq(Nat)
  BY MediaFields, NoMediaFrame, Zenon DEF NoFrame
<1>2. /\ 1 \in DOMAIN q /\ id = q[1].frame.id /\ Head(q) \in QueuedInputs
      /\ DOMAIN queue \subseteq Nat
      /\ \A i \in DOMAIN queue : i + 1 \in DOMAIN q /\ queue[i] = q[i + 1] /\ 1 <= i + 1
  BY MediaFields, TailIs
<1>3. id \in Nat
  <2>1. Head(q).frame \in MediaFrames
    BY <1>2, Zenon DEF QueuedInputs
  <2> QED
    BY <2>1, NoMediaFrame
<1>4. enc'.tr.queue = queue
  OBVIOUS
<1> HIDE DEF queue, id
\* What was not older than the transform's inputs and the batch is not older than the output.
<1>5. ASSUME NEW k, NoneNewer(k)
      PROVE  /\ sentLog.sent <= k /\ id <= k
             /\ \A i \in DOMAIN b : b[i] <= k
             /\ \A i \in DOMAIN queue : queue[i].frame.id <= k
  BY <1>2, <1>5, Zenon DEF NoneNewer
<1>6. /\ sentLog.sent <= id
      /\ \A i \in DOMAIN b : b[i] <= id
      /\ \A i \in DOMAIN queue : id <= queue[i].frame.id /\ sentLog.sent <= queue[i].frame.id
  BY <1>2, SMT DEF FramesInOrder
<1>7. \A i \in DOMAIN b, j \in DOMAIN queue : b[i] <= queue[j].frame.id
  BY <1>2, Zenon DEF FramesInOrder
<1>8. \A i, j \in DOMAIN queue : i <= j => queue[i].frame.id <= queue[j].frame.id
  <2>1. \A i, j \in DOMAIN queue : i <= j => i + 1 <= j + 1
    BY <1>2, SMT
  <2> QED
    BY <1>2, <2>1, Zenon DEF FramesInOrder
<1>9. /\ enc'.batch \in Seq(Nat)
      /\ \A i, j \in DOMAIN enc'.batch : i <= j => enc'.batch[i] <= enc'.batch[j]
      /\ \A i \in DOMAIN enc'.batch : sentLog'.sent <= enc'.batch[i] /\ enc'.batch[i] <= id
      /\ sentLog'.sent <= id
  <2>1. CASE /\ enc'.batch = Append(b, id) /\ sentLog'.sent = sentLog.sent
    <3> DEFINE n == Len(b) + 1
               c == Append(b, id)
    <3>1. /\ c \in Seq(Nat) /\ DOMAIN c = DOMAIN b \cup {n} /\ c[n] = id /\ n \in Nat
          /\ DOMAIN b \subseteq Nat /\ \A i \in DOMAIN b : c[i] = b[i] /\ i < n
      BY <1>1, <1>3, AppendedIs, LenProperties, SMT
    <3> HIDE DEF n, c
    <3>2. \A i, j \in DOMAIN b : i <= j => b[i] <= b[j]
      BY Zenon DEF FramesInOrder
    <3>3. \A i \in DOMAIN b : sentLog.sent <= b[i]
      BY Zenon DEF FramesInOrder
    <3>4. \A i, j \in DOMAIN c : i <= j => c[i] <= c[j]
      BY <1>3, <1>6, <3>1, <3>2, SMT
    <3>5. \A i \in DOMAIN c : sentLog.sent <= c[i] /\ c[i] <= id
      BY <1>3, <1>6, <3>1, <3>3, SMT
    <3> QED
      BY <1>6, <2>1, <3>1, <3>4, <3>5 DEF c
  <2>2. CASE enc'.batch = << >> /\ sentLog'.sent \in {sentLog.sent, id}
    BY <1>3, <1>6, <2>2, EmptySeq, SMT
  <2> QED
    BY <2>1, <2>2 DEF id
<1>10. \A i \in DOMAIN queue :
         /\ sentLog'.sent <= queue[i].frame.id
         /\ \A j \in DOMAIN enc'.batch : enc'.batch[j] <= queue[i].frame.id
  <2>1. SUFFICES ASSUME NEW i \in DOMAIN queue
                 PROVE  /\ sentLog'.sent <= queue[i].frame.id
                        /\ \A j \in DOMAIN enc'.batch : enc'.batch[j] <= queue[i].frame.id
    OBVIOUS
  <2>2. queue[i].frame.id \in Nat
    <3>1. q[i + 1] \in QueuedInputs
      BY <1>2, MediaFields, SMT
    <3>2. q[i + 1].frame \in MediaFrames
      BY <3>1, Zenon DEF QueuedInputs
    <3> QED
      BY <1>2, <3>2, NoMediaFrame
  <2>3. id <= queue[i].frame.id
    BY <1>6
  <2>4. sentLog'.sent \in Nat
    BY <1>1, <1>3 DEF id
  <2>5. \A j \in DOMAIN enc'.batch : enc'.batch[j] \in Nat /\ enc'.batch[j] <= id
    BY <1>9, SMT
  <2> QED
    BY <1>3, <1>9, <2>2, <2>3, <2>4, <2>5, SMT
<1> DEFINE Newer(k) == /\ sentLog'.sent <= k
                       /\ \A i \in DOMAIN enc'.batch : enc'.batch[i] <= k
                       /\ \A i \in DOMAIN queue : queue[i].frame.id <= k
<1>11. ASSUME NEW k \in Nat, NoneNewer(k)
       PROVE  Newer(k)
  <2>1. /\ sentLog'.sent \in Nat /\ \A i \in DOMAIN enc'.batch : enc'.batch[i] \in Nat
    BY <1>1, <1>3, <1>9, SMT DEF id
  <2>2. id <= k /\ \A i \in DOMAIN queue : queue[i].frame.id <= k
    BY <1>5, <1>11
  <2> QED
    BY <1>3, <1>9, <2>1, <2>2, SMT
<1>12. /\ enc.pending # NoFrame => Newer(enc.pending.id)
       /\ enc.work.frame # NoFrame => Newer(enc.work.frame.id)
       /\ hand.frame # NoFrame => Newer(hand.frame.id)
       /\ cap.pc \notin {"none", "done"} => Newer(cap.id)
  <2>1. enc.pending.id \in Nat /\ enc.work.frame.id \in Nat
    BY MediaFields, NoMediaFrame
  <2> QED
    BY <1>1, <1>11, <2>1, Zenon DEF FramesInOrder, CaptureIsNewest
<1> HIDE DEF Newer
<1>13. hand'.frame # NoFrame =>
          /\ hand'.frame = hand.frame /\ hand.frame # NoFrame
          /\ enc.pending.id <= hand.frame.id /\ enc.work.frame.id <= hand.frame.id
  BY Zenon DEF FramesInOrder
<1>14. FramesInOrder'
  BY <1>1, <1>4, <1>8, <1>9, <1>10, <1>12, <1>13, Zenon DEF FramesInOrder, NoneNewer, Newer
<1>15. CaptureIsNewest'
  <2>1. cap.pc \notin {"none", "done"} =>
          /\ enc.pending.id <= cap.id /\ enc.work.frame.id <= cap.id
          /\ hand.frame.id <= cap.id /\ 0 <= cap.id
          /\ cap.last = NoFrame \/ cap.last.id = cap.id
    BY <1>1, SMT DEF CaptureIsNewest
  <2>2. cap.pc \notin {"none", "done"} => hand'.frame.id <= cap.id
    BY <1>1, <2>1, Zenon
  <2> QED
    BY <1>1, <1>4, <1>12, <2>1, <2>2, Zenon DEF CaptureIsNewest, NoneNewer, Newer
<1> QED
  BY <1>14, <1>15

\* An input on which a label can rest is a key frame, and so is one that was forced.
LEMMA InputsAre ==
    ASSUME NEW t \in Transforms, NEW f \in MediaFrames \ {NoFrame}, NEW force \in BOOLEAN,
           NEW x \in Inputs(t, f, force)
    PROVE  /\ x \in QueuedInputs /\ x.frame = f /\ (force => x.key) /\ x.key \in BOOLEAN
           /\ (x.force \/ x.clean \/ ~t.first => x.key)
<1>1. PICK periodic \in BOOLEAN, marked \in BOOLEAN :
        x = [frame |-> f, force |-> force, key |-> force \/ ~t.first \/ periodic,
             clean |-> (force \/ ~t.first \/ periodic) /\ marked]
  BY SMT DEF Inputs
<1> DEFINE key == force \/ ~t.first \/ periodic
           clean == (force \/ ~t.first \/ periodic) /\ marked
<1>2. x = [frame |-> f, force |-> force, key |-> key, clean |-> clean]
  BY <1>1
<1>3. /\ key \in BOOLEAN /\ clean \in BOOLEAN
      /\ (force => key) /\ (~t.first => key) /\ (clean => key)
  OBVIOUS
<1> HIDE DEF key, clean
<1>4. x \in QueuedInputs /\ x.frame = f /\ x.force = force /\ x.key = key /\ x.clean = clean
  BY <1>2, <1>3, Zenon DEF QueuedInputs
<1> QED
  BY <1>3, <1>4, Zenon

\* The transform after an output: one input less, and a label ends the force.
LEMMA AfterOutputIs ==
    ASSUME NEW t \in Transforms, t.queue # << >>, NEW label \in BOOLEAN
    PROVE  /\ AfterOutput(t, label) \in Transforms /\ AfterOutput(t, label).queue = Tail(t.queue)
           /\ AfterOutput(t, label).mode = t.mode
           /\ AfterOutput(t, label).first = (t.first \/ label)
<1> DEFINE q == Tail(t.queue)
           forced == t.forced /\ ~label
           first == t.first \/ label
<1>1. q \in Seq(QueuedInputs)
  <2>1. t.queue \in Seq(QueuedInputs)
    BY Zenon DEF Transforms
  <2> QED
    BY <2>1, TailIs
<1>2. forced \in BOOLEAN /\ first \in BOOLEAN
  BY Zenon DEF Transforms
<1>3. AfterOutput(t, label) = [t EXCEPT !.queue = q, !.forced = forced, !.first = first]
  BY DEF AfterOutput
<1>4. first = (t.first \/ label) /\ q = Tail(t.queue)
  OBVIOUS
<1> HIDE DEF q, forced, first
<1>5. /\ AfterOutput(t, label) \in Transforms /\ AfterOutput(t, label).queue = q
      /\ AfterOutput(t, label).mode = t.mode /\ AfterOutput(t, label).first = first
  BY <1>1, <1>2, <1>3, Zenon DEF Transforms
<1> QED
  BY <1>4, <1>5, Zenon

\* What goes into the transform, and what comes out, leaves the rest of what it holds as it is.
LEMMA QueueKeeps ==
    ASSUME WindowsMediaInv, enc' \in EncoderThreads, enc'.tr.mode = enc.tr.mode,
           starter'.kind = starter.kind, sentLog'.wrongKey = FALSE,
           sentLog'.badLength = sentLog.badLength,
           \/ /\ enc.tr.queue # << >> /\ enc'.tr.queue = Tail(enc.tr.queue)
              /\ enc.tr.first => enc'.tr.first
           \/ \E x \in QueuedInputs :
                /\ enc'.tr.queue = Append(enc.tr.queue, x) /\ enc'.tr.first = enc.tr.first
                /\ (x.force \/ x.clean \/ ~enc.tr.first => x.key)
                /\ starter.kind = "cpu" => SameLength(x.frame)
    PROVE  /\ LabelsAreKeys'
           /\ ~sentLog'.badLength
           /\ starter'.kind = "cpu" =>
                \A i \in DOMAIN enc'.tr.queue :
                    Nv12Len[enc'.tr.queue[i].frame.mode] = Nv12Len[enc'.tr.mode]
<1> USE DEF WindowsMediaInv
<1>1. enc.tr.queue \in Seq(QueuedInputs) /\ ~sentLog'.badLength
  BY MediaFields, Zenon DEF LengthsFit
<1>2. CASE /\ enc.tr.queue # << >> /\ enc'.tr.queue = Tail(enc.tr.queue)
           /\ enc.tr.first => enc'.tr.first
  <2>1. \A i \in DOMAIN enc'.tr.queue :
            i + 1 \in DOMAIN enc.tr.queue /\ enc'.tr.queue[i] = enc.tr.queue[i + 1]
    BY <1>1, <1>2, TailIs
  <2> QED
    BY <1>1, <1>2, <2>1, Zenon DEF LabelsAreKeys, LengthsFit, SameLength
<1>3. CASE \E x \in QueuedInputs :
             /\ enc'.tr.queue = Append(enc.tr.queue, x) /\ enc'.tr.first = enc.tr.first
             /\ (x.force \/ x.clean \/ ~enc.tr.first => x.key)
             /\ starter.kind = "cpu" => SameLength(x.frame)
  <2>1. PICK x \in QueuedInputs :
             /\ enc'.tr.queue = Append(enc.tr.queue, x) /\ enc'.tr.first = enc.tr.first
             /\ (x.force \/ x.clean \/ ~enc.tr.first => x.key)
             /\ starter.kind = "cpu" => SameLength(x.frame)
    BY <1>3
  <2>2. \A i \in DOMAIN enc'.tr.queue :
            \/ i \in DOMAIN enc.tr.queue /\ enc'.tr.queue[i] = enc.tr.queue[i]
            \/ enc'.tr.queue[i] = x
    <3> DEFINE n == Len(enc.tr.queue) + 1
               queue == Append(enc.tr.queue, x)
    <3>1. /\ DOMAIN queue = DOMAIN enc.tr.queue \cup {n} /\ queue[n] = x
          /\ \A i \in DOMAIN enc.tr.queue : queue[i] = enc.tr.queue[i]
      BY <1>1, AppendedIs
    <3>2. enc'.tr.queue = queue
      BY <2>1
    <3> HIDE DEF n, queue
    <3> QED
      BY <3>1, <3>2, Zenon
  <2> QED
    BY <1>1, <2>1, <2>2, Zenon DEF LabelsAreKeys, LengthsFit, SameLength
<1> QED
  BY <1>2, <1>3

\* process_input: the input is as long as the mode demands, and it carries the force.
LEMMA SubmitKeeps == ASSUME WindowsMediaInv, Submit PROVE WindowsMediaInv'
<1> USE DEF WindowsMediaInv
<1>0. /\ enc.pc \in {"submit", "retry"} /\ EncoderOnly /\ starter' = starter
      /\ enc.pc \in CpuStages
  BY Zenon DEF Submit, CpuStages
<1>5. Nv12Len[enc.work.frame.mode] = Nv12Len[enc.tr.mode] /\ enc.work.frame # NoFrame
  BY <1>0, SMT DEF LengthsFit, SameLength
<1>6. /\ hand' = hand
      /\ \/ /\ Len(enc.tr.queue) < Depth
            /\ \E input \in Inputs(enc.tr, enc.work.frame, enc.tr.forced \/ enc.work.key) :
                 /\ enc' = [enc EXCEPT !.pc = "drain", !.work = NoWork,
                              !.tr.queue = Append(@, input)]
                 /\ sentLog' = NoteInput(input.key)
         \/ /\ ~ (Len(enc.tr.queue) < Depth) /\ sentLog' = sentLog
            /\ enc' = [enc EXCEPT !.pc = "makeRoom", !.work.key = enc.tr.forced]
  BY <1>5, Zenon DEF Submit
<1>7. hand' = hand
  BY <1>6
<1>1. /\ starter.kind = "cpu" /\ starter.stage \notin {"open", "wait", "fallback"}
      /\ enc.pending = NoFrame
  BY <1>0, CpuEncoderRuns
<1>3. CASE /\ ~ (Len(enc.tr.queue) < Depth) /\ sentLog' = sentLog
           /\ enc' = [enc EXCEPT !.pc = "makeRoom", !.work.key = enc.tr.forced]
  <2> DEFINE w == [enc.work EXCEPT !.key = enc.tr.forced]
  <2>1. w \in MediaWorks /\ w.frame = enc.work.frame /\ w.key = enc.tr.forced
    BY MediaFields, Zenon DEF MediaWorks
  <2>2. enc' = [enc EXCEPT !.pc = "makeRoom", !.work = w]
    BY <1>3
  <2> HIDE DEF w
  <2>3. /\ enc' \in EncoderThreads /\ enc'.pc = "makeRoom" /\ enc'.work = w
        /\ enc'.batch = enc.batch /\ enc'.pending = enc.pending /\ enc'.tr = enc.tr
    BY <2>1, <2>2, Zenon DEF WindowsMediaTypes, EncoderThreads, EncoderStages, CpuStages
  <2>4. LengthsFit'
    BY <1>0, <1>5, <1>3, <2>1, <2>3, Zenon DEF LengthsFit, SameLength, NoFrame
  <2>5. KeyOnItsWay'
    <3>1. enc.pc = "submit" /\ ~enc.work.key
      <4>1. ~ (Len(enc.tr.queue) < Depth) /\ sentLog' = sentLog
        BY <1>3
      <4> QED
        BY <1>0, <4>1, SMT DEF KeyOnItsWay
    <3>2. sentLog' = sentLog
      BY <1>3
    <3> QED
      BY <1>0, <1>7, <2>1, <2>3, <3>1, <3>2, SMT DEF KeyOnItsWay
  <2>6. hand' \in MediaHands /\ enc'.pc \in CpuStages
    BY <1>7, <2>3 DEF WindowsMediaTypes, CpuStages
  <2> QED
    BY <1>0, <1>3, <1>7, <2>1, <2>3, <2>4, <2>5, <2>6, CpuStep, Zenon
<1>4. CASE \E input \in Inputs(enc.tr, enc.work.frame, enc.tr.forced \/ enc.work.key) :
             /\ enc' = [enc EXCEPT !.pc = "drain", !.work = NoWork,
                          !.tr.queue = Append(@, input)]
             /\ sentLog' = NoteInput(input.key)
  <2> DEFINE force == enc.tr.forced \/ enc.work.key
  <2>1. PICK input \in Inputs(enc.tr, enc.work.frame, force) :
             /\ enc' = [enc EXCEPT !.pc = "drain", !.work = NoWork,
                          !.tr.queue = Append(@, input)]
             /\ sentLog' = NoteInput(input.key)
    BY <1>4
  <2>2. force \in BOOLEAN /\ enc.tr \in Transforms /\ enc.work.frame \in MediaFrames \ {NoFrame}
    BY <1>5, MediaFields
  <2>16. force = (enc.tr.forced \/ enc.work.key)
    OBVIOUS
  <2> HIDE DEF force
  <2>3. /\ input \in QueuedInputs /\ input.frame = enc.work.frame /\ (force => input.key)
        /\ input.key \in BOOLEAN
        /\ (input.force \/ input.clean \/ ~enc.tr.first => input.key)
    BY <2>2, InputsAre
  <2> DEFINE queue == Append(enc.tr.queue, input)
             t == [enc.tr EXCEPT !.queue = queue]
             owed == sentLog.owed /\ ~input.key
  <2>4. queue \in Seq(QueuedInputs)
    BY <2>3, MediaFields, AppendedIs
  <2>5. enc' = [enc EXCEPT !.pc = "drain", !.work = NoWork, !.tr = t]
    BY <2>1
  <2>6. sentLog' = [sentLog EXCEPT !.owed = owed] /\ owed \in BOOLEAN
        /\ (owed => sentLog.owed /\ ~force)
    BY <2>1, <2>3, MediaFields DEF NoteInput
  <2> HIDE DEF queue
  <2>7. /\ t \in Transforms /\ t.queue = queue /\ t.mode = enc.tr.mode
        /\ t.first = enc.tr.first /\ t.forced = enc.tr.forced
    BY <2>2, <2>4, Zenon DEF Transforms
  <2> HIDE DEF t, owed
  <2>8. /\ enc' \in EncoderThreads /\ enc'.pc = "drain" /\ enc'.work = NoWork
        /\ enc'.batch = enc.batch /\ enc'.pending = enc.pending /\ enc'.tr = t
    BY <2>5, <2>7, NoMediaFrame, Zenon
    DEF WindowsMediaTypes, EncoderThreads, EncoderStages, CpuStages
  <2>9. /\ sentLog' \in MediaLogs /\ sentLog'.sent = sentLog.sent /\ sentLog'.owed = owed
        /\ sentLog'.wrongKey = sentLog.wrongKey /\ sentLog'.badLength = sentLog.badLength
    BY <2>6, Zenon DEF WindowsMediaTypes, MediaLogs
  <2>10. enc'.work.frame = NoFrame /\ NoFrame' = NoFrame
    BY <2>8, NoMediaFrame, Zenon DEF NoFrame
  <2>11. FramesInOrder' /\ CaptureIsNewest'
    <3>1. enc'.tr.queue = Append(enc.tr.queue, input)
      BY <2>7, <2>8 DEF queue
    <3> QED
      BY <1>0, <1>1, <1>7, <2>3, <2>8, <2>9, <2>10, <3>1, InputKeepsOrder, SMT DEF EncoderOnly
  <2>12. /\ LabelsAreKeys'
         /\ ~sentLog'.badLength
         /\ starter'.kind = "cpu" =>
              \A i \in DOMAIN enc'.tr.queue :
                  Nv12Len[enc'.tr.queue[i].frame.mode] = Nv12Len[enc'.tr.mode]
    <3>1. enc'.tr.queue = Append(enc.tr.queue, input) /\ enc'.tr.first = enc.tr.first
      BY <2>7, <2>8 DEF queue
    <3>2. SameLength(input.frame) /\ sentLog'.wrongKey = FALSE
      BY <1>5, <2>3, <2>9, MediaFields, Zenon DEF SameLength, LabelsAreKeys
    <3> QED
      BY <1>0, <2>3, <2>7, <2>8, <2>9, <3>1, <3>2, QueueKeeps, Zenon
  <2>13. LengthsFit'
    BY <2>8, <2>12, SMT DEF LengthsFit, SameLength
  <2>14. KeyOnItsWay'
    <3>1. ~enc'.work.key
      BY <2>8, NoMediaFrame
    <3>2. starter.kind = "cpu" /\ sentLog'.owed /\ ~hand.stopped => hand.key
      <4>1. SUFFICES ASSUME starter.kind = "cpu", owed, ~hand.stopped, ~hand.key
                     PROVE  FALSE
        BY <2>9
      <4> QED
        BY <2>6, <2>16, <4>1, Zenon DEF KeyOnItsWay
    <3> QED
      BY <1>0, <1>7, <2>8, <3>1, <3>2, Zenon DEF KeyOnItsWay
  <2>15. WindowsMediaTypes' /\ QuietStart' /\ PathsApart'
    BY <1>0, <1>1, <1>7, <2>8, <2>9, <2>10, SMT
    DEF WindowsMediaTypes, QuietStart, PathsApart, EncoderOnly
  <2> QED
    BY <2>11, <2>12, <2>13, <2>14, <2>15, Zenon
<1> QED
  BY <1>3, <1>4, <1>6

\* process_output: the label rests on the input, so the output is a key frame.
LEMMA DrainOutputKeeps == ASSUME WindowsMediaInv, DrainOutput PROVE WindowsMediaInv'
<1> USE DEF WindowsMediaInv
<1>0. /\ enc.pc \in {"drain", "makeRoom"} /\ EncoderOnly /\ starter' = starter
      /\ enc.pc \in CpuStages /\ hand' = hand
  BY SMT DEF DrainOutput, CpuStages
<1>1. /\ starter.kind = "cpu" /\ starter.stage \notin {"open", "wait", "fallback"}
      /\ enc.pending = NoFrame
  BY <1>0, CpuEncoderRuns
<1>2. CASE /\ enc.pc = "drain" \/ Len(enc.tr.queue) < Depth
           /\ enc' = [enc EXCEPT !.pc = IF @ = "drain" THEN "emit" ELSE "retry"]
           /\ sentLog' = sentLog
  <2> DEFINE p == IF enc.pc = "drain" THEN "emit" ELSE "retry"
  <2>1. p \in EncoderStages /\ p \in CpuStages /\ enc' = [enc EXCEPT !.pc = p]
    BY <1>2 DEF EncoderStages, CpuStages
  <2>2. /\ p = "emit" => enc.pc = "drain"
        /\ p = "retry" => enc.pc = "makeRoom"
        /\ p \in {"emit", "retry"}
    BY <1>0
  <2> HIDE DEF p
  <2>3. /\ enc' \in EncoderThreads /\ enc'.pc = p /\ enc'.work = enc.work
        /\ enc'.batch = enc.batch /\ enc'.pending = enc.pending /\ enc'.tr = enc.tr
    BY <2>1, Zenon DEF WindowsMediaTypes, EncoderThreads
  <2>4. LengthsFit'
    BY <1>0, <1>2, <2>2, <2>3, SMT DEF LengthsFit, SameLength, NoFrame
  <2>5. KeyOnItsWay'
    BY <1>0, <1>2, <2>2, <2>3, SMT DEF KeyOnItsWay
  <2>6. hand' \in MediaHands
    BY <1>0 DEF WindowsMediaTypes
  <2> QED
    BY <1>0, <1>2, <2>1, <2>3, <2>4, <2>5, <2>6, CpuStep, Zenon
<1>3. CASE enc.tr.queue # << >> /\ ~ (sentLog' = sentLog /\ enc'.pc \in {"emit", "retry"})
  <2> DEFINE out == Head(enc.tr.queue)
             label == CpuLabel(enc.tr, out)
             t == AfterOutput(enc.tr, label)
             b == Append(enc.batch, out.frame.id)
             wrong == sentLog.wrongKey \/ (label /\ ~out.key)
  <2>1. /\ enc' = [enc EXCEPT !.tr = t, !.batch = b]
        /\ sentLog' = [sentLog EXCEPT !.wrongKey = wrong]
    <3>1. ASSUME enc' = [enc EXCEPT !.pc = IF @ = "drain" THEN "emit" ELSE "retry"]
          PROVE  enc'.pc \in {"emit", "retry"}
      <4> DEFINE p == IF enc.pc = "drain" THEN "emit" ELSE "retry"
      <4>1. p \in {"emit", "retry"} /\ enc' = [enc EXCEPT !.pc = p]
        BY <3>1
      <4> HIDE DEF p
      <4> QED
        BY <4>1, Zenon DEF WindowsMediaTypes, EncoderThreads
    <3> QED
      BY <1>3, <3>1, Zenon DEF DrainOutput
  <2>2. enc.tr \in Transforms /\ enc.tr.queue \in Seq(QueuedInputs) /\ enc.batch \in Seq(Nat)
    BY MediaFields
  <2>3. out = enc.tr.queue[1] /\ 1 \in DOMAIN enc.tr.queue /\ out \in QueuedInputs
    BY <1>3, <2>2, TailIs
  <2>4. out.frame.id \in Nat
    <3>1. out.frame \in MediaFrames
      BY <2>3, Zenon DEF QueuedInputs
    <3> QED
      BY <3>1, NoMediaFrame
  <2>5. label \in BOOLEAN /\ (label => out.key)
    <3>1. out.force \/ out.clean \/ ~enc.tr.first => out.key
      BY <2>3, Zenon DEF LabelsAreKeys
    <3>2. out.clean \in BOOLEAN /\ out.force \in BOOLEAN
      BY <2>3, Zenon DEF QueuedInputs
    <3> QED
      BY <3>1, <3>2, MediaFields, Zenon DEF CpuLabel
  <2>6. wrong = FALSE
    BY <2>5, MediaFields, Zenon DEF LabelsAreKeys
  <2>7. b \in Seq(Nat)
    BY <2>2, <2>4, AppendedIs
  <2> HIDE DEF label
  <2>8. /\ t \in Transforms /\ t.queue = Tail(enc.tr.queue) /\ t.mode = enc.tr.mode
        /\ t.first = (enc.tr.first \/ label)
    BY <1>3, <2>2, <2>5, AfterOutputIs
  <2> HIDE DEF t, b, wrong
  <2>9. /\ enc' \in EncoderThreads /\ enc'.pc = enc.pc /\ enc'.work = enc.work
        /\ enc'.batch = b /\ enc'.pending = enc.pending /\ enc'.tr = t
    BY <2>1, <2>7, <2>8, Zenon DEF WindowsMediaTypes, EncoderThreads
  <2>10. /\ sentLog' \in MediaLogs /\ sentLog'.sent = sentLog.sent
         /\ sentLog'.owed = sentLog.owed /\ sentLog'.wrongKey = FALSE
         /\ sentLog'.badLength = sentLog.badLength
    BY <2>1, <2>6, Zenon DEF WindowsMediaTypes, MediaLogs
  <2>11. FramesInOrder' /\ CaptureIsNewest'
    <3>1. enc'.batch = Append(enc.batch, Head(enc.tr.queue).frame.id)
          /\ enc'.tr.queue = Tail(enc.tr.queue)
      BY <2>8, <2>9 DEF b
    <3> QED
      BY <1>0, <1>3, <2>9, <2>10, <3>1, OutputKeepsOrder, SMT DEF EncoderOnly
  <2>12. /\ LabelsAreKeys'
         /\ ~sentLog'.badLength
         /\ starter'.kind = "cpu" =>
              \A i \in DOMAIN enc'.tr.queue :
                  Nv12Len[enc'.tr.queue[i].frame.mode] = Nv12Len[enc'.tr.mode]
    <3>1. enc'.tr.queue = Tail(enc.tr.queue) /\ (enc.tr.first => enc'.tr.first)
      BY <2>8, <2>9, Zenon
    <3> QED
      BY <1>0, <1>3, <2>8, <2>9, <2>10, <3>1, QueueKeeps, Zenon
  <2>13. LengthsFit'
    <3>1. NoFrame' = NoFrame
      BY Zenon DEF NoFrame
    <3> QED
      BY <1>0, <2>8, <2>9, <2>12, <3>1, SMT DEF LengthsFit, SameLength
  <2>14. KeyOnItsWay'
    BY <1>0, <2>9, <2>10, SMT DEF KeyOnItsWay
  <2>15. WindowsMediaTypes' /\ QuietStart' /\ PathsApart'
    BY <1>0, <1>1, <2>9, <2>10, SMT
    DEF WindowsMediaTypes, QuietStart, PathsApart, EncoderOnly, NoFrame
  <2> QED
    BY <2>11, <2>12, <2>13, <2>14, <2>15, Zenon
<1>4. CASE sentLog' = sentLog /\ enc'.pc \in {"emit", "retry"}
  <2>1. \/ /\ enc.pc = "drain" \/ Len(enc.tr.queue) < Depth
           /\ enc' = [enc EXCEPT !.pc = IF @ = "drain" THEN "emit" ELSE "retry"]
        \/ \E t, b : enc' = [enc EXCEPT !.tr = t, !.batch = b]
    BY Zenon DEF DrainOutput
  <2>2. ASSUME NEW t, NEW b, enc' = [enc EXCEPT !.tr = t, !.batch = b]
        PROVE  FALSE
    <3>1. enc'.pc = enc.pc
      BY <2>2, Zenon DEF WindowsMediaTypes, EncoderThreads
    <3> QED
      BY <1>0, <1>4, <3>1, SMT
  <2> QED
    BY <1>2, <1>4, <2>1, <2>2, Zenon
<1> QED
  BY <1>2, <1>3, <1>4, Zenon DEF DrainOutput

\* An error of the transform takes with it what was drained.
LEMMA TransformFailsKeeps == ASSUME WindowsMediaInv, TransformFails PROVE WindowsMediaInv'
BY CpuExits, ReportStops, Zenon DEF TransformFails

\* A packet leaves the batch for the channel.
LEMMA EmitKeepsOrder ==
    ASSUME WindowsMediaInv, enc' \in EncoderThreads, enc.batch # << >>,
           enc'.batch = Tail(enc.batch), sentLog'.sent = Head(enc.batch), cap' = cap,
           enc'.tr = enc.tr, enc'.pending = enc.pending, enc'.work = enc.work, hand' = hand
    PROVE  FramesInOrder' /\ CaptureIsNewest'
<1> USE DEF WindowsMediaInv
<1> DEFINE b == enc.batch
           n == Head(b)
           c == Tail(b)
<1>1. /\ 1 \in DOMAIN b /\ n = b[1] /\ n \in Nat /\ DOMAIN c \subseteq Nat
      /\ \A i \in DOMAIN c : i + 1 \in DOMAIN b /\ c[i] = b[i + 1] /\ 1 <= i + 1
  BY MediaFields, TailIs
<1>2. enc'.batch = c /\ sentLog'.sent = n
  OBVIOUS
<1> HIDE DEF c, n
<1>3. ASSUME NEW k, NoneNewer(k)
      PROVE  NoneNewer(k)'
  BY <1>1, <1>2, <1>3, Zenon DEF NoneNewer
<1>4. \A i, j \in DOMAIN c : i <= j => i + 1 <= j + 1
  BY <1>1, SMT
<1>5. /\ \A i, j \in DOMAIN c : i <= j => c[i] <= c[j]
      /\ \A i \in DOMAIN c : n <= c[i]
  BY <1>1, <1>4, Zenon DEF FramesInOrder
<1>6. /\ \A j \in DOMAIN enc.tr.queue :
           /\ n <= enc.tr.queue[j].frame.id
           /\ \A i \in DOMAIN c : c[i] <= enc.tr.queue[j].frame.id
      /\ \A i, j \in DOMAIN enc.tr.queue :
           i <= j => enc.tr.queue[i].frame.id <= enc.tr.queue[j].frame.id
  BY <1>1, Zenon DEF FramesInOrder
<1>7. NoFrame' = NoFrame
  BY Zenon DEF NoFrame
<1>8. FramesInOrder'
  BY <1>1, <1>2, <1>5, <1>6, <1>7, Zenon DEF FramesInOrder, NoneNewer
<1>9. CaptureIsNewest'
  BY <1>1, <1>2, <1>7, Zenon DEF CaptureIsNewest, NoneNewer
<1> QED
  BY <1>8, <1>9

\* emit sends the batch in its order, or finds the channel closed.
LEMMA EmitSampleKeeps == ASSUME WindowsMediaInv, EmitSample PROVE WindowsMediaInv'
<1> USE DEF WindowsMediaInv
<1>0. /\ enc.pc = "emit" /\ EncoderOnly /\ starter' = starter /\ enc.pc \in CpuStages
  BY Zenon DEF EmitSample, CpuStages
<1>1. /\ starter.kind = "cpu" /\ starter.stage \notin {"open", "wait", "fallback"}
      /\ enc.pending = NoFrame
  BY <1>0, CpuEncoderRuns
<1>2. CASE enc.batch = << >>
  <2>1. enc' = [enc EXCEPT !.pc = "next"] /\ hand' = hand /\ sentLog' = sentLog
    BY <1>2, Zenon DEF EmitSample
  <2>2. /\ enc' \in EncoderThreads /\ enc'.pc = "next" /\ enc'.work = enc.work
        /\ enc'.batch = enc.batch /\ enc'.pending = enc.pending /\ enc'.tr = enc.tr
    BY <2>1, Zenon DEF WindowsMediaTypes, EncoderThreads, EncoderStages, CpuStages
  <2>3. LengthsFit' /\ KeyOnItsWay'
    BY <1>0, <2>1, <2>2, SMT DEF LengthsFit, SameLength, KeyOnItsWay
  <2>4. hand' \in MediaHands /\ enc'.pc \in CpuStages
    BY <2>1, <2>2 DEF WindowsMediaTypes, CpuStages
  <2> QED
    BY <1>0, <2>1, <2>2, <2>3, <2>4, CpuStep, Zenon
<1>3. CASE enc.batch # << >> /\ ~channel.open
  BY <1>0, <1>3, CpuExits, Zenon DEF EmitSample
<1>4. CASE enc.batch # << >> /\ channel.open
  <2> DEFINE b == Tail(enc.batch)
             n == Head(enc.batch)
  <2>1. /\ enc' = [enc EXCEPT !.batch = b] /\ sentLog' = [sentLog EXCEPT !.sent = n]
        /\ hand' = hand
    BY <1>4, Zenon DEF EmitSample
  <2>2. b \in Seq(Nat) /\ n \in Nat
    BY <1>4, MediaFields, TailIs
  <2> HIDE DEF b, n
  <2>3. /\ enc' \in EncoderThreads /\ enc'.pc = "emit" /\ enc'.work = enc.work
        /\ enc'.batch = b /\ enc'.pending = enc.pending /\ enc'.tr = enc.tr
    BY <1>0, <2>1, <2>2, Zenon DEF WindowsMediaTypes, EncoderThreads
  <2>4. /\ sentLog' \in MediaLogs /\ sentLog'.sent = n
        /\ sentLog'.owed = sentLog.owed /\ sentLog'.wrongKey = sentLog.wrongKey
        /\ sentLog'.badLength = sentLog.badLength
    BY <2>1, <2>2, Zenon DEF WindowsMediaTypes, MediaLogs
  <2>5. cap' = cap /\ desk' = desk /\ dims' = dims /\ pools' = pools
    BY <1>0 DEF EncoderOnly
  <2>6. FramesInOrder' /\ CaptureIsNewest'
    <3>1. enc'.batch = Tail(enc.batch) /\ sentLog'.sent = Head(enc.batch)
      BY <2>3, <2>4 DEF b, n
    <3> QED
      BY <1>4, <2>1, <2>3, <2>5, <3>1, EmitKeepsOrder, Zenon
  <2>7. LengthsFit' /\ LabelsAreKeys' /\ KeyOnItsWay'
    BY <1>0, <2>1, <2>3, <2>4, SMT DEF LengthsFit, LabelsAreKeys, SameLength, KeyOnItsWay
  <2>8. WindowsMediaTypes' /\ QuietStart' /\ PathsApart'
    BY <1>0, <1>1, <2>1, <2>3, <2>4, <2>5, SMT
    DEF WindowsMediaTypes, QuietStart, PathsApart, NoFrame
  <2> QED
    BY <2>6, <2>7, <2>8, Zenon
<1> QED
  BY <1>2, <1>3, <1>4

(* The GPU encoder thread. *)

\* A step of the GPU encoder thread that leaves its transform alone.
LEMMA GpuStep ==
    ASSUME WindowsMediaInv, starter.kind = "gpu", enc.pc \in {"open", "loop", "flush"},
           EncoderOnly, sentLog' = sentLog, starter' \in MediaStarters,
           starter'.kind = starter.kind, starter'.stage = starter.stage,
           starter'.ready = starter.ready,
           enc' \in EncoderThreads, enc'.pc \in {"loop", "flush"}, enc'.batch = enc.batch,
           enc'.work = enc.work, enc'.pending \in {enc.pending, hand.frame},
           enc'.tr.queue = enc.tr.queue, enc'.tr.first = enc.tr.first,
           enc'.ready <= Len(enc.tr.queue),
           hand' \in MediaHands, hand'.frame \in {hand.frame, NoFrame}
    PROVE  WindowsMediaInv'
<1> USE DEF WindowsMediaInv
<1>1. cap' = cap /\ desk' = desk /\ dims' = dims /\ pools' = pools
  BY DEF EncoderOnly
<1>2. NoFrame' = NoFrame
  BY Zenon DEF NoFrame
<1>3. WindowsMediaTypes' /\ LabelsAreKeys'
  BY <1>1, Zenon DEF WindowsMediaTypes, LabelsAreKeys
<1>4. FramesInOrder' /\ CaptureIsNewest'
  BY <1>1, OrderKept, SMT
<1>5. QuietStart'
  <2>1. SUFFICES ASSUME starter.stage \in {"open", "wait", "fallback"}
                 PROVE  QuietStart'
    BY Zenon DEF QuietStart
  <2>2. starter.stage # "open" /\ hand.frame = NoFrame /\ enc.pending = NoFrame
    BY <2>1, SMT DEF QuietStart
  <2>3. hand'.frame = NoFrame /\ enc'.pending = NoFrame
    BY <2>2
  <2> QED
    BY <1>1, <1>2, <2>1, <2>2, <2>3, Zenon DEF QuietStart
<1>6. PathsApart'
  BY <1>2, SMT DEF PathsApart, CpuStages
<1>7. LengthsFit' /\ KeyOnItsWay'
  BY SMT DEF LengthsFit, KeyOnItsWay
<1> QED
  BY <1>3, <1>4, <1>5, <1>6, <1>7, Zenon

\* HwMftEncoder::new and the result start() waits for.
LEMMA OpenHwEncoderKeeps == ASSUME WindowsMediaInv, OpenHwEncoder PROVE WindowsMediaInv'
<1> USE DEF WindowsMediaInv
<1>0. /\ enc.pc = "open" /\ starter.kind = "gpu" /\ EncoderOnly /\ sentLog' = sentLog
  BY DEF OpenHwEncoder
<1>1. CASE /\ EncoderExits /\ starter' = [starter EXCEPT !.init = "failed"]
           /\ ReportError
  <2>1. /\ starter' \in MediaStarters /\ starter'.kind = starter.kind
        /\ starter'.stage = starter.stage /\ starter'.ready = starter.ready
    BY <1>1, Zenon DEF WindowsMediaTypes, MediaStarters
  <2> QED
    BY <1>0, <1>1, <2>1, EncoderExitsSafely, ReportStops, SMT DEF EncoderOnly
<1>2. CASE /\ enc' = [enc EXCEPT !.pc = "loop"] /\ starter' = [starter EXCEPT !.init = "ok"]
           /\ hand' = hand
  <2>1. /\ starter' \in MediaStarters /\ starter'.kind = starter.kind
        /\ starter'.stage = starter.stage /\ starter'.ready = starter.ready
    BY <1>2, Zenon DEF WindowsMediaTypes, MediaStarters
  <2>2. /\ enc' \in EncoderThreads /\ enc'.pc = "loop" /\ enc'.work = enc.work
        /\ enc'.batch = enc.batch /\ enc'.pending = enc.pending /\ enc'.tr = enc.tr
        /\ enc'.ready = enc.ready
    BY <1>2, Zenon DEF WindowsMediaTypes, EncoderThreads, EncoderStages
  <2>3. enc.ready <= Len(enc.tr.queue) /\ hand' \in MediaHands
    BY <1>0, <1>2, Zenon DEF PathsApart, WindowsMediaTypes
  <2> QED
    BY <1>0, <1>2, <2>1, <2>2, <2>3, GpuStep, SMT
<1> QED
  BY <1>1, <1>2, Zenon DEF OpenHwEncoder

\* Events of the hardware transform, a stop seen, a failure.
LEMMA HwCountsKeep ==
    ASSUME WindowsMediaInv, TransformAsks \/ TransformDelivers \/ HwSeesStop \/ HwFails
    PROVE  WindowsMediaInv'
<1> USE DEF WindowsMediaInv
<1>1. enc.pc \in {"loop", "flush"} /\ EncoderOnly /\ sentLog' = sentLog /\ starter' = starter
  BY Zenon DEF TransformAsks, TransformDelivers, HwSeesStop, HwFails
<1>2. starter.kind = "gpu" /\ enc.ready <= Len(enc.tr.queue) /\ Len(enc.tr.queue) \in Nat
  <2>1. starter.kind = "gpu"
    BY <1>1, MediaFields, SMT DEF PathsApart
  <2> QED
    BY <2>1, MediaFields, LenProperties, Zenon DEF PathsApart
<1>3. hand' \in MediaHands /\ hand'.frame \in {hand.frame, NoFrame}
  BY FreshHandIs, ReportStops, Zenon
  DEF TransformAsks, TransformDelivers, HwSeesStop, HwFails, WindowsMediaTypes
<1>4. /\ enc' \in EncoderThreads /\ enc'.pc \in {"loop", "flush"} /\ enc'.work = enc.work
      /\ enc'.batch = enc.batch /\ enc'.pending = enc.pending /\ enc'.tr = enc.tr
      /\ enc'.ready <= Len(enc.tr.queue)
  <2> DEFINE n == enc.need + 1
             r == enc.ready + 1
  <2>1. n \in Nat /\ r \in Nat /\ (enc.ready < Len(enc.tr.queue) => r <= Len(enc.tr.queue))
    BY <1>2, MediaFields, SMT
  <2>2. \/ enc' = [enc EXCEPT !.need = n]
        \/ enc' = [enc EXCEPT !.ready = r] /\ r <= Len(enc.tr.queue)
        \/ enc' = [enc EXCEPT !.pc = "flush"]
    BY <2>1, Zenon DEF TransformAsks, TransformDelivers, HwSeesStop, HwFails
  <2> HIDE DEF n, r
  <2>3. enc \in EncoderThreads /\ "flush" \in EncoderStages
    BY DEF WindowsMediaTypes, EncoderStages
  <2>4. CASE enc' = [enc EXCEPT !.need = n]
    BY <1>1, <1>2, <2>1, <2>3, <2>4, Zenon DEF EncoderThreads
  <2>5. CASE enc' = [enc EXCEPT !.ready = r] /\ r <= Len(enc.tr.queue)
    BY <1>1, <1>2, <2>1, <2>3, <2>5, Zenon DEF EncoderThreads
  <2>6. CASE enc' = [enc EXCEPT !.pc = "flush"]
    BY <1>1, <1>2, <2>1, <2>3, <2>6, Zenon DEF EncoderThreads
  <2> QED
    BY <2>2, <2>4, <2>5, <2>6
<1>5. enc.pc \in {"open", "loop", "flush"} /\ starter' \in MediaStarters
  BY <1>1, SMT DEF WindowsMediaTypes
<1> QED
  BY <1>1, <1>2, <1>3, <1>4, <1>5, GpuStep, Zenon

\* The wait of the scheduler: a frame and the controls are taken from the handoff.
LEMMA HwNextWorkKeeps == ASSUME WindowsMediaInv, HwNextWork PROVE WindowsMediaInv'
<1> USE DEF WindowsMediaInv
<1> DEFINE forced == enc.tr.forced \/ hand.key
           t == [enc.tr EXCEPT !.forced = forced]
           f == IF hand.frame # NoFrame THEN hand.frame ELSE enc.pending
<1>1. /\ enc.pc = "loop" /\ EncoderOnly /\ sentLog' = sentLog /\ starter' = starter
      /\ hand' = FreshHand /\ enc' = [enc EXCEPT !.tr = t, !.pending = f]
  BY DEF HwNextWork
<1>2. forced \in BOOLEAN /\ f \in MediaFrames /\ f \in {enc.pending, hand.frame}
  BY MediaFields
<1> HIDE DEF forced, f
<1>3. /\ t \in Transforms /\ t.queue = enc.tr.queue /\ t.first = enc.tr.first
  BY <1>2, MediaFields, Zenon DEF Transforms
<1> HIDE DEF t
<1>4. /\ enc' \in EncoderThreads /\ enc'.pc = enc.pc /\ enc'.work = enc.work
      /\ enc'.batch = enc.batch /\ enc'.pending = f /\ enc'.tr = t /\ enc'.ready = enc.ready
  BY <1>1, <1>2, <1>3, Zenon DEF WindowsMediaTypes, EncoderThreads
<1>5. starter.kind = "gpu"
  BY <1>1, MediaFields, SMT DEF PathsApart
<1>6. enc'.ready <= Len(enc.tr.queue)
  BY <1>4, <1>5, Zenon DEF PathsApart
<1>7. hand' \in MediaHands /\ hand'.frame \in {hand.frame, NoFrame} /\ starter' \in MediaStarters
      /\ enc.pc \in {"open", "loop", "flush"} /\ enc'.pc \in {"loop", "flush"}
  BY <1>1, <1>4, FreshHandIs DEF WindowsMediaTypes
<1> QED
  BY <1>1, <1>2, <1>3, <1>4, <1>5, <1>6, <1>7, GpuStep, Zenon

\* The pending frame is submitted.
LEMMA HwSubmitKeeps == ASSUME WindowsMediaInv, HwSubmit PROVE WindowsMediaInv'
<1> USE DEF WindowsMediaInv
<1>1. /\ enc.pc = "loop" /\ enc.ready = 0 /\ enc.need > 0 /\ enc.pending # NoFrame
      /\ EncoderOnly /\ starter' = starter /\ hand' = hand
  BY DEF HwSubmit
<1>2. PICK input \in Inputs(enc.tr, enc.pending, enc.tr.forced) :
        /\ enc' = [enc EXCEPT !.tr.queue = Append(@, input), !.need = @ - 1,
                              !.pending = NoFrame]
        /\ sentLog' = NoteInput(input.key)
  BY DEF HwSubmit
<1>3. starter.kind = "gpu" /\ starter.stage \notin {"open", "wait", "fallback"}
  BY <1>1, MediaFields, SMT DEF PathsApart, QuietStart
<1>4. /\ enc.tr.forced \in BOOLEAN /\ enc.tr \in Transforms
      /\ enc.pending \in MediaFrames \ {NoFrame}
  BY <1>1, MediaFields
<1>5. /\ input \in QueuedInputs /\ input.frame = enc.pending /\ input.key \in BOOLEAN
      /\ (input.force \/ input.clean \/ ~enc.tr.first => input.key)
  BY <1>4, InputsAre
<1> DEFINE queue == Append(enc.tr.queue, input)
           t == [enc.tr EXCEPT !.queue = queue]
           owed == sentLog.owed /\ ~input.key
           n == enc.need - 1
<1>6. queue \in Seq(QueuedInputs) /\ Len(queue) = Len(enc.tr.queue) + 1
  BY <1>5, MediaFields, AppendedIs
<1>7. 0 <= Len(queue) /\ n \in Nat
  BY <1>1, <1>6, MediaFields, LenProperties, SMT
<1>8. /\ enc' = [enc EXCEPT !.tr = t, !.need = n, !.pending = NoFrame]
      /\ sentLog' = [sentLog EXCEPT !.owed = owed] /\ owed \in BOOLEAN
  BY <1>2, <1>5, MediaFields DEF NoteInput
<1> HIDE DEF queue
<1>9. /\ t \in Transforms /\ t.queue = queue /\ t.mode = enc.tr.mode /\ t.first = enc.tr.first
  BY <1>4, <1>6, Zenon DEF Transforms
<1> HIDE DEF t, owed, n
<1>10. /\ enc' \in EncoderThreads /\ enc'.pc = enc.pc /\ enc'.work = enc.work
       /\ enc'.batch = enc.batch /\ enc'.pending = NoFrame /\ enc'.tr = t
       /\ enc'.ready = enc.ready
  BY <1>7, <1>8, <1>9, NoMediaFrame, Zenon DEF WindowsMediaTypes, EncoderThreads
<1>11. /\ sentLog' \in MediaLogs /\ sentLog'.sent = sentLog.sent
       /\ sentLog'.wrongKey = sentLog.wrongKey /\ sentLog'.badLength = sentLog.badLength
  BY <1>8, Zenon DEF WindowsMediaTypes, MediaLogs
<1>12. enc.work.frame = NoFrame /\ enc.batch = << >>
  BY <1>3, Zenon DEF PathsApart
<1>13. cap' = cap /\ desk' = desk /\ dims' = dims /\ pools' = pools
  BY <1>1 DEF EncoderOnly
<1>14. enc'.tr.queue = Append(enc.tr.queue, input) /\ enc'.tr.first = enc.tr.first
  BY <1>9, <1>10 DEF queue
<1>15. FramesInOrder' /\ CaptureIsNewest'
  BY <1>1, <1>5, <1>10, <1>11, <1>12, <1>13, <1>14, InputKeepsOrder, SMT
<1>16. LabelsAreKeys' /\ ~sentLog'.badLength
  <2>1. sentLog'.wrongKey = FALSE /\ starter.kind # "cpu"
    BY <1>3, <1>11, MediaFields, Zenon DEF LabelsAreKeys
  <2> QED
    BY <1>1, <1>5, <1>9, <1>10, <1>11, <1>14, <2>1, QueueKeeps, Zenon
<1>17. LengthsFit' /\ KeyOnItsWay'
  BY <1>1, <1>3, <1>10, <1>16, SMT DEF LengthsFit, KeyOnItsWay
<1>18. WindowsMediaTypes' /\ QuietStart'
  BY <1>1, <1>3, <1>10, <1>11, <1>13, Zenon DEF WindowsMediaTypes, QuietStart
<1>19. PathsApart'
  BY <1>1, <1>3, <1>7, <1>9, <1>10, <1>12, SMT DEF PathsApart, CpuStages, NoFrame
<1> QED
  BY <1>15, <1>16, <1>17, <1>18, <1>19, Zenon

\* An output of the hardware transform is labelled and sent, or finds the channel closed.
LEMMA HwOutputKeeps == ASSUME WindowsMediaInv, HwOutput PROVE WindowsMediaInv'
<1> USE DEF WindowsMediaInv
<1> DEFINE out == Head(enc.tr.queue)
           label == HwLabel(enc.tr, out)
           t == AfterOutput(enc.tr, label)
           r == enc.ready - 1
           p == IF channel.open THEN enc.pc ELSE "flush"
           id == IF channel.open THEN out.frame.id ELSE sentLog.sent
<1>1. /\ enc.pc \in {"loop", "flush"} /\ enc.ready > 0 /\ EncoderOnly /\ starter' = starter
      /\ sentLog' = [sentLog EXCEPT !.sent = id]
      /\ \/ /\ channel.open \/ enc.pc = "loop"
            /\ enc' = [enc EXCEPT !.tr = t, !.ready = r, !.pc = p]
         \/ EncoderExits /\ ~channel.open
      /\ hand' = IF channel.open THEN hand ELSE StoppedHand
  BY Zenon DEF HwOutput
<1>2. starter.kind = "gpu"
  BY <1>1, MediaFields, SMT DEF PathsApart
<1>3. /\ enc.ready <= Len(enc.tr.queue) /\ Len(enc.tr.queue) \in Nat /\ enc.ready \in Nat
      /\ enc.batch = << >>
  BY <1>2, MediaFields, LenProperties, Zenon DEF PathsApart
<1>4. enc.tr.queue # << >> /\ r \in Nat /\ r <= Len(enc.tr.queue) - 1
  BY <1>1, <1>3, EmptySeq, SMT
<1>5. starter.stage \notin {"open", "wait", "fallback"}
  BY <1>4, SMT DEF QuietStart
<1>6. /\ out = enc.tr.queue[1] /\ out \in QueuedInputs /\ Tail(enc.tr.queue) \in Seq(QueuedInputs)
      /\ Len(Tail(enc.tr.queue)) = Len(enc.tr.queue) - 1
  BY <1>4, MediaFields, TailIs
<1>7. id \in Nat /\ id \in {sentLog.sent, out.frame.id}
  <2>1. out.frame \in MediaFrames
    BY <1>6, Zenon DEF QueuedInputs
  <2> QED
    BY <2>1, NoMediaFrame, MediaFields
<1>8. hand' \in MediaHands /\ hand'.frame \in {hand.frame, NoFrame}
  BY <1>1, FreshHandIs DEF WindowsMediaTypes
<1>9. CASE EncoderExits /\ ~channel.open
  <2>1. sentLog' = [sentLog EXCEPT !.sent = sentLog.sent]
    BY <1>1, <1>9
  <2>2. sentLog' = sentLog
    BY <2>1, Zenon DEF WindowsMediaTypes, MediaLogs
  <2>3. hand' = StoppedHand
    BY <1>1, <1>9
  <2>4. UNCHANGED <<desk, cap, pools, dims>> /\ starter' \in MediaStarters
    BY <1>1 DEF EncoderOnly, WindowsMediaTypes
  <2> QED
    BY <1>1, <1>9, <2>2, <2>3, <2>4, EncoderExitsSafely, Zenon
<1>10. CASE enc' = [enc EXCEPT !.tr = t, !.ready = r, !.pc = p]
  <2>1. label \in BOOLEAN
    <3>1. out.clean \in BOOLEAN
      BY <1>6, Zenon DEF QueuedInputs
    <3> QED
      BY <3>1, MediaFields, Zenon DEF HwLabel
  <2>2. p \in {"loop", "flush"} /\ p \in EncoderStages
    BY <1>1 DEF EncoderStages
  <2> HIDE DEF label, p, r, id, out
  <2>3. /\ t \in Transforms /\ t.queue = Tail(enc.tr.queue) /\ t.mode = enc.tr.mode
        /\ t.first = (enc.tr.first \/ label)
    BY <1>4, <2>1, MediaFields, AfterOutputIs
  <2> HIDE DEF t
  <2>4. /\ enc' \in EncoderThreads /\ enc'.pc = p /\ enc'.work = enc.work
        /\ enc'.batch = enc.batch /\ enc'.pending = enc.pending /\ enc'.tr = t
        /\ enc'.ready = r
    BY <1>4, <1>10, <2>2, <2>3, Zenon DEF WindowsMediaTypes, EncoderThreads
  <2>5. /\ sentLog' \in MediaLogs /\ sentLog'.sent = id /\ sentLog'.owed = sentLog.owed
        /\ sentLog'.wrongKey = sentLog.wrongKey /\ sentLog'.badLength = sentLog.badLength
    BY <1>1, <1>7, Zenon DEF WindowsMediaTypes, MediaLogs
  <2>6. cap' = cap /\ desk' = desk /\ dims' = dims /\ pools' = pools
    BY <1>1 DEF EncoderOnly
  <2>7. FramesInOrder' /\ CaptureIsNewest'
    <3>1. sentLog'.sent \in {sentLog.sent, Head(enc.tr.queue).frame.id}
      BY <1>7, <2>5 DEF out
    <3>2. enc'.tr.queue = Tail(enc.tr.queue) /\ enc'.work.frame = enc.work.frame
      BY <2>3, <2>4
    <3> QED
      BY <1>3, <1>4, <1>8, <2>4, <2>6, <3>1, <3>2, OutputKeepsOrder, Zenon
  <2>8. LabelsAreKeys' /\ ~sentLog'.badLength
    <3>1. enc'.tr.queue = Tail(enc.tr.queue) /\ (enc.tr.first => enc'.tr.first)
      BY <2>3, <2>4, Zenon
    <3>2. sentLog'.wrongKey = FALSE
      BY <2>5, MediaFields, Zenon DEF LabelsAreKeys
    <3> QED
      BY <1>1, <1>4, <2>3, <2>4, <2>5, <3>1, <3>2, QueueKeeps, Zenon
  <2>9. LengthsFit' /\ KeyOnItsWay'
    BY <1>1, <1>2, <2>2, <2>4, <2>8, SMT DEF LengthsFit, KeyOnItsWay
  <2>10. WindowsMediaTypes' /\ QuietStart'
    BY <1>1, <1>5, <1>8, <2>4, <2>5, <2>6, Zenon DEF WindowsMediaTypes, QuietStart
  <2>11. PathsApart'
    <3>1. enc'.batch = << >> /\ enc'.work.frame = NoFrame /\ NoFrame' = NoFrame
      BY <1>2, <2>4, Zenon DEF PathsApart, NoFrame
    <3>2. enc'.ready <= Len(enc'.tr.queue)
      BY <1>4, <1>6, <2>3, <2>4 DEF r
    <3> QED
      BY <1>1, <1>2, <2>2, <2>4, <3>1, <3>2, SMT DEF PathsApart, CpuStages
  <2> QED
    BY <2>7, <2>8, <2>9, <2>10, <2>11, Zenon
<1> QED
  BY <1>1, <1>9, <1>10

\* The GPU encoder thread ends.
LEMMA HwFlushedKeeps == ASSUME WindowsMediaInv, HwFlushed PROVE WindowsMediaInv'
BY EncoderExitsSafely, SMT DEF HwFlushed, EncoderOnly, WindowsMediaInv, WindowsMediaTypes

\* Before start() there is nothing to be out of order.
LEMMA NothingCapturedYet == MediaInit => WindowsMediaInv
<1> USE WindowsMediaAssumption
<1> SUFFICES ASSUME MediaInit PROVE WindowsMediaInv
    OBVIOUS
<1>1. PICK kind \in {"gpu", "cpu"} :
        starter = [kind |-> kind, stage |-> "open", init |-> "none", ready |-> FALSE]
    BY DEF MediaInit
<1>2. /\ starter \in MediaStarters /\ starter.stage = "open" /\ ~starter.ready
      /\ starter.kind \in {"gpu", "cpu"}
    BY <1>1 DEF MediaStarters
<1>3. desk \in DeskModes /\ dims \in DeskModes /\ desk = StartMode
    BY DEF MediaInit
<1>4. /\ NoFrame \in MediaFrames /\ NoFrame.id = 0 /\ NoWork \in MediaWorks
      /\ NoWork.frame = NoFrame /\ ~NoWork.key
    BY DEF MediaFrames, NoFrame, NoWork, MediaWorks
<1>5. /\ hand \in MediaHands /\ hand.frame = NoFrame /\ ~hand.stopped /\ ~hand.key
    BY <1>4 DEF MediaInit, FreshHand, MediaHands
<1>6. /\ cap \in CaptureThreads /\ cap.pc = "none"
    BY <1>3, <1>4 DEF MediaInit, FreshCap, CaptureThreads, CaptureStages
<1>7. /\ FreshTransform(desk) \in Transforms
      /\ FreshTransform(desk).queue = << >> /\ FreshTransform(desk).forced
    BY <1>3 DEF FreshTransform, Transforms
<1>8. /\ enc \in EncoderThreads /\ enc.pc = "none" /\ enc.work = NoWork /\ enc.batch = << >>
      /\ enc.pending = NoFrame /\ enc.ready = 0 /\ enc.tr = FreshTransform(desk)
  <2>1. "none" \in EncoderStages
    BY DEF EncoderStages
  <2>2. PICK e \in EncoderThreads :
          /\ e = [FreshEnc(desk) EXCEPT !.pc = "none"]
          /\ e.pc = "none" /\ e.work = NoWork /\ e.batch = << >>
          /\ e.pending = NoFrame /\ e.ready = 0 /\ e.tr = FreshTransform(desk)
    BY <1>3, <2>1, FreshEncIs
  <2>3. enc = e
    BY <2>2, Zenon DEF MediaInit
  <2> QED
    BY <2>2, <2>3
<1>9. /\ sentLog \in MediaLogs /\ ~sentLog.owed /\ ~sentLog.wrongKey /\ ~sentLog.badLength
      /\ sentLog.sent = 0
    BY DEF MediaInit, MediaLogs
<1>10. pools \in Seq([0 .. PoolSize - 1 -> Nat])
    BY DEF MediaInit
<1>11. /\ DOMAIN enc.batch = {} /\ DOMAIN enc.tr.queue = {} /\ Len(enc.tr.queue) = 0
    BY <1>7, <1>8, SMT
<1>12. WindowsMediaTypes
    BY <1>2, <1>3, <1>5, <1>6, <1>8, <1>9, <1>10 DEF WindowsMediaTypes
<1>13. QuietStart
    BY <1>2, <1>4, <1>5, <1>6, <1>7, <1>8, <1>9 DEF QuietStart
<1>14. PathsApart
    BY <1>2, <1>4, <1>7, <1>8, <1>11 DEF PathsApart, CpuStages
<1>15. FramesInOrder
    BY <1>4, <1>5, <1>8, <1>11 DEF FramesInOrder
<1>16. CaptureIsNewest
    BY <1>6 DEF CaptureIsNewest
<1>17. LengthsFit
    BY <1>8, <1>9, <1>11 DEF LengthsFit
<1>18. LabelsAreKeys
    BY <1>9, <1>11 DEF LabelsAreKeys
<1>19. KeyOnItsWay
    BY <1>4, <1>8, <1>9 DEF KeyOnItsWay
<1> QED
    BY <1>12, <1>13, <1>14, <1>15, <1>16, <1>17, <1>18, <1>19 DEF WindowsMediaInv

\* Every step of the starter, the two threads and the desktop keeps the invariant.
LEMMA MediaStepKeeps ==
    ASSUME WindowsMediaInv, [MediaNext]_mediaVars
    PROVE  WindowsMediaInv'
<1>1. CASE UNCHANGED mediaVars
    BY <1>1 DEF mediaVars, WindowsMediaInv, WindowsMediaTypes, QuietStart, PathsApart,
       FramesInOrder, NoneNewer, CaptureIsNewest, LengthsFit, SameLength, LabelsAreKeys,
       KeyOnItsWay
<1>2. ASSUME NEW m \in DeskModes, ChangeMode(m) PROVE WindowsMediaInv'
    BY <1>2, ChangeModeKeeps
<1>3. ASSUME StartGpu \/ NoGpuCapture \/ FallBack \/ StartCpu PROVE WindowsMediaInv'
    BY <1>3, StartGpuKeeps, KindTurnsKeeps, StartCpuKeeps
<1>4. ASSUME \/ EncoderIsReady \/ GiveUpGpu \/ ForceKeyFrame \/ UpdateBitrate
             \/ StopHandle \/ ReceiverGone \/ HandleStopped
      PROVE  WindowsMediaInv'
    BY <1>4, StarterKeeps, ForceKeyFrameKeeps
<1>5. ASSUME \/ AwaitEncoder \/ OpenCapture \/ CaptureSeesStop \/ AcquireFrame
             \/ PublishFrame \/ KeepAlive \/ ConversionFails \/ AcquireFails \/ Abort
             \/ Reacquire
      PROVE  WindowsMediaInv'
    BY <1>5, CaptureOpensKeep, CaptureExitsKeep, AcquireFrameKeeps, PublishFramesKeep,
       CaptureFailsKeep
<1>6. ASSUME \/ OpenCpuEncoder \/ NextWork \/ ApplyBitrate \/ Reselect \/ Encode \/ Submit
             \/ DrainOutput \/ TransformFails \/ EmitSample
      PROVE  WindowsMediaInv'
    BY <1>6, OpenCpuEncoderKeeps, NextWorkKeeps, ApplyBitrateKeeps, ReselectKeeps,
       EncodeKeeps, SubmitKeeps, DrainOutputKeeps, TransformFailsKeeps, EmitSampleKeeps
<1>7. ASSUME \/ OpenHwEncoder \/ TransformAsks \/ TransformDelivers \/ HwOutput \/ HwSubmit
             \/ HwNextWork \/ HwFails \/ HwSeesStop \/ HwFlushed
      PROVE  WindowsMediaInv'
    BY <1>7, OpenHwEncoderKeeps, HwCountsKeep, HwOutputKeeps, HwSubmitKeeps,
       HwNextWorkKeeps, HwFlushedKeeps
<1> QED
    BY <1>1, <1>2, <1>3, <1>4, <1>5, <1>6, <1>7 DEF MediaNext

\* Sequences of ids that ascend, and one after the other.
Ascends(ids) ==
    ids \in Seq(Nat) /\ \A i, j \in DOMAIN ids : i <= j => ids[i] <= ids[j]
Before(s1, t1) == \A i \in DOMAIN s1, j \in DOMAIN t1 : s1[i] <= t1[j]

\* Two ascending sequences of which the second begins where the first ends.
LEMMA JoinedAscend ==
    ASSUME NEW s1, NEW t1, Ascends(s1), Ascends(t1), Before(s1, t1)
    PROVE  /\ Ascends(s1 \o t1)
           /\ \A u1 : Before(s1, u1) /\ Before(t1, u1) => Before(s1 \o t1, u1)
<1> DEFINE w == s1 \o t1
<1>1. s1 \in Seq(Nat) /\ t1 \in Seq(Nat)
  BY DEF Ascends
<1>2. /\ w \in Seq(Nat) /\ Len(w) = Len(s1) + Len(t1)
      /\ \A i \in 1 .. Len(s1) + Len(t1) :
            w[i] = IF i <= Len(s1) THEN s1[i] ELSE t1[i - Len(s1)]
  BY <1>1, ConcatProperties
<1>3. /\ DOMAIN s1 = 1 .. Len(s1) /\ DOMAIN t1 = 1 .. Len(t1) /\ DOMAIN w = 1 .. Len(w)
      /\ Len(s1) \in Nat /\ Len(t1) \in Nat
  BY <1>1, <1>2, LenProperties
<1> HIDE DEF w
<1>4. ASSUME NEW i \in DOMAIN w
      PROVE  \/ i \in DOMAIN s1 /\ i <= Len(s1) /\ w[i] = s1[i]
             \/ i - Len(s1) \in DOMAIN t1 /\ i > Len(s1) /\ w[i] = t1[i - Len(s1)]
  BY <1>2, <1>3, SMT
<1>5. ASSUME NEW i \in DOMAIN w, NEW j \in DOMAIN w, i <= j PROVE w[i] <= w[j]
  <2>0. i \in Nat /\ j \in Nat /\ Len(s1) \in Nat
    BY <1>2, <1>3, SMT
  <2>1. CASE i \in DOMAIN s1 /\ w[i] = s1[i] /\ j \in DOMAIN s1 /\ w[j] = s1[j]
    BY <1>5, <2>1 DEF Ascends
  <2>2. CASE i \in DOMAIN s1 /\ w[i] = s1[i] /\ j - Len(s1) \in DOMAIN t1
             /\ w[j] = t1[j - Len(s1)]
    BY <2>2 DEF Before
  <2>3. CASE /\ i - Len(s1) \in DOMAIN t1 /\ w[i] = t1[i - Len(s1)]
             /\ j - Len(s1) \in DOMAIN t1 /\ w[j] = t1[j - Len(s1)]
    <3>1. i - Len(s1) <= j - Len(s1)
      BY <1>5, <2>0, SMT
    <3> QED
      BY <2>3, <3>1 DEF Ascends
  <2>4. ~(i > Len(s1) /\ j <= Len(s1))
    BY <1>5, <2>0, SMT
  <2> QED
    BY <1>4, <2>1, <2>2, <2>3, <2>4
<1>6. Ascends(w)
  BY <1>2, <1>5 DEF Ascends
<1>7. ASSUME NEW u1, Before(s1, u1), Before(t1, u1) PROVE Before(w, u1)
  BY <1>4, <1>7 DEF Before
<1> QED
  BY <1>6, <1>7 DEF w

\* The id of a frame as a sequence, as InTransit has it.
LEMMA OneIdAscends ==
    ASSUME NEW f \in MediaFrames
    PROVE  LET ids == IF f = NoFrame THEN << >> ELSE <<f.id>>
           IN  /\ Ascends(ids)
               /\ \A i \in DOMAIN ids : f # NoFrame /\ ids[i] = f.id
<1>1. f.id \in Nat
  BY NoMediaFrame
<1>2. CASE f = NoFrame
  BY <1>2, SMT DEF Ascends
<1>3. CASE f # NoFrame
  BY <1>1, <1>3, SMT DEF Ascends
<1> QED
  BY <1>2, <1>3

\* The ids between the capture thread and the channel ascend, piece after piece.
LEMMA TransitAscends == ASSUME WindowsMediaInv PROVE Ascends(InTransit)
<1> USE DEF WindowsMediaInv
<1> DEFINE id(f) == IF f = NoFrame THEN << >> ELSE <<f.id>>
           a == <<sentLog.sent>>
           b == enc.batch
           c == [i \in DOMAIN enc.tr.queue |-> enc.tr.queue[i].frame.id]
           d == id(enc.pending)
           e == id(enc.work.frame)
           h == id(hand.frame)
<1>1. /\ sentLog.sent \in Nat /\ enc.batch \in Seq(Nat) /\ enc.tr.queue \in Seq(QueuedInputs)
      /\ enc.pending \in MediaFrames /\ enc.work.frame \in MediaFrames
      /\ hand.frame \in MediaFrames
  BY MediaFields, Zenon DEF MediaLogs, WindowsMediaTypes, EncoderThreads, Transforms
<1>2. /\ Ascends(d) /\ \A i \in DOMAIN d : enc.pending # NoFrame /\ d[i] = enc.pending.id
      /\ Ascends(e) /\ \A i \in DOMAIN e : enc.work.frame # NoFrame /\ e[i] = enc.work.frame.id
      /\ Ascends(h) /\ \A i \in DOMAIN h : hand.frame # NoFrame /\ h[i] = hand.frame.id
  BY <1>1, OneIdAscends
<1>3. /\ Ascends(a) /\ DOMAIN a = {1} /\ a[1] = sentLog.sent
  BY <1>1, SMT DEF Ascends
<1>4. Ascends(b)
  BY <1>1 DEF Ascends, FramesInOrder
<1>5. /\ DOMAIN c = DOMAIN enc.tr.queue
      /\ \A i \in DOMAIN c : c[i] = enc.tr.queue[i].frame.id
  OBVIOUS
<1>6. Ascends(c)
  <2>1. \A i \in DOMAIN enc.tr.queue : enc.tr.queue[i].frame.id \in Nat
    <3> SUFFICES ASSUME NEW i \in DOMAIN enc.tr.queue
                 PROVE  enc.tr.queue[i].frame.id \in Nat
      OBVIOUS
    <3>1. enc.tr.queue[i] \in QueuedInputs
      BY <1>1, ElementOfSeq, LenProperties
    <3>2. enc.tr.queue[i].frame \in MediaFrames
      BY <3>1, Zenon DEF QueuedInputs
    <3> QED
      BY <3>2, NoMediaFrame
  <2>2. DOMAIN enc.tr.queue = 1 .. Len(enc.tr.queue) /\ Len(enc.tr.queue) \in Nat
    BY <1>1, LenProperties
  <2>3. c \in Seq(Nat)
    <3>1. c \in [1 .. Len(enc.tr.queue) -> Nat]
      BY <2>1, <2>2
    <3> QED
      BY <2>2, <3>1, SeqDef
  <2> QED
    BY <1>5, <2>3 DEF Ascends, FramesInOrder
<1> HIDE DEF a, b, c, d, e, h
<1>7. Before(a, b) /\ Before(a, c) /\ Before(b, c)
  BY <1>3, <1>5, Zenon DEF Before, FramesInOrder, b
<1>8. Before(a, d) /\ Before(b, d) /\ Before(c, d)
  BY <1>2, <1>3, <1>5, Zenon DEF Before, FramesInOrder, NoneNewer, b
<1>9. Before(a, e) /\ Before(b, e) /\ Before(c, e)
  BY <1>2, <1>3, <1>5, Zenon DEF Before, FramesInOrder, NoneNewer, b
<1>10. Before(d, e)
  BY <1>2, Zenon DEF Before, PathsApart, WindowsMediaTypes, MediaStarters
<1>11. /\ Before(a, h) /\ Before(b, h) /\ Before(c, h)
       /\ Before(d, h) /\ Before(e, h)
  BY <1>2, <1>3, <1>5, Zenon DEF Before, FramesInOrder, NoneNewer, b
<1>12. InTransit = a \o b \o c \o d \o e \o h
  BY Zenon DEF InTransit, a, b, c, d, e, h
<1>13. Ascends(a \o b) /\ Before(a \o b, c) /\ Before(a \o b, d)
       /\ Before(a \o b, e) /\ Before(a \o b, h)
  BY <1>3, <1>4, <1>7, <1>8, <1>9, <1>11, JoinedAscend, Zenon
<1> DEFINE ab == a \o b
<1>14. Ascends(ab) /\ Before(ab, c) /\ Before(ab, d) /\ Before(ab, e) /\ Before(ab, h)
  BY <1>13
<1> HIDE DEF ab
<1> DEFINE abc == ab \o c
<1>15. Ascends(abc) /\ Before(abc, d) /\ Before(abc, e) /\ Before(abc, h)
  BY <1>6, <1>8, <1>9, <1>11, <1>14, JoinedAscend, Zenon
<1> HIDE DEF abc
<1> DEFINE abcd == abc \o d
<1>16. Ascends(abcd) /\ Before(abcd, e) /\ Before(abcd, h)
  BY <1>2, <1>10, <1>11, <1>15, JoinedAscend, Zenon
<1> HIDE DEF abcd
<1> DEFINE abcde == abcd \o e
<1>17. Ascends(abcde) /\ Before(abcde, h)
  BY <1>2, <1>11, <1>16, JoinedAscend, Zenon
<1> HIDE DEF abcde
<1>18. Ascends(abcde \o h)
  BY <1>2, <1>17, JoinedAscend, Zenon
<1>19. InTransit = abcde \o h
  BY <1>12, Zenon DEF ab, abc, abcd, abcde
<1> QED
  BY <1>18, <1>19

\* The invariant implies the property.
LEMMA MediaInvIsSafe == ASSUME WindowsMediaInv PROVE WindowsMediaSafe
<1> USE DEF WindowsMediaInv
<1>1. \A i \in 1 .. Len(InTransit) - 1 : InTransit[i] <= InTransit[i + 1]
  <2> DEFINE T == InTransit
  <2>1. Ascends(T)
    BY TransitAscends
  <2> HIDE DEF T
  <2>2. T \in Seq(Nat) /\ \A i, j \in DOMAIN T : i <= j => T[i] <= T[j]
    BY <2>1 DEF Ascends
  <2>3. DOMAIN T = 1 .. Len(T) /\ Len(T) \in Nat
    BY <2>2, LenProperties
  <2>4. ASSUME NEW i \in 1 .. Len(T) - 1 PROVE T[i] <= T[i + 1]
    <3>1. i \in DOMAIN T /\ i + 1 \in DOMAIN T /\ i <= i + 1
      BY <2>3, SMT
    <3> QED
      BY <2>2, <3>1
  <2> QED
    BY <2>4 DEF T
<1>2. ~sentLog.badLength /\ ~sentLog.wrongKey
  BY DEF LengthsFit, LabelsAreKeys
<1>3. ASSUME starter.kind = "cpu"
      PROVE  /\ \A i \in DOMAIN enc.tr.queue :
                    Nv12Len[enc.tr.queue[i].frame.mode] = Nv12Len[enc.tr.mode]
             /\ sentLog.owed => hand.key \/ enc.work.key \/ enc.tr.forced \/ hand.stopped
  BY <1>3, Zenon DEF LengthsFit, SameLength, KeyOnItsWay
<1> QED
  BY <1>1, <1>2, <1>3, Zenon DEF WindowsMediaSafe

\* On every Windows host, whatever the modes, the depths and the number of failures: frames
\* are sent in the order they were captured, on the CPU path none enters a transform of
\* another length, no output is called a key frame that is none, and on the CPU path a
\* requested key frame is not forgotten before an input was encoded as one or the pipeline
\* was stopped.
THEOREM WindowsMediaStaysSafe == MediaSpec => []WindowsMediaSafe
<1>1. MediaInit => WindowsMediaInv
  BY NothingCapturedYet
<1>2. WindowsMediaInv /\ [MediaNext]_mediaVars => WindowsMediaInv'
  BY MediaStepKeeps
<1>3. WindowsMediaInv => WindowsMediaSafe
  BY MediaInvIsSafe
<1> QED
  BY <1>1, <1>2, <1>3, PTL DEF MediaSpec
=============================================================================
