--------------------------- MODULE NetworkProofs ---------------------------
(***************************************************************************)
(* The parts of the system that stand on the network: the replay           *)
(* protection of DatagramCipher, for every window size, block size and     *)
(* counter width; the relay, for every number of hosts, sockets, clients   *)
(* and queued messages; and the cutting of frames into datagrams and their *)
(* reassembly (MediaTransport), for every number and size of frames; and   *)
(* the discovery of hosts (Discovery), for every set of services,          *)
(* interfaces and addresses and every limit.                               *)
(***************************************************************************)
EXTENDS DatagramCipher, Relay, MediaTransport, Discovery, FiniteSetTheorems, SequenceTheorems,
        WellFoundedInduction, TLAPS

(***************************************************************************)
(* DatagramCipher.                                                         *)
(***************************************************************************)

(* A quotient grows with its dividend. It is what makes pruning by whole    *)
(* blocks (record) safe: a counter inside the window lies in a kept block.  *)
LEMMA DivMonotonic ==
    ASSUME NEW a \in Nat, NEW b \in Nat, a <= b
    PROVE  a \div Block <= b \div Block
<1> DEFINE q == a \div Block
           r == b \div Block
<1>1. Block \in Nat /\ Block > 0
  BY CipherAssumption
<1>2. /\ q \in Int /\ r \in Int
      /\ Block * q <= a
      /\ b < Block * r + Block
  BY <1>1
<1> HIDE DEF q, r
<1>3. Block * q < Block * (r + 1)
  BY <1>1, <1>2
<1>4. q < r + 1
  <2>1. SUFFICES ASSUME q >= r + 1 PROVE FALSE
    BY <1>2
  <2> DEFINE d == q - (r + 1)
  <2>2. d \in Nat /\ q = (r + 1) + d
    BY <2>1, <1>2
  <2> HIDE DEF d
  <2>3. Block * q = Block * (r + 1) + Block * d
    BY <2>2, <1>1, <1>2
  <2>4. Block * d >= 0
    BY <2>2, <1>1
  <2>5. Block * q \in Int /\ Block * (r + 1) \in Int /\ Block * d \in Int
    BY <2>2, <1>1, <1>2
  <2> QED BY <2>3, <2>4, <2>5, <1>3
<1> QED BY <1>2, <1>4 DEF q, r

(* The window of a higher counter starts at a later block. *)
LEMMA OldestBlockMonotonic ==
    ASSUME NEW g \in Nat, NEW h \in Nat, g <= h
    PROVE  OldestBlock(g) <= OldestBlock(h)
<1> DEFINE low(x) == SaturatingSub(x, SaturatingSub(Window, 1))
<1>1. low(g) \in Nat /\ low(h) \in Nat /\ low(g) <= low(h)
  BY CipherAssumption DEF SaturatingSub
<1> HIDE DEF low
<1>2. low(g) \div Block <= low(h) \div Block
  BY <1>1, DivMonotonic
<1> QED BY <1>2 DEF OldestBlock, low

(* A counter less than Window behind h lies in a block that record keeps    *)
(* when the highest counter is h.                                           *)
LEMMA RecentBlockKept ==
    ASSUME NEW c \in Nat, NEW h \in Nat, c + Window > h
    PROVE  c \div Block >= OldestBlock(h)
<1> DEFINE low == SaturatingSub(h, SaturatingSub(Window, 1))
<1>1. low \in Nat /\ low <= c
  BY CipherAssumption DEF SaturatingSub
<1> HIDE DEF low
<1>2. low \div Block <= c \div Block
  BY <1>1, DivMonotonic
<1>3. low \div Block \in Int /\ c \div Block \in Int
  BY <1>1, CipherAssumption
<1> QED BY <1>2, <1>3 DEF OldestBlock, low

(* What one call of record does to the set of recorded counters, given the  *)
(* counter passed can_accept: it only adds c, and it drops no counter that  *)
(* is still inside the window of the new highest counter.                   *)
LEMMA RecordKeepsRecent ==
    ASSUME CipherTypeOK, NEW c \in Counters, Record(c)
    PROVE  /\ highest' \in Counters
           /\ highest' = IF ~ receivedAny \/ c > highest THEN c ELSE highest
           /\ seen' \subseteq seen \cup {c}
           /\ \A x \in seen \cup {c} : x + Window > highest' => x \in seen'
<1>1. /\ highest' = IF ~ receivedAny \/ c > highest THEN c ELSE highest
      /\ highest' \in Counters
  BY DEF Record, CipherTypeOK
<1>2. seen' \subseteq seen \cup {c}
  BY DEF Record
<1>3. ASSUME NEW x \in seen \cup {c}, x + Window > highest'
      PROVE  x \in seen'
  <2>1. x \in Nat /\ highest' \in Nat
    BY <1>1 DEF CipherTypeOK, Counters
  <2>2. x \div Block >= OldestBlock(highest')
    BY <2>1, <1>3, RecentBlockKept
  <2>3. seen' = seen \cup {c} \/ seen' = {y \in seen \cup {c} : y \div Block >= OldestBlock(highest')}
    BY DEF Record
  <2> QED BY <2>2, <2>3
<1> QED BY <1>1, <1>2, <1>3

(* A new pair of cipher halves satisfies it. *)
LEMMA CipherStarts == CipherInit => CipherInv
<1> SUFFICES ASSUME CipherInit PROVE CipherInv
  OBVIOUS
<1> USE CipherAssumption DEF CipherInit, Counters
<1>1. CipherTypeOK
  <2>1. sendCounter \in Counters /\ highest \in Counters
    OBVIOUS
  <2>2. sealed \in [Counters -> Nat] /\ opened \in [Counters -> Nat]
    OBVIOUS
  <2>3. receivedAny \in BOOLEAN /\ seen \in SUBSET Counters /\ result \in Results
    BY DEF Results
  <2> QED BY <2>1, <2>2, <2>3 DEF CipherTypeOK
<1>2. Delivered = {}
  BY DEF Delivered
<1>3. NoReplay /\ SealedUpToCounter
  BY DEF NoReplay, SealedUpToCounter
<1>4. SeenWasDelivered /\ RecentIsSeen /\ HighestIsDelivered
  BY <1>2 DEF SeenWasDelivered, RecentIsSeen, HighestIsDelivered
<1> QED BY <1>1, <1>3, <1>4 DEF CipherInv

(* A call that leaves the receiver alone keeps the receiver's part. *)
LEMMA ReceiverUnchanged ==
    ASSUME CipherInv, UNCHANGED <<highest, receivedAny, seen, opened>>
    PROVE  /\ NoReplay' /\ SeenWasDelivered' /\ RecentIsSeen' /\ HighestIsDelivered'
           /\ Delivered' = Delivered
<1>1. Delivered' = Delivered
  BY DEF Delivered
<1> QED BY <1>1 DEF CipherInv, NoReplay, SeenWasDelivered, RecentIsSeen, HighestIsDelivered

(* A refused datagram leaves the window as it is. *)
LEMMA RejectKeepsInv ==
    ASSUME CipherInv, NEW why \in Results, Reject(why)
    PROVE  CipherInv'
<1>1. CipherTypeOK'
  BY DEF CipherInv, CipherTypeOK, Reject
<1>2. SealedUpToCounter'
  BY DEF CipherInv, SealedUpToCounter, Reject
<1>3. UNCHANGED <<highest, receivedAny, seen, opened>>
  BY DEF Reject
<1> QED BY <1>1, <1>2, <1>3, ReceiverUnchanged DEF CipherInv

(* The step that matters: a datagram that passes can_accept and is recorded. *)
LEMMA AcceptKeepsInv ==
    ASSUME CipherInv, NEW c \in Counters, CanAccept(c), Record(c),
           opened' = [opened EXCEPT ![c] = @ + 1], result' = "ok",
           UNCHANGED <<sendCounter, sealed>>
    PROVE  CipherInv' /\ c \notin Delivered /\ Delivered' = Delivered \cup {c}
<1>0. CipherTypeOK
  BY DEF CipherInv
<1> USE CipherAssumption
<1>1. c \notin Delivered
  <2>1. SUFFICES ASSUME c \in Delivered PROVE FALSE
    OBVIOUS
  <2>2. c <= highest /\ receivedAny
    BY <2>1 DEF CipherInv, HighestIsDelivered, CipherTypeOK
  <2>3. c + Window > highest
    BY <2>2, <1>0 DEF CanAccept, CipherTypeOK, Counters
  <2> QED BY <2>1, <2>3 DEF CipherInv, RecentIsSeen, CanAccept
<1>2. Delivered' = Delivered \cup {c}
  BY <1>0 DEF Delivered, CipherTypeOK
<1>3. /\ highest' \in Counters
      /\ highest' = IF ~ receivedAny \/ c > highest THEN c ELSE highest
      /\ seen' \subseteq seen \cup {c}
      /\ \A x \in seen \cup {c} : x + Window > highest' => x \in seen'
  BY <1>0, RecordKeepsRecent
<1>4. CipherTypeOK'
  BY <1>0, <1>3 DEF CipherTypeOK, Record, Results
<1>5. NoReplay'
  BY <1>0, <1>1 DEF NoReplay, CipherInv, Delivered, CipherTypeOK
<1>6. SeenWasDelivered'
  BY <1>2, <1>3 DEF SeenWasDelivered, CipherInv
<1>7. RecentIsSeen'
  <2>1. SUFFICES ASSUME NEW x \in Delivered', x + Window > highest' PROVE x \in seen'
    BY DEF RecentIsSeen
  <2>2. x \in Nat /\ highest \in Nat /\ highest' \in Nat /\ c \in Nat
    BY <1>0, <1>3 DEF Delivered, CipherTypeOK, Counters
  <2>3. x # c => x + Window > highest
    BY <2>1, <2>2, <1>2, <1>3 DEF CipherInv, HighestIsDelivered
  <2>4. x \in seen \cup {c}
    BY <2>1, <2>3, <1>2 DEF CipherInv, RecentIsSeen
  <2> QED BY <2>1, <2>4, <1>3
<1>8. HighestIsDelivered'
  <2>1. receivedAny' = TRUE
    BY DEF Record
  <2>2. highest' \in Delivered'
    BY <1>2, <1>3 DEF CipherInv, HighestIsDelivered
  <2>3. \A x \in Delivered' : x <= highest'
    BY <1>0, <1>2, <1>3 DEF CipherInv, HighestIsDelivered, CipherTypeOK, Delivered, Counters
  <2> QED BY <2>1, <2>2, <2>3 DEF HighestIsDelivered
<1>9. SealedUpToCounter'
  BY DEF CipherInv, SealedUpToCounter
<1> QED BY <1>1, <1>2, <1>4, <1>5, <1>6, <1>7, <1>8, <1>9 DEF CipherInv

(* Sealing takes the next counter. *)
LEMMA SealKeepsInv == CipherInv /\ Seal => CipherInv'
<1> SUFFICES ASSUME CipherInv, Seal PROVE CipherInv'
  OBVIOUS
<1> USE CipherAssumption
<1>1. UNCHANGED <<highest, receivedAny, seen, opened>>
  BY DEF Seal
<1>2. CipherTypeOK'
  <2>1. sendCounter' \in Counters
    BY DEF Seal, CipherInv, CipherTypeOK, Counters
  <2>2. sealed' \in [Counters -> Nat]
    BY DEF Seal, CipherInv, CipherTypeOK
  <2>3. result' \in Results
    BY DEF Seal, Results
  <2> QED BY <1>1, <2>1, <2>2, <2>3 DEF CipherInv, CipherTypeOK
<1>3. SealedUpToCounter'
  BY DEF Seal, CipherInv, CipherTypeOK, Counters, SealedUpToCounter
<1> QED BY <1>1, <1>2, <1>3, ReceiverUnchanged DEF CipherInv

(* Every step keeps the invariant. *)
LEMMA CipherStep == CipherInv /\ [CipherNext]_cipherVars => CipherInv'
<1> SUFFICES ASSUME CipherInv, [CipherNext]_cipherVars PROVE CipherInv'
  OBVIOUS
<1>1. CASE Seal
  BY <1>1, SealKeepsInv
<1>2. CASE OpenShort \/ OpenOtherDirection
  BY <1>2, RejectKeepsInv DEF OpenShort, OpenOtherDirection, Results
<1>3. ASSUME NEW c \in Counters, OpenGenuine(c) PROVE CipherInv'
  <2>1. CASE CanAccept(c)
    BY <1>3, <2>1, AcceptKeepsInv, RejectKeepsInv DEF OpenGenuine
  <2>2. CASE ~ CanAccept(c)
    BY <1>3, <2>2, RejectKeepsInv DEF OpenGenuine, Results
  <2> QED BY <2>1, <2>2
<1>4. ASSUME NEW c \in Counters, OpenAltered(c) PROVE CipherInv'
  BY <1>4, RejectKeepsInv DEF OpenAltered, Results
<1>5. CASE UNCHANGED cipherVars
  <2>1. CipherTypeOK' /\ SealedUpToCounter'
    BY <1>5 DEF cipherVars, CipherInv, CipherTypeOK, SealedUpToCounter
  <2>2. UNCHANGED <<highest, receivedAny, seen, opened>>
    BY <1>5 DEF cipherVars
  <2> QED BY <2>1, <2>2, ReceiverUnchanged DEF CipherInv
<1> QED BY <1>1, <1>2, <1>3, <1>4, <1>5 DEF CipherNext

(* The inductive invariant of seal and open: what was opened is recorded or too
   old, counters of sealed datagrams are below the send counter. *)
THEOREM CipherInvariant == CipherSpec => []CipherInv
<1>1. CipherInit => CipherInv
  BY CipherStarts
<1>2. CipherInv /\ [CipherNext]_cipherVars => CipherInv'
  BY CipherStep
<1> QED BY <1>1, <1>2, PTL DEF CipherSpec

(* The variables of both cipher halves keep their types (udp_gcm.rs). *)
THEOREM CipherTypes == CipherSpec => []CipherTypeOK
<1>1. CipherInv => CipherTypeOK
  BY DEF CipherInv
<1> QED BY <1>1, CipherInvariant, PTL

(* No datagram is opened twice, for any window, block and counter width:    *)
(* open, can_accept and record together are replay protection.              *)
THEOREM CipherNoReplay == CipherSpec => []NoReplay
<1>1. CipherInv => NoReplay
  BY DEF CipherInv
<1> QED BY <1>1, CipherInvariant, PTL

(* seal_into never uses a nonce counter twice. *)
THEOREM CipherNonceNeverReused == CipherSpec => []NonceNeverReused
<1>1. CipherInv => NonceNeverReused
  BY DEF CipherInv, SealedUpToCounter, NonceNeverReused
<1> QED BY <1>1, CipherInvariant, PTL

(* No genuine, unopened datagram inside the window is refused (can_accept). *)
THEOREM CipherFreshIsAcceptable == CipherSpec => []FreshIsAcceptable
<1>1. CipherInv => FreshIsAcceptable
  <2>1. SUFFICES ASSUME CipherInv, NEW c \in Counters, c \notin Delivered,
                        \A h \in Delivered : h < c + Window
                 PROVE  CanAccept(c)
    BY DEF FreshIsAcceptable
  <2>2. c \notin seen
    BY <2>1 DEF CipherInv, SeenWasDelivered
  <2>3. receivedAny => highest < c + Window
    BY <2>1 DEF CipherInv, HighestIsDelivered
  <2>4. highest \in Nat /\ c \in Nat /\ Window \in Nat
    BY <2>1, CipherAssumption DEF CipherInv, CipherTypeOK, Counters
  <2>5. ~ (receivedAny /\ c < highest /\ highest - c >= Window)
    BY <2>3, <2>4
  <2> QED BY <2>2, <2>5 DEF CanAccept
<1> QED BY <1>1, CipherInvariant, PTL

(* can_accept refuses exactly what the contract refuses. *)
LEMMA RefusalMatches ==
    ASSUME CipherInv, NEW c \in Counters, ~ CanAccept(c)
    PROVE  c \in Delivered \/ Contract!TooOld(c)
<1>1. highest \in Nat /\ c \in Nat /\ Window \in Nat
  BY CipherAssumption DEF CipherInv, CipherTypeOK, Counters
<1>2. CASE c \in seen
  BY <1>2 DEF CipherInv, SeenWasDelivered
<1>3. CASE receivedAny /\ c < highest /\ highest - c >= Window
  <2>1. highest \in Delivered
    BY <1>3 DEF CipherInv, HighestIsDelivered
  <2>2. highest >= c + Window
    BY <1>3, <1>1
  <2> QED BY <2>1, <2>2 DEF Contract!TooOld
<1> QED BY <1>2, <1>3 DEF CanAccept

(* A call that fails before the window is asked changes nothing the contract sees. *)
LEMMA RejectImplements ==
    ASSUME NEW why, why \notin {"ok", "replay"}, Reject(why)
    PROVE  Contract!Other
BY DEF Reject, Contract!Other, Delivered

(* A datagram the window refuses is one the contract refuses. *)
LEMMA RefuseImplements ==
    ASSUME CipherInv, NEW c \in Counters, ~ CanAccept(c), Reject("replay")
    PROVE  Contract!Refuse(c)
<1>1. Delivered' = Delivered
  BY DEF Reject, Delivered
<1> QED BY <1>1, RefusalMatches DEF Reject, Contract!Refuse

(* A datagram the window accepts is one the contract accepts. *)
LEMMA AcceptImplements ==
    ASSUME CipherInv, NEW c \in Counters, CanAccept(c), Record(c),
           opened' = [opened EXCEPT ![c] = @ + 1], result' = "ok",
           UNCHANGED <<sendCounter, sealed>>
    PROVE  Contract!Accept(c)
<1>1. c \notin Delivered /\ Delivered' = Delivered \cup {c}
  BY AcceptKeepsInv
<1>2. ~ Contract!TooOld(c)
  <2>1. SUFFICES ASSUME NEW h \in Delivered, h >= c + Window PROVE FALSE
    BY DEF Contract!TooOld
  <2>2. highest \in Nat /\ c \in Nat /\ Window \in Nat \ {0} /\ h \in Nat
    BY CipherAssumption DEF CipherInv, CipherTypeOK, Counters, Delivered
  <2>3. h <= highest /\ receivedAny
    BY DEF CipherInv, HighestIsDelivered, CipherTypeOK
  <2>4. c < highest /\ highest - c >= Window
    BY <2>1, <2>2, <2>3
  <2> QED BY <2>3, <2>4 DEF CanAccept
<1> QED BY <1>1, <1>2 DEF Contract!Accept

(* Every step of the cipher is a step of the contract or stutters. *)
LEMMA StepImplements ==
    CipherInv /\ [CipherNext]_cipherVars => [Contract!Next]_Contract!contractVars
<1> SUFFICES ASSUME CipherInv, [CipherNext]_cipherVars
             PROVE  Contract!Next \/ UNCHANGED Contract!contractVars
  OBVIOUS
<1>1. CASE Seal
  BY <1>1 DEF Seal, Contract!Next, Contract!Other, Delivered
<1>2. CASE OpenShort \/ OpenOtherDirection
  BY <1>2, RejectImplements DEF OpenShort, OpenOtherDirection, Contract!Next
<1>3. ASSUME NEW c \in Counters, OpenGenuine(c) PROVE Contract!Next
  <2>1. CASE CanAccept(c)
    BY <1>3, <2>1, AcceptImplements DEF OpenGenuine, Contract!Next
  <2>2. CASE ~ CanAccept(c)
    BY <1>3, <2>2, RefuseImplements DEF OpenGenuine, Contract!Next
  <2> QED BY <2>1, <2>2
<1>4. ASSUME NEW c \in Counters, OpenAltered(c) PROVE Contract!Next
  <2>1. CASE ~ CanAccept(c)
    BY <1>4, <2>1, RefuseImplements DEF OpenAltered, Contract!Next
  <2>2. CASE CanAccept(c)
    BY <1>4, <2>2, RejectImplements DEF OpenAltered, Contract!Next
  <2> QED BY <2>1, <2>2
<1>5. CASE UNCHANGED cipherVars
  BY <1>5 DEF cipherVars, Contract!contractVars, Delivered
<1> QED BY <1>1, <1>2, <1>3, <1>4, <1>5 DEF CipherNext

(* The window of blocks and masks (udp_gcm.rs) implements the replay rule   *)
(* of the protocol document, which remembers every counter for ever.        *)
THEOREM CipherImplementsContract == CipherSpec => ImplementsContract
<1>1. CipherInit => Contract!Init
  BY DEF CipherInit, Contract!Init, Delivered
<1>2. CipherInv /\ [CipherNext]_cipherVars => [Contract!Next]_Contract!contractVars
  BY StepImplements
<1>3. CipherSpec => []CipherInv
  BY CipherInvariant
<1>4. CipherSpec => Contract!Spec
  BY <1>1, <1>2, <1>3, PTL DEF CipherSpec, Contract!Spec
<1> QED BY <1>4 DEF ImplementsContract

(***************************************************************************)
(* Relay.  No lock spans two of the relay's maps, so the proof follows     *)
(* what a task remembers between two of its steps: which socket a client   *)
(* captured, what the registration of a name says about the task that made *)
(* it, and what a message on its way from the host still promises when it  *)
(* arrives.                                                                *)
(***************************************************************************)

\* The client steps before and after the host's channel is looked up.
BeforeLookup == {"idle", "first", "insert", "lookup"}
HoldingChannel == {"send", "waiting", "connecting", "serving", "forward", "closing"}

\* A name is registered by a task that serves it: host_socket inserts itself
\* before its loop and removes the name first thing after it.
RegisteredIsServing ==
    \A h \in HostIds :
        hosts[h] # NoSocket => /\ HostIdOf[hosts[h]] = h
                               /\ hpc[hosts[h]] \in {"serving", "exit"}

\* A client task holds a channel exactly from its lookup on, and the channel is
\* that of a socket which registered the name in the client's URL.
CapturedIsTheClients ==
    \A c \in Clients :
        /\ cpc[c] \in BeforeLookup => captured[c] = NoSocket
        /\ cpc[c] \in HoldingChannel => captured[c] # NoSocket
        /\ captured[c] # NoSocket =>
               /\ HostIdOf[captured[c]] = ClientHost[c]
               /\ hpc[captured[c]] \in {"serving", "exit", "exitSessions", "draining", "closed"}

\* The host's end of a socket is open only after serve_registration opened it,
\* once; nothing travels up before that.
UnusedSocketIsQuiet ==
    \A s \in HostSockets : hpc[s] = "idle" => ~ hostEnd[s] /\ up[s] = <<>>

\* An Accept on its way up, and one that fired the oneshot, speak of a session
\* told to this socket and, while the host's end lives, bridged there.
AcceptComing ==
    \A s \in HostSockets : \A i \in 1 .. Len(up[s]) :
        up[s][i].kind = "accept" =>
            /\ captured[up[s][i].session] = s
            /\ hostEnd[s] => up[s][i].session \in link[s]

AcceptFired ==
    \A c \in Clients :
        accept[c] = "sent" =>
            /\ captured[c] # NoSocket
            /\ hostEnd[captured[c]] => c \in link[captured[c]]

\* Connected was sent because the oneshot fired.
ConnectedIsAccepted ==
    \A c \in Clients : cpc[c] \in {"connecting", "serving", "forward"} => accept[c] = "sent"

RelayInv ==
    /\ RelayTypeOK
    /\ RegisteredIsServing
    /\ CapturedIsTheClients
    /\ UnusedSocketIsQuiet
    /\ AcceptComing
    /\ AcceptFired
    /\ ConnectedIsAccepted
    /\ NoLeakedSession
    /\ HostGoneDropsSessions
    /\ FramesStayWithTheirHost

-----------------------------------------------------------------------------
(* The queues: what a push or a pop leaves in place. *)

\* A push at the end keeps the entries before it.
LEMMA Pushed ==
    ASSUME NEW S, NEW q \in Seq(S), NEW e \in S
    PROVE  /\ Append(q, e) \in Seq(S)
           /\ \A i \in 1 .. Len(Append(q, e)) :
                  \/ i \in 1 .. Len(q) /\ Append(q, e)[i] = q[i]
                  \/ Append(q, e)[i] = e
  OBVIOUS

\* A pop keeps the entries behind the head.
LEMMA Popped ==
    ASSUME NEW S, NEW q \in Seq(S), q # <<>>
    PROVE  /\ Tail(q) \in Seq(S)
           /\ 1 \in 1 .. Len(q) /\ Head(q) = q[1] /\ q[1] \in S
           /\ \A i \in 1 .. Len(Tail(q)) : i + 1 \in 1 .. Len(q) /\ Tail(q)[i] = q[i + 1]
  OBVIOUS

\* The messages the tasks build.
LEMMA Built ==
    ASSUME NEW c \in Clients
    PROVE  /\ Incoming(c) \in Messages /\ Incoming(c).session = c
           /\ Frame(c) \in Messages /\ Frame(c).session = c /\ Frame(c).kind = "frame"
           /\ AcceptMsg(c) \in Messages /\ AcceptMsg(c).session = c
  BY DEF Incoming, Frame, AcceptMsg, Messages

\* Every queued message names a client.
LEMMA Addressed ==
    ASSUME NEW q \in Seq(Messages), NEW i \in 1 .. Len(q)
    PROVE  q[i].session \in Clients
  <1>1. q[i] \in Messages
    OBVIOUS
  <1> QED BY <1>1 DEF Messages

\* A message of a session pushed on the channel of the socket its client captured.
LEMMA PushToHost ==
    ASSUME RelayTypeOK, FramesStayWithTheirHost, NEW s \in HostSockets, NEW m \in Messages,
           captured[m.session] = s, hq' = [hq EXCEPT ![s] = Append(@, m)],
           captured' = captured, cq' = cq
    PROVE  hq' \in [HostSockets -> Seq(Messages)] /\ FramesStayWithTheirHost'
  <1>1. hq[s] \in Seq(Messages) /\ hq'[s] = Append(hq[s], m)
    BY DEF RelayTypeOK
  <1>2. hq' \in [HostSockets -> Seq(Messages)]
    BY <1>1, Pushed DEF RelayTypeOK
  <1>3. ASSUME NEW t \in HostSockets, NEW i \in 1 .. Len(hq'[t])
        PROVE  captured[hq'[t][i].session] = t
    <2>1. CASE t = s
      BY <1>1, <2>1, Pushed DEF FramesStayWithTheirHost
    <2>2. CASE t # s
      BY <2>2 DEF RelayTypeOK, FramesStayWithTheirHost
    <2> QED BY <2>1, <2>2
  <1> QED BY <1>2, <1>3 DEF FramesStayWithTheirHost

\* The host's writer takes the next message, or the rest is dropped with rx.
LEMMA PopToHost ==
    ASSUME RelayTypeOK, FramesStayWithTheirHost, NEW s \in HostSockets, hq[s] # <<>>,
           hq' = [hq EXCEPT ![s] = Tail(@)], captured' = captured, cq' = cq
    PROVE  hq' \in [HostSockets -> Seq(Messages)] /\ FramesStayWithTheirHost'
  <1>1. hq[s] \in Seq(Messages) /\ hq'[s] = Tail(hq[s])
    BY DEF RelayTypeOK
  <1>2. hq' \in [HostSockets -> Seq(Messages)]
    BY <1>1, Popped DEF RelayTypeOK
  <1>3. ASSUME NEW t \in HostSockets, NEW i \in 1 .. Len(hq'[t])
        PROVE  captured[hq'[t][i].session] = t
    <2>1. CASE t = s
      BY <1>1, <2>1, Popped DEF FramesStayWithTheirHost
    <2>2. CASE t # s
      BY <2>2 DEF RelayTypeOK, FramesStayWithTheirHost
    <2> QED BY <2>1, <2>2
  <1> QED BY <1>2, <1>3 DEF FramesStayWithTheirHost

\* The host sends a message up: a frame, or an Accept for a bridged session.
LEMMA PushUp ==
    ASSUME RelayTypeOK, AcceptComing, NEW s \in HostSockets, NEW m \in Messages,
           up' = [up EXCEPT ![s] = Append(@, m)],
           captured' = captured, hostEnd' = hostEnd,
           link' \in [HostSockets -> SUBSET Clients],
           \A t \in HostSockets : link[t] \subseteq link'[t],
           m.kind = "accept" => captured[m.session] = s /\ m.session \in link'[s]
    PROVE  up' \in [HostSockets -> Seq(Messages)] /\ AcceptComing'
  <1>1. up[s] \in Seq(Messages) /\ up'[s] = Append(up[s], m)
    BY DEF RelayTypeOK
  <1>2. up' \in [HostSockets -> Seq(Messages)]
    BY <1>1, Pushed DEF RelayTypeOK
  <1>3. ASSUME NEW t \in HostSockets, NEW i \in 1 .. Len(up'[t]), up'[t][i].kind = "accept"
        PROVE  /\ captured[up'[t][i].session] = t
               /\ hostEnd[t] => up'[t][i].session \in link'[t]
    <2>1. CASE t = s
      BY <1>1, <1>3, <2>1, Pushed DEF AcceptComing
    <2>2. CASE t # s
      BY <1>3, <2>2 DEF RelayTypeOK, AcceptComing
    <2> QED BY <2>1, <2>2
  <1> QED BY <1>2, <1>3 DEF AcceptComing

\* The relay takes the next message of a host.
LEMMA PopUp ==
    ASSUME RelayTypeOK, AcceptComing, NEW s \in HostSockets, up[s] # <<>>,
           up' = [up EXCEPT ![s] = Tail(@)],
           captured' = captured, hostEnd' = hostEnd, link' = link
    PROVE  up' \in [HostSockets -> Seq(Messages)] /\ AcceptComing'
  <1>1. up[s] \in Seq(Messages) /\ up'[s] = Tail(up[s])
    BY DEF RelayTypeOK
  <1>2. up' \in [HostSockets -> Seq(Messages)]
    BY <1>1, Popped DEF RelayTypeOK
  <1>3. ASSUME NEW t \in HostSockets, NEW i \in 1 .. Len(up'[t]), up'[t][i].kind = "accept"
        PROVE  /\ captured[up'[t][i].session] = t
               /\ hostEnd[t] => up'[t][i].session \in link[t]
    <2>1. CASE t = s
      BY <1>1, <1>3, <2>1, Popped DEF AcceptComing
    <2>2. CASE t # s
      BY <1>3, <2>2 DEF RelayTypeOK, AcceptComing
    <2> QED BY <2>1, <2>2
  <1> QED BY <1>2, <1>3 DEF AcceptComing

-----------------------------------------------------------------------------
(* The invariant. *)

\* The relay starts with empty maps and no task.
LEMMA RelayInitially == RelayInit => RelayInv
  <1> SUFFICES ASSUME RelayInit PROVE RelayInv
    OBVIOUS
  <1>1. RelayTypeOK
    BY RelayAssumption DEF RelayInit, RelayTypeOK, HostSteps, ClientSteps
  <1> QED BY <1>1 DEF RelayInv, RelayInit, RegisteredIsServing, CapturedIsTheClients,
          UnusedSocketIsQuiet, AcceptComing, AcceptFired, ConnectedIsAccepted,
          NoLeakedSession, HostGoneDropsSessions, FramesStayWithTheirHost, BeforeLookup, HoldingChannel

\* The steps of a host's task and of the host behind it keep the invariant. It is at risk where
\* one task works in two map operations: the halves of drop_host, an Accept that arrives after
\* its client left or after the host's end failed.
LEMMA HostTaskKeeps ==
    ASSUME RelayInv, NEW s \in HostSockets,
           HostConnects(s) \/ Register(s) \/ DropHost(s) \/ DropSessions(s) \/
           InsertHost(s) \/ HandleHostText(s) \/ ForwardFromHost(s) \/ HostLoopEnds(s)
           \/ WriterSends(s) \/ HostTaskEnds(s) \/ (\E c \in Clients : HostUplink(s,
           c)) \/ HostEndFails(s)
    PROVE  RelayInv'
  <1> USE DEF RelayInv
  <1>1. CASE HostConnects(s)
    <2>1. RelayTypeOK'
      BY <1>1 DEF RelayTypeOK, HostSteps, HostConnects, HostStep, relayClientVars
    <2>2. RegisteredIsServing'
      BY <1>1 DEF RelayTypeOK, RegisteredIsServing, HostConnects, HostStep, relayClientVars
    <2>3. CapturedIsTheClients'
      BY <1>1 DEF RelayTypeOK, CapturedIsTheClients, BeforeLookup, HoldingChannel,
         HostConnects, HostStep, relayClientVars
    <2>4. UnusedSocketIsQuiet'
      BY <1>1 DEF RelayTypeOK, UnusedSocketIsQuiet, HostConnects, HostStep, relayClientVars
    <2>5. AcceptComing'
      <3>1. up[s] = <<>> /\ \A t \in HostSockets : t # s => hostEnd'[t] = hostEnd[t]
        BY <1>1 DEF RelayTypeOK, UnusedSocketIsQuiet, HostConnects, HostStep
      <3>2. captured' = captured /\ link' = link /\ up' = up
        BY <1>1 DEF HostConnects, relayClientVars
      <3> QED BY <3>1, <3>2 DEF AcceptComing
    <2>6. AcceptFired'
      <3>1. \A c \in Clients : captured[c] # s
        BY <1>1, RelayAssumption DEF RelayTypeOK, CapturedIsTheClients, HostConnects, HostStep
      <3> QED BY <1>1, <3>1 DEF RelayTypeOK, AcceptFired, HostConnects, relayClientVars
    <2>7. HostGoneDropsSessions'
      BY <1>1 DEF RelayTypeOK, HostGoneDropsSessions, HostConnects, HostStep, relayClientVars
    <2>8. ConnectedIsAccepted' /\ NoLeakedSession' /\ FramesStayWithTheirHost'
      BY <1>1 DEF ConnectedIsAccepted, NoLeakedSession, FramesStayWithTheirHost, HostConnects,
         HostStep, relayClientVars
    <2> QED BY <2>1, <2>2, <2>3, <2>4, <2>5, <2>6, <2>7, <2>8
  <1>2. CASE Register(s)
    <2>1. RelayTypeOK'
      BY <1>2 DEF RelayTypeOK, HostSteps, Register, HostStep, relayClientVars, endVars
    <2>2. RegisteredIsServing'
      <3> SUFFICES ASSUME NEW h \in HostIds, hosts'[h] # NoSocket
                   PROVE  HostIdOf[hosts'[h]] = h /\ hpc'[hosts'[h]] \in {"serving", "exit"}
        BY DEF RegisteredIsServing
      <3>1. hosts[h] # NoSocket /\ hosts'[h] = hosts[h] /\ hosts[h] \in HostSockets
        BY <1>2, RelayAssumption DEF RelayTypeOK, Register
      <3>2. hosts[h] # s
        BY <1>2, <3>1, RelayAssumption DEF RelayTypeOK, RegisteredIsServing, Register, HostStep
      <3> QED BY <1>2, <3>1, <3>2 DEF RelayTypeOK, RegisteredIsServing, Register, HostStep
    <2>3. CapturedIsTheClients'
      BY <1>2 DEF RelayTypeOK, CapturedIsTheClients, BeforeLookup, HoldingChannel, Register,
         HostStep, relayClientVars, endVars
    <2>4. UnusedSocketIsQuiet'
      BY <1>2 DEF RelayTypeOK, UnusedSocketIsQuiet, Register, HostStep, relayClientVars,
         endVars
    <2>5. HostGoneDropsSessions'
      <3>1. \A c \in Clients : captured[c] # s
        BY <1>2, RelayAssumption DEF RelayTypeOK, CapturedIsTheClients, Register, HostStep
      <3> QED BY <1>2, <3>1 DEF RelayTypeOK, HostGoneDropsSessions, Register, HostStep, relayClientVars
    <2>6. AcceptComing' /\ AcceptFired' /\ ConnectedIsAccepted' /\ NoLeakedSession' /\
          FramesStayWithTheirHost'
      BY <1>2 DEF AcceptComing, AcceptFired, ConnectedIsAccepted, NoLeakedSession,
         FramesStayWithTheirHost, Register, HostStep, relayClientVars, endVars
    <2> QED BY <2>1, <2>2, <2>3, <2>4, <2>5, <2>6
  <1>3. CASE DropHost(s)
    <2>1. RelayTypeOK'
      BY <1>3 DEF RelayTypeOK, HostSteps, DropHost, HostStep, relayClientVars, endVars
    <2>2. RegisteredIsServing'
      <3> SUFFICES ASSUME NEW h \in HostIds, hosts'[h] # NoSocket
                   PROVE  HostIdOf[hosts'[h]] = h /\ hpc'[hosts'[h]] \in {"serving", "exit"}
        BY DEF RegisteredIsServing
      <3>1. hosts[h] # NoSocket /\ hosts'[h] = hosts[h] /\ hosts[h] \in HostSockets
        BY <1>3, RelayAssumption DEF RelayTypeOK, DropHost
      <3>2. hosts[h] # s
        BY <1>3, <3>1, RelayAssumption DEF RelayTypeOK, RegisteredIsServing, DropHost, HostStep
      <3> QED BY <1>3, <3>1, <3>2 DEF RelayTypeOK, RegisteredIsServing, DropHost, HostStep
    <2>3. CapturedIsTheClients'
      BY <1>3 DEF RelayTypeOK, CapturedIsTheClients, BeforeLookup, HoldingChannel, DropHost,
         HostStep, relayClientVars, endVars
    <2>4. UnusedSocketIsQuiet'
      BY <1>3 DEF RelayTypeOK, UnusedSocketIsQuiet, DropHost, HostStep, relayClientVars,
         endVars
    <2>5. HostGoneDropsSessions'
      BY <1>3 DEF RelayTypeOK, HostGoneDropsSessions, DropHost, HostStep, relayClientVars,
         endVars
    <2>6. AcceptComing' /\ AcceptFired' /\ ConnectedIsAccepted' /\ NoLeakedSession' /\
          FramesStayWithTheirHost'
      BY <1>3 DEF AcceptComing, AcceptFired, ConnectedIsAccepted, NoLeakedSession,
         FramesStayWithTheirHost, DropHost, HostStep, relayClientVars, endVars
    <2> QED BY <2>1, <2>2, <2>3, <2>4, <2>5, <2>6
  <1>4. CASE DropSessions(s)
    <2>1. RelayTypeOK'
      BY <1>4 DEF RelayTypeOK, HostSteps, DropSessions, HostStep, relayClientVars, endVars
    <2>2. RegisteredIsServing'
      <3> SUFFICES ASSUME NEW h \in HostIds, hosts'[h] # NoSocket
                   PROVE  HostIdOf[hosts'[h]] = h /\ hpc'[hosts'[h]] \in {"serving", "exit"}
        BY DEF RegisteredIsServing
      <3>1. hosts[h] # NoSocket /\ hosts'[h] = hosts[h] /\ hosts[h] \in HostSockets
        BY <1>4, RelayAssumption DEF RelayTypeOK, DropSessions
      <3>2. hosts[h] # s
        BY <1>4, <3>1, RelayAssumption DEF RelayTypeOK, RegisteredIsServing, DropSessions, HostStep
      <3> QED BY <1>4, <3>1, <3>2 DEF RelayTypeOK, RegisteredIsServing, DropSessions, HostStep
    <2>3. CapturedIsTheClients'
      BY <1>4 DEF RelayTypeOK, CapturedIsTheClients, BeforeLookup, HoldingChannel,
         DropSessions, HostStep, relayClientVars, endVars
    <2>4. UnusedSocketIsQuiet'
      BY <1>4 DEF RelayTypeOK, UnusedSocketIsQuiet, DropSessions, HostStep, relayClientVars,
         endVars
    <2>5. NoLeakedSession'
      BY <1>4 DEF RelayTypeOK, NoLeakedSession, DropSessions, HostStep, relayClientVars,
         endVars
    <2>6. HostGoneDropsSessions'
      <3>1. ASSUME NEW c \in Clients, captured[c] = s PROVE c \notin sessions'
        <4>1. HostIdOf[s] = ClientHost[c]
          BY <3>1, RelayAssumption DEF CapturedIsTheClients
        <4> QED BY <1>4, <4>1 DEF DropSessions, SessionsOf
      <3> QED BY <1>4, <3>1 DEF RelayTypeOK, HostGoneDropsSessions, DropSessions, HostStep, relayClientVars
    <2>7. AcceptComing' /\ AcceptFired' /\ ConnectedIsAccepted' /\ FramesStayWithTheirHost'
      BY <1>4 DEF AcceptComing, AcceptFired, ConnectedIsAccepted, FramesStayWithTheirHost,
         DropSessions, HostStep, relayClientVars, endVars
    <2> QED BY <2>1, <2>2, <2>3, <2>4, <2>5, <2>6, <2>7
  <1>5. CASE InsertHost(s)
    <2>1. RelayTypeOK'
      BY <1>5 DEF RelayTypeOK, HostSteps, InsertHost, HostStep, relayClientVars, endVars
    <2>2. RegisteredIsServing'
      BY <1>5 DEF RelayTypeOK, RegisteredIsServing, InsertHost, HostStep, relayClientVars,
         endVars
    <2>3. CapturedIsTheClients'
      BY <1>5 DEF RelayTypeOK, CapturedIsTheClients, BeforeLookup, HoldingChannel, InsertHost,
         HostStep, relayClientVars, endVars
    <2>4. UnusedSocketIsQuiet'
      BY <1>5 DEF RelayTypeOK, UnusedSocketIsQuiet, InsertHost, HostStep, relayClientVars,
         endVars
    <2>5. HostGoneDropsSessions'
      BY <1>5 DEF RelayTypeOK, HostGoneDropsSessions, InsertHost, HostStep, relayClientVars,
         endVars
    <2>6. AcceptComing' /\ AcceptFired' /\ ConnectedIsAccepted' /\ NoLeakedSession' /\
          FramesStayWithTheirHost'
      BY <1>5 DEF AcceptComing, AcceptFired, ConnectedIsAccepted, NoLeakedSession,
         FramesStayWithTheirHost, InsertHost, HostStep, relayClientVars, endVars
    <2> QED BY <2>1, <2>2, <2>3, <2>4, <2>5, <2>6
  <1>6. CASE HandleHostText(s)
    <2>1. RelayTypeOK'
      <3>1. up' \in [HostSockets -> Seq(Messages)]
        BY <1>6, PopUp DEF HandleHostText, relayClientVars
      <3>2. accept' \in [Clients -> {"none", "armed", "sent"}]
        BY <1>6 DEF RelayTypeOK, HandleHostText, SessionsOf
      <3> QED BY <1>6, <3>1, <3>2 DEF RelayTypeOK, HandleHostText, hostVars, relayClientVars
    <2>2. UnusedSocketIsQuiet'
      BY <1>6 DEF RelayTypeOK, UnusedSocketIsQuiet, HandleHostText, hostVars, relayClientVars
    <2>3. AcceptComing'
      BY <1>6, PopUp DEF HandleHostText, relayClientVars
    <2>4. AcceptFired'
      <3>1. up[s] \in Seq(Messages) /\ up[s] # <<>>
        BY <1>6 DEF RelayTypeOK, HandleHostText
      <3> DEFINE c == Head(up[s]).session
      <3>2. c \in Clients /\ captured[c] = s /\ (hostEnd[s] => c \in link[s])
        <4>1. Head(up[s]) = up[s][1] /\ 1 \in 1 .. Len(up[s]) /\ up[s][1] \in Messages
          BY <3>1, Popped
        <4> QED BY <1>6, <4>1 DEF AcceptComing, HandleHostText, Messages
      <3>3. accept' \in {accept, [accept EXCEPT ![c] = "sent"]}
        BY <1>6 DEF HandleHostText
      <3> HIDE DEF c
      <3> QED BY <1>6, <3>2, <3>3, RelayAssumption DEF RelayTypeOK, AcceptFired, HandleHostText, relayClientVars
    <2>5. ConnectedIsAccepted'
      BY <1>6 DEF RelayTypeOK, ConnectedIsAccepted, HandleHostText, hostVars, relayClientVars
    <2>6. RegisteredIsServing' /\ CapturedIsTheClients' /\ NoLeakedSession' /\
          HostGoneDropsSessions' /\ FramesStayWithTheirHost'
      BY <1>6 DEF RegisteredIsServing, CapturedIsTheClients, NoLeakedSession,
         HostGoneDropsSessions, FramesStayWithTheirHost, HandleHostText, hostVars,
         relayClientVars
    <2> QED BY <2>1, <2>2, <2>3, <2>4, <2>5, <2>6
  <1>7. CASE ForwardFromHost(s)
    <2>1. RelayTypeOK'
      <3>1. up' \in [HostSockets -> Seq(Messages)]
        BY <1>7, PopUp DEF ForwardFromHost
      <3>2. sessions' \subseteq Clients
        BY <1>7 DEF RelayTypeOK, ForwardFromHost
      <3>3. cq' \in [Clients -> Seq(HostSockets)]
        <4> DEFINE c == Head(up[s]).session
        <4>1. CASE cq' = cq
          BY <4>1 DEF RelayTypeOK
        <4>2. CASE c \in SessionsOf(HostIdOf[s]) /\ cq' = [cq EXCEPT ![c] = Append(@, s)]
          <5>1. c \in Clients
            BY <4>2 DEF RelayTypeOK, SessionsOf
          <5> HIDE DEF c
          <5>2. Append(cq[c], s) \in Seq(HostSockets)
            BY <5>1, Pushed DEF RelayTypeOK
          <5> QED BY <4>2, <5>1, <5>2 DEF RelayTypeOK
        <4> QED BY <1>7, <4>1, <4>2 DEF ForwardFromHost
      <3> QED BY <1>7, <3>1, <3>2, <3>3 DEF RelayTypeOK, ForwardFromHost, hostVars
    <2>2. UnusedSocketIsQuiet'
      BY <1>7 DEF RelayTypeOK, UnusedSocketIsQuiet, ForwardFromHost, hostVars
    <2>3. AcceptComing'
      BY <1>7, PopUp DEF ForwardFromHost
    <2>4. NoLeakedSession'
      BY <1>7 DEF RelayTypeOK, NoLeakedSession, ForwardFromHost, hostVars
    <2>5. HostGoneDropsSessions'
      BY <1>7 DEF RelayTypeOK, HostGoneDropsSessions, ForwardFromHost, hostVars
    <2>6. FramesStayWithTheirHost'
      <3> DEFINE c == Head(up[s]).session
      <3>1. CASE cq' = cq
        BY <1>7, <3>1 DEF FramesStayWithTheirHost, ForwardFromHost, hostVars
      <3>2. CASE c \in SessionsOf(HostIdOf[s]) /\ cq' = [cq EXCEPT ![c] = Append(@, s)]
        <4>1. c \in Clients /\ ClientHost[c] = HostIdOf[s] /\ cq[c] \in Seq(HostSockets)
          BY <3>2 DEF RelayTypeOK, SessionsOf
        <4> HIDE DEF c
        <4>2. cq'[c] = Append(cq[c], s) /\ \A d \in Clients : d # c => cq'[d] = cq[d]
          BY <3>2, <4>1 DEF RelayTypeOK
        <4>3. \A i \in 1 .. Len(cq'[c]) : HostIdOf[cq'[c][i]] = ClientHost[c]
          BY <4>1, <4>2, Pushed DEF FramesStayWithTheirHost
        <4>4. hq' = hq /\ captured' = captured
          BY <1>7 DEF ForwardFromHost, hostVars
        <4> QED BY <4>1, <4>2, <4>3, <4>4 DEF FramesStayWithTheirHost
      <3> QED BY <1>7, <3>1, <3>2 DEF ForwardFromHost
    <2>7. RegisteredIsServing' /\ CapturedIsTheClients' /\ AcceptFired' /\
          ConnectedIsAccepted'
      BY <1>7 DEF RegisteredIsServing, CapturedIsTheClients, AcceptFired, ConnectedIsAccepted,
         ForwardFromHost, hostVars
    <2> QED BY <2>1, <2>2, <2>3, <2>4, <2>5, <2>6, <2>7
  <1>8. CASE HostLoopEnds(s)
    <2>1. RelayTypeOK'
      BY <1>8 DEF RelayTypeOK, HostSteps, HostLoopEnds, HostStep, relayClientVars, endVars
    <2>2. RegisteredIsServing'
      BY <1>8 DEF RelayTypeOK, RegisteredIsServing, HostLoopEnds, HostStep, relayClientVars,
         endVars
    <2>3. CapturedIsTheClients'
      BY <1>8 DEF RelayTypeOK, CapturedIsTheClients, BeforeLookup, HoldingChannel,
         HostLoopEnds, HostStep, relayClientVars, endVars
    <2>4. UnusedSocketIsQuiet'
      BY <1>8 DEF RelayTypeOK, UnusedSocketIsQuiet, HostLoopEnds, HostStep, relayClientVars,
         endVars
    <2>5. HostGoneDropsSessions'
      BY <1>8 DEF RelayTypeOK, HostGoneDropsSessions, HostLoopEnds, HostStep, relayClientVars,
         endVars
    <2>6. AcceptComing' /\ AcceptFired' /\ ConnectedIsAccepted' /\ NoLeakedSession' /\
          FramesStayWithTheirHost'
      BY <1>8 DEF AcceptComing, AcceptFired, ConnectedIsAccepted, NoLeakedSession,
         FramesStayWithTheirHost, HostLoopEnds, HostStep, relayClientVars, endVars
    <2> QED BY <2>1, <2>2, <2>3, <2>4, <2>5, <2>6
  <1>9. CASE WriterSends(s)
    <2>a. hq[s] \in Seq(Messages) /\ hq[s] # <<>> /\ captured' = captured
      BY <1>9 DEF RelayTypeOK, WriterSends, relayClientVars
    <2> DEFINE m == Head(hq[s])
    <2>b. m.session \in Clients /\ captured[m.session] = s
      <3>1. m = hq[s][1] /\ 1 \in 1 .. Len(hq[s]) /\ hq[s][1] \in Messages
        BY <2>a, Popped
      <3> QED BY <3>1 DEF FramesStayWithTheirHost, Messages
    <2>c. \/ link' = link /\ up' = up
          \/ /\ hostEnd[s]
             /\ link' = [link EXCEPT ![s] = @ \cup {m.session}]
             /\ up' = [up EXCEPT ![s] = Append(@, AcceptMsg(m.session))]
      BY <1>9 DEF WriterSends
    <2> HIDE DEF m
    <2>d. link' \in [HostSockets -> SUBSET Clients] /\ \A t \in HostSockets : link[t] \subseteq link'[t]
      <3>1. CASE link' = link
        BY <3>1 DEF RelayTypeOK
      <3>2. CASE link' = [link EXCEPT ![s] = @ \cup {m.session}]
        <4>1. link[s] \cup {m.session} \in SUBSET Clients
          BY <2>b DEF RelayTypeOK
        <4>2. link'[s] = link[s] \cup {m.session} /\ \A t \in HostSockets : t # s => link'[t] = link[t]
          BY <3>2 DEF RelayTypeOK
        <4> QED BY <3>2, <4>1, <4>2 DEF RelayTypeOK
      <3> QED BY <2>c, <3>1, <3>2
    <2>e. up' \in [HostSockets -> Seq(Messages)] /\ AcceptComing'
      <3>1. CASE link' = link /\ up' = up
        BY <1>9, <2>a, <3>1 DEF RelayTypeOK, AcceptComing, WriterSends
      <3>2. CASE /\ link' = [link EXCEPT ![s] = @ \cup {m.session}]
                 /\ up' = [up EXCEPT ![s] = Append(@, AcceptMsg(m.session))]
        <4>1. /\ AcceptMsg(m.session) \in Messages /\ AcceptMsg(m.session).session = m.session
              /\ m.session \in link'[s]
          BY <2>b, <3>2, Built DEF RelayTypeOK
        <4> QED BY <1>9, <2>a, <2>b, <2>d, <3>2, <4>1, PushUp DEF WriterSends
      <3> QED BY <2>c, <3>1, <3>2
    <2>1. RelayTypeOK'
      <3>1. hq' \in [HostSockets -> Seq(Messages)]
        BY <1>9, PopToHost DEF WriterSends, relayClientVars
      <3>2. writer' \in [HostSockets -> BOOLEAN]
        BY <1>9 DEF RelayTypeOK, WriterSends
      <3> QED BY <1>9, <2>d, <2>e, <3>1, <3>2 DEF RelayTypeOK, WriterSends, relayClientVars
    <2>2. UnusedSocketIsQuiet'
      BY <1>9, <2>c DEF RelayTypeOK, UnusedSocketIsQuiet, WriterSends
    <2>3. AcceptComing'
      BY <2>e
    <2>4. AcceptFired'
      BY <1>9, <2>a, <2>d DEF RelayTypeOK, AcceptFired, WriterSends
    <2>5. FramesStayWithTheirHost'
      BY <1>9, PopToHost DEF WriterSends, relayClientVars
    <2>6. RegisteredIsServing' /\ CapturedIsTheClients' /\ ConnectedIsAccepted' /\
          NoLeakedSession' /\ HostGoneDropsSessions'
      BY <1>9 DEF RegisteredIsServing, CapturedIsTheClients, ConnectedIsAccepted,
         NoLeakedSession, HostGoneDropsSessions, WriterSends, relayClientVars
    <2> QED BY <2>1, <2>2, <2>3, <2>4, <2>5, <2>6
  <1>10. CASE HostTaskEnds(s)
    <2>1. RelayTypeOK'
      <3>1. <<>> \in Seq(Messages)
        OBVIOUS
      <3>2. hq' \in [HostSockets -> Seq(Messages)]
        BY <1>10, <3>1 DEF RelayTypeOK, HostTaskEnds
      <3>3. hpc' \in [HostSockets -> HostSteps] /\ writer' \in [HostSockets -> BOOLEAN]
        BY <1>10 DEF RelayTypeOK, HostTaskEnds, HostStep, HostSteps
      <3> QED BY <1>10, <3>2, <3>3 DEF RelayTypeOK, HostTaskEnds, relayClientVars, endVars
    <2>2. RegisteredIsServing'
      BY <1>10 DEF RelayTypeOK, RegisteredIsServing, HostTaskEnds, HostStep, relayClientVars,
         endVars
    <2>3. CapturedIsTheClients'
      BY <1>10 DEF RelayTypeOK, CapturedIsTheClients, BeforeLookup, HoldingChannel,
         HostTaskEnds, HostStep, relayClientVars, endVars
    <2>4. UnusedSocketIsQuiet'
      BY <1>10 DEF RelayTypeOK, UnusedSocketIsQuiet, HostTaskEnds, HostStep, relayClientVars,
         endVars
    <2>5. HostGoneDropsSessions'
      BY <1>10 DEF RelayTypeOK, HostGoneDropsSessions, HostTaskEnds, HostStep,
         relayClientVars, endVars
    <2>6. FramesStayWithTheirHost'
      BY <1>10 DEF RelayTypeOK, FramesStayWithTheirHost, HostTaskEnds, HostStep,
         relayClientVars, endVars
    <2>7. AcceptComing' /\ AcceptFired' /\ ConnectedIsAccepted' /\ NoLeakedSession'
      BY <1>10 DEF AcceptComing, AcceptFired, ConnectedIsAccepted, NoLeakedSession,
         HostTaskEnds, HostStep, relayClientVars, endVars
    <2> QED BY <2>1, <2>2, <2>3, <2>4, <2>5, <2>6, <2>7
  <1>11. ASSUME NEW c \in Clients, HostUplink(s, c) PROVE RelayInv'
    <2>1. RelayTypeOK'
      <3>1. up' \in [HostSockets -> Seq(Messages)]
        BY <1>11, Built, Pushed DEF RelayTypeOK, HostUplink
      <3> QED BY <1>11, <3>1 DEF RelayTypeOK, HostUplink, hostVars, relayClientVars
    <2>2. UnusedSocketIsQuiet'
      BY <1>11 DEF RelayTypeOK, UnusedSocketIsQuiet, HostUplink, hostVars, relayClientVars
    <2>3. AcceptComing'
      <3>1. Frame(c) \in Messages /\ Frame(c).kind # "accept"
        BY Built
      <3> QED BY <1>11, <3>1, PushUp DEF RelayTypeOK, HostUplink, relayClientVars
    <2>4. RegisteredIsServing' /\ CapturedIsTheClients' /\ AcceptFired' /\
          ConnectedIsAccepted' /\ NoLeakedSession' /\ HostGoneDropsSessions' /\
          FramesStayWithTheirHost'
      BY <1>11 DEF RegisteredIsServing, CapturedIsTheClients, AcceptFired,
         ConnectedIsAccepted, NoLeakedSession, HostGoneDropsSessions, FramesStayWithTheirHost,
         HostUplink, hostVars, relayClientVars
    <2> QED BY <2>1, <2>2, <2>3, <2>4
  <1>12. CASE HostEndFails(s)
    <2>1. RelayTypeOK'
      <3>1. up' \in [HostSockets -> Seq(Messages)]
        <4>1. <<>> \in Seq(Messages)
          OBVIOUS
        <4> QED BY <1>12, <4>1 DEF RelayTypeOK, HostEndFails
      <3> QED BY <1>12, <3>1 DEF RelayTypeOK, HostEndFails, hostVars, relayClientVars
    <2>2. UnusedSocketIsQuiet'
      BY <1>12 DEF RelayTypeOK, UnusedSocketIsQuiet, HostEndFails, hostVars, relayClientVars
    <2>3. AcceptComing'
      BY <1>12 DEF RelayTypeOK, AcceptComing, HostEndFails, hostVars, relayClientVars
    <2>4. AcceptFired'
      BY <1>12 DEF RelayTypeOK, AcceptFired, HostEndFails, hostVars, relayClientVars
    <2>5. RegisteredIsServing' /\ CapturedIsTheClients' /\ ConnectedIsAccepted' /\
          NoLeakedSession' /\ HostGoneDropsSessions' /\ FramesStayWithTheirHost'
      BY <1>12 DEF RegisteredIsServing, CapturedIsTheClients, ConnectedIsAccepted,
         NoLeakedSession, HostGoneDropsSessions, FramesStayWithTheirHost, HostEndFails,
         hostVars, relayClientVars
    <2> QED BY <2>1, <2>2, <2>3, <2>4, <2>5
  <1> QED BY <1>1, <1>2, <1>3, <1>4, <1>5, <1>6, <1>7, <1>8, <1>9, <1>10, <1>11, <1>12

\* So do the steps of a client's task; the delicate one is the lookup of the host's channel after
\* the session was entered, when the host may have registered anew or gone.
LEMMA ClientTaskKeeps ==
    ASSUME RelayInv, NEW c \in Clients,
           ClientConnects(c) \/ ClientHello(c) \/ OpenSession(c) \/ SendIncoming(c) \/
           AcceptTimesOut(c) \/ Accepted(c) \/ SendConnected(c) \/ ClientFrame(c) \/
           ForwardFromClient(c) \/ ClientReceives(c) \/ ClientLoopEnds(c) \/
           ClientTaskEnds(c)
    PROVE  RelayInv'
  <1> USE DEF RelayInv
  <1>1. CASE ClientConnects(c)
    <2>1. RelayTypeOK'
      <3>1. cpc' \in [Clients -> ClientSteps]
        BY <1>1 DEF RelayTypeOK, ClientConnects, ClientStep, ClientSteps
      <3>2. recent' \in 0 .. ConnectLimit
        BY <1>1, RelayAssumption DEF RelayTypeOK, ClientConnects
      <3> QED BY <1>1, <3>1, <3>2 DEF RelayTypeOK, ClientConnects, hostVars, endVars
    <2>2. CapturedIsTheClients'
      BY <1>1 DEF RelayTypeOK, CapturedIsTheClients, BeforeLookup, HoldingChannel,
         ClientConnects, ClientStep, hostVars, endVars
    <2>3. ConnectedIsAccepted'
      BY <1>1 DEF RelayTypeOK, ConnectedIsAccepted, ClientConnects, ClientStep, hostVars,
         endVars
    <2>4. NoLeakedSession'
      BY <1>1 DEF RelayTypeOK, NoLeakedSession, ClientConnects, ClientStep, hostVars, endVars
    <2>5. RegisteredIsServing' /\ UnusedSocketIsQuiet' /\ AcceptComing' /\ AcceptFired' /\
          HostGoneDropsSessions' /\ FramesStayWithTheirHost'
      BY <1>1 DEF RegisteredIsServing, UnusedSocketIsQuiet, AcceptComing, AcceptFired,
         HostGoneDropsSessions, FramesStayWithTheirHost, ClientConnects, ClientStep, hostVars,
         endVars
    <2> QED BY <2>1, <2>2, <2>3, <2>4, <2>5
  <1>2. CASE ClientHello(c)
    <2>1. RelayTypeOK'
      <3>1. cpc' \in [Clients -> ClientSteps]
        BY <1>2 DEF RelayTypeOK, ClientHello, ClientStep, ClientSteps
      <3>2. recent' \in 0 .. ConnectLimit
        BY <1>2, RelayAssumption DEF RelayTypeOK, ClientHello
      <3> QED BY <1>2, <3>1, <3>2 DEF RelayTypeOK, ClientHello, hostVars, endVars
    <2>2. CapturedIsTheClients'
      BY <1>2 DEF RelayTypeOK, CapturedIsTheClients, BeforeLookup, HoldingChannel,
         ClientHello, ClientStep, hostVars, endVars
    <2>3. ConnectedIsAccepted'
      BY <1>2 DEF RelayTypeOK, ConnectedIsAccepted, ClientHello, ClientStep, hostVars,
         endVars
    <2>4. NoLeakedSession'
      BY <1>2 DEF RelayTypeOK, NoLeakedSession, ClientHello, ClientStep, hostVars, endVars
    <2>5. RegisteredIsServing' /\ UnusedSocketIsQuiet' /\ AcceptComing' /\ AcceptFired' /\
          HostGoneDropsSessions' /\ FramesStayWithTheirHost'
      BY <1>2 DEF RegisteredIsServing, UnusedSocketIsQuiet, AcceptComing, AcceptFired,
         HostGoneDropsSessions, FramesStayWithTheirHost, ClientHello, ClientStep, hostVars,
         endVars
    <2> QED BY <2>1, <2>2, <2>3, <2>4, <2>5
  <1>3. CASE OpenSession(c)
    <2>a. captured[c] = NoSocket
      BY <1>3 DEF RelayTypeOK, CapturedIsTheClients, OpenSession, ClientStep, BeforeLookup
    <2>b. accept[c] # "sent"
      BY <2>a DEF AcceptFired
    <2>c. /\ captured' \in {captured, [captured EXCEPT ![c] = hosts[ClientHost[c]]]}
          /\ accept' \in {accept, [accept EXCEPT ![c] = "armed"]}
      BY <1>3 DEF OpenSession
    <2>d. ClientHost[c] \in HostIds /\ hosts[ClientHost[c]] \in HostSockets \cup {NoSocket}
      BY RelayAssumption DEF RelayTypeOK
    <2>1. RelayTypeOK'
      <3>1. cpc' \in [Clients -> ClientSteps]
        BY <1>3 DEF RelayTypeOK, OpenSession, ClientStep, ClientSteps
      <3>2. sessions' \subseteq Clients /\ accept' \in [Clients -> {"none", "armed", "sent"}]
        BY <1>3 DEF RelayTypeOK, OpenSession
      <3>3. captured' \in [Clients -> HostSockets \cup {NoSocket}]
        BY <1>3, RelayAssumption DEF RelayTypeOK, OpenSession
      <3> QED BY <1>3, <3>1, <3>2, <3>3 DEF RelayTypeOK, OpenSession, hostVars, endVars
    <2>2. CapturedIsTheClients'
      <3>1. CASE captured' = captured /\ cpc' \in {[cpc EXCEPT ![c] = "lookup"], [cpc EXCEPT ![c] = "closed"]}
        BY <1>3, <2>a, <3>1 DEF RelayTypeOK, CapturedIsTheClients, OpenSession, hostVars, BeforeLookup, HoldingChannel
      <3>2. CASE /\ captured' = [captured EXCEPT ![c] = hosts[ClientHost[c]]]
                 /\ cpc' = [cpc EXCEPT ![c] = "send"] /\ hosts[ClientHost[c]] # NoSocket
        <4>1. /\ HostIdOf[hosts[ClientHost[c]]] = ClientHost[c]
              /\ hpc[hosts[ClientHost[c]]] \in {"serving", "exit"}
          BY <2>d, <3>2 DEF RegisteredIsServing
        <4>2. hpc' = hpc
          BY <1>3 DEF OpenSession, hostVars
        <4> QED BY <3>2, <4>1, <4>2 DEF RelayTypeOK, CapturedIsTheClients, BeforeLookup, HoldingChannel
      <3> QED BY <1>3, <3>1, <3>2 DEF OpenSession, ClientStep
    <2>3. AcceptComing'
      <3>1. ASSUME NEW s \in HostSockets, NEW i \in 1 .. Len(up[s]), up[s][i].kind = "accept"
            PROVE  captured'[up[s][i].session] = s
        <4> DEFINE d == up[s][i].session
        <4>1. up[s] \in Seq(Messages)
          BY DEF RelayTypeOK
        <4>2. d \in Clients
          BY <4>1, Addressed
        <4>3. captured[d] = s
          BY <3>1, <4>2 DEF AcceptComing
        <4> HIDE DEF d
        <4>4. captured'[d] = s
          BY <2>a, <2>c, <4>2, <4>3, RelayAssumption DEF RelayTypeOK
        <4> QED BY <4>4 DEF d
      <3> QED BY <1>3, <3>1 DEF AcceptComing, OpenSession, endVars
    <2>4. AcceptFired'
      BY <1>3, <2>a, <2>b, <2>c DEF RelayTypeOK, AcceptFired, OpenSession, endVars
    <2>5. ConnectedIsAccepted'
      BY <1>3 DEF RelayTypeOK, ConnectedIsAccepted, OpenSession, ClientStep, hostVars,
         endVars
    <2>6. NoLeakedSession'
      BY <1>3 DEF RelayTypeOK, NoLeakedSession, OpenSession, ClientStep, hostVars, endVars
    <2>7. HostGoneDropsSessions'
      <3>1. CASE captured' = captured /\ sessions' \subseteq sessions \cup {c}
        BY <1>3, <2>a, <3>1, RelayAssumption DEF RelayTypeOK, HostGoneDropsSessions, OpenSession, hostVars
      <3>2. CASE /\ captured' = [captured EXCEPT ![c] = hosts[ClientHost[c]]]
                 /\ sessions' = sessions /\ hosts[ClientHost[c]] # NoSocket
        <4>1. hpc[hosts[ClientHost[c]]] \in {"serving", "exit"}
          BY <2>d, <3>2 DEF RegisteredIsServing
        <4> QED BY <1>3, <3>2, <4>1 DEF RelayTypeOK, HostGoneDropsSessions, OpenSession, hostVars
      <3> QED BY <1>3, <3>1, <3>2 DEF OpenSession
    <2>8. FramesStayWithTheirHost'
      <3>1. ASSUME NEW s \in HostSockets, NEW i \in 1 .. Len(hq[s])
            PROVE  captured'[hq[s][i].session] = s
        <4> DEFINE d == hq[s][i].session
        <4>1. hq[s] \in Seq(Messages)
          BY DEF RelayTypeOK
        <4>2. d \in Clients
          BY <4>1, Addressed
        <4>3. captured[d] = s
          BY <4>2 DEF FramesStayWithTheirHost
        <4> HIDE DEF d
        <4>4. captured'[d] = s
          BY <2>a, <2>c, <4>2, <4>3, RelayAssumption DEF RelayTypeOK
        <4> QED BY <4>4 DEF d
      <3> QED BY <1>3, <3>1 DEF FramesStayWithTheirHost, OpenSession, hostVars
    <2>9. RegisteredIsServing' /\ UnusedSocketIsQuiet'
      BY <1>3 DEF RegisteredIsServing, UnusedSocketIsQuiet, OpenSession, ClientStep,
         hostVars, endVars
    <2> QED BY <2>1, <2>2, <2>3, <2>4, <2>5, <2>6, <2>7, <2>8, <2>9
  <1>4. CASE SendIncoming(c)
    <2>a. captured[c] \in HostSockets
      BY <1>4 DEF RelayTypeOK, CapturedIsTheClients, HoldingChannel, SendIncoming, ClientStep
    <2>b. hq' \in [HostSockets -> Seq(Messages)] /\ FramesStayWithTheirHost'
      <3>1. CASE hq' = hq
        BY <1>4, <3>1 DEF RelayTypeOK, FramesStayWithTheirHost, SendIncoming
      <3>2. CASE hq' = [hq EXCEPT ![captured[c]] = Append(@, Incoming(c))]
        <4>1. Incoming(c) \in Messages /\ Incoming(c).session = c /\ captured' = captured /\ cq' = cq
          BY <1>4, Built DEF SendIncoming
        <4> QED BY <2>a, <3>2, <4>1, PushToHost
      <3> QED BY <1>4, <3>1, <3>2 DEF SendIncoming
    <2>1. RelayTypeOK'
      <3>1. cpc' \in [Clients -> ClientSteps] /\ sessions' \subseteq Clients
        BY <1>4 DEF RelayTypeOK, SendIncoming, ClientStep, ClientSteps
      <3> QED BY <1>4, <2>b, <3>1 DEF RelayTypeOK, SendIncoming, endVars
    <2>2. CapturedIsTheClients'
      BY <1>4 DEF RelayTypeOK, CapturedIsTheClients, BeforeLookup, HoldingChannel,
         SendIncoming, ClientStep, endVars
    <2>3. ConnectedIsAccepted'
      BY <1>4 DEF RelayTypeOK, ConnectedIsAccepted, SendIncoming, ClientStep, endVars
    <2>4. NoLeakedSession'
      BY <1>4 DEF RelayTypeOK, NoLeakedSession, SendIncoming, ClientStep, endVars
    <2>5. HostGoneDropsSessions'
      BY <1>4 DEF RelayTypeOK, HostGoneDropsSessions, SendIncoming, ClientStep, endVars
    <2>6. FramesStayWithTheirHost'
      BY <2>b
    <2>7. RegisteredIsServing' /\ UnusedSocketIsQuiet' /\ AcceptComing' /\ AcceptFired'
      BY <1>4 DEF RegisteredIsServing, UnusedSocketIsQuiet, AcceptComing, AcceptFired,
         SendIncoming, ClientStep, endVars
    <2> QED BY <2>1, <2>2, <2>3, <2>4, <2>5, <2>6, <2>7
  <1>5. CASE AcceptTimesOut(c)
    <2>1. RelayTypeOK'
      BY <1>5 DEF RelayTypeOK, ClientSteps, AcceptTimesOut, ClientStep, hostVars, endVars
    <2>2. CapturedIsTheClients'
      BY <1>5 DEF RelayTypeOK, CapturedIsTheClients, BeforeLookup, HoldingChannel,
         AcceptTimesOut, ClientStep, hostVars, endVars
    <2>3. ConnectedIsAccepted'
      BY <1>5 DEF RelayTypeOK, ConnectedIsAccepted, AcceptTimesOut, ClientStep, hostVars,
         endVars
    <2>4. NoLeakedSession'
      BY <1>5 DEF RelayTypeOK, NoLeakedSession, AcceptTimesOut, ClientStep, hostVars, endVars
    <2>5. HostGoneDropsSessions'
      BY <1>5 DEF RelayTypeOK, HostGoneDropsSessions, AcceptTimesOut, ClientStep, hostVars,
         endVars
    <2>6. RegisteredIsServing' /\ UnusedSocketIsQuiet' /\ AcceptComing' /\ AcceptFired' /\
          FramesStayWithTheirHost'
      BY <1>5 DEF RegisteredIsServing, UnusedSocketIsQuiet, AcceptComing, AcceptFired,
         FramesStayWithTheirHost, AcceptTimesOut, ClientStep, hostVars, endVars
    <2> QED BY <2>1, <2>2, <2>3, <2>4, <2>5, <2>6
  <1>6. CASE Accepted(c)
    <2>1. RelayTypeOK'
      BY <1>6 DEF RelayTypeOK, ClientSteps, Accepted, ClientStep, hostVars, endVars
    <2>2. CapturedIsTheClients'
      BY <1>6 DEF RelayTypeOK, CapturedIsTheClients, BeforeLookup, HoldingChannel, Accepted,
         ClientStep, hostVars, endVars
    <2>3. ConnectedIsAccepted'
      BY <1>6 DEF RelayTypeOK, ConnectedIsAccepted, Accepted, ClientStep, hostVars, endVars
    <2>4. NoLeakedSession'
      BY <1>6 DEF RelayTypeOK, NoLeakedSession, Accepted, ClientStep, hostVars, endVars
    <2>5. RegisteredIsServing' /\ UnusedSocketIsQuiet' /\ AcceptComing' /\ AcceptFired' /\
          HostGoneDropsSessions' /\ FramesStayWithTheirHost'
      BY <1>6 DEF RegisteredIsServing, UnusedSocketIsQuiet, AcceptComing, AcceptFired,
         HostGoneDropsSessions, FramesStayWithTheirHost, Accepted, ClientStep, hostVars,
         endVars
    <2> QED BY <2>1, <2>2, <2>3, <2>4, <2>5
  <1>7. CASE SendConnected(c)
    <2>1. RelayTypeOK'
      BY <1>7 DEF RelayTypeOK, ClientSteps, SendConnected, ClientStep, hostVars, endVars
    <2>2. CapturedIsTheClients'
      BY <1>7 DEF RelayTypeOK, CapturedIsTheClients, BeforeLookup, HoldingChannel,
         SendConnected, ClientStep, hostVars, endVars
    <2>3. ConnectedIsAccepted'
      BY <1>7 DEF RelayTypeOK, ConnectedIsAccepted, SendConnected, ClientStep, hostVars,
         endVars
    <2>4. NoLeakedSession'
      BY <1>7 DEF RelayTypeOK, NoLeakedSession, SendConnected, ClientStep, hostVars, endVars
    <2>5. HostGoneDropsSessions'
      BY <1>7 DEF RelayTypeOK, HostGoneDropsSessions, SendConnected, ClientStep, hostVars,
         endVars
    <2>6. RegisteredIsServing' /\ UnusedSocketIsQuiet' /\ AcceptComing' /\ AcceptFired' /\
          FramesStayWithTheirHost'
      BY <1>7 DEF RegisteredIsServing, UnusedSocketIsQuiet, AcceptComing, AcceptFired,
         FramesStayWithTheirHost, SendConnected, ClientStep, hostVars, endVars
    <2> QED BY <2>1, <2>2, <2>3, <2>4, <2>5, <2>6
  <1>8. CASE ClientFrame(c)
    <2>1. RelayTypeOK'
      BY <1>8 DEF RelayTypeOK, ClientSteps, ClientFrame, ClientStep, hostVars, endVars
    <2>2. CapturedIsTheClients'
      BY <1>8 DEF RelayTypeOK, CapturedIsTheClients, BeforeLookup, HoldingChannel,
         ClientFrame, ClientStep, hostVars, endVars
    <2>3. ConnectedIsAccepted'
      BY <1>8 DEF RelayTypeOK, ConnectedIsAccepted, ClientFrame, ClientStep, hostVars,
         endVars
    <2>4. NoLeakedSession'
      BY <1>8 DEF RelayTypeOK, NoLeakedSession, ClientFrame, ClientStep, hostVars, endVars
    <2>5. RegisteredIsServing' /\ UnusedSocketIsQuiet' /\ AcceptComing' /\ AcceptFired' /\
          HostGoneDropsSessions' /\ FramesStayWithTheirHost'
      BY <1>8 DEF RegisteredIsServing, UnusedSocketIsQuiet, AcceptComing, AcceptFired,
         HostGoneDropsSessions, FramesStayWithTheirHost, ClientFrame, ClientStep, hostVars,
         endVars
    <2> QED BY <2>1, <2>2, <2>3, <2>4, <2>5
  <1>9. CASE ForwardFromClient(c)
    <2>a. captured[c] \in HostSockets
      BY <1>9 DEF RelayTypeOK, CapturedIsTheClients, HoldingChannel, ForwardFromClient, ClientStep
    <2>b. hq' \in [HostSockets -> Seq(Messages)] /\ FramesStayWithTheirHost'
      <3>1. CASE hq' = hq
        BY <1>9, <3>1 DEF RelayTypeOK, FramesStayWithTheirHost, ForwardFromClient
      <3>2. CASE hq' = [hq EXCEPT ![captured[c]] = Append(@, Frame(c))]
        <4>1. Frame(c) \in Messages /\ Frame(c).session = c /\ captured' = captured /\ cq' = cq
          BY <1>9, Built DEF ForwardFromClient
        <4> QED BY <2>a, <3>2, <4>1, PushToHost
      <3> QED BY <1>9, <3>1, <3>2 DEF ForwardFromClient
    <2>1. RelayTypeOK'
      <3>1. cpc' \in [Clients -> ClientSteps] /\ sessions' \subseteq Clients
        BY <1>9 DEF RelayTypeOK, ForwardFromClient, ClientStep, ClientSteps
      <3> QED BY <1>9, <2>b, <3>1 DEF RelayTypeOK, ForwardFromClient, endVars
    <2>2. CapturedIsTheClients'
      BY <1>9 DEF RelayTypeOK, CapturedIsTheClients, BeforeLookup, HoldingChannel,
         ForwardFromClient, ClientStep, endVars
    <2>3. ConnectedIsAccepted'
      BY <1>9 DEF RelayTypeOK, ConnectedIsAccepted, ForwardFromClient, ClientStep, endVars
    <2>4. NoLeakedSession'
      BY <1>9 DEF RelayTypeOK, NoLeakedSession, ForwardFromClient, ClientStep, endVars
    <2>5. FramesStayWithTheirHost'
      BY <2>b
    <2>6. RegisteredIsServing' /\ UnusedSocketIsQuiet' /\ AcceptComing' /\ AcceptFired' /\
          HostGoneDropsSessions'
      BY <1>9 DEF RegisteredIsServing, UnusedSocketIsQuiet, AcceptComing, AcceptFired,
         HostGoneDropsSessions, ForwardFromClient, ClientStep, endVars
    <2> QED BY <2>1, <2>2, <2>3, <2>4, <2>5, <2>6
  <1>10. CASE ClientReceives(c)
    <2>1. RelayTypeOK'
      <3>1. cpc' \in [Clients -> ClientSteps]
        BY <1>10 DEF RelayTypeOK, ClientReceives, ClientStep, ClientSteps
      <3>2. cq' \in [Clients -> Seq(HostSockets)]
        <4>1. cq[c] \in Seq(HostSockets)
          BY DEF RelayTypeOK
        <4>2. CASE cq' = cq
          BY <4>2 DEF RelayTypeOK
        <4>3. CASE cq[c] # <<>> /\ cq' = [cq EXCEPT ![c] = Tail(@)]
          <5>1. Tail(cq[c]) \in Seq(HostSockets)
            BY <4>1, <4>3, Popped
          <5> QED BY <4>3, <5>1 DEF RelayTypeOK
        <4> QED BY <1>10, <4>2, <4>3 DEF ClientReceives
      <3> QED BY <1>10, <3>1, <3>2 DEF RelayTypeOK, ClientReceives, hostVars, endVars
    <2>2. CapturedIsTheClients'
      BY <1>10 DEF RelayTypeOK, CapturedIsTheClients, BeforeLookup, HoldingChannel,
         ClientReceives, ClientStep, hostVars, endVars
    <2>3. ConnectedIsAccepted'
      BY <1>10 DEF RelayTypeOK, ConnectedIsAccepted, ClientReceives, ClientStep, hostVars,
         endVars
    <2>4. NoLeakedSession'
      BY <1>10 DEF RelayTypeOK, NoLeakedSession, ClientReceives, ClientStep, hostVars, endVars
    <2>5. FramesStayWithTheirHost'
      <3>1. CASE cq' = cq
        BY <1>10, <3>1 DEF FramesStayWithTheirHost, ClientReceives, hostVars
      <3>2. CASE cq[c] # <<>> /\ cq' = [cq EXCEPT ![c] = Tail(@)]
        <4>1. cq[c] \in Seq(HostSockets) /\ cq'[c] = Tail(cq[c]) /\ \A d \in Clients : d # c => cq'[d] = cq[d]
          BY <3>2 DEF RelayTypeOK
        <4>2. \A i \in 1 .. Len(cq'[c]) : HostIdOf[cq'[c][i]] = ClientHost[c]
          BY <3>2, <4>1, Popped DEF FramesStayWithTheirHost
        <4> QED BY <1>10, <4>1, <4>2 DEF FramesStayWithTheirHost, ClientReceives, hostVars
      <3> QED BY <1>10, <3>1, <3>2 DEF ClientReceives
    <2>6. RegisteredIsServing' /\ UnusedSocketIsQuiet' /\ AcceptComing' /\ AcceptFired' /\
          HostGoneDropsSessions'
      BY <1>10 DEF RegisteredIsServing, UnusedSocketIsQuiet, AcceptComing, AcceptFired,
         HostGoneDropsSessions, ClientReceives, ClientStep, hostVars, endVars
    <2> QED BY <2>1, <2>2, <2>3, <2>4, <2>5, <2>6
  <1>11. CASE ClientLoopEnds(c)
    <2>1. RelayTypeOK'
      BY <1>11 DEF RelayTypeOK, ClientSteps, ClientLoopEnds, ClientStep, hostVars, endVars
    <2>2. CapturedIsTheClients'
      BY <1>11 DEF RelayTypeOK, CapturedIsTheClients, BeforeLookup, HoldingChannel,
         ClientLoopEnds, ClientStep, hostVars, endVars
    <2>3. ConnectedIsAccepted'
      BY <1>11 DEF RelayTypeOK, ConnectedIsAccepted, ClientLoopEnds, ClientStep, hostVars,
         endVars
    <2>4. NoLeakedSession'
      BY <1>11 DEF RelayTypeOK, NoLeakedSession, ClientLoopEnds, ClientStep, hostVars, endVars
    <2>5. RegisteredIsServing' /\ UnusedSocketIsQuiet' /\ AcceptComing' /\ AcceptFired' /\
          HostGoneDropsSessions' /\ FramesStayWithTheirHost'
      BY <1>11 DEF RegisteredIsServing, UnusedSocketIsQuiet, AcceptComing, AcceptFired,
         HostGoneDropsSessions, FramesStayWithTheirHost, ClientLoopEnds, ClientStep, hostVars,
         endVars
    <2> QED BY <2>1, <2>2, <2>3, <2>4, <2>5
  <1>12. CASE ClientTaskEnds(c)
    <2>1. RelayTypeOK'
      BY <1>12 DEF RelayTypeOK, ClientSteps, ClientTaskEnds, ClientStep, hostVars, endVars
    <2>2. CapturedIsTheClients'
      BY <1>12 DEF RelayTypeOK, CapturedIsTheClients, BeforeLookup, HoldingChannel,
         ClientTaskEnds, ClientStep, hostVars, endVars
    <2>3. ConnectedIsAccepted'
      BY <1>12 DEF RelayTypeOK, ConnectedIsAccepted, ClientTaskEnds, ClientStep, hostVars,
         endVars
    <2>4. NoLeakedSession'
      BY <1>12 DEF RelayTypeOK, NoLeakedSession, ClientTaskEnds, ClientStep, hostVars, endVars
    <2>5. HostGoneDropsSessions'
      BY <1>12 DEF RelayTypeOK, HostGoneDropsSessions, ClientTaskEnds, ClientStep, hostVars,
         endVars
    <2>6. RegisteredIsServing' /\ UnusedSocketIsQuiet' /\ AcceptComing' /\ AcceptFired' /\
          FramesStayWithTheirHost'
      BY <1>12 DEF RegisteredIsServing, UnusedSocketIsQuiet, AcceptComing, AcceptFired,
         FramesStayWithTheirHost, ClientTaskEnds, ClientStep, hostVars, endVars
    <2> QED BY <2>1, <2>2, <2>3, <2>4, <2>5, <2>6
  <1> QED BY <1>1, <1>2, <1>3, <1>4, <1>5, <1>6, <1>7, <1>8, <1>9, <1>10, <1>11, <1>12

\* So does a rate stamp that ages, and a step of no task at all.
LEMMA RelayStep ==
    ASSUME RelayInv, [RelayNext]_relayVars
    PROVE  RelayInv'
  <1> USE DEF RelayInv
  <1>1. CASE RateStampAges
    <2>1. RelayTypeOK'
      <3>1. recent' \in 0 .. ConnectLimit
        BY <1>1, RelayAssumption DEF RelayTypeOK, RateStampAges
      <3> QED BY <1>1, <3>1 DEF RelayTypeOK, RateStampAges, hostVars, relayClientVars, endVars
    <2>2. RegisteredIsServing' /\ CapturedIsTheClients' /\ UnusedSocketIsQuiet' /\
          AcceptComing' /\ AcceptFired' /\ ConnectedIsAccepted' /\ NoLeakedSession' /\
          HostGoneDropsSessions' /\ FramesStayWithTheirHost'
      BY <1>1 DEF RegisteredIsServing, CapturedIsTheClients, UnusedSocketIsQuiet,
         AcceptComing, AcceptFired, ConnectedIsAccepted, NoLeakedSession,
         HostGoneDropsSessions, FramesStayWithTheirHost, RateStampAges, hostVars,
         relayClientVars, endVars
    <2> QED BY <2>1, <2>2
  <1>2. CASE UNCHANGED relayVars
    BY <1>2 DEF relayVars, hostVars, relayClientVars, endVars, RelayTypeOK, RegisteredIsServing,
       CapturedIsTheClients, UnusedSocketIsQuiet, AcceptComing, AcceptFired, ConnectedIsAccepted,
       NoLeakedSession, HostGoneDropsSessions, FramesStayWithTheirHost
  <1> QED BY <1>1, <1>2, HostTaskKeeps, ClientTaskKeeps DEF RelayNext

\* What the inductive invariant is for.
LEMMA RelayInvEnough == RelayInv => SessionMapExact /\ FramesStayWithTheirHost
  BY DEF RelayInv, SessionMapExact, ConnectedIsBridged, ConnectedIsAccepted, AcceptFired

\* The session map of the relay is exact for every number of hosts and clients: client_socket's
\* exits leave no session behind, no session opened over a channel outlives the last
\* drop_host of its task, and Connected is sent only for a bridged session.
THEOREM SessionMapStaysExact == RelaySpec => []SessionMapExact
  BY RelayInitially, RelayStep, RelayInvEnough, PTL DEF RelaySpec

\* Frames never reach another registration of the host than the one their client was
\* introduced to, nor a client of another host: forward_from_client compares the
\* registered channel with the captured one.
THEOREM FramesNeverStray == RelaySpec => []FramesStayWithTheirHost
  BY RelayInitially, RelayStep, RelayInvEnough, PTL DEF RelaySpec

(***************************************************************************)
(* MediaTransport.                                                         *)
(***************************************************************************)

\* The sets of values the state ranges over.
PacketKinds == {"header", "chunk", "audio"}
Datagrams == [kind : PacketKinds, id : Ids, index : Nat, count : Nat, key : BOOLEAN, origin : Nat]
SentRecords == [kind : {"video", "audio"}, id : Ids, count : 0 .. MaxChunks, key : BOOLEAN]
ChunkMaps == UNION {[S -> 1 .. MaxFrames] : S \in SUBSET (0 .. MaxChunks - 1)}
Assemblies == [count : Nat, key : BOOLEAN, origin : Nat, chunks : ChunkMaps, age : 0 .. AssemblyTimeout]
Waiting == [chunks : ChunkMaps, age : 0 .. AssemblyTimeout]
IsMap(m, S, T) == /\ DOMAIN m \subseteq S /\ m = [i \in DOMAIN m |-> m[i]]
                  /\ \A i \in DOMAIN m : m[i] \in T

Outcomes == [got : SUBSET Datagrams, shown : Seq([origin : Nat, parts : ChunkMaps]),
             dropped : SUBSET Nat, late : BOOLEAN]

\* The type of every variable.
TransportTypes ==
    /\ tx \in [frame : Ids, audio : 0 .. MaxFrames, work : Seq(Datagrams)]
    /\ origins \in Seq(SentRecords) /\ Len(origins) <= MaxFrames
    /\ IsMap(frames, Ids, Assemblies) /\ IsMap(orphans, Ids, Waiting)
    /\ expected \in Ids \cup {-1}
    /\ audioRx = [newest |-> audioRx.newest, pending |-> audioRx.pending]
    /\ audioRx.newest \in Ids \cup {-1} /\ IsMap(audioRx.pending, Ids, ChunkMaps)
    /\ lost \in Nat
    /\ air \subseteq Datagrams
    /\ outcome \in Outcomes

\* The datagrams cut from the o-th frame or block: its header and its chunks, or its fragments.
Cut(o, kind, index) == [kind |-> kind, id |-> origins[o].id, index |-> index,
                        count |-> origins[o].count, key |-> origins[o].key, origin |-> o]
Cuts(o) == IF origins[o].kind = "audio"
           THEN {Cut(o, "audio", j) : j \in 0 .. origins[o].count - 1}
           ELSE {Cut(o, "header", 0)} \cup {Cut(o, "chunk", j) : j \in 0 .. origins[o].count - 1}
IsCut(d) == d.origin \in DOMAIN origins /\ d \in Cuts(d.origin)

\* The video frames sent.
Videos == OfKind("video")
\* How many identifiers were taken from id on, when t is the last one.
Behind(t, id) == (t + 1 - id) % IdRing

\* Identifiers follow the order of sending, on the ring for the frames, where fewer than half a
\* ring are in use.
IdsInOrder ==
    /\ \A o \in Videos : Behind(tx.frame, origins[o].id) \in 1 .. Cardinality(Videos)
    /\ \A o, p \in Videos : o < p => Behind(tx.frame, origins[o].id) > Behind(tx.frame, origins[p].id)
    /\ \A o \in OfKind("audio") : origins[o].id \in 1 .. tx.audio /\ origins[o].count # 0
    /\ \A o, p \in OfKind("audio") : o < p => origins[o].id < origins[p].id
    /\ tx.audio <= Len(origins)

\* The loss count and the frames still to be expected are together fewer than the frames sent.
LossAhead ==
    /\ expected = -1 => lost = 0
    /\ expected # -1 => /\ Behind(tx.frame, expected) <= Cardinality(Videos)
                        /\ lost = 0 \/ lost + Behind(tx.frame, expected) < Cardinality(Videos)

\* A datagram is in one place: still to be sent, in flight, or received.
OnceEach ==
    /\ \A i \in DOMAIN tx.work : IsCut(tx.work[i]) /\ tx.work[i] \notin air \cup outcome.got
    /\ \A i, j \in DOMAIN tx.work : i # j => tx.work[i] # tx.work[j]
    /\ \A d \in air \cup outcome.got : IsCut(d)
    /\ air \cap outcome.got = {}

\* Chunks m of the o-th frame or block, all of which arrived.
PartialOf(m, o, kind, got) ==
    /\ DOMAIN m \subseteq 0 .. origins[o].count - 1
    /\ \A j \in DOMAIN m : m[j] = o /\ Cut(o, kind, j) \in got

\* An assembly is part of the frame its identifier belongs to; so are the chunks that wait for a
\* header.
FrameFits(i, a, got) ==
    /\ a.origin \in Videos /\ origins[a.origin].id = i
    /\ a.count = origins[a.origin].count /\ a.key = origins[a.origin].key
    /\ a.count # 0
    /\ Cut(a.origin, "header", 0) \in got
    /\ PartialOf(a.chunks, a.origin, "chunk", got)
OrphanFits(i, a, got) ==
    /\ DOMAIN a.chunks # {}
    /\ \E o \in Videos : origins[o].id = i /\ PartialOf(a.chunks, o, "chunk", got)

\* What FrameAssembler holds: assemblies and waiting chunks of different frames, the latter within
\* their limit.
Assembling(fs, os, got) ==
    /\ \A i \in DOMAIN fs : FrameFits(i, fs[i], got)
    /\ \A i \in DOMAIN os : OrphanFits(i, os[i], got)
    /\ DOMAIN fs \cap DOMAIN os = {}
    /\ Cardinality(DOMAIN os) <= MaxOrphans

\* What is held has aged only if the clock has ticked, which outcome.late remembers.
AgedIsLate(fs, os) ==
    /\ \A i \in DOMAIN fs : fs[i].age > 0 => outcome.late
    /\ \A i \in DOMAIN os : os[i].age > 0 => outcome.late

\* What FrameAssembler holds between two datagrams: nothing complete, and the former within its
\* limit as well.
Assembled ==
    /\ Assembling(frames, orphans, outcome.got) /\ AgedIsLate(frames, orphans)
    /\ Cardinality(DOMAIN frames) <= MaxIncomplete
    /\ \A i \in DOMAIN frames : ~Complete(frames[i])

\* What AudioFragmentReassembler holds: part of the newest block at most.
AudioPending ==
    /\ DOMAIN audioRx.pending \subseteq {audioRx.newest}
    /\ audioRx.newest # -1 => \E d \in outcome.got : d.kind = "audio" /\ d.id = audioRx.newest
    /\ \A i \in DOMAIN audioRx.pending : \E o \in OfKind("audio") :
         /\ origins[o].id = i /\ PartialOf(audioRx.pending[i], o, "audio", outcome.got)
         /\ Cardinality(DOMAIN audioRx.pending[i]) # origins[o].count /\ DOMAIN audioRx.pending[i] # {}
    /\ \A o \in Shown : origins[o].kind = "audio" => origins[o].id <= audioRx.newest

\* A datagram whose bytes the receiver still holds.
StillHeld(d) ==
    \/ d.kind # "audio" /\ PartOf(d) \in PartsIn(frames, orphans)
    \/ d.kind = "audio" /\ d.id \in DOMAIN audioRx.pending /\ d.index \in DOMAIN audioRx.pending[d.id]

\* Every datagram received is shown with its frame, discarded with it, or still held.
Accounted == \A d \in outcome.got : d.origin \in Shown \cup outcome.dropped \/ StillHeld(d)

\* What was shown had arrived whole, and what was discarded had been sent.
ShownArrived == Shown \subseteq DOMAIN origins /\ \A o \in Shown : Cuts(o) \subseteq outcome.got
DroppedSent == outcome.dropped \subseteq DOMAIN origins

\* The causes for discarding the o-th frame or block, given the datagrams received.
ArrivedIn(got, o) == {d \in got : d.origin = o}
CauseIn(got, o) ==
    \/ origins[o].count = 0 \/ outcome.late
    \/ \E d \in got : d.origin > o /\ (d.key \/ (d.kind = "audio" /\ origins[o].kind = "audio"))
    \/ Cardinality({p \in Videos \ {o} : ArrivedIn(got, p) # {}}) >=
           (IF MaxOrphans < MaxIncomplete THEN MaxOrphans ELSE MaxIncomplete)

\* The inductive invariant.
TransportInv ==
    /\ TransportTypes /\ IdsInOrder /\ LossAhead /\ OnceEach /\ Assembled /\ AudioPending
    /\ Accounted /\ ShownArrived /\ DroppedSent /\ DeliveredAsSent /\ DiscardedForCause /\ AudioInOrder

(***************************************************************************)
(* The ring of identifiers.                                                *)
(***************************************************************************)
\* What the proofs use of the constants: they are positive, and the ring of identifiers is even and
\* more than twice the frames of a session.
LEMMA TransportNumbers ==
    /\ MaxFrames \in Nat /\ MaxFrames > 0 /\ MaxChunks \in Nat /\ MaxChunks > 0
    /\ MaxIncomplete \in Nat /\ MaxIncomplete > 0 /\ MaxOrphans \in Nat /\ MaxOrphans > 0
    /\ AssemblyTimeout \in Nat /\ AssemblyTimeout > 0
    /\ IdRing \in Nat /\ IdRing > 2 * MaxFrames /\ FrameSizes \subseteq Nat
    /\ \E h \in Nat : IdRing = 2 * h /\ IdRing \div 2 = h
<1>1. \A x \in {MaxFrames, MaxInFlight, MaxChunks, MaxIncomplete, MaxOrphans, AssemblyTimeout} :
        x \in Nat /\ x > 0
  BY TransportAssumption
<1>2. \E h \in Nat : IdRing = 2 * h /\ IdRing \div 2 = h
  BY TransportAssumption
<1> QED BY <1>1, <1>2, TransportAssumption

\* The remainder on the ring, for a number at most one turn away from it.
LEMMA OnTheRing ==
    ASSUME NEW x \in Int
    PROVE  /\ x % IdRing \in Ids
           /\ 0 <= x /\ x < IdRing => x % IdRing = x
           /\ x < 0 /\ x + IdRing >= 0 => x % IdRing = x + IdRing
           /\ x >= IdRing /\ x < 2 * IdRing => x % IdRing = x - IdRing
<1>1. IdRing \in Nat /\ IdRing > 0
  BY TransportNumbers
<1> QED BY <1>1 DEF Ids

\* The distance between two identifiers, which SerialNotBefore compares with half the ring.
LEMMA ApartOnTheRing ==
    ASSUME NEW a \in Ids, NEW b \in Ids
    PROVE  (a - b) % IdRing = IF a - b < 0 THEN a - b + IdRing ELSE a - b
<1> DEFINE u == a - b
<1>1. u \in Int /\ u < IdRing /\ u + IdRing >= 0 /\ IdRing \in Nat
  BY TransportNumbers DEF Ids
<1> HIDE DEF u
<1>2. u % IdRing = IF u < 0 THEN u + IdRing ELSE u
  BY <1>1, OnTheRing
<1> QED BY <1>2 DEF u

\* The distance Behind measures.
LEMMA BehindOnTheRing ==
    ASSUME NEW t \in Ids, NEW a \in Ids
    PROVE  (t + 1 - a) % IdRing = IF t + 1 - a < 0 THEN t + 1 - a + IdRing
                                  ELSE IF t + 1 - a = IdRing THEN 0 ELSE t + 1 - a
<1> DEFINE u == t + 1 - a
<1>1. u \in Int /\ u <= IdRing /\ u + IdRing >= 0 /\ IdRing \in Nat /\ IdRing > 0
  BY TransportNumbers DEF Ids
<1> HIDE DEF u
<1>2. u % IdRing = IF u < 0 THEN u + IdRing ELSE IF u = IdRing THEN 0 ELSE u
  BY <1>1, OnTheRing
<1> QED BY <1>2 DEF u

\* The identifier send_frame takes next, wrapping.
LEMMA NextOnTheRing ==
    ASSUME NEW t \in Ids
    PROVE  /\ (t + 1) % IdRing \in Ids
           /\ (t + 1) % IdRing = IF t + 1 = IdRing THEN 0 ELSE t + 1
<1>1. t + 1 \in Int /\ t + 1 >= 0 /\ t + 1 <= IdRing /\ IdRing \in Nat /\ IdRing > 0
  BY TransportNumbers DEF Ids
<1> DEFINE u == t + 1
<1> HIDE DEF u
<1>2. u \in Int /\ u >= 0 /\ u <= IdRing
  BY <1>1 DEF u
<1>3. u % IdRing \in Ids /\ u % IdRing = IF u = IdRing THEN 0 ELSE u
  BY <1>1, <1>2, OnTheRing
<1> QED BY <1>3 DEF u

\* The frames sent are finitely many, and no more than MaxFrames.
LEMMA VideosCounted ==
    ASSUME TransportTypes
    PROVE  /\ IsFiniteSet(Videos) /\ Cardinality(Videos) \in Nat
           /\ Cardinality(Videos) <= Len(origins) /\ Len(origins) <= MaxFrames
           /\ DOMAIN origins = 1 .. Len(origins) /\ Len(origins) \in Nat
           /\ \A o \in DOMAIN origins : origins[o] \in SentRecords
<1>1. Len(origins) \in Nat /\ DOMAIN origins = 1 .. Len(origins) /\ Len(origins) <= MaxFrames
      /\ \A o \in DOMAIN origins : origins[o] \in SentRecords
  BY LenProperties, ElementOfSeq DEF TransportTypes
<1>2. IsFiniteSet(1 .. Len(origins)) /\ Cardinality(1 .. Len(origins)) = Len(origins)
  BY <1>1, FS_Interval
<1>3. Videos \subseteq 1 .. Len(origins)
  BY <1>1 DEF Videos, OfKind
<1>4. IsFiniteSet(Videos) /\ Cardinality(Videos) <= Len(origins)
  BY <1>2, <1>3, FS_Subset
<1> QED BY <1>1, <1>4, FS_CardinalityType

\* The same fact as an implication, which can be primed.
LEMMA VideosAreFinite == TransportTypes => IsFiniteSet(Videos)
  BY VideosCounted

(* Half a ring is enough to tell the order of the frames that were sent. *)
LEMMA SerialOrder ==
    ASSUME TransportTypes, IdsInOrder, NEW o \in Videos, NEW p \in Videos
    PROVE  /\ SerialNotBefore(origins[o].id, origins[p].id) <=> o >= p
           /\ origins[o].id = origins[p].id <=> o = p
<1> DEFINE a == origins[o].id
           b == origins[p].id
           t == tx.frame
           x == (t + 1 - a) % IdRing
           y == (t + 1 - b) % IdRing
<1>1. o \in Nat /\ p \in Nat /\ a \in Ids /\ b \in Ids /\ t \in Ids
  BY VideosCounted DEF Videos, OfKind, SentRecords, TransportTypes
<1>2. /\ x \in 1 .. MaxFrames /\ y \in 1 .. MaxFrames
      /\ o < p => x > y
      /\ p < o => y > x
  BY VideosCounted, TransportNumbers DEF IdsInOrder, Behind
<1>3. IdRing \in Nat /\ IdRing > 2 * MaxFrames /\ MaxFrames \in Nat
  BY TransportNumbers
<1>4. (t + 1 - a >= 0 /\ x = t + 1 - a) \/ x = t + 1 - a + IdRing
  BY <1>1, <1>2, <1>3, BehindOnTheRing
<1>5. (t + 1 - b >= 0 /\ y = t + 1 - b) \/ y = t + 1 - b + IdRing
  BY <1>1, <1>2, <1>3, BehindOnTheRing
<1> HIDE DEF a, b, t, x, y
<1>6. (a - b) % IdRing = IF a - b < 0 THEN a - b + IdRing ELSE a - b
  BY <1>1, ApartOnTheRing
<1>7. PICK h \in Nat : IdRing = 2 * h /\ IdRing \div 2 = h
  BY TransportNumbers
<1>8. (a - b) % IdRing < h <=> o >= p
  <2> DEFINE z == (a - b) % IdRing
             R == IdRing
             M == MaxFrames
  <2>1. /\ a \in 0 .. R - 1 /\ b \in 0 .. R - 1 /\ t \in 0 .. R - 1 /\ h \in Nat /\ R = 2 * h
        /\ R > 2 * M /\ M \in Nat /\ R \in Nat
        /\ x \in 1 .. M /\ y \in 1 .. M
        /\ z = IF a - b < 0 THEN a - b + R ELSE a - b
    BY <1>1, <1>2, <1>3, <1>6, <1>7 DEF Ids
  <2>2. /\ (t + 1 - a >= 0 /\ x = t + 1 - a) \/ x = t + 1 - a + R
        /\ (t + 1 - b >= 0 /\ y = t + 1 - b) \/ y = t + 1 - b + R
    BY <1>4, <1>5
  <2> HIDE DEF z, R, M
  <2>3. z = IF y >= x THEN y - x ELSE y - x + R
    BY <2>1, <2>2
  <2>4. z < h <=> y >= x
    BY <2>1, <2>3
  <2>5. y >= x <=> o >= p
    <3>1. o = p => x = y
      BY DEF x, y, a, b
    <3> QED BY <1>1, <1>2, <3>1, <2>1
  <2> QED BY <2>4, <2>5 DEF z
<1>9. a = b <=> o = p
  <2>1. o = p => a = b
    BY DEF a, b
  <2>2. a = b => x = y
    BY DEF x, y
  <2> QED BY <1>1, <1>2, <2>1, <2>2
<1> QED BY <1>7, <1>8, <1>9 DEF a, b, SerialNotBefore

(***************************************************************************)
(* Maps and sets of chunks.                                                *)
(***************************************************************************)
\* A map restricted to some of its keys.
LEMMA RestrictMap ==
    ASSUME NEW m, NEW S, NEW T, IsMap(m, S, T), NEW X \in SUBSET (DOMAIN m)
    PROVE  /\ IsMap(Restrict(m, X), S, T)
           /\ DOMAIN Restrict(m, X) = X
           /\ \A j \in X : Restrict(m, X)[j] = m[j]
<1>1. DOMAIN Restrict(m, X) = X /\ \A j \in X : Restrict(m, X)[j] = m[j]
  BY DEF Restrict
<1>2. Restrict(m, X) = [j \in DOMAIN Restrict(m, X) |-> Restrict(m, X)[j]]
  BY DEF Restrict
<1> QED BY <1>1, <1>2 DEF IsMap

\* A map without some of its keys.
LEMMA DropMap ==
    ASSUME NEW m, NEW S, NEW T, IsMap(m, S, T), NEW X
    PROVE  /\ IsMap(Drop(m, X), S, T)
           /\ DOMAIN Drop(m, X) = DOMAIN m \ X
           /\ \A j \in DOMAIN m \ X : Drop(m, X)[j] = m[j]
<1>1. DOMAIN m \ X \in SUBSET (DOMAIN m)
  OBVIOUS
<1> QED BY <1>1, RestrictMap DEF Drop

\* A set of chunks has its indices below MAX_CHUNKS_PER_FRAME.
LEMMA ChunkMapOf ==
    ASSUME NEW c \in ChunkMaps
    PROVE  DOMAIN c \subseteq 0 .. MaxChunks - 1 /\ \A j \in DOMAIN c : c[j] \in 1 .. MaxFrames
<1>1. PICK S \in SUBSET (0 .. MaxChunks - 1) : c \in [S -> 1 .. MaxFrames]
  BY DEF ChunkMaps
<1> QED BY <1>1

\* What makes a map a set of chunks.
LEMMA ChunkMapFrom ==
    ASSUME NEW c, DOMAIN c \subseteq 0 .. MaxChunks - 1, \A j \in DOMAIN c : c[j] \in 1 .. MaxFrames,
           c = [j \in DOMAIN c |-> c[j]]
    PROVE  c \in ChunkMaps
<1>1. c \in [DOMAIN c -> 1 .. MaxFrames]
  OBVIOUS
<1> QED BY <1>1 DEF ChunkMaps

\* The empty set of chunks.
LEMMA NoChunks == NoIds \in ChunkMaps /\ DOMAIN NoIds = {}
<1>1. DOMAIN NoIds = {} /\ NoIds = [j \in DOMAIN NoIds |-> NoIds[j]]
  BY DEF NoIds
<1> QED BY <1>1, ChunkMapFrom

(* Admitting chunks: the first copy of each stays, those beyond the frame are left out. *)
LEMMA Admitted ==
    ASSUME NEW have \in ChunkMaps, NEW more \in ChunkMaps, NEW count \in Nat
    PROVE  /\ AdmitChunks(have, more, count) \in ChunkMaps
           /\ \A j : j \in DOMAIN AdmitChunks(have, more, count) <=>
                       j \in DOMAIN have \/ (j \in DOMAIN more /\ j < count)
           /\ \A j \in DOMAIN AdmitChunks(have, more, count) :
                AdmitChunks(have, more, count)[j] = IF j \in DOMAIN have THEN have[j] ELSE more[j]
<1> DEFINE c == AdmitChunks(have, more, count)
<1>1. /\ DOMAIN c = DOMAIN have \cup {j \in DOMAIN more : j < count}
      /\ \A j \in DOMAIN c : c[j] = IF j \in DOMAIN have THEN have[j] ELSE more[j]
      /\ c = [j \in DOMAIN c |-> c[j]]
  BY DEF AdmitChunks
<1> HIDE DEF c
<1>2. DOMAIN c \subseteq 0 .. MaxChunks - 1 /\ \A j \in DOMAIN c : c[j] \in 1 .. MaxFrames
  BY <1>1, ChunkMapOf
<1>3. c \in ChunkMaps
  BY <1>1, <1>2, ChunkMapFrom
<1> QED BY <1>1, <1>3 DEF c

\* The chunks that waited for their header all fit the frame it declares.
LEMMA AllAdmitted ==
    ASSUME NEW h \in ChunkMaps, NEW n \in Nat, \A j \in DOMAIN h : j < n
    PROVE  /\ AdmitChunks(NoIds, h, n) \in ChunkMaps
           /\ DOMAIN AdmitChunks(NoIds, h, n) = DOMAIN h
           /\ \A j \in DOMAIN h : AdmitChunks(NoIds, h, n)[j] = h[j]
<1>1. PICK z \in ChunkMaps : z = NoIds /\ DOMAIN z = {}
  BY NoChunks
<1> DEFINE c == AdmitChunks(z, h, n)
<1>2. /\ c \in ChunkMaps
      /\ \A j : j \in DOMAIN c <=> j \in DOMAIN z \/ (j \in DOMAIN h /\ j < n)
      /\ \A j \in DOMAIN c : c[j] = IF j \in DOMAIN z THEN z[j] ELSE h[j]
  BY <1>1, Admitted
<1> HIDE DEF c
<1>3. \A j : j \in DOMAIN c <=> j \in DOMAIN h
  BY <1>1, <1>2
<1>4. DOMAIN c = DOMAIN h /\ \A j \in DOMAIN h : c[j] = h[j]
  BY <1>1, <1>2, <1>3
<1> QED BY <1>1, <1>2, <1>4 DEF c

\* A single chunk.
LEMMA OneChunk ==
    ASSUME NEW j \in 0 .. MaxChunks - 1, NEW o \in 1 .. MaxFrames
    PROVE  /\ [k \in {j} |-> o] \in ChunkMaps /\ DOMAIN [k \in {j} |-> o] = {j}
           /\ [k \in {j} |-> o][j] = o
<1> DEFINE c == [k \in {j} |-> o]
<1>1. DOMAIN c = {j} /\ c[j] = o /\ c = [k \in DOMAIN c |-> c[k]]
  OBVIOUS
<1> HIDE DEF c
<1>2. c \in ChunkMaps
  BY <1>1, ChunkMapFrom
<1> QED BY <1>1, <1>2 DEF c

(* What parts a receiver holds. *)
LEMMA PartsHeld ==
    ASSUME NEW fs, NEW os, NEW p
    PROVE  p \in PartsIn(fs, os) <=>
             \/ \E i \in DOMAIN fs : p = <<fs[i].origin, -1>>
             \/ \E i \in DOMAIN fs : \E j \in DOMAIN fs[i].chunks : p = <<fs[i].chunks[j], j>>
             \/ \E i \in DOMAIN os : \E j \in DOMAIN os[i].chunks : p = <<os[i].chunks[j], j>>
  BY DEF PartsIn, ChunksIn

\* A frame is complete exactly when it holds every one of its chunks (the code counts them).
LEMMA CompleteIsAll ==
    ASSUME NEW a, a.count \in Nat, DOMAIN a.chunks \subseteq 0 .. a.count - 1
    PROVE  Complete(a) <=> DOMAIN a.chunks = 0 .. a.count - 1
<1>1. IsFiniteSet(0 .. a.count - 1) /\ Cardinality(0 .. a.count - 1) = a.count
  <2>1. 0 \in Int /\ a.count - 1 \in Int
    OBVIOUS
  <2>2. /\ IsFiniteSet(0 .. a.count - 1)
        /\ Cardinality(0 .. a.count - 1) = IF 0 > a.count - 1 THEN 0 ELSE a.count - 1 - 0 + 1
    BY <2>1, FS_Interval
  <2> QED BY <2>2
<1>2. Cardinality(DOMAIN a.chunks) = a.count => DOMAIN a.chunks = 0 .. a.count - 1
  BY <1>1, FS_Subset
<1> QED BY <1>1, <1>2 DEF Complete

(* The frame to evict exists. *)
LEMMA OldestExists ==
    ASSUME NEW fs, IsMap(fs, Ids, Assemblies), DOMAIN fs # {}
    PROVE  OldestFrame(fs) \in DOMAIN fs
<1> DEFINE Youth(i) == AssemblyTimeout - fs[i].age
           Ys == {Youth(i) : i \in DOMAIN fs}
<1>1. AssemblyTimeout \in Nat /\ \A i \in DOMAIN fs : fs[i].age \in 0 .. AssemblyTimeout /\ i \in Nat
  BY TransportNumbers DEF IsMap, Assemblies, Ids
<1>2. Ys \subseteq Nat /\ Ys # {}
  BY <1>1
<1>3. ASSUME NEW S \in SUBSET Nat, S # {} PROVE \E x \in S : \A y \in S : x <= y
  <2>1. PICK x \in S : \A y \in S : ~ (<<y, x>> \in OpToRel(<, Nat))
    BY <1>3, NatLessThanWellFounded, WFMin
  <2>2. \A y \in S : ~ (y < x)
    <3>1. SUFFICES ASSUME NEW y \in S, y < x PROVE FALSE
      OBVIOUS
    <3>2. <<y, x>> \in Nat \X Nat /\ <<y, x>>[1] < <<y, x>>[2]
      BY <3>1
    <3> QED BY <2>1, <3>2 DEF OpToRel
  <2> QED BY <2>2
<1>4. PICK y \in Ys : \A z \in Ys : y <= z
  BY <1>2, <1>3
<1> DEFINE Eldest == {i \in DOMAIN fs : Youth(i) = y}
<1>5. Eldest \subseteq Nat /\ Eldest # {}
  BY <1>1, <1>4
<1>6. PICK i \in Eldest : \A j \in Eldest : i <= j
  BY <1>3, <1>5
<1>7. i \in DOMAIN fs /\ \A j \in DOMAIN fs :
        fs[i].age > fs[j].age \/ (fs[i].age = fs[j].age /\ i <= j)
  <2>1. SUFFICES ASSUME NEW j \in DOMAIN fs
                 PROVE  fs[i].age > fs[j].age \/ (fs[i].age = fs[j].age /\ i <= j)
    BY <1>6
  <2>2. Youth(i) = y /\ Youth(i) <= Youth(j)
    BY <1>4, <1>6
  <2>3. fs[i].age \in Nat /\ fs[j].age \in Nat /\ fs[i].age >= fs[j].age
    BY <1>1, <1>6, <2>2
  <2>4. fs[i].age = fs[j].age => i <= j
    BY <1>6, <2>2
  <2> QED BY <2>3, <2>4
<1> QED BY <1>7 DEF OldestFrame

(* There are no more distinct frames than the set of them that arrived in part. *)
LEMMA OthersCounted ==
    ASSUME TransportTypes, NEW o, NEW got, NEW D, IsFiniteSet(D), NEW f,
           \A i \in D : f[i] \in Videos \ {o} /\ ArrivedIn(got, f[i]) # {},
           \A i, j \in D : f[i] = f[j] => i = j
    PROVE  Cardinality(D) <= Cardinality({p \in Videos \ {o} : ArrivedIn(got, p) # {}})
<1> DEFINE P == {p \in Videos \ {o} : ArrivedIn(got, p) # {}}
           g == [i \in D |-> f[i]]
<1>1. IsFiniteSet(P)
  BY VideosCounted, FS_Subset
<1>2. g \in Injection(D, P)
  BY DEF Injection, IsInjective
<1> QED BY <1>1, <1>2, FS_Injection

(* The datagrams of a frame or block: what tells them apart and how many they are. *)
LEMMA CutFields ==
    ASSUME TransportTypes, NEW o \in DOMAIN origins, NEW d \in Cuts(o)
    PROVE  /\ d.origin = o /\ d.id = origins[o].id /\ d.count = origins[o].count
           /\ d.key = origins[o].key /\ d.count \in 0 .. MaxChunks /\ d.id \in Ids
           /\ o \in 1 .. MaxFrames
           /\ d = Cut(o, d.kind, d.index)
           /\ d.kind = "header" => o \in Videos /\ d.index = 0
           /\ d.kind = "chunk" => o \in Videos /\ d.index \in 0 .. d.count - 1
           /\ d.kind = "audio" => o \in OfKind("audio") /\ d.index \in 0 .. d.count - 1
           /\ d.kind \in PacketKinds
<1>1. origins[o] \in SentRecords /\ o \in 1 .. MaxFrames
  BY VideosCounted, TransportNumbers
<1>2. CASE origins[o].kind = "audio"
  <2>1. PICK j \in 0 .. origins[o].count - 1 : d = Cut(o, "audio", j)
    BY <1>2 DEF Cuts
  <2> QED BY <1>1, <1>2, <2>1 DEF Cut, SentRecords, Videos, OfKind, PacketKinds
<1>3. CASE origins[o].kind # "audio"
  <2>1. d = Cut(o, "header", 0) \/ \E j \in 0 .. origins[o].count - 1 : d = Cut(o, "chunk", j)
    BY <1>3 DEF Cuts
  <2>2. origins[o].kind = "video"
    BY <1>1, <1>3 DEF SentRecords
  <2>3. o \in Videos
    BY <2>2 DEF Videos, OfKind
  <2>4. CASE d = Cut(o, "header", 0)
    BY <1>1, <2>3, <2>4 DEF Cut, SentRecords, PacketKinds
  <2>5. ASSUME NEW j \in 0 .. origins[o].count - 1, d = Cut(o, "chunk", j)
        PROVE  /\ d.origin = o /\ d.id = origins[o].id /\ d.count = origins[o].count
               /\ d.key = origins[o].key /\ d.kind = "chunk" /\ d.index = j
               /\ d = Cut(o, d.kind, d.index)
    BY <2>5 DEF Cut
  <2> QED BY <1>1, <2>1, <2>3, <2>4, <2>5 DEF SentRecords, PacketKinds
<1> QED BY <1>2, <1>3

(* The converse: which datagrams a frame or block has. *)
LEMMA CutIs ==
    ASSUME TransportTypes, NEW o \in DOMAIN origins
    PROVE  /\ o \in Videos => Cut(o, "header", 0) \in Cuts(o)
           /\ \A j \in 0 .. origins[o].count - 1 :
                /\ o \in Videos => Cut(o, "chunk", j) \in Cuts(o)
                /\ o \in OfKind("audio") => Cut(o, "audio", j) \in Cuts(o)
  BY DEF Cuts, Videos, OfKind

\* The datagrams of a frame: one for each chunk, and the header.
LEMMA CutsCounted ==
    ASSUME TransportTypes, NEW o \in DOMAIN origins
    PROVE  /\ IsFiniteSet(Cuts(o))
           /\ Cardinality(Cuts(o)) <= origins[o].count + (IF origins[o].kind = "video" THEN 1 ELSE 0)
<1> DEFINE n == origins[o].count
           low == IF origins[o].kind = "video" THEN -1 ELSE 0
           S == low .. n - 1
           f == [k \in S |-> IF origins[o].kind = "audio" THEN Cut(o, "audio", k)
                             ELSE IF k = -1 THEN Cut(o, "header", 0) ELSE Cut(o, "chunk", k)]
<1>1. n \in Nat /\ origins[o].kind \in {"video", "audio"}
  BY VideosCounted, TransportNumbers DEF SentRecords
<1>2. low \in Int /\ n - 1 \in Int
  BY <1>1
<1>3. IsFiniteSet(S) /\ Cardinality(S) = IF low > n - 1 THEN 0 ELSE n - 1 - low + 1
  BY <1>2, FS_Interval
<1>4. Cuts(o) = {f[k] : k \in S}
  <2>1. CASE origins[o].kind = "audio"
    BY <2>1, <1>1 DEF Cuts
  <2>2. CASE origins[o].kind = "video"
    <3>1. S = {-1} \cup 0 .. n - 1
      BY <2>2, <1>1
    <3>2. f[-1] = Cut(o, "header", 0) /\ \A k \in 0 .. n - 1 : k \in S /\ f[k] = Cut(o, "chunk", k)
      BY <2>2, <1>1, <3>1
    <3> HIDE DEF f, S
    <3>3. {f[k] : k \in S} = {f[-1]} \cup {f[k] : k \in 0 .. n - 1}
      BY <3>1
    <3>4. {f[k] : k \in 0 .. n - 1} = {Cut(o, "chunk", k) : k \in 0 .. n - 1}
      BY <3>2
    <3> QED BY <2>2, <3>2, <3>3, <3>4 DEF Cuts
  <2> QED BY <1>1, <2>1, <2>2
<1>5. IsFiniteSet(Cuts(o)) /\ Cardinality(Cuts(o)) <= Cardinality(S)
  <2>1. DOMAIN f = S /\ f = [k \in S |-> f[k]]
    OBVIOUS
  <2> HIDE DEF f, S
  <2>2. f \in Surjection(S, Cuts(o))
    BY <1>4, <2>1 DEF Surjection
  <2> QED BY <1>3, <2>2, FS_Surjection
<1> HIDE DEF f, S
<1>6. Cardinality(S) = IF low > n - 1 THEN 0 ELSE n - low
  BY <1>1, <1>2, <1>3
<1>7. Cardinality(Cuts(o)) \in Nat /\ Cardinality(Cuts(o)) <= Cardinality(S)
  BY <1>5, FS_CardinalityType
<1> QED BY <1>1, <1>5, <1>6, <1>7

(* A frame or block is there when all its datagrams are. *)
LEMMA WholeIsAll ==
    ASSUME TransportTypes, OnceEach, NEW o \in DOMAIN origins, Whole(o)
    PROVE  Cuts(o) \subseteq outcome.got
<1>1. Arrived(o) \subseteq Cuts(o)
  BY DEF OnceEach, IsCut, Arrived
<1>2. /\ IsFiniteSet(Cuts(o)) /\ Cardinality(Cuts(o)) \in Nat
      /\ Cardinality(Cuts(o)) <= Cardinality(Arrived(o))
  BY CutsCounted, FS_CardinalityType DEF Whole
<1>3. Arrived(o) = Cuts(o)
  <2>1. Cardinality(Arrived(o)) <= Cardinality(Cuts(o)) /\ IsFiniteSet(Arrived(o))
        /\ (Cardinality(Arrived(o)) = Cardinality(Cuts(o)) => Arrived(o) = Cuts(o))
    BY <1>1, <1>2, FS_Subset
  <2>2. Cardinality(Arrived(o)) \in Nat
    BY <2>1, FS_CardinalityType
  <2> QED BY <1>2, <2>1, <2>2
<1> QED BY <1>3 DEF Arrived

(* Sending more, receiving more and growing older leave the causes of a loss what they were. *)
OriginsKept == \A o \in DOMAIN origins : o \in DOMAIN origins' /\ origins'[o] = origins[o]

\* A frame once sent keeps its identifier, its size and its datagrams.
LEMMA KindsKept ==
    ASSUME TransportTypes, OriginsKept
    PROVE  /\ DOMAIN origins \subseteq DOMAIN origins'
           /\ \A kind : OfKind(kind) \subseteq OfKind(kind)'
           /\ Videos \subseteq Videos'
           /\ \A o \in DOMAIN origins :
                /\ Cuts(o)' = Cuts(o)
                /\ \A kind, j : Cut(o, kind, j)' = Cut(o, kind, j)
                /\ o \in Videos' => o \in Videos
                /\ o \in OfKind("audio")' => o \in OfKind("audio")
<1>1. \A o \in DOMAIN origins : \A kind, j : Cut(o, kind, j)' = Cut(o, kind, j)
  BY DEF OriginsKept, Cut
<1>2. ASSUME NEW o \in DOMAIN origins PROVE Cuts(o)' = Cuts(o)
  <2>1. origins'[o] = origins[o]
    BY DEF OriginsKept
  <2> QED BY <2>1, Zenon DEF Cuts, Cut
<1> QED BY <1>1, <1>2 DEF OriginsKept, OfKind, Videos

\* A cause for discarding a frame does not go away as more datagrams arrive.
LEMMA CauseStays ==
    ASSUME TransportTypes, TransportTypes', OriginsKept, outcome.late => outcome'.late,
           NEW o \in DOMAIN origins, NEW got, NEW more, got \subseteq more, CauseIn(got, o)
    PROVE  CauseIn(more, o)'
<1>1. origins'[o] = origins[o]
  BY DEF OriginsKept
<1>2. CASE origins[o].count = 0 \/ outcome.late
  BY <1>1, <1>2 DEF CauseIn
<1>3. CASE \E d \in got : d.origin > o /\ (d.key \/ (d.kind = "audio" /\ origins[o].kind = "audio"))
  BY <1>1, <1>3 DEF CauseIn
<1>4. CASE Cardinality({p \in Videos \ {o} : ArrivedIn(got, p) # {}}) >=
           (IF MaxOrphans < MaxIncomplete THEN MaxOrphans ELSE MaxIncomplete)
  <2> DEFINE P == {p \in Videos \ {o} : ArrivedIn(got, p) # {}}
             Q == {p \in Videos' \ {o} : ArrivedIn(more, p) # {}}
  <2>1. IsFiniteSet(Videos)'
    BY VideosAreFinite, PTL
  <2>2. IsFiniteSet(Q)
    BY <2>1, FS_Subset
  <2>3. P \subseteq Q
    BY KindsKept DEF ArrivedIn
  <2>4. Cardinality(P) <= Cardinality(Q) /\ Cardinality(P) \in Nat /\ Cardinality(Q) \in Nat
    BY <2>2, <2>3, FS_Subset, FS_CardinalityType
  <2> HIDE DEF P, Q
  <2>5. Cardinality(Q) >= (IF MaxOrphans < MaxIncomplete THEN MaxOrphans ELSE MaxIncomplete)
    BY <1>4, <2>4, TransportNumbers DEF P
  <2> QED BY <2>5 DEF CauseIn, Q, ArrivedIn
<1> QED BY <1>2, <1>3, <1>4 DEF CauseIn

\* DiscardedForCause in the terms of this proof.
LEMMA DiscardedMeans ==
    DiscardedForCause <=> \A o \in outcome.dropped : CauseIn(outcome.got, o)
  BY DEF DiscardedForCause, CauseIn, Arrived, ArrivedIn, Videos

Received ==
    /\ Assembled /\ AudioPending /\ Accounted /\ ShownArrived /\ DroppedSent /\ DeliveredAsSent
    /\ DiscardedForCause /\ AudioInOrder

(* What a receiver has does not depend on what is sent afterwards. *)
LEMMA MoreSent ==
    ASSUME TransportTypes, TransportTypes', OriginsKept, Received,
           UNCHANGED <<frames, orphans, audioRx, outcome>>
    PROVE  Received'
<1>1. Assembled'
  <2>1. \A i \in DOMAIN frames : FrameFits(i, frames[i], outcome.got)'
    <3>1. SUFFICES ASSUME NEW i \in DOMAIN frames PROVE FrameFits(i, frames[i], outcome.got)'
      OBVIOUS
    <3>2. FrameFits(i, frames[i], outcome.got)
      BY DEF Received, Assembled, Assembling
    <3>3. frames[i].origin \in DOMAIN origins
      BY <3>2 DEF FrameFits, Videos, OfKind
    <3> QED BY <3>2, <3>3, KindsKept DEF FrameFits, PartialOf, OriginsKept
  <2>2. \A i \in DOMAIN orphans : OrphanFits(i, orphans[i], outcome.got)'
    <3>1. SUFFICES ASSUME NEW i \in DOMAIN orphans PROVE OrphanFits(i, orphans[i], outcome.got)'
      OBVIOUS
    <3>2. OrphanFits(i, orphans[i], outcome.got)
      BY DEF Received, Assembled, Assembling
    <3>3. PICK o \in Videos : origins[o].id = i /\ PartialOf(orphans[i].chunks, o, "chunk", outcome.got)
      BY <3>2 DEF OrphanFits
    <3>4. o \in DOMAIN origins
      BY DEF Videos, OfKind
    <3>5. origins'[o].id = i /\ PartialOf(orphans[i].chunks, o, "chunk", outcome.got)' /\ o \in Videos'
      BY <3>3, <3>4, KindsKept DEF PartialOf, OriginsKept
    <3> QED BY <3>2, <3>5 DEF OrphanFits
  <2> QED BY <2>1, <2>2 DEF Received, Assembled, Assembling, AgedIsLate, Complete
<1>2. AudioPending'
  <2>1. \A i \in DOMAIN audioRx.pending : \E o \in OfKind("audio")' :
          /\ origins'[o].id = i /\ PartialOf(audioRx.pending[i], o, "audio", outcome.got)'
          /\ Cardinality(DOMAIN audioRx.pending[i]) # origins'[o].count
          /\ DOMAIN audioRx.pending[i] # {}
    <3>1. SUFFICES ASSUME NEW i \in DOMAIN audioRx.pending
                   PROVE  \E o \in OfKind("audio")' :
                            /\ origins'[o].id = i /\ PartialOf(audioRx.pending[i], o, "audio", outcome.got)'
                            /\ Cardinality(DOMAIN audioRx.pending[i]) # origins'[o].count
                            /\ DOMAIN audioRx.pending[i] # {}
      OBVIOUS
    <3>2. PICK o \in OfKind("audio") :
            /\ origins[o].id = i /\ PartialOf(audioRx.pending[i], o, "audio", outcome.got)
            /\ Cardinality(DOMAIN audioRx.pending[i]) # origins[o].count
            /\ DOMAIN audioRx.pending[i] # {}
      BY DEF Received, AudioPending
    <3>3. o \in DOMAIN origins
      BY DEF OfKind
    <3> QED BY <3>2, <3>3, KindsKept DEF PartialOf, OriginsKept
  <2>2. Shown' = Shown /\ Shown \subseteq DOMAIN origins
    BY DEF Shown, Received, ShownArrived
  <2>3. \A o \in Shown' : origins'[o].kind = "audio" => origins'[o].id <= audioRx.newest
    BY <2>2 DEF OriginsKept, Received, AudioPending
  <2> QED BY <2>1, <2>3 DEF Received, AudioPending
<1>3. Accounted'
  BY DEF Received, Accounted, StillHeld, Shown
<1>4. ShownArrived' /\ DroppedSent'
  BY KindsKept DEF Received, ShownArrived, DroppedSent, Shown
<1>5. DeliveredAsSent'
  <2>1. \A n \in DOMAIN outcome.shown : outcome.shown[n].origin \in DOMAIN origins
    BY DEF Received, ShownArrived, Shown
  <2>2. \A n \in DOMAIN outcome.shown :
          origins'[outcome.shown[n].origin] = origins[outcome.shown[n].origin]
    BY <2>1 DEF OriginsKept
  <2>3. outcome' = outcome
    OBVIOUS
  <2>4. SUFFICES ASSUME NEW n \in DOMAIN outcome.shown
                 PROVE  LET o == outcome.shown[n].origin IN
                        /\ outcome.shown[n].parts = [i \in 0 .. origins'[o].count - 1 |-> o]
                        /\ \A m \in DOMAIN outcome.shown : outcome.shown[m].origin = o => m = n
    BY <2>3, SMT DEF DeliveredAsSent
  <2> QED BY <2>2, Zenon DEF Received, DeliveredAsSent
<1>6. DiscardedForCause'
  <2>1. \A o \in outcome.dropped : CauseIn(outcome.got, o) /\ o \in DOMAIN origins
    BY DiscardedMeans DEF Received, DroppedSent
  <2>2. PICK got : got = outcome.got
    OBVIOUS
  <2>3. \A o \in outcome.dropped : CauseIn(got, o)'
    BY <2>1, <2>2, CauseStays
  <2>4. (\A o \in outcome.dropped : CauseIn(outcome.got, o))'
    BY <2>2, <2>3 DEF CauseIn
  <2> QED BY <2>4, DiscardedMeans, PTL
<1>7. AudioInOrder'
  <2>1. \A n \in DOMAIN outcome.shown : outcome.shown[n].origin \in DOMAIN origins
    BY DEF Received, ShownArrived, Shown
  <2> QED BY <2>1, KindsKept DEF Received, AudioInOrder
<1> QED BY <1>1, <1>2, <1>3, <1>4, <1>5, <1>6, <1>7 DEF Received

(* Datagrams already sent stay cuts of what was sent. *)
LEMMA CutsStay ==
    ASSUME TransportTypes, OriginsKept, NEW d, IsCut(d)
    PROVE  IsCut(d)'
  BY KindsKept DEF IsCut, OriginsKept

\* A stuttering step keeps the invariant.
LEMMA TransportUnchanged == TransportInv /\ UNCHANGED transportVars => TransportInv'
<1> SUFFICES ASSUME TransportInv, UNCHANGED transportVars PROVE TransportInv'
  OBVIOUS
<1>1. OriginsKept /\ UNCHANGED <<tx, origins, air, frames, orphans, expected, audioRx, lost, outcome>>
  BY DEF transportVars, OriginsKept
<1>2. TransportTypes' /\ IdsInOrder' /\ LossAhead'
  BY <1>1 DEF TransportInv, TransportTypes, IdsInOrder, LossAhead, Videos, OfKind
<1>3. OnceEach'
  BY <1>1, CutsStay DEF TransportInv, OnceEach
<1>4. Received'
  BY <1>1, <1>2, MoreSent DEF TransportInv, Received
<1> QED BY <1>2, <1>3, <1>4 DEF TransportInv, Received

(* The next identifier is one ahead of every other. *)
LEMMA OneFurther ==
    ASSUME NEW t \in Ids, NEW a \in Ids, Behind(t, a) < IdRing - 1
    PROVE  Behind((t + 1) % IdRing, a) = Behind(t, a) + 1
<1> DEFINE x == (t + 1 - a) % IdRing
           u == (t + 1) % IdRing
           y == (u + 1 - a) % IdRing
<1>1. IdRing \in Nat /\ IdRing > 2 /\ t \in 0 .. IdRing - 1 /\ a \in 0 .. IdRing - 1
  BY TransportNumbers DEF Ids
<1>2. u \in Ids /\ u = IF t + 1 = IdRing THEN 0 ELSE t + 1
  BY NextOnTheRing
<1>3. x = IF t + 1 - a < 0 THEN t + 1 - a + IdRing ELSE IF t + 1 - a = IdRing THEN 0 ELSE t + 1 - a
  BY BehindOnTheRing
<1> HIDE DEF u
<1>4. y = IF u + 1 - a < 0 THEN u + 1 - a + IdRing ELSE IF u + 1 - a = IdRing THEN 0 ELSE u + 1 - a
  BY <1>2, BehindOnTheRing
<1> HIDE DEF x, y
<1>6. x < IdRing - 1
  BY DEF x, Behind
<1>7. y = x + 1
  BY <1>1, <1>2, <1>3, <1>4, <1>6
<1> QED BY <1>7 DEF x, y, u, Behind

\* The identifier taken last is one behind the next.
LEMMA OneBehind ==
    ASSUME NEW u \in Ids
    PROVE  Behind(u, u) = 1
<1>1. (u + 1 - u) % IdRing = IF u + 1 - u < 0 THEN u + 1 - u + IdRing
                             ELSE IF u + 1 - u = IdRing THEN 0 ELSE u + 1 - u
  BY BehindOnTheRing
<1>2. u \in Int /\ u + 1 - u = 1 /\ IdRing > 2
  BY TransportNumbers DEF Ids
<1> QED BY <1>1, <1>2 DEF Behind

\* The distance behind is a number on the ring.
LEMMA BehindIsIn == \A t, a \in Ids : Behind(t, a) \in Ids
<1> SUFFICES ASSUME NEW t \in Ids, NEW a \in Ids PROVE Behind(t, a) \in Ids
  OBVIOUS
<1>1. t + 1 - a \in Int
  BY TransportNumbers DEF Ids
<1> QED BY <1>1, OnTheRing DEF Behind

\* Taking an identifier keeps the identifiers in order and the loss count ahead.
LEMMA VideoSent ==
    ASSUME TransportInv, NEW n \in 0 .. MaxChunks, NEW key \in BOOLEAN,
           Len(origins) < MaxFrames, tx.work = <<>>,
           tx'.frame = (tx.frame + 1) % IdRing, tx'.audio = tx.audio,
           origins' = Append(origins, [kind |-> "video", id |-> (tx.frame + 1) % IdRing,
                                       count |-> n, key |-> key]),
           UNCHANGED <<expected, lost>>
    PROVE  /\ origins' \in Seq(SentRecords) /\ Len(origins') = Len(origins) + 1
           /\ Len(origins') <= MaxFrames /\ OriginsKept
           /\ origins'[Len(origins) + 1] = [kind |-> "video", id |-> (tx.frame + 1) % IdRing,
                                            count |-> n, key |-> key]
           /\ Videos' = Videos \cup {Len(origins) + 1} /\ OfKind("audio")' = OfKind("audio")
           /\ IdsInOrder' /\ LossAhead'
<1> DEFINE t == tx.frame
           u == (t + 1) % IdRing
           N == Len(origins)
           new == [kind |-> "video", id |-> u, count |-> n, key |-> key]
<1>1. t \in Ids /\ u \in Ids /\ tx.audio \in Nat /\ expected \in Ids \cup {-1} /\ lost \in Nat
      /\ tx' .frame = u
  BY NextOnTheRing DEF TransportInv, TransportTypes
<1>2. new \in SentRecords
  BY <1>1 DEF SentRecords
<1>3. origins \in Seq(SentRecords) /\ N \in Nat /\ DOMAIN origins = 1 .. N
  BY VideosCounted DEF TransportInv, TransportTypes
<1> HIDE DEF new
<1>4. /\ origins' \in Seq(SentRecords) /\ Len(origins') = N + 1 /\ DOMAIN origins' = 1 .. N + 1
      /\ \A o \in 1 .. N : origins'[o] = origins[o]
      /\ origins'[N + 1] = new
  <2>1. origins' = Append(origins, new)
    BY DEF new
  <2> QED BY <1>2, <1>3, <2>1, AppendProperties
<1>5. N + 1 <= MaxFrames /\ OriginsKept
  BY <1>3, <1>4, TransportNumbers DEF OriginsKept
<1>6. new.kind = "video" /\ new.id = u /\ new.count = n
  BY DEF new
<1>7. Videos' = Videos \cup {N + 1} /\ OfKind("audio")' = OfKind("audio")
  BY <1>3, <1>4, <1>6 DEF Videos, OfKind
<1>8. /\ IsFiniteSet(Videos) /\ Cardinality(Videos) \in Nat /\ Cardinality(Videos) <= N /\ N <= MaxFrames
      /\ Videos \subseteq 1 .. N
  BY <1>3, VideosCounted DEF TransportInv, Videos, OfKind
<1>9. Cardinality(Videos') = Cardinality(Videos) + 1
  <2>1. N + 1 \notin Videos
    BY <1>3, <1>8
  <2> QED BY <1>7, <1>8, <2>1, FS_AddElement
<1> DEFINE V == Cardinality(Videos)
<1>10. V < IdRing - 1 /\ V \in Nat
  BY <1>8, TransportNumbers
<1> HIDE DEF V
<1>11. /\ Behind(u, u) = 1
       /\ \A a \in Ids : Behind(t, a) \in 0 .. V => Behind(u, a) = Behind(t, a) + 1
  <2>1. Behind(u, u) = 1
    BY <1>1, OneBehind
  <2>2. ASSUME NEW a \in Ids, Behind(t, a) \in 0 .. V PROVE Behind(u, a) = Behind(t, a) + 1
    <3>1. Behind(t, a) < IdRing - 1
      BY <1>10, <2>2, TransportNumbers
    <3> QED BY <1>1, <3>1, OneFurther
  <2> QED BY <2>1, <2>2
<1> HIDE DEF u, t
<1>12. ASSUME NEW o \in Videos
       PROVE  /\ o \in 1 .. N /\ origins'[o] = origins[o] /\ Behind(t, origins[o].id) \in 1 .. V
              /\ Behind(u, origins'[o].id) = Behind(t, origins[o].id) + 1
  <2>1. o \in 1 .. N /\ origins[o].id \in Ids
    BY <1>3, <1>8, VideosCounted DEF TransportInv, SentRecords
  <2>2. Behind(t, origins[o].id) \in 1 .. V
    BY DEF TransportInv, IdsInOrder, V, t
  <2>3. origins'[o] = origins[o]
    BY <1>4, <2>1
  <2>4. V \in Nat
    BY <1>10
  <2> QED BY <1>11, <2>1, <2>2, <2>3, <2>4
<1>13. origins'[N + 1].id = u /\ Behind(u, origins'[N + 1].id) = 1
  BY <1>4, <1>6, <1>11
<1>14. tx'.frame = u /\ tx.frame = t /\ Cardinality(Videos') = V + 1
  BY <1>1, <1>9 DEF V, t
<1>15. IdsInOrder'
  <2>1. \A o \in Videos' : Behind(u, origins'[o].id) \in 1 .. V + 1
    BY <1>7, <1>10, <1>12, <1>13
  <2>2. ASSUME NEW o \in Videos', NEW p \in Videos', o < p
        PROVE  Behind(u, origins'[o].id) > Behind(u, origins'[p].id)
    <3>1. o \in Videos
      BY <1>3, <1>7, <1>8, <2>2
    <3>2. CASE p \in Videos
      <4>1. Behind(t, origins[o].id) > Behind(t, origins[p].id)
        BY <2>2, <3>1, <3>2, <1>14 DEF TransportInv, IdsInOrder
      <4> QED BY <1>10, <1>12, <3>1, <3>2, <4>1
    <3>3. CASE p = N + 1
      BY <1>10, <1>12, <1>13, <3>1, <3>3
    <3> QED BY <1>7, <3>2, <3>3
  <2>3. \A o \in OfKind("audio") : o \in 1 .. N /\ origins'[o] = origins[o]
    BY <1>3, <1>4 DEF OfKind
  <2>4. /\ \A o \in OfKind("audio")' : origins'[o].id \in 1 .. tx'.audio /\ origins'[o].count # 0
        /\ \A o, p \in OfKind("audio")' : o < p => origins'[o].id < origins'[p].id
        /\ tx'.audio <= Len(origins')
    BY <1>1, <1>3, <1>4, <1>7, <2>3 DEF TransportInv, IdsInOrder
  <2> QED BY <1>14, <2>1, <2>2, <2>4 DEF IdsInOrder
<1>16. LossAhead'
  <2>1. CASE expected = -1
    BY <2>1 DEF TransportInv, LossAhead
  <2>2. CASE expected # -1
    <3>1. expected \in Ids /\ expected \in Int
      BY <1>1, <2>2 DEF Ids
    <3>2. Behind(t, expected) <= V /\ (lost = 0 \/ lost + Behind(t, expected) < V)
      BY <2>2, <1>14 DEF TransportInv, LossAhead, V
    <3>3. Behind(t, expected) \in 0 .. V
      <4>1. Behind(t, expected) \in Ids
        BY <1>1, <3>1, BehindIsIn DEF t
      <4> QED BY <1>10, <3>2, <4>1 DEF Ids
    <3>4. Behind(u, expected) = Behind(t, expected) + 1
      BY <1>11, <3>1, <3>3
    <3>5. Behind(u, expected) <= V + 1 /\ (lost = 0 \/ lost + Behind(u, expected) < V + 1)
      BY <1>1, <1>10, <3>2, <3>3, <3>4
    <3> QED BY <1>14, <2>2, <3>5 DEF LossAhead
  <2> QED BY <2>1, <2>2
<1> QED BY <1>4, <1>5, <1>7, <1>15, <1>16 DEF new, u, t

(* The work of a new frame or block is its datagrams, once each. *)
LEMMA WorkGiven ==
    ASSUME TransportTypes, OriginsKept, OnceEach, UNCHANGED <<air, outcome>>,
           NEW o \in DOMAIN origins', o \notin DOMAIN origins,
           (\A i \in DOMAIN tx.work : tx.work[i].origin = o /\ tx.work[i] \in Cuts(o))',
           \A i, j \in DOMAIN tx'.work : i # j => tx'.work[i] # tx'.work[j]
    PROVE  OnceEach'
<1>1. \A d \in air \cup outcome.got : IsCut(d) /\ d.origin \in DOMAIN origins
  BY DEF OnceEach, IsCut
<1>2. \A d \in air \cup outcome.got : IsCut(d)'
  BY <1>1, CutsStay
<1>3. (\A i \in DOMAIN tx.work : IsCut(tx.work[i]) /\ tx.work[i] \notin air \cup outcome.got)'
  BY <1>1 DEF IsCut
<1> QED BY <1>2, <1>3 DEF OnceEach

(***************************************************************************)
(* UdpSender and the clock.                                                *)
(***************************************************************************)
\* UdpSender::send_frame keeps the invariant.
LEMMA SendFrameKeeps ==
    ASSUME TransportInv, NEW n \in FrameSizes, NEW key \in BOOLEAN, SendFrame(n, key)
    PROVE  TransportInv'
<1>1. CASE n > MaxChunks
  <2>1. UNCHANGED transportVars
    BY <1>1 DEF SendFrame, transportVars
  <2> QED BY <2>1, TransportUnchanged
<1>2. CASE ~(n > MaxChunks)
  <2> DEFINE N == Len(origins)
             id == (tx.frame + 1) % IdRing
             new == [kind |-> "video", id |-> id, count |-> n, key |-> key]
             head == Datagram("header", id, 0, n, key)
             rest == [i \in 1 .. n |-> Datagram("chunk", id, i - 1, n, key)]
             work == <<head>> \o rest
  <2>1. n \in 0 .. MaxChunks /\ n \in Nat
    BY <1>2, TransportNumbers
  <2>2. /\ Len(origins) < MaxFrames /\ tx.work = <<>>
        /\ UNCHANGED <<air, frames, orphans, expected, audioRx, lost, outcome>>
        /\ tx' = [tx EXCEPT !.frame = id, !.work = work]
        /\ origins' = Append(origins, new)
    BY <1>2 DEF SendFrame
  <2>3. N \in Nat /\ DOMAIN origins = 1 .. N /\ N + 1 \notin DOMAIN origins /\ N + 1 \in Nat
    BY VideosCounted DEF TransportInv
  <2>30. PICK o : o = N + 1
    OBVIOUS
  <2>4. tx \in [frame : Ids, audio : 0 .. MaxFrames, work : Seq(Datagrams)] /\ id \in Ids
    BY NextOnTheRing DEF TransportInv, TransportTypes
  <2>5. head \in Datagrams /\ \A i \in 1 .. n : rest[i] \in Datagrams
    BY <2>1, <2>3, <2>4 DEF Datagram, Datagrams, PacketKinds
  <2>6. rest \in Seq(Datagrams) /\ Len(rest) = n /\ DOMAIN rest = 1 .. n
    <3>1. rest = [i \in 1 .. n |-> rest[i]] /\ DOMAIN rest = 1 .. n
      OBVIOUS
    <3> HIDE DEF rest
    <3>2. rest \in Seq(Datagrams)
      BY <2>1, <2>5, <3>1, IsASeq
    <3> QED BY <2>1, <3>1, <3>2, LenProperties
  <2>7. <<head>> \in Seq(Datagrams) /\ Len(<<head>>) = 1 /\ <<head>>[1] = head
    BY <2>5
  <2> HIDE DEF head, rest
  <2>8. /\ work \in Seq(Datagrams) /\ Len(work) = n + 1 /\ DOMAIN work = 1 .. n + 1
        /\ work[1] = head
        /\ \A i \in 2 .. n + 1 : work[i] = rest[i - 1]
    BY <2>1, <2>6, <2>7, ConcatProperties, LenProperties
  <2> HIDE DEF work, id, new
  <2>9. tx' \in [frame : Ids, audio : 0 .. MaxFrames, work : Seq(Datagrams)]
        /\ tx'.frame = id /\ tx'.audio = tx.audio /\ tx'.work = work
    BY <2>2, <2>4, <2>8
  <2>10. /\ origins' \in Seq(SentRecords) /\ Len(origins') = N + 1
         /\ Len(origins') <= MaxFrames /\ OriginsKept
         /\ origins'[o] = new
         /\ o \in Videos'
         /\ IdsInOrder' /\ LossAhead'
    BY <2>1, <2>2, <2>9, <2>30, VideoSent DEF id, new
  <2>11. TransportTypes'
    BY <2>2, <2>9, <2>10 DEF TransportInv, TransportTypes
  <2>12. Received'
    BY <2>2, <2>10, <2>11, MoreSent DEF TransportInv, Received
  <2>13. o \in DOMAIN origins' /\ o \notin DOMAIN origins
    BY <2>10, <2>3, <2>30, LenProperties
  <2>14. new.kind = "video" /\ new.id = id /\ new.count = n /\ new.key = key
    BY DEF new
  <2>15. head = Cut(o, "header", 0)' /\ \A i \in 1 .. n : rest[i] = Cut(o, "chunk", i - 1)'
    BY <2>10, <2>14, <2>30 DEF Cut, head, rest, Datagram
  <2>16. ASSUME NEW i \in DOMAIN tx'.work
         PROVE  /\ tx'.work[i].origin = o /\ tx'.work[i] \in Cuts(o)'
                /\ IF i = 1 THEN tx'.work[i].kind = "header"
                   ELSE tx'.work[i].kind = "chunk" /\ tx'.work[i].index = i - 2
    <3>1. i \in 1 .. n + 1 /\ tx'.work[i] = work[i]
      BY <2>8, <2>9
    <3>2. CASE i = 1
      BY <2>8, <2>10, <2>14, <2>15, <3>1, <3>2 DEF Cuts, Cut
    <3>3. CASE i # 1
      <4>1. i \in 2 .. n + 1 /\ i - 1 \in 1 .. n /\ i - 2 \in 0 .. n - 1 /\ i - 1 - 1 = i - 2
        BY <2>1, <3>1, <3>3
      <4>2. work[i] = Cut(o, "chunk", i - 2)'
        BY <2>8, <2>15, <4>1
      <4>3. work[i] \in Cuts(o)'
        BY <2>10, <2>14, <4>1, <4>2 DEF Cuts
      <4> QED BY <3>1, <3>3, <4>2, <4>3 DEF Cut
    <3> QED BY <3>2, <3>3
  <2>17. \A i, j \in DOMAIN tx'.work : i # j => tx'.work[i] # tx'.work[j]
    BY <2>8, <2>9, <2>16
  <2>18. OnceEach'
    BY <2>2, <2>10, <2>13, <2>16, <2>17, WorkGiven DEF TransportInv
  <2> QED BY <2>10, <2>11, <2>12, <2>18 DEF TransportInv, Received
<1> QED BY <1>1, <1>2

\* UdpSender::send_audio keeps the invariant.
LEMMA SendAudioKeeps ==
    ASSUME TransportInv, NEW n \in FrameSizes \cap 1 .. MaxChunks, SendAudio(n)
    PROVE  TransportInv'
<1> DEFINE N == Len(origins)
           id == (tx.audio + 1) % IdRing
           new == [kind |-> "audio", id |-> id, count |-> n, key |-> FALSE]
           work == [i \in 1 .. n |-> Datagram("audio", id, i - 1, n, FALSE)]
<1>1. PICK o : o = N + 1
  OBVIOUS
<1>2. /\ N < MaxFrames /\ tx.work = <<>>
      /\ UNCHANGED <<air, frames, orphans, expected, audioRx, lost, outcome>>
      /\ tx' = [tx EXCEPT !.audio = id, !.work = work]
      /\ origins' = Append(origins, new)
  BY DEF SendAudio
<1>3. /\ N \in Nat /\ DOMAIN origins = 1 .. N /\ o \in Nat /\ o \notin DOMAIN origins
      /\ \A p \in DOMAIN origins : origins[p] \in SentRecords
  BY <1>1, VideosCounted DEF TransportInv
<1>4. /\ tx \in [frame : Ids, audio : 0 .. MaxFrames, work : Seq(Datagrams)]
      /\ tx.audio \in Nat /\ tx.audio <= N /\ origins \in Seq(SentRecords)
  BY TransportNumbers DEF TransportInv, TransportTypes, IdsInOrder
<1>5. id = tx.audio + 1 /\ id \in Ids /\ id \in 0 .. MaxFrames /\ id > 0 /\ id \in Nat
  <2>1. tx.audio + 1 \in Int /\ tx.audio + 1 < IdRing /\ tx.audio + 1 <= MaxFrames
    <3>1. N < MaxFrames
      BY <1>2
    <3>2. MaxFrames \in Nat /\ IdRing \in Nat /\ IdRing > 2 * MaxFrames
      BY TransportNumbers
    <3> HIDE DEF N
    <3> QED BY <1>3, <1>4, <3>1, <3>2
  <2>2. id = tx.audio + 1
    BY <1>4, <2>1, OnTheRing
  <2> QED BY <1>4, <2>1, <2>2, TransportNumbers DEF Ids
<1>6. n \in Nat /\ n > 0 /\ n \in 0 .. MaxChunks
  BY TransportNumbers
<1> HIDE DEF id
<1>7. \A i \in 1 .. n : work[i] \in Datagrams
  BY <1>1, <1>3, <1>5, <1>6 DEF Datagram, Datagrams, PacketKinds
<1>8. work \in Seq(Datagrams) /\ DOMAIN work = 1 .. n
  <2>1. work = [i \in 1 .. n |-> work[i]] /\ DOMAIN work = 1 .. n
    OBVIOUS
  <2> HIDE DEF work
  <2> QED BY <1>6, <1>7, <2>1, IsASeq
<1>9. new \in SentRecords /\ new.kind = "audio" /\ new.id = id /\ new.count = n /\ new.key = FALSE
  BY <1>5, <1>6 DEF SentRecords
<1>10. \A i \in 1 .. n : work[i] = Datagram("audio", id, i - 1, n, FALSE)
  OBVIOUS
<1> HIDE DEF work, new
<1>11. tx' \in [frame : Ids, audio : 0 .. MaxFrames, work : Seq(Datagrams)]
       /\ tx'.frame = tx.frame /\ tx'.audio = id /\ tx'.work = work
  BY <1>2, <1>4, <1>5, <1>8
<1>12. /\ origins' \in Seq(SentRecords) /\ Len(origins') = N + 1 /\ DOMAIN origins' = 1 .. N + 1
       /\ \A p \in 1 .. N : origins'[p] = origins[p]
       /\ origins'[o] = new
  BY <1>1, <1>2, <1>4, <1>9, AppendProperties, LenProperties
<1>13. OriginsKept /\ Len(origins') <= MaxFrames /\ o \in DOMAIN origins'
  BY <1>1, <1>2, <1>3, <1>12, TransportNumbers DEF OriginsKept
<1>14. TransportTypes'
  BY <1>2, <1>11, <1>12, <1>13 DEF TransportInv, TransportTypes
<1>15. Videos' = Videos /\ OfKind("audio")' = OfKind("audio") \cup {o}
  BY <1>1, <1>3, <1>9, <1>12 DEF Videos, OfKind
<1>16. IdsInOrder' /\ LossAhead'
  <2>1. \A p \in Videos : p \in 1 .. N /\ origins'[p] = origins[p]
    BY <1>3, <1>12 DEF Videos, OfKind
  <2>2. /\ \A p \in Videos' : Behind(tx.frame, origins'[p].id) \in 1 .. Cardinality(Videos)
        /\ \A p, q \in Videos' : p < q => Behind(tx.frame, origins'[p].id) > Behind(tx.frame, origins'[q].id)
    BY <1>15, <2>1 DEF TransportInv, IdsInOrder
  <2>3. \A p \in OfKind("audio") : p \in 1 .. N /\ origins'[p] = origins[p]
           /\ origins[p].id \in 1 .. tx.audio /\ origins[p].count # 0
    BY <1>3, <1>12 DEF OfKind, TransportInv, IdsInOrder
  <2>4. \A p, q \in OfKind("audio") : p < q => origins[p].id < origins[q].id
    BY DEF TransportInv, IdsInOrder
  <2>5. /\ \A p \in OfKind("audio")' : origins'[p].id \in 1 .. id /\ origins'[p].count # 0
        /\ \A p, q \in OfKind("audio")' : p < q => origins'[p].id < origins'[q].id
        /\ id <= Len(origins')
    BY <1>1, <1>3, <1>4, <1>5, <1>6, <1>9, <1>12, <1>15, <2>3, <2>4
  <2>6. IdsInOrder'
    BY <1>11, <1>15, <2>2, <2>5 DEF IdsInOrder
  <2> QED BY <1>2, <1>11, <1>15, <2>6 DEF TransportInv, LossAhead
<1>17. Received'
  BY <1>2, <1>13, <1>14, MoreSent DEF TransportInv, Received
<1>18. ASSUME NEW i \in DOMAIN tx'.work
       PROVE  tx'.work[i].origin = o /\ tx'.work[i] \in Cuts(o)' /\ tx'.work[i].index = i - 1
              /\ i \in 1 .. n
  <2>0. i \in 1 .. n
    BY <1>8, <1>11
  <2>1. i \in 1 .. n /\ tx'.work[i] = Datagram("audio", id, i - 1, n, FALSE) /\ i - 1 \in 0 .. n - 1
    <3>1. tx'.work = work
      BY <1>11
    <3>2. i - 1 \in 0 .. n - 1
      BY <1>6, <2>0
    <3> QED BY <1>10, <2>0, <3>1, <3>2, Zenon
  <2>2. tx'.work[i] = Cut(o, "audio", i - 1)'
    BY <1>1, <1>9, <1>12, <2>1 DEF Datagram, Cut
  <2>3. tx'.work[i] \in Cuts(o)'
    BY <1>9, <1>12, <2>1, <2>2 DEF Cuts
  <2>4. tx'.work[i].origin = o /\ tx'.work[i].index = i - 1
    BY <2>2 DEF Cut
  <2> QED BY <2>0, <2>3, <2>4
<1>19. \A i, j \in DOMAIN tx'.work : i # j => tx'.work[i] # tx'.work[j]
  BY <1>18
<1>20. OnceEach'
  BY <1>2, <1>3, <1>13, <1>18, <1>19, WorkGiven DEF TransportInv
<1> QED BY <1>14, <1>16, <1>17, <1>20 DEF TransportInv, Received

\* Sending, losing or failing to send one datagram keeps the invariant.
LEMMA SendPacketKeeps ==
    ASSUME TransportInv, NEW fate \in {"sent", "lost", "failed"}, SendPacket(fate)
    PROVE  TransportInv'
<1>1. /\ tx.work # <<>>
      /\ tx' = IF fate = "failed" THEN [tx EXCEPT !.work = <<>>] ELSE [tx EXCEPT !.work = Tail(@)]
      /\ air' = IF fate = "sent" THEN air \cup {Head(tx.work)} ELSE air
      /\ UNCHANGED <<origins, frames, orphans, expected, audioRx, lost, outcome>>
  BY DEF SendPacket
<1>2. /\ tx \in [frame : Ids, audio : 0 .. MaxFrames, work : Seq(Datagrams)]
      /\ air \subseteq Datagrams /\ OriginsKept
  BY <1>1 DEF TransportInv, TransportTypes, OriginsKept
<1>3. /\ Head(tx.work) = tx.work[1] /\ Head(tx.work) \in Datagrams /\ 1 \in DOMAIN tx.work
      /\ Tail(tx.work) \in Seq(Datagrams)
      /\ \A i \in DOMAIN Tail(tx.work) : i \in Nat /\ i + 1 \in DOMAIN tx.work /\ i + 1 # 1
                                         /\ Tail(tx.work)[i] = tx.work[i + 1]
  <2>1. tx.work \in Seq(Datagrams) /\ Len(tx.work) \in Nat /\ DOMAIN tx.work = 1 .. Len(tx.work)
    BY <1>2, LenProperties
  <2>2. Tail(tx.work) \in Seq(Datagrams) /\ Len(Tail(tx.work)) = Len(tx.work) - 1
        /\ Head(tx.work) = tx.work[1] /\ Head(tx.work) \in Datagrams
        /\ \A i \in 1 .. Len(Tail(tx.work)) : Tail(tx.work)[i] = tx.work[i + 1]
    BY <1>1, <2>1, HeadTailProperties
  <2>3. DOMAIN Tail(tx.work) = 1 .. Len(tx.work) - 1 /\ Len(tx.work) > 0
    BY <2>1, <2>2, <1>1, LenProperties, EmptySeq
  <2> QED BY <2>1, <2>2, <2>3
<1>4. /\ tx' \in [frame : Ids, audio : 0 .. MaxFrames, work : Seq(Datagrams)]
      /\ tx'.frame = tx.frame /\ tx'.audio = tx.audio
      /\ tx'.work = <<>> \/ tx'.work = Tail(tx.work)
  <2>1. <<>> \in Seq(Datagrams)
    BY EmptySeq
  <2> QED BY <1>1, <1>2, <1>3, <2>1
<1>5. air' \subseteq Datagrams /\ air \subseteq air' /\ air' \subseteq air \cup {tx.work[1]}
  BY <1>1, <1>2, <1>3
<1>6. TransportTypes'
  BY <1>1, <1>4, <1>5 DEF TransportInv, TransportTypes
<1>7. IdsInOrder' /\ LossAhead'
  BY <1>1, <1>4 DEF TransportInv, IdsInOrder, LossAhead, Videos, OfKind
<1>8. OnceEach'
  <2>1. \A d \in air' \cup outcome'.got : IsCut(d)
    BY <1>1, <1>3, <1>5 DEF TransportInv, OnceEach
  <2>2. air' \cap outcome'.got = {}
    BY <1>1, <1>3, <1>5 DEF TransportInv, OnceEach
  <2>3. ASSUME NEW i \in DOMAIN tx'.work
        PROVE  IsCut(tx'.work[i]) /\ tx'.work[i] \notin air' \cup outcome'.got
    <3>1. tx'.work = Tail(tx.work)
      BY <1>4, <2>3
    <3> QED BY <1>1, <1>3, <1>5, <2>3, <3>1 DEF TransportInv, OnceEach
  <2>4. \A i, j \in DOMAIN tx'.work : i # j => tx'.work[i] # tx'.work[j]
    <3>1. SUFFICES ASSUME NEW i \in DOMAIN tx'.work, NEW j \in DOMAIN tx'.work, i # j
                   PROVE  tx'.work[i] # tx'.work[j]
      OBVIOUS
    <3>2. tx'.work = Tail(tx.work)
      BY <1>4, <3>1
    <3>3. i + 1 # j + 1
      BY <1>3, <3>1, <3>2
    <3> QED BY <1>3, <3>1, <3>2, <3>3 DEF TransportInv, OnceEach
  <2>5. \A d : IsCut(d) => IsCut(d)'
    BY <1>2, CutsStay DEF TransportInv
  <2>6. (\A i \in DOMAIN tx.work : IsCut(tx.work[i]) /\ tx.work[i] \notin air \cup outcome.got)'
    <3>1. SUFFICES ASSUME NEW i \in DOMAIN tx'.work
                   PROVE  (IsCut(tx.work[i]) /\ tx.work[i] \notin air \cup outcome.got)'
      OBVIOUS
    <3>2. PICK d : d = tx'.work[i]
      OBVIOUS
    <3>3. IsCut(d)' /\ d \notin air' \cup outcome'.got
      BY <2>3, <2>5, <3>2
    <3> QED BY <3>2, <3>3 DEF IsCut
  <2> QED BY <2>1, <2>2, <2>4, <2>5, <2>6 DEF OnceEach
<1>9. Received'
  BY <1>1, <1>2, <1>6, MoreSent DEF TransportInv, Received
<1> QED BY <1>6, <1>7, <1>8, <1>9 DEF TransportInv, Received

(* What comes out is whole, its own, and comes out once. *)
AsSent(shown, sent) ==
    \A n \in DOMAIN shown :
        /\ shown[n].parts = [i \in 0 .. sent[shown[n].origin].count - 1 |-> shown[n].origin]
        /\ \A m \in DOMAIN shown : shown[m].origin = shown[n].origin => m = n

\* DeliveredAsSent in the terms of this proof.
LEMMA DeliveredMeans == DeliveredAsSent <=> AsSent(outcome.shown, origins)
  BY DEF DeliveredAsSent, AsSent

(* Growing older changes the ages and nothing else. *)
LEMMA FramesAged ==
    ASSUME NEW fs, IsMap(fs, Ids, Assemblies)
    PROVE  /\ IsMap(Ages(fs), Ids, Assemblies) /\ DOMAIN Ages(fs) = DOMAIN fs
           /\ \A i \in DOMAIN fs : /\ Ages(fs)[i].count = fs[i].count /\ Ages(fs)[i].key = fs[i].key
                                   /\ Ages(fs)[i].origin = fs[i].origin /\ Ages(fs)[i].chunks = fs[i].chunks
<1> DEFINE aged(a) == [a EXCEPT !.age = IF @ < AssemblyTimeout THEN @ + 1 ELSE @]
<1>1. ASSUME NEW a \in Assemblies
      PROVE  /\ aged(a) \in Assemblies /\ aged(a).count = a.count /\ aged(a).key = a.key
             /\ aged(a).origin = a.origin /\ aged(a).chunks = a.chunks
  <2>1. AssemblyTimeout \in Nat /\ a.age \in 0 .. AssemblyTimeout
    BY TransportNumbers DEF Assemblies
  <2>2. (IF a.age < AssemblyTimeout THEN a.age + 1 ELSE a.age) \in 0 .. AssemblyTimeout
    BY <2>1
  <2> QED BY <2>2 DEF Assemblies
<1>2. /\ DOMAIN Ages(fs) = DOMAIN fs /\ Ages(fs) = [i \in DOMAIN Ages(fs) |-> Ages(fs)[i]]
      /\ \A i \in DOMAIN fs : Ages(fs)[i] = aged(fs[i])
  BY DEF Ages
<1>3. DOMAIN fs \subseteq Ids /\ \A i \in DOMAIN fs : fs[i] \in Assemblies
  BY DEF IsMap
<1> HIDE DEF aged
<1> QED BY <1>1, <1>2, <1>3 DEF IsMap

\* A tick of the clock ages the waiting chunks and changes nothing else of them.
LEMMA OrphansAged ==
    ASSUME NEW os, IsMap(os, Ids, Waiting)
    PROVE  /\ IsMap(Ages(os), Ids, Waiting) /\ DOMAIN Ages(os) = DOMAIN os
           /\ \A i \in DOMAIN os : Ages(os)[i].chunks = os[i].chunks
<1> DEFINE aged(a) == [a EXCEPT !.age = IF @ < AssemblyTimeout THEN @ + 1 ELSE @]
<1>1. ASSUME NEW a \in Waiting
      PROVE  aged(a) \in Waiting /\ aged(a).chunks = a.chunks
  <2>1. AssemblyTimeout \in Nat /\ a.age \in 0 .. AssemblyTimeout
    BY TransportNumbers DEF Waiting
  <2>2. (IF a.age < AssemblyTimeout THEN a.age + 1 ELSE a.age) \in 0 .. AssemblyTimeout
    BY <2>1
  <2> QED BY <2>2 DEF Waiting
<1>2. /\ DOMAIN Ages(os) = DOMAIN os /\ Ages(os) = [i \in DOMAIN Ages(os) |-> Ages(os)[i]]
      /\ \A i \in DOMAIN os : Ages(os)[i] = aged(os[i])
  BY DEF Ages
<1>3. DOMAIN os \subseteq Ids /\ \A i \in DOMAIN os : os[i] \in Waiting
  BY DEF IsMap
<1> HIDE DEF aged
<1> QED BY <1>1, <1>2, <1>3 DEF IsMap

\* A tick of the clock keeps the invariant.
LEMMA TickKeeps ==
    ASSUME TransportInv, TransportTick
    PROVE  TransportInv'
<1>1. /\ frames' = Ages(frames) /\ orphans' = Ages(orphans)
      /\ outcome' = [outcome EXCEPT !.late = TRUE]
      /\ UNCHANGED <<tx, origins, air, expected, audioRx, lost>>
  BY DEF TransportTick
<1>2. /\ outcome' \in Outcomes /\ outcome'.got = outcome.got /\ outcome'.shown = outcome.shown
      /\ outcome'.dropped = outcome.dropped /\ outcome'.late = TRUE
  BY <1>1 DEF TransportInv, TransportTypes, Outcomes
<1>3. /\ IsMap(frames', Ids, Assemblies) /\ DOMAIN frames' = DOMAIN frames
      /\ \A i \in DOMAIN frames :
           /\ frames'[i].count = frames[i].count /\ frames'[i].key = frames[i].key
           /\ frames'[i].origin = frames[i].origin /\ frames'[i].chunks = frames[i].chunks
  BY <1>1, FramesAged DEF TransportInv, TransportTypes
<1>4. /\ IsMap(orphans', Ids, Waiting) /\ DOMAIN orphans' = DOMAIN orphans
      /\ \A i \in DOMAIN orphans : orphans'[i].chunks = orphans[i].chunks
  BY <1>1, OrphansAged DEF TransportInv, TransportTypes
<1>5. TransportTypes'
  BY <1>1, <1>2, <1>3, <1>4 DEF TransportInv, TransportTypes
<1>6. IdsInOrder' /\ LossAhead'
  BY <1>1 DEF TransportInv, IdsInOrder, LossAhead, Videos, OfKind
<1>7. OriginsKept
  BY <1>1 DEF OriginsKept
<1>8. OnceEach'
  <2>1. \A d : IsCut(d) => IsCut(d)'
    BY <1>7, CutsStay DEF TransportInv
  <2>2. (\A i \in DOMAIN tx.work : IsCut(tx.work[i]) /\ tx.work[i] \notin air \cup outcome.got)'
    <3>1. SUFFICES ASSUME NEW i \in DOMAIN tx'.work
                   PROVE  (IsCut(tx.work[i]) /\ tx.work[i] \notin air \cup outcome.got)'
      OBVIOUS
    <3>2. PICK d : d = tx'.work[i]
      OBVIOUS
    <3>3. IsCut(d)' /\ d \notin air' \cup outcome'.got
      BY <1>1, <1>2, <2>1, <3>1, <3>2 DEF TransportInv, OnceEach
    <3> QED BY <3>2, <3>3 DEF IsCut
  <2> QED BY <1>1, <1>2, <2>1, <2>2 DEF TransportInv, OnceEach
<1>9. Assembled'
  <2>1. \A i \in DOMAIN frames' : FrameFits(i, frames[i], outcome.got)'
    BY <1>1, <1>2, <1>3 DEF TransportInv, Assembled, Assembling, FrameFits, PartialOf, Cut, Videos,
       OfKind
  <2>2. \A i \in DOMAIN orphans' : OrphanFits(i, orphans[i], outcome.got)'
    BY <1>1, <1>2, <1>4 DEF TransportInv, Assembled, Assembling, OrphanFits, PartialOf, Cut, Videos,
       OfKind
  <2>3. AgedIsLate(frames, orphans)'
    BY <1>2 DEF AgedIsLate
  <2>4. \A i \in DOMAIN frames' : ~Complete(frames[i])'
    BY <1>3 DEF Complete, TransportInv, Assembled
  <2> QED BY <1>3, <1>4, <2>1, <2>2, <2>3, <2>4 DEF TransportInv, Assembled, Assembling
<1>10. AudioPending' /\ ShownArrived' /\ DroppedSent' /\ AudioInOrder'
  BY <1>1, <1>2 DEF TransportInv, AudioPending, ShownArrived, DroppedSent, AudioInOrder, OfKind,
                    PartialOf, Shown, Cuts, Cut
<1>11. DeliveredAsSent'
  <2>1. AsSent(outcome.shown, origins)
    BY DeliveredMeans DEF TransportInv
  <2>2. AsSent(outcome'.shown, origins')
    BY <1>1, <1>2, <2>1
  <2>3. AsSent(outcome.shown, origins)'
    BY <2>2 DEF AsSent
  <2> QED BY <2>3, DeliveredMeans, PTL
<1>12. Accounted'
  <2>1. PartsIn(frames, orphans)' = PartsIn(frames, orphans)
    <3>1. ASSUME NEW p PROVE p \in PartsIn(frames', orphans') <=> p \in PartsIn(frames, orphans)
      BY <1>3, <1>4, PartsHeld
    <3> QED BY <3>1 DEF PartsIn
  <2> QED BY <1>1, <1>2, <2>1 DEF TransportInv, Accounted, StillHeld, Shown
<1>13. DiscardedForCause'
  <2>1. \A o \in outcome.dropped : CauseIn(outcome.got, o) /\ o \in DOMAIN origins
    BY DiscardedMeans DEF TransportInv, DroppedSent
  <2>2. PICK got : got = outcome.got
    OBVIOUS
  <2>3. \A o \in outcome.dropped : CauseIn(got, o)'
    BY <1>2, <1>5, <1>7, <2>1, <2>2, CauseStays DEF TransportInv
  <2>4. (\A o \in outcome.dropped : CauseIn(outcome.got, o))'
    BY <1>2, <2>2, <2>3 DEF CauseIn
  <2> QED BY <2>4, DiscardedMeans, PTL
<1> QED BY <1>5, <1>6, <1>8, <1>9, <1>10, <1>11, <1>12, <1>13 DEF TransportInv

(* The history of what happened to a datagram changes in three fields. *)
LEMMA OutcomeIs ==
    ASSUME NEW g \in SUBSET Datagrams, NEW s \in Seq([origin : Nat, parts : ChunkMaps]),
           NEW r \in SUBSET Nat, outcome \in Outcomes,
           outcome' = [outcome EXCEPT !.got = g, !.shown = s, !.dropped = r]
    PROVE  /\ outcome' \in Outcomes /\ outcome'.got = g /\ outcome'.shown = s
           /\ outcome'.dropped = r /\ outcome'.late = outcome.late
  BY DEF Outcomes

(* A datagram is received for the first time, and no longer in flight. *)
Arrives(d) ==
    /\ TransportInv /\ d \in air /\ air' = air \ {d} /\ UNCHANGED <<tx, origins>>
    /\ outcome'.got = outcome.got \cup {d} /\ outcome'.late = outcome.late

\* What the arrival of a datagram does to the sent frames and to the network.
LEMMA OnceReceived ==
    ASSUME NEW d, Arrives(d)
    PROVE  /\ OnceEach' /\ d \in Datagrams /\ d \notin outcome.got /\ OriginsKept
           /\ d.origin \in DOMAIN origins /\ d \in Cuts(d.origin)
           /\ \A x \in outcome.got \cup {d} : x.origin \in DOMAIN origins /\ x \in Cuts(x.origin)
           /\ IdsInOrder' /\ air' \subseteq Datagrams
<1>1. OriginsKept
  BY DEF Arrives, OriginsKept
<1>2. /\ d \in Datagrams /\ d \notin outcome.got /\ IsCut(d) /\ air' \subseteq Datagrams
      /\ \A x \in outcome.got : IsCut(x)
  BY DEF Arrives, TransportInv, OnceEach, TransportTypes
<1>3. \A x : IsCut(x) => IsCut(x)'
  BY <1>1, CutsStay DEF Arrives, TransportInv
<1>4. (\A i \in DOMAIN tx.work : IsCut(tx.work[i]) /\ tx.work[i] \notin air \cup outcome.got)'
  <2>1. SUFFICES ASSUME NEW i \in DOMAIN tx'.work
                 PROVE  (IsCut(tx.work[i]) /\ tx.work[i] \notin air \cup outcome.got)'
    OBVIOUS
  <2>2. PICK x : x = tx'.work[i]
    OBVIOUS
  <2>3. IsCut(x)' /\ x \notin air' \cup outcome'.got
    BY <1>3, <2>1, <2>2 DEF Arrives, TransportInv, OnceEach
  <2> QED BY <2>2, <2>3 DEF IsCut
<1>5. OnceEach'
  BY <1>2, <1>3, <1>4 DEF Arrives, TransportInv, OnceEach
<1>6. IdsInOrder'
  BY DEF Arrives, TransportInv, IdsInOrder, Videos, OfKind
<1> QED BY <1>1, <1>2, <1>5, <1>6 DEF IsCut

(* Delivering the frame or the block of the datagram that came keeps what was delivered in order. *)
LEMMA ShowOne ==
    ASSUME NEW d, Arrives(d), NEW ps \in ChunkMaps,
           outcome'.shown = Append(outcome.shown, [origin |-> d.origin, parts |-> ps]),
           Cuts(d.origin) \subseteq outcome.got \cup {d},
           ps = [i \in 0 .. origins[d.origin].count - 1 |-> d.origin],
           origins[d.origin].kind = "audio" =>
               \A o \in Shown : origins[o].kind = "audio" => origins[o].id <= origins[d.origin].id
    PROVE  /\ ShownArrived' /\ DeliveredAsSent' /\ AudioInOrder'
           /\ outcome'.shown \in Seq([origin : Nat, parts : ChunkMaps])
           /\ Shown' = Shown \cup {d.origin}
<1> DEFINE new == [origin |-> d.origin, parts |-> ps]
           old == outcome.shown
           n == Len(outcome.shown)
<1>1. /\ d.origin \in DOMAIN origins /\ d \in Cuts(d.origin) /\ d \notin outcome.got /\ origins' = origins
      /\ outcome'.got = outcome.got \cup {d}
  BY OnceReceived DEF Arrives
<1>2. d.origin \in Nat /\ DOMAIN origins \subseteq Nat
  BY <1>1, VideosCounted DEF Arrives, TransportInv
<1>3. old \in Seq([origin : Nat, parts : ChunkMaps]) /\ new \in [origin : Nat, parts : ChunkMaps]
  BY <1>2 DEF Arrives, TransportInv, TransportTypes, Outcomes
<1>4. n \in Nat /\ DOMAIN old = 1 .. n
  BY <1>3, LenProperties
<1>5. /\ outcome'.shown \in Seq([origin : Nat, parts : ChunkMaps])
      /\ Len(outcome'.shown) = n + 1 /\ DOMAIN outcome'.shown = 1 .. n + 1
      /\ \A i \in 1 .. n : outcome'.shown[i] = old[i]
      /\ outcome'.shown[n + 1] = new
  BY <1>3, <1>4, AppendProperties, LenProperties
<1>6. new.origin = d.origin /\ new.parts = ps
  OBVIOUS
<1>7. d.origin \notin Shown
  BY <1>1 DEF Arrives, TransportInv, ShownArrived
<1>8. \A i \in 1 .. n : old[i].origin \in Shown
  BY <1>4 DEF Shown
<1> HIDE DEF new, n
<1>9. Shown' = Shown \cup {d.origin}
  <2>1. \A o : o \in Shown' <=> \E i \in 1 .. n + 1 : outcome'.shown[i].origin = o
    BY <1>5 DEF Shown
  <2>2. \A o : o \in Shown <=> \E i \in 1 .. n : old[i].origin = o
    BY <1>4 DEF Shown
  <2>3. ASSUME NEW o \in Shown' PROVE o \in Shown \cup {d.origin}
    <3>1. PICK i \in 1 .. n + 1 : outcome'.shown[i].origin = o
      BY <2>1
    <3>2. i \in 1 .. n \/ i = n + 1
      BY <1>4
    <3> QED BY <1>5, <1>6, <2>2, <3>1, <3>2
  <2>4. ASSUME NEW o \in Shown \cup {d.origin} PROVE o \in Shown'
    <3>1. CASE o = d.origin
      <4>1. n + 1 \in 1 .. n + 1
        BY <1>4
      <4> QED BY <1>5, <1>6, <2>1, <3>1, <4>1
    <3>2. CASE o \in Shown
      <4>1. PICK i \in 1 .. n : old[i].origin = o
        BY <2>2, <3>2
      <4>2. i \in 1 .. n + 1
        BY <1>4
      <4> QED BY <1>5, <2>1, <4>1, <4>2
    <3> QED BY <3>1, <3>2
  <2> QED BY <2>3, <2>4
<1>10. ShownArrived'
  <2>1. \A o \in Shown \cup {d.origin} : o \in DOMAIN origins /\ Cuts(o) \subseteq outcome.got \cup {d}
    BY <1>1 DEF Arrives, TransportInv, ShownArrived
  <2>2. \A o \in DOMAIN origins : Cuts(o)' = Cuts(o)
    BY KindsKept, OnceReceived DEF Arrives, TransportInv
  <2>3. (Shown \subseteq DOMAIN origins)' /\ \A o \in Shown' : Cuts(o)' \subseteq outcome'.got
    BY <1>1, <1>9, <2>1, <2>2
  <2> QED BY <2>3 DEF ShownArrived
<1>11. DeliveredAsSent'
  <2>1. AsSent(old, origins)
    BY DeliveredMeans DEF Arrives, TransportInv
  <2>2. ASSUME NEW i \in 1 .. n + 1
        PROVE  /\ outcome'.shown[i].parts = [k \in 0 .. origins[outcome'.shown[i].origin].count - 1
                                                |-> outcome'.shown[i].origin]
               /\ \A m \in 1 .. n + 1 : outcome'.shown[m].origin = outcome'.shown[i].origin => m = i
    <3>1. CASE i = n + 1
      <4>1. \A m \in 1 .. n + 1 : outcome'.shown[m].origin = d.origin => m = n + 1
        <5>1. \A m \in 1 .. n + 1 : m \in 1 .. n \/ m = n + 1
          BY <1>4
        <5> QED BY <1>5, <1>7, <1>8, <5>1
      <4>2. outcome'.shown[i].origin = d.origin /\ outcome'.shown[i].parts = ps
        BY <1>5, <1>6, <3>1
      <4> QED BY <3>1, <4>1, <4>2
    <3>2. CASE i \in 1 .. n
      <4>1. outcome'.shown[i] = old[i]
        BY <1>5, <3>2
      <4>2. /\ old[i].parts = [k \in 0 .. origins[old[i].origin].count - 1 |-> old[i].origin]
            /\ \A m \in 1 .. n : old[m].origin = old[i].origin => m = i
        BY <1>4, <2>1, <3>2 DEF AsSent
      <4>3. old[i].origin # d.origin
        BY <1>7, <1>8, <3>2
      <4>4. \A m \in 1 .. n + 1 : m \in 1 .. n \/ m = n + 1
        BY <1>4
      <4>5. \A m \in 1 .. n + 1 : outcome'.shown[m].origin = old[i].origin => m = i
        BY <1>5, <1>6, <4>2, <4>3, <4>4
      <4> QED BY <4>1, <4>2, <4>5
    <3>3. i = n + 1 \/ i \in 1 .. n
      BY <1>4
    <3> QED BY <3>1, <3>2, <3>3
  <2>3. AsSent(outcome'.shown, origins')
    BY <1>1, <1>5, <2>2, Zenon DEF AsSent
  <2>4. AsSent(outcome.shown, origins)'
    BY <2>3 DEF AsSent
  <2> QED BY <2>4, DeliveredMeans, PTL
<1>12. AudioInOrder'
  <2>1. SUFFICES ASSUME NEW k \in 1 .. n + 1, NEW m \in 1 .. n + 1, k < m,
                        outcome'.shown[k].origin \in OfKind("audio"),
                        outcome'.shown[m].origin \in OfKind("audio")
                 PROVE  outcome'.shown[k].origin < outcome'.shown[m].origin
    BY <1>1, <1>5 DEF AudioInOrder, OfKind
  <2>2. k \in 1 .. n /\ outcome'.shown[k] = old[k]
    BY <1>4, <1>5, <2>1
  <2>3. CASE m \in 1 .. n
    BY <1>4, <1>5, <2>1, <2>2, <2>3 DEF Arrives, TransportInv, AudioInOrder
  <2>4. CASE m = n + 1
    <3>1. outcome'.shown[m].origin = d.origin
      BY <1>5, <1>6, <2>4
    <3>2. PICK o : o = old[k].origin
      OBVIOUS
    <3>3. o \in OfKind("audio") /\ d.origin \in OfKind("audio") /\ o \in Shown /\ o # d.origin
      BY <1>7, <1>8, <2>1, <2>2, <3>1, <3>2
    <3>4. origins[o].id <= origins[d.origin].id
      BY <3>3 DEF OfKind
    <3>5. o \in Nat /\ d.origin \in Nat /\ origins[o].id \in Nat /\ origins[d.origin].id \in Nat
      BY <1>2, <3>3, VideosCounted DEF OfKind, SentRecords, Ids, Arrives, TransportInv
    <3>6. ~(d.origin < o)
      BY <3>3, <3>4, <3>5 DEF Arrives, TransportInv, IdsInOrder
    <3>7. o < d.origin
      BY <3>3, <3>5, <3>6
    <3> QED BY <2>2, <3>1, <3>2, <3>7
  <2>5. m \in 1 .. n \/ m = n + 1
    BY <1>4
  <2> QED BY <2>3, <2>4, <2>5
<1> QED BY <1>5, <1>9, <1>10, <1>11, <1>12

(* Without a delivery what came out stays as it was. *)
LEMMA ShowNone ==
    ASSUME NEW d, Arrives(d), outcome'.shown = outcome.shown
    PROVE  /\ ShownArrived' /\ DeliveredAsSent' /\ AudioInOrder' /\ Shown' = Shown
           /\ outcome'.shown \in Seq([origin : Nat, parts : ChunkMaps])
<1>1. origins' = origins /\ outcome'.got = outcome.got \cup {d} /\ Shown' = Shown
  BY DEF Arrives, Shown
<1>2. ShownArrived'
  <2>1. \A o \in DOMAIN origins : Cuts(o)' = Cuts(o)
    BY KindsKept, OnceReceived DEF Arrives, TransportInv
  <2> QED BY <1>1, <2>1 DEF Arrives, TransportInv, ShownArrived
<1>3. DeliveredAsSent'
  <2>1. AsSent(outcome.shown, origins)
    BY DeliveredMeans DEF Arrives, TransportInv
  <2>2. AsSent(outcome'.shown, origins')
    BY <1>1, <2>1
  <2>3. AsSent(outcome.shown, origins)'
    BY <2>2 DEF AsSent
  <2> QED BY <2>3, DeliveredMeans, PTL
<1>4. AudioInOrder'
  BY <1>1 DEF Arrives, TransportInv, AudioInOrder, OfKind
<1> QED BY <1>1, <1>2, <1>3, <1>4 DEF Arrives, TransportInv, TransportTypes, Outcomes

(* What is discarded now has a cause, and what was discarded keeps its own. *)
LEMMA DropSome ==
    ASSUME NEW d, Arrives(d), TransportTypes', NEW X, outcome'.dropped \subseteq outcome.dropped \cup X,
           \A o \in X : o \in DOMAIN origins /\ CauseIn(outcome.got \cup {d}, o)
    PROVE  DiscardedForCause' /\ DroppedSent'
<1>1. OriginsKept /\ origins' = origins /\ TransportTypes /\ outcome'.late = outcome.late
      /\ outcome'.got = outcome.got \cup {d}
  BY OnceReceived DEF Arrives, TransportInv
<1>2. \A o \in outcome.dropped : CauseIn(outcome.got, o) /\ o \in DOMAIN origins
  BY DiscardedMeans DEF Arrives, TransportInv, DroppedSent
<1>3. PICK got : got = outcome.got
  OBVIOUS
<1>4. PICK more : more = outcome.got \cup {d}
  OBVIOUS
<1>5. \A o \in outcome.dropped : CauseIn(more, o)'
  BY <1>1, <1>2, <1>3, <1>4, CauseStays
<1>6. \A o \in X : CauseIn(more, o)'
  BY <1>1, <1>4, CauseStays
<1>7. \A o \in outcome'.dropped : CauseIn(more, o)' /\ o \in DOMAIN origins'
  BY <1>1, <1>2, <1>5, <1>6
<1>8. (\A o \in outcome.dropped : CauseIn(outcome.got, o))'
  BY <1>1, <1>4, <1>7 DEF CauseIn
<1>9. DiscardedForCause'
  BY <1>8, DiscardedMeans, PTL
<1> QED BY <1>7, <1>9 DEF DroppedSent

\* The identifiers are finitely many.
LEMMA IdsAreFinite == IsFiniteSet(Ids)
<1>1. 0 \in Int /\ IdRing - 1 \in Int
  BY TransportNumbers
<1> QED BY <1>1, FS_Interval DEF Ids

(* A datagram belongs to the frame that has its identifier. *)
LEMMA OneOfAKind ==
    ASSUME TransportTypes, IdsInOrder, NEW o \in Videos, NEW p \in Videos, origins[o].id = origins[p].id
    PROVE  o = p
  BY SerialOrder

\* A header or a chunk that arrives was cut from the frame whose identifier it carries.
LEMMA ReceivesVideo ==
    ASSUME NEW d, Arrives(d), d.kind # "audio"
    PROVE  /\ d.origin \in Videos /\ origins[d.origin].id = d.id /\ d.id \in Ids
           /\ origins[d.origin].count = d.count /\ origins[d.origin].key = d.key
           /\ d.count \in 0 .. MaxChunks /\ d.origin \in 1 .. MaxFrames /\ d.key \in BOOLEAN
           /\ d.kind = "header" => d = Cut(d.origin, "header", 0)
           /\ d.kind = "chunk" => d = Cut(d.origin, "chunk", d.index) /\ d.index \in 0 .. d.count - 1
           /\ d.kind \in {"header", "chunk"}
<1>1. TransportTypes /\ d.origin \in DOMAIN origins /\ d \in Cuts(d.origin)
  BY OnceReceived DEF Arrives, TransportInv
<1>2. origins[d.origin] \in SentRecords
  BY <1>1, VideosCounted
<1> QED BY <1>1, <1>2, CutFields DEF PacketKinds, SentRecords

(***************************************************************************)
(* FrameAssembler.                                                         *)
(***************************************************************************)
(* The parts of a frame being assembled are parts of one frame that was sent. *)
LEMMA PartOfFrame ==
    ASSUME TransportTypes, NEW i, NEW a, NEW got, FrameFits(i, a, got)
    PROVE  a.origin \in DOMAIN origins /\ \A j \in DOMAIN a.chunks : a.chunks[j] = a.origin
  BY DEF FrameFits, PartialOf, Videos, OfKind

(* The maps a datagram leaves to finish_if_complete and the frame capacity. *)
Delivering(d, fs, os) ==
    /\ IsMap(fs, Ids, Assemblies) /\ IsMap(os, Ids, Waiting)
    /\ Assembling(fs, os, outcome.got \cup {d}) /\ AgedIsLate(fs, os)
    /\ \A i \in DOMAIN fs : i # d.id => ~Complete(fs[i])
    /\ \/ Cardinality(DOMAIN fs) <= MaxIncomplete
       \/ d.kind = "header" /\ Cardinality(DOMAIN fs) <= MaxIncomplete + 1
    /\ \A p \in PartsIn(frames, orphans) \cup {PartOf(d)} :
         p \in PartsIn(fs, os) \/ (p[1] \in DOMAIN origins /\ CauseIn(outcome.got \cup {d}, p[1]))

\* A complete assembly holds exactly the chunks of the frame that was sent.
LEMMA FrameDone ==
    ASSUME NEW d, Arrives(d), d.kind # "audio", NEW fs, NEW os, Delivering(d, fs, os),
           d.id \in DOMAIN fs, Complete(fs[d.id])
    PROVE  /\ fs[d.id].origin = d.origin /\ Cuts(d.origin) \subseteq outcome.got \cup {d}
           /\ fs[d.id].chunks = [i \in 0 .. origins[d.origin].count - 1 |-> d.origin]
           /\ fs[d.id].chunks \in ChunkMaps
<1> DEFINE a == fs[d.id]
           got == outcome.got \cup {d}
<1>1. FrameFits(d.id, a, got) /\ a \in Assemblies
  BY DEF Delivering, Assembling, IsMap
<1>2. a.count \in Nat /\ a.chunks \in ChunkMaps /\ a.chunks = [j \in DOMAIN a.chunks |-> a.chunks[j]]
  BY <1>1 DEF Assemblies, ChunkMaps
<1> HIDE DEF a, got
<1>3. a.origin = d.origin
  BY <1>1, ReceivesVideo, OneOfAKind DEF FrameFits, Arrives, TransportInv
<1>4. DOMAIN a.chunks = 0 .. a.count - 1
  BY <1>1, <1>2, CompleteIsAll DEF a, FrameFits, PartialOf
<1>5. a.count = origins[d.origin].count /\ \A j \in DOMAIN a.chunks : a.chunks[j] = d.origin
  BY <1>1, <1>3 DEF FrameFits, PartialOf
<1>6. Cuts(d.origin) \subseteq got
  <2>1. origins[d.origin].kind # "audio"
    BY ReceivesVideo DEF Videos, OfKind
  <2>2. Cut(d.origin, "header", 0) \in got
    BY <1>1, <1>3 DEF FrameFits
  <2>3. \A j \in 0 .. origins[d.origin].count - 1 : Cut(d.origin, "chunk", j) \in got
    BY <1>1, <1>3, <1>4, <1>5 DEF FrameFits, PartialOf
  <2> QED BY <2>1, <2>2, <2>3 DEF Cuts
<1>7. a.chunks = [i \in 0 .. origins[d.origin].count - 1 |-> d.origin]
  BY <1>2, <1>4, <1>5
<1> QED BY <1>2, <1>3, <1>6, <1>7 DEF a, got

(* A frame is evicted when MAX_INCOMPLETE_FRAMES others are in progress. *)
LEMMA Evicted ==
    ASSUME NEW got, NEW fs, TransportTypes, IsMap(fs, Ids, Assemblies),
           \A i \in DOMAIN fs : FrameFits(i, fs[i], got), Cardinality(DOMAIN fs) > MaxIncomplete
    PROVE  /\ OldestFrame(fs) \in DOMAIN fs /\ CauseIn(got, fs[OldestFrame(fs)].origin)
           /\ Cardinality(DOMAIN fs \ {OldestFrame(fs)}) = Cardinality(DOMAIN fs) - 1
<1> DEFINE e == OldestFrame(fs)
           D == DOMAIN fs \ {e}
           f == [i \in D |-> fs[i].origin]
           Q == {p \in Videos \ {fs[e].origin} : ArrivedIn(got, p) # {}}
<1>1. IsFiniteSet(DOMAIN fs)
  BY IdsAreFinite, FS_Subset DEF IsMap
<1>2. Cardinality(DOMAIN fs) \in Nat /\ DOMAIN fs # {}
  <2>1. Cardinality(DOMAIN fs) \in Nat
    BY <1>1, FS_CardinalityType
  <2> QED BY <2>1, TransportNumbers, FS_EmptySet
<1>3. e \in DOMAIN fs
  BY <1>2, OldestExists
<1>4. IsFiniteSet(D) /\ Cardinality(D) = Cardinality(DOMAIN fs) - 1
  BY <1>1, <1>3, FS_RemoveElement
<1> HIDE DEF e
<1>5. ASSUME NEW i \in D PROVE f[i] \in Videos \ {fs[e].origin} /\ ArrivedIn(got, f[i]) # {}
  <2>1. FrameFits(i, fs[i], got) /\ FrameFits(e, fs[e], got) /\ i # e /\ f[i] = fs[i].origin
    BY <1>3
  <2>2. Cut(f[i], "header", 0) \in got /\ Cut(f[i], "header", 0).origin = f[i]
    BY <2>1 DEF FrameFits, Cut
  <2> QED BY <2>1, <2>2 DEF FrameFits, ArrivedIn
<1>6. \A i, j \in D : f[i] = f[j] => i = j
  BY DEF FrameFits
<1> HIDE DEF D, f
<1>7. Cardinality(D) <= Cardinality(Q)
  BY <1>4, <1>5, <1>6, OthersCounted
<1>8. Cardinality(Q) \in Nat
  <2>1. IsFiniteSet(Q)
    BY VideosCounted, FS_Subset
  <2> QED BY <2>1, FS_CardinalityType
<1> HIDE DEF Q
<1>9. Cardinality(Q) >= (IF MaxOrphans < MaxIncomplete THEN MaxOrphans ELSE MaxIncomplete)
  BY <1>2, <1>4, <1>7, <1>8, TransportNumbers
<1> QED BY <1>3, <1>4, <1>9 DEF CauseIn, D, Q, e

(* Nothing pending of the audio changes with a datagram of a frame. *)
LEMMA AudioUntouched ==
    ASSUME NEW d, Arrives(d), UNCHANGED audioRx,
           \A o \in Shown' : o \in Shown \/ o \in Videos
    PROVE  AudioPending'
<1>1. origins' = origins /\ outcome'.got = outcome.got \cup {d}
  BY DEF Arrives
<1>2. \A i \in DOMAIN audioRx.pending : \E o \in OfKind("audio")' :
         /\ origins'[o].id = i /\ PartialOf(audioRx.pending[i], o, "audio", outcome.got)'
         /\ Cardinality(DOMAIN audioRx.pending[i]) # origins'[o].count
         /\ DOMAIN audioRx.pending[i] # {}
  BY <1>1 DEF Arrives, TransportInv, AudioPending, PartialOf, Cut, OfKind
<1>3. \A o \in Shown' : origins'[o].kind = "audio" => origins'[o].id <= audioRx.newest
  BY <1>1 DEF Arrives, TransportInv, AudioPending, Videos, OfKind
<1> QED BY <1>1, <1>2, <1>3 DEF Arrives, TransportInv, AudioPending

\* Deliver, in the terms of what is finished and what is kept.
DeliverMeans(d, fs, os, done, kept) ==
    /\ done = {i \in DOMAIN fs : i = d.id /\ Complete(fs[i])}
    /\ IsMap(kept, Ids, Assemblies) /\ DOMAIN kept \subseteq DOMAIN fs \ done
    /\ \A i \in DOMAIN kept : kept[i] = fs[i]
    /\ Cardinality(DOMAIN kept) <= MaxIncomplete
    /\ \A i \in DOMAIN fs \ (done \cup DOMAIN kept) : CauseIn(outcome.got \cup {d}, fs[i].origin)

\* The assemblies fs without those in X.
Without(less, fs, X) ==
    /\ IsMap(less, Ids, Assemblies) /\ DOMAIN less = DOMAIN fs \ X
    /\ \A i \in DOMAIN less : less[i] = fs[i]

\* What is left of the assemblies when some are dropped.
LEMMA FramesDropped ==
    ASSUME NEW fs, IsMap(fs, Ids, Assemblies), NEW X
    PROVE  Without(Drop(fs, X), fs, X)
<1>1. /\ IsMap(Drop(fs, X), Ids, Assemblies) /\ DOMAIN Drop(fs, X) = DOMAIN fs \ X
      /\ \A i \in DOMAIN fs \ X : Drop(fs, X)[i] = fs[i]
  BY DropMap
<1> QED BY <1>1 DEF Without

(* At most one frame is evicted, and the table is not longer than it may be. *)
LEMMA KeptFrames ==
    ASSUME NEW d, Arrives(d), d.kind # "audio", NEW fs, NEW os, Delivering(d, fs, os), NEW done,
           done = {i \in DOMAIN fs : i = d.id /\ Complete(fs[i])},
           NEW rest, Without(rest, fs, done), NEW kept,
           IF d.kind = "header" /\ Cardinality(DOMAIN rest) > MaxIncomplete
           THEN Without(kept, rest, {OldestFrame(rest)}) ELSE kept = rest
    PROVE  DeliverMeans(d, fs, os, done, kept)
<1>1. TransportTypes
  BY DEF Arrives, TransportInv
<1>2. IsFiniteSet(DOMAIN fs)
  BY IdsAreFinite, FS_Subset DEF Delivering, IsMap
<1>3. /\ IsMap(rest, Ids, Assemblies) /\ DOMAIN rest = DOMAIN fs \ done
      /\ \A i \in DOMAIN rest : rest[i] = fs[i]
  BY DEF Without
<1>4. /\ IsFiniteSet(DOMAIN rest) /\ Cardinality(DOMAIN rest) \in Nat /\ Cardinality(DOMAIN fs) \in Nat
      /\ Cardinality(DOMAIN rest) <= Cardinality(DOMAIN fs)
  BY <1>2, <1>3, FS_Subset, FS_CardinalityType
<1>5. \A i \in DOMAIN rest : FrameFits(i, rest[i], outcome.got \cup {d})
  BY <1>3 DEF Delivering, Assembling
<1>6. CASE d.kind = "header" /\ Cardinality(DOMAIN rest) > MaxIncomplete
  <2> DEFINE e == OldestFrame(rest)
  <2>1. /\ e \in DOMAIN rest /\ CauseIn(outcome.got \cup {d}, rest[e].origin)
        /\ Cardinality(DOMAIN rest \ {e}) = Cardinality(DOMAIN rest) - 1
    BY <1>1, <1>3, <1>5, <1>6, Evicted
  <2>2. Without(kept, rest, {e})
    BY <1>6
  <2> HIDE DEF e
  <2>3. /\ IsMap(kept, Ids, Assemblies) /\ DOMAIN kept = DOMAIN rest \ {e}
        /\ \A i \in DOMAIN kept : kept[i] = rest[i]
    BY <2>2 DEF Without
  <2>4. Cardinality(DOMAIN kept) <= MaxIncomplete
    <3>1. Cardinality(DOMAIN kept) = Cardinality(DOMAIN rest) - 1
      BY <2>1, <2>3
    <3>2. Cardinality(DOMAIN fs) <= MaxIncomplete + 1 /\ MaxIncomplete \in Nat
      BY <1>4, TransportNumbers DEF Delivering
    <3> QED BY <1>4, <3>1, <3>2
  <2> QED BY <1>3, <2>1, <2>3, <2>4 DEF DeliverMeans
<1>7. CASE ~(d.kind = "header" /\ Cardinality(DOMAIN rest) > MaxIncomplete)
  <2>1. kept = rest
    BY <1>7
  <2>2. Cardinality(DOMAIN rest) <= MaxIncomplete
    BY <1>4, <1>7, TransportNumbers DEF Delivering
  <2> QED BY <1>3, <2>1, <2>2 DEF DeliverMeans
<1> QED BY <1>6, <1>7

\* finish_if_complete keeps the invariant, whatever push_header or push_chunk made of the
\* assemblies.
LEMMA DeliverKeeps ==
    ASSUME NEW d, Arrives(d), d.kind # "audio", UNCHANGED audioRx, expected' \in Ids \cup {-1},
           lost' \in Nat, LossAhead', NEW fs, NEW os, Delivering(d, fs, os), Deliver(d, fs, os)
    PROVE  TransportInv'
<1> DEFINE got == outcome.got \cup {d}
           done == {i \in DOMAIN fs : i = d.id /\ Complete(fs[i])}
           rest == Drop(fs, done)
           kept == IF d.kind = "header" /\ Cardinality(DOMAIN rest) > MaxIncomplete
                   THEN Drop(rest, {OldestFrame(rest)}) ELSE rest
           gone == (PartsIn(frames, orphans) \cup {PartOf(d)}) \ PartsIn(kept, os)
           out == {fs[i].origin : i \in done}
           shown == IF done = {} THEN outcome.shown
                    ELSE Append(outcome.shown, [origin |-> fs[d.id].origin, parts |-> fs[d.id].chunks])
           X == {p[1] : p \in gone} \ out
<1>1. /\ frames' = kept /\ orphans' = os
      /\ outcome' = [outcome EXCEPT !.got = @ \cup {d},
                       !.shown = IF done = {} THEN @
                                 ELSE Append(@, [origin |-> fs[d.id].origin, parts |-> fs[d.id].chunks]),
                       !.dropped = @ \cup X]
  BY DEF Deliver
<1>2. /\ TransportTypes /\ d \in Datagrams /\ outcome \in Outcomes /\ OriginsKept
      /\ origins' = origins /\ outcome'.got = got
  BY OnceReceived DEF Arrives, TransportInv, TransportTypes
<1>3. DeliverMeans(d, fs, os, done, kept)
  <2>1. PICK r : r = rest
    OBVIOUS
  <2>2. PICK k : k = kept
    OBVIOUS
  <2>3. PICK e : e = done
    OBVIOUS
  <2>4. /\ e = {i \in DOMAIN fs : i = d.id /\ Complete(fs[i])} /\ r = Drop(fs, e)
        /\ k = IF d.kind = "header" /\ Cardinality(DOMAIN r) > MaxIncomplete
               THEN Drop(r, {OldestFrame(r)}) ELSE r
    BY <2>1, <2>2, <2>3
  <2>5. Without(r, fs, e)
    BY <2>4, FramesDropped DEF Delivering
  <2>6. IsMap(r, Ids, Assemblies)
    BY <2>5 DEF Without
  <2>7. IF d.kind = "header" /\ Cardinality(DOMAIN r) > MaxIncomplete
        THEN Without(k, r, {OldestFrame(r)}) ELSE k = r
    <3>1. PICK E : E = {OldestFrame(r)}
      OBVIOUS
    <3>2. Without(Drop(r, E), r, E)
      BY <2>6, FramesDropped
    <3> QED BY <2>4, <3>1, <3>2
  <2>8. DeliverMeans(d, fs, os, e, k)
    BY <2>4, <2>5, <2>7, KeptFrames
  <2> QED BY <2>2, <2>3, <2>8
<1>4. outcome' = [outcome EXCEPT !.got = got, !.shown = shown, !.dropped = outcome.dropped \cup X]
  BY <1>1, <1>2 DEF Outcomes
<1>5. done = {} \/ done = {d.id}
  OBVIOUS
<1> HIDE DEF rest, kept
<1>6. done # {} => /\ fs[d.id].origin = d.origin /\ Cuts(d.origin) \subseteq got
                   /\ fs[d.id].chunks = [i \in 0 .. origins[d.origin].count - 1 |-> d.origin]
                   /\ fs[d.id].chunks \in ChunkMaps /\ out = {d.origin}
  <2>1. SUFFICES ASSUME done # {}
                 PROVE  /\ fs[d.id].origin = d.origin /\ Cuts(d.origin) \subseteq got
                        /\ fs[d.id].chunks = [i \in 0 .. origins[d.origin].count - 1 |-> d.origin]
                        /\ fs[d.id].chunks \in ChunkMaps /\ out = {d.origin}
    OBVIOUS
  <2>2. d.id \in DOMAIN fs /\ Complete(fs[d.id]) /\ done = {d.id}
    BY <2>1
  <2>3. /\ fs[d.id].origin = d.origin /\ Cuts(d.origin) \subseteq outcome.got \cup {d}
        /\ fs[d.id].chunks = [i \in 0 .. origins[d.origin].count - 1 |-> d.origin]
        /\ fs[d.id].chunks \in ChunkMaps
    BY <2>2, FrameDone
  <2> QED BY <2>2, <2>3
<1> HIDE DEF done
<1>7. done = {} => out = {}
  OBVIOUS
(* A part that is no longer held belongs to what came out, or has a cause. *)
<1>8. ASSUME NEW p \in gone
      PROVE  p[1] \in out \/ (p[1] \in DOMAIN origins /\ CauseIn(got, p[1]))
  <2>1. p \in PartsIn(frames, orphans) \cup {PartOf(d)} /\ p \notin PartsIn(kept, os)
    OBVIOUS
  <2>2. CASE p \notin PartsIn(fs, os)
    BY <2>1, <2>2 DEF Delivering
  <2>3. CASE p \in PartsIn(fs, os)
    <3>1. PICK i \in DOMAIN fs : \/ p = <<fs[i].origin, -1>>
                                 \/ \E j \in DOMAIN fs[i].chunks : p = <<fs[i].chunks[j], j>>
      BY <2>1, <2>3, PartsHeld
    <3>2. i \notin DOMAIN kept
      BY <1>3, <2>1, <3>1, PartsHeld DEF DeliverMeans
    <3>3. FrameFits(i, fs[i], got)
      BY DEF Delivering, Assembling
    <3>4. fs[i].origin \in DOMAIN origins /\ \A j \in DOMAIN fs[i].chunks : fs[i].chunks[j] = fs[i].origin
      BY <1>2, <3>3, PartOfFrame
    <3>5. p[1] = fs[i].origin
      BY <3>1, <3>4
    <3>6. CASE i \in done
      BY <3>5, <3>6
    <3>7. CASE i \notin done
      BY <1>3, <3>2, <3>4, <3>5, <3>7 DEF DeliverMeans
    <3> QED BY <3>6, <3>7
  <2> QED BY <2>2, <2>3
<1>9. \A o \in X : o \in DOMAIN origins /\ CauseIn(got, o)
  BY <1>8
<1>10. \A p \in PartsIn(frames, orphans) \cup {PartOf(d)} :
         p \in PartsIn(kept, os) \/ p[1] \in X \cup out
  OBVIOUS
<1> HIDE DEF gone, X, out
<1>11. /\ shown \in Seq([origin : Nat, parts : ChunkMaps])
       /\ DOMAIN origins \subseteq Nat
  <2>1. DOMAIN origins \subseteq Nat /\ d.origin \in DOMAIN origins
    BY <1>2, VideosCounted, OnceReceived
  <2>2. outcome.shown \in Seq([origin : Nat, parts : ChunkMaps])
    BY <1>2 DEF Outcomes
  <2>3. CASE done = {}
    BY <2>1, <2>2, <2>3
  <2>4. CASE done # {}
    <3>1. [origin |-> fs[d.id].origin, parts |-> fs[d.id].chunks] \in [origin : Nat, parts : ChunkMaps]
      BY <1>6, <2>1, <2>4
    <3> QED BY <2>1, <2>2, <2>4, <3>1, AppendProperties
  <2> QED BY <2>3, <2>4
<1>12. /\ outcome' \in Outcomes /\ outcome'.got = got /\ outcome'.shown = shown
       /\ outcome'.dropped = outcome.dropped \cup X /\ outcome'.late = outcome.late
  <2>1. got \in SUBSET Datagrams /\ outcome.dropped \cup X \in SUBSET Nat
    BY <1>2, <1>9, <1>11 DEF Outcomes
  <2> HIDE DEF got, shown
  <2>2. PICK g \in SUBSET Datagrams : g = got
    BY <2>1
  <2>3. PICK s \in Seq([origin : Nat, parts : ChunkMaps]) : s = shown
    BY <1>11
  <2>4. PICK r \in SUBSET Nat : r = outcome.dropped \cup X
    BY <2>1
  <2>5. outcome' = [outcome EXCEPT !.got = g, !.shown = s, !.dropped = r]
    BY <1>4, <2>2, <2>3, <2>4
  <2>6. /\ outcome' \in Outcomes /\ outcome'.got = g /\ outcome'.shown = s
        /\ outcome'.dropped = r /\ outcome'.late = outcome.late
    BY <1>2, <2>5, OutcomeIs
  <2> QED BY <2>2, <2>3, <2>4, <2>6
<1>13. /\ ShownArrived' /\ DeliveredAsSent' /\ AudioInOrder'
       /\ Shown' = Shown \cup out /\ out \subseteq Videos
  <2>1. d.origin \in Videos /\ origins[d.origin].kind # "audio"
    BY ReceivesVideo DEF Videos, OfKind
  <2>2. CASE done = {}
    BY <1>7, <1>12, <2>2, ShowNone
  <2>3. CASE done # {}
    <3>1. outcome'.shown = Append(outcome.shown, [origin |-> d.origin, parts |-> fs[d.id].chunks])
      BY <1>6, <1>12, <2>3
    <3>2. PICK ps \in ChunkMaps : ps = fs[d.id].chunks
      BY <1>6, <2>3
    <3> QED BY <1>6, <2>1, <2>3, <3>1, <3>2, ShowOne
  <2> QED BY <2>2, <2>3
<1> HIDE DEF shown
<1>14. TransportTypes'
  BY <1>1, <1>2, <1>3, <1>12, OnceReceived DEF TransportTypes, DeliverMeans, Delivering, Arrives
<1>15. DiscardedForCause' /\ DroppedSent'
  <2>1. PICK Y : Y = X
    OBVIOUS
  <2> QED BY <1>9, <1>12, <1>14, <2>1, DropSome
<1>16. AudioPending'
  BY <1>13, AudioUntouched
<1>17. Assembled'
  <2>1. \A i \in DOMAIN frames' : FrameFits(i, frames[i], outcome.got)'
    <3>1. \A i \in DOMAIN frames' : FrameFits(i, frames'[i], got)
      BY <1>1, <1>3 DEF DeliverMeans, Delivering, Assembling
    <3> QED BY <1>2, <3>1 DEF FrameFits, PartialOf, Cut, Videos, OfKind
  <2>2. \A i \in DOMAIN orphans' : OrphanFits(i, orphans[i], outcome.got)'
    <3>1. \A i \in DOMAIN orphans' : OrphanFits(i, orphans'[i], got)
      BY <1>1 DEF Delivering, Assembling
    <3> QED BY <1>2, <3>1 DEF OrphanFits, PartialOf, Cut, Videos, OfKind
  <2>3. \A i \in DOMAIN frames' : ~Complete(frames'[i])
    BY <1>1, <1>3 DEF DeliverMeans, Delivering, done
  <2>4. /\ DOMAIN frames' \cap DOMAIN orphans' = {} /\ Cardinality(DOMAIN orphans') <= MaxOrphans
        /\ Cardinality(DOMAIN frames') <= MaxIncomplete
    BY <1>1, <1>3 DEF DeliverMeans, Delivering, Assembling
  <2>5. AgedIsLate(frames, orphans)'
    BY <1>1, <1>3, <1>12 DEF DeliverMeans, Delivering, AgedIsLate
  <2> QED BY <2>1, <2>2, <2>3, <2>4, <2>5 DEF Assembled, Assembling, Complete
<1>18. Accounted'
  <2>1. SUFFICES ASSUME NEW x \in got
                 PROVE  x.origin \in Shown' \cup outcome'.dropped \/ StillHeld(x)'
    BY <1>12 DEF Accounted
  <2>2. CASE x.kind # "audio" /\ PartOf(x) \in PartsIn(frames, orphans) \cup {PartOf(d)}
    <3>1. PartOf(x)[1] = x.origin
      BY DEF PartOf
    <3>2. PartOf(x) \in PartsIn(frames', orphans') \/ x.origin \in X \cup out
      BY <1>1, <1>10, <2>2, <3>1
    <3> QED BY <1>12, <1>13, <2>2, <3>2 DEF StillHeld, PartOf
  <2>3. CASE x \in outcome.got /\ x.origin \in Shown \cup outcome.dropped
    BY <1>12, <1>13, <2>3
  <2>4. CASE x.kind = "audio" /\ StillHeld(x)
    BY <2>4 DEF StillHeld
  <2>5. x \in outcome.got => x.origin \in Shown \cup outcome.dropped \/ StillHeld(x)
    BY DEF Arrives, TransportInv, Accounted
  <2> QED BY <2>1, <2>2, <2>3, <2>4, <2>5 DEF StillHeld
<1> QED BY <1>13, <1>14, <1>15, <1>16, <1>17, <1>18, OnceReceived DEF TransportInv

(* How far apart two identifiers are is the difference of how far each is behind. *)
LEMMA ApartBehind ==
    ASSUME NEW t \in Ids, NEW a \in Ids, NEW b \in Ids
    PROVE  (a - b) % IdRing = IF Behind(t, b) >= Behind(t, a) THEN Behind(t, b) - Behind(t, a)
                              ELSE Behind(t, b) - Behind(t, a) + IdRing
<1>1. /\ IdRing \in Nat /\ IdRing > 1 /\ t \in 0 .. IdRing - 1 /\ a \in 0 .. IdRing - 1 /\ b \in 0 .. IdRing - 1
  BY TransportNumbers DEF Ids
<1>2. Behind(t, a) = IF t + 1 - a < 0 THEN t + 1 - a + IdRing
                     ELSE IF t + 1 - a = IdRing THEN 0 ELSE t + 1 - a
  BY BehindOnTheRing DEF Behind
<1>3. Behind(t, b) = IF t + 1 - b < 0 THEN t + 1 - b + IdRing
                     ELSE IF t + 1 - b = IdRing THEN 0 ELSE t + 1 - b
  BY BehindOnTheRing DEF Behind
<1>4. (a - b) % IdRing = IF a - b < 0 THEN a - b + IdRing ELSE a - b
  BY ApartOnTheRing
<1> QED BY <1>1, <1>2, <1>3, <1>4

\* Expecting the identifier after a frame's is one step closer to the sender.
LEMMA NextBehind ==
    ASSUME NEW t \in Ids, NEW a \in Ids, Behind(t, a) >= 1
    PROVE  Behind(t, (a + 1) % IdRing) = Behind(t, a) - 1
<1>1. /\ IdRing \in Nat /\ IdRing > 1 /\ t \in 0 .. IdRing - 1 /\ a \in 0 .. IdRing - 1
  BY TransportNumbers DEF Ids
<1> DEFINE b == (a + 1) % IdRing
<1>2. b \in Ids /\ b = IF a + 1 = IdRing THEN 0 ELSE a + 1
  BY NextOnTheRing
<1> HIDE DEF b
<1>3. Behind(t, a) = IF t + 1 - a < 0 THEN t + 1 - a + IdRing
                     ELSE IF t + 1 - a = IdRing THEN 0 ELSE t + 1 - a
  BY BehindOnTheRing DEF Behind
<1>4. Behind(t, b) = IF t + 1 - b < 0 THEN t + 1 - b + IdRing
                     ELSE IF t + 1 - b = IdRing THEN 0 ELSE t + 1 - b
  BY <1>2, BehindOnTheRing DEF Behind
<1>5. Behind(t, b) = Behind(t, a) - 1
  BY <1>1, <1>2, <1>3, <1>4
<1> QED BY <1>5 DEF b

(* Counting a gap once, as the receiver moves forward, never counts more than was sent. *)
LEMMA LossTracked ==
    ASSUME NEW d, Arrives(d), d.kind = "header", TrackLoss(d.id)
    PROVE  expected' \in Ids \cup {-1} /\ lost' \in Nat /\ LossAhead'
<1> DEFINE t == tx.frame
           V == Cardinality(Videos)
           id == d.id
           next == (d.id + 1) % IdRing
           x == Behind(tx.frame, d.id)
           e == Behind(tx.frame, expected)
<1>1. /\ t \in Ids /\ id \in Ids /\ next \in Ids /\ expected \in Ids \cup {-1} /\ lost \in Nat
      /\ TransportTypes /\ LossAhead /\ Ids \subseteq Nat
  <2>1. id \in Ids /\ TransportTypes /\ LossAhead
    BY ReceivesVideo DEF Arrives, TransportInv
  <2>2. tx.frame \in Ids
    BY <2>1 DEF TransportTypes
  <2> QED BY <2>1, <2>2, NextOnTheRing DEF TransportTypes, Ids
<1>2. V \in Nat /\ IdRing \in Nat /\ IdRing > 2 * V
  BY <1>1, VideosCounted, TransportNumbers
<1>3. x \in 1 .. V
  <2>1. d.origin \in Videos /\ origins[d.origin].id = d.id /\ IdsInOrder
    BY ReceivesVideo DEF Arrives, TransportInv
  <2> QED BY <2>1 DEF IdsInOrder
<1>4. Behind(t, next) = x - 1
  <2>1. x >= 1
    BY <1>2, <1>3
  <2>2. PICK u \in Ids : u = t
    BY <1>1
  <2>3. PICK a \in Ids : a = id
    BY <1>1
  <2>4. Behind(u, (a + 1) % IdRing) = Behind(u, a) - 1
    BY <2>1, <2>2, <2>3, NextBehind
  <2> QED BY <2>2, <2>3, <2>4
<1>5. tx' = tx /\ Videos' = Videos
  BY DEF Arrives, Videos, OfKind
<1>6. lost' = lost + Gap(id) /\ expected' = IF expected = -1 \/ SerialNotBefore(next, expected) THEN next ELSE expected
  BY DEF TrackLoss
<1>7. LossAhead' <=> /\ expected' = -1 => lost' = 0
                     /\ expected' # -1 => /\ Behind(t, expected') <= V
                                          /\ lost' = 0 \/ lost' + Behind(t, expected') < V
  BY <1>5 DEF LossAhead
<1>8. CASE expected = -1
  <2>1. lost = 0 /\ Gap(id) = 0 /\ expected' = next /\ lost' = 0
    BY <1>1, <1>6, <1>8 DEF LossAhead, Gap
  <2>2. next # -1 /\ x - 1 <= V
    BY <1>1, <1>2, <1>3
  <2> QED BY <1>1, <1>4, <1>7, <2>1, <2>2
<1>9. CASE expected # -1
  <2>1. expected \in Ids /\ e \in Ids /\ e \in Nat /\ e <= V /\ (lost = 0 \/ lost + e < V)
    BY <1>1, <1>9, BehindIsIn DEF LossAhead
  <2>2. PICK h \in Nat : IdRing = 2 * h /\ IdRing \div 2 = h
    BY TransportNumbers
  <2>3. (id - expected) % IdRing = IF e >= x THEN e - x ELSE e - x + IdRing
    BY <1>1, <2>1, ApartBehind
  <2>4. (next - expected) % IdRing = IF e >= x - 1 THEN e - (x - 1) ELSE e - (x - 1) + IdRing
    <3>1. PICK b \in Ids : b = next
      BY <1>1
    <3>2. (b - expected) % IdRing = IF e >= Behind(t, b) THEN e - Behind(t, b) ELSE e - Behind(t, b) + IdRing
      BY <1>1, <2>1, <3>1, ApartBehind
    <3> QED BY <1>4, <3>1, <3>2
  <2>5. SerialNotBefore(id, expected) <=> (id - expected) % IdRing < h
    BY <2>2 DEF SerialNotBefore
  <2>6. SerialNotBefore(next, expected) <=> (next - expected) % IdRing < h
    BY <2>2 DEF SerialNotBefore
  <2>7. Gap(id) = IF ~SerialNotBefore(id, expected) THEN 0 ELSE (id - expected) % IdRing
    BY <1>9 DEF Gap
  <2>8. next # -1 /\ expected # -1
    BY <1>1, <1>9
  <2> HIDE DEF t, V, id, next, x, e
  <2>9. SerialNotBefore(id, expected) <=> e >= x
    BY <1>2, <1>3, <2>1, <2>2, <2>3, <2>5
  <2>10. SerialNotBefore(next, expected) <=> e >= x - 1
    BY <1>2, <1>3, <2>1, <2>2, <2>4, <2>6
  <2>11. Gap(id) = IF e >= x THEN e - x ELSE 0
    BY <2>3, <2>7, <2>9
  <2>12. CASE e >= x - 1
    <3>1. expected' = next /\ Behind(t, expected') = x - 1
      BY <1>4, <1>6, <2>10, <2>12
    <3>2. lost' \in Nat /\ x - 1 <= V /\ (lost' = 0 \/ lost' + (x - 1) < V)
      BY <1>1, <1>2, <1>3, <1>6, <2>1, <2>11, <2>12
    <3> QED BY <1>1, <1>7, <2>8, <3>1, <3>2
  <2>13. CASE ~(e >= x - 1)
    <3>1. expected' = expected /\ Behind(t, expected') = e
      BY <1>6, <1>9, <2>10, <2>13 DEF e, t
    <3>2. lost' = lost
      BY <1>1, <1>3, <1>6, <2>1, <2>11, <2>13
    <3> QED BY <1>1, <1>7, <2>1, <2>8, <3>1, <3>2
  <2> QED BY <2>12, <2>13
<1> QED BY <1>8, <1>9

(* Expiry keeps the young ones as they are, and what it drops is late. *)
LEMMA StillYoung ==
    ASSUME TransportInv
    PROVE  /\ IsMap(Young(frames), Ids, Assemblies) /\ DOMAIN Young(frames) \subseteq DOMAIN frames
           /\ \A i \in DOMAIN Young(frames) : Young(frames)[i] = frames[i]
           /\ \A i \in DOMAIN frames \ DOMAIN Young(frames) : outcome.late
           /\ IsMap(Young(orphans), Ids, Waiting) /\ DOMAIN Young(orphans) \subseteq DOMAIN orphans
           /\ \A i \in DOMAIN Young(orphans) : Young(orphans)[i] = orphans[i]
           /\ \A i \in DOMAIN orphans \ DOMAIN Young(orphans) : outcome.late
<1>1. PICK X \in SUBSET (DOMAIN frames) : X = {i \in DOMAIN frames : frames[i].age < AssemblyTimeout}
  OBVIOUS
<1>2. PICK Y \in SUBSET (DOMAIN orphans) : Y = {i \in DOMAIN orphans : orphans[i].age < AssemblyTimeout}
  OBVIOUS
<1>3. Young(frames) = Restrict(frames, X) /\ Young(orphans) = Restrict(orphans, Y)
  BY <1>1, <1>2 DEF Young
<1>4. IsMap(frames, Ids, Assemblies) /\ IsMap(orphans, Ids, Waiting) /\ AssemblyTimeout > 0
      /\ AssemblyTimeout \in Nat
  BY TransportNumbers DEF TransportInv, TransportTypes
<1>5. PICK fs : fs = frames
  OBVIOUS
<1>6. PICK os : os = orphans
  OBVIOUS
<1>7. /\ IsMap(Restrict(fs, X), Ids, Assemblies) /\ DOMAIN Restrict(fs, X) = X
      /\ \A i \in X : Restrict(fs, X)[i] = fs[i]
  BY <1>1, <1>4, <1>5, RestrictMap
<1>8. /\ IsMap(Restrict(os, Y), Ids, Waiting) /\ DOMAIN Restrict(os, Y) = Y
      /\ \A i \in Y : Restrict(os, Y)[i] = os[i]
  BY <1>2, <1>4, <1>6, RestrictMap
<1>9. \A i \in DOMAIN frames : frames[i].age \in Nat /\ (frames[i].age > 0 => outcome.late)
  BY <1>4 DEF IsMap, Assemblies, TransportInv, Assembled, AgedIsLate
<1>10. \A i \in DOMAIN orphans : orphans[i].age \in Nat /\ (orphans[i].age > 0 => outcome.late)
  BY <1>4 DEF IsMap, Waiting, TransportInv, Assembled, AgedIsLate
<1>11. \A i \in DOMAIN frames \ X : outcome.late
  BY <1>1, <1>4, <1>9
<1>12. \A i \in DOMAIN orphans \ Y : outcome.late
  BY <1>2, <1>4, <1>10
<1> QED BY <1>1, <1>2, <1>3, <1>5, <1>6, <1>7, <1>8, <1>11, <1>12

(* Everything held fits what arrived, the datagram at hand included, and is a part of a sent frame. *)
LEMMA HeldFits ==
    ASSUME NEW d, Arrives(d), NEW got, got = outcome.got \cup {d}
    PROVE  /\ \A i \in DOMAIN frames : FrameFits(i, frames[i], got)
           /\ \A i \in DOMAIN orphans : OrphanFits(i, orphans[i], got)
           /\ \A i \in DOMAIN frames : frames[i].age > 0 => outcome.late
           /\ \A i \in DOMAIN orphans : orphans[i].age > 0 => outcome.late
           /\ DOMAIN frames \cap DOMAIN orphans = {}
           /\ IsFiniteSet(DOMAIN frames) /\ IsFiniteSet(DOMAIN orphans)
           /\ Cardinality(DOMAIN frames) <= MaxIncomplete /\ Cardinality(DOMAIN frames) \in Nat
           /\ Cardinality(DOMAIN orphans) <= MaxOrphans /\ Cardinality(DOMAIN orphans) \in Nat
<1>1. Assembling(frames, orphans, outcome.got) /\ outcome.got \subseteq got
  BY DEF Arrives, TransportInv, Assembled
<1>2. \A i \in DOMAIN frames : FrameFits(i, frames[i], got)
  BY <1>1 DEF Assembling, FrameFits, PartialOf
<1>3. \A i \in DOMAIN orphans : OrphanFits(i, orphans[i], got)
  BY <1>1 DEF Assembling, OrphanFits, PartialOf
<1>4. IsFiniteSet(DOMAIN frames) /\ IsFiniteSet(DOMAIN orphans)
  <2>1. DOMAIN frames \subseteq Ids /\ DOMAIN orphans \subseteq Ids
    BY DEF Arrives, TransportInv, TransportTypes, IsMap
  <2> QED BY <2>1, IdsAreFinite, FS_Subset
<1>5. Cardinality(DOMAIN frames) \in Nat /\ Cardinality(DOMAIN orphans) \in Nat
  BY <1>4, FS_CardinalityType
<1> QED BY <1>1, <1>2, <1>3, <1>4, <1>5 DEF Arrives, TransportInv, Assembled, Assembling, AgedIsLate

(* The maps a datagram leaves keep the chunks there were, unless they were late or out of date. *)
Keeps(a, b) == \A j \in DOMAIN a.chunks : j \in DOMAIN b.chunks /\ b.chunks[j] = a.chunks[j]
FramesCovered(d, fs) ==
    \A i \in DOMAIN frames :
        \/ outcome.late
        \/ d.key /\ ~SerialNotBefore(i, d.id)
        \/ i \in DOMAIN fs /\ fs[i].origin = frames[i].origin /\ Keeps(frames[i], fs[i])
OrphansCovered(fs, os) ==
    \A i \in DOMAIN orphans :
        \/ outcome.late
        \/ i \in DOMAIN os /\ Keeps(orphans[i], os[i])
        \/ i \in DOMAIN fs /\ Keeps(orphans[i], fs[i])

(* A part held of a frame of which the maps keep everything is still held. *)
LEMMA StillCovered ==
    ASSUME NEW d, Arrives(d), NEW fs, NEW os, NEW got, got = outcome.got \cup {d},
           FramesCovered(d, fs), OrphansCovered(fs, os), d.kind # "audio", NEW p \in PartsIn(frames, orphans)
    PROVE  p \in PartsIn(fs, os) \/ (p[1] \in DOMAIN origins /\ CauseIn(got, p[1]))
<1>1. CASE \E i \in DOMAIN frames : \/ p = <<frames[i].origin, -1>>
                                    \/ \E j \in DOMAIN frames[i].chunks : p = <<frames[i].chunks[j], j>>
  <2>1. PICK i \in DOMAIN frames : \/ p = <<frames[i].origin, -1>>
                                   \/ \E j \in DOMAIN frames[i].chunks : p = <<frames[i].chunks[j], j>>
    BY <1>1
  <2>2. FrameFits(i, frames[i], got) /\ TransportTypes
    BY HeldFits DEF Arrives, TransportInv
  <2>3. PICK o : o = frames[i].origin
    OBVIOUS
  <2>4. o \in DOMAIN origins /\ p[1] = o /\ o \in Videos /\ origins[o].id = i
    BY <2>1, <2>2, <2>3, PartOfFrame DEF FrameFits
  <2>5. CASE outcome.late
    BY <2>4, <2>5 DEF CauseIn
  <2>6. CASE d.key /\ ~SerialNotBefore(i, d.id)
    <3>1. d.origin \in Videos /\ origins[d.origin].id = d.id
      BY ReceivesVideo
    <3>2. ~(o >= d.origin)
      BY <2>4, <2>6, <3>1, SerialOrder DEF Arrives, TransportInv
    <3>3. o \in Nat /\ d.origin \in Nat
      BY <2>2, <2>4, <3>1, VideosCounted DEF Videos, OfKind
    <3>4. d.origin > o /\ d \in got
      BY <3>2, <3>3
    <3> QED BY <2>4, <2>6, <3>4 DEF CauseIn
  <2>7. CASE i \in DOMAIN fs /\ fs[i].origin = frames[i].origin /\ Keeps(frames[i], fs[i])
    BY <2>1, <2>7, PartsHeld DEF Keeps
  <2> QED BY <2>5, <2>6, <2>7 DEF FramesCovered
<1>2. CASE \E i \in DOMAIN orphans : \E j \in DOMAIN orphans[i].chunks : p = <<orphans[i].chunks[j], j>>
  <2>0. PICK i \in DOMAIN orphans : \E j \in DOMAIN orphans[i].chunks : p = <<orphans[i].chunks[j], j>>
    BY <1>2
  <2>1. PICK j \in DOMAIN orphans[i].chunks : p = <<orphans[i].chunks[j], j>>
    BY <2>0
  <2>2. OrphanFits(i, orphans[i], got)
    BY HeldFits
  <2>3. p[1] \in DOMAIN origins
    BY <2>1, <2>2 DEF OrphanFits, PartialOf, Videos, OfKind
  <2>4. CASE outcome.late
    BY <2>3, <2>4 DEF CauseIn
  <2>5. CASE ~outcome.late
    BY <2>1, <2>5, PartsHeld DEF OrphansCovered, Keeps
  <2> QED BY <2>4, <2>5
<1> QED BY <1>1, <1>2, PartsHeld

(* An orphan that waits under the identifier of a frame is made of that frame's chunks. *)
LEMMA OrphanOf ==
    ASSUME NEW d, Arrives(d), d.kind # "audio", NEW got, got = outcome.got \cup {d},
           NEW a, OrphanFits(d.id, a, got)
    PROVE  PartialOf(a.chunks, d.origin, "chunk", got)
<1>1. PICK o \in Videos : origins[o].id = d.id /\ PartialOf(a.chunks, o, "chunk", got)
  BY DEF OrphanFits
<1>2. o = d.origin
  BY <1>1, ReceivesVideo, OneOfAKind DEF Arrives, TransportInv
<1> QED BY <1>1, <1>2

(* The header of a frame in progress has arrived: it does not come again. *)
LEMMA HeaderIsNew ==
    ASSUME NEW d, Arrives(d), d.kind = "header"
    PROVE  d.id \notin DOMAIN frames
<1>1. SUFFICES ASSUME d.id \in DOMAIN frames PROVE FALSE
  OBVIOUS
<1>2. FrameFits(d.id, frames[d.id], outcome.got)
  BY <1>1 DEF Arrives, TransportInv, Assembled, Assembling
<1>3. frames[d.id].origin = d.origin
  BY <1>2, ReceivesVideo, OneOfAKind DEF FrameFits, Arrives, TransportInv
<1>4. d \in outcome.got
  BY <1>2, <1>3, ReceivesVideo DEF FrameFits
<1> QED BY <1>4, OnceReceived

(* What stays of a map is what it was; what it lost was late, or older than a key frame. *)
Remains(current, d) ==
    /\ IsMap(current, Ids, Assemblies) /\ DOMAIN current \subseteq DOMAIN frames
    /\ \A i \in DOMAIN current : current[i] = frames[i]
    /\ \A i \in DOMAIN frames \ DOMAIN current : outcome.late \/ (d.key /\ ~SerialNotBefore(i, d.id))
Waits(waiting) ==
    /\ IsMap(waiting, Ids, Waiting) /\ DOMAIN waiting \subseteq DOMAIN orphans
    /\ \A i \in DOMAIN waiting : waiting[i] = orphans[i]
    /\ \A i \in DOMAIN orphans \ DOMAIN waiting : outcome.late

\* The frames and orphans discard_expired keeps are frames and orphans there were.
LEMMA YoungRemains ==
    ASSUME TransportInv, NEW d
    PROVE  Remains(Young(frames), d) /\ Waits(Young(orphans))
  BY StillYoung DEF Remains, Waits

\* A keyframe keeps the assemblies that are not older than itself.
LEMMA NewerRemain ==
    ASSUME NEW d, d.key, NEW young, Remains(young, d)
    PROVE  Remains(Restrict(young, {i \in DOMAIN young : SerialNotBefore(i, d.id)}), d)
<1>1. PICK X \in SUBSET (DOMAIN young) : X = {i \in DOMAIN young : SerialNotBefore(i, d.id)}
  OBVIOUS
<1>2. IsMap(young, Ids, Assemblies)
  BY DEF Remains
<1>3. /\ IsMap(Restrict(young, X), Ids, Assemblies) /\ DOMAIN Restrict(young, X) = X
      /\ \A i \in X : Restrict(young, X)[i] = young[i]
  BY <1>1, <1>2, RestrictMap
<1>4. Remains(Restrict(young, X), d)
  BY <1>1, <1>3 DEF Remains
<1> QED BY <1>1, <1>4

\* The assembly push_header begins.
Fresh(d, waiting) ==
    [count |-> d.count, key |-> d.key, origin |-> d.origin,
     chunks |-> AdmitChunks(NoIds, AdoptedChunks(d.id, waiting), d.count), age |-> AdoptedAge(d.id, waiting)]

(* The chunks that waited for a header become the frame's first chunks. *)
LEMMA FreshFits ==
    ASSUME NEW d, Arrives(d), d.kind = "header", d.count # 0, NEW got, got = outcome.got \cup {d},
           NEW waiting, Waits(waiting)
    PROVE  /\ Fresh(d, waiting) \in Assemblies /\ Fresh(d, waiting).origin = d.origin
           /\ FrameFits(d.id, Fresh(d, waiting), got)
           /\ Fresh(d, waiting).age > 0 => outcome.late
           /\ d.id \in DOMAIN waiting =>
                \A j \in DOMAIN waiting[d.id].chunks : /\ j \in DOMAIN Fresh(d, waiting).chunks
                                                       /\ Fresh(d, waiting).chunks[j] = waiting[d.id].chunks[j]
<1> DEFINE have == AdoptedChunks(d.id, waiting)
           c == AdmitChunks(NoIds, have, d.count)
           age == AdoptedAge(d.id, waiting)
<1>1. d.id \in DOMAIN waiting =>
        /\ waiting[d.id] \in Waiting /\ PartialOf(waiting[d.id].chunks, d.origin, "chunk", got)
        /\ (waiting[d.id].age > 0 => outcome.late)
  <2>1. SUFFICES ASSUME d.id \in DOMAIN waiting
                 PROVE  /\ waiting[d.id] \in Waiting /\ PartialOf(waiting[d.id].chunks, d.origin, "chunk", got)
                        /\ (waiting[d.id].age > 0 => outcome.late)
    OBVIOUS
  <2>2. OrphanFits(d.id, waiting[d.id], got) /\ waiting[d.id] = orphans[d.id] /\ d.id \in DOMAIN orphans
    BY <2>1, HeldFits DEF Waits
  <2> QED BY <2>1, <2>2, OrphanOf, HeldFits DEF Waits, IsMap
<1>2. /\ have \in ChunkMaps /\ PartialOf(have, d.origin, "chunk", got)
      /\ age \in 0 .. AssemblyTimeout /\ (age > 0 => outcome.late)
      /\ (d.id \in DOMAIN waiting => have = waiting[d.id].chunks)
  BY <1>1, NoChunks, TransportNumbers DEF AdoptedChunks, AdoptedAge, Waiting, PartialOf
<1>3. /\ d.count \in Nat /\ d.count = origins[d.origin].count /\ d.key \in BOOLEAN /\ d.origin \in Nat
      /\ d.origin \in Videos /\ origins[d.origin].id = d.id /\ origins[d.origin].key = d.key
      /\ Cut(d.origin, "header", 0) \in got
  <2>1. d \in Datagrams
    BY OnceReceived
  <2> QED BY <2>1, ReceivesVideo DEF Datagrams
<1> HIDE DEF have, age
<1>4. /\ c \in ChunkMaps /\ DOMAIN c = DOMAIN have /\ \A j \in DOMAIN c : c[j] = have[j]
  <2>1. \A j \in DOMAIN have : j < d.count
    BY <1>2, <1>3 DEF PartialOf
  <2>2. PICK h \in ChunkMaps : h = have
    BY <1>2
  <2>3. PICK n \in Nat : n = d.count
    BY <1>3
  <2>4. c = AdmitChunks(NoIds, h, n) /\ \A j \in DOMAIN h : j < n
    BY <2>1, <2>2, <2>3
  <2>5. /\ AdmitChunks(NoIds, h, n) \in ChunkMaps
        /\ DOMAIN AdmitChunks(NoIds, h, n) = DOMAIN h
        /\ \A j \in DOMAIN h : AdmitChunks(NoIds, h, n)[j] = h[j]
    BY <2>2, <2>3, <2>4, AllAdmitted
  <2> QED BY <2>2, <2>4, <2>5
<1> HIDE DEF c
<1>5. PICK a : a = Fresh(d, waiting)
  OBVIOUS
<1>6. a = [count |-> d.count, key |-> d.key, origin |-> d.origin, chunks |-> c, age |-> age]
  BY <1>5 DEF Fresh, c, have, age
<1>7. /\ a \in Assemblies /\ a.origin = d.origin /\ a.count = d.count /\ a.key = d.key /\ a.chunks = c /\ a.age = age
  BY <1>2, <1>3, <1>4, <1>6 DEF Assemblies
<1>8. FrameFits(d.id, a, got)
  BY <1>2, <1>3, <1>4, <1>7 DEF FrameFits, PartialOf
<1> QED BY <1>2, <1>4, <1>5, <1>7, <1>8

\* The assemblies fs with a at i.
With(more, fs, i, a) ==
    /\ IsMap(more, Ids, Assemblies) /\ DOMAIN more = DOMAIN fs \cup {i} /\ more[i] = a
    /\ \A j \in DOMAIN fs \ {i} : more[j] = fs[j]

\* What the assemblies are when one is put in.
LEMMA FramesWith ==
    ASSUME NEW fs, IsMap(fs, Ids, Assemblies), NEW i, i \in Ids, NEW a, a \in Assemblies
    PROVE  With(Put(fs, i, a), fs, i, a)
<1>1. DOMAIN Put(fs, i, a) = DOMAIN fs \cup {i}
      /\ \A j \in DOMAIN fs \cup {i} : Put(fs, i, a)[j] = IF j = i THEN a ELSE fs[j]
  BY DEF Put
<1>2. Put(fs, i, a) = [j \in DOMAIN Put(fs, i, a) |-> Put(fs, i, a)[j]]
  BY DEF Put
<1> QED BY <1>1, <1>2 DEF With, IsMap

\* The assemblies with a new header among them are fit for finish_if_complete.
LEMMA HeaderDelivers ==
    ASSUME NEW d, Arrives(d), d.kind = "header", d.count # 0, NEW current, Remains(current, d),
           NEW waiting, Waits(waiting), NEW fs, With(fs, current, d.id, Fresh(d, waiting)),
           NEW os, IsMap(os, Ids, Waiting), DOMAIN os = DOMAIN waiting \ {d.id},
           \A i \in DOMAIN os : os[i] = waiting[i]
    PROVE  Delivering(d, fs, os)
<1>1. PICK got : got = outcome.got \cup {d}
  OBVIOUS
<1>2. PICK a : a = Fresh(d, waiting)
  OBVIOUS
<1>3. /\ a.origin = d.origin /\ FrameFits(d.id, a, got) /\ (a.age > 0 => outcome.late)
      /\ d.id \in DOMAIN waiting =>
           \A j \in DOMAIN waiting[d.id].chunks : j \in DOMAIN a.chunks /\ a.chunks[j] = waiting[d.id].chunks[j]
  <2>1. /\ Fresh(d, waiting).origin = d.origin /\ FrameFits(d.id, Fresh(d, waiting), got)
        /\ (Fresh(d, waiting).age > 0 => outcome.late)
        /\ d.id \in DOMAIN waiting =>
             \A j \in DOMAIN waiting[d.id].chunks : /\ j \in DOMAIN Fresh(d, waiting).chunks
                                                    /\ Fresh(d, waiting).chunks[j] = waiting[d.id].chunks[j]
    BY <1>1, FreshFits
  <2> QED BY <1>2, <2>1
<1>4. /\ IsMap(fs, Ids, Assemblies) /\ DOMAIN fs = DOMAIN current \cup {d.id} /\ fs[d.id] = a
      /\ \A i \in DOMAIN current \ {d.id} : fs[i] = frames[i] /\ i \in DOMAIN frames
      /\ DOMAIN current \subseteq DOMAIN frames
  BY <1>2 DEF With, Remains
<1>5. d.id \notin DOMAIN frames
  BY HeaderIsNew
<1>6. \A i \in DOMAIN os : os[i] = orphans[i] /\ i \in DOMAIN orphans /\ i # d.id
  BY DEF Waits
<1>7. Assembling(fs, os, got)
  <2>1. \A i \in DOMAIN fs : FrameFits(i, fs[i], got)
    BY <1>1, <1>3, <1>4, HeldFits
  <2>2. \A i \in DOMAIN os : OrphanFits(i, os[i], got)
    BY <1>1, <1>6, HeldFits
  <2>3. DOMAIN fs \cap DOMAIN os = {}
    BY <1>1, <1>4, <1>6, HeldFits
  <2>4. Cardinality(DOMAIN os) <= MaxOrphans
    <3>1. DOMAIN os \subseteq DOMAIN orphans /\ IsFiniteSet(DOMAIN orphans)
          /\ Cardinality(DOMAIN orphans) \in Nat /\ Cardinality(DOMAIN orphans) <= MaxOrphans
      BY <1>1, <1>6, HeldFits
    <3>2. Cardinality(DOMAIN os) <= Cardinality(DOMAIN orphans) /\ Cardinality(DOMAIN os) \in Nat
      BY <3>1, FS_Subset, FS_CardinalityType
    <3> QED BY <3>1, <3>2, TransportNumbers
  <2> QED BY <2>1, <2>2, <2>3, <2>4 DEF Assembling
<1>8. AgedIsLate(fs, os)
  BY <1>1, <1>3, <1>4, <1>6, HeldFits DEF AgedIsLate
<1>9. \A i \in DOMAIN fs : i # d.id => ~Complete(fs[i])
  BY <1>4 DEF Arrives, TransportInv, Assembled
<1>10. Cardinality(DOMAIN fs) <= MaxIncomplete + 1
  <2>1. IsFiniteSet(DOMAIN frames) /\ Cardinality(DOMAIN frames) \in Nat
        /\ Cardinality(DOMAIN frames) <= MaxIncomplete
    BY <1>1, HeldFits
  <2>2. IsFiniteSet(DOMAIN current) /\ Cardinality(DOMAIN current) <= Cardinality(DOMAIN frames)
    BY <1>4, <2>1, FS_Subset
  <2>3. Cardinality(DOMAIN current) \in Nat
    BY <2>2, FS_CardinalityType
  <2>4. Cardinality(DOMAIN current \cup {d.id}) = Cardinality(DOMAIN current) + 1
    BY <1>4, <1>5, <2>2, FS_AddElement
  <2> QED BY <1>4, <2>1, <2>2, <2>3, <2>4, TransportNumbers
<1>11. \A p \in PartsIn(frames, orphans) \cup {PartOf(d)} :
         p \in PartsIn(fs, os) \/ (p[1] \in DOMAIN origins /\ CauseIn(got, p[1]))
  <2>1. PartOf(d) = <<fs[d.id].origin, -1>> /\ d.id \in DOMAIN fs
    BY <1>3, <1>4 DEF PartOf
  <2>2. PartOf(d) \in PartsIn(fs, os)
    BY <2>1, PartsHeld
  <2>3. FramesCovered(d, fs)
    BY <1>4, <1>5 DEF Remains, FramesCovered, Keeps
  <2>4. OrphansCovered(fs, os)
    BY <1>3, <1>4, <1>6 DEF Waits, OrphansCovered, Keeps
  <2>5. d.kind # "audio"
    OBVIOUS
  <2>6. ASSUME NEW p \in PartsIn(frames, orphans)
        PROVE  p \in PartsIn(fs, os) \/ (p[1] \in DOMAIN origins /\ CauseIn(got, p[1]))
    BY <1>1, <2>3, <2>4, <2>5, <2>6, StillCovered
  <2> QED BY <2>2, <2>6
<1> QED BY <1>1, <1>4, <1>7, <1>8, <1>9, <1>10, <1>11 DEF Delivering

\* A datagram that leaves the network and is handed to Deliver has arrived.
LEMMA DeliverArrives ==
    ASSUME TransportInv, NEW d \in air, air' = air \ {d}, UNCHANGED <<tx, origins>>,
           NEW fs, NEW os, Deliver(d, fs, os)
    PROVE  Arrives(d)
<1>1. PICK s, r : outcome' = [outcome EXCEPT !.got = @ \cup {d}, !.shown = s, !.dropped = r]
  BY DEF Deliver
<1>2. outcome \in Outcomes
  BY DEF TransportInv, TransportTypes
<1>3. outcome'.got = outcome.got \cup {d} /\ outcome'.late = outcome.late
  BY <1>1, <1>2 DEF Outcomes
<1> QED BY <1>3 DEF Arrives

(* A frame without chunks is discarded as it comes. *)
LEMMA DiscardedAsItComes ==
    ASSUME TransportInv, NEW d \in air, air' = air \ {d},
           UNCHANGED <<tx, origins, frames, orphans, expected, lost, audioRx>>,
           outcome' = [outcome EXCEPT !.got = @ \cup {d}, !.dropped = @ \cup {d.origin}],
           CauseIn(outcome.got \cup {d}, d.origin)
    PROVE  TransportInv'
<1>1. outcome \in Outcomes
  BY DEF TransportInv, TransportTypes
<1>2. /\ outcome'.got = outcome.got \cup {d} /\ outcome'.shown = outcome.shown
      /\ outcome'.dropped = outcome.dropped \cup {d.origin} /\ outcome'.late = outcome.late
      /\ outcome' = [got |-> outcome.got \cup {d}, shown |-> outcome.shown,
                     dropped |-> outcome.dropped \cup {d.origin}, late |-> outcome.late]
  BY <1>1 DEF Outcomes
<1>3. Arrives(d)
  BY <1>2 DEF Arrives
<1>4. d \in Datagrams /\ d.origin \in DOMAIN origins /\ d.origin \in Nat
  BY <1>3, OnceReceived, VideosCounted DEF TransportInv
<1>5. outcome' \in Outcomes
  BY <1>1, <1>2, <1>4 DEF Outcomes
<1>6. TransportTypes'
  BY <1>3, <1>5, OnceReceived DEF TransportInv, TransportTypes
<1>7. ShownArrived' /\ DeliveredAsSent' /\ AudioInOrder' /\ Shown' = Shown
  BY <1>2, <1>3, ShowNone
<1>8. DiscardedForCause' /\ DroppedSent'
  <2>1. PICK X : X = {d.origin}
    OBVIOUS
  <2> QED BY <1>2, <1>3, <1>4, <1>6, <2>1, DropSome
<1>9. AudioPending'
  BY <1>3, <1>7, AudioUntouched
<1>10. Assembled'
  <2>1. PICK got : got = outcome.got \cup {d}
    OBVIOUS
  <2>2. \A i \in DOMAIN frames' : FrameFits(i, frames[i], outcome.got)'
    <3>1. \A i \in DOMAIN frames : FrameFits(i, frames[i], got)
      BY <1>3, <2>1, HeldFits
    <3> QED BY <1>2, <2>1, <3>1 DEF FrameFits, PartialOf, Cut, Videos, OfKind
  <2>3. \A i \in DOMAIN orphans' : OrphanFits(i, orphans[i], outcome.got)'
    <3>1. \A i \in DOMAIN orphans : OrphanFits(i, orphans[i], got)
      BY <1>3, <2>1, HeldFits
    <3> QED BY <1>2, <2>1, <3>1 DEF OrphanFits, PartialOf, Cut, Videos, OfKind
  <2> QED BY <1>2, <2>2, <2>3 DEF TransportInv, Assembled, Assembling, AgedIsLate, Complete
<1>11. Accounted'
  <2>1. SUFFICES ASSUME NEW x \in outcome.got \cup {d}
                 PROVE  x.origin \in Shown' \cup outcome'.dropped \/ StillHeld(x)'
    BY <1>2 DEF Accounted
  <2>2. CASE x = d
    BY <1>2, <2>2
  <2>3. CASE x \in outcome.got
    BY <1>2, <1>7, <2>3 DEF TransportInv, Accounted, StillHeld
  <2> QED BY <2>1, <2>2, <2>3
<1>12. LossAhead'
  BY DEF TransportInv, LossAhead, Videos, OfKind
<1> QED BY <1>3, <1>6, <1>7, <1>8, <1>9, <1>10, <1>11, <1>12, OnceReceived DEF TransportInv

\* FrameAssembler::push_header keeps the invariant.
LEMMA PushHeaderKeeps ==
    ASSUME TransportInv, NEW d \in air, air' = air \ {d}, UNCHANGED <<tx, origins>>,
           d.kind = "header", PushHeader(d)
    PROVE  TransportInv'
<1>1. CASE d.count = 0
  <2>1. /\ UNCHANGED <<frames, orphans, expected, lost, audioRx>>
        /\ outcome' = [outcome EXCEPT !.got = @ \cup {d}, !.dropped = @ \cup {d.origin}]
    BY <1>1 DEF PushHeader
  <2>2. d.count = origins[d.origin].count
    <3>1. IsCut(d) /\ TransportTypes
      BY DEF TransportInv, OnceEach
    <3> QED BY <3>1, CutFields DEF IsCut
  <2> QED BY <1>1, <2>1, <2>2, DiscardedAsItComes DEF CauseIn
<1>2. CASE d.count # 0
  <2> DEFINE young == Young(frames)
             waiting == Young(orphans)
             current == IF d.key THEN Restrict(young, {i \in DOMAIN young : SerialNotBefore(i, d.id)}) ELSE young
             again == d.id \in DOMAIN current
             same == again => current[d.id].count = d.count /\ current[d.id].key = d.key
             have == IF again THEN current[d.id].chunks ELSE NoIds
             fresh == [count |-> d.count, key |-> d.key, origin |-> d.origin,
                       chunks |-> AdmitChunks(have, AdoptedChunks(d.id, waiting), d.count),
                       age |-> IF again THEN current[d.id].age ELSE AdoptedAge(d.id, waiting)]
  <2>1. /\ TrackLoss(d.id) /\ UNCHANGED audioRx
        /\ Deliver(d, IF same THEN Put(current, d.id, fresh) ELSE current, Drop(waiting, {d.id}))
    BY <1>2 DEF PushHeader
  <2>2. Arrives(d)
    <3>1. PICK fs : fs = IF same THEN Put(current, d.id, fresh) ELSE current
      OBVIOUS
    <3>2. PICK os : os = Drop(waiting, {d.id})
      OBVIOUS
    <3>3. Deliver(d, fs, os)
      BY <2>1, <3>1, <3>2
    <3> QED BY <3>3, DeliverArrives
  <2>3. PICK w : w = waiting
    OBVIOUS
  <2>4. PICK c : c = current
    OBVIOUS
  <2>5. Remains(c, d) /\ Waits(w)
    <3>1. PICK y : y = Young(frames)
      OBVIOUS
    <3>2. Remains(y, d) /\ Waits(Young(orphans))
      BY <3>1, YoungRemains
    <3>3. CASE d.key
      <4>1. Remains(Restrict(y, {i \in DOMAIN y : SerialNotBefore(i, d.id)}), d)
        BY <3>2, <3>3, NewerRemain
      <4> QED BY <2>3, <2>4, <3>1, <3>2, <3>3, <4>1
    <3>4. CASE ~d.key
      BY <2>3, <2>4, <3>1, <3>2, <3>4
    <3> QED BY <3>3, <3>4
  <2>6. d.id \notin DOMAIN c
    BY <2>2, <2>5, HeaderIsNew DEF Remains
  <2>7. ~again /\ same /\ have = NoIds
    BY <2>4, <2>6
  <2>8. PICK a : a = Fresh(d, w)
    OBVIOUS
  <2>9. fresh = a
    BY <2>3, <2>7, <2>8 DEF Fresh
  <2>10. PICK fs : fs = Put(c, d.id, a)
    OBVIOUS
  <2>11. PICK os : os = Drop(w, {d.id})
    OBVIOUS
  <2>12. Deliver(d, fs, os)
    BY <2>1, <2>3, <2>4, <2>7, <2>9, <2>10, <2>11
  <2>13. With(fs, c, d.id, a)
    <3>1. IsMap(c, Ids, Assemblies) /\ d.id \in Ids /\ a \in Assemblies
      <4>1. PICK got : got = outcome.got \cup {d}
        OBVIOUS
      <4>2. Fresh(d, w) \in Assemblies
        BY <1>2, <2>2, <2>5, <4>1, FreshFits
      <4> QED BY <2>2, <2>5, <2>8, <4>2, ReceivesVideo DEF Remains
    <3>2. PICK i \in Ids : i = d.id
      BY <3>1
    <3>3. With(Put(c, i, a), c, i, a)
      BY <3>1, <3>2, FramesWith
    <3> QED BY <2>10, <3>2, <3>3
  <2>14. /\ IsMap(os, Ids, Waiting) /\ DOMAIN os = DOMAIN w \ {d.id}
         /\ \A i \in DOMAIN os : os[i] = w[i]
    <3>1. PICK X : X = {d.id}
      OBVIOUS
    <3>2. /\ IsMap(Drop(w, X), Ids, Waiting) /\ DOMAIN Drop(w, X) = DOMAIN w \ X
          /\ \A i \in DOMAIN w \ X : Drop(w, X)[i] = w[i]
      BY <2>5, DropMap DEF Waits
    <3> QED BY <2>11, <3>1, <3>2
  <2> HIDE DEF young, waiting, current, again, same, have, fresh
  <2>15. Delivering(d, fs, os)
    BY <1>2, <2>2, <2>5, <2>8, <2>13, <2>14, HeaderDelivers
  <2>16. expected' \in Ids \cup {-1} /\ lost' \in Nat /\ LossAhead'
    BY <2>1, <2>2, LossTracked
  <2> QED BY <2>1, <2>2, <2>12, <2>15, <2>16, DeliverKeeps
<1> QED BY <1>1, <1>2

(* The chunk that came takes its place, once, among the chunks of its frame. *)
Admits(c, have, o, kind, got, k) ==
    /\ c \in ChunkMaps /\ PartialOf(c, o, kind, got)
    /\ k \in DOMAIN c /\ c[k] = o /\ DOMAIN c = DOMAIN have \cup {k}
    /\ \A j \in DOMAIN have : j \in DOMAIN c /\ c[j] = have[j]

\* Admitting one chunk to what is held of a frame.
LEMMA ChunkAdmitted ==
    ASSUME NEW have, have \in ChunkMaps, NEW o, NEW kind, NEW got, PartialOf(have, o, kind, got),
           NEW n, n \in Nat, NEW k, k \in 0 .. MaxChunks - 1, k \in 0 .. origins[o].count - 1, k < n,
           Cut(o, kind, k) \in got, NEW m, m \in ChunkMaps, DOMAIN m = {k}, m[k] = o
    PROVE  Admits(AdmitChunks(have, m, n), have, o, kind, got, k)
<1> DEFINE c == AdmitChunks(have, m, n)
<1>4. /\ c \in ChunkMaps
      /\ \A j : j \in DOMAIN c <=> j \in DOMAIN have \/ (j \in DOMAIN m /\ j < n)
      /\ \A j \in DOMAIN c : c[j] = IF j \in DOMAIN have THEN have[j] ELSE m[j]
  BY Admitted
<1> HIDE DEF c
<1>6. \A j \in DOMAIN have : have[j] = o /\ Cut(o, kind, j) \in got /\ j \in 0 .. origins[o].count - 1
  BY DEF PartialOf
<1>7. \A j \in DOMAIN c : c[j] = o /\ Cut(o, kind, j) \in got /\ j \in 0 .. origins[o].count - 1
  BY <1>4, <1>6
<1>8. \A j : j \in DOMAIN c <=> j \in DOMAIN have \cup {k}
  BY <1>4
<1>9. DOMAIN c = DOMAIN have \cup {k}
  BY <1>8
<1>10. c[k] = o /\ \A j \in DOMAIN have : c[j] = have[j]
  BY <1>4, <1>7, <1>9
<1>11. PartialOf(c, o, kind, got)
  BY <1>7 DEF PartialOf
<1>12. Admits(c, have, o, kind, got, k)
  BY <1>4, <1>9, <1>10, <1>11 DEF Admits
<1> QED BY <1>12 DEF c

(* What remains and waits is still in order and within the tables. *)
LEMMA RemainsFits ==
    ASSUME NEW d, Arrives(d), NEW got, got = outcome.got \cup {d}, NEW current, Remains(current, d),
           NEW waiting, Waits(waiting)
    PROVE  /\ Assembling(current, waiting, got) /\ AgedIsLate(current, waiting)
           /\ \A i \in DOMAIN current : ~Complete(current[i])
           /\ IsFiniteSet(DOMAIN current) /\ Cardinality(DOMAIN current) <= MaxIncomplete
           /\ IsFiniteSet(DOMAIN waiting) /\ Cardinality(DOMAIN waiting) \in Nat
<1>1. /\ DOMAIN current \subseteq DOMAIN frames /\ \A i \in DOMAIN current : current[i] = frames[i]
      /\ DOMAIN waiting \subseteq DOMAIN orphans /\ \A i \in DOMAIN waiting : waiting[i] = orphans[i]
  BY DEF Remains, Waits
<1>2. /\ IsFiniteSet(DOMAIN frames) /\ IsFiniteSet(DOMAIN orphans)
      /\ Cardinality(DOMAIN frames) <= MaxIncomplete /\ Cardinality(DOMAIN frames) \in Nat
      /\ Cardinality(DOMAIN orphans) <= MaxOrphans /\ Cardinality(DOMAIN orphans) \in Nat
  BY HeldFits
<1>3. /\ IsFiniteSet(DOMAIN current) /\ Cardinality(DOMAIN current) <= Cardinality(DOMAIN frames)
      /\ IsFiniteSet(DOMAIN waiting) /\ Cardinality(DOMAIN waiting) <= Cardinality(DOMAIN orphans)
  BY <1>1, <1>2, FS_Subset
<1>4. Cardinality(DOMAIN current) \in Nat /\ Cardinality(DOMAIN waiting) \in Nat
  BY <1>3, FS_CardinalityType
<1>5. Cardinality(DOMAIN current) <= MaxIncomplete /\ Cardinality(DOMAIN waiting) <= MaxOrphans
  BY <1>2, <1>3, <1>4, TransportNumbers
<1>6. \A i \in DOMAIN current : FrameFits(i, current[i], got) /\ (current[i].age > 0 => outcome.late)
  BY <1>1, HeldFits
<1>7. \A i \in DOMAIN waiting : OrphanFits(i, waiting[i], got) /\ (waiting[i].age > 0 => outcome.late)
  BY <1>1, HeldFits
<1>8. DOMAIN current \cap DOMAIN waiting = {}
  BY <1>1, HeldFits
<1>9. \A i \in DOMAIN current : ~Complete(current[i])
  BY <1>1 DEF Arrives, TransportInv, Assembled
<1> QED BY <1>3, <1>4, <1>5, <1>6, <1>7, <1>8, <1>9 DEF Assembling, AgedIsLate

(* A chunk of a frame in progress. *)
LEMMA ChunkJoins ==
    ASSUME NEW d, Arrives(d), d.kind = "chunk", NEW young, Remains(young, d), NEW waiting, Waits(waiting),
           d.id \in DOMAIN young, NEW b, b \in Assemblies, b.count = young[d.id].count,
           b.key = young[d.id].key, b.origin = young[d.id].origin, b.age = young[d.id].age,
           Keeps(young[d.id], b), PartialOf(b.chunks, d.origin, "chunk", outcome.got \cup {d}),
           d.index \in DOMAIN b.chunks, b.chunks[d.index] = d.origin, NEW fs, With(fs, young, d.id, b)
    PROVE  Delivering(d, fs, waiting)
<1>1. PICK got : got = outcome.got \cup {d}
  OBVIOUS
<1>2. PICK a : a = young[d.id]
  OBVIOUS
<1>3. a \in Assemblies /\ a = frames[d.id] /\ d.id \in DOMAIN frames
  BY <1>2 DEF Remains, IsMap
<1>4. /\ Assembling(young, waiting, got) /\ AgedIsLate(young, waiting)
      /\ \A i \in DOMAIN young : ~Complete(young[i])
      /\ Cardinality(DOMAIN young) <= MaxIncomplete
  BY <1>1, RemainsFits
<1>5. FrameFits(d.id, a, got)
  BY <1>2, <1>4 DEF Assembling
<1>6. a.origin = d.origin /\ a.count = d.count
  BY <1>5, ReceivesVideo, OneOfAKind DEF FrameFits, Arrives, TransportInv
<1>10. /\ b.count = a.count /\ b.key = a.key /\ b.origin = a.origin /\ b.age = a.age /\ Keeps(a, b)
       /\ PartialOf(b.chunks, d.origin, "chunk", got)
  BY <1>1, <1>2
<1>11. FrameFits(d.id, b, got)
  BY <1>5, <1>6, <1>10 DEF FrameFits
<1>12. /\ DOMAIN fs = DOMAIN young /\ fs[d.id] = b /\ IsMap(fs, Ids, Assemblies)
       /\ \A i \in DOMAIN young \ {d.id} : fs[i] = young[i]
  BY DEF With
<1>13. Assembling(fs, waiting, got)
  BY <1>4, <1>11, <1>12 DEF Assembling
<1>14. AgedIsLate(fs, waiting)
  BY <1>2, <1>4, <1>10, <1>12 DEF AgedIsLate
<1>15. \A i \in DOMAIN fs : i # d.id => ~Complete(fs[i])
  BY <1>4, <1>12
<1>16. \A p \in PartsIn(frames, orphans) \cup {PartOf(d)} :
         p \in PartsIn(fs, waiting) \/ (p[1] \in DOMAIN origins /\ CauseIn(got, p[1]))
  <2>1. PartOf(d) = <<fs[d.id].chunks[d.index], d.index>> /\ d.id \in DOMAIN fs
        /\ d.index \in DOMAIN fs[d.id].chunks
    BY <1>12 DEF PartOf
  <2>2. PartOf(d) \in PartsIn(fs, waiting)
    BY <2>1, PartsHeld
  <2>3. FramesCovered(d, fs)
    <3>1. ASSUME NEW i \in DOMAIN young
          PROVE  i \in DOMAIN frames /\ fs[i].origin = frames[i].origin /\ Keeps(frames[i], fs[i])
      <4>1. i \in DOMAIN frames /\ young[i] = frames[i]
        BY <3>1 DEF Remains
      <4>2. CASE i = d.id
        BY <1>2, <1>3, <1>10, <1>12, <4>1, <4>2
      <4>3. CASE i # d.id
        BY <1>12, <3>1, <4>1, <4>3 DEF Keeps
      <4> QED BY <4>2, <4>3
    <3> QED BY <1>12, <3>1 DEF Remains, FramesCovered
  <2>4. OrphansCovered(fs, waiting)
    BY DEF Waits, OrphansCovered, Keeps
  <2>5. d.kind # "audio"
    OBVIOUS
  <2>6. ASSUME NEW p \in PartsIn(frames, orphans)
        PROVE  p \in PartsIn(fs, waiting) \/ (p[1] \in DOMAIN origins /\ CauseIn(got, p[1]))
    BY <1>1, <2>3, <2>4, <2>5, <2>6, StillCovered
  <2> QED BY <2>2, <2>6
<1>17. IsMap(waiting, Ids, Waiting)
  BY DEF Waits
<1> QED BY <1>1, <1>4, <1>12, <1>13, <1>14, <1>15, <1>16, <1>17 DEF Delivering


(* A chunk of a frame whose header has not come waits among the orphans. *)
LEMMA ChunkWaits ==
    ASSUME NEW d, Arrives(d), d.kind = "chunk", NEW young, Remains(young, d), NEW waiting, Waits(waiting),
           d.id \notin DOMAIN young, d.id \in DOMAIN waiting \/ Cardinality(DOMAIN waiting) < MaxOrphans,
           NEW b, b \in Waiting, b.age > 0 => outcome.late,
           d.id \in DOMAIN waiting => Keeps(waiting[d.id], b),
           PartialOf(b.chunks, d.origin, "chunk", outcome.got \cup {d}),
           d.index \in DOMAIN b.chunks, b.chunks[d.index] = d.origin,
           NEW os, IsMap(os, Ids, Waiting), DOMAIN os = DOMAIN waiting \cup {d.id}, os[d.id] = b,
           \A i \in DOMAIN waiting \ {d.id} : os[i] = waiting[i]
    PROVE  Delivering(d, young, os)
<1>1. PICK got : got = outcome.got \cup {d}
  OBVIOUS
<1>2. /\ Assembling(young, waiting, got) /\ AgedIsLate(young, waiting)
      /\ \A i \in DOMAIN young : ~Complete(young[i])
      /\ Cardinality(DOMAIN young) <= MaxIncomplete
      /\ IsFiniteSet(DOMAIN waiting) /\ Cardinality(DOMAIN waiting) \in Nat
  BY <1>1, RemainsFits
<1>3. OrphanFits(d.id, b, got)
  BY <1>1, ReceivesVideo DEF OrphanFits
<1>4. Cardinality(DOMAIN os) <= MaxOrphans
  <2>1. CASE d.id \in DOMAIN waiting
    <3>1. DOMAIN os = DOMAIN waiting
      BY <2>1
    <3> QED BY <1>2, <3>1 DEF Assembling
  <2>2. CASE d.id \notin DOMAIN waiting
    <3>1. Cardinality(DOMAIN os) = Cardinality(DOMAIN waiting) + 1
      BY <1>2, <2>2, FS_AddElement
    <3> QED BY <1>2, <2>2, <3>1, TransportNumbers
  <2> QED BY <2>1, <2>2
<1>5. Assembling(young, os, got)
  <2>1. \A i \in DOMAIN os : OrphanFits(i, os[i], got)
    BY <1>2, <1>3 DEF Assembling
  <2>2. DOMAIN young \cap DOMAIN os = {}
    BY <1>2 DEF Assembling
  <2> QED BY <1>2, <1>4, <2>1, <2>2 DEF Assembling
<1>6. AgedIsLate(young, os)
  BY <1>2 DEF AgedIsLate
<1>7. \A p \in PartsIn(frames, orphans) \cup {PartOf(d)} :
         p \in PartsIn(young, os) \/ (p[1] \in DOMAIN origins /\ CauseIn(got, p[1]))
  <2>1. PartOf(d) = <<os[d.id].chunks[d.index], d.index>> /\ d.id \in DOMAIN os
        /\ d.index \in DOMAIN os[d.id].chunks
    BY DEF PartOf
  <2>2. PartOf(d) \in PartsIn(young, os)
    BY <2>1, PartsHeld
  <2>3. FramesCovered(d, young)
    BY DEF Remains, FramesCovered, Keeps
  <2>4. OrphansCovered(young, os)
    <3>1. ASSUME NEW i \in DOMAIN waiting
          PROVE  i \in DOMAIN os /\ Keeps(orphans[i], os[i])
      <4>1. waiting[i] = orphans[i] /\ i \in DOMAIN os
        BY <3>1 DEF Waits
      <4>2. CASE i = d.id
        BY <3>1, <4>1, <4>2
      <4>3. CASE i # d.id
        BY <3>1, <4>1, <4>3 DEF Keeps
      <4> QED BY <4>1, <4>2, <4>3
    <3> QED BY <3>1 DEF Waits, OrphansCovered
  <2>5. d.kind # "audio"
    OBVIOUS
  <2>6. ASSUME NEW p \in PartsIn(frames, orphans)
        PROVE  p \in PartsIn(young, os) \/ (p[1] \in DOMAIN origins /\ CauseIn(got, p[1]))
    BY <1>1, <2>3, <2>4, <2>5, <2>6, StillCovered
  <2> QED BY <2>2, <2>6
<1>8. IsMap(young, Ids, Assemblies)
  BY DEF Remains
<1> QED BY <1>1, <1>2, <1>5, <1>6, <1>7, <1>8 DEF Delivering

(* No room among the orphans: MAX_ORPHAN_FRAMES others are waiting. *)
LEMMA ChunkRefused ==
    ASSUME NEW d, Arrives(d), d.kind = "chunk", NEW young, Remains(young, d), NEW waiting, Waits(waiting),
           d.id \notin DOMAIN waiting, Cardinality(DOMAIN waiting) >= MaxOrphans
    PROVE  Delivering(d, young, waiting)
<1>1. PICK got : got = outcome.got \cup {d}
  OBVIOUS
<1>2. /\ Assembling(young, waiting, got) /\ AgedIsLate(young, waiting)
      /\ \A i \in DOMAIN young : ~Complete(young[i])
      /\ Cardinality(DOMAIN young) <= MaxIncomplete
      /\ IsFiniteSet(DOMAIN waiting) /\ Cardinality(DOMAIN waiting) \in Nat
  BY <1>1, RemainsFits
<1>3. TransportTypes /\ d.origin \in Videos /\ origins[d.origin].id = d.id
  BY ReceivesVideo DEF Arrives, TransportInv
<1> DEFINE Owner(i) == CHOOSE o \in Videos : origins[o].id = i /\ PartialOf(waiting[i].chunks, o, "chunk", got)
           f == [i \in DOMAIN waiting |-> Owner(i)]
           Q == {p \in Videos \ {d.origin} : ArrivedIn(got, p) # {}}
<1>4. ASSUME NEW i \in DOMAIN waiting
      PROVE  f[i] \in Videos /\ origins[f[i]].id = i /\ ArrivedIn(got, f[i]) # {}
  <2>1. OrphanFits(i, waiting[i], got)
    BY <1>2, <1>4 DEF Assembling
  <2>2. Owner(i) \in Videos /\ origins[Owner(i)].id = i /\ PartialOf(waiting[i].chunks, Owner(i), "chunk", got)
    BY <2>1 DEF OrphanFits
  <2>3. PICK o : o = Owner(i)
    OBVIOUS
  <2>4. f[i] = o
    BY <1>4, <2>3
  <2> HIDE DEF Owner, f
  <2>5. PICK j \in DOMAIN waiting[i].chunks : Cut(o, "chunk", j) \in got
    BY <2>1, <2>2, <2>3 DEF OrphanFits, PartialOf
  <2>6. Cut(o, "chunk", j).origin = o
    BY DEF Cut
  <2>7. ArrivedIn(got, o) # {}
    BY <2>5, <2>6 DEF ArrivedIn
  <2> QED BY <2>2, <2>3, <2>4, <2>7
<1> HIDE DEF f
<1>5. \A i \in DOMAIN waiting : f[i] \in Videos \ {d.origin} /\ ArrivedIn(got, f[i]) # {}
  BY <1>3, <1>4
<1>6. \A i, j \in DOMAIN waiting : f[i] = f[j] => i = j
  BY <1>4
<1>7. Cardinality(DOMAIN waiting) <= Cardinality(Q)
  BY <1>2, <1>3, <1>5, <1>6, OthersCounted
<1>8. Cardinality(Q) \in Nat
  <2>1. IsFiniteSet(Q)
    BY <1>3, VideosCounted, FS_Subset
  <2> QED BY <2>1, FS_CardinalityType
<1> HIDE DEF Q
<1>9. Cardinality(Q) >= (IF MaxOrphans < MaxIncomplete THEN MaxOrphans ELSE MaxIncomplete)
  BY <1>2, <1>7, <1>8, TransportNumbers
<1>10. d.origin \in DOMAIN origins /\ CauseIn(got, d.origin)
  BY <1>3, <1>9 DEF CauseIn, Q, Videos, OfKind
<1>11. \A p \in PartsIn(frames, orphans) \cup {PartOf(d)} :
         p \in PartsIn(young, waiting) \/ (p[1] \in DOMAIN origins /\ CauseIn(got, p[1]))
  <2>1. PartOf(d)[1] = d.origin
    BY DEF PartOf
  <2>3. FramesCovered(d, young)
    BY DEF Remains, FramesCovered, Keeps
  <2>4. OrphansCovered(young, waiting)
    BY DEF Waits, OrphansCovered, Keeps
  <2>5. d.kind # "audio"
    OBVIOUS
  <2>6. ASSUME NEW p \in PartsIn(frames, orphans)
        PROVE  p \in PartsIn(young, waiting) \/ (p[1] \in DOMAIN origins /\ CauseIn(got, p[1]))
    BY <1>1, <2>3, <2>4, <2>5, <2>6, StillCovered
  <2> QED BY <1>10, <2>1, <2>6
<1>12. IsMap(young, Ids, Assemblies) /\ IsMap(waiting, Ids, Waiting)
  BY DEF Remains, Waits
<1> QED BY <1>1, <1>2, <1>11, <1>12 DEF Delivering

(* The one chunk of a datagram, admitted to those its frame has. *)
LEMMA OneMore ==
    ASSUME NEW d, Arrives(d), d.kind = "chunk", NEW got, got = outcome.got \cup {d},
           NEW have, have \in ChunkMaps, PartialOf(have, d.origin, "chunk", got),
           NEW n, n \in Nat, d.count <= n
    PROVE  \E m \in ChunkMaps :
             /\ m = [j \in {d.index} |-> d.origin]
             /\ Admits(AdmitChunks(have, m, n), have, d.origin, "chunk", got, d.index)
<1>1. /\ d.count \in 0 .. MaxChunks /\ d.index \in 0 .. d.count - 1 /\ d.origin \in 1 .. MaxFrames
      /\ d = Cut(d.origin, "chunk", d.index) /\ origins[d.origin].count = d.count
  BY ReceivesVideo
<1>2. d.index \in 0 .. MaxChunks - 1 /\ d.index < n
  BY <1>1, TransportNumbers
<1>3. PICK k \in 0 .. MaxChunks - 1, o \in 1 .. MaxFrames : k = d.index /\ o = d.origin
  BY <1>1, <1>2
<1>4. PICK m \in ChunkMaps : m = [j \in {k} |-> o] /\ DOMAIN m = {k} /\ m[k] = o
  BY OneChunk
<1>5. Cut(o, "chunk", k) \in got /\ k \in 0 .. origins[o].count - 1 /\ k < n
  BY <1>1, <1>2, <1>3
<1>6. PartialOf(have, o, "chunk", got)
  BY <1>3
<1>7. Admits(AdmitChunks(have, m, n), have, o, "chunk", got, k)
  BY <1>3, <1>4, <1>5, <1>6, ChunkAdmitted
<1> QED BY <1>3, <1>4, <1>7

(* What a chunk finds under its identifier among the orphans. *)
LEMMA AdoptedFits ==
    ASSUME NEW d, Arrives(d), d.kind = "chunk", NEW got, got = outcome.got \cup {d}, NEW waiting, Waits(waiting)
    PROVE  /\ AdoptedChunks(d.id, waiting) \in ChunkMaps
           /\ PartialOf(AdoptedChunks(d.id, waiting), d.origin, "chunk", got)
           /\ AdoptedAge(d.id, waiting) \in 0 .. AssemblyTimeout
           /\ AdoptedAge(d.id, waiting) > 0 => outcome.late
           /\ d.id \in DOMAIN waiting => AdoptedChunks(d.id, waiting) = waiting[d.id].chunks
<1>1. CASE d.id \in DOMAIN waiting
  <2>1. OrphanFits(d.id, waiting[d.id], got) /\ waiting[d.id] = orphans[d.id] /\ d.id \in DOMAIN orphans
    BY <1>1, HeldFits DEF Waits
  <2>2. /\ waiting[d.id] \in Waiting /\ PartialOf(waiting[d.id].chunks, d.origin, "chunk", got)
        /\ (waiting[d.id].age > 0 => outcome.late)
    BY <1>1, <2>1, OrphanOf, HeldFits DEF Waits, IsMap
  <2> QED BY <1>1, <2>2 DEF AdoptedChunks, AdoptedAge, Waiting
<1>2. CASE d.id \notin DOMAIN waiting
  <2>1. AdoptedChunks(d.id, waiting) = NoIds /\ AdoptedAge(d.id, waiting) = 0
    BY <1>2 DEF AdoptedChunks, AdoptedAge
  <2> QED BY <1>2, <2>1, NoChunks, TransportNumbers DEF PartialOf
<1> QED BY <1>1, <1>2

\* The waiting chunks os with b at i.
WaitsWith(more, os, i, b) ==
    /\ IsMap(more, Ids, Waiting) /\ DOMAIN more = DOMAIN os \cup {i} /\ more[i] = b
    /\ \A j \in DOMAIN os \ {i} : more[j] = os[j]

\* What the waiting chunks are when those of one frame are put in.
LEMMA WaitingWith ==
    ASSUME NEW os, IsMap(os, Ids, Waiting), NEW i, i \in Ids, NEW b, b \in Waiting
    PROVE  WaitsWith(Put(os, i, b), os, i, b)
<1>1. DOMAIN Put(os, i, b) = DOMAIN os \cup {i}
      /\ \A j \in DOMAIN os \cup {i} : Put(os, i, b)[j] = IF j = i THEN b ELSE os[j]
  BY DEF Put
<1>2. Put(os, i, b) = [j \in DOMAIN Put(os, i, b) |-> Put(os, i, b)[j]]
  BY DEF Put
<1> QED BY <1>1, <1>2 DEF WaitsWith, IsMap

\* What the assemblies are when one receives a chunk.
LEMMA FrameChanged ==
    ASSUME NEW fs, IsMap(fs, Ids, Assemblies), NEW i, i \in DOMAIN fs, NEW c, c \in ChunkMaps
    PROVE  /\ With([fs EXCEPT ![i].chunks = c], fs, i, [fs[i] EXCEPT !.chunks = c])
           /\ [fs[i] EXCEPT !.chunks = c] \in Assemblies /\ [fs[i] EXCEPT !.chunks = c].chunks = c
           /\ [fs[i] EXCEPT !.chunks = c].count = fs[i].count /\ [fs[i] EXCEPT !.chunks = c].key = fs[i].key
           /\ [fs[i] EXCEPT !.chunks = c].origin = fs[i].origin /\ [fs[i] EXCEPT !.chunks = c].age = fs[i].age
<1> DEFINE b == [fs[i] EXCEPT !.chunks = c]
           gs == [fs EXCEPT ![i].chunks = c]
<1>1. fs[i] \in Assemblies /\ DOMAIN fs \subseteq Ids /\ \A j \in DOMAIN fs : fs[j] \in Assemblies
  BY DEF IsMap
<1>2. /\ b \in Assemblies /\ b.chunks = c /\ b.count = fs[i].count /\ b.key = fs[i].key
      /\ b.origin = fs[i].origin /\ b.age = fs[i].age
  BY <1>1 DEF Assemblies
<1>3. /\ DOMAIN gs = DOMAIN fs /\ gs = [j \in DOMAIN gs |-> gs[j]]
      /\ gs[i] = b /\ \A j \in DOMAIN fs \ {i} : gs[j] = fs[j]
  OBVIOUS
<1> HIDE DEF b, gs
<1>4. IsMap(gs, Ids, Assemblies)
  BY <1>1, <1>2, <1>3 DEF IsMap
<1>5. With(gs, fs, i, b)
  BY <1>3, <1>4 DEF With
<1> QED BY <1>2, <1>5 DEF b, gs

\* FrameAssembler::push_chunk keeps the invariant.
LEMMA PushChunkKeeps ==
    ASSUME TransportInv, NEW d \in air, air' = air \ {d}, UNCHANGED <<tx, origins>>,
           d.kind = "chunk", PushChunk(d)
    PROVE  TransportInv'
<1>1. PICK young : young = Young(frames)
  OBVIOUS
<1>2. PICK waiting : waiting = Young(orphans)
  OBVIOUS
<1>3. Remains(young, d) /\ Waits(waiting)
  BY <1>1, <1>2, YoungRemains
<1>4. PICK got : got = outcome.got \cup {d}
  OBVIOUS
<1> DEFINE mine == [j \in {d.index} |-> d.origin]
           more == [young EXCEPT ![d.id].chunks = AdmitChunks(young[d.id].chunks, mine, young[d.id].count)]
           late == [chunks |-> AdmitChunks(AdoptedChunks(d.id, waiting), mine, MaxChunks),
                    age |-> AdoptedAge(d.id, waiting)]
<1>5. /\ UNCHANGED <<expected, lost, audioRx>>
      /\ d.id \in DOMAIN young => Deliver(d, more, waiting)
      /\ d.id \notin DOMAIN young /\ d.id \notin DOMAIN waiting /\ Cardinality(DOMAIN waiting) >= MaxOrphans
            => Deliver(d, young, waiting)
      /\ d.id \notin DOMAIN young /\ (d.id \in DOMAIN waiting \/ ~(Cardinality(DOMAIN waiting) >= MaxOrphans))
            => Deliver(d, young, Put(waiting, d.id, late))
  BY <1>1, <1>2 DEF PushChunk
<1> HIDE DEF mine, more, late
<1>6. expected' \in Ids \cup {-1} /\ lost' \in Nat /\ LossAhead'
  BY <1>5 DEF TransportInv, TransportTypes, LossAhead, Videos, OfKind
<1>7. d.kind # "audio"
  OBVIOUS
<1>8. CASE d.id \in DOMAIN young
  <2>1. PICK fs : fs = more
    OBVIOUS
  <2>2. Deliver(d, fs, waiting)
    BY <1>5, <1>8, <2>1
  <2>3. Arrives(d)
    BY <2>2, DeliverArrives
  <2>4. PICK a : a = young[d.id]
    OBVIOUS
  <2>5. /\ a \in Assemblies /\ FrameFits(d.id, a, got)
    <3>1. Assembling(young, waiting, got)
      BY <1>3, <1>4, <2>3, RemainsFits
    <3> QED BY <1>3, <1>8, <2>4, <3>1 DEF Remains, IsMap, Assembling
  <2>6. a.origin = d.origin /\ a.count = d.count /\ a.count \in Nat
    BY <2>3, <2>5, ReceivesVideo, OneOfAKind DEF FrameFits, TransportInv, Assemblies
  <2>7. a.chunks \in ChunkMaps /\ PartialOf(a.chunks, d.origin, "chunk", got) /\ d.count <= a.count
    BY <2>5, <2>6 DEF FrameFits, Assemblies
  <2>8. PICK m \in ChunkMaps :
          /\ m = [j \in {d.index} |-> d.origin]
          /\ Admits(AdmitChunks(a.chunks, m, a.count), a.chunks, d.origin, "chunk", got, d.index)
    BY <1>4, <2>3, <2>6, <2>7, OneMore
  <2>9. PICK c \in ChunkMaps : c = AdmitChunks(a.chunks, m, a.count)
    BY <2>8 DEF Admits
  <2>10. fs = [young EXCEPT ![d.id].chunks = c]
    BY <2>1, <2>4, <2>8, <2>9 DEF more, mine
  <2>11. PICK b : b = [young[d.id] EXCEPT !.chunks = c]
    OBVIOUS
  <2>12. /\ With(fs, young, d.id, b) /\ b \in Assemblies /\ b.chunks = c /\ b.count = a.count /\ b.key = a.key
         /\ b.origin = a.origin /\ b.age = a.age
    <3>1. IsMap(young, Ids, Assemblies) /\ c \in ChunkMaps
      BY <1>3, <2>9 DEF Remains
    <3>2. PICK i : i = d.id
      OBVIOUS
    <3>3. /\ With([young EXCEPT ![i].chunks = c], young, i, [young[i] EXCEPT !.chunks = c])
          /\ [young[i] EXCEPT !.chunks = c] \in Assemblies /\ [young[i] EXCEPT !.chunks = c].chunks = c
          /\ [young[i] EXCEPT !.chunks = c].count = young[i].count
          /\ [young[i] EXCEPT !.chunks = c].key = young[i].key
          /\ [young[i] EXCEPT !.chunks = c].origin = young[i].origin
          /\ [young[i] EXCEPT !.chunks = c].age = young[i].age
      BY <1>8, <3>1, <3>2, FrameChanged
    <3>4. fs = [young EXCEPT ![i].chunks = c] /\ b = [young[i] EXCEPT !.chunks = c] /\ a = young[i]
      BY <2>4, <2>10, <2>11, <3>2
    <3> QED BY <3>2, <3>3, <3>4
  <2>13. Keeps(young[d.id], b)
    BY <2>4, <2>8, <2>9, <2>12 DEF Keeps, Admits
  <2>14. /\ PartialOf(b.chunks, d.origin, "chunk", outcome.got \cup {d})
         /\ d.index \in DOMAIN b.chunks /\ b.chunks[d.index] = d.origin
    BY <1>4, <2>8, <2>9, <2>12 DEF Admits
  <2>15. Delivering(d, fs, waiting)
    BY <1>3, <1>8, <2>3, <2>4, <2>12, <2>13, <2>14, ChunkJoins
  <2> QED BY <1>5, <1>6, <1>7, <2>2, <2>3, <2>15, DeliverKeeps
<1>9. CASE d.id \notin DOMAIN young /\ d.id \notin DOMAIN waiting /\ Cardinality(DOMAIN waiting) >= MaxOrphans
  <2>1. Deliver(d, young, waiting)
    BY <1>5, <1>9
  <2>2. Arrives(d)
    BY <2>1, DeliverArrives
  <2>3. Delivering(d, young, waiting)
    BY <1>3, <1>9, <2>2, ChunkRefused
  <2> QED BY <1>5, <1>6, <1>7, <2>1, <2>2, <2>3, DeliverKeeps
<1>10. CASE d.id \notin DOMAIN young /\ (d.id \in DOMAIN waiting \/ ~(Cardinality(DOMAIN waiting) >= MaxOrphans))
  <2>1. PICK b : b = late
    OBVIOUS
  <2>2. PICK os : os = Put(waiting, d.id, b)
    OBVIOUS
  <2>3. Deliver(d, young, os)
    BY <1>5, <1>10, <2>1, <2>2
  <2>4. Arrives(d)
    BY <2>3, DeliverArrives
  <2>5. PICK have : have = AdoptedChunks(d.id, waiting)
    OBVIOUS
  <2>6. PICK age : age = AdoptedAge(d.id, waiting)
    OBVIOUS
  <2>7. /\ have \in ChunkMaps /\ PartialOf(have, d.origin, "chunk", got)
        /\ age \in 0 .. AssemblyTimeout /\ (age > 0 => outcome.late)
        /\ (d.id \in DOMAIN waiting => have = waiting[d.id].chunks)
    BY <1>3, <1>4, <2>4, <2>5, <2>6, AdoptedFits
  <2>8. MaxChunks \in Nat /\ d.count <= MaxChunks
    BY <2>4, ReceivesVideo, TransportNumbers
  <2>9. PICK m \in ChunkMaps :
          /\ m = [j \in {d.index} |-> d.origin]
          /\ Admits(AdmitChunks(have, m, MaxChunks), have, d.origin, "chunk", got, d.index)
    BY <1>4, <2>4, <2>7, <2>8, OneMore
  <2>10. PICK c \in ChunkMaps : c = AdmitChunks(have, m, MaxChunks)
    BY <2>9 DEF Admits
  <2>11. b = [chunks |-> c, age |-> age]
    BY <2>1, <2>5, <2>6, <2>9, <2>10 DEF late, mine
  <2>12. b \in Waiting /\ b.chunks = c /\ b.age = age
    BY <2>7, <2>10, <2>11 DEF Waiting
  <2>13. d.id \in DOMAIN waiting => Keeps(waiting[d.id], b)
    BY <2>7, <2>9, <2>10, <2>12 DEF Keeps, Admits
  <2>14. /\ PartialOf(b.chunks, d.origin, "chunk", outcome.got \cup {d})
         /\ d.index \in DOMAIN b.chunks /\ b.chunks[d.index] = d.origin
    BY <1>4, <2>9, <2>10, <2>12 DEF Admits
  <2>15. /\ IsMap(os, Ids, Waiting) /\ DOMAIN os = DOMAIN waiting \cup {d.id} /\ os[d.id] = b
         /\ \A i \in DOMAIN waiting \ {d.id} : os[i] = waiting[i]
    <3>1. IsMap(waiting, Ids, Waiting) /\ d.id \in Ids
      BY <1>3, <2>4, ReceivesVideo DEF Waits
    <3>2. PICK i \in Ids : i = d.id
      BY <3>1
    <3>3. WaitsWith(Put(waiting, i, b), waiting, i, b)
      BY <2>12, <3>1, <3>2, WaitingWith
    <3> QED BY <2>2, <3>2, <3>3 DEF WaitsWith
  <2>16. d.id \in DOMAIN waiting \/ Cardinality(DOMAIN waiting) < MaxOrphans
    <3>1. Cardinality(DOMAIN waiting) \in Nat
      BY <1>3, <1>4, <2>4, RemainsFits
    <3> QED BY <1>10, <3>1, TransportNumbers
  <2>17. Delivering(d, young, os)
    BY <1>3, <1>10, <2>4, <2>7, <2>12, <2>13, <2>14, <2>15, <2>16, ChunkWaits
  <2> QED BY <1>5, <1>6, <1>7, <2>3, <2>4, <2>17, DeliverKeeps
<1> QED BY <1>8, <1>9, <1>10

(***************************************************************************)
(* AudioFragmentReassembler.                                               *)
(***************************************************************************)
\* An audio fragment that arrives was cut from the block whose identifier it carries.
LEMMA ReceivesAudio ==
    ASSUME NEW d, Arrives(d), d.kind = "audio"
    PROVE  /\ d.origin \in OfKind("audio") /\ origins[d.origin].id = d.id /\ d.id \in Ids /\ d.id \in Nat
           /\ origins[d.origin].count = d.count /\ d.count \in 0 .. MaxChunks /\ d.count # 0
           /\ d.origin \in 1 .. MaxFrames /\ d.origin \in DOMAIN origins /\ origins[d.origin].kind = "audio"
           /\ d = Cut(d.origin, "audio", d.index) /\ d.index \in 0 .. d.count - 1
           /\ d.index \in 0 .. MaxChunks - 1 /\ d.index < d.count /\ d.count \in Nat
<1>1. TransportTypes /\ IdsInOrder /\ d.origin \in DOMAIN origins /\ d \in Cuts(d.origin)
  BY OnceReceived DEF Arrives, TransportInv
<1>2. /\ d.origin \in OfKind("audio") /\ origins[d.origin].id = d.id /\ d.id \in Ids
      /\ origins[d.origin].count = d.count /\ d.count \in 0 .. MaxChunks
      /\ d.origin \in 1 .. MaxFrames
      /\ d = Cut(d.origin, "audio", d.index) /\ d.index \in 0 .. d.count - 1
  BY <1>1, CutFields
<1>3. d.count # 0 /\ origins[d.origin].kind = "audio"
  BY <1>1, <1>2 DEF IdsInOrder, OfKind
<1>4. d.id \in Nat /\ d.index \in 0 .. MaxChunks - 1 /\ d.index < d.count /\ d.count \in Nat
  BY <1>2, TransportNumbers DEF Ids
<1> QED BY <1>1, <1>2, <1>3, <1>4

(* Audio identifiers are given in order. *)
LEMMA BlocksInOrder ==
    ASSUME TransportTypes, IdsInOrder, NEW o \in OfKind("audio"), NEW p \in OfKind("audio")
    PROVE  /\ o \in DOMAIN origins /\ o \in Nat /\ p \in Nat /\ origins[o].id \in Nat /\ origins[p].id \in Nat
           /\ origins[o].id < origins[p].id => o < p
           /\ origins[o].id = origins[p].id => o = p
<1>1. o \in DOMAIN origins /\ p \in DOMAIN origins /\ o \in Nat /\ p \in Nat
  BY VideosCounted DEF OfKind
<1>2. origins[o].id \in Nat /\ origins[p].id \in Nat
  BY <1>1, VideosCounted DEF SentRecords, Ids
<1>3. (o < p => origins[o].id < origins[p].id) /\ (p < o => origins[p].id < origins[o].id)
  BY DEF IdsInOrder
<1> QED BY <1>1, <1>2, <1>3

(* Nothing of the frames changes with a block of audio. *)
LEMMA FramesUntouched ==
    ASSUME NEW d, Arrives(d), UNCHANGED <<frames, orphans>>
    PROVE  Assembled'
<1>1. PICK got : got = outcome.got \cup {d}
  OBVIOUS
<1>2. outcome'.got = got /\ origins' = origins /\ outcome'.late = outcome.late
  BY <1>1 DEF Arrives
<1>3. \A i \in DOMAIN frames' : FrameFits(i, frames[i], outcome.got)'
  <2>1. \A i \in DOMAIN frames : FrameFits(i, frames[i], got)
    BY <1>1, HeldFits
  <2> QED BY <1>2, <2>1 DEF FrameFits, PartialOf, Cut, Videos, OfKind
<1>4. \A i \in DOMAIN orphans' : OrphanFits(i, orphans[i], outcome.got)'
  <2>1. \A i \in DOMAIN orphans : OrphanFits(i, orphans[i], got)
    BY <1>1, HeldFits
  <2> QED BY <1>2, <2>1 DEF OrphanFits, PartialOf, Cut, Videos, OfKind
<1> QED BY <1>2, <1>3, <1>4 DEF Arrives, TransportInv, Assembled, Assembling, AgedIsLate, Complete

(* What is pending is the audio of one block, the newest. *)
PendingFits(m, got) ==
    \A i \in DOMAIN m : \E o \in OfKind("audio") :
        /\ origins[o].id = i /\ PartialOf(m[i], o, "audio", got)
        /\ Cardinality(DOMAIN m[i]) # origins[o].count /\ DOMAIN m[i] # {}

\* What AudioFragmentReassembler holds when a fragment arrives.
LEMMA PendingIs ==
    ASSUME NEW d, Arrives(d)
    PROVE  /\ IsMap(audioRx.pending, Ids, ChunkMaps) /\ DOMAIN audioRx.pending \subseteq {audioRx.newest}
           /\ PendingFits(audioRx.pending, outcome.got \cup {d})
           /\ audioRx.newest \in Int /\ audioRx.newest >= -1
           /\ audioRx.newest # -1 => \E x \in outcome.got : x.kind = "audio" /\ x.id = audioRx.newest
           /\ \A o \in Shown : origins[o].kind = "audio" => origins[o].id <= audioRx.newest
<1>1. PICK got : got = outcome.got \cup {d}
  OBVIOUS
<1>2. AudioPending /\ TransportTypes /\ outcome.got \subseteq got
  BY <1>1 DEF Arrives, TransportInv
<1>3. PendingFits(audioRx.pending, got)
  <2>1. SUFFICES ASSUME NEW i \in DOMAIN audioRx.pending
                 PROVE  \E o \in OfKind("audio") :
                          /\ origins[o].id = i /\ PartialOf(audioRx.pending[i], o, "audio", got)
                          /\ Cardinality(DOMAIN audioRx.pending[i]) # origins[o].count
                          /\ DOMAIN audioRx.pending[i] # {}
    BY DEF PendingFits
  <2>2. PICK o \in OfKind("audio") :
          /\ origins[o].id = i /\ PartialOf(audioRx.pending[i], o, "audio", outcome.got)
          /\ Cardinality(DOMAIN audioRx.pending[i]) # origins[o].count
          /\ DOMAIN audioRx.pending[i] # {}
    BY <1>2 DEF AudioPending
  <2> QED BY <1>2, <2>2 DEF PartialOf
<1>4. audioRx.newest \in Int /\ audioRx.newest >= -1
  <2>1. audioRx.newest \in Ids \cup {-1}
    BY <1>2 DEF TransportTypes
  <2> QED BY <2>1, TransportNumbers DEF Ids
<1>5. IsMap(audioRx.pending, Ids, ChunkMaps)
  BY <1>2 DEF TransportTypes
<1> QED BY <1>1, <1>2, <1>3, <1>4, <1>5 DEF AudioPending

(* An older block than the newest is discarded: the newer one has arrived. *)
LEMMA OlderBlock ==
    ASSUME NEW d, Arrives(d), d.kind = "audio", d.id < audioRx.newest
    PROVE  CauseIn(outcome.got \cup {d}, d.origin)
<1>1. /\ d.origin \in OfKind("audio") /\ origins[d.origin].id = d.id /\ d.id \in Nat
      /\ origins[d.origin].kind = "audio"
  BY ReceivesAudio
<1>2. PICK x \in outcome.got : x.kind = "audio" /\ x.id = audioRx.newest
  <2>1. audioRx.newest \in Int
    BY PendingIs
  <2>2. audioRx.newest # -1
    BY <1>1, <2>1
  <2> QED BY <2>2, PendingIs
<1>3. TransportTypes /\ IdsInOrder /\ x.origin \in DOMAIN origins /\ x \in Cuts(x.origin)
  BY OnceReceived DEF Arrives, TransportInv
<1>4. x.origin \in OfKind("audio") /\ origins[x.origin].id = x.id
  BY <1>2, <1>3, CutFields
<1>5. d.origin < x.origin /\ d.origin \in Nat /\ x.origin \in Nat
  BY <1>1, <1>2, <1>3, <1>4, BlocksInOrder
<1>6. x.origin > d.origin
  BY <1>5
<1> QED BY <1>1, <1>2, <1>6 DEF CauseIn


(* What is left of the pending audio once older blocks are gone. *)
LeftOf(left, gone, d) ==
    /\ IsMap(left, Ids, ChunkMaps) /\ DOMAIN left \subseteq DOMAIN audioRx.pending
    /\ DOMAIN left \subseteq {d.id} /\ \A i \in DOMAIN left : left[i] = audioRx.pending[i]
    /\ gone = UNION {Range(audioRx.pending[i]) : i \in DOMAIN audioRx.pending \ DOMAIN left}
    /\ \A o \in gone : o \in DOMAIN origins /\ CauseIn(outcome.got \cup {d}, o)
    /\ \A i \in DOMAIN audioRx.pending : i # d.id => i \notin DOMAIN left
    /\ d.id \in DOMAIN audioRx.pending => d.id \in DOMAIN left

\* What is left pending when a newer block discards the older one.
LEMMA LeftIs ==
    ASSUME NEW d, Arrives(d), d.kind = "audio", ~(d.id < audioRx.newest),
           NEW left, left = IF d.id > audioRx.newest
                            THEN Restrict(audioRx.pending, {i \in DOMAIN audioRx.pending : i >= d.id})
                            ELSE audioRx.pending,
           NEW gone, gone = UNION {Range(audioRx.pending[i]) : i \in DOMAIN audioRx.pending \ DOMAIN left}
    PROVE  LeftOf(left, gone, d)
<1>1. /\ d.origin \in OfKind("audio") /\ origins[d.origin].id = d.id /\ d.id \in Nat
      /\ origins[d.origin].kind = "audio"
  BY ReceivesAudio
<1>2. /\ IsMap(audioRx.pending, Ids, ChunkMaps) /\ DOMAIN audioRx.pending \subseteq {audioRx.newest}
      /\ PendingFits(audioRx.pending, outcome.got \cup {d}) /\ audioRx.newest \in Int
  BY PendingIs
<1>3. PICK ps : ps = audioRx.pending
  OBVIOUS
<1>4. CASE d.id > audioRx.newest
  <2>1. PICK X \in SUBSET (DOMAIN ps) : X = {i \in DOMAIN ps : i >= d.id}
    OBVIOUS
  <2>2. left = Restrict(ps, X)
    BY <1>3, <1>4, <2>1
  <2>3. IsMap(Restrict(ps, X), Ids, ChunkMaps) /\ DOMAIN Restrict(ps, X) = X
    BY <1>2, <1>3, <2>1, RestrictMap
  <2>4. X = {}
    BY <1>1, <1>2, <1>3, <1>4, <2>1
  <2>5. IsMap(left, Ids, ChunkMaps) /\ DOMAIN left = {}
    BY <2>2, <2>3, <2>4
  <2>6. d.id \notin DOMAIN audioRx.pending
    BY <1>1, <1>2, <1>4
  <2>7. ASSUME NEW o \in gone PROVE o \in DOMAIN origins /\ CauseIn(outcome.got \cup {d}, o)
    <3>1. PICK i \in DOMAIN audioRx.pending : o \in Range(audioRx.pending[i])
      BY <2>7
    <3>2. PICK p \in OfKind("audio") : origins[p].id = i
                                       /\ PartialOf(audioRx.pending[i], p, "audio", outcome.got \cup {d})
      BY <1>2, <3>1 DEF PendingFits
    <3>3. o = p
      BY <3>1, <3>2 DEF Range, PartialOf
    <3>4. TransportTypes /\ IdsInOrder /\ i = audioRx.newest /\ origins[p].id < origins[d.origin].id
      BY <1>1, <1>2, <1>4, <3>1, <3>2 DEF Arrives, TransportInv
    <3>5. p < d.origin /\ p \in Nat /\ d.origin \in Nat /\ p \in DOMAIN origins /\ origins[p].kind = "audio"
      BY <1>1, <3>2, <3>4, BlocksInOrder DEF OfKind
    <3>6. d.origin > p
      BY <3>5
    <3> QED BY <3>3, <3>5, <3>6 DEF CauseIn
  <2> QED BY <2>5, <2>6, <2>7 DEF LeftOf
<1>5. CASE ~(d.id > audioRx.newest)
  <2>1. left = audioRx.pending /\ d.id = audioRx.newest
    BY <1>1, <1>2, <1>5
  <2>2. gone = {}
    BY <2>1
  <2> QED BY <1>2, <2>1, <2>2 DEF LeftOf
<1> QED BY <1>4, <1>5

(* The chunks of the block at hand, the one that came among them. *)
LEMMA BlockParts ==
    ASSUME NEW d, Arrives(d), d.kind = "audio", NEW left, NEW gone, LeftOf(left, gone, d), NEW have,
           d.id \in DOMAIN left => have = left[d.id], d.id \notin DOMAIN left => have = NoIds
    PROVE  \E m \in ChunkMaps :
             /\ m = [j \in {d.index} |-> d.origin]
             /\ Admits(AdmitChunks(have, m, d.count), have, d.origin, "audio", outcome.got \cup {d}, d.index)
<1>1. PICK got : got = outcome.got \cup {d}
  OBVIOUS
<1>2. /\ d.origin \in OfKind("audio") /\ origins[d.origin].id = d.id /\ d.id \in Ids
      /\ origins[d.origin].count = d.count /\ d.origin \in 1 .. MaxFrames
      /\ d = Cut(d.origin, "audio", d.index) /\ d.index \in 0 .. d.count - 1
      /\ d.index \in 0 .. MaxChunks - 1 /\ d.index < d.count /\ d.count \in Nat
  BY ReceivesAudio
<1>3. have \in ChunkMaps /\ PartialOf(have, d.origin, "audio", got)
  <2>1. CASE d.id \in DOMAIN left
    <3>1. /\ d.id \in DOMAIN audioRx.pending /\ have = audioRx.pending[d.id] /\ have \in ChunkMaps
      BY <2>1 DEF LeftOf, IsMap
    <3>2. PendingFits(audioRx.pending, got)
      BY <1>1, PendingIs
    <3>3. PICK o \in OfKind("audio") : origins[o].id = d.id /\ PartialOf(have, o, "audio", got)
      BY <3>1, <3>2 DEF PendingFits
    <3>4. o = d.origin
      BY <1>2, <3>3, BlocksInOrder DEF Arrives, TransportInv
    <3> QED BY <3>1, <3>3, <3>4
  <2>2. CASE d.id \notin DOMAIN left
    <3>1. have = NoIds
      BY <2>2
    <3> QED BY <3>1, NoChunks DEF PartialOf
  <2> QED BY <2>1, <2>2
<1>4. PICK k \in 0 .. MaxChunks - 1, o \in 1 .. MaxFrames : k = d.index /\ o = d.origin
  BY <1>2
<1>5. PICK m \in ChunkMaps : m = [j \in {k} |-> o] /\ DOMAIN m = {k} /\ m[k] = o
  BY OneChunk
<1>6. PICK n \in Nat : n = d.count
  BY <1>2
<1>7. Cut(o, "audio", k) \in got /\ k \in 0 .. origins[o].count - 1 /\ k < n /\ PartialOf(have, o, "audio", got)
  BY <1>1, <1>2, <1>3, <1>4, <1>6
<1>8. Admits(AdmitChunks(have, m, n), have, o, "audio", got, k)
  BY <1>3, <1>4, <1>5, <1>6, <1>7, ChunkAdmitted
<1> QED BY <1>1, <1>4, <1>5, <1>6, <1>8

\* A complete block holds exactly the fragments of the block that was sent.
LEMMA BlockWhole ==
    ASSUME NEW d, Arrives(d), d.kind = "audio", NEW have, NEW parts,
           Admits(parts, have, d.origin, "audio", outcome.got \cup {d}, d.index),
           Cardinality(DOMAIN parts) = d.count
    PROVE  /\ parts = [i \in 0 .. origins[d.origin].count - 1 |-> d.origin]
           /\ Cuts(d.origin) \subseteq outcome.got \cup {d}
<1>1. /\ origins[d.origin].count = d.count /\ d.count \in Nat /\ origins[d.origin].kind = "audio"
  BY ReceivesAudio
<1>2. PICK a : a = [count |-> d.count, chunks |-> parts]
  OBVIOUS
<1>3. a.count = d.count /\ a.chunks = parts
  BY <1>2
<1>4. parts \in ChunkMaps /\ DOMAIN parts \subseteq 0 .. d.count - 1
      /\ \A j \in DOMAIN parts : parts[j] = d.origin /\ Cut(d.origin, "audio", j) \in outcome.got \cup {d}
  BY <1>1 DEF Admits, PartialOf
<1>5. DOMAIN parts = 0 .. d.count - 1
  BY <1>1, <1>3, <1>4, CompleteIsAll DEF Complete
<1>6. parts = [j \in DOMAIN parts |-> parts[j]]
  BY <1>4 DEF ChunkMaps
<1>7. parts = [i \in 0 .. d.count - 1 |-> d.origin]
  BY <1>4, <1>5, <1>6
<1>8. Cuts(d.origin) \subseteq outcome.got \cup {d}
  BY <1>1, <1>4, <1>5 DEF Cuts
<1> QED BY <1>1, <1>7, <1>8

(* What is pending once a block is complete, or has one more chunk. *)
PendsOne(P, left, d, parts) ==
    /\ IsMap(P, Ids, ChunkMaps) /\ DOMAIN P = DOMAIN left \cup {d.id} /\ P[d.id] = parts
PendsNone(P) == IsMap(P, Ids, ChunkMaps) /\ DOMAIN P = {}

\* What is pending when the block in progress is put in.
LEMMA PendingPut ==
    ASSUME NEW left, IsMap(left, Ids, ChunkMaps), NEW d, d.id \in Ids, NEW parts, parts \in ChunkMaps
    PROVE  PendsOne(Put(left, d.id, parts), left, d, parts)
<1>1. DOMAIN Put(left, d.id, parts) = DOMAIN left \cup {d.id}
      /\ \A j \in DOMAIN left \cup {d.id} : Put(left, d.id, parts)[j] = IF j = d.id THEN parts ELSE left[j]
  BY DEF Put
<1>2. Put(left, d.id, parts) = [j \in DOMAIN Put(left, d.id, parts) |-> Put(left, d.id, parts)[j]]
  BY DEF Put
<1> QED BY <1>1, <1>2 DEF PendsOne, IsMap

\* Nothing is pending when the block in progress was handed out.
LEMMA PendingDropped ==
    ASSUME NEW left, IsMap(left, Ids, ChunkMaps), NEW d, DOMAIN left \subseteq {d.id}
    PROVE  PendsNone(Drop(left, {d.id}))
<1>1. PICK X : X = {d.id}
  OBVIOUS
<1>2. IsMap(Drop(left, X), Ids, ChunkMaps) /\ DOMAIN Drop(left, X) = DOMAIN left \ X
  BY DropMap
<1>3. DOMAIN left \ X = {}
  BY <1>1
<1>4. PendsNone(Drop(left, X))
  BY <1>2, <1>3 DEF PendsNone
<1> QED BY <1>1, <1>4

(* A block at hand: complete, and delivered, or one chunk further. *)
BlockStep(d, left, gone, have, parts, shown) ==
    /\ LeftOf(left, gone, d)
    /\ (d.id \in DOMAIN left => have = left[d.id])
    /\ Admits(parts, have, d.origin, "audio", outcome.got \cup {d}, d.index)
    /\ audioRx'.newest = d.id /\ audioRx' = [newest |-> audioRx'.newest, pending |-> audioRx'.pending]
    /\ IF Cardinality(DOMAIN parts) = d.count
       THEN PendsNone(audioRx'.pending) /\ shown = Append(outcome.shown, [origin |-> d.origin, parts |-> parts])
       ELSE PendsOne(audioRx'.pending, left, d, parts) /\ shown = outcome.shown
    /\ outcome' = [outcome EXCEPT !.got = outcome.got \cup {d}, !.shown = shown, !.dropped = outcome.dropped \cup gone]

\* A fragment of the newest block keeps the invariant, whether it completes the block or not.
LEMMA BlockKeeps ==
    ASSUME NEW d, Arrives(d), d.kind = "audio", ~(d.id < audioRx.newest),
           UNCHANGED <<frames, orphans, expected, lost>>,
           NEW left, NEW gone, NEW have, NEW parts, NEW shown, BlockStep(d, left, gone, have, parts, shown)
    PROVE  TransportInv'
<1> DEFINE whole == Cardinality(DOMAIN parts) = d.count
<1>1. /\ d.origin \in OfKind("audio") /\ origins[d.origin].id = d.id /\ d.id \in Ids /\ d.id \in Nat
      /\ origins[d.origin].count = d.count /\ d.origin \in 1 .. MaxFrames /\ d.origin \in Nat
      /\ d.origin \in DOMAIN origins /\ origins[d.origin].kind = "audio"
  BY ReceivesAudio
<1>2. /\ TransportTypes /\ IdsInOrder /\ outcome \in Outcomes /\ origins' = origins /\ d \in Datagrams
      /\ outcome'.got = outcome.got \cup {d}
  BY OnceReceived DEF Arrives, TransportInv, TransportTypes
<1>3. LeftOf(left, gone, d) /\ Admits(parts, have, d.origin, "audio", outcome.got \cup {d}, d.index)
      /\ (d.id \in DOMAIN left => have = left[d.id])
  BY DEF BlockStep
<1>4. whole => /\ parts = [i \in 0 .. origins[d.origin].count - 1 |-> d.origin]
               /\ Cuts(d.origin) \subseteq outcome.got \cup {d}
  BY <1>3, BlockWhole
<1>5. parts \in ChunkMaps
  BY <1>3 DEF Admits
<1>6. /\ audioRx'.newest = d.id /\ audioRx' = [newest |-> audioRx'.newest, pending |-> audioRx'.pending]
      /\ (whole => PendsNone(audioRx'.pending)
                   /\ shown = Append(outcome.shown, [origin |-> d.origin, parts |-> parts]))
      /\ (~whole => PendsOne(audioRx'.pending, left, d, parts) /\ shown = outcome.shown)
      /\ outcome' = [outcome EXCEPT !.got = outcome.got \cup {d}, !.shown = shown,
                                    !.dropped = outcome.dropped \cup gone]
  BY DEF BlockStep
<1> HIDE DEF whole
<1>7. shown \in Seq([origin : Nat, parts : ChunkMaps])
  <2>1. outcome.shown \in Seq([origin : Nat, parts : ChunkMaps])
    BY <1>2 DEF Outcomes
  <2>2. [origin |-> d.origin, parts |-> parts] \in [origin : Nat, parts : ChunkMaps]
    BY <1>1, <1>5
  <2>3. PICK new \in [origin : Nat, parts : ChunkMaps] : new = [origin |-> d.origin, parts |-> parts]
    BY <2>2
  <2>4. Append(outcome.shown, new) \in Seq([origin : Nat, parts : ChunkMaps])
    BY <2>1, AppendProperties
  <2> QED BY <1>6, <2>1, <2>3, <2>4
<1>8. /\ outcome' \in Outcomes /\ outcome'.got = outcome.got \cup {d} /\ outcome'.shown = shown
      /\ outcome'.dropped = outcome.dropped \cup gone /\ outcome'.late = outcome.late
  <2>1. outcome.got \cup {d} \in SUBSET Datagrams /\ outcome.dropped \cup gone \in SUBSET Nat
    <3>1. DOMAIN origins \subseteq Nat
      BY <1>2, VideosCounted
    <3> QED BY <1>2, <1>3, <3>1 DEF Outcomes, LeftOf
  <2>2. PICK g \in SUBSET Datagrams : g = outcome.got \cup {d}
    BY <2>1
  <2>3. PICK r \in SUBSET Nat : r = outcome.dropped \cup gone
    BY <2>1
  <2>4. PICK s \in Seq([origin : Nat, parts : ChunkMaps]) : s = shown
    BY <1>7
  <2>5. outcome' = [outcome EXCEPT !.got = g, !.shown = s, !.dropped = r]
    BY <1>6, <2>2, <2>3, <2>4
  <2>6. /\ outcome' \in Outcomes /\ outcome'.got = g /\ outcome'.shown = s
        /\ outcome'.dropped = r /\ outcome'.late = outcome.late
    BY <1>2, <2>5, OutcomeIs
  <2> QED BY <2>2, <2>3, <2>4, <2>6
<1>9. \A o \in Shown : origins[o].kind = "audio" => origins[o].id <= d.id /\ origins[o].id \in Nat
  <2>1. SUFFICES ASSUME NEW o \in Shown, origins[o].kind = "audio"
                 PROVE  origins[o].id <= d.id /\ origins[o].id \in Nat
    OBVIOUS
  <2>2. origins[o].id <= audioRx.newest /\ audioRx.newest \in Int
    BY <2>1, PendingIs
  <2>3. o \in OfKind("audio")
    BY <2>1 DEF Arrives, TransportInv, ShownArrived, OfKind
  <2>4. origins[o].id \in Nat
    BY <1>1, <1>2, <2>3, BlocksInOrder
  <2> QED BY <1>1, <2>2, <2>4
<1>10. /\ ShownArrived' /\ DeliveredAsSent' /\ AudioInOrder'
       /\ Shown' = IF whole THEN Shown \cup {d.origin} ELSE Shown
  <2>1. CASE whole
    <3>1. outcome'.shown = Append(outcome.shown, [origin |-> d.origin, parts |-> parts])
      BY <1>6, <1>8, <2>1
    <3>2. \A o \in Shown : origins[o].kind = "audio" => origins[o].id <= origins[d.origin].id
      BY <1>1, <1>9
    <3> QED BY <1>4, <1>5, <2>1, <3>1, <3>2, ShowOne
  <2>2. CASE ~whole
    BY <1>6, <1>8, <2>2, ShowNone
  <2> QED BY <2>1, <2>2
<1>11. IsMap(audioRx'.pending, Ids, ChunkMaps) /\ DOMAIN audioRx'.pending \subseteq {d.id}
  BY <1>3, <1>6 DEF PendsNone, PendsOne, LeftOf
<1>12. TransportTypes'
  <2>1. tx' = tx /\ air' \subseteq Datagrams
    BY OnceReceived DEF Arrives
  <2> QED BY <1>1, <1>2, <1>6, <1>8, <1>11, <2>1 DEF TransportTypes
<1>13. DiscardedForCause' /\ DroppedSent'
  <2>1. \A o \in gone : o \in DOMAIN origins /\ CauseIn(outcome.got \cup {d}, o)
    BY <1>3 DEF LeftOf
  <2>2. outcome'.dropped \subseteq outcome.dropped \cup gone
    BY <1>8
  <2> QED BY <1>12, <2>1, <2>2, DropSome
<1>14. Assembled'
  BY FramesUntouched
<1>15. AudioPending'
  <2>1. \E x \in outcome'.got : x.kind = "audio" /\ x.id = audioRx'.newest
    BY <1>6, <1>8
  <2>2. ASSUME NEW i \in DOMAIN audioRx'.pending
        PROVE  \E o \in OfKind("audio")' :
                 /\ origins'[o].id = i /\ PartialOf(audioRx.pending[i], o, "audio", outcome.got)'
                 /\ Cardinality(DOMAIN audioRx'.pending[i]) # origins'[o].count
                 /\ DOMAIN audioRx'.pending[i] # {}
    <3>1. ~whole /\ i = d.id /\ audioRx'.pending[i] = parts
      BY <1>6, <1>11, <2>2 DEF PendsNone, PendsOne
    <3>2. PartialOf(parts, d.origin, "audio", outcome'.got) /\ DOMAIN parts # {}
      BY <1>3, <1>8 DEF Admits
    <3>3. PartialOf(audioRx.pending[i], d.origin, "audio", outcome.got)'
      BY <1>2, <3>1, <3>2 DEF PartialOf, Cut
    <3>4. d.origin \in OfKind("audio")'
      BY <1>1, <1>2 DEF OfKind
    <3> QED BY <1>1, <1>2, <3>1, <3>2, <3>3, <3>4 DEF whole
  <2>3. \A o \in Shown' : origins'[o].kind = "audio" => origins'[o].id <= audioRx'.newest
    BY <1>1, <1>2, <1>6, <1>9, <1>10
  <2> QED BY <1>6, <1>11, <2>1, <2>2, <2>3 DEF AudioPending
<1>16. Accounted'
  <2>1. SUFFICES ASSUME NEW x \in outcome.got \cup {d}
                 PROVE  x.origin \in Shown' \cup outcome'.dropped \/ StillHeld(x)'
    BY <1>8 DEF Accounted
  <2>2. CASE x.id = d.id /\ x.kind = "audio" /\ x.origin = d.origin /\ x.index \in DOMAIN parts
    <3>1. CASE whole
      BY <1>10, <2>2, <3>1
    <3>2. CASE ~whole
      <4>1. d.id \in DOMAIN audioRx'.pending /\ audioRx'.pending[d.id] = parts
        BY <1>6, <3>2 DEF PendsOne
      <4> QED BY <2>2, <4>1 DEF StillHeld
    <3> QED BY <3>1, <3>2
  <2>3. CASE x = d
    <3>1. d.index \in DOMAIN parts
      BY <1>3 DEF Admits
    <3> QED BY <2>2, <2>3, <3>1
  <2>4. CASE x \in outcome.got /\ x.origin \in Shown \cup outcome.dropped
    BY <1>8, <1>10, <2>4
  <2>5. CASE x \in outcome.got /\ x.kind # "audio" /\ PartOf(x) \in PartsIn(frames, orphans)
    BY <2>5 DEF StillHeld
  <2>6. CASE x \in outcome.got /\ x.kind = "audio" /\ x.id \in DOMAIN audioRx.pending
             /\ x.index \in DOMAIN audioRx.pending[x.id]
    <3>1. PICK p \in OfKind("audio") : origins[p].id = x.id
             /\ PartialOf(audioRx.pending[x.id], p, "audio", outcome.got \cup {d})
      <4>1. PendingFits(audioRx.pending, outcome.got \cup {d})
        BY PendingIs
      <4> QED BY <2>6, <4>1 DEF PendingFits
    <3>2. x.origin \in OfKind("audio") /\ origins[x.origin].id = x.id
      <4>1. x.origin \in DOMAIN origins /\ x \in Cuts(x.origin)
        BY <2>1, OnceReceived
      <4> QED BY <1>2, <2>6, <4>1, CutFields
    <3>3. p = x.origin
      BY <1>2, <3>1, <3>2, BlocksInOrder
    <3>4. audioRx.pending[x.id][x.index] = x.origin
      BY <2>6, <3>1, <3>3 DEF PartialOf
    <3>5. CASE x.id \notin DOMAIN left
      <4>1. x.origin \in Range(audioRx.pending[x.id])
        BY <2>6, <3>4 DEF Range
      <4>2. x.origin \in gone
        BY <1>3, <2>6, <3>5, <4>1 DEF LeftOf
      <4> QED BY <1>8, <4>2
    <3>6. CASE x.id \in DOMAIN left
      <4>1. x.id = d.id /\ left[d.id] = audioRx.pending[d.id] /\ have = left[d.id]
        BY <1>3, <3>6 DEF LeftOf
      <4>2. x.index \in DOMAIN parts
        BY <1>3, <2>6, <4>1 DEF Admits
      <4>3. x.origin = d.origin
        BY <1>1, <1>2, <3>2, <4>1, BlocksInOrder
      <4> QED BY <2>2, <2>6, <4>1, <4>2, <4>3
    <3> QED BY <3>5, <3>6
  <2>7. x \in outcome.got => x.origin \in Shown \cup outcome.dropped \/ StillHeld(x)
    BY DEF Arrives, TransportInv, Accounted
  <2> QED BY <2>1, <2>3, <2>4, <2>5, <2>6, <2>7 DEF StillHeld
<1>17. LossAhead'
  BY DEF Arrives, TransportInv, LossAhead, Videos, OfKind
<1> QED BY <1>10, <1>12, <1>13, <1>14, <1>15, <1>16, <1>17, OnceReceived DEF TransportInv

\* AudioFragmentReassembler::push keeps the invariant.
LEMMA PushAudioKeeps ==
    ASSUME TransportInv, NEW d \in air, air' = air \ {d}, UNCHANGED <<tx, origins>>,
           d.kind = "audio", PushAudio(d)
    PROVE  TransportInv'
<1>1. CASE d.id < audioRx.newest
  <2>1. /\ UNCHANGED <<frames, orphans, expected, lost, audioRx>>
        /\ outcome' = [outcome EXCEPT !.got = @ \cup {d}, !.dropped = @ \cup {d.origin}]
    BY <1>1 DEF PushAudio
  <2>2. Arrives(d)
    <3>1. outcome \in Outcomes
      BY DEF TransportInv, TransportTypes
    <3>2. outcome'.got = outcome.got \cup {d} /\ outcome'.late = outcome.late
      BY <2>1, <3>1 DEF Outcomes
    <3> QED BY <3>2 DEF Arrives
  <2>3. CauseIn(outcome.got \cup {d}, d.origin)
    BY <1>1, <2>2, OlderBlock
  <2> QED BY <2>1, <2>3, DiscardedAsItComes
<1>2. CASE ~(d.id < audioRx.newest)
  <2> DEFINE Left == IF d.id > audioRx.newest
                     THEN Restrict(audioRx.pending, {i \in DOMAIN audioRx.pending : i >= d.id})
                     ELSE audioRx.pending
             Have == IF d.id \in DOMAIN Left THEN Left[d.id] ELSE NoIds
             Parts == AdmitChunks(Have, [j \in {d.index} |-> d.origin], d.count)
             whole == Cardinality(DOMAIN Parts) = d.count
             Gone == UNION {Range(audioRx.pending[i]) : i \in DOMAIN audioRx.pending \ DOMAIN Left}
  <2>1. /\ UNCHANGED <<frames, orphans, expected, lost>>
        /\ audioRx' = [newest |-> d.id,
                       pending |-> IF whole THEN Drop(Left, {d.id}) ELSE Put(Left, d.id, Parts)]
        /\ outcome' = [outcome EXCEPT
              !.got = @ \cup {d},
              !.shown = IF whole THEN Append(@, [origin |-> d.origin, parts |-> Parts]) ELSE @,
              !.dropped = @ \cup Gone]
    BY <1>2 DEF PushAudio
  <2>2. outcome \in Outcomes
    BY DEF TransportInv, TransportTypes
  <2>3. PICK left : left = Left
    OBVIOUS
  <2>4. PICK gone : gone = Gone
    OBVIOUS
  <2>5. PICK have : have = Have
    OBVIOUS
  <2>6. PICK parts : parts = Parts
    OBVIOUS
  <2>7. PICK shown : shown = IF whole THEN Append(outcome.shown, [origin |-> d.origin, parts |-> Parts])
                             ELSE outcome.shown
    OBVIOUS
  <2>8. left = IF d.id > audioRx.newest
               THEN Restrict(audioRx.pending, {i \in DOMAIN audioRx.pending : i >= d.id})
               ELSE audioRx.pending
    BY <2>3
  <2>9. gone = UNION {Range(audioRx.pending[i]) : i \in DOMAIN audioRx.pending \ DOMAIN left}
    BY <2>3, <2>4
  <2>10. (d.id \in DOMAIN left => have = left[d.id]) /\ (d.id \notin DOMAIN left => have = NoIds)
    BY <2>3, <2>5
  <2>11. \A m : m = [j \in {d.index} |-> d.origin] => parts = AdmitChunks(have, m, d.count)
    BY <2>5, <2>6
  <2>12. /\ audioRx' = [newest |-> d.id,
                        pending |-> IF whole THEN Drop(left, {d.id}) ELSE Put(left, d.id, parts)]
         /\ whole <=> Cardinality(DOMAIN parts) = d.count
    BY <2>1, <2>3, <2>6
  <2>13. outcome' = [outcome EXCEPT !.got = outcome.got \cup {d}, !.shown = shown,
                                    !.dropped = outcome.dropped \cup gone]
    BY <2>1, <2>2, <2>4, <2>7 DEF Outcomes
  <2>14. shown = IF whole THEN Append(outcome.shown, [origin |-> d.origin, parts |-> parts])
                 ELSE outcome.shown
    BY <2>6, <2>7
  <2> HIDE DEF Left, Have, Parts, whole, Gone
  <2>15. Arrives(d)
    <3>1. PICK g : g = outcome.got \cup {d}
      OBVIOUS
    <3>2. PICK r : r = outcome.dropped \cup gone
      OBVIOUS
    <3>3. outcome' = [outcome EXCEPT !.got = g, !.shown = shown, !.dropped = r]
      BY <2>13, <3>1, <3>2
    <3>4. outcome'.got = g /\ outcome'.late = outcome.late
      BY <2>2, <3>3 DEF Outcomes
    <3> QED BY <3>1, <3>4 DEF Arrives
  <2>16. LeftOf(left, gone, d)
    BY <1>2, <2>8, <2>9, <2>15, LeftIs
  <2>17. Admits(parts, have, d.origin, "audio", outcome.got \cup {d}, d.index)
    <3>1. PICK m \in ChunkMaps :
            /\ m = [j \in {d.index} |-> d.origin]
            /\ Admits(AdmitChunks(have, m, d.count), have, d.origin, "audio", outcome.got \cup {d}, d.index)
      BY <2>10, <2>15, <2>16, BlockParts
    <3> QED BY <2>11, <3>1
  <2>18. IsMap(left, Ids, ChunkMaps) /\ DOMAIN left \subseteq {d.id} /\ d.id \in Ids /\ parts \in ChunkMaps
    BY <2>15, <2>16, <2>17, ReceivesAudio DEF LeftOf, Admits
  <2>19. /\ audioRx'.newest = d.id /\ audioRx' = [newest |-> audioRx'.newest, pending |-> audioRx'.pending]
         /\ audioRx'.pending = IF whole THEN Drop(left, {d.id}) ELSE Put(left, d.id, parts)
    <3>1. PICK P : P = IF whole THEN Drop(left, {d.id}) ELSE Put(left, d.id, parts)
      OBVIOUS
    <3>2. audioRx' = [newest |-> d.id, pending |-> P]
      BY <2>12, <3>1
    <3> QED BY <3>1, <3>2
  <2>20. PendsNone(Drop(left, {d.id})) /\ PendsOne(Put(left, d.id, parts), left, d, parts)
    BY <2>18, PendingDropped, PendingPut
  <2>21. IF Cardinality(DOMAIN parts) = d.count
         THEN PendsNone(audioRx'.pending) /\ shown = Append(outcome.shown, [origin |-> d.origin, parts |-> parts])
         ELSE PendsOne(audioRx'.pending, left, d, parts) /\ shown = outcome.shown
    <3>1. CASE whole
      BY <2>12, <2>14, <2>19, <2>20, <3>1
    <3>2. CASE ~whole
      BY <2>12, <2>14, <2>19, <2>20, <3>2
    <3> QED BY <3>1, <3>2
  <2>22. BlockStep(d, left, gone, have, parts, shown)
    BY <2>10, <2>13, <2>16, <2>17, <2>19, <2>21 DEF BlockStep
  <2> QED BY <1>2, <2>1, <2>15, <2>22, BlockKeeps
<1> QED BY <1>1, <1>2

(***************************************************************************)
(* The invariant and the theorem.                                          *)
(***************************************************************************)
\* handle_packet keeps the invariant, whichever kind of datagram arrives.
LEMMA ReceiveKeeps ==
    ASSUME TransportInv, NEW d \in air, Receive(d)
    PROVE  TransportInv'
<1>1. air' = air \ {d} /\ UNCHANGED <<tx, origins>>
  BY DEF Receive
<1>2. d.kind \in PacketKinds
  BY DEF TransportInv, TransportTypes, Datagrams
<1>3. CASE d.kind = "header"
  <2>1. PushHeader(d)
    BY <1>3 DEF Receive
  <2> QED BY <1>1, <1>3, <2>1, PushHeaderKeeps
<1>4. CASE d.kind = "chunk"
  <2>1. PushChunk(d)
    BY <1>4 DEF Receive
  <2> QED BY <1>1, <1>4, <2>1, PushChunkKeeps
<1>5. CASE d.kind = "audio"
  <2>1. PushAudio(d)
    BY <1>5 DEF Receive
  <2> QED BY <1>1, <1>5, <2>1, PushAudioKeeps
<1> QED BY <1>2, <1>3, <1>4, <1>5 DEF PacketKinds

\* A session begins with the invariant.
LEMMA TransportBegins == TransportInit => TransportInv
<1> SUFFICES ASSUME TransportInit PROVE TransportInv
  OBVIOUS
<1>1. PICK old \in BOOLEAN :
        /\ tx = [frame |-> IF old THEN IdRing - 2 ELSE 0, audio |-> 0, work |-> <<>>]
        /\ expected = IF old THEN IdRing - 1 ELSE -1
  BY DEF TransportInit
<1>2. /\ origins = <<>> /\ air = {} /\ frames = NoIds /\ orphans = NoIds
      /\ audioRx = [newest |-> -1, pending |-> NoIds] /\ lost = 0
      /\ outcome = [got |-> {}, shown |-> <<>>, dropped |-> {}, late |-> FALSE]
  BY DEF TransportInit
<1>3. DOMAIN origins = {} /\ DOMAIN outcome.shown = {} /\ DOMAIN NoIds = {} /\ DOMAIN tx.work = {}
  <2>1. DOMAIN << >> = {}
    BY SMT
  <2>2. outcome.shown = <<>> /\ tx.work = <<>>
    BY <1>1, <1>2
  <2> QED BY <1>2, <2>1, <2>2, NoChunks
<1>4. Videos = {} /\ OfKind("audio") = {} /\ Shown = {}
  BY <1>3 DEF Videos, OfKind, Shown
<1>5. /\ tx.frame \in Ids /\ tx.audio = 0 /\ tx.work = <<>> /\ 0 \in Ids /\ IdRing - 1 \in Ids
      /\ (expected # -1 => expected = IdRing - 1 /\ tx.frame = IdRing - 2)
      /\ tx \in [frame : Ids, audio : 0 .. MaxFrames, work : Seq(Datagrams)]
  <2>1. 0 \in Ids /\ IdRing - 1 \in Ids /\ IdRing - 2 \in Ids /\ 0 \in 0 .. MaxFrames
    BY TransportNumbers DEF Ids
  <2>2. <<>> \in Seq(Datagrams)
    OBVIOUS
  <2> QED BY <1>1, <2>1, <2>2
<1>6. IsMap(NoIds, Ids, Assemblies) /\ IsMap(NoIds, Ids, Waiting) /\ IsMap(NoIds, Ids, ChunkMaps)
  BY <1>3 DEF IsMap, NoIds
<1>7. TransportTypes
  <2>1. origins \in Seq(SentRecords) /\ Len(origins) <= MaxFrames
    BY <1>2, TransportNumbers
  <2>2. expected \in Ids \cup {-1}
    BY <1>5
  <2>3. outcome \in Outcomes
    BY <1>2 DEF Outcomes
  <2> QED BY <1>2, <1>5, <1>6, <2>1, <2>2, <2>3 DEF TransportTypes
<1>8. Cardinality({}) = 0
  BY FS_EmptySet
<1>9. IdsInOrder
  <2>1. Len(origins) = 0
    BY <1>2
  <2> QED BY <1>4, <1>5, <2>1 DEF IdsInOrder
<1>10. LossAhead
  <2>1. CASE expected = -1
    BY <1>2, <2>1 DEF LossAhead
  <2>2. CASE expected # -1
    <3>1. IdRing - 2 + 1 - (IdRing - 1) = 0 /\ 0 % IdRing = 0
      BY TransportNumbers
    <3>2. Behind(tx.frame, expected) = 0
      BY <1>5, <2>2, <3>1 DEF Behind
    <3> QED BY <1>2, <1>4, <1>8, <2>2, <3>2 DEF LossAhead
  <2> QED BY <2>1, <2>2
<1>11. OnceEach
  BY <1>2, <1>3 DEF OnceEach
<1>12. Assembled
  <2>1. Cardinality(DOMAIN frames) <= MaxIncomplete /\ Cardinality(DOMAIN orphans) <= MaxOrphans
    BY <1>2, <1>3, <1>8, TransportNumbers
  <2> QED BY <1>2, <1>3, <2>1 DEF Assembled, Assembling, AgedIsLate
<1>13. AudioPending /\ Accounted /\ ShownArrived /\ DroppedSent
  BY <1>2, <1>3, <1>4 DEF AudioPending, Accounted, ShownArrived, DroppedSent
<1>14. DeliveredAsSent /\ DiscardedForCause /\ AudioInOrder
  BY <1>2, <1>3 DEF DeliveredAsSent, DiscardedForCause, AudioInOrder
<1> QED BY <1>7, <1>9, <1>10, <1>11, <1>12, <1>13, <1>14 DEF TransportInv

(* What the invariant says of a frame that arrived whole. *)
LEMMA WholeIsSettled ==
    ASSUME TransportInv
    PROVE  ArrivedIsSettled
<1>1. SUFFICES ASSUME NEW o \in DOMAIN origins, Whole(o), o \notin Shown \cup outcome.dropped
               PROVE  FALSE
  BY DEF ArrivedIsSettled
<1>2. TransportTypes /\ OnceEach /\ IdsInOrder /\ Accounted /\ Assembled /\ AudioPending
  BY DEF TransportInv
<1>3. Cuts(o) \subseteq outcome.got
  BY <1>1, <1>2, WholeIsAll
<1>4. \A d \in Cuts(o) : d.origin = o /\ StillHeld(d)
  <2>1. \A d \in Cuts(o) : d.origin = o
    BY <1>2, CutFields
  <2> QED BY <1>1, <1>2, <1>3, <2>1 DEF Accounted
<1>5. origins[o] \in SentRecords /\ origins[o].count \in Nat /\ origins[o].kind \in {"video", "audio"}
      /\ origins[o].id \in Ids
  BY <1>2, VideosCounted, TransportNumbers DEF SentRecords
<1>6. CASE origins[o].kind = "video"
  <2>1. o \in Videos
    BY <1>6 DEF Videos, OfKind
  <2>2. Cut(o, "header", 0) \in Cuts(o)
        /\ \A j \in 0 .. origins[o].count - 1 : Cut(o, "chunk", j) \in Cuts(o)
    BY <1>2, <2>1, CutIs
  <2>3. <<o, -1>> \in PartsIn(frames, orphans)
    <3>1. PartOf(Cut(o, "header", 0)) = <<o, -1>> /\ Cut(o, "header", 0).kind = "header"
      BY DEF PartOf, Cut
    <3> QED BY <1>4, <2>2, <3>1 DEF StillHeld
  <2>4. \A j \in 0 .. origins[o].count - 1 : <<o, j>> \in PartsIn(frames, orphans)
    <3>1. \A j : PartOf(Cut(o, "chunk", j)) = <<o, j>> /\ Cut(o, "chunk", j).kind = "chunk"
      BY DEF PartOf, Cut
    <3> QED BY <1>4, <2>2, <3>1 DEF StillHeld
  <2>5. \A i \in DOMAIN frames : /\ FrameFits(i, frames[i], outcome.got) /\ ~Complete(frames[i])
    BY <1>2 DEF Assembled, Assembling
  <2>6. \A i \in DOMAIN orphans : OrphanFits(i, orphans[i], outcome.got)
    BY <1>2 DEF Assembled, Assembling
  <2>7. DOMAIN frames \cap DOMAIN orphans = {}
    BY <1>2 DEF Assembled, Assembling
  <2>8. PICK i \in DOMAIN frames : frames[i].origin = o
    <3>1. \A k \in DOMAIN frames : \A j \in DOMAIN frames[k].chunks : j \in Nat
      BY <2>5, <1>2, PartOfFrame, VideosCounted DEF FrameFits, PartialOf, Videos, OfKind,
         SentRecords
    <3>2. \A k \in DOMAIN orphans : \A j \in DOMAIN orphans[k].chunks : j \in Nat
      BY <2>6 DEF OrphanFits, PartialOf
    <3> QED BY <2>3, <3>1, <3>2, PartsHeld
  <2>9. PICK a : a = frames[i]
    OBVIOUS
  <2>10. FrameFits(i, a, outcome.got) /\ ~Complete(a) /\ a.origin = o /\ i = origins[o].id
    BY <2>5, <2>8, <2>9 DEF FrameFits
  <2>11. ASSUME NEW j \in 0 .. origins[o].count - 1 PROVE j \in DOMAIN a.chunks
    <3>1. j # -1 /\ <<o, j>> \in PartsIn(frames, orphans)
      BY <1>5, <2>4, <2>11
    <3>2. CASE \E k \in DOMAIN frames : \E l \in DOMAIN frames[k].chunks : <<o, j>> = <<frames[k].chunks[l], l>>
      <4>1. PICK k \in DOMAIN frames : j \in DOMAIN frames[k].chunks /\ frames[k].chunks[j] = o
        BY <3>2
      <4>2. FrameFits(k, frames[k], outcome.got) /\ frames[k].origin = o
        BY <2>5, <4>1 DEF FrameFits, PartialOf
      <4>3. k = i
        BY <2>10, <4>2 DEF FrameFits
      <4> QED BY <2>9, <4>1, <4>3
    <3>3. CASE \E k \in DOMAIN orphans : \E l \in DOMAIN orphans[k].chunks : <<o, j>> = <<orphans[k].chunks[l], l>>
      <4>1. PICK k \in DOMAIN orphans : j \in DOMAIN orphans[k].chunks /\ orphans[k].chunks[j] = o
        BY <3>3
      <4>2. PICK p \in Videos : origins[p].id = k /\ PartialOf(orphans[k].chunks, p, "chunk", outcome.got)
        BY <2>6, <4>1 DEF OrphanFits
      <4>3. p = o
        BY <4>1, <4>2 DEF PartialOf
      <4> QED BY <2>7, <2>10, <4>2, <4>3
    <3> QED BY <3>1, <3>2, <3>3, PartsHeld
  <2>12. DOMAIN a.chunks = 0 .. a.count - 1 /\ a.count \in Nat
    BY <1>5, <2>10, <2>11 DEF FrameFits, PartialOf
  <2> QED BY <2>10, <2>12, CompleteIsAll
<1>7. CASE origins[o].kind = "audio"
  <2>1. o \in OfKind("audio") /\ \A j \in 0 .. origins[o].count - 1 : Cut(o, "audio", j) \in Cuts(o)
    BY <1>2, <1>7, CutIs DEF OfKind
  <2>2. \A j \in 0 .. origins[o].count - 1 :
          origins[o].id \in DOMAIN audioRx.pending /\ j \in DOMAIN audioRx.pending[origins[o].id]
    <3>1. \A j : /\ Cut(o, "audio", j).kind = "audio" /\ Cut(o, "audio", j).id = origins[o].id
                 /\ Cut(o, "audio", j).index = j
      BY DEF Cut
    <3> QED BY <1>4, <2>1, <3>1 DEF StillHeld
  <2>3. 0 \in 0 .. origins[o].count - 1
    BY <1>2, <1>5, <2>1 DEF IdsInOrder
  <2>4. origins[o].id \in DOMAIN audioRx.pending
    BY <2>2, <2>3
  <2>5. PICK m : m = audioRx.pending[origins[o].id]
    OBVIOUS
  <2>6. PICK p \in OfKind("audio") : /\ origins[p].id = origins[o].id
                                     /\ PartialOf(m, p, "audio", outcome.got)
                                     /\ Cardinality(DOMAIN m) # origins[p].count
    BY <1>2, <2>4, <2>5 DEF AudioPending
  <2>7. p = o
    BY <1>2, <2>1, <2>6, BlocksInOrder
  <2>8. DOMAIN m = 0 .. origins[o].count - 1
    BY <2>2, <2>5, <2>6, <2>7 DEF PartialOf
  <2>9. PICK a : a = [count |-> origins[o].count, chunks |-> m]
    OBVIOUS
  <2>10. a.count = origins[o].count /\ a.chunks = m
    BY <2>9
  <2>11. Complete(a)
    BY <1>5, <2>8, <2>10, CompleteIsAll
  <2> QED BY <2>6, <2>7, <2>10, <2>11 DEF Complete
<1> QED BY <1>5, <1>6, <1>7

\* The invariant holds what is promised.
LEMMA InvIsSafe == TransportInv => TransportSafe
<1> SUFFICES ASSUME TransportInv PROVE TransportSafe
  OBVIOUS
<1>1. TransportTypes /\ DeliveredAsSent /\ DiscardedForCause /\ AudioInOrder /\ Assembled /\ AudioPending /\ LossAhead
  BY DEF TransportInv
<1>2. LossIsReal
  <2>1. Cardinality(Videos) \in Nat /\ lost \in Nat
    BY <1>1, VideosCounted DEF TransportTypes
  <2>2. CASE expected = -1
    BY <1>1, <2>2 DEF LossAhead, LossIsReal
  <2>3. CASE expected # -1
    <3>1. lost = 0 \/ lost + Behind(tx.frame, expected) < Cardinality(Videos)
      BY <1>1, <2>3 DEF LossAhead
    <3>2. Behind(tx.frame, expected) \in Nat
      <4>1. tx.frame \in Ids /\ expected \in Ids /\ Ids \subseteq Nat
        BY <1>1, <2>3 DEF TransportTypes, Ids
      <4> QED BY <4>1, BehindIsIn
    <3>3. lost = 0 \/ lost < Cardinality(Videos)
      BY <2>1, <3>1, <3>2
    <3> QED BY <3>3 DEF LossIsReal, Videos
  <2> QED BY <2>2, <2>3
<1>3. Cardinality(DOMAIN audioRx.pending) <= 1
  <2>1. DOMAIN audioRx.pending \subseteq {audioRx.newest}
    BY <1>1 DEF AudioPending
  <2>2. IsFiniteSet({audioRx.newest}) /\ Cardinality({audioRx.newest}) = 1
    BY FS_Singleton
  <2> QED BY <2>1, <2>2, FS_Subset
<1>4. ArrivedIsSettled
  BY WholeIsSettled
<1> QED BY <1>1, <1>2, <1>3, <1>4 DEF TransportSafe, Assembled, Assembling

(* What FrameAssembler (push_header, push_chunk) and AudioFragmentReassembler::push      *)
(* hand on is what UdpSender sent, whole, each frame and block once and the blocks in    *)
(* order; what they discard they had a cause to discard; a frame all of whose datagrams  *)
(* arrived was shown or discarded; no more losses are counted than frames were sent; and *)
(* the tables stay within their limits. It holds for every number of frames, frame size, *)
(* limit on incomplete frames and on orphans, assembly timeout and ring of identifiers,  *)
(* whatever the network loses or reorders.                                               *)
THEOREM TransportStaysSafe == TransportSpec => []TransportSafe
<1>1. TransportInv /\ [TransportNext]_transportVars => TransportInv'
  <2> SUFFICES ASSUME TransportInv, [TransportNext]_transportVars PROVE TransportInv'
    OBVIOUS
  <2>1. CASE \E n \in FrameSizes, key \in BOOLEAN : SendFrame(n, key)
    BY <2>1, SendFrameKeeps
  <2>2. CASE \E n \in FrameSizes \cap 1 .. MaxChunks : SendAudio(n)
    BY <2>2, SendAudioKeeps
  <2>3. CASE \E fate \in {"sent", "lost", "failed"} : SendPacket(fate)
    BY <2>3, SendPacketKeeps
  <2>4. CASE \E d \in air : Receive(d)
    BY <2>4, ReceiveKeeps
  <2>5. CASE TransportTick
    BY <2>5, TickKeeps
  <2>6. CASE UNCHANGED transportVars
    BY <2>6, TransportUnchanged
  <2> QED BY <2>1, <2>2, <2>3, <2>4, <2>5, <2>6 DEF TransportNext
<1> QED BY <1>1, TransportBegins, InvIsSafe, PTL DEF TransportSpec

(***************************************************************************)
(* Discovery.                                                              *)
(***************************************************************************)
\* The values a service, a host and the tracker may hold.
Addresses == [kind : AddressKinds, scope : Nat]
Services ==
    [resolve : BOOLEAN, addr : BOOLEAN, target : BOOLEAN, meta : Metadata \cup {BadMetadata},
     addresses : SUBSET Addresses, dirty : BOOLEAN, error : BOOLEAN, old : BOOLEAN]
UsableHosts ==
    {h \in [name : ServiceNames, meta : Metadata, endpoint : Addresses] :
        h.meta # BadMetadata /\ IsUsable(h.endpoint)}

\* A well-formed tracker: every entry is a usable host under its own name.
TrackerTable(t) ==
    /\ DOMAIN t \subseteq ServiceNames /\ IsFiniteSet(DOMAIN t)
    /\ t \in [DOMAIN t -> [host : UsableHosts, aged : BOOLEAN, newer : SUBSET ServiceNames]]
    /\ \A n \in DOMAIN t : t[n].host.name = n /\ t[n].newer \subseteq DOMAIN t

\* A name the snapshot shows; one it shows or rightly forgot; a name with nothing unsaid.
Alive(t, n) == n \in DOMAIN t /\ ~ t[n].aged
OnList(t, g, n) == Alive(t, n) \/ n \in g.lost
Quiet(tb, n) == \A k \in DOMAIN tb : k.name = n => ~ tb[k].dirty /\ ~ tb[k].error

\* Once nothing of a name is unsaid, the host listed is one some interface has, or an orphan.
\* A service that publishes and was told of is on the list: unlike the first, this holds name by
\* name even while another service of the name is dirty, which expiry needs.
SettledName(tb, t, g, n) ==
    (Quiet(tb, n) /\ Alive(t, n)) => t[n].host \in Surviving(tb, n) \/ n \in g.orphans
KeptUp(tb, t, g) ==
    \A k \in DOMAIN tb : (Publishes(tb[k]) /\ ~ tb[k].dirty) => OnList(t, g, k.name)

\* The shapes of the variables.
BrowserShape ==
    browser \in [backend : {"apple", "mdns"}, phase : {"ops", "publish", "poll", "browse", "handles", "receive", "exited"},
                 announced : SUBSET ServiceKeys, error : {"none", "backend", "policy"},
                 callbackError : {"none", "backend", "policy"}, fired : BOOLEAN, dropped : BOOLEAN]
GhostShape ==
    ghost \in [lost : SUBSET ServiceNames, orphans : SUBSET ServiceNames, last : [ServiceNames -> UsableHosts \cup {NoHost}]]
TableShape ==
    /\ DOMAIN table \subseteq ServiceKeys /\ IsFiniteSet(DOMAIN table) /\ Cardinality(DOMAIN table) <= MaxServices
    /\ table \in [DOMAIN table -> Services]
PendingShape == pending \in Seq([type : {"added", "removed"}, key : ServiceKeys])
TrackerShape == TrackerTable(tracker) /\ Cardinality(DOMAIN tracker) <= MaxTracked

DiscoveryShape == BrowserShape /\ GhostShape /\ TableShape /\ PendingShape /\ TrackerShape

Settled == (\A n \in ServiceNames : SettledName(table, tracker, ghost, n)) /\ KeptUp(table, tracker, ghost)

\* The Apple worker: settled in every round, and with nothing unsaid while it waits.
AppleInv ==
    browser.backend = "apple" =>
        /\ browser.phase # "receive"
        /\ browser.phase # "exited" =>
             /\ Settled
             /\ browser.phase = "poll" => \A k \in DOMAIN table : ~ table[k].dirty /\ ~ table[k].error

\* The mdns-sd worker has no table and lists what each service said last.
MdnsInv ==
    browser.backend = "mdns" =>
        /\ browser.phase \in {"receive", "exited"}
        /\ DOMAIN table = {}
        /\ \A n \in DOMAIN tracker : tracker[n].host = ghost.last[n]
        /\ \A n \in ServiceNames : ghost.last[n] # NoHost => OnList(tracker, ghost, n)

\* Where the two ends of an advertiser may be at the same time.
AdvertiserInv ==
    /\ advertiser \in [start : {"idle", "failed", "waiting", "started", "dropping", "dropped"},
                       worker : {"none", "registering", "polling", "ended"}, handle : BOOLEAN, context : BOOLEAN,
                       wake : {"none", "open", "closed", "signalled"}, error : BOOLEAN,
                       daemon : {"none", "running", "shut down", "abandoned"}]
    /\ advertiser.start = "idle" => advertiser.worker = "none" /\ ~ advertiser.handle /\ ~ advertiser.context
    /\ advertiser.worker = "registering" =>
         advertiser.start \in {"waiting", "failed"} /\ ~ advertiser.handle /\ ~ advertiser.context
    /\ advertiser.worker = "ended" => ~ advertiser.context
    /\ (browser.backend = "apple" /\ advertiser.start = "dropped") => advertiser.worker = "ended"
    /\ browser.backend = "apple" => advertiser.daemon = "none"
    /\ advertiser.handle => advertiser.context
    /\ (advertiser.start = "failed" /\ advertiser.worker # "none") => advertiser.wake = "closed"

BrowserInv == DiscoveryShape /\ AppleInv /\ MdnsInv /\ StoppedIsAnError
DiscoveryInv == BrowserInv /\ AdvertiserInv

\* A non-empty set of numbers has a least one.
LEMMA NaturalsHaveALeast ==
    ASSUME NEW T \in SUBSET Nat, T # {}
    PROVE  \E x \in T : \A y \in T : x <= y
<1> DEFINE Less == OpToRel(<, Nat)
<1>1. Less = {ss \in Nat \X Nat : ss[1] < ss[2]}
  BY DEF OpToRel
<1>2. IsWellFoundedOn(Less, Nat)
  BY NatLessThanWellFounded
<1> HIDE DEF Less
<1>3. PICK x \in T : \A y \in T : ~ (<<y, x>> \in Less)
  BY <1>2, WFMin
<1>4. ASSUME NEW y \in T PROVE x <= y
  <2>1. y < x => <<y, x>> \in {ss \in Nat \X Nat : ss[1] < ss[2]}
    OBVIOUS
  <2> QED
    BY <1>1, <1>3, <2>1
<1> QED
  BY <1>4

\* Bounded values have a greatest one: what min_by_key finds when the set is not empty.
LEMMA FiniteHasAGreatest ==
    ASSUME NEW S, IsFiniteSet(S), S # {}, NEW f, \A n \in S : f[n] \in Nat,
           NEW bound \in Nat, \A n \in S : f[n] <= bound
    PROVE  \E n \in S : \A m \in S : f[m] <= f[n]
<1> DEFINE T == {bound - f[n] : n \in S}
<1>1. T \subseteq Nat /\ T # {}
  OBVIOUS
<1>2. PICK x \in T : \A y \in T : x <= y
  BY <1>1, NaturalsHaveALeast
<1>3. PICK n \in S : x = bound - f[n]
  BY <1>2
<1>4. \A m \in S : f[m] <= f[n]
  <2> TAKE m \in S
  <2>1. bound - f[m] \in T
    OBVIOUS
  <2>2. bound - f[n] <= bound - f[m]
    BY <2>1, <1>2, <1>3
  <2> QED
    BY <2>2
<1> QED
  BY <1>4

\* choose_preferred_endpoint returns a usable address of the service whenever it has one.
LEMMA EndpointIsUsable ==
    ASSUME NEW addresses \in SUBSET Addresses, \E a \in addresses : IsUsable(a)
    PROVE  ChooseEndpoint(addresses) \in addresses /\ IsUsable(ChooseEndpoint(addresses))
<1> DEFINE U == {x \in addresses : IsUsable(x)}
           T == {Preference(a) : a \in U}
<1>1. \A a \in Addresses : Preference(a) \in Nat
  BY DEF Preference, Addresses
<1>2. T \subseteq Nat /\ T # {}
  BY <1>1
<1>3. PICK x \in T : \A y \in T : x <= y
  BY <1>2, NaturalsHaveALeast
<1>4. PICK a \in U : x = Preference(a)
  BY <1>3
<1>5. \A b \in U : Preference(a) <= Preference(b)
  BY <1>3, <1>4
<1>6. ChooseEndpoint(addresses) \in U
  BY <1>4, <1>5 DEF ChooseEndpoint
<1> QED
  BY <1>6

\* What decide_service_state_action publishes is a host a client can connect to.
LEMMA PublishedIsUsable ==
    ASSUME NEW s, s.meta \in Metadata \cup {BadMetadata}, s.addresses \in SUBSET Addresses, Publishes(s), NEW name \in ServiceNames
    PROVE  HostOf(name, s) \in UsableHosts /\ HostOf(name, s).name = name
<1>1. ChooseEndpoint(s.addresses) \in Addresses /\ IsUsable(ChooseEndpoint(s.addresses))
  BY EndpointIsUsable DEF Publishes
<1>2. s.meta \in Metadata /\ s.meta # BadMetadata
  BY DEF Publishes
<1> QED
  BY <1>1, <1>2 DEF HostOf, UsableHosts

\* u is t without the entries outside `names'.
KeptIn(t, u, names) ==
    /\ TrackerTable(u) /\ DOMAIN u = DOMAIN t \cap names
    /\ \A n \in DOMAIN u : u[n].host = t[n].host /\ u[n].aged = t[n].aged
    /\ Cardinality(DOMAIN u) <= Cardinality(DOMAIN t)

\* Dropping entries (retain, remove, the clean-up of a broken browse) leaves the others as they
\* were and keeps the tracker well formed.
LEMMA KeepKeeps ==
    ASSUME NEW t, TrackerTable(t), NEW names
    PROVE  KeptIn(t, Keep(t, names), names)
<1> DEFINE u == Keep(t, names)
<1>1. DOMAIN u = DOMAIN t \cap names
  BY DEF Keep
<1>2. \A n \in DOMAIN u : u[n] = [t[n] EXCEPT !.newer = @ \cap names]
  BY DEF Keep
<1>3. IsFiniteSet(DOMAIN u) /\ Cardinality(DOMAIN u) <= Cardinality(DOMAIN t)
  BY <1>1, FS_Subset DEF TrackerTable
<1>4. \A n \in DOMAIN u :
        /\ u[n] \in [host : UsableHosts, aged : BOOLEAN, newer : SUBSET ServiceNames]
        /\ u[n].host = t[n].host /\ u[n].aged = t[n].aged /\ u[n].newer = t[n].newer \cap names
  BY <1>1, <1>2 DEF TrackerTable
<1>5. \A n \in DOMAIN u : u[n].newer \subseteq DOMAIN u
  BY <1>1, <1>4 DEF TrackerTable
<1>6. u \in [DOMAIN u -> [host : UsableHosts, aged : BOOLEAN, newer : SUBSET ServiceNames]]
  BY <1>4 DEF Keep
<1>7. \A n \in DOMAIN u : u[n].host.name = n
  BY <1>1, <1>4 DEF TrackerTable
<1>8. KeptIn(t, u, names)
  <2> HIDE DEF u
  <2> QED
    BY <1>1, <1>3, <1>4, <1>5, <1>6, <1>7 DEF TrackerTable, KeptIn
<1> QED
  BY <1>8

\* A tracker with entries has a least recently seen one to evict.
LEMMA OldestIsListed ==
    ASSUME NEW t, TrackerTable(t), DOMAIN t # {}
    PROVE  OldestEntry(t) \in DOMAIN t
<1> DEFINE f == [n \in DOMAIN t |-> Cardinality(t[n].newer)]
<1>1. IsFiniteSet(DOMAIN t) /\ Cardinality(DOMAIN t) \in Nat
  BY FS_CardinalityType DEF TrackerTable
<1>2. \A n \in DOMAIN t : f[n] \in Nat /\ f[n] <= Cardinality(DOMAIN t)
  <2> TAKE n \in DOMAIN t
  <2>1. t[n].newer \subseteq DOMAIN t
    BY DEF TrackerTable
  <2>2. IsFiniteSet(t[n].newer) /\ Cardinality(t[n].newer) <= Cardinality(DOMAIN t)
    BY <2>1, <1>1, FS_Subset
  <2> QED
    BY <2>2, FS_CardinalityType
<1>4. \E n \in DOMAIN t : \A m \in DOMAIN t : f[m] <= f[n]
  <2> HIDE DEF f
  <2> QED
    BY <1>1, <1>2, FiniteHasAGreatest
<1>5. \E n \in DOMAIN t : \A m \in DOMAIN t : Cardinality(t[m].newer) <= Cardinality(t[n].newer)
  BY <1>4
<1> QED
  BY <1>5 DEF OldestEntry

\* u is t with the host listed.
InsertedIn(t, u, host) ==
    /\ TrackerTable(u) /\ DOMAIN u = DOMAIN t \cup {host.name}
    /\ u[host.name].host = host /\ ~ u[host.name].aged
    /\ \A n \in DOMAIN t \ {host.name} : u[n].host = t[n].host /\ u[n].aged = t[n].aged

\* BTreeMap::insert: the host is listed under its name, the others stay.
LEMMA InsertAdds ==
    ASSUME NEW t, TrackerTable(t), NEW host \in UsableHosts
    PROVE  InsertedIn(t, Insert(t, host), host)
<1> DEFINE u == Insert(t, host)
           Entry == [host : UsableHosts, aged : BOOLEAN, newer : SUBSET ServiceNames]
<1>1. DOMAIN u = DOMAIN t \cup {host.name} /\ host.name \in ServiceNames
  BY DEF Insert, UsableHosts
<1>2. u[host.name] = [host |-> host, aged |-> FALSE, newer |-> {}]
  BY DEF Insert
<1>3. \A n \in DOMAIN t \ {host.name} :
        u[n] = [t[n] EXCEPT !.newer = t[n].newer \cup {host.name}]
  BY DEF Insert
<1>4. \A n \in DOMAIN t \ {host.name} :
        /\ u[n] \in Entry
        /\ u[n].host = t[n].host /\ u[n].aged = t[n].aged /\ u[n].newer = t[n].newer \cup {host.name}
  BY <1>1, <1>3 DEF TrackerTable
<1>5. \A n \in DOMAIN u : u[n] \in Entry /\ u[n].host.name = n /\ u[n].newer \subseteq DOMAIN u
  <2> TAKE n \in DOMAIN u
  <2>1. CASE n = host.name
    <3>1. [host |-> host, aged |-> FALSE, newer |-> {}] \in Entry
      OBVIOUS
    <3> HIDE DEF u, Entry
    <3> QED
      BY <1>2, <2>1, <3>1
  <2>2. CASE n # host.name
    <3>1. n \in DOMAIN t \ {host.name}
      BY <1>1, <2>2
    <3>2. t[n].host.name = n /\ t[n].newer \subseteq DOMAIN t
      BY <3>1 DEF TrackerTable
    <3> HIDE DEF u, Entry
    <3> QED
      BY <1>1, <1>4, <3>1, <3>2
  <2> QED
    BY <2>1, <2>2
<1>6. u \in [DOMAIN u -> Entry]
  BY <1>5 DEF Insert
<1>7. DOMAIN u \subseteq ServiceNames /\ IsFiniteSet(DOMAIN u)
  BY <1>1, FS_AddElement DEF TrackerTable
<1>8. TrackerTable(u)
  BY <1>5, <1>6, <1>7 DEF TrackerTable
<1> QED
  BY <1>1, <1>2, <1>4, <1>8 DEF InsertedIn

\* u is t after upsert_at.
UpsertedIn(t, u, host) ==
    /\ TrackerTable(u) /\ Cardinality(DOMAIN u) <= MaxTracked
    /\ host.name \in DOMAIN u /\ u[host.name].host = host /\ ~ u[host.name].aged
    /\ \A n \in DOMAIN u \ {host.name} :
         n \in DOMAIN t /\ ~ t[n].aged /\ ~ u[n].aged /\ u[n].host = t[n].host

\* upsert_at: the host is listed, never more than MAX_TRACKED_HOSTS are, and whoever else is
\* listed was so before with the same host.
LEMMA UpsertAdds ==
    ASSUME NEW t, TrackerTable(t), Cardinality(DOMAIN t) <= MaxTracked, NEW host \in UsableHosts
    PROVE  UpsertedIn(t, Upsert(t, host), host)
<1> DEFINE live == Retain(t)
           full == ~ Listed(live, host.name) /\ Cardinality(DOMAIN live) >= MaxTracked
           kept == IF full THEN DropKey(live, OldestEntry(live)) ELSE live
           u == Insert(kept, host)
<1>1. /\ TrackerTable(live) /\ DOMAIN live = {n \in DOMAIN t : ~ t[n].aged}
      /\ \A n \in DOMAIN live : live[n].host = t[n].host /\ ~ live[n].aged
      /\ Cardinality(DOMAIN live) <= Cardinality(DOMAIN t)
  <2> DEFINE names == {n \in DOMAIN t : ~ t[n].aged}
  <2>1. live = Keep(t, names) /\ DOMAIN t \cap names = names
    BY DEF Retain
  <2> HIDE DEF names, live
  <2>2. KeptIn(t, live, names)
    BY <2>1, KeepKeeps
  <2> QED
    BY <2>1, <2>2 DEF names, KeptIn
<1>2. Cardinality(DOMAIN t) \in Nat /\ Cardinality(DOMAIN live) \in Nat /\ MaxTracked \in Nat \ {0}
  BY <1>1, FS_CardinalityType, DiscoveryAssumption DEF TrackerTable
<1> HIDE DEF live
<1>3. CASE full
  <2> DEFINE gone == OldestEntry(live)
  <2>1. DOMAIN live # {}
    BY <1>2, <1>3, FS_EmptySet
  <2>2. gone \in DOMAIN live
    BY <1>1, <2>1, OldestIsListed
  <2>3. kept = Keep(live, DOMAIN live \ {gone})
    BY <1>3 DEF DropKey
  <2> HIDE DEF gone, kept
  <2>4. /\ TrackerTable(kept) /\ DOMAIN kept = DOMAIN live \ {gone}
        /\ \A n \in DOMAIN kept : kept[n].host = live[n].host /\ kept[n].aged = live[n].aged
    <3>1. KeptIn(live, kept, DOMAIN live \ {gone})
      BY <1>1, <2>3, KeepKeeps
    <3> QED
      BY <3>1 DEF KeptIn
  <2>5. Cardinality(DOMAIN kept) = Cardinality(DOMAIN live) - 1
    BY <1>1, <2>2, <2>4, FS_RemoveElement DEF TrackerTable
  <2>6. InsertedIn(kept, u, host)
    BY <2>4, InsertAdds
  <2>7. host.name \notin DOMAIN kept
    BY <1>3, <2>4 DEF Listed
  <2>8. Cardinality(DOMAIN u) = Cardinality(DOMAIN kept) + 1
    <3>1. IsFiniteSet(DOMAIN kept) /\ DOMAIN u = DOMAIN kept \cup {host.name}
      BY <2>4, <2>6 DEF TrackerTable, InsertedIn
    <3> HIDE DEF u
    <3> QED
      BY <2>7, <3>1, FS_AddElement
  <2>9. Cardinality(DOMAIN u) <= MaxTracked
    BY <1>1, <1>2, <2>5, <2>8
  <2>10. Upsert(t, host) = u
    BY DEF Upsert, live, kept
  <2> HIDE DEF u
  <2> QED
    BY <1>1, <2>4, <2>6, <2>9, <2>10 DEF InsertedIn, UpsertedIn
<1>4. CASE ~ full
  <2>1. kept = live /\ Upsert(t, host) = u
    BY <1>4 DEF Upsert, live
  <2>2. InsertedIn(live, u, host)
    BY <1>1, <2>1, InsertAdds
  <2>3. Cardinality(DOMAIN u) <= MaxTracked
    <3>1. CASE host.name \in DOMAIN live
      <4>1. DOMAIN u = DOMAIN live
        BY <2>2, <3>1 DEF InsertedIn
      <4> QED
        BY <4>1, <1>1, <1>2
    <3>2. CASE host.name \notin DOMAIN live
      <4>1. Cardinality(DOMAIN live) < MaxTracked
        BY <1>2, <1>4, <3>2 DEF Listed
      <4>2. Cardinality(DOMAIN u) = Cardinality(DOMAIN live) + 1
        <5>1. IsFiniteSet(DOMAIN live) /\ DOMAIN u = DOMAIN live \cup {host.name}
          BY <1>1, <2>2 DEF TrackerTable, InsertedIn
        <5> HIDE DEF u
        <5> QED
          BY <3>2, <5>1, FS_AddElement
      <4> QED
        BY <4>1, <4>2, <1>2
    <3> QED
      BY <3>1, <3>2
  <2> HIDE DEF u, kept
  <2> QED
    BY <1>1, <2>1, <2>2, <2>3 DEF InsertedIn, UpsertedIn
<1> QED
  BY <1>3, <1>4

\* A step about one name keeps what is known of every other.
OthersKept(name) ==
    \A n \in ServiceNames \ {name} :
        /\ Alive(tracker', n) => Alive(tracker, n) /\ tracker'[n].host = tracker[n].host
        /\ OnList(tracker, ghost, n) => OnList(tracker', ghost', n)
        /\ n \in ghost.orphans => n \in ghost'.orphans

\* After an upsert everything about other names holds as before, the evicted being accounted for.
LEMMA UpsertStep ==
    ASSUME TrackerShape, GhostShape, NEW host \in UsableHosts, tracker' = Upsert(tracker, host),
           ghost'.lost = (ghost.lost \cup Forgot(tracker, tracker', host)) \ {host.name},
           \A n \in ServiceNames \ {host.name} : n \in ghost.orphans => n \in ghost'.orphans
    PROVE  TrackerShape' /\ Alive(tracker', host.name) /\ tracker'[host.name].host = host /\ OthersKept(host.name)
<1>1. UpsertedIn(tracker, tracker', host)
  BY UpsertAdds DEF TrackerShape
<1>2. TrackerShape' /\ Alive(tracker', host.name) /\ tracker'[host.name].host = host
  BY <1>1 DEF UpsertedIn, TrackerShape, TrackerTable, Alive
<1>3. OthersKept(host.name)
  <2> SUFFICES ASSUME NEW n \in ServiceNames \ {host.name}
      PROVE  /\ Alive(tracker', n) => Alive(tracker, n) /\ tracker'[n].host = tracker[n].host
             /\ OnList(tracker, ghost, n) => OnList(tracker', ghost', n)
    BY DEF OthersKept
  <2>1. Alive(tracker', n) => Alive(tracker, n) /\ tracker'[n].host = tracker[n].host
    BY <1>1 DEF UpsertedIn, Alive
  <2>2. n \in ghost.lost => n \in ghost'.lost
    OBVIOUS
  <2>3. Alive(tracker, n) => Alive(tracker', n) \/ n \in ghost'.lost
    <3>1. CASE n \in DOMAIN tracker'
      BY <1>1, <3>1 DEF UpsertedIn, Alive
    <3>2. CASE n \notin DOMAIN tracker'
      BY <3>2 DEF Forgot, Alive, Listed
    <3> QED
      BY <3>1, <3>2
  <2> QED
    BY <2>1, <2>2, <2>3 DEF OnList
<1> QED
  BY <1>2, <1>3

\* A worker's upsert lists the host and keeps the other names.
LEMMA TrackStep ==
    ASSUME TrackerShape, GhostShape, NEW host \in UsableHosts, Track(host)
    PROVE  /\ TrackerShape' /\ GhostShape' /\ Alive(tracker', host.name) /\ tracker'[host.name].host = host
           /\ OthersKept(host.name)
<1>1. /\ tracker' = Upsert(tracker, host)
      /\ ghost' = [ghost EXCEPT !.lost = (@ \cup Forgot(tracker, tracker', host)) \ {host.name}, !.orphans = @ \ {host.name}]
  BY DEF Track
<1>2. Forgot(tracker, tracker', host) \subseteq ServiceNames
  BY DEF Forgot
<1>3. /\ GhostShape'
      /\ ghost'.lost = (ghost.lost \cup Forgot(tracker, tracker', host)) \ {host.name}
      /\ ghost'.orphans = ghost.orphans \ {host.name}
  BY <1>1, <1>2 DEF GhostShape
<1>4. \A n \in ServiceNames \ {host.name} : n \in ghost.orphans => n \in ghost'.orphans
  BY <1>3
<1> QED
  BY <1>1, <1>3, <1>4, UpsertStep

\* A worker's removal takes one name off the list and keeps the others.
LEMMA UntrackStep ==
    ASSUME TrackerShape, GhostShape, NEW name \in ServiceNames, Untrack(name)
    PROVE  /\ TrackerShape' /\ GhostShape' /\ ~ Alive(tracker', name) /\ ghost'.last[name] = NoHost
           /\ \A n \in ServiceNames \ {name} : ghost'.last[n] = ghost.last[n]
           /\ OthersKept(name)
<1>1. /\ tracker' = DropKey(tracker, name)
      /\ ghost' = [ghost EXCEPT !.lost = @ \ {name}, !.orphans = @ \ {name}, !.last = [@ EXCEPT ![name] = NoHost]]
  BY DEF Untrack
<1>2. /\ GhostShape' /\ ghost'.lost = ghost.lost \ {name} /\ ghost'.orphans = ghost.orphans \ {name}
      /\ ghost'.last = [ghost.last EXCEPT ![name] = NoHost]
  BY <1>1 DEF GhostShape
<1>3. KeptIn(tracker, tracker', DOMAIN tracker \ {name})
  BY <1>1, KeepKeeps DEF DropKey, TrackerShape
<1>4. TrackerShape' /\ ~ Alive(tracker', name)
  <2>1. Cardinality(DOMAIN tracker) \in Nat /\ Cardinality(DOMAIN tracker') \in Nat
    BY <1>3, FS_CardinalityType DEF KeptIn, TrackerTable, TrackerShape
  <2> QED
    BY <1>3, <2>1, DiscoveryAssumption DEF KeptIn, TrackerShape, TrackerTable, Alive
<1>5. OthersKept(name)
  BY <1>2, <1>3 DEF KeptIn, OthersKept, OnList, Alive
<1>6. ghost'.last[name] = NoHost /\ \A n \in ServiceNames \ {name} : ghost'.last[n] = ghost.last[n]
  BY <1>2 DEF GhostShape
<1> QED
  BY <1>2, <1>4, <1>5, <1>6

\* The services of a name that publish are the same, with the same state.
SamePublished(tb, ub, n) ==
    \A k \in ServiceKeys : k.name = n =>
        /\ (k \in DOMAIN tb /\ Publishes(tb[k])) <=> (k \in DOMAIN ub /\ Publishes(ub[k]))
        /\ (k \in DOMAIN tb /\ k \in DOMAIN ub /\ Publishes(ub[k])) =>
              ub[k].meta = tb[k].meta /\ ub[k].addresses = tb[k].addresses

\* The hosts a name may have depend only on the services of that name that publish.
LEMMA SurvivingSame ==
    ASSUME NEW tb, NEW ub, DOMAIN tb \subseteq ServiceKeys, DOMAIN ub \subseteq ServiceKeys, NEW n, SamePublished(tb, ub, n)
    PROVE  Surviving(ub, n) = Surviving(tb, n)
<1> DEFINE P(t) == {j \in DOMAIN t : j.name = n /\ Publishes(t[j])}
<1>1. P(tb) = P(ub)
  BY DEF SamePublished
<1>2. \A k \in P(ub) : HostOf(n, ub[k]) = HostOf(n, tb[k])
  BY <1>1 DEF SamePublished, HostOf
<1>3. Surviving(tb, n) = {HostOf(n, tb[k]) : k \in P(tb)} /\ Surviving(ub, n) = {HostOf(n, ub[k]) : k \in P(ub)}
  BY DEF Surviving
<1> HIDE DEF P
<1> QED
  BY <1>1, <1>2, <1>3

\* Whatever service of a name publishes, the host is usable and has that name.
LEMMA SurvivorsAreUsable ==
    ASSUME NEW tb, DOMAIN tb \subseteq ServiceKeys, tb \in [DOMAIN tb -> Services], NEW n \in ServiceNames
    PROVE  \A h \in Surviving(tb, n) : h \in UsableHosts /\ h.name = n
<1> TAKE h \in Surviving(tb, n)
<1>1. PICK k \in DOMAIN tb : k.name = n /\ Publishes(tb[k]) /\ h = HostOf(n, tb[k])
  BY DEF Surviving
<1>2. tb[k].meta \in Metadata \cup {BadMetadata} /\ tb[k].addresses \in SUBSET Addresses
  <2>1. tb[k] \in Services
    OBVIOUS
  <2> QED
    BY <2>1 DEF Services
<1> QED
  BY <1>1, <1>2, PublishedIsUsable

\* Telling the tracker of one name settles that name and leaves the others settled.
LEMMA NameSettles ==
    ASSUME DOMAIN table \subseteq ServiceKeys, DOMAIN table' \subseteq ServiceKeys,
           Settled, NEW name \in ServiceNames, OthersKept(name),
           \A k \in ServiceKeys : k.name # name =>
             /\ k \in DOMAIN table' <=> k \in DOMAIN table
             /\ k \in DOMAIN table => table'[k] = table[k],
           \/ Alive(tracker', name) /\ tracker'[name].host \in Surviving(table', name)
           \/ ~ Alive(tracker', name) /\ Surviving(table', name) = {}
    PROVE  Settled'
<1>1. ASSUME NEW n \in ServiceNames PROVE SettledName(table', tracker', ghost', n)
  <2>1. CASE n = name
    BY <2>1 DEF SettledName
  <2>2. CASE n # name
    <3>1. SamePublished(table, table', n)
      BY <2>2 DEF SamePublished
    <3>2. Surviving(table', n) = Surviving(table, n)
      BY <3>1, SurvivingSame
    <3>3. Quiet(table', n) => Quiet(table, n)
      BY <2>2 DEF Quiet
    <3>4. /\ Alive(tracker', n) => Alive(tracker, n) /\ tracker'[n].host = tracker[n].host
          /\ n \in ghost.orphans => n \in ghost'.orphans
      BY <2>2 DEF OthersKept
    <3>5. SettledName(table, tracker, ghost, n)
      BY DEF Settled
    <3> QED
      BY <3>2, <3>3, <3>4, <3>5 DEF SettledName
  <2> QED
    BY <2>1, <2>2
<1>2. ASSUME NEW k \in DOMAIN table', Publishes(table'[k]), ~ table'[k].dirty
      PROVE  OnList(tracker', ghost', k.name)
  <2>1. CASE k.name = name
    <3>1. HostOf(name, table'[k]) \in Surviving(table', name)
      BY <1>2, <2>1 DEF Surviving
    <3> QED
      BY <2>1, <3>1 DEF OnList
  <2>2. CASE k.name # name
    <3>1. k \in DOMAIN table /\ table'[k] = table[k] /\ k.name \in ServiceNames \ {name}
      BY <2>2 DEF ServiceNames
    <3>2. OnList(tracker, ghost, k.name)
      BY <1>2, <3>1 DEF Settled, KeptUp
    <3> QED
      BY <3>1, <3>2 DEF OthersKept
  <2> QED
    BY <2>1, <2>2
<1>3. KeptUp(table', tracker', ghost')
  BY <1>2 DEF KeptUp
<1> QED
  BY <1>1, <1>3 DEF Settled

\* A change of the table the tracker need not hear of leaves every name settled: it hides no
\* publishing service and what it changes is marked dirty.
LEMMA TableMoves ==
    ASSUME DOMAIN table \subseteq ServiceKeys, DOMAIN table' \subseteq ServiceKeys, Settled, UNCHANGED <<tracker, ghost>>,
           \A n \in ServiceNames : Quiet(table', n) => Quiet(table, n) /\ SamePublished(table, table', n),
           \A k \in DOMAIN table' : (Publishes(table'[k]) /\ ~ table'[k].dirty) =>
              k \in DOMAIN table /\ Publishes(table[k]) /\ ~ table[k].dirty
    PROVE  Settled'
<1>1. ASSUME NEW n \in ServiceNames PROVE SettledName(table', tracker', ghost', n)
  <2>1. CASE Quiet(table', n)
    <3>1. Surviving(table', n) = Surviving(table, n)
      BY <2>1, SurvivingSame
    <3> QED
      BY <2>1, <3>1 DEF Settled, SettledName
  <2>2. CASE ~ Quiet(table', n)
    BY <2>2 DEF SettledName
  <2> QED
    BY <2>1, <2>2
<1>2. KeptUp(table', tracker', ghost')
  BY DEF Settled, KeptUp
<1> QED
  BY <1>1, <1>2 DEF Settled

\* The browser moves on and tells nobody anything new.
LEMMA BrowserMoves ==
    ASSUME BrowserInv, UNCHANGED <<table, tracker, ghost>>, BrowserShape', PendingShape', StoppedIsAnError',
           browser'.backend = browser.backend,
           browser'.phase = "exited" \/ (browser.phase # "exited" /\ browser'.phase # "receive")
              \/ browser'.phase = browser.phase,
           browser'.phase = "poll" => browser.phase = "poll",
           browser.backend = "mdns" => browser'.phase \in {"receive", "exited"}
    PROVE  BrowserInv'
<1>1. DiscoveryShape'
  BY DEF BrowserInv, DiscoveryShape, GhostShape, TableShape, TrackerShape
<1>2. Settled => Settled'
  BY DEF Settled, SettledName, KeptUp
<1>3. AppleInv'
  BY <1>2 DEF BrowserInv, AppleInv
<1>4. MdnsInv'
  BY DEF BrowserInv, MdnsInv, OnList, Alive
<1> QED
  BY <1>1, <1>3, <1>4 DEF BrowserInv

\* poll returned: the browse socket is looked at next.
LEMMA PollReturnsKeeps == ASSUME BrowserInv, PollReturns PROVE BrowserInv' /\ browser'.backend = browser.backend
<1>1. /\ BrowserShape' /\ browser'.backend = browser.backend /\ browser.phase = "poll" /\ browser'.phase = "browse"
  BY DEF PollReturns, Phase, InPhase, BrowserInv, DiscoveryShape, BrowserShape
<1>2. PendingShape' /\ UNCHANGED <<table, tracker, ghost>>
  BY DEF PollReturns, BrowserInv, DiscoveryShape, PendingShape
<1>3. StoppedIsAnError' /\ (browser.backend # "mdns")
  BY <1>1 DEF StoppedIsAnError, InPhase, BrowserInv, MdnsInv
<1> QED
  BY <1>1, <1>2, <1>3, BrowserMoves

\* browse_callback only queues an operation or records an error.
LEMMA BrowseCallbackKeeps == ASSUME BrowserInv, BrowseCallback PROVE BrowserInv' /\ browser'.backend = browser.backend
<1>1. /\ BrowserShape' /\ browser'.backend = browser.backend /\ browser.phase = "browse" /\ browser'.phase = "browse"
      /\ UNCHANGED <<table, tracker, ghost>> /\ PendingShape'
  <2>1. browser.phase = "browse" /\ UNCHANGED <<table, tracker, ghost>>
    BY DEF BrowseCallback, InPhase
  <2>2. CASE \E k \in ServiceKeys :
               LET known == k \in browser.announced IN
               /\ pending' = Append(pending, [type |-> IF known THEN "removed" ELSE "added", key |-> k])
               /\ browser' = [browser EXCEPT !.fired = TRUE, !.announced = IF known THEN @ \ {k} ELSE @ \cup {k}]
    <3>1. PICK k \in ServiceKeys :
               /\ pending' = Append(pending, [type |-> IF k \in browser.announced THEN "removed" ELSE "added", key |-> k])
               /\ browser' = [browser EXCEPT !.fired = TRUE,
                     !.announced = IF k \in browser.announced THEN @ \ {k} ELSE @ \cup {k}]
      BY <2>2
    <3>2. BrowserShape' /\ browser'.backend = browser.backend /\ browser'.phase = browser.phase
      BY <3>1 DEF BrowserInv, DiscoveryShape, BrowserShape
    <3> DEFINE op == [type |-> IF k \in browser.announced THEN "removed" ELSE "added", key |-> k]
    <3>3. op \in [type : {"added", "removed"}, key : ServiceKeys]
      OBVIOUS
    <3>4. pending' = Append(pending, op)
      BY <3>1
    <3> HIDE DEF op
    <3>5. PendingShape'
      BY <3>3, <3>4, AppendProperties DEF BrowserInv, DiscoveryShape, PendingShape
    <3> QED
      BY <2>1, <3>2, <3>5
  <2>3. CASE (\E e \in {"backend", "policy"} : browser' = [browser EXCEPT !.fired = TRUE, !.callbackError = e]) /\ UNCHANGED pending
    BY <2>1, <2>3 DEF BrowserInv, DiscoveryShape, BrowserShape, PendingShape
  <2> QED
    BY <2>2, <2>3 DEF BrowseCallback
<1>2. StoppedIsAnError' /\ (browser.backend # "mdns")
  BY <1>1 DEF StoppedIsAnError, InPhase, BrowserInv, MdnsInv
<1> QED
  BY <1>1, <1>2, BrowserMoves

\* The end of a browse round, which may clear the last error.
LEMMA BrowseDoneKeeps == ASSUME BrowserInv, BrowseDone PROVE BrowserInv' /\ browser'.backend = browser.backend
<1>1. /\ BrowserShape' /\ browser'.backend = browser.backend /\ browser.phase = "browse" /\ browser'.phase = "handles"
  BY DEF BrowseDone, Phase, InPhase, BrowserInv, DiscoveryShape, BrowserShape
<1>2. PendingShape' /\ UNCHANGED <<table, tracker, ghost>>
  BY DEF BrowseDone, BrowserInv, DiscoveryShape, PendingShape
<1>3. StoppedIsAnError' /\ (browser.backend # "mdns")
  BY <1>1 DEF StoppedIsAnError, InPhase, BrowserInv, MdnsInv
<1> QED
  BY <1>1, <1>2, <1>3, BrowserMoves

\* The end of a round of queries, back to the operations.
LEMMA HandlesDoneKeeps == ASSUME BrowserInv, HandlesDone PROVE BrowserInv' /\ browser'.backend = browser.backend
<1>1. /\ BrowserShape' /\ browser'.backend = browser.backend /\ browser.phase = "handles" /\ browser'.phase = "ops"
  BY DEF HandlesDone, Phase, InPhase, BrowserInv, DiscoveryShape, BrowserShape
<1>2. PendingShape' /\ UNCHANGED <<table, tracker, ghost>>
  BY DEF HandlesDone, BrowserInv, DiscoveryShape, PendingShape
<1>3. StoppedIsAnError' /\ (browser.backend # "mdns")
  BY <1>1 DEF StoppedIsAnError, InPhase, BrowserInv, MdnsInv
<1> QED
  BY <1>1, <1>2, <1>3, BrowserMoves

\* The owner drops the browser.
LEMMA DropBrowserKeeps == ASSUME BrowserInv, DropBrowser PROVE BrowserInv' /\ browser'.backend = browser.backend
<1>1. /\ BrowserShape' /\ browser'.backend = browser.backend /\ browser'.phase = browser.phase /\ browser'.dropped
  BY DEF DropBrowser, BrowserInv, DiscoveryShape, BrowserShape
<1>2. PendingShape' /\ UNCHANGED <<table, tracker, ghost>>
  BY DEF DropBrowser, BrowserInv, DiscoveryShape, PendingShape
<1>3. StoppedIsAnError' /\ (browser.backend = "mdns" => browser'.phase \in {"receive", "exited"})
  BY <1>1 DEF StoppedIsAnError, BrowserInv, MdnsInv
<1> QED
  BY <1>1, <1>2, <1>3, BrowserMoves

\* The mdns-sd worker ends once it was told to.
LEMMA MdnsStopsKeeps == ASSUME BrowserInv, MdnsStops PROVE BrowserInv' /\ browser'.backend = browser.backend
<1>1. /\ BrowserShape' /\ browser'.backend = browser.backend /\ browser'.phase = "exited" /\ browser'.dropped
  BY DEF MdnsStops, Phase, InPhase, BrowserInv, DiscoveryShape, BrowserShape
<1>2. PendingShape' /\ UNCHANGED <<table, tracker, ghost>>
  BY DEF MdnsStops, BrowserInv, DiscoveryShape, PendingShape
<1>3. StoppedIsAnError'
  BY <1>1 DEF StoppedIsAnError
<1> QED
  BY <1>1, <1>2, <1>3, BrowserMoves

\* A change of the table in one of the rounds of the Apple worker.
LEMMA AppleTableMoves ==
    ASSUME BrowserInv, browser.backend = "apple", browser.phase # "exited", UNCHANGED <<tracker, ghost, pending>>,
           BrowserShape', browser'.backend = browser.backend, browser'.phase \notin {"receive", "exited"}, TableShape',
           browser'.phase = "poll" => \A k \in DOMAIN table' : ~ table'[k].dirty /\ ~ table'[k].error,
           \A n \in ServiceNames : Quiet(table', n) => Quiet(table, n) /\ SamePublished(table, table', n),
           \A k \in DOMAIN table' : (Publishes(table'[k]) /\ ~ table'[k].dirty) =>
              k \in DOMAIN table /\ Publishes(table[k]) /\ ~ table[k].dirty
    PROVE  BrowserInv'
<1>1. DiscoveryShape'
  BY DEF BrowserInv, DiscoveryShape, GhostShape, PendingShape, TrackerShape
<1>2. Settled /\ DOMAIN table \subseteq ServiceKeys /\ DOMAIN table' \subseteq ServiceKeys
  BY DEF BrowserInv, DiscoveryShape, AppleInv, TableShape
<1>3. Settled'
  BY <1>2, TableMoves
<1>4. AppleInv' /\ MdnsInv' /\ StoppedIsAnError'
  BY <1>3 DEF AppleInv, MdnsInv, StoppedIsAnError, InPhase
<1> QED
  BY <1>1, <1>4 DEF BrowserInv

\* One service of the table changes.
LEMMA ServiceChanges ==
    ASSUME TableShape, NEW k \in DOMAIN table, NEW s \in Services, table' = [table EXCEPT ![k] = s]
    PROVE  /\ TableShape' /\ DOMAIN table' = DOMAIN table /\ table'[k] = s
           /\ \A j \in DOMAIN table \ {k} : table'[j] = table[j]
<1>1. DOMAIN table' = DOMAIN table /\ table' \in [DOMAIN table -> Services]
  BY DEF TableShape
<1> QED
  BY <1>1 DEF TableShape

\* The rounds of the Apple worker run on the Apple browser.
LEMMA AppleOnly ==
    ASSUME BrowserInv, browser.phase \in {"ops", "publish", "poll", "browse", "handles"}
    PROVE  browser.backend = "apple"
  BY DEF BrowserInv, DiscoveryShape, BrowserShape, MdnsInv

\* A service is marked dirty or failed, or only loses a query: the tracker hears of it later.
LEMMA ServiceIsMarked ==
    ASSUME BrowserInv, browser.backend = "apple", browser.phase = "handles", UNCHANGED <<tracker, ghost, pending, browser>>,
           NEW k \in DOMAIN table, NEW s \in Services, table' = [table EXCEPT ![k] = s],
           \/ s.dirty
           \/ /\ s.target = table[k].target /\ s.meta = table[k].meta /\ s.addresses = table[k].addresses
              /\ s.dirty = table[k].dirty /\ (s.error = table[k].error \/ s.error)
    PROVE  BrowserInv'
<1>1. /\ TableShape' /\ DOMAIN table' = DOMAIN table /\ table'[k] = s
      /\ \A j \in DOMAIN table \ {k} : table'[j] = table[j]
  BY ServiceChanges DEF BrowserInv, DiscoveryShape
<1>2. Publishes(s) /\ ~ s.dirty => Publishes(table[k]) /\ ~ table[k].dirty
  BY DEF Publishes
<1>3. \A j \in DOMAIN table' : (Publishes(table'[j]) /\ ~ table'[j].dirty) =>
              j \in DOMAIN table /\ Publishes(table[j]) /\ ~ table[j].dirty
  BY <1>1, <1>2
<1>4. ASSUME NEW n \in ServiceNames, Quiet(table', n) PROVE Quiet(table, n) /\ SamePublished(table, table', n)
  <2>1. CASE k.name = n
    <3>1. ~ s.dirty /\ ~ s.error
      BY <1>1, <1>4, <2>1 DEF Quiet
    <3>2. Publishes(s) <=> Publishes(table[k])
      BY <3>1 DEF Publishes
    <3>3. Quiet(table, n)
      BY <1>1, <1>4, <3>1 DEF Quiet
    <3> QED
      BY <1>1, <3>1, <3>2, <3>3 DEF SamePublished
  <2>2. CASE k.name # n
    BY <1>1, <1>4, <2>2 DEF Quiet, SamePublished
  <2> QED
    BY <2>1, <2>2
<1>5. /\ BrowserShape' /\ browser'.backend = browser.backend /\ browser'.phase \notin {"receive", "exited", "poll"}
      /\ browser.phase # "exited"
  BY DEF BrowserInv, DiscoveryShape, BrowserShape
<1> QED
  BY <1>1, <1>3, <1>4, <1>5, AppleTableMoves

\* resolve_callback: a new state marked dirty, or an error.
LEMMA ResolveCallbackKeeps ==
    ASSUME BrowserInv, NEW k \in ServiceKeys, ResolveCallback(k)
    PROVE  BrowserInv' /\ browser'.backend = browser.backend
<1>1. k \in DOMAIN table /\ browser.phase = "handles" /\ UNCHANGED <<browser, pending, tracker, ghost>>
  BY DEF ResolveCallback, InPhase
<1>2. table[k] \in Services /\ browser.backend = "apple"
  BY <1>1, AppleOnly DEF BrowserInv, DiscoveryShape, TableShape
<1>3. CASE \E m \in Metadata : table' = [table EXCEPT ![k] = [@ EXCEPT !.target = TRUE, !.meta = m, !.dirty = TRUE]]
  <2>1. PICK m \in Metadata : table' = [table EXCEPT ![k] = [@ EXCEPT !.target = TRUE, !.meta = m, !.dirty = TRUE]]
    BY <1>3
  <2>2. PICK s : s = [table[k] EXCEPT !.target = TRUE, !.meta = m, !.dirty = TRUE]
    OBVIOUS
  <2>3. s \in Services /\ s.dirty
    BY <1>2, <2>2 DEF Services
  <2>4. table' = [table EXCEPT ![k] = s]
    BY <2>1, <2>2
  <2> QED
    BY <1>1, <1>2, <2>3, <2>4, ServiceIsMarked
<1>4. CASE table' = [table EXCEPT ![k].error = TRUE]
  <2>1. PICK s : s = [table[k] EXCEPT !.error = TRUE]
    OBVIOUS
  <2>2. /\ s \in Services /\ s.error /\ s.target = table[k].target /\ s.meta = table[k].meta
        /\ s.addresses = table[k].addresses /\ s.dirty = table[k].dirty
    BY <1>2, <2>1 DEF Services
  <2>3. table' = [table EXCEPT ![k] = s]
    BY <1>4, <2>1
  <2> QED
    BY <1>1, <1>2, <2>2, <2>3, ServiceIsMarked
<1> QED
  BY <1>3, <1>4 DEF ResolveCallback

\* addr_callback: an address comes or goes, marked dirty.
LEMMA AddressCallbackKeeps ==
    ASSUME BrowserInv, NEW k \in ServiceKeys, AddressCallback(k)
    PROVE  BrowserInv' /\ browser'.backend = browser.backend
<1>1. k \in DOMAIN table /\ browser.phase = "handles" /\ UNCHANGED <<browser, pending, tracker, ghost>>
  BY DEF AddressCallback, InPhase
<1>2. table[k] \in Services /\ browser.backend = "apple"
  BY <1>1, AppleOnly DEF BrowserInv, DiscoveryShape, TableShape
<1> DEFINE a(kind) == [kind |-> kind, scope |-> IF kind = "local6" THEN EffectiveScope(k.interface) ELSE 0]
           after(kind) == IF a(kind) \in table[k].addresses THEN table[k].addresses \ {a(kind)}
                          ELSE table[k].addresses \cup {a(kind)}
<1>3. PICK kind \in AddressKinds : table' = [table EXCEPT ![k] = [@ EXCEPT !.addresses = after(kind), !.dirty = TRUE]]
  BY DEF AddressCallback
<1>4. a(kind) \in Addresses
  BY DiscoveryAssumption DEF Addresses, EffectiveScope
<1>5. PICK addresses : addresses = after(kind)
  OBVIOUS
<1>6. addresses \in SUBSET Addresses
  <2> HIDE DEF a
  <2> QED
    BY <1>2, <1>4, <1>5 DEF Services
<1>7. table' = [table EXCEPT ![k] = [table[k] EXCEPT !.addresses = addresses, !.dirty = TRUE]]
  BY <1>3, <1>5
<1> HIDE DEF a, after
<1>8. PICK s : s = [table[k] EXCEPT !.addresses = addresses, !.dirty = TRUE]
  OBVIOUS
<1>9. s \in Services /\ s.dirty
  BY <1>2, <1>6, <1>8 DEF Services
<1>10. table' = [table EXCEPT ![k] = s]
  BY <1>7, <1>8
<1> QED
  BY <1>1, <1>2, <1>9, <1>10, ServiceIsMarked

\* A query whose socket closed is dropped.
LEMMA HandleDiesKeeps ==
    ASSUME BrowserInv, NEW k \in ServiceKeys, HandleDies(k)
    PROVE  BrowserInv' /\ browser'.backend = browser.backend
<1>1. k \in DOMAIN table /\ browser.phase = "handles" /\ UNCHANGED <<browser, pending, tracker, ghost>>
  BY DEF HandleDies, InPhase
<1>2. table[k] \in Services /\ browser.backend = "apple"
  BY <1>1, AppleOnly DEF BrowserInv, DiscoveryShape, TableShape
<1>3. PICK s : /\ table' = [table EXCEPT ![k] = s]
               /\ s = [table[k] EXCEPT !.resolve = FALSE] \/ s = [table[k] EXCEPT !.addr = FALSE]
  BY DEF HandleDies
<1>4. /\ s \in Services /\ s.target = table[k].target /\ s.meta = table[k].meta
      /\ s.addresses = table[k].addresses /\ s.dirty = table[k].dirty /\ s.error = table[k].error
  BY <1>2, <1>3 DEF Services
<1> QED
  BY <1>1, <1>2, <1>3, <1>4, ServiceIsMarked

\* Every name was told of: the worker opens address queries and polls with nothing unsaid.
LEMMA OpenQueriesKeeps ==
    ASSUME BrowserInv, NEW fails \in BOOLEAN, OpenQueries(fails)
    PROVE  BrowserInv' /\ browser'.backend = browser.backend
<1>1. /\ browser.phase = "publish" /\ UNCHANGED <<tracker, ghost, pending>>
      /\ \A n \in ServiceNames : Touched(n) = {}
      /\ table' = [k \in DOMAIN table |-> [table[k] EXCEPT !.addr = @ \/ (table[k].target /\ ~ fails)]]
  BY DEF OpenQueries, InPhase
<1>2. browser.backend = "apple" /\ TableShape
  BY <1>1, AppleOnly DEF BrowserInv, DiscoveryShape
<1>3. /\ BrowserShape' /\ browser'.backend = browser.backend /\ browser'.phase = "poll"
  BY DEF OpenQueries, Phase, BrowserInv, DiscoveryShape, BrowserShape
<1>4. DOMAIN table' = DOMAIN table
  BY <1>1
<1>5. \A k \in DOMAIN table :
        /\ table'[k] \in Services
        /\ table'[k].target = table[k].target /\ table'[k].meta = table[k].meta
        /\ table'[k].addresses = table[k].addresses /\ table'[k].dirty = table[k].dirty /\ table'[k].error = table[k].error
  <2> TAKE k \in DOMAIN table
  <2>1. table[k] \in Services /\ (table[k].addr \/ (table[k].target /\ ~ fails)) \in BOOLEAN
    BY <1>2 DEF TableShape
  <2>2. PICK b \in BOOLEAN : table'[k] = [table[k] EXCEPT !.addr = b]
    BY <1>1, <2>1
  <2> QED
    BY <2>1, <2>2 DEF Services
<1>6. TableShape'
  BY <1>1, <1>2, <1>4, <1>5 DEF TableShape
<1>7. \A k \in DOMAIN table : ~ table[k].dirty /\ ~ table[k].error
  BY <1>1, <1>2 DEF Touched, TableShape, ServiceNames
<1>8. \A n \in ServiceNames : Quiet(table', n) => Quiet(table, n) /\ SamePublished(table, table', n)
  BY <1>4, <1>5 DEF Quiet, SamePublished, Publishes
<1>9. \A k \in DOMAIN table' : (Publishes(table'[k]) /\ ~ table'[k].dirty) =>
              k \in DOMAIN table /\ Publishes(table[k]) /\ ~ table[k].dirty
  BY <1>4, <1>5 DEF Publishes
<1>10. \A k \in DOMAIN table' : ~ table'[k].dirty /\ ~ table'[k].error
  BY <1>4, <1>5, <1>7
<1> QED
  BY <1>1, <1>2, <1>3, <1>6, <1>8, <1>9, <1>10, AppleTableMoves

\* Expired services go without a word: they publish nothing, and a host listed through one of
\* them is accounted for as an orphan.
LEMMA ExpireServicesKeeps ==
    ASSUME BrowserInv, ExpireServices
    PROVE  BrowserInv' /\ browser'.backend = browser.backend
<1> DEFINE gone == {k \in DOMAIN table : Expired(table[k])}
           orphaned == {n \in {k.name : k \in gone} : Listed(tracker, n) /\ tracker[n].host \notin Surviving(table', n)}
<1>1. /\ browser.phase = "ops" /\ UNCHANGED <<tracker, pending>>
      /\ table' = [k \in DOMAIN table \ gone |-> table[k]]
      /\ ghost' = [ghost EXCEPT !.orphans = @ \cup orphaned]
  BY DEF ExpireServices, InPhase
<1>2. browser.backend = "apple" /\ TableShape /\ Settled
  BY <1>1, AppleOnly DEF BrowserInv, DiscoveryShape, AppleInv
<1>3. BrowserShape' /\ browser'.backend = browser.backend /\ browser'.phase = "publish"
  BY DEF ExpireServices, Phase, BrowserInv, DiscoveryShape, BrowserShape
<1>4. DOMAIN table' = DOMAIN table \ gone /\ \A k \in DOMAIN table' : table'[k] = table[k]
  BY <1>1
<1>5. orphaned \subseteq ServiceNames
  BY <1>2 DEF ServiceNames, TableShape
<1>6. /\ GhostShape' /\ ghost'.lost = ghost.lost /\ ghost'.orphans = ghost.orphans \cup orphaned
  <2> HIDE DEF orphaned
  <2> QED
    BY <1>1, <1>5 DEF BrowserInv, DiscoveryShape, GhostShape
<1>7. TableShape'
  <2>1. DOMAIN table' \subseteq DOMAIN table
    BY <1>4
  <2>2. IsFiniteSet(DOMAIN table') /\ Cardinality(DOMAIN table') <= Cardinality(DOMAIN table)
    BY <1>2, <2>1, FS_Subset DEF TableShape
  <2>3. Cardinality(DOMAIN table') \in Nat /\ Cardinality(DOMAIN table) \in Nat /\ MaxServices \in Nat
    BY <1>2, <2>2, FS_CardinalityType, DiscoveryAssumption DEF TableShape
  <2>4. table' \in [DOMAIN table' -> Services]
    BY <1>1, <1>2, <1>4 DEF TableShape
  <2> QED
    BY <1>2, <2>1, <2>2, <2>3, <2>4 DEF TableShape
<1>8. \A k \in gone : ~ Publishes(table[k])
  BY DEF Expired, Publishes
<1>9. \A n \in ServiceNames : SamePublished(table, table', n)
  BY <1>4, <1>8 DEF SamePublished
<1>10. ASSUME NEW n \in ServiceNames PROVE SettledName(table', tracker', ghost', n)
  <2>1. Surviving(table', n) = Surviving(table, n)
    BY <1>2, <1>7, <1>9, SurvivingSame DEF TableShape
  <2>2. CASE \E k \in gone : k.name = n
    <3>1. Listed(tracker, n) => tracker[n].host \in Surviving(table', n) \/ n \in orphaned
      BY <2>2
    <3> QED
      BY <1>1, <1>6, <3>1 DEF SettledName, Alive, Listed
  <2>3. CASE ~ \E k \in gone : k.name = n
    <3>1. Quiet(table', n) => Quiet(table, n)
      BY <1>4, <2>3 DEF Quiet
    <3>2. SettledName(table, tracker, ghost, n)
      BY <1>2 DEF Settled
    <3> QED
      BY <1>1, <1>6, <2>1, <3>1, <3>2 DEF SettledName
  <2> QED
    BY <2>2, <2>3
<1>11. KeptUp(table', tracker', ghost')
  BY <1>1, <1>2, <1>4, <1>6 DEF Settled, KeptUp, OnList
<1>12. DiscoveryShape'
  BY <1>1, <1>3, <1>6, <1>7 DEF BrowserInv, DiscoveryShape, PendingShape, TrackerShape
<1>13. AppleInv' /\ MdnsInv' /\ StoppedIsAnError'
  BY <1>2, <1>3, <1>10, <1>11 DEF AppleInv, MdnsInv, StoppedIsAnError, InPhase, Settled
<1> QED
  BY <1>3, <1>12, <1>13 DEF BrowserInv

\* What the worker tells the tracker of one name: a host some service of it publishes, or that
\* there is none.
LEMMA NameIsTold ==
    ASSUME BrowserInv, browser.backend = "apple", browser.phase \in {"ops", "publish"}, UNCHANGED browser, TableShape', PendingShape',
           NEW name \in ServiceNames,
           \A k \in ServiceKeys : k.name # name =>
             /\ k \in DOMAIN table' <=> k \in DOMAIN table
             /\ k \in DOMAIN table => table'[k] = table[k],
           \/ Surviving(table', name) = {} /\ Untrack(name)
           \/ \E h \in Surviving(table', name) : Track(h)
    PROVE  BrowserInv' /\ browser'.backend = browser.backend
<1>1. TrackerShape /\ GhostShape /\ Settled /\ DOMAIN table \subseteq ServiceKeys /\ DOMAIN table' \subseteq ServiceKeys
  BY DEF BrowserInv, DiscoveryShape, AppleInv, TableShape
<1>2. /\ TrackerShape' /\ GhostShape' /\ OthersKept(name)
      /\ \/ Alive(tracker', name) /\ tracker'[name].host \in Surviving(table', name)
         \/ ~ Alive(tracker', name) /\ Surviving(table', name) = {}
  <2>1. CASE Surviving(table', name) = {} /\ Untrack(name)
    BY <1>1, <2>1, UntrackStep
  <2>2. CASE \E h \in Surviving(table', name) : Track(h)
    <3>1. PICK h \in Surviving(table', name) : Track(h)
      BY <2>2
    <3>2. h \in UsableHosts /\ h.name = name
      BY <1>1, SurvivorsAreUsable DEF TableShape
    <3> QED
      BY <1>1, <3>1, <3>2, TrackStep
  <2> QED
    BY <2>1, <2>2
<1>3. Settled'
  BY <1>1, <1>2, NameSettles
<1>4. DiscoveryShape'
  BY <1>2 DEF BrowserInv, DiscoveryShape, BrowserShape
<1>5. AppleInv' /\ MdnsInv' /\ StoppedIsAnError'
  BY <1>3 DEF BrowserInv, AppleInv, MdnsInv, StoppedIsAnError, InPhase
<1> QED
  BY <1>4, <1>5 DEF BrowserInv

\* The pending tracker operations of a name, in whatever order: the last one names a host that
\* some interface publishes, or none does.
LEMMA PublishServiceKeeps ==
    ASSUME BrowserInv, NEW name \in ServiceNames, PublishService(name)
    PROVE  BrowserInv' /\ browser'.backend = browser.backend
<1> DEFINE said == {HostOf(name, table[k]) : k \in {j \in Touched(name) : table[j].dirty /\ Publishes(table[j])}}
           retracts == \E k \in Touched(name) : table[k].error \/ ~ Publishes(table[k])
           next == said \cup (IF retracts THEN Others(table, name) ELSE {})
<1>1. /\ browser.phase = "publish" /\ Touched(name) # {} /\ UNCHANGED <<browser, pending>>
      /\ table' = [k \in DOMAIN table |-> IF k \in Touched(name) THEN [table[k] EXCEPT !.dirty = FALSE, !.error = FALSE] ELSE table[k]]
      /\ IF next = {} THEN Untrack(name) ELSE \E h \in next : Track(h)
  BY DEF PublishService, InPhase
<1>2. browser.backend = "apple" /\ TableShape
  BY <1>1, AppleOnly DEF BrowserInv, DiscoveryShape
<1>3. DOMAIN table' = DOMAIN table
  BY <1>1
<1>4. \A k \in DOMAIN table :
        /\ table'[k] \in Services
        /\ table'[k].target = table[k].target /\ table'[k].meta = table[k].meta
        /\ table'[k].addresses = table[k].addresses
        /\ k.name # name => table'[k] = table[k]
  <2> TAKE k \in DOMAIN table
  <2>1. table[k] \in Services
    BY <1>2 DEF TableShape
  <2>2. CASE k \in Touched(name)
    <3>1. table'[k] = [table[k] EXCEPT !.dirty = FALSE, !.error = FALSE] /\ k.name = name
      BY <1>1, <2>2 DEF Touched
    <3> QED
      BY <2>1, <3>1 DEF Services
  <2>3. CASE k \notin Touched(name)
    BY <1>1, <2>1, <2>3
  <2> QED
    BY <2>2, <2>3
<1>5. TableShape'
  BY <1>1, <1>2, <1>3, <1>4 DEF TableShape
<1>6. Surviving(table', name) = Surviving(table, name)
  <2>1. SamePublished(table, table', name)
    BY <1>3, <1>4 DEF SamePublished, Publishes
  <2> QED
    BY <1>2, <1>5, <2>1, SurvivingSame DEF TableShape
<1>7. next \subseteq Surviving(table', name)
  <2>1. said \subseteq Surviving(table, name)
    BY DEF Surviving, Touched
  <2> QED
    BY <1>6, <2>1 DEF Others
<1>8. next = {} => Surviving(table', name) = {}
  <2>1. SUFFICES ASSUME next = {} PROVE retracts
    BY <1>6 DEF Others
  <2>2. PICK k \in Touched(name) : TRUE
    BY <1>1
  <2>3. table[k].dirty \/ table[k].error
    BY DEF Touched
  <2>4. ~ (table[k].dirty /\ Publishes(table[k]))
    BY <2>1
  <2> QED
    BY <2>3, <2>4
<1>9. PendingShape'
  BY <1>1 DEF BrowserInv, DiscoveryShape, PendingShape
<1>10. \/ Surviving(table', name) = {} /\ Untrack(name)
       \/ \E h \in Surviving(table', name) : Track(h)
  <2> HIDE DEF next
  <2> QED
    BY <1>1, <1>7, <1>8
<1>11. \A k \in ServiceKeys : k.name # name =>
             /\ k \in DOMAIN table' <=> k \in DOMAIN table
             /\ k \in DOMAIN table => table'[k] = table[k]
  BY <1>3, <1>4
<1>12. browser.phase \in {"ops", "publish"} /\ UNCHANGED browser
  BY <1>1
<1> HIDE DEF said, retracts, next
<1> QED
  BY <1>2, <1>5, <1>9, <1>10, <1>11, <1>12, NameIsTold

\* A service just added publishes nothing and is not dirty.
LEMMA FreshServiceTyped == FreshService \in Services /\ ~ Publishes(FreshService) /\ ~ FreshService.dirty /\ ~ FreshService.error
  BY DEF FreshService, Services, Publishes

\* A service appears or goes: a retraction on one interface leaves the host another one has.
LEMMA ApplyBrowseOpKeeps ==
    ASSUME BrowserInv, NEW fails \in BOOLEAN, ApplyBrowseOp(fails)
    PROVE  BrowserInv' /\ browser'.backend = browser.backend
<1> DEFINE op == Head(pending)
           rest == [k \in DOMAIN table \ {op.key} |-> table[k]]
<1>1. /\ browser.phase = "ops" /\ pending # <<>> /\ UNCHANGED browser /\ pending' = Tail(pending)
  BY DEF ApplyBrowseOp, InPhase
<1>2. browser.backend = "apple" /\ TableShape /\ PendingShape
  BY <1>1, AppleOnly DEF BrowserInv, DiscoveryShape
<1>3. PendingShape' /\ op \in [type : {"added", "removed"}, key : ServiceKeys]
  BY <1>1, <1>2, HeadTailProperties DEF PendingShape
<1>4. op.key \in ServiceKeys /\ op.key.name \in ServiceNames /\ op.type \in {"added", "removed"}
  BY <1>3 DEF ServiceNames
<1>5. browser.phase \in {"ops", "publish"}
  BY <1>1
<1>6. CASE /\ op.type = "removed" /\ op.key \in DOMAIN table
           /\ table' = rest
           /\ IF Others(rest, op.key.name) = {} THEN Untrack(op.key.name)
              ELSE \E h \in Others(rest, op.key.name) : Track(h)
  <2>1. DOMAIN table' = DOMAIN table \ {op.key} /\ \A k \in DOMAIN table' : table'[k] = table[k]
    BY <1>6
  <2>2. TableShape'
    <3>1. IsFiniteSet(DOMAIN table') /\ Cardinality(DOMAIN table') <= Cardinality(DOMAIN table)
      BY <1>2, <2>1, FS_Subset DEF TableShape
    <3>2. Cardinality(DOMAIN table') \in Nat /\ Cardinality(DOMAIN table) \in Nat /\ MaxServices \in Nat
      BY <1>2, <3>1, FS_CardinalityType, DiscoveryAssumption DEF TableShape
    <3>3. table' \in [DOMAIN table' -> Services]
      BY <1>2, <1>6, <2>1 DEF TableShape
    <3> QED
      BY <1>2, <2>1, <3>1, <3>2, <3>3 DEF TableShape
  <2>3. \/ Surviving(table', op.key.name) = {} /\ Untrack(op.key.name)
        \/ \E h \in Surviving(table', op.key.name) : Track(h)
    BY <1>6 DEF Others
  <2>4. \A k \in ServiceKeys : k.name # op.key.name =>
             /\ k \in DOMAIN table' <=> k \in DOMAIN table
             /\ k \in DOMAIN table => table'[k] = table[k]
    BY <2>1
  <2> HIDE DEF op, rest
  <2> QED
    BY <1>1, <1>2, <1>3, <1>4, <1>5, <2>2, <2>3, <2>4, NameIsTold
<1>7. CASE /\ op.type = "added" /\ op.key \notin DOMAIN table /\ Cardinality(DOMAIN table) < MaxServices /\ ~ fails
           /\ table' = [k \in DOMAIN table \cup {op.key} |-> IF k = op.key THEN FreshService ELSE table[k]]
           /\ UNCHANGED <<tracker, ghost>>
  <2>1. /\ DOMAIN table' = DOMAIN table \cup {op.key} /\ table'[op.key] = FreshService
        /\ \A k \in DOMAIN table : table'[k] = table[k]
    BY <1>7
  <2>2. TableShape'
    <3>1. IsFiniteSet(DOMAIN table') /\ Cardinality(DOMAIN table') = Cardinality(DOMAIN table) + 1
      BY <1>2, <1>7, <2>1, FS_AddElement DEF TableShape
    <3>2. Cardinality(DOMAIN table) \in Nat /\ MaxServices \in Nat
      BY <1>2, FS_CardinalityType, DiscoveryAssumption DEF TableShape
    <3>3. \A k \in DOMAIN table' : table'[k] \in Services
      BY <1>2, <2>1, FreshServiceTyped DEF TableShape
    <3>4. table' \in [DOMAIN table' -> Services]
      BY <1>7, <2>1, <3>3
    <3> QED
      BY <1>2, <1>4, <1>7, <2>1, <3>1, <3>2, <3>4 DEF TableShape
  <2>3. \A n \in ServiceNames : SamePublished(table, table', n) /\ (Quiet(table', n) => Quiet(table, n))
    BY <1>7, <2>1, FreshServiceTyped DEF SamePublished, Quiet
  <2>4. \A k \in DOMAIN table' : (Publishes(table'[k]) /\ ~ table'[k].dirty) =>
              k \in DOMAIN table /\ Publishes(table[k]) /\ ~ table[k].dirty
    BY <2>1, FreshServiceTyped
  <2>5. /\ DOMAIN table \subseteq ServiceKeys /\ DOMAIN table' \subseteq ServiceKeys /\ Settled
    BY <1>1, <1>2, <2>2 DEF TableShape, BrowserInv, AppleInv
  <2>6. Settled'
    BY <1>7, <2>3, <2>4, <2>5, TableMoves
  <2>7. DiscoveryShape'
    BY <1>1, <1>3, <1>7, <2>2 DEF BrowserInv, DiscoveryShape, BrowserShape, GhostShape, TrackerShape
  <2>8. AppleInv' /\ MdnsInv' /\ StoppedIsAnError'
    BY <1>1, <1>2, <2>6 DEF AppleInv, MdnsInv, StoppedIsAnError, InPhase
  <2> QED
    BY <1>1, <2>7, <2>8 DEF BrowserInv
<1>8. CASE UNCHANGED <<table, tracker, ghost>>
  <2>1. BrowserShape' /\ StoppedIsAnError' /\ browser'.backend = browser.backend /\ browser'.phase = browser.phase
    BY <1>1 DEF BrowserInv, DiscoveryShape, BrowserShape, StoppedIsAnError, InPhase
  <2> QED
    BY <1>1, <1>2, <1>3, <1>8, <2>1, BrowserMoves
<1>9. \/ /\ op.type = "removed" /\ op.key \in DOMAIN table
         /\ table' = rest
         /\ IF Others(rest, op.key.name) = {} THEN Untrack(op.key.name)
            ELSE \E h \in Others(rest, op.key.name) : Track(h)
      \/ /\ op.type = "added" /\ op.key \notin DOMAIN table /\ Cardinality(DOMAIN table) < MaxServices /\ ~ fails
         /\ table' = [k \in DOMAIN table \cup {op.key} |-> IF k = op.key THEN FreshService ELSE table[k]]
         /\ UNCHANGED <<tracker, ghost>>
      \/ UNCHANGED <<table, tracker, ghost>>
  BY DEF ApplyBrowseOp
<1> QED
  BY <1>6, <1>7, <1>8, <1>9

\* The worker ends: told to, or with an error and what it had found taken back.
LEMMA PollEndsKeeps ==
    ASSUME BrowserInv, PollEnds
    PROVE  BrowserInv' /\ browser'.backend = browser.backend
<1>1. /\ browser.phase = "poll" /\ UNCHANGED pending
      /\ table' = IF browser'.phase = "exited" THEN <<>> ELSE table
  BY DEF PollEnds, InPhase
<1>2. browser.backend = "apple"
  BY <1>1, AppleOnly
<1>3. /\ BrowserShape' /\ browser'.backend = browser.backend /\ browser'.phase = "exited"
      /\ browser'.dropped \/ browser'.error # "none"
      /\ UNCHANGED ghost
      /\ UNCHANGED tracker \/ tracker' = Keep(tracker, DOMAIN tracker \ {k.name : k \in DOMAIN table})
  BY DEF PollEnds, Phase, BrowserInv, DiscoveryShape, BrowserShape
<1>4. TrackerShape'
  <2>1. CASE UNCHANGED tracker
    BY <2>1 DEF BrowserInv, DiscoveryShape, TrackerShape
  <2>2. CASE tracker' = Keep(tracker, DOMAIN tracker \ {k.name : k \in DOMAIN table})
    <3> DEFINE names == DOMAIN tracker \ {k.name : k \in DOMAIN table}
    <3>1. KeptIn(tracker, tracker', names)
      <4> HIDE DEF names
      <4>1. tracker' = Keep(tracker, names)
        BY <2>2 DEF names
      <4> QED
        BY <4>1, KeepKeeps DEF BrowserInv, DiscoveryShape, TrackerShape
    <3> HIDE DEF names
    <3>2. Cardinality(DOMAIN tracker) \in Nat /\ Cardinality(DOMAIN tracker') \in Nat /\ Cardinality(DOMAIN tracker) <= MaxTracked
      BY <3>1, FS_CardinalityType DEF KeptIn, TrackerTable, BrowserInv, DiscoveryShape, TrackerShape
    <3> QED
      BY <3>1, <3>2, DiscoveryAssumption DEF KeptIn, TrackerShape
  <2> QED
    BY <1>3, <2>1, <2>2
<1>5. TableShape'
  <2>1. DOMAIN table' = {} /\ table' \in [DOMAIN table' -> Services]
    BY <1>1, <1>3
  <2> QED
    BY <2>1, FS_EmptySet, DiscoveryAssumption DEF TableShape
<1>6. DiscoveryShape'
  BY <1>1, <1>3, <1>4, <1>5 DEF BrowserInv, DiscoveryShape, GhostShape, PendingShape
<1>7. AppleInv' /\ MdnsInv' /\ StoppedIsAnError'
  BY <1>2, <1>3 DEF AppleInv, MdnsInv, StoppedIsAnError, InPhase
<1> QED
  BY <1>3, <1>6, <1>7 DEF BrowserInv

\* A service grows old, or the least recently seen host ages off the list.
LEMMA TimePassesKeeps ==
    ASSUME BrowserInv, TimePasses
    PROVE  BrowserInv' /\ browser'.backend = browser.backend
<1>1. browser.phase # "exited" /\ UNCHANGED <<browser, pending>>
  BY DEF TimePasses, InPhase
<1>2. CASE /\ \E k \in DOMAIN table : ~ table[k].old /\ table' = [table EXCEPT ![k].old = TRUE]
           /\ UNCHANGED <<tracker, ghost>>
  <2>1. PICK k \in DOMAIN table : table' = [table EXCEPT ![k].old = TRUE]
    BY <1>2
  <2>2. browser.backend = "apple" /\ TableShape
    BY <2>1 DEF BrowserInv, MdnsInv, DiscoveryShape, BrowserShape
  <2>3. PICK s : s = [table[k] EXCEPT !.old = TRUE]
    OBVIOUS
  <2>4. /\ s \in Services /\ s.target = table[k].target /\ s.meta = table[k].meta
        /\ s.addresses = table[k].addresses /\ s.dirty = table[k].dirty /\ s.error = table[k].error
    BY <2>2, <2>3 DEF Services, TableShape
  <2>5. table' = [table EXCEPT ![k] = s]
    BY <2>1, <2>3
  <2>6. /\ TableShape' /\ DOMAIN table' = DOMAIN table /\ table'[k] = s
        /\ \A j \in DOMAIN table \ {k} : table'[j] = table[j]
    BY <2>2, <2>4, <2>5, ServiceChanges
  <2>7. \A n \in ServiceNames : Quiet(table', n) => Quiet(table, n) /\ SamePublished(table, table', n)
    BY <2>4, <2>6 DEF Quiet, SamePublished, Publishes
  <2>8. \A j \in DOMAIN table' : (Publishes(table'[j]) /\ ~ table'[j].dirty) =>
              j \in DOMAIN table /\ Publishes(table[j]) /\ ~ table[j].dirty
    BY <2>4, <2>6 DEF Publishes
  <2>9. browser'.phase = "poll" => \A j \in DOMAIN table' : ~ table'[j].dirty /\ ~ table'[j].error
    BY <1>1, <2>2, <2>4, <2>6 DEF BrowserInv, AppleInv
  <2>10. /\ BrowserShape' /\ browser'.backend = browser.backend /\ browser'.phase \notin {"receive", "exited"}
    BY <1>1, <2>2 DEF BrowserInv, DiscoveryShape, BrowserShape, AppleInv
  <2> QED
    BY <1>1, <1>2, <2>2, <2>6, <2>7, <2>8, <2>9, <2>10, AppleTableMoves
<1>3. CASE \E n \in DOMAIN tracker :
            /\ ~ tracker[n].aged /\ \A m \in DOMAIN tracker : n \in tracker[m].newer => tracker[m].aged
            /\ tracker' = [tracker EXCEPT ![n].aged = TRUE]
            /\ ghost' = [ghost EXCEPT !.lost = @ \cup {n}]
            /\ UNCHANGED table
  <2>1. PICK n \in DOMAIN tracker :
            /\ tracker' = [tracker EXCEPT ![n].aged = TRUE]
            /\ ghost' = [ghost EXCEPT !.lost = @ \cup {n}]
            /\ UNCHANGED table
    BY <1>3
  <2>2. TrackerShape /\ GhostShape /\ n \in ServiceNames
    BY DEF BrowserInv, DiscoveryShape, TrackerShape, TrackerTable
  <2>3. PICK e : e = [tracker[n] EXCEPT !.aged = TRUE]
    OBVIOUS
  <2>4. /\ e \in [host : UsableHosts, aged : BOOLEAN, newer : SUBSET ServiceNames]
        /\ e.host = tracker[n].host /\ e.newer = tracker[n].newer /\ e.aged
    BY <2>2, <2>3 DEF TrackerShape, TrackerTable
  <2>5. tracker' = [tracker EXCEPT ![n] = e]
    BY <2>1, <2>3
  <2>6. /\ DOMAIN tracker' = DOMAIN tracker /\ tracker'[n] = e
        /\ \A m \in DOMAIN tracker \ {n} : tracker'[m] = tracker[m]
    BY <2>2, <2>5
  <2>7. TrackerShape'
    <3>1. tracker' \in [DOMAIN tracker' -> [host : UsableHosts, aged : BOOLEAN, newer : SUBSET ServiceNames]]
      BY <2>2, <2>4, <2>5, <2>6 DEF TrackerShape, TrackerTable
    <3> QED
      BY <2>2, <2>4, <2>6, <3>1 DEF TrackerShape, TrackerTable
  <2>8. GhostShape' /\ ghost'.lost = ghost.lost \cup {n} /\ ghost'.orphans = ghost.orphans /\ ghost'.last = ghost.last
    BY <2>1, <2>2 DEF GhostShape
  <2>9. \A m \in ServiceNames :
          /\ Alive(tracker', m) => Alive(tracker, m) /\ tracker'[m].host = tracker[m].host
          /\ OnList(tracker, ghost, m) => OnList(tracker', ghost', m)
    BY <2>4, <2>6, <2>8 DEF Alive, OnList
  <2>10. \A m \in DOMAIN tracker' : tracker'[m].host = tracker[m].host
    BY <2>4, <2>6
  <2>11. DiscoveryShape'
    BY <1>1, <2>1, <2>7, <2>8 DEF BrowserInv, DiscoveryShape, BrowserShape, PendingShape, TableShape
  <2>12. Settled => Settled'
    <3>1. \A k \in DOMAIN table : k.name \in ServiceNames
      BY DEF BrowserInv, DiscoveryShape, TableShape, ServiceNames
    <3> QED
      BY <2>1, <2>8, <2>9, <3>1 DEF Settled, SettledName, KeptUp
  <2>13. AppleInv'
    BY <1>1, <2>1, <2>12 DEF BrowserInv, AppleInv
  <2>14. MdnsInv'
    BY <1>1, <2>1, <2>6, <2>8, <2>9, <2>10 DEF BrowserInv, MdnsInv
  <2>15. StoppedIsAnError'
    BY <1>1 DEF StoppedIsAnError, InPhase
  <2> QED
    BY <1>1, <2>11, <2>13, <2>14, <2>15 DEF BrowserInv
<1> QED
  BY <1>2, <1>3 DEF TimePasses

\* The mdns-sd browser's list after one name was told or taken back.
LEMMA MdnsTold ==
    ASSUME BrowserInv, browser.phase = "receive", UNCHANGED <<browser, pending, table>>, TrackerShape', GhostShape',
           NEW name \in ServiceNames, OthersKept(name), \A n \in ServiceNames \ {name} : ghost'.last[n] = ghost.last[n],
           \A n \in DOMAIN tracker' : n # name => n \in DOMAIN tracker /\ tracker'[n].host = tracker[n].host,
           \/ name \in DOMAIN tracker' /\ Alive(tracker', name) /\ tracker'[name].host = ghost'.last[name]
           \/ name \notin DOMAIN tracker' /\ ghost'.last[name] = NoHost
    PROVE  BrowserInv' /\ browser'.backend = browser.backend
<1>1. browser.backend = "mdns"
  BY DEF BrowserInv, DiscoveryShape, BrowserShape, AppleInv
<1>2. DiscoveryShape'
  BY DEF BrowserInv, DiscoveryShape, BrowserShape, PendingShape, TableShape
<1>3. \A n \in DOMAIN tracker' : tracker'[n].host = ghost'.last[n]
  BY <1>1 DEF BrowserInv, MdnsInv, TrackerShape, TrackerTable
<1>4. \A n \in ServiceNames : ghost'.last[n] # NoHost => OnList(tracker', ghost', n)
  BY <1>1 DEF BrowserInv, MdnsInv, OthersKept, OnList
<1>5. MdnsInv' /\ AppleInv' /\ StoppedIsAnError'
  BY <1>1, <1>3, <1>4 DEF BrowserInv, MdnsInv, AppleInv, StoppedIsAnError, InPhase
<1> QED
  BY <1>2, <1>5 DEF BrowserInv

\* parse_service_metadata_scoped of a resolved service yields a usable host.
LEMMA MdnsHostTyped ==
    ASSUME NEW m \in Metadata, NEW kinds \in SUBSET AddressKinds, NEW n \in ServiceNames, Publishes(MdnsHost(m, kinds))
    PROVE  HostOf(n, MdnsHost(m, kinds)) \in UsableHosts /\ HostOf(n, MdnsHost(m, kinds)).name = n
<1>1. AttachScopes(kinds) \in SUBSET Addresses
  BY DiscoveryAssumption DEF AttachScopes, Addresses
<1>2. MdnsHost(m, kinds).meta \in Metadata \cup {BadMetadata} /\ MdnsHost(m, kinds).addresses \in SUBSET Addresses
  BY <1>1 DEF MdnsHost
<1> QED
  BY <1>2, PublishedIsUsable

\* ServiceResolved: the host is listed with what the service said last.
LEMMA MdnsResolvedKeeps ==
    ASSUME BrowserInv, MdnsResolved
    PROVE  BrowserInv' /\ browser'.backend = browser.backend
<1>1. browser.phase = "receive" /\ UNCHANGED <<browser, pending, table>>
  BY DEF MdnsResolved, InPhase
<1>2. PICK n \in ServiceNames, m \in Metadata, kinds \in SUBSET AddressKinds :
         IF Publishes(MdnsHost(m, kinds))
            THEN /\ tracker' = Upsert(tracker, HostOf(n, MdnsHost(m, kinds)))
                 /\ ghost' = [ghost EXCEPT
                      !.lost = (@ \cup Forgot(tracker, Upsert(tracker, HostOf(n, MdnsHost(m, kinds))), HostOf(n, MdnsHost(m, kinds)))) \ {n},
                      !.last[n] = HostOf(n, MdnsHost(m, kinds))]
            ELSE UNCHANGED <<tracker, ghost>>
  BY DEF MdnsResolved
<1>3. CASE ~ Publishes(MdnsHost(m, kinds))
  <2>1. BrowserShape' /\ PendingShape' /\ StoppedIsAnError' /\ browser.backend = "mdns" /\ UNCHANGED <<table, tracker, ghost>>
    BY <1>1, <1>2, <1>3 DEF BrowserInv, DiscoveryShape, BrowserShape, PendingShape, StoppedIsAnError, InPhase, AppleInv
  <2> QED
    BY <1>1, <2>1, BrowserMoves
<1>4. CASE Publishes(MdnsHost(m, kinds))
  <2>1. PICK h : h = HostOf(n, MdnsHost(m, kinds))
    OBVIOUS
  <2>2. h \in UsableHosts /\ h.name = n
    BY <1>4, <2>1, MdnsHostTyped
  <2>3. /\ tracker' = Upsert(tracker, h)
        /\ ghost' = [ghost EXCEPT !.lost = (@ \cup Forgot(tracker, tracker', h)) \ {n}, !.last[n] = h]
    BY <1>2, <1>4, <2>1
  <2>4. TrackerShape /\ GhostShape
    BY DEF BrowserInv, DiscoveryShape
  <2>5. Forgot(tracker, tracker', h) \subseteq ServiceNames
    BY DEF Forgot
  <2>6. /\ GhostShape' /\ ghost'.lost = (ghost.lost \cup Forgot(tracker, tracker', h)) \ {h.name}
        /\ ghost'.orphans = ghost.orphans /\ ghost'.last = [ghost.last EXCEPT ![n] = h]
    BY <2>2, <2>3, <2>4, <2>5 DEF GhostShape
  <2>7. TrackerShape' /\ Alive(tracker', n) /\ tracker'[n].host = h /\ OthersKept(n)
    BY <2>2, <2>3, <2>4, <2>6, UpsertStep
  <2>8. UpsertedIn(tracker, tracker', h)
    BY <2>2, <2>3, <2>4, UpsertAdds DEF TrackerShape
  <2>9. \A k \in DOMAIN tracker' : k # n => k \in DOMAIN tracker /\ tracker'[k].host = tracker[k].host
    BY <2>2, <2>8 DEF UpsertedIn
  <2>10. ghost'.last[n] = h /\ \A k \in ServiceNames \ {n} : ghost'.last[k] = ghost.last[k]
    BY <2>4, <2>6 DEF GhostShape
  <2>11. n \in DOMAIN tracker'
    BY <2>7 DEF Alive
  <2> QED
    BY <1>1, <2>6, <2>7, <2>9, <2>10, <2>11, MdnsTold
<1> QED
  BY <1>3, <1>4

\* ServiceRemoved: the name goes.
LEMMA MdnsRemovedKeeps ==
    ASSUME BrowserInv, MdnsRemoved
    PROVE  BrowserInv' /\ browser'.backend = browser.backend
<1>1. browser.phase = "receive" /\ UNCHANGED <<browser, pending, table>>
  BY DEF MdnsRemoved, InPhase
<1>2. PICK n \in ServiceNames : Untrack(n)
  BY DEF MdnsRemoved
<1>3. TrackerShape /\ GhostShape
  BY DEF BrowserInv, DiscoveryShape
<1>4. /\ TrackerShape' /\ GhostShape' /\ ghost'.last[n] = NoHost
      /\ \A k \in ServiceNames \ {n} : ghost'.last[k] = ghost.last[k]
      /\ OthersKept(n)
  BY <1>2, <1>3, UntrackStep
<1>5. KeptIn(tracker, tracker', DOMAIN tracker \ {n})
  BY <1>2, <1>3, KeepKeeps DEF Untrack, DropKey, TrackerShape
<1>6. /\ n \notin DOMAIN tracker'
      /\ \A k \in DOMAIN tracker' : k # n => k \in DOMAIN tracker /\ tracker'[k].host = tracker[k].host
  BY <1>5 DEF KeptIn
<1> QED
  BY <1>1, <1>4, <1>6, MdnsTold

\* The daemon reports an error, or its channel closes and the list with it.
LEMMA MdnsErrorKeeps ==
    ASSUME BrowserInv, MdnsError
    PROVE  BrowserInv' /\ browser'.backend = browser.backend
<1>1. browser.phase = "receive" /\ UNCHANGED <<pending, table>> /\ browser.backend = "mdns"
  BY DEF MdnsError, InPhase, BrowserInv, DiscoveryShape, BrowserShape, AppleInv
<1>2. CASE browser' = [browser EXCEPT !.error = "backend"] /\ UNCHANGED <<tracker, ghost>>
  <2>1. /\ BrowserShape' /\ PendingShape' /\ browser'.backend = browser.backend /\ browser'.phase = browser.phase
        /\ browser'.error # "none"
    BY <1>1, <1>2 DEF BrowserInv, DiscoveryShape, BrowserShape, PendingShape
  <2>2. StoppedIsAnError'
    BY <2>1 DEF StoppedIsAnError
  <2> QED
    BY <1>1, <1>2, <2>1, <2>2, BrowserMoves
<1>3. CASE /\ browser' = [browser EXCEPT !.phase = "exited", !.error = "backend"]
           /\ tracker' = <<>>
           /\ ghost' = [ghost EXCEPT !.last = [n \in ServiceNames |-> NoHost]]
  <2>1. BrowserShape' /\ browser'.backend = browser.backend /\ browser'.phase = "exited" /\ browser'.error # "none"
    BY <1>3 DEF BrowserInv, DiscoveryShape, BrowserShape
  <2>2. GhostShape' /\ ghost'.last = [n \in ServiceNames |-> NoHost]
    BY <1>3 DEF BrowserInv, DiscoveryShape, GhostShape
  <2>3. DOMAIN tracker' = {} /\ tracker' \in [DOMAIN tracker' -> [host : UsableHosts, aged : BOOLEAN, newer : SUBSET ServiceNames]]
    BY <1>3
  <2>4. TrackerShape'
    BY <2>3, FS_EmptySet, DiscoveryAssumption DEF TrackerShape, TrackerTable
  <2>5. DiscoveryShape'
    BY <1>1, <2>1, <2>2, <2>4 DEF BrowserInv, DiscoveryShape, PendingShape, TableShape
  <2>6. AppleInv' /\ StoppedIsAnError'
    BY <1>1, <2>1 DEF AppleInv, StoppedIsAnError
  <2>7. MdnsInv'
    BY <1>1, <2>1, <2>2, <2>3 DEF MdnsInv, BrowserInv
  <2> QED
    BY <2>1, <2>5, <2>6, <2>7 DEF BrowserInv
<1> QED
  BY <1>2, <1>3 DEF MdnsError

\* Nothing of the browser changes.
LEMMA BrowserStands ==
    ASSUME BrowserInv, UNCHANGED <<browser, pending, table, tracker, ghost>>
    PROVE  BrowserInv'
<1>1. DiscoveryShape'
  BY DEF BrowserInv, DiscoveryShape, BrowserShape, GhostShape, PendingShape, TableShape, TrackerShape
<1>2. Settled => Settled'
  BY DEF Settled, SettledName, KeptUp
<1>3. AppleInv' /\ MdnsInv' /\ StoppedIsAnError'
  BY <1>2 DEF BrowserInv, AppleInv, MdnsInv, OnList, Alive, StoppedIsAnError, InPhase
<1> QED
  BY <1>1, <1>3 DEF BrowserInv

\* The advertisers move while the browser stands.
LEMMA AdvertiserNextKeeps ==
    ASSUME DiscoveryInv, AdvertiserNext
    PROVE  DiscoveryInv'
<1>1. UNCHANGED <<browser, pending, table, tracker, ghost, budget>>
  BY DEF AdvertiserNext, StartAdvertiser, StartTimesOut, RegistrationDies, AdvertiserEnds, AdvertiserJoined, DropAdvertiser,
         RegisterService, StartMdnsAdvertiser, DropMdnsAdvertiser
<1>2. BrowserInv'
  BY <1>1, BrowserStands DEF DiscoveryInv
<1>3. AdvertiserInv
  BY DEF DiscoveryInv
<1>4. AdvertiserInv'
  <2>1. CASE StartAdvertiser
    BY <1>3, <2>1 DEF StartAdvertiser, AdvertiserInv, Untouched
  <2>2. CASE StartTimesOut
    BY <1>3, <2>2 DEF StartTimesOut, AdvertiserInv
  <2>3. CASE RegistrationDies
    BY <1>3, <2>3 DEF RegistrationDies, AdvertiserInv
  <2>4. CASE AdvertiserEnds
    BY <1>3, <2>4 DEF AdvertiserEnds, AdvertiserInv
  <2>5. CASE AdvertiserJoined
    BY <1>3, <2>5 DEF AdvertiserJoined, AdvertiserInv
  <2>6. CASE DropAdvertiser
    BY <1>3, <2>6 DEF DropAdvertiser, AdvertiserInv
  <2>7. ASSUME NEW fails \in BOOLEAN, RegisterService(fails) PROVE AdvertiserInv'
    <3>1. CASE fails
      BY <1>3, <2>7, <3>1 DEF RegisterService, AdvertiserInv
    <3>2. CASE ~ fails
      BY <1>3, <2>7, <3>2 DEF RegisterService, AdvertiserInv
    <3> QED
      BY <3>1, <3>2
  <2>8. CASE StartMdnsAdvertiser
    BY <1>3, <2>8 DEF StartMdnsAdvertiser, AdvertiserInv, Untouched
  <2>9. CASE DropMdnsAdvertiser
    BY <1>3, <2>9 DEF DropMdnsAdvertiser, AdvertiserInv
  <2> QED
    BY <2>1, <2>2, <2>3, <2>4, <2>5, <2>6, <2>7, <2>8, <2>9 DEF AdvertiserNext
<1> QED
  BY <1>2, <1>4 DEF DiscoveryInv

\* Every step of the browsers keeps the invariant.
LEMMA BrowserNextKeeps ==
    ASSUME DiscoveryInv, BrowserNext, UNCHANGED advertiser
    PROVE  DiscoveryInv'
<1>1. BrowserInv' /\ browser'.backend = browser.backend
  <2>1. BrowserInv
    BY DEF DiscoveryInv
  <2>2. CASE ExpireServices \/ PollEnds \/ PollReturns \/ BrowseCallback \/ BrowseDone \/ HandlesDone
    BY <2>1, <2>2, ExpireServicesKeeps, PollEndsKeeps, PollReturnsKeeps, BrowseCallbackKeeps, BrowseDoneKeeps, HandlesDoneKeeps
  <2>3. CASE TimePasses \/ DropBrowser
    BY <2>1, <2>3, TimePassesKeeps, DropBrowserKeeps
  <2>4. CASE MdnsResolved \/ MdnsRemoved \/ MdnsError \/ MdnsStops
    BY <2>1, <2>4, MdnsResolvedKeeps, MdnsRemovedKeeps, MdnsErrorKeeps, MdnsStopsKeeps
  <2>5. CASE \E b \in BOOLEAN : ApplyBrowseOp(b) \/ OpenQueries(b)
    BY <2>1, <2>5, ApplyBrowseOpKeeps, OpenQueriesKeeps
  <2>6. CASE \E n \in ServiceNames : PublishService(n)
    BY <2>1, <2>6, PublishServiceKeeps
  <2>7. CASE \E k \in ServiceKeys : ResolveCallback(k) \/ AddressCallback(k) \/ HandleDies(k)
    BY <2>1, <2>7, ResolveCallbackKeeps, AddressCallbackKeeps, HandleDiesKeeps
  <2> QED
    BY <2>2, <2>3, <2>4, <2>5, <2>6, <2>7 DEF BrowserNext
<1>2. AdvertiserInv'
  BY <1>1 DEF DiscoveryInv, AdvertiserInv
<1> QED
  BY <1>1, <1>2 DEF DiscoveryInv

\* No step of a browser touches an advertiser.
LEMMA BrowserLeavesAdvertiser ==
    ASSUME BrowserNext
    PROVE  UNCHANGED advertiser
  BY DEF BrowserNext, ExpireServices, PollEnds, PollReturns, BrowseCallback, BrowseDone, HandlesDone, TimePasses, DropBrowser,
         MdnsResolved, MdnsRemoved, MdnsError, MdnsStops, ApplyBrowseOp, OpenQueries, PublishService, ResolveCallback,
         AddressCallback, HandleDies

\* The invariant holds where discovery starts.
LEMMA DiscoveryInitInv ==
    ASSUME DiscoveryInit
    PROVE  DiscoveryInv
<1>1. PICK b \in Backends :
         browser = [backend |-> b, phase |-> IF b = "apple" THEN "ops" ELSE "receive", announced |-> {}, error |-> "none",
                    callbackError |-> "none", fired |-> FALSE, dropped |-> FALSE]
  BY DEF DiscoveryInit
<1>2. BrowserShape /\ (browser.backend = "apple" => browser.phase = "ops") /\ (browser.backend = "mdns" => browser.phase = "receive")
  BY <1>1, DiscoveryAssumption DEF BrowserShape
<1>3. GhostShape /\ ghost.last = [n \in ServiceNames |-> NoHost]
  BY DEF DiscoveryInit, GhostShape
<1>4. /\ DOMAIN table = {} /\ DOMAIN tracker = {} /\ table \in [DOMAIN table -> Services]
      /\ tracker \in [DOMAIN tracker -> [host : UsableHosts, aged : BOOLEAN, newer : SUBSET ServiceNames]]
  BY DEF DiscoveryInit
<1>5. TableShape /\ TrackerShape
  BY <1>4, FS_EmptySet, DiscoveryAssumption DEF TableShape, TrackerShape, TrackerTable
<1>6. PendingShape
  BY DEF DiscoveryInit, PendingShape
<1>7. AppleInv /\ MdnsInv /\ StoppedIsAnError
  BY <1>2, <1>3, <1>4 DEF AppleInv, MdnsInv, StoppedIsAnError, InPhase, Settled, SettledName, KeptUp, Alive, BrowserShape
<1>8. AdvertiserInv
  BY DEF DiscoveryInit, AdvertiserInv, AdvertiserIdle
<1> QED
  BY <1>2, <1>3, <1>5, <1>6, <1>7, <1>8 DEF DiscoveryInv, BrowserInv, DiscoveryShape

\* The invariant implies the property.
LEMMA DiscoveryInvIsSafe ==
    ASSUME DiscoveryInv
    PROVE  DiscoverySafe
<1>1. DiscoveryShape /\ AppleInv /\ MdnsInv /\ StoppedIsAnError /\ AdvertiserInv
  BY DEF DiscoveryInv, BrowserInv
<1>2. \A h \in ShownHosts : h.name \in ServiceNames /\ Alive(tracker, h.name) /\ h = tracker[h.name].host /\ h \in UsableHosts
  <2> TAKE h \in ShownHosts
  <2>1. PICK n \in DOMAIN tracker : ~ tracker[n].aged /\ h = tracker[n].host
    BY DEF ShownHosts, Snapshot
  <2>2. n \in ServiceNames /\ tracker[n].host.name = n /\ tracker[n].host \in UsableHosts
    BY <1>1 DEF DiscoveryShape, TrackerShape, TrackerTable
  <2> QED
    BY <2>1, <2>2 DEF Alive
<1>3. \A n \in ServiceNames : Alive(tracker, n) => tracker[n].host \in ShownHosts /\ tracker[n].host.name = n
  BY <1>1 DEF Alive, ShownHosts, Snapshot, DiscoveryShape, TrackerShape, TrackerTable
<1>4. AppleListIsCurrent
  <2> SUFFICES ASSUME browser.backend = "apple", browser.phase = "poll"
      PROVE  /\ \A h \in ShownHosts : h \in Surviving(table, h.name) \/ h.name \in ghost.orphans
             /\ \A n \in ServiceNames : Surviving(table, n) # {} => (\E h \in ShownHosts : h.name = n) \/ n \in ghost.lost
    BY DEF AppleListIsCurrent, InPhase
  <2>1. Settled /\ \A k \in DOMAIN table : ~ table[k].dirty /\ ~ table[k].error
    BY <1>1 DEF AppleInv
  <2>2. \A n \in ServiceNames : Quiet(table, n)
    BY <2>1 DEF Quiet
  <2>3. \A h \in ShownHosts : h \in Surviving(table, h.name) \/ h.name \in ghost.orphans
    BY <1>2, <2>1, <2>2 DEF Settled, SettledName
  <2>4. ASSUME NEW n \in ServiceNames, Surviving(table, n) # {}
        PROVE  (\E h \in ShownHosts : h.name = n) \/ n \in ghost.lost
    <3>1. PICK k \in DOMAIN table : k.name = n /\ Publishes(table[k])
      BY <2>4 DEF Surviving
    <3>2. OnList(tracker, ghost, n)
      BY <2>1, <3>1 DEF Settled, KeptUp
    <3> QED
      BY <1>3, <3>2 DEF OnList
  <2> QED
    BY <2>3, <2>4
<1>5. MdnsListIsCurrent
  <2> SUFFICES ASSUME browser.backend = "mdns", NEW n \in ServiceNames
      PROVE  /\ \A h \in ShownHosts : h.name = n => h = ghost.last[n]
             /\ ghost.last[n] # NoHost => ghost.last[n] \in ShownHosts \/ n \in ghost.lost
    BY DEF MdnsListIsCurrent
  <2>1. /\ \A m \in DOMAIN tracker : tracker[m].host = ghost.last[m]
        /\ ghost.last[n] # NoHost => OnList(tracker, ghost, n)
    BY <1>1 DEF MdnsInv
  <2>2. \A h \in ShownHosts : h.name = n => h = ghost.last[n]
    BY <1>2, <2>1 DEF Alive
  <2>3. ghost.last[n] # NoHost => ghost.last[n] \in ShownHosts \/ n \in ghost.lost
    BY <1>3, <2>1 DEF OnList, Alive
  <2> QED
    BY <2>2, <2>3
<1>6. ListedAreUsable
  BY <1>2 DEF ListedAreUsable, UsableHosts
<1>7. AdvertiserIsFreed
  BY <1>1 DEF AdvertiserInv, AdvertiserIsFreed
<1>8. Cardinality(DOMAIN table) <= MaxServices /\ Cardinality(DOMAIN tracker) <= MaxTracked
  BY <1>1 DEF DiscoveryShape, TableShape, TrackerShape
<1> QED
  BY <1>1, <1>4, <1>5, <1>6, <1>7, <1>8 DEF DiscoverySafe

\* Discovery (AppleDnsServiceBrowser, MdnsSdBrowser, DiscoveryTracker, the advertisers): for any
\* services on any interfaces, any addresses and any limits, the list is what the network said
\* last, every host on it can be connected to, the tables keep their limits, a browser never
\* stops without an error and no advertiser leaves a callback into freed memory.
THEOREM DiscoveryStaysSafe == DiscoverySpec => []DiscoverySafe
<1>1. DiscoveryInit => DiscoveryInv
  BY DiscoveryInitInv
<1>2. DiscoveryInv /\ [DiscoveryNext]_discoveryVars => DiscoveryInv'
  <2> SUFFICES ASSUME DiscoveryInv, [DiscoveryNext]_discoveryVars PROVE DiscoveryInv'
    OBVIOUS
  <2>1. CASE AdvertiserNext
    BY <2>1, AdvertiserNextKeeps
  <2>2. CASE BrowserNext
    BY <2>2, BrowserNextKeeps, BrowserLeavesAdvertiser
  <2>3. CASE UNCHANGED discoveryVars
    <3>1. UNCHANGED <<browser, pending, table, tracker, ghost, advertiser, budget>>
      BY <2>3 DEF discoveryVars
    <3>2. BrowserInv'
      BY <3>1, BrowserStands DEF DiscoveryInv
    <3>3. AdvertiserInv'
      BY <3>1 DEF DiscoveryInv, AdvertiserInv
    <3> QED
      BY <3>2, <3>3 DEF DiscoveryInv
  <2> QED
    BY <2>1, <2>2, <2>3 DEF DiscoveryNext
<1>3. DiscoveryInv => DiscoverySafe
  BY DiscoveryInvIsSafe
<1> QED
  BY <1>1, <1>2, <1>3, PTL DEF DiscoverySpec
=============================================================================
