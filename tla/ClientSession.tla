---------------------------- MODULE ClientSession ----------------------------
(***************************************************************************)
(* One ClientSession of maho-app/src/session.rs and its threads:           *)
(*   user   connects (by PIN or with a stored pairing), starts the TCP     *)
(*          runtime, stops it, disconnects;                                *)
(*   sup    the supervisor of spawn_tcp_runtime, which reconnects by       *)
(*          itself after a failure worth retrying;                         *)
(*   gen    the worker of spawn_tcp_generation, sole reader of one TCP     *)
(*          connection;                                                    *)
(*   rcv    the thread that calls receive_udp_event.                       *)
(* Another thread may hold a SessionInterruptHandle.  Every stretch of     *)
(* code under one mutex, and every blocking call, is a step.  The host and *)
(* the network are the environment: they answer anything the client's      *)
(* code tells apart, or nothing until a timeout.                           *)
(*                                                                         *)
(* Connections are numbered; a handshake with its fresh salt starts a new  *)
(* generation of datagram keys, numbered too (MaxConn bounds both).        *)
(***************************************************************************)
EXTENDS Naturals

CONSTANT MaxConn      \* TCP connections that may succeed (bound)

ASSUME ClientSessionAssumption == MaxConn \in Nat \ {0}

VARIABLES
    cs,         \* SessionStateInner: phase, gen (session_salt), pairing, ended, frames
    cancelled,  \* the shared cancel flag
    tcp,        \* the TCP connection held, 0 if none
    owned,      \* tcp_runtime: a generation owns the connection
    media,      \* udp, udp_send, udp_receive: the generation each belongs to, 0 if none
    bridge,     \* the relay bridge runs and is the endpoint
    stored,     \* the trust of the record in the PairingStore, or "none"
    pc,         \* where each thread is
    call,       \* locals of the connect call of user and sup
    genConn,    \* the connection the generation was started on
    datagram,   \* rcv: the generation of the datagram in hand
    genEvents,  \* RuntimeEvents of the generation: error, ended, closed
    outEvents,  \* RuntimeEvents the user reads: error, ended, closed
    stops,      \* stop sent to sup, to gen; reconnecting; restore (of SessionRuntime::stop)
    past        \* history: grants (trusts the host granted), asked (the user cancelled), conns

clientVars == <<cs, cancelled, tcp, owned, media, bridge, stored, pc, call,
                genConn, datagram, genEvents, outEvents, stops, past>>

Trusts == {"owner", "guest", "guestOnce"}
Trust == Trusts \cup {"none"}
Phases == {"Disconnected", "Connecting", "AwaitingPairing", "AwaitingHandshakeAck", "Ready"}
Callers == {"user", "sup"}
Gens == 0 .. MaxConn
NoEvents == [error |-> "none", ended |-> FALSE, closed |-> FALSE]
\* How an attempt failed, as should_reconnect tells errors apart.
Errors == {"retry", "fatal"}
NoCall == [pin |-> FALSE, pref |-> "none", trust |-> "none", relayed |-> FALSE,
           trustCap |-> FALSE, error |-> "none"]
\* connect_with_psk keeps the tcp_runtime mutex while it dials.
Dialing == \E t \in Callers : pc[t] = "dialing"
\* receive_udp_event keeps the receiving cipher locked until the packet is handled.
CipherLocked == pc.rcv = "opened"

ClientTypeOK ==
    /\ cs \in [phase: Phases, gen: Gens, pairing: Trust, ended: BOOLEAN, frames: SUBSET Gens]
    /\ cancelled \in BOOLEAN /\ owned \in BOOLEAN /\ bridge \in BOOLEAN
    /\ tcp \in Gens /\ genConn \in Gens /\ datagram \in Gens
    /\ media \in [udp: Gens, send: Gens, recv: Gens]
    /\ stored \in Trust
    /\ stops \in [sup: BOOLEAN, gen: BOOLEAN, reconnecting: BOOLEAN, restore: BOOLEAN]
    /\ past.grants \subseteq Trusts

ClientInit ==
    /\ cs = [phase |-> "Disconnected", gen |-> 0, pairing |-> "none", ended |-> FALSE,
             frames |-> {}]
    /\ cancelled = FALSE /\ tcp = 0 /\ owned = FALSE /\ bridge = FALSE
    /\ media = [udp |-> 0, send |-> 0, recv |-> 0]
    /\ stored \in {"none", "owner", "guest"}
    /\ pc = [user |-> "idle", sup |-> "none", gen |-> "none", rcv |-> "idle"]
    /\ call = [t \in Callers |-> NoCall]
    /\ genConn = 0 /\ datagram = 0
    /\ genEvents = NoEvents /\ outEvents = NoEvents
    /\ stops = [sup |-> FALSE, gen |-> FALSE, reconnecting |-> FALSE, restore |-> FALSE]
    /\ past = [grants |-> IF stored = "none" THEN {} ELSE {stored}, asked |-> FALSE, conns |-> 0]

At(t, p) == pc[t] = p
Go(t, p) == pc' = [pc EXCEPT ![t] = p]
\* The call of t returns an error; what it already changed stays changed.
Fails(t, e) == Go(t, "failed") /\ call' = [call EXCEPT ![t] = [NoCall EXCEPT !.error = e]]

threadsOfRuntime == <<genConn, datagram, genEvents, outEvents, stops>>

(***************************************************************************)
(* Connecting: pair_with_pin_as and connect_with_pairing.                  *)
(***************************************************************************)
\* SessionInterruptHandle::interrupt wakes whoever waits: every wait below may end
\* once cancelled is set.
CallPair(pref) ==
    /\ At("user", "idle")
    /\ call' = [call EXCEPT !["user"] = [NoCall EXCEPT !.pin = TRUE, !.pref = pref]]
    /\ cs' = [cs EXCEPT !.ended = FALSE]
    /\ Go("user", "dial")
    /\ UNCHANGED <<cancelled, tcp, owned, media, bridge, stored, past, threadsOfRuntime>>

ConnectWithPairing(t, trust) ==
    /\ call' = [call EXCEPT ![t] = [NoCall EXCEPT !.trust = trust,
                                                  !.error = IF cancelled THEN "fatal" ELSE "none"]]
    /\ Go(t, IF cancelled THEN "failed" ELSE "dial")
    /\ cs' = IF cancelled THEN cs ELSE [cs EXCEPT !.ended = FALSE]
    /\ bridge' = (cancelled /\ bridge)
    /\ UNCHANGED <<cancelled, tcp, owned, media, stored, past, threadsOfRuntime>>

\* reconnect(pairing_id): the record comes from the store.
CallConnect == At("user", "idle") /\ stored # "none" /\ ConnectWithPairing("user", stored)

\* connect_with_psk up to the dial: refused while a generation owns the connection.
Dial(t) ==
    /\ At(t, "dial") /\ ~Dialing
    /\ IF owned \/ cancelled
       THEN Fails(t, "fatal") /\ UNCHANGED cs
       ELSE /\ cs' = [cs EXCEPT !.phase = "Connecting", !.frames = {}]
            /\ Go(t, "dialing") /\ UNCHANGED call
    /\ UNCHANGED <<cancelled, tcp, owned, media, bridge, stored, past, threadsOfRuntime>>

\* The socket and its TLS handshake; a dial that failed directly may try the relay.
Dialed(t) ==
    /\ At(t, "dialing")
    /\ \/ /\ ~cancelled /\ past.conns < MaxConn
          /\ past' = [past EXCEPT !.conns = @ + 1]
          /\ tcp' = past.conns + 1
          /\ cs' = [cs EXCEPT !.phase =
                       IF call[t].pin THEN "AwaitingPairing" ELSE "AwaitingHandshakeAck"]
          /\ Go(t, IF call[t].pin THEN "pair" ELSE "hello")
          /\ UNCHANGED call
       \/ /\ \E e \in Errors : call' = [call EXCEPT ![t].error = e]
          /\ Go(t, IF ~cancelled /\ ~call[t].pin /\ ~call[t].relayed THEN "relay" ELSE "failed")
          /\ UNCHANGED <<tcp, cs, past>>
    /\ UNCHANGED <<cancelled, owned, media, bridge, stored, threadsOfRuntime>>

\* open_relay_fallback: stops an earlier bridge, starts one and waits for it.
OpenRelayFallback(t) ==
    /\ At(t, "relay")
    /\ \/ /\ ~cancelled
          /\ bridge' = TRUE
          /\ call' = [call EXCEPT ![t].relayed = TRUE, ![t].error = "none"]
          /\ Go(t, "dial")
       \/ /\ bridge' = FALSE
          /\ UNCHANGED call
          /\ Go(t, "failed")
    /\ UNCHANGED <<cs, cancelled, tcp, owned, media, stored, past, threadsOfRuntime>>

\* PairingRequest and its answer: the key is only kept in the call.
Paired(t) ==
    /\ At(t, "pair")
    /\ \/ /\ ~cancelled /\ tcp # 0
          /\ call' = [call EXCEPT ![t].trust = "owner"]
          /\ Go(t, "hello")
       \/ \E e \in Errors : Fails(t, e)
    /\ UNCHANGED <<cs, cancelled, tcp, owned, media, bridge, stored, past,
                   threadsOfRuntime>>

\* begin_handshake_with_trust up to the Handshake packet: a fresh salt.
Hello(t) ==
    /\ At(t, "hello")
    /\ cs' = [cs EXCEPT !.gen = past.conns, !.pairing = call[t].trust,
                        !.phase = "AwaitingHandshakeAck"]
    /\ IF tcp = 0 THEN Fails(t, "retry") ELSE Go(t, "ack") /\ UNCHANGED call
    /\ UNCHANGED <<cancelled, tcp, owned, media, bridge, stored, past, threadsOfRuntime>>

\* HandshakeAck: whether trust was negotiated decides what is read next.
Acknowledged(t) ==
    /\ At(t, "ack")
    /\ \/ \E cap \in BOOLEAN :
            /\ ~cancelled /\ tcp # 0
            /\ cap \/ call[t].pref \in {"none", "owner"}
            /\ call' = [call EXCEPT ![t].trustCap = cap]
            /\ Go(t, IF cap THEN "trust" ELSE "store")
            /\ UNCHANGED cancelled
       \/ /\ ~cancelled /\ tcp # 0 /\ call[t].pref \notin {"none", "owner"}
          /\ cancelled' = TRUE
          /\ Fails(t, "fatal")
       \/ (\E e \in Errors : Fails(t, e)) /\ UNCHANGED cancelled
    /\ UNCHANGED <<cs, tcp, owned, media, bridge, stored, past, threadsOfRuntime>>

\* The host's decision about the trust; SessionEnded instead of it is final.
TrustGranted(t) ==
    /\ At(t, "trust")
    /\ \/ \E g \in Trusts :
            /\ ~cancelled /\ tcp # 0
            /\ call' = [call EXCEPT ![t].trust = g]
            /\ past' = [past EXCEPT !.grants = @ \cup {g}]
            /\ Go(t, "store")
            /\ UNCHANGED <<cs, cancelled>>
       \/ /\ ~cancelled /\ tcp # 0
          /\ cs' = [cs EXCEPT !.ended = TRUE]
          /\ cancelled' = TRUE
          /\ Fails(t, "fatal")
          /\ UNCHANGED past
       \/ (\E e \in Errors : Fails(t, e)) /\ UNCHANGED <<cs, cancelled, past>>
    /\ UNCHANGED <<tcp, owned, media, bridge, stored, threadsOfRuntime>>

\* What the store holds afterwards: a new pairing only once the host authorised it, a
\* known one only corrected, a guest of one session never.
StoreAfter(c) ==
    IF c.trust = "guestOnce" THEN stored
    ELSE IF c.pref # "none" THEN c.trust
    ELSE IF c.trustCap /\ stored # "none" THEN c.trust
    ELSE stored

Stored(t) ==
    /\ At(t, "store")
    /\ \/ /\ stored' = StoreAfter(call[t])
          /\ past' = [past EXCEPT !.grants =
                        IF call[t].trustCap THEN @ ELSE @ \cup {call[t].trust}]
          /\ cs' = [cs EXCEPT !.pairing = call[t].trust]
          /\ \/ Go(t, "install") /\ UNCHANGED call
             \/ Fails(t, "fatal")      \* the host cannot register UDP
       \/ Fails(t, "fatal") /\ UNCHANGED <<stored, cs, past>>    \* the file failed
    /\ UNCHANGED <<cancelled, tcp, owned, media, bridge, threadsOfRuntime>>

\* The media socket and the two ciphers are installed one mutex at a time.
InstallUdp(t) ==
    /\ At(t, "install")
    /\ media' = [media EXCEPT !.udp = cs.gen, !.send = cs.gen]
    /\ Go(t, "cipher")
    /\ UNCHANGED <<cs, cancelled, tcp, owned, bridge, stored, call, past, threadsOfRuntime>>

InstallCipher(t) ==
    /\ At(t, "cipher") /\ ~CipherLocked
    /\ media' = [media EXCEPT !.recv = cs.gen]
    /\ Go(t, "ready")
    /\ UNCHANGED <<cs, cancelled, tcp, owned, bridge, stored, call, past,
                   threadsOfRuntime>>

BecomeReady(t) ==
    /\ At(t, "ready")
    /\ cs' = [cs EXCEPT !.phase = "Ready"]
    /\ Go(t, "ok")
    /\ UNCHANGED <<cancelled, tcp, owned, media, bridge, stored, call, past,
                   threadsOfRuntime>>

Connecting(t) ==
    \/ Dial(t) \/ Dialed(t) \/ OpenRelayFallback(t) \/ Paired(t) \/ Hello(t) \/ Acknowledged(t)
    \/ TrustGranted(t) \/ Stored(t) \/ InstallUdp(t) \/ InstallCipher(t) \/ BecomeReady(t)

(***************************************************************************)
(* The user's thread and the interrupt handle.                             *)
(***************************************************************************)
Returned ==
    /\ pc.user \in {"ok", "failed"}
    /\ Go("user", IF At("user", "ok") THEN "connected" ELSE "idle")
    /\ call' = [call EXCEPT !["user"] = NoCall]
    /\ UNCHANGED <<cs, cancelled, tcp, owned, media, bridge, stored, past, threadsOfRuntime>>

\* Another thread's interrupt().
Interrupt ==
    /\ ~past.asked
    /\ cancelled' = TRUE
    /\ past' = [past EXCEPT !.asked = TRUE]
    /\ UNCHANGED <<cs, tcp, owned, media, bridge, stored, pc, call, threadsOfRuntime>>

\* spawn_tcp_generation claims the connection for a new worker.
CanSpawn == cs.phase = "Ready" /\ ~owned /\ tcp # 0
SpawnTcpGeneration ==
    /\ CanSpawn
    /\ owned' = TRUE /\ genConn' = tcp /\ genEvents' = NoEvents

\* spawn_tcp_runtime: the first generation and the supervisor, or an error.
SpawnTcpRuntime ==
    /\ At("user", "connected") /\ ~Dialing
    /\ \/ /\ SpawnTcpGeneration
          /\ pc' = [pc EXCEPT !["user"] = "running", !["sup"] = "loop", !["gen"] = "run"]
          /\ outEvents' = NoEvents
          /\ stops' = [stops EXCEPT !.sup = FALSE, !.gen = FALSE, !.reconnecting = FALSE]
       \/ ~CanSpawn /\ Go("user", "idle") /\ UNCHANGED <<owned, genConn, genEvents, outEvents, stops>>
    /\ UNCHANGED <<cs, cancelled, tcp, media, bridge, stored, call, datagram, past>>

\* Mutant: stop only asks, and does not interrupt the reconnect.
StopRuntimeWithoutSignal ==
    /\ At("user", "running")
    /\ stops' = [stops EXCEPT !.restore = FALSE]
    /\ UNCHANGED cancelled
    /\ Go("user", "joining")
    /\ UNCHANGED <<cs, tcp, owned, media, bridge, stored, call, genConn, datagram,
                   genEvents, outEvents, past>>

\* SessionRuntime::stop: an automatic reconnect in flight is interrupted, and the flag
\* taken back once the supervisor is joined, unless it was set before.
StopRuntime ==
    /\ At("user", "running")
    /\ LET abort == stops.reconnecting /\ ~cancelled IN
       /\ stops' = [stops EXCEPT !.sup = TRUE, !.restore = abort]
       /\ cancelled' = (cancelled \/ abort)
    /\ Go("user", "joining")
    /\ UNCHANGED <<cs, tcp, owned, media, bridge, stored, call, genConn, datagram,
                   genEvents, outEvents, past>>

Joined ==
    /\ At("user", "joining") /\ At("sup", "done")
    /\ cancelled' = (cancelled /\ ~stops.restore)
    /\ stops' = [stops EXCEPT !.restore = FALSE]
    /\ Go("user", "idle")
    /\ UNCHANGED <<cs, tcp, owned, media, bridge, stored, call, genConn, datagram,
                   genEvents, outEvents, past>>

\* disconnect(), one mutex after the other; the session object is not used again.
Disconnect ==
    /\ pc.user \in {"connected", "running"}
    /\ bridge' = FALSE /\ cancelled' = TRUE
    /\ past' = [past EXCEPT !.asked = TRUE]
    /\ cs' = [cs EXCEPT !.phase = "Disconnected", !.frames = {},
                        !.pairing = IF @ = "guestOnce" THEN "none" ELSE @]
    /\ Go("user", IF At("user", "running") THEN "closingRunning" ELSE "closing")
    /\ UNCHANGED <<tcp, owned, media, stored, call, threadsOfRuntime>>

Disconnected ==
    /\ pc.user \in {"closing", "closingRunning"} /\ ~CipherLocked
    /\ media' = [udp |-> 0, send |-> 0, recv |-> 0]
    /\ tcp' = 0
    /\ Go("user", IF At("user", "closingRunning") THEN "running" ELSE "closed")
    /\ UNCHANGED <<cs, cancelled, owned, bridge, stored, call, past, threadsOfRuntime>>

(***************************************************************************)
(* The supervisor.                                                         *)
(***************************************************************************)
\* Set by someone other than the host's end of the session.
CancelledByUser == cancelled /\ ~cs.ended

Leave == Go("sup", "leave") /\ stops' = [stops EXCEPT !.gen = TRUE, !.reconnecting = FALSE]

SupervisorEvent ==
    /\ At("sup", "loop")
    /\ \/ /\ stops.sup \/ CancelledByUser
          /\ Leave /\ UNCHANGED outEvents
       \/ /\ ~stops.sup /\ ~CancelledByUser /\ genEvents.ended
          /\ outEvents' = [outEvents EXCEPT !.ended = TRUE]
          /\ Leave
       \/ /\ ~stops.sup /\ ~CancelledByUser /\ ~genEvents.ended
          /\ genEvents.error # "none" \/ genEvents.closed
          /\ stops' = [stops EXCEPT !.gen = TRUE]
          /\ Go("sup", "judge") /\ UNCHANGED outEvents
    /\ UNCHANGED <<cs, cancelled, tcp, owned, media, bridge, stored, call, genConn,
                   datagram, genEvents, past>>

EligibleEvenIfEnded ==   \* Mutant: the end of the session by the host is not looked at.
    /\ genEvents.error # "fatal"
    /\ cs.pairing # "none"

\* What a failure of the generation leads to, once its worker is joined.
Eligible ==
    /\ ~cancelled /\ ~cs.ended
    /\ genEvents.error # "fatal"
    /\ cs.pairing \notin {"none", "guestOnce"}

SupervisorJudges ==
    /\ At("sup", "judge") /\ At("gen", "done")
    /\ \/ /\ Eligible
          /\ stops' = [stops EXCEPT !.reconnecting = TRUE]
          /\ Go("sup", "delay") /\ UNCHANGED outEvents
       \/ /\ ~Eligible
          /\ outEvents' = IF CancelledByUser THEN outEvents
                          ELSE [outEvents EXCEPT !.error = "reported"]
          /\ Leave
    /\ UNCHANGED <<cs, cancelled, tcp, owned, media, bridge, stored, call, genConn,
                   datagram, genEvents, past>>

GiveUp == Leave /\ outEvents' = [outEvents EXCEPT !.error = "reported"]

\* The pause before an attempt: over 60 s in all it gives up, a stop or cancel ends it.
SupervisorWaits ==
    /\ At("sup", "delay")
    /\ \/ /\ ~stops.sup /\ ~cancelled
          /\ ConnectWithPairing("sup", cs.pairing)
       \/ /\ GiveUp
          /\ UNCHANGED <<cs, cancelled, tcp, owned, media, bridge, stored, call,
                         genConn, datagram, genEvents, past>>

\* An attempt returned: a new generation, another attempt, or the end.
SupervisorAttempted ==
    /\ \/ /\ At("sup", "ok") /\ ~Dialing /\ SpawnTcpGeneration
          /\ pc' = [pc EXCEPT !["sup"] = "loop", !["gen"] = "run"]
          /\ stops' = [stops EXCEPT !.gen = FALSE, !.reconnecting = FALSE]
          /\ UNCHANGED outEvents
       \/ /\ At("sup", "ok") /\ ~CanSpawn /\ GiveUp
          /\ UNCHANGED <<owned, genConn, genEvents>>
       \/ /\ At("sup", "failed") /\ call["sup"].error = "retry"
          /\ Go("sup", "delay")
          /\ UNCHANGED <<owned, genConn, genEvents, stops, outEvents>>
       \/ /\ At("sup", "failed") /\ call["sup"].error = "fatal" /\ GiveUp
          /\ UNCHANGED <<owned, genConn, genEvents>>
    /\ call' = [call EXCEPT !["sup"] = NoCall]
    /\ UNCHANGED <<cs, cancelled, tcp, media, bridge, stored, datagram, past>>

SupervisorLeaves ==
    /\ At("sup", "leave") /\ At("gen", "done")
    /\ outEvents' = [outEvents EXCEPT !.closed = TRUE]
    /\ Go("sup", "done")
    /\ UNCHANGED <<cs, cancelled, tcp, owned, media, bridge, stored, call, genConn,
                   datagram, genEvents, stops, past>>

(***************************************************************************)
(* The generation's worker: read_frame_step, handle_packet, cleanup.       *)
(***************************************************************************)
generationOnly == <<tcp, owned, media, bridge, stored, call, genConn, datagram,
                    outEvents, stops, past>>

\* A stop, a connection that is gone, or an error of transport or protocol.
GenerationStops ==
    /\ At("gen", "run")
    /\ \/ stops.gen /\ UNCHANGED genEvents
       \/ /\ ~stops.gen
          /\ \E e \in IF tcp = 0 \/ cancelled THEN {"retry"} ELSE Errors :
                genEvents' = [genEvents EXCEPT !.error = e]
    /\ Go("gen", "cleanup")
    /\ UNCHANGED <<cs, cancelled, generationOnly>>

\* SessionEnded: the reason is recorded before the session is interrupted.
SessionEnded ==
    /\ At("gen", "run") /\ ~stops.gen /\ tcp = genConn /\ ~cancelled /\ cs.phase = "Ready"
    /\ cs' = [cs EXCEPT !.ended = TRUE, !.frames = {}]
    /\ Go("gen", "ended")
    /\ UNCHANGED <<cancelled, genEvents, generationOnly>>

SessionEndedInterrupts ==
    /\ At("gen", "ended")
    /\ cancelled' = TRUE
    /\ cs' = [cs EXCEPT !.phase = "Disconnected", !.ended = TRUE]
    /\ IF stops.gen THEN Go("gen", "cleanup") /\ UNCHANGED genEvents
       ELSE Go("gen", "run") /\ genEvents' = [genEvents EXCEPT !.ended = TRUE]
    /\ UNCHANGED generationOnly

\* Cancellation is terminal for this TCP generation: socket and ownership go together.
GenerationCleanup ==
    /\ At("gen", "cleanup") /\ ~Dialing
    /\ tcp' = 0 /\ owned' = FALSE
    /\ cs' = [cs EXCEPT !.phase = "Disconnected"]
    /\ genEvents' = [genEvents EXCEPT !.closed = TRUE]
    /\ Go("gen", "done")
    /\ UNCHANGED <<cancelled, media, bridge, stored, call, genConn, datagram,
                   outEvents, stops, past>>

(***************************************************************************)
(* The UDP receiver: receive_udp_event_clock.                              *)
(***************************************************************************)
receiverOnly == <<cancelled, tcp, owned, media, bridge, stored, call, genConn, genEvents,
                  outEvents, stops, past>>

\* A datagram arrives and is opened under the cipher's mutex, which stays locked.  One of
\* another generation than the cipher's does not authenticate and changes nothing.
OpenDatagram ==
    /\ At("rcv", "idle") /\ media.udp # 0 /\ media.recv # 0
    /\ datagram' = media.recv
    /\ Go("rcv", "opened")
    /\ UNCHANGED <<cs, receiverOnly>>

\* handle_packet refuses everything while the session is not ready.
HandleDatagram ==
    /\ At("rcv", "opened")
    /\ cs' = IF cs.phase = "Ready" THEN [cs EXCEPT !.frames = @ \cup {datagram}] ELSE cs
    /\ datagram' = 0
    /\ Go("rcv", "idle")
    /\ UNCHANGED receiverOnly

ClientNext ==
    \/ \E pref \in Trusts : CallPair(pref)
    \/ CallConnect \/ Returned \/ Interrupt \/ SpawnTcpRuntime \/ StopRuntime \/ Joined
    \/ Disconnect \/ Disconnected
    \/ \E t \in Callers : Connecting(t)
    \/ SupervisorEvent \/ SupervisorJudges \/ SupervisorWaits \/ SupervisorAttempted
    \/ SupervisorLeaves
    \/ GenerationStops \/ SessionEnded \/ SessionEndedInterrupts \/ GenerationCleanup
    \/ OpenDatagram \/ HandleDatagram

\* Threads run, calls on the network end by their timeouts, and a worker that is asked
\* to stop or whose socket is gone notices.  The receiver waits for datagrams with the
\* cipher unlocked, so whoever installs or drops a cipher gets its mutex in the end.
\* Nothing is assumed of the host.
ClientThread(t) ==
    \/ t = "user" /\ (Connecting("user") \/ Joined)
    \/ t = "sup" /\ (\/ Connecting("sup") \/ SupervisorEvent \/ SupervisorJudges
                     \/ SupervisorWaits \/ SupervisorAttempted \/ SupervisorLeaves)
    \/ t = "gen" /\ (\/ GenerationStops /\ (stops.gen \/ cancelled \/ tcp = 0)
                     \/ SessionEndedInterrupts \/ GenerationCleanup)
    \/ t = "rcv" /\ HandleDatagram

CipherUser(t) == InstallCipher(t) \/ (t = "user" /\ Disconnected)

ClientFairness ==
    /\ \A t \in {"user", "sup", "gen", "rcv"} : WF_clientVars(ClientThread(t))
    /\ \A t \in Callers : SF_clientVars(CipherUser(t))

ClientSpec == ClientInit /\ [][ClientNext]_clientVars /\ ClientFairness

(***************************************************************************)
(* Properties.                                                             *)
(***************************************************************************)
\* What a ready session has assembled was sent in that session.
FramesOfThisSession == cs.phase = "Ready" => cs.frames \subseteq {cs.gen}

\* A generation reads and closes only the connection it was started on.
GenerationOwnsItsStream ==
    pc.gen \in {"run", "ended", "cleanup"} => owned /\ tcp \in {0, genConn}

\* The store only holds a trust the host granted, and never a guest of one session.
StoreFollowsGrant == stored # "none" => stored \in past.grants \ {"guestOnce"}

\* The supervisor, once the host ended the session, is not about to dial again; nor does
\* it ever reconnect a guest of one session.
NoReconnectAfterEnd ==
    pc.sup \in {"delay", "dial", "dialing", "relay"} =>
        ~cs.ended /\ cs.pairing \notin {"none", "guestOnce"}

\* The client session is safe: a packet opened with the cipher of an earlier handshake is
\* never handled after a reconnect (the pin in receive_udp_event_clock); nothing replaces a
\* generation's connection before its cleanup (tcp_runtime in connect_with_psk); a pairing
\* is persisted only once the host authorised it; the end of the session by the host is
\* final for the supervisor of spawn_tcp_runtime.
ClientSessionSafe ==
    /\ ClientTypeOK
    /\ FramesOfThisSession
    /\ GenerationOwnsItsStream
    /\ StoreFollowsGrant
    /\ NoReconnectAfterEnd

\* SessionRuntime::stop returns even while the supervisor reconnects, and the reason the
\* host gave for ending the session reaches the events the user reads, unless the user
\* stopped or cancelled first.
RuntimeEnds ==
    /\ At("user", "joining") ~> ~At("user", "joining")
    /\ At("gen", "ended") ~> (outEvents.ended \/ stops.sup \/ past.asked)
=============================================================================
