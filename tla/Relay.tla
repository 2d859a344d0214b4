-------------------------------- MODULE Relay --------------------------------
(***************************************************************************)
(* The relay (maho-relay/src/lib.rs) with the host's end of it             *)
(* (maho-host/src/relay.rs). Each WebSocket is served by its own task; the  *)
(* tasks share three concurrent maps and no lock spans two operations on   *)
(* them, so every map operation is a step of its own here. A session id is *)
(* the client socket that created it; a host's message channel is the host *)
(* socket that created it. Timeouts may fire whenever a task waits: the    *)
(* network decides how long anything takes.                                *)
(***************************************************************************)
EXTENDS Naturals, Sequences, FiniteSets

CONSTANTS
    HostIds,        \* registered names
    HostSockets,    \* WebSockets opened on /register, each used once
    Clients,        \* WebSockets opened on /connect/{host_id}, each used once
    HostIdOf,       \* [HostSockets -> HostIds]: the name a socket registers
    ClientHost,     \* [Clients -> HostIds]: the name in a client's URL
    MaxSessions,    \* max_sessions_per_host
    ConnectLimit,   \* connects_per_minute, for the one source address modelled
    QueueBound,     \* bound: messages one queue of the model holds
    NoSocket            \* no socket

ASSUME RelayAssumption ==
    /\ HostIdOf \in [HostSockets -> HostIds]
    /\ ClientHost \in [Clients -> HostIds]
    /\ MaxSessions \in Nat \ {0}
    /\ ConnectLimit \in Nat
    /\ QueueBound \in Nat \ {0}
    /\ NoSocket \notin HostSockets

VARIABLES
    hosts,          \* StateInner.hosts: host id -> channel of a host socket
    sessions,       \* keys of StateInner.sessions
    accept,         \* the oneshot of each session
    recent,         \* StateInner.rates: connects stamped in the last minute
    hpc,            \* where each host_socket task is
    writer,         \* whether the task that owns rx still runs
    hq,             \* each host socket's message channel
    cpc,            \* where each client_socket task is
    captured,       \* the host_tx a client_socket task holds
    cq,             \* each session's client channel
    hostEnd,        \* whether the host's end of a socket is open
    link,           \* SessionLinks of serve_registration on that socket
    up              \* messages on their way from the host to the relay

hostVars == <<hpc, writer, hq>>
relayClientVars == <<cpc, captured, cq>>
endVars == <<hostEnd, link, up>>
relayVars == <<hosts, sessions, accept, recent, hostVars, relayClientVars, endVars>>

HostSteps == {"idle", "first", "drop", "dropSessions", "insert", "serving",
              "exit", "exitSessions", "draining", "closed"}
ClientSteps == {"idle", "first", "insert", "lookup", "send", "waiting",
                "connecting", "serving", "forward", "closing", "closed"}
Messages == [kind : {"incoming", "frame", "accept"}, session : Clients]

Incoming(c) == [kind |-> "incoming", session |-> c]
Frame(c) == [kind |-> "frame", session |-> c]
AcceptMsg(c) == [kind |-> "accept", session |-> c]

SessionsOf(h) == {c \in sessions : ClientHost[c] = h}

\* A sender fails once the writer task has dropped the receiving half.
CanQueue(s) == Len(hq[s]) < QueueBound

RelayInit ==
    /\ hosts = [h \in HostIds |-> NoSocket]
    /\ sessions = {}
    /\ accept = [c \in Clients |-> "none"]
    /\ recent = 0
    /\ hpc = [s \in HostSockets |-> "idle"]
    /\ writer = [s \in HostSockets |-> FALSE]
    /\ hq = [s \in HostSockets |-> <<>>]
    /\ cpc = [c \in Clients |-> "idle"]
    /\ captured = [c \in Clients |-> NoSocket]
    /\ cq = [c \in Clients |-> <<>>]
    /\ hostEnd = [s \in HostSockets |-> FALSE]
    /\ link = [s \in HostSockets |-> {}]
    /\ up = [s \in HostSockets |-> <<>>]

-----------------------------------------------------------------------------
(* host_socket *)

HostStep(s, from, to) ==
    /\ hpc[s] = from
    /\ hpc' = [hpc EXCEPT ![s] = to]

\* serve_registration: maintain opens one registration at a time per host.
HostConnects(s) ==
    /\ HostStep(s, "idle", "first")
    /\ \A t \in HostSockets : HostIdOf[t] = HostIdOf[s] => ~ hostEnd[t]
    /\ hostEnd' = [hostEnd EXCEPT ![s] = TRUE]
    /\ UNCHANGED <<hosts, sessions, accept, recent, writer, hq, relayClientVars, link, up>>

\* The first message is a Register with the right token, and Registered was
\* sent; or the task answers with an error and returns.
Register(s) ==
    /\ HostStep(s, "first", "drop") \/ HostStep(s, "first", "closed")
    /\ UNCHANGED <<hosts, sessions, accept, recent, writer, hq, relayClientVars, endVars>>

\* drop_host takes the registration out first and the sessions after that; it
\* runs once before a socket enters itself and once when its loop has ended.
DropHost(s) ==
    /\ HostStep(s, "drop", "dropSessions") \/ HostStep(s, "exit", "exitSessions")
    /\ hosts' = [hosts EXCEPT ![HostIdOf[s]] = NoSocket]
    /\ UNCHANGED <<sessions, accept, recent, writer, hq, relayClientVars, endVars>>

\* Mutant: a registration that ends keeps its sessions.
DropSessionsOnRegister(s) ==
    /\ \/ /\ HostStep(s, "dropSessions", "insert")
          /\ sessions' = sessions \ SessionsOf(HostIdOf[s])
       \/ /\ HostStep(s, "exitSessions", "draining")
          /\ UNCHANGED sessions
    /\ UNCHANGED <<hosts, accept, recent, writer, hq, relayClientVars, endVars>>

DropSessions(s) ==
    /\ HostStep(s, "dropSessions", "insert") \/ HostStep(s, "exitSessions", "draining")
    /\ sessions' = sessions \ SessionsOf(HostIdOf[s])
    /\ UNCHANGED <<hosts, accept, recent, writer, hq, relayClientVars, endVars>>

InsertHost(s) ==
    /\ HostStep(s, "insert", "serving")
    /\ hosts' = [hosts EXCEPT ![HostIdOf[s]] = s]
    /\ writer' = [writer EXCEPT ![s] = TRUE]
    /\ UNCHANGED <<sessions, accept, recent, hq, relayClientVars, endVars>>

\* Accept: the session must exist and belong to this host; its oneshot is
\* taken and fired. A second or a late Accept finds nothing to take.
HandleHostText(s) ==
    /\ hpc[s] = "serving"
    /\ up[s] # <<>>
    /\ Head(up[s]).kind = "accept"
    /\ LET c == Head(up[s]).session
       IN  IF c \in SessionsOf(HostIdOf[s]) /\ accept[c] = "armed"
           THEN accept' = [accept EXCEPT ![c] = "sent"]
           ELSE UNCHANGED accept
    /\ up' = [up EXCEPT ![s] = Tail(@)]
    /\ UNCHANGED <<hosts, sessions, recent, hostVars, relayClientVars, hostEnd, link>>

\* A frame for a session of this host goes to its client, or removes the
\* session when it is older than max_session_duration; any other is dropped.
ForwardFromHost(s) ==
    /\ hpc[s] = "serving"
    /\ up[s] # <<>>
    /\ Head(up[s]).kind = "frame"
    /\ LET c == Head(up[s]).session
       IN  IF c \in SessionsOf(HostIdOf[s])
           THEN \/ /\ Len(cq[c]) < QueueBound
                   /\ cq' = [cq EXCEPT ![c] = Append(@, s)]
                   /\ UNCHANGED sessions
                \/ /\ sessions' = sessions \ {c}
                   /\ UNCHANGED cq
           ELSE UNCHANGED <<sessions, cq>>
    /\ up' = [up EXCEPT ![s] = Tail(@)]
    /\ UNCHANGED <<hosts, accept, recent, hostVars, cpc, captured, hostEnd, link>>

\* The loop ends: the stream closed or failed, a bad frame, or no message for
\* idle_timeout. The last is the only way the relay learns that a host whose
\* connection broke silently is gone, so it may come long after a new socket.
HostLoopEnds(s) ==
    /\ HostStep(s, "serving", "exit")
    /\ UNCHANGED <<hosts, sessions, accept, recent, writer, hq, relayClientVars, endVars>>

\* The writer task sends the next message; when the host's end is closed the
\* send fails and the task drops rx, or the bytes vanish in the network.
WriterSends(s) ==
    /\ writer[s]
    /\ hq[s] # <<>>
    /\ IF hostEnd[s]
       THEN LET m == Head(hq[s])
            IN  \/ /\ m.kind = "incoming"       \* handle_text: local socket
                   /\ Len(up[s]) < QueueBound
                   /\ link' = [link EXCEPT ![s] = @ \cup {m.session}]
                   /\ up' = [up EXCEPT ![s] = Append(@, AcceptMsg(m.session))]
                \/ UNCHANGED <<link, up>>       \* write_downlink, or an error
       ELSE UNCHANGED <<link, up>>
    /\ hq' = [hq EXCEPT ![s] = Tail(@)]
    /\ writer' \in {writer} \cup
           (IF hostEnd[s] THEN {} ELSE {[writer EXCEPT ![s] = FALSE]})
    /\ UNCHANGED <<hosts, sessions, accept, recent, hpc, relayClientVars, hostEnd>>

\* Nobody can send to the channel any more.
ChannelAbandoned(s) ==
    /\ \A h \in HostIds : hosts[h] # s
    /\ \A c \in Clients : captured[c] = s => cpc[c] = "closed"

\* writer.await returns once rx is closed and empty, or the writer gave up.
HostTaskEnds(s) ==
    /\ HostStep(s, "draining", "closed")
    /\ ~ writer[s] \/ (ChannelAbandoned(s) /\ hq[s] = <<>>)
    /\ writer' = [writer EXCEPT ![s] = FALSE]
    /\ hq' = [hq EXCEPT ![s] = <<>>]
    /\ UNCHANGED <<hosts, sessions, accept, recent, relayClientVars, endVars>>

-----------------------------------------------------------------------------
(* The host's end: serve_registration *)

\* Bytes read from the local session become frames of that session.
HostUplink(s, c) ==
    /\ hostEnd[s] /\ c \in link[s]
    /\ Len(up[s]) < QueueBound
    /\ up' = [up EXCEPT ![s] = Append(@, Frame(c))]
    /\ UNCHANGED <<hosts, sessions, accept, recent, hostVars, relayClientVars, hostEnd, link>>

\* The socket fails on the host's side: serve_registration returns, its links
\* are dropped and maintain will register anew. The relay may not notice.
HostEndFails(s) ==
    /\ hostEnd[s]
    /\ hostEnd' = [hostEnd EXCEPT ![s] = FALSE]
    /\ link' = [link EXCEPT ![s] = {}]
    /\ up' \in {up, [up EXCEPT ![s] = <<>>]}
    /\ UNCHANGED <<hosts, sessions, accept, recent, hostVars, relayClientVars>>

-----------------------------------------------------------------------------
(* client_socket *)

ClientStep(c, from, to) ==
    /\ cpc[c] = from
    /\ cpc' = [cpc EXCEPT ![c] = to]

\* allow_connect, then the host must be registered.
ClientConnects(c) ==
    /\ \/ /\ recent < ConnectLimit
          /\ recent' = recent + 1
          /\ \/ hosts[ClientHost[c]] # NoSocket /\ ClientStep(c, "idle", "first")
             \/ hosts[ClientHost[c]] = NoSocket /\ ClientStep(c, "idle", "closed")
       \/ /\ recent >= ConnectLimit
          /\ ClientStep(c, "idle", "closed")
          /\ UNCHANGED recent
    /\ UNCHANGED <<hosts, sessions, accept, hostVars, captured, cq, endVars>>

\* A stamp becomes a minute old.
RateStampAges ==
    /\ recent > 0
    /\ recent' = recent - 1
    /\ UNCHANGED <<hosts, sessions, accept, hostVars, relayClientVars, endVars>>

\* Connect with the right token and session_count below the limit, or not.
ClientHello(c) ==
    /\ \/ /\ Cardinality(SessionsOf(ClientHost[c])) < MaxSessions
          /\ ClientStep(c, "first", "insert")
       \/ ClientStep(c, "first", "closed")
    /\ UNCHANGED <<hosts, sessions, accept, recent, hostVars, captured, cq, endVars>>

\* Mutant: the host's channel is fetched before the session is entered.
OpenSessionLookupFirst(c) ==
    /\ \/ /\ hosts[ClientHost[c]] # NoSocket
          /\ ClientStep(c, "insert", "lookup")
          /\ captured' = [captured EXCEPT ![c] = hosts[ClientHost[c]]]
          /\ UNCHANGED <<sessions, accept>>
       \/ /\ ClientStep(c, "lookup", "send")
          /\ sessions' = sessions \cup {c}
          /\ accept' = [accept EXCEPT ![c] = "armed"]
          /\ UNCHANGED captured
    /\ UNCHANGED <<hosts, recent, hostVars, cq, endVars>>

\* The session is entered; then, in a second step, the host's channel is
\* looked up again: it may have changed or gone since the first test.
OpenSession(c) ==
    /\ \/ /\ ClientStep(c, "insert", "lookup")
          /\ sessions' = sessions \cup {c}
          /\ accept' = [accept EXCEPT ![c] = "armed"]
          /\ UNCHANGED captured
       \/ /\ hosts[ClientHost[c]] # NoSocket
          /\ ClientStep(c, "lookup", "send")
          /\ captured' = [captured EXCEPT ![c] = hosts[ClientHost[c]]]
          /\ UNCHANGED <<sessions, accept>>
       \/ /\ hosts[ClientHost[c]] = NoSocket
          /\ ClientStep(c, "lookup", "closed")
          /\ sessions' = sessions \ {c}
          /\ UNCHANGED <<captured, accept>>
    /\ UNCHANGED <<hosts, recent, hostVars, cq, endVars>>

SendIncoming(c) ==
    /\ cpc[c] = "send"
    /\ \/ /\ writer[captured[c]] /\ CanQueue(captured[c])
          /\ ClientStep(c, "send", "waiting")
          /\ hq' = [hq EXCEPT ![captured[c]] = Append(@, Incoming(c))]
          /\ UNCHANGED sessions
       \/ /\ ~ writer[captured[c]]
          /\ ClientStep(c, "send", "closed")
          /\ sessions' = sessions \ {c}
          /\ UNCHANGED hq
    /\ UNCHANGED <<hosts, accept, recent, hpc, writer, captured, cq, endVars>>

\* accept_timeout passes before the oneshot fires, or its sender is dropped
\* because the session was removed.
AcceptTimesOut(c) ==
    /\ ClientStep(c, "waiting", "closed")
    /\ sessions' = sessions \ {c}
    /\ UNCHANGED <<hosts, accept, recent, hostVars, captured, cq, endVars>>

\* The oneshot fired.
Accepted(c) ==
    /\ accept[c] = "sent"
    /\ ClientStep(c, "waiting", "connecting")
    /\ UNCHANGED <<hosts, sessions, accept, recent, hostVars, captured, cq, endVars>>

SendConnected(c) ==
    /\ \/ /\ ClientStep(c, "connecting", "serving")
          /\ UNCHANGED sessions
       \/ /\ ClientStep(c, "connecting", "closed")
          /\ sessions' = sessions \ {c}
    /\ UNCHANGED <<hosts, accept, recent, hostVars, captured, cq, endVars>>

\* forward_from_client, first half: the frame is well formed, carries the nil
\* id (and is stamped) or this session's, and the session still exists.
ClientFrame(c) ==
    /\ IF c \in sessions THEN ClientStep(c, "serving", "forward")
                         ELSE ClientStep(c, "serving", "closing")
    /\ UNCHANGED <<hosts, sessions, accept, recent, hostVars, captured, cq, endVars>>

\* Mutant: the frame goes to whichever host socket is registered now.
ForwardToLiveHost(c) ==
    LET current == hosts[ClientHost[c]] IN
    /\ cpc[c] = "forward"
    /\ IF current # NoSocket /\ writer[current]
       THEN /\ CanQueue(current)
            /\ ClientStep(c, "forward", "serving")
            /\ hq' = [hq EXCEPT ![current] = Append(@, Frame(c))]
       ELSE /\ ClientStep(c, "forward", "closing")
            /\ UNCHANGED hq
    /\ UNCHANGED <<hosts, sessions, accept, recent, hpc, writer, captured, cq, endVars>>

\* forward_from_client, second half: the registered channel must be the one
\* the client captured, and its receiver alive.
ForwardFromClient(c) ==
    LET s == captured[c] IN
    /\ cpc[c] = "forward"
    /\ IF hosts[ClientHost[c]] = s /\ writer[s]
       THEN /\ CanQueue(s)
            /\ ClientStep(c, "forward", "serving")
            /\ hq' = [hq EXCEPT ![s] = Append(@, Frame(c))]
       ELSE /\ ClientStep(c, "forward", "closing")
            /\ UNCHANGED hq
    /\ UNCHANGED <<hosts, sessions, accept, recent, hpc, writer, captured, cq, endVars>>

\* client_rx yields the next message, or ends because the session that held
\* its only sender is gone.
ClientReceives(c) ==
    /\ \/ /\ cq[c] # <<>>
          /\ cpc[c] = "serving"
          /\ cq' = [cq EXCEPT ![c] = Tail(@)]
          /\ UNCHANGED cpc
       \/ /\ cq[c] = <<>> /\ c \notin sessions
          /\ ClientStep(c, "serving", "closing")
          /\ UNCHANGED cq
    /\ UNCHANGED <<hosts, sessions, accept, recent, hostVars, captured, endVars>>

\* The stream closes or fails, a bad frame arrives, a send fails, or nothing
\* came from the client for idle_timeout.
ClientLoopEnds(c) ==
    /\ ClientStep(c, "serving", "closing")
    /\ UNCHANGED <<hosts, sessions, accept, recent, hostVars, captured, cq, endVars>>

ClientTaskEnds(c) ==
    /\ ClientStep(c, "closing", "closed")
    /\ sessions' = sessions \ {c}
    /\ UNCHANGED <<hosts, accept, recent, hostVars, captured, cq, endVars>>

-----------------------------------------------------------------------------

RelayNext ==
    \/ RateStampAges
    \/ \E s \in HostSockets :
        \/ HostConnects(s) \/ Register(s) \/ DropHost(s) \/ DropSessions(s)
        \/ InsertHost(s) \/ HandleHostText(s) \/ ForwardFromHost(s)
        \/ HostLoopEnds(s) \/ WriterSends(s) \/ HostTaskEnds(s) \/ HostEndFails(s)
        \/ \E c \in Clients : HostUplink(s, c)
    \/ \E c \in Clients :
        \/ ClientConnects(c) \/ ClientHello(c) \/ OpenSession(c)
        \/ SendIncoming(c) \/ AcceptTimesOut(c) \/ Accepted(c) \/ SendConnected(c)
        \/ ClientFrame(c) \/ ForwardFromClient(c) \/ ClientReceives(c)
        \/ ClientLoopEnds(c) \/ ClientTaskEnds(c)

RelaySpec == RelayInit /\ [][RelayNext]_relayVars

\* The runtime polls every task that can run and its timers fire; whether a
\* peer connects, sends or fails is left open.
HostTask(s) ==
    \/ InsertHost(s) \/ HandleHostText(s) \/ ForwardFromHost(s)
    \/ DropHost(s) \/ DropSessions(s) \/ HostTaskEnds(s)

ClientTask(c) ==
    \/ OpenSession(c) \/ SendIncoming(c) \/ AcceptTimesOut(c) \/ SendConnected(c)
    \/ ForwardFromClient(c) \/ ClientReceives(c) \/ ClientTaskEnds(c)

RelayFairness ==
    /\ \A s \in HostSockets : WF_relayVars(HostTask(s)) /\ WF_relayVars(WriterSends(s))
    /\ \A c \in Clients : WF_relayVars(ClientTask(c))

RelayFairSpec == RelaySpec /\ RelayFairness

-----------------------------------------------------------------------------
(* Properties *)

\* The relay's maps, its tasks and the host's ends stay in their types; queues keep
\* their bound.
RelayTypeOK ==
    /\ hosts \in [HostIds -> HostSockets \cup {NoSocket}]
    /\ sessions \subseteq Clients
    /\ accept \in [Clients -> {"none", "armed", "sent"}]
    /\ recent \in 0 .. ConnectLimit
    /\ hpc \in [HostSockets -> HostSteps]
    /\ writer \in [HostSockets -> BOOLEAN]
    /\ hq \in [HostSockets -> Seq(Messages)]
    /\ cpc \in [Clients -> ClientSteps]
    /\ captured \in [Clients -> HostSockets \cup {NoSocket}]
    /\ cq \in [Clients -> Seq(HostSockets)]
    /\ hostEnd \in [HostSockets -> BOOLEAN]
    /\ link \in [HostSockets -> SUBSET Clients]
    /\ up \in [HostSockets -> Seq(Messages)]

\* Every exit of client_socket takes its session out of the map, on the error
\* paths too, so a finished client never counts against the session limit.
NoLeakedSession ==
    \A c \in sessions : cpc[c] \notin {"idle", "first", "insert", "closed"}

\* Once a host task has run its final drop_host no session that was opened
\* over its channel is left: client_socket enters the session before it looks
\* the channel up, drop_host removes the channel before it scans the sessions.
HostGoneDropsSessions ==
    \A s \in HostSockets, c \in Clients :
        hpc[s] \in {"draining", "closed"} /\ captured[c] = s => c \notin sessions

\* A client is told Connected only after its host opened the local half of
\* the bridge, unless the host's end has failed since.
ConnectedIsBridged ==
    \A c \in Clients :
        cpc[c] \in {"connecting", "serving", "forward"} /\ hostEnd[captured[c]]
        => c \in link[captured[c]]

\* The relay's session map is exact: nothing leaks from client_socket's error paths, no
\* session outlives drop_host, and Connected means that the host has its half.
SessionMapExact ==
    RelayTypeOK /\ NoLeakedSession /\ HostGoneDropsSessions /\ ConnectedIsBridged

\* Frames of a client reach only the socket that was told of its session, also
\* when the host registers anew between the two checks of forward_from_client.
FramesStayWithTheirHost ==
    /\ \A s \in HostSockets : \A i \in 1 .. Len(hq[s]) : captured[hq[s][i].session] = s
    /\ \A c \in Clients : \A i \in 1 .. Len(cq[c]) : HostIdOf[cq[c][i]] = ClientHost[c]

\* When a host's loop ends, every client bridged over it ends and the host task
\* itself finishes: it waits for its writer, which waits until the last client
\* has let its channel go (relay-server-plan.md, "Teardown").
HostEndTearsDown ==
    \A s \in HostSockets :
        hpc[s] = "exit" ~>
            hpc[s] = "closed" /\ \A c \in Clients : captured[c] = s => cpc[c] = "closed"

-----------------------------------------------------------------------------
(* A statement of the documentation that the code does not keep. *)

\* "The relay keeps a DashMap mapping host_id -> host connection": a socket
\* that serves its host's newest registration stays reachable by that name.
ServingHostIsReachable ==
    \A s \in HostSockets :
        /\ hpc[s] = "serving"
        /\ hostEnd[s]
        /\ \A t \in HostSockets \ {s} :
               HostIdOf[t] = HostIdOf[s] => hpc[t] \in {"idle", "closed"}
        => hosts[HostIdOf[s]] = s
=============================================================================
