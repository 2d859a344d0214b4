----------------------------- MODULE ClientProofs -----------------------------
(***************************************************************************)
(* Proofs about the client's three long-lived parts, which share no state: *)
(*   - the session, its connect calls, supervisor, worker and receiver, in *)
(*     every interleaving and for any number of connections;               *)
(*   - the agent server, which hands the host back clean for every number  *)
(*     of requests, keys, buttons and permits;                             *)
(*   - the desktop shell, which never mixes two of its sessions, however   *)
(*     many there are.                                                     *)
(***************************************************************************)
EXTENDS ClientSession, AgentServer, DesktopShell, FiniteSetTheorems, WellFoundedInduction, TLAPS

(***************************************************************************)
(* The session.                                                            *)
(***************************************************************************)
Threads == Callers \cup {"gen", "rcv"}

\* Where a connect call is: about to dial, and then on its way.
OnTheWay == {"dialing", "relay", "pair", "hello", "ack", "trust", "store", "install", "cipher", "ready"}
InCall == OnTheWay \cup {"dial"}
Places ==
    InCall \cup {"ok", "failed", "idle", "connected", "running", "joining", "closing", "closingRunning",
                 "closed", "none", "loop", "judge", "delay", "leave", "done", "run", "ended", "cleanup",
                 "opened"}
GenLives == {"run", "ended", "cleanup"}

States == [phase : Phases, gen : Gens, pairing : Trust, ended : BOOLEAN, frames : SUBSET Gens]
Calls == [pin : BOOLEAN, pref : Trust, trust : Trust, relayed : BOOLEAN, trustCap : BOOLEAN,
          error : {"none", "retry", "fatal"}]

SessionTypes ==
    /\ cs \in States
    /\ tcp \in Gens /\ genConn \in Gens /\ datagram \in Gens
    /\ media \in [udp : Gens, send : Gens, recv : Gens]
    /\ stored \in Trust
    /\ pc \in [Threads -> Places] /\ call \in [Callers -> Calls]
    /\ past \in [grants : SUBSET Trusts, asked : BOOLEAN, conns : Gens]
FlagTypes ==
    /\ cancelled \in BOOLEAN /\ owned \in BOOLEAN /\ bridge \in BOOLEAN
    /\ stops \in [sup : BOOLEAN, gen : BOOLEAN, reconnecting : BOOLEAN, restore : BOOLEAN]

\* While there is a supervisor the user's thread connects nothing: it runs, stops or closes.
OneCaller == pc["sup"] \notin {"none", "done"} => pc["user"] \in {"running", "joining", "closingRunning"}

\* A worker lives only under a supervisor that waits for it.
WorkerIsSupervised == pc["gen"] \in GenLives => pc["sup"] \in {"loop", "judge", "leave"}

\* The connection is the worker's while it lives, and nobody dials meanwhile.
StreamIsOwned ==
    /\ pc["gen"] \in GenLives => owned /\ tcp \in {0, genConn}
    /\ \A t \in Callers : pc[t] = "dialing" => ~ owned

\* The trust a call carries, and where it comes from.
CallCarriesTrust(t) ==
    /\ pc[t] \in {"dial", "dialing", "relay"} => call[t].pin \/ call[t].trust \in Trusts
    /\ pc[t] \in {"hello", "ack", "trust", "store"} => call[t].trust \in Trusts
    /\ pc[t] = "store" /\ call[t].trustCap => call[t].trust \in past.grants

\* Nothing is assembled while a call is on its way, and what the receiver's cipher opens then
\* is of the session that becomes ready.
CallAssemblesNothing(t) ==
    /\ pc[t] \in OnTheWay => cs.phase # "Ready" /\ cs.frames = {}
    /\ pc[t] = "ready" => media.recv \in {0, cs.gen}

ReadyIsFresh == cs.phase = "Ready" => cs.frames \subseteq {cs.gen} /\ media.recv \in {0, cs.gen}

\* The datagram in hand was opened with the cipher that is installed: its mutex is held.
DatagramIsPinned == pc["rcv"] = "opened" => datagram = media.recv /\ datagram # 0

Retryable == ~ cs.ended /\ cs.pairing \notin {"none", "guestOnce"}

\* A supervisor that may still dial does it for a session the host did not end, with a pairing
\* that outlives it.
SupervisorMayRetry ==
    /\ ~ call["sup"].pin /\ pc["sup"] # "pair"
    /\ pc["sup"] \in {"delay", "dial", "dialing", "relay", "hello", "ack", "trust"} => Retryable
    /\ pc["sup"] \in {"dial", "dialing", "relay", "hello", "ack", "trust"} =>
         call["sup"].trust \notin {"none", "guestOnce"}
    /\ pc["sup"] = "failed" /\ call["sup"].error = "retry" => Retryable

ClientInv ==
    /\ SessionTypes /\ FlagTypes
    /\ OneCaller /\ WorkerIsSupervised /\ StreamIsOwned
    /\ \A t \in Callers : CallCarriesTrust(t) /\ CallAssemblesNothing(t)
    /\ ReadyIsFresh /\ DatagramIsPinned
    /\ SupervisorMayRetry /\ StoreFollowsGrant

LEMMA TypesAreClientTypeOK == SessionTypes /\ FlagTypes => ClientTypeOK
  BY DEF SessionTypes, FlagTypes, ClientTypeOK, States

\* Only t moves, to place.
OnlyGoes(t, place) == \A u \in Threads : pc'[u] = IF u = t THEN place ELSE pc[u]

LEMMA GoDoes ==
    ASSUME pc \in [Threads -> Places], NEW t \in Threads, NEW q \in Places, Go(t, q)
    PROVE  pc' \in [Threads -> Places] /\ OnlyGoes(t, q)
  BY DEF Go, OnlyGoes

LEMMA NoCallIsACall ==
    /\ NoCall \in Calls /\ NoCall.pin = FALSE
    /\ \A e \in {"none", "retry", "fatal"} :
         /\ [NoCall EXCEPT !.error = e] \in Calls
         /\ [NoCall EXCEPT !.error = e].error = e
         /\ [NoCall EXCEPT !.error = e].pin = FALSE
  BY DEF NoCall, Calls, Trust

LEMMA FailsDoes ==
    ASSUME pc \in [Threads -> Places], call \in [Callers -> Calls], NEW t \in Callers,
           NEW e \in Errors, Fails(t, e)
    PROVE  /\ pc' \in [Threads -> Places] /\ OnlyGoes(t, "failed")
           /\ call' \in [Callers -> Calls] /\ \A u \in Callers \ {t} : call'[u] = call[u]
           /\ call'[t].error = e /\ call'[t].pin = FALSE
  <1>1. pc' \in [Threads -> Places] /\ OnlyGoes(t, "failed")
    BY GoDoes DEF Fails, Threads, Places
  <1>2. call' = [call EXCEPT ![t] = [NoCall EXCEPT !.error = e]]
    BY DEF Fails
  <1>3. [NoCall EXCEPT !.error = e] \in Calls /\ [NoCall EXCEPT !.error = e].error = e
        /\ [NoCall EXCEPT !.error = e].pin = FALSE
    BY NoCallIsACall DEF Errors
  <1> QED
    BY <1>1, <1>2, <1>3

\* While one caller is in a call, the other is not, and no worker lives.
LEMMA CallerIsAlone ==
    ASSUME ClientInv, NEW t \in Callers, pc[t] \in InCall
    PROVE  /\ pc["gen"] \notin GenLives
           /\ t = "sup" => pc["user"] \in {"running", "joining", "closingRunning"}
           /\ t = "user" => pc["sup"] \in {"none", "done"}
  BY DEF ClientInv, OneCaller, WorkerIsSupervised, InCall, OnTheWay, Callers, GenLives

\* A step of a connect call: what the call itself must see to, the rest follows.
LEMMA CallStep ==
    ASSUME ClientInv, NEW t \in Callers, NEW q \in InCall \cup {"ok", "failed"}, pc[t] \in InCall,
           SessionTypes', FlagTypes', OnlyGoes(t, q), \A u \in Callers \ {t} : call'[u] = call[u],
           UNCHANGED <<owned, genConn, datagram>>,
           q = "dialing" => ~ owned,
           media'.recv = media.recv \/ pc["rcv"] # "opened",
           CallCarriesTrust(t)', CallAssemblesNothing(t)', ReadyIsFresh', StoreFollowsGrant',
           t = "sup" => SupervisorMayRetry'
    PROVE  ClientInv'
  <1>a. /\ pc["gen"] \notin GenLives
        /\ t = "sup" => pc["user"] \in {"running", "joining", "closingRunning"}
        /\ t = "user" => pc["sup"] \in {"none", "done"}
    BY CallerIsAlone
  <1>p. /\ pc'["gen"] = pc["gen"] /\ pc'["rcv"] = pc["rcv"]
        /\ t = "sup" => pc'["sup"] = q /\ pc'["user"] = pc["user"]
        /\ t = "user" => pc'["user"] = q /\ pc'["sup"] = pc["sup"]
    BY DEF OnlyGoes, Threads, Callers
  <1>c. t = "user" \/ t = "sup"
    BY DEF Callers
  <1>1. OneCaller' /\ WorkerIsSupervised'
    BY <1>a, <1>p, <1>c DEF OneCaller, WorkerIsSupervised
  <1>2. StreamIsOwned'
    <2>1. \A u \in Callers : pc'[u] = "dialing" => ~ owned
      BY DEF ClientInv, StreamIsOwned, OnlyGoes, Threads
    <2> QED
      BY <1>a, <1>p, <2>1 DEF StreamIsOwned
  <1>3. ASSUME NEW u \in Callers, u # t PROVE CallCarriesTrust(u)' /\ CallAssemblesNothing(u)'
    <2>1. pc'[u] \in {"running", "joining", "closingRunning", "none", "done"}
      BY <1>a, <1>p, <1>c, <1>3 DEF Callers
    <2> QED
      BY <2>1 DEF CallCarriesTrust, CallAssemblesNothing, OnTheWay
  <1>4. DatagramIsPinned'
    BY <1>p DEF ClientInv, DatagramIsPinned
  <1>5. t = "user" => SupervisorMayRetry'
    BY <1>a, <1>p DEF ClientInv, SupervisorMayRetry, Callers
  <1> QED
    BY <1>c, <1>1, <1>2, <1>3, <1>4, <1>5 DEF ClientInv

\* A step of a call that fails it, whatever it changed before.
LEMMA CallFailsKeeps ==
    ASSUME ClientInv, NEW t \in Callers, NEW e \in Errors, pc[t] \in InCall, Fails(t, e),
           UNCHANGED <<tcp, owned, media, bridge, genConn, datagram, stops>>,
           cancelled' \in BOOLEAN, cs' \in States, stored' \in Trust,
           past' \in [grants : SUBSET Trusts, asked : BOOLEAN, conns : Gens],
           ReadyIsFresh', StoreFollowsGrant',
           e = "retry" /\ t = "sup" => Retryable'
    PROVE  ClientInv'
  <1>t. SessionTypes /\ FlagTypes
    BY DEF ClientInv
  <1>1. /\ pc' \in [Threads -> Places] /\ OnlyGoes(t, "failed")
        /\ call' \in [Callers -> Calls] /\ \A u \in Callers \ {t} : call'[u] = call[u]
        /\ call'[t].error = e /\ call'[t].pin = FALSE
    BY <1>t, FailsDoes DEF SessionTypes
  <1>2. SessionTypes' /\ FlagTypes'
    BY <1>t, <1>1 DEF SessionTypes, FlagTypes
  <1>3. pc'[t] = "failed"
    BY <1>1 DEF OnlyGoes, Threads
  <1>4. CallCarriesTrust(t)' /\ CallAssemblesNothing(t)'
    BY <1>3 DEF CallCarriesTrust, CallAssemblesNothing, OnTheWay
  <1>5. t = "sup" => SupervisorMayRetry'
    BY <1>1, <1>3 DEF SupervisorMayRetry
  <1> QED
    BY <1>1, <1>2, <1>4, <1>5, CallStep

\* The dial, directly and over the relay.
LEMMA DialKeeps ==
    ASSUME ClientInv, NEW t \in Callers, Dial(t) \/ Dialed(t) \/ OpenRelayFallback(t)
    PROVE  ClientInv'
  <1>t. /\ SessionTypes /\ FlagTypes /\ cs \in States /\ call[t] \in Calls /\ t \in Threads
        /\ pc \in [Threads -> Places] /\ call \in [Callers -> Calls]
    BY DEF ClientInv, SessionTypes, Threads
  <1>i. /\ CallCarriesTrust(t) /\ CallAssemblesNothing(t) /\ ReadyIsFresh /\ StoreFollowsGrant
        /\ SupervisorMayRetry
    BY DEF ClientInv
  <1>1. CASE Dial(t)
    <2>u. /\ UNCHANGED <<cancelled, tcp, owned, media, bridge, stored, past, genConn, datagram, stops>>
          /\ pc[t] = "dial"
      BY <1>1 DEF Dial, At, threadsOfRuntime
    <2>1. CASE Fails(t, "fatal") /\ UNCHANGED cs
      <3>1. ReadyIsFresh' /\ StoreFollowsGrant'
        BY <1>i, <2>u, <2>1 DEF ReadyIsFresh, StoreFollowsGrant
      <3> QED
        BY <1>t, <2>u, <2>1, <3>1, CallFailsKeeps DEF Errors, InCall, SessionTypes, FlagTypes
    <2>2. CASE /\ ~ owned /\ cs' = [cs EXCEPT !.phase = "Connecting", !.frames = {}]
               /\ Go(t, "dialing") /\ UNCHANGED call
      <3>1. pc' \in [Threads -> Places] /\ OnlyGoes(t, "dialing") /\ pc'[t] = "dialing"
        BY <1>t, <2>2, GoDoes DEF Places, InCall, OnTheWay, OnlyGoes
      <3>2. cs' \in States /\ cs'.phase = "Connecting" /\ cs'.frames = {} /\ cs'.gen = cs.gen
            /\ cs'.ended = cs.ended /\ cs'.pairing = cs.pairing
        BY <1>t, <2>2 DEF States, Phases
      <3>3. SessionTypes' /\ FlagTypes'
        BY <1>t, <2>u, <2>2, <3>1, <3>2 DEF SessionTypes, FlagTypes
      <3>4. CallCarriesTrust(t)' /\ CallAssemblesNothing(t)' /\ ReadyIsFresh' /\ StoreFollowsGrant'
        BY <1>i, <2>u, <2>2, <3>1, <3>2
        DEF CallCarriesTrust, CallAssemblesNothing, ReadyIsFresh, StoreFollowsGrant
      <3>5. t = "sup" => SupervisorMayRetry'
        BY <1>i, <2>u, <2>2, <3>1, <3>2 DEF SupervisorMayRetry, Retryable
      <3> QED
        BY <2>u, <2>2, <3>1, <3>3, <3>4, <3>5, CallStep DEF InCall, OnTheWay
    <2> QED
      BY <1>1, <2>1, <2>2 DEF Dial
  <1>2. CASE Dialed(t)
    <2>u. /\ UNCHANGED <<cancelled, owned, media, bridge, stored, genConn, datagram, stops>>
          /\ pc[t] = "dialing"
      BY <1>2 DEF Dialed, At, threadsOfRuntime
    <2>1. CASE /\ past.conns < MaxConn
               /\ past' = [past EXCEPT !.conns = @ + 1]
               /\ tcp' = past.conns + 1
               /\ cs' = [cs EXCEPT !.phase = IF call[t].pin THEN "AwaitingPairing" ELSE "AwaitingHandshakeAck"]
               /\ Go(t, IF call[t].pin THEN "pair" ELSE "hello")
               /\ UNCHANGED call
      <3>p. PICK q \in {"pair", "hello"} : Go(t, q) /\ (q = "hello" => ~ call[t].pin) /\ (q = "pair" => call[t].pin)
        BY <2>1
      <3>1. pc' \in [Threads -> Places] /\ OnlyGoes(t, q) /\ pc'[t] = q
        BY <1>t, <3>p, GoDoes DEF Places, InCall, OnTheWay, OnlyGoes
      <3>2. cs' \in States /\ cs'.phase # "Ready" /\ cs'.frames = cs.frames /\ cs'.gen = cs.gen
            /\ cs'.ended = cs.ended /\ cs'.pairing = cs.pairing
        BY <1>t, <2>1 DEF States, Phases
      <3>a. past \in [grants : SUBSET Trusts, asked : BOOLEAN, conns : Gens] /\ past.conns \in Gens
        BY <1>t DEF SessionTypes
      <3>b. past.conns + 1 \in Gens
        BY <2>1, <3>a, ClientSessionAssumption DEF Gens
      <3>c. past' \in [grants : SUBSET Trusts, asked : BOOLEAN, conns : Gens] /\ past'.grants = past.grants
        BY <2>1, <3>a, <3>b
      <3>3. SessionTypes' /\ FlagTypes'
        BY <1>t, <2>u, <2>1, <3>1, <3>2, <3>b, <3>c DEF SessionTypes, FlagTypes
      <3>4. CallCarriesTrust(t)' /\ CallAssemblesNothing(t)' /\ ReadyIsFresh' /\ StoreFollowsGrant'
        BY <1>i, <2>u, <2>1, <3>p, <3>1, <3>2, <3>c
        DEF CallCarriesTrust, CallAssemblesNothing, ReadyIsFresh, StoreFollowsGrant, OnTheWay
      <3>5. t = "sup" => SupervisorMayRetry'
        BY <1>i, <2>u, <2>1, <3>p, <3>1, <3>2 DEF SupervisorMayRetry, Retryable
      <3> QED
        BY <2>u, <2>1, <3>1, <3>3, <3>4, <3>5, CallStep DEF InCall, OnTheWay
    <2>2. ASSUME NEW e \in Errors, call' = [call EXCEPT ![t].error = e],
                 Go(t, IF ~ cancelled /\ ~ call[t].pin /\ ~ call[t].relayed THEN "relay" ELSE "failed"),
                 UNCHANGED <<tcp, cs, past>>
          PROVE  ClientInv'
      <3>p. PICK q \in {"relay", "failed"} : Go(t, q)
        BY <2>2
      <3>1. pc' \in [Threads -> Places] /\ OnlyGoes(t, q) /\ pc'[t] = q
        BY <1>t, <3>p, GoDoes DEF Places, InCall, OnTheWay, OnlyGoes
      <3>2. /\ call' \in [Callers -> Calls] /\ \A u \in Callers \ {t} : call'[u] = call[u]
            /\ call'[t].pin = call[t].pin /\ call'[t].trust = call[t].trust
        BY <1>t, <2>2 DEF Calls, Errors
      <3>3. SessionTypes' /\ FlagTypes'
        BY <1>t, <2>u, <2>2, <3>1, <3>2 DEF SessionTypes, FlagTypes
      <3>4. CallCarriesTrust(t)' /\ CallAssemblesNothing(t)' /\ ReadyIsFresh' /\ StoreFollowsGrant'
        BY <1>i, <2>u, <2>2, <3>1, <3>2
        DEF CallCarriesTrust, CallAssemblesNothing, ReadyIsFresh, StoreFollowsGrant, OnTheWay
      <3>5. t = "sup" => SupervisorMayRetry'
        BY <1>i, <2>u, <2>2, <3>1, <3>2 DEF SupervisorMayRetry, Retryable
      <3> QED
        BY <2>u, <2>2, <3>1, <3>2, <3>3, <3>4, <3>5, CallStep DEF InCall, OnTheWay
    <2> QED
      BY <1>2, <2>1, <2>2 DEF Dialed
  <1>3. CASE OpenRelayFallback(t)
    <2>u. /\ UNCHANGED <<cs, cancelled, tcp, owned, media, stored, past, genConn, datagram, stops>>
          /\ pc[t] = "relay" /\ bridge' \in BOOLEAN
      BY <1>3 DEF OpenRelayFallback, At, threadsOfRuntime
    <2>p. PICK q \in {"dial", "failed"} :
            /\ Go(t, q)
            /\ q = "dial" => call' = [call EXCEPT ![t].relayed = TRUE, ![t].error = "none"]
            /\ q = "failed" => UNCHANGED call
      BY <1>3 DEF OpenRelayFallback
    <2>1. pc' \in [Threads -> Places] /\ OnlyGoes(t, q) /\ pc'[t] = q
      BY <1>t, <2>p, GoDoes DEF Places, InCall, OnTheWay, OnlyGoes
    <2>2. /\ call' \in [Callers -> Calls] /\ \A u \in Callers \ {t} : call'[u] = call[u]
          /\ call'[t].pin = call[t].pin /\ call'[t].trust = call[t].trust
      <3>1. CASE q = "failed"
        BY <1>t, <2>p, <3>1
      <3>2. CASE q = "dial"
        <4> DEFINE c == [call[t] EXCEPT !.relayed = TRUE, !.error = "none"]
        <4>1. c \in Calls /\ c.pin = call[t].pin /\ c.trust = call[t].trust
          BY <1>t DEF Calls
        <4>2. call' = [call EXCEPT ![t] = c]
          BY <1>t, <2>p, <3>2
        <4> HIDE DEF c
        <4> QED
          BY <1>t, <4>1, <4>2
      <3> QED
        BY <3>1, <3>2
    <2>3. SessionTypes' /\ FlagTypes'
      BY <1>t, <2>u, <2>1, <2>2 DEF SessionTypes, FlagTypes
    <2>4. CallCarriesTrust(t)' /\ CallAssemblesNothing(t)' /\ ReadyIsFresh' /\ StoreFollowsGrant'
      BY <1>i, <2>u, <2>1, <2>2
      DEF CallCarriesTrust, CallAssemblesNothing, ReadyIsFresh, StoreFollowsGrant, OnTheWay
    <2>5. t = "sup" => SupervisorMayRetry'
      BY <1>i, <2>u, <2>1, <2>2 DEF SupervisorMayRetry, Retryable
    <2> QED
      BY <2>u, <2>1, <2>2, <2>3, <2>4, <2>5, CallStep DEF InCall, OnTheWay
  <1> QED
    BY <1>1, <1>2, <1>3

\* The pairing and the handshake up to the host's decision.
LEMMA HandshakeKeeps ==
    ASSUME ClientInv, NEW t \in Callers, Paired(t) \/ Hello(t) \/ Acknowledged(t) \/ TrustGranted(t)
    PROVE  ClientInv'
  <1>t. /\ SessionTypes /\ FlagTypes /\ cs \in States /\ call[t] \in Calls /\ t \in Threads
        /\ pc \in [Threads -> Places] /\ call \in [Callers -> Calls]
        /\ past \in [grants : SUBSET Trusts, asked : BOOLEAN, conns : Gens]
    BY DEF ClientInv, SessionTypes, Threads
  <1>i. /\ CallCarriesTrust(t) /\ CallAssemblesNothing(t) /\ ReadyIsFresh /\ StoreFollowsGrant
        /\ SupervisorMayRetry
    BY DEF ClientInv
  <1>r. pc[t] \in {"pair", "hello", "ack", "trust"} /\ t = "sup" => Retryable
    BY <1>i DEF SupervisorMayRetry
  <1>f. ASSUME NEW e \in Errors, Fails(t, e), pc[t] \in {"pair", "ack", "trust"},
               UNCHANGED <<tcp, owned, media, bridge, genConn, datagram, stops, stored, past>>,
               cancelled' \in BOOLEAN, cs' \in States, cs'.phase = cs.phase, cs'.frames = cs.frames,
               cs'.gen = cs.gen, e = "retry" => cs' = cs
        PROVE  ClientInv'
    <2>1. ReadyIsFresh' /\ StoreFollowsGrant'
      BY <1>i, <1>f DEF ReadyIsFresh, StoreFollowsGrant
    <2>2. e = "retry" /\ t = "sup" => Retryable'
      BY <1>r, <1>f DEF Retryable
    <2> QED
      BY <1>t, <1>f, <2>1, <2>2, CallFailsKeeps DEF InCall, OnTheWay, SessionTypes
  <1>g. ASSUME NEW q \in {"hello", "trust", "store"}, Go(t, q), pc[t] \in {"pair", "ack", "trust"},
               NEW c \in Calls, call' = [call EXCEPT ![t] = c], c.pin = call[t].pin,
               c.trust \in Trusts, q = "store" /\ c.trustCap => c.trust \in past'.grants,
               q = "trust" => c.trust = call[t].trust, q = "hello" => pc[t] = "pair",
               past' \in [grants : SUBSET Trusts, asked : BOOLEAN, conns : Gens],
               past.grants \subseteq past'.grants,
               UNCHANGED <<cs, cancelled, tcp, owned, media, bridge, genConn, datagram, stops, stored>>
        PROVE  ClientInv'
    <2>1. pc' \in [Threads -> Places] /\ OnlyGoes(t, q) /\ pc'[t] = q
      BY <1>t, <1>g, GoDoes DEF Places, InCall, OnTheWay, OnlyGoes
    <2>2. call' \in [Callers -> Calls] /\ call'[t] = c /\ \A u \in Callers \ {t} : call'[u] = call[u]
      BY <1>t, <1>g
    <2>3. SessionTypes' /\ FlagTypes'
      BY <1>t, <1>g, <2>1, <2>2 DEF SessionTypes, FlagTypes
    <2>4. CallCarriesTrust(t)' /\ CallAssemblesNothing(t)' /\ ReadyIsFresh' /\ StoreFollowsGrant'
      BY <1>i, <1>g, <2>1, <2>2
      DEF CallCarriesTrust, CallAssemblesNothing, ReadyIsFresh, StoreFollowsGrant, OnTheWay
    <2>5. t = "sup" => SupervisorMayRetry'
      BY <1>i, <1>g, <1>r, <2>1, <2>2 DEF SupervisorMayRetry, Retryable
    <2> QED
      BY <1>g, <2>1, <2>2, <2>3, <2>4, <2>5, CallStep DEF InCall, OnTheWay
  <1>1. CASE Paired(t)
    <2>u. /\ UNCHANGED <<cs, cancelled, tcp, owned, media, bridge, stored, past, genConn, datagram, stops>>
          /\ pc[t] = "pair" /\ cancelled \in BOOLEAN
      BY <1>1, <1>t DEF Paired, At, threadsOfRuntime, FlagTypes
    <2>1. CASE call' = [call EXCEPT ![t].trust = "owner"] /\ Go(t, "hello")
      <3> DEFINE c == [call[t] EXCEPT !.trust = "owner"]
      <3>1. c \in Calls /\ c.pin = call[t].pin /\ c.trust = "owner"
        BY <1>t DEF Calls, Trust, Trusts
      <3>2. call' = [call EXCEPT ![t] = c]
        BY <2>1
      <3> HIDE DEF c
      <3> QED
        BY <1>g, <1>t, <2>u, <2>1, <3>1, <3>2 DEF Trusts
    <2>2. ASSUME NEW e \in Errors, Fails(t, e) PROVE ClientInv'
      BY <1>f, <1>t, <2>u, <2>2
    <2> QED
      BY <1>1, <2>1, <2>2 DEF Paired
  <1>2. CASE Hello(t)
    <2>u. /\ UNCHANGED <<cancelled, tcp, owned, media, bridge, stored, past, genConn, datagram, stops>>
          /\ pc[t] = "hello" /\ cancelled \in BOOLEAN
          /\ cs' = [cs EXCEPT !.gen = past.conns, !.pairing = call[t].trust, !.phase = "AwaitingHandshakeAck"]
      BY <1>2, <1>t DEF Hello, At, threadsOfRuntime, FlagTypes
    <2>1. /\ cs' \in States /\ cs'.phase = "AwaitingHandshakeAck" /\ cs'.frames = cs.frames
          /\ cs'.ended = cs.ended /\ cs'.pairing = call[t].trust
      BY <1>t, <2>u DEF States, Phases, Calls
    <2>2. ReadyIsFresh' /\ StoreFollowsGrant'
      BY <1>i, <2>u, <2>1 DEF ReadyIsFresh, StoreFollowsGrant
    <2>3. t = "sup" => Retryable'
      BY <1>i, <2>u, <2>1 DEF SupervisorMayRetry, Retryable
    <2>4. CASE Fails(t, "retry")
      BY <1>t, <2>u, <2>1, <2>2, <2>3, <2>4, CallFailsKeeps DEF Errors, InCall, OnTheWay, SessionTypes
    <2>5. CASE Go(t, "ack") /\ UNCHANGED call
      <3>1. pc' \in [Threads -> Places] /\ OnlyGoes(t, "ack") /\ pc'[t] = "ack"
        BY <1>t, <2>5, GoDoes DEF Places, InCall, OnTheWay, OnlyGoes
      <3>2. SessionTypes' /\ FlagTypes'
        BY <1>t, <2>u, <2>1, <2>5, <3>1 DEF SessionTypes, FlagTypes
      <3>3. CallCarriesTrust(t)' /\ CallAssemblesNothing(t)'
        BY <1>i, <2>u, <2>1, <2>5, <3>1 DEF CallCarriesTrust, CallAssemblesNothing, OnTheWay
      <3>4. t = "sup" => SupervisorMayRetry'
        BY <1>i, <2>u, <2>3, <2>5, <3>1 DEF SupervisorMayRetry
      <3> QED
        BY <2>u, <2>2, <2>5, <3>1, <3>2, <3>3, <3>4, CallStep DEF InCall, OnTheWay
    <2> QED
      BY <1>2, <2>4, <2>5 DEF Hello
  <1>3. CASE Acknowledged(t)
    <2>u. /\ UNCHANGED <<cs, tcp, owned, media, bridge, stored, past, genConn, datagram, stops>>
          /\ pc[t] = "ack" /\ cancelled \in BOOLEAN
      BY <1>3, <1>t DEF Acknowledged, At, threadsOfRuntime, FlagTypes
    <2>1. ASSUME NEW cap \in BOOLEAN, call' = [call EXCEPT ![t].trustCap = cap],
                 Go(t, IF cap THEN "trust" ELSE "store"), UNCHANGED cancelled
          PROVE  ClientInv'
      <3> DEFINE c == [call[t] EXCEPT !.trustCap = cap]
      <3>1. c \in Calls /\ c.pin = call[t].pin /\ c.trust = call[t].trust /\ c.trustCap = cap
        BY <1>t DEF Calls
      <3>2. call' = [call EXCEPT ![t] = c]
        BY <2>1
      <3>3. c.trust \in Trusts
        BY <1>i, <2>u, <3>1 DEF CallCarriesTrust
      <3> HIDE DEF c
      <3>4. CASE cap
        BY <1>g, <1>t, <2>u, <2>1, <3>1, <3>2, <3>3, <3>4
      <3>5. CASE ~ cap
        BY <1>g, <1>t, <2>u, <2>1, <3>1, <3>2, <3>3, <3>5
      <3> QED
        BY <3>4, <3>5
    <2>2. CASE cancelled' = TRUE /\ Fails(t, "fatal")
      BY <1>f, <1>t, <2>u, <2>2 DEF Errors
    <2>3. ASSUME NEW e \in Errors, Fails(t, e), UNCHANGED cancelled PROVE ClientInv'
      BY <1>f, <1>t, <2>u, <2>3
    <2> QED
      BY <1>3, <2>1, <2>2, <2>3 DEF Acknowledged
  <1>4. CASE TrustGranted(t)
    <2>u. /\ UNCHANGED <<tcp, owned, media, bridge, stored, genConn, datagram, stops>>
          /\ pc[t] = "trust" /\ cancelled \in BOOLEAN
      BY <1>4, <1>t DEF TrustGranted, At, threadsOfRuntime, FlagTypes
    <2>1. ASSUME NEW g \in Trusts, call' = [call EXCEPT ![t].trust = g],
                 past' = [past EXCEPT !.grants = @ \cup {g}], Go(t, "store"), UNCHANGED <<cs, cancelled>>
          PROVE  ClientInv'
      <3> DEFINE c == [call[t] EXCEPT !.trust = g]
      <3>1. c \in Calls /\ c.pin = call[t].pin /\ c.trust = g
        BY <1>t DEF Calls, Trust
      <3>2. call' = [call EXCEPT ![t] = c]
        BY <2>1
      <3>3. /\ past' \in [grants : SUBSET Trusts, asked : BOOLEAN, conns : Gens]
            /\ past'.grants = past.grants \cup {g}
        BY <1>t, <2>1
      <3> HIDE DEF c
      <3> QED
        BY <1>g, <2>u, <2>1, <3>1, <3>2, <3>3
    <2>2. CASE cs' = [cs EXCEPT !.ended = TRUE] /\ cancelled' = TRUE /\ Fails(t, "fatal") /\ UNCHANGED past
      <3>1. cs' \in States /\ cs'.phase = cs.phase /\ cs'.frames = cs.frames /\ cs'.gen = cs.gen
        BY <1>t, <2>2 DEF States
      <3> QED
        BY <1>f, <2>u, <2>2, <3>1 DEF Errors
    <2>3. ASSUME NEW e \in Errors, Fails(t, e), UNCHANGED <<cs, cancelled, past>> PROVE ClientInv'
      BY <1>f, <1>t, <2>u, <2>3
    <2> QED
      BY <1>4, <2>1, <2>2, <2>3 DEF TrustGranted
  <1> QED
    BY <1>1, <1>2, <1>3, <1>4

\* The store, the media socket and the ciphers, and the session is ready.
LEMMA InstallKeeps ==
    ASSUME ClientInv, NEW t \in Callers,
           Stored(t) \/ InstallUdp(t) \/ InstallCipher(t) \/ BecomeReady(t)
    PROVE  ClientInv'
  <1>t. /\ SessionTypes /\ FlagTypes /\ cs \in States /\ call[t] \in Calls /\ t \in Threads
        /\ pc \in [Threads -> Places] /\ call \in [Callers -> Calls]
        /\ media \in [udp : Gens, send : Gens, recv : Gens]
        /\ past \in [grants : SUBSET Trusts, asked : BOOLEAN, conns : Gens]
        /\ cs.gen \in Gens /\ stored \in Trust /\ cancelled \in BOOLEAN
    BY DEF ClientInv, SessionTypes, Threads, States, FlagTypes
  <1>i. /\ CallCarriesTrust(t) /\ CallAssemblesNothing(t) /\ ReadyIsFresh /\ StoreFollowsGrant
        /\ SupervisorMayRetry
    BY DEF ClientInv
  <1>g. ASSUME NEW q \in {"install", "cipher", "ready", "ok"}, Go(t, q), UNCHANGED call, pc[t] \in OnTheWay,
               UNCHANGED <<cancelled, tcp, owned, bridge, genConn, datagram, stops>>,
               cs' \in States, media' \in [udp : Gens, send : Gens, recv : Gens], stored' \in Trust,
               past' \in [grants : SUBSET Trusts, asked : BOOLEAN, conns : Gens],
               media'.recv = media.recv \/ pc["rcv"] # "opened",
               cs'.frames = {}, q # "ok" => cs'.phase # "Ready",
               q \in {"ready", "ok"} => media'.recv \in {0, cs'.gen}, StoreFollowsGrant'
        PROVE  ClientInv'
    <2>1. pc' \in [Threads -> Places] /\ OnlyGoes(t, q) /\ pc'[t] = q
      BY <1>t, <1>g, GoDoes DEF Places, InCall, OnTheWay, OnlyGoes
    <2>2. SessionTypes' /\ FlagTypes'
      BY <1>t, <1>g, <2>1 DEF SessionTypes, FlagTypes
    <2>3. CallCarriesTrust(t)' /\ CallAssemblesNothing(t)' /\ ReadyIsFresh'
      BY <1>g, <2>1 DEF CallCarriesTrust, CallAssemblesNothing, ReadyIsFresh, OnTheWay
    <2>4. t = "sup" => SupervisorMayRetry'
      BY <1>i, <1>g, <2>1 DEF SupervisorMayRetry
    <2> QED
      BY <1>g, <2>1, <2>2, <2>3, <2>4, CallStep DEF InCall, OnTheWay
  <1>m. pc[t] \in OnTheWay => cs.phase # "Ready" /\ cs.frames = {}
    BY <1>i DEF CallAssemblesNothing
  <1>1. CASE Stored(t)
    <2>u. UNCHANGED <<cancelled, tcp, owned, media, bridge, genConn, datagram, stops>> /\ pc[t] = "store"
      BY <1>1 DEF Stored, At, threadsOfRuntime
    <2>n. cs.phase # "Ready" /\ cs.frames = {}
      BY <1>m, <2>u DEF OnTheWay
    <2>1. CASE Fails(t, "fatal") /\ UNCHANGED <<stored, cs, past>>
      <3>1. ReadyIsFresh' /\ StoreFollowsGrant'
        BY <1>i, <2>u, <2>1 DEF ReadyIsFresh, StoreFollowsGrant
      <3> QED
        BY <1>t, <2>u, <2>1, <3>1, CallFailsKeeps DEF Errors, InCall, OnTheWay
    <2>2. CASE /\ stored' = StoreAfter(call[t])
               /\ past' = [past EXCEPT !.grants = IF call[t].trustCap THEN @ ELSE @ \cup {call[t].trust}]
               /\ cs' = [cs EXCEPT !.pairing = call[t].trust]
               /\ (Go(t, "install") /\ UNCHANGED call) \/ Fails(t, "fatal")
      <3>1. call[t].trust \in Trusts /\ (call[t].trustCap => call[t].trust \in past.grants)
        BY <1>i, <2>u DEF CallCarriesTrust
      <3>2. /\ past' \in [grants : SUBSET Trusts, asked : BOOLEAN, conns : Gens]
            /\ past'.grants = past.grants \cup {call[t].trust}
        BY <1>t, <2>2, <3>1
      <3>3. stored' \in {stored, call[t].trust} /\ (stored' = stored \/ call[t].trust # "guestOnce")
        BY <2>2 DEF StoreAfter
      <3>4. stored' \in Trust /\ StoreFollowsGrant'
        BY <1>i, <1>t, <3>1, <3>2, <3>3 DEF StoreFollowsGrant, Trust
      <3>5. cs' \in States /\ cs'.phase = cs.phase /\ cs'.frames = {} /\ cs'.gen = cs.gen
        BY <1>t, <2>2, <2>n, <3>1 DEF States, Trust
      <3>6. ReadyIsFresh'
        BY <2>n, <3>5 DEF ReadyIsFresh
      <3>7. CASE Go(t, "install") /\ UNCHANGED call
        BY <1>g, <1>t, <2>u, <2>n, <3>2, <3>4, <3>5, <3>7 DEF OnTheWay
      <3>8. CASE Fails(t, "fatal")
        BY <1>t, <2>u, <3>2, <3>4, <3>5, <3>6, <3>8, CallFailsKeeps DEF Errors, InCall, OnTheWay
      <3> QED
        BY <2>2, <3>7, <3>8
    <2> QED
      BY <1>1, <2>1, <2>2 DEF Stored
  <1>2. CASE InstallUdp(t)
    <2>u. /\ UNCHANGED <<cs, cancelled, tcp, owned, bridge, stored, call, past, genConn, datagram, stops>>
          /\ pc[t] = "install" /\ Go(t, "cipher") /\ media' = [media EXCEPT !.udp = cs.gen, !.send = cs.gen]
      BY <1>2 DEF InstallUdp, At, threadsOfRuntime
    <2>1. media' \in [udp : Gens, send : Gens, recv : Gens] /\ media'.recv = media.recv
      BY <1>t, <2>u
    <2>2. StoreFollowsGrant' /\ cs.phase # "Ready" /\ cs.frames = {}
      BY <1>i, <1>m, <2>u DEF StoreFollowsGrant, OnTheWay
    <2> QED
      BY <1>g, <1>t, <2>u, <2>1, <2>2 DEF OnTheWay
  <1>3. CASE InstallCipher(t)
    <2>u. /\ UNCHANGED <<cs, cancelled, tcp, owned, bridge, stored, call, past, genConn, datagram, stops>>
          /\ pc[t] = "cipher" /\ Go(t, "ready") /\ media' = [media EXCEPT !.recv = cs.gen]
          /\ pc["rcv"] # "opened"
      BY <1>3 DEF InstallCipher, At, threadsOfRuntime, CipherLocked
    <2>1. media' \in [udp : Gens, send : Gens, recv : Gens] /\ media'.recv = cs.gen
      BY <1>t, <2>u
    <2>2. StoreFollowsGrant' /\ cs.phase # "Ready" /\ cs.frames = {}
      BY <1>i, <1>m, <2>u DEF StoreFollowsGrant, OnTheWay
    <2> QED
      BY <1>g, <1>t, <2>u, <2>1, <2>2 DEF OnTheWay
  <1>4. CASE BecomeReady(t)
    <2>u. /\ UNCHANGED <<cancelled, tcp, owned, media, bridge, stored, call, past, genConn, datagram, stops>>
          /\ pc[t] = "ready" /\ Go(t, "ok") /\ cs' = [cs EXCEPT !.phase = "Ready"]
      BY <1>4 DEF BecomeReady, At, threadsOfRuntime
    <2>1. cs' \in States /\ cs'.frames = cs.frames /\ cs'.gen = cs.gen
      BY <1>t, <2>u DEF States, Phases
    <2>2. StoreFollowsGrant' /\ cs.frames = {} /\ media.recv \in {0, cs.gen}
      BY <1>i, <1>m, <2>u DEF StoreFollowsGrant, OnTheWay, CallAssemblesNothing
    <2> QED
      BY <1>g, <1>t, <2>u, <2>1, <2>2 DEF OnTheWay
  <1> QED
    BY <1>1, <1>2, <1>3, <1>4

\* The conjuncts that a step can disturb, once the types hold.
Ordered ==
    /\ OneCaller /\ WorkerIsSupervised /\ StreamIsOwned
    /\ \A t \in Callers : CallCarriesTrust(t) /\ CallAssemblesNothing(t)
    /\ ReadyIsFresh /\ DatagramIsPinned
    /\ SupervisorMayRetry /\ StoreFollowsGrant

\* reconnect, of the user or of the supervisor, up to the dial.
LEMMA ConnectKeeps ==
    ASSUME ClientInv, NEW t \in Callers, NEW trust \in Trusts, ConnectWithPairing(t, trust),
           pc[t] \in {"idle", "delay"}, t = "user" => pc["user"] = "idle",
           t = "sup" => pc["sup"] = "delay" /\ ~ cancelled /\ trust = cs.pairing
    PROVE  ClientInv'
  <1>t. /\ SessionTypes /\ FlagTypes /\ cs \in States /\ t \in Threads
        /\ pc \in [Threads -> Places] /\ call \in [Callers -> Calls] /\ bridge \in BOOLEAN
    BY DEF ClientInv, SessionTypes, Threads, FlagTypes
  <1>u. UNCHANGED <<cancelled, tcp, owned, media, stored, past, genConn, datagram, stops>>
    BY DEF ConnectWithPairing, threadsOfRuntime
  <1>b. bridge' \in BOOLEAN
    BY <1>t DEF ConnectWithPairing
  <1>p. PICK q \in {"failed", "dial"} : Go(t, q) /\ (t = "sup" => q = "dial")
    BY DEF ConnectWithPairing
  <1>1. pc' \in [Threads -> Places] /\ OnlyGoes(t, q)
    BY <1>t, <1>p, GoDoes DEF Places, InCall
  <1>2. PICK e \in {"fatal", "none"} : call' = [call EXCEPT ![t] = [NoCall EXCEPT !.trust = trust, !.error = e]]
    BY DEF ConnectWithPairing
  <1>3. /\ [NoCall EXCEPT !.trust = trust, !.error = e] \in Calls
        /\ [NoCall EXCEPT !.trust = trust, !.error = e].trust = trust
        /\ [NoCall EXCEPT !.trust = trust, !.error = e].pin = FALSE
    BY DEF NoCall, Calls, Trust
  <1>4. /\ call' \in [Callers -> Calls] /\ call'[t].trust = trust /\ call'[t].pin = FALSE
        /\ \A u \in Callers \ {t} : call'[u] = call[u]
    BY <1>t, <1>2, <1>3
  <1>5. /\ cs' \in States /\ cs'.phase = cs.phase /\ cs'.gen = cs.gen /\ cs'.frames = cs.frames
        /\ cs'.pairing = cs.pairing /\ (cs'.ended => cs.ended)
    BY <1>t DEF ConnectWithPairing, States
  <1>6. SessionTypes' /\ FlagTypes'
    BY <1>t, <1>u, <1>b, <1>1, <1>4, <1>5 DEF SessionTypes, FlagTypes
  <1>7. /\ pc'["gen"] = pc["gen"] /\ pc'["rcv"] = pc["rcv"] /\ pc'[t] = q
        /\ t = "sup" => pc'["user"] = pc["user"]
        /\ t = "user" => pc'["sup"] = pc["sup"] /\ pc["sup"] \in {"none", "done"}
    BY <1>1 DEF OnlyGoes, Threads, Callers, ClientInv, OneCaller
  <1>8. OneCaller' /\ WorkerIsSupervised' /\ StreamIsOwned' /\ DatagramIsPinned' /\ ReadyIsFresh' /\ StoreFollowsGrant'
    BY <1>u, <1>p, <1>5, <1>7
    DEF ClientInv, OneCaller, WorkerIsSupervised, StreamIsOwned, DatagramIsPinned, ReadyIsFresh,
        StoreFollowsGrant, Callers
  <1>9. \A x \in Callers : CallCarriesTrust(x)' /\ CallAssemblesNothing(x)'
    <2> SUFFICES ASSUME NEW x \in Callers PROVE CallCarriesTrust(x)' /\ CallAssemblesNothing(x)'
      OBVIOUS
    <2>1. CallCarriesTrust(x) /\ CallAssemblesNothing(x)
      BY DEF ClientInv
    <2>2. CASE x = t
      BY <1>4, <1>7, <2>2 DEF CallCarriesTrust, CallAssemblesNothing, OnTheWay
    <2>3. CASE x # t
      BY <1>u, <1>1, <1>4, <1>5, <2>1, <2>3 DEF CallCarriesTrust, CallAssemblesNothing, OnlyGoes, Threads
    <2> QED
      BY <2>2, <2>3
  <1>10. SupervisorMayRetry'
    <2>1. CASE t = "user"
      BY <1>4, <1>7, <2>1 DEF ClientInv, SupervisorMayRetry, Callers
    <2>2. CASE t = "sup"
      BY <1>p, <1>4, <1>5, <1>7, <2>2 DEF ClientInv, SupervisorMayRetry, Retryable
    <2> QED
      BY <2>1, <2>2 DEF Callers
  <1> QED
    BY <1>6, <1>8, <1>9, <1>10 DEF ClientInv

\* The user's thread, and whoever holds the interrupt handle.
LEMMA UserKeeps ==
    ASSUME ClientInv,
           \/ \E pref \in Trusts : CallPair(pref)
           \/ CallConnect \/ Returned \/ Interrupt \/ SpawnTcpRuntime \/ StopRuntime \/ Joined
           \/ Disconnect \/ Disconnected
    PROVE  ClientInv'
  <1>t. /\ SessionTypes /\ FlagTypes /\ cs \in States /\ {"user", "sup"} \subseteq Threads
        /\ pc \in [Threads -> Places] /\ call \in [Callers -> Calls]
        /\ cancelled \in BOOLEAN /\ bridge \in BOOLEAN /\ stored \in Trust
        /\ past \in [grants : SUBSET Trusts, asked : BOOLEAN, conns : Gens]
        /\ stops \in [sup : BOOLEAN, gen : BOOLEAN, reconnecting : BOOLEAN, restore : BOOLEAN]
    BY DEF ClientInv, SessionTypes, Threads, FlagTypes, Callers
  <1>i. Ordered
    BY DEF ClientInv, Ordered
  <1>q. SessionTypes' /\ FlagTypes' /\ Ordered' => ClientInv'
    BY DEF ClientInv, Ordered
  <1>g. ASSUME NEW q \in Places, Go("user", q)
        PROVE  /\ pc' \in [Threads -> Places] /\ pc'["user"] = q /\ pc'["sup"] = pc["sup"]
               /\ pc'["gen"] = pc["gen"] /\ pc'["rcv"] = pc["rcv"]
    BY <1>t, <1>g DEF Go, Threads, Callers
  <1> USE DEF OneCaller, WorkerIsSupervised, StreamIsOwned, CallCarriesTrust, CallAssemblesNothing,
              ReadyIsFresh, DatagramIsPinned, SupervisorMayRetry, Retryable, StoreFollowsGrant, Callers
  <1>1. ASSUME NEW pref \in Trusts, CallPair(pref) PROVE ClientInv'
    <2>u. /\ UNCHANGED <<cancelled, tcp, owned, media, bridge, stored, past, genConn, datagram, stops>>
          /\ pc["user"] = "idle" /\ Go("user", "dial") /\ cs' = [cs EXCEPT !.ended = FALSE]
          /\ call' = [call EXCEPT !["user"] = [NoCall EXCEPT !.pin = TRUE, !.pref = pref]]
      BY <1>1 DEF CallPair, At, threadsOfRuntime
    <2>1. /\ [NoCall EXCEPT !.pin = TRUE, !.pref = pref] \in Calls
          /\ [NoCall EXCEPT !.pin = TRUE, !.pref = pref].pin = TRUE
      BY DEF NoCall, Calls, Trust
    <2>2. call' \in [Callers -> Calls] /\ call'["user"].pin = TRUE /\ call'["sup"] = call["sup"]
      BY <1>t, <2>u, <2>1
    <2>3. /\ cs' \in States /\ cs'.phase = cs.phase /\ cs'.gen = cs.gen /\ cs'.frames = cs.frames
          /\ cs'.pairing = cs.pairing
      BY <1>t, <2>u DEF States
    <2>4. /\ pc' \in [Threads -> Places] /\ pc'["user"] = "dial" /\ pc'["sup"] = pc["sup"]
          /\ pc'["gen"] = pc["gen"] /\ pc'["rcv"] = pc["rcv"]
      BY <1>g, <2>u DEF Places, InCall
    <2>5. SessionTypes' /\ FlagTypes'
      BY <1>t, <2>u, <2>2, <2>3, <2>4 DEF SessionTypes, FlagTypes
    <2>6. pc["sup"] \in {"none", "done"}
      BY <1>i, <2>u DEF Ordered
    <2>7. Ordered'
      BY <1>i, <2>u, <2>2, <2>3, <2>4, <2>6 DEF Ordered, OnTheWay
    <2> QED
      BY <1>q, <2>5, <2>7
  <1>2. CASE CallConnect
    <2>1. stored \in Trusts /\ ConnectWithPairing("user", stored) /\ pc["user"] = "idle"
      BY <1>2, <1>t DEF CallConnect, At, Trust
    <2> QED
      BY <2>1, ConnectKeeps
  <1>3. CASE Returned
    <2>u. /\ UNCHANGED <<cs, cancelled, tcp, owned, media, bridge, stored, past, genConn, datagram, stops>>
          /\ pc["user"] \in {"ok", "failed"} /\ call' = [call EXCEPT !["user"] = NoCall]
      BY <1>3 DEF Returned, threadsOfRuntime
    <2>1. PICK q \in {"connected", "idle"} : Go("user", q)
      BY <1>3 DEF Returned
    <2>2. call' \in [Callers -> Calls] /\ call'["sup"] = call["sup"]
      BY <1>t, <2>u, NoCallIsACall
    <2>4. /\ pc' \in [Threads -> Places] /\ pc'["user"] = q /\ pc'["sup"] = pc["sup"]
          /\ pc'["gen"] = pc["gen"] /\ pc'["rcv"] = pc["rcv"]
      BY <1>g, <2>1 DEF Places
    <2>5. SessionTypes' /\ FlagTypes'
      BY <1>t, <2>u, <2>2, <2>4 DEF SessionTypes, FlagTypes
    <2>6. pc["sup"] \in {"none", "done"}
      BY <1>i, <2>u DEF Ordered
    <2>7. Ordered'
      BY <1>i, <2>u, <2>2, <2>4, <2>6 DEF Ordered, OnTheWay
    <2> QED
      BY <1>q, <2>5, <2>7
  <1>4. CASE Interrupt
    <2>u. /\ UNCHANGED <<cs, tcp, owned, media, bridge, stored, pc, call, genConn, datagram, stops>>
          /\ cancelled' \in BOOLEAN /\ past' = [past EXCEPT !.asked = TRUE]
      BY <1>4 DEF Interrupt, threadsOfRuntime
    <2>1. past' \in [grants : SUBSET Trusts, asked : BOOLEAN, conns : Gens] /\ past'.grants = past.grants
      BY <1>t, <2>u
    <2>2. SessionTypes' /\ FlagTypes'
      BY <1>t, <2>u, <2>1 DEF SessionTypes, FlagTypes
    <2>3. Ordered'
      BY <1>i, <2>u, <2>1 DEF Ordered
    <2> QED
      BY <1>q, <2>2, <2>3
  <1>5. CASE SpawnTcpRuntime
    <2>u. /\ UNCHANGED <<cs, cancelled, tcp, media, bridge, stored, call, datagram, past>>
          /\ pc["user"] = "connected" /\ \A t \in Callers : pc[t] # "dialing"
      BY <1>5 DEF SpawnTcpRuntime, At, Dialing
    <2>1. pc["sup"] \in {"none", "done"}
      BY <1>i, <2>u DEF Ordered
    <2>2. CASE /\ owned' = TRUE /\ genConn' = tcp
               /\ pc' = [pc EXCEPT !["user"] = "running", !["sup"] = "loop", !["gen"] = "run"]
               /\ stops' = [stops EXCEPT !.sup = FALSE, !.gen = FALSE, !.reconnecting = FALSE]
      <3>1. /\ pc' \in [Threads -> Places] /\ pc'["user"] = "running" /\ pc'["sup"] = "loop"
            /\ pc'["gen"] = "run" /\ pc'["rcv"] = pc["rcv"]
        BY <1>t, <2>2 DEF Threads, Places
      <3>2. stops' \in [sup : BOOLEAN, gen : BOOLEAN, reconnecting : BOOLEAN, restore : BOOLEAN]
        BY <1>t, <2>2
      <3>3. SessionTypes' /\ FlagTypes'
        BY <1>t, <2>u, <2>2, <3>1, <3>2 DEF SessionTypes, FlagTypes
      <3>4. Ordered'
        BY <1>i, <2>u, <2>1, <2>2, <3>1 DEF Ordered, OnTheWay
      <3> QED
        BY <1>q, <3>3, <3>4
    <2>3. CASE Go("user", "idle") /\ UNCHANGED <<owned, genConn, stops>>
      <3>1. /\ pc' \in [Threads -> Places] /\ pc'["user"] = "idle" /\ pc'["sup"] = pc["sup"]
            /\ pc'["gen"] = pc["gen"] /\ pc'["rcv"] = pc["rcv"]
        BY <1>g, <2>3 DEF Places
      <3>2. SessionTypes' /\ FlagTypes'
        BY <1>t, <2>u, <2>3, <3>1 DEF SessionTypes, FlagTypes
      <3>3. Ordered'
        BY <1>i, <2>u, <2>1, <2>3, <3>1 DEF Ordered, OnTheWay
      <3> QED
        BY <1>q, <3>2, <3>3
    <2> QED
      BY <1>5, <2>2, <2>3 DEF SpawnTcpRuntime, SpawnTcpGeneration
  <1>6. CASE StopRuntime \/ Joined
    <2>u. /\ UNCHANGED <<cs, tcp, owned, media, bridge, stored, call, genConn, datagram, past>>
          /\ cancelled' \in BOOLEAN
      BY <1>6, <1>t DEF StopRuntime, Joined
    <2>1. stops' \in [sup : BOOLEAN, gen : BOOLEAN, reconnecting : BOOLEAN, restore : BOOLEAN]
      BY <1>6, <1>t DEF StopRuntime, Joined
    <2>2. PICK q \in {"joining", "idle"} :
            /\ Go("user", q) /\ pc["user"] \in {"running", "joining"}
            /\ q = "idle" => pc["sup"] = "done"
      BY <1>6 DEF StopRuntime, Joined, At
    <2>3. /\ pc' \in [Threads -> Places] /\ pc'["user"] = q /\ pc'["sup"] = pc["sup"]
          /\ pc'["gen"] = pc["gen"] /\ pc'["rcv"] = pc["rcv"]
      BY <1>g, <2>2 DEF Places
    <2>4. SessionTypes' /\ FlagTypes'
      BY <1>t, <2>u, <2>1, <2>3 DEF SessionTypes, FlagTypes
    <2>5. Ordered'
      BY <1>i, <2>u, <2>2, <2>3 DEF Ordered, OnTheWay
    <2> QED
      BY <1>q, <2>4, <2>5
  <1>7. CASE Disconnect
    <2>u. /\ UNCHANGED <<tcp, owned, media, stored, call, genConn, datagram, stops>>
          /\ cancelled' = TRUE /\ bridge' = FALSE /\ past' = [past EXCEPT !.asked = TRUE]
          /\ cs' = [cs EXCEPT !.phase = "Disconnected", !.frames = {},
                              !.pairing = IF @ = "guestOnce" THEN "none" ELSE @]
      BY <1>7 DEF Disconnect, threadsOfRuntime
    <2>1. past' \in [grants : SUBSET Trusts, asked : BOOLEAN, conns : Gens] /\ past'.grants = past.grants
      BY <1>t, <2>u
    <2>2. /\ cs' \in States /\ cs'.phase = "Disconnected" /\ cs'.frames = {} /\ cs'.ended = cs.ended
          /\ cs'.gen = cs.gen /\ cs'.pairing = (IF cs.pairing = "guestOnce" THEN "none" ELSE cs.pairing)
      BY <1>t, <2>u DEF States, Phases, Trust
    <2>3. PICK q \in {"closing", "closingRunning"} :
            /\ Go("user", q)
            /\ q = "closing" => pc["user"] = "connected"
            /\ q = "closingRunning" => pc["user"] = "running"
      BY <1>7 DEF Disconnect, At
    <2>4. /\ pc' \in [Threads -> Places] /\ pc'["user"] = q /\ pc'["sup"] = pc["sup"]
          /\ pc'["gen"] = pc["gen"] /\ pc'["rcv"] = pc["rcv"]
      BY <1>g, <2>3 DEF Places
    <2>5. SessionTypes' /\ FlagTypes'
      BY <1>t, <2>u, <2>1, <2>2, <2>4 DEF SessionTypes, FlagTypes
    <2>6. Ordered'
      BY <1>i, <2>u, <2>1, <2>2, <2>3, <2>4 DEF Ordered, OnTheWay
    <2> QED
      BY <1>q, <2>5, <2>6
  <1>8. CASE Disconnected
    <2>u. /\ UNCHANGED <<cs, cancelled, owned, bridge, stored, call, past, genConn, datagram, stops>>
          /\ media' = [udp |-> 0, send |-> 0, recv |-> 0] /\ tcp' = 0 /\ pc["rcv"] # "opened"
      BY <1>8 DEF Disconnected, threadsOfRuntime, CipherLocked
    <2>1. 0 \in Gens
      BY ClientSessionAssumption DEF Gens
    <2>2. media' \in [udp : Gens, send : Gens, recv : Gens] /\ media'.recv = 0
      BY <2>u, <2>1
    <2>3. PICK q \in {"closed", "running"} :
            /\ Go("user", q)
            /\ q = "closed" => pc["user"] = "closing"
            /\ q = "running" => pc["user"] = "closingRunning"
      BY <1>8 DEF Disconnected, At
    <2>4. /\ pc' \in [Threads -> Places] /\ pc'["user"] = q /\ pc'["sup"] = pc["sup"]
          /\ pc'["gen"] = pc["gen"] /\ pc'["rcv"] = pc["rcv"]
      BY <1>g, <2>3 DEF Places
    <2>5. SessionTypes' /\ FlagTypes'
      BY <1>t, <2>u, <2>1, <2>2, <2>4 DEF SessionTypes, FlagTypes
    <2>6. Ordered'
      BY <1>i, <2>u, <2>2, <2>3, <2>4 DEF Ordered, OnTheWay
    <2> QED
      BY <1>q, <2>5, <2>6
  <1> QED
    BY <1>1, <1>2, <1>3, <1>4, <1>5, <1>6, <1>7, <1>8

\* The supervisor: it joins the worker before it decides, and decides before it dials.
LEMMA SupervisorKeeps ==
    ASSUME ClientInv,
           \/ SupervisorEvent \/ SupervisorJudges \/ SupervisorWaits \/ SupervisorAttempted
           \/ SupervisorLeaves
    PROVE  ClientInv'
  <1>t. /\ SessionTypes /\ FlagTypes /\ pc \in [Threads -> Places] /\ call \in [Callers -> Calls]
        /\ cs \in States
        /\ stops \in [sup : BOOLEAN, gen : BOOLEAN, reconnecting : BOOLEAN, restore : BOOLEAN]
    BY DEF ClientInv, SessionTypes, FlagTypes
  <1>i. Ordered
    BY DEF ClientInv, Ordered
  <1>q. SessionTypes' /\ FlagTypes' /\ Ordered' => ClientInv'
    BY DEF ClientInv, Ordered
  <1>g. ASSUME NEW q \in Places, Go("sup", q)
        PROVE  /\ pc' \in [Threads -> Places] /\ pc'["sup"] = q /\ pc'["user"] = pc["user"]
               /\ pc'["gen"] = pc["gen"] /\ pc'["rcv"] = pc["rcv"]
    BY <1>t, <1>g DEF Go, Threads, Callers
  <1> USE DEF OneCaller, WorkerIsSupervised, StreamIsOwned, CallCarriesTrust, CallAssemblesNothing,
              ReadyIsFresh, DatagramIsPinned, SupervisorMayRetry, Retryable, StoreFollowsGrant, Callers
  \* A step that only moves the supervisor, and may raise a stop.
  <1>m. ASSUME NEW q \in {"judge", "delay", "leave", "done"}, Go("sup", q),
               stops' \in [sup : BOOLEAN, gen : BOOLEAN, reconnecting : BOOLEAN, restore : BOOLEAN],
               UNCHANGED <<cs, cancelled, tcp, owned, media, bridge, stored, genConn, datagram, past>>,
               call' = call \/ call' = [call EXCEPT !["sup"] = NoCall],
               pc["sup"] \notin {"none", "done"},
               q \in {"delay", "done"} => pc["gen"] \notin GenLives,
               q = "delay" => Retryable
        PROVE  ClientInv'
    <2>1. /\ pc' \in [Threads -> Places] /\ pc'["sup"] = q /\ pc'["user"] = pc["user"]
          /\ pc'["gen"] = pc["gen"] /\ pc'["rcv"] = pc["rcv"]
      BY <1>g, <1>m DEF Places
    <2>2. call' \in [Callers -> Calls] /\ call'["user"] = call["user"] /\ ~ call'["sup"].pin
      BY <1>t, <1>i, <1>m, NoCallIsACall DEF Ordered
    <2>3. SessionTypes' /\ FlagTypes'
      BY <1>t, <1>m, <2>1, <2>2 DEF SessionTypes, FlagTypes
    <2>4. Ordered'
      BY <1>i, <1>m, <2>1, <2>2 DEF Ordered, OnTheWay
    <2> QED
      BY <1>q, <2>3, <2>4
  <1>1. CASE SupervisorEvent
    <2>1. /\ UNCHANGED <<cs, cancelled, tcp, owned, media, bridge, stored, call, genConn, datagram, past>>
          /\ pc["sup"] = "loop"
      BY <1>1 DEF SupervisorEvent, At
    <2>2. PICK q \in {"leave", "judge"} : Go("sup", q)
      BY <1>1 DEF SupervisorEvent, Leave
    <2>3. stops' \in [sup : BOOLEAN, gen : BOOLEAN, reconnecting : BOOLEAN, restore : BOOLEAN]
      BY <1>t, <1>1 DEF SupervisorEvent, Leave
    <2> QED
      BY <1>m, <2>1, <2>2, <2>3
  <1>2. CASE SupervisorJudges
    <2>1. /\ UNCHANGED <<cs, cancelled, tcp, owned, media, bridge, stored, call, genConn, datagram, past>>
          /\ pc["sup"] = "judge" /\ pc["gen"] = "done"
      BY <1>2 DEF SupervisorJudges, At
    <2>2. PICK q \in {"leave", "delay"} : Go("sup", q) /\ (q = "delay" => Retryable)
      BY <1>2 DEF SupervisorJudges, Leave, Eligible
    <2>3. stops' \in [sup : BOOLEAN, gen : BOOLEAN, reconnecting : BOOLEAN, restore : BOOLEAN]
      BY <1>t, <1>2 DEF SupervisorJudges, Leave
    <2> QED
      BY <1>m, <2>1, <2>2, <2>3 DEF GenLives
  <1>3. CASE SupervisorWaits
    <2>1. pc["sup"] = "delay"
      BY <1>3 DEF SupervisorWaits, At
    <2>2. CASE ~ cancelled /\ ConnectWithPairing("sup", cs.pairing)
      <3>1. cs.pairing \in Trusts
        BY <1>t, <1>i, <2>1 DEF Ordered, States, Trust
      <3> QED
        BY <2>1, <2>2, <3>1, ConnectKeeps
    <2>3. CASE /\ GiveUp
               /\ UNCHANGED <<cs, cancelled, tcp, owned, media, bridge, stored, call, genConn, datagram, past>>
      <3>1. /\ Go("sup", "leave")
            /\ stops' \in [sup : BOOLEAN, gen : BOOLEAN, reconnecting : BOOLEAN, restore : BOOLEAN]
        BY <1>t, <2>3 DEF GiveUp, Leave
      <3> QED
        BY <1>m, <2>1, <2>3, <3>1
    <2> QED
      BY <1>3, <2>2, <2>3 DEF SupervisorWaits
  <1>4. CASE SupervisorAttempted
    <2>u. /\ UNCHANGED <<cs, cancelled, tcp, media, bridge, stored, datagram, past>>
          /\ pc["sup"] \in {"ok", "failed"} /\ call' = [call EXCEPT !["sup"] = NoCall]
      BY <1>4 DEF SupervisorAttempted, At
    <2>1. CASE /\ owned' = TRUE /\ genConn' = tcp /\ ~ Dialing
               /\ pc' = [pc EXCEPT !["sup"] = "loop", !["gen"] = "run"]
               /\ stops' = [stops EXCEPT !.gen = FALSE, !.reconnecting = FALSE]
      <3>1. /\ pc' \in [Threads -> Places] /\ pc'["user"] = pc["user"] /\ pc'["sup"] = "loop"
            /\ pc'["gen"] = "run" /\ pc'["rcv"] = pc["rcv"]
        BY <1>t, <2>1 DEF Threads, Places
      <3>2. stops' \in [sup : BOOLEAN, gen : BOOLEAN, reconnecting : BOOLEAN, restore : BOOLEAN]
        BY <1>t, <2>1
      <3>3. call' \in [Callers -> Calls] /\ call'["user"] = call["user"] /\ ~ call'["sup"].pin
        BY <1>t, <2>u, NoCallIsACall
      <3>4. SessionTypes' /\ FlagTypes'
        BY <1>t, <2>u, <2>1, <3>1, <3>2, <3>3 DEF SessionTypes, FlagTypes
      <3>5. Ordered'
        BY <1>i, <2>u, <2>1, <3>1, <3>3 DEF Ordered, OnTheWay, Dialing
      <3> QED
        BY <1>q, <3>4, <3>5
    <2>2. CASE /\ UNCHANGED <<owned, genConn>>
               /\ \/ GiveUp
                  \/ Go("sup", "delay") /\ Retryable /\ UNCHANGED stops
      <3>1. PICK q \in {"leave", "delay"} : Go("sup", q) /\ (q = "delay" => Retryable)
        BY <2>2 DEF GiveUp, Leave
      <3>2. stops' \in [sup : BOOLEAN, gen : BOOLEAN, reconnecting : BOOLEAN, restore : BOOLEAN]
        BY <1>t, <2>2 DEF GiveUp, Leave
      <3>3. pc["gen"] \notin GenLives
        BY <1>i, <2>u DEF Ordered
      <3> QED
        BY <1>m, <2>u, <2>2, <3>1, <3>2, <3>3
    <2>3. pc["sup"] = "failed" /\ call["sup"].error = "retry" => Retryable
      BY <1>i DEF Ordered
    <2> QED
      BY <1>4, <2>1, <2>2, <2>3 DEF SupervisorAttempted, SpawnTcpGeneration, At
  <1>5. CASE SupervisorLeaves
    <2>1. /\ UNCHANGED <<cs, cancelled, tcp, owned, media, bridge, stored, call, genConn, datagram, stops, past>>
          /\ pc["sup"] = "leave" /\ pc["gen"] = "done" /\ Go("sup", "done")
      BY <1>5 DEF SupervisorLeaves, At
    <2> QED
      BY <1>m, <1>t, <2>1 DEF GenLives
  <1> QED
    BY <1>1, <1>2, <1>3, <1>4, <1>5

\* The generation's worker: it alone gives the connection back.
LEMMA GenerationKeeps ==
    ASSUME ClientInv,
           GenerationStops \/ SessionEnded \/ SessionEndedInterrupts \/ GenerationCleanup
    PROVE  ClientInv'
  <1>t. /\ SessionTypes /\ FlagTypes /\ pc \in [Threads -> Places] /\ cs \in States /\ 0 \in Gens
        /\ tcp \in Gens /\ cancelled \in BOOLEAN /\ owned \in BOOLEAN
    BY ClientSessionAssumption DEF ClientInv, SessionTypes, FlagTypes, Gens
  <1>i. Ordered
    BY DEF ClientInv, Ordered
  <1>q. SessionTypes' /\ FlagTypes' /\ Ordered' => ClientInv'
    BY DEF ClientInv, Ordered
  <1> USE DEF OneCaller, WorkerIsSupervised, StreamIsOwned, CallCarriesTrust, CallAssemblesNothing,
              ReadyIsFresh, DatagramIsPinned, SupervisorMayRetry, Retryable, StoreFollowsGrant, Callers
  <1>m. ASSUME NEW q \in GenLives \cup {"done"}, Go("gen", q), pc["gen"] \in GenLives,
               UNCHANGED <<media, bridge, stored, call, genConn, datagram, stops, past>>,
               cs' \in States, tcp' \in {0, tcp}, cancelled' \in BOOLEAN, owned' \in BOOLEAN,
               q = "done" \/ owned' = owned,
               cs'.gen = cs.gen, cs'.pairing = cs.pairing, cs'.frames \subseteq cs.frames,
               cs'.phase = "Ready" => cs.phase = "Ready"
        PROVE  ClientInv'
    <2>1. /\ pc' \in [Threads -> Places] /\ pc'["gen"] = q /\ pc'["user"] = pc["user"]
          /\ pc'["sup"] = pc["sup"] /\ pc'["rcv"] = pc["rcv"]
      BY <1>t, <1>m DEF Go, Threads, Callers, Places, GenLives
    <2>2. tcp' \in Gens
      BY <1>t, <1>m
    <2>3. SessionTypes' /\ FlagTypes'
      BY <1>t, <1>m, <2>1, <2>2 DEF SessionTypes, FlagTypes
    <2>4. pc["sup"] \in {"loop", "judge", "leave"} /\ pc["user"] \in {"running", "joining", "closingRunning"}
      BY <1>i, <1>m DEF Ordered
    <2>5. OneCaller' /\ WorkerIsSupervised' /\ StreamIsOwned' /\ SupervisorMayRetry'
      BY <1>i, <1>m, <2>1, <2>4 DEF Ordered, GenLives
    <2>6. ReadyIsFresh' /\ DatagramIsPinned' /\ StoreFollowsGrant'
      BY <1>i, <1>m, <2>1 DEF Ordered
    <2>7. \A t \in Callers : CallCarriesTrust(t)' /\ CallAssemblesNothing(t)'
      BY <2>1, <2>4 DEF OnTheWay
    <2> QED
      BY <1>q, <2>3, <2>5, <2>6, <2>7 DEF Ordered
  <1>1. CASE GenerationStops
    <2>1. /\ UNCHANGED <<cs, cancelled, tcp, owned, media, bridge, stored, call, genConn, datagram, stops, past>>
          /\ pc["gen"] = "run" /\ Go("gen", "cleanup")
      BY <1>1 DEF GenerationStops, generationOnly, At
    <2> QED
      BY <1>m, <1>t, <2>1 DEF GenLives
  <1>2. CASE SessionEnded
    <2>1. /\ UNCHANGED <<cancelled, tcp, owned, media, bridge, stored, call, genConn, datagram, stops, past>>
          /\ pc["gen"] = "run" /\ Go("gen", "ended")
          /\ cs' = [cs EXCEPT !.ended = TRUE, !.frames = {}]
      BY <1>2 DEF SessionEnded, generationOnly, At
    <2>2. /\ cs' \in States /\ cs'.gen = cs.gen /\ cs'.pairing = cs.pairing /\ cs'.frames = {}
          /\ cs'.phase = cs.phase
      BY <1>t, <2>1 DEF States
    <2> QED
      BY <1>m, <1>t, <2>1, <2>2 DEF GenLives
  <1>3. CASE SessionEndedInterrupts
    <2>1. /\ UNCHANGED <<tcp, owned, media, bridge, stored, call, genConn, datagram, stops, past>>
          /\ pc["gen"] = "ended" /\ cancelled' = TRUE
          /\ cs' = [cs EXCEPT !.phase = "Disconnected", !.ended = TRUE]
      BY <1>3 DEF SessionEndedInterrupts, generationOnly, At
    <2>2. /\ cs' \in States /\ cs'.gen = cs.gen /\ cs'.pairing = cs.pairing /\ cs'.frames = cs.frames
          /\ cs'.phase = "Disconnected"
      BY <1>t, <2>1 DEF States, Phases
    <2>3. PICK q \in {"cleanup", "run"} : Go("gen", q)
      BY <1>3 DEF SessionEndedInterrupts
    <2> QED
      BY <1>m, <1>t, <2>1, <2>2, <2>3 DEF GenLives
  <1>4. CASE GenerationCleanup
    <2>1. /\ UNCHANGED <<cancelled, media, bridge, stored, call, genConn, datagram, stops, past>>
          /\ pc["gen"] = "cleanup" /\ Go("gen", "done") /\ tcp' = 0 /\ owned' = FALSE
          /\ cs' = [cs EXCEPT !.phase = "Disconnected"]
      BY <1>4 DEF GenerationCleanup, At
    <2>2. /\ cs' \in States /\ cs'.gen = cs.gen /\ cs'.pairing = cs.pairing /\ cs'.frames = cs.frames
          /\ cs'.phase = "Disconnected"
      BY <1>t, <2>1 DEF States, Phases
    <2> QED
      BY <1>m, <1>t, <2>1, <2>2 DEF GenLives
  <1> QED
    BY <1>1, <1>2, <1>3, <1>4

\* The receiver: the datagram is handled under the cipher that opened it.
LEMMA ReceiverKeeps ==
    ASSUME ClientInv, OpenDatagram \/ HandleDatagram
    PROVE  ClientInv'
  <1>t. /\ SessionTypes /\ FlagTypes /\ pc \in [Threads -> Places] /\ cs \in States /\ 0 \in Gens
        /\ media \in [udp : Gens, send : Gens, recv : Gens] /\ datagram \in Gens
    BY ClientSessionAssumption DEF ClientInv, SessionTypes, Gens
  <1>i. Ordered
    BY DEF ClientInv, Ordered
  <1>q. SessionTypes' /\ FlagTypes' /\ Ordered' => ClientInv'
    BY DEF ClientInv, Ordered
  <1>u. UNCHANGED <<cancelled, tcp, owned, media, bridge, stored, call, genConn, stops, past>>
    BY DEF OpenDatagram, HandleDatagram, receiverOnly
  <1>g. ASSUME NEW q \in Places, Go("rcv", q)
        PROVE  /\ pc' \in [Threads -> Places] /\ pc'["sup"] = pc["sup"] /\ pc'["user"] = pc["user"]
               /\ pc'["gen"] = pc["gen"] /\ pc'["rcv"] = q
    BY <1>t, <1>g DEF Go, Threads, Callers
  <1> USE DEF OneCaller, WorkerIsSupervised, StreamIsOwned, CallCarriesTrust, CallAssemblesNothing,
              ReadyIsFresh, DatagramIsPinned, SupervisorMayRetry, Retryable, StoreFollowsGrant, Callers
  <1>1. CASE OpenDatagram
    <2>1. /\ cs' = cs /\ datagram' = media.recv /\ media.recv # 0 /\ Go("rcv", "opened")
      BY <1>1 DEF OpenDatagram
    <2>2. /\ pc' \in [Threads -> Places] /\ pc'["sup"] = pc["sup"] /\ pc'["user"] = pc["user"]
          /\ pc'["gen"] = pc["gen"] /\ pc'["rcv"] = "opened"
      BY <1>g, <2>1 DEF Places
    <2>3. SessionTypes' /\ FlagTypes'
      BY <1>t, <1>u, <2>1, <2>2 DEF SessionTypes, FlagTypes
    <2>4. Ordered'
      BY <1>i, <1>u, <2>1, <2>2 DEF Ordered
    <2> QED
      BY <1>q, <2>3, <2>4
  <1>2. CASE HandleDatagram
    <2>1. /\ cs' = (IF cs.phase = "Ready" THEN [cs EXCEPT !.frames = @ \cup {datagram}] ELSE cs)
          /\ datagram' = 0 /\ pc["rcv"] = "opened" /\ Go("rcv", "idle")
      BY <1>2 DEF HandleDatagram, At
    <2>2. /\ pc' \in [Threads -> Places] /\ pc'["sup"] = pc["sup"] /\ pc'["user"] = pc["user"]
          /\ pc'["gen"] = pc["gen"] /\ pc'["rcv"] = "idle"
      BY <1>g, <2>1 DEF Places
    <2>3. /\ cs' \in States /\ cs'.phase = cs.phase /\ cs'.gen = cs.gen /\ cs'.pairing = cs.pairing
          /\ cs'.ended = cs.ended
          /\ cs'.frames = IF cs.phase = "Ready" THEN cs.frames \cup {datagram} ELSE cs.frames
      BY <1>t, <2>1 DEF States
    <2>4. cs.phase = "Ready" => datagram = cs.gen
      BY <1>i, <2>1 DEF Ordered
    <2>5. SessionTypes' /\ FlagTypes'
      BY <1>t, <1>u, <2>1, <2>2, <2>3 DEF SessionTypes, FlagTypes
    <2>6. Ordered'
      BY <1>i, <1>u, <2>1, <2>2, <2>3, <2>4 DEF Ordered
    <2> QED
      BY <1>q, <2>5, <2>6
  <1> QED
    BY <1>1, <1>2

LEMMA ClientInvInit == ClientInit => ClientInv
  <1> SUFFICES ASSUME ClientInit PROVE ClientInv
    OBVIOUS
  <1>0. 0 \in Gens
    BY ClientSessionAssumption DEF Gens
  <1>1. /\ pc = [user |-> "idle", sup |-> "none", gen |-> "none", rcv |-> "idle"]
        /\ cs = [phase |-> "Disconnected", gen |-> 0, pairing |-> "none", ended |-> FALSE, frames |-> {}]
        /\ call = [t \in Callers |-> NoCall]
        /\ stored \in {"none", "owner", "guest"}
        /\ past = [grants |-> IF stored = "none" THEN {} ELSE {stored}, asked |-> FALSE, conns |-> 0]
    BY DEF ClientInit
  <1>2. pc \in [Threads -> Places] /\ call \in [Callers -> Calls] /\ ~ call["sup"].pin
    BY <1>1, NoCallIsACall DEF Threads, Callers, Places
  <1>3. cs \in States
    BY <1>0, <1>1 DEF States, Phases, Trust
  <1>4. /\ past \in [grants : SUBSET Trusts, asked : BOOLEAN, conns : Gens]
        /\ past.grants = IF stored = "none" THEN {} ELSE {stored}
    BY <1>0, <1>1 DEF Trusts
  <1>5. SessionTypes /\ FlagTypes
    BY <1>0, <1>2, <1>3, <1>4 DEF ClientInit, SessionTypes, FlagTypes, Trust, Trusts
  <1>6. /\ OneCaller /\ WorkerIsSupervised /\ StreamIsOwned /\ ReadyIsFresh /\ DatagramIsPinned
        /\ SupervisorMayRetry
    BY <1>1, <1>2
    DEF OneCaller, WorkerIsSupervised, StreamIsOwned, ReadyIsFresh, DatagramIsPinned,
        SupervisorMayRetry, GenLives, Callers
  <1>7. \A t \in Callers : CallCarriesTrust(t) /\ CallAssemblesNothing(t)
    BY <1>1 DEF CallCarriesTrust, CallAssemblesNothing, Callers, OnTheWay
  <1>8. StoreFollowsGrant
    BY <1>1, <1>4 DEF StoreFollowsGrant
  <1> QED
    BY <1>5, <1>6, <1>7, <1>8 DEF ClientInv

LEMMA ClientInvStep == ClientInv /\ [ClientNext]_clientVars => ClientInv'
  <1> SUFFICES ASSUME ClientInv, [ClientNext]_clientVars PROVE ClientInv'
    OBVIOUS
  <1>1. CASE UNCHANGED clientVars
    <2>1. SessionTypes' /\ FlagTypes'
      BY <1>1 DEF clientVars, ClientInv, SessionTypes, FlagTypes
    <2>2. /\ OneCaller' /\ WorkerIsSupervised' /\ StreamIsOwned' /\ ReadyIsFresh' /\ DatagramIsPinned'
          /\ SupervisorMayRetry' /\ StoreFollowsGrant'
      BY <1>1 DEF clientVars, ClientInv, OneCaller, WorkerIsSupervised, StreamIsOwned, ReadyIsFresh,
                  DatagramIsPinned, SupervisorMayRetry, Retryable, StoreFollowsGrant
    <2>3. \A t \in Callers : CallCarriesTrust(t)' /\ CallAssemblesNothing(t)'
      BY <1>1 DEF clientVars, ClientInv, CallCarriesTrust, CallAssemblesNothing
    <2> QED
      BY <2>1, <2>2, <2>3 DEF ClientInv
  <1>2. ASSUME NEW t \in Callers, Connecting(t) PROVE ClientInv'
    BY <1>2, DialKeeps, HandshakeKeeps, InstallKeeps DEF Connecting
  <1>3. CASE \/ \E pref \in Trusts : CallPair(pref)
             \/ CallConnect \/ Returned \/ Interrupt \/ SpawnTcpRuntime \/ StopRuntime \/ Joined
             \/ Disconnect \/ Disconnected
    BY <1>3, UserKeeps
  <1>4. CASE \/ SupervisorEvent \/ SupervisorJudges \/ SupervisorWaits \/ SupervisorAttempted
             \/ SupervisorLeaves
    BY <1>4, SupervisorKeeps
  <1>5. CASE GenerationStops \/ SessionEnded \/ SessionEndedInterrupts \/ GenerationCleanup
    BY <1>5, GenerationKeeps
  <1>6. CASE OpenDatagram \/ HandleDatagram
    BY <1>6, ReceiverKeeps
  <1> QED
    BY <1>1, <1>2, <1>3, <1>4, <1>5, <1>6 DEF ClientNext

\* In every behaviour of the session, with any number of reconnects, the client's session is
\* safe: no packet of an earlier handshake is assembled, the worker's connection is only its
\* own, only granted trust is stored, and the supervisor respects the end of the session
\* (spawn_tcp_runtime, connect_with_psk, receive_udp_event_clock of maho-app/src/session.rs).
THEOREM ClientSessionStaysSafe == ClientSpec => []ClientSessionSafe
  <1>1. ClientInv => ClientSessionSafe
    <2> SUFFICES ASSUME ClientInv PROVE ClientSessionSafe
      OBVIOUS
    <2>1. ClientTypeOK
      BY TypesAreClientTypeOK DEF ClientInv
    <2>2. FramesOfThisSession /\ GenerationOwnsItsStream
      BY DEF ClientInv, ReadyIsFresh, FramesOfThisSession, StreamIsOwned, GenerationOwnsItsStream, GenLives
    <2>3. NoReconnectAfterEnd
      BY DEF ClientInv, SupervisorMayRetry, Retryable, NoReconnectAfterEnd
    <2> QED
      BY <2>1, <2>2, <2>3 DEF ClientInv, ClientSessionSafe
  <1> QED
    BY <1>1, ClientInvInit, ClientInvStep, PTL DEF ClientSpec

(***************************************************************************)
(* The agent server.  The invariant ties the three things that outlive a   *)
(* request's task to one another: the job that owns the tracker's lock,    *)
(* the gate that the disconnect closes, and the stop of the backend.       *)
(***************************************************************************)
Events == [type : {"down", "up", "reset"}, item : Items]
JobRec == [acts : Seq(AgentActions), evs : Seq(Events), downs : SUBSET Items]
ReqRec == [at : {"none", "waiting", "running", "answering", "over"}, kind : Kinds \cup {"none"}]
ShutRec == [released : BOOLEAN, stops : Nat, spilled : BOOLEAN]

\* The job under the lock works off actions and events; what is held is finite.
JobTypeOK ==
    /\ job \in JobRec /\ shut \in ShutRec
    /\ IsFiniteSet(tracker) /\ IsFiniteSet(job.downs)

\* The lock belongs to an input or a reset whose job holds a permit.
LockIsAJob ==
    lock \in Requests => lock \in jobs /\ req[lock].kind \in {"input", "reset"}

\* A connection has no kind before it was accepted; a disconnect that runs or answers has
\* closed the gate.
RequestPoints ==
    \A r \in Requests :
        /\ req[r].at = "none" => req[r].kind = "none"
        /\ req[r].at = "running" /\ req[r].kind = "disconnect" => inputClosed
        /\ req[r].at = "answering" => inputClosed

\* run() has closed the gate and aborted the tasks when it drains, and holds every permit when it
\* goes on to stop the backend.
DrainedServer ==
    /\ server # "serving" => inputClosed /\ \A r \in Requests : req[r].at = "over"
    /\ server \in {"stopping", "ended"} => jobs = {}

\* After a successful release nobody owns the lock again.
ReleasedStays == shut.released => inputClosed /\ lock = "none" /\ hostHeld = {}

\* The backend is stopped at the very end, and nothing is sent after that.
StoppedOnce ==
    /\ shut.stops \in {0, 1}
    /\ shut.stops = 1 => server \in {"ended", "failed"} /\ jobs = {} /\ finished /\ inputClosed
    /\ ~ shut.spilled

AgentInv ==
    /\ AgentTypeOK /\ JobTypeOK
    /\ LockIsAJob /\ RequestPoints
    /\ DrainedServer /\ ReleasedStays /\ StoppedOnce
-----------------------------------------------------------------------------
(* Requests, permits and the events of an action. *)

\* A task that moves on keeps its kind, and the others stay.
LEMMA ReqMoves ==
    ASSUME AgentTypeOK, NEW r \in Requests,
           NEW p \in {"none", "waiting", "running", "answering", "over"}, ReqAt(r, p)
    PROVE  /\ req' \in [Requests -> ReqRec]
           /\ req'[r].at = p /\ req'[r].kind = req[r].kind
           /\ \A q \in Requests : q # r => req'[q] = req[q]
  <1>1. req \in [Requests -> ReqRec]
    BY DEF AgentTypeOK, ReqRec
  <1>2. req' = [req EXCEPT ![r] = [req[r] EXCEPT !.at = p]]
    BY DEF ReqAt
  <1> QED BY <1>1, <1>2 DEF ReqRec

\* A permit is taken when one is free, and given back.
LEMMA Permits ==
    ASSUME AgentTypeOK, NEW r \in Requests
    PROVE  /\ PermitFree => jobs \cup {r} \subseteq Requests /\ Cardinality(jobs \cup {r}) <= MaxWork
           /\ jobs \ {r} \subseteq Requests /\ Cardinality(jobs \ {r}) <= MaxWork
           /\ IsFiniteSet(jobs)
  <1>1. IsFiniteSet(jobs) /\ jobs \subseteq Requests /\ Cardinality(jobs) \in Nat /\ Cardinality(jobs) <= MaxWork
    BY AgentAssumption, FS_Subset, FS_CardinalityType DEF AgentTypeOK
  <1>2. /\ Cardinality(jobs \cup {r}) <= Cardinality(jobs) + 1
        /\ Cardinality(jobs \cup {r}) \in Nat
    <2>1. /\ IsFiniteSet(jobs \cup {r})
          /\ Cardinality(jobs \cup {r}) = IF r \in jobs THEN Cardinality(jobs) ELSE Cardinality(jobs) + 1
      BY <1>1, FS_AddElement
    <2> QED BY <1>1, <2>1, FS_CardinalityType
  <1>3. /\ Cardinality(jobs \ {r}) <= Cardinality(jobs)
        /\ Cardinality(jobs \ {r}) \in Nat
    <2>1. /\ IsFiniteSet(jobs \ {r})
          /\ Cardinality(jobs \ {r}) = IF r \in jobs THEN Cardinality(jobs) - 1 ELSE Cardinality(jobs)
      BY <1>1, FS_RemoveElement
    <2> QED BY <1>1, <2>1, FS_CardinalityType
  <1> QED BY <1>1, <1>2, <1>3, AgentAssumption DEF PermitFree

\* A finite set of held items can be listed.
LEMMA Listed ==
    ASSUME NEW S, IsFiniteSet(S)
    PROVE  SomeOrder(S) \in [1 .. Cardinality(S) -> S] /\ Cardinality(S) \in Nat
  <1>1. Cardinality(S) \in Nat /\ ExistsBijection(1 .. Cardinality(S), S)
    BY FS_CardinalityType
  <1>2. \E s \in [1 .. Cardinality(S) -> S] : \A i \in S : \E n \in DOMAIN s : s[n] = i
    BY <1>1 DEF ExistsBijection, Bijection, Surjection
  <1> QED BY <1>1, <1>2 DEF SomeOrder

\* An action becomes events on keys and buttons, and the tracker stays finite.
LEMMA Converted ==
    ASSUME NEW a \in AgentActions, tracker \subseteq Items, IsFiniteSet(tracker)
    PROVE  /\ ConvertAgentAction(a) \in Seq(Events)
           /\ TrackerAfter(a) \subseteq Items /\ IsFiniteSet(TrackerAfter(a))
  <1>1. a.item \in Items /\ a.kind \in {"down", "up", "press", "drag", "releaseAll"}
    BY DEF AgentActions, Act
  <1>2. Down(a.item) \in Events /\ Up(a.item) \in Events /\ Reset \in Events
    BY <1>1 DEF Events, Down, Up, Reset
  <1>3. ConvertAgentAction(a) \in Seq(Events)
    <2>1. CASE a.kind = "down"
      BY <1>2, <2>1 DEF ConvertAgentAction
    <2>2. CASE a.kind = "up"
      BY <1>2, <2>2 DEF ConvertAgentAction
    <2>3. CASE a.kind \in {"press", "drag"}
      BY <1>2, <2>3 DEF ConvertAgentAction, PressEvents
    <2>4. CASE a.kind = "releaseAll"
      <3> DEFINE order == SomeOrder(tracker)
                 ups == [n \in DOMAIN order |-> Up(order[n])]
      <3>1. order \in [1 .. Cardinality(tracker) -> tracker] /\ Cardinality(tracker) \in Nat
        BY Listed
      <3> HIDE DEF order
      <3>2. \A n \in 1 .. Cardinality(tracker) : Up(order[n]) \in Events
        BY <3>1 DEF Up, Events
      <3>3. ups \in [1 .. Cardinality(tracker) -> Events]
        BY <3>1, <3>2
      <3> HIDE DEF ups
      <3>4. ups \in Seq(Events)
        BY <3>1, <3>3
      <3>5. Append(ups, Reset) \in Seq(Events)
        BY <1>2, <3>4
      <3> QED BY <2>4, <3>5 DEF ConvertAgentAction, ups, order
    <2> QED BY <1>1, <2>1, <2>2, <2>3, <2>4
  <1>4. TrackerAfter(a) \in {tracker \cup {a.item}, tracker \ {a.item}, tracker, {}}
    BY <1>1 DEF TrackerAfter
  <1>5. /\ IsFiniteSet(tracker \cup {a.item}) /\ IsFiniteSet(tracker \ {a.item}) /\ IsFiniteSet({})
    BY FS_AddElement, FS_RemoveElement, FS_EmptySet
  <1> QED BY <1>1, <1>3, <1>4, <1>5

\* What an event leaves held is a finite set of items.
LEMMA HeldItems ==
    ASSUME NEW h, h \subseteq Items, NEW e \in Events
    PROVE  Held(h, e) \subseteq Items /\ (IsFiniteSet(h) => IsFiniteSet(Held(h, e)))
  <1>1. e.item \in Items /\ e.type \in {"down", "up", "reset"}
    BY DEF Events
  <1>2. Held(h, e) \in {h \cup {e.item}, h \ {e.item}, {}}
    BY <1>1 DEF Held
  <1>3. IsFiniteSet(h) => IsFiniteSet(h \cup {e.item}) /\ IsFiniteSet(h \ {e.item}) /\ IsFiniteSet({})
    BY FS_AddElement, FS_RemoveElement, FS_EmptySet
  <1> QED BY <1>1, <1>2, <1>3

\* release_inputs takes from what the host holds, and clears it when all of it went through.
LEMMA Releases ==
    ASSUME AgentTypeOK, NEW recorded, recorded \subseteq Items, IsFiniteSet(recorded),
           NEW ok \in BOOLEAN, ReleaseInputs(recorded, ok)
    PROVE  /\ hostHeld' \subseteq hostHeld /\ hostHeld' \subseteq Items
           /\ tracker' \subseteq Items /\ IsFiniteSet(tracker')
           /\ ok => hostHeld' = {}
  <1>1. PICK ups \in SUBSET recorded, reset \in BOOLEAN :
           /\ hostHeld' = IF reset THEN {} ELSE hostHeld \ ups
           /\ tracker' = IF reset THEN {} ELSE recorded
           /\ ok = (reset /\ ups = recorded)
    BY DEF ReleaseInputs
  <1>2. hostHeld' \in {{}, hostHeld \ ups} /\ tracker' \in {{}, recorded}
    BY <1>1
  <1>3. ok => hostHeld' = {}
    BY <1>1
  <1> QED BY <1>2, <1>3, FS_EmptySet DEF AgentTypeOK

\* The job that owns the lock ends.
LEMMA JobGone ==
    ASSUME AgentInv, lock \in Requests, JobEnds
    PROVE  /\ req' \in [Requests -> ReqRec] /\ jobs' \subseteq jobs /\ Cardinality(jobs') <= MaxWork
           /\ lock' = "none" /\ job' \in JobRec /\ IsFiniteSet(job'.downs)
           /\ \A q \in Requests : /\ req'[q].kind = req[q].kind
                                  /\ req'[q].at \in {req[q].at, "over"}
  <1>1. AgentTypeOK /\ req \in [Requests -> ReqRec]
    BY DEF AgentInv, AgentTypeOK, ReqRec
  <1>2. jobs' \subseteq jobs /\ Cardinality(jobs') <= MaxWork /\ lock' = "none"
    BY <1>1, Permits DEF JobEnds
  <1>3. NoJob \in JobRec /\ NoJob.downs = {}
    BY DEF NoJob, JobRec
  <1>4. job' \in JobRec /\ IsFiniteSet(job'.downs)
    BY <1>3, FS_EmptySet DEF JobEnds
  <1>5. CASE req' = req
    BY <1>1, <1>2, <1>4, <1>5
  <1>6. CASE ReqAt(lock, "over")
    BY <1>1, <1>2, <1>4, <1>6, ReqMoves
  <1> QED BY <1>5, <1>6 DEF JobEnds, ReqAt
-----------------------------------------------------------------------------
(* The invariant. *)

\* What every step must show, with the parts of the invariant in plain reach.
LEMMA Facts ==
    ASSUME AgentInv
    PROVE  /\ AgentTypeOK /\ JobTypeOK /\ req \in [Requests -> ReqRec]
           /\ LockIsAJob /\ RequestPoints /\ DrainedServer /\ ReleasedStays /\ StoppedOnce
  BY DEF AgentInv, AgentTypeOK, ReqRec

\* A connection is accepted, or a screen job runs: neither touches the lock or the inputs.
LEMMA ScreenKeeps ==
    ASSUME AgentInv, NEW r \in Requests,
           (\E k \in Kinds : Accept(r, k)) \/ StartScreen(r) \/ EndScreen(r)
    PROVE  AgentInv'
  <1>1. ASSUME NEW k \in Kinds, Accept(r, k) PROVE AgentInv'
    <2>1. [at |-> "waiting", kind |-> k] \in ReqRec
      BY DEF ReqRec
    <2>2. /\ req' \in [Requests -> ReqRec]
          /\ req'[r] = [at |-> "waiting", kind |-> k]
          /\ \A q \in Requests : q # r => req'[q] = req[q]
      BY <1>1, <2>1, Facts DEF Accept
    <2>3. /\ UNCHANGED <<server, inputClosed, finished, jobs, lock, job, tracker, hostHeld, shut>>
          /\ shot' \in BOOLEAN /\ server = "serving" /\ req[r].at = "none"
      BY <1>1, Facts DEF Accept, AgentTypeOK
    <2>4. r # lock
      BY <2>3, Facts DEF LockIsAJob, RequestPoints
    <2>5. AgentTypeOK' /\ JobTypeOK'
      BY <2>2, <2>3, Facts DEF AgentTypeOK, JobTypeOK, ReqRec
    <2>6. LockIsAJob' /\ RequestPoints'
      BY <2>2, <2>3, <2>4, Facts DEF LockIsAJob, RequestPoints
    <2>7. DrainedServer' /\ ReleasedStays' /\ StoppedOnce'
      BY <2>3, Facts DEF DrainedServer, ReleasedStays, StoppedOnce
    <2> QED BY <2>5, <2>6, <2>7 DEF AgentInv
  <1>2. CASE StartScreen(r)
    <2>1. /\ req' \in [Requests -> ReqRec]
          /\ req'[r].at = "running" /\ req'[r].kind = req[r].kind
          /\ \A q \in Requests : q # r => req'[q] = req[q]
      BY <1>2, Facts, ReqMoves DEF StartScreen
    <2>2. jobs' = jobs \cup {r} /\ jobs' \subseteq Requests /\ Cardinality(jobs') <= MaxWork
      BY <1>2, Facts, Permits DEF StartScreen
    <2>3. /\ UNCHANGED <<server, inputClosed, finished, shot, lock, job, tracker, hostHeld, shut>>
          /\ req[r].at = "waiting" /\ req[r].kind \in {"screen", "screenshot"}
      BY <1>2 DEF StartScreen
    <2>4. server = "serving"
      BY <2>3, Facts DEF DrainedServer
    <2>5. AgentTypeOK' /\ JobTypeOK'
      BY <2>1, <2>2, <2>3, Facts DEF AgentTypeOK, JobTypeOK, ReqRec
    <2>6. LockIsAJob' /\ RequestPoints'
      BY <2>1, <2>2, <2>3, Facts DEF LockIsAJob, RequestPoints
    <2>7. DrainedServer' /\ ReleasedStays' /\ StoppedOnce'
      BY <2>3, <2>4, Facts DEF DrainedServer, ReleasedStays, StoppedOnce
    <2> QED BY <2>5, <2>6, <2>7 DEF AgentInv
  <1>3. CASE EndScreen(r)
    <2>1. /\ req' \in [Requests -> ReqRec]
          /\ \A q \in Requests : req'[q].kind = req[q].kind /\ req'[q].at \in {req[q].at, "over"}
      <3>1. CASE req' = req
        BY <3>1, Facts
      <3>2. CASE ReqAt(r, "over")
        BY <3>2, Facts, ReqMoves
      <3> QED BY <1>3, <3>1, <3>2 DEF EndScreen, ReqAt
    <2>2. jobs' = jobs \ {r} /\ jobs' \subseteq Requests /\ Cardinality(jobs') <= MaxWork
      BY <1>3, Facts, Permits DEF EndScreen
    <2>3. /\ UNCHANGED <<server, inputClosed, finished, lock, job, tracker, hostHeld, shut>>
          /\ shot' \in BOOLEAN /\ req[r].kind \in {"screen", "screenshot"}
      BY <1>3 DEF EndScreen
    <2>4. AgentTypeOK' /\ JobTypeOK'
      BY <2>1, <2>2, <2>3, Facts DEF AgentTypeOK, JobTypeOK, ReqRec
    <2>5. LockIsAJob' /\ RequestPoints'
      BY <2>1, <2>2, <2>3, Facts DEF LockIsAJob, RequestPoints
    <2>6. DrainedServer' /\ ReleasedStays' /\ StoppedOnce'
      BY <2>1, <2>2, <2>3, Facts DEF DrainedServer, ReleasedStays, StoppedOnce
    <2> QED BY <2>4, <2>5, <2>6 DEF AgentInv
  <1> QED BY <1>1, <1>2, <1>3

\* The lock is taken only with the gate open, hence before any successful release; a task that
\* gives up leaves its job to the lock.
LEMMA TakeKeeps ==
    ASSUME AgentInv, NEW r \in Requests, TakeTracker(r) \/ GivesUp(r)
    PROVE  AgentInv'
  <1>1. CASE GivesUp(r) \/ (TakeTracker(r) /\ ReqAt(r, "over") /\ UNCHANGED <<lock, jobs, job>>)
    <2>1. /\ req' \in [Requests -> ReqRec]
          /\ \A q \in Requests : req'[q].kind = req[q].kind /\ req'[q].at \in {req[q].at, "over"}
      BY <1>1, Facts, ReqMoves DEF GivesUp
    <2>2. /\ UNCHANGED <<server, inputClosed, finished, jobs, lock, job, tracker, hostHeld, shut>>
          /\ shot' \in BOOLEAN
      BY <1>1, Facts DEF GivesUp, TakeTracker, AgentTypeOK
    <2>3. AgentTypeOK' /\ JobTypeOK'
      BY <2>1, <2>2, Facts DEF AgentTypeOK, JobTypeOK, ReqRec
    <2>4. LockIsAJob' /\ RequestPoints'
      BY <2>1, <2>2, Facts DEF LockIsAJob, RequestPoints
    <2>5. DrainedServer' /\ ReleasedStays' /\ StoppedOnce'
      BY <2>1, <2>2, Facts DEF DrainedServer, ReleasedStays, StoppedOnce
    <2> QED BY <2>3, <2>4, <2>5 DEF AgentInv
  <1>2. CASE TakeTracker(r) /\ ~ inputClosed /\ PermitFree /\ lock' = r /\ jobs' = jobs \cup {r}
             /\ ReqAt(r, "running")
             /\ \E b \in IF req[r].kind = "input" THEN Batches ELSE {<<>>} :
                    job' = [NoJob EXCEPT !.acts = b]
    <2>1. /\ req' \in [Requests -> ReqRec]
          /\ req'[r].at = "running" /\ req'[r].kind = req[r].kind
          /\ \A q \in Requests : q # r => req'[q] = req[q]
      BY <1>2, Facts, ReqMoves
    <2>2. jobs' = jobs \cup {r} /\ jobs' \subseteq Requests /\ Cardinality(jobs') <= MaxWork
      BY <1>2, Facts, Permits
    <2>3. /\ UNCHANGED <<server, inputClosed, finished, shot, tracker, hostHeld, shut>>
          /\ req[r].at = "waiting" /\ req[r].kind \in {"input", "reset"} /\ lock' = r
      BY <1>2 DEF TakeTracker
    <2>4. server = "serving" /\ ~ shut.released
      BY <1>2, <2>3, Facts DEF DrainedServer, ReleasedStays
    <2>5. job' \in JobRec /\ IsFiniteSet(job'.downs)
      <3>1. Batches \cup {<<>>} \subseteq Seq(AgentActions)
        <4>1. \A i \in Items : Act("down", i) \in AgentActions
          BY DEF AgentActions
        <4>2. {<<>>} \subseteq Seq(AgentActions)
          OBVIOUS
        <4>3. \A a \in AgentActions : <<a>> \in Seq(AgentActions)
          OBVIOUS
        <4>4. \A i \in Items, b \in AgentActions : <<Act("down", i), b>> \in Seq(AgentActions)
          BY <4>1
        <4>5. ASSUME NEW b \in Batches PROVE b \in Seq(AgentActions)
          <5>1. \/ \E a \in AgentActions : b = <<a>>
                \/ \E i \in Items, a \in AgentActions : b = <<Act("down", i), a>>
            <6>1. b \in {<<a>> : a \in AgentActions} => \E a \in AgentActions : b = <<a>>
              OBVIOUS
            <6>2. b \in {<<Act("down", i), a>> : i \in Items, a \in AgentActions} =>
                      \E i \in Items, a \in AgentActions : b = <<Act("down", i), a>>
              OBVIOUS
            <6> QED BY <6>1, <6>2 DEF Batches
          <5> QED BY <4>3, <4>4, <5>1
        <4> QED BY <4>2, <4>5
      <3>2. PICK b \in Seq(AgentActions) : job' = [NoJob EXCEPT !.acts = b]
        BY <1>2, <3>1
      <3>3. job' \in JobRec /\ job'.downs = {}
        <4>1. job' = [acts |-> b, evs |-> <<>>, downs |-> {}]
          BY <3>2 DEF NoJob
        <4>2. <<>> \in Seq(Events)
          OBVIOUS
        <4> QED BY <4>1, <4>2 DEF JobRec
      <3> QED BY <3>3, FS_EmptySet
    <2>6. AgentTypeOK' /\ JobTypeOK'
      BY <2>1, <2>2, <2>3, <2>5, Facts DEF AgentTypeOK, JobTypeOK, ReqRec
    <2>7. LockIsAJob' /\ RequestPoints'
      BY <2>1, <2>2, <2>3, Facts DEF LockIsAJob, RequestPoints
    <2>8. DrainedServer' /\ ReleasedStays' /\ StoppedOnce'
      BY <2>3, <2>4, Facts DEF DrainedServer, ReleasedStays, StoppedOnce
    <2> QED BY <2>6, <2>7, <2>8 DEF AgentInv
  <1> QED BY <1>1, <1>2 DEF TakeTracker
\* The job under the lock sends: the gate may have closed meanwhile, but while it owns the lock
\* no disconnect has released anything and the backend runs.
LEMMA JobKeeps ==
    ASSUME AgentInv, NextAction \/ SendEvent \/ ResetInput
    PROVE  AgentInv'
  <1>0. lock \in Requests /\ lock \in jobs /\ lock # "none"
    BY Facts, AgentAssumption DEF NextAction, SendEvent, ResetInput, InputRuns, LockIsAJob
  <1>1. UNCHANGED <<server, inputClosed, finished, shot>>
    BY DEF NextAction, SendEvent, ResetInput
  <1>2. ~ shut.released /\ shut.stops = 0 /\ server \in {"serving", "draining", "failed"}
    BY <1>0, Facts DEF ReleasedStays, StoppedOnce, DrainedServer, AgentTypeOK
  <1>3. shut' \in ShutRec /\ ~ shut'.released /\ shut'.stops = 0 /\ ~ shut'.spilled
    <2>1. CASE shut' = shut
      BY <1>2, <2>1, Facts DEF JobTypeOK, StoppedOnce
    <2>2. CASE Sends(1)
      <3>1. shut' = [shut EXCEPT !.spilled = shut.spilled]
        BY <1>2, <2>2, Facts DEF Sends, JobTypeOK, ShutRec
      <3> QED BY <1>2, <3>1, Facts DEF JobTypeOK, StoppedOnce, ShutRec
    <2> QED BY <2>1, <2>2 DEF NextAction, SendEvent, ResetInput
  <1>4. /\ hostHeld' \subseteq Items /\ tracker' \subseteq Items /\ IsFiniteSet(tracker')
        /\ job' \in JobRec /\ IsFiniteSet(job'.downs)
        /\ req' \in [Requests -> ReqRec] /\ jobs' \subseteq jobs /\ Cardinality(jobs') <= MaxWork
        /\ \A q \in Requests : req'[q].kind = req[q].kind /\ req'[q].at \in {req[q].at, "over"}
        /\ lock' = "none" \/ (lock' = lock /\ jobs' = jobs)
    <2>0. /\ tracker \subseteq Items /\ IsFiniteSet(tracker) /\ hostHeld \subseteq Items
          /\ job \in JobRec /\ IsFiniteSet(job.downs) /\ job.downs \subseteq Items
          /\ job.acts \in Seq(AgentActions) /\ job.evs \in Seq(Events)
          /\ Cardinality(jobs) <= MaxWork
      BY Facts DEF AgentTypeOK, JobTypeOK, JobRec
    <2>1. CASE NextAction /\ JobEnds /\ tracker' = tracker
      BY <1>0, <2>0, <2>1, JobGone DEF NextAction
    <2>2. CASE /\ NextAction /\ job.acts # <<>> /\ tracker' = TrackerAfter(Head(job.acts))
               /\ job' = [job EXCEPT !.acts = Tail(@), !.evs = ConvertAgentAction(Head(job.acts))]
               /\ UNCHANGED <<jobs, lock, req>>
      <3>1. Head(job.acts) \in AgentActions /\ Tail(job.acts) \in Seq(AgentActions)
        BY <2>0, <2>2
      <3>2. /\ ConvertAgentAction(Head(job.acts)) \in Seq(Events)
            /\ tracker' \subseteq Items /\ IsFiniteSet(tracker')
        BY <2>0, <2>2, <3>1, Converted
      <3>3. job' \in JobRec /\ job'.downs = job.downs
        BY <2>0, <2>2, <3>1, <3>2 DEF JobRec
      <3> QED BY <2>0, <2>2, <3>2, <3>3, Facts DEF NextAction
    <2>3. CASE /\ SendEvent /\ job.evs # <<>> /\ hostHeld' = Held(hostHeld, Head(job.evs))
               /\ job' = [job EXCEPT !.evs = Tail(@), !.downs = Held(@, Head(job.evs))]
               /\ UNCHANGED <<tracker, jobs, lock, req>>
      <3>1. Head(job.evs) \in Events /\ Tail(job.evs) \in Seq(Events)
        BY <2>0, <2>3
      <3>2. hostHeld' \subseteq Items
        BY <2>0, <2>3, <3>1, HeldItems
      <3>3. Held(job.downs, Head(job.evs)) \subseteq Items /\ IsFiniteSet(Held(job.downs, Head(job.evs)))
        BY <2>0, <3>1, HeldItems
      <3>4. job' \in JobRec /\ job'.downs = Held(job.downs, Head(job.evs))
        BY <2>0, <2>3, <3>1, <3>3 DEF JobRec
      <3> QED BY <2>0, <2>3, <3>2, <3>3, <3>4, Facts
    <2>4. ASSUME NEW recorded, NEW ok \in BOOLEAN, ReleaseInputs(recorded, ok), JobEnds,
                 recorded \subseteq Items, IsFiniteSet(recorded)
          PROVE  <1>4
      BY <1>0, <2>4, Facts, JobGone, Releases
    <2>5. IsFiniteSet(tracker \cup job.downs) /\ tracker \cup job.downs \subseteq Items
      BY <2>0, FS_Union
    <2> QED BY <2>0, <2>1, <2>2, <2>3, <2>4, <2>5 DEF NextAction, SendEvent, ResetInput
  <1>5. AgentTypeOK' /\ JobTypeOK'
    BY <1>0, <1>1, <1>3, <1>4, Facts DEF AgentTypeOK, JobTypeOK, ReqRec
  <1>6. LockIsAJob'
    BY <1>0, <1>4, Facts, AgentAssumption DEF LockIsAJob
  <1>7. RequestPoints'
    BY <1>1, <1>4, Facts DEF RequestPoints
  <1>8. DrainedServer' /\ ReleasedStays' /\ StoppedOnce'
    BY <1>1, <1>2, <1>3, <1>4, Facts DEF DrainedServer, ReleasedStays, StoppedOnce
  <1> QED BY <1>5, <1>6, <1>7, <1>8 DEF AgentInv

\* A disconnect closes the gate before it waits for the lock, and releases with the lock free.
LEMMA DisconnectKeeps ==
    ASSUME AgentInv, NEW r \in Requests,
           BeginDisconnect(r) \/ DisconnectReleases(r) \/ DisconnectAnswered(r)
    PROVE  AgentInv'
  <1>1. CASE BeginDisconnect(r)
    <2>1. UNCHANGED <<server, finished, jobs, shot, lock, job, tracker, hostHeld, shut>>
      BY <1>1 DEF BeginDisconnect
    <2>2. /\ req' \in [Requests -> ReqRec] /\ req'[r].kind = req[r].kind
          /\ req'[r].at \in {"running", "over"}
          /\ req'[r].at = "running" => inputClosed'
          /\ \A q \in Requests : q # r => req'[q] = req[q]
          /\ inputClosed' \in BOOLEAN /\ (inputClosed => inputClosed')
      <3>1. CASE ReqAt(r, "over") /\ inputClosed' = inputClosed
        BY <3>1, Facts, ReqMoves DEF AgentTypeOK
      <3>2. CASE ReqAt(r, "running") /\ inputClosed' = TRUE
        BY <3>2, Facts, ReqMoves
      <3> QED BY <1>1, <3>1, <3>2 DEF BeginDisconnect
    <2>3. server = "serving"
      BY <1>1, Facts DEF BeginDisconnect, DrainedServer
    <2>4. AgentTypeOK' /\ JobTypeOK'
      BY <2>1, <2>2, Facts DEF AgentTypeOK, JobTypeOK, ReqRec
    <2>5. LockIsAJob' /\ RequestPoints'
      BY <2>1, <2>2, Facts DEF LockIsAJob, RequestPoints
    <2>6. DrainedServer' /\ ReleasedStays' /\ StoppedOnce'
      BY <2>1, <2>2, <2>3, Facts DEF DrainedServer, ReleasedStays, StoppedOnce
    <2> QED BY <2>4, <2>5, <2>6 DEF AgentInv
  <1>2. CASE DisconnectReleases(r)
    <2>1. /\ UNCHANGED <<server, inputClosed, finished, jobs, shot, lock, job>>
          /\ lock = "none" /\ inputClosed /\ req[r].at = "running"
      BY <1>2, Facts DEF DisconnectReleases, RequestPoints
    <2>2. server = "serving" /\ shut.stops = 0
      BY <2>1, Facts DEF DrainedServer, StoppedOnce
    <2>3. /\ req' \in [Requests -> ReqRec]
          /\ req'[r].at = "answering" /\ req'[r].kind = req[r].kind
          /\ \A q \in Requests : q # r => req'[q] = req[q]
      BY <1>2, Facts, ReqMoves DEF DisconnectReleases
    <2>4. PICK ok \in BOOLEAN :
             /\ ReleaseInputs(tracker, ok)
             /\ shut' = [shut EXCEPT !.released = @ \/ ok, !.spilled = @ \/ shut.stops > 0]
      BY <1>2 DEF DisconnectReleases
    <2>5. /\ hostHeld' \subseteq hostHeld /\ hostHeld' \subseteq Items
          /\ tracker' \subseteq Items /\ IsFiniteSet(tracker')
          /\ ok => hostHeld' = {}
      BY <2>4, Facts, Releases DEF AgentTypeOK, JobTypeOK
    <2>6. /\ shut' \in ShutRec /\ shut'.stops = 0 /\ ~ shut'.spilled
          /\ shut'.released = (shut.released \/ ok)
      <3>1. shut \in ShutRec /\ shut.stops = 0 /\ ~ (shut.stops > 0) /\ ~ shut.spilled
        BY <2>2, Facts DEF JobTypeOK, StoppedOnce
      <3> DEFINE rel == shut.released \/ ok
                 spill == shut.spilled \/ shut.stops > 0
      <3>2. shut' = [shut EXCEPT !.released = rel, !.spilled = spill]
        BY <2>4
      <3>3. rel \in BOOLEAN /\ spill = FALSE
        BY <3>1
      <3> HIDE DEF rel, spill
      <3>4. shut' \in ShutRec /\ shut'.stops = 0 /\ shut'.spilled = spill /\ shut'.released = rel
        BY <3>1, <3>2, <3>3 DEF ShutRec
      <3> QED BY <3>3, <3>4 DEF rel
    <2>7. AgentTypeOK' /\ JobTypeOK'
      BY <2>1, <2>3, <2>5, <2>6, Facts DEF AgentTypeOK, JobTypeOK, ReqRec
    <2>8. LockIsAJob' /\ RequestPoints'
      BY <2>1, <2>3, Facts DEF LockIsAJob, RequestPoints
    <2>9. ReleasedStays'
      BY <2>1, <2>5, <2>6, Facts DEF ReleasedStays
    <2>10. DrainedServer' /\ StoppedOnce'
      BY <2>1, <2>2, <2>6, Facts DEF DrainedServer, StoppedOnce
    <2> QED BY <2>7, <2>8, <2>9, <2>10 DEF AgentInv
  <1>3. CASE DisconnectAnswered(r)
    <2>1. /\ UNCHANGED <<server, inputClosed, jobs, shot, lock, job, tracker, hostHeld, shut>>
          /\ finished' \in BOOLEAN /\ (finished => finished')
      <3>1. finished' = TRUE \/ finished' = finished
        BY <1>3 DEF DisconnectAnswered
      <3>2. finished \in BOOLEAN
        BY Facts DEF AgentTypeOK
      <3>3. UNCHANGED <<server, inputClosed, jobs, shot, lock, job, tracker, hostHeld, shut>>
        BY <1>3 DEF DisconnectAnswered
      <3>4. finished' \in BOOLEAN /\ (finished => finished')
        <4>1. CASE finished' = TRUE
          BY <4>1
        <4>2. CASE finished' = finished
          BY <3>2, <4>2
        <4> QED BY <3>1, <4>1, <4>2
      <3> QED BY <3>3, <3>4
    <2>2. /\ req' \in [Requests -> ReqRec]
          /\ \A q \in Requests : req'[q].kind = req[q].kind /\ req'[q].at \in {req[q].at, "over"}
      BY <1>3, Facts, ReqMoves DEF DisconnectAnswered
    <2>3. AgentTypeOK' /\ JobTypeOK'
      BY <2>1, <2>2, Facts DEF AgentTypeOK, JobTypeOK, ReqRec
    <2>4. LockIsAJob' /\ RequestPoints'
      BY <2>1, <2>2, Facts DEF LockIsAJob, RequestPoints
    <2>5. DrainedServer' /\ ReleasedStays' /\ StoppedOnce'
      BY <2>1, <2>2, Facts DEF DrainedServer, ReleasedStays, StoppedOnce
    <2> QED BY <2>3, <2>4, <2>5 DEF AgentInv
  <1> QED BY <1>1, <1>2, <1>3

\* The watchdog and run().
LEMMA ServerKeeps ==
    ASSUME AgentInv, WatchdogReleases \/ StopServing \/ Drain \/ EndServer
    PROVE  AgentInv'
  <1>1. CASE WatchdogReleases
    <2>1. UNCHANGED <<server, inputClosed, finished, req, jobs, shot, lock, job>> /\ server = "serving"
      BY <1>1 DEF WatchdogReleases
    <2>2. shut.stops = 0
      BY <2>1, Facts DEF StoppedOnce
    <2>3. /\ hostHeld' \subseteq hostHeld /\ hostHeld' \subseteq Items
          /\ tracker' \subseteq Items /\ IsFiniteSet(tracker')
      BY <1>1, Facts, Releases DEF WatchdogReleases, AgentTypeOK, JobTypeOK
    <2>4. shut' = shut
      <3>1. shut' = [shut EXCEPT !.spilled = shut.spilled]
        BY <1>1, <2>2, Facts DEF WatchdogReleases, Sends, JobTypeOK, ShutRec
      <3> QED BY <3>1, Facts DEF JobTypeOK, ShutRec
    <2>5. AgentTypeOK' /\ JobTypeOK'
      BY <2>1, <2>3, <2>4, Facts DEF AgentTypeOK, JobTypeOK, ReqRec
    <2>6. LockIsAJob' /\ RequestPoints' /\ DrainedServer' /\ ReleasedStays' /\ StoppedOnce'
      BY <2>1, <2>3, <2>4, Facts DEF LockIsAJob, RequestPoints, DrainedServer, ReleasedStays, StoppedOnce
    <2> QED BY <2>5, <2>6 DEF AgentInv
  <1>2. CASE StopServing
    <2>1. /\ UNCHANGED <<finished, jobs, lock, job, tracker, hostHeld, shut>>
          /\ server = "serving" /\ server' = "draining" /\ inputClosed' = TRUE /\ shot' \in BOOLEAN
      BY <1>2 DEF StopServing
    <2>2. /\ req' \in [Requests -> ReqRec]
          /\ \A q \in Requests : req'[q].kind = req[q].kind /\ req'[q].at = "over"
      <3>1. req' = [r \in Requests |-> [req[r] EXCEPT !.at = "over"]]
        BY <1>2 DEF StopServing
      <3> QED BY <3>1, Facts DEF ReqRec
    <2>3. AgentTypeOK' /\ JobTypeOK'
      BY <2>1, <2>2, Facts DEF AgentTypeOK, JobTypeOK, ReqRec
    <2>4. LockIsAJob' /\ RequestPoints'
      BY <2>1, <2>2, Facts DEF LockIsAJob, RequestPoints
    <2>5. DrainedServer' /\ ReleasedStays' /\ StoppedOnce'
      BY <2>1, <2>2, Facts DEF DrainedServer, ReleasedStays, StoppedOnce
    <2> QED BY <2>3, <2>4, <2>5 DEF AgentInv
  <1>3. CASE Drain
    <2>1. /\ UNCHANGED <<inputClosed, finished, req, jobs, shot, lock, job, tracker, hostHeld, shut>>
          /\ server = "draining" /\ server' \in {"stopping", "failed"}
          /\ server' = "stopping" => jobs = {}
      BY <1>3 DEF Drain
    <2>2. AgentTypeOK' /\ JobTypeOK'
      BY <2>1, Facts DEF AgentTypeOK, JobTypeOK, ReqRec
    <2>3. LockIsAJob' /\ RequestPoints'
      BY <2>1, Facts DEF LockIsAJob, RequestPoints
    <2>4. DrainedServer' /\ ReleasedStays' /\ StoppedOnce'
      BY <2>1, Facts DEF DrainedServer, ReleasedStays, StoppedOnce
    <2> QED BY <2>2, <2>3, <2>4 DEF AgentInv
  <1>4. CASE EndServer
    <2>1. /\ UNCHANGED <<inputClosed, finished, req, jobs, shot, lock, job>>
          /\ server = "stopping" /\ server' \in {"ended", "failed"}
      BY <1>4 DEF EndServer
    <2>2. shut.stops = 0 /\ jobs = {} /\ inputClosed
      BY <2>1, Facts DEF StoppedOnce, DrainedServer
    <2>3. /\ hostHeld' \subseteq hostHeld /\ hostHeld' \subseteq Items
          /\ tracker' \subseteq Items /\ IsFiniteSet(tracker')
      <3>1. CASE UNCHANGED <<tracker, hostHeld>>
        BY <3>1, Facts DEF AgentTypeOK, JobTypeOK
      <3>2. ASSUME NEW ok \in BOOLEAN, ReleaseInputs(tracker, ok) PROVE <2>3
        BY <3>2, Facts, Releases DEF AgentTypeOK, JobTypeOK
      <3> QED BY <1>4, <3>1, <3>2 DEF EndServer
    <2>4. /\ shut' \in ShutRec /\ shut'.released = shut.released /\ shut'.spilled = shut.spilled
          /\ shut'.stops = 0 \/ (shut'.stops = 1 /\ finished)
      BY <1>4, <2>2, Facts DEF EndServer, JobTypeOK, ShutRec
    <2>5. AgentTypeOK' /\ JobTypeOK'
      BY <2>1, <2>3, <2>4, Facts DEF AgentTypeOK, JobTypeOK, ReqRec
    <2>6. LockIsAJob' /\ RequestPoints' /\ DrainedServer' /\ ReleasedStays'
      BY <2>1, <2>2, <2>3, <2>4, Facts DEF LockIsAJob, RequestPoints, DrainedServer, ReleasedStays
    <2>7. StoppedOnce'
      BY <2>1, <2>2, <2>4, Facts DEF StoppedOnce
    <2> QED BY <2>5, <2>6, <2>7 DEF AgentInv
  <1> QED BY <1>1, <1>2, <1>3, <1>4

\* The server starts with nothing held and nobody connected.
LEMMA AgentInitially == AgentInit => AgentInv
  <1> SUFFICES ASSUME AgentInit PROVE AgentInv
    OBVIOUS
  <1>1. AgentTypeOK
    <2>1. jobs \subseteq Requests /\ Cardinality(jobs) <= MaxWork
      BY FS_EmptySet, AgentAssumption DEF AgentInit
    <2>2. req \in [Requests -> ReqRec]
      BY DEF AgentInit, ReqRec
    <2> QED BY <2>1, <2>2 DEF AgentInit, AgentTypeOK, ReqRec
  <1>2. JobTypeOK
    <2>1. NoJob \in JobRec /\ NoJob.downs = {}
      BY DEF NoJob, JobRec
    <2> QED BY <2>1, FS_EmptySet DEF AgentInit, JobTypeOK, ShutRec
  <1>3. LockIsAJob /\ RequestPoints /\ DrainedServer /\ ReleasedStays /\ StoppedOnce
    BY AgentAssumption DEF AgentInit, LockIsAJob, RequestPoints, DrainedServer, ReleasedStays, StoppedOnce
  <1> QED BY <1>1, <1>2, <1>3 DEF AgentInv

\* Every step of every task keeps the invariant.
LEMMA AgentStep ==
    ASSUME AgentInv, [AgentNext]_agentVars
    PROVE  AgentInv'
  <1>1. CASE UNCHANGED agentVars
    BY <1>1 DEF agentVars, AgentInv, AgentTypeOK, JobTypeOK, LockIsAJob, RequestPoints,
       DrainedServer, ReleasedStays, StoppedOnce
  <1> QED BY <1>1, ScreenKeeps, TakeKeeps, JobKeeps, DisconnectKeeps, ServerKeeps DEF AgentNext

\* Whatever requests race with a disconnect or a shutdown, the host is left holding nothing once
\* a disconnect released its inputs, and the backend is stopped at most once, with the gate closed
\* and no job left that could still send (agent_server.rs run, agent_input.rs release_inputs).
THEOREM AgentStaysSafe == AgentSpec => []AgentServerSafe
  <1>1. AgentInv => AgentServerSafe
    BY DEF AgentInv, AgentServerSafe, ReleasedStays, StoppedOnce
  <1> QED BY <1>1, AgentInitially, AgentStep, PTL DEF AgentSpec
(***************************************************************************)
(* The desktop shell.                                                      *)
(***************************************************************************)
Teardown == {"monitor", "take", "detach", "dropOutput", "reset", "disconnect", "join", "torn"}
ConnectPoints == {"create", "authenticate", "endpoint", "audioOpen", "audioAttach", "worker", "startMonitor"}
LivePoints == {"loop", "event", "joining"}

LifePoints == Teardown \cup ConnectPoints \cup {"idle"}
Reasons == {"none", "connect", "disconnect", "final", "fallback", "failed", "device"}
LifeRecords == [at : LifePoints, why : Reasons, own : SessionOrNone, tcp : SessionOrNone, join : BOOLEAN]
UiPoints == {"idle", "send", "steal", "reconnect", "respawn", "store", "again", "monitor"}
UiRecords == [at : UiPoints, own : SessionOrNone]
MediaEvents == {"none", "frame", "audio", "cursor"}
RxRecords == [at : LivePoints \cup {"none", "done"}, own : SessionOrNone, event : MediaEvents]
AudioRecords == [up : BOOLEAN, output : BOOLEAN, queue : BOOLEAN, active : BOOLEAN, pcm : SUBSET Sessions]

DesktopTypes ==
    /\ DesktopTypeOK
    /\ life \in LifeRecords /\ ui \in UiRecords /\ rx \in RxRecords
    /\ dec \in {"idle", "decoding", "done"}

\* Nothing runs for a session and nothing is left of one.
Fresh ==
    /\ mailbox = EmptyMailbox /\ cursor = 0 /\ audio.pcm = {}
    /\ rx.at \in {"none", "done"} /\ dec = "done"

\* connect_session is at work and has not started the media worker; the audio command that
\* opens another device goes through the same two points in a running session.
BeforeWorker ==
    \/ life.at \in {"torn", "create", "authenticate", "endpoint", "worker"}
    \/ life.at \in {"audioOpen", "audioAttach"} /\ life.why # "device"

\* The worker is the slot's handle, or the handle a teardown has taken and will join.
WorkerIsHeld ==
    /\ dec # "done" => rx.at \in LivePoints
    /\ rx.at \in LivePoints =>
          \/ heldInput
          \/ life.join /\ life.at \in {"detach", "dropOutput", "reset", "disconnect", "join"}
    /\ heldInput =>
          /\ slot # 0
          /\ ~BeforeWorker
          /\ life.at \notin {"detach", "dropOutput", "reset", "disconnect", "join"}

\* What is left over is the worker's, whichever session it serves.
LeftoversAreTheWorkers ==
    /\ mailbox.frame \in {0, rx.own} /\ mailbox.cursor \in {0, rx.own} /\ cursor \in {0, rx.own}
    /\ audio.pcm \subseteq {rx.own}

\* The worker serves the session in the slot, or nothing is left to be mixed up.
WorkerServesSlot ==
    /\ slot # 0 => Fresh \/ rx.own = slot
    /\ slot = 0 /\ life.at \notin {"disconnect", "join"} => Fresh
    /\ BeforeWorker => Fresh

\* Which session a connect_session is about, and what an audio command keeps the lock for.
LifeIsAbout ==
    /\ life.at \in {"disconnect", "join", "torn", "create"} => slot = 0
    /\ BeforeWorker /\ life.at \notin {"torn", "create"} => life.own = slot /\ slot # 0
    /\ life.why = "device" => life.at \in {"audioOpen", "audioAttach", "idle"}
    /\ life.why = "device" /\ life.at \in {"audioOpen", "audioAttach"} => audio.active

\* The order in which DesktopAudio opens and closes: output before queue, queue before samples.
AudioInOrder ==
    /\ audio.output \/ audio.active => audio.up
    /\ audio.output => audio.active \/ life.at = "dropOutput"
    /\ audio.queue => audio.output /\ life.at \notin {"audioAttach", "dropOutput"}
    /\ audio.pcm # {} => audio.queue
    /\ audio.active =>
          /\ slot # 0
          /\ life.at \notin {"dropOutput", "reset", "disconnect", "join", "torn", "create",
                             "authenticate", "endpoint"}

NoMixture ==
    /\ WorkerIsHeld /\ LeftoversAreTheWorkers /\ WorkerServesSlot /\ LifeIsAbout /\ AudioInOrder

DesktopInv == DesktopTypes /\ NoMixture

\* What LifeGoes and TeardownBegins make of the lifecycle command.
LEMMA LifeMoves ==
    ASSUME life \in LifeRecords, NEW p \in LifePoints, LifeGoes(p)
    PROVE  /\ life' \in LifeRecords /\ life'.at = p
           /\ life'.why = life.why /\ life'.own = life.own /\ life'.join = life.join
BY SMT DEF LifeRecords, LifeGoes

LEMMA LifeTeardown ==
    ASSUME NEW why \in Reasons, TeardownBegins(why, 0)
    PROVE  /\ life' \in LifeRecords /\ life'.at = "monitor" /\ life'.why = why /\ stopMedia' = TRUE
           /\ life'.join = FALSE
<1>1. life' = [at |-> "monitor", why |-> why, own |-> 0, tcp |-> 0, join |-> FALSE] /\ stopMedia' = TRUE
  BY DEF TeardownBegins, LifeIdle
<1> QED BY <1>1, DesktopAssumption, SMT DEF LifeRecords, LifePoints, Teardown, SessionOrNone

LEMMA LifeRests ==
    /\ LifeIdle \in LifeRecords /\ LifeIdle.at = "idle" /\ LifeIdle.why = "none"
    /\ UiIdle \in UiRecords
BY DesktopAssumption, SMT DEF LifeRecords, LifeIdle, LifePoints, Teardown, Reasons, UiIdle, UiRecords, UiPoints, SessionOrNone

\* The records that the actions make of the audio owner, the command and the history.
LEMMA AudioMoves ==
    ASSUME audio \in AudioRecords
    PROVE  /\ \A o \in BOOLEAN : [audio EXCEPT !.output = o] \in AudioRecords
           /\ \A q \in BOOLEAN : [audio EXCEPT !.queue = q] \in AudioRecords
           /\ [Detached EXCEPT !.active = FALSE] \in AudioRecords
           /\ [Detached EXCEPT !.output = FALSE] \in AudioRecords
           /\ \A o \in BOOLEAN :
                 [Detached EXCEPT !.up = TRUE, !.active = TRUE, !.output = o] \in AudioRecords
           /\ \A s \in Sessions : [audio EXCEPT !.pcm = @ \cup {s}] \in AudioRecords
BY Zenon DEF AudioRecords, Detached

LEMMA LifeRecordMoves ==
    ASSUME life \in LifeRecords
    PROVE  /\ \A p \in LifePoints : \A t \in SessionOrNone : \A j \in BOOLEAN :
                 [life EXCEPT !.at = p, !.tcp = t, !.join = j] \in LifeRecords
           /\ \A p \in LifePoints : \A o \in SessionOrNone : [life EXCEPT !.at = p, !.own = o] \in LifeRecords
BY Zenon DEF LifeRecords

LEMMA RxMoves ==
    ASSUME rx \in RxRecords
    PROVE  /\ \A p \in LivePoints \cup {"none", "done"} : [rx EXCEPT !.at = p] \in RxRecords
           /\ \A p \in LivePoints \cup {"none", "done"} : \A e \in MediaEvents :
                 [rx EXCEPT !.at = p, !.event = e] \in RxRecords
BY Zenon DEF RxRecords

LEMMA ReleasedMoves ==
    ASSUME released \in [of : SUBSET Sessions, late : BOOLEAN]
    PROVE  /\ \A s \in Sessions :
                 [released EXCEPT !.of = @ \cup {s}] \in [of : SUBSET Sessions, late : BOOLEAN]
           /\ DeliveredTo => released' \in [of : SUBSET Sessions, late : BOOLEAN]
BY Zenon DEF DeliveredTo

\* A session is 0 or has a number.
LEMMA SessionNumbers ==
    /\ 0 \in SessionOrNone /\ Sessions \subseteq SessionOrNone
    /\ \A s \in SessionOrNone : s # 0 => s \in Sessions
    /\ \A s \in Sessions : s # 0
BY DesktopAssumption, SMT DEF Sessions, SessionOrNone

\* The invariant is about these variables.
desktopCore == <<slot, life, rx, dec, heldInput, mailbox, cursor, audio>>

LEMMA ShellCoreKeeps ==
    ASSUME NoMixture, UNCHANGED desktopCore
    PROVE  NoMixture'
<1>1. UNCHANGED <<slot, life, rx, dec, heldInput, mailbox, cursor, audio>>
  BY DEF desktopCore
<1> QED
  BY <1>1, SMT DEF NoMixture, WorkerIsHeld, LeftoversAreTheWorkers, WorkerServesSlot, LifeIsAbout,
     AudioInOrder, Fresh, BeforeWorker, EmptyMailbox

\* While a session can be created there is one with the least number.
LEMMA LeastSession ==
    ASSUME NEW S \in SUBSET Sessions, S # {}
    PROVE  \E n \in S : \A m \in S : n <= m
<1> DEFINE Less == OpToRel(<, Nat)
<1>1. Less = {ss \in Nat \X Nat : ss[1] < ss[2]}
  BY DEF OpToRel
<1>2. IsWellFoundedOn(Less, Nat)
  BY NatLessThanWellFounded
<1>3. S \subseteq Nat
  BY DEF Sessions
<1> HIDE DEF Less
<1>4. PICK n \in S : \A m \in S : ~ (<<m, n>> \in Less)
  BY <1>2, <1>3, WFMin
<1>5. ASSUME NEW m \in S PROVE n <= m
  <2>1. m < n => <<m, n>> \in {ss \in Nat \X Nat : ss[1] < ss[2]}
    BY <1>3
  <2> QED BY <1>1, <1>3, <1>4, <2>1
<1> QED BY <1>5

\* disconnect_with_stop, up to the join of the worker.
LEMMA ShellTeardownKeeps ==
    ASSUME DesktopInv, \/ TeardownMonitor \/ TeardownTakes \/ AudioDetach \/ AudioDropOutput
           \/ TeardownReset \/ TeardownDisconnects \/ TeardownJoins
    PROVE  DesktopInv'
<1>t. DesktopTypes
  BY DEF DesktopInv
<1>m. NoMixture
  BY DEF DesktopInv
<1>p. {"take", "detach", "dropOutput", "reset", "disconnect", "join", "torn"} \subseteq LifePoints
  BY SMT DEF LifePoints, Teardown
<1>1. CASE TeardownMonitor
  <2>1. /\ life.at = "monitor"
        /\ life' \in LifeRecords /\ life'.at = "take" /\ life'.why = life.why
        /\ life'.own = life.own /\ life'.join = life.join
        /\ monitor' = 0
        /\ UNCHANGED <<slot, link, tcpSlot, pairing, stopMedia, ui, rx, dec, heldInput, mailbox, cursor,
                   audio, clipOn, released>>
    BY <1>1, LifeMoves, <1>t, <1>p, SMT DEF TeardownMonitor, mediaSide, DesktopTypes
  <2>2. DesktopTypes'
    BY <2>1, <1>t, SessionNumbers, SMT DEF DesktopTypes, DesktopTypeOK
  <2>3. NoMixture'
    BY <2>1, <1>m, <1>t, SMT DEF NoMixture, WorkerIsHeld, LeftoversAreTheWorkers, WorkerServesSlot,
       LifeIsAbout, AudioInOrder, Fresh, BeforeWorker, EmptyMailbox, LivePoints, DesktopTypes,
       DesktopTypeOK
  <2> QED BY <2>2, <2>3 DEF DesktopInv
<1>2. CASE TeardownTakes
  <2>1. /\ life.at = "take"
        /\ life' = [life EXCEPT !.at = IF audio.up THEN "detach" ELSE "reset",
                                  !.tcp = tcpSlot, !.join = heldInput]
        /\ tcpSlot' = 0 /\ heldInput' = FALSE
        /\ UNCHANGED <<slot, link, pairing, stopMedia, ui, rx, dec, mailbox, cursor, audio,
                       monitor, clipOn, released>>
    BY <1>2 DEF TeardownTakes, mediaSide
  <2>2. life' \in LifeRecords
    BY <2>1, <1>t, <1>p, LifeRecordMoves DEF DesktopTypes, DesktopTypeOK
  <2>3. /\ life'.at = IF audio.up THEN "detach" ELSE "reset"
        /\ life'.why = life.why /\ life'.join = heldInput
    BY <2>1, <1>t, SMT DEF DesktopTypes, DesktopTypeOK, LifeRecords
  <2>4. DesktopTypes'
    BY <2>1, <2>2, <2>3, <1>t, SessionNumbers DEF DesktopTypes, DesktopTypeOK
  <2>5. NoMixture'
    BY <2>1, <2>2, <2>3, <1>m, <1>t, SMT DEF NoMixture, WorkerIsHeld, LeftoversAreTheWorkers,
       WorkerServesSlot, LifeIsAbout, AudioInOrder, Fresh, BeforeWorker, EmptyMailbox, LivePoints,
       DesktopTypes, DesktopTypeOK
  <2> QED BY <2>4, <2>5 DEF DesktopInv
<1>3. CASE AudioDetach
  <2>1. /\ life.at = "detach"
        /\ LifeGoes("dropOutput")
        /\ audio' = [Detached EXCEPT !.active = FALSE]
        /\ UNCHANGED <<slot, link, tcpSlot, pairing, stopMedia, ui, rx, dec, heldInput, mailbox,
                       cursor, monitor, clipOn, released>>
    BY <1>3 DEF AudioDetach, mediaSide
  <2>2. /\ life' \in LifeRecords
        /\ audio' \in AudioRecords
    BY <2>1, <1>t, <1>p, LifeMoves, AudioMoves DEF DesktopTypes, DesktopTypeOK, AudioRecords
  <2>3. /\ life'.at = "dropOutput" /\ life'.why = life.why
        /\ life'.own = life.own /\ life'.join = life.join
        /\ audio'.up = audio.up /\ audio'.output = audio.output /\ audio'.queue = FALSE
        /\ audio'.active = FALSE /\ audio'.pcm = {}
    BY <2>1, <1>t, <1>p, LifeMoves, SMT DEF DesktopTypes, DesktopTypeOK, Detached
  <2>4. DesktopTypes'
    BY <2>1, <2>2, <2>3, <1>t, SessionNumbers DEF DesktopTypes, DesktopTypeOK, AudioRecords
  <2>5. NoMixture'
    BY <2>1, <2>2, <2>3, <1>m, <1>t, SMT DEF NoMixture, WorkerIsHeld, LeftoversAreTheWorkers,
       WorkerServesSlot, LifeIsAbout, AudioInOrder, Fresh, BeforeWorker, EmptyMailbox, LivePoints,
       DesktopTypes, DesktopTypeOK
  <2> QED BY <2>4, <2>5 DEF DesktopInv
<1>4. CASE AudioDropOutput
  <2>1. /\ life.at = "dropOutput"
        /\ LifeGoes("reset")
        /\ audio' = [audio EXCEPT !.output = FALSE]
        /\ UNCHANGED <<slot, link, tcpSlot, pairing, stopMedia, ui, rx, dec, heldInput, mailbox,
                       cursor, monitor, clipOn, released>>
    BY <1>4 DEF AudioDropOutput, mediaSide
  <2>2. /\ life' \in LifeRecords
        /\ audio' \in AudioRecords
    BY <2>1, <1>t, <1>p, LifeMoves, AudioMoves DEF DesktopTypes, DesktopTypeOK, AudioRecords
  <2>3. /\ life'.at = "reset" /\ life'.why = life.why
        /\ life'.own = life.own /\ life'.join = life.join
        /\ audio'.up = audio.up /\ audio'.output = FALSE /\ audio'.queue = audio.queue
        /\ audio'.active = audio.active /\ audio'.pcm = audio.pcm
    BY <2>1, <1>t, <1>p, LifeMoves, SMT DEF DesktopTypes, DesktopTypeOK, Detached
  <2>4. DesktopTypes'
    BY <2>1, <2>2, <2>3, <1>t, SessionNumbers DEF DesktopTypes, DesktopTypeOK, AudioRecords
  <2>5. NoMixture'
    BY <2>1, <2>2, <2>3, <1>m, <1>t, SMT DEF NoMixture, WorkerIsHeld, LeftoversAreTheWorkers,
       WorkerServesSlot, LifeIsAbout, AudioInOrder, Fresh, BeforeWorker, EmptyMailbox, LivePoints,
       DesktopTypes, DesktopTypeOK
  <2> QED BY <2>4, <2>5 DEF DesktopInv
<1>5. CASE TeardownReset
  <2>1. /\ life.at = "reset"
        /\ released' = IF slot # 0 /\ link[slot] = "ready"
                       THEN [released EXCEPT !.of = @ \cup {slot}] ELSE released
        /\ life' = [life EXCEPT !.at = "disconnect", !.own = slot]
        /\ slot' = 0
        /\ UNCHANGED <<link, tcpSlot, pairing, stopMedia, ui, rx, dec, heldInput, mailbox, cursor,
                       audio, monitor, clipOn>>
    BY <1>5 DEF TeardownReset, mediaSide
  <2>2. /\ life' \in LifeRecords
        /\ released' \in [of : SUBSET Sessions, late : BOOLEAN]
    BY <2>1, <1>t, <1>p, SessionNumbers, LifeRecordMoves, ReleasedMoves DEF DesktopTypes,
       DesktopTypeOK
  <2>3. /\ life'.at = "disconnect" /\ life'.why = life.why
        /\ life'.own = slot /\ life'.join = life.join
    BY <2>1, <1>t, SMT DEF DesktopTypes, DesktopTypeOK, LifeRecords
  <2>4. DesktopTypes'
    BY <2>1, <2>2, <2>3, <1>t, SessionNumbers DEF DesktopTypes, DesktopTypeOK
  <2>5. NoMixture'
    BY <2>1, <2>2, <2>3, <1>m, <1>t, SMT DEF NoMixture, WorkerIsHeld, LeftoversAreTheWorkers,
       WorkerServesSlot, LifeIsAbout, AudioInOrder, Fresh, BeforeWorker, EmptyMailbox, LivePoints,
       DesktopTypes, DesktopTypeOK
  <2> QED BY <2>4, <2>5 DEF DesktopInv
<1>6. CASE TeardownDisconnects
  <2>1. /\ life.at = "disconnect"
        /\ LifeGoes("join")
        /\ link' = IF life.own = 0 THEN link ELSE [link EXCEPT ![life.own] = "closed"]
        /\ UNCHANGED <<slot, tcpSlot, pairing, stopMedia, ui, rx, dec, heldInput, mailbox, cursor,
                       audio, monitor, clipOn, released>>
    BY <1>6 DEF TeardownDisconnects, mediaSide
  <2>2. /\ life' \in LifeRecords
        /\ link' \in [Sessions -> {"none", "new", "ready", "lost", "closed"}]
    BY <2>1, <1>t, <1>p, LifeMoves DEF DesktopTypes, DesktopTypeOK
  <2>3. /\ life'.at = "join" /\ life'.why = life.why
        /\ life'.own = life.own /\ life'.join = life.join
    BY <2>1, <1>t, <1>p, LifeMoves, SMT DEF DesktopTypes, DesktopTypeOK
  <2>4. DesktopTypes'
    BY <2>1, <2>2, <2>3, <1>t, SessionNumbers DEF DesktopTypes, DesktopTypeOK
  <2>5. NoMixture'
    BY <2>1, <2>2, <2>3, <1>m, <1>t, SMT DEF NoMixture, WorkerIsHeld, LeftoversAreTheWorkers,
       WorkerServesSlot, LifeIsAbout, AudioInOrder, Fresh, BeforeWorker, EmptyMailbox, LivePoints,
       DesktopTypes, DesktopTypeOK
  <2> QED BY <2>4, <2>5 DEF DesktopInv
<1>7. CASE TeardownJoins
  <2>1. /\ life.at = "join"
        /\ life.join => rx.at = "done"
        /\ life' \in LifeRecords /\ life'.at = "torn" /\ life'.why = life.why
        /\ life'.own = life.own /\ life'.join = life.join
        /\ mailbox' = EmptyMailbox /\ cursor' = 0
        /\ UNCHANGED <<slot, link, tcpSlot, pairing, stopMedia, ui, rx, dec, heldInput, audio, monitor,
                   clipOn, released>>
    BY <1>7, LifeMoves, <1>t, <1>p, SMT DEF TeardownJoins, DesktopTypes
  <2>2. DesktopTypes'
    BY <2>1, <1>t, SessionNumbers, SMT DEF DesktopTypes, DesktopTypeOK, EmptyMailbox
  <2>j. /\ rx.at \in {"none", "done"} /\ dec = "done"
        /\ audio.pcm = {} /\ ~audio.queue /\ ~audio.output /\ ~audio.active
    BY <2>1, <1>m, <1>t, SMT DEF NoMixture, WorkerIsHeld, AudioInOrder, LivePoints, DesktopTypes,
       DesktopTypeOK, RxRecords
  <2>3. NoMixture'
    BY <2>1, <2>j, <1>m, SMT DEF NoMixture, WorkerIsHeld, LeftoversAreTheWorkers,
       WorkerServesSlot, LifeIsAbout, AudioInOrder, Fresh, BeforeWorker, EmptyMailbox, LivePoints,
       DesktopTypes, DesktopTypeOK
  <2> QED BY <2>2, <2>3 DEF DesktopInv
<1> QED BY <1>1, <1>2, <1>3, <1>4, <1>5, <1>6, <1>7

\* What follows a teardown: connect_session, its failures, and the next command.
LEMMA ShellConnectKeeps ==
    ASSUME DesktopInv, \/ Torn \/ CreateSession \/ Authenticate \/ StartRuntime \/ AudioOpen \/ AudioAttach
           \/ StartWorker \/ ConnectEnds \/ \E why \in {"connect", "disconnect"} : Command(why)
    PROVE  DesktopInv'
<1>t. DesktopTypes
  BY DEF DesktopInv
<1>m. NoMixture
  BY DEF DesktopInv
<1>p. ConnectPoints \cup {"idle"} \subseteq LifePoints
  BY SMT DEF LifePoints
<1>w. {"connect", "disconnect", "final", "fallback", "failed"} \subseteq Reasons
  BY SMT DEF Reasons
<1>1. CASE Torn
  <2>1. /\ life.at = "torn"
        /\ UNCHANGED <<slot, link, tcpSlot, pairing, ui, rx, dec, heldInput, mailbox, cursor, audio,
                       monitor, released>>
    BY <1>1 DEF Torn, mediaSide
  <2>2. \/ life' = LifeIdle /\ UNCHANGED <<clipOn, stopMedia>>
        \/ life' = LifeIdle /\ clipOn' = TRUE /\ UNCHANGED stopMedia
        \/ LifeGoes("create") /\ clipOn' = TRUE /\ UNCHANGED stopMedia
        \/ LifeGoes("create") /\ UNCHANGED <<clipOn, stopMedia>>
        \/ TeardownBegins("final", 0) /\ UNCHANGED clipOn
    BY <1>1 DEF Torn
  <2>3. /\ life' \in LifeRecords /\ (life'.why = "device" => life'.why = life.why)
        /\ life'.at \in {"idle", "create", "monitor"}
        /\ stopMedia' \in BOOLEAN /\ clipOn' \in BOOLEAN
    <3>1. CASE life' = LifeIdle
      BY <2>2, <3>1, <1>t, LifeRests DEF DesktopTypes, DesktopTypeOK, TeardownBegins
    <3>2. CASE LifeGoes("create")
      BY <2>2, <3>2, <1>t, <1>p, LifeMoves DEF DesktopTypes, DesktopTypeOK, TeardownBegins, ConnectPoints
    <3>3. CASE TeardownBegins("final", 0) /\ UNCHANGED clipOn
      BY <3>3, <1>t, <1>w, LifeTeardown DEF DesktopTypes, DesktopTypeOK
    <3> QED BY <2>2, <3>1, <3>2, <3>3
  <2>4. DesktopTypes'
    BY <2>1, <2>3, <1>t DEF DesktopTypes, DesktopTypeOK
  <2>5. NoMixture'
    BY <2>1, <2>3, <1>m, <1>t, SMT DEF NoMixture, WorkerIsHeld, LeftoversAreTheWorkers,
       WorkerServesSlot, LifeIsAbout, AudioInOrder, Fresh, BeforeWorker, EmptyMailbox, LivePoints,
       DesktopTypes, DesktopTypeOK
  <2> QED BY <2>4, <2>5 DEF DesktopInv
<1>2. CASE CreateSession
  <2>1. /\ life.at = "create"
        /\ slot' \in Sessions
        /\ life' \in LifeRecords /\ life'.at = "authenticate" /\ life'.why = life.why
        /\ life'.own = slot' /\ life'.join = life.join
        /\ link' \in [Sessions -> {"none", "new", "ready", "lost", "closed"}]
        /\ UNCHANGED <<tcpSlot, pairing, stopMedia, ui, rx, dec, heldInput, mailbox, cursor, audio,
                   monitor, clipOn, released>>
    <3> DEFINE s == CHOOSE n \in Sessions \ Created : \A m \in Sessions \ Created : n <= m
    <3>1. s \in Sessions
      BY <1>2, LeastSession DEF CreateSession, Created
    <3>2. /\ life.at = "create"
          /\ link' = [link EXCEPT ![s] = "new"] /\ slot' = s
          /\ life' = [life EXCEPT !.at = "authenticate", !.own = s]
          /\ UNCHANGED <<tcpSlot, pairing, stopMedia, ui, rx, dec, heldInput, mailbox, cursor, audio,
                         monitor, clipOn, released>>
      BY <1>2 DEF CreateSession, mediaSide
    <3> HIDE DEF s
    <3>3. life' \in LifeRecords
      BY <3>1, <3>2, <1>t, <1>p, SessionNumbers, LifeRecordMoves DEF DesktopTypes, ConnectPoints
    <3>4. /\ life'.at = "authenticate" /\ life'.why = life.why
          /\ life'.own = slot' /\ life'.join = life.join
      BY <3>2, <1>t, SMT DEF DesktopTypes, LifeRecords
    <3>5. link' \in [Sessions -> {"none", "new", "ready", "lost", "closed"}]
      BY <3>1, <3>2, <1>t, SMT DEF DesktopTypes, DesktopTypeOK
    <3> QED BY <3>1, <3>2, <3>3, <3>4, <3>5
  <2>2. DesktopTypes'
    BY <2>1, <1>t, SessionNumbers, SMT DEF DesktopTypes, DesktopTypeOK
  <2>3. NoMixture'
    BY <2>1, <1>m, <1>t, SessionNumbers, SMT DEF NoMixture, WorkerIsHeld, LeftoversAreTheWorkers, WorkerServesSlot,
       LifeIsAbout, AudioInOrder, Fresh, BeforeWorker, EmptyMailbox, LivePoints, DesktopTypes,
       DesktopTypeOK
  <2> QED BY <2>2, <2>3 DEF DesktopInv
<1>3. CASE Authenticate
  <2>1. /\ life.at = "authenticate"
        /\ link' \in {link, [link EXCEPT ![life.own] = "ready"]}
        /\ \/ LifeGoes("endpoint") /\ UNCHANGED stopMedia
           \/ \E why \in {"fallback", "failed"} : TeardownBegins(why, 0)
        /\ UNCHANGED <<slot, tcpSlot, pairing, ui, rx, dec, heldInput, mailbox, cursor, audio, monitor,
                       clipOn, released>>
    BY <1>3 DEF Authenticate, ConnectFails, mediaSide
  <2>2. link' \in [Sessions -> {"none", "new", "ready", "lost", "closed"}]
    BY <2>1, <1>t, SMT DEF DesktopTypes, DesktopTypeOK
  <2>3. /\ life' \in LifeRecords /\ stopMedia' \in BOOLEAN
        /\ \/ life'.at = "endpoint" /\ life'.why = life.why /\ life'.own = life.own
           \/ life'.at = "monitor" /\ life'.why # "device"
    <3>1. CASE LifeGoes("endpoint") /\ UNCHANGED stopMedia
      BY <3>1, <1>t, <1>p, LifeMoves DEF DesktopTypes, DesktopTypeOK, ConnectPoints
    <3>2. ASSUME NEW why \in {"fallback", "failed"}, TeardownBegins(why, 0)
          PROVE  /\ life' \in LifeRecords /\ stopMedia' \in BOOLEAN
                 /\ life'.at = "monitor" /\ life'.why # "device"
      BY <3>2, <1>w, LifeTeardown
    <3> QED BY <2>1, <3>1, <3>2
  <2>4. DesktopTypes'
    BY <2>1, <2>2, <2>3, <1>t DEF DesktopTypes, DesktopTypeOK
  <2>5. NoMixture'
    BY <2>1, <2>3, <1>m, <1>t, SMT DEF NoMixture, WorkerIsHeld, LeftoversAreTheWorkers,
       WorkerServesSlot, LifeIsAbout, AudioInOrder, Fresh, BeforeWorker, EmptyMailbox, LivePoints,
       DesktopTypes, DesktopTypeOK
  <2> QED BY <2>4, <2>5 DEF DesktopInv
<1>4. CASE StartRuntime
  <2>1. /\ life.at = "endpoint"
        /\ link' \in {link, [link EXCEPT ![life.own] = "closed"]}
        /\ \/ LifeGoes("audioOpen") /\ tcpSlot' = life.own /\ UNCHANGED stopMedia
           \/ TeardownBegins("failed", 0) /\ UNCHANGED tcpSlot
        /\ UNCHANGED <<slot, pairing, ui, rx, dec, heldInput, mailbox, cursor, audio, monitor, clipOn,
                       released>>
    BY <1>4 DEF StartRuntime, ConnectFails, mediaSide
  <2>2. link' \in [Sessions -> {"none", "new", "ready", "lost", "closed"}]
    BY <2>1, <1>t, SMT DEF DesktopTypes, DesktopTypeOK
  <2>3. /\ life' \in LifeRecords /\ stopMedia' \in BOOLEAN /\ tcpSlot' \in SessionOrNone
        /\ \/ life'.at = "audioOpen" /\ life'.why = life.why /\ life'.own = life.own
           \/ life'.at = "monitor" /\ life'.why # "device"
    <3>1. CASE LifeGoes("audioOpen") /\ tcpSlot' = life.own /\ UNCHANGED stopMedia
      <4>1. life.own \in SessionOrNone
        BY <1>t, SMT DEF DesktopTypes, LifeRecords
      <4> QED BY <4>1, <3>1, <1>t, <1>p, LifeMoves DEF DesktopTypes, DesktopTypeOK, ConnectPoints
    <3>2. CASE TeardownBegins("failed", 0) /\ UNCHANGED tcpSlot
      BY <3>2, <1>t, <1>w, LifeTeardown DEF DesktopTypes, DesktopTypeOK
    <3> QED BY <2>1, <3>1, <3>2
  <2>4. DesktopTypes'
    BY <2>1, <2>2, <2>3, <1>t DEF DesktopTypes, DesktopTypeOK
  <2>5. NoMixture'
    BY <2>1, <2>3, <1>m, <1>t, SMT DEF NoMixture, WorkerIsHeld, LeftoversAreTheWorkers,
       WorkerServesSlot, LifeIsAbout, AudioInOrder, Fresh, BeforeWorker, EmptyMailbox, LivePoints,
       DesktopTypes, DesktopTypeOK
  <2> QED BY <2>4, <2>5 DEF DesktopInv
<1>5. CASE AudioOpen
  <2>1. /\ life.at = "audioOpen"
        /\ LifeGoes("audioAttach")
        /\ \E o \in BOOLEAN : audio' = [Detached EXCEPT !.up = TRUE, !.active = TRUE, !.output = o]
        /\ UNCHANGED <<slot, link, tcpSlot, pairing, stopMedia, ui, rx, dec, heldInput, mailbox,
                       cursor, monitor, clipOn, released>>
    BY <1>5 DEF AudioOpen, mediaSide
  <2>2. /\ life' \in LifeRecords
        /\ audio' \in AudioRecords
    BY <2>1, <1>t, <1>p, LifeMoves, AudioMoves DEF DesktopTypes, DesktopTypeOK, AudioRecords,
       ConnectPoints
  <2>3. /\ life'.at = "audioAttach" /\ life'.why = life.why
        /\ life'.own = life.own /\ life'.join = life.join
        /\ audio'.up = TRUE /\ audio'.active = TRUE /\ audio'.queue = FALSE /\ audio'.pcm = {}
    BY <2>1, <1>t, <1>p, LifeMoves, SMT DEF DesktopTypes, DesktopTypeOK, Detached, ConnectPoints
  <2>4. DesktopTypes'
    BY <2>1, <2>2, <2>3, <1>t, SessionNumbers DEF DesktopTypes, DesktopTypeOK, AudioRecords
  <2>5. NoMixture'
    BY <2>1, <2>2, <2>3, <1>m, <1>t, SMT DEF NoMixture, WorkerIsHeld, LeftoversAreTheWorkers,
       WorkerServesSlot, LifeIsAbout, AudioInOrder, Fresh, BeforeWorker, EmptyMailbox, LivePoints,
       DesktopTypes, DesktopTypeOK
  <2> QED BY <2>4, <2>5 DEF DesktopInv
<1>6. CASE AudioAttach
  <2>1. /\ life.at = "audioAttach"
        /\ life' \in LifeRecords /\ life'.why = life.why /\ life'.own = life.own
        /\ life'.at = IF life.why = "device" THEN "idle" ELSE "worker"
        /\ audio' \in AudioRecords
        /\ audio'.up = audio.up /\ audio'.output = audio.output /\ audio'.queue = audio.output
        /\ audio'.active = audio.active /\ audio'.pcm = audio.pcm
        /\ UNCHANGED <<slot, link, tcpSlot, pairing, stopMedia, ui, rx, dec, heldInput, mailbox, cursor,
                   monitor, clipOn, released>>
    BY <1>6, LifeMoves, <1>t, <1>p, SMT DEF AudioAttach, mediaSide, DesktopTypes, DesktopTypeOK,
       AudioRecords, ConnectPoints
  <2>2. DesktopTypes'
    BY <2>1, <1>t, SessionNumbers, SMT DEF DesktopTypes, DesktopTypeOK, AudioRecords
  <2>3. NoMixture'
    BY <2>1, <1>m, <1>t, SMT DEF NoMixture, WorkerIsHeld, LeftoversAreTheWorkers, WorkerServesSlot,
       LifeIsAbout, AudioInOrder, Fresh, BeforeWorker, EmptyMailbox, LivePoints, DesktopTypes,
       DesktopTypeOK
  <2> QED BY <2>2, <2>3 DEF DesktopInv
<1>7. CASE StartWorker
  <2>1. /\ life.at = "worker"
        /\ \/ /\ LifeGoes("startMonitor") /\ stopMedia' = FALSE
              /\ rx' = [at |-> "loop", own |-> life.own, event |-> "none"]
              /\ dec' = "idle" /\ heldInput' = TRUE
           \/ TeardownBegins("failed", 0) /\ UNCHANGED <<rx, dec, heldInput>>
        /\ UNCHANGED <<slot, link, tcpSlot, pairing, ui, mailbox, cursor, audio, monitor, clipOn,
                       released>>
    BY <1>7 DEF StartWorker, ConnectFails, mediaSide
  <2>2. CASE LifeGoes("startMonitor") /\ stopMedia' = FALSE
             /\ rx' = [at |-> "loop", own |-> life.own, event |-> "none"]
             /\ dec' = "idle" /\ heldInput' = TRUE
    <3>1. life' \in LifeRecords /\ life'.at = "startMonitor" /\ life'.why = life.why
      BY <2>2, <1>t, <1>p, LifeMoves DEF DesktopTypes, ConnectPoints
    <3>2. rx' \in RxRecords /\ rx'.at = "loop" /\ rx'.own = life.own
      BY <2>2, <1>t, SMT DEF DesktopTypes, LifeRecords, RxRecords, LivePoints, MediaEvents
    <3>3. DesktopTypes'
      BY <2>1, <2>2, <3>1, <3>2, <1>t DEF DesktopTypes, DesktopTypeOK
    <3>4. NoMixture'
      BY <2>1, <2>2, <3>1, <3>2, <1>m, <1>t, SMT DEF NoMixture, WorkerIsHeld, LeftoversAreTheWorkers,
         WorkerServesSlot, LifeIsAbout, AudioInOrder, Fresh, BeforeWorker, EmptyMailbox, LivePoints,
         DesktopTypes, DesktopTypeOK
    <3> QED BY <3>3, <3>4 DEF DesktopInv
  <2>3. CASE TeardownBegins("failed", 0) /\ UNCHANGED <<rx, dec, heldInput>>
    <3>1. life' \in LifeRecords /\ life'.at = "monitor" /\ life'.why = "failed" /\ stopMedia' = TRUE
      BY <2>3, <1>w, LifeTeardown
    <3>2. DesktopTypes'
      BY <2>1, <2>3, <3>1, <1>t DEF DesktopTypes, DesktopTypeOK
    <3>3. NoMixture'
      BY <2>1, <2>3, <3>1, <1>m, <1>t, SMT DEF NoMixture, WorkerIsHeld, LeftoversAreTheWorkers,
         WorkerServesSlot, LifeIsAbout, AudioInOrder, Fresh, BeforeWorker, EmptyMailbox, LivePoints,
         DesktopTypes, DesktopTypeOK
    <3> QED BY <3>2, <3>3 DEF DesktopInv
  <2> QED BY <2>1, <2>2, <2>3
<1>8. CASE ConnectEnds
  <2>1. /\ life.at = "startMonitor"
        /\ life' \in LifeRecords /\ life'.at = "idle" /\ life'.why = "none"
        /\ monitor' \in SessionOrNone /\ pairing' \in BOOLEAN
        /\ UNCHANGED <<slot, link, tcpSlot, stopMedia, ui, rx, dec, heldInput, mailbox, cursor, audio,
                   clipOn, released>>
    BY <1>8, <1>t, LifeRests, SessionNumbers, SMT DEF ConnectEnds, mediaSide, DesktopTypes,
       DesktopTypeOK, LifeRecords
  <2>2. DesktopTypes'
    BY <2>1, <1>t, SessionNumbers, SMT DEF DesktopTypes, DesktopTypeOK
  <2>3. NoMixture'
    BY <2>1, <1>m, <1>t, SMT DEF NoMixture, WorkerIsHeld, LeftoversAreTheWorkers, WorkerServesSlot,
       LifeIsAbout, AudioInOrder, Fresh, BeforeWorker, EmptyMailbox, LivePoints, DesktopTypes,
       DesktopTypeOK
  <2> QED BY <2>2, <2>3 DEF DesktopInv
<1>9. CASE \E why \in {"connect", "disconnect"} : Command(why)
  <2>1. /\ life.at = "idle"
        /\ life' \in LifeRecords /\ life'.at = "monitor" /\ life'.why # "device"
        /\ stopMedia' \in BOOLEAN
        /\ UNCHANGED <<slot, link, tcpSlot, pairing, ui, rx, dec, heldInput, mailbox, cursor, audio,
                   monitor, clipOn, released>>
    <3>1. PICK why \in {"connect", "disconnect"} : Command(why)
      BY <1>9
    <3>2. life.at = "idle" /\ TeardownBegins(why, 0)
      BY <3>1 DEF Command
    <3>3. life' \in LifeRecords /\ life'.at = "monitor" /\ life'.why = why /\ stopMedia' = TRUE
      BY <3>2, <1>w, LifeTeardown
    <3> QED BY <3>1, <3>2, <3>3 DEF Command, mediaSide
  <2>2. DesktopTypes'
    BY <2>1, <1>t, SessionNumbers, SMT DEF DesktopTypes, DesktopTypeOK
  <2>3. NoMixture'
    BY <2>1, <1>m, <1>t, SMT DEF NoMixture, WorkerIsHeld, LeftoversAreTheWorkers, WorkerServesSlot,
       LifeIsAbout, AudioInOrder, Fresh, BeforeWorker, EmptyMailbox, LivePoints, DesktopTypes,
       DesktopTypeOK
  <2> QED BY <2>2, <2>3 DEF DesktopInv
<1> QED BY <1>1, <1>2, <1>3, <1>4, <1>5, <1>6, <1>7, <1>8, <1>9

\* The short commands, on the main thread and under the lifecycle mutex, and the connection.
LEMMA ShellCommandKeeps ==
    ASSUME DesktopInv, \/ PollFrame \/ AudioDevice \/ SendGuarded \/ SendInput \/ SendReconnects \/ SendAgain
           \/ CancelConnect \/ SetClientClipboard \/ LinkChanges
    PROVE  DesktopInv'
<1>t. DesktopTypes
  BY DEF DesktopInv
<1>m. NoMixture
  BY DEF DesktopInv
<1>1. CASE PollFrame
  <2>1. /\ life.at = "idle"
        /\ mailbox' \in [frame : SessionOrNone, cursor : SessionOrNone, pending : BOOLEAN]
        /\ mailbox.pending /\ mailbox'.frame = mailbox.frame /\ mailbox'.cursor = mailbox.cursor
        /\ UNCHANGED <<slot, link, tcpSlot, pairing, stopMedia, life, ui, rx, dec, heldInput, cursor,
                   audio, monitor, clipOn, released>>
    <3>1. mailbox \in [frame : SessionOrNone, cursor : SessionOrNone, pending : BOOLEAN]
      BY <1>t DEF DesktopTypes, DesktopTypeOK
    <3>2. [mailbox EXCEPT !.pending = FALSE] \in [frame : SessionOrNone, cursor : SessionOrNone, pending : BOOLEAN]
      BY <3>1, Zenon
    <3>3. /\ [mailbox EXCEPT !.pending = FALSE].frame = mailbox.frame
          /\ [mailbox EXCEPT !.pending = FALSE].cursor = mailbox.cursor
      BY <3>1, SMT
    <3> QED BY <3>2, <3>3, <1>1 DEF PollFrame
  <2>2. DesktopTypes'
    BY <2>1, <1>t, SessionNumbers, SMT DEF DesktopTypes, DesktopTypeOK
  <2>3. NoMixture'
    BY <2>1, <1>m, <1>t, SMT DEF NoMixture, WorkerIsHeld, LeftoversAreTheWorkers, WorkerServesSlot,
       LifeIsAbout, AudioInOrder, Fresh, BeforeWorker, EmptyMailbox, LivePoints, DesktopTypes,
       DesktopTypeOK
  <2> QED BY <2>2, <2>3 DEF DesktopInv
<1>2. CASE AudioDevice
  <2>1. /\ life.at = "idle"
        /\ life' \in LifeRecords
        /\ \/ UNCHANGED life
           \/ life'.at = "audioOpen" /\ life'.why = "device" /\ audio.active
        /\ audio' \in AudioRecords
        /\ audio'.up = audio.up /\ audio'.output = FALSE /\ audio'.queue = FALSE
        /\ audio'.active = audio.active /\ audio'.pcm = {}
        /\ UNCHANGED <<slot, link, tcpSlot, pairing, stopMedia, ui, rx, dec, heldInput, mailbox, cursor,
                   monitor, clipOn, released>>
    <3> DEFINE opening == [LifeIdle EXCEPT !.at = "audioOpen", !.why = "device"]
    <3>1. /\ life.at = "idle" /\ audio' = [Detached EXCEPT !.output = FALSE]
          /\ UNCHANGED life \/ (life' = opening /\ audio.active)
          /\ UNCHANGED <<slot, link, tcpSlot, pairing, stopMedia, ui, rx, dec, heldInput, mailbox, cursor,
                         monitor, clipOn, released>>
      BY <1>2 DEF AudioDevice, mediaSide
    <3>2. opening \in LifeRecords /\ opening.at = "audioOpen" /\ opening.why = "device"
      <4>1. ASSUME NEW r \in LifeRecords, NEW p \in LifePoints, NEW w \in Reasons
            PROVE  [r EXCEPT !.at = p, !.why = w] \in LifeRecords
        BY Zenon DEF LifeRecords
      <4>2. "audioOpen" \in LifePoints /\ "device" \in Reasons
        BY DEF LifePoints, ConnectPoints, Reasons
      <4>3. opening \in LifeRecords
        BY <4>1, <4>2, LifeRests
      <4> QED BY <4>3, LifeRests, SMT DEF LifeRecords
    <3> HIDE DEF opening
    <3>3. audio \in AudioRecords /\ life \in LifeRecords
      BY <1>t DEF DesktopTypes, DesktopTypeOK, AudioRecords
    <3>4. audio' \in AudioRecords
      BY <3>1, <3>3, AudioMoves
    <3>5. /\ audio'.up = audio.up /\ audio'.output = FALSE /\ audio'.queue = FALSE
          /\ audio'.active = audio.active /\ audio'.pcm = {}
      BY <3>1, <3>3, SMT DEF Detached, AudioRecords
    <3> QED BY <3>1, <3>2, <3>3, <3>4, <3>5
  <2>2. DesktopTypes'
    BY <2>1, <1>t, SessionNumbers, SMT DEF DesktopTypes, DesktopTypeOK, AudioRecords
  <2>3. NoMixture'
    BY <2>1, <1>m, <1>t, SMT DEF NoMixture, WorkerIsHeld, LeftoversAreTheWorkers, WorkerServesSlot,
       LifeIsAbout, AudioInOrder, Fresh, BeforeWorker, EmptyMailbox, LivePoints, DesktopTypes,
       DesktopTypeOK
  <2> QED BY <2>2, <2>3 DEF DesktopInv
<1>3. CASE SendGuarded
  <2>1. /\ ui' \in UiRecords
        /\ UNCHANGED <<slot, link, tcpSlot, pairing, stopMedia, life, rx, dec, heldInput, mailbox, cursor,
                   audio, monitor, clipOn, released>>
    BY <1>3, <1>t, SessionNumbers, SMT DEF SendGuarded, uiOnly, mediaSide, DesktopTypes,
       DesktopTypeOK, UiRecords, UiPoints, UiIdle
  <2>2. DesktopTypes'
    BY <2>1, <1>t, SessionNumbers, SMT DEF DesktopTypes, DesktopTypeOK
  <2> QED BY <2>1, <2>2, <1>m, ShellCoreKeeps DEF DesktopInv, desktopCore
<1>4. CASE SendInput
  <2>1. /\ ui' \in UiRecords
        /\ released' \in [of : SUBSET Sessions, late : BOOLEAN]
        /\ UNCHANGED <<slot, link, tcpSlot, pairing, stopMedia, life, rx, dec, heldInput, mailbox, cursor,
                   audio, monitor, clipOn>>
    <3>1. released' \in [of : SUBSET Sessions, late : BOOLEAN]
      BY <1>4, <1>t, ReleasedMoves DEF SendInput, DesktopTypes, DesktopTypeOK
    <3>2. ui' \in UiRecords
      BY <1>4, <1>t, SessionNumbers, SMT DEF SendInput, DesktopTypes, DesktopTypeOK, UiRecords, UiPoints, UiIdle
    <3> QED BY <3>1, <3>2, <1>4 DEF SendInput, uiOnly, mediaSide
  <2>2. DesktopTypes'
    BY <2>1, <1>t, SessionNumbers, SMT DEF DesktopTypes, DesktopTypeOK
  <2> QED BY <2>1, <2>2, <1>m, ShellCoreKeeps DEF DesktopInv, desktopCore
<1>5. CASE SendReconnects
  <2>1. /\ ui' \in UiRecords
        /\ link' \in [Sessions -> {"none", "new", "ready", "lost", "closed"}]
        /\ tcpSlot' \in SessionOrNone
        /\ UNCHANGED <<slot, pairing, stopMedia, life, rx, dec, heldInput, mailbox, cursor, audio, monitor,
                   clipOn, released>>
    BY <1>5, <1>t, SessionNumbers, SMT DEF SendReconnects, uiOnly, mediaSide, DesktopTypes,
       DesktopTypeOK, UiRecords, UiPoints, UiIdle
  <2>2. DesktopTypes'
    BY <2>1, <1>t, SessionNumbers, SMT DEF DesktopTypes, DesktopTypeOK
  <2> QED BY <2>1, <2>2, <1>m, ShellCoreKeeps DEF DesktopInv, desktopCore
<1>6. CASE SendAgain
  <2>1. /\ ui' \in UiRecords
        /\ released' \in [of : SUBSET Sessions, late : BOOLEAN]
        /\ tcpSlot' \in SessionOrNone
        /\ UNCHANGED <<slot, link, pairing, stopMedia, life, rx, dec, heldInput, mailbox, cursor, audio,
                   monitor, clipOn>>
    <3>1. released' \in [of : SUBSET Sessions, late : BOOLEAN]
      BY <1>6, <1>t, ReleasedMoves DEF SendAgain, DesktopTypes, DesktopTypeOK
    <3>2. ui' \in UiRecords /\ tcpSlot' \in SessionOrNone
      BY <1>6, <1>t, SessionNumbers, SMT DEF SendAgain, DesktopTypes, DesktopTypeOK, UiRecords, UiPoints, UiIdle
    <3> QED BY <3>1, <3>2, <1>6 DEF SendAgain, uiOnly, mediaSide
  <2>2. DesktopTypes'
    BY <2>1, <1>t, SessionNumbers, SMT DEF DesktopTypes, DesktopTypeOK
  <2> QED BY <2>1, <2>2, <1>m, ShellCoreKeeps DEF DesktopInv, desktopCore
<1>7. CASE CancelConnect
  <2>1. /\ link' \in [Sessions -> {"none", "new", "ready", "lost", "closed"}]
        /\ UNCHANGED <<slot, tcpSlot, pairing, stopMedia, life, ui, rx, dec, heldInput, mailbox, cursor,
                   audio, monitor, clipOn, released>>
    BY <1>7, <1>t, SessionNumbers, SMT DEF CancelConnect, uiOnly, mediaSide, DesktopTypes,
       DesktopTypeOK, UiRecords, UiPoints, UiIdle
  <2>2. DesktopTypes'
    BY <2>1, <1>t, SessionNumbers, SMT DEF DesktopTypes, DesktopTypeOK
  <2> QED BY <2>1, <2>2, <1>m, ShellCoreKeeps DEF DesktopInv, desktopCore
<1>8. CASE SetClientClipboard
  <2>1. /\ ui' \in UiRecords
        /\ clipOn' \in BOOLEAN
        /\ monitor' \in SessionOrNone
        /\ UNCHANGED <<slot, link, tcpSlot, pairing, stopMedia, life, rx, dec, heldInput, mailbox, cursor,
                   audio, released>>
    BY <1>8, <1>t, SessionNumbers, SMT DEF SetClientClipboard, uiOnly, mediaSide, DesktopTypes,
       DesktopTypeOK, UiRecords, UiPoints, UiIdle
  <2>2. DesktopTypes'
    BY <2>1, <1>t, SessionNumbers, SMT DEF DesktopTypes, DesktopTypeOK
  <2> QED BY <2>1, <2>2, <1>m, ShellCoreKeeps DEF DesktopInv, desktopCore
<1>9. CASE LinkChanges
  <2>1. /\ link' \in [Sessions -> {"none", "new", "ready", "lost", "closed"}]
        /\ UNCHANGED <<slot, tcpSlot, pairing, stopMedia, life, ui, rx, dec, heldInput, mailbox, cursor,
                   audio, monitor, clipOn, released>>
    BY <1>9, <1>t, SessionNumbers, SMT DEF LinkChanges, uiOnly, mediaSide, DesktopTypes,
       DesktopTypeOK, UiRecords, UiPoints, UiIdle
  <2>2. DesktopTypes'
    BY <2>1, <1>t, SessionNumbers, SMT DEF DesktopTypes, DesktopTypeOK
  <2> QED BY <2>1, <2>2, <1>m, ShellCoreKeeps DEF DesktopInv, desktopCore
<1> QED BY <1>1, <1>2, <1>3, <1>4, <1>5, <1>6, <1>7, <1>8, <1>9

\* run_media_pipeline and its decoder.
LEMMA ShellMediaKeeps ==
    ASSUME DesktopInv, \/ ReceiveMedia \/ DispatchMediaEvent \/ PublishFrame \/ WorkerEnds
    PROVE  DesktopInv'
<1>t. DesktopTypes
  BY DEF DesktopInv
<1>m. NoMixture
  BY DEF DesktopInv
<1>1. CASE ReceiveMedia
  <2>1. /\ rx.at = "loop"
        /\ rx' \in RxRecords /\ rx'.at \in {"event", "joining"} /\ rx'.own = rx.own
        /\ UNCHANGED <<slot, link, tcpSlot, pairing, stopMedia, life, ui, dec, heldInput, mailbox, cursor,
                   audio, monitor, clipOn, released>>
    <3>1. \/ \E e \in {"frame", "audio", "cursor"} : rx' = [rx EXCEPT !.at = "event", !.event = e]
          \/ rx' = [rx EXCEPT !.at = "joining"]
      BY <1>1 DEF ReceiveMedia
    <3>2. rx' \in RxRecords
      BY <3>1, <1>t, RxMoves DEF DesktopTypes, LivePoints, MediaEvents
    <3>3. rx'.at \in {"event", "joining"} /\ rx'.own = rx.own
      <4>1. rx \in RxRecords
        BY <1>t DEF DesktopTypes
      <4>2. ASSUME NEW e \in {"frame", "audio", "cursor"}, rx' = [rx EXCEPT !.at = "event", !.event = e]
            PROVE  rx'.at = "event" /\ rx'.own = rx.own
        BY <4>1, <4>2, SMT DEF RxRecords
      <4>3. ASSUME rx' = [rx EXCEPT !.at = "joining"]
            PROVE  rx'.at = "joining" /\ rx'.own = rx.own
        BY <4>1, <4>3, SMT DEF RxRecords
      <4> QED BY <3>1, <4>2, <4>3
    <3> QED BY <3>2, <3>3, <1>1 DEF ReceiveMedia, workerOnly
  <2>2. DesktopTypes'
    BY <2>1, <1>t, SessionNumbers, SMT DEF DesktopTypes, DesktopTypeOK
  <2>3. NoMixture'
    BY <2>1, <1>m, <1>t, SMT DEF NoMixture, WorkerIsHeld, LeftoversAreTheWorkers, WorkerServesSlot,
       LifeIsAbout, AudioInOrder, Fresh, BeforeWorker, EmptyMailbox, LivePoints, DesktopTypes,
       DesktopTypeOK
  <2> QED BY <2>2, <2>3 DEF DesktopInv
<1>2. CASE DispatchMediaEvent
  <2>1. /\ rx.at = "event"
        /\ rx' \in RxRecords /\ rx'.at = "loop" /\ rx'.own = rx.own
        /\ cursor' \in {cursor, rx.own}
        /\ dec' \in {"idle", "decoding", "done"} /\ (dec = "done" => dec' = "done")
        /\ \/ UNCHANGED audio
           \/ audio.queue /\ audio' = [audio EXCEPT !.pcm = @ \cup {rx.own}]
        /\ UNCHANGED <<slot, link, tcpSlot, pairing, stopMedia, life, ui, heldInput, mailbox, monitor,
                   clipOn, released>>
    <3>r. rx' = [rx EXCEPT !.at = "loop", !.event = "none"]
      BY <1>2 DEF DispatchMediaEvent
    <3>1. /\ rx'.at = "loop" /\ rx'.own = rx.own
          /\ dec' \in {"idle", "decoding", "done"} /\ (dec = "done" => dec' = "done")
      BY <3>r, <1>2, <1>t, SMT DEF DispatchMediaEvent, DesktopTypes, RxRecords
    <3>3. rx' \in RxRecords
      BY <3>r, <1>t, RxMoves DEF DesktopTypes, LivePoints, MediaEvents
    <3>2. UNCHANGED audio \/ (audio.queue /\ audio' = [audio EXCEPT !.pcm = @ \cup {rx.own}])
      <4>1. CASE audio.queue
        BY <1>2, <4>1 DEF DispatchMediaEvent
      <4>2. CASE ~audio.queue
        <5>1. audio = [audio EXCEPT !.pcm = audio.pcm]
          BY <1>t DEF DesktopTypes, DesktopTypeOK
        <5> QED BY <1>2, <4>2, <5>1 DEF DispatchMediaEvent
      <4> QED BY <4>1, <4>2
    <3> QED BY <3>1, <3>2, <3>3, <1>2 DEF DispatchMediaEvent, workerOnly
  <2>2. DesktopTypes'
    <3>1. audio.queue => rx.own \in Sessions
      BY <2>1, <1>m, <1>t, SessionNumbers, SMT DEF NoMixture, WorkerServesSlot, AudioInOrder, Fresh,
         DesktopTypes, DesktopTypeOK
    <3>2. audio' \in AudioRecords
      BY <2>1, <3>1, <1>t, AudioMoves DEF DesktopTypes, DesktopTypeOK, AudioRecords
    <3>3. cursor' \in SessionOrNone
      BY <2>1, <1>t, SMT DEF DesktopTypes, DesktopTypeOK, RxRecords
    <3> QED BY <2>1, <3>2, <3>3, <1>t DEF DesktopTypes, DesktopTypeOK, AudioRecords
  <2>3. NoMixture'
    BY <2>1, <1>m, <1>t, SMT DEF NoMixture, WorkerIsHeld, LeftoversAreTheWorkers, WorkerServesSlot,
       LifeIsAbout, AudioInOrder, Fresh, BeforeWorker, EmptyMailbox, LivePoints, DesktopTypes,
       DesktopTypeOK
  <2> QED BY <2>2, <2>3 DEF DesktopInv
<1>3. CASE PublishFrame
  <2>1. /\ dec = "decoding" /\ dec' = "idle"
        /\ \/ UNCHANGED mailbox
           \/ mailbox' = [frame |-> rx.own, cursor |-> cursor, pending |-> TRUE]
        /\ UNCHANGED <<slot, link, tcpSlot, pairing, stopMedia, life, ui, rx, heldInput, cursor, audio,
                   monitor, clipOn, released>>
    BY <1>3, <1>t, SMT DEF PublishFrame, workerOnly, DesktopTypes, DesktopTypeOK, RxRecords,
       LivePoints, MediaEvents
  <2>2. DesktopTypes'
    <3>1. rx.own \in SessionOrNone /\ cursor \in SessionOrNone
      BY <1>t, SMT DEF DesktopTypes, DesktopTypeOK, RxRecords
    <3>2. mailbox' \in [frame : SessionOrNone, cursor : SessionOrNone, pending : BOOLEAN]
      <4>1. CASE UNCHANGED mailbox
        BY <4>1, <1>t DEF DesktopTypes, DesktopTypeOK
      <4>2. CASE mailbox' = [frame |-> rx.own, cursor |-> cursor, pending |-> TRUE]
        BY <4>2, <3>1
      <4> QED BY <2>1, <4>1, <4>2
    <3> QED BY <2>1, <3>2, <1>t DEF DesktopTypes, DesktopTypeOK
  <2>3. NoMixture'
    BY <2>1, <1>m, <1>t, SMT DEF NoMixture, WorkerIsHeld, LeftoversAreTheWorkers, WorkerServesSlot,
       LifeIsAbout, AudioInOrder, Fresh, BeforeWorker, EmptyMailbox, LivePoints, DesktopTypes,
       DesktopTypeOK
  <2> QED BY <2>2, <2>3 DEF DesktopInv
<1>4. CASE WorkerEnds
  <2>1. /\ rx.at = "joining"
        /\ rx' \in RxRecords /\ rx'.at = "done" /\ rx'.own = rx.own
        /\ dec' = "done"
        /\ UNCHANGED <<slot, link, tcpSlot, pairing, stopMedia, life, ui, heldInput, mailbox, cursor,
                   audio, monitor, clipOn, released>>
    BY <1>4, <1>t, SMT DEF WorkerEnds, workerOnly, DesktopTypes, DesktopTypeOK, RxRecords,
       LivePoints, MediaEvents
  <2>2. DesktopTypes'
    BY <2>1, <1>t, SessionNumbers, SMT DEF DesktopTypes, DesktopTypeOK
  <2>3. NoMixture'
    BY <2>1, <1>m, <1>t, SMT DEF NoMixture, WorkerIsHeld, LeftoversAreTheWorkers, WorkerServesSlot,
       LifeIsAbout, AudioInOrder, Fresh, BeforeWorker, EmptyMailbox, LivePoints, DesktopTypes,
       DesktopTypeOK
  <2> QED BY <2>2, <2>3 DEF DesktopInv
<1> QED BY <1>1, <1>2, <1>3, <1>4

LEMMA DesktopStep ==
    ASSUME DesktopInv, [DesktopNext]_desktopVars
    PROVE  DesktopInv'
<1>1. CASE UNCHANGED desktopVars
  <2>1. UNCHANGED <<slot, link, tcpSlot, pairing, stopMedia, life, ui, rx, dec, heldInput,
                    mailbox, cursor, audio, monitor, clipOn, released>>
    BY <1>1 DEF desktopVars
  <2>2. DesktopTypes'
    BY <2>1 DEF DesktopInv, DesktopTypes, DesktopTypeOK
  <2> QED BY <2>1, <2>2, ShellCoreKeeps DEF DesktopInv, desktopCore
<1>2. CASE DesktopNext
  BY <1>2, ShellTeardownKeeps, ShellConnectKeeps, ShellCommandKeeps, ShellMediaKeeps DEF DesktopNext
<1> QED BY <1>1, <1>2

LEMMA DesktopInvIsSafe ==
    ASSUME DesktopInv
    PROVE  DesktopShellSafe
<1>1. DesktopTypeOK
  BY DEF DesktopInv, DesktopTypes
<1>2. ShownIsCurrent
  BY SMT DEF DesktopInv, NoMixture, WorkerServesSlot, LeftoversAreTheWorkers, Fresh, EmptyMailbox,
     ShownIsCurrent
<1>3. DisconnectedIsClean
  BY SMT DEF DesktopInv, NoMixture, WorkerServesSlot, WorkerIsHeld, AudioInOrder, Fresh, DisconnectedIsClean
<1>4. SamplesAreCurrent
  BY SMT DEF DesktopInv, NoMixture, WorkerServesSlot, LeftoversAreTheWorkers, AudioInOrder, Fresh,
     SamplesAreCurrent
<1> QED BY <1>1, <1>2, <1>3, <1>4 DEF DesktopShellSafe

\* For any number of sessions, in every interleaving of disconnect_with_stop, connect_session,
\* the commands of the main thread, the media worker and its decoder: no frame, cursor or
\* sample of one session is shown or heard in the next, and a disconnect leaves nothing.
THEOREM DesktopStaysSafe == DesktopSpec => []DesktopShellSafe
<1>1. DesktopInit => DesktopInv
  <2> SUFFICES ASSUME DesktopInit PROVE DesktopInv
    OBVIOUS
  <2>1. DesktopTypes
    <3>1. rx \in RxRecords
      BY SessionNumbers, SMT DEF DesktopInit, RxRecords, MediaEvents
    <3>2. /\ mailbox \in [frame : SessionOrNone, cursor : SessionOrNone, pending : BOOLEAN]
          /\ audio \in [up : BOOLEAN, output : BOOLEAN, queue : BOOLEAN, active : BOOLEAN,
                        pcm : SUBSET Sessions]
          /\ released \in [of : SUBSET Sessions, late : BOOLEAN]
      BY SessionNumbers, Zenon DEF DesktopInit, EmptyMailbox
    <3> QED BY <3>1, <3>2, LifeRests, SessionNumbers DEF DesktopInit, DesktopTypes, DesktopTypeOK
  <2>2. NoMixture
    BY LifeRests, SMT DEF DesktopInit, NoMixture, WorkerIsHeld, LeftoversAreTheWorkers,
       WorkerServesSlot, LifeIsAbout, AudioInOrder, Fresh, BeforeWorker, EmptyMailbox, LivePoints
  <2> QED BY <2>1, <2>2 DEF DesktopInv
<1> QED BY <1>1, DesktopStep, DesktopInvIsSafe, PTL DEF DesktopSpec
===============================================================================
