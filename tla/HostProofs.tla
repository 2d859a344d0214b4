------------------------------ MODULE HostProofs ------------------------------
(***************************************************************************)
(* The host, before and in a session.                                      *)
(*                                                                         *)
(* Admission keeps the trust the host's user approved and bounds the wrong *)
(* PINs, for every number of connections, permits, attempts, crashes and   *)
(* runs of `maho-host --revoke`.  The control loop of an admitted session  *)
(* streams what it says, for every set of displays and requests.  What it  *)
(* and the client copy reaches the other end without echo, whatever copies *)
(* cross and whichever clipboard fails.                                    *)
(***************************************************************************)
EXTENDS Admission, HostControl, Clipboard, FiniteSetTheorems, SequenceTheorems,
        WellFoundedInduction, TLAPS

(***************************************************************************)
(* Admission.  ApprovalInv says, for each program point of a connection's  *)
(* thread and for each of the two files, what the user must have approved; *)
(* GuessInv counts the failures that the lockout has seen and the          *)
(* handshakes that may still add one.                                      *)
(***************************************************************************)
\* The program points before a grant, and those of an accepted handshake.
Unapproved == {"idle", "accepted", "tls", "preauth", "consent"}
InSession == {"ack", "persist", "save", "join", "auth"}

\* A key was sent to a client exactly when the user approved its pairing.
KnownIsApproved == known = {p \in Conns : approved[p] # Nothing}

\* A thread that has not been granted a pairing has none approved; a fresh one
\* holds its own pairing with the trust that was approved.
FreshIsApproved(c) ==
    /\ conn[c].pc \in Unapproved => ~ conn[c].fresh /\ approved[c] = Nothing
    /\ conn[c].pc = "granted" => conn[c].fresh
    /\ conn[c].fresh => /\ conn[c].pc \in {"granted", "loaded"} \cup InSession
                        /\ conn[c].id = c
                        /\ approved[c] # Nothing
                        /\ conn[c].trust = approved[c]

\* A record loaded from the store belongs to an approved pairing and, while no other process
\* edits the files, is still there when its trust is read by a second access.
LoadedIsApproved(c) ==
    conn[c].pc = "loaded" /\ ~ conn[c].fresh =>
        /\ conn[c].id \in known
        /\ Unedited => conn[c].id \in keys

\* Past the checks of the handshake a thread runs an approved pairing, over its own identity
\* or over the bootstrap connection that was granted it, with the approved trust.
AdmittedIsApproved(c) ==
    conn[c].pc \in InSession =>
        /\ conn[c].id \in known
        /\ conn[c].ident = conn[c].id \/ (conn[c].ident = Boot /\ conn[c].id = c)
        /\ Unedited => conn[c].trust = approved[conn[c].id]

\* Between the two files persist_pairing has written the grant and not the key.
SavingIsGranted(c) ==
    conn[c].pc = "save" =>
        /\ conn[c].fresh /\ conn[c].trust # "once"
        /\ Unedited => grants[c] = approved[c]

\* The two files, and the copy of the keys that the revoke command will write back.
StoreIsApproved ==
    /\ \A p \in Conns : grants[p] # Nothing => grants[p] = approved[p] /\ approved[p] # "once"
    /\ \A p \in keys : approved[p] # Nothing /\ approved[p] # "once"
    /\ Unedited => \A p \in keys : grants[p] = approved[p]
    /\ cli.pc = "writeKeys" => \A p \in cli.read : approved[p] # Nothing /\ approved[p] # "once"
    /\ cli.pc # "idle" => ~ Unedited /\ cli.id \in Conns

\* A pipeline runs for an accepted handshake only.
CapturingIsAdmitted(c) == c \in capturing => conn[c].pc \in InSession

ThreadIsApproved(c) ==
    /\ FreshIsApproved(c)
    /\ LoadedIsApproved(c)
    /\ AdmittedIsApproved(c)
    /\ SavingIsGranted(c)
    /\ CapturingIsAdmitted(c)

ApprovalInv ==
    /\ AdmissionTypeOK
    /\ KnownIsApproved
    /\ \A c \in Conns : ThreadIsApproved(c)
    /\ StoreIsApproved

\* The handshakes under way that offered the bootstrap identity.
Guessing == {c \in Conns : conn[c].pc = "tls" /\ Boot \in conn[c].psks}

\* Never more threads than permits.
PermitsHeld == IsFiniteSet(Live) /\ Cardinality(Live) <= MaxConns

\* Until the lock falls every guess was counted; after that only the handshakes that had
\* offered the bootstrap identity before can add one.
GuessesCounted ==
    /\ ~ locked => failures < MaxAttempts /\ guesses <= failures
    /\ locked => guesses + Cardinality(Guessing) <= MaxAttempts + MaxConns - 1

GuessInv == PermitsHeld /\ GuessesCounted

-----------------------------------------------------------------------------
(* What the steps do to a thread's variables. *)

ConnRec == [pc : Steps, psks : SUBSET (Conns \cup {Boot}),
            ident : Conns \cup {Boot, Nothing}, id : Conns \cup {Nothing},
            trust : GrantedTrusts, fresh : BOOLEAN, peerTrust : BOOLEAN]

\* The variables of a thread that moves on, and those of the others.
LEMMA Moved ==
    ASSUME AdmissionTypeOK, NEW c \in Conns, NEW r \in ConnRec, conn' = [conn EXCEPT ![c] = r]
    PROVE  /\ conn' \in [Conns -> ConnRec]
           /\ conn'[c] = r
           /\ \A d \in Conns : d # c => conn'[d] = conn[d]
  BY DEF AdmissionTypeOK, ConnRec

\* A jump to another step leaves the rest of the thread's variables alone.
LEMMA Went ==
    ASSUME AdmissionTypeOK, NEW c \in Conns, NEW step \in Steps, Goto(c, step)
    PROVE  /\ conn' \in [Conns -> ConnRec]
           /\ conn'[c].pc = step /\ conn'[c].psks = conn[c].psks
           /\ conn'[c].ident = conn[c].ident /\ conn'[c].id = conn[c].id
           /\ conn'[c].trust = conn[c].trust /\ conn'[c].fresh = conn[c].fresh
           /\ \A d \in Conns : d # c => conn'[d] = conn[d]
  <1>1. conn \in [Conns -> ConnRec]
    BY DEF AdmissionTypeOK, ConnRec
  <1> DEFINE r == [conn[c] EXCEPT !.pc = step]
  <1>2. /\ r \in ConnRec /\ r.pc = step /\ r.psks = conn[c].psks /\ r.ident = conn[c].ident
        /\ r.id = conn[c].id /\ r.trust = conn[c].trust /\ r.fresh = conn[c].fresh
    BY <1>1 DEF ConnRec
  <1>3. conn' = [conn EXCEPT ![c] = r]
    BY DEF Goto
  <1> HIDE DEF r
  <1> QED BY <1>2, <1>3, Moved

\* A thread that ends forgets everything.
LEMMA Closed ==
    ASSUME AdmissionTypeOK, NEW c \in Conns, Close(c)
    PROVE  /\ conn' \in [Conns -> ConnRec]
           /\ conn'[c].pc = "closed" /\ ~ conn'[c].fresh /\ conn'[c].psks = {}
           /\ \A d \in Conns : d # c => conn'[d] = conn[d]
           /\ capturing' \subseteq capturing /\ c \notin capturing'
  <1>1. ClosedConn \in ConnRec /\ ClosedConn.pc = "closed" /\ ~ ClosedConn.fresh /\ ClosedConn.psks = {}
    BY DEF ClosedConn, IdleConn, ConnRec, Steps, GrantedTrusts
  <1>2. conn' = [conn EXCEPT ![c] = ClosedConn]
    BY DEF Close
  <1> QED BY <1>1, <1>2, Moved DEF Close

\* The threads that do not move stay as they are when the store and the approvals do.
LEMMA OthersStay ==
    ASSUME ApprovalInv, NEW c \in Conns, \A d \in Conns : d # c => conn'[d] = conn[d],
           keys' = keys, grants' = grants, cli' = cli, approved' = approved, known' = known,
           capturing' \subseteq capturing \cup {c},
           ThreadIsApproved(c)'
    PROVE  KnownIsApproved' /\ StoreIsApproved' /\ \A d \in Conns : ThreadIsApproved(d)'
  <1>1. KnownIsApproved' /\ StoreIsApproved'
    BY DEF ApprovalInv, KnownIsApproved, StoreIsApproved, Unedited
  <1>2. ASSUME NEW d \in Conns, d # c PROVE ThreadIsApproved(d)'
    <2>1. conn'[d] = conn[d] /\ (d \in capturing' => d \in capturing) /\ ThreadIsApproved(d)
      BY <1>2 DEF ApprovalInv
    <2> QED BY <2>1 DEF ThreadIsApproved, FreshIsApproved, LoadedIsApproved, AdmittedIsApproved,
            SavingIsGranted, CapturingIsAdmitted, Unedited
  <1> QED BY <1>1, <1>2

\* A thread may end at any point: what it approved stays on record and in the files.
LEMMA EndKeeps ==
    ASSUME ApprovalInv, NEW c \in Conns, Close(c),
           answer' = answer, keys' = keys, grants' = grants, cli' = cli, expired' = expired,
           approved' = approved, known' = known, window' = window, restarts' = restarts,
           locked' \in BOOLEAN, failures' \in 0 .. MaxAttempts, guesses' \in Nat
    PROVE  ApprovalInv'
  <1>1. AdmissionTypeOK'
    BY Closed DEF ApprovalInv, AdmissionTypeOK, ConnRec
  <1>2. ThreadIsApproved(c)'
    BY Closed DEF ApprovalInv, ThreadIsApproved, FreshIsApproved, LoadedIsApproved,
       AdmittedIsApproved, SavingIsGranted, CapturingIsAdmitted, Unapproved, InSession
  <1>3. KnownIsApproved' /\ StoreIsApproved' /\ \A d \in Conns : ThreadIsApproved(d)'
    BY <1>2, Closed, OthersStay DEF ApprovalInv
  <1> QED BY <1>1, <1>3 DEF ApprovalInv
\* A step that moves one thread and touches neither the store nor the approvals.
LEMMA MoveKeeps ==
    ASSUME ApprovalInv, NEW c \in Conns, conn' \in [Conns -> ConnRec],
           \A d \in Conns : d # c => conn'[d] = conn[d],
           answer' \in [Conns -> GrantedTrusts \cup {"deny", Nothing}],
           capturing' \subseteq capturing \cup {c},
           UNCHANGED <<lockout, store, expired, restarts, cli, history>>,
           ThreadIsApproved(c)'
    PROVE  ApprovalInv'
  <1>1. AdmissionTypeOK'
    BY DEF ApprovalInv, AdmissionTypeOK, ConnRec, lockout, store, history
  <1>2. KnownIsApproved' /\ StoreIsApproved' /\ \A d \in Conns : ThreadIsApproved(d)'
    BY OthersStay DEF store, history
  <1> QED BY <1>1, <1>2 DEF ApprovalInv

\* A thread before its grant has nothing: no pairing, no session, no pipeline.
LEMMA Early ==
    ASSUME NEW c \in Conns, ThreadIsApproved(c), conn[c].pc \in Unapproved
    PROVE  ~ conn[c].fresh /\ approved[c] = Nothing /\ c \notin capturing
  BY DEF ThreadIsApproved, FreshIsApproved, CapturingIsAdmitted, Unapproved, InSession

\* And having nothing it need not keep anything.
LEMMA StillEarly ==
    ASSUME NEW c \in Conns, conn'[c].pc \in Unapproved, ~ conn'[c].fresh,
           approved'[c] = Nothing, c \notin capturing'
    PROVE  ThreadIsApproved(c)'
  BY DEF ThreadIsApproved, FreshIsApproved, LoadedIsApproved, AdmittedIsApproved,
     SavingIsGranted, CapturingIsAdmitted, Unapproved, InSession

\* The accept loop, the PSKs offered and the TLS handshake approve nothing.
LEMMA AcceptKeeps ==
    ASSUME ApprovalInv, NEW c \in Conns,
           Accept(c) \/ OfferPsks(c) \/ TlsFails(c) \/ \E i \in Conns \cup {Boot} : TlsSucceeds(c, i)
    PROVE  ApprovalInv'
  <1>0. AdmissionTypeOK /\ ThreadIsApproved(c) /\ conn[c] \in ConnRec
    BY DEF ApprovalInv, AdmissionTypeOK, ConnRec
  <1>1. CASE Accept(c)
    <2>1. "accepted" \in Steps /\ Goto(c, "accepted")
      BY <1>1 DEF Accept, Steps
    <2>2. conn[c].pc \in Unapproved /\ conn'[c].pc \in Unapproved /\ conn'[c].fresh = conn[c].fresh
      BY <1>0, <1>1, <2>1, Went DEF Accept, AtStep, Unapproved
    <2>3. ThreadIsApproved(c)'
      BY <1>0, <1>1, <2>2, Early, StillEarly DEF Accept, history
    <2> QED BY <1>0, <1>1, <2>1, <2>3, Went, MoveKeeps DEF Accept, AdmissionTypeOK
  <1>2. CASE OfferPsks(c)
    <2> DEFINE offered == {p \in keys : ValidTrust(p, Authorization(p))}
                              \cup (IF IsPairingActive THEN {Boot} ELSE {})
               r == [conn[c] EXCEPT !.pc = "tls", !.psks = offered]
    <2>1. offered \in SUBSET (Conns \cup {Boot})
      BY <1>0 DEF AdmissionTypeOK
    <2>2. conn' = [conn EXCEPT ![c] = r]
      BY <1>2 DEF OfferPsks
    <2> HIDE DEF offered
    <2>3. r \in ConnRec /\ r.pc = "tls" /\ r.fresh = conn[c].fresh
      BY <1>0, <2>1 DEF ConnRec, Steps
    <2> HIDE DEF r
    <2>4. conn[c].pc \in Unapproved /\ conn'[c].pc \in Unapproved /\ conn'[c].fresh = conn[c].fresh
      BY <1>0, <1>2, <2>2, <2>3, Moved DEF OfferPsks, AtStep, Unapproved
    <2>5. ThreadIsApproved(c)'
      BY <1>0, <1>2, <2>4, Early, StillEarly DEF OfferPsks, history
    <2> QED BY <1>0, <1>2, <2>2, <2>3, <2>5, Moved, MoveKeeps DEF OfferPsks, AdmissionTypeOK
  <1>3. CASE TlsFails(c)
    <2>1. locked' \in BOOLEAN /\ failures' \in 0 .. MaxAttempts /\ guesses' \in Nat
      BY <1>0, <1>3, AdmissionAssumption DEF TlsFails, CountGuess, AdmissionTypeOK
    <2> QED BY <1>3, <2>1, EndKeeps DEF TlsFails, store
  <1>4. ASSUME NEW i \in Conns \cup {Boot}, TlsSucceeds(c, i) PROVE ApprovalInv'
    <2> DEFINE r == [conn[c] EXCEPT !.pc = "preauth", !.ident = i]
    <2>1. conn' = [conn EXCEPT ![c] = r]
      BY <1>4 DEF TlsSucceeds
    <2>2. r \in ConnRec /\ r.pc = "preauth" /\ r.fresh = conn[c].fresh
      BY <1>0 DEF ConnRec, Steps
    <2> HIDE DEF r
    <2>3. conn[c].pc \in Unapproved /\ conn'[c].pc \in Unapproved /\ conn'[c].fresh = conn[c].fresh
      BY <1>0, <1>4, <2>1, <2>2, Moved DEF TlsSucceeds, AtStep, Unapproved
    <2>4. ThreadIsApproved(c)'
      BY <1>0, <1>4, <2>3, Early, StillEarly DEF TlsSucceeds, history
    <2> QED BY <1>0, <1>4, <2>1, <2>2, <2>4, Moved, MoveKeeps DEF TlsSucceeds, AdmissionTypeOK
  <1> QED BY <1>1, <1>2, <1>3, <1>4

\* Asking the user and the answer approve nothing; the grant records what was answered.
LEMMA PairingKeeps ==
    ASSUME ApprovalInv, NEW c \in Conns,
           AskConsent(c) \/ Grant(c) \/ \E reply \in GrantedTrusts \cup {"deny"} : Respond(c, reply)
    PROVE  ApprovalInv'
  <1>0. AdmissionTypeOK /\ ThreadIsApproved(c) /\ conn \in [Conns -> ConnRec] /\ conn[c] \in ConnRec
    BY DEF ApprovalInv, AdmissionTypeOK, ConnRec
  <1>1. CASE AskConsent(c)
    <2>1. CASE conn' = conn
      BY <1>0, <1>1, <2>1, MoveKeeps DEF AskConsent, AdmissionTypeOK, store, history, ThreadIsApproved, FreshIsApproved, LoadedIsApproved, AdmittedIsApproved,
         SavingIsGranted, CapturingIsAdmitted, Unedited
    <2>2. CASE Goto(c, "consent") /\ answer' = [answer EXCEPT ![c] = Nothing]
      <3>1. "consent" \in Steps /\ answer' \in [Conns -> GrantedTrusts \cup {"deny", Nothing}]
        BY <1>0, <2>2 DEF Steps, AdmissionTypeOK
      <3>2. conn[c].pc \in Unapproved /\ conn'[c].pc \in Unapproved /\ conn'[c].fresh = conn[c].fresh
        BY <1>0, <1>1, <2>2, <3>1, Went DEF AskConsent, AtStep, Unapproved
      <3>3. ThreadIsApproved(c)'
        BY <1>0, <1>1, <3>2, Early, StillEarly DEF AskConsent, history
      <3> QED BY <1>0, <1>1, <2>2, <3>1, <3>3, Went, MoveKeeps DEF AskConsent
    <2> QED BY <1>1, <2>1, <2>2 DEF AskConsent
  <1>2. ASSUME NEW reply \in GrantedTrusts \cup {"deny"}, Respond(c, reply) PROVE ApprovalInv'
    <2>1. answer' \in [Conns -> GrantedTrusts \cup {"deny", Nothing}]
      BY <1>0, <1>2 DEF Respond, AdmissionTypeOK
    <2> QED BY <1>0, <1>2, <2>1, MoveKeeps DEF Respond, store, history, ThreadIsApproved, FreshIsApproved, LoadedIsApproved, AdmittedIsApproved,
            SavingIsGranted, CapturingIsAdmitted, Unedited
  <1>3. CASE Grant(c)
    <2>1. CASE Close(c) /\ approved' = approved /\ known' = known
      BY <1>0, <1>3, <2>1, EndKeeps DEF Grant, store, lockout, AdmissionTypeOK
    <2>2. CASE /\ answer[c] \in GrantedTrusts
               /\ conn' = [conn EXCEPT ![c].pc = "granted", ![c].id = c,
                                       ![c].trust = answer[c], ![c].fresh = TRUE]
               /\ approved' = [approved EXCEPT ![c] = answer[c]]
               /\ known' = known \cup {c} /\ capturing' = capturing
      <3> DEFINE r == [conn[c] EXCEPT !.pc = "granted", !.id = c, !.trust = answer[c], !.fresh = TRUE]
      <3>1. /\ r \in ConnRec /\ r.pc = "granted" /\ r.id = c /\ r.trust = answer[c] /\ r.fresh = TRUE
        BY <1>0, <2>2 DEF ConnRec, Steps
      <3>2. conn' = [conn EXCEPT ![c] = r]
        BY <2>2
      <3> HIDE DEF r
      <3>3. /\ conn' \in [Conns -> ConnRec] /\ conn'[c] = r
            /\ \A d \in Conns : d # c => conn'[d] = conn[d]
        BY <1>0, <3>1, <3>2, Moved
      <3>4. approved[c] = Nothing /\ approved'[c] = answer[c] /\ answer[c] # Nothing
            /\ \A p \in Conns : p # c => approved'[p] = approved[p]
        BY <1>0, <1>3, <2>2, Early DEF Grant, AdmissionTypeOK, AtStep, Unapproved
      <3>5. keys' = keys /\ grants' = grants /\ cli' = cli
        BY <1>3 DEF Grant, store
      <3>6. AdmissionTypeOK'
        <4>1. approved' \in [Conns -> GrantedTrusts \cup {Nothing}] /\ known' \subseteq Conns
          BY <1>0, <2>2 DEF AdmissionTypeOK
        <4> QED BY <1>0, <1>3, <2>2, <3>3, <3>5, <4>1 DEF Grant, AdmissionTypeOK, ConnRec, lockout
      <3>7. KnownIsApproved'
        BY <2>2, <3>4 DEF ApprovalInv, KnownIsApproved
      <3>8. StoreIsApproved'
        BY <1>0, <3>4, <3>5 DEF ApprovalInv, StoreIsApproved, AdmissionTypeOK, Unedited
      <3>9. ASSUME NEW d \in Conns PROVE ThreadIsApproved(d)'
        <4>1. CASE d = c
          <5>1. c \notin capturing
            BY <1>0, <1>3, Early DEF Grant, AtStep, Unapproved
          <5> QED BY <2>2, <3>1, <3>3, <3>4, <4>1, <5>1 DEF ThreadIsApproved, FreshIsApproved,
                  LoadedIsApproved, AdmittedIsApproved, SavingIsGranted, CapturingIsAdmitted,
                  Unapproved, InSession
        <4>2. CASE d # c
          <5>1. ThreadIsApproved(d) /\ conn'[d] = conn[d] /\ approved'[d] = approved[d]
            BY <3>3, <3>4, <4>2 DEF ApprovalInv
          <5>2. conn[d].id \in known => conn[d].id \in known' /\ approved'[conn[d].id] = approved[conn[d].id]
            BY <2>2, <3>4 DEF ApprovalInv, KnownIsApproved
          <5>3. FreshIsApproved(d)' /\ SavingIsGranted(d)' /\ CapturingIsAdmitted(d)'
            BY <2>2, <3>5, <5>1 DEF ThreadIsApproved, FreshIsApproved, SavingIsGranted,
               CapturingIsAdmitted, Unedited
          <5>4. LoadedIsApproved(d)' /\ AdmittedIsApproved(d)'
            BY <3>5, <5>1, <5>2 DEF ThreadIsApproved, LoadedIsApproved, AdmittedIsApproved, Unedited
          <5> QED BY <5>3, <5>4 DEF ThreadIsApproved
        <4> QED BY <4>1, <4>2
      <3> QED BY <3>6, <3>7, <3>8, <3>9 DEF ApprovalInv
    <2>3. answer[c] # "deny" /\ answer[c] # Nothing => answer[c] \in GrantedTrusts
      BY <1>0 DEF AdmissionTypeOK
    <2> QED BY <1>3, <2>1, <2>2, <2>3 DEF Grant
  <1> QED BY <1>1, <1>2, <1>3
\* The handshake accepts only an approved pairing, with the trust the store holds for it.
LEMMA HandshakeKeeps ==
    ASSUME ApprovalInv, NEW c \in Conns,
           (\E p \in Conns : LoadRecord(c, p)) \/ \E trusting \in BOOLEAN : Authorize(c, trusting)
    PROVE  ApprovalInv'
  <1>0. AdmissionTypeOK /\ ThreadIsApproved(c) /\ conn[c] \in ConnRec /\ KnownIsApproved /\ StoreIsApproved
    BY DEF ApprovalInv, AdmissionTypeOK, ConnRec
  <1>1. ASSUME NEW p \in Conns, LoadRecord(c, p) PROVE ApprovalInv'
    <2>1. CASE Close(c)
      BY <1>0, <1>1, <2>1, EndKeeps DEF LoadRecord, store, lockout, history, AdmissionTypeOK
    <2>2. CASE /\ conn[c].fresh \/ p \in keys
               /\ conn' = [conn EXCEPT ![c].pc = "loaded", ![c].id = IF conn[c].fresh THEN c ELSE p]
               /\ capturing' = capturing
      <3> DEFINE i == IF conn[c].fresh THEN c ELSE p
                 r == [conn[c] EXCEPT !.pc = "loaded", !.id = i]
      <3>1. /\ r \in ConnRec /\ r.pc = "loaded" /\ r.id = i /\ r.fresh = conn[c].fresh
            /\ r.trust = conn[c].trust
        BY <1>0 DEF ConnRec, Steps
      <3>2. conn' = [conn EXCEPT ![c] = r]
        BY <2>2
      <3> HIDE DEF r
      <3>3. /\ conn' \in [Conns -> ConnRec] /\ conn'[c] = r
            /\ \A d \in Conns : d # c => conn'[d] = conn[d]
        BY <1>0, <3>1, <3>2, Moved
      <3>4. ~ conn[c].fresh => p \in known /\ p \in keys
        BY <1>0, <2>2 DEF KnownIsApproved, StoreIsApproved
      <3>5. c \notin capturing
        BY <1>0, <1>1 DEF LoadRecord, AtStep, ThreadIsApproved, CapturingIsAdmitted, InSession
      <3>6. ThreadIsApproved(c)'
        <4>1. approved' = approved /\ known' = known /\ keys' = keys /\ cli' = cli
          BY <1>1 DEF LoadRecord, store, history
        <4>2. conn[c].fresh => approved[c] # Nothing /\ conn[c].trust = approved[c]
          BY <1>0 DEF ThreadIsApproved, FreshIsApproved
        <4> QED BY <2>2, <3>1, <3>3, <3>4, <3>5, <4>1, <4>2 DEF ThreadIsApproved,
                FreshIsApproved, LoadedIsApproved, AdmittedIsApproved, SavingIsGranted,
                CapturingIsAdmitted, Unapproved, InSession, Unedited
      <3> QED BY <1>0, <1>1, <2>2, <3>3, <3>6, MoveKeeps DEF LoadRecord, AdmissionTypeOK
    <2> QED BY <1>1, <2>1, <2>2 DEF LoadRecord
  <1>2. ASSUME NEW trusting \in BOOLEAN, Authorize(c, trusting) PROVE ApprovalInv'
    <2> DEFINE trust == IF conn[c].fresh THEN conn[c].trust ELSE Authorization(conn[c].id)
               r == [conn[c] EXCEPT !.pc = "ack", !.trust = trust, !.peerTrust = trusting]
    <2>1. CASE Close(c)
      BY <1>0, <1>2, <2>1, EndKeeps DEF Authorize, store, lockout, history, AdmissionTypeOK
    <2>2. CASE /\ IdentityMatches(c)
               /\ conn' = [conn EXCEPT ![c].pc = "ack", ![c].trust = trust,
                                       ![c].peerTrust = trusting]
               /\ capturing' = IF trusting THEN capturing ELSE capturing \cup {c}
      <3>1. conn[c].id \in known /\ conn[c].id \in Conns
        BY <1>0, <1>2 DEF Authorize, AtStep, ThreadIsApproved, LoadedIsApproved, FreshIsApproved,
           KnownIsApproved
      <3>2. trust \in GrantedTrusts
        BY <1>0, <3>1 DEF Authorization, AdmissionTypeOK, ConnRec, GrantedTrusts
      <3>3. Unedited => trust = approved[conn[c].id]
        BY <1>0, <1>2, <3>1 DEF Authorize, AtStep, ThreadIsApproved, LoadedIsApproved,
           FreshIsApproved, StoreIsApproved, KnownIsApproved, Authorization
      <3>4. conn[c].fresh => trust = conn[c].trust
        OBVIOUS
      <3> HIDE DEF trust
      <3>5. conn' = [conn EXCEPT ![c] = r]
        BY <2>2
      <3>6. /\ r \in ConnRec /\ r.pc = "ack" /\ r.id = conn[c].id /\ r.fresh = conn[c].fresh
            /\ r.trust = trust /\ r.ident = conn[c].ident
        BY <1>0, <3>2 DEF ConnRec, Steps
      <3> HIDE DEF r
      <3>7. /\ conn' \in [Conns -> ConnRec] /\ conn'[c] = r
            /\ \A d \in Conns : d # c => conn'[d] = conn[d]
        BY <1>0, <3>5, <3>6, Moved
      <3>8. conn[c].ident = conn[c].id \/ (conn[c].ident = Boot /\ conn[c].id = c)
        BY <1>0, <2>2 DEF IdentityMatches, ThreadIsApproved, FreshIsApproved
      <3>9. conn[c].fresh => conn[c].id = c /\ approved[c] # Nothing /\ trust = approved[c]
        BY <1>0, <3>4 DEF ThreadIsApproved, FreshIsApproved
      <3>10. ThreadIsApproved(c)'
        BY <1>2, <3>1, <3>3, <3>6, <3>7, <3>8, <3>9 DEF Authorize, store, history,
           ThreadIsApproved, FreshIsApproved, LoadedIsApproved, AdmittedIsApproved,
           SavingIsGranted, CapturingIsAdmitted, Unapproved, InSession, Unedited
      <3>11. capturing' \subseteq capturing \cup {c}
        BY <2>2
      <3> QED BY <1>0, <1>2, <3>7, <3>10, <3>11, MoveKeeps DEF Authorize, AdmissionTypeOK
    <2> QED BY <1>2, <2>1, <2>2 DEF Authorize
  <1> QED BY <1>1, <1>2

\* A thread between two steps of its session keeps its pairing and its trust.
LEMMA SessionGoesOn ==
    ASSUME ApprovalInv, NEW c \in Conns, conn[c].pc \in InSession,
           NEW step \in InSession, Goto(c, step),
           approved' = approved, known' = known, cli' = cli,
           step = "save" => /\ conn[c].fresh /\ conn[c].trust # "once"
                            /\ Unedited => grants'[c] = approved[c]
    PROVE  /\ conn' \in [Conns -> ConnRec]
           /\ \A d \in Conns : d # c => conn'[d] = conn[d]
           /\ ThreadIsApproved(c)'
  <1>1. AdmissionTypeOK /\ ThreadIsApproved(c) /\ step \in Steps
    BY DEF ApprovalInv, InSession, Steps
  <1> QED BY <1>1, Went DEF ThreadIsApproved, FreshIsApproved, LoadedIsApproved, AdmittedIsApproved,
          SavingIsGranted, CapturingIsAdmitted, Unapproved, InSession, Unedited

\* The acknowledgement, the two writes of persist_pairing and the join.
LEMMA SessionKeeps ==
    ASSUME ApprovalInv, NEW c \in Conns,
           SendAck(c) \/ PersistGrant(c) \/ PersistKey(c) \/ Join(c)
    PROVE  ApprovalInv'
  <1>0. AdmissionTypeOK /\ ThreadIsApproved(c) /\ conn[c] \in ConnRec /\ KnownIsApproved /\ StoreIsApproved
    BY DEF ApprovalInv, AdmissionTypeOK, ConnRec
  <1>a. {"ack", "persist", "save", "join", "auth"} \subseteq InSession
    BY DEF InSession
  <1>1. CASE SendAck(c)
    BY <1>0, <1>a, <1>1, SessionGoesOn, MoveKeeps DEF SendAck, AtStep, history, AdmissionTypeOK
  <1>2. CASE Join(c)
    <2>1. capturing' \subseteq capturing \cup {c}
      BY <1>2 DEF Join
    <2> QED BY <1>0, <1>a, <1>2, <2>1, SessionGoesOn, MoveKeeps DEF Join, AtStep, history, AdmissionTypeOK
  <1>3. CASE PersistGrant(c)
    <2>0. approved' = approved /\ known' = known /\ cli' = cli /\ keys' = keys
      BY <1>3 DEF PersistGrant, history
    <2>1. CASE Close(c) /\ grants' = grants
      BY <1>0, <1>3, <2>1, EndKeeps DEF PersistGrant, lockout, history, AdmissionTypeOK
    <2>2. CASE Goto(c, "join") /\ grants' = grants /\ capturing' = capturing
      <3>1. store' = store
        BY <2>0, <2>2 DEF store
      <3> QED BY <1>0, <1>a, <1>3, <2>0, <2>2, <3>1, SessionGoesOn, MoveKeeps
              DEF PersistGrant, AtStep, AdmissionTypeOK
    <2>3. CASE /\ conn[c].fresh /\ conn[c].trust # "once"
               /\ grants' = [grants EXCEPT ![c] = conn[c].trust]
               /\ Goto(c, "save") /\ capturing' = capturing
      <3>1. /\ grants' \in [Conns -> GrantedTrusts \cup {Nothing}]
            /\ grants'[c] = approved[c] /\ approved[c] # "once"
            /\ \A p \in Conns : p # c => grants'[p] = grants[p]
        BY <1>0, <2>3 DEF AdmissionTypeOK, ConnRec, ThreadIsApproved, FreshIsApproved
      <3>2. /\ conn' \in [Conns -> ConnRec] /\ ThreadIsApproved(c)'
            /\ \A d \in Conns : d # c => conn'[d] = conn[d]
        BY <1>a, <1>3, <2>0, <2>3, <3>1, SessionGoesOn DEF PersistGrant, AtStep
      <3>3. AdmissionTypeOK'
        BY <1>0, <1>3, <2>3, <3>1, <3>2 DEF PersistGrant, AdmissionTypeOK, ConnRec, lockout, history
      <3>4. KnownIsApproved'
        BY <1>0, <2>0 DEF KnownIsApproved
      <3>5. StoreIsApproved'
        BY <1>0, <2>0, <3>1 DEF StoreIsApproved, AdmissionTypeOK, Unedited
      <3>6. ASSUME NEW d \in Conns, d # c PROVE ThreadIsApproved(d)'
        <4>1. conn'[d] = conn[d] /\ grants'[d] = grants[d] /\ ThreadIsApproved(d)
          BY <3>1, <3>2, <3>6 DEF ApprovalInv
        <4> QED BY <2>0, <2>3, <4>1 DEF ThreadIsApproved, FreshIsApproved, LoadedIsApproved,
                AdmittedIsApproved, SavingIsGranted, CapturingIsAdmitted, Unedited
      <3> QED BY <3>2, <3>3, <3>4, <3>5, <3>6 DEF ApprovalInv
    <2> QED BY <1>3, <2>1, <2>2, <2>3 DEF PersistGrant
  <1>4. CASE PersistKey(c)
    <2>1. approved' = approved /\ known' = known /\ cli' = cli /\ grants' = grants /\ capturing' = capturing
      BY <1>4 DEF PersistKey, history
    <2>2. keys' = keys \cup {c}
      BY <1>4 DEF PersistKey
    <2>3. /\ conn[c].fresh /\ approved[c] # Nothing /\ approved[c] # "once"
          /\ Unedited => grants[c] = approved[c]
      BY <1>0, <1>4 DEF PersistKey, AtStep, ThreadIsApproved, FreshIsApproved, SavingIsGranted
    <2>4. /\ conn' \in [Conns -> ConnRec] /\ ThreadIsApproved(c)'
          /\ \A d \in Conns : d # c => conn'[d] = conn[d]
      BY <1>a, <1>4, <2>1, SessionGoesOn DEF PersistKey, AtStep
    <2>5. AdmissionTypeOK'
      BY <1>0, <1>4, <2>2, <2>4 DEF PersistKey, AdmissionTypeOK, ConnRec, lockout, history
    <2>6. KnownIsApproved' /\ StoreIsApproved'
      BY <1>0, <2>1, <2>2, <2>3 DEF KnownIsApproved, StoreIsApproved, Unedited
    <2>7. ASSUME NEW d \in Conns, d # c PROVE ThreadIsApproved(d)'
      <3>1. conn'[d] = conn[d] /\ ThreadIsApproved(d)
        BY <2>4, <2>7 DEF ApprovalInv
      <3> QED BY <2>1, <2>2, <3>1 DEF ThreadIsApproved, FreshIsApproved, LoadedIsApproved,
              AdmittedIsApproved, SavingIsGranted, CapturingIsAdmitted, Unedited
    <2> QED BY <2>4, <2>5, <2>6, <2>7 DEF ApprovalInv
  <1> QED BY <1>1, <1>2, <1>3, <1>4
\* The other ends of a thread, and the reuse of one that created no pairing.
LEMMA EndsKeep ==
    ASSUME ApprovalInv, NEW c \in Conns,
           EndExpired(c) \/ AdmissionDeadline(c) \/ ConnectionFails(c) \/ NextConnection(c)
    PROVE  ApprovalInv'
  <1>0. AdmissionTypeOK /\ ThreadIsApproved(c)
    BY DEF ApprovalInv
  <1>1. CASE EndExpired(c) \/ AdmissionDeadline(c) \/ ConnectionFails(c)
    <2>1. Close(c) /\ UNCHANGED <<answer, lockout, store, expired, restarts, cli, history>>
      BY <1>1 DEF EndExpired, AdmissionDeadline, ConnectionFails
    <2> QED BY <1>0, <2>1, EndKeeps DEF lockout, store, history, AdmissionTypeOK
  <1>2. CASE NextConnection(c)
    <2>1. IdleConn \in ConnRec /\ IdleConn.pc = "idle" /\ ~ IdleConn.fresh
      BY DEF IdleConn, ConnRec, Steps, GrantedTrusts
    <2>2. conn' = [conn EXCEPT ![c] = IdleConn]
      BY <1>2 DEF NextConnection
    <2>3. c \notin capturing
      BY <1>0, <1>2 DEF NextConnection, AtStep, ThreadIsApproved, CapturingIsAdmitted, InSession
    <2>4. conn'[c].pc \in Unapproved /\ ~ conn'[c].fresh
      BY <1>0, <2>1, <2>2, Moved DEF Unapproved
    <2>5. ThreadIsApproved(c)'
      BY <1>2, <2>3, <2>4, StillEarly DEF NextConnection, history
    <2> QED BY <1>0, <1>2, <2>1, <2>2, <2>5, Moved, MoveKeeps DEF NextConnection, AdmissionTypeOK
  <1> QED BY <1>1, <1>2

\* Time passes, or the host dies and comes back with the files as they were.
LEMMA OutsideKeeps ==
    ASSUME ApprovalInv,
           (\E p \in Conns : Expire(p)) \/ FailureWindowPasses \/ PairingWindowCloses \/ Restart
    PROVE  ApprovalInv'
  <1>0. AdmissionTypeOK /\ KnownIsApproved /\ StoreIsApproved /\ \A c \in Conns : ThreadIsApproved(c)
    BY DEF ApprovalInv
  <1>1. CASE (\E p \in Conns : Expire(p)) \/ FailureWindowPasses \/ PairingWindowCloses
    <2>1. /\ conn' = conn /\ answer' = answer /\ keys' = keys /\ grants' = grants
          /\ capturing' = capturing /\ restarts' = restarts /\ cli' = cli
          /\ approved' = approved /\ known' = known /\ locked' = locked
      BY <1>1 DEF Expire, FailureWindowPasses, PairingWindowCloses, store, lockout, history
    <2>2. /\ window' \in BOOLEAN /\ failures' \in 0 .. MaxAttempts /\ guesses' \in Nat
          /\ expired' \subseteq Conns
      <3>1. ASSUME NEW p \in Conns, Expire(p) PROVE expired' \subseteq Conns
        BY <1>0, <3>1 DEF Expire, AdmissionTypeOK
      <3>2. 0 \in 0 .. MaxAttempts /\ 0 \in Nat
        BY AdmissionAssumption
      <3> QED BY <1>0, <1>1, <3>1, <3>2 DEF Expire, FailureWindowPasses, PairingWindowCloses,
              AdmissionTypeOK, lockout, history
    <2>3. AdmissionTypeOK'
      BY <1>0, <2>1, <2>2 DEF AdmissionTypeOK
    <2>4. KnownIsApproved' /\ StoreIsApproved'
      BY <1>0, <2>1 DEF KnownIsApproved, StoreIsApproved, Unedited
    <2>5. ASSUME NEW c \in Conns PROVE ThreadIsApproved(c)'
      BY <1>0, <2>1 DEF ThreadIsApproved, FreshIsApproved, LoadedIsApproved, AdmittedIsApproved,
         SavingIsGranted, CapturingIsAdmitted, Unedited
    <2> QED BY <2>3, <2>4, <2>5 DEF ApprovalInv
  <1>2. CASE Restart
    <2>1. /\ keys' = keys /\ grants' = grants /\ cli' = cli /\ expired' = expired
          /\ approved' = approved /\ known' = known /\ capturing' = {}
      BY <1>2 DEF Restart, store
    <2>2. /\ ClosedConn \in ConnRec /\ ClosedConn.pc = "closed" /\ ~ ClosedConn.fresh
      BY DEF ClosedConn, IdleConn, ConnRec, Steps, GrantedTrusts
    <2>3. conn \in [Conns -> ConnRec]
      BY <1>0 DEF AdmissionTypeOK, ConnRec
    <2>4. /\ conn' \in [Conns -> ConnRec]
          /\ \A c \in Conns : conn'[c] = conn[c] \/ conn'[c] = ClosedConn
      BY <1>2, <2>2, <2>3 DEF Restart
    <2>5. /\ answer' \in [Conns -> GrantedTrusts \cup {"deny", Nothing}]
          /\ window' \in BOOLEAN /\ locked' \in BOOLEAN /\ failures' \in 0 .. MaxAttempts
          /\ guesses' \in Nat /\ restarts' \in 0 .. MaxRestarts
      <3>1. 0 \in 0 .. MaxAttempts /\ 0 \in Nat
        BY AdmissionAssumption
      <3>2. restarts' \in 0 .. MaxRestarts
        BY <1>0, <1>2, AdmissionAssumption DEF Restart, AdmissionTypeOK
      <3>3. answer' \in [Conns -> GrantedTrusts \cup {"deny", Nothing}]
        BY <1>2 DEF Restart
      <3> QED BY <1>2, <3>1, <3>2, <3>3 DEF Restart
    <2>6. AdmissionTypeOK'
      BY <1>0, <2>1, <2>4, <2>5 DEF AdmissionTypeOK, ConnRec
    <2>7. KnownIsApproved' /\ StoreIsApproved'
      BY <1>0, <2>1 DEF KnownIsApproved, StoreIsApproved, Unedited
    <2>8. ASSUME NEW c \in Conns PROVE ThreadIsApproved(c)'
      <3>1. CASE conn'[c] = conn[c]
        BY <1>0, <2>1, <3>1 DEF ThreadIsApproved, FreshIsApproved, LoadedIsApproved,
           AdmittedIsApproved, SavingIsGranted, CapturingIsAdmitted, Unedited
      <3>2. CASE conn'[c] = ClosedConn
        BY <2>1, <2>2, <3>2 DEF ThreadIsApproved, FreshIsApproved, LoadedIsApproved,
           AdmittedIsApproved, SavingIsGranted, CapturingIsAdmitted, Unapproved, InSession
      <3> QED BY <2>4, <3>1, <3>2
    <2> QED BY <2>6, <2>7, <2>8 DEF ApprovalInv
  <1> QED BY <1>1, <1>2

\* `maho-host --revoke` only takes ids out of what it once read.
LEMMA RevokeKeeps ==
    ASSUME ApprovalInv, Revoke
    PROVE  ApprovalInv'
  <1>0. AdmissionTypeOK /\ KnownIsApproved /\ StoreIsApproved /\ \A c \in Conns : ThreadIsApproved(c)
    BY DEF ApprovalInv
  <1>1. /\ conn' = conn /\ answer' = answer /\ window' = window /\ failures' = failures
        /\ locked' = locked /\ capturing' = capturing /\ expired' = expired /\ restarts' = restarts
        /\ approved' = approved /\ known' = known /\ guesses' = guesses
    BY DEF Revoke, RevokeReadKeys, RevokeWriteKeys, RevokeReadGrants, RevokeWriteGrants,
       lockout, history
  <1> DEFINE CliRec == [pc : {"idle", "writeKeys", "readGrants", "writeGrants"},
                        id : Conns \cup {Nothing}, read : SUBSET Conns, runs : 0 .. MaxRevokes]
  <1>2. cli \in CliRec /\ cli.runs \in 0 .. MaxRevokes
    BY <1>0 DEF AdmissionTypeOK
  <1>3. /\ keys' \subseteq Conns /\ grants' \in [Conns -> GrantedTrusts \cup {Nothing}]
        /\ cli' \in CliRec /\ StoreIsApproved' /\ ~ Unedited'
    <2> DEFINE Goal == /\ keys' \subseteq Conns /\ grants' \in [Conns -> GrantedTrusts \cup {Nothing}]
                       /\ cli' \in CliRec /\ StoreIsApproved' /\ ~ Unedited'
    <2>1. ASSUME NEW p \in Conns, RevokeReadKeys(p) PROVE Goal
      <3>1. keys' = keys /\ grants' = grants
        BY <2>1 DEF RevokeReadKeys, store
      <3>2. cli' \in CliRec /\ cli'.read = keys /\ cli'.id = p /\ cli'.runs > 0
        BY <1>0, <1>2, <2>1, AdmissionAssumption DEF RevokeReadKeys, AdmissionTypeOK
      <3> QED BY <1>0, <1>1, <3>1, <3>2 DEF StoreIsApproved, AdmissionTypeOK, Unedited
    <2>2. CASE RevokeWriteKeys
      <3>1. grants' = grants /\ keys' = cli.read \ {cli.id} /\ cli.pc = "writeKeys"
        BY <2>2 DEF RevokeWriteKeys
      <3>2. cli' \in CliRec /\ cli'.pc = "readGrants" /\ cli'.id = cli.id /\ cli'.runs = cli.runs
        BY <1>2, <2>2 DEF RevokeWriteKeys
      <3>3. keys' \subseteq Conns
        BY <1>2, <3>1
      <3> QED BY <1>0, <1>1, <3>1, <3>2, <3>3 DEF StoreIsApproved, AdmissionTypeOK, Unedited
    <2>3. CASE RevokeReadGrants
      <3>1. keys' = keys /\ grants' = grants /\ cli.pc = "readGrants"
        BY <2>3 DEF RevokeReadGrants, store
      <3>2. cli' \in CliRec /\ cli'.runs = cli.runs
            /\ cli'.pc \in {"idle", "writeGrants"} /\ (cli'.pc # "idle" => cli'.id = cli.id)
        BY <1>2, <2>3 DEF RevokeReadGrants, IdleCli
      <3> QED BY <1>0, <1>1, <3>1, <3>2 DEF StoreIsApproved, AdmissionTypeOK, Unedited
    <2>4. CASE RevokeWriteGrants
      <3>1. keys' = keys /\ cli.pc = "writeGrants"
        BY <2>4 DEF RevokeWriteGrants
      <3>2. cli' \in CliRec /\ cli'.runs = cli.runs /\ cli'.pc = "idle"
        BY <1>2, <2>4 DEF RevokeWriteGrants, IdleCli
      <3>3. /\ grants' \in [Conns -> GrantedTrusts \cup {Nothing}]
            /\ \A p \in Conns : grants'[p] = grants[p] \/ grants'[p] = Nothing
        BY <1>0, <2>4 DEF RevokeWriteGrants, AdmissionTypeOK
      <3> QED BY <1>0, <1>1, <3>1, <3>2, <3>3 DEF StoreIsApproved, AdmissionTypeOK, Unedited
    <2> QED BY <2>1, <2>2, <2>3, <2>4 DEF Revoke
  <1>4. AdmissionTypeOK'
    BY <1>0, <1>1, <1>3 DEF AdmissionTypeOK
  <1>5. KnownIsApproved'
    BY <1>0, <1>1 DEF KnownIsApproved
  <1>6. ASSUME NEW c \in Conns PROVE ThreadIsApproved(c)'
    BY <1>0, <1>1, <1>3 DEF ThreadIsApproved, FreshIsApproved, LoadedIsApproved,
       AdmittedIsApproved, SavingIsGranted, CapturingIsAdmitted
  <1> QED BY <1>3, <1>4, <1>5, <1>6 DEF ApprovalInv
-----------------------------------------------------------------------------
(* What the user approved. *)

\* Nothing is approved, stored or running when the host starts for the first time.
LEMMA ApprovalInitially == AdmissionInit => ApprovalInv
  <1> SUFFICES ASSUME AdmissionInit PROVE ApprovalInv
    OBVIOUS
  <1>1. IdleConn \in ConnRec /\ IdleConn.pc = "idle" /\ ~ IdleConn.fresh
    BY DEF IdleConn, ConnRec, Steps, GrantedTrusts
  <1>2. AdmissionTypeOK
    <2>1. conn \in [Conns -> ConnRec]
      BY <1>1 DEF AdmissionInit
    <2>2. 0 \in 0 .. MaxAttempts /\ 0 \in 0 .. MaxRestarts /\ 0 \in 0 .. MaxRevokes /\ 0 \in Nat
      BY AdmissionAssumption
    <2>3. cli \in [pc : {"idle", "writeKeys", "readGrants", "writeGrants"},
                   id : Conns \cup {Nothing}, read : SUBSET Conns, runs : 0 .. MaxRevokes]
      BY <2>2 DEF AdmissionInit, IdleCli
    <2> QED BY <2>1, <2>2, <2>3 DEF AdmissionInit, AdmissionTypeOK, ConnRec
  <1>3. KnownIsApproved
    BY DEF AdmissionInit, KnownIsApproved
  <1>4. StoreIsApproved
    BY DEF AdmissionInit, StoreIsApproved, IdleCli
  <1>5. ASSUME NEW c \in Conns PROVE ThreadIsApproved(c)
    BY <1>1 DEF AdmissionInit, ThreadIsApproved, FreshIsApproved, LoadedIsApproved,
       AdmittedIsApproved, SavingIsGranted, CapturingIsAdmitted, Unapproved, InSession
  <1> QED BY <1>2, <1>3, <1>4, <1>5 DEF ApprovalInv

\* Every step of every thread, of time, of a crash and of the revoke command keeps it.
LEMMA ApprovalStep ==
    ASSUME ApprovalInv, [AdmissionNext]_admissionVars
    PROVE  ApprovalInv'
  <1>1. ASSUME NEW c \in Conns, Handler(c) PROVE ApprovalInv'
    BY <1>1, AcceptKeeps, PairingKeeps, HandshakeKeeps, SessionKeeps, EndsKeep DEF Handler
  <1>2. CASE UNCHANGED admissionVars
    <2>1. AdmissionTypeOK' /\ KnownIsApproved' /\ StoreIsApproved'
      BY <1>2 DEF ApprovalInv, admissionVars, lockout, store, history, AdmissionTypeOK,
         KnownIsApproved, StoreIsApproved, Unedited
    <2>2. ASSUME NEW c \in Conns PROVE ThreadIsApproved(c)'
      BY <1>2 DEF ApprovalInv, admissionVars, store, history, ThreadIsApproved, FreshIsApproved,
         LoadedIsApproved, AdmittedIsApproved, SavingIsGranted, CapturingIsAdmitted, Unedited
    <2> QED BY <2>1, <2>2 DEF ApprovalInv
  <1> QED BY <1>1, <1>2, OutsideKeeps, RevokeKeeps DEF AdmissionNext

\* What the inductive invariant is for.
LEMMA ApprovalEnough == ApprovalInv => TrustIsApproved /\ NoMediaBeforeApproval
  <1> SUFFICES ASSUME ApprovalInv PROVE TrustIsApproved /\ NoMediaBeforeApproval
    OBVIOUS
  <1>1. DiskTrustIsApproved
    BY DEF ApprovalInv, StoreIsApproved, DiskTrustIsApproved
  <1>2. GuestOnceNotStored
    BY DEF ApprovalInv, StoreIsApproved, GuestOnceNotStored
  <1>3. SessionTrustIsApproved
    BY DEF ApprovalInv, ThreadIsApproved, AdmittedIsApproved, SessionTrustIsApproved, AtStep, InSession
  <1>4. NoMediaBeforeApproval
    BY DEF ApprovalInv, AdmissionTypeOK, ThreadIsApproved, AdmittedIsApproved, CapturingIsAdmitted,
       NoMediaBeforeApproval
  <1> QED BY <1>1, <1>2, <1>3, <1>4 DEF ApprovalInv, TrustIsApproved

\* The files and the sessions of the host hold the trust its user approved, for every number of
\* connections and crashes, as long as no other process edits the files; a guest admitted once
\* is never stored, whatever happens to the files (persist_pairing, authorization).
THEOREM TrustStaysApproved == AdmissionSpec => []TrustIsApproved
  BY ApprovalInitially, ApprovalStep, ApprovalEnough, PTL DEF AdmissionSpec

\* No pipeline runs for a connection whose pairing the user did not approve, or that names a
\* pairing of another client over the bootstrap identity (handle_handshake).
THEOREM MediaOnlyAfterApproval == AdmissionSpec => []NoMediaBeforeApproval
  BY ApprovalInitially, ApprovalStep, ApprovalEnough, PTL DEF AdmissionSpec

\* A pairing is granted by Grant alone, which looks at the window and the lockout again after
\* the user has answered.
THEOREM GrantsOnlyWhileActive == AdmissionSpec => GrantOnlyWhileActive
  <1>1. ASSUME AdmissionNext PROVE known' # known => IsPairingActive
    <2>1. ASSUME NEW c \in Conns, Handler(c), known' # known PROVE IsPairingActive
      BY <2>1 DEF Handler, Accept, OfferPsks, TlsFails, TlsSucceeds, AskConsent, Grant, Respond,
         LoadRecord, Authorize, SendAck, PersistGrant, PersistKey, Join, EndExpired,
         AdmissionDeadline, ConnectionFails, NextConnection, history
    <2> QED BY <1>1, <2>1 DEF AdmissionNext, Expire, FailureWindowPasses, PairingWindowCloses, Restart,
            Revoke, RevokeReadKeys, RevokeWriteKeys, RevokeReadGrants, RevokeWriteGrants, history
  <1>2. [AdmissionNext]_admissionVars => [known' # known => IsPairingActive]_admissionVars
    BY <1>1
  <1> QED BY <1>2, PTL DEF AdmissionSpec, GrantOnlyWhileActive
-----------------------------------------------------------------------------
(* How many PINs can be tried. *)

\* A set of handshakes never exceeds the permits.
LEMMA GuessingFits ==
    ASSUME PermitsHeld
    PROVE  /\ IsFiniteSet(Guessing) /\ Guessing \subseteq Live
           /\ Cardinality(Live) \in Nat /\ Cardinality(Guessing) \in Nat
           /\ Cardinality(Guessing) <= Cardinality(Live)
  <1>1. Guessing \subseteq Live
    BY DEF Guessing, Live
  <1> QED BY <1>1, FS_Subset, FS_CardinalityType DEF PermitsHeld

\* A step that starts no handshake and counts no failure keeps the counts.
LEMMA NoGuess ==
    ASSUME GuessInv, AdmissionTypeOK, Live' \subseteq Live, Guessing' \subseteq Guessing,
           failures' = failures, locked' = locked, guesses' = guesses
    PROVE  GuessInv'
  <1>1. PermitsHeld'
    BY FS_Subset, FS_CardinalityType, AdmissionAssumption DEF GuessInv, PermitsHeld
  <1>2. Cardinality(Guessing') <= Cardinality(Guessing)
    BY GuessingFits, FS_Subset DEF GuessInv
  <1>3. Cardinality(Guessing) \in Nat /\ Cardinality(Guessing') \in Nat
    BY <1>1, GuessingFits, FS_Subset, FS_CardinalityType DEF GuessInv
  <1> QED BY <1>1, <1>2, <1>3, AdmissionAssumption DEF GuessInv, GuessesCounted, AdmissionTypeOK

\* A moved thread that was live and is not in a handshake it was not in before.
LEMMA MovedLive ==
    ASSUME NEW c \in Conns, c \in Live,
           \A d \in Conns : d # c => conn'[d] = conn[d],
           conn'[c].pc = "tls" /\ Boot \in conn'[c].psks => c \in Guessing
    PROVE  Live' \subseteq Live /\ Guessing' \subseteq Guessing
  BY DEF Live, Guessing

\* A permit is taken only when one is free.
LEMMA AcceptCounts ==
    ASSUME GuessInv, AdmissionTypeOK, NEW c \in Conns, Accept(c)
    PROVE  GuessInv'
  <1>1. /\ conn'[c].pc = "accepted"
        /\ \A d \in Conns : d # c => conn'[d] = conn[d]
    <2>1. "accepted" \in Steps /\ Goto(c, "accepted")
      BY DEF Accept, Steps
    <2> QED BY <2>1, Went
  <1>2. c \notin Live /\ Live' = Live \cup {c} /\ Guessing' = Guessing
    BY <1>1 DEF Accept, AtStep, Live, Guessing
  <1>3. PermitsHeld'
    <2>1. /\ IsFiniteSet(Live') /\ Cardinality(Live') = Cardinality(Live) + 1
          /\ Cardinality(Live) \in Nat
      BY <1>2, FS_AddElement, FS_CardinalityType DEF GuessInv, PermitsHeld
    <2> QED BY <2>1, AdmissionAssumption DEF Accept, PermitsHeld
  <1> QED BY <1>2, <1>3 DEF Accept, GuessInv, GuessesCounted, lockout, history

\* A failed handshake is counted; the failure that locks leaves the other permits' handshakes,
\* and a locked window offers the bootstrap identity to nobody new.
LEMMA TlsFailsCounts ==
    ASSUME GuessInv, AdmissionTypeOK, NEW c \in Conns, TlsFails(c)
    PROVE  GuessInv'
  <1>1. /\ conn'[c].pc = "closed"
        /\ \A d \in Conns : d # c => conn'[d] = conn[d]
    BY Closed DEF TlsFails
  <1>2. c \in Live /\ Live' = Live \ {c} /\ Guessing' = Guessing \ {c}
    BY <1>1 DEF TlsFails, AtStep, Live, Guessing
  <1>3. c \in Guessing <=> Boot \in conn[c].psks
    BY DEF TlsFails, AtStep, Guessing
  <1>4. /\ IsFiniteSet(Live') /\ Cardinality(Live') = Cardinality(Live) - 1
        /\ Cardinality(Live) \in Nat /\ Cardinality(Live) <= MaxConns
    BY <1>2, FS_RemoveElement, FS_CardinalityType DEF GuessInv, PermitsHeld
  <1>5. PermitsHeld'
    BY <1>4, AdmissionAssumption DEF PermitsHeld
  <1>6. Cardinality(Guessing') <= MaxConns - 1 /\ Cardinality(Guessing') \in Nat
    <2>1. Guessing' \subseteq Live'
      BY DEF Guessing, Live
    <2> QED BY <1>4, <2>1, FS_Subset, FS_CardinalityType, AdmissionAssumption
  <1>7. /\ Cardinality(Guessing) \in Nat
        /\ Cardinality(Guessing') = IF c \in Guessing THEN Cardinality(Guessing) - 1
                                                      ELSE Cardinality(Guessing)
    BY <1>2, GuessingFits, FS_RemoveElement DEF GuessInv
  <1>8. /\ guesses \in Nat /\ guesses' \in {guesses, guesses + 1}
        /\ guesses' = guesses + 1 => c \in Guessing
        /\ failures \in 0 .. MaxAttempts
        /\ failures' = IF failures < MaxAttempts THEN failures + 1 ELSE failures
    BY <1>3 DEF TlsFails, CountGuess, AdmissionTypeOK
  <1>9. locked' = (locked \/ failures + 1 >= MaxAttempts)
    BY DEF TlsFails
  <1>10. CASE locked
    <2>1. guesses + Cardinality(Guessing) <= MaxAttempts + MaxConns - 1
      BY <1>10 DEF GuessInv, GuessesCounted
    <2>2. guesses' + Cardinality(Guessing') <= MaxAttempts + MaxConns - 1
      BY <1>7, <1>8, <2>1, AdmissionAssumption
    <2> QED BY <1>5, <1>9, <1>10, <2>2 DEF GuessInv, GuessesCounted
  <1>11. CASE ~ locked
    <2>1. failures < MaxAttempts /\ guesses <= failures
      BY <1>11 DEF GuessInv, GuessesCounted
    <2>2. CASE failures + 1 >= MaxAttempts
      <3>1. guesses' + Cardinality(Guessing') <= MaxAttempts + MaxConns - 1
        BY <1>6, <1>8, <2>1, AdmissionAssumption
      <3>2. locked'
        BY <1>9, <2>2
      <3> QED BY <1>5, <3>1, <3>2 DEF GuessInv, GuessesCounted
    <2>3. CASE ~ (failures + 1 >= MaxAttempts)
      <3>1. failures' < MaxAttempts /\ guesses' <= failures'
        BY <1>8, <2>1, <2>3, AdmissionAssumption
      <3>2. ~ locked'
        BY <1>9, <1>11, <2>3
      <3> QED BY <1>5, <3>1, <3>2 DEF GuessInv, GuessesCounted
    <2> QED BY <2>2, <2>3
  <1> QED BY <1>10, <1>11

\* current_psks offers the bootstrap identity only while the lockout allows it.
LEMMA OfferCounts ==
    ASSUME GuessInv, AdmissionTypeOK, NEW c \in Conns, OfferPsks(c)
    PROVE  GuessInv'
  <1>1. \A d \in Conns : d # c => conn'[d] = conn[d]
    BY DEF OfferPsks, AdmissionTypeOK
  <1>2. c \in Live /\ Live' \subseteq Live
    BY <1>1 DEF OfferPsks, AtStep, Live
  <1>3. PermitsHeld'
    BY <1>2, FS_Subset, FS_CardinalityType, AdmissionAssumption DEF GuessInv, PermitsHeld
  <1>4. failures' = failures /\ locked' = locked /\ guesses' = guesses
    BY DEF OfferPsks, lockout, history
  <1>5. CASE locked
    <2>1. Boot \notin conn'[c].psks
      BY <1>5, AdmissionAssumption DEF OfferPsks, IsPairingActive, AdmissionTypeOK
    <2>2. Guessing' \subseteq Guessing
      BY <1>1, <2>1 DEF Guessing
    <2> QED BY <1>2, <1>4, <2>2, NoGuess
  <1>6. CASE ~ locked
    BY <1>3, <1>4, <1>6 DEF GuessInv, GuessesCounted
  <1> QED BY <1>5, <1>6 DEF AdmissionTypeOK

\* The other steps of a thread move it to a step that is not a handshake, or end it.
LEMMA ThreadCounts ==
    ASSUME GuessInv, ApprovalInv, NEW c \in Conns, Handler(c),
           ~ Accept(c), ~ OfferPsks(c), ~ TlsFails(c), ~ NextConnection(c)
    PROVE  GuessInv'
  <1>0. AdmissionTypeOK /\ conn \in [Conns -> ConnRec] /\ conn[c] \in ConnRec
    BY DEF ApprovalInv, AdmissionTypeOK, ConnRec
  <1>1. failures' = failures /\ locked' = locked /\ guesses' = guesses
    BY DEF Handler, TlsSucceeds, AskConsent, Grant, Respond,
       LoadRecord, Authorize, SendAck, PersistGrant, PersistKey, Join, EndExpired,
       AdmissionDeadline, ConnectionFails, history, lockout
  <1>2. c \in Live
    BY DEF Handler, TlsSucceeds, AskConsent, Grant, Respond, LoadRecord, Authorize, SendAck,
       PersistGrant, PersistKey, Join, EndExpired, AdmissionDeadline, ConnectionFails, AtStep, Live
  <1>3. conn' = conn \/ /\ conn'[c].pc # "tls"
                        /\ \A d \in Conns : d # c => conn'[d] = conn[d]
    <2>1. CASE Close(c)
      BY <1>0, <2>1, Closed
    <2>2. ASSUME NEW step \in {"consent", "persist", "save", "join", "auth"}, Goto(c, step)
          PROVE  conn'[c].pc # "tls" /\ \A d \in Conns : d # c => conn'[d] = conn[d]
      <3>1. step \in Steps
        BY DEF Steps
      <3> QED BY <1>0, <2>2, <3>1, Went
    <2>3. ASSUME NEW i \in Conns \cup {Boot}, TlsSucceeds(c, i)
          PROVE  conn'[c].pc # "tls" /\ \A d \in Conns : d # c => conn'[d] = conn[d]
      BY <1>0, <2>3 DEF TlsSucceeds, ConnRec
    <2>4. CASE Grant(c) /\ ~ Close(c)
      BY <1>0, <2>4 DEF Grant, ConnRec
    <2>5. ASSUME NEW p \in Conns, LoadRecord(c, p), ~ Close(c)
          PROVE  conn'[c].pc # "tls" /\ \A d \in Conns : d # c => conn'[d] = conn[d]
      BY <1>0, <2>5 DEF LoadRecord, ConnRec
    <2>6. ASSUME NEW trusting \in BOOLEAN, Authorize(c, trusting), ~ Close(c)
          PROVE  conn'[c].pc # "tls" /\ \A d \in Conns : d # c => conn'[d] = conn[d]
      BY <1>0, <2>6 DEF Authorize, ConnRec
    <2> QED BY <2>1, <2>2, <2>3, <2>4, <2>5, <2>6 DEF Handler, AskConsent, Respond, SendAck, PersistGrant,
            PersistKey, Join, EndExpired, AdmissionDeadline, ConnectionFails
  <1>4. Live' \subseteq Live /\ Guessing' \subseteq Guessing
    <2>1. CASE conn' = conn
      BY <2>1 DEF Live, Guessing
    <2> QED BY <1>2, <1>3, <2>1, MovedLive
  <1> QED BY <1>0, <1>1, <1>4, NoGuess

\* Every step keeps the counts.
LEMMA GuessStep ==
    ASSUME GuessInv, ApprovalInv, [AdmissionNext]_admissionVars
    PROVE  GuessInv'
  <1>0. AdmissionTypeOK
    BY DEF ApprovalInv
  <1>1. ASSUME NEW c \in Conns, NextConnection(c) PROVE GuessInv'
    <2>1. IdleConn.pc = "idle" /\ conn'[c] = IdleConn /\ \A d \in Conns : d # c => conn'[d] = conn[d]
      BY <1>0, <1>1 DEF NextConnection, IdleConn, AdmissionTypeOK
    <2>2. Live' \subseteq Live /\ Guessing' \subseteq Guessing
      BY <2>1 DEF Live, Guessing
    <2> QED BY <1>0, <1>1, <2>2, NoGuess DEF NextConnection, lockout, history
  <1>2. ASSUME NEW c \in Conns, Handler(c) PROVE GuessInv'
    BY <1>0, <1>1, <1>2, AcceptCounts, OfferCounts, TlsFailsCounts, ThreadCounts
  <1>3. CASE FailureWindowPasses
    <2>1. Live' = Live /\ Guessing' = Guessing
      BY <1>3 DEF FailureWindowPasses, Live, Guessing
    <2>2. failures' = 0 /\ guesses' = 0 /\ locked' = locked
      BY <1>3 DEF FailureWindowPasses
    <2>3. /\ Cardinality(Guessing) \in Nat /\ Cardinality(Live) \in Nat
          /\ Cardinality(Guessing) <= Cardinality(Live) /\ Cardinality(Live) <= MaxConns
      BY GuessingFits DEF GuessInv, PermitsHeld
    <2> QED BY <2>1, <2>2, <2>3, AdmissionAssumption DEF GuessInv, PermitsHeld, GuessesCounted
  <1>4. CASE Restart
    <2>1. Live' \subseteq Live
      BY <1>4 DEF Restart, Live, ClosedConn, IdleConn
    <2>2. PermitsHeld'
      BY <2>1, FS_Subset, FS_CardinalityType, AdmissionAssumption DEF GuessInv, PermitsHeld
    <2> QED BY <1>4, <2>2, AdmissionAssumption DEF Restart, GuessInv, GuessesCounted
  <1>5. CASE \/ PairingWindowCloses \/ Revoke \/ UNCHANGED admissionVars
             \/ \E p \in Conns : Expire(p)
    <2>1. conn' = conn /\ failures' = failures /\ locked' = locked /\ guesses' = guesses
      BY <1>5 DEF PairingWindowCloses, Expire, Revoke, RevokeReadKeys, RevokeWriteKeys,
         RevokeReadGrants, RevokeWriteGrants, admissionVars, lockout, history
    <2>2. Live' \subseteq Live /\ Guessing' \subseteq Guessing
      BY <2>1 DEF Live, Guessing
    <2> QED BY <1>0, <2>1, <2>2, NoGuess
  <1> QED BY <1>2, <1>3, <1>4, <1>5 DEF AdmissionNext

\* No permit is held and nothing counted at first.
LEMMA GuessInitially == AdmissionInit => GuessInv
  <1> SUFFICES ASSUME AdmissionInit PROVE GuessInv
    OBVIOUS
  <1>1. Live = {}
    BY DEF AdmissionInit, Live, IdleConn
  <1> QED BY <1>1, FS_EmptySet, AdmissionAssumption DEF AdmissionInit, GuessInv, PermitsHeld, GuessesCounted

\* A failure window admits no more wrong PINs than the limit and the permits of the host
\* together allow: the lock ends the offers, and each handshake under way counts once
\* (BootstrapLockout, current_psks, MAX_CONCURRENT_CONNECTIONS).
THEOREM GuessesStayBounded == AdmissionSpec => []GuessesBounded
  <1>1. ApprovalInv /\ GuessInv => GuessesBounded
    <2> SUFFICES ASSUME ApprovalInv, GuessInv PROVE GuessesBounded
      OBVIOUS
    <2>1. Cardinality(Guessing) \in Nat /\ guesses \in Nat /\ failures \in 0 .. MaxAttempts
      BY GuessingFits DEF GuessInv, ApprovalInv, AdmissionTypeOK
    <2> QED BY <2>1, AdmissionAssumption DEF GuessInv, GuessesCounted, GuessesBounded
  <1> QED BY <1>1, ApprovalInitially, ApprovalStep, GuessInitially, GuessStep, PTL DEF AdmissionSpec

(***************************************************************************)
(* The control loop of a session.  ControlInv says, for each point of the  *)
(* loop, what is in hand, that the pipeline runs with what the loop would  *)
(* restart it with, and what the client has been told by then.             *)
(***************************************************************************)
Switches == {"input", "clipboard"}
Policies == [input : BOOLEAN, clipboard : BOOLEAN]
Lists == Topologies \cup {Fallback}
LoopPoints == {"top", "topology", "permissions", "policy", "packet"}
Packets == Requests \cup {[type |-> None]}
Commands == [type : {"permissions"}, grant : Grants] \cup [type : {"end"}]

\* Every name an output can have.
ListedNames == UNION {{t.list[i] : i \in DOMAIN t.list} : t \in Topologies}
OutputNames == {"host", None} \cup PinnedOutputs \cup {t.focus : t \in Topologies} \cup ListedNames

HostRec == [platform : Systems, pinned : OutputNames, displays : Topologies, allow : SUBSET Switches, stop : BOOLEAN]
CtlRec ==
    [at : LoopPoints \cup {"preauth", "ended"}, peer : {"guest", "options", "old"}, topology : Lists,
     selected : OutputNames, geometry : OutputNames, scale : Nat, fps : Nat, codec : Codecs, bitrate : Nat,
     grant : SUBSET AllPermissions, effective : SUBSET AllPermissions, audio : BOOLEAN, policy : Policies,
     packet : Packets \cup {None}, failed : BOOLEAN, allowed : SUBSET Switches]
PipeRec ==
    [output : OutputNames, width : Int, fps : Nat, codec : Codecs \cup {None}, bitrate : Nat, restarted : BOOLEAN,
     blank : BOOLEAN]
ToldRec ==
    [list : Lists \cup {None}, first : Lists \cup {None}, active : PipeRec,
     answer : {None, "active", "reject", "response"}, permissions : SUBSET AllPermissions,
     policy : Policies \cup {None}, ended : {None, "stopped", "kicked", "disconnect"}]

ControlTypes ==
    /\ host \in HostRec /\ ctl \in CtlRec /\ pipe \in PipeRec /\ told \in ToldRec
    /\ status \in BOOLEAN /\ inbox \in Seq(Requests) /\ orders \in Seq(Commands)

\* There is a packet in hand where the loop looks at one.
PacketInHand ==
    /\ ctl.at \in {"topology", "permissions", "policy"} => ctl.packet \in Packets
    /\ ctl.at = "packet" => ctl.packet \in Requests

\* Before the handshake ends the session has its configured values and has said nothing.
NothingSaidYet ==
    /\ ctl.at = "preauth" =>
         ctl.fps = ConfigFps /\ ctl.bitrate = ConfigRate /\ ctl.codec = "auto" /\ told.active = NoPipe
    /\ ctl.peer = "old" => told.active = NoPipe

OnlyLinuxPins == host.platform # "linux" => host.pinned = None

\* What a client was told of its permissions holds in the whole loop; what they are is within the
\* switches seen since the packet was read once they were recomputed.
PermissionsAreTold ==
    ctl.at \in LoopPoints =>
      /\ ctl.audio = ("audio" \in ctl.effective)
      /\ ctl.peer = "guest" => told.permissions = ctl.effective
      /\ ctl.peer = "options" => told.policy = Policy(ctl.effective)
CeilingIsKept ==
    /\ ctl.at \in {"topology", "permissions", "policy", "packet"} => host.allow \subseteq ctl.allowed
    /\ ctl.at \in {"policy", "packet"} => ctl.effective \subseteq PermissionCeiling(ctl.allowed, TRUE)
ListIsTold == ctl.at \in LoopPoints /\ ctl.peer # "old" => told.list \in {ctl.topology, told.first}

ControlInv ==
    /\ ControlTypes /\ PacketInHand /\ NothingSaidYet /\ OnlyLinuxPins
    /\ StreamIsKnown /\ PermissionsAreTold /\ CeilingIsKept /\ ListIsTold

(***************************************************************************)
(* What the operators return.                                              *)
(***************************************************************************)
LEMMA LeastExists ==
    ASSUME NEW S \in SUBSET Nat, S # {}
    PROVE  \E x \in S : \A y \in S : x <= y
  <1> DEFINE Less == OpToRel(<, Nat)
  <1>1. Less = {ss \in Nat \X Nat : ss[1] < ss[2]}
    BY DEF OpToRel
  <1>2. IsWellFoundedOn(Less, Nat)
    BY NatLessThanWellFounded
  <1> HIDE DEF Less
  <1>3. PICK x \in S : \A y \in S : ~ (<<y, x>> \in Less)
    BY <1>2, WFMin
  <1>4. ASSUME NEW y \in S PROVE x <= y
    <2>1. y < x => <<y, x>> \in {ss \in Nat \X Nat : ss[1] < ss[2]}
      OBVIOUS
    <2> QED
      BY <1>1, <1>3, <2>1
  <1> QED
    BY <1>4

LEMMA GreatestExists ==
    ASSUME NEW n \in Nat, NEW S \in SUBSET (1 .. n), S # {}
    PROVE  \E x \in S : \A y \in S : y <= x
  <1> DEFINE T == {n - x : x \in S}
  <1>1. T \in SUBSET Nat /\ T # {}
    OBVIOUS
  <1>2. PICK t \in T : \A u \in T : t <= u
    BY <1>1, LeastExists
  <1>3. PICK x \in S : t = n - x
    OBVIOUS
  <1>4. ASSUME NEW y \in S PROVE y <= x
    <2>1. n - y \in T
      OBVIOUS
    <2> QED
      BY <1>2, <1>3, <2>1
  <1> QED
    BY <1>4

\* A list of displays: its names are in order, and one of them has the focus.
IsList(t) ==
    /\ Len(t.list) \in Nat /\ DOMAIN t.list = 1 .. Len(t.list)
    /\ t.focus \in OutputNames /\ \A i \in DOMAIN t.list : t.list[i] \in OutputNames

LEMMA TopologyIsList ==
    ASSUME NEW t \in Topologies
    PROVE  IsList(t) /\ (t.list = <<>> \/ (Present(t, t.focus) /\ Len(t.list) > 0))
  <1>1. t.list \in Seq(STRING)
    BY HostControlAssumption
  <1>2. Len(t.list) \in Nat /\ DOMAIN t.list = 1 .. Len(t.list) /\ (t.list # <<>> => Len(t.list) > 0)
    BY <1>1
  <1>3. t.focus \in OutputNames
    BY DEF OutputNames
  <1>4. ASSUME NEW i \in DOMAIN t.list PROVE t.list[i] \in OutputNames
    <2>1. t.list[i] \in {t.list[j] : j \in DOMAIN t.list}
      OBVIOUS
    <2>2. {t.list[j] : j \in DOMAIN t.list} \in {{u.list[j] : j \in DOMAIN u.list} : u \in Topologies}
      OBVIOUS
    <2>3. t.list[i] \in UNION {{u.list[j] : j \in DOMAIN u.list} : u \in Topologies}
      BY <2>1, <2>2, Zenon
    <2> QED
      BY <2>3 DEF OutputNames, ListedNames
  <1>5. t.list = <<>> \/ Present(t, t.focus)
    BY HostControlAssumption DEF Present
  <1> QED
    BY <1>2, <1>3, <1>4, <1>5 DEF IsList

LEMMA DisplaysAre ==
    ASSUME host \in HostRec
    PROVE  /\ HostDisplays \in Lists /\ IsList(HostDisplays) /\ Len(HostDisplays.list) > 0
           /\ Present(HostDisplays, HostDisplays.focus)
           /\ host.displays.list # <<>> => HostDisplays = host.displays
           /\ host.displays.list = <<>> =>
                HostDisplays.focus = "host" /\ \A i \in DOMAIN HostDisplays.list : HostDisplays.list[i] = "host"
           /\ host.displays \in Topologies /\ IsList(host.displays)
  <1>1. host.displays \in Topologies /\ IsList(host.displays)
    BY TopologyIsList DEF HostRec
  <1>2. CASE host.displays.list = <<>>
    <2>1. HostDisplays = Fallback
      BY <1>2 DEF HostDisplays
    <2>2. Fallback.list = <<"host">> /\ Fallback.focus = "host"
      BY DEF Fallback
    <2>3. Present(Fallback, "host")
      BY <2>2 DEF Present
    <2>4. Len(<<"host">>) = 1 /\ DOMAIN <<"host">> = 1 .. 1 /\ \A i \in 1 .. 1 : <<"host">>[i] = "host"
      OBVIOUS
    <2>5. Fallback \in Lists
      BY DEF Lists
    <2>h. "host" \in OutputNames
      BY DEF OutputNames
    <2>6. IsList(Fallback)
      BY <2>2, <2>4, <2>h DEF IsList
    <2> QED
      BY <1>1, <1>2, <2>1, <2>2, <2>3, <2>4, <2>5, <2>6
  <1>3. CASE host.displays.list # <<>>
    <2>1. HostDisplays = host.displays
      BY <1>3 DEF HostDisplays
    <2>2. Len(host.displays.list) > 0 /\ Present(host.displays, host.displays.focus)
      BY <1>1, <1>3, TopologyIsList
    <2> QED
      BY <1>1, <1>3, <2>1, <2>2 DEF Lists
  <1> QED
    BY <1>2, <1>3

\* The output that replaces a pinned one is not a headless one while a real one is there.
LEMMA ReprobeIs ==
    ASSUME host \in HostRec
    PROVE  /\ ReprobeOutput(host.displays) \in OutputNames
           /\ host.pinned \notin {None, ReprobeOutput(host.displays)} => ~ Blank(ReprobeOutput(host.displays))
  <1> DEFINE t == host.displays
             real == {i \in DOMAIN t.list : ~ OutputIsVirtual(t.list[i])}
             n == ReprobeOutput(t)
  <1>1. /\ DOMAIN t.list \subseteq Nat /\ t.focus \in OutputNames /\ host.pinned \in OutputNames
        /\ \A i \in DOMAIN t.list : t.list[i] \in OutputNames
    BY DisplaysAre DEF HostRec, IsList
  <1>2. CASE t.list = <<>> \/ Present(t, host.pinned)
    <2>1. n = host.pinned
      BY <1>2 DEF ReprobeOutput
    <2> QED
      BY <1>1, <2>1
  <1>3. CASE ~ (t.list = <<>> \/ Present(t, host.pinned)) /\ host.pinned = None
    <2>1. n = t.focus
      BY <1>3 DEF ReprobeOutput, SelectFocused
    <2> QED
      BY <1>1, <1>3, <2>1
  <1>4. CASE ~ (t.list = <<>> \/ Present(t, host.pinned)) /\ host.pinned # None
    <2>1. n = SelectFallback(t) /\ t.list # <<>> /\ HostDisplays = t
      BY <1>4, DisplaysAre DEF ReprobeOutput
    <2>2. CASE real = {} \/ ~ OutputIsVirtual(t.focus)
      <3>1. n = t.focus
        BY <2>1, <2>2 DEF SelectFallback, SelectFocused
      <3> QED
        BY <1>1, <2>1, <2>2, <3>1 DEF Blank
    <2>3. CASE ~ (real = {} \/ ~ OutputIsVirtual(t.focus))
      <3>1. real \in SUBSET Nat /\ real # {}
        BY <1>1, <2>3
      <3>2. \E i \in real : \A j \in real : i <= j
        BY <3>1, LeastExists
      <3>3. n = t.list[CHOOSE i \in real : \A j \in real : i <= j]
        BY <2>1, <2>3 DEF SelectFallback
      <3>4. \E i \in real : n = t.list[i]
        BY <3>2, <3>3
      <3> QED
        BY <1>1, <3>4 DEF Blank
    <2> QED
      BY <2>2, <2>3
  <1> QED
    BY <1>2, <1>3, <1>4

LEMMA ScaledIs ==
    ASSUME NEW name \in OutputNames, NEW scale \in Nat
    PROVE  Scaled(name, scale) \in Int
  <1>1. DisplaySize(name) \in {10, 3, 8}
    BY DEF DisplaySize
  <1> DEFINE p == DisplaySize(name) * scale
             w == p \div 1000
             even == w - (w % 2)
  <1>p. p = 10 * scale \/ p = 3 * scale \/ p = 8 * scale
    BY <1>1
  <1> HIDE DEF p
  <1>2. p \in Int
    BY <1>p
  <1>3. w \in Int
    BY <1>2
  <1> HIDE DEF w
  <1>4. even \in Int
    BY <1>3
  <1>5. Scaled(name, scale) = IF even < 2 THEN 2 ELSE even
    BY DEF Scaled, p, w
  <1> QED
    BY <1>4, <1>5

LEMMA ResolveIs ==
    ASSUME NEW c
    PROVE  Resolve(c) \in Codecs /\ Resolve(Resolve(c)) = Resolve(c)
  BY DEF Resolve, Codecs

LEMMA PipelineIs ==
    ASSUME NEW name \in OutputNames, NEW scale \in Nat, NEW fps \in Nat, NEW codec, NEW rate \in Nat
    PROVE  /\ Pipeline(name, scale, fps, codec, rate) \in PipeRec
           /\ Pipeline(name, scale, fps, codec, rate) =
                [output |-> name, width |-> Scaled(name, scale), fps |-> fps, codec |-> Resolve(codec),
                 bitrate |-> rate, restarted |-> TRUE, blank |-> FALSE]
  BY ScaledIs, ResolveIs DEF Pipeline, PipeRec

LEMMA DefaultPipelineIs ==
    ASSUME host \in HostRec, OnlyLinuxPins
    PROVE  /\ DefaultPipeline \in PipeRec /\ DefaultPipeline.fps = ConfigFps
           /\ DefaultPipeline.bitrate = ConfigRate /\ DefaultPipeline.codec = Resolve("auto")
           /\ DefaultPipeline.restarted = FALSE /\ DefaultPipeline.blank = FALSE
  <1> DEFINE name == CASE host.platform = "windows" -> HostDisplays.list[1]
                       [] host.platform = "macos" -> Primary(HostDisplays)
                       [] host.platform = "linux" -> ReprobeOutput(host.displays)
  <1>1. host.platform \in {"windows", "macos", "linux"} /\ host.pinned \in OutputNames
    BY DEF HostRec, Systems
  <1>2. HostDisplays.list[1] \in OutputNames /\ Primary(HostDisplays) \in OutputNames
    BY DisplaysAre DEF Primary, IsList
  <1>3. name \in OutputNames
    BY <1>1, <1>2, ReprobeIs
  <1>4. ~ (host.pinned \notin {None, name} /\ Blank(name))
    <2>1. CASE host.platform = "linux"
      <3>1. name = ReprobeOutput(host.displays)
        BY <2>1
      <3> QED
        BY <3>1, ReprobeIs
    <2>2. CASE host.platform # "linux"
      BY <2>2 DEF OnlyLinuxPins
    <2> QED
      BY <2>1, <2>2
  <1>5. DefaultPipeline = [Pipeline(name, 1000, ConfigFps, "auto", ConfigRate) EXCEPT
                             !.restarted = FALSE, !.blank = host.pinned \notin {None, name} /\ Blank(name)]
    BY DEF DefaultPipeline
  <1> HIDE DEF name
  <1>6. DefaultPipeline = [Pipeline(name, 1000, ConfigFps, "auto", ConfigRate) EXCEPT !.restarted = FALSE, !.blank = FALSE]
    BY <1>4, <1>5
  <1>7. /\ Pipeline(name, 1000, ConfigFps, "auto", ConfigRate) \in PipeRec
        /\ Pipeline(name, 1000, ConfigFps, "auto", ConfigRate) =
             [output |-> name, width |-> Scaled(name, 1000), fps |-> ConfigFps, codec |-> Resolve("auto"),
              bitrate |-> ConfigRate, restarted |-> TRUE, blank |-> FALSE]
    BY <1>3, PipelineIs DEF ConfigFps, ConfigRate
  <1> DEFINE q == Pipeline(name, 1000, ConfigFps, "auto", ConfigRate)
  <1>8. /\ q \in PipeRec /\ q.fps = ConfigFps /\ q.bitrate = ConfigRate /\ q.codec = Resolve("auto")
        /\ DefaultPipeline = [q EXCEPT !.restarted = FALSE, !.blank = FALSE]
    BY <1>6, <1>7
  <1> HIDE DEF q
  <1> QED
    BY <1>8 DEF PipeRec

LEMMA CeilingIs ==
    ASSUME NEW a, NEW b, a \subseteq b
    PROVE  /\ PermissionCeiling(a, TRUE) \subseteq AllPermissions
           /\ PermissionCeiling(a, TRUE) \subseteq PermissionCeiling(b, TRUE)
  BY DEF PermissionCeiling, AllPermissions

LEMMA PolicyIs == \A p : Policy(p) \in Policies
  BY DEF Policy, Policies

LEMMA SendPermissionsIs ==
    ASSUME told \in ToldRec, ctl \in CtlRec, NEW p \in SUBSET AllPermissions
    PROVE  /\ SendPermissions(told, p) \in ToldRec
           /\ SendPermissions(told, p).list = told.list /\ SendPermissions(told, p).first = told.first
           /\ SendPermissions(told, p).active = told.active
           /\ ctl.peer = "guest" => SendPermissions(told, p).permissions = p
           /\ ctl.peer = "options" => SendPermissions(told, p).policy = Policy(p)
  <1>1. ctl.peer \in {"guest", "options", "old"}
    BY DEF CtlRec
  <1>2. Policy(p) \in Policies
    BY PolicyIs
  <1>3. CASE ctl.peer = "guest"
    <2>1. SendPermissions(told, p) = [told EXCEPT !.permissions = p]
      BY <1>3 DEF SendPermissions
    <2> QED
      BY <1>3, <2>1 DEF ToldRec
  <1>4. CASE ctl.peer = "options"
    <2>1. SendPermissions(told, p) = [told EXCEPT !.policy = Policy(p)]
      BY <1>4 DEF SendPermissions
    <2> QED
      BY <1>2, <1>4, <2>1 DEF ToldRec
  <1>5. CASE ctl.peer = "old"
    <2>1. SendPermissions(told, p) = told
      BY <1>5 DEF SendPermissions
    <2> QED
      BY <1>5, <2>1
  <1> QED
    BY <1>1, <1>3, <1>4, <1>5

(***************************************************************************)
(* The steps.                                                              *)
(***************************************************************************)
HostKept == host'.platform = host.platform /\ host'.pinned = host.pinned
StreamKept ==
    /\ ctl'.peer = ctl.peer /\ ctl'.selected = ctl.selected /\ ctl'.scale = ctl.scale /\ ctl'.fps = ctl.fps
    /\ ctl'.codec = ctl.codec /\ ctl'.bitrate = ctl.bitrate /\ ctl'.geometry = ctl.geometry
    /\ pipe' = pipe /\ told'.active = told.active

\* A step that leaves the stream alone.
LEMMA QuietStep ==
    ASSUME ControlInv, ControlTypes', PacketInHand', HostKept, StreamKept,
           ctl'.at \in LoopPoints => ctl.at \in LoopPoints, ctl'.at = "preauth" => ctl.at = "preauth",
           PermissionsAreTold', CeilingIsKept', ListIsTold'
    PROVE  ControlInv'
  <1>1. ctl.at \in LoopPoints \cup {"preauth", "ended"} /\ ctl'.at \in LoopPoints \cup {"preauth", "ended"}
    BY DEF ControlInv, ControlTypes, CtlRec
  <1>2. StreamIsKnown'
    BY <1>1 DEF ControlInv, StreamIsKnown, Serving, StreamKept, HostKept, Resolve, LoopPoints
  <1>3. NothingSaidYet'
    BY DEF ControlInv, NothingSaidYet, StreamKept
  <1>4. OnlyLinuxPins'
    BY DEF ControlInv, OnlyLinuxPins, HostKept
  <1> QED
    BY <1>2, <1>3, <1>4 DEF ControlInv

\* A step that ends the session.
LEMMA EndStep ==
    ASSUME ControlInv, ctl' = End, UNCHANGED host, pipe' \in PipeRec, told' \in ToldRec,
           told'.active = told.active, status' \in BOOLEAN, inbox' \in Seq(Requests), orders' \in Seq(Commands)
    PROVE  ControlInv'
  <1>1. ctl \in CtlRec /\ host \in HostRec
    BY DEF ControlInv, ControlTypes
  <1>2. ctl' \in CtlRec /\ ctl'.at = "ended" /\ ctl'.peer = ctl.peer
    BY <1>1 DEF End, CtlRec
  <1>3. ControlTypes'
    BY <1>1, <1>2 DEF ControlTypes
  <1>4. PacketInHand' /\ StreamIsKnown' /\ PermissionsAreTold' /\ CeilingIsKept' /\ ListIsTold'
    BY <1>2 DEF PacketInHand, StreamIsKnown, Serving, PermissionsAreTold, CeilingIsKept, ListIsTold, LoopPoints
  <1>5. NothingSaidYet' /\ OnlyLinuxPins'
    BY <1>2 DEF ControlInv, NothingSaidYet, OnlyLinuxPins
  <1> QED
    BY <1>3, <1>4, <1>5 DEF ControlInv

LEMMA WorldKeeps ==
    ASSUME ControlInv, DisplaysChange \/ PipelineDies \/ OperatorActs \/ ClientSends
    PROVE  ControlInv'
  <1>t. /\ ControlTypes /\ host \in HostRec /\ ctl \in CtlRec /\ orders \in Seq(Commands) /\ inbox \in Seq(Requests)
        /\ status \in BOOLEAN
        /\ PacketInHand /\ PermissionsAreTold /\ CeilingIsKept /\ ListIsTold
    BY DEF ControlInv, ControlTypes
  <1>1. CASE DisplaysChange
    <2>1. PICK t \in Topologies : host' = [host EXCEPT !.displays = t] /\ UNCHANGED <<ctl, pipe, status, inbox, orders, told>>
      BY <1>1 DEF DisplaysChange
    <2>2. host' \in HostRec /\ HostKept /\ host'.allow = host.allow
      BY <1>t, <2>1 DEF HostRec, HostKept
    <2>3. ControlTypes' /\ PacketInHand' /\ StreamKept
      BY <1>t, <2>1, <2>2 DEF ControlTypes, PacketInHand, StreamKept
    <2>4. PermissionsAreTold' /\ ListIsTold'
      BY <1>t, <2>1 DEF PermissionsAreTold, ListIsTold, Policy
    <2>5. CeilingIsKept'
      BY <1>t, <2>1, <2>2 DEF CeilingIsKept, PermissionCeiling, HostKept
    <2> QED
      BY <2>1, <2>2, <2>3, <2>4, <2>5, QuietStep
  <1>2. CASE PipelineDies
    <2>1. UNCHANGED <<host, ctl, pipe, inbox, orders, told>> /\ status' = TRUE
      BY <1>2 DEF PipelineDies
    <2>2. ControlTypes' /\ PacketInHand' /\ StreamKept /\ HostKept
      BY <1>t, <2>1 DEF ControlTypes, PacketInHand, StreamKept, HostKept
    <2>3. PermissionsAreTold' /\ ListIsTold' /\ CeilingIsKept'
      BY <1>t, <2>1 DEF PermissionsAreTold, ListIsTold, Policy, CeilingIsKept, PermissionCeiling
    <2> QED
      BY <2>1, <2>2, <2>3, QuietStep
  <1>3. CASE ClientSends
    <2>1. PICK r \in Requests : inbox' = Append(inbox, r) /\ UNCHANGED <<host, ctl, pipe, status, orders, told>>
      BY <1>3 DEF ClientSends
    <2>2. inbox' \in Seq(Requests)
      BY <1>t, <2>1
    <2>3. ControlTypes' /\ PacketInHand' /\ StreamKept /\ HostKept
      BY <1>t, <2>1, <2>2 DEF ControlTypes, PacketInHand, StreamKept, HostKept
    <2>4. PermissionsAreTold' /\ ListIsTold' /\ CeilingIsKept'
      BY <1>t, <2>1 DEF PermissionsAreTold, ListIsTold, Policy, CeilingIsKept, PermissionCeiling
    <2> QED
      BY <2>1, <2>3, <2>4, QuietStep
  <1>4. CASE OperatorActs
    <2>u. UNCHANGED <<pipe, status, inbox, told>> /\ ctl' = [ctl EXCEPT !.allowed = @ \cup host'.allow]
      BY <1>4 DEF OperatorActs
    <2>1. host' \in HostRec /\ HostKept
      <3>1. CASE UNCHANGED host
        BY <1>t, <3>1 DEF HostKept
      <3>2. CASE host' = [host EXCEPT !.stop = TRUE]
        BY <1>t, <3>2 DEF HostKept, HostRec
      <3>3. ASSUME NEW x \in Switches, host' = [host EXCEPT !.allow = IF x \in @ THEN @ \ {x} ELSE @ \cup {x}]
            PROVE  host' \in HostRec /\ HostKept
        <4>1. PICK a \in SUBSET Switches : host' = [host EXCEPT !.allow = a]
          <5>1. (IF x \in host.allow THEN host.allow \ {x} ELSE host.allow \cup {x}) \in SUBSET Switches
            BY <1>t, <3>3 DEF HostRec
          <5> QED
            BY <3>3, <5>1
        <4> QED
          BY <1>t, <4>1 DEF HostKept, HostRec
      <3> QED
        BY <1>4, <3>1, <3>2, <3>3 DEF OperatorActs, Switches
    <2>2. orders' \in Seq(Commands)
      <3>1. CASE UNCHANGED orders
        BY <1>t, <3>1
      <3>2. ASSUME NEW c \in Commands, orders' = Append(orders, c) PROVE orders' \in Seq(Commands)
        BY <1>t, <3>2
      <3>3. \A g \in Grants : [type |-> "permissions", grant |-> g] \in Commands
        BY DEF Commands
      <3>4. [type |-> "end"] \in Commands
        BY DEF Commands
      <3> QED
        BY <1>4, <3>1, <3>2, <3>3, <3>4 DEF OperatorActs
    <2>3. host'.allow \in SUBSET Switches
      BY <2>1 DEF HostRec
    <2>4. /\ ctl' \in CtlRec /\ ctl'.allowed = ctl.allowed \cup host'.allow /\ ctl'.at = ctl.at
          /\ ctl'.effective = ctl.effective /\ ctl'.audio = ctl.audio /\ ctl'.topology = ctl.topology
          /\ ctl'.packet = ctl.packet /\ StreamKept
      BY <1>t, <2>u, <2>3 DEF CtlRec, StreamKept
    <2>5. ControlTypes' /\ PacketInHand'
      BY <1>t, <2>u, <2>1, <2>2, <2>4 DEF ControlTypes, PacketInHand
    <2>6. PermissionsAreTold' /\ ListIsTold'
      BY <1>t, <2>u, <2>4 DEF PermissionsAreTold, ListIsTold, StreamKept, Policy
    <2>7. CeilingIsKept'
      BY <1>t, <2>1, <2>4 DEF CeilingIsKept, PermissionCeiling, HostKept
    <2> QED
      BY <2>1, <2>4, <2>5, <2>6, <2>7, QuietStep
  <1> QED
    BY <1>1, <1>2, <1>3, <1>4

LEMMA ReadKeeps ==
    ASSUME ControlInv, ReadPacket
    PROVE  ControlInv'
  <1>t. /\ ControlTypes /\ host \in HostRec /\ ctl \in CtlRec /\ orders \in Seq(Commands) /\ inbox \in Seq(Requests)
        /\ status \in BOOLEAN
        /\ told \in ToldRec /\ pipe \in PipeRec
        /\ PacketInHand /\ PermissionsAreTold /\ CeilingIsKept /\ ListIsTold
    BY DEF ControlInv, ControlTypes
  <1>u. UNCHANGED <<host, pipe, orders>> /\ ctl.at = "top"
    BY DEF ReadPacket
  <1>1. CASE host.stop
    <2>1. PICK e \in {"stopped", "disconnect"} : told' = [told EXCEPT !.ended = e]
      BY <1>1 DEF ReadPacket
    <2>2. told' \in ToldRec /\ told'.active = told.active
      BY <1>t, <2>1 DEF ToldRec
    <2>3. ctl' = End /\ UNCHANGED <<status, inbox>>
      BY <1>1 DEF ReadPacket
    <2> QED
      BY <1>t, <1>u, <2>2, <2>3, EndStep
  <1>2. CASE ~ host.stop
    <2> DEFINE m == IF inbox = <<>> THEN [type |-> None] ELSE Head(inbox)
    <2>1. /\ UNCHANGED told /\ status' = FALSE
          /\ inbox' = IF inbox = <<>> THEN inbox ELSE Tail(inbox)
          /\ ctl' = IF m.type = "disconnect" THEN End
                    ELSE [ctl EXCEPT !.at = "topology", !.packet = m, !.failed = status, !.allowed = host.allow]
      BY <1>2 DEF ReadPacket
    <2>2. inbox' \in Seq(Requests)
      BY <1>t, <2>1
    <2>3. m \in Packets
      BY <1>t DEF Packets
    <2> HIDE DEF m
    <2>4. CASE m.type = "disconnect"
      BY <1>t, <1>u, <2>1, <2>2, <2>4, EndStep
    <2>5. CASE m.type # "disconnect"
      <3>1. ctl' = [ctl EXCEPT !.at = "topology", !.packet = m, !.failed = status, !.allowed = host.allow]
        BY <2>1, <2>5
      <3>s. status \in BOOLEAN /\ host.allow \in SUBSET Switches
        BY <1>t DEF HostRec
      <3>2. /\ ctl' \in CtlRec /\ ctl'.allowed = host.allow /\ ctl'.at = "topology"
            /\ ctl'.effective = ctl.effective /\ ctl'.audio = ctl.audio /\ ctl'.topology = ctl.topology
            /\ ctl'.packet = m /\ StreamKept
        BY <1>t, <1>u, <2>1, <2>3, <3>1, <3>s DEF CtlRec, StreamKept, LoopPoints
      <3>3. ControlTypes' /\ PacketInHand' /\ HostKept
        BY <1>t, <1>u, <2>1, <2>2, <2>3, <3>2 DEF ControlTypes, PacketInHand, HostKept
      <3>4. PermissionsAreTold' /\ ListIsTold' /\ CeilingIsKept'
        BY <1>t, <1>u, <2>1, <3>2 DEF PermissionsAreTold, ListIsTold, StreamKept, CeilingIsKept, LoopPoints, Policy
      <3> QED
        BY <1>u, <3>2, <3>3, <3>4, QuietStep DEF LoopPoints
    <2> QED
      BY <2>4, <2>5
  <1> QED
    BY <1>1, <1>2

LEMMA CommandsKeep ==
    ASSUME ControlInv, TakeCommands
    PROVE  ControlInv'
  <1>t. /\ ControlTypes /\ host \in HostRec /\ ctl \in CtlRec /\ orders \in Seq(Commands) /\ inbox \in Seq(Requests)
        /\ status \in BOOLEAN /\ told \in ToldRec /\ pipe \in PipeRec
        /\ PacketInHand /\ PermissionsAreTold /\ CeilingIsKept /\ ListIsTold
    BY DEF ControlInv, ControlTypes
  <1>u. UNCHANGED <<host, pipe, status, inbox>> /\ ctl.at = "permissions" /\ orders' = <<>>
    BY DEF TakeCommands
  <1>o. orders' \in Seq(Commands)
    BY <1>u
  <1> DEFINE given == {i \in DOMAIN orders : orders[i].type = "permissions"}
             grant == IF given = {} THEN ctl.grant ELSE orders[CHOOSE i \in given : \A j \in given : j <= i].grant
             now == grant \cap PermissionCeiling(host.allow, TRUE)
  <1>1. CASE \E i \in DOMAIN orders : orders[i].type = "end"
    <2>1. PICK e \in {"kicked", "disconnect"} : told' = [told EXCEPT !.ended = e]
      BY <1>1 DEF TakeCommands
    <2>2. told' \in ToldRec /\ told'.active = told.active
      BY <1>t, <2>1 DEF ToldRec
    <2>3. ctl' = End
      BY <1>1 DEF TakeCommands
    <2> QED
      BY <1>t, <1>u, <1>o, <2>2, <2>3, EndStep
  <1>2. CASE ~ \E i \in DOMAIN orders : orders[i].type = "end"
    <2>1. /\ ctl' = [ctl EXCEPT !.at = "policy", !.grant = grant, !.effective = now,
                                !.audio = IF now = ctl.effective THEN @ ELSE "audio" \in now]
          /\ told' = IF now = ctl.effective THEN told ELSE SendPermissions(told, now)
      BY <1>2 DEF TakeCommands
    <2>2. grant \in SUBSET AllPermissions
      <3>1. CASE given = {}
        BY <1>t, <3>1 DEF CtlRec
      <3>2. CASE given # {}
        <4>1. Len(orders) \in Nat /\ given \in SUBSET (1 .. Len(orders))
          BY <1>t
        <4>2. \E i \in given : \A j \in given : j <= i
          BY <3>2, <4>1, GreatestExists
        <4>3. PICK i \in given : grant = orders[i].grant
          BY <3>2, <4>2
        <4>4. orders[i] \in Commands /\ orders[i].type = "permissions"
          BY <1>t, <4>3
        <4>5. orders[i].grant \in Grants
          BY <4>4 DEF Commands
        <4> QED
          BY <4>3, <4>5, HostControlAssumption
      <3> QED
        BY <3>1, <3>2
    <2> HIDE DEF grant
    <2>3. now \in SUBSET AllPermissions /\ now \subseteq PermissionCeiling(host.allow, TRUE)
      BY <2>2
    <2> HIDE DEF now
    <2>a. host.allow \subseteq ctl.allowed /\ ctl.allowed \in SUBSET Switches
      BY <1>t, <1>u DEF CeilingIsKept, CtlRec
    <2>b. now \subseteq PermissionCeiling(ctl.allowed, TRUE)
      BY <2>3, <2>a, CeilingIs
    <2>c. /\ told' \in ToldRec /\ told'.list = told.list /\ told'.first = told.first /\ told'.active = told.active
          /\ ctl.peer = "guest" => told'.permissions = now
          /\ ctl.peer = "options" => told'.policy = Policy(now)
      <3>1. CASE now = ctl.effective
        BY <1>t, <1>u, <2>1, <3>1 DEF PermissionsAreTold, LoopPoints
      <3>2. CASE now # ctl.effective
        BY <1>t, <2>1, <2>3, <3>2, SendPermissionsIs
      <3> QED
        BY <3>1, <3>2
    <2> DEFINE a == IF now = ctl.effective THEN ctl.audio ELSE "audio" \in now
    <2>d. ctl' = [ctl EXCEPT !.at = "policy", !.grant = grant, !.effective = now, !.audio = a]
      BY <2>1
    <2>e. a \in BOOLEAN /\ a = ("audio" \in now)
      <3>1. ctl.audio = ("audio" \in ctl.effective)
        BY <1>t, <1>u DEF PermissionsAreTold, LoopPoints
      <3>2. CASE now = ctl.effective
        BY <3>1, <3>2
      <3>3. CASE now # ctl.effective
        BY <3>3
      <3> QED
        BY <3>2, <3>3
    <2> HIDE DEF a
    <2>4. /\ ctl' \in CtlRec /\ ctl'.allowed = ctl.allowed /\ ctl'.at = "policy"
          /\ ctl'.effective = now /\ ctl'.audio = a /\ ctl'.topology = ctl.topology
          /\ ctl'.packet = ctl.packet /\ StreamKept
      BY <1>t, <1>u, <2>2, <2>3, <2>c, <2>d, <2>e DEF CtlRec, StreamKept, LoopPoints
    <2>5. ControlTypes' /\ PacketInHand' /\ HostKept
      BY <1>t, <1>u, <1>o, <2>c, <2>4 DEF ControlTypes, PacketInHand, HostKept
    <2>6. PermissionsAreTold'
      BY <2>c, <2>e, <2>4 DEF PermissionsAreTold, StreamKept, Policy
    <2>7. ListIsTold'
      BY <1>t, <1>u, <2>c, <2>4 DEF ListIsTold, StreamKept, LoopPoints
    <2>8. CeilingIsKept'
      BY <1>u, <2>a, <2>b, <2>4 DEF CeilingIsKept, PermissionCeiling
    <2> QED
      BY <1>u, <2>4, <2>5, <2>6, <2>7, <2>8, QuietStep DEF LoopPoints
  <1> QED
    BY <1>1, <1>2

LEMMA HeartbeatKeeps ==
    ASSUME ControlInv, NEW silent \in BOOLEAN, Heartbeat(silent)
    PROVE  ControlInv'
  <1>t. /\ ControlTypes /\ host \in HostRec /\ ctl \in CtlRec /\ orders \in Seq(Commands) /\ inbox \in Seq(Requests)
        /\ status \in BOOLEAN /\ told \in ToldRec /\ pipe \in PipeRec
        /\ PacketInHand /\ PermissionsAreTold /\ CeilingIsKept /\ ListIsTold
    BY DEF ControlInv, ControlTypes
  <1>u. UNCHANGED <<host, pipe, status, inbox, orders>> /\ ctl.at = "policy"
    BY DEF Heartbeat
  <1> DEFINE p == Policy(ctl.effective)
             sends == ctl.peer = "options" /\ p # ctl.policy
  <1>p. p \in Policies /\ ctl.policy \in Policies
    BY <1>t, PolicyIs DEF CtlRec
  <1>1. /\ told' = IF sends THEN [told EXCEPT !.policy = p] ELSE told
        /\ ctl' = IF silent THEN End
                  ELSE [ctl EXCEPT !.at = IF ctl.packet.type = None THEN "top" ELSE "packet", !.policy = IF sends THEN p ELSE @,
                                   !.packet = IF @.type = None THEN None ELSE @]
    BY DEF Heartbeat
  <1>2. /\ told' \in ToldRec /\ told'.active = told.active /\ told'.list = told.list /\ told'.first = told.first
        /\ told'.permissions = told.permissions
        /\ ctl.peer = "options" => told'.policy = p
    BY <1>t, <1>u, <1>p, <1>1 DEF ToldRec, PermissionsAreTold, LoopPoints
  <1>3. CASE silent
    BY <1>t, <1>u, <1>1, <1>2, <1>3, EndStep
  <1>4. CASE ~ silent
    <2>1. PICK o \in Policies, q \in {"top", "packet"}, m \in Packets \cup {None} :
            /\ ctl' = [ctl EXCEPT !.at = q, !.policy = o, !.packet = m]
            /\ q = "packet" => m = ctl.packet /\ m.type # None
      <3>1. ctl.packet \in Packets
        BY <1>t, <1>u DEF PacketInHand
      <3>2. CASE ctl.packet.type = None
        BY <1>p, <1>1, <1>4, <3>2
      <3>3. CASE ctl.packet.type # None
        BY <1>p, <1>1, <1>4, <3>1, <3>3
      <3> QED
        BY <3>2, <3>3
    <2>2. /\ ctl' \in CtlRec /\ ctl'.allowed = ctl.allowed /\ ctl'.at = q
          /\ ctl'.effective = ctl.effective /\ ctl'.audio = ctl.audio /\ ctl'.topology = ctl.topology
          /\ ctl'.packet = m /\ StreamKept
      BY <1>t, <1>u, <1>2, <2>1 DEF CtlRec, StreamKept, LoopPoints
    <2>3. q = "packet" => m \in Requests
      <3>1. ctl.packet \in Packets
        BY <1>t, <1>u DEF PacketInHand
      <3>2. [type |-> None].type = None
        OBVIOUS
      <3> QED
        BY <2>1, <3>1, <3>2 DEF Packets
    <2>4. ControlTypes' /\ PacketInHand' /\ HostKept
      BY <1>t, <1>u, <1>2, <2>2, <2>3 DEF ControlTypes, PacketInHand, HostKept
    <2>5. PermissionsAreTold' /\ ListIsTold'
      BY <1>t, <1>u, <1>2, <2>2 DEF PermissionsAreTold, ListIsTold, StreamKept, LoopPoints, Policy
    <2>6. CeilingIsKept'
      BY <1>t, <1>u, <2>1, <2>2 DEF CeilingIsKept, PermissionCeiling
    <2> QED
      BY <1>u, <2>1, <2>2, <2>4, <2>5, <2>6, QuietStep DEF LoopPoints
  <1> QED
    BY <1>3, <1>4

\* The end of the handshake: the first pipeline, the permissions and the list of displays.
LEMMA AuthenticateKeeps ==
    ASSUME ControlInv, NEW starts \in BOOLEAN, Authenticate(starts)
    PROVE  ControlInv'
  <1>t. /\ ControlTypes /\ host \in HostRec /\ ctl \in CtlRec /\ orders \in Seq(Commands) /\ inbox \in Seq(Requests)
        /\ status \in BOOLEAN /\ told \in ToldRec /\ pipe \in PipeRec /\ NothingSaidYet /\ OnlyLinuxPins
    BY DEF ControlInv, ControlTypes
  <1>u. UNCHANGED <<host, status, inbox, orders>> /\ ctl.at = "preauth"
    BY DEF Authenticate
  <1> DEFINE p == ctl.grant \cap PermissionCeiling(host.allow, TRUE)
             t == SendPermissions(told, p)
  <1>1. /\ pipe' = IF starts THEN DefaultPipeline ELSE NoPipe
        /\ ctl' = IF ~ starts THEN End
                  ELSE [ctl EXCEPT !.at = "top", !.effective = p, !.audio = "audio" \in p,
                                   !.policy = IF HasOptions THEN Policy(p) ELSE @]
        /\ told' = IF starts /\ HasOptions THEN [t EXCEPT !.list = HostDisplays, !.first = HostDisplays] ELSE t
    BY DEF Authenticate
  <1>p. p \in SUBSET AllPermissions
    BY <1>t DEF CtlRec
  <1> HIDE DEF p
  <1>s. /\ t \in ToldRec /\ t.active = told.active
        /\ ctl.peer = "guest" => t.permissions = p
        /\ ctl.peer = "options" => t.policy = Policy(p)
    BY <1>t, <1>p, SendPermissionsIs
  <1> HIDE DEF t
  <1>2. CASE ~ starts
    <2>1. NoPipe \in PipeRec
      BY DEF NoPipe, PipeRec, OutputNames
    <2>2. ctl' = End /\ told' = t /\ pipe' = NoPipe
      BY <1>1, <1>2
    <2> QED
      BY <1>t, <1>u, <1>s, <2>1, <2>2, EndStep
  <1>3. CASE starts
    <2>1. /\ pipe' \in PipeRec /\ pipe'.fps = ConfigFps /\ pipe'.bitrate = ConfigRate
          /\ pipe'.codec = Resolve("auto") /\ pipe'.restarted = FALSE /\ pipe'.blank = FALSE
      BY <1>t, <1>1, <1>3, DefaultPipelineIs
    <2>d. HostDisplays \in Lists
      BY <1>t, DisplaysAre
    <2>2. /\ told' \in ToldRec /\ told'.active = told.active
          /\ ctl.peer = "guest" => told'.permissions = p
          /\ ctl.peer = "options" => told'.policy = Policy(p)
          /\ ctl.peer # "old" => told'.list = told'.first
      BY <1>1, <1>3, <1>s, <2>d DEF ToldRec, HasOptions
    <2> DEFINE a == "audio" \in p
               o == IF HasOptions THEN Policy(p) ELSE ctl.policy
    <2>3. ctl' = [ctl EXCEPT !.at = "top", !.effective = p, !.audio = a, !.policy = o]
      BY <1>1, <1>3
    <2>4. a \in BOOLEAN /\ a = ("audio" \in p) /\ o \in Policies
      BY <1>t, PolicyIs DEF CtlRec
    <2> HIDE DEF a, o
    <2>5. /\ ctl' \in CtlRec /\ ctl'.at = "top" /\ ctl'.peer = ctl.peer /\ ctl'.effective = p /\ ctl'.audio = a
          /\ ctl'.fps = ctl.fps /\ ctl'.bitrate = ctl.bitrate /\ ctl'.codec = ctl.codec
      BY <1>t, <1>p, <2>3, <2>4 DEF CtlRec, LoopPoints
    <2>6. ControlTypes' /\ PacketInHand' /\ OnlyLinuxPins' /\ CeilingIsKept'
      BY <1>t, <1>u, <2>1, <2>2, <2>5 DEF ControlTypes, PacketInHand, OnlyLinuxPins, CeilingIsKept
    <2>7. NothingSaidYet' /\ told'.active = NoPipe
      BY <1>t, <1>u, <2>2, <2>5 DEF NothingSaidYet
    <2>8. StreamIsKnown'
      <3>1. ctl'.fps = ConfigFps /\ ctl'.bitrate = ConfigRate /\ ctl'.codec = "auto"
        BY <1>t, <1>u, <2>5 DEF NothingSaidYet
      <3>2. Resolve("auto")' = Resolve("auto")
        BY <1>u DEF Resolve
      <3> QED
        BY <2>1, <2>7, <3>1, <3>2 DEF StreamIsKnown
    <2>9. PermissionsAreTold' /\ ListIsTold'
      BY <2>2, <2>4, <2>5 DEF PermissionsAreTold, ListIsTold, Policy
    <2> QED
      BY <2>6, <2>7, <2>8, <2>9 DEF ControlInv
  <1> QED
    BY <1>2, <1>3

\* A bitrate for the running pipeline, applied or not; a key frame; a foreign message.
LEMMA SmallRequestsKeep ==
    ASSUME ControlInv, NEW b \in BOOLEAN,
           HandleStreamConfig(b) \/ HandleBitrateAdjust(b) \/ HandleKeyFrame(b) \/ HandleUnsupported
    PROVE  ControlInv'
  <1>t. /\ ControlTypes /\ host \in HostRec /\ ctl \in CtlRec /\ orders \in Seq(Commands) /\ inbox \in Seq(Requests)
        /\ status \in BOOLEAN /\ told \in ToldRec /\ pipe \in PipeRec
        /\ PacketInHand /\ PermissionsAreTold /\ CeilingIsKept /\ ListIsTold
        /\ StreamIsKnown /\ NothingSaidYet /\ OnlyLinuxPins
    BY DEF ControlInv, ControlTypes
  <1>u. UNCHANGED <<host, status, inbox, orders>> /\ ctl.at = "packet" /\ ctl.packet \in Requests
    BY <1>t DEF HandleStreamConfig, HandleBitrateAdjust, HandleKeyFrame, HandleUnsupported, PacketInHand
  \* A new bitrate, of pipeline and loop alike.
  <1>r. ASSUME NEW rate \in Nat, pipe' = [pipe EXCEPT !.bitrate = rate], ctl' = Done([ctl EXCEPT !.bitrate = rate]),
               told' \in ToldRec, told'.active = told.active, told'.list = told.list, told'.first = told.first,
               told'.permissions = told.permissions, told'.policy = told.policy
        PROVE  ControlInv'
    <2>1. ctl' = [[ctl EXCEPT !.bitrate = rate] EXCEPT !.at = "top", !.packet = None]
      BY <1>r DEF Done
    <2> DEFINE c == [ctl EXCEPT !.bitrate = rate]
    <2>2. /\ c \in CtlRec /\ c.bitrate = rate /\ c.peer = ctl.peer /\ c.selected = ctl.selected /\ c.scale = ctl.scale
          /\ c.fps = ctl.fps /\ c.codec = ctl.codec /\ c.geometry = ctl.geometry /\ c.effective = ctl.effective
          /\ c.audio = ctl.audio /\ c.topology = ctl.topology
      BY <1>t DEF CtlRec
    <2>3. ctl' = [c EXCEPT !.at = "top", !.packet = None]
      BY <2>1
    <2> HIDE DEF c
    <2>4. /\ ctl' \in CtlRec /\ ctl'.at = "top" /\ ctl'.bitrate = rate /\ ctl'.peer = ctl.peer
          /\ ctl'.selected = ctl.selected /\ ctl'.scale = ctl.scale
          /\ ctl'.fps = ctl.fps /\ ctl'.codec = ctl.codec /\ ctl'.geometry = ctl.geometry
          /\ ctl'.effective = ctl.effective /\ ctl'.audio = ctl.audio /\ ctl'.topology = ctl.topology
      BY <2>2, <2>3 DEF CtlRec, LoopPoints
    <2>5. /\ pipe' \in PipeRec /\ pipe'.bitrate = rate /\ pipe'.output = pipe.output /\ pipe'.width = pipe.width
          /\ pipe'.fps = pipe.fps /\ pipe'.codec = pipe.codec /\ pipe'.restarted = pipe.restarted /\ pipe'.blank = pipe.blank
      BY <1>t, <1>r DEF PipeRec
    <2>6. ControlTypes' /\ PacketInHand' /\ CeilingIsKept'
      BY <1>t, <1>u, <1>r, <2>4, <2>5 DEF ControlTypes, PacketInHand, CeilingIsKept
    <2>7. PermissionsAreTold' /\ ListIsTold' /\ NothingSaidYet' /\ OnlyLinuxPins'
      BY <1>t, <1>u, <1>r, <2>4 DEF PermissionsAreTold, ListIsTold, NothingSaidYet, OnlyLinuxPins, LoopPoints, Policy
    <2>8. StreamIsKnown'
      BY <1>t, <1>u, <1>r, <2>4, <2>5 DEF StreamIsKnown, Serving, Resolve
    <2> QED
      BY <2>6, <2>7, <2>8 DEF ControlInv
  \* Nothing changes but the packet in hand and the answer.
  <1>d. ASSUME UNCHANGED pipe, ctl' = Done(ctl),
               told' \in ToldRec, told'.active = told.active, told'.list = told.list, told'.first = told.first,
               told'.permissions = told.permissions, told'.policy = told.policy
        PROVE  ControlInv'
    <2>1. /\ ctl' \in CtlRec /\ ctl'.at = "top" /\ StreamKept
          /\ ctl'.effective = ctl.effective /\ ctl'.audio = ctl.audio /\ ctl'.topology = ctl.topology
      BY <1>t, <1>d DEF Done, CtlRec, LoopPoints, StreamKept
    <2>2. ControlTypes' /\ PacketInHand' /\ CeilingIsKept' /\ HostKept
      BY <1>t, <1>u, <1>d, <2>1 DEF ControlTypes, PacketInHand, CeilingIsKept, HostKept
    <2>3. PermissionsAreTold' /\ ListIsTold'
      BY <1>t, <1>u, <1>d, <2>1 DEF PermissionsAreTold, ListIsTold, StreamKept, LoopPoints, Policy
    <2> QED
      BY <1>u, <2>1, <2>2, <2>3, QuietStep DEF LoopPoints
  <1>1. CASE HandleStreamConfig(b)
    <2> DEFINE rate == ctl.packet.rate
               ok == rate # 0 /\ b
    <2>1. /\ pipe' = IF ok THEN [pipe EXCEPT !.bitrate = rate] ELSE pipe
          /\ ctl' = Done(IF ok THEN [ctl EXCEPT !.bitrate = rate] ELSE ctl)
          /\ told' = [told EXCEPT !.answer = IF ok THEN "response" ELSE "reject"]
          /\ ctl.packet.type = "config"
      BY <1>1 DEF HandleStreamConfig
    <2>2. rate \in Nat
      BY <1>u, <2>1 DEF Requests
    <2> HIDE DEF rate
    <2>3. /\ told' \in ToldRec /\ told'.active = told.active /\ told'.list = told.list /\ told'.first = told.first
          /\ told'.permissions = told.permissions /\ told'.policy = told.policy
      BY <1>t, <2>1 DEF ToldRec
    <2>4. CASE ok
      BY <1>r, <2>1, <2>2, <2>3, <2>4
    <2>5. CASE ~ ok
      BY <1>d, <2>1, <2>3, <2>5
    <2> QED
      BY <2>4, <2>5
  <1>2. CASE HandleBitrateAdjust(b)
    <2> DEFINE rate == ctl.packet.rate
    <2>1. /\ pipe' = IF b THEN [pipe EXCEPT !.bitrate = rate] ELSE pipe
          /\ ctl' = Done(IF b THEN [ctl EXCEPT !.bitrate = rate] ELSE ctl)
          /\ told' = told /\ ctl.packet.type = "adjust"
      BY <1>2 DEF HandleBitrateAdjust
    <2>2. rate \in Nat
      BY <1>u, <2>1 DEF Requests
    <2> HIDE DEF rate
    <2>3. CASE b
      BY <1>t, <1>r, <2>1, <2>2, <2>3
    <2>4. CASE ~ b
      BY <1>t, <1>d, <2>1, <2>4
    <2> QED
      BY <2>3, <2>4
  <1>3. CASE HandleKeyFrame(b) \/ HandleUnsupported
    <2>1. UNCHANGED <<pipe, told>> /\ (ctl' = End \/ ctl' = Done(ctl))
      BY <1>3 DEF HandleKeyFrame, HandleUnsupported
    <2>2. CASE ctl' = End
      BY <1>t, <1>u, <2>1, <2>2, EndStep
    <2>3. CASE ctl' = Done(ctl)
      BY <1>t, <1>d, <2>1, <2>3
    <2> QED
      BY <2>1, <2>2, <2>3
  <1> QED
    BY <1>1, <1>2, <1>3

\* A pipeline started anew, of which the loop and a client with options are told at once.
LEMMA RestartStep ==
    ASSUME ControlInv, UNCHANGED <<host, status, inbox, orders>>, ctl.at \in LoopPoints,
           ctl' \in CtlRec, ctl'.at \in LoopPoints, PacketInHand', ctl'.peer = ctl.peer,
           ctl'.effective = ctl.effective, ctl'.audio = ctl.audio, ctl'.allowed = ctl.allowed,
           ctl'.at \in {"policy", "packet"} => ctl.at \in {"policy", "packet"},
           ctl'.at = "top" \/ ctl.at # "top",
           pipe' \in PipeRec, pipe'.restarted, pipe'.output = ctl'.selected,
           pipe'.width = Scaled(ctl'.selected, ctl'.scale), pipe'.fps = ctl'.fps, pipe'.bitrate = ctl'.bitrate,
           pipe'.codec = Resolve(ctl'.codec),
           pipe'.output # "host" => ctl'.geometry = pipe'.output,
           told' \in ToldRec, told'.permissions = told.permissions, told'.policy = told.policy,
           ctl.peer = "old" => told'.active = told.active,
           ctl.peer # "old" =>
             /\ told'.active.output = pipe'.output /\ told'.active.width = pipe'.width
             /\ told'.active.fps = pipe'.fps /\ Resolve(told'.active.codec) = pipe'.codec,
           ListIsTold'
    PROVE  ControlInv'
  <1>t. ControlTypes /\ PermissionsAreTold /\ CeilingIsKept /\ NothingSaidYet /\ OnlyLinuxPins
    BY DEF ControlInv
  <1>1. ControlTypes'
    BY <1>t DEF ControlTypes
  <1>2. NothingSaidYet' /\ OnlyLinuxPins'
    BY <1>t DEF NothingSaidYet, OnlyLinuxPins, LoopPoints
  <1>3. PermissionsAreTold'
    BY <1>t DEF PermissionsAreTold, Policy
  <1>4. CeilingIsKept'
    BY <1>t DEF CeilingIsKept, PermissionCeiling, LoopPoints
  <1>5. StreamIsKnown'
    <2>1. Resolve(ctl.codec)' = Resolve(ctl'.codec) /\ Resolve(told.active.codec)' = Resolve(told'.active.codec)
      BY DEF Resolve
    <2>2. told'.active # NoPipe => ctl.peer # "old"
      BY <1>t DEF NothingSaidYet
    <2> QED
      BY <2>1, <2>2 DEF StreamIsKnown
  <1> QED
    BY <1>1, <1>2, <1>3, <1>4, <1>5 DEF ControlInv

LEMMA OptionsKeep ==
    ASSUME ControlInv, NEW starts \in BOOLEAN, HandleStreamOptions(starts)
    PROVE  ControlInv'
  <1>t. /\ ControlTypes /\ host \in HostRec /\ ctl \in CtlRec /\ orders \in Seq(Commands) /\ inbox \in Seq(Requests)
        /\ status \in BOOLEAN /\ told \in ToldRec /\ pipe \in PipeRec
        /\ PacketInHand /\ PermissionsAreTold /\ CeilingIsKept /\ ListIsTold
    BY DEF ControlInv, ControlTypes
  <1>u. /\ UNCHANGED <<host, status, inbox, orders>> /\ ctl.at = "packet" /\ ctl.packet \in Requests
        /\ ctl.packet.type = "options" /\ ctl.peer # "old"
    BY <1>t DEF HandleStreamOptions, PacketInHand, HasOptions
  <1> DEFINE o == ctl.packet.o
             name == HostDisplays.list[o.index + 1]
             rate == IF o.bitrate # 0 THEN o.bitrate ELSE ctl.bitrate
             codec == IF o.codec = "h264" THEN "h264" ELSE "hevc"
             fresh == Pipeline(name, o.scale, o.fps, codec, rate)
  <1>o. o \in OptionRequests
    BY <1>u DEF Requests
  <1>f. /\ o.index \in Nat /\ o.scale \in Nat /\ o.fps \in Nat /\ o.bitrate \in Nat
    BY <1>o, HostControlAssumption
  <1>1. CASE ValidateStreamOptions(o) /\ starts
    <2>1. /\ pipe' = fresh
          /\ ctl' = Done([ctl EXCEPT !.bitrate = rate, !.selected = name, !.scale = o.scale, !.fps = o.fps, !.codec = codec,
                                     !.geometry = InputGeometry(name, @)])
          /\ told' = [told EXCEPT !.active = fresh, !.answer = "active"]
      BY <1>1 DEF HandleStreamOptions
    <2>2. o.index + 1 \in DOMAIN HostDisplays.list /\ name \in OutputNames
      BY <1>t, <1>f, <1>1, DisplaysAre DEF ValidateStreamOptions, IsList
    <2>3. rate \in Nat /\ codec \in Codecs
      BY <1>t, <1>f DEF CtlRec, Codecs
    <2>g. /\ InputGeometry(name, ctl.geometry) \in OutputNames
          /\ name # "host" => InputGeometry(name, ctl.geometry) = name
      <3>1. name # "host" => Present(host.displays, name)
        BY <1>t, <2>2, DisplaysAre DEF Present
      <3>2. ctl.geometry \in OutputNames
        BY <1>t DEF CtlRec
      <3> QED
        BY <2>2, <3>1, <3>2 DEF InputGeometry
    <2> DEFINE g == InputGeometry(name, ctl.geometry)
    <2> HIDE DEF o, name, rate, codec, g
    <2>4. /\ fresh \in PipeRec /\ fresh.output = name /\ fresh.width = Scaled(name, o.scale) /\ fresh.fps = o.fps
          /\ fresh.codec = Resolve(codec) /\ fresh.bitrate = rate /\ fresh.restarted
      BY <1>f, <2>2, <2>3, PipelineIs
    <2> HIDE DEF fresh
    <2> DEFINE c == [ctl EXCEPT !.bitrate = rate, !.selected = name, !.scale = o.scale, !.fps = o.fps, !.codec = codec,
                                !.geometry = g]
    <2>5. ctl' = [c EXCEPT !.at = "top", !.packet = None]
      BY <2>1 DEF Done, g
    <2>6. /\ c \in CtlRec /\ c.bitrate = rate /\ c.peer = ctl.peer /\ c.selected = name /\ c.scale = o.scale
          /\ c.fps = o.fps /\ c.codec = codec /\ c.geometry = g /\ c.effective = ctl.effective
          /\ c.audio = ctl.audio /\ c.topology = ctl.topology /\ c.allowed = ctl.allowed
      BY <1>t, <1>f, <2>2, <2>3, <2>g DEF CtlRec, g
    <2> HIDE DEF c
    <2>7. /\ ctl' \in CtlRec /\ ctl'.at = "top" /\ ctl'.bitrate = rate /\ ctl'.peer = ctl.peer /\ ctl'.selected = name
          /\ ctl'.scale = o.scale /\ ctl'.fps = o.fps /\ ctl'.codec = codec /\ ctl'.geometry = g
          /\ ctl'.effective = ctl.effective /\ ctl'.audio = ctl.audio /\ ctl'.topology = ctl.topology
          /\ ctl'.allowed = ctl.allowed
      BY <2>5, <2>6 DEF CtlRec, LoopPoints
    <2>8. /\ told' \in ToldRec /\ told'.active = fresh /\ told'.list = told.list /\ told'.first = told.first
          /\ told'.permissions = told.permissions /\ told'.policy = told.policy
      BY <1>t, <2>1, <2>4 DEF ToldRec
    <2>9. PacketInHand' /\ ListIsTold'
      BY <1>t, <1>u, <2>7, <2>8 DEF PacketInHand, ListIsTold, LoopPoints
    <2>10. Resolve(fresh.codec) = fresh.codec
      BY <2>4, ResolveIs
    <2>11. name # "host" => g = name
      BY <2>g DEF g
    <2>12. ctl.at \in LoopPoints /\ "top" \in LoopPoints
      BY <1>u DEF LoopPoints
    <2> QED
      BY <1>u, <2>1, <2>4, <2>7, <2>8, <2>9, <2>10, <2>11, <2>12, RestartStep
  <1>2. CASE ~ (ValidateStreamOptions(o) /\ starts)
    <2>1. ctl' = Done(ctl) /\ told' = [told EXCEPT !.answer = "reject"] /\ UNCHANGED pipe
      BY <1>2 DEF HandleStreamOptions
    <2>2. /\ told' \in ToldRec /\ told'.active = told.active /\ told'.list = told.list /\ told'.first = told.first
          /\ told'.permissions = told.permissions /\ told'.policy = told.policy
      BY <1>t, <2>1 DEF ToldRec
    <2>3. /\ ctl' \in CtlRec /\ ctl'.at = "top" /\ StreamKept
          /\ ctl'.effective = ctl.effective /\ ctl'.audio = ctl.audio /\ ctl'.topology = ctl.topology
      BY <1>t, <2>1, <2>2 DEF Done, CtlRec, LoopPoints, StreamKept
    <2>4. ControlTypes' /\ PacketInHand' /\ CeilingIsKept' /\ HostKept
      BY <1>t, <1>u, <2>1, <2>2, <2>3 DEF ControlTypes, PacketInHand, CeilingIsKept, HostKept
    <2>5. PermissionsAreTold' /\ ListIsTold'
      BY <1>t, <1>u, <2>2, <2>3 DEF PermissionsAreTold, ListIsTold, StreamKept, LoopPoints, Policy
    <2> QED
      BY <1>u, <2>3, <2>4, <2>5, QuietStep DEF LoopPoints
  <1> QED
    BY <1>1, <1>2

\* The look at the displays: nothing to do, a new list, the replacement of what vanished, the end.
LEMMA TopologyKeeps ==
    ASSUME ControlInv, NEW due \in BOOLEAN, NEW starts \in BOOLEAN, CheckTopology(due, starts)
    PROVE  ControlInv'
  <1>t. /\ ControlTypes /\ host \in HostRec /\ ctl \in CtlRec /\ orders \in Seq(Commands) /\ inbox \in Seq(Requests)
        /\ status \in BOOLEAN /\ told \in ToldRec /\ pipe \in PipeRec
        /\ PacketInHand /\ PermissionsAreTold /\ CeilingIsKept /\ ListIsTold /\ NothingSaidYet
    BY DEF ControlInv, ControlTypes
  <1>u. UNCHANGED <<host, status, inbox, orders>> /\ ctl.at = "topology" /\ ctl.at \in LoopPoints
    BY DEF CheckTopology, LoopPoints
  <1> DEFINE t == HostDisplays
             listed == IF HasOptions /\ t # ctl.topology THEN [told EXCEPT !.list = t] ELSE told
             fresh == HotPlugPipeline(Primary(t))
  <1>d. /\ t \in Lists /\ Primary(t) \in OutputNames
        /\ Primary(t) # "host" => Present(host.displays, Primary(t))
    BY <1>t, DisplaysAre DEF Primary, IsList
  <1>l. /\ listed \in ToldRec /\ listed.active = told.active /\ listed.first = told.first
        /\ listed.permissions = told.permissions /\ listed.policy = told.policy
        /\ ctl.peer # "old" => listed.list \in {t, told.first}
    BY <1>t, <1>u, <1>d DEF ToldRec, HasOptions, ListIsTold
  <1>1. CASE ctl' = Proceed(ctl, "permissions") /\ UNCHANGED <<pipe, told>>
    <2>1. /\ ctl' \in CtlRec /\ ctl'.at = "permissions" /\ StreamKept /\ ctl'.packet = ctl.packet
          /\ ctl'.effective = ctl.effective /\ ctl'.audio = ctl.audio /\ ctl'.topology = ctl.topology
          /\ ctl'.allowed = ctl.allowed
      BY <1>t, <1>1 DEF Proceed, CtlRec, LoopPoints, StreamKept
    <2>2. ControlTypes' /\ PacketInHand' /\ CeilingIsKept' /\ HostKept
      BY <1>t, <1>u, <1>1, <2>1 DEF ControlTypes, PacketInHand, CeilingIsKept, HostKept
    <2>3. PermissionsAreTold' /\ ListIsTold'
      BY <1>t, <1>u, <1>1, <2>1 DEF PermissionsAreTold, ListIsTold, StreamKept, LoopPoints, Policy
    <2> QED
      BY <1>u, <2>1, <2>2, <2>3, QuietStep
  <1>2. CASE ctl' = End /\ (told' = told \/ told' = listed) /\ UNCHANGED pipe
    BY <1>t, <1>u, <1>l, <1>2, EndStep
  <1>3. CASE ctl' = [ctl EXCEPT !.at = "permissions", !.topology = t] /\ told' = listed /\ UNCHANGED pipe
    <2> HIDE DEF t, listed
    <2>1. /\ ctl' \in CtlRec /\ ctl'.at = "permissions" /\ StreamKept /\ ctl'.packet = ctl.packet
          /\ ctl'.effective = ctl.effective /\ ctl'.audio = ctl.audio /\ ctl'.topology = t
          /\ ctl'.allowed = ctl.allowed
      BY <1>t, <1>d, <1>l, <1>3 DEF CtlRec, LoopPoints, StreamKept
    <2>2. ControlTypes' /\ PacketInHand' /\ CeilingIsKept' /\ HostKept
      BY <1>t, <1>u, <1>l, <1>3, <2>1 DEF ControlTypes, PacketInHand, CeilingIsKept, HostKept
    <2>3. PermissionsAreTold' /\ ListIsTold'
      BY <1>t, <1>u, <1>l, <1>3, <2>1 DEF PermissionsAreTold, ListIsTold, StreamKept, LoopPoints, Policy
    <2> QED
      BY <1>u, <2>1, <2>2, <2>3, QuietStep
  <1>4. CASE /\ pipe' = fresh
             /\ ctl' = [ctl EXCEPT !.at = "permissions", !.topology = t, !.selected = Primary(t),
                                   !.geometry = InputGeometry(Primary(t), @)]
             /\ told' = IF HasOptions THEN [listed EXCEPT !.active = [fresh EXCEPT !.codec = ctl.codec]] ELSE listed
    <2> DEFINE name == Primary(t)
               g == InputGeometry(name, ctl.geometry)
    <2>g. g \in OutputNames /\ (name # "host" => g = name)
      BY <1>t, <1>d DEF InputGeometry, CtlRec
    <2>c. ctl' = [ctl EXCEPT !.at = "permissions", !.topology = t, !.selected = name, !.geometry = g]
      BY <1>4
    <2>f. /\ fresh \in PipeRec /\ fresh.output = name /\ fresh.width = Scaled(name, ctl.scale) /\ fresh.fps = ctl.fps
          /\ fresh.codec = Resolve(ctl.codec) /\ fresh.bitrate = ctl.bitrate /\ fresh.restarted
      <3> DEFINE q == Pipeline(name, ctl.scale, ctl.fps, ctl.codec, ctl.bitrate)
                 b == Blank(name)
      <3>1. fresh = [q EXCEPT !.blank = b]
        BY DEF HotPlugPipeline
      <3>2. /\ q \in PipeRec /\ q.output = name /\ q.width = Scaled(name, ctl.scale) /\ q.fps = ctl.fps
            /\ q.codec = Resolve(ctl.codec) /\ q.bitrate = ctl.bitrate /\ q.restarted
        <4>1. ctl.scale \in Nat /\ ctl.fps \in Nat /\ ctl.bitrate \in Nat
          BY <1>t DEF CtlRec
        <4> QED
          BY <1>d, <4>1, PipelineIs
      <3>3. b \in BOOLEAN
        BY DEF Blank
      <3> HIDE DEF q, b
      <3> QED
        BY <3>1, <3>2, <3>3 DEF PipeRec
    <2> HIDE DEF t, listed, fresh, name, g
    <2>1. /\ ctl' \in CtlRec /\ ctl'.at = "permissions" /\ ctl'.packet = ctl.packet /\ ctl'.peer = ctl.peer
          /\ ctl'.effective = ctl.effective /\ ctl'.audio = ctl.audio /\ ctl'.topology = t
          /\ ctl'.allowed = ctl.allowed /\ ctl'.selected = name /\ ctl'.geometry = g /\ ctl'.scale = ctl.scale
          /\ ctl'.fps = ctl.fps /\ ctl'.codec = ctl.codec /\ ctl'.bitrate = ctl.bitrate
      BY <1>t, <1>d, <2>g, <2>c DEF CtlRec, LoopPoints, name
    <2>2. /\ told' \in ToldRec /\ told'.list = listed.list /\ told'.first = told.first
          /\ told'.permissions = told.permissions /\ told'.policy = told.policy
          /\ ctl.peer = "old" => told'.active = told.active
          /\ ctl.peer # "old" => /\ told'.active.output = name /\ told'.active.width = fresh.width
                                 /\ told'.active.fps = fresh.fps /\ told'.active.codec = ctl.codec
      <3> DEFINE f == [fresh EXCEPT !.codec = ctl.codec]
      <3>1. ctl.codec \in Codecs
        BY <1>t DEF CtlRec
      <3>2. f \in PipeRec /\ f.output = name /\ f.width = fresh.width /\ f.fps = fresh.fps /\ f.codec = ctl.codec
        BY <2>f, <3>1 DEF PipeRec
      <3>3. told' = IF HasOptions THEN [listed EXCEPT !.active = f] ELSE listed
        BY <1>4
      <3> HIDE DEF f
      <3> QED
        BY <1>l, <3>2, <3>3 DEF ToldRec, HasOptions
    <2>3. PacketInHand' /\ ListIsTold'
      BY <1>t, <1>u, <1>l, <2>1, <2>2 DEF PacketInHand, ListIsTold
    <2>4. "permissions" \in LoopPoints
      BY DEF LoopPoints
    <2> QED
      BY <1>u, <1>4, <2>g, <2>f, <2>1, <2>2, <2>3, <2>4, RestartStep
  <1> QED
    BY <1>1, <1>2, <1>3, <1>4 DEF CheckTopology

LEMMA ControlInvInit == ControlInit => ControlInv
  <1> SUFFICES ASSUME ControlInit PROVE ControlInv
    OBVIOUS
  <1>1. /\ host \in [platform : Platforms, pinned : PinnedOutputs, displays : Topologies,
                     allow : {{"input", "clipboard"}}, stop : {FALSE}]
        /\ host.platform # "linux" => host.pinned = None
    BY DEF ControlInit
  <1>2. host \in HostRec /\ OnlyLinuxPins
    BY <1>1, HostControlAssumption DEF HostRec, OnlyLinuxPins, Switches, OutputNames
  <1>3. PICK peer \in Peers :
         ctl = [at |-> "preauth", peer |-> peer, topology |-> HostDisplays, selected |-> IF host.pinned = None THEN Primary(HostDisplays) ELSE host.pinned,
                geometry |-> ReprobeOutput(host.displays),
                scale |-> 1000, fps |-> ConfigFps, codec |-> "auto", bitrate |-> ConfigRate,
                grant |-> AllPermissions, effective |-> {}, audio |-> FALSE, policy |-> Policy({"keyboard", "mouse", "clipboard"}),
                packet |-> None, failed |-> FALSE, allowed |-> {}]
    BY DEF ControlInit
  <1>4. /\ HostDisplays \in Lists /\ Primary(HostDisplays) \in OutputNames /\ host.pinned \in OutputNames
        /\ ReprobeOutput(host.displays) \in OutputNames
        /\ Policy({"keyboard", "mouse", "clipboard"}) \in Policies
    BY <1>2, DisplaysAre, ReprobeIs, PolicyIs DEF Primary, IsList, HostRec
  <1>5. (IF host.pinned = None THEN Primary(HostDisplays) ELSE host.pinned) \in OutputNames
    BY <1>4
  <1>6. peer \in {"guest", "options", "old"} /\ ConfigFps \in Nat /\ ConfigRate \in Nat
    BY HostControlAssumption DEF ConfigFps, ConfigRate
  <1>7. ctl \in CtlRec /\ ctl.at = "preauth" /\ ctl.fps = ConfigFps /\ ctl.bitrate = ConfigRate /\ ctl.codec = "auto"
    BY <1>3, <1>4, <1>5, <1>6 DEF CtlRec, Codecs
  <1>8. NoPipe \in PipeRec
    BY DEF NoPipe, PipeRec, OutputNames
  <1>9. told \in ToldRec /\ told.active = NoPipe
    BY <1>8 DEF ControlInit, ToldRec
  <1>10. ControlTypes
    <2>1. pipe = NoPipe /\ status = FALSE /\ inbox = <<>> /\ orders = <<>>
      BY DEF ControlInit
    <2>2. inbox \in Seq(Requests) /\ orders \in Seq(Commands)
      BY <2>1
    <2> QED
      BY <1>2, <1>7, <1>8, <1>9, <2>1, <2>2 DEF ControlTypes
  <1>11. PacketInHand /\ NothingSaidYet /\ StreamIsKnown /\ PermissionsAreTold /\ CeilingIsKept /\ ListIsTold
    BY <1>7, <1>9
    DEF PacketInHand, NothingSaidYet, StreamIsKnown, Serving, PermissionsAreTold, CeilingIsKept, ListIsTold, LoopPoints
  <1> QED
    BY <1>2, <1>10, <1>11 DEF ControlInv

LEMMA ControlInvStep == ControlInv /\ [ControlNext]_controlVars => ControlInv'
  <1> SUFFICES ASSUME ControlInv, [ControlNext]_controlVars PROVE ControlInv'
    OBVIOUS
  <1>1. CASE UNCHANGED controlVars
    <2>1. UNCHANGED <<host, ctl, pipe, status, inbox, orders, told>>
      BY <1>1 DEF controlVars
    <2>2. ControlTypes' /\ PacketInHand' /\ HostKept /\ StreamKept
      BY <2>1 DEF ControlInv, ControlTypes, PacketInHand, HostKept, StreamKept
    <2>3. PermissionsAreTold' /\ CeilingIsKept' /\ ListIsTold'
      BY <2>1 DEF ControlInv, PermissionsAreTold, CeilingIsKept, ListIsTold, Policy, PermissionCeiling
    <2> QED
      BY <2>1, <2>2, <2>3, QuietStep
  <1>2. CASE DisplaysChange \/ PipelineDies \/ OperatorActs \/ ClientSends
    BY <1>2, WorldKeeps
  <1>3. CASE ReadPacket \/ TakeCommands
    BY <1>3, ReadKeeps, CommandsKeep
  <1>4. ASSUME NEW b \in BOOLEAN,
               \/ HandleUnsupported \/ Authenticate(b) \/ Heartbeat(b) \/ HandleStreamOptions(b)
               \/ HandleStreamConfig(b) \/ HandleBitrateAdjust(b) \/ HandleKeyFrame(b)
               \/ \E due \in BOOLEAN : CheckTopology(due, b)
        PROVE  ControlInv'
    BY <1>4, SmallRequestsKeep, AuthenticateKeeps, HeartbeatKeeps, OptionsKeep, TopologyKeeps
  <1> QED
    BY <1>1, <1>2, <1>3, <1>4 DEF ControlNext

\* For every set of displays, requests and grants, and any number of plugs, orders, requests and
\* deaths of the pipeline, the control loop of HostServer::handle_connection streams what it
\* believes and says, and handles no packet under permissions the client was not told.
THEOREM HostControlStaysSafe == ControlSpec => []HostControlSafe
  <1>1. ControlInv => HostControlSafe
    <2> SUFFICES ASSUME ControlInv PROVE HostControlSafe
      OBVIOUS
    <2>1. ctl.at \in LoopPoints \cup {"preauth", "ended"} /\ ctl.peer \in {"guest", "options", "old"}
      BY DEF ControlInv, ControlTypes, CtlRec
    <2>2. PermissionsAreKnown
      BY DEF ControlInv, PermissionsAreTold, CeilingIsKept, PermissionsAreKnown, LoopPoints
    <2>3. (Serving /\ HasOptions) => told.list \in {ctl.topology, told.first}
      BY <2>1 DEF ControlInv, ListIsTold, Serving, HasOptions
    <2> QED
      BY <2>2, <2>3 DEF ControlInv, HostControlSafe
  <1> QED
    BY <1>1, ControlInvInit, ControlInvStep, PTL DEF ControlSpec

(***************************************************************************)
(* Clipboard.  ClipboardInv says of each memory of the two ends what it is *)
(* worth at every step: which text the host compares with, that a transfer *)
(* is of the present permission, that the permissions still on their way   *)
(* to the client alternate (so that none can arrive twice within one of    *)
(* its transfers), and what the monitor has between its poll and the       *)
(* callback.                                                               *)
(***************************************************************************)

\* What the clipboards, the messages and the memories of both ends are made of.
ClipValues == ClipTexts \cup {Nil, "img"}
EntryRecs == [kind: {"none", "text", "image"}, val: ClipValues,
              from: {"local", "remote", "unrecorded"}, count: Nat, secret: BOOLEAN, fresh: BOOLEAN]
Transfers == [id: Nat, era: Nat]
HostClipRecs == [clip: EntryRecs, seen: Nat, wrote: ClipValues, recent: BOOLEAN, hash: ClipValues,
                 image: BOOLEAN, active: Transfers, used: SUBSET Nat, nextId: Nat]
MacRecs == [clip: EntryRecs, on: BOOLEAN, shellOn: BOOLEAN, perm: BOOLEAN, slot: ClipValues,
            latest: Nat, part: Transfers, image: Int, imageSeen: Nat, sequence: Nat]
MonitorRecs == [live: BOOLEAN, published: BOOLEAN, last: Nat, written: Int, hash: ClipValues,
                sending: EntryRecs]
PollerRecs == [at: {"idle", "exchange", "chunk", "drain", "apply"}, enabled: BOOLEAN, image: Int,
               text: ClipValues, next: {0, 1}]
SwitchRecs == [at: {"idle", "shell", "stop", "start", "publish"}, want: BOOLEAN]
ClipLogs == [copies: Nat, toggles: Nat, mishaps: Nat, hostEra: Nat, macEra: Nat,
             hostTalk: ClipValues, macTalk: ClipValues, withheld: SUBSET ClipValues,
             bad: SUBSET {"echo", "leak", "swallowed", "torn", "late"}]
TextMessages == [type: {"text"}, val: ClipValues]
ChunkMessages == [type: {"chunk"}, id: Nat, index: {0, 1}]
ToldMessages == [type: {"permissions"}, clipboard: BOOLEAN]
ClipTyped ==
    /\ system \in {"wayland", "x11", "windows"}
    /\ hostClip \in HostClipRecs /\ allowed \in BOOLEAN /\ mac \in MacRecs
    /\ clipMonitor \in MonitorRecs /\ poller \in PollerRecs /\ switch \in SwitchRecs
    /\ toMac \in Seq(TextMessages \cup ChunkMessages \cup ToldMessages)
    /\ online \in BOOLEAN /\ log \in ClipLogs
    /\ toHost \in Seq(TextMessages \cup ChunkMessages)

\* The host: what its poll compares with is what the ends exchanged last; what it wrote for the
\* peer it knows;
\* a transfer that may be taken began under the present permission.
HostKnows ==
    /\ hostClip.hash = log.hostTalk
    /\ hostClip.clip.from = "remote" =>
         /\ hostClip.clip.kind = "text" => hostClip.hash = hostClip.clip.val
         /\ hostClip.clip.kind = "image" => hostClip.image
TransferIsCurrent ==
    allowed /\ hostClip.active # NoTransfer => hostClip.active.era = log.hostEra

\* The permissions told to the client go off and on in turn, the present one being the last.
Off == PermissionMessage(FALSE)
On == PermissionMessage(TRUE)
TurnsAlternate ==
    /\ \A i, j \in 1 .. Len(toMac) :
         i < j /\ toMac[i] = On /\ toMac[j] = On => \E k \in 1 .. Len(toMac) : i < k /\ k < j
          /\ toMac[k] = Off
    /\ mac.perm => \A j \in 1 .. Len(toMac) :
         toMac[j] = On => \E k \in 1 .. Len(toMac) : k < j /\ toMac[k] = Off
    /\ ~ allowed =>
         /\ \A i \in 1 .. Len(toMac) : toMac[i] = On => \E k \in 1 .. Len(toMac) : i < k
            /\ toMac[k] = Off
         /\ mac.perm => \E k \in 1 .. Len(toMac) : toMac[k] = Off
\* The client: a transfer in progress began under the present permission and switch.
PartIsCurrent == mac.part # NoTransfer => mac.on /\ mac.perm /\ mac.part.era = log.macEra

\* The client knows what it wrote for the peer.
MacKnows ==
    /\ mac.clip.from = "remote" =>
         /\ mac.clip.kind = "text" => clipMonitor.last = mac.clip.count
         /\ mac.clip.kind = "image" => mac.imageSeen = mac.clip.count
    /\ clipMonitor.written <= mac.clip.count
    /\ clipMonitor.written = mac.clip.count => ~ mac.clip.fresh
    /\ mac.clip.kind = "text" => mac.clip.val # Nil
    /\ poller.at = "apply" => poller.text # Nil
\* What the monitor compares with it has sent, is sending, has held back or was given.
MonitorKnows ==
    /\ clipMonitor.sending = Empty(0) =>
         clipMonitor.hash \in {Nil, log.macTalk} \cup log.withheld
    /\ clipMonitor.sending # Empty(0) =>
         /\ clipMonitor.sending.kind = "text" /\ clipMonitor.sending.from # "remote"
         /\ ~ clipMonitor.sending.secret
         /\ clipMonitor.hash \in {clipMonitor.sending.val} \cup log.withheld
\* No monitor runs once the switch is off and set_client_clipboard has returned.
SwitchIsDone ==
    /\ switch.at # "idle" => switch.want = mac.on
    /\ switch.at \in {"start", "publish"} => switch.want
    /\ switch.at = "idle" /\ ~ mac.on => ~ clipMonitor.live /\ clipMonitor.sending = Empty(0)

ClipboardInv ==
    /\ ClipTyped /\ HostKnows /\ TransferIsCurrent /\ TurnsAlternate /\ PartIsCurrent
    /\ MacKnows /\ MonitorKnows /\ SwitchIsDone /\ ClipboardSafe

\* An entry is made of what it is given; only a local one is fresh.
LEMMA EntryMade ==
    ASSUME NEW kind \in {"none", "text", "image"}, NEW val \in ClipValues,
           NEW from \in {"local", "remote", "unrecorded"}, NEW n \in Nat, NEW secret \in BOOLEAN
    PROVE  /\ Entry(kind, val, from, n, secret) \in EntryRecs
           /\ Entry(kind, val, from, n, secret).kind = kind
           /\ Entry(kind, val, from, n, secret).val = val
           /\ Entry(kind, val, from, n, secret).from = from
           /\ Entry(kind, val, from, n, secret).count = n
           /\ Entry(kind, val, from, n, secret).secret = secret
           /\ Entry(kind, val, from, n, secret).fresh = (from = "local")
BY SMT DEF Entry, EntryRecs

\* The user copies: nobody has sent or written the new entry.
LEMMA UserCopiesKeepsInv ==
    ASSUME ClipboardInv, NEW kind \in {"text", "image"}, NEW val \in ClipValues \ {Nil},
           NEW secret \in BOOLEAN, UserCopies(kind, val, secret)
    PROVE  ClipboardInv'
<1>1. /\ log \in ClipLogs /\ hostClip \in HostClipRecs /\ mac \in MacRecs
      /\ clipMonitor \in MonitorRecs
      /\ log' = [log EXCEPT !.copies = log.copies + 1]
      /\ UNCHANGED <<system, allowed, clipMonitor, poller, switch, toHost, toMac, online>>
  BY DEF ClipboardInv, ClipTyped, UserCopies
<1>2. /\ log' \in ClipLogs /\ log'.hostTalk = log.hostTalk /\ log'.macTalk = log.macTalk
      /\ log'.hostEra = log.hostEra /\ log'.macEra = log.macEra /\ log'.withheld = log.withheld
      /\ log'.bad = log.bad
  BY <1>1, SMT DEF ClipLogs
<1>3. CASE hostClip' = [hostClip EXCEPT !.clip = Entry(kind, val, "local", hostClip.clip.count + 1,
           secret)] /\ mac' = mac
  <2> DEFINE e == Entry(kind, val, "local", hostClip.clip.count + 1, secret)
  <2>1. hostClip.clip.count + 1 \in Nat
    BY <1>1, SMT DEF HostClipRecs, EntryRecs
  <2>2. e \in EntryRecs /\ e.from = "local"
    BY <2>1, EntryMade
  <2> HIDE DEF e
  <2>3. hostClip' = [hostClip EXCEPT !.clip = e]
    BY <1>3 DEF e
  <2>4. /\ hostClip' \in HostClipRecs /\ hostClip'.clip = e /\ hostClip'.hash = hostClip.hash
        /\ hostClip'.active = hostClip.active
    BY <1>1, <2>2, <2>3, SMT DEF HostClipRecs
  <2>5. ClipTyped'
    BY <1>1, <1>2, <1>3, <2>4 DEF ClipboardInv, ClipTyped
  <2>6. HostKnows' /\ TransferIsCurrent'
    BY <1>1, <1>2, <2>2, <2>4, SMT DEF ClipboardInv, HostKnows, TransferIsCurrent
  <2>7. TurnsAlternate' /\ PartIsCurrent' /\ MacKnows' /\ MonitorKnows' /\ SwitchIsDone'
        /\ ClipboardSafe'
    BY <1>1, <1>2, <1>3 DEF ClipboardInv, TurnsAlternate, PartIsCurrent, MacKnows, MonitorKnows,
       SwitchIsDone, ClipboardSafe, Off, On, PermissionMessage
  <2> QED
    BY <2>5, <2>6, <2>7 DEF ClipboardInv
<1>4. CASE mac' = [mac EXCEPT !.clip = Entry(kind, val, "local", mac.clip.count + 1, secret)]
           /\ hostClip' = hostClip
  <2> DEFINE e == Entry(kind, val, "local", mac.clip.count + 1, secret)
  <2>1. mac.clip.count \in Nat /\ mac.clip.count + 1 \in Nat
    BY <1>1, SMT DEF MacRecs, EntryRecs
  <2>2. e \in EntryRecs /\ e.from = "local" /\ e.count = mac.clip.count + 1 /\ e.val = val
    BY <2>1, EntryMade
  <2> HIDE DEF e
  <2>3. mac' = [mac EXCEPT !.clip = e]
    BY <1>4 DEF e
  <2>4. /\ mac' \in MacRecs /\ mac'.clip = e /\ mac'.on = mac.on /\ mac'.perm = mac.perm
        /\ mac'.part = mac.part /\ mac'.imageSeen = mac.imageSeen
    BY <1>1, <2>2, <2>3, SMT DEF MacRecs
  <2>5. ClipTyped'
    BY <1>1, <1>2, <1>4, <2>4 DEF ClipboardInv, ClipTyped
  <2>6. MacKnows'
    BY <1>1, <1>2, <2>1, <2>2, <2>4, SMT DEF ClipboardInv, MacKnows, MonitorRecs
  <2>7. HostKnows' /\ TransferIsCurrent' /\ TurnsAlternate' /\ PartIsCurrent' /\ MonitorKnows'
        /\ SwitchIsDone' /\ ClipboardSafe'
    BY <1>1, <1>2, <1>4, <2>4 DEF ClipboardInv, HostKnows, TransferIsCurrent, TurnsAlternate,
       PartIsCurrent, MonitorKnows, SwitchIsDone, ClipboardSafe, Off, On, PermissionMessage
  <2> QED
    BY <2>5, <2>6, <2>7 DEF ClipboardInv
<1> QED
  BY <1>1, <1>3, <1>4 DEF UserCopies

\* The first of a sequence is its head, the rest its tail.
LEMMA TakenSeq ==
    ASSUME NEW S, NEW seq \in Seq(S), seq # <<>>
    PROVE  /\ Head(seq) \in S /\ Head(seq) = seq[1] /\ Tail(seq) \in Seq(S)
           /\ Len(seq) \in Nat /\ Len(seq) > 0 /\ Len(Tail(seq)) = Len(seq) - 1
           /\ \A i \in 1 .. Len(seq) - 1 : Tail(seq)[i] = seq[i + 1]
<1>1. Head(seq) \in S /\ Tail(seq) \in Seq(S) /\ Len(Tail(seq)) = Len(seq) - 1
      /\ \A i \in 1 .. Len(Tail(seq)) : Tail(seq)[i] = seq[i + 1]
  BY HeadTailProperties
<1>2. Len(seq) \in Nat /\ Len(seq) > 0
  BY EmptySeq, LenProperties, SMT
<1>3. Head(seq) = seq[1]
  BY <1>2, SMT
<1> QED
  BY <1>1, <1>2, <1>3

\* Telling the client of a change keeps the turns.
LEMMA TellingTurns ==
    ASSUME ClipTyped, TurnsAlternate, allowed' = ~ allowed, mac' = mac,
           toMac' = Append(toMac, PermissionMessage(~ allowed))
    PROVE  TurnsAlternate'
<1> DEFINE m == PermissionMessage(~ allowed)
           S == TextMessages \cup ChunkMessages \cup ToldMessages
<1>1. m \in S /\ toMac \in Seq(S) /\ Len(toMac) \in Nat
  BY LenProperties DEF ClipTyped, PermissionMessage, ToldMessages
<1>2. /\ Len(toMac') = Len(toMac) + 1 /\ toMac'[Len(toMac) + 1] = m
      /\ \A i \in 1 .. Len(toMac) : toMac'[i] = toMac[i]
  BY <1>1, AppendProperties
<1>3. On # Off /\ On' = On /\ Off' = Off
  BY DEF On, Off, PermissionMessage
<1>4. (allowed => m = Off) /\ (~ allowed => m = On)
  BY DEF On, Off, ClipTyped
<1> HIDE DEF m, S
<1>5. CASE allowed
  BY <1>1, <1>2, <1>3, <1>4, <1>5, SMT DEF TurnsAlternate
<1>6. CASE ~ allowed
  <2> DEFINE n == Len(toMac)
  <2>1. \A k \in 1 .. n : k \in 1 .. n + 1 /\ toMac'[k] = toMac[k] /\ k < n + 1
    BY <1>1, <1>2, SMT
  <2>2. \A i \in 1 .. n + 1 : i \in 1 .. n \/ i = n + 1
    BY <1>1, SMT
  <2>3. \A i, j \in 1 .. n + 1 : i < j => i \in 1 .. n
    BY <1>1, SMT
  <2>4. \A i, j \in 1 .. n + 1 : i < j /\ toMac'[i] = On /\ toMac'[j] = On
          => \E k \in 1 .. n + 1 : i < k /\ k < j /\ toMac'[k] = Off
    <3> SUFFICES ASSUME NEW i \in 1 .. n + 1, NEW j \in 1 .. n + 1, i < j, toMac'[i] = On,
                        toMac'[j] = On
                 PROVE  \E k \in 1 .. n + 1 : i < k /\ k < j /\ toMac'[k] = Off
      OBVIOUS
    <3>1. i \in 1 .. n /\ toMac[i] = On
      BY <2>1, <2>3
    <3>2. CASE j = n + 1
      <4>1. PICK k \in 1 .. n : i < k /\ toMac[k] = Off
        BY <1>6, <3>1 DEF TurnsAlternate
      <4> QED
        BY <2>1, <3>2, <4>1
    <3>3. CASE j \in 1 .. n
      <4>1. PICK k \in 1 .. n : i < k /\ k < j /\ toMac[k] = Off
        BY <2>1, <3>1, <3>3 DEF TurnsAlternate
      <4> QED
        BY <2>1, <4>1
    <3> QED
      BY <2>2, <3>2, <3>3
  <2>5. mac.perm => \A j \in 1 .. n + 1 : toMac'[j] = On => \E k \in 1 .. n + 1 : k < j
        /\ toMac'[k] = Off
    BY <1>6, <2>1, <2>2 DEF TurnsAlternate
  <2>6. allowed' /\ mac'.perm = mac.perm /\ Len(toMac') = n + 1
    BY <1>2, <1>6
  <2> HIDE DEF n
  <2> QED
    BY <1>3, <2>4, <2>5, <2>6 DEF TurnsAlternate
<1> QED
  BY <1>5, <1>6

\* So does a message about something else.
LEMMA QuietTurns ==
    ASSUME ClipTyped, TurnsAlternate, allowed' = allowed, mac'.perm = mac.perm,
           Len(toMac') \in Nat, Len(toMac) <= Len(toMac'),
           \A i \in 1 .. Len(toMac) : toMac'[i] = toMac[i],
           \A i \in 1 .. Len(toMac') : i > Len(toMac) => toMac'[i] \notin {On, Off}
    PROVE  TurnsAlternate'
<1>1. Len(toMac) \in Nat
  BY LenProperties DEF ClipTyped
<1>2. On' = On /\ Off' = Off
  BY DEF On, Off, PermissionMessage
<1> QED
  BY <1>1, <1>2, SMT DEF TurnsAlternate

LEMMA TextTurns ==
    ASSUME ClipTyped, TurnsAlternate, allowed' = allowed, mac'.perm = mac.perm,
           NEW m \in TextMessages, toMac' = Append(toMac, m)
    PROVE  TurnsAlternate'
<1> DEFINE S == TextMessages \cup ChunkMessages \cup ToldMessages
<1>1. toMac \in Seq(S) /\ m \in S /\ Len(toMac) \in Nat
  BY LenProperties DEF ClipTyped
<1>2. m \notin {On, Off}
  BY DEF TextMessages, On, Off, PermissionMessage
<1> HIDE DEF S
<1>3. /\ Len(toMac') = Len(toMac) + 1 /\ toMac'[Len(toMac) + 1] = m
      /\ \A i \in 1 .. Len(toMac) : toMac'[i] = toMac[i]
  BY <1>1, AppendProperties
<1>4. /\ Len(toMac') \in Nat /\ Len(toMac) <= Len(toMac')
      /\ \A i \in 1 .. Len(toMac') : i > Len(toMac) => i = Len(toMac) + 1
  BY <1>1, <1>3, SMT
<1> QED
  BY <1>2, <1>3, <1>4, QuietTurns

\* And so does the client, which takes the first message.
LEMMA TakingTurns ==
    ASSUME ClipTyped, TurnsAlternate, allowed' = allowed, toMac # <<>>, toMac' = Tail(toMac),
           Head(toMac) = On => mac'.perm = TRUE, Head(toMac) = Off => mac'.perm = FALSE,
           Head(toMac) \notin {On, Off} => mac'.perm = mac.perm
    PROVE  TurnsAlternate'
<1> DEFINE n == Len(toMac)
<1>1. /\ n \in Nat /\ n > 0 /\ Head(toMac) = toMac[1] /\ Len(toMac') = n - 1
      /\ \A i \in 1 .. n - 1 : toMac'[i] = toMac[i + 1]
  BY TakenSeq DEF ClipTyped
<1>2. On # Off /\ On' = On /\ Off' = Off
  BY DEF On, Off, PermissionMessage
<1> HIDE DEF n
<1>3. \A k \in 1 .. n : k > 1 => k - 1 \in 1 .. n - 1 /\ toMac'[k - 1] = toMac[k]
  BY <1>1, SMT
<1>4. \A i, j \in 1 .. n - 1 : i < j /\ toMac'[i] = On /\ toMac'[j] = On
        => \E k \in 1 .. n - 1 : i < k /\ k < j /\ toMac'[k] = Off
  <2> SUFFICES ASSUME NEW i \in 1 .. n - 1, NEW j \in 1 .. n - 1, i < j, toMac'[i] = On,
                      toMac'[j] = On
               PROVE  \E k \in 1 .. n - 1 : i < k /\ k < j /\ toMac'[k] = Off
    OBVIOUS
  <2>1. PICK k \in 1 .. n : i + 1 < k /\ k < j + 1 /\ toMac[k] = Off
    BY <1>1, SMT DEF TurnsAlternate, n
  <2>2. k - 1 \in 1 .. n - 1 /\ i < k - 1 /\ k - 1 < j /\ toMac'[k - 1] = Off
    BY <1>1, <1>3, <2>1, SMT
  <2> QED
    BY <2>2
<1>5. mac'.perm => \A j \in 1 .. n - 1 : toMac'[j] = On => \E k \in 1 .. n - 1 : k < j
      /\ toMac'[k] = Off
  <2> SUFFICES ASSUME mac'.perm, NEW j \in 1 .. n - 1, toMac'[j] = On
               PROVE  \E k \in 1 .. n - 1 : k < j /\ toMac'[k] = Off
    OBVIOUS
  <2>1. toMac[1] # Off
    BY <1>1
  <2>2. PICK k \in 1 .. n : k < j + 1 /\ toMac[k] = Off
    <3>1. j + 1 \in 1 .. n /\ toMac[j + 1] = On /\ 1 \in 1 .. n /\ 1 < j + 1
      BY <1>1, SMT
    <3>2. CASE toMac[1] = On
      BY <1>1, <3>1, <3>2, SMT DEF TurnsAlternate, n
    <3>3. CASE toMac[1] # On
      <4>1. mac.perm
        BY <1>1, <2>1, <3>3
      <4> QED
        BY <3>1, <4>1, SMT DEF TurnsAlternate, n
    <3> QED
      BY <3>2, <3>3
  <2>3. k - 1 \in 1 .. n - 1 /\ k - 1 < j /\ toMac'[k - 1] = Off
    BY <1>1, <1>3, <2>1, <2>2, SMT
  <2> QED
    BY <2>3
<1>6. ~ allowed => \A i \in 1 .. n - 1 : toMac'[i] = On => \E k \in 1 .. n - 1 : i < k
      /\ toMac'[k] = Off
  <2> SUFFICES ASSUME ~ allowed, NEW i \in 1 .. n - 1, toMac'[i] = On
               PROVE  \E k \in 1 .. n - 1 : i < k /\ toMac'[k] = Off
    OBVIOUS
  <2>1. PICK k \in 1 .. n : i + 1 < k /\ toMac[k] = Off
    BY <1>1, SMT DEF TurnsAlternate, n
  <2>2. k - 1 \in 1 .. n - 1 /\ i < k - 1 /\ toMac'[k - 1] = Off
    BY <1>1, <1>3, <2>1, SMT
  <2> QED
    BY <2>2
<1>7. ~ allowed /\ mac'.perm => \E k \in 1 .. n - 1 : toMac'[k] = Off
  <2> SUFFICES ASSUME ~ allowed, mac'.perm PROVE \E k \in 1 .. n - 1 : toMac'[k] = Off
    OBVIOUS
  <2>1. toMac[1] # Off /\ 1 \in 1 .. n
    BY <1>1, SMT
  <2>2. PICK k \in 1 .. n : toMac[k] = Off
    <3>1. CASE toMac[1] = On
      BY <1>1, <2>1, <3>1, SMT DEF TurnsAlternate, n
    <3>2. CASE toMac[1] # On
      <4>1. mac.perm
        BY <1>1, <2>1, <3>2
      <4> QED
        BY <4>1, SMT DEF TurnsAlternate, n
    <3> QED
      BY <3>1, <3>2
  <2>3. k - 1 \in 1 .. n - 1 /\ toMac'[k - 1] = Off
    BY <1>1, <1>3, <2>1, <2>2, SMT
  <2> QED
    BY <2>3
<1> QED
  BY <1>1, <1>2, <1>4, <1>5, <1>6, <1>7 DEF TurnsAlternate

\* No transfer is a transfer of the first era.
LEMMA NoTransferTyped == NoTransfer \in Transfers
BY SMT DEF NoTransfer, Transfers

\* The permission changes: a transfer that was left over from before is cancelled first.
LEMMA HostPermissionKeepsInv ==
    ASSUME ClipboardInv, HostPermission PROVE ClipboardInv'
<1>1. /\ log \in ClipLogs /\ hostClip \in HostClipRecs /\ allowed \in BOOLEAN
      /\ allowed' = ~ allowed
      /\ hostClip' = IF allowed THEN hostClip ELSE [hostClip EXCEPT !.active = NoTransfer]
      /\ toMac' = Append(toMac, PermissionMessage(~ allowed))
      /\ log' = [log EXCEPT !.toggles = log.toggles + 1, !.hostEra = log.hostEra + 1]
      /\ UNCHANGED <<system, mac, clipMonitor, poller, switch, toHost, online>>
  BY DEF ClipboardInv, ClipTyped, HostPermission
<1>2. /\ log' \in ClipLogs /\ log'.hostTalk = log.hostTalk /\ log'.macTalk = log.macTalk
      /\ log'.macEra = log.macEra /\ log'.withheld = log.withheld /\ log'.bad = log.bad
  <2> DEFINE a == log.toggles + 1
             b == log.hostEra + 1
  <2>1. a \in Nat /\ b \in Nat
    BY <1>1, SMT DEF ClipLogs
  <2>2. log' = [log EXCEPT !.toggles = a, !.hostEra = b]
    BY <1>1
  <2> HIDE DEF a, b
  <2> QED
    BY <1>1, <2>1, <2>2, Zenon DEF ClipLogs
<1>3. /\ hostClip' \in HostClipRecs /\ hostClip'.clip = hostClip.clip
      /\ hostClip'.hash = hostClip.hash
      /\ hostClip'.image = hostClip.image /\ (allowed' => hostClip'.active = NoTransfer)
  <2> DEFINE x == [hostClip EXCEPT !.active = NoTransfer]
  <2>1. /\ x \in HostClipRecs /\ x.clip = hostClip.clip /\ x.hash = hostClip.hash
        /\ x.image = hostClip.image /\ x.active = NoTransfer
    BY <1>1, NoTransferTyped, Zenon DEF HostClipRecs
  <2> HIDE DEF x
  <2> QED
    BY <1>1, <2>1 DEF x
<1>4. ClipTyped'
  <2>1. PermissionMessage(~ allowed) \in ToldMessages
    BY DEF PermissionMessage, ToldMessages
  <2> QED
    BY <1>1, <1>2, <1>3, <2>1, AppendProperties DEF ClipboardInv, ClipTyped
<1>5. TurnsAlternate'
  BY <1>1, TellingTurns DEF ClipboardInv
<1>6. HostKnows' /\ TransferIsCurrent'
  BY <1>1, <1>2, <1>3, SMT DEF ClipboardInv, HostKnows, TransferIsCurrent, NoTransfer
<1>7. PartIsCurrent' /\ MacKnows' /\ MonitorKnows' /\ SwitchIsDone' /\ ClipboardSafe'
  BY <1>1, <1>2 DEF ClipboardInv, PartIsCurrent, MacKnows, MonitorKnows, SwitchIsDone, ClipboardSafe
<1> QED
  BY <1>4, <1>5, <1>6, <1>7 DEF ClipboardInv

\* A transfer or the echo period runs out.
LEMMA HostTimesKeepInv ==
    ASSUME ClipboardInv, HostExpire \/ EchoPeriodPasses PROVE ClipboardInv'
<1>1. /\ hostClip \in HostClipRecs
      /\ \/ hostClip' = [hostClip EXCEPT !.active = NoTransfer]
         \/ hostClip' = [hostClip EXCEPT !.recent = FALSE]
      /\ UNCHANGED <<system, allowed, mac, clipMonitor, poller, switch, toHost, toMac, online, log>>
  BY DEF ClipboardInv, ClipTyped, HostExpire, EchoPeriodPasses
<1>2. /\ hostClip' \in HostClipRecs /\ hostClip'.clip = hostClip.clip
      /\ hostClip'.hash = hostClip.hash
      /\ hostClip'.image = hostClip.image /\ hostClip'.active \in {hostClip.active, NoTransfer}
  <2>1. CASE hostClip' = [hostClip EXCEPT !.active = NoTransfer]
    BY <1>1, <2>1, NoTransferTyped, Zenon DEF HostClipRecs
  <2>2. CASE hostClip' = [hostClip EXCEPT !.recent = FALSE]
    BY <1>1, <2>2, Zenon DEF HostClipRecs
  <2> QED
    BY <1>1, <2>1, <2>2
<1>3. ClipTyped'
  BY <1>1, <1>2 DEF ClipboardInv, ClipTyped
<1>4. HostKnows' /\ TransferIsCurrent'
  BY <1>1, <1>2, SMT DEF ClipboardInv, HostKnows, TransferIsCurrent, NoTransfer
<1>5. TurnsAlternate' /\ PartIsCurrent' /\ MacKnows' /\ MonitorKnows' /\ SwitchIsDone'
      /\ ClipboardSafe'
  BY <1>1 DEF ClipboardInv, TurnsAlternate, PartIsCurrent, MacKnows, MonitorKnows, SwitchIsDone,
     ClipboardSafe, Off, On, PermissionMessage
<1> QED
  BY <1>3, <1>4, <1>5 DEF ClipboardInv

\* A text the host reads is no secret it can see; it sends what is new, and so nothing it wrote.
LEMMA HostPollTextKeepsInv ==
    ASSUME ClipboardInv, NEW fails \in BOOLEAN, HostPollText(fails) PROVE ClipboardInv'
<1> DEFINE windows == system = "windows"
           h == [hostClip EXCEPT !.seen = IF windows THEN hostClip.clip.count ELSE hostClip.seen]
           readable == hostClip.clip.kind = "text" /\ ~ Sensitive(hostClip.clip) /\ ~ fails
           o == IF ~ readable THEN [state |-> h, sends |-> FALSE]
                ELSE IF windows THEN WindowsObserves(h) ELSE LinuxObserves(h)
           echo == readable /\ ~ windows /\ EchoOnLinux(h)
           lost == readable /\ ~ o.sends /\ ~ echo /\ h.clip.fresh /\ h.clip.val # log.hostTalk
           counted == [log EXCEPT !.mishaps = IF fails THEN log.mishaps + 1 ELSE log.mishaps,
                                  !.hostTalk = IF o.sends \/ echo THEN h.clip.val ELSE log.hostTalk]
<1>1. /\ log \in ClipLogs /\ hostClip \in HostClipRecs /\ online /\ allowed
      /\ hostClip' = [o.state EXCEPT !.clip.fresh = IF readable THEN FALSE ELSE o.state.clip.fresh]
      /\ toMac' = IF o.sends THEN Append(toMac, TextMessage(h.clip.val)) ELSE toMac
      /\ log' = Note(IF o.sends THEN SentLog(counted, h.clip) ELSE counted, lost, "swallowed")
      /\ UNCHANGED <<system, allowed, mac, clipMonitor, poller, switch, toHost, online>>
  BY DEF ClipboardInv, ClipTyped, HostPollText
<1>2. /\ h \in HostClipRecs /\ h.clip = hostClip.clip /\ h.hash = hostClip.hash
      /\ h.image = hostClip.image
      /\ h.active = hostClip.active /\ h.clip \in EntryRecs
  BY <1>1, SMT DEF HostClipRecs, EntryRecs
<1> HIDE DEF h
<1>3. /\ o.state \in HostClipRecs /\ o.state.clip = h.clip /\ o.state.active = h.active
      /\ o.state.image = h.image
      /\ o.sends \in BOOLEAN /\ (o.sends => readable /\ h.hash # h.clip.val)
      /\ o.state.hash = IF o.sends \/ echo THEN h.clip.val ELSE h.hash
      /\ (readable /\ ~ o.sends /\ ~ echo => h.hash = h.clip.val)
  <2>1. CASE ~ readable
    BY <1>2, <2>1
  <2>2. CASE readable /\ windows
    <3>1. o = WindowsObserves(h) /\ ~ echo
      BY <2>2
    <3>2. LET s == [h EXCEPT !.hash = h.clip.val]
          IN  /\ s \in HostClipRecs /\ s.clip = h.clip /\ s.active = h.active /\ s.image = h.image
              /\ s.hash = h.clip.val
      BY <1>2, SMT DEF HostClipRecs, EntryRecs
    <3> QED
      BY <2>2, <3>1, <3>2 DEF WindowsObserves
  <2>3. CASE readable /\ ~ windows
    <3> DEFINE forget == IF h.recent THEN h.wrote ELSE Nil
               s == [h EXCEPT !.hash = h.clip.val, !.wrote = forget]
    <3>1. o = LinuxObserves(h) /\ (echo <=> EchoOnLinux(h))
      BY <2>3
    <3>5. LinuxObserves(h) = [state |-> s, sends |-> ~ EchoOnLinux(h) /\ h.hash # h.clip.val]
      BY DEF LinuxObserves
    <3>2. forget \in ClipValues /\ h.clip.val \in ClipValues
      BY <1>2, SMT DEF HostClipRecs, EntryRecs, ClipValues
    <3> HIDE DEF forget
    <3>3. /\ s \in HostClipRecs /\ s.clip = h.clip /\ s.active = h.active /\ s.image = h.image
          /\ s.hash = h.clip.val
      BY <1>2, <3>2, Zenon DEF HostClipRecs
    <3>4. EchoOnLinux(h) \in BOOLEAN
      BY <1>2 DEF EchoOnLinux, HostClipRecs
    <3> HIDE DEF s, o
    <3>6. o.state = s /\ o.sends = (~ EchoOnLinux(h) /\ h.hash # h.clip.val)
      BY <3>1, <3>5
    <3> HIDE DEF echo
    <3> QED
      BY <2>3, <3>1, <3>3, <3>4, <3>6
  <2> QED
    BY <2>1, <2>2, <2>3
<1>4. readable => h.clip.kind = "text" /\ (h.clip.secret => system = "x11")
                  /\ (h.clip.from = "remote" => ~ windows)
  BY <1>2 DEF Sensitive, ClipboardInv, ClipTyped
<1> HIDE DEF o, readable
<1>5. ~ lost
  BY <1>2, <1>3 DEF ClipboardInv, HostKnows
<1>6. /\ counted \in ClipLogs /\ counted.macTalk = log.macTalk /\ counted.macEra = log.macEra
      /\ counted.hostEra = log.hostEra /\ counted.withheld = log.withheld /\ counted.bad = log.bad
      /\ counted.hostTalk = IF o.sends \/ echo THEN h.clip.val ELSE log.hostTalk
  <2> DEFINE a == IF fails THEN log.mishaps + 1 ELSE log.mishaps
             v == IF o.sends \/ echo THEN h.clip.val ELSE log.hostTalk
  <2>1. a \in Nat /\ v \in ClipValues
    BY <1>1, <1>2, SMT DEF ClipLogs, EntryRecs
  <2>2. counted = [log EXCEPT !.mishaps = a, !.hostTalk = v]
    OBVIOUS
  <2> HIDE DEF a, counted
  <2>3. /\ counted \in ClipLogs /\ counted.macTalk = log.macTalk /\ counted.macEra = log.macEra
        /\ counted.hostEra = log.hostEra /\ counted.withheld = log.withheld /\ counted.bad = log.bad
        /\ counted.hostTalk = v
    <3> HIDE DEF v
    <3> QED
      BY <1>1, <2>1, <2>2, Zenon DEF ClipLogs
  <2> QED
    BY <2>3
<1> HIDE DEF counted, lost, echo
<1>7. log' = counted
  <2>1. o.sends => h.clip.from # "remote" /\ ~ (h.clip.secret /\ system # "x11")
    BY <1>2, <1>3, <1>4 DEF ClipboardInv, HostKnows
  <2> QED
    BY <1>1, <1>5, <2>1 DEF Note, SentLog
<1>8. /\ hostClip' \in HostClipRecs /\ hostClip'.hash = o.state.hash
      /\ hostClip'.active = hostClip.active
      /\ hostClip'.image = hostClip.image /\ hostClip'.clip.from = hostClip.clip.from
      /\ hostClip'.clip.kind = hostClip.clip.kind /\ hostClip'.clip.val = hostClip.clip.val
  <2> DEFINE e == [hostClip.clip EXCEPT !.fresh = IF readable THEN FALSE ELSE hostClip.clip.fresh]
  <2>1. /\ e \in EntryRecs /\ e.from = hostClip.clip.from /\ e.kind = hostClip.clip.kind
        /\ e.val = hostClip.clip.val
    <3> DEFINE f == IF readable THEN FALSE ELSE hostClip.clip.fresh
    <3>2. hostClip.clip \in EntryRecs
      BY <1>2
    <3>3. hostClip.clip.fresh \in BOOLEAN
      BY <3>2 DEF EntryRecs
    <3>1. hostClip.clip \in EntryRecs /\ f \in BOOLEAN
      BY <3>2, <3>3
    <3> HIDE DEF f
    <3> QED
      BY <3>1, Zenon DEF EntryRecs
  <2>2. hostClip' = [o.state EXCEPT !.clip = e]
    BY <1>1, <1>2, <1>3
  <2> HIDE DEF e
  <2> QED
    BY <1>2, <1>3, <2>1, <2>2, SMT DEF HostClipRecs
<1> QED
  <2>1. ClipTyped'
    <3>1. o.sends => TextMessage(h.clip.val) \in TextMessages
      BY <1>2 DEF TextMessage, TextMessages, EntryRecs
    <3>2. toMac' \in Seq(TextMessages \cup ChunkMessages \cup ToldMessages)
      <4>1. CASE o.sends
        BY <1>1, <3>1, <4>1, AppendProperties DEF ClipboardInv, ClipTyped
      <4> QED
        BY <1>1, <4>1 DEF ClipboardInv, ClipTyped
    <3> QED
      BY <1>1, <1>6, <1>7, <1>8, <3>2 DEF ClipboardInv, ClipTyped
  <2>2. HostKnows' /\ TransferIsCurrent'
    BY <1>1, <1>2, <1>3, <1>6, <1>7, <1>8 DEF ClipboardInv, HostKnows, TransferIsCurrent
  <2>3. TurnsAlternate'
    <3>1. TextMessage(h.clip.val) \in TextMessages
      BY <1>2 DEF TextMessage, TextMessages, EntryRecs
    <3>2. CASE o.sends
      BY <1>1, <3>1, <3>2, TextTurns DEF ClipboardInv
    <3>3. CASE ~ o.sends
      BY <1>1, <3>3 DEF ClipboardInv, TurnsAlternate, On, Off, PermissionMessage
    <3> QED
      BY <3>2, <3>3
  <2>4. PartIsCurrent' /\ MacKnows' /\ MonitorKnows' /\ SwitchIsDone' /\ ClipboardSafe'
    BY <1>1, <1>6, <1>7 DEF ClipboardInv, PartIsCurrent, MacKnows, MonitorKnows, SwitchIsDone,
       ClipboardSafe
  <2> QED
    BY <2>1, <2>2, <2>3, <2>4 DEF ClipboardInv

\* An image the host sends is no secret, and not the one it wrote for the peer.
LEMMA HostPollImageKeepsInv ==
    ASSUME ClipboardInv, HostPollImage PROVE ClipboardInv'
<1> DEFINE clip == hostClip.clip
           has == clip.kind = "image"
           sends == has /\ ~ hostClip.image
           id == hostClip.nextId + 1
           S == TextMessages \cup ChunkMessages \cup ToldMessages
<1>1. /\ log \in ClipLogs /\ hostClip \in HostClipRecs /\ system \in {"wayland", "windows"}
      /\ ~ Sensitive(clip)
      /\ hostClip' = [hostClip EXCEPT !.image = has,
         !.nextId = IF sends THEN id ELSE hostClip.nextId,
                                      !.clip.fresh = IF has THEN FALSE ELSE hostClip.clip.fresh]
      /\ toMac' = IF sends THEN toMac \o <<Chunk(id, 0), Chunk(id, 1)>> ELSE toMac
      /\ log' = IF sends THEN SentLog(log, clip) ELSE log
      /\ UNCHANGED <<system, allowed, mac, clipMonitor, poller, switch, toHost, online>>
  BY DEF ClipboardInv, ClipTyped, HostPollImage, Images
<1>2. clip \in EntryRecs /\ hostClip.nextId \in Nat /\ id \in Nat /\ clip.fresh \in BOOLEAN
      /\ hostClip.image \in BOOLEAN
  BY <1>1, SMT DEF HostClipRecs, EntryRecs
<1>3. /\ hostClip' \in HostClipRecs /\ hostClip'.image = has /\ hostClip'.hash = hostClip.hash
      /\ hostClip'.active = hostClip.active /\ hostClip'.clip.from = clip.from
      /\ hostClip'.clip.val = clip.val
      /\ hostClip'.clip.kind = clip.kind
  <2> DEFINE f == IF has THEN FALSE ELSE hostClip.clip.fresh
             e == [hostClip.clip EXCEPT !.fresh = f]
             n == IF sends THEN id ELSE hostClip.nextId
  <2>1. hostClip' = [hostClip EXCEPT !.image = has, !.nextId = n, !.clip = e]
    BY <1>1
  <2>2. f \in BOOLEAN /\ n \in Nat /\ has \in BOOLEAN
    BY <1>2
  <2> HIDE DEF f, n, has
  <2>3. e \in EntryRecs /\ e.from = clip.from /\ e.val = clip.val /\ e.kind = clip.kind
    BY <1>2, <2>2, Zenon DEF EntryRecs
  <2> HIDE DEF e
  <2> QED
    BY <1>1, <2>1, <2>2, <2>3, Zenon DEF HostClipRecs
<1>4. log' = log
  <2>1. sends => clip.from # "remote" /\ ~ (clip.secret /\ system # "x11")
    BY <1>1 DEF ClipboardInv, HostKnows, Sensitive
  <2> QED
    BY <1>1, <2>1 DEF Note, SentLog
<1>5. toMac' \in Seq(S) /\ TurnsAlternate'
  <2>1. CASE sends
    <3> DEFINE c == <<Chunk(id, 0), Chunk(id, 1)>>
    <3>1. Chunk(id, 0) \in ChunkMessages /\ Chunk(id, 1) \in ChunkMessages
      BY <1>2 DEF Chunk, ChunkMessages
    <3>2. Chunk(id, 0) \notin {On, Off} /\ Chunk(id, 1) \notin {On, Off}
      BY DEF Chunk, On, Off, PermissionMessage
    <3>3. toMac \in Seq(S) /\ c \in Seq(S) /\ Len(toMac) \in Nat /\ Len(c) = 2
          /\ c[1] = Chunk(id, 0) /\ c[2] = Chunk(id, 1)
      BY <3>1, LenProperties DEF ClipboardInv, ClipTyped
    <3>4. toMac' = toMac \o c
      BY <1>1, <2>1
    <3> HIDE DEF c, S
    <3>5. /\ toMac' \in Seq(S) /\ Len(toMac') = Len(toMac) + 2
          /\ \A i \in 1 .. Len(toMac) + 2 :
             toMac'[i] = IF i <= Len(toMac) THEN toMac[i] ELSE c[i - Len(toMac)]
      <4>1. /\ toMac \o c \in Seq(S) /\ Len(toMac \o c) = Len(toMac) + Len(c)
            /\ \A i \in 1 .. Len(toMac) + Len(c) :
                 (toMac \o c)[i] = IF i <= Len(toMac) THEN toMac[i] ELSE c[i - Len(toMac)]
        BY <3>3, ConcatProperties
      <4> QED
        BY <3>3, <3>4, <4>1
    <3>7. \A n \in Nat : \A i \in 1 .. n + 2 : i > n => i - n = 1 \/ i - n = 2
      BY SMT
    <3>6. /\ \A i \in 1 .. Len(toMac) : toMac'[i] = toMac[i]
          /\ \A i \in 1 .. Len(toMac') : i > Len(toMac) => toMac'[i] \in {c[1], c[2]}
          /\ Len(toMac') \in Nat /\ Len(toMac) <= Len(toMac')
      <4>1. \A i \in 1 .. Len(toMac) : i \in 1 .. Len(toMac) + 2 /\ i <= Len(toMac)
        BY <3>3, SMT
      <4>2. \A i \in 1 .. Len(toMac) + 2 : i > Len(toMac) => ~ (i <= Len(toMac))
        BY <3>3, SMT
      <4>3. Len(toMac) + 2 \in Nat /\ Len(toMac) <= Len(toMac) + 2
        BY <3>3, SMT
      <4> QED
        BY <3>5, <3>7, <4>1, <4>2, <4>3
    <3> QED
      BY <1>1, <3>2, <3>3, <3>5, <3>6, QuietTurns DEF ClipboardInv
  <2>2. CASE ~ sends
    BY <1>1, <2>2 DEF ClipboardInv, ClipTyped, TurnsAlternate, On, Off, PermissionMessage
  <2> QED
    BY <2>1, <2>2
<1>6. ClipTyped'
  BY <1>1, <1>3, <1>4, <1>5 DEF ClipboardInv, ClipTyped
<1>7. HostKnows' /\ TransferIsCurrent'
  BY <1>1, <1>3, <1>4 DEF ClipboardInv, HostKnows, TransferIsCurrent
<1>8. PartIsCurrent' /\ MacKnows' /\ MonitorKnows' /\ SwitchIsDone' /\ ClipboardSafe'
  BY <1>1, <1>4 DEF ClipboardInv, PartIsCurrent, MacKnows, MonitorKnows, SwitchIsDone, ClipboardSafe
<1> QED
  BY <1>5, <1>6, <1>7, <1>8 DEF ClipboardInv

\* What apply_remote_text makes of the clipboard objects: what it recorded is remembered.
LEMMA TextIsApplied ==
    ASSUME ClipTyped, NEW h \in HostClipRecs, NEW v \in ClipValues, NEW how \in Writes
    PROVE  /\ ApplyText(h, v, how) \in HostClipRecs /\ ApplyText(h, v, how).active = h.active
           /\ ApplyText(h, v, how).image = h.image
           /\ ApplyText(h, v, how).hash = IF how = "done" THEN v ELSE h.hash
           /\ how = "refused" => ApplyText(h, v, how) = h
           /\ how # "refused" => ApplyText(h, v, how).clip.kind = "text"
           /\ how = "unrecorded" => ApplyText(h, v, how).clip.from = "unrecorded"
           /\ how = "done" => ApplyText(h, v, how).clip.val = v
<1> DEFINE f == IF how = "done" THEN "remote" ELSE "unrecorded"
           e == Entry("text", v, f, h.clip.count + 1, FALSE)
<1>1. h.clip.count + 1 \in Nat
  BY SMT DEF HostClipRecs, EntryRecs
<1>2. /\ e \in EntryRecs /\ e.val = v /\ e.kind = "text" /\ e.count \in Nat
      /\ e.from = IF how = "done" THEN "remote" ELSE "unrecorded"
  <2>1. f \in {"local", "remote", "unrecorded"}
    OBVIOUS
  <2>2. e \in EntryRecs /\ e.val = v /\ e.kind = "text" /\ e.from = f
    <3> HIDE DEF f
    <3> QED
      BY <1>1, <2>1, SMT DEF Entry, EntryRecs
  <2> QED
    BY <2>2 DEF EntryRecs
<1>3. /\ how = "refused" => ApplyText(h, v, how) = h
      /\ how = "unrecorded" => ApplyText(h, v, how) = [h EXCEPT !.clip = e]
      /\ how = "done" /\ system = "windows"
         => ApplyText(h, v, how) = [h EXCEPT !.clip = e, !.seen = e.count, !.hash = v]
      /\ how = "done" /\ system # "windows"
         => ApplyText(h, v, how) = [h EXCEPT !.clip = e, !.hash = v, !.wrote = v, !.recent = TRUE]
  BY DEF ApplyText
<1> HIDE DEF e
<1>4. CASE how = "refused"
  BY <1>3, <1>4
<1>5. CASE how = "unrecorded"
  <2>1. ApplyText(h, v, how) = [h EXCEPT !.clip = e]
    BY <1>3, <1>5
  <2> QED
    BY <1>2, <1>5, <2>1, Zenon DEF HostClipRecs
<1>6. CASE how = "done" /\ system = "windows"
  <2>1. ApplyText(h, v, how) = [h EXCEPT !.clip = e, !.seen = e.count, !.hash = v]
    BY <1>3, <1>6
  <2> QED
    BY <1>2, <1>6, <2>1, Zenon DEF HostClipRecs
<1>7. CASE how = "done" /\ system # "windows"
  <2>1. ApplyText(h, v, how) = [h EXCEPT !.clip = e, !.hash = v, !.wrote = v, !.recent = TRUE]
    BY <1>3, <1>7
  <2> QED
    BY <1>2, <1>7, <2>1, Zenon DEF HostClipRecs
<1> QED
  BY <1>4, <1>5, <1>6, <1>7 DEF Writes

\* And apply_remote_image.
LEMMA ImageIsApplied ==
    ASSUME NEW h \in HostClipRecs, NEW how \in Writes
    PROVE  /\ ApplyImage(h, how) \in HostClipRecs /\ ApplyImage(h, how).active = h.active
           /\ ApplyImage(h, how).hash = h.hash
           /\ how = "refused" => ApplyImage(h, how) = h
           /\ how = "unrecorded" => ApplyImage(h, how).clip.from = "unrecorded"
           /\ how = "done" => ApplyImage(h, how).image /\ ApplyImage(h, how).clip.kind = "image"
<1> DEFINE f == IF how = "done" THEN "remote" ELSE "unrecorded"
           e == Entry("image", "img", f, h.clip.count + 1, FALSE)
<1>1. h.clip.count + 1 \in Nat /\ "img" \in ClipValues
  BY SMT DEF HostClipRecs, EntryRecs, ClipValues
<1>2. e \in EntryRecs /\ e.kind = "image"
      /\ e.from = IF how = "done" THEN "remote" ELSE "unrecorded"
  <2>1. f \in {"local", "remote", "unrecorded"}
    OBVIOUS
  <2>2. e \in EntryRecs /\ e.kind = "image" /\ e.from = f
    <3> HIDE DEF f
    <3> QED
      BY <1>1, <2>1, SMT DEF Entry, EntryRecs
  <2> QED
    BY <2>2
<1>3. /\ how = "refused" => ApplyImage(h, how) = h
      /\ how = "unrecorded" => ApplyImage(h, how) = [h EXCEPT !.clip = e]
      /\ how = "done" => ApplyImage(h, how) = [h EXCEPT !.clip = e, !.image = TRUE]
  BY DEF ApplyImage
<1> HIDE DEF e
<1>4. CASE how = "refused"
  BY <1>3, <1>4
<1>5. CASE how = "unrecorded"
  <2>1. ApplyImage(h, how) = [h EXCEPT !.clip = e]
    BY <1>3, <1>5
  <2> QED
    BY <1>2, <1>5, <2>1, Zenon DEF HostClipRecs
<1>6. CASE how = "done"
  <2>1. ApplyImage(h, how) = [h EXCEPT !.clip = e, !.image = TRUE]
    BY <1>3, <1>6
  <2> QED
    BY <1>2, <1>6, <2>1, Zenon DEF HostClipRecs
<1> QED
  BY <1>4, <1>5, <1>6 DEF Writes

\* Assembly::push: a transfer in progress is of the present permission, and only the one in
\* progress completes.
LEMMA Assembled ==
    ASSUME NEW h \in HostClipRecs, log \in ClipLogs, NEW m \in ChunkMessages
    PROVE  LET o == Assemble(h, m)
           IN  /\ o.state \in HostClipRecs /\ o.state.clip = h.clip
               /\ o.state.hash = h.hash /\ o.state.image = h.image
               /\ o.state.active = NoTransfer \/ o.state.active.era = log.hostEra
               /\ o.whole => h.active # NoTransfer /\ h.active.id = m.id
<1> DEFINE a == [id |-> m.id, era |-> log.hostEra]
           starts == m.index = 0 /\ m.id \notin h.used
           ends == m.index = 1 /\ h.active # NoTransfer /\ h.active.id = m.id
           o == Assemble(h, m)
           s == [h EXCEPT !.active = a, !.used = h.used \cup {m.id}]
           t == [h EXCEPT !.active = NoTransfer]
<1>1. a \in Transfers /\ a.era = log.hostEra /\ m.id \in Nat
  BY DEF ChunkMessages, Transfers, ClipLogs
<1>2. h.used \cup {m.id} \in SUBSET Nat
  BY <1>1 DEF HostClipRecs
<1>3. /\ starts => o = [state |-> s, whole |-> FALSE]
      /\ ~ starts /\ ends => o = [state |-> t, whole |-> TRUE]
      /\ ~ starts /\ ~ ends => o = [state |-> t, whole |-> FALSE]
  BY DEF Assemble
<1> HIDE DEF a
<1>4. s \in HostClipRecs /\ s.clip = h.clip /\ s.hash = h.hash /\ s.image = h.image /\ s.active = a
  BY <1>1, <1>2, Zenon DEF HostClipRecs
<1>5. t \in HostClipRecs /\ t.clip = h.clip /\ t.hash = h.hash /\ t.image = h.image
      /\ t.active = NoTransfer
  BY NoTransferTyped, Zenon DEF HostClipRecs
<1> HIDE DEF o, s, t
<1>6. CASE starts
  BY <1>1, <1>3, <1>4, <1>6 DEF o
<1>7. CASE ~ starts /\ ends
  BY <1>3, <1>5, <1>7 DEF o
<1>8. CASE ~ starts /\ ~ ends
  BY <1>3, <1>5, <1>8 DEF o
<1> QED
  BY <1>6, <1>7, <1>8

\* A text or a chunk arrives at the host: nothing is written without the permission, and an
\* image only when its transfer is of the present permission.
LEMMA HostReceivesKeepsInv ==
    ASSUME ClipboardInv, NEW how \in Writes, HostReceives(how) PROVE ClipboardInv'
<1> DEFINE m == Head(toHost)
<1>1. /\ log \in ClipLogs /\ hostClip \in HostClipRecs /\ allowed \in BOOLEAN /\ ClipTyped
      /\ toHost # <<>> /\ toHost' = Tail(toHost) /\ (how # "done" => allowed)
      /\ IF m.type = "text" THEN HostTakesText(m, how) ELSE HostTakesChunk(m, how)
      /\ UNCHANGED <<system, allowed, mac, clipMonitor, poller, switch, toMac, online>>
  BY DEF ClipboardInv, ClipTyped, HostReceives
<1>2. m \in TextMessages \cup ChunkMessages /\ toHost' \in Seq(TextMessages \cup ChunkMessages)
  BY <1>1, TakenSeq DEF ClipTyped
<1>3. (m.type = "text" => m \in TextMessages) /\ (m.type # "text" => m \in ChunkMessages)
  BY <1>2 DEF TextMessages, ChunkMessages
<1> HIDE DEF m
<1> DEFINE b == IF how = "done" THEN log.mishaps ELSE log.mishaps + 1
<1>4. b \in Nat
  BY <1>1, SMT DEF ClipLogs
<1>5. CASE m.type = "text"
  <2> DEFINE h == [hostClip EXCEPT !.active = NoTransfer]
             v == IF allowed /\ how = "done" THEN m.val ELSE log.hostTalk
  <2>1. h \in HostClipRecs /\ h.clip = hostClip.clip /\ h.hash = hostClip.hash
        /\ h.image = hostClip.image
        /\ h.active = NoTransfer
    BY <1>1, NoTransferTyped, Zenon DEF HostClipRecs
  <2>2. /\ hostClip' = IF allowed THEN ApplyText(h, m.val, how) ELSE h
        /\ log' = [log EXCEPT !.mishaps = b, !.hostTalk = v]
    BY <1>1, <1>5 DEF HostTakesText
  <2>3. m.val \in ClipValues /\ v \in ClipValues
    BY <1>1, <1>3, <1>5 DEF TextMessages, ClipLogs
  <2>4. /\ log' \in ClipLogs /\ log'.hostTalk = v /\ log'.macTalk = log.macTalk
        /\ log'.hostEra = log.hostEra
        /\ log'.macEra = log.macEra /\ log'.withheld = log.withheld /\ log'.bad = log.bad
    <3> HIDE DEF b, v
    <3> QED
      BY <1>1, <1>4, <2>2, <2>3, Zenon DEF ClipLogs
  <2> HIDE DEF h, b
  <2>5. /\ hostClip' \in HostClipRecs /\ hostClip'.active = NoTransfer /\ hostClip'.hash = v
        /\ hostClip'.clip.from = "remote" =>
             /\ hostClip'.clip.kind = "text" => hostClip'.hash = hostClip'.clip.val
             /\ hostClip'.clip.kind = "image" => hostClip'.image
    <3>1. CASE ~ allowed
      BY <1>1, <2>1, <2>2, <3>1 DEF ClipboardInv, HostKnows
    <3>2. CASE allowed /\ how = "refused"
      <4>1. hostClip' = h
        BY <2>1, <2>2, <2>3, <3>2, <1>1, TextIsApplied
      <4> QED
        BY <2>1, <3>2, <4>1 DEF ClipboardInv, HostKnows
    <3>3. CASE allowed /\ how # "refused"
      <4>1. hostClip' = ApplyText(h, m.val, how)
        BY <2>2, <3>3
      <4>2. /\ hostClip' \in HostClipRecs /\ hostClip'.active = NoTransfer
            /\ hostClip'.hash = IF how = "done" THEN m.val ELSE h.hash
            /\ hostClip'.clip.kind = "text"
            /\ how = "unrecorded" => hostClip'.clip.from = "unrecorded"
            /\ how = "done" => hostClip'.clip.val = m.val
        BY <1>1, <2>1, <2>3, <3>3, <4>1, TextIsApplied
      <4>3. how = "done" \/ how = "unrecorded"
        BY <3>3 DEF Writes
      <4> QED
        BY <2>1, <3>3, <4>2, <4>3 DEF ClipboardInv, HostKnows
    <3> QED
      BY <3>1, <3>2, <3>3
  <2>6. ClipTyped'
    BY <1>1, <1>2, <2>4, <2>5 DEF ClipTyped
  <2>7. HostKnows' /\ TransferIsCurrent'
    BY <2>4, <2>5 DEF HostKnows, TransferIsCurrent, NoTransfer
  <2>8. TurnsAlternate' /\ PartIsCurrent' /\ MacKnows' /\ MonitorKnows' /\ SwitchIsDone'
        /\ ClipboardSafe'
    BY <1>1, <2>4 DEF ClipboardInv, TurnsAlternate, PartIsCurrent, MacKnows, MonitorKnows,
       SwitchIsDone,
       ClipboardSafe, Off, On, PermissionMessage
  <2> QED
    BY <2>6, <2>7, <2>8 DEF ClipboardInv
<1>6. CASE m.type # "text"
  <2> DEFINE o == Assemble(hostClip, m)
             take == allowed /\ o.whole
             counted == [log EXCEPT !.mishaps = b]
             h == [hostClip EXCEPT !.active = NoTransfer]
             torn == take /\ (hostClip.active.era # log.hostEra \/ hostClip.active.id # m.id)
  <2>1. /\ o.state \in HostClipRecs /\ o.state.clip = hostClip.clip /\ o.state.hash = hostClip.hash
        /\ o.state.image = hostClip.image
        /\ o.state.active = NoTransfer \/ o.state.active.era = log.hostEra
        /\ o.whole => hostClip.active # NoTransfer /\ hostClip.active.id = m.id
    BY <1>1, <1>3, <1>6, Assembled
  <2>2. h \in HostClipRecs /\ h.clip = hostClip.clip /\ h.hash = hostClip.hash
        /\ h.image = hostClip.image
        /\ h.active = NoTransfer
    BY <1>1, NoTransferTyped, Zenon DEF HostClipRecs
  <2>3. /\ ~ allowed => hostClip' = h
        /\ take => hostClip' = ApplyImage(o.state, how)
        /\ allowed /\ ~ take => hostClip' = o.state
        /\ log' = Note(counted, torn, "torn")
    BY <1>1, <1>6 DEF HostTakesChunk
  <2> HIDE DEF o, h, b
  <2>4. ~ torn
    BY <2>1 DEF ClipboardInv, TransferIsCurrent
  <2>5. /\ counted \in ClipLogs /\ counted.hostTalk = log.hostTalk /\ counted.macTalk = log.macTalk
        /\ counted.hostEra = log.hostEra /\ counted.macEra = log.macEra
        /\ counted.withheld = log.withheld
        /\ counted.bad = log.bad
    BY <1>1, <1>4, Zenon DEF ClipLogs
  <2>6. log' = counted
    BY <2>3, <2>4 DEF Note
  <2> HIDE DEF counted
  <2>7. /\ hostClip' \in HostClipRecs /\ hostClip'.hash = hostClip.hash
        /\ allowed /\ hostClip'.active # NoTransfer => hostClip'.active.era = log.hostEra
        /\ hostClip'.clip.from = "remote" =>
             /\ hostClip'.clip.kind = "text" => hostClip'.hash = hostClip'.clip.val
             /\ hostClip'.clip.kind = "image" => hostClip'.image
    <3>1. CASE ~ allowed
      BY <2>2, <2>3, <3>1 DEF ClipboardInv, HostKnows
    <3>2. CASE allowed /\ ~ take
      BY <2>1, <2>3, <3>2 DEF ClipboardInv, HostKnows
    <3>3. CASE take
      <4>1. hostClip' = ApplyImage(o.state, how)
        BY <2>3, <3>3
      <4>2. /\ hostClip' \in HostClipRecs /\ hostClip'.active = o.state.active
            /\ hostClip'.hash = hostClip.hash
            /\ how = "refused" => hostClip' = o.state
            /\ how = "unrecorded" => hostClip'.clip.from = "unrecorded"
            /\ how = "done" => hostClip'.image /\ hostClip'.clip.kind = "image"
        BY <2>1, <4>1, ImageIsApplied
      <4>3. how \in {"done", "refused", "unrecorded"}
        BY DEF Writes
      <4> QED
        BY <2>1, <4>2, <4>3 DEF ClipboardInv, HostKnows
    <3> QED
      BY <3>1, <3>2, <3>3
  <2>8. ClipTyped'
    BY <1>1, <1>2, <2>5, <2>6, <2>7 DEF ClipTyped
  <2>9. HostKnows' /\ TransferIsCurrent'
    BY <1>1, <2>5, <2>6, <2>7 DEF ClipboardInv, HostKnows, TransferIsCurrent, NoTransfer
  <2>10. TurnsAlternate' /\ PartIsCurrent' /\ MacKnows' /\ MonitorKnows' /\ SwitchIsDone'
         /\ ClipboardSafe'
    BY <1>1, <2>5, <2>6 DEF ClipboardInv, TurnsAlternate, PartIsCurrent, MacKnows, MonitorKnows,
       SwitchIsDone,
       ClipboardSafe, Off, On, PermissionMessage
  <2> QED
    BY <2>8, <2>9, <2>10 DEF ClipboardInv
<1> QED
  BY <1>5, <1>6

\* A message arrives at the client.
LEMMA MacReceivesKeepsInv ==
    ASSUME ClipboardInv, MacReceives PROVE ClipboardInv'
<1> DEFINE m == Head(toMac)
           torn == mac'.image # NoImage /\ mac.image = NoImage /\ mac'.image # log.macEra
           noted == [log EXCEPT !.macEra =
                      IF m.type = "permissions" THEN log.macEra + 1 ELSE log.macEra]
<1>1. /\ log \in ClipLogs /\ mac \in MacRecs /\ ClipTyped
      /\ toMac # <<>> /\ toMac' = Tail(toMac)
      /\ CASE m.type = "permissions" -> MacTakesPermissions(m)
           [] m.type = "text" -> MacTakesText(m)
           [] m.type = "chunk" -> MacTakesChunk(m)
      /\ log' = Note(noted, torn, "torn")
      /\ UNCHANGED <<system, hostClip, allowed, clipMonitor, poller, switch, toHost>> /\ online
  BY DEF ClipboardInv, ClipTyped, MacReceives
<1>2. m \in TextMessages \cup ChunkMessages \cup ToldMessages
      /\ toMac' \in Seq(TextMessages \cup ChunkMessages \cup ToldMessages)
  BY <1>1, TakenSeq DEF ClipTyped
<1>3. /\ \/ m \in TextMessages /\ m.type = "text" /\ m \notin {On, Off}
         \/ m \in ChunkMessages /\ m.type = "chunk" /\ m \notin {On, Off}
         \/ m \in ToldMessages /\ m.type = "permissions"
  BY <1>2 DEF TextMessages, ChunkMessages, ToldMessages, On, Off, PermissionMessage
<1> HIDE DEF m
<1>4. /\ noted \in ClipLogs /\ noted.hostTalk = log.hostTalk /\ noted.macTalk = log.macTalk
      /\ noted.hostEra = log.hostEra /\ noted.withheld = log.withheld /\ noted.bad = log.bad
      /\ noted.macEra = IF m.type = "permissions" THEN log.macEra + 1 ELSE log.macEra
  <2> DEFINE a == IF m.type = "permissions" THEN log.macEra + 1 ELSE log.macEra
  <2>1. log.macEra \in Nat /\ log.macEra + 1 \in Nat
    BY <1>1, SMT DEF ClipLogs
  <2>2. a \in Nat
    BY <2>1
  <2> HIDE DEF a
  <2>3. /\ noted \in ClipLogs /\ noted.hostTalk = log.hostTalk /\ noted.macTalk = log.macTalk
        /\ noted.hostEra = log.hostEra /\ noted.withheld = log.withheld /\ noted.bad = log.bad
        /\ noted.macEra = a
    <3>1. noted = [log EXCEPT !.macEra = a]
      BY DEF a
    <3> HIDE DEF noted
    <3> QED
      BY <1>1, <2>2, <3>1, Zenon DEF ClipLogs
  <2> QED
    BY <2>3 DEF a
<1> HIDE DEF noted
<1>5. /\ mac' \in MacRecs /\ mac'.on = mac.on /\ mac'.clip = mac.clip
      /\ mac'.imageSeen = mac.imageSeen
      /\ m = On => mac'.perm = TRUE
      /\ m = Off => mac'.perm = FALSE
      /\ m \notin {On, Off} => mac'.perm = mac.perm
      /\ mac'.part # NoTransfer => mac'.on /\ mac'.perm /\ mac'.part.era = noted.macEra
      /\ mac'.image \in {NoImage, mac.image, log.macEra}
      /\ online' \in BOOLEAN
  <2>1. CASE m.type = "permissions"
    <3>1. /\ m \in ToldMessages
          /\ mac' = IF m.clipboard THEN [mac EXCEPT !.perm = TRUE]
                    ELSE [mac EXCEPT !.perm = FALSE, !.part = NoTransfer, !.image = NoImage]
          /\ UNCHANGED online
      BY <1>1, <1>3, <2>1 DEF MacTakesPermissions, TextMessages, ChunkMessages
    <3>2. m.clipboard \in BOOLEAN /\ (m.clipboard => m = On /\ m # Off)
          /\ (~ m.clipboard => m = Off /\ m # On)
      BY <3>1 DEF ToldMessages, On, Off, PermissionMessage
    <3>3. CASE m.clipboard
      <4>1. ~ mac.perm
        <5>1. /\ Len(toMac) \in Nat /\ Len(toMac) > 0 /\ toMac[1] = On
          BY <1>1, <3>2, <3>3, TakenSeq DEF ClipTyped, m
        <5>2. 1 \in 1 .. Len(toMac) /\ \A k \in 1 .. Len(toMac) : ~ (k < 1)
          BY <5>1, SMT
        <5> QED
          BY <5>1, <5>2 DEF ClipboardInv, TurnsAlternate
      <4>2. mac' = [mac EXCEPT !.perm = TRUE]
        BY <3>1, <3>3
      <4>3. mac' \in MacRecs /\ mac'.on = mac.on /\ mac'.clip = mac.clip
            /\ mac'.imageSeen = mac.imageSeen
            /\ mac'.perm = TRUE /\ mac'.part = mac.part /\ mac'.image = mac.image
        BY <1>1, <4>2, Zenon DEF MacRecs
      <4>4. mac.part = NoTransfer
        BY <4>1 DEF ClipboardInv, PartIsCurrent
      <4> QED
        BY <1>1, <3>1, <3>2, <3>3, <4>3, <4>4 DEF ClipTyped
    <3>4. CASE ~ m.clipboard
      <4>1. mac' = [mac EXCEPT !.perm = FALSE, !.part = NoTransfer, !.image = NoImage]
        BY <3>1, <3>4
      <4>2. NoImage \in Int
        BY SMT DEF NoImage
      <4>3. mac' \in MacRecs /\ mac'.on = mac.on /\ mac'.clip = mac.clip
            /\ mac'.imageSeen = mac.imageSeen
            /\ mac'.perm = FALSE /\ mac'.part = NoTransfer /\ mac'.image = NoImage
        BY <1>1, <4>1, <4>2, NoTransferTyped, Zenon DEF MacRecs
      <4> QED
        BY <1>1, <3>1, <3>2, <3>4, <4>3 DEF ClipTyped
    <3> QED
      BY <3>2, <3>3, <3>4
  <2>2. CASE m.type = "text"
    <3> DEFINE v == IF mac.on /\ mac.perm THEN m.val ELSE mac.slot
    <3>1. m \in TextMessages /\ m \notin {On, Off}
      BY <1>3, <2>2
    <3>2. mac' = [mac EXCEPT !.part = NoTransfer, !.image = NoImage, !.slot = v] /\ online' = online
      BY <1>1, <2>2 DEF MacTakesText
    <3>3. v \in ClipValues
      BY <1>1, <3>1 DEF MacRecs, TextMessages
    <3>4. NoImage \in Int
      BY SMT DEF NoImage
    <3> HIDE DEF v
    <3>5. mac' \in MacRecs /\ mac'.on = mac.on /\ mac'.clip = mac.clip
          /\ mac'.imageSeen = mac.imageSeen
          /\ mac'.perm = mac.perm /\ mac'.part = NoTransfer /\ mac'.image = NoImage
      BY <1>1, <3>2, <3>3, <3>4, NoTransferTyped, Zenon DEF MacRecs
    <3> QED
      BY <1>1, <3>1, <3>2, <3>5 DEF ClipTyped
  <2>3. CASE m.type = "chunk"
    <3> DEFINE starts == mac.on /\ mac.perm /\ m.index = 0 /\ m.id > mac.latest
               ends == mac.on /\ mac.perm /\ m.index = 1 /\ mac.part # NoTransfer
                /\ mac.part.id = m.id
               a == [id |-> m.id, era |-> log.macEra]
    <3>1. m \in ChunkMessages /\ m \notin {On, Off} /\ noted.macEra = log.macEra
      BY <1>3, <1>4, <2>3
    <3>2. /\ mac' = CASE starts -> [mac EXCEPT !.latest = m.id, !.part = a]
                      [] ends -> [mac EXCEPT !.part = NoTransfer, !.image = mac.part.era]
                      [] OTHER -> mac
          /\ online' = (starts \/ ends)
      BY <1>1, <2>3 DEF MacTakesChunk
    <3>3. starts => ~ ends
      BY <3>1, SMT DEF ChunkMessages
    <3>4. CASE starts
      <4>1. a \in Transfers /\ a.era = log.macEra /\ m.id \in Nat
        BY <1>1, <3>1 DEF Transfers, ChunkMessages, ClipLogs
      <4>2. mac' = [mac EXCEPT !.latest = m.id, !.part = a]
        BY <3>2, <3>3, <3>4
      <4> HIDE DEF a
      <4>3. mac' \in MacRecs /\ mac'.on = mac.on /\ mac'.clip = mac.clip
            /\ mac'.imageSeen = mac.imageSeen
            /\ mac'.perm = mac.perm /\ mac'.part = a /\ mac'.image = mac.image
        BY <1>1, <4>1, <4>2, Zenon DEF MacRecs
      <4> QED
        BY <3>1, <3>2, <3>4, <4>1, <4>3
    <3>5. CASE ends
      <4>1. mac.part.era = log.macEra /\ log.macEra \in Int
        BY <1>1, <3>5, SMT DEF ClipboardInv, PartIsCurrent, ClipLogs
      <4>2. mac' = [mac EXCEPT !.part = NoTransfer, !.image = mac.part.era]
        BY <3>2, <3>3, <3>5
      <4>3. mac' \in MacRecs /\ mac'.on = mac.on /\ mac'.clip = mac.clip
            /\ mac'.imageSeen = mac.imageSeen
            /\ mac'.perm = mac.perm /\ mac'.part = NoTransfer /\ mac'.image = mac.part.era
        BY <1>1, <4>1, <4>2, NoTransferTyped, Zenon DEF MacRecs
      <4> QED
        BY <3>1, <3>2, <4>1, <4>3
    <3>6. CASE ~ starts /\ ~ ends
      <4>1. mac' = mac
        BY <3>2, <3>6
      <4> QED
        BY <1>1, <3>1, <3>2, <4>1 DEF ClipboardInv, PartIsCurrent
    <3> QED
      BY <3>4, <3>5, <3>6
  <2> QED
    BY <1>3, <2>1, <2>2, <2>3
<1>6. ~ torn \/ mac'.image = log.macEra
  BY <1>5
<1>7. log' = noted
  BY <1>1, <1>6 DEF Note
<1>8. ClipTyped'
  BY <1>1, <1>2, <1>4, <1>5, <1>7 DEF ClipTyped
<1>9. TurnsAlternate'
  BY <1>1, <1>5, TakingTurns DEF ClipboardInv, m
<1>10. HostKnows' /\ TransferIsCurrent' /\ PartIsCurrent'
  BY <1>1, <1>4, <1>5, <1>7 DEF ClipboardInv, HostKnows, TransferIsCurrent, PartIsCurrent,
     NoTransfer
<1>11. MacKnows' /\ MonitorKnows' /\ SwitchIsDone' /\ ClipboardSafe'
  BY <1>1, <1>4, <1>5, <1>7 DEF ClipboardInv, MacKnows, MonitorKnows, SwitchIsDone, ClipboardSafe
<1> QED
  BY <1>8, <1>9, <1>10, <1>11 DEF ClipboardInv

\* A new connection: new clipboard objects, no permission until the host tells it.
LEMMA ReconnectKeepsInv ==
    ASSUME ClipboardInv, Reconnect PROVE ClipboardInv'
<1> DEFINE e == [hostClip.clip EXCEPT !.from = "local", !.fresh = FALSE]
           S == TextMessages \cup ChunkMessages \cup ToldMessages
           a == log.toggles + 1
<1>1. /\ log \in ClipLogs /\ mac \in MacRecs /\ hostClip \in HostClipRecs /\ allowed \in BOOLEAN
      /\ online' = TRUE /\ hostClip' = NewHostClip(e)
      /\ mac' = [mac EXCEPT !.perm = FALSE, !.latest = 0, !.part = NoTransfer]
      /\ toHost' = <<>> /\ toMac' = <<PermissionMessage(allowed)>>
      /\ log' = [log EXCEPT !.hostTalk = Nil, !.toggles = a]
      /\ UNCHANGED <<system, allowed, clipMonitor, poller, switch>>
  BY DEF ClipboardInv, ClipTyped, Reconnect
<1>2. e \in EntryRecs /\ e.from = "local"
  <2>1. hostClip.clip \in EntryRecs
    BY <1>1 DEF HostClipRecs
  <2> QED
    BY <2>1, Zenon DEF EntryRecs
<1> HIDE DEF e
<1>3. /\ hostClip' \in HostClipRecs /\ hostClip'.clip = e /\ hostClip'.hash = Nil
      /\ hostClip'.active = NoTransfer
  <2>1. e.count \in Nat /\ Nil \in ClipValues /\ 0 \in Nat /\ {} \in SUBSET Nat
    BY <1>2, SMT DEF EntryRecs, ClipValues
  <2>2. hostClip' = [clip |-> e, seen |-> e.count, wrote |-> Nil, recent |-> FALSE, hash |-> Nil,
                     image |-> FALSE, active |-> NoTransfer, used |-> {}, nextId |-> 0]
    BY <1>1 DEF NewHostClip
  <2> QED
    BY <1>2, <2>1, <2>2, NoTransferTyped, Zenon DEF HostClipRecs
<1>4. /\ mac' \in MacRecs /\ mac'.on = mac.on /\ mac'.clip = mac.clip
      /\ mac'.imageSeen = mac.imageSeen
      /\ mac'.perm = FALSE /\ mac'.part = NoTransfer
  <2>1. 0 \in Nat
    BY SMT
  <2> QED
    BY <1>1, <2>1, NoTransferTyped, Zenon DEF MacRecs
<1>5. /\ log' \in ClipLogs /\ log'.hostTalk = Nil /\ log'.macTalk = log.macTalk
      /\ log'.hostEra = log.hostEra
      /\ log'.macEra = log.macEra /\ log'.withheld = log.withheld /\ log'.bad = log.bad
  <2>1. a \in Nat /\ Nil \in ClipValues
    BY <1>1, SMT DEF ClipLogs, ClipValues
  <2> HIDE DEF a
  <2> QED
    BY <1>1, <2>1, Zenon DEF ClipLogs
<1>6. PermissionMessage(allowed) \in S /\ (allowed => PermissionMessage(allowed) # Off)
      /\ (~ allowed => PermissionMessage(allowed) # On)
  BY <1>1 DEF PermissionMessage, ToldMessages, On, Off
<1>7. ClipTyped'
  <2>1. toMac' \in Seq(S) /\ toHost' \in Seq(TextMessages \cup ChunkMessages)
    <3> HIDE DEF S
    <3> QED
      BY <1>1, <1>6, EmptySeq, SMT
  <2> QED
    BY <1>1, <1>3, <1>4, <1>5, <2>1 DEF ClipboardInv, ClipTyped
<1>8. TurnsAlternate'
  <2>1. Len(toMac') = 1 /\ toMac'[1] = PermissionMessage(allowed)
    BY <1>1
  <2>2. On' = On
    BY DEF On, PermissionMessage
  <2>3. \A i \in 1 .. 1 : i = 1
    BY SMT
  <2>4. ~ (1 < 1)
    BY SMT
  <2>5. ~ mac'.perm
    BY <1>4
  <2>6. ~ allowed' => \A i \in 1 .. 1 : toMac'[i] # On'
    BY <1>1, <1>6, <2>1, <2>2, <2>3
  <2>7. \A i, j \in 1 .. 1 : ~ (i < j)
    BY <2>3, <2>4
  <2> QED
    BY <2>1, <2>5, <2>6, <2>7 DEF TurnsAlternate
<1>9. HostKnows' /\ TransferIsCurrent' /\ PartIsCurrent'
  BY <1>2, <1>3, <1>4, <1>5 DEF HostKnows, TransferIsCurrent, PartIsCurrent, NoTransfer
<1>10. MacKnows' /\ MonitorKnows' /\ SwitchIsDone' /\ ClipboardSafe'
  BY <1>1, <1>4, <1>5 DEF ClipboardInv, MacKnows, MonitorKnows, SwitchIsDone, ClipboardSafe
<1> QED
  BY <1>7, <1>8, <1>9, <1>10 DEF ClipboardInv

\* The values of an empty entry.
LEMMA NothingCopied ==
    /\ Empty(0) \in EntryRecs /\ Empty(0).kind = "none" /\ Empty(0).from = "local"
    /\ Empty(0).count = 0
    /\ ~ Empty(0).fresh
BY SMT DEF Empty, EntryRecs, ClipValues

\* The monitor's poll: a change that is not its own write and no secret is sent, unless it is
\* the text it dealt with last.
LEMMA MonitorPollsKeepsInv ==
    ASSUME ClipboardInv, MonitorPolls PROVE ClipboardInv'
<1> DEFINE clip == mac.clip
           echo == clipMonitor.written = clip.count
           changed == ~ echo /\ clip.count # clipMonitor.last
           plain == changed /\ ~ clip.secret /\ clip.kind = "text"
           sends == plain /\ clipMonitor.hash # clip.val
           lost == clip.fresh /\ (echo \/ (plain /\ ~ sends
            /\ clip.val \notin {log.macTalk} \cup log.withheld))
           w == IF echo THEN -1 ELSE clipMonitor.written
           v == IF sends THEN clip.val ELSE clipMonitor.hash
           e == IF sends THEN clip ELSE Empty(0)
<1>1. /\ log \in ClipLogs /\ mac \in MacRecs /\ clipMonitor \in MonitorRecs
      /\ clipMonitor.live /\ clipMonitor.sending = Empty(0)
      /\ clipMonitor' = [clipMonitor EXCEPT !.last = clip.count, !.written = w, !.hash = v,
         !.sending = e]
      /\ log' = Note(log, lost, "swallowed")
      /\ UNCHANGED <<system, hostClip, allowed, mac, poller, switch, toHost, toMac, online>>
  BY DEF ClipboardInv, ClipTyped, MonitorPolls
<1>2. clip \in EntryRecs /\ clip.count \in Nat
  BY <1>1 DEF MacRecs, EntryRecs
<1>3. ~ lost
  BY <1>1 DEF ClipboardInv, MacKnows, MonitorKnows
<1>4. log' = log
  BY <1>1, <1>3 DEF Note
<1>5. /\ sends => clip.kind = "text" /\ clip.from # "remote" /\ ~ clip.secret /\ clip # Empty(0)
      /\ w \in Int /\ v \in ClipValues /\ e \in EntryRecs /\ (w # clip.count \/ ~ clip.fresh)
         /\ w <= clip.count
  <2>1. sends => clip.kind = "text" /\ clip.from # "remote" /\ ~ clip.secret
    BY DEF ClipboardInv, MacKnows
  <2>2. sends => clip # Empty(0)
    BY <2>1, NothingCopied
  <2>3. clipMonitor.written \in Int /\ clipMonitor.written <= clip.count
        /\ clipMonitor.hash \in ClipValues
    BY <1>1 DEF ClipboardInv, MacKnows, MonitorRecs
  <2>4. w \in Int /\ w <= clip.count /\ w # clip.count
    <3>1. -1 \in Int /\ -1 <= clip.count /\ -1 # clip.count
      BY <1>2, SMT
    <3> QED
      BY <2>3, <3>1
  <2>5. v \in ClipValues /\ e \in EntryRecs
    BY <1>2, <2>3, NothingCopied DEF EntryRecs
  <2> QED
    BY <2>1, <2>2, <2>4, <2>5
<1> HIDE DEF w, v, e
<1>6. /\ clipMonitor' \in MonitorRecs /\ clipMonitor'.last = clip.count /\ clipMonitor'.written = w
      /\ clipMonitor'.hash = v /\ clipMonitor'.sending = e /\ clipMonitor'.live = clipMonitor.live
  BY <1>1, <1>2, <1>5, Zenon DEF MonitorRecs
<1>7. ClipTyped'
  BY <1>1, <1>4, <1>6 DEF ClipboardInv, ClipTyped
<1>8. MacKnows'
  BY <1>1, <1>5, <1>6 DEF ClipboardInv, MacKnows
<1>9. MonitorKnows'
  <2>1. CASE sends
    <3>1. e = clip /\ v = clip.val /\ clip # Empty(0)
      BY <1>5, <2>1 DEF e, v
    <3>2. Empty(0)' = Empty(0)
      BY DEF Empty
    <3> QED
      BY <1>1, <1>4, <1>5, <1>6, <2>1, <3>1, <3>2 DEF MonitorKnows
  <2>2. CASE ~ sends
    <3>1. e = Empty(0) /\ v = clipMonitor.hash
      BY <2>2 DEF e, v
    <3>2. Empty(0)' = Empty(0)
      BY DEF Empty
    <3> QED
      BY <1>1, <1>4, <1>6, <3>1, <3>2 DEF ClipboardInv, MonitorKnows
  <2> QED
    BY <2>1, <2>2
<1>10. SwitchIsDone'
  BY <1>1, <1>6 DEF ClipboardInv, SwitchIsDone
<1>11. HostKnows' /\ TransferIsCurrent' /\ TurnsAlternate' /\ PartIsCurrent' /\ ClipboardSafe'
  BY <1>1, <1>4 DEF ClipboardInv, HostKnows, TransferIsCurrent, TurnsAlternate, PartIsCurrent,
     ClipboardSafe,
     Off, On, PermissionMessage
<1> QED
  BY <1>7, <1>8, <1>9, <1>10, <1>11 DEF ClipboardInv

\* The callback: what it sends is no secret and no echo, and it runs only while the switch is
\* on or on its way.
LEMMA MonitorSendsKeepsInv ==
    ASSUME ClipboardInv, MonitorSends PROVE ClipboardInv'
<1> DEFINE clip == clipMonitor.sending
           sends == mac.perm /\ online
           noted == [log EXCEPT !.macTalk = clip.val]
           late == switch.at = "idle" /\ ~ mac.on
           w == log.withheld \cup {clip.val}
<1>1. /\ log \in ClipLogs /\ mac \in MacRecs /\ clipMonitor \in MonitorRecs /\ clip # Empty(0)
      /\ ClipTyped
      /\ clipMonitor' = [clipMonitor EXCEPT !.sending = Empty(0)]
      /\ toHost' = IF sends THEN Append(toHost, TextMessage(clip.val)) ELSE toHost
      /\ log' = IF sends THEN Note(SentLog(noted, clip), late,
         "late") ELSE [log EXCEPT !.withheld = w]
      /\ UNCHANGED <<system, hostClip, allowed, mac, poller, switch, toMac, online>>
  BY DEF ClipboardInv, ClipTyped, MonitorSends
<1>2. clip \in EntryRecs /\ clip.val \in ClipValues
  BY <1>1 DEF MonitorRecs, EntryRecs
<1>3. ~ late /\ clip.from # "remote" /\ ~ clip.secret
  BY <1>1 DEF ClipboardInv, SwitchIsDone, MonitorKnows
<1>4. /\ clipMonitor' \in MonitorRecs /\ clipMonitor'.sending = Empty(0)
      /\ clipMonitor'.last = clipMonitor.last
      /\ clipMonitor'.written = clipMonitor.written /\ clipMonitor'.hash = clipMonitor.hash
      /\ clipMonitor'.live = clipMonitor.live
  BY <1>1, NothingCopied, Zenon DEF MonitorRecs
<1>5. /\ log' \in ClipLogs /\ log'.hostTalk = log.hostTalk /\ log'.hostEra = log.hostEra
      /\ log'.macEra = log.macEra /\ log'.bad = log.bad
      /\ log.withheld \subseteq log'.withheld /\ clip.val \in {log'.macTalk} \cup log'.withheld
  <2>1. CASE sends
    <3>1. log' = noted
      BY <1>1, <1>3, <2>1 DEF Note, SentLog
    <3> HIDE DEF clip
    <3> QED
      BY <1>1, <1>2, <3>1, Zenon DEF ClipLogs
  <2>2. CASE ~ sends
    <3>1. log' = [log EXCEPT !.withheld = w]
      BY <1>1, <2>2
    <3>2. w \in SUBSET ClipValues
      BY <1>1, <1>2 DEF ClipLogs
    <3> HIDE DEF w
    <3>3. /\ log' \in ClipLogs /\ log'.hostTalk = log.hostTalk /\ log'.hostEra = log.hostEra
          /\ log'.macEra = log.macEra /\ log'.bad = log.bad /\ log'.withheld = w
      BY <1>1, <3>1, <3>2, Zenon DEF ClipLogs
    <3> QED
      BY <3>3 DEF w
  <2> QED
    BY <2>1, <2>2
<1>6. toHost' \in Seq(TextMessages \cup ChunkMessages)
  <2>1. TextMessage(clip.val) \in TextMessages
    BY <1>2 DEF TextMessage, TextMessages
  <2>2. CASE sends
    BY <1>1, <2>1, <2>2, AppendProperties DEF ClipTyped
  <2> QED
    BY <1>1, <2>2 DEF ClipTyped
<1>7. ClipTyped'
  BY <1>1, <1>4, <1>5, <1>6 DEF ClipTyped
<1>8. MonitorKnows'
  <2>1. clipMonitor.hash \in {clip.val} \cup log.withheld
    BY <1>1 DEF ClipboardInv, MonitorKnows
  <2>2. Empty(0)' = Empty(0)
    BY DEF Empty
  <2> QED
    BY <1>4, <1>5, <2>1, <2>2 DEF MonitorKnows
<1>9. MacKnows' /\ SwitchIsDone'
  <2>1. Empty(0)' = Empty(0)
    BY DEF Empty
  <2> QED
    BY <1>1, <1>4, <2>1 DEF ClipboardInv, MacKnows, SwitchIsDone
<1>10. HostKnows' /\ TransferIsCurrent' /\ TurnsAlternate' /\ PartIsCurrent' /\ ClipboardSafe'
  BY <1>1, <1>5 DEF ClipboardInv, HostKnows, TransferIsCurrent, TurnsAlternate, PartIsCurrent,
     ClipboardSafe,
     Off, On, PermissionMessage
<1> QED
  BY <1>7, <1>8, <1>9, <1>10 DEF ClipboardInv

\* set_client_clipboard: a transfer ends with the switch, and no monitor outlives it.
LEMMA SwitchKeepsInv ==
    ASSUME ClipboardInv, SwitchBegins \/ SwitchShell \/ SwitchStops \/ SwitchStarts
           \/ SwitchPublishes
    PROVE  ClipboardInv'
<1>1. /\ log \in ClipLogs /\ mac \in MacRecs /\ clipMonitor \in MonitorRecs
      /\ switch \in SwitchRecs /\ ClipTyped
      /\ UNCHANGED <<system, hostClip, allowed, poller, toHost, toMac, online>>
  BY DEF ClipboardInv, ClipTyped, SwitchBegins, SwitchShell, SwitchStops, SwitchStarts,
     SwitchPublishes
<1>2. Empty(0)' = Empty(0)
  BY DEF Empty
<1>3. CASE SwitchBegins
  <2> DEFINE a == log.toggles + 1
             b == log.macEra + 1
  <2>1. /\ switch.at = "idle" /\ mac' = SessionSwitch(~ mac.on)
        /\ switch' = [at |-> "shell", want |-> ~ mac.on]
        /\ log' = [log EXCEPT !.toggles = a, !.macEra = b] /\ UNCHANGED clipMonitor
    BY <1>3 DEF SwitchBegins
  <2>2. a \in Nat /\ b \in Nat
    BY <1>1, SMT DEF ClipLogs
  <2>3. /\ log' \in ClipLogs /\ log'.hostTalk = log.hostTalk /\ log'.macTalk = log.macTalk
        /\ log'.hostEra = log.hostEra /\ log'.withheld = log.withheld /\ log'.bad = log.bad
    <3> HIDE DEF a, b
    <3> QED
      BY <1>1, <2>1, <2>2, Zenon DEF ClipLogs
  <2>4. /\ mac' \in MacRecs /\ mac'.on = ~ mac.on /\ mac'.clip = mac.clip
        /\ mac'.imageSeen = mac.imageSeen
        /\ mac'.perm = mac.perm /\ mac'.part = NoTransfer
    <3>1. CASE mac.on
      <4>1. mac' = [mac EXCEPT !.on = FALSE, !.part = NoTransfer, !.image = NoImage]
        BY <2>1, <3>1 DEF SessionSwitch
      <4>2. NoImage \in Int
        BY SMT DEF NoImage
      <4>3. /\ mac' \in MacRecs /\ mac'.on = FALSE /\ mac'.clip = mac.clip
            /\ mac'.imageSeen = mac.imageSeen
            /\ mac'.perm = mac.perm /\ mac'.part = NoTransfer
        BY <1>1, <4>1, <4>2, NoTransferTyped, Zenon DEF MacRecs
      <4> QED
        BY <3>1, <4>3
    <3>2. CASE ~ mac.on
      <4>1. mac' = [mac EXCEPT !.on = TRUE]
        BY <2>1, <3>2 DEF SessionSwitch
      <4>2. /\ mac' \in MacRecs /\ mac'.on = TRUE /\ mac'.clip = mac.clip
            /\ mac'.imageSeen = mac.imageSeen
            /\ mac'.perm = mac.perm /\ mac'.part = mac.part
        BY <1>1, <4>1, Zenon DEF MacRecs
      <4>3. mac.part = NoTransfer
        BY <3>2 DEF ClipboardInv, PartIsCurrent
      <4> QED
        BY <3>2, <4>2, <4>3
    <3> QED
      BY <3>1, <3>2
  <2>5. switch' \in SwitchRecs /\ switch'.at = "shell" /\ switch'.want = mac'.on
    <3>1. (~ mac.on) \in BOOLEAN
      OBVIOUS
    <3> QED
      BY <2>1, <2>4, <3>1 DEF SwitchRecs
  <2>6. ClipTyped'
    BY <1>1, <2>1, <2>3, <2>4, <2>5 DEF ClipTyped
  <2>7. PartIsCurrent' /\ MacKnows' /\ MonitorKnows' /\ SwitchIsDone'
    BY <1>1, <1>2, <2>1, <2>3, <2>4, <2>5 DEF ClipboardInv, PartIsCurrent, MacKnows, MonitorKnows,
       SwitchIsDone, NoTransfer
  <2>8. HostKnows' /\ TransferIsCurrent' /\ TurnsAlternate' /\ ClipboardSafe'
    BY <1>1, <2>3, <2>4 DEF ClipboardInv, HostKnows, TransferIsCurrent, TurnsAlternate,
       ClipboardSafe, Off, On, PermissionMessage
  <2> QED
    BY <2>6, <2>7, <2>8 DEF ClipboardInv
<1>4. CASE SwitchShell
  <2>1. /\ switch.at = "shell" /\ mac' = [mac EXCEPT !.shellOn = switch.want]
        /\ switch' = [switch EXCEPT !.at = "stop"] /\ UNCHANGED <<clipMonitor, log>>
    BY <1>4 DEF SwitchShell
  <2>2. switch' \in SwitchRecs /\ switch'.at = "stop" /\ switch'.want = switch.want
        /\ switch.want \in BOOLEAN
    BY <1>1, <2>1, Zenon DEF SwitchRecs
  <2>3. /\ mac' \in MacRecs /\ mac'.on = mac.on /\ mac'.clip = mac.clip
        /\ mac'.imageSeen = mac.imageSeen
        /\ mac'.perm = mac.perm /\ mac'.part = mac.part
    BY <1>1, <2>1, <2>2, Zenon DEF MacRecs
  <2>4. ClipTyped'
    BY <1>1, <2>1, <2>2, <2>3 DEF ClipTyped
  <2>5. PartIsCurrent' /\ MacKnows' /\ MonitorKnows' /\ SwitchIsDone'
    BY <1>1, <1>2, <2>1, <2>2, <2>3 DEF ClipboardInv, PartIsCurrent, MacKnows, MonitorKnows,
       SwitchIsDone, NoTransfer
  <2>6. HostKnows' /\ TransferIsCurrent' /\ TurnsAlternate' /\ ClipboardSafe'
    BY <1>1, <2>1, <2>3 DEF ClipboardInv, HostKnows, TransferIsCurrent, TurnsAlternate,
       ClipboardSafe, Off, On, PermissionMessage
  <2> QED
    BY <2>4, <2>5, <2>6 DEF ClipboardInv
<1>5. CASE SwitchStops \/ SwitchStarts \/ SwitchPublishes
  <2>1. UNCHANGED <<mac, log>>
    BY <1>5 DEF SwitchStops, SwitchStarts, SwitchPublishes
  <2>2. /\ clipMonitor' \in MonitorRecs /\ switch' \in SwitchRecs
        /\ \/ clipMonitor'.last = mac.clip.count /\ clipMonitor'.written = -1
              /\ clipMonitor'.hash = Nil
              /\ clipMonitor'.sending = Empty(0)
           \/ clipMonitor'.last = clipMonitor.last /\ clipMonitor'.written = clipMonitor.written
              /\ clipMonitor'.hash = clipMonitor.hash /\ clipMonitor'.sending = clipMonitor.sending
        /\ SwitchIsDone'
    <3>1. CASE SwitchStops
      <4> DEFINE p == IF switch.want THEN "start" ELSE "idle"
      <4>1. /\ switch.at = "stop" /\ clipMonitor.sending = Empty(0)
            /\ clipMonitor' = [clipMonitor EXCEPT !.live = FALSE, !.published = FALSE]
            /\ switch' = [switch EXCEPT !.at = p]
        BY <3>1 DEF SwitchStops
      <4>2. p \in {"start", "idle"} /\ (p = "start" <=> switch.want)
        BY <1>1 DEF SwitchRecs
      <4> HIDE DEF p
      <4>3. switch' \in SwitchRecs /\ switch'.at = p /\ switch'.want = switch.want
        BY <1>1, <4>1, <4>2, Zenon DEF SwitchRecs
      <4>4. /\ clipMonitor' \in MonitorRecs /\ clipMonitor'.last = clipMonitor.last
            /\ clipMonitor'.live = FALSE
            /\ clipMonitor'.written = clipMonitor.written /\ clipMonitor'.hash = clipMonitor.hash
            /\ clipMonitor'.sending = clipMonitor.sending
        BY <1>1, <4>1, Zenon DEF MonitorRecs
      <4>5. switch.want = mac.on
        BY <4>1 DEF ClipboardInv, SwitchIsDone
      <4> QED
        BY <1>2, <2>1, <4>1, <4>2, <4>3, <4>4, <4>5 DEF SwitchIsDone
    <3>2. CASE SwitchStarts
      <4>1. /\ switch.at = "start" /\ switch' = [switch EXCEPT !.at = "publish"]
            /\ clipMonitor' = [live |-> TRUE, published |-> FALSE, last |-> mac.clip.count,
               written |-> -1,
                               hash |-> Nil, sending |-> Empty(0)]
        BY <3>2 DEF SwitchStarts
      <4>2. switch' \in SwitchRecs /\ switch'.at = "publish" /\ switch'.want = switch.want
        BY <1>1, <4>1, Zenon DEF SwitchRecs
      <4>3. mac.clip.count \in Nat /\ -1 \in Int /\ Nil \in ClipValues
        BY <1>1, SMT DEF MacRecs, EntryRecs, ClipValues
      <4>4. /\ clipMonitor' \in MonitorRecs /\ clipMonitor'.last = mac.clip.count
            /\ clipMonitor'.written = -1
            /\ clipMonitor'.hash = Nil /\ clipMonitor'.sending = Empty(0)
        BY <4>1, <4>3, NothingCopied, Zenon DEF MonitorRecs
      <4>5. switch.want = mac.on /\ switch.want
        BY <4>1 DEF ClipboardInv, SwitchIsDone
      <4> QED
        BY <2>1, <4>2, <4>4, <4>5 DEF SwitchIsDone
    <3>3. CASE SwitchPublishes
      <4>1. /\ switch.at = "publish" /\ switch' = [switch EXCEPT !.at = "idle"]
            /\ clipMonitor' = [clipMonitor EXCEPT !.published = TRUE]
        BY <3>3 DEF SwitchPublishes
      <4>2. switch' \in SwitchRecs /\ switch'.at = "idle"
        BY <1>1, <4>1, Zenon DEF SwitchRecs
      <4>3. /\ clipMonitor' \in MonitorRecs /\ clipMonitor'.last = clipMonitor.last
            /\ clipMonitor'.written = clipMonitor.written /\ clipMonitor'.hash = clipMonitor.hash
            /\ clipMonitor'.sending = clipMonitor.sending
        BY <1>1, <4>1, Zenon DEF MonitorRecs
      <4>4. mac.on
        BY <4>1 DEF ClipboardInv, SwitchIsDone
      <4> QED
        BY <2>1, <4>2, <4>3, <4>4 DEF SwitchIsDone
    <3> QED
      BY <1>5, <3>1, <3>2, <3>3
  <2>3. ClipTyped'
    BY <1>1, <2>1, <2>2 DEF ClipTyped
  <2>4. mac.clip.count \in Nat /\ -1 <= mac.clip.count /\ -1 # mac.clip.count
    BY <1>1, SMT DEF MacRecs, EntryRecs
  <2>5. MacKnows'
    BY <1>1, <2>1, <2>2, <2>4 DEF ClipboardInv, MacKnows
  <2>6. MonitorKnows'
    BY <1>2, <2>1, <2>2 DEF ClipboardInv, MonitorKnows
  <2>7. HostKnows' /\ TransferIsCurrent' /\ TurnsAlternate' /\ PartIsCurrent' /\ ClipboardSafe'
    BY <1>1, <2>1 DEF ClipboardInv, HostKnows, TransferIsCurrent, TurnsAlternate, PartIsCurrent,
       ClipboardSafe,
       Off, On, PermissionMessage
  <2> QED
    BY <2>2, <2>3, <2>5, <2>6, <2>7 DEF ClipboardInv
<1> QED
  BY <1>3, <1>4, <1>5

\* The steps of a poll that touch neither the clipboard nor the history: the image and the text
\* are taken, a chunk is sent.
LEMMA PollTakesKeepsInv ==
    ASSUME ClipboardInv, PollBegins \/ PollSendsChunk \/ PollDrains PROVE ClipboardInv'
<1>1. /\ mac \in MacRecs /\ poller \in PollerRecs /\ ClipTyped
      /\ UNCHANGED <<system, hostClip, allowed, clipMonitor, switch, toMac, online, log>>
  BY DEF ClipboardInv, ClipTyped, PollBegins, PollSendsChunk, PollDrains
<1>2. /\ mac' \in MacRecs /\ mac'.on = mac.on /\ mac'.clip = mac.clip
      /\ mac'.imageSeen = mac.imageSeen
      /\ mac'.perm = mac.perm /\ mac'.part = mac.part
      /\ poller' \in PollerRecs /\ (poller'.at = "apply" => poller'.text # Nil)
      /\ toHost' \in Seq(TextMessages \cup ChunkMessages)
  <2>1. CASE PollBegins
    <3> DEFINE p == IF Images THEN "exchange" ELSE "drain"
               i == IF Images THEN mac.image ELSE NoImage
    <3>1. /\ poller' = [poller EXCEPT !.at = p, !.enabled = mac.shellOn, !.image = i]
          /\ mac' = IF Images THEN [mac EXCEPT !.image = NoImage] ELSE mac
          /\ toHost' = toHost
      BY <2>1 DEF PollBegins
    <3>2. p \in {"exchange", "drain"} /\ mac.shellOn \in BOOLEAN /\ NoImage \in Int
          /\ mac.image \in Int
      BY <1>1, SMT DEF MacRecs, NoImage
    <3>3. i \in Int
      BY <3>2
    <3> HIDE DEF p, i
    <3>4. poller' \in PollerRecs /\ poller'.at = p
      BY <1>1, <3>1, <3>2, <3>3, Zenon DEF PollerRecs
    <3>5. CASE Images
      <4>1. mac' = [mac EXCEPT !.image = NoImage]
        BY <3>1, <3>5
      <4>2. /\ mac' \in MacRecs /\ mac'.on = mac.on /\ mac'.clip = mac.clip
            /\ mac'.imageSeen = mac.imageSeen
            /\ mac'.perm = mac.perm /\ mac'.part = mac.part
        BY <1>1, <3>2, <4>1, Zenon DEF MacRecs
      <4> QED
        BY <1>1, <3>1, <3>2, <3>4, <4>2 DEF ClipTyped
    <3>6. CASE ~ Images
      BY <1>1, <3>1, <3>2, <3>4, <3>6 DEF ClipTyped
    <3> QED
      BY <3>5, <3>6
  <2>2. CASE PollSendsChunk
    <3> DEFINE sends == mac.on /\ mac.perm /\ online
               more == sends /\ poller.next = 0
               p == IF more THEN "chunk" ELSE "drain"
               n == IF more THEN 1 ELSE 0
               c == Chunk(mac.sequence, poller.next)
    <3>1. /\ toHost' = IF sends THEN Append(toHost, c) ELSE toHost
          /\ poller' = [poller EXCEPT !.at = p, !.next = n] /\ mac' = mac
      BY <2>2 DEF PollSendsChunk
    <3>2. p \in {"chunk", "drain"} /\ n \in {0, 1}
      OBVIOUS
    <3> HIDE DEF p, n
    <3>3. poller' \in PollerRecs /\ poller'.at = p
      BY <1>1, <3>1, <3>2, Zenon DEF PollerRecs
    <3>4. c \in ChunkMessages
      <4>1. mac.sequence \in Nat /\ poller.next \in {0, 1}
        BY <1>1 DEF MacRecs, PollerRecs
      <4> QED
        BY <4>1 DEF Chunk, ChunkMessages
    <3>5. toHost' \in Seq(TextMessages \cup ChunkMessages)
      <4>1. CASE sends
        BY <1>1, <3>1, <3>4, <4>1, AppendProperties DEF ClipTyped
      <4> QED
        BY <1>1, <3>1, <4>1 DEF ClipTyped
    <3> QED
      BY <1>1, <3>1, <3>2, <3>3, <3>5
  <2>3. CASE PollDrains
    <3>1. /\ mac' = [mac EXCEPT !.slot = Nil] /\ toHost' = toHost
          /\ poller' = IF mac.slot # Nil
             /\ mac.shellOn THEN [poller EXCEPT !.at = "apply", !.text = mac.slot]
                       ELSE [poller EXCEPT !.at = "idle"]
      BY <2>3 DEF PollDrains
    <3>2. Nil \in ClipValues /\ mac.slot \in ClipValues
      BY <1>1 DEF MacRecs, ClipValues
    <3>3. /\ mac' \in MacRecs /\ mac'.on = mac.on /\ mac'.clip = mac.clip
          /\ mac'.imageSeen = mac.imageSeen
          /\ mac'.perm = mac.perm /\ mac'.part = mac.part
      BY <1>1, <3>1, <3>2, Zenon DEF MacRecs
    <3>4. poller' \in PollerRecs /\ (poller'.at = "apply" => poller'.text # Nil)
      <4>1. CASE mac.slot # Nil /\ mac.shellOn
        <5>1. poller' = [poller EXCEPT !.at = "apply", !.text = mac.slot]
          BY <3>1, <4>1
        <5>2. poller' \in PollerRecs /\ poller'.text = mac.slot
          BY <1>1, <3>2, <5>1, Zenon DEF PollerRecs
        <5> QED
          BY <4>1, <5>2
      <4>2. CASE ~ (mac.slot # Nil /\ mac.shellOn)
        <5>1. poller' = [poller EXCEPT !.at = "idle"]
          BY <3>1, <4>2
        <5>2. poller' \in PollerRecs /\ poller'.at = "idle"
          BY <1>1, <5>1, Zenon DEF PollerRecs
        <5> QED
          BY <5>2
      <4> QED
        BY <4>1, <4>2
    <3> QED
      BY <1>1, <3>1, <3>3, <3>4 DEF ClipTyped
  <2> QED
    BY <2>1, <2>2, <2>3
<1>3. ClipTyped'
  BY <1>1, <1>2 DEF ClipTyped
<1>4. MacKnows' /\ PartIsCurrent' /\ SwitchIsDone'
  BY <1>1, <1>2 DEF ClipboardInv, MacKnows, PartIsCurrent, SwitchIsDone, Empty, NoTransfer
<1>5. HostKnows' /\ TransferIsCurrent' /\ TurnsAlternate' /\ MonitorKnows' /\ ClipboardSafe'
  BY <1>1, <1>2 DEF ClipboardInv, HostKnows, TransferIsCurrent, TurnsAlternate, MonitorKnows,
     ClipboardSafe,
     Empty, Off, On, PermissionMessage
<1> QED
  BY <1>3, <1>4, <1>5 DEF ClipboardInv

\* ImageClipboard::exchange: the image it wrote is the one it has seen, so it is not sent.
LEMMA PollExchangesKeepsInv ==
    ASSUME ClipboardInv, NEW due \in BOOLEAN, PollExchanges(due) PROVE ClipboardInv'
<1> DEFINE open == poller.enabled /\ mac.perm
           writes == open /\ poller.image # NoImage
           e == Entry("image", "img", "remote", mac.clip.count + 1, FALSE)
           clip == IF writes THEN e ELSE mac.clip
           seen == IF writes \/ ~ open THEN clip.count ELSE mac.imageSeen
           polls == open /\ due
           sends == polls /\ seen # clip.count /\ ~ clip.secret /\ clip.kind = "image" /\ mac.on
           stamp == IF polls THEN clip.count ELSE seen
           q == IF sends THEN mac.sequence + 1 ELSE mac.sequence
           p == IF sends THEN "chunk" ELSE "drain"
<1>1. /\ log \in ClipLogs /\ mac \in MacRecs /\ poller \in PollerRecs
      /\ clipMonitor \in MonitorRecs /\ ClipTyped
      /\ mac' = [mac EXCEPT !.clip = clip, !.imageSeen = stamp, !.sequence = q]
      /\ poller' = [poller EXCEPT !.at = p, !.image = NoImage, !.next = 0]
      /\ log' = IF sends THEN SentLog(log, clip) ELSE log
      /\ UNCHANGED <<system, hostClip, allowed, clipMonitor, switch, toHost, toMac, online>>
  BY DEF ClipboardInv, ClipTyped, PollExchanges
<1>2. /\ mac.clip \in EntryRecs /\ mac.clip.count \in Nat /\ mac.clip.count + 1 \in Nat
      /\ mac.imageSeen \in Nat
      /\ mac.sequence \in Nat /\ mac.sequence + 1 \in Nat
      /\ mac.clip.count <= mac.clip.count + 1 /\ clipMonitor.written \in Int
  BY <1>1, SMT DEF MacRecs, EntryRecs, MonitorRecs
<1>3. /\ e \in EntryRecs /\ e.kind = "image" /\ e.from = "remote" /\ e.count = mac.clip.count + 1
      /\ e.secret = FALSE /\ e.fresh = FALSE
  <2>1. "img" \in ClipValues
    BY DEF ClipValues
  <2>2. /\ e \in EntryRecs /\ e.kind = "image" /\ e.from = "remote" /\ e.count = mac.clip.count + 1
        /\ e.secret = FALSE /\ e.fresh = ("remote" = "local")
    <3> DEFINE n == mac.clip.count + 1
    <3>1. e = [kind |-> "image", val |-> "img", from |-> "remote", count |-> n, secret |-> FALSE,
               fresh |-> "remote" = "local"]
      BY DEF Entry
    <3> HIDE DEF e, n
    <3>2. n \in Nat
      BY <1>2 DEF n
    <3>3. /\ e \in EntryRecs /\ e.kind = "image" /\ e.from = "remote" /\ e.count = n
          /\ e.secret = FALSE
          /\ e.fresh = ("remote" = "local")
      BY <2>1, <3>1, <3>2, SMT DEF EntryRecs
    <3> QED
      BY <3>3 DEF n
  <2> QED
    BY <2>2
<1> HIDE DEF e
<1>4. /\ clip \in EntryRecs /\ clip.count \in Nat /\ seen \in Nat /\ stamp \in Nat /\ q \in Nat
      /\ p \in {"chunk", "drain"} /\ NoImage \in Int /\ 0 \in {0, 1}
  <2>1. clip \in EntryRecs /\ clip.count \in Nat
    BY <1>2, <1>3
  <2>2. NoImage \in Int /\ 0 \in {0, 1}
    BY SMT DEF NoImage
  <2> HIDE DEF clip
  <2> QED
    BY <1>2, <2>1, <2>2
<1>5. log' = log
  <2>1. sends => clip.from # "remote" /\ ~ clip.secret
    <3>1. CASE writes
      BY <1>3, <3>1
    <3>2. CASE ~ writes
      BY <3>2 DEF ClipboardInv, MacKnows
    <3> QED
      BY <3>1, <3>2
  <2> HIDE DEF sends
  <2> QED
    BY <1>1, <2>1 DEF Note, SentLog
<1>6. clip.from = "remote" /\ clip.kind = "image" => stamp = clip.count
  <2>1. CASE writes
    BY <2>1
  <2>2. CASE ~ writes
    BY <2>2 DEF ClipboardInv, MacKnows
  <2> QED
    BY <2>1, <2>2
<1>7. /\ clip.from = "remote" /\ clip.kind = "text" => clipMonitor.last = clip.count
      /\ clipMonitor.written <= clip.count
      /\ clipMonitor.written = clip.count => ~ clip.fresh
      /\ clip.kind = "text" => clip.val # Nil
  <2>1. CASE writes
    <3>1. clipMonitor.written <= mac.clip.count + 1
      <4>1. clipMonitor.written <= mac.clip.count
        BY DEF ClipboardInv, MacKnows
      <4> QED
        BY <1>2, <4>1, SMT
    <3> QED
      BY <1>3, <2>1, <3>1
  <2>2. CASE ~ writes
    BY <2>2 DEF ClipboardInv, MacKnows
  <2> QED
    BY <2>1, <2>2
<1> HIDE DEF clip, stamp, q, p, sends
<1>8. /\ mac' \in MacRecs /\ mac'.on = mac.on /\ mac'.clip = clip /\ mac'.imageSeen = stamp
      /\ mac'.perm = mac.perm /\ mac'.part = mac.part
  BY <1>1, <1>4, Zenon DEF MacRecs
<1>9. poller' \in PollerRecs /\ poller'.at = p
  BY <1>1, <1>4, Zenon DEF PollerRecs
<1>10. ClipTyped'
  BY <1>1, <1>5, <1>8, <1>9 DEF ClipTyped
<1>11. MacKnows'
  BY <1>1, <1>4, <1>6, <1>7, <1>8, <1>9 DEF MacKnows
<1>12. PartIsCurrent' /\ SwitchIsDone'
  BY <1>1, <1>5, <1>8 DEF ClipboardInv, PartIsCurrent, SwitchIsDone, Empty, NoTransfer
<1>13. HostKnows' /\ TransferIsCurrent' /\ TurnsAlternate' /\ MonitorKnows' /\ ClipboardSafe'
  BY <1>1, <1>5, <1>8 DEF ClipboardInv, HostKnows, TransferIsCurrent, TurnsAlternate, MonitorKnows,
     ClipboardSafe,
     Empty, Off, On, PermissionMessage
<1> QED
  BY <1>10, <1>11, <1>12, <1>13 DEF ClipboardInv

\* The text is written: through the monitor, which remembers it, or past it.
LEMMA PollAppliesKeepsInv ==
    ASSUME ClipboardInv, NEW fails \in BOOLEAN, PollApplies(fails) PROVE ClipboardInv'
<1> DEFINE mine == clipMonitor.published /\ ~ fails
           n == mac.clip.count + (IF clipMonitor.published /\ fails THEN 2 ELSE 1)
           f == IF mine THEN "remote" ELSE "unrecorded"
           e == Entry("text", poller.text, f, n, FALSE)
           a == IF fails THEN log.mishaps + 1 ELSE log.mishaps
           v == IF mine THEN poller.text ELSE log.macTalk
           w == IF mine /\ clipMonitor.sending # Empty(0) THEN log.withheld \cup {poller.text}
                ELSE log.withheld
<1>1. /\ log \in ClipLogs /\ mac \in MacRecs /\ poller \in PollerRecs
      /\ clipMonitor \in MonitorRecs /\ ClipTyped
      /\ poller.at = "apply"
      /\ mac' = [mac EXCEPT !.clip = e]
      /\ clipMonitor' = IF mine THEN RecordRemoteWrite(n, poller.text) ELSE clipMonitor
      /\ poller' = [poller EXCEPT !.at = "idle", !.text = Nil]
      /\ log' = [log EXCEPT !.mishaps = a, !.macTalk = v, !.withheld = w]
      /\ UNCHANGED <<system, hostClip, allowed, switch, toHost, toMac, online>>
  BY DEF ClipboardInv, ClipTyped, PollApplies
<1>2. /\ n \in Nat /\ n \in Int /\ mac.clip.count < n /\ mac.clip.count \in Nat
      /\ clipMonitor.written \in Int
  BY <1>1, SMT DEF MacRecs, EntryRecs, MonitorRecs
<1>3. poller.text \in ClipValues /\ poller.text # Nil /\ Nil \in ClipValues
  BY <1>1 DEF ClipboardInv, MacKnows, PollerRecs, ClipValues
<1>4. f \in {"local", "remote", "unrecorded"} /\ f # "local"
  OBVIOUS
<1>5. a \in Nat /\ v \in ClipValues /\ w \in SUBSET ClipValues
  <2>1. log.mishaps \in Nat /\ log.mishaps + 1 \in Nat
    BY <1>1, SMT DEF ClipLogs
  <2>2. log.macTalk \in ClipValues /\ log.withheld \in SUBSET ClipValues
    BY <1>1 DEF ClipLogs
  <2> QED
    BY <1>3, <2>1, <2>2
<1>6. clipMonitor.written < n /\ clipMonitor.written # n
  <2>1. clipMonitor.written <= mac.clip.count
    BY DEF ClipboardInv, MacKnows
  <2> QED
    BY <1>2, <2>1, SMT
<1> HIDE DEF n, f, a, v, w
<1>7. /\ e \in EntryRecs /\ e.kind = "text" /\ e.from = f /\ e.count = n /\ e.val = poller.text
      /\ e.fresh = FALSE
  <2>1. /\ e \in EntryRecs /\ e.kind = "text" /\ e.from = f /\ e.count = n /\ e.val = poller.text
        /\ e.fresh = (f = "local")
    <3> HIDE DEF e
    <3>1. e = [kind |-> "text", val |-> poller.text, from |-> f, count |-> n, secret |-> FALSE,
          fresh |-> f = "local"]
      BY DEF e, Entry
    <3> QED
      BY <1>2, <1>3, <1>4, <3>1, SMT DEF EntryRecs
  <2> QED
    BY <1>4, <2>1
<1> HIDE DEF e
<1>8. /\ mac' \in MacRecs /\ mac'.on = mac.on /\ mac'.clip = e /\ mac'.imageSeen = mac.imageSeen
      /\ mac'.perm = mac.perm /\ mac'.part = mac.part
  BY <1>1, <1>7, Zenon DEF MacRecs
<1>9. poller' \in PollerRecs /\ poller'.at = "idle"
  BY <1>1, <1>3, Zenon DEF PollerRecs
<1>10. /\ log' \in ClipLogs /\ log'.hostTalk = log.hostTalk /\ log'.macTalk = v
       /\ log'.hostEra = log.hostEra
       /\ log'.macEra = log.macEra /\ log'.withheld = w /\ log'.bad = log.bad
  BY <1>1, <1>5, Zenon DEF ClipLogs
<1>11. /\ clipMonitor' \in MonitorRecs /\ clipMonitor'.live = clipMonitor.live
       /\ clipMonitor'.sending = clipMonitor.sending
       /\ mine => clipMonitor'.last = n /\ clipMonitor'.written = n
          /\ clipMonitor'.hash = poller.text
       /\ ~ mine => clipMonitor' = clipMonitor
  <2>1. CASE mine
    <3>1. clipMonitor' = [clipMonitor EXCEPT !.last = n, !.written = n, !.hash = poller.text]
      BY <1>1, <2>1 DEF RecordRemoteWrite
    <3>2. /\ clipMonitor' \in MonitorRecs /\ clipMonitor'.live = clipMonitor.live
          /\ clipMonitor'.sending = clipMonitor.sending
          /\ clipMonitor'.last = n /\ clipMonitor'.written = n /\ clipMonitor'.hash = poller.text
      BY <1>1, <1>2, <1>3, <3>1, Zenon DEF MonitorRecs
    <3> QED
      BY <2>1, <3>2
  <2>2. CASE ~ mine
    BY <1>1, <2>2
  <2> QED
    BY <2>1, <2>2
<1>12. ClipTyped'
  BY <1>1, <1>8, <1>9, <1>10, <1>11 DEF ClipTyped
<1>13. MacKnows'
  <2>1. mac'.clip.fresh = FALSE /\ mac'.clip.kind = "text" /\ mac'.clip.val # Nil
        /\ mac'.clip.count = n
    BY <1>3, <1>7, <1>8
  <2>2. mac'.clip.from = "remote" => clipMonitor'.last = n
    BY <1>7, <1>8, <1>11 DEF f
  <2>3. clipMonitor'.written <= n
    <3>1. n <= n
      BY <1>2, SMT
    <3>2. clipMonitor.written <= n
      BY <1>2, <1>6, SMT
    <3> QED
      BY <1>11, <3>1, <3>2
  <2> QED
    BY <1>9, <2>1, <2>2, <2>3 DEF MacKnows
<1>14. MonitorKnows'
  <2>1. Empty(0)' = Empty(0)
    BY DEF Empty
  <2>2. CASE mine
    <3>1. CASE clipMonitor.sending = Empty(0)
      <4>1. v = poller.text /\ w = log.withheld
        BY <2>2, <3>1 DEF v, w
      <4> QED
        BY <1>10, <1>11, <2>1, <2>2, <3>1, <4>1 DEF MonitorKnows
    <3>2. CASE clipMonitor.sending # Empty(0)
      <4>1. poller.text \in w
        BY <2>2, <3>2 DEF w
      <4> QED
        BY <1>10, <1>11, <2>1, <2>2, <3>2, <4>1 DEF ClipboardInv, MonitorKnows
    <3> QED
      BY <3>1, <3>2
  <2>3. CASE ~ mine
    <3>1. v = log.macTalk /\ w = log.withheld
      BY <2>3 DEF v, w
    <3> QED
      BY <1>10, <1>11, <2>1, <2>3, <3>1 DEF ClipboardInv, MonitorKnows
  <2> QED
    BY <2>2, <2>3
<1>15. PartIsCurrent' /\ SwitchIsDone'
  BY <1>1, <1>8, <1>10, <1>11 DEF ClipboardInv, PartIsCurrent, SwitchIsDone, Empty, NoTransfer
<1>16. HostKnows' /\ TransferIsCurrent' /\ TurnsAlternate' /\ ClipboardSafe'
  BY <1>1, <1>8, <1>10 DEF ClipboardInv, HostKnows, TransferIsCurrent, TurnsAlternate,
     ClipboardSafe,
     Off, On, PermissionMessage
<1> QED
  BY <1>12, <1>13, <1>14, <1>15, <1>16 DEF ClipboardInv

\* It holds at the start.
LEMMA ClipboardInitInv == ClipboardInit => ClipboardInv
<1> SUFFICES ASSUME ClipboardInit PROVE ClipboardInv
  OBVIOUS
<1>1. system \in {"wayland", "x11", "windows"} /\ allowed = TRUE /\ online = TRUE
  BY ClipboardAssumption DEF ClipboardInit
<1>2. 0 \in Nat /\ -1 \in Int /\ NoImage \in Int /\ Nil \in ClipValues /\ {} \in SUBSET Nat
      /\ 0 \in {0, 1}
      /\ -1 <= 0 /\ -1 # 0
  BY SMT DEF NoImage, ClipValues
<1>3. hostClip \in HostClipRecs /\ hostClip.hash = Nil /\ hostClip.clip = Empty(0)
      /\ hostClip.active = NoTransfer
  <2>1. hostClip = [clip |-> Empty(0), seen |-> Empty(0).count, wrote |-> Nil, recent |-> FALSE,
        hash |-> Nil,
                    image |-> FALSE, active |-> NoTransfer, used |-> {}, nextId |-> 0]
    BY DEF ClipboardInit, NewHostClip
  <2> QED
    BY <1>2, <2>1, NothingCopied, NoTransferTyped, Zenon DEF HostClipRecs
<1>4. /\ mac \in MacRecs /\ mac.clip = Empty(0) /\ mac.on = TRUE /\ mac.perm = TRUE
      /\ mac.part = NoTransfer
      /\ clipMonitor \in MonitorRecs /\ clipMonitor.sending = Empty(0) /\ clipMonitor.hash = Nil
      /\ clipMonitor.written = -1
      /\ poller \in PollerRecs /\ poller.at = "idle" /\ switch \in SwitchRecs /\ switch.at = "idle"
  <2>1. mac \in MacRecs /\ mac.clip = Empty(0) /\ mac.on = TRUE /\ mac.perm = TRUE
        /\ mac.part = NoTransfer
    BY <1>2, NothingCopied, NoTransferTyped, Zenon DEF ClipboardInit, MacRecs
  <2>2. clipMonitor \in MonitorRecs /\ clipMonitor.sending = Empty(0) /\ clipMonitor.hash = Nil
        /\ clipMonitor.written = -1
    BY <1>2, NothingCopied, Zenon DEF ClipboardInit, MonitorRecs
  <2>3. poller \in PollerRecs /\ poller.at = "idle" /\ switch \in SwitchRecs /\ switch.at = "idle"
    BY <1>2, Zenon DEF ClipboardInit, PollerRecs, SwitchRecs
  <2> QED
    BY <2>1, <2>2, <2>3
<1>5. /\ log \in ClipLogs /\ log.hostTalk = Nil /\ log.bad = {}
  <2>1. {} \in SUBSET ClipValues /\ {} \in SUBSET {"echo", "leak", "swallowed", "torn", "late"}
    OBVIOUS
  <2> QED
    BY <1>2, <2>1, Zenon DEF ClipboardInit, ClipLogs
<1>6. toMac = <<>> /\ toHost = <<>> /\ Len(toMac) = 0
  BY DEF ClipboardInit
<1>7. ClipTyped
  <2>1. toMac \in Seq(TextMessages \cup ChunkMessages \cup ToldMessages)
        /\ toHost \in Seq(TextMessages \cup ChunkMessages)
    BY <1>6, EmptySeq
  <2> QED
    BY <1>1, <1>3, <1>4, <1>5, <2>1 DEF ClipTyped
<1>8. HostKnows /\ TransferIsCurrent /\ PartIsCurrent /\ ClipboardSafe
  BY <1>3, <1>4, <1>5, NothingCopied DEF HostKnows, TransferIsCurrent, PartIsCurrent, ClipboardSafe
<1>9. TurnsAlternate
  <2>1. \A i \in 1 .. 0 : FALSE
    BY SMT
  <2> QED
    BY <1>1, <1>6, <2>1 DEF TurnsAlternate
<1>10. MacKnows /\ MonitorKnows /\ SwitchIsDone
  BY <1>2, <1>4, NothingCopied DEF MacKnows, MonitorKnows, SwitchIsDone
<1> QED
  BY <1>7, <1>8, <1>9, <1>10 DEF ClipboardInv

(***************************************************************************)
(* Between any clipboards, for any number of copies, changes and failures: *)
(* what one end applied and recorded is not sent back, no concealed entry  *)
(* is sent, no image is written that was not received whole under one      *)
(* permission, no monitor sends after set_client_clipboard(false), and a   *)
(* new text is dropped only where ClipboardSafe says (observe_local,       *)
(* ClipboardSynchronizer::poll, Assembly::push, ImageAssembly::push).      *)
(***************************************************************************)
THEOREM ClipboardStaysSafe == ClipboardSpec => []ClipboardSafe
<1>1. ASSUME ClipboardInv, [ClipboardNext]_clipboardVars PROVE ClipboardInv'
  <2>1. CASE UNCHANGED clipboardVars
    BY <1>1, <2>1 DEF ClipboardInv, ClipTyped, HostKnows, TransferIsCurrent, TurnsAlternate,
       PartIsCurrent, MacKnows,
       MonitorKnows, SwitchIsDone, ClipboardSafe, clipboardVars, Empty, NoTransfer, On, Off,
       PermissionMessage
  <2>2. ASSUME NEW v \in ClipTexts, NEW s \in BOOLEAN, UserCopies("text", v, s) PROVE ClipboardInv'
    BY <1>1, <2>2, ClipboardAssumption, UserCopiesKeepsInv DEF ClipValues, Nil
  <2>3. CASE UserCopies("image", "img", FALSE)
    BY <1>1, <2>3, UserCopiesKeepsInv DEF ClipValues, Nil
  <2>4. CASE HostPermission \/ HostExpire \/ EchoPeriodPasses \/ HostPollImage
    BY <1>1, <2>4, HostPermissionKeepsInv, HostTimesKeepInv, HostPollImageKeepsInv
  <2>5. ASSUME NEW b \in BOOLEAN, HostPollText(b) \/ PollExchanges(b)
               \/ PollApplies(b) PROVE ClipboardInv'
    BY <1>1, <2>5, HostPollTextKeepsInv, PollExchangesKeepsInv, PollAppliesKeepsInv
  <2>6. ASSUME NEW how \in Writes, HostReceives(how) PROVE ClipboardInv'
    BY <1>1, <2>6, HostReceivesKeepsInv
  <2>7. CASE MacReceives \/ Reconnect \/ MonitorPolls \/ MonitorSends
    BY <1>1, <2>7, MacReceivesKeepsInv, ReconnectKeepsInv, MonitorPollsKeepsInv,
       MonitorSendsKeepsInv
  <2>8. CASE SwitchBegins \/ SwitchShell \/ SwitchStops \/ SwitchStarts \/ SwitchPublishes
    BY <1>1, <2>8, SwitchKeepsInv
  <2>9. CASE PollBegins \/ PollSendsChunk \/ PollDrains
    BY <1>1, <2>9, PollTakesKeepsInv
  <2> QED
    BY <1>1, <2>1, <2>2, <2>3, <2>4, <2>5, <2>6, <2>7, <2>8, <2>9 DEF ClipboardNext
<1>2. ClipboardInv => ClipboardSafe
  BY DEF ClipboardInv
<1> QED
  BY <1>1, <1>2, ClipboardInitInv, PTL DEF ClipboardSpec
===============================================================================
