------------------------------ MODULE Admission ------------------------------
(***************************************************************************)
(* How a client becomes an authenticated session of the host               *)
(* (maho-host/src/session.rs): the accept loop and its permits, the PSK    *)
(* identities offered per connection, the bootstrap lockout, consent,      *)
(* pairing, the handshake, and the two files of the pairing store.         *)
(*                                                                         *)
(* Every connection has a thread of its own. A connection that is granted  *)
(* a pairing names it, so a pairing id is a connection. The steps of a     *)
(* handler that touch the store or wait are separate: the host may crash   *)
(* between them, and another process (`maho-host --revoke`) may edit the   *)
(* files. Deadlines may pass whenever a thread waits.                      *)
(***************************************************************************)
EXTENDS Naturals, FiniteSets

CONSTANTS
    Conns,          \* connections; also the ids of the pairings they create
    MaxConns,       \* MAX_CONCURRENT_CONNECTIONS
    MaxAttempts,    \* MAX_PAIRING_ATTEMPTS
    GuessBound,     \* bound: where the history stops counting failures
    MaxRestarts,    \* bound: crashes of the host
    MaxRevokes,     \* bound: runs of `maho-host --revoke`
    Boot,           \* the bootstrap identity "maho-b1"
    Nothing

ASSUME AdmissionAssumption ==
    /\ MaxConns \in Nat \ {0} /\ MaxAttempts \in Nat \ {0}
    /\ GuessBound \in Nat /\ MaxRestarts \in Nat /\ MaxRevokes \in Nat
    /\ Boot \notin Conns /\ Nothing \notin Conns /\ Boot # Nothing

VARIABLES
    conn,           \* the local variables of each connection's thread
    answer,         \* the consent channel of each connection (capacity 1)
    window,         \* the pairing deadline has not passed
    failures,       \* BootstrapLockout.failure_count
    locked,         \* BootstrapLockout.pairing_active is false
    keys,           \* ids in the key file
    grants,         \* the grants file: id -> trust
    capturing,          \* connections whose capture pipeline was started
    expired,        \* pairings whose expiry lies in the past
    restarts,       \* crashes so far
    cli,            \* the revoke command, a process of its own
    approved,       \* history: the trust the host's user approved for an id
    known,          \* history: ids whose key was sent to a client
    guesses         \* history: failures of connections that offered Boot

store == <<keys, grants>>
lockout == <<window, failures, locked>>
history == <<approved, known, guesses>>
admissionVars == <<conn, answer, lockout, store, capturing, expired, restarts, cli, history>>

GrantedTrusts == {"owner", "once", "expiring"}
Steps == {"idle", "accepted", "tls", "preauth", "consent", "granted", "loaded",
          "ack", "persist", "save", "join", "auth", "closed"}

IdleConn == [pc |-> "idle", psks |-> {}, ident |-> Nothing, id |-> Nothing,
             trust |-> "once", fresh |-> FALSE, peerTrust |-> FALSE]
ClosedConn == [IdleConn EXCEPT !.pc = "closed"]
IdleCli == [pc |-> "idle", id |-> Nothing, read |-> {}, runs |-> 0]

Live == {c \in Conns : conn[c].pc \notin {"idle", "closed"}}
AtStep(c, step) == conn[c].pc = step

\* guests::valid_trust
ValidTrust(p, trust) ==
    \/ trust = "owner"
    \/ trust = "expiring" /\ p \notin expired

\* PairingStore::authorization: an id without a grant is an owner.
Authorization(p) == IF grants[p] = Nothing THEN "owner" ELSE grants[p]

IsPairingActive == window /\ ~ locked

Goto(c, step) == conn' = [conn EXCEPT ![c].pc = step]

\* Leaving the handler: the teardown stops the pipeline.
Close(c) ==
    /\ conn' = [conn EXCEPT ![c] = ClosedConn]
    /\ capturing' = capturing \ {c}

AdmissionInit ==
    /\ conn = [c \in Conns |-> IdleConn]
    /\ answer = [c \in Conns |-> Nothing]
    /\ window = TRUE
    /\ failures = 0
    /\ locked = FALSE
    /\ keys = {}
    /\ grants = [p \in Conns |-> Nothing]
    /\ capturing = {}
    /\ expired = {}
    /\ restarts = 0
    /\ cli = IdleCli
    /\ approved = [p \in Conns |-> Nothing]
    /\ known = {}
    /\ guesses = 0

-----------------------------------------------------------------------------
(* Accepting a connection *)

\* serve_with_stop: a permit is free, else the connection is dropped.
Accept(c) ==
    /\ AtStep(c, "idle")
    /\ Cardinality(Live) < MaxConns
    /\ Goto(c, "accepted")
    /\ UNCHANGED <<answer, lockout, store, capturing, expired, restarts, cli, history>>

\* current_psks: pairings that are still valid, and the bootstrap identity
\* while the pairing window is open and the lockout allows it.
OfferPsks(c) ==
    /\ AtStep(c, "accepted")
    /\ conn' = [conn EXCEPT
          ![c].pc = "tls",
          ![c].psks = {p \in keys : ValidTrust(p, Authorization(p))}
                        \cup (IF IsPairingActive THEN {Boot} ELSE {})]
    /\ UNCHANGED <<answer, lockout, store, capturing, expired, restarts, cli, history>>

TlsSucceeds(c, identity) ==
    /\ AtStep(c, "tls")
    /\ identity \in conn[c].psks
    /\ identity = Boot \/ identity \in known
    /\ conn' = [conn EXCEPT ![c].pc = "preauth", ![c].ident = identity]
    /\ UNCHANGED <<answer, lockout, store, capturing, expired, restarts, cli, history>>

\* The history: a failure of a connection that offered the bootstrap identity.
CountGuess(c) ==
    guesses' = IF Boot \in conn[c].psks /\ guesses < GuessBound
               THEN guesses + 1 ELSE guesses

\* Mutant: failures are counted and never lock.
TlsFailsNeverLocks(c) ==
    /\ AtStep(c, "tls")
    /\ Close(c)
    /\ failures' = MaxAttempts
    /\ CountGuess(c)
    /\ UNCHANGED <<answer, window, locked, store, expired, restarts, cli, approved, known>>

\* Every failed handshake, also one that ran into the admission deadline,
\* counts as a bootstrap failure; the last one allowed ends the pairing
\* window for the life of the process. Counting on beyond the limit changes
\* nothing, so the model stops there.
TlsFails(c) ==
    /\ AtStep(c, "tls")
    /\ Close(c)
    /\ failures' = IF failures < MaxAttempts THEN failures + 1 ELSE failures
    /\ locked' = (locked \/ failures + 1 >= MaxAttempts)
    /\ CountGuess(c)
    /\ UNCHANGED <<answer, window, store, expired, restarts, cli, approved, known>>

\* PAIRING_ATTEMPT_WINDOW has passed since the first counted failure.
FailureWindowPasses ==
    /\ failures > 0
    /\ failures' = 0
    /\ guesses' = 0
    /\ UNCHANGED <<conn, answer, window, locked, store, capturing, expired, restarts, cli, approved, known>>

-----------------------------------------------------------------------------
(* Pairing *)

\* PairingRequest: refused (and the connection goes on) unless it came over
\* the bootstrap identity while pairing is active; else the user is asked.
AskConsent(c) ==
    /\ AtStep(c, "preauth")
    /\ IF conn[c].ident = Boot /\ IsPairingActive
       THEN /\ Goto(c, "consent")
            /\ answer' = [answer EXCEPT ![c] = Nothing]
       ELSE UNCHANGED <<conn, answer>>
    /\ UNCHANGED <<lockout, store, capturing, expired, restarts, cli, history>>

\* The user answers; the channel keeps the first answer.
Respond(c, reply) ==
    /\ AtStep(c, "consent")
    /\ answer[c] = Nothing
    /\ answer' = [answer EXCEPT ![c] = reply]
    /\ UNCHANGED <<conn, lockout, store, capturing, expired, restarts, cli, history>>

\* Mutant: the window is not looked at again after the wait.
GrantOutsideWindow(c) ==
    /\ AtStep(c, "consent")
    /\ answer[c] \in GrantedTrusts
    /\ conn' = [conn EXCEPT ![c].pc = "granted", ![c].id = c,
                            ![c].trust = answer[c], ![c].fresh = TRUE]
    /\ approved' = [approved EXCEPT ![c] = answer[c]]
    /\ known' = known \cup {c}
    /\ UNCHANGED <<answer, lockout, store, capturing, expired, restarts, cli, guesses>>

\* The wait is over with an answer: deadline and window are checked again, a
\* refusal ends the connection, an approval sends the grant. Nothing is stored.
Grant(c) ==
    /\ AtStep(c, "consent")
    /\ answer[c] # Nothing
    /\ IF IsPairingActive /\ answer[c] # "deny"
          /\ (answer[c] # "once" => ValidTrust(c, answer[c]))
       THEN /\ conn' = [conn EXCEPT ![c].pc = "granted", ![c].id = c,
                                    ![c].trust = answer[c], ![c].fresh = TRUE]
            /\ approved' = [approved EXCEPT ![c] = answer[c]]
            /\ known' = known \cup {c}
            /\ UNCHANGED capturing
       ELSE /\ Close(c)
            /\ UNCHANGED <<approved, known>>
    /\ UNCHANGED <<answer, lockout, store, expired, restarts, cli, guesses>>

-----------------------------------------------------------------------------
(* Handshake *)

\* The record: the provisional one of this connection, or the stored one the
\* client names.
LoadRecord(c, p) ==
    /\ AtStep(c, "preauth") \/ AtStep(c, "granted")
    /\ IF conn[c].fresh \/ p \in keys
       THEN /\ conn' = [conn EXCEPT ![c].pc = "loaded",
                                    ![c].id = IF conn[c].fresh THEN c ELSE p]
            /\ UNCHANGED capturing
       ELSE Close(c)
    /\ UNCHANGED <<answer, lockout, store, expired, restarts, cli, history>>

IdentityMatches(c) ==
    \/ conn[c].ident = conn[c].id
    \/ conn[c].ident = Boot /\ conn[c].fresh

\* Mutant: a bootstrap connection may name a stored pairing.
AuthorizeAnyIdentity(c, trusting) ==
    /\ AtStep(c, "loaded")
    /\ LET trust == IF conn[c].fresh THEN conn[c].trust ELSE Authorization(conn[c].id)
       IN  IF conn[c].fresh \/ ValidTrust(conn[c].id, trust)
           THEN /\ conn' = [conn EXCEPT ![c].pc = "ack", ![c].trust = trust,
                                        ![c].peerTrust = trusting]
                /\ capturing' = IF trusting THEN capturing ELSE capturing \cup {c}
           ELSE Close(c)
    /\ UNCHANGED <<answer, lockout, store, expired, restarts, cli, history>>

\* The stored trust is read (a second, separate access to the store), then the
\* identity, the version and the capabilities are checked. A peer without
\* PAIRING_TRUST gets its pipeline started before the acknowledgement.
Authorize(c, trusting) ==
    /\ AtStep(c, "loaded")
    /\ LET trust == IF conn[c].fresh THEN conn[c].trust ELSE Authorization(conn[c].id)
       IN  IF (conn[c].fresh \/ ValidTrust(conn[c].id, trust)) /\ IdentityMatches(c)
           THEN /\ conn' = [conn EXCEPT ![c].pc = "ack", ![c].trust = trust,
                                        ![c].peerTrust = trusting]
                /\ capturing' = IF trusting THEN capturing ELSE capturing \cup {c}
           ELSE Close(c)
    /\ UNCHANGED <<answer, lockout, store, expired, restarts, cli, history>>

\* HandshakeAck, and the trust exchange with a peer that supports it: a fresh
\* one must send PairingTrustRequest first.
SendAck(c) ==
    /\ AtStep(c, "ack")
    /\ Goto(c, "persist")
    /\ UNCHANGED <<answer, lockout, store, capturing, expired, restarts, cli, history>>

\* Mutant: the key is stored before the grant.
PersistKeyFirst(c) ==
    /\ AtStep(c, "persist")
    /\ IF conn[c].fresh /\ conn[c].trust # "once"
       THEN IF ValidTrust(c, conn[c].trust)
            THEN /\ keys' = keys \cup {c}
                 /\ Goto(c, "save")
                 /\ UNCHANGED capturing
            ELSE Close(c) /\ UNCHANGED keys
       ELSE Goto(c, "join") /\ UNCHANGED <<keys, capturing>>
    /\ UNCHANGED <<answer, lockout, grants, expired, restarts, cli, history>>

\* set_authorization comes first.
PersistGrant(c) ==
    /\ AtStep(c, "persist")
    /\ IF conn[c].fresh /\ conn[c].trust # "once"
       THEN IF ValidTrust(c, conn[c].trust)
            THEN /\ grants' = [grants EXCEPT ![c] = conn[c].trust]
                 /\ Goto(c, "save")
                 /\ UNCHANGED capturing
            ELSE Close(c) /\ UNCHANGED grants
       ELSE Goto(c, "join") /\ UNCHANGED <<grants, capturing>>
    /\ UNCHANGED <<answer, lockout, keys, expired, restarts, cli, history>>

\* PairingStore::save
PersistKey(c) ==
    /\ AtStep(c, "save")
    /\ keys' = keys \cup {c}
    /\ Goto(c, "join")
    /\ UNCHANGED <<answer, lockout, grants, capturing, expired, restarts, cli, history>>

\* Permissions are sent, the guest joins the registry, the session becomes
\* authenticated and its pipeline runs.
Join(c) ==
    /\ AtStep(c, "join")
    /\ Goto(c, "auth")
    /\ capturing' = capturing \cup {c}
    /\ UNCHANGED <<answer, lockout, store, expired, restarts, cli, history>>

-----------------------------------------------------------------------------
(* Ends *)

\* The loop of an expiring guest's session ends it after the expiry.
EndExpired(c) ==
    /\ AtStep(c, "auth")
    /\ conn[c].trust = "expiring"
    /\ conn[c].id \in expired
    /\ Close(c)
    /\ UNCHANGED <<answer, lockout, store, expired, restarts, cli, history>>

\* Mutant: the wait for consent has no deadline.
AdmissionDeadlineNotInConsent(c) ==
    /\ conn[c].pc \in {"preauth", "granted", "ack"}
    /\ Close(c)
    /\ UNCHANGED <<answer, lockout, store, expired, restarts, cli, history>>

\* The admission deadline passes while the thread waits for the client or for
\* the user.
AdmissionDeadline(c) ==
    /\ conn[c].pc \in {"preauth", "consent", "granted", "ack"}
    /\ Close(c)
    /\ UNCHANGED <<answer, lockout, store, expired, restarts, cli, history>>

\* The peer leaves, the socket or the store fails, or the host ends the
\* session, at any step of the handler (in the TLS handshake, TlsFails).
ConnectionFails(c) ==
    /\ c \in Live /\ ~ AtStep(c, "tls")
    /\ Close(c)
    /\ UNCHANGED <<answer, lockout, store, expired, restarts, cli, history>>

\* A connection that created no pairing stands for the next one.
NextConnection(c) ==
    /\ AtStep(c, "closed")
    /\ approved[c] = Nothing
    /\ conn' = [conn EXCEPT ![c] = IdleConn]
    /\ UNCHANGED <<answer, lockout, store, capturing, expired, restarts, cli, history>>

PairingWindowCloses ==
    /\ window
    /\ window' = FALSE
    /\ UNCHANGED <<conn, answer, failures, locked, store, capturing, expired, restarts, cli, history>>

Expire(p) ==
    /\ approved[p] = "expiring" /\ p \notin expired
    /\ expired' = expired \cup {p}
    /\ UNCHANGED <<conn, answer, lockout, store, capturing, restarts, cli, history>>

\* The host dies between any two steps; the next process binds anew, opens a
\* pairing window and finds the files as they were.
Restart ==
    /\ restarts < MaxRestarts
    /\ restarts' = restarts + 1
    /\ conn' = [c \in Conns |-> IF c \in Live THEN ClosedConn ELSE conn[c]]
    /\ answer' = [c \in Conns |-> Nothing]
    /\ window' = TRUE /\ failures' = 0 /\ locked' = FALSE
    /\ capturing' = {}
    /\ guesses' = 0
    /\ UNCHANGED <<store, expired, cli, approved, known>>

-----------------------------------------------------------------------------
(* maho-host --revoke ID: PairingStore::revoke in another process, whose     *)
(* mutex excludes nothing here. It rewrites each file from what it read.     *)

RevokeReadKeys(p) ==
    /\ cli.pc = "idle" /\ cli.runs < MaxRevokes
    /\ cli' = [pc |-> IF p \in keys THEN "writeKeys" ELSE "readGrants",
               id |-> p, read |-> keys, runs |-> cli.runs + 1]
    /\ UNCHANGED <<conn, answer, lockout, store, capturing, expired, restarts, history>>

RevokeWriteKeys ==
    /\ cli.pc = "writeKeys"
    /\ keys' = cli.read \ {cli.id}
    /\ cli' = [cli EXCEPT !.pc = "readGrants"]
    /\ UNCHANGED <<conn, answer, lockout, grants, capturing, expired, restarts, history>>

RevokeReadGrants ==
    /\ cli.pc = "readGrants"
    /\ cli' = IF grants[cli.id] = Nothing
              THEN [IdleCli EXCEPT !.runs = cli.runs]
              ELSE [cli EXCEPT !.pc = "writeGrants",
                               !.read = {p \in Conns : grants[p] # Nothing}]
    /\ UNCHANGED <<conn, answer, lockout, store, capturing, expired, restarts, history>>

RevokeWriteGrants ==
    /\ cli.pc = "writeGrants"
    /\ grants' = [p \in Conns |-> IF p \in cli.read \ {cli.id} THEN grants[p] ELSE Nothing]
    /\ cli' = [IdleCli EXCEPT !.runs = cli.runs]
    /\ UNCHANGED <<conn, answer, lockout, keys, capturing, expired, restarts, history>>

Revoke == (\E p \in Conns : RevokeReadKeys(p)) \/ RevokeWriteKeys
              \/ RevokeReadGrants \/ RevokeWriteGrants

-----------------------------------------------------------------------------

Handler(c) ==
    \/ Accept(c) \/ OfferPsks(c) \/ TlsFails(c)
    \/ \E i \in Conns \cup {Boot} : TlsSucceeds(c, i)
    \/ AskConsent(c) \/ Grant(c)
    \/ \E reply \in GrantedTrusts \cup {"deny"} : Respond(c, reply)
    \/ \E p \in Conns : LoadRecord(c, p)
    \/ \E trusting \in BOOLEAN : Authorize(c, trusting)
    \/ SendAck(c) \/ PersistGrant(c) \/ PersistKey(c) \/ Join(c)
    \/ EndExpired(c) \/ AdmissionDeadline(c) \/ ConnectionFails(c)
    \/ NextConnection(c)

AdmissionNext ==
    \/ \E c \in Conns : Handler(c) \/ Expire(c)
    \/ FailureWindowPasses \/ PairingWindowCloses \/ Restart
    \/ Revoke

AdmissionSpec == AdmissionInit /\ [][AdmissionNext]_admissionVars

\* A thread that can go on does; deadlines pass and timers fire. Clients,
\* users and the network owe nothing.
AdmissionThread(c) ==
    \/ OfferPsks(c) \/ AdmissionDeadline(c) \/ TlsFails(c)
    \/ \E trusting \in BOOLEAN : Authorize(c, trusting)
    \/ PersistGrant(c) \/ PersistKey(c) \/ Join(c) \/ EndExpired(c)

AdmissionFairness == \A c \in Conns : WF_admissionVars(AdmissionThread(c))

AdmissionFairSpec == AdmissionSpec /\ AdmissionFairness

-----------------------------------------------------------------------------
(* Properties *)

\* Connection threads, the lockout and both store files stay in their types.
AdmissionTypeOK ==
    /\ conn \in [Conns -> [pc : Steps, psks : SUBSET (Conns \cup {Boot}),
                           ident : Conns \cup {Boot, Nothing}, id : Conns \cup {Nothing},
                           trust : GrantedTrusts, fresh : BOOLEAN, peerTrust : BOOLEAN]]
    /\ answer \in [Conns -> GrantedTrusts \cup {"deny", Nothing}]
    /\ window \in BOOLEAN /\ locked \in BOOLEAN
    /\ failures \in 0 .. MaxAttempts /\ guesses \in Nat
    /\ keys \subseteq Conns
    /\ grants \in [Conns -> GrantedTrusts \cup {Nothing}]
    /\ capturing \subseteq Conns /\ expired \subseteq Conns /\ known \subseteq Conns
    /\ restarts \in 0 .. MaxRestarts
    /\ cli \in [pc : {"idle", "writeKeys", "readGrants", "writeGrants"},
                id : Conns \cup {Nothing}, read : SUBSET Conns, runs : 0 .. MaxRevokes]
    /\ approved \in [Conns -> GrantedTrusts \cup {Nothing}]

\* No other process has written to the two files.
Unedited == cli.runs = 0

\* Wherever the host dies, a stored key comes with the trust its user approved:
\* a key without a grant would read as an owner's (authorization).
DiskTrustIsApproved ==
    Unedited => \A p \in keys : grants[p] = approved[p]

\* A guest admitted once leaves nothing behind that lets it in again.
GuestOnceNotStored ==
    \A p \in Conns : approved[p] = "once" => p \notin keys /\ grants[p] = Nothing

\* A session has the trust that the user approved for its pairing.
SessionTrustIsApproved ==
    Unedited => \A c \in Conns : AtStep(c, "auth") => conn[c].trust = approved[conn[c].id]

\* What is on disk and what a session runs with is what the user approved, across crashes
\* between the two files (persist_pairing), restarts and guests admitted once.
TrustIsApproved ==
    AdmissionTypeOK /\ DiskTrustIsApproved /\ GuestOnceNotStored /\ SessionTrustIsApproved

\* "No screen, input, or media capability may be granted on the bootstrap
\* connection before approval" (protocol-v3.md 4.3): a pipeline runs only for a
\* pairing the user approved, over that pairing's own identity or over the
\* bootstrap connection that was granted it.
NoMediaBeforeApproval ==
    \A c \in capturing :
        /\ conn[c].id \in known
        /\ conn[c].ident = conn[c].id \/ (conn[c].ident = Boot /\ conn[c].id = c)

\* An approval that arrives after the pairing window closed or locked grants
\* nothing, however long the user took.
GrantOnlyWhileActive ==
    [][known' # known => IsPairingActive]_admissionVars

\* Between two failure windows no more wrong PINs are tried than the limit and
\* the connections that were under way when the lock fell.
GuessesBounded == guesses <= MaxAttempts + MaxConns - 1

\* A connection that holds a permit without being admitted, or past its guest's expiry.
Overstays(c) ==
    \/ c \in Live /\ ~AtStep(c, "auth")
    \/ AtStep(c, "auth") /\ conn[c].trust = "expiring" /\ conn[c].id \in expired

\* No connection holds its permit by doing nothing, and none holds it past its expiry
\* (the deadlines of handle_connection and the expiry test of its session loop).
ConnectionsEnd == \A c \in Conns : Overstays(c) ~> ~Overstays(c)

-----------------------------------------------------------------------------
(* A statement of the code's comments that the code does not keep. *)

\* "Drop the authorization alongside the key so no stale grant outlives the
\* pairing" (PairingStore::revoke): a revoke never raises a session's trust.
RevokeNeverRaisesTrust ==
    \A c \in Conns : AtStep(c, "auth") => conn[c].trust = approved[conn[c].id]
=============================================================================
