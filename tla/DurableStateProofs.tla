------------------------- MODULE DurableStateProofs -------------------------
(***************************************************************************)
(* Proofs about the three components whose effects outlive the process     *)
(* that caused them, which may fail or end at any step: the client's       *)
(* PairingStore (one file and its lock, several processes), the Windows    *)
(* service (one marker file for each worker, several lives of the          *)
(* supervisor), and input injection (the keys, buttons and gamepads that a *)
(* session holds down on the desktop).                                     *)
(***************************************************************************)
EXTENDS PairingStore, WindowsService, InputInjection, FiniteSetTheorems, SequenceTheorems, TLAPS

(***************************************************************************)
(* The Windows service.                                                    *)
(***************************************************************************)
Handles == [pid : Nat, session : ConsoleSessions \cup {NoSession}, desktop : Desktops \cup {NoHint}]
ServicePhases == {"dead", "started", "ready", "serving"}
Processes == [phase : ServicePhases, session : ConsoleSessions \cup {NoSession},
              desktop : Desktops \cup {NoHint}, view : Desktops \cup {NoHint}]

ServiceTypeOK ==
    /\ console \in [session : ConsoleSessions \cup {NoSession}, desktop : Desktops]
    /\ hint \in Desktops \cup {NoHint}
    /\ service \in [installed : BOOLEAN,
                    state : {"stopped", "starting", "running", "ending", "crashed"},
                    stop : BOOLEAN, worker : Handles,
                    step : {"none", "tick", "sleep", "forget", "terminate", "spawn", "record", "stopping"},
                    plan : Handles, created : Nat]
    /\ procs \in Seq(Processes)

ServiceUp == service.state \in {"running", "ending"}

\* A process that is created and not yet recorded exists only between CreateProcessAsUserW and
\* record_worker of a running service.
CreatedIsRecordedNext == service.created # 0 => ServiceUp /\ service.step = "record"

\* The supervisor creates a process only when it holds none.
SpawnsWithEmptyHands == service.step \in {"spawn", "record"} => service.worker.pid = 0

\* Every live worker is accounted for, by the supervisor while one is up, by its marker file
\* while none is.
WorkersAccounted ==
    /\ ServiceUp => LivePids \subseteq {service.worker.pid, service.created} \cup escaped
    /\ ~ ServiceUp => LivePids \subseteq markers \cup escaped

ServiceInv == ServiceTypeOK /\ CreatedIsRecordedNext /\ SpawnsWithEmptyHands /\ WorkersAccounted

\* What a step of the service may do to the workers without disturbing the account: nothing new
\* lives, and the handles, the markers and the escapes only gain.
LEMMA AccountKept ==
    ASSUME ServiceInv, ServiceTypeOK', LivePids' \subseteq LivePids, escaped \subseteq escaped',
           markers \subseteq markers', service'.worker = service.worker,
           service'.created = service.created, service'.step = service.step,
           service'.state = service.state
    PROVE  ServiceInv'
  BY DEF ServiceInv, CreatedIsRecordedNext, SpawnsWithEmptyHands, WorkersAccounted, ServiceUp

\* TerminateProcess, and every other end of a process: the others are as they were.
LEMMA KillKeeps ==
    ASSUME procs \in Seq(Processes), NEW pids, procs' = Kill(pids)
    PROVE  procs' \in Seq(Processes) /\ LivePids' = LivePids \ pids
  <1>1. Dead \in Processes
    BY DEF Dead, Processes, ServicePhases
  <1>2. DOMAIN procs = 1 .. Len(procs) /\ Len(procs) \in Nat
    OBVIOUS
  <1>3. procs' \in [1 .. Len(procs) -> Processes]
    BY <1>1, <1>2 DEF Kill
  <1>4. procs' \in Seq(Processes)
    BY <1>2, <1>3
  <1>5. DOMAIN procs' = DOMAIN procs
    BY <1>2, <1>3
  <1>6. \A p \in DOMAIN procs : procs'[p] = IF p \in pids THEN Dead ELSE procs[p]
    BY DEF Kill
  <1>7. Dead.phase = "dead"
    BY DEF Dead
  <1> QED
    BY <1>4, <1>5, <1>6, <1>7 DEF LivePids, Alive

\* A step of a worker's own: a live process changes its phase or its view, and nothing else.
LEMMA WorkerStepKeeps ==
    ASSUME ServiceInv, NEW pid \in DOMAIN procs, WorkerSteps(pid) \/ WorkerExits(pid)
    PROVE  ServiceInv'
  <1>t. ServiceTypeOK /\ procs \in Seq(Processes) /\ procs[pid] \in Processes
    BY DEF ServiceInv, ServiceTypeOK
  <1>k. ASSUME procs' = Kill({pid}), UNCHANGED <<console, hint, service, markers, escaped>>
        PROVE  ServiceInv'
    <2>1. procs' \in Seq(Processes) /\ LivePids' \subseteq LivePids
      BY <1>t, <1>k, KillKeeps
    <2>2. ServiceTypeOK'
      BY <1>t, <1>k, <2>1 DEF ServiceTypeOK
    <2> QED
      BY <1>k, <2>1, <2>2, AccountKept
  <1>p. ASSUME NEW r \in Processes, Alive(pid), procs' = [procs EXCEPT ![pid] = r],
               UNCHANGED <<console, hint, service, markers, escaped>>
        PROVE  ServiceInv'
    <2>1. procs' \in Seq(Processes) /\ DOMAIN procs' = DOMAIN procs
      BY <1>t, <1>p
    <2>2. LivePids' \subseteq LivePids
      BY <1>p, <2>1 DEF LivePids, Alive
    <2>3. ServiceTypeOK'
      BY <1>t, <1>p, <2>1 DEF ServiceTypeOK
    <2> QED
      BY <1>p, <2>2, <2>3, AccountKept
  <1>b. ASSUME NEW ph \in ServicePhases, Alive(pid), Become(pid, ph),
               UNCHANGED <<console, hint, service, markers, escaped>>
        PROVE  ServiceInv'
    <2>1. [procs[pid] EXCEPT !.phase = ph] \in Processes
      BY <1>t DEF Processes
    <2>2. procs' = [procs EXCEPT ![pid] = [procs[pid] EXCEPT !.phase = ph]]
      BY <1>b DEF Become
    <2> QED
      BY <1>b, <1>p, <2>1, <2>2
  <1>1. CASE ReadDesktop(pid)
    <2>1. SeesDesktop(pid) \in Desktops
      BY <1>t, WindowsServiceAssumption DEF SeesDesktop, ServiceTypeOK
    <2>2. [procs[pid] EXCEPT !.view = SeesDesktop(pid)] \in Processes
      BY <1>t, <2>1 DEF Processes
    <2>3. procs' = [procs EXCEPT ![pid] = [procs[pid] EXCEPT !.view = SeesDesktop(pid)]]
      BY <1>1 DEF ReadDesktop
    <2> QED
      BY <1>1, <1>p, <2>2, <2>3 DEF ReadDesktop
  <1>2. CASE WriteHint(pid)
    <2>1. ServiceTypeOK'
      BY <1>2, <1>t DEF WriteHint, ServiceTypeOK, Processes
    <2>2. LivePids' \subseteq LivePids
      BY <1>2 DEF WriteHint, LivePids, Alive
    <2> QED
      BY <1>2, <2>1, <2>2, AccountKept DEF WriteHint
  <1>3. CASE WaitForOutput(pid)
    BY <1>3, <1>b, <1>k DEF WaitForOutput, ServicePhases
  <1>4. CASE BindServer(pid)
    BY <1>4, <1>b, <1>k DEF BindServer, ServicePhases
  <1>5. CASE WorkerExits(pid)
    BY <1>5, <1>k DEF WorkerExits
  <1> QED
    BY <1>1, <1>2, <1>3, <1>4, <1>5 DEF WorkerSteps

\* A step of the supervisor, of the service control manager or of the console.
LEMMA SupervisorStepKeeps ==
    ASSUME ServiceInv,
           ConsoleSwitches \/ InstallService \/ Uninstall \/ StopControl \/ ServiceCrashes \/ ServiceSteps
    PROVE  ServiceInv'
  <1>t. ServiceTypeOK /\ procs \in Seq(Processes) /\ NoWorkerHandle \in Handles /\ NoWorkerHandle.pid = 0
    BY DEF ServiceInv, ServiceTypeOK, NoWorkerHandle, Handles, NoSession, NoHint
  <1>l. UNCHANGED procs => LivePids' = LivePids
    BY DEF LivePids, Alive
  <1>0. 0 \notin LivePids
    BY <1>t DEF LivePids
  <1> USE DEF ServiceInv, CreatedIsRecordedNext, SpawnsWithEmptyHands, WorkersAccounted, ServiceUp
  <1>1. CASE ConsoleSwitches
    BY <1>1, <1>t, <1>l DEF ConsoleSwitches, ServiceTypeOK
  <1>2. CASE InstallService
    BY <1>2, <1>t, <1>l DEF InstallService, ServiceTypeOK
  <1>3. CASE Uninstall
    BY <1>3, <1>t, <1>l DEF Uninstall, ServiceTypeOK
  <1>4. CASE StopControl
    BY <1>4, <1>t, <1>l DEF StopControl, ServiceTypeOK
  <1>5. CASE ServiceCrashes
    BY <1>5, <1>t, <1>l DEF ServiceCrashes, ServiceTypeOK
  <1>6. CASE ScmRestarts
    BY <1>6, <1>t, <1>l DEF ScmRestarts, ServiceTypeOK
  <1>7. CASE Supervise
    <2>1. ConsoleDesktop \in Desktops
      BY <1>t, WindowsServiceAssumption DEF ConsoleDesktop, ServiceTypeOK
    <2>2. [pid |-> 0, session |-> console.session, desktop |-> ConsoleDesktop] \in Handles
      BY <1>t, <2>1 DEF Handles, ServiceTypeOK
    <2>3. UNCHANGED <<console, hint, procs, markers, escaped>> /\ LivePids' = LivePids
      BY <1>7, <1>l DEF Supervise
    <2>a. service.state = "running" /\ service.step = "tick" /\ service.created = 0
      BY <1>7 DEF Supervise, ServiceAt
    <2> DEFINE plan == [pid |-> 0, session |-> console.session, desktop |-> ConsoleDesktop]
               action == DecideAction(console.session, ConsoleDesktop, service.worker)
    <2>s. action = "spawn" => service.worker = NoWorkerHandle
      BY DEF DecideAction
    <2>n. action \in {"idle", "spawn", "respawn", "stop"}
      BY DEF DecideAction
    <2> HIDE DEF plan, action
    <2>4. CASE action = "idle"
      <3>1. \/ service' = [service EXCEPT !.step = "sleep"]
            \/ /\ service' = [service EXCEPT !.worker = NoWorkerHandle, !.step = "sleep"]
               /\ ~ Alive(service.worker.pid)
        BY <1>7, <2>4, <1>t DEF Supervise, ServiceTypeOK, action
      <3>2. ~ Alive(service.worker.pid) => service.worker.pid \notin LivePids
        BY DEF LivePids
      <3> QED
        BY <1>t, <2>3, <2>a, <3>1, <3>2 DEF ServiceTypeOK
    <2>5. CASE action = "spawn"
      <3>1. service' = [service EXCEPT !.plan = plan, !.step = "spawn"]
        BY <1>7, <2>5 DEF Supervise, action, plan
      <3> QED
        BY <1>t, <2>2, <2>3, <2>a, <2>s, <2>5, <3>1 DEF ServiceTypeOK, plan
    <2>6. CASE action = "respawn"
      <3>1. service' = [service EXCEPT !.plan = plan, !.step = "forget"]
        BY <1>7, <2>6 DEF Supervise, action, plan
      <3> QED
        BY <1>t, <2>2, <2>3, <2>a, <3>1 DEF ServiceTypeOK, plan
    <2>7. CASE action = "stop"
      <3>1. \E st \in {"forget", "sleep"} :
              service' = [service EXCEPT !.plan = NoWorkerHandle, !.step = st]
        BY <1>7, <2>7 DEF Supervise, action
      <3> QED
        BY <1>t, <2>3, <2>a, <3>1 DEF ServiceTypeOK
    <2> QED
      BY <2>n, <2>4, <2>5, <2>6, <2>7
  <1>8. CASE Sleep
    BY <1>8, <1>t, <1>l DEF Sleep, ServiceAt, ServiceTypeOK
  <1>9. CASE ForgetWorker
    BY <1>9, <1>t, <1>l DEF ForgetWorker, AtStop, ServiceTypeOK
  <1>10. CASE RecordWorker
    <2>1. [service.plan EXCEPT !.pid = service.created] \in Handles
          /\ [service.plan EXCEPT !.pid = service.created].pid = service.created
      BY <1>t DEF ServiceTypeOK, Handles
    <2>2. PICK h \in Handles : /\ h.pid = service.created
                               /\ service' = [service EXCEPT !.worker = h, !.plan = NoWorkerHandle, !.created = 0, !.step = "sleep"]
      BY <1>10, <2>1 DEF RecordWorker
    <2>3. service.state = "running" /\ service.worker.pid = 0 /\ UNCHANGED <<console, hint, procs, escaped>>
      BY <1>10 DEF RecordWorker, ServiceAt
    <2>4. ServiceTypeOK'
      BY <1>t, <2>2, <2>3 DEF ServiceTypeOK
    <2>5. LivePids' \subseteq {service.created} \cup escaped
      BY <1>l, <1>0, <2>3
    <2>6. service'.state = "running" /\ service'.worker.pid = service.created
          /\ service'.created = 0 /\ service'.step = "sleep"
      BY <1>t, <2>2, <2>3 DEF ServiceTypeOK
    <2> QED
      BY <2>3, <2>4, <2>5, <2>6
  <1>11. CASE EndService
    BY <1>11, <1>t, <1>l DEF EndService, ServiceAt, AtStop, ServiceTypeOK
  <1>12. ASSUME NEW skips \in BOOLEAN, StartService(skips)
         PROVE  ServiceInv'
    <2> DEFINE gone0 == Reap(IF skips THEN {} ELSE LivePids)
    <2>1. procs' \in Seq(Processes) /\ LivePids' = LivePids \ gone0
      <3> HIDE DEF gone0
      <3>1. procs' = Kill(gone0)
        BY <1>12 DEF StartService, gone0
      <3> QED
        BY <1>t, <3>1, KillKeeps
    <2>2. skips => escaped' = escaped \cup (LivePids \cap markers)
      BY <1>12 DEF StartService, Reapable
    <2>3. ~ skips => escaped' = escaped /\ gone0 = LivePids \cap markers
      BY <1>12 DEF StartService, Reap, Reapable
    <2>4. service.state = "starting" /\ UNCHANGED <<console, hint>>
          /\ service' = [service EXCEPT !.state = "running", !.step = "tick", !.stop = FALSE]
      BY <1>12 DEF StartService
    <2> HIDE DEF gone0
    <2>5. LivePids' \subseteq escaped'
      BY <2>1, <2>2, <2>3, <2>4
    <2>6. service.created = 0
      BY <2>4
    <2> QED
      BY <1>t, <2>1, <2>4, <2>5, <2>6 DEF ServiceTypeOK
  <1>13. ASSUME NEW fails \in BOOLEAN, StopWorker(fails)
         PROVE  ServiceInv'
    <2>1. CASE fails
      <3>1. UNCHANGED <<console, hint, procs, markers, escaped>> /\ LivePids' = LivePids
        BY <1>13, <2>1, <1>l DEF StopWorker
      <3>2. \E st \in {"stopping", "sleep"} : service' = [service EXCEPT !.step = st, !.plan = NoWorkerHandle]
        BY <1>13, <2>1 DEF StopWorker
      <3>3. ServiceUp /\ service.step = "terminate"
        BY <1>13 DEF StopWorker, AtStop
      <3> QED
        BY <1>t, <3>1, <3>2, <3>3 DEF ServiceTypeOK
    <2>2. CASE ~ fails
      <3>1. UNCHANGED <<console, hint, markers, escaped>> /\ procs' = Kill({service.worker.pid})
        BY <1>13, <2>2 DEF StopWorker
      <3>2. \E st \in {"stopping", "sleep", "spawn"} :
              service' = [service EXCEPT !.worker = NoWorkerHandle, !.step = st]
        BY <1>13, <2>2 DEF StopWorker
      <3>3. ServiceUp /\ service.step = "terminate"
        BY <1>13 DEF StopWorker, AtStop
      <3>4. procs' \in Seq(Processes) /\ LivePids' = LivePids \ {service.worker.pid}
        BY <1>t, <3>1, KillKeeps
      <3> QED
        BY <1>t, <3>1, <3>2, <3>3, <3>4 DEF ServiceTypeOK
    <2> QED
      BY <2>1, <2>2
  <1>14. ASSUME NEW fails \in BOOLEAN, LaunchWorker(fails)
         PROVE  ServiceInv'
    <2>a. service.state = "running" /\ service.step = "spawn" /\ UNCHANGED <<console, hint, markers, escaped>>
      BY <1>14 DEF LaunchWorker, ServiceAt
    <2>1. CASE fails
      BY <1>14, <2>1, <2>a, <1>t, <1>l DEF LaunchWorker, ServiceTypeOK
    <2>2. CASE ~ fails
      <3> DEFINE p == [phase |-> "started", session |-> service.plan.session, desktop |-> service.plan.desktop, view |-> NoHint]
      <3>1. p \in Processes
        BY <1>t DEF ServiceTypeOK, Processes, Handles, ServicePhases
      <3>2. procs' = Append(procs, p) /\ service' = [service EXCEPT !.step = "record", !.created = Len(procs) + 1]
        BY <1>14, <2>2 DEF LaunchWorker
      <3> HIDE DEF p
      <3>3. procs' \in Seq(Processes) /\ DOMAIN procs' = DOMAIN procs \cup {Len(procs) + 1}
            /\ \A q \in DOMAIN procs : procs'[q] = procs[q]
        BY <1>t, <3>1, <3>2
      <3>4. LivePids' \subseteq LivePids \cup {Len(procs) + 1}
        BY <3>3 DEF LivePids, Alive
      <3>5. service.created = 0 /\ Len(procs) + 1 \in Nat
        BY <1>t, <2>a
      <3> QED
        BY <1>t, <1>0, <2>a, <3>2, <3>3, <3>4, <3>5 DEF ServiceTypeOK
    <2> QED
      BY <2>1, <2>2
  <1> QED
    BY <1>1, <1>2, <1>3, <1>4, <1>5, <1>6, <1>7, <1>8, <1>9, <1>10, <1>11, <1>12, <1>13, <1>14
    DEF ServiceSteps

\* However often the console switches, the service crashes, its calls fail or it is installed
\* again, no worker runs that service_main neither holds nor clears at its next start, unless
\* its marker was lost with the handle: for every set of sessions and desktops and for any
\* number of workers.
THEOREM WorkersStayAccounted == ServiceSpec => []WindowsServiceSafe
  <1>1. ServiceInit => ServiceInv
    <2> SUFFICES ASSUME ServiceInit PROVE ServiceInv
      OBVIOUS
    <2>1. (CHOOSE s \in ConsoleSessions : TRUE) \in ConsoleSessions
      BY WindowsServiceAssumption
    <2>2. NoWorkerHandle \in Handles /\ NoWorkerHandle.pid = 0 /\ <<>> \in Seq(Processes)
      BY DEF NoWorkerHandle, Handles
    <2>3. ServiceTypeOK
      BY <2>1, <2>2, WindowsServiceAssumption DEF ServiceInit, ServiceTypeOK
    <2>4. LivePids = {}
      BY DEF ServiceInit, LivePids
    <2> QED
      BY <2>2, <2>3, <2>4
      DEF ServiceInit, ServiceInv, CreatedIsRecordedNext, SpawnsWithEmptyHands, WorkersAccounted, ServiceUp
  <1>2. ServiceInv /\ [ServiceNext]_serviceVars => ServiceInv'
    <2> SUFFICES ASSUME ServiceInv, [ServiceNext]_serviceVars PROVE ServiceInv'
      OBVIOUS
    <2>1. CASE UNCHANGED serviceVars
      BY <2>1 DEF serviceVars, ServiceInv, ServiceTypeOK, CreatedIsRecordedNext, SpawnsWithEmptyHands,
                  WorkersAccounted, ServiceUp, LivePids, Alive
    <2>2. CASE ServiceNext
      BY <2>2, WorkerStepKeeps, SupervisorStepKeeps DEF ServiceNext
    <2> QED
      BY <2>1, <2>2
  <1>3. ServiceInv => WindowsServiceSafe
    BY DEF ServiceInv, WorkersAccounted, ServiceUp, WindowsServiceSafe
  <1> QED
    BY <1>1, <1>2, <1>3, PTL DEF ServiceSpec

(***************************************************************************)
(* The client's pairing store.                                             *)
(***************************************************************************)
UpdateKinds == {"save", "delete", "remember"}

\* What load_all would return, the import of the legacy store included.
CurrentRecords == IF present THEN disk ELSE legacy

StoreTypes ==
    /\ StoreTypeOK
    /\ loaded \in [Clients -> Stores]
    /\ todo \in [Clients -> SUBSET PairingIds]

\* Where a call can be, by its kind and by the platform.
CallIsPlaced(c) ==
    /\ storePc[c] \in {"mark", "import", "item"} => KeychainBackend
    /\ storePc[c] \in {"lock", "migrate", "write"} => ~ KeychainBackend
    /\ storePc[c] \in {"lock", "write", "item"} => storeOp[c].kind \in UpdateKinds
    /\ todo[c] # {} => storePc[c] = "import"

\* An update holds the lock from before it loads until it has written.
UpdateHoldsLock(c) ==
    /\ platform = "unix"
    /\ storePc[c] = "write" \/ (storePc[c] \in {"load", "migrate"} /\ storeOp[c].kind \in UpdateKinds)
    => c \in holders

\* What an update is about to write back is still what the store holds.
ReadIsCurrent(c) ==
    platform = "unix" /\ ~ overwritten /\ storePc[c] = "write" => loaded[c] = CurrentRecords

\* The call may still put a record of its id into the store.
MayRevive(c) ==
    /\ storePc[c] # "idle"
    /\ \/ storeOp[c].kind = "save"
       \/ storePc[c] \in {"mark", "import"}
       \/ storePc[c] = "item" /\ storeOp[c].kind = "remember"

\* Nobody is left who would bring a deleted record back.
GoneIsLeft(c) ==
    platform # "windows" /\ ~ overwritten =>
        /\ MayRevive(c) => storeOp[c].id \notin gone
        /\ todo[c] \cap gone = {}
        /\ storePc[c] = "mark" => gone = {}

ClientInv(c) == CallIsPlaced(c) /\ UpdateHoldsLock(c) /\ ReadIsCurrent(c) /\ GoneIsLeft(c)

OneHolder == platform = "unix" => \A c, d \in holders : c = d
AbsentIsEmpty == ~ present /\ ~ KeychainBackend => disk = EmptyStore
GoneIsMigrated == gone # {} => present

StoreInv ==
    /\ StoreTypes
    /\ \A c \in Clients : ClientInv(c)
    /\ OneHolder /\ AbsentIsEmpty /\ GoneIsMigrated
    /\ StoreSerial /\ DeletedStaysGone

\* A step of c leaves the other calls where they are.
OnlyMoves(c) ==
    /\ UNCHANGED <<platform, legacy>>
    /\ \A d \in Clients \ {c} :
         /\ storePc'[d] = storePc[d] /\ storeOp'[d] = storeOp[d]
         /\ loaded'[d] = loaded[d] /\ todo'[d] = todo[d]
         /\ d \in holders' <=> d \in holders

\* The four variables WithRecords moves, for the others.
OnlyCallMoves(c) ==
    \A d \in Clients \ {c} :
         /\ storePc'[d] = storePc[d] /\ storeOp'[d] = storeOp[d]
         /\ loaded'[d] = loaded[d]
         /\ d \in holders' <=> d \in holders

CallTypes ==
    /\ storePc \in [Clients -> {"idle", "lock", "load", "migrate", "write", "mark", "import", "item"}]
    /\ storeOp \in [Clients -> StoreOps]
    /\ loaded \in [Clients -> Stores]
    /\ holders \subseteq Clients

LEMMA StoreConstants ==
    /\ NoPairing \notin Pairings
    /\ NoStoreOp \in StoreOps /\ EmptyStore \in Stores
    /\ StoreCalls \subseteq StoreOps
  <1>1. NoPairing \notin Pairings
    BY DEF NoPairing, Pairings
  <1>2. \A n \in {1, 2} : Fresh(n) \in Pairings
    BY DEF Fresh, Pairings
  <1>3. (CHOOSE i \in PairingIds : TRUE) \in PairingIds
    BY PairingStoreAssumption
  <1>4. NoStoreOp \in StoreOps
    BY <1>2, <1>3 DEF NoStoreOp, StoreOps
  <1>5. EmptyStore \in Stores
    BY DEF EmptyStore, Stores
  <1>6. [Fresh(1) EXCEPT !.trust = "guest"] \in Pairings
    BY <1>2 DEF Pairings
  <1>7. StoreCalls \subseteq StoreOps
    <2> SUFFICES ASSUME NEW o \in StoreCalls PROVE o \in StoreOps
      OBVIOUS
    <2>1. CASE \E k \in {"save", "remember"}, i \in PairingIds, n \in {1, 2} :
                 o = [kind |-> k, id |-> i, rec |-> Fresh(n), fromTrust |-> FALSE]
      BY <1>2, <2>1 DEF StoreOps
    <2>2. CASE \E k \in {"delete", "trust"}, i \in PairingIds :
                 o = [kind |-> k, id |-> i, rec |-> [Fresh(1) EXCEPT !.trust = "guest"], fromTrust |-> FALSE]
      BY <1>6, <2>2 DEF StoreOps
    <2>3. CASE o = NoStoreOp
      BY <1>4, <2>3
    <2> QED
      BY <2>1, <2>2, <2>3 DEF StoreCalls
  <1> QED
    BY <1>1, <1>4, <1>5, <1>7

\* An update makes records of records, touches only its own id, and neither a delete nor an
\* endpoint brings a record into being.
LEMMA UpdatedIsAStore ==
    ASSUME NEW recs \in Stores, NEW o \in StoreOps, o.kind \in UpdateKinds
    PROVE  /\ Updated(recs, o) \in Stores
           /\ \A i \in PairingIds : i # o.id => Updated(recs, o)[i] = recs[i]
           /\ o.kind = "delete" => Updated(recs, o)[o.id] = NoPairing
           /\ o.kind = "remember" /\ recs[o.id] = NoPairing => Updated(recs, o)[o.id] = NoPairing
  <1>t. o.id \in PairingIds /\ o.rec \in Pairings /\ recs[o.id] \in Pairings \cup {NoPairing}
    BY DEF StoreOps, Stores
  <1>1. CASE o.kind = "save"
    BY <1>1, <1>t DEF Updated, Stores
  <1>2. CASE o.kind = "delete"
    BY <1>2, <1>t DEF Updated, Removed, Stores
  <1>3. CASE o.kind = "remember"
    <2>1. Updated(recs, o) = RememberEndpoint(recs, o)
      BY <1>3 DEF Updated
    <2>2. recs[o.id] # NoPairing => [recs[o.id] EXCEPT !.endpoint = 1] \in Pairings
      BY <1>t DEF Pairings
    <2> QED
      BY <1>3, <1>t, <2>1, <2>2 DEF RememberEndpoint, Stores
  <1> QED
    BY <1>1, <1>2, <1>3 DEF UpdateKinds

LEMMA ReturnDoes ==
    ASSUME CallTypes, NEW c \in Clients, StoreReturn(c)
    PROVE  CallTypes' /\ OnlyCallMoves(c) /\ storePc'[c] = "idle" /\ holders' = holders \ {c}
  BY StoreConstants DEF StoreReturn, CallTypes, OnlyCallMoves

\* The three ways on of a call that has its records.
Returned(c) == storePc'[c] = "idle" /\ holders' = holders \ {c}
TurnedToSave(c, recs) ==
    /\ storeOp[c].kind = "trust" /\ recs[storeOp[c].id] # NoPairing
    /\ storePc'[c] = (IF KeychainBackend THEN "item" ELSE "lock")
    /\ storeOp'[c].kind = "save" /\ storeOp'[c].id = storeOp[c].id
    /\ UNCHANGED holders
WentToWrite(c, recs) ==
    /\ storeOp[c].kind \in UpdateKinds
    /\ storeOp[c].kind = "remember" => recs[storeOp[c].id] # NoPairing
    /\ storePc'[c] = (IF KeychainBackend THEN "item" ELSE "write")
    /\ storeOp'[c] = storeOp[c] /\ loaded'[c] = recs
    /\ UNCHANGED holders

LEMMA WithRecordsDoes ==
    ASSUME CallTypes, NEW c \in Clients, NEW recs \in Stores, WithRecords(c, recs)
    PROVE  /\ CallTypes' /\ OnlyCallMoves(c)
           /\ Returned(c) \/ TurnedToSave(c, recs) \/ WentToWrite(c, recs)
  <1> DEFINE o == storeOp[c]
  <1>t. o \in StoreOps /\ o.id \in PairingIds /\ o.rec \in Pairings
    BY DEF CallTypes, StoreOps
  <1>1. CASE StoreReturn(c)
    BY <1>1, ReturnDoes DEF Returned
  <1>2. CASE /\ o.kind = "trust" /\ recs[o.id] # NoPairing
             /\ storeOp' = [storeOp EXCEPT ![c] = [kind |-> "save", id |-> o.id, fromTrust |-> TRUE,
                                                  rec |-> [recs[o.id] EXCEPT !.trust = o.rec.trust]]]
             /\ StoreGo(c, IF KeychainBackend THEN "item" ELSE "lock") /\ UNCHANGED <<loaded, holders>>
    <2>1. recs[o.id] \in Pairings
      BY <1>2, <1>t DEF Stores
    <2>2. [recs[o.id] EXCEPT !.trust = o.rec.trust] \in Pairings
      BY <1>t, <2>1 DEF Pairings
    <2>3. [kind |-> "save", id |-> o.id, fromTrust |-> TRUE,
           rec |-> [recs[o.id] EXCEPT !.trust = o.rec.trust]] \in StoreOps
      BY <1>t, <2>2 DEF StoreOps
    <2>4. CallTypes' /\ OnlyCallMoves(c)
      BY <1>2, <2>3 DEF StoreGo, CallTypes, OnlyCallMoves
    <2>5. storeOp'[c].kind = "save" /\ storeOp'[c].id = o.id
      BY <1>2 DEF CallTypes
    <2>6. storePc'[c] = (IF KeychainBackend THEN "item" ELSE "lock")
      BY <1>2 DEF StoreGo, CallTypes
    <2> QED
      BY <1>2, <2>4, <2>5, <2>6 DEF TurnedToSave
  <1>3. CASE /\ o.kind \in {"save", "delete"} \/ (o.kind = "remember" /\ RememberEndpoint(recs, o) # recs)
             /\ loaded' = [loaded EXCEPT ![c] = recs]
             /\ StoreGo(c, IF KeychainBackend THEN "item" ELSE "write") /\ UNCHANGED <<storeOp, holders>>
    <2>1. CallTypes' /\ OnlyCallMoves(c)
      BY <1>3 DEF StoreGo, CallTypes, OnlyCallMoves
    <2>2. o.kind = "remember" => recs[o.id] # NoPairing
      BY <1>3 DEF RememberEndpoint
    <2>3. storePc'[c] = (IF KeychainBackend THEN "item" ELSE "write") /\ loaded'[c] = recs
      BY <1>3 DEF StoreGo, CallTypes
    <2> QED
      BY <1>3, <2>1, <2>2, <2>3 DEF WentToWrite, UpdateKinds
  <1> QED
    BY <1>1, <1>2, <1>3 DEF WithRecords

\* The calls of the others survive a step of c: the store they are about to write back over is
\* unchanged unless c held the lock, and what becomes gone is nothing they would revive.
LEMMA OthersKept ==
    ASSUME StoreInv, NEW c \in Clients, NEW d \in Clients, d # c, OnlyMoves(c),
           ~ overwritten' => ~ overwritten,
           platform = "unix" /\ ~ overwritten' => CurrentRecords' = CurrentRecords \/ storePc[c] = "write",
           gone' \subseteq gone \/ \E id \in PairingIds : gone' = gone \cup {id} /\ NobodyHolds(c, id)
    PROVE  ClientInv(d)'
  <1>i. ClientInv(c) /\ ClientInv(d) /\ OneHolder
    BY DEF StoreInv
  <1>f. /\ platform' = platform /\ storePc'[d] = storePc[d] /\ storeOp'[d] = storeOp[d]
        /\ loaded'[d] = loaded[d] /\ todo'[d] = todo[d] /\ (d \in holders' <=> d \in holders)
    BY DEF OnlyMoves
  <1>1. CallIsPlaced(d)' /\ UpdateHoldsLock(d)'
    BY <1>i, <1>f DEF ClientInv, CallIsPlaced, UpdateHoldsLock, KeychainBackend
  <1>2. ReadIsCurrent(d)'
    BY <1>i, <1>f DEF ClientInv, ReadIsCurrent, UpdateHoldsLock, OneHolder
  <1>3. GoneIsLeft(d)'
    <2>1. CASE gone' \subseteq gone
      BY <1>i, <1>f, <2>1 DEF ClientInv, GoneIsLeft, MayRevive
    <2>2. ASSUME NEW id \in PairingIds, gone' = gone \cup {id}, NobodyHolds(c, id)
          PROVE  GoneIsLeft(d)'
      <3>1. storePc[d] = "idle" \/ (storePc[d] # "mark" /\ storeOp[d].id # id /\ id \notin todo[d])
        BY <2>2 DEF NobodyHolds
      <3>2. todo[d] # {} => storePc[d] = "import"
        BY <1>i DEF ClientInv, CallIsPlaced
      <3> QED
        BY <1>i, <1>f, <2>2, <3>1, <3>2 DEF ClientInv, GoneIsLeft, MayRevive
    <2> QED
      BY <2>1, <2>2
  <1> QED
    BY <1>1, <1>2, <1>3 DEF ClientInv

\* A call that goes on with records that are the store's, and of which none is gone, is placed
\* and locked as it should be.
LEMMA GoesOnWell ==
    ASSUME StoreInv, NEW c \in Clients, NEW recs \in Stores,
           storePc[c] \in {"load", "migrate", "mark", "import"},
           Returned(c) \/ TurnedToSave(c, recs) \/ WentToWrite(c, recs),
           UNCHANGED <<platform, gone>>, todo'[c] = {},
           ~ overwritten' => ~ overwritten,
           platform = "unix" /\ ~ overwritten' => recs = CurrentRecords',
           platform # "windows" /\ ~ overwritten' /\ recs[storeOp[c].id] # NoPairing
             => storeOp[c].id \notin gone
    PROVE  ClientInv(c)'
  <1>i. ClientInv(c)
    BY DEF StoreInv
  <1>1. CASE Returned(c)
    BY <1>1 DEF Returned, ClientInv, CallIsPlaced, UpdateHoldsLock, ReadIsCurrent, GoneIsLeft, MayRevive
  <1>2. CASE TurnedToSave(c, recs)
    BY <1>2 DEF TurnedToSave, ClientInv, CallIsPlaced, UpdateHoldsLock, ReadIsCurrent, GoneIsLeft,
                MayRevive, KeychainBackend, UpdateKinds
  <1>3. CASE WentToWrite(c, recs)
    <2>1. CallIsPlaced(c)'
      BY <1>3 DEF WentToWrite, CallIsPlaced, KeychainBackend
    <2>2. UpdateHoldsLock(c)'
      BY <1>3, <1>i DEF WentToWrite, ClientInv, UpdateHoldsLock, CallIsPlaced, KeychainBackend
    <2>3. ReadIsCurrent(c)'
      BY <1>3 DEF WentToWrite, ReadIsCurrent
    <2>4. GoneIsLeft(c)'
      <3>1. storePc'[c] \in {"item", "write"}
        BY <1>3 DEF WentToWrite
      <3>2. storeOp[c].kind = "save" => MayRevive(c)
        BY DEF MayRevive
      <3> QED
        BY <1>3, <1>i, <3>1, <3>2 DEF WentToWrite, ClientInv, GoneIsLeft, MayRevive
    <2> QED
      BY <2>1, <2>2, <2>3, <2>4 DEF ClientInv
  <1> QED
    BY <1>1, <1>2, <1>3

\* A step that writes neither the store nor its history.
LEMMA QuietStepKeeps ==
    ASSUME StoreInv, NEW c \in Clients, StoreTypes', OnlyMoves(c), ClientInv(c)', OneHolder',
           UNCHANGED <<platform, legacy, present, disk, ledger, overwritten>>, gone' \subseteq gone
    PROVE  StoreInv'
  <1>1. CurrentRecords' = CurrentRecords
    BY DEF CurrentRecords
  <1>2. \A d \in Clients : d # c => ClientInv(d)'
    BY <1>1, OthersKept
  <1>3. AbsentIsEmpty' /\ GoneIsMigrated'
    BY DEF StoreInv, AbsentIsEmpty, GoneIsMigrated, KeychainBackend, EmptyStore
  <1>4. StoreSerial' /\ DeletedStaysGone'
    BY DEF StoreInv, StoreSerial, DeletedStaysGone
  <1> QED
    BY <1>2, <1>3, <1>4 DEF StoreInv

\* The steps of a call that leave the file and the items alone.
LEMMA CallStepKeeps ==
    ASSUME StoreInv, NEW c \in Clients,
           \/ \E o \in StoreCalls : BeginStoreOp(c, o)
           \/ AcquireStoreLock(c) \/ LoadFile(c) \/ LoadKeychain(c) \/ StoreCallEnds(c)
    PROVE  StoreInv'
  <1>t. StoreTypes /\ CallTypes /\ ClientInv(c) /\ OneHolder
    BY DEF StoreInv, StoreTypes, StoreTypeOK, CallTypes
  <1>h. platform' = platform /\ holders' \subseteq holders => OneHolder'
    BY <1>t DEF OneHolder
  <1>1. ASSUME NEW o \in StoreCalls, BeginStoreOp(c, o) PROVE StoreInv'
    <2>1. o \in StoreOps
      BY StoreConstants
    <2>u. /\ UNCHANGED <<platform, legacy, present, disk, holders, loaded, todo, ledger, overwritten>>
          /\ storePc[c] = "idle" /\ gone' \subseteq gone /\ begun' = begun + 1 /\ begun < MaxStoreOps
          /\ o.kind = "save" => gone' = gone \ {o.id}
      BY <1>1 DEF BeginStoreOp
    <2>p. PICK pc \in {"load", "item", "lock"} :
              /\ storePc' = [storePc EXCEPT ![c] = pc]
              /\ pc = "item" => KeychainBackend /\ o.kind \in {"save", "delete"}
              /\ pc = "lock" => ~ KeychainBackend /\ o.kind \in UpdateKinds
              /\ pc = "load" /\ ~ KeychainBackend => o.kind \in {"list", "trust"}
      <3>1. o.kind \in {"save", "delete", "remember", "list", "trust"}
        BY <2>1 DEF StoreOps
      <3> QED
        BY <1>1, <3>1 DEF BeginStoreOp, StoreGo, UpdateKinds
    <2>2. /\ storePc'[c] = pc /\ storeOp'[c] = o
          /\ CallTypes' /\ OnlyMoves(c)
      BY <1>1, <1>t, <2>1, <2>u, <2>p DEF BeginStoreOp, CallTypes, OnlyMoves
    <2>3. begun' \in 0 .. MaxStoreOps
      BY <1>t, <2>u, PairingStoreAssumption DEF StoreTypes, StoreTypeOK
    <2>4. StoreTypes'
      BY <1>t, <2>u, <2>2, <2>3 DEF StoreTypes, StoreTypeOK, CallTypes
    <2>5. todo[c] = {}
      BY <1>t, <2>u DEF ClientInv, CallIsPlaced
    <2>6. ClientInv(c)'
      <3>1. CallIsPlaced(c)'
        BY <2>u, <2>p, <2>2, <2>5 DEF CallIsPlaced, KeychainBackend, UpdateKinds
      <3>2. UpdateHoldsLock(c)' /\ ReadIsCurrent(c)'
        BY <2>u, <2>p, <2>2 DEF UpdateHoldsLock, ReadIsCurrent, KeychainBackend, UpdateKinds
      <3>3. GoneIsLeft(c)'
        BY <2>u, <2>p, <2>2, <2>5 DEF GoneIsLeft, MayRevive
      <3> QED
        BY <3>1, <3>2, <3>3 DEF ClientInv
    <2> QED
      BY <1>t, <1>h, <2>u, <2>2, <2>4, <2>6, QuietStepKeeps
  <1>2. CASE AcquireStoreLock(c)
    <2>u. /\ UNCHANGED <<platform, legacy, present, disk, storeOp, loaded, todo, begun, ledger, overwritten, gone>>
          /\ storePc[c] = "lock" /\ storePc' = [storePc EXCEPT ![c] = "load"]
          /\ holders' = holders \cup {c} /\ (platform = "unix" => holders = {})
      BY <1>2 DEF AcquireStoreLock, StoreGo, LockFree, history
    <2>1. storePc'[c] = "load" /\ CallTypes' /\ OnlyMoves(c)
      BY <1>t, <2>u DEF CallTypes, OnlyMoves
    <2>2. StoreTypes'
      BY <1>t, <2>u, <2>1 DEF StoreTypes, StoreTypeOK, CallTypes
    <2>3. OneHolder'
      BY <2>u DEF OneHolder
    <2>4. ClientInv(c)'
      BY <1>t, <2>u, <2>1 DEF ClientInv, CallIsPlaced, UpdateHoldsLock, ReadIsCurrent, GoneIsLeft, MayRevive
    <2> QED
      BY <2>u, <2>1, <2>2, <2>3, <2>4, QuietStepKeeps
  <1>w. ASSUME NEW recs \in Stores, WithRecords(c, recs), storePc[c] = "load",
               UNCHANGED <<platform, legacy, present, disk, todo, begun, ledger, overwritten, gone>>,
               platform = "unix" => recs = CurrentRecords,
               recs = disk
        PROVE  StoreInv'
    <2>1. /\ CallTypes' /\ OnlyCallMoves(c)
          /\ Returned(c) \/ TurnedToSave(c, recs) \/ WentToWrite(c, recs)
      BY <1>t, <1>w, WithRecordsDoes
    <2>2. OnlyMoves(c)
      BY <1>w, <2>1 DEF OnlyMoves, OnlyCallMoves
    <2>3. StoreTypes'
      BY <1>t, <1>w, <2>1 DEF StoreTypes, StoreTypeOK, CallTypes
    <2>4. OneHolder'
      BY <1>w, <1>h, <2>1 DEF Returned, TurnedToSave, WentToWrite
    <2>5. todo'[c] = {} /\ CurrentRecords' = CurrentRecords
      BY <1>t, <1>w DEF ClientInv, CallIsPlaced, CurrentRecords
    <2>6. platform # "windows" /\ ~ overwritten' /\ recs[storeOp[c].id] # NoPairing
            => storeOp[c].id \notin gone
      BY <1>w DEF StoreInv, DeletedStaysGone
    <2>7. ClientInv(c)'
      BY <1>w, <2>1, <2>5, <2>6, GoesOnWell
    <2> QED
      BY <1>w, <2>2, <2>3, <2>4, <2>7, QuietStepKeeps
  <1>g. ASSUME NEW pc \in {"migrate", "mark"}, storePc[c] = "load", StoreGo(c, pc),
               UNCHANGED <<platform, legacy, present, disk, todo, begun, ledger, overwritten, gone>>,
               UNCHANGED <<storeOp, holders>>, ~ present,
               pc = "migrate" <=> ~ KeychainBackend,
               loaded' \in [Clients -> Stores], \A d \in Clients \ {c} : loaded'[d] = loaded[d]
        PROVE  StoreInv'
    <2>1. storePc'[c] = pc /\ CallTypes' /\ OnlyMoves(c)
      BY <1>t, <1>g DEF CallTypes, OnlyMoves, StoreGo
    <2>2. StoreTypes'
      BY <1>t, <1>g, <2>1 DEF StoreTypes, StoreTypeOK, CallTypes
    <2>3. gone = {}
      BY <1>g DEF StoreInv, GoneIsMigrated
    <2>4. ClientInv(c)'
      BY <1>t, <1>g, <2>1, <2>3
      DEF ClientInv, CallIsPlaced, UpdateHoldsLock, ReadIsCurrent, GoneIsLeft, MayRevive, KeychainBackend
    <2> QED
      BY <1>t, <1>g, <1>h, <2>1, <2>2, <2>4, QuietStepKeeps
  <1>3. CASE LoadFile(c)
    <2>u. /\ UNCHANGED <<platform, legacy, present, disk, todo, begun, ledger, overwritten, gone>>
          /\ storePc[c] = "load" /\ ~ KeychainBackend
      BY <1>3 DEF LoadFile, history
    <2>1. CASE ~ present /\ IdsIn(legacy) # {}
      BY <1>3, <1>t, <1>g, <2>u, <2>1 DEF LoadFile, CallTypes
    <2>2. CASE ~ (~ present /\ IdsIn(legacy) # {})
      <3>1. WithRecords(c, disk)
        BY <1>3, <2>2 DEF LoadFile
      <3>2. disk = CurrentRecords
        <4>1. CASE present
          BY <4>1 DEF CurrentRecords
        <4>2. CASE ~ present
          <5>1. disk = EmptyStore
            BY <2>u, <4>2 DEF StoreInv, AbsentIsEmpty
          <5>2. \A i \in PairingIds : legacy[i] = NoPairing
            BY <2>2, <4>2 DEF IdsIn
          <5>3. legacy \in Stores
            BY <1>t DEF StoreTypes, StoreTypeOK
          <5>4. legacy = EmptyStore
            BY <5>2, <5>3 DEF Stores, EmptyStore
          <5> QED
            BY <4>2, <5>1, <5>4 DEF CurrentRecords
        <4> QED
          BY <4>1, <4>2
      <3>3. disk \in Stores
        BY <1>t DEF StoreTypes, StoreTypeOK
      <3> QED
        BY <1>w, <2>u, <3>1, <3>2, <3>3
    <2> QED
      BY <2>1, <2>2
  <1>4. CASE LoadKeychain(c)
    <2>u. /\ UNCHANGED <<platform, legacy, present, disk, todo, begun, ledger, overwritten, gone>>
          /\ storePc[c] = "load" /\ KeychainBackend /\ platform # "unix"
      BY <1>4 DEF LoadKeychain, history, KeychainBackend
    <2>d. disk \in Stores
      BY <1>t DEF StoreTypes, StoreTypeOK
    <2>1. CASE WithRecords(c, disk)
      BY <1>w, <2>u, <2>d, <2>1
    <2>2. CASE /\ ~ present /\ loaded' = [loaded EXCEPT ![c] = disk]
               /\ StoreGo(c, "mark") /\ UNCHANGED <<storeOp, holders>>
      <3>1. loaded' \in [Clients -> Stores] /\ \A d \in Clients \ {c} : loaded'[d] = loaded[d]
        BY <1>t, <2>d, <2>2 DEF CallTypes
      <3> QED
        BY <1>g, <2>u, <2>2, <3>1
    <2> QED
      BY <1>4, <2>1, <2>2 DEF LoadKeychain
  <1>5. CASE StoreCallEnds(c)
    <2>u. /\ UNCHANGED <<platform, legacy, present, disk, begun, ledger, overwritten, gone>>
          /\ StoreReturn(c) /\ todo' = [todo EXCEPT ![c] = {}]
      BY <1>5 DEF StoreCallEnds, history
    <2>1. CallTypes' /\ OnlyCallMoves(c) /\ storePc'[c] = "idle" /\ holders' = holders \ {c}
      BY <1>t, <2>u, ReturnDoes
    <2>2. todo' \in [Clients -> SUBSET PairingIds] /\ todo'[c] = {} /\ OnlyMoves(c)
      BY <1>t, <2>u, <2>1 DEF StoreTypes, OnlyMoves, OnlyCallMoves
    <2>3. StoreTypes'
      BY <1>t, <2>u, <2>1, <2>2 DEF StoreTypes, StoreTypeOK, CallTypes
    <2>4. ClientInv(c)'
      BY <2>1, <2>2 DEF ClientInv, CallIsPlaced, UpdateHoldsLock, ReadIsCurrent, GoneIsLeft, MayRevive
    <2> QED
      BY <1>h, <2>u, <2>1, <2>2, <2>3, <2>4, QuietStepKeeps
  <1> QED
    BY <1>1, <1>2, <1>3, <1>4, <1>5

\* The steps that write the file.
LEMMA FileWriteKeeps ==
    ASSUME StoreInv, NEW c \in Clients, MigrateFile(c) \/ WriteFile(c)
    PROVE  StoreInv'
  <1>t. StoreTypes /\ CallTypes /\ ClientInv(c) /\ OneHolder
    BY DEF StoreInv, StoreTypes, StoreTypeOK, CallTypes
  <1>h. platform' = platform /\ holders' \subseteq holders => OneHolder'
    BY <1>t DEF OneHolder
  <1>1. CASE MigrateFile(c)
    <2>u. /\ UNCHANGED <<platform, legacy, todo, begun, ledger, gone>>
          /\ storePc[c] = "migrate" /\ disk' = legacy /\ present' = TRUE
          /\ WithRecords(c, legacy)
          /\ overwritten' \in BOOLEAN
          /\ ~ overwritten' => ~ overwritten /\ ~ present
      BY <1>1 DEF MigrateFile
    <2>l. legacy \in Stores
      BY <1>t DEF StoreTypes, StoreTypeOK
    <2>1. /\ CallTypes' /\ OnlyCallMoves(c)
          /\ Returned(c) \/ TurnedToSave(c, legacy) \/ WentToWrite(c, legacy)
      BY <1>t, <2>u, <2>l, WithRecordsDoes
    <2>2. OnlyMoves(c)
      BY <2>u, <2>1 DEF OnlyMoves, OnlyCallMoves
    <2>3. StoreTypes'
      BY <1>t, <2>u, <2>l, <2>1 DEF StoreTypes, StoreTypeOK, CallTypes
    <2>4. OneHolder'
      BY <2>u, <1>h, <2>1 DEF Returned, TurnedToSave, WentToWrite
    <2>5. todo'[c] = {} /\ CurrentRecords' = legacy
      BY <1>t, <2>u DEF ClientInv, CallIsPlaced, CurrentRecords
    <2>6. ~ overwritten' => gone = {} /\ CurrentRecords = legacy
      BY <2>u DEF StoreInv, GoneIsMigrated, CurrentRecords
    <2>7. ClientInv(c)'
      BY <2>u, <2>l, <2>1, <2>5, <2>6, GoesOnWell
    <2>8. \A d \in Clients : d # c => ClientInv(d)'
      BY <2>u, <2>2, <2>5, <2>6, OthersKept
    <2>9. AbsentIsEmpty' /\ GoneIsMigrated'
      BY <2>u DEF AbsentIsEmpty, GoneIsMigrated
    <2>10. StoreSerial'
      BY <2>u DEF StoreInv, StoreSerial
    <2>11. DeletedStaysGone'
      BY <2>u, <2>6 DEF DeletedStaysGone
    <2> QED
      BY <2>3, <2>4, <2>7, <2>8, <2>9, <2>10, <2>11 DEF StoreInv
  <1>2. CASE WriteFile(c)
    <2> DEFINE o == storeOp[c]
               old == loaded[c]
    <2>u. /\ UNCHANGED <<platform, legacy, todo, begun, overwritten>>
          /\ storePc[c] = "write" /\ disk' = Updated(old, o) /\ present' = TRUE
          /\ ledger' = Updated(ledger, o) /\ StoreReturn(c)
      BY <1>2 DEF WriteFile
    <2>g. \/ gone' = gone
          \/ o.kind = "delete" /\ gone' = gone \cup {o.id} /\ NobodyHolds(c, o.id)
      BY <1>2 DEF WriteFile
    <2>o. o \in StoreOps /\ o.id \in PairingIds /\ old \in Stores /\ ledger \in Stores
          /\ o.kind \in UpdateKinds /\ ~ KeychainBackend
      BY <1>t, <2>u DEF StoreTypes, StoreTypeOK, StoreOps, ClientInv, CallIsPlaced
    <2>c. platform = "unix" /\ ~ overwritten => old = CurrentRecords /\ ledger = CurrentRecords
      BY <1>t, <2>u DEF ClientInv, ReadIsCurrent, StoreInv, StoreSerial, CurrentRecords
    <2>s. o.kind = "save" /\ platform # "windows" /\ ~ overwritten => o.id \notin gone
      BY <1>t, <2>u DEF ClientInv, GoneIsLeft, MayRevive
    <2> HIDE DEF o, old
    <2>d. /\ disk' \in Stores
          /\ \A i \in PairingIds : i # o.id => disk'[i] = old[i]
          /\ o.kind = "delete" => disk'[o.id] = NoPairing
          /\ o.kind = "remember" /\ old[o.id] = NoPairing => disk'[o.id] = NoPairing
      BY <2>u, <2>o, UpdatedIsAStore
    <2>1. CallTypes' /\ OnlyCallMoves(c) /\ storePc'[c] = "idle" /\ holders' = holders \ {c}
      BY <1>t, <2>u, ReturnDoes
    <2>2. OnlyMoves(c)
      BY <2>u, <2>1 DEF OnlyMoves, OnlyCallMoves
    <2>3. ledger' \in Stores /\ gone' \subseteq PairingIds
      BY <1>t, <2>u, <2>g, <2>o, UpdatedIsAStore DEF StoreTypes, StoreTypeOK
    <2>4. StoreTypes'
      BY <1>t, <2>u, <2>d, <2>1, <2>3 DEF StoreTypes, StoreTypeOK, CallTypes
    <2>5. todo'[c] = {}
      BY <1>t, <2>u DEF ClientInv, CallIsPlaced
    <2>6. ClientInv(c)'
      BY <2>1, <2>5 DEF ClientInv, CallIsPlaced, UpdateHoldsLock, ReadIsCurrent, GoneIsLeft, MayRevive
    <2>7. \A d \in Clients : d # c => ClientInv(d)'
      BY <2>u, <2>g, <2>o, <2>2, OthersKept
    <2>8. AbsentIsEmpty' /\ GoneIsMigrated' /\ OneHolder'
      BY <2>u, <1>h, <2>1 DEF AbsentIsEmpty, GoneIsMigrated
    <2>9. StoreSerial'
      BY <2>u, <2>c DEF StoreSerial
    <2>10. DeletedStaysGone'
      <3> SUFFICES ASSUME platform # "windows", ~ overwritten, NEW i \in gone' PROVE disk'[i] = NoPairing
        BY <2>u DEF DeletedStaysGone
      <3>1. platform = "unix"
        BY <1>t, <2>o DEF StoreTypes, StoreTypeOK, KeychainBackend
      <3>2. i \in PairingIds
        BY <2>3
      <3>3. CASE i = o.id /\ i \notin gone
        BY <2>g, <2>d, <3>3
      <3>4. CASE i \in gone
        <4>1. old[i] = NoPairing
          BY <2>c, <3>1, <3>4 DEF StoreInv, GoneIsMigrated, DeletedStaysGone, CurrentRecords
        <4>2. i = o.id => o.kind \in {"delete", "remember"}
          BY <2>s, <2>o, <3>4 DEF UpdateKinds
        <4> QED
          BY <2>d, <3>2, <4>1, <4>2
      <3> QED
        BY <2>g, <3>3, <3>4
    <2> QED
      BY <2>4, <2>6, <2>7, <2>8, <2>9, <2>10 DEF StoreInv
  <1> QED
    BY <1>1, <1>2

\* The steps that set the migration marker and write Keychain items.
LEMMA ItemWriteKeeps ==
    ASSUME StoreInv, NEW c \in Clients, MarkMigrated(c) \/ ImportItem(c) \/ WriteItem(c)
    PROVE  StoreInv'
  <1>t. StoreTypes /\ CallTypes /\ ClientInv(c) /\ OneHolder
    BY DEF StoreInv, StoreTypes, StoreTypeOK, CallTypes
  <1>k. KeychainBackend /\ platform = "keychain"
    BY <1>t DEF MarkMigrated, ImportItem, WriteItem, ClientInv, CallIsPlaced, KeychainBackend
  <1>x. platform' = platform => OneHolder' /\ StoreSerial' /\ AbsentIsEmpty'
    BY <1>k DEF OneHolder, StoreSerial, AbsentIsEmpty, KeychainBackend
  <1>l. legacy \in Stores /\ disk \in Stores /\ loaded[c] \in Stores
    BY <1>t DEF StoreTypes, StoreTypeOK
  <1>1. CASE MarkMigrated(c)
    <2>u. /\ UNCHANGED <<platform, legacy, disk, begun, ledger, overwritten, gone>>
          /\ storePc[c] = "mark" /\ present' = TRUE
      BY <1>1 DEF MarkMigrated, history
    <2>e. todo[c] = {} /\ (~ overwritten => gone = {})
      BY <1>t, <1>k, <2>u DEF ClientInv, CallIsPlaced, GoneIsLeft
    <2>1. CASE /\ todo' = [todo EXCEPT ![c] = IdsIn(legacy)]
               /\ StoreGo(c, "import") /\ UNCHANGED <<storeOp, loaded, holders>>
      <3>1. IdsIn(legacy) \subseteq PairingIds
        BY DEF IdsIn
      <3>2. CallTypes' /\ OnlyMoves(c) /\ storePc'[c] = "import" /\ todo' \in [Clients -> SUBSET PairingIds]
        BY <1>t, <2>u, <2>1, <3>1 DEF StoreTypes, CallTypes, OnlyMoves, StoreGo
      <3>3. StoreTypes'
        BY <1>t, <2>u, <3>2 DEF StoreTypes, StoreTypeOK, CallTypes
      <3>4. ClientInv(c)'
        BY <1>k, <2>u, <2>e, <3>2
        DEF ClientInv, CallIsPlaced, UpdateHoldsLock, ReadIsCurrent, GoneIsLeft, MayRevive, KeychainBackend
      <3> QED
        BY <1>k, <1>x, <2>u, <3>2, <3>3, <3>4, OthersKept
        DEF StoreInv, GoneIsMigrated, DeletedStaysGone
    <2>2. CASE WithRecords(c, loaded[c]) /\ UNCHANGED todo
      <3>1. /\ CallTypes' /\ OnlyCallMoves(c)
            /\ Returned(c) \/ TurnedToSave(c, loaded[c]) \/ WentToWrite(c, loaded[c])
        BY <1>t, <1>l, <2>2, WithRecordsDoes
      <3>2. OnlyMoves(c)
        BY <2>u, <2>2, <3>1 DEF OnlyMoves, OnlyCallMoves
      <3>3. StoreTypes'
        BY <1>t, <2>u, <2>2, <3>1 DEF StoreTypes, StoreTypeOK, CallTypes
      <3>4. ClientInv(c)'
        BY <1>k, <1>l, <2>u, <2>e, <2>2, <3>1, GoesOnWell
      <3> QED
        BY <1>k, <1>x, <2>u, <3>2, <3>3, <3>4, OthersKept
        DEF StoreInv, GoneIsMigrated, DeletedStaysGone
    <2> QED
      BY <1>1, <2>1, <2>2 DEF MarkMigrated
  <1>2. CASE ImportItem(c)
    <2>u. /\ UNCHANGED <<platform, legacy, present, begun, ledger, overwritten, gone>>
          /\ storePc[c] = "import"
      BY <1>2 DEF ImportItem, history
    <2>1. ASSUME NEW i \in todo[c], disk' = [disk EXCEPT ![i] = legacy[i]],
                 todo' = [todo EXCEPT ![c] = @ \ {i}], UNCHANGED <<storePc, storeOp, loaded, holders>>
          PROVE  StoreInv'
      <3>1. i \in PairingIds /\ disk' \in Stores /\ todo' \in [Clients -> SUBSET PairingIds]
            /\ todo'[c] \subseteq todo[c]
        BY <1>t, <1>l, <2>1 DEF StoreTypes, Stores
      <3>2. OnlyMoves(c)
        BY <1>t, <2>u, <2>1 DEF OnlyMoves, StoreTypes
      <3>3. StoreTypes'
        BY <1>t, <2>u, <2>1, <3>1 DEF StoreTypes, StoreTypeOK
      <3>4. ClientInv(c)'
        BY <1>t, <1>k, <2>u, <2>1, <3>1
        DEF ClientInv, CallIsPlaced, UpdateHoldsLock, ReadIsCurrent, GoneIsLeft, MayRevive, KeychainBackend
      <3>5. ~ overwritten => i \notin gone
        BY <1>t, <1>k, <2>1 DEF ClientInv, GoneIsLeft
      <3>6. DeletedStaysGone'
        BY <1>l, <2>u, <2>1, <3>1, <3>5 DEF StoreInv, DeletedStaysGone, Stores
      <3> QED
        BY <1>k, <1>x, <2>u, <3>2, <3>3, <3>4, <3>6, OthersKept DEF StoreInv, GoneIsMigrated
    <2>2. CASE todo[c] = {} /\ WithRecords(c, legacy) /\ UNCHANGED <<disk, todo>>
      <3>1. /\ CallTypes' /\ OnlyCallMoves(c)
            /\ Returned(c) \/ TurnedToSave(c, legacy) \/ WentToWrite(c, legacy)
        BY <1>t, <1>l, <2>2, WithRecordsDoes
      <3>2. OnlyMoves(c)
        BY <2>u, <2>2, <3>1 DEF OnlyMoves, OnlyCallMoves
      <3>3. StoreTypes'
        BY <1>t, <2>u, <2>2, <3>1 DEF StoreTypes, StoreTypeOK, CallTypes
      <3>4. ~ overwritten => storeOp[c].id \notin gone
        BY <1>t, <1>k, <2>u DEF ClientInv, GoneIsLeft, MayRevive
      <3>5. ClientInv(c)'
        BY <1>k, <1>l, <2>u, <2>2, <3>1, <3>4, GoesOnWell
      <3> QED
        BY <1>k, <1>x, <2>u, <2>2, <3>2, <3>3, <3>5, OthersKept
        DEF StoreInv, GoneIsMigrated, DeletedStaysGone
    <2> QED
      BY <1>2, <2>1, <2>2 DEF ImportItem
  <1>3. CASE WriteItem(c)
    <2> DEFINE o == storeOp[c]
               new == IF o.kind = "remember" THEN Updated(loaded[c], o)[o.id] ELSE Updated(disk, o)[o.id]
    <2>u. /\ UNCHANGED <<platform, legacy, present, todo, begun, ledger, overwritten>>
          /\ storePc[c] = "item" /\ disk' = [disk EXCEPT ![o.id] = new] /\ StoreReturn(c)
      BY <1>3 DEF WriteItem
    <2>g. \/ gone' = gone
          \/ o.kind = "delete" /\ present /\ gone' = gone \cup {o.id} /\ NobodyHolds(c, o.id)
      BY <1>3 DEF WriteItem
    <2>o. o \in StoreOps /\ o.id \in PairingIds /\ o.kind \in UpdateKinds
      BY <1>t, <2>u DEF StoreTypes, StoreTypeOK, StoreOps, ClientInv, CallIsPlaced
    <2>s. o.kind \in {"save", "remember"} /\ ~ overwritten => o.id \notin gone
      BY <1>t, <1>k, <2>u DEF ClientInv, GoneIsLeft, MayRevive
    <2>n. new \in Pairings \cup {NoPairing} /\ (o.kind = "delete" => new = NoPairing)
      <3> HIDE DEF o
      <3>1. Updated(loaded[c], o) \in Stores /\ Updated(disk, o) \in Stores
            /\ (o.kind = "delete" => Updated(disk, o)[o.id] = NoPairing)
        BY <1>l, <2>o, UpdatedIsAStore
      <3> QED
        BY <2>o, <3>1 DEF Stores
    <2> HIDE DEF o, new
    <2>d. disk' \in Stores /\ disk'[o.id] = new /\ \A i \in PairingIds : i # o.id => disk'[i] = disk[i]
      BY <1>l, <2>u, <2>o, <2>n DEF Stores
    <2>1. CallTypes' /\ OnlyCallMoves(c) /\ storePc'[c] = "idle" /\ holders' = holders \ {c}
      BY <1>t, <2>u, ReturnDoes
    <2>2. OnlyMoves(c)
      BY <2>u, <2>1 DEF OnlyMoves, OnlyCallMoves
    <2>3. gone' \subseteq PairingIds
      BY <1>t, <2>g, <2>o DEF StoreTypes, StoreTypeOK
    <2>4. StoreTypes'
      BY <1>t, <2>u, <2>d, <2>1, <2>3 DEF StoreTypes, StoreTypeOK, CallTypes
    <2>5. todo'[c] = {}
      BY <1>t, <2>u DEF ClientInv, CallIsPlaced
    <2>6. ClientInv(c)'
      BY <2>1, <2>5 DEF ClientInv, CallIsPlaced, UpdateHoldsLock, ReadIsCurrent, GoneIsLeft, MayRevive
    <2>7. \A d \in Clients : d # c => ClientInv(d)'
      BY <1>k, <2>u, <2>g, <2>o, <2>2, OthersKept
    <2>8. GoneIsMigrated'
      BY <2>u, <2>g DEF StoreInv, GoneIsMigrated
    <2>9. DeletedStaysGone'
      <3> SUFFICES ASSUME ~ overwritten, NEW i \in gone' PROVE disk'[i] = NoPairing
        BY <2>u DEF DeletedStaysGone
      <3>1. CASE i = o.id
        <4>1. o.kind = "delete"
          BY <2>g, <2>o, <2>s, <3>1 DEF UpdateKinds
        <4> QED
          BY <2>d, <2>n, <3>1, <4>1
      <3>2. CASE i # o.id
        BY <1>k, <2>g, <2>d, <2>3, <3>2 DEF StoreInv, DeletedStaysGone
      <3> QED
        BY <3>1, <3>2
    <2> QED
      BY <1>x, <2>u, <2>4, <2>6, <2>7, <2>8, <2>9 DEF StoreInv
  <1> QED
    BY <1>1, <1>2, <1>3

\* For any number of processes and records: on Unix no update of the store is lost and what
\* load_all returns is what the updates made one after the other, and, there and in the Keychain,
\* a deleted pairing does not come back, whatever call fails or process ends on the way (a
\* migration that renamed over an existing file apart, which is the recorded weakness).
THEOREM PairingStoreStaysSafe == StoreSpec => []PairingStoreSafe
  <1>1. StoreInit => StoreInv
    <2> SUFFICES ASSUME StoreInit PROVE StoreInv
      OBVIOUS
    <2>1. Fresh(1) \in Pairings
      BY DEF Fresh, Pairings
    <2>2. legacy \in Stores
      BY <2>1 DEF StoreInit, Stores
    <2>3. disk \in Stores /\ present \in BOOLEAN /\ ledger \in Stores /\ (~ present => disk = EmptyStore)
      BY <2>2, StoreConstants DEF StoreInit
    <2>4. begun \in 0 .. MaxStoreOps
      BY PairingStoreAssumption DEF StoreInit
    <2>5. StoreTypes
      BY <2>2, <2>3, <2>4, StoreConstants DEF StoreInit, StoreTypes, StoreTypeOK
    <2>6. \A c \in Clients : storePc[c] = "idle" /\ todo[c] = {}
      BY DEF StoreInit
    <2>7. gone = {} /\ holders = {} /\ ~ overwritten
      BY DEF StoreInit
    <2>8. \A c \in Clients : ClientInv(c)
      BY <2>6, <2>7 DEF ClientInv, CallIsPlaced, UpdateHoldsLock, ReadIsCurrent, GoneIsLeft, MayRevive
    <2>9. StoreSerial
      BY DEF StoreInit, StoreSerial
    <2> QED
      BY <2>3, <2>5, <2>7, <2>8, <2>9
      DEF StoreInv, OneHolder, AbsentIsEmpty, GoneIsMigrated, DeletedStaysGone
  <1>2. StoreInv /\ [StoreNext]_storeVars => StoreInv'
    <2> SUFFICES ASSUME StoreInv, [StoreNext]_storeVars PROVE StoreInv'
      OBVIOUS
    <2>1. CASE UNCHANGED storeVars
      BY <2>1
      DEF storeVars, StoreInv, StoreTypes, StoreTypeOK, ClientInv, CallIsPlaced, UpdateHoldsLock,
          ReadIsCurrent, GoneIsLeft, MayRevive, OneHolder, AbsentIsEmpty, GoneIsMigrated,
          StoreSerial, DeletedStaysGone, CurrentRecords, KeychainBackend
    <2>2. CASE StoreNext
      BY <2>2, CallStepKeeps, FileWriteKeeps, ItemWriteKeeps DEF StoreNext
    <2> QED
      BY <2>1, <2>2
  <1>3. StoreInv => PairingStoreSafe
    BY DEF StoreInv, StoreTypes, PairingStoreSafe
  <1> QED
    BY <1>1, <1>2, <1>3, PTL DEF StoreSpec
(***************************************************************************)
(* Input injection.  A handler is a set of outcomes, so each has a lemma   *)
(* about every outcome: Effect says that what the desktop holds            *)
(* afterwards is what it held, what the event presses, and nothing that it *)
(* releases, unless a release did not arrive, and that the injector still  *)
(* tracks it.                                                              *)
(***************************************************************************)
\* What can be held on the desktop, and the injectors over it.
Targets == Keys \cup {"left", "packet"} \cup Pads
Injectors ==
    [held : SUBSET Targets, keys : SUBSET Keys, buttons : SUBSET {"left"}, mods : SUBSET Modifier,
     pads : SUBSET Pads, report : SUBSET Pads, batch : 0 .. BatchMax - 1, high : BOOLEAN,
     tokens : 0 .. Burst, source : BOOLEAN, trusted : BOOLEAN, disorder : BOOLEAN,
     stuck : BOOLEAN, lost : BOOLEAN, faults : 0 .. MaxFailures]

\* What a Reset of the injector s releases.
ReleasableBy(s) ==
    s.keys \cup s.pads \cup (IF os = "linux" THEN {"left", "shift", "rshift", "caps"}
                             ELSE IF os = "windows" THEN {"left", "shift"} ELSE s.buttons)
\* The injector knows what it is to release; on Windows also by which of its books.
Tracked(s) ==
    /\ ~ s.lost => s.held \subseteq ReleasableBy(s)
    /\ s.lost => s.stuck
    /\ os # "linux" => s.batch = 0
    /\ os = "macos" => s.pads = {}
    /\ (os = "windows" /\ ~ s.stuck) =>
          /\ "left" \in s.held => "left" \in s.buttons
          /\ "shift" \in s.held => "SHIFT" \in s.mods \/ "shift" \in s.keys
    /\ ~ s.disorder
\* As long as every release arrived, the desktop holds what the peer holds and may hold.
OnlyWanted(s) ==
    ~ s.stuck => /\ s.held \ Synthesized \subseteq wanted
                 /\ "keyboard" \notin perm => s.held \cap Keys = {}
                 /\ "mouse" \notin perm => "left" \notin s.held
                 /\ "gamepad" \notin perm => s.held \cap Pads = {}
                 /\ phase = "ended" => s.held = {}
\* Inductive: InjectionSafe with the types, and with what the injector knows of what is held.
InjectionInv ==
    /\ os \in Systems
    /\ dev \in Injectors
    /\ perm \subseteq Permissions /\ (os = "macos" => "gamepad" \notin perm)
    /\ wanted \subseteq Keys \cup {"left", "unmapped"} \cup Pads \cup ExcessPads
    /\ injected \in BOOLEAN /\ phase \in {"up", "ended"}
    /\ Tracked(dev) /\ OnlyWanted(dev)

Events == Targets \X BOOLEAN
\* Does the batch release anything?
Releasing(batch) == \E i \in DOMAIN batch : ~ batch[i][2]

\* A set written down as a sequence has the set's elements, each in one place.
LEMMA ListOfSet ==
    ASSUME NEW S, IsFiniteSet(S)
    PROVE  /\ SetToSeq(S) \in Seq(S)
           /\ \A i \in DOMAIN SetToSeq(S) : SetToSeq(S)[i] \in S
           /\ \A i, j \in DOMAIN SetToSeq(S) : SetToSeq(S)[i] = SetToSeq(S)[j] => i = j
           /\ \A x \in S : \E i \in DOMAIN SetToSeq(S) : SetToSeq(S)[i] = x
<1> DEFINE n == Cardinality(S)
           f == SetToSeq(S)
<1>1. n \in Nat /\ ExistsBijection(1 .. n, S)
  BY FS_CardinalityType
<1>2. PICK g \in Injection(1 .. n, S) : TRUE
  BY <1>1 DEF ExistsBijection, Bijection
<1>3. g \in [1 .. n -> S] /\ IsInjective(g)
  BY <1>2 DEF Injection, IsInjective
<1>4. f \in [1 .. n -> S] /\ IsInjective(f)
  BY <1>3 DEF SetToSeq
<1> HIDE DEF f
<1>5. f \in Injection(1 .. n, S)
  BY <1>4 DEF Injection, IsInjective
<1>6. IsFiniteSet(1 .. n) /\ Cardinality(1 .. n) = n
  BY <1>1, FS_Interval
<1>7. f \in Surjection(1 .. n, S)
  BY <1>5, <1>6, FS_Injection
<1>8. \A x \in S : \E i \in 1 .. n : f[i] = x
  BY <1>7 DEF Surjection
<1>9. f \in Seq(S) /\ DOMAIN f = 1 .. n
  BY <1>1, <1>4
<1>10. \A i, j \in DOMAIN f : f[i] = f[j] => i = j
  BY <1>4 DEF IsInjective
<1> QED BY <1>4, <1>8, <1>9, <1>10 DEF f

\* Releasing every member of a set.
LEMMA ReleasesOf ==
    ASSUME NEW S \in SUBSET Targets, IsFiniteSet(S),
           NEW b, b = SetToSeq({Release(k) : k \in S})
    PROVE  /\ b \in Seq(Events)
           /\ PressedIn(b) = {} /\ ReleasedIn(b) = S
           /\ \A i \in DOMAIN b : b[i][1] \in S
           /\ Releasing(b) <=> S # {}
<1> DEFINE R == {Release(k) : k \in S}
           f == [k \in S |-> Release(k)]
<1>1. IsFiniteSet(R)
  <2>1. f \in Surjection(S, R)
    BY DEF Surjection
  <2> QED BY <2>1, FS_Surjection
<1>2. \A x : x \in R <=> \E k \in S : x = <<k, FALSE>>
  BY DEF Release
<1> HIDE DEF R, f
<1>3. /\ b \in Seq(R)
      /\ \A i \in DOMAIN b : b[i] \in R
      /\ \A i, j \in DOMAIN b : b[i] = b[j] => i = j
      /\ \A x \in R : \E i \in DOMAIN b : b[i] = x
  BY <1>1, ListOfSet DEF R
<1>4. /\ \A i \in DOMAIN b : b[i][1] \in S /\ b[i] = <<b[i][1], FALSE>> /\ b[i][2] = FALSE
      /\ \A k : <<k, FALSE>>[1] = k /\ <<k, FALSE>>[2] = FALSE
  <2>1. \A k : <<k, FALSE>>[1] = k /\ <<k, FALSE>>[2] = FALSE
    OBVIOUS
  <2>2. ASSUME NEW i \in DOMAIN b
        PROVE  b[i][1] \in S /\ b[i] = <<b[i][1], FALSE>> /\ b[i][2] = FALSE
    <3>1. PICK k \in S : b[i] = <<k, FALSE>>
      BY <1>2, <1>3
    <3>2. b[i][1] = k /\ b[i][2] = FALSE
      BY <2>1, <3>1
    <3> QED BY <3>1, <3>2
  <2> QED BY <2>1, <2>2
<1>5. b \in Seq(Events)
  <2>1. ASSUME NEW x \in R PROVE x \in Events
    <3>1. PICK k \in S : x = <<k, FALSE>>
      BY <1>2
    <3>2. k \in Targets
      OBVIOUS
    <3> QED BY <3>1, <3>2 DEF Events
  <2> QED BY <1>3, <2>1
<1>6. PressedIn(b) = {}
  BY <1>4 DEF PressedIn
<1>7. DOMAIN b \subseteq Nat
  BY <1>3
<1>8. ReleasedIn(b) \subseteq S
  BY <1>4 DEF ReleasedIn
<1>9. ASSUME NEW k \in S PROVE k \in ReleasedIn(b)
  <2>1. PICK i \in DOMAIN b : b[i] = <<k, FALSE>>
    BY <1>2, <1>3
  <2>2. ASSUME NEW n \in DOMAIN b, n > i PROVE b[n][1] # b[i][1]
    <3>1. b[n] = <<b[n][1], FALSE>> /\ b[i] = <<b[i][1], FALSE>>
      BY <1>4
    <3>2. n # i
      BY <1>7, <2>2
    <3>3. b[n] # b[i]
      BY <1>3, <3>2
    <3> QED BY <3>1, <3>3
  <2>3. b[i][1] = k /\ ~ b[i][2]
    BY <1>4, <2>1
  <2> QED BY <2>2, <2>3 DEF ReleasedIn
<1>10. Releasing(b) <=> S # {}
  <2>1. ASSUME S # {} PROVE \E i \in DOMAIN b : ~ b[i][2]
    BY <1>2, <1>3, <1>4, <2>1
  <2>2. ASSUME NEW i \in DOMAIN b PROVE S # {}
    BY <1>4, <2>2
  <2> QED BY <2>1, <2>2 DEF Releasing
<1> QED BY <1>4, <1>5, <1>6, <1>8, <1>9, <1>10

\* One batch after another.
LEMMA Joined ==
    ASSUME NEW a \in Seq(Events), NEW b \in Seq(Events)
    PROVE  /\ a \o b \in Seq(Events)
           /\ PressedIn(a \o b) = PressedIn(a) \cup PressedIn(b)
           /\ ReleasedIn(b) \subseteq ReleasedIn(a \o b)
           /\ \A k \in ReleasedIn(a) : (\A i \in DOMAIN b : b[i][1] # k) => k \in ReleasedIn(a \o b)
           /\ Releasing(a \o b) <=> Releasing(a) \/ Releasing(b)
<1> DEFINE c == a \o b
           m == Len(a)
           n == Len(b)
<1>1. /\ m \in Nat /\ n \in Nat /\ DOMAIN a = 1 .. m /\ DOMAIN b = 1 .. n
      /\ c \in Seq(Events) /\ DOMAIN c = 1 .. (m + n)
      /\ \A i \in 1 .. m : c[i] = a[i]
      /\ \A i \in 1 .. n : c[m + i] = b[i]
      /\ \A i \in (m + 1) .. (m + n) : c[i] = b[i - m]
  BY LenProperties, ConcatProperties
<1> HIDE DEF c, m, n
<1>2. \A i \in DOMAIN c : (i \in 1 .. m /\ c[i] = a[i]) \/ (i - m \in 1 .. n /\ c[i] = b[i - m])
  BY <1>1
<1>3. PressedIn(c) = PressedIn(a) \cup PressedIn(b)
  <2>1. PressedIn(c) \subseteq PressedIn(a) \cup PressedIn(b)
    BY <1>1, <1>2 DEF PressedIn
  <2>2. PressedIn(a) \subseteq PressedIn(c)
    <3>1. \A i \in DOMAIN a : i \in DOMAIN c /\ c[i] = a[i]
      BY <1>1
    <3> QED BY <3>1 DEF PressedIn
  <2>3. PressedIn(b) \subseteq PressedIn(c)
    <3>1. \A i \in DOMAIN b : m + i \in DOMAIN c /\ c[m + i] = b[i]
      BY <1>1
    <3> QED BY <3>1 DEF PressedIn
  <2> QED BY <2>1, <2>2, <2>3
<1>4. ASSUME NEW k \in ReleasedIn(b) PROVE k \in ReleasedIn(c)
  <2>1. PICK j \in DOMAIN b : b[j][1] = k /\ ~ b[j][2] /\ \A i \in DOMAIN b : i > j => b[i][1] # b[j][1]
    BY DEF ReleasedIn
  <2>2. m + j \in DOMAIN c /\ c[m + j] = b[j]
    BY <1>1
  <2>3. ASSUME NEW i \in DOMAIN c, i > m + j PROVE c[i][1] # k
    <3>1. i - m \in DOMAIN b /\ i - m > j /\ c[i] = b[i - m]
      BY <1>1, <2>1, <2>3
    <3> QED BY <2>1, <3>1
  <2> QED BY <2>1, <2>2, <2>3 DEF ReleasedIn
<1>5. ASSUME NEW k \in ReleasedIn(a), \A i \in DOMAIN b : b[i][1] # k PROVE k \in ReleasedIn(c)
  <2>1. PICK j \in DOMAIN a : a[j][1] = k /\ ~ a[j][2] /\ \A i \in DOMAIN a : i > j => a[i][1] # a[j][1]
    BY DEF ReleasedIn
  <2>2. j \in DOMAIN c /\ c[j] = a[j]
    BY <1>1
  <2>3. ASSUME NEW i \in DOMAIN c, i > j PROVE c[i][1] # k
    BY <1>1, <1>2, <1>5, <2>1, <2>3
  <2> QED BY <2>1, <2>2, <2>3 DEF ReleasedIn
<1>6. Releasing(c) <=> Releasing(a) \/ Releasing(b)
  <2>1. Releasing(c) => Releasing(a) \/ Releasing(b)
    BY <1>1, <1>2 DEF Releasing
  <2>2. Releasing(a) => Releasing(c)
    <3>1. \A i \in DOMAIN a : i \in DOMAIN c /\ c[i] = a[i]
      BY <1>1
    <3> QED BY <3>1 DEF Releasing
  <2>3. Releasing(b) => Releasing(c)
    <3>1. \A i \in DOMAIN b : m + i \in DOMAIN c /\ c[m + i] = b[i]
      BY <1>1
    <3> QED BY <3>1 DEF Releasing
  <2> QED BY <2>1, <2>2, <2>3
<1> QED BY <1>1, <1>3, <1>4, <1>5, <1>6 DEF c

\* A single event.
LEMMA OneEvent ==
    ASSUME NEW k \in Targets, NEW down \in BOOLEAN
    PROVE  /\ << <<k, down>> >> \in Seq(Events)
           /\ PressedIn(<< <<k, down>> >>) = (IF down THEN {k} ELSE {})
           /\ ReleasedIn(<< <<k, down>> >>) = (IF down THEN {} ELSE {k})
           /\ Releasing(<< <<k, down>> >>) <=> ~ down
<1> DEFINE b == << <<k, down>> >>
<1>1. b \in Seq(Events) /\ DOMAIN b = {1} /\ b[1] = <<k, down>> /\ b[1][1] = k /\ b[1][2] = down
  BY DEF Events
<1> HIDE DEF b
<1>2. PressedIn(b) = (IF down THEN {k} ELSE {})
  BY <1>1 DEF PressedIn
<1>3. ReleasedIn(b) = (IF down THEN {} ELSE {k})
  BY <1>1 DEF ReleasedIn
<1>4. Releasing(b) <=> ~ down
  BY <1>1 DEF Releasing
<1> QED BY <1>1, <1>2, <1>3, <1>4 DEF b

\* An event after a batch.
LEMMA Appended ==
    ASSUME NEW a \in Seq(Events), NEW k \in Targets, NEW down \in BOOLEAN
    PROVE  /\ Append(a, <<k, down>>) \in Seq(Events)
           /\ PressedIn(Append(a, <<k, down>>)) = PressedIn(a) \cup (IF down THEN {k} ELSE {})
           /\ ~ down => k \in ReleasedIn(Append(a, <<k, down>>))
           /\ \A x \in ReleasedIn(a) : x # k => x \in ReleasedIn(Append(a, <<k, down>>))
           /\ Releasing(Append(a, <<k, down>>)) <=> Releasing(a) \/ ~ down
<1> DEFINE b == << <<k, down>> >>
<1>1. PICK e \in Events : e = <<k, down>>
  BY DEF Events
<1>0. Append(a, e) = a \o <<e>>
  OBVIOUS
<1>2. b \in Seq(Events) /\ DOMAIN b = {1} /\ b[1][1] = k
  BY DEF Events
<1>3. PressedIn(b) = (IF down THEN {k} ELSE {}) /\ ReleasedIn(b) = (IF down THEN {} ELSE {k})
      /\ (Releasing(b) <=> ~ down)
  BY OneEvent
<1>4. Append(a, <<k, down>>) = a \o b
  BY <1>0, <1>1
<1> HIDE DEF b
<1> DEFINE c == a \o b
<1>5. /\ c \in Seq(Events) /\ PressedIn(c) = PressedIn(a) \cup PressedIn(b)
      /\ ReleasedIn(b) \subseteq ReleasedIn(c)
      /\ \A x \in ReleasedIn(a) : (\A i \in DOMAIN b : b[i][1] # x) => x \in ReleasedIn(c)
      /\ Releasing(c) <=> Releasing(a) \/ Releasing(b)
  BY <1>2, Joined
<1> HIDE DEF c
<1>6. \A x \in ReleasedIn(a) : x # k => x \in ReleasedIn(c)
  BY <1>2, <1>5
<1>7. ~ down => k \in ReleasedIn(c)
  BY <1>3, <1>5
<1>8. PressedIn(c) = PressedIn(a) \cup (IF down THEN {k} ELSE {})
  BY <1>3, <1>5
<1>9. Releasing(c) <=> Releasing(a) \/ ~ down
  BY <1>3, <1>5
<1>10. Append(a, <<k, down>>) = c
  BY <1>4 DEF c
<1> QED BY <1>5, <1>6, <1>7, <1>8, <1>9, <1>10

\* What a batch leaves alone of an injector.
SameBooks(t, s) ==
    /\ t.keys = s.keys /\ t.buttons = s.buttons /\ t.mods = s.mods /\ t.pads = s.pads
    /\ t.report = s.report /\ t.batch = s.batch /\ t.high = s.high /\ t.tokens = s.tokens
    /\ t.trusted = s.trusted
\* What becomes of an injector s when a batch is sent, if t is left of it.
Emitted(t, s, batch) ==
    /\ t \in Injectors /\ SameBooks(t, s)
    /\ t.held \subseteq s.held \cup PressedIn(batch)
    /\ (~ t.lost \/ ~ t.stuck) => t.held \cap ReleasedIn(batch) = {}
    /\ s.stuck => t.stuck
    /\ s.lost => t.lost
    /\ t.lost => s.lost \/ t.stuck
    /\ s.batch = 0 => t.disorder = s.disorder
IsOutcome(o) == o = [dev |-> o.dev, ok |-> o.ok] /\ o.ok \in BOOLEAN

\* A batch that lands does to the desktop what it says.
LEMMA LandedIs ==
    ASSUME NEW s \in Injectors, NEW b \in Seq(Events)
    PROVE  /\ Landed(s, b) \in Injectors /\ SameBooks(Landed(s, b), s)
           /\ Landed(s, b).held = (s.held \cup PressedIn(b)) \ ReleasedIn(b)
           /\ Landed(s, b).stuck = s.stuck /\ Landed(s, b).lost = s.lost /\ Landed(s, b).faults = s.faults
           /\ Landed(s, b).source = s.source
           /\ s.batch = 0 => Landed(s, b).disorder = s.disorder
<1> DEFINE h == Applied(s.held, b)
           d == s.disorder \/ (b # <<>> /\ s.batch > 0)
           t == [s EXCEPT !.held = h, !.disorder = d]
<1>1. Landed(s, b) = t
  BY DEF Landed
<1>2. h = (s.held \cup PressedIn(b)) \ ReleasedIn(b)
  BY DEF Applied
<1>3. PressedIn(b) \subseteq Targets
  BY DEF PressedIn, Events
<1>4. h \in SUBSET Targets
  BY <1>2, <1>3 DEF Injectors
<1>5. d \in BOOLEAN
  BY DEF Injectors
<1>6. s.batch = 0 => d = s.disorder
  BY DEF Injectors
<1> HIDE DEF h, d
<1>7. t \in Injectors
  BY <1>4, <1>5 DEF Injectors
<1>8. t.held = h /\ t.disorder = d
  BY DEF Injectors
<1>9. SameBooks(t, s) /\ t.stuck = s.stuck /\ t.lost = s.lost /\ t.faults = s.faults /\ t.source = s.source
  BY DEF Injectors, SameBooks
<1> HIDE DEF t
<1> QED BY <1>1, <1>2, <1>6, <1>7, <1>8, <1>9

\* What does not arrive is remembered when there was a release in it.
LEMMA MissedIs ==
    ASSUME NEW s \in Injectors, NEW b \in Seq(Events), CanFail(s)
    PROVE  /\ Missed(s, b) \in Injectors /\ SameBooks(Missed(s, b), s)
           /\ Missed(s, b).held = s.held /\ Missed(s, b).disorder = s.disorder
           /\ Missed(s, b).stuck <=> s.stuck \/ Releasing(b)
           /\ Missed(s, b).lost <=> s.lost \/ Releasing(b)
           /\ Missed(s, b).source = s.source
<1> DEFINE f == s.faults + 1
           u == s.stuck \/ Releasing(b)
           l == s.lost \/ Releasing(b)
           t == [s EXCEPT !.faults = f, !.stuck = u, !.lost = l]
<1>1. Missed(s, b) = t
  BY DEF Missed, Failed, Releasing, Injectors
<1>2. f \in 0 .. MaxFailures
  BY InjectionAssumption DEF CanFail, Injectors
<1>3. u \in BOOLEAN /\ l \in BOOLEAN
  BY DEF Injectors, Releasing
<1>4. (u <=> s.stuck \/ Releasing(b)) /\ (l <=> s.lost \/ Releasing(b))
  OBVIOUS
<1> HIDE DEF f, u, l
<1>5. t \in Injectors
  BY <1>2, <1>3 DEF Injectors
<1>6. t.stuck = u /\ t.lost = l /\ t.held = s.held /\ t.disorder = s.disorder /\ t.source = s.source
  BY DEF Injectors
<1>7. SameBooks(t, s)
  BY DEF Injectors, SameBooks
<1> HIDE DEF t
<1> QED BY <1>1, <1>4, <1>5, <1>6, <1>7

\* VirtualDevice::emit: the whole batch or nothing of it.
LEMMA EmitIs ==
    ASSUME NEW s \in Injectors, s.lost => s.stuck, NEW b \in Seq(Events), NEW o \in Emit(s, b)
    PROVE  /\ IsOutcome(o) /\ Emitted(o.dev, s, b)
           /\ o.ok => o.dev.lost = s.lost /\ o.dev.stuck = s.stuck
                      /\ o.dev.held = (s.held \cup PressedIn(b)) \ ReleasedIn(b)
           /\ ~ o.ok => o.dev.held = s.held /\ (Releasing(b) => o.dev.stuck)
<1>1. CASE o = Ok(Landed(s, b))
  <2>1. o.dev = Landed(s, b) /\ o.ok = TRUE /\ IsOutcome(o)
    BY <1>1 DEF Ok, IsOutcome
  <2>2. Emitted(Landed(s, b), s, b)
    BY LandedIs DEF Emitted
  <2> QED BY <2>1, <2>2, LandedIs
<1>2. CASE o = Err(Missed(s, b)) /\ CanFail(s)
  <2>1. o.dev = Missed(s, b) /\ o.ok = FALSE /\ IsOutcome(o)
    BY <1>2 DEF Err, IsOutcome
  <2>2. ~ Releasing(b) => ReleasedIn(b) = {}
    BY DEF Releasing, ReleasedIn
  <2>3. Emitted(Missed(s, b), s, b)
    BY <1>2, <2>2, MissedIs DEF Emitted
  <2> QED BY <1>2, <2>1, <2>3, MissedIs
<1> QED BY <1>1, <1>2 DEF Emit, When

\* What a prefix presses and leaves unreleased.
LEMMA PrefixIs ==
    ASSUME NEW b \in Seq(Events), NEW n \in 0 .. Len(b) - 1
    PROVE  /\ SubSeq(b, 1, n) \in Seq(Events) /\ SubSeq(b, n + 1, Len(b)) \in Seq(Events)
           /\ PressedIn(SubSeq(b, 1, n)) \subseteq PressedIn(b)
           /\ ~ Releasing(SubSeq(b, n + 1, Len(b))) => ReleasedIn(b) \subseteq ReleasedIn(SubSeq(b, 1, n))
<1> DEFINE l == Len(b)
           p == SubSeq(b, 1, n)
           q == SubSeq(b, n + 1, l)
<1>1. l \in Nat /\ DOMAIN b = 1 .. l /\ n \in Nat /\ n < l
  BY LenProperties
<1>2. /\ p \in Seq(Events) /\ DOMAIN p = 1 .. n /\ \A i \in 1 .. n : p[i] = b[i]
      /\ q \in Seq(Events) /\ DOMAIN q = 1 .. (l - n) /\ \A i \in 1 .. (l - n) : q[i] = b[n + i]
  BY <1>1
<1> HIDE DEF p, q, l
<1>3. PressedIn(p) \subseteq PressedIn(b)
  <2>1. \A i \in DOMAIN p : i \in DOMAIN b /\ p[i] = b[i]
    BY <1>1, <1>2
  <2> QED BY <2>1 DEF PressedIn
<1>4. ASSUME ~ Releasing(q), NEW k \in ReleasedIn(b) PROVE k \in ReleasedIn(p)
  <2>1. PICK j \in DOMAIN b : b[j][1] = k /\ ~ b[j][2] /\ \A i \in DOMAIN b : i > j => b[i][1] # b[j][1]
    BY DEF ReleasedIn
  <2>2. j \in 1 .. n
    <3>1. ASSUME j > n PROVE FALSE
      <4>1. j - n \in DOMAIN q /\ q[j - n] = b[j]
        BY <1>1, <1>2, <3>1
      <4> QED BY <1>4, <2>1, <4>1 DEF Releasing
    <3> QED BY <1>1, <3>1
  <2>3. j \in DOMAIN p /\ p[j] = b[j]
    BY <1>2, <2>2
  <2>4. ASSUME NEW i \in DOMAIN p, i > j PROVE p[i][1] # k
    <3>1. i \in DOMAIN b /\ p[i] = b[i]
      BY <1>1, <1>2
    <3> QED BY <2>1, <2>4, <3>1
  <2> QED BY <2>1, <2>3, <2>4 DEF ReleasedIn
<1> QED BY <1>2, <1>3, <1>4 DEF p, q, l

\* SendInput, and events posted one after another: the whole batch or a prefix.
LEMMA EmitPrefixIs ==
    ASSUME NEW s \in Injectors, s.lost => s.stuck, NEW b \in Seq(Events), NEW o \in EmitPrefix(s, b)
    PROVE  /\ IsOutcome(o) /\ Emitted(o.dev, s, b)
           /\ ~ o.ok => o.dev.held \subseteq s.held \cup PressedIn(b)
           /\ o.ok => o.dev.stuck = s.stuck
<1>1. CASE o = Ok(Landed(s, b))
  <2>1. o.dev = Landed(s, b) /\ o.ok = TRUE /\ IsOutcome(o)
    BY <1>1 DEF Ok, IsOutcome
  <2>2. Emitted(Landed(s, b), s, b)
    BY LandedIs DEF Emitted
  <2> QED BY <2>1, <2>2, LandedIs
<1>2. ASSUME NEW n \in 0 .. Len(b) - 1, CanFail(s),
             o = Err(Missed(Landed(s, SubSeq(b, 1, n)), SubSeq(b, n + 1, Len(b))))
      PROVE  IsOutcome(o) /\ Emitted(o.dev, s, b) /\ o.ok = FALSE
  <2>1. PICK p : p = SubSeq(b, 1, n)
    OBVIOUS
  <2>2. PICK q : q = SubSeq(b, n + 1, Len(b))
    OBVIOUS
  <2>3. /\ p \in Seq(Events) /\ q \in Seq(Events) /\ PressedIn(p) \subseteq PressedIn(b)
        /\ ~ Releasing(q) => ReleasedIn(b) \subseteq ReleasedIn(p)
    BY <2>1, <2>2, PrefixIs
  <2>4. PICK m : m = Landed(s, p)
    OBVIOUS
  <2>5. /\ m \in Injectors /\ SameBooks(m, s) /\ m.held = (s.held \cup PressedIn(p)) \ ReleasedIn(p)
        /\ m.stuck = s.stuck /\ m.lost = s.lost /\ m.faults = s.faults
        /\ s.batch = 0 => m.disorder = s.disorder
    BY <2>3, <2>4, LandedIs
  <2>6. CanFail(m)
    BY <1>2, <2>5 DEF CanFail
  <2>7. PICK t : t = Missed(m, q)
    OBVIOUS
  <2>8. /\ t \in Injectors /\ SameBooks(t, m) /\ t.held = m.held /\ t.disorder = m.disorder
        /\ t.stuck <=> m.stuck \/ Releasing(q)
        /\ t.lost <=> m.lost \/ Releasing(q)
    BY <2>3, <2>5, <2>6, <2>7, MissedIs
  <2>9. Emitted(t, s, b)
    <3>1. SameBooks(t, s)
      BY <2>5, <2>8 DEF SameBooks
    <3>2. t.held \subseteq s.held \cup PressedIn(b)
      BY <2>3, <2>5, <2>8
    <3>3. ~ t.lost \/ ~ t.stuck => t.held \cap ReleasedIn(b) = {}
      BY <2>3, <2>5, <2>8
    <3> QED BY <2>5, <2>8, <3>1, <3>2, <3>3 DEF Emitted
  <2>10. o = Err(t)
    BY <1>2, <2>1, <2>2, <2>4, <2>7
  <2> QED BY <2>9, <2>10 DEF Err, IsOutcome
<1>3. \/ o = Ok(Landed(s, b))
      \/ \E n \in 0 .. Len(b) - 1 : CanFail(s) /\
           o = Err(Missed(Landed(s, SubSeq(b, 1, n)), SubSeq(b, n + 1, Len(b))))
  BY DEF EmitPrefix
<1>4. ASSUME \E n \in 0 .. Len(b) - 1 : CanFail(s) /\
               o = Err(Missed(Landed(s, SubSeq(b, 1, n)), SubSeq(b, n + 1, Len(b))))
      PROVE  IsOutcome(o) /\ Emitted(o.dev, s, b) /\ o.ok = FALSE
  BY <1>2, <1>4
<1> QED BY <1>1, <1>3, <1>4 DEF Emitted

\* The modifier transitions press modifiers that are now down, release the others that were,
\* and touch no other key.
Syncs(b, before, after, synced) ==
    /\ b \in Seq(Events)
    /\ \A k \in PressedIn(b) : \E m \in after \cap synced : k = ModKey(m)
    /\ \A m \in synced : m \in before /\ m \notin after => ModKey(m) \in ReleasedIn(b)
    /\ \A i \in DOMAIN b : b[i][1] \in Synthesized
\* ModEvents does that.
LEMMA ModEventsAre ==
    ASSUME NEW before \in SUBSET Modifier, NEW after \in SUBSET Modifier,
           NEW synced \in SUBSET {"SHIFT", "CAPS"}
    PROVE  Syncs(ModEvents(before, after, synced), before, after, synced)
<1> SUFFICES ASSUME NEW b, b = ModEvents(before, after, synced)
             PROVE  Syncs(b, before, after, synced)
  OBVIOUS
<1> DEFINE S == {m \in synced : (m \in before) # (m \in after)}
           c == SetToSeq(S)
           g == [i \in DOMAIN c |-> <<ModKey(c[i]), c[i] \in after>>]
<1>1. IsFiniteSet({"SHIFT", "CAPS"})
  <2>1. IsFiniteSet({"SHIFT"})
    BY FS_Singleton
  <2>2. IsFiniteSet({"SHIFT"} \cup {"CAPS"})
    BY <2>1, FS_AddElement
  <2>3. {"SHIFT"} \cup {"CAPS"} = {"SHIFT", "CAPS"}
    OBVIOUS
  <2> QED BY <2>2, <2>3
<1>2. IsFiniteSet(S)
  BY <1>1, FS_Subset
<1>3. S \subseteq {"SHIFT", "CAPS"} /\ S \subseteq synced
  OBVIOUS
<1>4. \A m \in S : (m \in before) # (m \in after)
  OBVIOUS
<1>5. \A m \in synced : m \in before /\ m \notin after => m \in S
  OBVIOUS
<1>6. b = g
  BY DEF ModEvents
<1> HIDE DEF S
<1>7. /\ c \in Seq(S)
      /\ \A i \in DOMAIN c : c[i] \in S
      /\ \A i, j \in DOMAIN c : c[i] = c[j] => i = j
      /\ \A x \in S : \E i \in DOMAIN c : c[i] = x
  BY <1>2, ListOfSet
<1> HIDE DEF c
<1>8. /\ ModKey("SHIFT") = "shift" /\ ModKey("CAPS") = "caps"
      /\ \A m, n \in {"SHIFT", "CAPS"} : ModKey(m) = ModKey(n) => m = n
      /\ \A m \in {"SHIFT", "CAPS"} : ModKey(m) \in Synthesized
  BY DEF ModKey, Synthesized
<1>9. Synthesized \subseteq Targets
  BY DEF Synthesized, Targets, Keys
<1>10. /\ DOMAIN b = DOMAIN c
       /\ \A i \in DOMAIN c : b[i] = <<ModKey(c[i]), c[i] \in after>>
  BY <1>6
<1>11. \A i \in DOMAIN c : b[i][1] = ModKey(c[i])
  BY <1>10
<1>12. \A i \in DOMAIN c : b[i][2] = (c[i] \in after)
  BY <1>10
<1>13. \E n \in Nat : DOMAIN c = 1 .. n
  BY <1>7
<1> HIDE DEF g
<1>14. b \in Seq(Events)
  <2>1. \A i \in DOMAIN c : ModKey(c[i]) \in Targets
    BY <1>3, <1>7, <1>8, <1>9
  <2>2. \A i \in DOMAIN c : <<ModKey(c[i]), c[i] \in after>> \in Events
    <3> SUFFICES ASSUME NEW i \in DOMAIN c
                 PROVE  <<ModKey(c[i]), c[i] \in after>> \in Events
      OBVIOUS
    <3>1. ModKey(c[i]) \in Targets
      BY <2>1
    <3>2. <<ModKey(c[i]), TRUE>> \in Events /\ <<ModKey(c[i]), FALSE>> \in Events
      BY <3>1 DEF Events
    <3>3. CASE c[i] \in after
      <4>1. (c[i] \in after) = TRUE
        BY <3>3
      <4> QED BY <3>2, <4>1
    <3>4. CASE c[i] \notin after
      <4>1. (c[i] \in after) = FALSE
        BY <3>4
      <4> QED BY <3>2, <4>1
    <3> QED BY <3>3, <3>4
  <2>3. PICK n \in Nat : DOMAIN c = 1 .. n
    BY <1>13
  <2>4. g \in [1 .. n -> Events]
    BY <2>2, <2>3 DEF g
  <2> QED BY <1>6, <2>3, <2>4
<1>15. ASSUME NEW k \in PressedIn(b) PROVE \E m \in after \cap synced : k = ModKey(m)
  <2>1. PICK i \in DOMAIN b : b[i][2] /\ b[i][1] = k
    BY DEF PressedIn
  <2> QED BY <1>3, <1>7, <1>10, <1>11, <1>12, <2>1
<1>16. ASSUME NEW m \in synced, m \in before, m \notin after PROVE ModKey(m) \in ReleasedIn(b)
  <2>1. PICK i \in DOMAIN c : c[i] = m
    BY <1>5, <1>7, <1>16
  <2>2. ~ b[i][2] /\ b[i][1] = ModKey(m)
    BY <1>11, <1>12, <1>16, <2>1
  <2>3. ASSUME NEW n \in DOMAIN b, n > i PROVE b[n][1] # b[i][1]
    <3>1. n # i
      BY <1>10, <1>13, <2>3
    <3>2. c[n] # c[i]
      BY <1>7, <1>10, <3>1
    <3>3. c[n] \in {"SHIFT", "CAPS"} /\ c[i] \in {"SHIFT", "CAPS"}
      BY <1>3, <1>7, <1>10
    <3>4. ModKey(c[n]) # ModKey(c[i])
      BY <1>8, <3>2, <3>3
    <3> QED BY <1>10, <1>11, <3>4
  <2> QED BY <1>10, <2>1, <2>2, <2>3 DEF ReleasedIn
<1>17. ASSUME NEW i \in DOMAIN b PROVE b[i][1] \in Synthesized
  <2>1. c[i] \in {"SHIFT", "CAPS"}
    BY <1>3, <1>7, <1>10
  <2> QED BY <1>8, <1>10, <1>11, <2>1
<1> QED BY <1>14, <1>15, <1>16, <1>17 DEF Syncs

\* What becomes of an injector s when an event is handled that may press P and is to release R.
Effect(s, t, P, R) ==
    /\ t \in Injectors /\ Tracked(t)
    /\ s.stuck => t.stuck
    /\ ~ t.stuck => t.held \subseteq s.held \cup P /\ t.held \cap R = {}

PressedBy(e) ==
    CASE e.type = "Button" -> IF e.down THEN {"left"} ELSE {}
      [] e.type = "Key" -> Synthesized \cup (IF e.down THEN {e.key} ELSE {})
      [] e.type = "Flags" -> Synthesized
      [] e.type = "Pad" -> IF e.down THEN {e.pad} ELSE {}
      [] OTHER -> {}
ReleasedBy(e) ==
    CASE e.type = "Button" -> IF e.down THEN {} ELSE {"left"}
      [] e.type = "Key" -> IF e.down THEN {} ELSE {e.key}
      [] e.type = "Pad" -> IF e.down THEN {} ELSE {e.pad}
      [] e.type = "Reset" -> Targets
      [] OTHER -> {}

\* An injector that keeps track of what it failed to release, whatever the outcome.
LEMMA KeptIs ==
    ASSUME NEW A, NEW s, NEW o \in Kept(A, s)
    PROVE  \E a \in A : o = [a EXCEPT !.dev.lost = s.lost]
BY DEF Kept

\* Restoring the flag `lost' of an outcome changes nothing else of it.
LEMMA KeptOutcome ==
    ASSUME NEW a, IsOutcome(a), a.dev \in Injectors, NEW l \in BOOLEAN
    PROVE  LET o == [a EXCEPT !.dev.lost = l]
           IN  /\ IsOutcome(o) /\ o.ok = a.ok /\ o.dev \in Injectors
               /\ SameBooks(o.dev, a.dev) /\ o.dev.held = a.dev.held
               /\ o.dev.stuck = a.dev.stuck /\ o.dev.lost = l /\ o.dev.disorder = a.dev.disorder
<1> DEFINE d == [a.dev EXCEPT !.lost = l]
           o == [dev |-> d, ok |-> a.ok]
<1>1. [a EXCEPT !.dev.lost = l] = o
  BY DEF IsOutcome
<1>2. d \in Injectors
  BY DEF Injectors
<1>3. d.held = a.dev.held /\ d.stuck = a.dev.stuck /\ d.lost = l /\ d.disorder = a.dev.disorder
  BY DEF Injectors
<1>4. SameBooks(d, a.dev)
  BY DEF Injectors, SameBooks
<1> HIDE DEF d
<1>5. IsOutcome(o) /\ o.dev = d /\ o.ok = a.ok
  BY DEF IsOutcome
<1> HIDE DEF o
<1> QED BY <1>1, <1>2, <1>3, <1>4, <1>5

\* An injector is tracked on Linux.
LinuxTracked(s) ==
    /\ s \in Injectors /\ ~ s.disorder /\ (s.lost => s.stuck)
    /\ ~ s.lost => s.held \subseteq s.keys \cup s.pads \cup {"left", "shift", "rshift", "caps"}
\* That is what Tracked says there.
LEMMA OnLinux ==
    ASSUME os = "linux", NEW s \in Injectors
    PROVE  Tracked(s) <=> LinuxTracked(s)
BY DEF Tracked, LinuxTracked, ReleasableBy

\* A report whose loss the injector remembers.
LEMMA KeptEmit ==
    ASSUME NEW s \in Injectors, s.lost => s.stuck, s.batch = 0, NEW b \in Seq(Events),
           NEW z, z.lost = s.lost, NEW o \in Kept(Emit(s, b), z)
    PROVE  /\ IsOutcome(o) /\ o.dev \in Injectors /\ SameBooks(o.dev, s)
           /\ o.dev.lost = s.lost /\ o.dev.disorder = s.disorder
           /\ s.stuck => o.dev.stuck
           /\ o.ok => o.dev.stuck = s.stuck /\ o.dev.held = (s.held \cup PressedIn(b)) \ ReleasedIn(b)
           /\ ~ o.ok => o.dev.held = s.held /\ (Releasing(b) => o.dev.stuck)
<1>1. PICK a \in Emit(s, b) : o = [a EXCEPT !.dev.lost = s.lost]
  BY KeptIs
<1>2. /\ IsOutcome(a) /\ Emitted(a.dev, s, b)
      /\ a.ok => a.dev.stuck = s.stuck /\ a.dev.held = (s.held \cup PressedIn(b)) \ ReleasedIn(b)
      /\ ~ a.ok => a.dev.held = s.held /\ (Releasing(b) => a.dev.stuck)
  BY EmitIs
<1>3. a.dev \in Injectors /\ SameBooks(a.dev, s) /\ (s.stuck => a.dev.stuck) /\ a.dev.disorder = s.disorder
  BY <1>2 DEF Emitted
<1>4. s.lost \in BOOLEAN
  BY DEF Injectors
<1>5. /\ IsOutcome(o) /\ o.ok = a.ok /\ o.dev \in Injectors
      /\ SameBooks(o.dev, a.dev) /\ o.dev.held = a.dev.held
      /\ o.dev.stuck = a.dev.stuck /\ o.dev.lost = s.lost /\ o.dev.disorder = a.dev.disorder
  BY <1>1, <1>2, <1>3, <1>4, KeptOutcome
<1>6. SameBooks(o.dev, s)
  BY <1>3, <1>5 DEF SameBooks
<1> QED BY <1>2, <1>3, <1>5, <1>6

\* A button.
LEMMA LinuxPointerIs ==
    ASSUME os = "linux", NEW s \in Injectors, Tracked(s), s.batch = 0,
           NEW down \in BOOLEAN, NEW o \in LinuxPointer(s, down)
    PROVE  IsOutcome(o) /\ Effect(s, o.dev, IF down THEN {"left"} ELSE {}, IF down THEN {} ELSE {"left"})
<1> DEFINE b == << <<"left", down>> >>
<1>1. LinuxTracked(s)
  BY OnLinux
<1>2. /\ b \in Seq(Events) /\ PressedIn(b) = (IF down THEN {"left"} ELSE {})
      /\ ReleasedIn(b) = (IF down THEN {} ELSE {"left"}) /\ (Releasing(b) <=> ~ down)
  BY OneEvent DEF Targets
<1>3. o \in Kept(Emit(s, b), s)
  BY DEF LinuxPointer
<1> HIDE DEF b
<1>4. /\ IsOutcome(o) /\ o.dev \in Injectors /\ SameBooks(o.dev, s)
      /\ o.dev.lost = s.lost /\ o.dev.disorder = s.disorder
      /\ s.stuck => o.dev.stuck
      /\ o.ok => o.dev.stuck = s.stuck /\ o.dev.held = (s.held \cup PressedIn(b)) \ ReleasedIn(b)
      /\ ~ o.ok => o.dev.held = s.held /\ (Releasing(b) => o.dev.stuck)
  BY <1>1, <1>2, <1>3, KeptEmit DEF LinuxTracked
<1>5. o.ok \in BOOLEAN
  BY <1>4 DEF IsOutcome
<1>6. LinuxTracked(o.dev)
  BY <1>1, <1>2, <1>4, <1>5 DEF LinuxTracked, SameBooks
<1>7. Tracked(o.dev)
  BY <1>4, <1>6, OnLinux
<1>8. ~ o.dev.stuck => /\ o.dev.held \subseteq s.held \cup (IF down THEN {"left"} ELSE {})
                       /\ o.dev.held \cap (IF down THEN {} ELSE {"left"}) = {}
  BY <1>2, <1>4, <1>5
<1> QED BY <1>4, <1>7, <1>8 DEF Effect

\* A key, with the modifiers that come with it.
LEMMA LinuxKeyIs ==
    ASSUME os = "linux", NEW s \in Injectors, Tracked(s), s.batch = 0, NEW key \in WireKeys,
           NEW down \in BOOLEAN, NEW mods \in SUBSET Modifier, NEW o \in LinuxKey(s, key, down, mods)
    PROVE  IsOutcome(o) /\ Effect(s, o.dev, Synthesized \cup (IF down THEN {key} ELSE {}),
                                  IF down THEN {} ELSE {key})
<1>1. LinuxTracked(s)
  BY OnLinux
<1>2. CASE ~ EvdevMaps(key)
  <2>1. o = Ok(s) /\ key = "unmapped"
    BY <1>2 DEF LinuxKey, EvdevMaps
  <2>2. o.dev = s /\ IsOutcome(o)
    BY <2>1 DEF Ok, IsOutcome
  <2>3. key \notin Targets
    BY <2>1, InjectionAssumption DEF Targets, Keys
  <2>4. s.held \subseteq Targets
    BY DEF Injectors
  <2>5. s.held \cap (IF down THEN {} ELSE {key}) = {}
    BY <2>3, <2>4
  <2> QED BY <2>2, <2>5 DEF Effect
<1>3. CASE EvdevMaps(key)
  <2> DEFINE sync == IF IsModKey(key) THEN <<>> ELSE ModEvents(s.mods, mods, Modifier)
             s1 == IF IsModKey(key) THEN s ELSE [s EXCEPT !.mods = mods]
             b == Append(sync, <<key, down>>)
             K == IF down THEN s.keys \cup {key} ELSE s.keys \ {key}
  <2>1. key \in Keys /\ key \in Targets
    BY <1>3, InjectionAssumption DEF EvdevMaps, Targets
  <2>2. /\ s1 \in Injectors /\ s1.lost = s.lost /\ s1.stuck = s.stuck /\ s1.batch = 0
        /\ s1.held = s.held /\ s1.keys = s.keys /\ s1.pads = s.pads /\ s1.disorder = s.disorder
    BY DEF Injectors
  <2>3. sync \in Seq(Events) /\ PressedIn(sync) \subseteq Synthesized
    <3>1. CASE IsModKey(key)
      BY <3>1 DEF PressedIn
    <3>2. CASE ~ IsModKey(key)
      <4>1. s.mods \in SUBSET Modifier /\ Modifier \in SUBSET {"SHIFT", "CAPS"}
        BY InjectionAssumption DEF Injectors
      <4>2. PICK c : c = ModEvents(s.mods, mods, Modifier)
        OBVIOUS
      <4>3. c \in Seq(Events) /\ \A i \in DOMAIN c : c[i][1] \in Synthesized
        BY <4>1, <4>2, ModEventsAre DEF Syncs
      <4>4. sync = c
        BY <3>2, <4>2
      <4> HIDE DEF sync
      <4> QED BY <4>3, <4>4 DEF PressedIn
    <3> QED BY <3>1, <3>2
  <2>4. \E a \in Kept(Emit(s1, b), s) :
           o = IF a.ok THEN Ok([a.dev EXCEPT !.keys = IF down THEN @ \cup {key} ELSE @ \ {key}]) ELSE a
    BY <1>3 DEF LinuxKey
  <2> HIDE DEF sync, s1
  <2>5. /\ b \in Seq(Events) /\ PressedIn(b) = PressedIn(sync) \cup (IF down THEN {key} ELSE {})
        /\ ~ down => key \in ReleasedIn(b)
        /\ Releasing(b) <=> Releasing(sync) \/ ~ down
    BY <2>1, <2>3, Appended
  <2> HIDE DEF b
  <2>6. PICK a \in Kept(Emit(s1, b), s) :
           o = IF a.ok THEN Ok([a.dev EXCEPT !.keys = IF down THEN @ \cup {key} ELSE @ \ {key}]) ELSE a
    BY <2>4
  <2>7. /\ IsOutcome(a) /\ a.dev \in Injectors /\ SameBooks(a.dev, s1)
        /\ a.dev.lost = s1.lost /\ a.dev.disorder = s1.disorder
        /\ s1.stuck => a.dev.stuck
        /\ a.ok => a.dev.stuck = s1.stuck /\ a.dev.held = (s1.held \cup PressedIn(b)) \ ReleasedIn(b)
        /\ ~ a.ok => a.dev.held = s1.held /\ (Releasing(b) => a.dev.stuck)
    <3>1. s1.lost => s1.stuck
      BY <1>1, <2>2 DEF LinuxTracked
    <3> QED BY <2>2, <2>5, <3>1, KeptEmit
  <2>8. CASE a.ok
    <3> DEFINE d == [a.dev EXCEPT !.keys = K]
    <3>1. a.dev.keys = s.keys
      BY <2>2, <2>7 DEF SameBooks
    <3>2. o = Ok(d)
      BY <2>6, <2>8, <3>1
    <3>3. K \in SUBSET Keys
      BY <2>1 DEF Injectors
    <3>4. K = IF down THEN s.keys \cup {key} ELSE s.keys \ {key}
      OBVIOUS
    <3> HIDE DEF K
    <3>5. d \in Injectors
      BY <2>7, <3>3 DEF Injectors
    <3>6. /\ d.keys = K /\ d.held = a.dev.held /\ d.pads = a.dev.pads /\ d.lost = a.dev.lost
          /\ d.stuck = a.dev.stuck /\ d.disorder = a.dev.disorder
      BY <2>7 DEF Injectors
    <3> HIDE DEF d
    <3>7. a.dev.pads = s.pads
      BY <2>2, <2>7 DEF SameBooks
    <3>8. d.held = (s.held \cup PressedIn(b)) \ ReleasedIn(b)
      BY <2>2, <2>7, <2>8, <3>6
    <3>9. /\ d.held \subseteq s.held \cup Synthesized \cup (IF down THEN {key} ELSE {})
          /\ d.held \cap (IF down THEN {} ELSE {key}) = {}
      BY <2>3, <2>5, <3>8
    <3>10. ~ d.lost => d.held \subseteq K \cup d.pads \cup {"left", "shift", "rshift", "caps"}
      <4>1. ~ d.lost => s.held \subseteq s.keys \cup s.pads \cup {"left", "shift", "rshift", "caps"}
        BY <1>1, <2>2, <2>7, <3>6 DEF LinuxTracked
      <4>2. CASE down
        BY <3>4, <3>6, <3>7, <3>9, <4>1, <4>2 DEF Synthesized
      <4>3. CASE ~ down
        BY <3>4, <3>6, <3>7, <3>9, <4>1, <4>3 DEF Synthesized
      <4> QED BY <4>2, <4>3
    <3>11. LinuxTracked(d)
      BY <1>1, <2>2, <2>7, <3>5, <3>6, <3>10 DEF LinuxTracked
    <3>12. Tracked(d)
      BY <3>5, <3>11, OnLinux
    <3>13. o.dev = d /\ IsOutcome(o)
      BY <3>2 DEF Ok, IsOutcome
    <3>14. s.stuck => d.stuck
      BY <2>2, <2>7, <3>6
    <3> QED BY <3>5, <3>9, <3>12, <3>13, <3>14 DEF Effect
  <2>9. CASE ~ a.ok
    <3>1. o = a
      BY <2>6, <2>9
    <3>2. LinuxTracked(a.dev)
      BY <1>1, <2>2, <2>7, <2>9 DEF LinuxTracked, SameBooks
    <3>3. Tracked(a.dev)
      BY <2>7, <3>2, OnLinux
    <3>4. ~ a.dev.stuck => a.dev.held = s.held /\ down
      BY <2>2, <2>5, <2>7, <2>9
    <3>5. s.stuck => a.dev.stuck
      BY <2>2, <2>7
    <3> QED BY <2>7, <3>1, <3>3, <3>4, <3>5 DEF Effect
  <2> QED BY <2>8, <2>9
<1> QED BY <1>2, <1>3

\* A change of the modifiers alone.
LEMMA LinuxFlagsIs ==
    ASSUME os = "linux", NEW s \in Injectors, Tracked(s), s.batch = 0,
           NEW mods \in SUBSET Modifier, NEW o \in LinuxFlags(s, mods)
    PROVE  IsOutcome(o) /\ Effect(s, o.dev, Synthesized, {})
<1> DEFINE b == ModEvents(s.mods, mods, Modifier)
           s1 == [s EXCEPT !.mods = mods]
<1>1. LinuxTracked(s)
  BY OnLinux
<1>2. /\ s1 \in Injectors /\ s1.lost = s.lost /\ s1.stuck = s.stuck /\ s1.batch = 0
      /\ s1.held = s.held /\ s1.keys = s.keys /\ s1.pads = s.pads /\ s1.disorder = s.disorder
  BY DEF Injectors
<1>3. s.mods \in SUBSET Modifier /\ Modifier \in SUBSET {"SHIFT", "CAPS"}
  BY InjectionAssumption DEF Injectors
<1>4. PICK c : c = b
  OBVIOUS
<1>5. c \in Seq(Events) /\ \A i \in DOMAIN c : c[i][1] \in Synthesized
  BY <1>3, <1>4, ModEventsAre DEF Syncs
<1>6. PressedIn(c) \subseteq Synthesized
  BY <1>5 DEF PressedIn
<1>7. o \in Kept(Emit(s1, c), s)
  BY <1>4 DEF LinuxFlags
<1> HIDE DEF b, s1
<1>8. s1.lost => s1.stuck
  BY <1>1, <1>2 DEF LinuxTracked
<1>9. /\ IsOutcome(o) /\ o.dev \in Injectors /\ SameBooks(o.dev, s1)
      /\ o.dev.lost = s1.lost /\ o.dev.disorder = s1.disorder
      /\ s1.stuck => o.dev.stuck
      /\ o.ok => o.dev.stuck = s1.stuck /\ o.dev.held = (s1.held \cup PressedIn(c)) \ ReleasedIn(c)
      /\ ~ o.ok => o.dev.held = s1.held
  BY <1>2, <1>5, <1>7, <1>8, KeptEmit
<1>10. o.ok \in BOOLEAN /\ o.dev.keys = s.keys /\ o.dev.pads = s.pads
  BY <1>2, <1>9 DEF IsOutcome, SameBooks
<1>11. o.dev.held \subseteq s.held \cup Synthesized
  BY <1>2, <1>6, <1>9, <1>10
<1>12. ~ o.dev.lost => s.held \subseteq s.keys \cup s.pads \cup {"left", "shift", "rshift", "caps"}
  BY <1>1, <1>2, <1>9 DEF LinuxTracked
<1>13. ~ o.dev.lost => o.dev.held \subseteq o.dev.keys \cup o.dev.pads \cup {"left", "shift", "rshift", "caps"}
  BY <1>10, <1>11, <1>12 DEF Synthesized
<1>14. LinuxTracked(o.dev)
  BY <1>1, <1>2, <1>9, <1>13 DEF LinuxTracked
<1>15. Tracked(o.dev)
  BY <1>9, <1>14, OnLinux
<1> QED BY <1>2, <1>9, <1>11, <1>15 DEF Effect

\* A key pressed and released in one go, with Shift around it or without.
LEMMA Taps ==
    /\ \A b \in {<<Press("key0"), Release("key0")>>,
                 <<Press("shift")>> \o <<Press("key0"), Release("key0")>> \o <<Release("shift")>>,
                 <<Press("packet"), Release("packet")>>} :
          b \in Seq(Events) /\ PressedIn(b) \subseteq ReleasedIn(b)
    /\ PressedIn(<<Press("key0"), Release("key0")>>) \subseteq {"key0"}
    /\ PressedIn(<<Press("packet"), Release("packet")>>) \subseteq {"packet"}
    /\ PressedIn(<<Press("shift")>> \o <<Press("key0"), Release("key0")>> \o <<Release("shift")>>)
         \subseteq {"key0", "shift"}
<1>1. {"key0", "shift", "packet"} \subseteq Targets
  BY DEF Targets, Keys
<1>2. ASSUME NEW k \in {"key0", "packet"}, NEW b, b = <<Press(k), Release(k)>>
      PROVE  b \in Seq(Events) /\ PressedIn(b) = {k} /\ ReleasedIn(b) = {k}
  <2>1. b = << <<k, TRUE>>, <<k, FALSE>> >>
    BY <1>2 DEF Press, Release
  <2>2. b \in Seq(Events)
    <3>1. PICK p \in Events, q \in Events : p = <<k, TRUE>> /\ q = <<k, FALSE>>
      BY <1>1 DEF Events
    <3>2. <<p, q>> \in Seq(Events)
      OBVIOUS
    <3> QED BY <2>1, <3>1, <3>2
  <2>3. DOMAIN b = {1, 2}
    BY <2>1
  <2>4. b[1] = <<k, TRUE>> /\ b[2] = <<k, FALSE>>
    BY <2>1
  <2>5. b[1][1] = k /\ b[1][2] = TRUE /\ b[2][1] = k /\ b[2][2] = FALSE
    BY <2>4
  <2>6. PressedIn(b) = {k}
    BY <2>3, <2>5 DEF PressedIn
  <2>7. ReleasedIn(b) = {k}
    BY <2>3, <2>5 DEF ReleasedIn
  <2> QED BY <2>2, <2>6, <2>7
<1>3. ASSUME NEW b, b = <<Press("shift")>> \o <<Press("key0"), Release("key0")>> \o <<Release("shift")>>
      PROVE  b \in Seq(Events) /\ PressedIn(b) = {"key0", "shift"} /\ {"key0", "shift"} \subseteq ReleasedIn(b)
  <2>1. PICK p, q, r : /\ p = <<Press("shift")>> /\ q = <<Press("key0"), Release("key0")>>
                       /\ r = <<Release("shift")>>
    OBVIOUS
  <2>2. b = (p \o q) \o r
    BY <1>3, <2>1
  <2>3. p \in Seq(Events) /\ PressedIn(p) = {"shift"}
    BY <1>1, <2>1, OneEvent DEF Press
  <2>4. q \in Seq(Events) /\ PressedIn(q) = {"key0"} /\ ReleasedIn(q) = {"key0"}
    BY <1>2, <2>1
  <2>5. r \in Seq(Events) /\ PressedIn(r) = {} /\ ReleasedIn(r) = {"shift"}
    BY <1>1, <2>1, OneEvent DEF Release
  <2>6. \A i \in DOMAIN r : r[i][1] # "key0"
    <3>1. PICK u : u = <<"shift", FALSE>>
      OBVIOUS
    <3>2. r = <<u>> /\ u[1] = "shift"
      BY <2>1, <3>1 DEF Release
    <3>3. r[1] = u /\ DOMAIN r = {1}
      BY <3>2
    <3> QED BY <3>2, <3>3
  <2>7. PICK c : c = p \o q
    OBVIOUS
  <2>8. c \in Seq(Events) /\ PressedIn(c) = {"shift", "key0"} /\ "key0" \in ReleasedIn(c)
    <3>1. /\ p \o q \in Seq(Events) /\ PressedIn(p \o q) = PressedIn(p) \cup PressedIn(q)
          /\ ReleasedIn(q) \subseteq ReleasedIn(p \o q)
      BY <2>3, <2>4, Joined
    <3> QED BY <2>3, <2>4, <2>7, <3>1
  <2>9. /\ c \o r \in Seq(Events) /\ PressedIn(c \o r) = PressedIn(c) \cup PressedIn(r)
        /\ ReleasedIn(r) \subseteq ReleasedIn(c \o r)
        /\ "key0" \in ReleasedIn(c \o r)
    BY <2>5, <2>6, <2>8, Joined
  <2> QED BY <2>2, <2>5, <2>7, <2>8, <2>9
<1>4. PICK x, y, z : /\ x = <<Press("key0"), Release("key0")>>
                     /\ y = <<Press("shift")>> \o <<Press("key0"), Release("key0")>> \o <<Release("shift")>>
                     /\ z = <<Press("packet"), Release("packet")>>
  OBVIOUS
<1>5. /\ x \in Seq(Events) /\ PressedIn(x) = {"key0"} /\ ReleasedIn(x) = {"key0"}
      /\ y \in Seq(Events) /\ PressedIn(y) = {"key0", "shift"} /\ {"key0", "shift"} \subseteq ReleasedIn(y)
      /\ z \in Seq(Events) /\ PressedIn(z) = {"packet"} /\ ReleasedIn(z) = {"packet"}
  BY <1>2, <1>3, <1>4
<1>6. /\ \A b \in {x, y, z} : b \in Seq(Events) /\ PressedIn(b) \subseteq ReleasedIn(b)
      /\ PressedIn(x) \subseteq {"key0"} /\ PressedIn(z) \subseteq {"packet"}
      /\ PressedIn(y) \subseteq {"key0", "shift"}
  BY <1>5
<1> QED BY <1>4, <1>6

\* Text that was still queued is typed, or dropped.
LEMMA Flushed ==
    ASSUME NEW s \in Injectors
    PROVE  /\ FlushPendingText(s) \in Injectors /\ FlushPendingText(s).batch = 0
           /\ FlushPendingText(s) = [s EXCEPT !.batch = FlushPendingText(s).batch]
<1> DEFINE t == [s EXCEPT !.batch = 0]
<1>1. t \in Injectors /\ t.batch = 0
  BY InjectionAssumption DEF Injectors
<1>2. CASE s.batch > 0
  <2>1. FlushPendingText(s) = t
    BY <1>2 DEF FlushPendingText, TypeUnicode
  <2>2. t = [s EXCEPT !.batch = t.batch]
    BY <1>1
  <2> QED BY <1>1, <2>1, <2>2
<1>3. CASE ~ (s.batch > 0)
  <2>1. FlushPendingText(s) = s
    BY <1>3 DEF FlushPendingText
  <2>2. s.batch = 0
    BY <1>3, InjectionAssumption DEF Injectors
  <2>3. s = [s EXCEPT !.batch = s.batch]
    BY DEF Injectors
  <2> QED BY <2>1, <2>2, <2>3
<1> QED BY <1>2, <1>3

\* Flushing the text changes nothing that is held or tracked.
LEMMA FlushedTracked ==
    ASSUME os = "linux", NEW s \in Injectors, Tracked(s), NEW t, t = FlushPendingText(s)
    PROVE  /\ t \in Injectors /\ t.batch = 0 /\ Tracked(t)
           /\ t.held = s.held /\ t.stuck = s.stuck /\ t.keys = s.keys /\ t.pads = s.pads
<1>1. t \in Injectors /\ t.batch = 0
  BY Flushed
<1>2. PICK n : n = t.batch
  OBVIOUS
<1>3. t = [s EXCEPT !.batch = n]
  BY <1>2, Flushed
<1>4. /\ t.held = s.held /\ t.stuck = s.stuck /\ t.keys = s.keys /\ t.pads = s.pads
      /\ t.lost = s.lost /\ t.disorder = s.disorder
  BY <1>3 DEF Injectors
<1>5. LinuxTracked(t)
  BY <1>1, <1>4, OnLinux DEF LinuxTracked
<1> QED BY <1>1, <1>4, <1>5, OnLinux

\* A character.
LEMMA LinuxCharIs ==
    ASSUME os = "linux", NEW s \in Injectors, Tracked(s),
           NEW unit \in {"ascii", "upper", "wide", "high", "low"}, NEW o \in LinuxChar(s, unit)
    PROVE  IsOutcome(o) /\ Effect(s, o.dev, {}, {})
<1>1. LinuxTracked(s)
  BY OnLinux
<1>2. ASSUME NEW t, t \in Injectors, t.held = s.held, t.stuck = s.stuck, t.keys = s.keys, t.pads = s.pads,
             t.lost = s.lost, t.disorder = s.disorder
      PROVE  Effect(s, t, {}, {}) /\ LinuxTracked(t)
  <2>1. LinuxTracked(t)
    BY <1>1, <1>2 DEF LinuxTracked
  <2>2. Tracked(t)
    BY <1>2, <2>1, OnLinux
  <2> QED BY <1>2, <2>1, <2>2 DEF Effect
<1>3. CASE unit = "high"
  <2> DEFINE t == [s EXCEPT !.high = TRUE]
  <2>1. o = Ok(t)
    BY <1>3 DEF LinuxChar, AsciiMaps
  <2>2. /\ t \in Injectors /\ t.held = s.held /\ t.stuck = s.stuck /\ t.keys = s.keys /\ t.pads = s.pads
        /\ t.lost = s.lost /\ t.disorder = s.disorder
    BY DEF Injectors
  <2> HIDE DEF t
  <2>3. Effect(s, t, {}, {})
    BY <1>2, <2>2
  <2> QED BY <2>1, <2>3 DEF Ok, IsOutcome
<1>4. CASE unit = "low" /\ ~ s.high
  <2>1. o = Err(s)
    BY <1>4 DEF LinuxChar, AsciiMaps
  <2>2. Effect(s, s, {}, {})
    BY <1>2
  <2> QED BY <2>1, <2>2 DEF Err, IsOutcome
<1>5. CASE AsciiMaps(unit)
  <2> DEFINE s0 == [s EXCEPT !.high = FALSE]
             s1 == FlushPendingText(s0)
             tap == <<Press("key0"), Release("key0")>>
             b == IF unit = "upper" THEN <<Press("shift")>> \o tap \o <<Release("shift")>> ELSE tap
  <2>1. o \in EmitPrefix(s1, b)
    BY <1>5 DEF LinuxChar, AsciiMaps
  <2>2. /\ s0 \in Injectors /\ s0.held = s.held /\ s0.stuck = s.stuck /\ s0.keys = s.keys /\ s0.pads = s.pads
        /\ s0.lost = s.lost /\ s0.disorder = s.disorder
    BY DEF Injectors
  <2> HIDE DEF s0
  <2>3. Tracked(s0)
    BY <1>2, <2>2 DEF Effect
  <2>4. /\ s1 \in Injectors /\ s1.batch = 0 /\ Tracked(s1)
        /\ s1.held = s0.held /\ s1.stuck = s0.stuck /\ s1.keys = s0.keys /\ s1.pads = s0.pads
    BY <2>2, <2>3, FlushedTracked
  <2> HIDE DEF s1
  <2>5. b \in Seq(Events) /\ PressedIn(b) \subseteq ReleasedIn(b) /\ PressedIn(b) \subseteq {"key0", "shift"}
    <3>1. CASE unit = "upper"
      BY <3>1, Taps
    <3>2. CASE unit # "upper"
      BY <3>2, Taps
    <3> QED BY <3>1, <3>2
  <2> HIDE DEF b
  <2>6. LinuxTracked(s1)
    BY <2>4, OnLinux
  <2>7. IsOutcome(o) /\ Emitted(o.dev, s1, b)
    BY <2>1, <2>4, <2>5, <2>6, EmitPrefixIs DEF LinuxTracked
  <2>8. /\ o.dev \in Injectors /\ o.dev.keys = s1.keys /\ o.dev.pads = s1.pads
        /\ o.dev.disorder = s1.disorder /\ (s1.stuck => o.dev.stuck)
        /\ o.dev.lost => s1.lost \/ o.dev.stuck
        /\ s1.lost => o.dev.lost
        /\ ~ o.dev.lost \/ ~ o.dev.stuck => o.dev.held \subseteq s1.held
    BY <2>4, <2>5, <2>7 DEF Emitted, SameBooks
  <2>9. LinuxTracked(o.dev)
    BY <2>6, <2>8 DEF LinuxTracked
  <2>10. Tracked(o.dev)
    BY <2>8, <2>9, OnLinux
  <2> QED BY <2>2, <2>4, <2>7, <2>8, <2>10 DEF Effect
<1>6. CASE ~ (unit = "high") /\ ~ (unit = "low" /\ ~ s.high) /\ ~ AsciiMaps(unit)
  <2> DEFINE n == s.batch + 1
             s1 == [s EXCEPT !.high = FALSE, !.batch = n]
             m == IF n >= BatchMax THEN 0 ELSE n
             t == [s EXCEPT !.high = FALSE, !.batch = m]
  <2>1. o = Ok(IF s1.batch >= BatchMax THEN TypeUnicode(s1) ELSE s1)
    BY <1>6 DEF LinuxChar
  <2>2. n \in Nat /\ m \in 0 .. BatchMax - 1
    BY InjectionAssumption DEF Injectors
  <2>3. n >= BatchMax => m = 0
    OBVIOUS
  <2>4. ~ (n >= BatchMax) => m = n
    OBVIOUS
  <2> HIDE DEF n, m
  <2>5. s1.batch = n /\ TypeUnicode(s1) = [s EXCEPT !.high = FALSE, !.batch = 0]
    BY DEF Injectors, TypeUnicode
  <2>6. o = Ok(t)
    BY <2>1, <2>3, <2>4, <2>5
  <2>7. /\ t \in Injectors /\ t.held = s.held /\ t.stuck = s.stuck /\ t.keys = s.keys /\ t.pads = s.pads
        /\ t.lost = s.lost /\ t.disorder = s.disorder
    BY <2>2 DEF Injectors
  <2> HIDE DEF t
  <2>8. Effect(s, t, {}, {})
    BY <1>2, <2>7
  <2> QED BY <2>6, <2>8 DEF Ok, IsOutcome
<1> QED BY <1>3, <1>4, <1>5, <1>6

\* A gamepad, made on its first report.
LEMMA LinuxPadIs ==
    ASSUME os = "linux", NEW s \in Injectors, Tracked(s), s.batch = 0,
           NEW pad \in Pads \cup ExcessPads, NEW down \in BOOLEAN, NEW o \in LinuxPad(s, pad, down)
    PROVE  IsOutcome(o) /\ Effect(s, o.dev, IF down THEN {pad} ELSE {}, IF down THEN {} ELSE {pad})
<1>1. LinuxTracked(s)
  BY OnLinux
<1>2. CASE pad \in ExcessPads
  <2>1. o = Err(s)
    BY <1>2 DEF LinuxPad
  <2>2. pad \notin Targets
    BY <1>2, InjectionAssumption DEF Targets
  <2>3. pad \notin s.held
    BY <2>2 DEF Injectors
  <2>4. Effect(s, s, IF down THEN {pad} ELSE {}, IF down THEN {} ELSE {pad})
    BY <2>3 DEF Effect
  <2> QED BY <2>1, <2>4 DEF Err, IsOutcome
<1>3. CASE pad \in Pads /\ pad \notin ExcessPads /\ o \in Kept(Emit([s EXCEPT !.pads = @ \cup {pad}], <<<<pad, down>>>>), s)
  <2> DEFINE P == s.pads \cup {pad}
             s1 == [s EXCEPT !.pads = P]
             b == << <<pad, down>> >>
  <2>1. P \in SUBSET Pads
    BY <1>3 DEF Injectors
  <2>2. o \in Kept(Emit(s1, b), s)
    BY <1>3
  <2>3. /\ b \in Seq(Events) /\ PressedIn(b) = (IF down THEN {pad} ELSE {})
        /\ ReleasedIn(b) = (IF down THEN {} ELSE {pad}) /\ (Releasing(b) <=> ~ down)
    BY <1>3, OneEvent DEF Targets
  <2>4. s.pads \subseteq P /\ pad \in P
    OBVIOUS
  <2> HIDE DEF P, b
  <2>5. /\ s1 \in Injectors /\ s1.lost = s.lost /\ s1.stuck = s.stuck /\ s1.batch = 0
        /\ s1.held = s.held /\ s1.keys = s.keys /\ s1.pads = P /\ s1.disorder = s.disorder
    BY <2>1 DEF Injectors
  <2> HIDE DEF s1
  <2>6. s1.lost => s1.stuck
    BY <1>1, <2>5 DEF LinuxTracked
  <2>7. /\ IsOutcome(o) /\ o.dev \in Injectors /\ SameBooks(o.dev, s1)
        /\ o.dev.lost = s1.lost /\ o.dev.disorder = s1.disorder
        /\ s1.stuck => o.dev.stuck
        /\ o.ok => o.dev.stuck = s1.stuck /\ o.dev.held = (s1.held \cup PressedIn(b)) \ ReleasedIn(b)
        /\ ~ o.ok => o.dev.held = s1.held /\ (Releasing(b) => o.dev.stuck)
    BY <2>2, <2>3, <2>5, <2>6, KeptEmit
  <2>8. o.ok \in BOOLEAN /\ o.dev.keys = s.keys /\ o.dev.pads = P
    BY <2>5, <2>7 DEF IsOutcome, SameBooks
  <2>9. o.dev.held \subseteq s.held \cup (IF down THEN {pad} ELSE {})
    BY <2>3, <2>5, <2>7, <2>8
  <2>10. ~ o.dev.lost => s.held \subseteq s.keys \cup s.pads \cup {"left", "shift", "rshift", "caps"}
    BY <1>1, <2>5, <2>7 DEF LinuxTracked
  <2>11. ~ o.dev.lost => o.dev.held \subseteq o.dev.keys \cup o.dev.pads \cup {"left", "shift", "rshift", "caps"}
    BY <2>4, <2>8, <2>9, <2>10
  <2>12. LinuxTracked(o.dev)
    BY <1>1, <2>5, <2>7, <2>11 DEF LinuxTracked
  <2>13. Tracked(o.dev)
    BY <2>7, <2>12, OnLinux
  <2>14. ~ o.dev.stuck => o.dev.held \cap (IF down THEN {} ELSE {pad}) = {}
    BY <2>3, <2>5, <2>7, <2>8
  <2> QED BY <2>5, <2>7, <2>9, <2>13, <2>14 DEF Effect
<1>4. CASE pad \in Pads /\ pad \notin ExcessPads /\ o = Err(Failed(s)) /\ CanFail(s) /\ pad \notin s.pads
  <2> DEFINE f == s.faults + 1
             t == [s EXCEPT !.faults = f]
  <2>1. f \in 0 .. MaxFailures
    BY <1>4, InjectionAssumption DEF CanFail, Injectors
  <2>2. Failed(s) = t
    BY DEF Failed
  <2> HIDE DEF f
  <2>3. /\ t \in Injectors /\ t.held = s.held /\ t.stuck = s.stuck /\ t.keys = s.keys /\ t.pads = s.pads
        /\ t.lost = s.lost /\ t.disorder = s.disorder
    BY <2>1 DEF Injectors
  <2> HIDE DEF t
  <2>4. o.dev = t /\ IsOutcome(o)
    BY <1>4, <2>2 DEF Err, IsOutcome
  <2>5. LinuxTracked(t)
    BY <1>1, <2>3 DEF LinuxTracked
  <2>6. Tracked(t)
    BY <2>3, <2>5, OnLinux
  <2>7. ~ s.lost => pad \notin s.held
    <3>1. pad \notin Keys \cup {"left"}
      BY <1>4, InjectionAssumption
    <3>2. s.keys \subseteq Keys
      BY DEF Injectors
    <3> QED BY <1>1, <1>4, <3>1, <3>2 DEF LinuxTracked, Keys
  <2>8. ~ t.stuck => pad \notin t.held
    BY <1>1, <2>3, <2>7 DEF LinuxTracked
  <2> QED BY <2>3, <2>4, <2>6, <2>8 DEF Effect
<1> QED BY <1>2, <1>3, <1>4 DEF LinuxPad, When

\* There are finitely many keys.
LEMMA FiniteKeys == IsFiniteSet(Keys \cup {"left"}) /\ Keys \cup {"left"} \subseteq Targets
<1>1. IsFiniteSet({"key0"})
  BY FS_Singleton
<1>2. IsFiniteSet({"key0"} \cup {"shift"})
  BY <1>1, FS_AddElement
<1>3. IsFiniteSet({"key0"} \cup {"shift"} \cup {"rshift"})
  BY <1>2, FS_AddElement
<1>4. IsFiniteSet({"key0"} \cup {"shift"} \cup {"rshift"} \cup {"caps"})
  BY <1>3, FS_AddElement
<1>5. IsFiniteSet({"key0"} \cup {"shift"} \cup {"rshift"} \cup {"caps"} \cup {"left"})
  BY <1>4, FS_AddElement
<1>6. {"key0"} \cup {"shift"} \cup {"rshift"} \cup {"caps"} \cup {"left"} = Keys \cup {"left"}
  BY DEF Keys
<1> QED BY <1>5, <1>6 DEF Targets

\* Releasing the left button alone.
LEMMA LeftUp ==
    ASSUME NEW b, b = <<Release("left")>>
    PROVE  b \in Seq(Events) /\ PressedIn(b) = {} /\ ReleasedIn(b) = {"left"}
BY OneEvent DEF Release, Targets

\* A Reset.
LEMMA LinuxResetIs ==
    ASSUME os = "linux", NEW s \in Injectors, Tracked(s), s.batch = 0, NEW o \in LinuxReset(s)
    PROVE  IsOutcome(o) /\ Effect(s, o.dev, {}, Targets)
<1> DEFINE S == s.keys \cup {"shift", "rshift", "caps"}
           ups == SetToSeq({Release(k) : k \in S})
           left == <<Release("left")>>
           h == s.held \ s.pads
           s1 == [s EXCEPT !.held = h, !.pads = {}, !.keys = {}, !.mods = {}, !.high = FALSE]
<1>1. LinuxTracked(s)
  BY OnLinux
<1>2. S \subseteq Keys /\ S \subseteq Targets /\ IsFiniteSet(S)
  <2>1. S \subseteq Keys
    BY DEF Injectors, Keys
  <2>2. S \subseteq Keys \cup {"left"}
    BY <2>1
  <2> QED BY <2>1, <2>2, FiniteKeys, FS_Subset
<1>3. \E a \in Emit(s1, left) : \E c \in Emit(a.dev, ups) : o = Ok(c.dev)
  BY DEF LinuxReset, Then
<1>4. h \in SUBSET Targets
  BY DEF Injectors
<1>5. /\ s.keys \subseteq S /\ {"shift", "rshift", "caps"} \subseteq S
      /\ h = s.held \ s.pads
  OBVIOUS
<1> HIDE DEF h, S
<1>6. /\ s1 \in Injectors /\ s1.lost = s.lost /\ s1.stuck = s.stuck /\ s1.batch = 0
      /\ s1.held = h /\ s1.keys = {} /\ s1.pads = {} /\ s1.disorder = s.disorder
  BY <1>4 DEF Injectors
<1> HIDE DEF s1
<1>7. PICK x : x = left
  OBVIOUS
<1>8. x \in Seq(Events) /\ PressedIn(x) = {} /\ ReleasedIn(x) = {"left"}
  BY <1>7, LeftUp
<1>9. PICK y : y = ups
  OBVIOUS
<1>10. y \in Seq(Events) /\ PressedIn(y) = {} /\ ReleasedIn(y) = S
  BY <1>2, <1>9, ReleasesOf
<1>22. PICK a \in Emit(s1, x) : \E c \in Emit(a.dev, y) : o = Ok(c.dev)
  BY <1>3, <1>7, <1>9
<1>11. PICK c \in Emit(a.dev, y) : o = Ok(c.dev)
  BY <1>22
<1>12. s1.lost => s1.stuck
  BY <1>1, <1>6 DEF LinuxTracked
<1>13. Emitted(a.dev, s1, x)
  BY <1>6, <1>8, <1>12, <1>22, EmitIs
<1>14. /\ a.dev \in Injectors /\ a.dev.keys = {} /\ a.dev.pads = {} /\ a.dev.batch = 0
       /\ a.dev.held \subseteq h
       /\ ~ a.dev.lost \/ ~ a.dev.stuck => "left" \notin a.dev.held
       /\ s.stuck => a.dev.stuck
       /\ s.lost => a.dev.lost
       /\ a.dev.lost => a.dev.stuck
       /\ a.dev.disorder = s.disorder
  BY <1>1, <1>6, <1>8, <1>13 DEF Emitted, SameBooks, LinuxTracked
<1>15. Emitted(c.dev, a.dev, y)
  BY <1>10, <1>11, <1>14, EmitIs
<1>16. /\ c.dev \in Injectors /\ c.dev.keys = {} /\ c.dev.pads = {} /\ c.dev.batch = 0
       /\ c.dev.held \subseteq a.dev.held
       /\ ~ c.dev.lost \/ ~ c.dev.stuck => c.dev.held \cap S = {}
       /\ a.dev.stuck => c.dev.stuck
       /\ a.dev.lost => c.dev.lost
       /\ c.dev.lost => c.dev.stuck
       /\ c.dev.disorder = s.disorder
  BY <1>10, <1>14, <1>15 DEF Emitted, SameBooks
<1>17. ~ c.dev.lost => c.dev.held \subseteq {}
  <2> SUFFICES ASSUME ~ c.dev.lost, NEW k \in c.dev.held PROVE FALSE
    OBVIOUS
  <2>1. ~ s.lost /\ ~ a.dev.lost
    BY <1>14, <1>16
  <2>2. k \in s.held /\ k \notin s.pads /\ k # "left" /\ k \notin S
    BY <1>5, <1>14, <1>16, <2>1
  <2> QED BY <1>1, <1>5, <2>1, <2>2 DEF LinuxTracked
<1>18. LinuxTracked(c.dev)
  BY <1>1, <1>16, <1>17 DEF LinuxTracked
<1>19. Tracked(c.dev)
  BY <1>16, <1>18, OnLinux
<1>20. ~ c.dev.stuck => c.dev.held = {}
  BY <1>16, <1>17
<1>21. s.stuck => c.dev.stuck
  BY <1>14, <1>16
<1>23. Effect(s, c.dev, {}, Targets)
  BY <1>16, <1>19, <1>20, <1>21 DEF Effect
<1> QED BY <1>11, <1>23 DEF Ok, IsOutcome

\* The events of the wire.
LEMMA EventShape ==
    ASSUME NEW e \in Event
    PROVE  \/ e.type \in {"NotFinite", "Move", "Reset"}
           \/ e.type = "Button" /\ e.down \in BOOLEAN
           \/ e.type = "Key" /\ e.key \in WireKeys /\ e.down \in BOOLEAN /\ e.mods \in SUBSET Modifier
           \/ e.type = "Flags" /\ e.key \in WireKeys /\ e.mods \in SUBSET Modifier
           \/ e.type = "Char" /\ e.unit \in {"ascii", "upper", "wide", "high", "low"}
           \/ e.type = "Pad" /\ e.pad \in Pads \cup ExcessPads /\ e.down \in BOOLEAN
BY DEF Event

\* An event that leaves what is held and tracked as it was.
LEMMA NoEffect ==
    ASSUME NEW s \in Injectors, Tracked(s)
    PROVE  /\ Effect(s, s, {}, {})
           /\ CanFail(s) => Effect(s, Failed(s), {}, {})
<1>1. Effect(s, s, {}, {})
  BY DEF Effect
<1>2. ASSUME CanFail(s) PROVE Effect(s, Failed(s), {}, {})
  <2> DEFINE f == s.faults + 1
             t == [s EXCEPT !.faults = f]
  <2>1. f \in 0 .. MaxFailures
    BY <1>2, InjectionAssumption DEF CanFail, Injectors
  <2>2. Failed(s) = t
    BY DEF Failed
  <2> HIDE DEF f
  <2>3. /\ t \in Injectors /\ t.held = s.held /\ t.stuck = s.stuck /\ t.keys = s.keys /\ t.pads = s.pads
        /\ t.lost = s.lost /\ t.disorder = s.disorder /\ t.buttons = s.buttons /\ t.mods = s.mods
        /\ t.batch = s.batch
    BY <2>1 DEF Injectors
  <2> HIDE DEF t
  <2>4. Tracked(t)
    BY <2>3 DEF Tracked, ReleasableBy
  <2> QED BY <2>2, <2>3, <2>4 DEF Effect
<1> QED BY <1>1, <1>2

\* Every event on Linux.
LEMMA LinuxInjectIs ==
    ASSUME os = "linux", NEW s \in Injectors, Tracked(s), NEW e \in Event, NEW o \in LinuxInject(s, e)
    PROVE  IsOutcome(o) /\ Effect(s, o.dev, PressedBy(e), ReleasedBy(e))
<1> DEFINE s1 == FlushPendingText(s)
<1>1. /\ s1 \in Injectors /\ s1.batch = 0 /\ Tracked(s1)
      /\ s1.held = s.held /\ s1.stuck = s.stuck
  BY FlushedTracked
<1>2. \/ e.type = "NotFinite" /\ o = Ok(s)
      \/ e.type = "Move" /\ (o = Ok(s1) \/ (CanFail(s1) /\ o = Err(Failed(s1))))
      \/ e.type = "Button" /\ o \in LinuxPointer(s1, e.down)
      \/ e.type = "Key" /\ o \in LinuxKey(s1, e.key, e.down, e.mods)
      \/ e.type = "Flags" /\ o \in LinuxFlags(s1, e.mods)
      \/ e.type = "Char" /\ o \in LinuxChar(s, e.unit)
      \/ e.type = "Pad" /\ o \in LinuxPad(s1, e.pad, e.down)
      \/ e.type = "Reset" /\ o \in LinuxReset(s1)
  BY EventShape DEF LinuxInject, When
<1> HIDE DEF s1
<1>3. \A t, P, R : Effect(s1, t, P, R) => Effect(s, t, P, R)
  BY <1>1 DEF Effect
<1>4. CASE e.type = "NotFinite" /\ o = Ok(s)
  BY <1>4, NoEffect DEF Ok, IsOutcome, PressedBy, ReleasedBy
<1>5. CASE e.type = "Move" /\ (o = Ok(s1) \/ (CanFail(s1) /\ o = Err(Failed(s1))))
  <2>1. IsOutcome(o) /\ Effect(s1, o.dev, {}, {})
    <3>1. CASE o = Ok(s1)
      BY <1>1, <3>1, NoEffect DEF Ok, IsOutcome
    <3>2. CASE CanFail(s1) /\ o = Err(Failed(s1))
      <4>1. o.dev = Failed(s1) /\ IsOutcome(o)
        BY <3>2 DEF Err, IsOutcome
      <4> QED BY <1>1, <3>2, <4>1, NoEffect
    <3> QED BY <1>5, <3>1, <3>2
  <2> QED BY <1>3, <1>5, <2>1 DEF PressedBy, ReleasedBy
<1>6. CASE e.type = "Button" /\ o \in LinuxPointer(s1, e.down)
  BY <1>1, <1>3, <1>6, EventShape, LinuxPointerIs DEF PressedBy, ReleasedBy
<1>7. CASE e.type = "Key" /\ o \in LinuxKey(s1, e.key, e.down, e.mods)
  BY <1>1, <1>3, <1>7, EventShape, LinuxKeyIs DEF PressedBy, ReleasedBy
<1>8. CASE e.type = "Flags" /\ o \in LinuxFlags(s1, e.mods)
  BY <1>1, <1>3, <1>8, EventShape, LinuxFlagsIs DEF PressedBy, ReleasedBy
<1>9. CASE e.type = "Char" /\ o \in LinuxChar(s, e.unit)
  BY <1>9, EventShape, LinuxCharIs DEF PressedBy, ReleasedBy
<1>10. CASE e.type = "Pad" /\ o \in LinuxPad(s1, e.pad, e.down)
  BY <1>1, <1>3, <1>10, EventShape, LinuxPadIs DEF PressedBy, ReleasedBy
<1>11. CASE e.type = "Reset" /\ o \in LinuxReset(s1)
  BY <1>1, <1>3, <1>11, LinuxResetIs DEF PressedBy, ReleasedBy
<1> QED BY <1>2, <1>4, <1>5, <1>6, <1>7, <1>8, <1>9, <1>10, <1>11

\* The devices destroyed: nothing is held.
LEMMA LinuxDropIs ==
    ASSUME os = "linux", NEW s \in Injectors, Tracked(s), NEW t \in LinuxDrop(s)
    PROVE  Effect(s, t, {}, Targets)
<1> DEFINE s1 == FlushPendingText(s)
<1>1. /\ s1 \in Injectors /\ s1.batch = 0 /\ Tracked(s1)
      /\ s1.held = s.held /\ s1.stuck = s.stuck
  BY FlushedTracked
<1>2. PICK o \in LinuxReset(s1) : t = [o.dev EXCEPT !.held = {}]
  BY DEF LinuxDrop
<1> HIDE DEF s1
<1>3. Effect(s1, o.dev, {}, Targets)
  BY <1>1, <1>2, LinuxResetIs
<1>4. o.dev \in Injectors /\ LinuxTracked(o.dev) /\ (s.stuck => o.dev.stuck)
  BY <1>1, <1>3, OnLinux DEF Effect
<1>5. /\ t \in Injectors /\ t.held = {} /\ t.stuck = o.dev.stuck /\ t.lost = o.dev.lost
      /\ t.disorder = o.dev.disorder
  BY <1>2, <1>4 DEF Injectors
<1>6. LinuxTracked(t)
  BY <1>4, <1>5 DEF LinuxTracked
<1>7. Tracked(t)
  BY <1>5, <1>6, OnLinux
<1> QED BY <1>4, <1>5, <1>7 DEF Effect

\* An injector is tracked on Windows: what is held unreported is held by something it knows.
WindowsTracked(s) ==
    /\ s \in Injectors /\ ~ s.disorder /\ (s.lost => s.stuck) /\ s.batch = 0
    /\ ~ s.lost => s.held \subseteq s.keys \cup s.pads \cup {"left", "shift"}
    /\ ~ s.stuck => /\ "left" \in s.held => "left" \in s.buttons
                    /\ "shift" \in s.held => "SHIFT" \in s.mods \/ "shift" \in s.keys
\* That is what Tracked says there.
LEMMA OnWindows ==
    ASSUME os = "windows", NEW s \in Injectors
    PROVE  Tracked(s) <=> WindowsTracked(s)
BY DEF Tracked, WindowsTracked, ReleasableBy

\* Events sent one after another, in the terms the handlers are reasoned about.
LEMMA SentPrefix ==
    ASSUME NEW s \in Injectors, s.lost => s.stuck, s.batch = 0, NEW b \in Seq(Events), NEW o \in EmitPrefix(s, b)
    PROVE  /\ IsOutcome(o) /\ o.dev \in Injectors /\ SameBooks(o.dev, s)
           /\ o.dev.held \subseteq s.held \cup PressedIn(b)
           /\ ~ o.dev.lost \/ ~ o.dev.stuck => o.dev.held \cap ReleasedIn(b) = {}
           /\ s.stuck => o.dev.stuck
           /\ s.lost => o.dev.lost
           /\ o.dev.lost => o.dev.stuck
           /\ o.dev.disorder = s.disorder
BY EmitPrefixIs DEF Emitted

\* A button.
LEMMA WindowsButtonIs ==
    ASSUME os = "windows", NEW s \in Injectors, Tracked(s), NEW down \in BOOLEAN, NEW o \in WindowsButton(s, down)
    PROVE  IsOutcome(o) /\ Effect(s, o.dev, IF down THEN {"left"} ELSE {}, IF down THEN {} ELSE {"left"})
<1> DEFINE B == IF down THEN s.buttons \cup {"left"} ELSE s.buttons \ {"left"}
           s1 == [s EXCEPT !.buttons = B]
           b == << <<"left", down>> >>
<1>1. WindowsTracked(s)
  BY OnWindows
<1>2. /\ b \in Seq(Events) /\ PressedIn(b) = (IF down THEN {"left"} ELSE {})
      /\ ReleasedIn(b) = (IF down THEN {} ELSE {"left"})
  BY OneEvent DEF Targets
<1>3. o \in EmitPrefix(s1, b)
  BY DEF WindowsButton
<1>4. B \in SUBSET {"left"} /\ (down => "left" \in B)
  BY DEF Injectors
<1> HIDE DEF b, B
<1>5. /\ s1 \in Injectors /\ s1.lost = s.lost /\ s1.stuck = s.stuck /\ s1.batch = s.batch /\ s1.mods = s.mods
      /\ s1.held = s.held /\ s1.keys = s.keys /\ s1.pads = s.pads /\ s1.disorder = s.disorder /\ s1.buttons = B
  BY <1>4 DEF Injectors
<1> HIDE DEF s1
<1>6. (s1.lost => s1.stuck) /\ s1.batch = 0
  BY <1>1, <1>5 DEF WindowsTracked
<1>7. /\ IsOutcome(o) /\ o.dev \in Injectors /\ SameBooks(o.dev, s1)
      /\ o.dev.held \subseteq s1.held \cup PressedIn(b)
      /\ ~ o.dev.lost \/ ~ o.dev.stuck => o.dev.held \cap ReleasedIn(b) = {}
      /\ s1.stuck => o.dev.stuck
      /\ s1.lost => o.dev.lost
      /\ o.dev.lost => o.dev.stuck
      /\ o.dev.disorder = s1.disorder
  BY <1>2, <1>3, <1>5, <1>6, SentPrefix
<1>8. /\ o.dev.keys = s.keys /\ o.dev.pads = s.pads /\ o.dev.mods = s.mods /\ o.dev.buttons = B /\ o.dev.batch = 0
  BY <1>5, <1>6, <1>7 DEF SameBooks
<1>9. ~ o.dev.lost => o.dev.held \subseteq o.dev.keys \cup o.dev.pads \cup {"left", "shift"}
  BY <1>1, <1>2, <1>5, <1>7, <1>8 DEF WindowsTracked
<1>10. ~ o.dev.stuck => "left" \notin o.dev.held \/ "left" \in o.dev.buttons
  BY <1>2, <1>4, <1>7, <1>8
<1>11. ~ o.dev.stuck => "shift" \notin o.dev.held \/ "SHIFT" \in o.dev.mods \/ "shift" \in o.dev.keys
  BY <1>1, <1>2, <1>5, <1>7, <1>8 DEF WindowsTracked
<1>12. WindowsTracked(o.dev)
  BY <1>1, <1>5, <1>7, <1>8, <1>9, <1>10, <1>11 DEF WindowsTracked
<1>13. Tracked(o.dev)
  BY <1>7, <1>12, OnWindows
<1> QED BY <1>2, <1>5, <1>7, <1>13 DEF Effect

\* The transitions of Shift, the one modifier Windows is told of.
LEMMA ShiftSync ==
    ASSUME NEW b, NEW before, NEW after, Syncs(b, before, after, {"SHIFT"})
    PROVE  /\ b \in Seq(Events)
           /\ PressedIn(b) \subseteq {"shift"}
           /\ "shift" \in PressedIn(b) => "SHIFT" \in after
           /\ "SHIFT" \in before /\ "SHIFT" \notin after => "shift" \in ReleasedIn(b)
<1>1. ModKey("SHIFT") = "shift"
  BY DEF ModKey
<1> QED BY <1>1 DEF Syncs

\* A key, with Shift as the event has it.
LEMMA WindowsKeyIs ==
    ASSUME os = "windows", NEW s \in Injectors, Tracked(s), NEW key \in WireKeys,
           NEW down \in BOOLEAN, NEW mods \in SUBSET Modifier, NEW o \in WindowsKey(s, key, down, mods)
    PROVE  IsOutcome(o) /\ Effect(s, o.dev, Synthesized \cup (IF down THEN {key} ELSE {}),
                                  IF down THEN {} ELSE {key})
<1>1. WindowsTracked(s)
  BY OnWindows
<1>2. CASE ~ WindowsMaps(key)
  <2>1. o = Ok(s) /\ key = "unmapped"
    BY <1>2 DEF WindowsKey, WindowsMaps
  <2>2. o.dev = s /\ IsOutcome(o)
    BY <2>1 DEF Ok, IsOutcome
  <2>3. key \notin Targets
    BY <2>1, InjectionAssumption DEF Targets, Keys
  <2>4. s.held \subseteq Targets
    BY DEF Injectors
  <2>5. s.held \cap (IF down THEN {} ELSE {key}) = {}
    BY <2>3, <2>4
  <2> QED BY <2>2, <2>5 DEF Effect
<1>3. CASE WindowsMaps(key)
  <2> DEFINE sync == IF IsModKey(key) THEN <<>> ELSE ModEvents(s.mods, mods, {"SHIFT"})
             M == IF IsModKey(key) THEN s.mods ELSE mods
             K == IF down THEN s.keys \cup {key} ELSE s.keys \ {key}
             s1 == [s EXCEPT !.mods = M, !.keys = K]
             b == Append(sync, <<key, down>>)
  <2>1. key \in Keys /\ key \in Targets
    BY <1>3, InjectionAssumption DEF WindowsMaps, Targets
  <2>2. /\ sync \in Seq(Events) /\ PressedIn(sync) \subseteq {"shift"}
        /\ "shift" \in PressedIn(sync) => "SHIFT" \in M
        /\ "SHIFT" \in s.mods /\ "SHIFT" \notin M => "shift" \in ReleasedIn(sync) /\ key # "shift"
    <3>1. CASE IsModKey(key)
      BY <3>1 DEF PressedIn
    <3>2. CASE ~ IsModKey(key)
      <4>1. PICK c : c = ModEvents(s.mods, mods, {"SHIFT"})
        OBVIOUS
      <4>5. s.mods \in SUBSET Modifier /\ {"SHIFT"} \in SUBSET {"SHIFT", "CAPS"}
        BY DEF Injectors
      <4>6. Syncs(c, s.mods, mods, {"SHIFT"})
        BY <4>1, <4>5, ModEventsAre
      <4>2. /\ c \in Seq(Events) /\ PressedIn(c) \subseteq {"shift"}
            /\ "shift" \in PressedIn(c) => "SHIFT" \in mods
            /\ "SHIFT" \in s.mods /\ "SHIFT" \notin mods => "shift" \in ReleasedIn(c)
        BY <4>6, ShiftSync
      <4>3. sync = c /\ M = mods
        BY <3>2, <4>1
      <4>4. key # "shift"
        BY <3>2 DEF IsModKey
      <4> HIDE DEF sync, M
      <4> QED BY <4>2, <4>3, <4>4
    <3> QED BY <3>1, <3>2
  <2>3. M \in SUBSET Modifier /\ K \in SUBSET Keys
    BY <2>1 DEF Injectors
  <2>4. o \in EmitPrefix(s1, b)
    <3>1. CASE IsModKey(key)
      <4>1. s1 = [s EXCEPT !.keys = IF down THEN @ \cup {key} ELSE @ \ {key}]
        BY <3>1 DEF Injectors
      <4> QED BY <1>3, <3>1, <4>1 DEF WindowsKey
    <3>2. CASE ~ IsModKey(key)
      <4>1. s1 = [[s EXCEPT !.mods = mods] EXCEPT !.keys = IF down THEN @ \cup {key} ELSE @ \ {key}]
        BY <3>2 DEF Injectors
      <4> QED BY <1>3, <3>2, <4>1 DEF WindowsKey
    <3> QED BY <3>1, <3>2
  <2>5. K = IF down THEN s.keys \cup {key} ELSE s.keys \ {key}
    OBVIOUS
  <2> HIDE DEF K, M, sync
  <2>6. /\ s1 \in Injectors /\ s1.lost = s.lost /\ s1.stuck = s.stuck /\ s1.batch = s.batch /\ s1.mods = M
        /\ s1.held = s.held /\ s1.keys = K /\ s1.pads = s.pads /\ s1.disorder = s.disorder
        /\ s1.buttons = s.buttons
    BY <2>3 DEF Injectors
  <2> HIDE DEF s1
  <2>7. /\ b \in Seq(Events) /\ PressedIn(b) = PressedIn(sync) \cup (IF down THEN {key} ELSE {})
        /\ ~ down => key \in ReleasedIn(b)
        /\ \A x \in ReleasedIn(sync) : x # key => x \in ReleasedIn(b)
    BY <2>1, <2>2, Appended
  <2> HIDE DEF b
  <2>8. (s1.lost => s1.stuck) /\ s1.batch = 0
    BY <1>1, <2>6 DEF WindowsTracked
  <2>9. /\ IsOutcome(o) /\ o.dev \in Injectors /\ SameBooks(o.dev, s1)
        /\ o.dev.held \subseteq s1.held \cup PressedIn(b)
        /\ ~ o.dev.lost \/ ~ o.dev.stuck => o.dev.held \cap ReleasedIn(b) = {}
        /\ s1.stuck => o.dev.stuck
        /\ s1.lost => o.dev.lost
        /\ o.dev.lost => o.dev.stuck
        /\ o.dev.disorder = s1.disorder
    BY <2>4, <2>6, <2>7, <2>8, SentPrefix
  <2>10. /\ o.dev.keys = K /\ o.dev.pads = s.pads /\ o.dev.mods = M /\ o.dev.buttons = s.buttons /\ o.dev.batch = 0
    BY <2>6, <2>8, <2>9 DEF SameBooks
  <2>11. o.dev.held \subseteq s.held \cup {"shift"} \cup (IF down THEN {key} ELSE {})
    BY <2>2, <2>6, <2>7, <2>9
  <2>12. ~ o.dev.lost \/ ~ o.dev.stuck => o.dev.held \cap (IF down THEN {} ELSE {key}) = {}
    BY <2>7, <2>9
  <2>13. ~ o.dev.lost => o.dev.held \subseteq o.dev.keys \cup o.dev.pads \cup {"left", "shift"}
    <3>1. ~ o.dev.lost => s.held \subseteq s.keys \cup s.pads \cup {"left", "shift"}
      BY <1>1, <2>6, <2>9 DEF WindowsTracked
    <3>2. CASE down
      BY <2>5, <2>10, <2>11, <3>1, <3>2
    <3>3. CASE ~ down
      BY <2>5, <2>10, <2>11, <2>12, <3>1, <3>3
    <3> QED BY <3>2, <3>3
  <2>14. key # "left"
    BY <2>1 DEF Keys
  <2>15. ~ o.dev.stuck => "left" \notin o.dev.held \/ "left" \in o.dev.buttons
    BY <1>1, <2>6, <2>9, <2>10, <2>11, <2>14 DEF WindowsTracked
  <2>16. ~ o.dev.stuck => "shift" \notin o.dev.held \/ "SHIFT" \in o.dev.mods \/ "shift" \in o.dev.keys
    <3> SUFFICES ASSUME ~ o.dev.stuck, "shift" \in o.dev.held, "SHIFT" \notin M PROVE "shift" \in K
      BY <2>10
    <3>1. CASE key = "shift"
      BY <2>5, <2>12, <3>1
    <3>2. CASE key # "shift"
      <4>1. "shift" \in s.held
        BY <2>2, <2>6, <2>7, <2>9, <3>2
      <4>2. "SHIFT" \notin s.mods
        BY <2>2, <2>7, <2>9, <3>2
      <4>3. "shift" \in s.keys
        BY <1>1, <2>6, <2>9, <4>1, <4>2 DEF WindowsTracked
      <4> QED BY <2>5, <3>2, <4>3
    <3> QED BY <3>1, <3>2
  <2>17. WindowsTracked(o.dev)
    BY <1>1, <2>6, <2>9, <2>10, <2>13, <2>15, <2>16 DEF WindowsTracked
  <2>18. Tracked(o.dev)
    BY <2>9, <2>17, OnWindows
  <2> QED BY <2>6, <2>9, <2>11, <2>12, <2>18 DEF Effect, Synthesized
<1> QED BY <1>2, <1>3

\* A change of the modifiers alone.
LEMMA WindowsFlagsIs ==
    ASSUME os = "windows", NEW s \in Injectors, Tracked(s), NEW mods \in SUBSET Modifier, NEW o \in WindowsFlags(s, mods)
    PROVE  IsOutcome(o) /\ Effect(s, o.dev, Synthesized, {})
<1> DEFINE s1 == [s EXCEPT !.mods = mods]
<1>1. WindowsTracked(s)
  BY OnWindows
<1>2. PICK c : c = ModEvents(s.mods, mods, {"SHIFT"})
  OBVIOUS
<1>3. s.mods \in SUBSET Modifier /\ {"SHIFT"} \in SUBSET {"SHIFT", "CAPS"}
  BY DEF Injectors
<1>4. Syncs(c, s.mods, mods, {"SHIFT"})
  BY <1>2, <1>3, ModEventsAre
<1>5. /\ c \in Seq(Events) /\ PressedIn(c) \subseteq {"shift"}
      /\ "shift" \in PressedIn(c) => "SHIFT" \in mods
      /\ "SHIFT" \in s.mods /\ "SHIFT" \notin mods => "shift" \in ReleasedIn(c)
  BY <1>4, ShiftSync
<1>6. o \in EmitPrefix(s1, c)
  BY <1>2 DEF WindowsFlags
<1>7. /\ s1 \in Injectors /\ s1.lost = s.lost /\ s1.stuck = s.stuck /\ s1.batch = s.batch /\ s1.mods = mods
      /\ s1.held = s.held /\ s1.keys = s.keys /\ s1.pads = s.pads /\ s1.disorder = s.disorder
      /\ s1.buttons = s.buttons
  BY DEF Injectors
<1> HIDE DEF s1
<1>8. (s1.lost => s1.stuck) /\ s1.batch = 0
  BY <1>1, <1>7 DEF WindowsTracked
<1>9. /\ IsOutcome(o) /\ o.dev \in Injectors /\ SameBooks(o.dev, s1)
      /\ o.dev.held \subseteq s1.held \cup PressedIn(c)
      /\ ~ o.dev.lost \/ ~ o.dev.stuck => o.dev.held \cap ReleasedIn(c) = {}
      /\ s1.stuck => o.dev.stuck
      /\ s1.lost => o.dev.lost
      /\ o.dev.lost => o.dev.stuck
      /\ o.dev.disorder = s1.disorder
  BY <1>5, <1>6, <1>7, <1>8, SentPrefix
<1>10. /\ o.dev.keys = s.keys /\ o.dev.pads = s.pads /\ o.dev.mods = mods /\ o.dev.buttons = s.buttons /\ o.dev.batch = 0
  BY <1>7, <1>8, <1>9 DEF SameBooks
<1>11. ~ o.dev.lost => o.dev.held \subseteq o.dev.keys \cup o.dev.pads \cup {"left", "shift"}
  BY <1>1, <1>5, <1>7, <1>9, <1>10 DEF WindowsTracked
<1>12. ~ o.dev.stuck => "left" \notin o.dev.held \/ "left" \in o.dev.buttons
  BY <1>1, <1>5, <1>7, <1>9, <1>10 DEF WindowsTracked
<1>13. ~ o.dev.stuck => "shift" \notin o.dev.held \/ "SHIFT" \in o.dev.mods \/ "shift" \in o.dev.keys
  BY <1>1, <1>5, <1>7, <1>9, <1>10 DEF WindowsTracked
<1>14. WindowsTracked(o.dev)
  BY <1>1, <1>7, <1>9, <1>10, <1>11, <1>12, <1>13 DEF WindowsTracked
<1>15. Tracked(o.dev)
  BY <1>9, <1>14, OnWindows
<1>16. o.dev.held \subseteq s.held \cup Synthesized
  BY <1>5, <1>7, <1>9 DEF Synthesized
<1> QED BY <1>7, <1>9, <1>15, <1>16 DEF Effect

\* A character, pressed and released as a packet.
LEMMA WindowsCharIs ==
    ASSUME os = "windows", NEW s \in Injectors, Tracked(s), NEW o \in WindowsChar(s)
    PROVE  IsOutcome(o) /\ Effect(s, o.dev, {}, {})
<1>1. WindowsTracked(s)
  BY OnWindows
<1>2. PICK b : b = <<Press("packet"), Release("packet")>>
  OBVIOUS
<1>3. b \in Seq(Events) /\ PressedIn(b) \subseteq ReleasedIn(b) /\ PressedIn(b) \subseteq {"packet"}
  BY <1>2, Taps
<1>4. o \in EmitPrefix(s, b)
  BY <1>2 DEF WindowsChar
<1>5. /\ IsOutcome(o) /\ o.dev \in Injectors /\ SameBooks(o.dev, s)
      /\ o.dev.held \subseteq s.held \cup PressedIn(b)
      /\ ~ o.dev.lost \/ ~ o.dev.stuck => o.dev.held \cap ReleasedIn(b) = {}
      /\ s.stuck => o.dev.stuck
      /\ s.lost => o.dev.lost
      /\ o.dev.lost => o.dev.stuck
      /\ o.dev.disorder = s.disorder
  BY <1>1, <1>3, <1>4, SentPrefix DEF WindowsTracked
<1>6. ~ o.dev.lost \/ ~ o.dev.stuck => o.dev.held \subseteq s.held
  BY <1>3, <1>5
<1>7. /\ o.dev.keys = s.keys /\ o.dev.pads = s.pads /\ o.dev.mods = s.mods /\ o.dev.buttons = s.buttons /\ o.dev.batch = s.batch
  BY <1>5 DEF SameBooks
<1>8. WindowsTracked(o.dev)
  BY <1>1, <1>5, <1>6, <1>7 DEF WindowsTracked
<1>9. Tracked(o.dev)
  BY <1>5, <1>8, OnWindows
<1> QED BY <1>5, <1>6, <1>9 DEF Effect

\* A gamepad: the whole report is submitted.
LEMMA WindowsPadIs ==
    ASSUME os = "windows", NEW s \in Injectors, Tracked(s),
           NEW pad \in Pads \cup ExcessPads, NEW down \in BOOLEAN, NEW o \in WindowsPad(s, pad, down)
    PROVE  IsOutcome(o) /\ Effect(s, o.dev, IF down THEN {pad} ELSE {}, IF down THEN {} ELSE {pad})
<1> DEFINE R == IF down THEN s.report \cup {pad} ELSE s.report \ {pad}
           P == s.pads \cup {pad}
           s1 == [s EXCEPT !.pads = P, !.report = R]
           h == (s.held \ {pad}) \cup (R \cap {pad})
           t == [s EXCEPT !.pads = P, !.report = R, !.held = h]
           b == << <<pad, down>> >>
<1>1. WindowsTracked(s)
  BY OnWindows
<1>2. CASE pad \in ExcessPads
  <2>1. o = Err(s)
    BY <1>2 DEF WindowsPad
  <2>2. pad \notin Targets
    BY <1>2, InjectionAssumption DEF Targets
  <2>3. pad \notin s.held
    BY <2>2 DEF Injectors
  <2>4. Effect(s, s, IF down THEN {pad} ELSE {}, IF down THEN {} ELSE {pad})
    BY <2>3 DEF Effect
  <2> QED BY <2>1, <2>4 DEF Err, IsOutcome
<1>3. ASSUME pad \notin ExcessPads
      PROVE  /\ pad \in Pads /\ R \in SUBSET Pads /\ P \in SUBSET Pads /\ pad \notin Keys \cup {"left"} /\ pad \in Targets
             /\ h \in SUBSET Targets
             /\ h = (IF down THEN s.held \cup {pad} ELSE s.held \ {pad})
             /\ s.pads \subseteq P /\ pad \in P
  <2>1. pad \in Pads /\ pad \notin Keys \cup {"left"} /\ pad \in Targets
    BY <1>3, InjectionAssumption DEF Targets
  <2>2. R \in SUBSET Pads /\ P \in SUBSET Pads
    BY <2>1 DEF Injectors
  <2>3. h = (IF down THEN s.held \cup {pad} ELSE s.held \ {pad})
    <3>1. CASE down
      <4>1. pad \in R
        BY <3>1
      <4> QED BY <3>1, <4>1
    <3>2. CASE ~ down
      <4>1. pad \notin R
        BY <3>2
      <4> QED BY <3>2, <4>1
    <3> QED BY <3>1, <3>2
  <2>4. h \in SUBSET Targets
    BY <2>1, <2>3 DEF Injectors
  <2> QED BY <2>1, <2>2, <2>3, <2>4
<1>4. ASSUME pad \notin ExcessPads
      PROVE  \/ o = Ok(t)
             \/ CanFail(s1) /\ o \in Kept({Err(Missed(s1, b))}, s)
             \/ CanFail(s) /\ o = Err(Failed(s)) /\ pad \notin s.pads
  <2>1. t = [s1 EXCEPT !.held = (@ \ {pad}) \cup (R \cap {pad})]
    BY DEF Injectors
  <2>2. CanFail(s1) <=> CanFail(s)
    BY DEF CanFail, Injectors
  <2>3. Kept(When(CanFail(s), {Err(Missed(s1, b))}), s) =
           IF CanFail(s) THEN Kept({Err(Missed(s1, b))}, s) ELSE {}
    BY DEF Kept, When
  <2>4. \/ o = Ok([s1 EXCEPT !.held = (@ \ {pad}) \cup (R \cap {pad})])
        \/ o \in Kept(When(CanFail(s), {Err(Missed(s1, b))}), s)
        \/ o \in When(pad \notin s.pads /\ CanFail(s), {Err(Failed(s))})
    <3>1. WindowsPad(s, pad, down) =
             {Ok([s1 EXCEPT !.held = (@ \ {pad}) \cup (R \cap {pad})])}
             \cup Kept(When(CanFail(s), {Err(Missed(s1, b))}), s)
             \cup When(pad \notin s.pads /\ CanFail(s), {Err(Failed(s))})
      BY <1>4 DEF WindowsPad
    <3>2. PICK x, A, B : /\ x = Ok([s1 EXCEPT !.held = (@ \ {pad}) \cup (R \cap {pad})])
                         /\ A = Kept(When(CanFail(s), {Err(Missed(s1, b))}), s)
                         /\ B = When(pad \notin s.pads /\ CanFail(s), {Err(Failed(s))})
      OBVIOUS
    <3>3. o \in {x} \cup A \cup B
      BY <3>1, <3>2
    <3>4. o = x \/ o \in A \/ o \in B
      BY <3>3
    <3> QED BY <3>2, <3>4
  <2>5. o \in When(pad \notin s.pads /\ CanFail(s), {Err(Failed(s))}) =>
          CanFail(s) /\ o = Err(Failed(s)) /\ pad \notin s.pads
    BY DEF When
  <2> HIDE DEF s1, t, R, b
  <2> QED BY <2>1, <2>2, <2>3, <2>4, <2>5
<1>5. ASSUME pad \notin ExcessPads, o = Ok(t)
      PROVE  IsOutcome(o) /\ Effect(s, o.dev, IF down THEN {pad} ELSE {}, IF down THEN {} ELSE {pad})
  <2> HIDE DEF R, P, h
  <2>1. /\ t \in Injectors /\ t.held = h /\ t.pads = P /\ t.keys = s.keys /\ t.mods = s.mods /\ t.buttons = s.buttons
        /\ t.stuck = s.stuck /\ t.lost = s.lost /\ t.disorder = s.disorder /\ t.batch = s.batch
    BY <1>3, <1>5 DEF Injectors
  <2> HIDE DEF t
  <2>2. WindowsTracked(t)
    <3>1. ~ t.lost => t.held \subseteq t.keys \cup t.pads \cup {"left", "shift"}
      BY <1>1, <1>3, <1>5, <2>1 DEF WindowsTracked
    <3>2. ~ t.stuck => "left" \notin t.held \/ "left" \in t.buttons
      BY <1>1, <1>3, <1>5, <2>1 DEF WindowsTracked
    <3>3. ~ t.stuck => "shift" \notin t.held \/ "SHIFT" \in t.mods \/ "shift" \in t.keys
      BY <1>1, <1>3, <1>5, <2>1 DEF WindowsTracked, Keys
    <3> QED BY <1>1, <2>1, <3>1, <3>2, <3>3 DEF WindowsTracked
  <2>3. Tracked(t)
    BY <2>1, <2>2, OnWindows
  <2>4. /\ t.held \subseteq s.held \cup (IF down THEN {pad} ELSE {})
        /\ t.held \cap (IF down THEN {} ELSE {pad}) = {}
    BY <1>3, <1>5, <2>1
  <2>5. Effect(s, t, IF down THEN {pad} ELSE {}, IF down THEN {} ELSE {pad})
    BY <2>1, <2>3, <2>4 DEF Effect
  <2> QED BY <1>5, <2>5 DEF Ok, IsOutcome
<1>6. ASSUME pad \notin ExcessPads, CanFail(s1), o \in Kept({Err(Missed(s1, b))}, s)
      PROVE  IsOutcome(o) /\ Effect(s, o.dev, IF down THEN {pad} ELSE {}, IF down THEN {} ELSE {pad})
  <2>1. pad \in Targets
    BY <1>3, <1>6
  <2>2. b \in Seq(Events) /\ (Releasing(b) <=> ~ down)
    BY <2>1, OneEvent
  <2> HIDE DEF R, P, h, b
  <2>3. /\ s1 \in Injectors /\ s1.held = s.held /\ s1.pads = P /\ s1.keys = s.keys /\ s1.mods = s.mods /\ s1.buttons = s.buttons
        /\ s1.stuck = s.stuck /\ s1.lost = s.lost /\ s1.disorder = s.disorder /\ s1.batch = s.batch
    BY <1>3, <1>6 DEF Injectors
  <2> HIDE DEF s1
  <2>4. PICK m : m = Missed(s1, b)
    OBVIOUS
  <2>5. /\ m \in Injectors /\ SameBooks(m, s1) /\ m.held = s1.held /\ m.disorder = s1.disorder
        /\ m.stuck <=> s1.stuck \/ Releasing(b)
    BY <1>6, <2>2, <2>3, <2>4, MissedIs
  <2>6. PICK a \in {Err(m)} : o = [a EXCEPT !.dev.lost = s.lost]
    BY <1>6, <2>4, KeptIs
  <2>14. a = Err(m)
    BY <2>6
  <2>7. a.dev = m /\ IsOutcome(a)
    BY <2>14 DEF Err, IsOutcome
  <2>8. s.lost \in BOOLEAN
    BY DEF Injectors
  <2>9. /\ IsOutcome(o) /\ o.dev \in Injectors
        /\ SameBooks(o.dev, m) /\ o.dev.held = m.held
        /\ o.dev.stuck = m.stuck /\ o.dev.lost = s.lost /\ o.dev.disorder = m.disorder
    BY <2>5, <2>6, <2>7, <2>8, KeptOutcome
  <2>10. /\ o.dev.held = s.held /\ o.dev.keys = s.keys /\ o.dev.pads = P /\ o.dev.mods = s.mods
         /\ o.dev.buttons = s.buttons /\ o.dev.batch = s.batch /\ o.dev.disorder = s.disorder
         /\ s.stuck => o.dev.stuck
         /\ ~ down => o.dev.stuck
    BY <2>2, <2>3, <2>5, <2>9 DEF SameBooks
  <2>11. s.pads \subseteq P
    BY <1>3, <1>6
  <2>12. WindowsTracked(o.dev)
    BY <1>1, <2>9, <2>10, <2>11 DEF WindowsTracked
  <2>13. Tracked(o.dev)
    BY <2>9, <2>12, OnWindows
  <2> QED BY <2>9, <2>10, <2>13 DEF Effect
<1>7. ASSUME pad \notin ExcessPads, CanFail(s), o = Err(Failed(s)), pad \notin s.pads
      PROVE  IsOutcome(o) /\ Effect(s, o.dev, IF down THEN {pad} ELSE {}, IF down THEN {} ELSE {pad})
  <2>1. Effect(s, Failed(s), {}, {})
    BY <1>7, NoEffect
  <2>2. o.dev = Failed(s) /\ IsOutcome(o)
    BY <1>7 DEF Err, IsOutcome
  <2>3. ~ s.stuck => pad \notin s.held
    <3>1. s.keys \subseteq Keys
      BY DEF Injectors
    <3> QED BY <1>1, <1>3, <1>7, <3>1 DEF WindowsTracked, Keys
  <2>4. ~ o.dev.stuck => pad \notin o.dev.held
    BY <2>1, <2>2, <2>3 DEF Effect
  <2> QED BY <2>1, <2>2, <2>4 DEF Effect
<1> HIDE DEF s1, t, R, P, h, b
<1> QED BY <1>2, <1>4, <1>5, <1>6, <1>7

\* The gamepads destroyed.
LEMMA DropPadsIs ==
    ASSUME NEW s \in Injectors
    PROVE  /\ DropPads(s) \in Injectors /\ DropPads(s).held = s.held \ s.pads /\ DropPads(s).pads = {}
           /\ DropPads(s).keys = s.keys /\ DropPads(s).buttons = s.buttons /\ DropPads(s).mods = s.mods
           /\ DropPads(s).batch = s.batch /\ DropPads(s).stuck = s.stuck /\ DropPads(s).lost = s.lost
           /\ DropPads(s).disorder = s.disorder
<1> DEFINE h == s.held \ s.pads
           t == [s EXCEPT !.held = h, !.pads = {}, !.report = {}]
<1>1. DropPads(s) = t
  BY DEF DropPads
<1>2. h \in SUBSET Targets /\ h = s.held \ s.pads
  BY DEF Injectors
<1> HIDE DEF h
<1>3. /\ t \in Injectors /\ t.held = h /\ t.pads = {}
      /\ t.keys = s.keys /\ t.buttons = s.buttons /\ t.mods = s.mods
      /\ t.batch = s.batch /\ t.stuck = s.stuck /\ t.lost = s.lost /\ t.disorder = s.disorder
  BY <1>2 DEF Injectors
<1> HIDE DEF t
<1> QED BY <1>1, <1>2, <1>3

\* A Reset.
LEMMA WindowsResetIs ==
    ASSUME os = "windows", NEW s \in Injectors, Tracked(s), NEW o \in WindowsReset(s)
    PROVE  IsOutcome(o) /\ Effect(s, o.dev, {}, Targets)
<1> DEFINE S == s.keys \cup {"shift"}
           s1 == [DropPads(s) EXCEPT !.keys = {}, !.buttons = {}, !.mods = {}]
<1>1. WindowsTracked(s)
  BY OnWindows
<1>2. S \subseteq Targets /\ IsFiniteSet(S) /\ "left" \notin S
  <2>1. S \subseteq Keys
    BY DEF Injectors, Keys
  <2>2. S \subseteq Keys \cup {"left"} /\ "left" \notin S
    BY <2>1 DEF Keys
  <2> QED BY <2>2, FiniteKeys, FS_Subset
<1>3. PICK x : x = <<Release("left")>>
  OBVIOUS
<1>4. PICK y : y = SetToSeq({Release(k) : k \in S})
  OBVIOUS
<1>5. o \in EmitPrefix(s1, x \o y)
  BY <1>3, <1>4 DEF WindowsReset
<1>6. s.keys \subseteq S /\ "shift" \in S
  OBVIOUS
<1>7. x \in Seq(Events) /\ PressedIn(x) = {} /\ ReleasedIn(x) = {"left"}
  BY <1>3, LeftUp
<1> HIDE DEF S
<1>8. /\ y \in Seq(Events) /\ PressedIn(y) = {} /\ ReleasedIn(y) = S
      /\ \A i \in DOMAIN y : y[i][1] \in S
  BY <1>2, <1>4, ReleasesOf
<1>9. PICK b : b = x \o y
  OBVIOUS
<1>10. b \in Seq(Events) /\ PressedIn(b) = {} /\ S \subseteq ReleasedIn(b) /\ "left" \in ReleasedIn(b)
  <2>1. /\ x \o y \in Seq(Events) /\ PressedIn(x \o y) = PressedIn(x) \cup PressedIn(y)
        /\ ReleasedIn(y) \subseteq ReleasedIn(x \o y)
        /\ \A k \in ReleasedIn(x) : (\A i \in DOMAIN y : y[i][1] # k) => k \in ReleasedIn(x \o y)
    BY <1>7, <1>8, Joined
  <2>2. \A i \in DOMAIN y : y[i][1] # "left"
    BY <1>2, <1>8
  <2>3. "left" \in ReleasedIn(x \o y)
    BY <1>7, <2>1, <2>2
  <2> QED BY <1>7, <1>8, <1>9, <2>1, <2>3
<1>11. /\ s1 \in Injectors /\ s1.held = s.held \ s.pads /\ s1.pads = {} /\ s1.keys = {} /\ s1.batch = s.batch
       /\ s1.stuck = s.stuck /\ s1.lost = s.lost /\ s1.disorder = s.disorder
  <2>1. PICK d : d = DropPads(s)
    OBVIOUS
  <2>2. /\ d \in Injectors /\ d.held = s.held \ s.pads /\ d.pads = {} /\ d.batch = s.batch
        /\ d.stuck = s.stuck /\ d.lost = s.lost /\ d.disorder = s.disorder
    BY <2>1, DropPadsIs
  <2>3. s1 = [d EXCEPT !.keys = {}, !.buttons = {}, !.mods = {}]
    BY <2>1
  <2> HIDE DEF s1
  <2> QED BY <2>2, <2>3 DEF Injectors
<1> HIDE DEF s1
<1>12. (s1.lost => s1.stuck) /\ s1.batch = 0
  BY <1>1, <1>11 DEF WindowsTracked
<1>13. /\ IsOutcome(o) /\ o.dev \in Injectors /\ SameBooks(o.dev, s1)
       /\ o.dev.held \subseteq s1.held \cup PressedIn(b)
       /\ ~ o.dev.lost \/ ~ o.dev.stuck => o.dev.held \cap ReleasedIn(b) = {}
       /\ s1.stuck => o.dev.stuck
       /\ s1.lost => o.dev.lost
       /\ o.dev.lost => o.dev.stuck
       /\ o.dev.disorder = s1.disorder
  BY <1>5, <1>9, <1>10, <1>11, <1>12, SentPrefix
<1>14. ~ o.dev.lost => o.dev.held = {}
  <2> SUFFICES ASSUME ~ o.dev.lost, NEW k \in o.dev.held PROVE FALSE
    OBVIOUS
  <2>1. ~ s.lost /\ k \in s.held /\ k \notin s.pads /\ k \notin S /\ k # "left"
    BY <1>10, <1>11, <1>13
  <2> QED BY <1>1, <1>6, <2>1 DEF WindowsTracked
<1>15. ~ o.dev.stuck => o.dev.held = {}
  BY <1>13, <1>14
<1>16. WindowsTracked(o.dev)
  BY <1>1, <1>11, <1>12, <1>13, <1>14, <1>15 DEF WindowsTracked, SameBooks
<1>17. Tracked(o.dev)
  BY <1>13, <1>16, OnWindows
<1> QED BY <1>11, <1>13, <1>15, <1>17 DEF Effect

\* Every event on Windows.
LEMMA WindowsInjectIs ==
    ASSUME os = "windows", NEW s \in Injectors, Tracked(s), NEW e \in Event, NEW o \in WindowsInject(s, e)
    PROVE  IsOutcome(o) /\ Effect(s, o.dev, PressedBy(e), ReleasedBy(e))
<1>1. \/ e.type = "NotFinite" /\ o = Ok(s)
      \/ e.type = "Move" /\ (o = Ok(s) \/ (CanFail(s) /\ o = Err(Failed(s))))
      \/ e.type = "Button" /\ o \in WindowsButton(s, e.down)
      \/ e.type = "Key" /\ o \in WindowsKey(s, e.key, e.down, e.mods)
      \/ e.type = "Flags" /\ o \in WindowsFlags(s, e.mods)
      \/ e.type = "Char" /\ o \in WindowsChar(s)
      \/ e.type = "Pad" /\ o \in WindowsPad(s, e.pad, e.down)
      \/ e.type = "Reset" /\ o \in WindowsReset(s)
  BY EventShape DEF WindowsInject, When
<1>4. CASE e.type = "NotFinite" /\ o = Ok(s)
  BY <1>4, NoEffect DEF Ok, IsOutcome, PressedBy, ReleasedBy
<1>5. CASE e.type = "Move" /\ (o = Ok(s) \/ (CanFail(s) /\ o = Err(Failed(s))))
  <2>1. IsOutcome(o) /\ Effect(s, o.dev, {}, {})
    <3>1. CASE o = Ok(s)
      BY <3>1, NoEffect DEF Ok, IsOutcome
    <3>2. CASE CanFail(s) /\ o = Err(Failed(s))
      <4>1. o.dev = Failed(s) /\ IsOutcome(o)
        BY <3>2 DEF Err, IsOutcome
      <4> QED BY <3>2, <4>1, NoEffect
    <3> QED BY <1>5, <3>1, <3>2
  <2> QED BY <1>5, <2>1 DEF PressedBy, ReleasedBy
<1>6. CASE e.type = "Button" /\ o \in WindowsButton(s, e.down)
  BY <1>6, EventShape, WindowsButtonIs DEF PressedBy, ReleasedBy
<1>7. CASE e.type = "Key" /\ o \in WindowsKey(s, e.key, e.down, e.mods)
  BY <1>7, EventShape, WindowsKeyIs DEF PressedBy, ReleasedBy
<1>8. CASE e.type = "Flags" /\ o \in WindowsFlags(s, e.mods)
  BY <1>8, EventShape, WindowsFlagsIs DEF PressedBy, ReleasedBy
<1>9. CASE e.type = "Char" /\ o \in WindowsChar(s)
  BY <1>9, WindowsCharIs DEF PressedBy, ReleasedBy
<1>10. CASE e.type = "Pad" /\ o \in WindowsPad(s, e.pad, e.down)
  BY <1>10, EventShape, WindowsPadIs DEF PressedBy, ReleasedBy
<1>11. CASE e.type = "Reset" /\ o \in WindowsReset(s)
  BY <1>11, WindowsResetIs DEF PressedBy, ReleasedBy
<1> QED BY <1>1, <1>4, <1>5, <1>6, <1>7, <1>8, <1>9, <1>10, <1>11

\* The injector dropped: it releases what it knows, Shift and the gamepads included.
LEMMA WindowsDropIs ==
    ASSUME os = "windows", NEW s \in Injectors, Tracked(s), NEW t \in WindowsDrop(s)
    PROVE  Effect(s, t, {}, Targets)
<1> DEFINE S == s.keys \cup s.buttons
           s1 == [s EXCEPT !.keys = {}, !.buttons = {}]
<1>1. WindowsTracked(s)
  BY OnWindows
<1>2. S \subseteq Targets /\ IsFiniteSet(S)
  <2>1. S \subseteq Keys \cup {"left"}
    BY DEF Injectors
  <2> QED BY <2>1, FiniteKeys, FS_Subset
<1>3. PICK x : x = ModEvents(s.mods, {}, {"SHIFT"})
  OBVIOUS
<1>4. PICK y : y = SetToSeq({Release(k) : k \in S})
  OBVIOUS
<1>5. PICK o \in EmitPrefix(s1, x \o y) : t = DropPads(o.dev)
  BY <1>3, <1>4 DEF WindowsDrop
<1>6. S = s.keys \cup s.buttons
  OBVIOUS
<1>7. /\ x \in Seq(Events) /\ PressedIn(x) = {}
      /\ "SHIFT" \in s.mods => "shift" \in ReleasedIn(x)
  <2>1. s.mods \in SUBSET Modifier /\ {} \in SUBSET Modifier /\ {"SHIFT"} \in SUBSET {"SHIFT", "CAPS"}
    BY DEF Injectors
  <2>2. Syncs(x, s.mods, {}, {"SHIFT"})
    BY <1>3, <2>1, ModEventsAre
  <2> QED BY <2>2, ShiftSync
<1> HIDE DEF S
<1>8. /\ y \in Seq(Events) /\ PressedIn(y) = {} /\ ReleasedIn(y) = S
      /\ \A i \in DOMAIN y : y[i][1] \in S
  BY <1>2, <1>4, ReleasesOf
<1>9. PICK b : b = x \o y
  OBVIOUS
<1>10. /\ b \in Seq(Events) /\ PressedIn(b) = {} /\ S \subseteq ReleasedIn(b)
       /\ "SHIFT" \in s.mods => "shift" \in ReleasedIn(b)
  <2>1. /\ x \o y \in Seq(Events) /\ PressedIn(x \o y) = PressedIn(x) \cup PressedIn(y)
        /\ ReleasedIn(y) \subseteq ReleasedIn(x \o y)
        /\ \A k \in ReleasedIn(x) : (\A i \in DOMAIN y : y[i][1] # k) => k \in ReleasedIn(x \o y)
    BY <1>7, <1>8, Joined
  <2>2. "SHIFT" \in s.mods => "shift" \in ReleasedIn(x \o y)
    <3>1. CASE "shift" \in S
      BY <1>8, <2>1, <3>1
    <3>2. CASE "shift" \notin S
      <4>1. \A i \in DOMAIN y : y[i][1] # "shift"
        BY <1>8, <3>2
      <4> QED BY <1>7, <2>1, <4>1
    <3> QED BY <3>1, <3>2
  <2> QED BY <1>7, <1>8, <1>9, <2>1, <2>2
<1>11. /\ s1 \in Injectors /\ s1.held = s.held /\ s1.pads = s.pads /\ s1.keys = {} /\ s1.batch = s.batch
       /\ s1.stuck = s.stuck /\ s1.lost = s.lost /\ s1.disorder = s.disorder
  BY DEF Injectors
<1> HIDE DEF s1
<1>12. (s1.lost => s1.stuck) /\ s1.batch = 0
  BY <1>1, <1>11 DEF WindowsTracked
<1>13. /\ o.dev \in Injectors /\ SameBooks(o.dev, s1)
       /\ o.dev.held \subseteq s1.held \cup PressedIn(b)
       /\ ~ o.dev.lost \/ ~ o.dev.stuck => o.dev.held \cap ReleasedIn(b) = {}
       /\ s1.stuck => o.dev.stuck
       /\ s1.lost => o.dev.lost
       /\ o.dev.lost => o.dev.stuck
       /\ o.dev.disorder = s1.disorder
  BY <1>5, <1>9, <1>10, <1>11, <1>12, SentPrefix
<1>14. /\ t \in Injectors /\ t.held = o.dev.held \ o.dev.pads /\ t.pads = {} /\ t.keys = o.dev.keys
       /\ t.batch = o.dev.batch /\ t.stuck = o.dev.stuck /\ t.lost = o.dev.lost /\ t.disorder = o.dev.disorder
  BY <1>5, <1>13, DropPadsIs
<1>15. t.held \subseteq s.held \ s.pads /\ t.keys = {} /\ t.batch = 0
  BY <1>10, <1>11, <1>12, <1>13, <1>14 DEF SameBooks
<1>16. ~ t.lost => t.held \subseteq {"left", "shift"}
  <2> SUFFICES ASSUME ~ t.lost, NEW k \in t.held PROVE k \in {"left", "shift"}
    OBVIOUS
  <2>1. ~ s.lost /\ k \in s.held /\ k \notin s.pads /\ k \notin S
    BY <1>10, <1>11, <1>13, <1>14, <1>15
  <2> QED BY <1>1, <1>6, <2>1 DEF WindowsTracked
<1>17. ~ t.stuck => t.held = {}
  <2> SUFFICES ASSUME ~ t.stuck, NEW k \in t.held PROVE FALSE
    OBVIOUS
  <2>1. ~ t.lost /\ ~ s.stuck /\ k \in s.held /\ k \notin S /\ k \notin ReleasedIn(b)
    BY <1>10, <1>11, <1>13, <1>14, <1>15
  <2>2. k = "left" \/ k = "shift"
    BY <1>16, <2>1
  <2> QED BY <1>1, <1>6, <1>10, <2>1, <2>2 DEF WindowsTracked
<1>18. WindowsTracked(t)
  BY <1>1, <1>11, <1>13, <1>14, <1>15, <1>16, <1>17 DEF WindowsTracked
<1>19. Tracked(t)
  BY <1>14, <1>18, OnWindows
<1> QED BY <1>11, <1>13, <1>14, <1>17, <1>19 DEF Effect

\* An injector is tracked on macOS: only what it tracks is held.
MacTracked(s) ==
    /\ s \in Injectors /\ ~ s.disorder /\ (s.lost => s.stuck) /\ s.batch = 0 /\ s.pads = {}
    /\ ~ s.lost => s.held \subseteq s.keys \cup s.buttons
\* That is what Tracked says there.
LEMMA OnMac ==
    ASSUME os = "macos", NEW s \in Injectors
    PROVE  Tracked(s) <=> MacTracked(s)
BY DEF Tracked, MacTracked, ReleasableBy

\* Of a batch of one event nothing has landed when sending it failed.
LEMMA OneFails ==
    ASSUME NEW s \in Injectors, NEW k \in Targets, NEW down \in BOOLEAN,
           NEW o \in EmitPrefix(s, << <<k, down>> >>), ~ o.ok
    PROVE  o.dev.held = s.held
<1> DEFINE b == << <<k, down>> >>
<1>1. b \in Seq(Events) /\ Len(b) = 1
  BY OneEvent
<1>2. o \in EmitPrefix(s, b)
  OBVIOUS
<1> HIDE DEF b
<1>3. \/ o = Ok(Landed(s, b))
      \/ \E n \in 0 .. Len(b) - 1 : CanFail(s) /\
           o = Err(Missed(Landed(s, SubSeq(b, 1, n)), SubSeq(b, n + 1, Len(b))))
  BY <1>2 DEF EmitPrefix
<1>4. o # Ok(Landed(s, b))
  BY DEF Ok
<1>5. PICK n \in 0 .. Len(b) - 1 : CanFail(s) /\
           o = Err(Missed(Landed(s, SubSeq(b, 1, n)), SubSeq(b, n + 1, Len(b))))
  BY <1>3, <1>4
<1>6. n = 0
  BY <1>1, <1>5
<1>7. PICK p : p = SubSeq(b, 1, n)
  OBVIOUS
<1>8. PICK q : q = SubSeq(b, n + 1, Len(b))
  OBVIOUS
<1>9. p \in Seq(Events) /\ q \in Seq(Events) /\ p = << >>
  <2>1. p = << >>
    BY <1>1, <1>6, <1>7
  <2> QED BY <1>1, <1>7, <1>8, <2>1, PrefixIs
<1>10. PressedIn(p) = {} /\ ReleasedIn(p) = {}
  BY <1>9 DEF PressedIn, ReleasedIn
<1>11. PICK m : m = Landed(s, p)
  OBVIOUS
<1>12. m \in Injectors /\ m.held = (s.held \cup PressedIn(p)) \ ReleasedIn(p) /\ m.faults = s.faults
  BY <1>9, <1>11, LandedIs
<1>13. CanFail(m)
  BY <1>5, <1>12 DEF CanFail
<1>14. PICK t : t = Missed(m, q)
  OBVIOUS
<1>15. t.held = m.held
  BY <1>9, <1>12, <1>13, <1>14, MissedIs
<1>16. o = Err(t)
  BY <1>5, <1>7, <1>8, <1>11, <1>14
<1> QED BY <1>10, <1>12, <1>15, <1>16 DEF Err

\* What becomes of an injector when events are posted.
LEMMA PostIs ==
    ASSUME NEW s \in Injectors, s.lost => s.stuck, s.batch = 0, NEW b \in Seq(Events), NEW o \in Post(s, b)
    PROVE  /\ IsOutcome(o) /\ o.dev \in Injectors /\ SameBooks(o.dev, s)
           /\ o.dev.held \subseteq s.held \cup PressedIn(b)
           /\ ~ o.dev.lost \/ ~ o.dev.stuck => o.dev.held \cap ReleasedIn(b) = {}
           /\ s.stuck => o.dev.stuck
           /\ s.lost => o.dev.lost
           /\ o.dev.lost => o.dev.stuck
           /\ o.dev.disorder = s.disorder
           /\ \A k \in Targets, down \in BOOLEAN : b = << <<k, down>> >> /\ ~ o.ok => o.dev.held = s.held
<1>1. PICK a \in EmitPrefix(s, b) : o = [a EXCEPT !.dev.source = @ \/ a.ok]
  BY DEF Post
<1>2. /\ IsOutcome(a) /\ a.dev \in Injectors /\ SameBooks(a.dev, s)
      /\ a.dev.held \subseteq s.held \cup PressedIn(b)
      /\ ~ a.dev.lost \/ ~ a.dev.stuck => a.dev.held \cap ReleasedIn(b) = {}
      /\ s.stuck => a.dev.stuck
      /\ s.lost => a.dev.lost
      /\ a.dev.lost => a.dev.stuck
      /\ a.dev.disorder = s.disorder
  BY SentPrefix
<1> DEFINE v == a.dev.source \/ a.ok
           d == [a.dev EXCEPT !.source = v]
<1>3. v \in BOOLEAN
  BY <1>2 DEF IsOutcome, Injectors
<1>4. o = [a EXCEPT !.dev.source = v]
  BY <1>1
<1> HIDE DEF v
<1>5. o = [dev |-> d, ok |-> a.ok]
  BY <1>2, <1>4 DEF IsOutcome
<1>6. d \in Injectors
  BY <1>2, <1>3 DEF Injectors
<1>7. d.held = a.dev.held /\ d.stuck = a.dev.stuck /\ d.lost = a.dev.lost /\ d.disorder = a.dev.disorder
  BY <1>2 DEF Injectors
<1>8. SameBooks(d, a.dev)
  BY <1>2 DEF Injectors, SameBooks
<1> HIDE DEF d
<1>9. o.dev = d /\ o.ok = a.ok /\ IsOutcome(o)
  BY <1>2, <1>5 DEF IsOutcome
<1>10. SameBooks(d, s)
  BY <1>2, <1>8 DEF SameBooks
<1>11. ASSUME NEW k \in Targets, NEW down \in BOOLEAN, b = << <<k, down>> >>, ~ a.ok
       PROVE  d.held = s.held
  BY <1>7, <1>11, OneFails
<1>12. /\ d.held \subseteq s.held \cup PressedIn(b)
       /\ ~ d.lost \/ ~ d.stuck => d.held \cap ReleasedIn(b) = {}
       /\ s.stuck => d.stuck
       /\ s.lost => d.lost
       /\ d.lost => d.stuck
       /\ d.disorder = s.disorder
  BY <1>2, <1>7
<1> QED BY <1>6, <1>9, <1>10, <1>11, <1>12

\* A button.
LEMMA MacButtonIs ==
    ASSUME os = "macos", NEW s \in Injectors, Tracked(s), NEW down \in BOOLEAN, NEW o \in MacButton(s, down)
    PROVE  IsOutcome(o) /\ Effect(s, o.dev, IF down THEN {"left"} ELSE {}, IF down THEN {} ELSE {"left"})
<1> DEFINE B == IF down THEN s.buttons \cup {"left"} ELSE s.buttons \ {"left"}
           s1 == [s EXCEPT !.buttons = B]
           b == << <<"left", down>> >>
<1>1. MacTracked(s)
  BY OnMac
<1>2. /\ b \in Seq(Events) /\ PressedIn(b) = (IF down THEN {"left"} ELSE {})
      /\ ReleasedIn(b) = (IF down THEN {} ELSE {"left"})
  BY OneEvent DEF Targets
<1>3. o \in Post(s1, b)
  BY DEF MacButton
<1>4. B \in SUBSET {"left"} /\ B = (IF down THEN s.buttons \cup {"left"} ELSE s.buttons \ {"left"})
  BY DEF Injectors
<1> HIDE DEF b, B
<1>5. /\ s1 \in Injectors /\ s1.lost = s.lost /\ s1.stuck = s.stuck /\ s1.batch = s.batch
      /\ s1.held = s.held /\ s1.keys = s.keys /\ s1.pads = s.pads /\ s1.disorder = s.disorder /\ s1.buttons = B
  BY <1>4 DEF Injectors
<1> HIDE DEF s1
<1>6. (s1.lost => s1.stuck) /\ s1.batch = 0
  BY <1>1, <1>5 DEF MacTracked
<1>7. /\ IsOutcome(o) /\ o.dev \in Injectors /\ SameBooks(o.dev, s1)
      /\ o.dev.held \subseteq s1.held \cup PressedIn(b)
      /\ ~ o.dev.lost \/ ~ o.dev.stuck => o.dev.held \cap ReleasedIn(b) = {}
      /\ s1.stuck => o.dev.stuck
      /\ s1.lost => o.dev.lost
      /\ o.dev.lost => o.dev.stuck
      /\ o.dev.disorder = s1.disorder
  BY <1>2, <1>3, <1>5, <1>6, PostIs
<1>8. /\ o.dev.keys = s.keys /\ o.dev.pads = s.pads /\ o.dev.buttons = B /\ o.dev.batch = 0
  BY <1>5, <1>6, <1>7 DEF SameBooks
<1>9. ~ o.dev.lost => o.dev.held \subseteq o.dev.keys \cup o.dev.buttons
  <2>1. ~ o.dev.lost => s.held \subseteq s.keys \cup s.buttons
    BY <1>1, <1>5, <1>7 DEF MacTracked
  <2> QED BY <1>2, <1>4, <1>5, <1>7, <1>8, <2>1
<1>10. MacTracked(o.dev)
  BY <1>1, <1>5, <1>7, <1>8, <1>9 DEF MacTracked
<1>11. Tracked(o.dev)
  BY <1>7, <1>10, OnMac
<1> QED BY <1>2, <1>5, <1>7, <1>11 DEF Effect

\* A key.
LEMMA MacKeyIs ==
    ASSUME os = "macos", NEW s \in Injectors, Tracked(s), NEW key \in WireKeys,
           NEW down \in BOOLEAN, NEW o \in MacKey(s, key, down)
    PROVE  IsOutcome(o) /\ Effect(s, o.dev, Synthesized \cup (IF down THEN {key} ELSE {}),
                                  IF down THEN {} ELSE {key})
<1>1. MacTracked(s)
  BY OnMac
<1>2. CASE ~ MacMaps(key)
  <2>1. o = Ok(s) /\ key = "unmapped"
    BY <1>2 DEF MacKey, MacMaps
  <2>2. o.dev = s /\ IsOutcome(o)
    BY <2>1 DEF Ok, IsOutcome
  <2>3. key \notin Targets
    BY <2>1, InjectionAssumption DEF Targets, Keys
  <2>4. s.held \subseteq Targets
    BY DEF Injectors
  <2>5. s.held \cap (IF down THEN {} ELSE {key}) = {}
    BY <2>3, <2>4
  <2> QED BY <2>2, <2>5 DEF Effect
<1>3. CASE MacMaps(key)
  <2> DEFINE K == IF down THEN s.keys \cup {key} ELSE s.keys \ {key}
             s1 == [s EXCEPT !.keys = K]
             b == << <<key, down>> >>
  <2>1. key \in Keys /\ key \in Targets
    BY <1>3, InjectionAssumption DEF MacMaps, Targets
  <2>2. /\ b \in Seq(Events) /\ PressedIn(b) = (IF down THEN {key} ELSE {})
        /\ ReleasedIn(b) = (IF down THEN {} ELSE {key})
    BY <2>1, OneEvent
  <2>3. o \in Post(s1, b)
    BY <1>3 DEF MacKey
  <2>4. K \in SUBSET Keys /\ K = (IF down THEN s.keys \cup {key} ELSE s.keys \ {key})
    BY <2>1 DEF Injectors
  <2> HIDE DEF b, K
  <2>5. /\ s1 \in Injectors /\ s1.lost = s.lost /\ s1.stuck = s.stuck /\ s1.batch = s.batch
        /\ s1.held = s.held /\ s1.keys = K /\ s1.pads = s.pads /\ s1.disorder = s.disorder /\ s1.buttons = s.buttons
    BY <2>4 DEF Injectors
  <2> HIDE DEF s1
  <2>6. (s1.lost => s1.stuck) /\ s1.batch = 0
    BY <1>1, <2>5 DEF MacTracked
  <2>7. /\ IsOutcome(o) /\ o.dev \in Injectors /\ SameBooks(o.dev, s1)
        /\ o.dev.held \subseteq s1.held \cup PressedIn(b)
        /\ ~ o.dev.lost \/ ~ o.dev.stuck => o.dev.held \cap ReleasedIn(b) = {}
        /\ s1.stuck => o.dev.stuck
        /\ s1.lost => o.dev.lost
        /\ o.dev.lost => o.dev.stuck
        /\ o.dev.disorder = s1.disorder
    BY <2>2, <2>3, <2>5, <2>6, PostIs
  <2>8. /\ o.dev.keys = K /\ o.dev.pads = s.pads /\ o.dev.buttons = s.buttons /\ o.dev.batch = 0
    BY <2>5, <2>6, <2>7 DEF SameBooks
  <2>9. ~ o.dev.lost => o.dev.held \subseteq o.dev.keys \cup o.dev.buttons
    <3>1. ~ o.dev.lost => s.held \subseteq s.keys \cup s.buttons
      BY <1>1, <2>5, <2>7 DEF MacTracked
    <3> QED BY <2>2, <2>4, <2>5, <2>7, <2>8, <3>1
  <2>10. MacTracked(o.dev)
    BY <1>1, <2>5, <2>7, <2>8, <2>9 DEF MacTracked
  <2>11. Tracked(o.dev)
    BY <2>7, <2>10, OnMac
  <2> QED BY <2>2, <2>5, <2>7, <2>11 DEF Effect
<1> QED BY <1>2, <1>3

\* A change of the modifiers posts a key-down that nothing releases.
LEMMA MacFlagsIs ==
    ASSUME os = "macos", NEW s \in Injectors, Tracked(s), NEW key \in WireKeys, NEW o \in MacFlags(s, key)
    PROVE  IsOutcome(o) /\ Effect(s, o.dev, Synthesized, {})
<1>1. MacTracked(s)
  BY OnMac
<1>2. CASE ~ MacMaps(key)
  <2>1. o = Ok(s)
    BY <1>2 DEF MacFlags
  <2>2. o.dev = s /\ IsOutcome(o)
    BY <2>1 DEF Ok, IsOutcome
  <2> QED BY <2>2, NoEffect DEF Effect
<1>3. CASE MacMaps(key)
  <2>1. PICK b : b = << <<key, TRUE>> >>
    OBVIOUS
  <2>2. key \in Targets
    BY <1>3, InjectionAssumption DEF MacMaps, Targets
  <2>3. b \in Seq(Events)
    BY <2>1, <2>2, OneEvent
  <2>4. PICK a \in Post(s, b) : o = IF a.ok THEN Ok([a.dev EXCEPT !.stuck = TRUE, !.lost = TRUE]) ELSE a
    BY <1>3, <2>1 DEF MacFlags, Press
  <2>5. /\ IsOutcome(a) /\ a.dev \in Injectors /\ SameBooks(a.dev, s)
        /\ s.stuck => a.dev.stuck
        /\ s.lost => a.dev.lost
        /\ a.dev.lost => a.dev.stuck
        /\ a.dev.disorder = s.disorder
        /\ ~ a.ok => a.dev.held = s.held
    <3>1. /\ IsOutcome(a) /\ a.dev \in Injectors /\ SameBooks(a.dev, s)
          /\ s.stuck => a.dev.stuck
          /\ s.lost => a.dev.lost
          /\ a.dev.lost => a.dev.stuck
          /\ a.dev.disorder = s.disorder
          /\ \A k \in Targets, down \in BOOLEAN : b = << <<k, down>> >> /\ ~ a.ok => a.dev.held = s.held
      BY <1>1, <2>3, PostIs DEF MacTracked
    <3>2. b = << <<key, TRUE>> >> /\ ~ a.ok => a.dev.held = s.held
      BY <2>2, <3>1
    <3> QED BY <2>1, <3>1, <3>2
  <2>6. CASE a.ok
    <3> DEFINE d == [a.dev EXCEPT !.stuck = TRUE, !.lost = TRUE]
    <3>1. /\ d \in Injectors /\ d.stuck = TRUE /\ d.lost = TRUE /\ d.disorder = a.dev.disorder
          /\ d.batch = a.dev.batch /\ d.pads = a.dev.pads
      BY <2>5 DEF Injectors
    <3>2. o = Ok(d)
      BY <2>4, <2>6
    <3> HIDE DEF d
    <3>3. MacTracked(d)
      BY <1>1, <2>5, <3>1 DEF MacTracked, SameBooks
    <3>4. Tracked(d)
      BY <3>1, <3>3, OnMac
    <3>5. Effect(s, d, Synthesized, {})
      BY <3>1, <3>4 DEF Effect
    <3> QED BY <3>2, <3>5 DEF Ok, IsOutcome
  <2>7. CASE ~ a.ok
    <3>1. MacTracked(a.dev)
      BY <1>1, <2>5, <2>7 DEF MacTracked, SameBooks
    <3>2. Tracked(a.dev)
      BY <2>5, <3>1, OnMac
    <3>3. o = a
      BY <2>4, <2>7
    <3> QED BY <2>5, <2>7, <3>2, <3>3 DEF Effect
  <2> QED BY <2>6, <2>7
<1> QED BY <1>2, <1>3

\* A character.
LEMMA MacCharIs ==
    ASSUME os = "macos", NEW s \in Injectors, Tracked(s), NEW unit, NEW o \in MacChar(s, unit)
    PROVE  IsOutcome(o) /\ Effect(s, o.dev, {}, {})
<1> DEFINE t == [s EXCEPT !.high = TRUE]
           s1 == [s EXCEPT !.high = FALSE]
<1>1. MacTracked(s)
  BY OnMac
<1>2. /\ t \in Injectors /\ t.held = s.held /\ t.stuck = s.stuck /\ t.lost = s.lost /\ t.disorder = s.disorder
      /\ t.keys = s.keys /\ t.buttons = s.buttons /\ t.pads = s.pads /\ t.batch = s.batch
  BY DEF Injectors
<1>3. /\ s1 \in Injectors /\ s1.held = s.held /\ s1.stuck = s.stuck /\ s1.lost = s.lost /\ s1.disorder = s.disorder
      /\ s1.keys = s.keys /\ s1.buttons = s.buttons /\ s1.pads = s.pads /\ s1.batch = s.batch
  BY DEF Injectors
<1>4. CASE unit = "high"
  <2>1. o = Ok(t)
    BY <1>4 DEF MacChar
  <2> HIDE DEF t
  <2>2. MacTracked(t)
    BY <1>1, <1>2 DEF MacTracked
  <2>3. Tracked(t)
    BY <1>2, <2>2, OnMac
  <2>4. Effect(s, t, {}, {})
    BY <1>2, <2>3 DEF Effect
  <2> QED BY <2>1, <2>4 DEF Ok, IsOutcome
<1>5. CASE unit # "high"
  <2>1. PICK b : b = <<Press("key0"), Release("key0")>>
    OBVIOUS
  <2>2. b \in Seq(Events) /\ PressedIn(b) \subseteq ReleasedIn(b)
    BY <2>1, Taps
  <2>3. o \in Post(s1, b)
    BY <1>5, <2>1 DEF MacChar
  <2> HIDE DEF s1
  <2>4. (s1.lost => s1.stuck) /\ s1.batch = 0
    BY <1>1, <1>3 DEF MacTracked
  <2>5. /\ IsOutcome(o) /\ o.dev \in Injectors /\ SameBooks(o.dev, s1)
        /\ o.dev.held \subseteq s1.held \cup PressedIn(b)
        /\ ~ o.dev.lost \/ ~ o.dev.stuck => o.dev.held \cap ReleasedIn(b) = {}
        /\ s1.stuck => o.dev.stuck
        /\ s1.lost => o.dev.lost
        /\ o.dev.lost => o.dev.stuck
        /\ o.dev.disorder = s1.disorder
    BY <1>3, <2>2, <2>3, <2>4, PostIs
  <2>6. ~ o.dev.lost \/ ~ o.dev.stuck => o.dev.held \subseteq s.held
    BY <1>3, <2>2, <2>5
  <2>7. /\ o.dev.keys = s.keys /\ o.dev.pads = s.pads /\ o.dev.buttons = s.buttons /\ o.dev.batch = 0
    BY <1>3, <2>4, <2>5 DEF SameBooks
  <2>8. MacTracked(o.dev)
    BY <1>1, <1>3, <2>5, <2>6, <2>7 DEF MacTracked
  <2>9. Tracked(o.dev)
    BY <2>5, <2>8, OnMac
  <2> QED BY <1>3, <2>5, <2>6, <2>9 DEF Effect
<1> QED BY <1>4, <1>5

\* A Reset.
LEMMA MacResetIs ==
    ASSUME os = "macos", NEW s \in Injectors, Tracked(s), NEW o \in MacReset(s)
    PROVE  IsOutcome(o) /\ Effect(s, o.dev, {}, Targets)
<1> DEFINE tracked == s.keys \cup s.buttons
           s1 == [s EXCEPT !.high = FALSE]
           done(R) == [Landed(s1, SetToSeq({Release(k) : k \in R})) EXCEPT !.keys = {}, !.buttons = {},
                          !.source = @ \/ tracked # {}]
<1>1. MacTracked(s)
  BY OnMac
<1>2. /\ s1 \in Injectors /\ s1.held = s.held /\ s1.stuck = s.stuck /\ s1.lost = s.lost /\ s1.disorder = s.disorder
      /\ s1.keys = s.keys /\ s1.buttons = s.buttons /\ s1.pads = s.pads /\ s1.batch = s.batch /\ s1.faults = s.faults
  BY DEF Injectors
<1>3. IsFiniteSet(tracked) /\ tracked \subseteq Targets
  <2>1. tracked \subseteq Keys \cup {"left"}
    BY DEF Injectors
  <2> QED BY <2>1, FiniteKeys, FS_Subset
<1>4. \/ o = Ok(done(tracked))
      \/ \E R \in SUBSET tracked : CanFail(s) /\ o = Ok([Failed(done(R)) EXCEPT !.stuck = TRUE, !.lost = TRUE])
      \/ CanFail(s) /\ o = Err([Failed(s1) EXCEPT !.stuck = TRUE])
  BY DEF MacReset, When
<1>5. tracked = s.keys \cup s.buttons
  OBVIOUS
<1> HIDE DEF tracked, s1
<1>6. ASSUME NEW R \in SUBSET tracked
      PROVE  /\ done(R) \in Injectors /\ done(R).held = s.held \ R
             /\ done(R).stuck = s.stuck /\ done(R).lost = s.lost /\ done(R).disorder = s.disorder
             /\ done(R).pads = {} /\ done(R).batch = 0 /\ done(R).faults = s.faults
  <2>1. IsFiniteSet(R) /\ R \in SUBSET Targets
    BY <1>3, FS_Subset
  <2>2. PICK b : b = SetToSeq({Release(k) : k \in R})
    OBVIOUS
  <2>3. b \in Seq(Events) /\ PressedIn(b) = {} /\ ReleasedIn(b) = R
    BY <2>1, <2>2, ReleasesOf
  <2>4. PICK l : l = Landed(s1, b)
    OBVIOUS
  <2>5. /\ l \in Injectors /\ SameBooks(l, s1) /\ l.held = s.held \ R
        /\ l.stuck = s.stuck /\ l.lost = s.lost /\ l.disorder = s.disorder /\ l.faults = s.faults
    <3>1. /\ l \in Injectors /\ SameBooks(l, s1)
          /\ l.held = (s1.held \cup PressedIn(b)) \ ReleasedIn(b)
          /\ l.stuck = s1.stuck /\ l.lost = s1.lost /\ l.faults = s1.faults
          /\ s1.batch = 0 => l.disorder = s1.disorder
      BY <1>2, <2>3, <2>4, LandedIs
    <3>2. s1.batch = 0
      BY <1>1, <1>2 DEF MacTracked
    <3> QED BY <1>2, <2>3, <3>1, <3>2
  <2>6. PICK v \in BOOLEAN : v = (l.source \/ tracked # {})
    BY <2>5 DEF Injectors
  <2>7. done(R) = [l EXCEPT !.keys = {}, !.buttons = {}, !.source = v]
    BY <2>2, <2>4, <2>6
  <2>8. l.pads = {} /\ l.batch = 0
    BY <1>1, <1>2, <2>5 DEF MacTracked, SameBooks
  <2> HIDE DEF done
  <2>9. PICK d : d = done(R)
    OBVIOUS
  <2>10. /\ d \in Injectors /\ d.held = l.held
         /\ d.stuck = l.stuck /\ d.lost = l.lost /\ d.disorder = l.disorder
         /\ d.pads = l.pads /\ d.batch = l.batch /\ d.faults = l.faults
    BY <2>5, <2>7, <2>9 DEF Injectors
  <2> QED BY <2>5, <2>8, <2>9, <2>10
<1>7. CASE o = Ok(done(tracked))
  <2>1. PICK d : d = done(tracked)
    OBVIOUS
  <2>2. /\ d \in Injectors /\ d.held = s.held \ tracked
        /\ d.stuck = s.stuck /\ d.lost = s.lost /\ d.disorder = s.disorder
        /\ d.pads = {} /\ d.batch = 0
    BY <1>6, <2>1
  <2>3. ~ d.lost => d.held = {}
    BY <1>1, <1>5, <2>2 DEF MacTracked
  <2>4. MacTracked(d)
    BY <1>1, <2>2, <2>3 DEF MacTracked
  <2>5. Tracked(d)
    BY <2>2, <2>4, OnMac
  <2>6. Effect(s, d, {}, Targets)
    BY <1>1, <2>2, <2>3, <2>5 DEF Effect, MacTracked
  <2>7. o = Ok(d)
    BY <1>7, <2>1
  <2> QED BY <2>6, <2>7 DEF Ok, IsOutcome
<1>8. ASSUME NEW R \in SUBSET tracked, CanFail(s), o = Ok([Failed(done(R)) EXCEPT !.stuck = TRUE, !.lost = TRUE])
      PROVE  IsOutcome(o) /\ Effect(s, o.dev, {}, Targets)
  <2>1. PICK d : d = done(R)
    OBVIOUS
  <2>2. /\ d \in Injectors /\ d.disorder = s.disorder /\ d.pads = {} /\ d.batch = 0 /\ d.faults = s.faults
    BY <1>6, <2>1
  <2> DEFINE f == d.faults + 1
             t == [d EXCEPT !.faults = f, !.stuck = TRUE, !.lost = TRUE]
  <2>3. f \in 0 .. MaxFailures
    BY <1>8, <2>2, InjectionAssumption DEF CanFail, Injectors
  <2>4. o = Ok(t)
    BY <1>8, <2>1, <2>2 DEF Failed, Injectors
  <2> HIDE DEF f
  <2>5. /\ t \in Injectors /\ t.stuck = TRUE /\ t.lost = TRUE /\ t.disorder = d.disorder /\ t.pads = d.pads
        /\ t.batch = d.batch
    BY <2>2, <2>3 DEF Injectors
  <2> HIDE DEF t
  <2>6. MacTracked(t)
    BY <1>1, <2>2, <2>5 DEF MacTracked
  <2>7. Tracked(t)
    BY <2>5, <2>6, OnMac
  <2>8. Effect(s, t, {}, Targets)
    BY <2>5, <2>7 DEF Effect
  <2> QED BY <2>4, <2>8 DEF Ok, IsOutcome
<1>9. CASE CanFail(s) /\ o = Err([Failed(s1) EXCEPT !.stuck = TRUE])
  <2> DEFINE f == s1.faults + 1
             t == [s1 EXCEPT !.faults = f, !.stuck = TRUE]
  <2>1. f \in 0 .. MaxFailures
    BY <1>2, <1>9, InjectionAssumption DEF CanFail, Injectors
  <2>2. o = Err(t)
    BY <1>2, <1>9 DEF Failed, Injectors
  <2> HIDE DEF f
  <2>3. /\ t \in Injectors /\ t.stuck = TRUE /\ t.lost = s1.lost /\ t.disorder = s1.disorder /\ t.pads = s1.pads
        /\ t.batch = s1.batch /\ t.held = s1.held /\ t.keys = s1.keys /\ t.buttons = s1.buttons
    BY <1>2, <2>1 DEF Injectors
  <2> HIDE DEF t
  <2>4. MacTracked(t)
    BY <1>1, <1>2, <2>3 DEF MacTracked
  <2>5. Tracked(t)
    BY <2>3, <2>4, OnMac
  <2>6. Effect(s, t, {}, Targets)
    BY <2>3, <2>5 DEF Effect
  <2> QED BY <2>2, <2>6 DEF Err, IsOutcome
<1> HIDE DEF done
<1> QED BY <1>4, <1>7, <1>8, <1>9

\* Every event on macOS that is let through.
LEMMA MacCreateIs ==
    ASSUME os = "macos", NEW s \in Injectors, Tracked(s), NEW e \in Event, e.type # "Pad", NEW o \in MacCreate(s, e)
    PROVE  IsOutcome(o) /\ Effect(s, o.dev, PressedBy(e), ReleasedBy(e))
<1>1. \/ e.type = "NotFinite" /\ o = Err(s)
      \/ e.type = "Move" /\ (o \in Post(s, <<>>) \/ (CanFail(s) /\ o = Err(Failed(s))))
      \/ e.type = "Button" /\ o \in MacButton(s, e.down)
      \/ e.type = "Key" /\ o \in MacKey(s, e.key, e.down)
      \/ e.type = "Flags" /\ o \in MacFlags(s, e.key)
      \/ e.type = "Char" /\ o \in MacChar(s, e.unit)
      \/ e.type = "Reset" /\ o \in MacReset(s)
  BY EventShape DEF MacCreate, When
<1>2. CASE e.type = "NotFinite" /\ o = Err(s)
  BY <1>2, NoEffect DEF Err, IsOutcome, PressedBy, ReleasedBy
<1>3. CASE e.type = "Move" /\ o \in Post(s, <<>>)
  <2>1. MacTracked(s)
    BY OnMac
  <2>2. PICK b : b = <<>>
    OBVIOUS
  <2>3. b \in Seq(Events) /\ PressedIn(b) = {}
    BY <2>2 DEF PressedIn
  <2>4. /\ IsOutcome(o) /\ o.dev \in Injectors /\ SameBooks(o.dev, s)
        /\ o.dev.held \subseteq s.held \cup PressedIn(b)
        /\ s.stuck => o.dev.stuck
        /\ s.lost => o.dev.lost
        /\ o.dev.lost => o.dev.stuck
        /\ o.dev.disorder = s.disorder
    BY <1>3, <2>1, <2>2, <2>3, PostIs DEF MacTracked
  <2>5. MacTracked(o.dev)
    BY <2>1, <2>3, <2>4 DEF MacTracked, SameBooks
  <2>6. Tracked(o.dev)
    BY <2>4, <2>5, OnMac
  <2> QED BY <1>3, <2>3, <2>4, <2>6 DEF Effect, PressedBy, ReleasedBy
<1>4. CASE e.type = "Move" /\ CanFail(s) /\ o = Err(Failed(s))
  <2>1. o.dev = Failed(s) /\ IsOutcome(o)
    BY <1>4 DEF Err, IsOutcome
  <2> QED BY <1>4, <2>1, NoEffect DEF PressedBy, ReleasedBy
<1>5. CASE e.type = "Button" /\ o \in MacButton(s, e.down)
  BY <1>5, EventShape, MacButtonIs DEF PressedBy, ReleasedBy
<1>6. CASE e.type = "Key" /\ o \in MacKey(s, e.key, e.down)
  BY <1>6, EventShape, MacKeyIs DEF PressedBy, ReleasedBy
<1>7. CASE e.type = "Flags" /\ o \in MacFlags(s, e.key)
  BY <1>7, EventShape, MacFlagsIs DEF PressedBy, ReleasedBy
<1>8. CASE e.type = "Char" /\ o \in MacChar(s, e.unit)
  BY <1>8, MacCharIs DEF PressedBy, ReleasedBy
<1>9. CASE e.type = "Reset" /\ o \in MacReset(s)
  BY <1>9, MacResetIs DEF PressedBy, ReleasedBy
<1> QED BY <1>1, <1>2, <1>3, <1>4, <1>5, <1>6, <1>7, <1>8, <1>9

\* An event on macOS: refused without Accessibility access, throttled, or let through.
LEMMA MacInjectIs ==
    ASSUME os = "macos", NEW s \in Injectors, Tracked(s), NEW e \in Event, e.type # "Pad", NEW o \in MacInject(s, e)
    PROVE  IsOutcome(o) /\ Effect(s, o.dev, PressedBy(e), ReleasedBy(e))
<1>1. MacTracked(s)
  BY OnMac
<1>2. ~ ReleasesHold(e) => ReleasedBy(e) = {}
  BY EventShape DEF ReleasesHold, ReleasedBy
<1>3. CASE ~ s.trusted
  <2> DEFINE v == s.stuck \/ ReleasesHold(e)
             t == [s EXCEPT !.stuck = v]
  <2>1. v \in BOOLEAN /\ (s.stuck => v) /\ (ReleasesHold(e) => v)
    BY DEF Injectors, ReleasesHold
  <2>2. o = Err(t)
    BY <1>3 DEF MacInject
  <2> HIDE DEF v
  <2>3. /\ t \in Injectors /\ t.stuck = v /\ t.lost = s.lost /\ t.disorder = s.disorder /\ t.pads = s.pads
        /\ t.batch = s.batch /\ t.held = s.held /\ t.keys = s.keys /\ t.buttons = s.buttons
    BY <2>1 DEF Injectors
  <2> HIDE DEF t
  <2>4. MacTracked(t)
    BY <1>1, <2>1, <2>3 DEF MacTracked
  <2>5. Tracked(t)
    BY <2>3, <2>4, OnMac
  <2>6. Effect(s, t, PressedBy(e), ReleasedBy(e))
    BY <1>2, <2>1, <2>3, <2>5 DEF Effect
  <2> QED BY <2>2, <2>6 DEF Err, IsOutcome
<1>4. CASE s.trusted /\ Throttled(s, e)
  <2>1. o = Err(s)
    BY <1>4 DEF MacInject
  <2>2. Effect(s, s, PressedBy(e), ReleasedBy(e))
    BY <1>2, <1>4 DEF Effect, Throttled
  <2> QED BY <2>1, <2>2 DEF Err, IsOutcome
<1>5. CASE s.trusted /\ ~ Throttled(s, e) /\ ReleasesHold(e)
  BY <1>5, MacCreateIs DEF MacInject
<1>6. CASE s.trusted /\ ~ Throttled(s, e) /\ ~ ReleasesHold(e)
  <2> DEFINE n == s.tokens - 1
             t == [s EXCEPT !.tokens = n]
  <2>1. n \in 0 .. Burst
    BY <1>6, InjectionAssumption DEF Throttled, Injectors
  <2>2. o \in MacCreate(t, e)
    BY <1>6 DEF MacInject
  <2> HIDE DEF n
  <2>3. /\ t \in Injectors /\ t.stuck = s.stuck /\ t.lost = s.lost /\ t.disorder = s.disorder /\ t.pads = s.pads
        /\ t.batch = s.batch /\ t.held = s.held /\ t.keys = s.keys /\ t.buttons = s.buttons
    BY <2>1 DEF Injectors
  <2> HIDE DEF t
  <2>4. MacTracked(t)
    BY <1>1, <2>3 DEF MacTracked
  <2>5. Tracked(t)
    BY <2>3, <2>4, OnMac
  <2>6. IsOutcome(o) /\ Effect(t, o.dev, PressedBy(e), ReleasedBy(e))
    BY <2>2, <2>3, <2>5, MacCreateIs
  <2> QED BY <2>3, <2>6 DEF Effect
<1> QED BY <1>3, <1>4, <1>5, <1>6

\* The injector dropped.
LEMMA MacDropIs ==
    ASSUME os = "macos", NEW s \in Injectors, Tracked(s), NEW t \in MacDrop(s)
    PROVE  Effect(s, t, {}, Targets)
<1>1. MacTracked(s)
  BY OnMac
<1>2. CASE s.keys \cup s.buttons = {}
  <2>1. t = s
    BY <1>2 DEF MacDrop
  <2>2. ~ s.stuck => s.held = {}
    BY <1>1, <1>2 DEF MacTracked
  <2> QED BY <2>1, <2>2 DEF Effect
<1>3. CASE s.keys \cup s.buttons # {} /\ ~ s.trusted
  <2> DEFINE d == [s EXCEPT !.stuck = TRUE]
  <2>1. t = d
    BY <1>3 DEF MacDrop
  <2>2. /\ d \in Injectors /\ d.stuck = TRUE /\ d.lost = s.lost /\ d.disorder = s.disorder /\ d.pads = s.pads
        /\ d.batch = s.batch /\ d.held = s.held /\ d.keys = s.keys /\ d.buttons = s.buttons
    BY DEF Injectors
  <2> HIDE DEF d
  <2>3. MacTracked(d)
    BY <1>1, <2>2 DEF MacTracked
  <2>4. Tracked(d)
    BY <2>2, <2>3, OnMac
  <2> QED BY <2>1, <2>2, <2>4 DEF Effect
<1>4. CASE s.keys \cup s.buttons # {} /\ s.trusted
  <2>1. PICK o \in MacReset(s) : t = o.dev
    BY <1>4 DEF MacDrop
  <2> QED BY <2>1, MacResetIs
<1> QED BY <1>2, <1>3, <1>4

\* Whatever the platform, an event leaves an injector that knows what it is to release.
LEMMA InjectIs ==
    ASSUME os \in {"linux", "windows", "macos"}, NEW s \in Injectors, Tracked(s), NEW e \in Event,
           os = "macos" => e.type # "Pad", NEW o \in Inject(s, e)
    PROVE  IsOutcome(o) /\ Effect(s, o.dev, PressedBy(e), ReleasedBy(e))
<1>1. CASE os = "linux"
  BY <1>1, LinuxInjectIs DEF Inject
<1>2. CASE os = "windows"
  BY <1>2, WindowsInjectIs DEF Inject
<1>3. CASE os = "macos"
  BY <1>3, MacInjectIs DEF Inject
<1> QED BY <1>1, <1>2, <1>3

\* Nothing stays held once the injector is dropped, unless a release did not arrive.
LEMMA DropIs ==
    ASSUME os \in {"linux", "windows", "macos"}, NEW s \in Injectors, Tracked(s), NEW t \in DropInjector(s)
    PROVE  Effect(s, t, {}, Targets)
<1>1. CASE os = "linux"
  BY <1>1, LinuxDropIs DEF DropInjector
<1>2. CASE os = "windows"
  BY <1>2, WindowsDropIs DEF DropInjector
<1>3. CASE os = "macos"
  BY <1>3, MacDropIs DEF DropInjector
<1> QED BY <1>1, <1>2, <1>3

\* A Reset releases everything, or remembers that it did not.
LEMMA ResetIs ==
    ASSUME os \in {"linux", "windows", "macos"}, NEW s \in Injectors, Tracked(s), NEW o \in Inject(s, ResetEvent)
    PROVE  IsOutcome(o) /\ Effect(s, o.dev, {}, Targets)
<1>1. ResetEvent \in Event /\ ResetEvent.type = "Reset"
  BY DEF ResetEvent, Event
<1>2. PICK e : e = ResetEvent
  OBVIOUS
<1>3. PressedBy(e) = {} /\ ReleasedBy(e) = Targets
  BY <1>1, <1>2 DEF PressedBy, ReleasedBy
<1>4. IsOutcome(o) /\ Effect(s, o.dev, PressedBy(e), ReleasedBy(e))
  BY <1>1, <1>2, InjectIs
<1> QED BY <1>3, <1>4

\* A new injector.
LEMMA NewInjectorIs ==
    ASSUME NEW h \in SUBSET Targets
    PROVE  /\ NewInjector(h) \in Injectors /\ NewInjector(h).held = h /\ NewInjector(h).batch = 0
           /\ NewInjector(h).pads = {} /\ NewInjector(h).disorder = FALSE /\ NewInjector(h).stuck = FALSE
           /\ NewInjector(h).lost = FALSE
<1>1. BatchMax \in Nat \ {0} /\ Burst \in Nat \ {0} /\ MaxFailures \in Nat
  BY InjectionAssumption
<1> QED BY <1>1 DEF NewInjector, Injectors

\* A new session holds nothing.
LEMMA InjectionStarts == InjectionInit => InjectionInv
<1> SUFFICES ASSUME InjectionInit PROVE InjectionInv
  OBVIOUS
<1>1. /\ dev \in Injectors /\ dev.held = {} /\ dev.batch = 0
      /\ dev.pads = {} /\ dev.disorder = FALSE /\ dev.stuck = FALSE /\ dev.lost = FALSE
  <2>1. PICK h \in SUBSET Targets : h = {}
    OBVIOUS
  <2>2. dev = NewInjector(h)
    BY <2>1 DEF InjectionInit
  <2> QED BY <2>1, <2>2, NewInjectorIs
<1>2. Tracked(dev)
  BY <1>1 DEF Tracked
<1>3. OnlyWanted(dev)
  BY <1>1 DEF OnlyWanted
<1>4. /\ os \in Systems /\ perm \subseteq Permissions /\ (os = "macos" => "gamepad" \notin perm)
      /\ wanted = {} /\ injected \in BOOLEAN /\ phase \in {"up", "ended"}
  BY DEF InjectionInit, Permissions
<1> QED BY <1>1, <1>2, <1>3, <1>4 DEF InjectionInv

\* An event of the peer.
LEMMA ReceiveInputKeeps ==
    ASSUME InjectionInv, NEW e \in Event, ReceiveInput(e)
    PROVE  InjectionInv'
<1>1. /\ os \in {"linux", "windows", "macos"} /\ dev \in Injectors /\ Tracked(dev) /\ OnlyWanted(dev)
      /\ os' = os /\ perm' = perm /\ phase' = phase /\ phase = "up" /\ wanted' = Wants(e) /\ Allows(e)
  BY InjectionAssumption DEF InjectionInv, ReceiveInput
<1>2. ~ ("keyboard" \notin perm /\ e.type \in {"Key", "Flags"})
  BY <1>1 DEF Allows
<1>3. PICK o \in Inject(dev, e) : dev' = o.dev /\ injected' = (injected \/ o.ok)
  BY <1>2 DEF ReceiveInput
<1>4. os = "macos" => e.type # "Pad"
  BY <1>1 DEF Allows, InjectionInv
<1>5. IsOutcome(o) /\ Effect(dev, dev', PressedBy(e), ReleasedBy(e))
  BY <1>1, <1>3, <1>4, InjectIs
<1>6. PICK P, R : P = PressedBy(e) /\ R = ReleasedBy(e)
  OBVIOUS
<1>7. /\ dev' \in Injectors /\ Tracked(dev')
      /\ dev.stuck => dev'.stuck
      /\ ~ dev'.stuck => dev'.held \subseteq dev.held \cup P /\ dev'.held \cap R = {}
  BY <1>5, <1>6 DEF Effect
<1>8. Tracked(dev)'
  BY <1>1, <1>7 DEF Tracked, ReleasableBy
<1>9. /\ P \subseteq (IF "keyboard" \in perm THEN Keys \cup {"unmapped"} ELSE {})
                   \cup (IF "mouse" \in perm THEN {"left"} ELSE {})
                   \cup (IF "gamepad" \in perm THEN Pads \cup ExcessPads ELSE {})
      /\ P \subseteq Wants(e) \cup Synthesized
      /\ (wanted \cap Targets) \ R \subseteq Wants(e)
      /\ Wants(e) \subseteq Keys \cup {"left", "unmapped"} \cup Pads \cup ExcessPads
  <2>1. /\ wanted \subseteq Keys \cup {"left", "unmapped"} \cup Pads \cup ExcessPads
        /\ WireKeys \subseteq Keys \cup {"unmapped"} /\ Synthesized \subseteq Keys
    BY InjectionAssumption DEF InjectionInv, Synthesized, Keys
  <2>2. CASE e.type \in {"NotFinite", "Move"}
    BY <1>6, <2>1, <2>2 DEF PressedBy, ReleasedBy, Wants
  <2>3. CASE e.type = "Reset"
    <3>1. P = {} /\ Wants(e) = {} /\ R = Targets
      BY <1>6, <2>3 DEF PressedBy, ReleasedBy, Wants
    <3> QED BY <2>1, <3>1
  <2>4. CASE e.type = "Button"
    <3>1. e.down \in BOOLEAN /\ "mouse" \in perm
      BY <1>1, <2>4, EventShape DEF Allows
    <3> QED BY <1>6, <2>1, <2>4, <3>1 DEF PressedBy, ReleasedBy, Wants
  <2>5. CASE e.type = "Key"
    <3>1. e.down \in BOOLEAN /\ e.key \in WireKeys /\ "keyboard" \in perm
      BY <1>1, <2>5, EventShape DEF Allows
    <3>2. /\ P = Synthesized \cup (IF e.down THEN {e.key} ELSE {})
          /\ R = (IF e.down THEN {} ELSE {e.key})
          /\ Wants(e) = (IF e.down THEN wanted \cup {e.key} ELSE wanted \ {e.key})
      BY <1>6, <2>5 DEF PressedBy, ReleasedBy, Wants
    <3> QED BY <2>1, <3>1, <3>2
  <2>6. CASE e.type = "Flags"
    <3>1. "keyboard" \in perm
      BY <1>1, <2>6 DEF Allows
    <3>2. P = Synthesized /\ R = {} /\ Wants(e) = wanted
      BY <1>6, <2>6 DEF PressedBy, ReleasedBy, Wants
    <3> QED BY <2>1, <3>1, <3>2
  <2>7. CASE e.type = "Char"
    BY <1>6, <2>1, <2>7 DEF PressedBy, ReleasedBy, Wants
  <2>8. CASE e.type = "Pad"
    <3>1. e.down \in BOOLEAN /\ e.pad \in Pads \cup ExcessPads /\ "gamepad" \in perm
      BY <1>1, <2>8, EventShape DEF Allows
    <3>2. /\ P = (IF e.down THEN {e.pad} ELSE {})
          /\ R = (IF e.down THEN {} ELSE {e.pad})
          /\ Wants(e) = (IF e.down THEN wanted \cup {e.pad} ELSE wanted \ {e.pad})
      BY <1>6, <2>8 DEF PressedBy, ReleasedBy, Wants
    <3> QED BY <2>1, <3>1, <3>2
  <2> QED BY <2>2, <2>3, <2>4, <2>5, <2>6, <2>7, <2>8, EventShape
<1>10. OnlyWanted(dev)'
  <2> SUFFICES ASSUME ~ dev'.stuck
               PROVE  /\ dev'.held \ Synthesized \subseteq wanted'
                      /\ "keyboard" \notin perm => dev'.held \cap Keys = {}
                      /\ "mouse" \notin perm => "left" \notin dev'.held
                      /\ "gamepad" \notin perm => dev'.held \cap Pads = {}
    BY <1>1 DEF OnlyWanted
  <2>1. ~ dev.stuck /\ dev'.held \subseteq dev.held \cup P /\ dev'.held \cap R = {}
    BY <1>7
  <2>2. /\ dev.held \ Synthesized \subseteq wanted
        /\ "keyboard" \notin perm => dev.held \cap Keys = {}
        /\ "mouse" \notin perm => "left" \notin dev.held
        /\ "gamepad" \notin perm => dev.held \cap Pads = {}
    BY <1>1, <2>1 DEF OnlyWanted
  <2>3. /\ (Pads \cup ExcessPads) \cap (Keys \cup {"left", "unmapped"}) = {}
        /\ "left" \notin Keys
    BY InjectionAssumption DEF Keys
  <2>4. dev'.held \subseteq Targets
    BY <1>7 DEF Injectors
  <2>5. dev'.held \ Synthesized \subseteq wanted'
    BY <1>1, <1>9, <2>1, <2>2, <2>4
  <2>6. "keyboard" \notin perm => dev'.held \cap Keys = {}
    BY <1>9, <2>1, <2>2, <2>3
  <2>7. "mouse" \notin perm => "left" \notin dev'.held
    BY <1>9, <2>1, <2>2, <2>3
  <2>8. "gamepad" \notin perm => dev'.held \cap Pads = {}
    BY <1>9, <2>1, <2>2, <2>3
  <2> QED BY <2>5, <2>6, <2>7, <2>8
<1>11. injected' \in BOOLEAN
  BY <1>3, <1>5 DEF IsOutcome, InjectionInv
<1> QED BY <1>1, <1>7, <1>8, <1>9, <1>10, <1>11 DEF InjectionInv

\* The injector changes and nothing is held unless a release did not arrive.
LEMMA AllReleased ==
    ASSUME InjectionInv, dev' \in Injectors, Tracked(dev'), ~ dev'.stuck => dev'.held = {},
           os' = os, perm' \subseteq Permissions, os = "macos" => "gamepad" \notin perm',
           wanted' = {}, injected' = injected, phase' \in {"up", "ended"}
    PROVE  InjectionInv'
<1>1. Tracked(dev)'
  BY DEF Tracked, ReleasableBy
<1>2. OnlyWanted(dev)'
  BY DEF OnlyWanted
<1> QED BY <1>1, <1>2 DEF InjectionInv

\* The permissions change.
LEMMA PermissionsChangeKeeps ==
    ASSUME InjectionInv, NEW now \in SUBSET Permissions, PermissionsChange(now)
    PROVE  InjectionInv'
<1>1. /\ os \in {"linux", "windows", "macos"} /\ dev \in Injectors /\ Tracked(dev) /\ OnlyWanted(dev)
      /\ os' = os /\ perm' = now /\ phase' = phase /\ phase = "up" /\ injected' = injected
      /\ os = "macos" => "gamepad" \notin now
      /\ phase' \in {"up", "ended"}
  BY InjectionAssumption DEF InjectionInv, PermissionsChange
<1>2. CASE perm \ now # {}
  <2>1. wanted' = {} /\ \E o \in Inject(dev, ResetEvent) : dev' = o.dev
    BY <1>2 DEF PermissionsChange, Revoke
  <2>2. Effect(dev, dev', {}, Targets)
    BY <1>1, <2>1, ResetIs
  <2>3. dev' \in Injectors /\ Tracked(dev') /\ (~ dev'.stuck => dev'.held = {})
    BY <2>2 DEF Effect, Injectors
  <2> QED BY <1>1, <2>1, <2>3, AllReleased
<1>3. CASE perm \ now = {}
  <2>1. wanted' = wanted /\ dev' = dev
    BY <1>3 DEF PermissionsChange, Revoke, Ok
  <2>2. OnlyWanted(dev)'
    BY <1>1, <1>3, <2>1 DEF OnlyWanted
  <2>3. Tracked(dev)'
    BY <1>1, <2>1 DEF Tracked, ReleasableBy
  <2> QED BY <1>1, <2>1, <2>2, <2>3 DEF InjectionInv
<1> QED BY <1>2, <1>3

\* The injector keeps what it holds and what it tracks.
LEMMA SameHeld ==
    ASSUME InjectionInv, dev' \in Injectors, dev'.batch = 0 \/ dev'.batch = dev.batch,
           dev'.held = dev.held, dev'.keys = dev.keys, dev'.buttons = dev.buttons, dev'.mods = dev.mods,
           dev'.pads = dev.pads, dev'.disorder = dev.disorder, dev'.stuck = dev.stuck, dev'.lost = dev.lost,
           UNCHANGED <<os, perm, injected, phase, wanted>>
    PROVE  InjectionInv'
<1>1. Tracked(dev)'
  BY DEF Tracked, ReleasableBy, InjectionInv
<1>2. OnlyWanted(dev)'
  BY DEF OnlyWanted, InjectionInv
<1> QED BY <1>1, <1>2 DEF InjectionInv

\* The text that waited is typed; nothing is held by it.
LEMMA FlushIdleTextKeeps == ASSUME InjectionInv, FlushIdleText PROVE InjectionInv'
<1>1. dev \in Injectors /\ dev' = [dev EXCEPT !.batch = 0] /\ UNCHANGED <<os, perm, injected, phase, wanted>>
  BY DEF InjectionInv, FlushIdleText, TypeUnicode
<1>2. 0 \in 0 .. BatchMax - 1
  BY InjectionAssumption
<1>3. dev' \in Injectors
  BY <1>1, <1>2 DEF Injectors
<1>4. /\ dev'.batch = 0 /\ dev'.held = dev.held /\ dev'.keys = dev.keys /\ dev'.buttons = dev.buttons
      /\ dev'.mods = dev.mods /\ dev'.pads = dev.pads /\ dev'.disorder = dev.disorder
      /\ dev'.stuck = dev.stuck /\ dev'.lost = dev.lost
  BY <1>1 DEF Injectors
<1> QED BY <1>1, <1>3, <1>4, SameHeld

\* A token of the rate limit.
LEMMA RefillKeeps == ASSUME InjectionInv, Refill PROVE InjectionInv'
<1> DEFINE n == dev.tokens + 1
<1>1. dev \in Injectors /\ dev' = [dev EXCEPT !.tokens = n] /\ UNCHANGED <<os, perm, injected, phase, wanted>>
  BY DEF InjectionInv, Refill
<1>2. n \in 0 .. Burst
  BY InjectionAssumption DEF InjectionInv, Refill, Injectors
<1> HIDE DEF n
<1>3. dev' \in Injectors
  BY <1>1, <1>2 DEF Injectors
<1>4. /\ dev'.batch = dev.batch /\ dev'.held = dev.held /\ dev'.keys = dev.keys /\ dev'.buttons = dev.buttons
      /\ dev'.mods = dev.mods /\ dev'.pads = dev.pads /\ dev'.disorder = dev.disorder
      /\ dev'.stuck = dev.stuck /\ dev'.lost = dev.lost
  BY <1>1 DEF Injectors
<1> QED BY <1>1, <1>3, <1>4, SameHeld

\* Accessibility access is granted or withdrawn.
LEMMA AccessibilityKeeps == ASSUME InjectionInv, AccessibilityChanges PROVE InjectionInv'
<1> DEFINE f == IF dev.trusted THEN dev.faults + 1 ELSE dev.faults
           t == ~ dev.trusted
<1>1. dev \in Injectors /\ dev' = [dev EXCEPT !.trusted = t, !.faults = f] /\ UNCHANGED <<os, perm, injected, phase, wanted>>
  BY DEF InjectionInv, AccessibilityChanges
<1>2. f \in 0 .. MaxFailures
  BY InjectionAssumption DEF InjectionInv, AccessibilityChanges, CanFail, Injectors
<1>3. t \in BOOLEAN
  OBVIOUS
<1> HIDE DEF f, t
<1>4. dev' \in Injectors
  BY <1>1, <1>2, <1>3 DEF Injectors
<1>5. /\ dev'.batch = dev.batch /\ dev'.held = dev.held /\ dev'.keys = dev.keys /\ dev'.buttons = dev.buttons
      /\ dev'.mods = dev.mods /\ dev'.pads = dev.pads /\ dev'.disorder = dev.disorder
      /\ dev'.stuck = dev.stuck /\ dev'.lost = dev.lost
  BY <1>1 DEF Injectors
<1> QED BY <1>1, <1>4, <1>5, SameHeld

\* New devices for another desktop size: what the old ones still hold, the new ones know nothing of.
LEMMA OutputChangesKeeps == ASSUME InjectionInv, OutputChanges PROVE InjectionInv'
<1>1. /\ os \in {"linux", "windows", "macos"} /\ dev \in Injectors /\ Tracked(dev)
      /\ os # "windows" /\ wanted' = {} /\ UNCHANGED <<os, perm, injected, phase>>
  BY InjectionAssumption DEF InjectionInv, OutputChanges
<1>2. PICK s \in DropInjector(dev) :
         dev' = [NewInjector(s.held) EXCEPT !.faults = s.faults, !.trusted = s.trusted,
                  !.disorder = s.disorder, !.stuck = s.stuck, !.lost = s.lost \/ s.held # {}]
  BY DEF OutputChanges
<1>3. Effect(dev, s, {}, Targets)
  BY <1>1, <1>2, DropIs
<1>4. s \in Injectors /\ Tracked(s) /\ (~ s.stuck => s.held = {})
  BY <1>3 DEF Effect, Injectors
<1> DEFINE l == s.lost \/ s.held # {}
<1>5. l \in BOOLEAN /\ (l => s.stuck) /\ (~ l => s.held = {}) /\ ~ s.disorder
  BY <1>4 DEF Tracked, Injectors
<1>6. PICK d : d = NewInjector(s.held)
  OBVIOUS
<1>7. dev' = [d EXCEPT !.faults = s.faults, !.trusted = s.trusted,
                  !.disorder = s.disorder, !.stuck = s.stuck, !.lost = l]
  BY <1>2, <1>6
<1> HIDE DEF l
<1>8. d \in Injectors /\ d.held = s.held /\ d.batch = 0 /\ d.pads = {}
  BY <1>4, <1>6, NewInjectorIs DEF Injectors
<1>9. dev' \in Injectors
  BY <1>4, <1>5, <1>7, <1>8 DEF Injectors
<1>10. /\ dev'.held = s.held /\ dev'.batch = 0 /\ dev'.pads = {} /\ dev'.stuck = s.stuck /\ dev'.lost = l
       /\ dev'.disorder = s.disorder
  BY <1>7, <1>8 DEF Injectors
<1>11. Tracked(dev')
  BY <1>1, <1>5, <1>10 DEF Tracked
<1>12. /\ perm' \subseteq Permissions /\ (os = "macos" => "gamepad" \notin perm') /\ phase' \in {"up", "ended"}
  BY <1>1 DEF InjectionInv
<1> QED BY <1>1, <1>4, <1>9, <1>10, <1>11, <1>12, AllReleased

\* The session ends.
LEMMA SessionEndsKeeps == ASSUME InjectionInv, SessionEnds PROVE InjectionInv'
<1>1. /\ os \in {"linux", "windows", "macos"} /\ dev \in Injectors /\ Tracked(dev)
      /\ wanted' = {} /\ UNCHANGED <<os, perm, injected>> /\ phase' = "ended"
  BY InjectionAssumption DEF InjectionInv, SessionEnds
<1>2. PICK o \in (IF injected THEN Inject(dev, ResetEvent) ELSE {Ok(dev)}) :
         \E s \in DropInjector(o.dev) : dev' = s
  BY DEF SessionEnds
<1>3. o.dev \in Injectors /\ Tracked(o.dev)
  <2>1. CASE injected
    BY <1>1, <1>2, <2>1, ResetIs DEF Effect
  <2>2. CASE ~ injected
    BY <1>1, <1>2, <2>2 DEF Ok
  <2> QED BY <2>1, <2>2
<1>4. dev' \in DropInjector(o.dev)
  BY <1>2
<1>5. Effect(o.dev, dev', {}, Targets)
  BY <1>1, <1>3, <1>4, DropIs
<1>6. dev' \in Injectors /\ Tracked(dev') /\ (~ dev'.stuck => dev'.held = {})
  BY <1>5 DEF Effect, Injectors
<1>7. /\ perm' \subseteq Permissions /\ (os = "macos" => "gamepad" \notin perm') /\ phase' \in {"up", "ended"}
  BY <1>1 DEF InjectionInv
<1> QED BY <1>1, <1>6, <1>7, AllReleased

\* Every step of the session keeps the invariant.
LEMMA InjectionKeeps == InjectionInv /\ [InjectionNext]_injectionVars => InjectionInv'
<1> SUFFICES ASSUME InjectionInv, [InjectionNext]_injectionVars PROVE InjectionInv'
  OBVIOUS
<1>1. CASE UNCHANGED injectionVars
  BY <1>1 DEF injectionVars, InjectionInv, Tracked, OnlyWanted, ReleasableBy
<1>2. CASE \E e \in Event : ReceiveInput(e)
  BY <1>2, ReceiveInputKeeps
<1>3. CASE \E now \in SUBSET Permissions : PermissionsChange(now)
  BY <1>3, PermissionsChangeKeeps
<1>4. CASE FlushIdleText
  BY <1>4, FlushIdleTextKeeps
<1>5. CASE OutputChanges
  BY <1>5, OutputChangesKeeps
<1>6. CASE SessionEnds
  BY <1>6, SessionEndsKeeps
<1>7. CASE Refill
  BY <1>7, RefillKeeps
<1>8. CASE AccessibilityChanges
  BY <1>8, AccessibilityKeeps
<1> QED BY <1>1, <1>2, <1>3, <1>4, <1>5, <1>6, <1>7, <1>8 DEF InjectionNext

\* The invariant implies what is promised.
LEMMA InjectionInvImpliesSafe == InjectionInv => InjectionSafe
<1> SUFFICES ASSUME InjectionInv PROVE InjectionSafe
  OBVIOUS
<1>1. os \in {"linux", "windows", "macos"} /\ dev \in Injectors /\ Tracked(dev) /\ OnlyWanted(dev)
  BY InjectionAssumption DEF InjectionInv
<1>2. InjectionTypeOK
  BY <1>1 DEF InjectionTypeOK, InjectionInv, Injectors, Targets
<1>3. ~ dev.lost => dev.held \subseteq Releasable
  <2>1. ReleasableBy(dev) = Releasable
    BY <1>1 DEF Releasable, ReleasableBy
  <2> QED BY <1>1, <2>1 DEF Tracked
<1>4. ~ dev.disorder
  BY <1>1 DEF Tracked
<1> QED BY <1>1, <1>2, <1>3, <1>4 DEF InjectionSafe, OnlyWanted

\* Whatever the desktop holds, the next Reset releases, unless the injector forgot a release that
\* was refused.  As long as every release arrived, a session holds only what its peer holds,
\* nothing without the permission for it, and nothing once it ended.  Text lands in order.
THEOREM InjectionStaysSafe == InjectionSpec => []InjectionSafe
<1>1. InjectionInit => InjectionInv
  BY InjectionStarts
<1>2. InjectionInv /\ [InjectionNext]_injectionVars => InjectionInv'
  BY InjectionKeeps
<1>3. InjectionInv => InjectionSafe
  BY InjectionInvImpliesSafe
<1> QED BY <1>1, <1>2, <1>3, PTL DEF InjectionSpec
=============================================================================
