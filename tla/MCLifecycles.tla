----------------------------- MODULE MCLifecycles -----------------------------
(***************************************************************************)
(* What must come to an end, one component at a time: the client's session *)
(* and its supervisor, the iOS shell, the Windows service, a relayed host  *)
(* with one client, and admission with one connection at a time.  The      *)
(* components share no state; the one that runs is scheduled fairly.       *)
(***************************************************************************)
EXTENDS ClientSession, MobileShell, WindowsService, Relay, Admission

VARIABLE part   \* the component that runs

CONSTANTS hostId, s1, s2, c1, p1, p2

MCHostIdOf == [s \in HostSockets |-> hostId]
MCClientHost == [c \in Clients |-> hostId]

lifecycleVars == <<part, clientVars, mobileVars, serviceVars, relayVars, admissionVars>>

LifecycleInit ==
    /\ part \in {"client", "mobile", "service", "relay", "admission"}
    /\ ClientInit /\ MobileInit /\ ServiceInit /\ RelayInit /\ AdmissionInit
    /\ part # "client" => stored = "none"
    /\ part # "service" => hint = NoHint

\* Component p runs and the others rest.
Only(p) ==
    /\ part = p /\ UNCHANGED part
    /\ p # "client" => UNCHANGED clientVars
    /\ p # "mobile" => UNCHANGED mobileVars
    /\ p # "service" => UNCHANGED serviceVars
    /\ p # "relay" => UNCHANGED relayVars
    /\ p # "admission" => UNCHANGED admissionVars

LifecycleNext ==
    \/ Only("client") /\ ClientNext
    \/ Only("mobile") /\ MobileNext
    \/ Only("service") /\ ServiceNext
    \/ Only("relay") /\ RelayNext
    \/ Only("admission") /\ AdmissionNext

Kinds == <<"sup", "aud", "med">>

running ==
    CASE part = "client" -> clientVars
      [] part = "mobile" -> mobileVars
      [] part = "service" -> serviceVars
      [] part = "relay" -> relayVars
      [] part = "admission" -> admissionVars

\* The threads of the component that runs are 1, 2, ...
ThreadCount ==
    CASE part = "client" -> 4
      [] part = "mobile" -> 2 + 3 * MaxGen
      [] part = "service" -> 1 + 2 * MaxWorkers
      [] part = "relay" -> 5
      [] part = "admission" -> 2

\* Its fairness, as its module states it: its k-th thread runs,
RunsThread(k) ==
    /\ k <= ThreadCount /\ UNCHANGED part
    /\ CASE part = "client" -> ClientThread(<<"user", "sup", "gen", "rcv">>[k])
         [] part = "mobile" ->
              IF k \in Tasks THEN MobileThread(Task(k)) ELSE MobileThread(<<Kinds[(k % 3) + 1], k \div 3>>)
         [] part = "service" -> IF k = 1 THEN ServiceSteps ELSE WorkerThread(k \div 2, k % 2 = 0)
         [] part = "relay" ->
              IF k <= 2 THEN HostTask(<<s1, s2>>[k])
              ELSE IF k <= 4 THEN WriterSends(<<s1, s2>>[k - 2]) ELSE ClientTask(c1)
         [] part = "admission" -> AdmissionThread(<<p1, p2>>[k])

\* and the k-th that waits for a lock gets it.
GetsLock(k) ==
    /\ part \in {"client", "mobile"} /\ UNCHANGED part
    /\ IF part = "client" THEN CipherUser(<<"user", "sup">>[k]) ELSE LockLifecycle(k)

LifecycleSpec ==
    /\ LifecycleInit /\ [][LifecycleNext]_lifecycleVars
    /\ \A k \in 1 .. 2 * MaxWorkers + 1 : WF_running(RunsThread(k))
    /\ \A k \in 1 .. 2 : SF_running(GetsLock(k))

(***************************************************************************)
(* What each component owes while it is the one that runs; the others      *)
(* stand still and owe nothing.                                            *)
(***************************************************************************)
\* The client: SessionRuntime::stop returns in the middle of a reconnect, and the host's
\* reason for ending reaches the user.
StoppedRuntimeEnds == part = "client" => RuntimeEnds

\* The iOS shell: no command waits for a teardown that waits for it.
CommandsReturn == part = "mobile" => MobileCommandsReturn

\* The Windows service: in the end a worker serves on the desktop that has the input.
ServiceSettles == part = "service" => WorkerFollowsConsole

\* The relay: the end of a host's loop ends its clients and its task.
RelayTearsDown == part = "relay" => HostEndTearsDown

\* Admission: a connection that does nothing, or outstays its expiry, ends.
AdmissionCloses == part = "admission" => ConnectionsEnd
===============================================================================
