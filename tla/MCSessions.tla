------------------------------ MODULE MCSessions ------------------------------
(***************************************************************************)
(* Sessions from both ends, one component at a time: the host's admission  *)
(* of two connections and its control of a session, the client's session   *)
(* and its supervisor, the iOS shell, and the Windows service.  The        *)
(* components share no state, so each is explored with the others standing *)
(* still.                                                                  *)
(***************************************************************************)
EXTENDS Admission, HostControl, ClientSession, MobileShell, WindowsService, TLC

VARIABLE part   \* the component that runs

Interchangeable == Permutations(Conns)

\* Displays before and after a plug: two, the virtual one in front of one, none.
MCTopologies ==
    {[list |-> <<"A", "B">>, focus |-> "A"], [list |-> <<"HEADLESS", "B">>, focus |-> "HEADLESS"],
     [list |-> <<>>, focus |-> "none"]}
\* The second display scaled down with another codec; the first one at another bitrate.
MCOptions ==
    {[index |-> 1, scale |-> 500, fps |-> 30, codec |-> "h264", bitrate |-> 0],
     [index |-> 0, scale |-> 1000, fps |-> 0, codec |-> "auto", bitrate |-> 3]}
MCGrants == {{"mouse"}}

sessionsVars == <<part, admissionVars, controlVars, clientVars, mobileVars, serviceVars>>

SessionsInit ==
    /\ part \in {"admission", "control", "client", "mobile", "service"}
    /\ AdmissionInit /\ ControlInit /\ ClientInit /\ MobileInit /\ ServiceInit
    /\ part # "control" => /\ host.platform = "linux" /\ host.pinned = "none"
                           /\ host.displays.focus = "A" /\ ctl.peer = "old"
    /\ part # "client" => stored = "none"
    /\ part # "service" => hint = NoHint

SessionsNext ==
    /\ UNCHANGED part
    /\ \/ /\ part = "admission" /\ AdmissionNext
          /\ UNCHANGED <<controlVars, clientVars, mobileVars, serviceVars>>
       \/ /\ part = "control" /\ ControlNext
          /\ UNCHANGED <<admissionVars, clientVars, mobileVars, serviceVars>>
       \/ /\ part = "client" /\ ClientNext
          /\ UNCHANGED <<admissionVars, controlVars, mobileVars, serviceVars>>
       \/ /\ part = "mobile" /\ MobileNext
          /\ UNCHANGED <<admissionVars, controlVars, clientVars, serviceVars>>
       \/ /\ part = "service" /\ ServiceNext
          /\ UNCHANGED <<admissionVars, controlVars, clientVars, mobileVars>>

\* A state is told apart by the component that runs: the others are as they began.
Running ==
    CASE part = "admission" -> <<part, admissionVars>>
      [] part = "control" -> <<part, controlVars>>
      [] part = "client" -> <<part, clientVars>>
      [] part = "mobile" -> <<part, mobileVars>>
      [] part = "service" -> <<part, serviceVars>>

SessionsSpec == SessionsInit /\ [][SessionsNext]_sessionsVars
===============================================================================
