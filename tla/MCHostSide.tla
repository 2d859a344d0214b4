------------------------------ MODULE MCHostSide ------------------------------
(***************************************************************************)
(* The host and its platform backends, one component at a time: the        *)
(* components share no state, so each is explored with the others standing *)
(* still.                                                                  *)
(***************************************************************************)
EXTENDS InputInjection, Clipboard, Discovery, WindowsMedia, TLC

VARIABLE part   \* the component that runs

\* The clipboards tell texts apart and nothing else.
Interchangeable == Permutations(ClipTexts)

hostSideVars == <<part, injectionVars, clipboardVars, discoveryVars, mediaVars>>

\* One host announced on two interfaces, another on one of them.
MCServiceKeys ==
    {[name |-> "a", interface |-> 0], [name |-> "a", interface |-> 1], [name |-> "b", interface |-> 1]}
\* The second desktop mode has frames of another length.
MCLengths == [m \in {"m1", "m2"} |-> IF m = "m1" THEN 1 ELSE 2]

HostSideInit ==
    /\ part \in {"injection", "clipboard", "discovery", "media"}
    /\ InjectionInit /\ ClipboardInit /\ DiscoveryInit /\ MediaInit
    /\ part # "injection" => os = "linux"
    /\ part # "clipboard" => system = "wayland"
    /\ part # "discovery" => browser.backend = "mdns"
    /\ part # "media" => starter.kind = "cpu"

HostSideNext ==
    /\ UNCHANGED part
    /\ \/ /\ part = "injection" /\ InjectionNext
          /\ UNCHANGED <<clipboardVars, discoveryVars, mediaVars>>
       \/ /\ part = "clipboard" /\ ClipboardNext
          /\ UNCHANGED <<injectionVars, discoveryVars, mediaVars>>
       \/ /\ part = "discovery" /\ DiscoveryNext
          /\ UNCHANGED <<injectionVars, clipboardVars, mediaVars>>
       \/ /\ part = "media" /\ MediaNext
          /\ UNCHANGED <<injectionVars, clipboardVars, discoveryVars>>

\* A state is told apart by the component that runs: the others are as they began.
Running ==
    CASE part = "injection" -> <<part, injectionVars>>
      [] part = "clipboard" -> <<part, clipboardVars>>
      [] part = "discovery" -> <<part, discoveryVars>>
      [] part = "media" -> <<part, mediaVars>>

HostSideSpec == HostSideInit /\ [][HostSideNext]_hostSideVars
===============================================================================
