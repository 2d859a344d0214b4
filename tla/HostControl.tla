---------------------------- MODULE HostControl ----------------------------
(***************************************************************************)
(* The control loop of one session of the host (maho-host                  *)
(* HostServer::handle_connection): what streams, what the client has been  *)
(* told of it, and what the client may do.  An iteration reads a packet,   *)
(* looks at the displays, takes the commands of the guest registry,        *)
(* recomputes the permissions and only then handles the packet.  Displays  *)
(* come and go, the operator changes permissions, the pipeline dies and    *)
(* the client sends requests between any two of these steps.               *)
(***************************************************************************)
EXTENDS Integers, Sequences, FiniteSets

CONSTANTS Platforms,     \* subset of {"linux", "windows", "macos"}
          Peers,         \* subset of {"guest", "options", "old"}: what the client announced
          Topologies,    \* the lists of displays the desktop may have, focused first or not
          OptionRequests,\* [index, scale, fps, codec, bitrate] of StreamOptionsRequest
          Grants,        \* sets of permissions the operator may give
          PinnedOutputs, \* the outputs --output may name, None for none
          MaxRequests, MaxPlugs, MaxOrders, MaxDeaths

DisplaySize(name) == CASE name = "A" -> 10 [] name = "B" -> 3 [] OTHER -> 8
Fallback == [list |-> <<"host">>, focus |-> "host"]
ConfigFps == 60
ConfigRate == 8
AllPermissions == {"keyboard", "mouse", "clipboard", "audio"}
None == "none"
NoPipe == [output |-> None, width |-> 0, fps |-> 0, codec |-> None, bitrate |-> 0, restarted |-> FALSE, blank |-> FALSE]

Systems == {"linux", "windows", "macos"}
Codecs == {"auto", "h264", "hevc"}

ASSUME HostControlAssumption ==
    /\ Platforms \subseteq Systems /\ Peers \subseteq {"guest", "options", "old"}
    /\ PinnedOutputs \subseteq STRING
    /\ Topologies \subseteq [list : Seq(STRING), focus : STRING]
    /\ OptionRequests \subseteq [index : Nat, scale : Nat, fps : Nat, codec : Codecs, bitrate : Nat]
    /\ \A t \in Topologies : t.list = <<>> \/ \E i \in DOMAIN t.list : t.list[i] = t.focus
    /\ \A g \in Grants : g \subseteq AllPermissions

VARIABLES
    host,    \* [platform, pinned, displays, allow (what the operator's switches allow), stop]
    ctl,     \* the locals of handle_connection; history: allowed (the switches that were on at
             \* some moment since the packet in hand was read)
    pipe,    \* the configuration the pipeline in the slot runs with
    status,  \* media_status_rx holds a terminal status
    inbox,   \* the client's requests that were not read yet
    orders,  \* the guest registry's commands that were not taken yet
    told,    \* what the client knows from the host's messages
    spent    \* bounds: [requests, plugs, orders, deaths]

controlVars == <<host, ctl, pipe, status, inbox, orders, told, spent>>

\* host_displays: without any display there is one that carries the host's name.
HostDisplays == IF host.displays.list = <<>> THEN Fallback ELSE host.displays
Primary(t) == t.focus
Present(t, name) == \E i \in DOMAIN t.list : t.list[i] = name
OutputIsVirtual(name) == name = "HEADLESS"

\* select_focused_output, select_fallback_output and reprobe_output_if_missing; when nothing
\* can be probed the pinned name is kept.
SelectFocused(t) == IF t.list = <<>> THEN None ELSE t.focus
SelectFallback(t) ==
    LET real == {i \in DOMAIN t.list : ~ OutputIsVirtual(t.list[i])} IN
    IF real = {} \/ (t.list # <<>> /\ ~ OutputIsVirtual(t.focus)) THEN SelectFocused(t)
    ELSE t.list[CHOOSE i \in real : \A j \in real : i <= j]
ReprobeOutput(t) ==
    IF t.list = <<>> \/ Present(t, host.pinned) THEN host.pinned
    ELSE IF host.pinned = None THEN SelectFocused(t) ELSE SelectFallback(t)

\* probe_linux_input_geometry: the pointer keeps its mapping when the output is unknown.
InputGeometry(name, old) == IF Present(host.displays, name) THEN name ELSE old

\* permission_ceiling.
PermissionCeiling(allow, clipboard) ==
    (IF "input" \in allow THEN {"keyboard", "mouse"} ELSE {})
    \cup (IF "clipboard" \in allow /\ clipboard /\ host.platform # "macos" THEN {"clipboard"} ELSE {})
    \cup {"audio"}

\* HostPolicy of a set of permissions, and send_permissions.
Policy(p) == [input |-> {"keyboard", "mouse"} \subseteq p, clipboard |-> "clipboard" \in p]
SendPermissions(t, p) ==
    CASE ctl.peer = "guest" -> [t EXCEPT !.permissions = p]
      [] ctl.peer = "options" -> [t EXCEPT !.policy = Policy(p)]
      [] OTHER -> t
HasOptions == ctl.peer # "old"

\* The scaled dimension of a display: even, at least two.
Scaled(name, scale) ==
    LET w == (DisplaySize(name) * scale) \div 1000
        even == w - (w % 2)
    IN IF even < 2 THEN 2 ELSE even

\* The restart factory: the codec a preference stands for on the platform.
Resolve(codec) ==
    IF host.platform = "windows" THEN (IF codec = "hevc" THEN "hevc" ELSE "h264")
    ELSE IF codec = "h264" /\ host.platform = "linux" THEN "h264" ELSE "hevc"
Pipeline(name, scale, fps, codec, bitrate) ==
    [output |-> name, width |-> Scaled(name, scale), fps |-> fps, codec |-> Resolve(codec), bitrate |-> bitrate,
     restarted |-> TRUE, blank |-> FALSE]

\* A headless output was taken in place of another one although a real one was there.
Blank(name) == OutputIsVirtual(name) /\ \E i \in DOMAIN HostDisplays.list : ~ OutputIsVirtual(HostDisplays.list[i])

\* default_media_source: the configured display at its own size.  It captures what is pinned or
\* focused when it starts, on Windows the first display, on macOS the main one.
DefaultPipeline ==
    LET name == CASE host.platform = "windows" -> HostDisplays.list[1]
                  [] host.platform = "macos" -> Primary(HostDisplays)
                  [] host.platform = "linux" -> ReprobeOutput(host.displays)
    IN [Pipeline(name, 1000, ConfigFps, "auto", ConfigRate) EXCEPT !.restarted = FALSE, !.blank = host.pinned \notin {None, name} /\ Blank(name)]

\* handle_connection up to the loop: the session's view of the displays is taken before the
\* client is admitted.
ControlInit ==
    /\ host \in [platform : Platforms, pinned : PinnedOutputs, displays : Topologies, allow : {{"input", "clipboard"}}, stop : {FALSE}]
    /\ host.platform # "linux" => host.pinned = None
    /\ \E peer \in Peers :
         ctl = [at |-> "preauth", peer |-> peer, topology |-> HostDisplays, selected |-> IF host.pinned = None THEN Primary(HostDisplays) ELSE host.pinned,
                geometry |-> ReprobeOutput(host.displays),
                scale |-> 1000, fps |-> ConfigFps, codec |-> "auto", bitrate |-> ConfigRate,
                grant |-> AllPermissions, effective |-> {}, audio |-> FALSE, policy |-> Policy({"keyboard", "mouse", "clipboard"}),
                packet |-> None, failed |-> FALSE, allowed |-> {}]
    /\ pipe = NoPipe
    /\ status = FALSE
    /\ inbox = <<>> /\ orders = <<>>
    /\ told = [list |-> None, first |-> None, active |-> NoPipe, answer |-> None, permissions |-> {}, policy |-> None, ended |-> None]
    /\ spent = [requests |-> 0, plugs |-> 0, orders |-> 0, deaths |-> 0]

End == [ctl EXCEPT !.at = "ended", !.packet = None]
Proceed(c, at) == [c EXCEPT !.at = at]

(***************************************************************************)
(* The world around the session.                                           *)
(***************************************************************************)
DisplaysChange ==
    /\ spent.plugs < MaxPlugs /\ ctl.at # "ended"
    /\ \E t \in Topologies \ {host.displays} : host' = [host EXCEPT !.displays = t]
    /\ spent' = [spent EXCEPT !.plugs = @ + 1]
    /\ UNCHANGED <<ctl, pipe, status, inbox, orders, told>>

\* The sender thread reports that the pipeline it drains ended.
PipelineDies ==
    /\ pipe # NoPipe /\ spent.deaths < MaxDeaths /\ ~ status /\ ctl.at \notin {"preauth", "ended"}
    /\ status' = TRUE
    /\ spent' = [spent EXCEPT !.deaths = @ + 1]
    /\ UNCHANGED <<host, ctl, pipe, inbox, orders, told>>

\* The host's window: the switches, and what the guest registry is told to send.
OperatorActs ==
    /\ spent.orders < MaxOrders /\ ctl.at \notin {"preauth", "ended"}
    /\ spent' = [spent EXCEPT !.orders = @ + 1]
    /\ \/ \E s \in {"input", "clipboard"} :
            /\ host' = [host EXCEPT !.allow = IF s \in @ THEN @ \ {s} ELSE @ \cup {s}]
            /\ UNCHANGED orders
       \/ \E g \in Grants : orders' = Append(orders, [type |-> "permissions", grant |-> g]) /\ UNCHANGED host
       \/ orders' = Append(orders, [type |-> "end"]) /\ UNCHANGED host
       \/ host' = [host EXCEPT !.stop = TRUE] /\ UNCHANGED orders
    /\ ctl' = [ctl EXCEPT !.allowed = @ \cup host'.allow]
    /\ UNCHANGED <<pipe, status, inbox, told>>

Requests ==
    [type : {"options"}, o : OptionRequests] \cup [type : {"config", "adjust"}, rate : {5}]
    \cup [type : {"config"}, rate : {0}] \cup [type : {"foreign", "disconnect", "keyframe"}]
ClientSends ==
    /\ spent.requests < MaxRequests /\ ctl.at \notin {"preauth", "ended"}
    /\ \E r \in Requests : inbox' = Append(inbox, r)
    /\ spent' = [spent EXCEPT !.requests = @ + 1]
    /\ UNCHANGED <<host, ctl, pipe, status, orders, told>>

(***************************************************************************)
(* The handshake and the loop.                                             *)
(***************************************************************************)
\* The end of the handshake: permissions, pipeline, display list.  The order of the pipeline
\* and the permissions does not matter here; a pipeline that does not start ends the session.
Authenticate(starts) ==
    LET p == ctl.grant \cap PermissionCeiling(host.allow, TRUE)
        t == SendPermissions(told, p)
    IN /\ ctl.at = "preauth"
       /\ pipe' = IF starts THEN DefaultPipeline ELSE NoPipe
       /\ ctl' = IF ~ starts THEN End
                 ELSE [ctl EXCEPT !.at = "top", !.effective = p, !.audio = "audio" \in p,
                                  !.policy = IF HasOptions THEN Policy(p) ELSE @]
       /\ told' = IF starts /\ HasOptions THEN [t EXCEPT !.list = HostDisplays, !.first = HostDisplays] ELSE t
       /\ UNCHANGED <<host, status, inbox, orders, spent>>

\* The top of the loop: the stop flag, the media status, the packet; an orderly end is taken
\* before anything else.
ReadPacket ==
    LET m == IF inbox = <<>> THEN [type |-> None] ELSE Head(inbox) IN
    /\ ctl.at = "top"
    /\ IF host.stop
       THEN /\ ctl' = End
            /\ told' = [told EXCEPT !.ended = IF ctl.peer = "guest" THEN "stopped" ELSE "disconnect"]
            /\ UNCHANGED <<status, inbox>>
       ELSE /\ status' = FALSE
            /\ inbox' = IF inbox = <<>> THEN inbox ELSE Tail(inbox)
            /\ ctl' = IF m.type = "disconnect" THEN End
                      ELSE [ctl EXCEPT !.at = "topology", !.packet = m, !.failed = status,
                                       !.allowed = host.allow]
            /\ UNCHANGED told
    /\ UNCHANGED <<host, pipe, orders, spent>>

\* Mutant: the replacement of a vanished display starts at full size.
HotPlugPipelineUnscaled(name) == [Pipeline(name, 1000, ctl.fps, ctl.codec, ctl.bitrate) EXCEPT !.blank = Blank(name)]

\* The pipeline that replaces one whose display is gone.
HotPlugPipeline(name) == [Pipeline(name, ctl.scale, ctl.fps, ctl.codec, ctl.bitrate) EXCEPT !.blank = Blank(name)]

\* The look at the displays, every two seconds or when the pipeline ended.  The displays stay
\* put within the step.
CheckTopology(due, starts) ==
    LET t == HostDisplays
        looks == ctl.failed \/ due
        gone == ~ Present(t, ctl.selected)
        listed == IF HasOptions /\ t # ctl.topology THEN [told EXCEPT !.list = t] ELSE told
        fresh == HotPlugPipeline(Primary(t))
    IN /\ ctl.at = "topology"
       /\ \/ /\ ~ looks
             /\ ctl' = Proceed(ctl, "permissions") /\ UNCHANGED <<pipe, told>>
          \/ /\ looks /\ ~ gone /\ ctl.failed
             /\ ctl' = End /\ UNCHANGED <<pipe, told>>
          \/ /\ looks /\ ~ gone /\ ~ ctl.failed
             /\ ctl' = [ctl EXCEPT !.at = "permissions", !.topology = t]
             /\ told' = listed /\ UNCHANGED pipe
          \/ /\ looks /\ gone /\ starts
             /\ pipe' = fresh
             /\ ctl' = [ctl EXCEPT !.at = "permissions", !.topology = t, !.selected = Primary(t),
                                   !.geometry = InputGeometry(Primary(t), @)]
             /\ told' = IF HasOptions THEN [listed EXCEPT !.active = [fresh EXCEPT !.codec = ctl.codec]] ELSE listed
          \/ /\ looks /\ gone /\ ~ starts
             /\ ctl' = End /\ told' = listed /\ UNCHANGED pipe
       /\ UNCHANGED <<host, status, inbox, orders, spent>>

\* The commands of the guest registry, and the permissions of this moment.
TakeCommands ==
    LET ends == \E i \in DOMAIN orders : orders[i].type = "end"
        given == {i \in DOMAIN orders : orders[i].type = "permissions"}
        grant == IF given = {} THEN ctl.grant
                 ELSE orders[CHOOSE i \in given : \A j \in given : j <= i].grant
        now == grant \cap PermissionCeiling(host.allow, TRUE)
    IN /\ ctl.at = "permissions"
       /\ orders' = <<>>
       /\ IF ends
          THEN /\ ctl' = End
               /\ told' = [told EXCEPT !.ended = IF ctl.peer = "guest" THEN "kicked" ELSE "disconnect"]
          ELSE /\ ctl' = [ctl EXCEPT !.at = "policy", !.grant = grant, !.effective = now,
                                     !.audio = IF now = ctl.effective THEN @ ELSE "audio" \in now]
               /\ told' = IF now = ctl.effective THEN told ELSE SendPermissions(told, now)
       /\ UNCHANGED <<host, pipe, status, inbox, spent>>

\* The policy of a client that does not know permissions, and the heartbeat.
Heartbeat(silent) ==
    LET p == Policy(ctl.effective)
        sends == ctl.peer = "options" /\ p # ctl.policy
    IN /\ ctl.at = "policy"
       /\ told' = IF sends THEN [told EXCEPT !.policy = p] ELSE told
       /\ ctl' = IF silent THEN End
                 ELSE [ctl EXCEPT !.at = IF ctl.packet.type = None THEN "top" ELSE "packet", !.policy = IF sends THEN p ELSE @,
                                  !.packet = IF @.type = None THEN None ELSE @]
       /\ UNCHANGED <<host, pipe, status, inbox, orders, spent>>

(***************************************************************************)
(* The packet in hand.                                                     *)
(***************************************************************************)
Done(c) == [c EXCEPT !.at = "top", !.packet = None]

\* validate_stream_options, and what the platform cannot do.
ValidateStreamOptions(o) ==
    /\ o.scale \in 100..1000 /\ o.fps \in 1..240
    /\ o.index < Len(HostDisplays.list)
    /\ ~ (host.platform = "macos" /\ o.codec = "h264")
    /\ ~ (host.platform = "windows" /\ o.scale # 1000)

\* StreamOptionsRequest: the pipeline is replaced, or everything stays as it was.
HandleStreamOptions(starts) ==
    LET o == ctl.packet.o
        name == HostDisplays.list[o.index + 1]
        rate == IF o.bitrate # 0 THEN o.bitrate ELSE ctl.bitrate
        codec == IF o.codec = "h264" THEN "h264" ELSE "hevc"
        fresh == Pipeline(name, o.scale, o.fps, codec, rate)
    IN /\ ctl.at = "packet" /\ ctl.packet.type = "options" /\ HasOptions
       /\ IF ValidateStreamOptions(o) /\ starts
          THEN /\ pipe' = fresh
               /\ ctl' = Done([ctl EXCEPT !.bitrate = rate, !.selected = name, !.scale = o.scale, !.fps = o.fps, !.codec = codec,
                                         !.geometry = InputGeometry(name, @)])
               /\ told' = [told EXCEPT !.active = fresh, !.answer = "active"]
          ELSE /\ ctl' = Done(ctl)
               /\ told' = [told EXCEPT !.answer = "reject"]
               /\ UNCHANGED pipe
       /\ UNCHANGED <<host, status, inbox, orders, spent>>

\* StreamConfigRequest changes the bitrate only; a bitrate that was not applied is rejected.
HandleStreamConfig(applies) ==
    LET rate == ctl.packet.rate
        ok == rate # 0 /\ applies
    IN /\ ctl.at = "packet" /\ ctl.packet.type = "config"
       /\ pipe' = IF ok THEN [pipe EXCEPT !.bitrate = rate] ELSE pipe
       /\ ctl' = Done(IF ok THEN [ctl EXCEPT !.bitrate = rate] ELSE ctl)
       /\ told' = [told EXCEPT !.answer = IF ok THEN "response" ELSE "reject"]
       /\ UNCHANGED <<host, status, inbox, orders, spent>>

\* BitrateAdjust: a bitrate the encoder refuses does not end the session.
HandleBitrateAdjust(applies) ==
    /\ ctl.at = "packet" /\ ctl.packet.type = "adjust"
    /\ pipe' = IF applies THEN [pipe EXCEPT !.bitrate = ctl.packet.rate] ELSE pipe
    /\ ctl' = Done(IF applies THEN [ctl EXCEPT !.bitrate = ctl.packet.rate] ELSE ctl)
    /\ UNCHANGED <<host, status, inbox, orders, told, spent>>

\* RequestKeyFrame fails only when the pipeline is gone.
HandleKeyFrame(fails) ==
    /\ ctl.at = "packet" /\ ctl.packet.type = "keyframe"
    /\ ctl' = IF fails THEN End ELSE Done(ctl)
    /\ UNCHANGED <<host, pipe, status, inbox, orders, told, spent>>

\* A message that only a host sends, or that the client did not announce.
HandleUnsupported ==
    /\ ctl.at = "packet" /\ (ctl.packet.type = "foreign" \/ (ctl.packet.type = "options" /\ ~ HasOptions))
    /\ ctl' = End
    /\ UNCHANGED <<host, pipe, status, inbox, orders, told, spent>>

ControlNext ==
    \/ DisplaysChange \/ PipelineDies \/ OperatorActs \/ ClientSends
    \/ ReadPacket \/ TakeCommands \/ HandleUnsupported
    \/ \E b \in BOOLEAN :
         \/ Authenticate(b) \/ Heartbeat(b) \/ HandleStreamOptions(b) \/ HandleStreamConfig(b)
         \/ HandleBitrateAdjust(b) \/ HandleKeyFrame(b)
         \/ \E due \in BOOLEAN : CheckTopology(due, b)

ControlSpec == ControlInit /\ [][ControlNext]_controlVars

Serving == ctl.at \notin {"preauth", "ended"}

\* What runs is what the loop will restart with and what the client was last told; the pointer
\* is mapped to the display that streams; a headless output is not taken for a missing one.
StreamIsKnown ==
    Serving =>
      /\ pipe.fps = ctl.fps /\ pipe.bitrate = ctl.bitrate /\ pipe.codec = Resolve(ctl.codec)
      /\ pipe.restarted => pipe.output = ctl.selected /\ pipe.width = Scaled(ctl.selected, ctl.scale)
      /\ ~ pipe.restarted => ~ pipe.blank
      /\ (pipe.restarted /\ pipe.output # "host") => ctl.geometry = pipe.output
      /\ told.active # NoPipe =>
           /\ told.active.output = pipe.output /\ told.active.width = pipe.width /\ told.active.fps = pipe.fps
           /\ Resolve(told.active.codec) = pipe.codec

\* When a packet is handled, the client has been told the permissions it is handled under, and a
\* permission that was withdrawn before the packet was read, and not given again, is gone.
PermissionsAreKnown ==
    ctl.at = "packet" =>
      /\ ctl.audio = ("audio" \in ctl.effective)
      /\ ctl.peer = "guest" => told.permissions = ctl.effective
      /\ ctl.peer = "options" => told.policy = Policy(ctl.effective)
      /\ ctl.effective \subseteq PermissionCeiling(ctl.allowed, TRUE)

\* The host's session loop streams what it believes and says, through requests, vanished
\* displays, refused encoders and changed permissions in any order, and the list of displays
\* the client has is the last one looked at or the one of its handshake.
HostControlSafe ==
    /\ StreamIsKnown
    /\ PermissionsAreKnown
    /\ (Serving /\ HasOptions) => told.list \in {ctl.topology, told.first}
=============================================================================
