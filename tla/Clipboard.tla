------------------------------ MODULE Clipboard ------------------------------
(***************************************************************************)
(* Clipboard text and images between a macOS client and a host on          *)
(* Wayland, X11 or Windows.                                                *)
(*                                                                         *)
(*   host    the session loop of maho-host/src/session.rs, one actor, with *)
(*           clipboard_linux.rs, clipboard_windows.rs, windows_logic.rs    *)
(*           and clipboard_image.rs                                        *)
(*   client  the TCP reader (handle_packet of maho-app/src/session.rs,     *)
(*           session_parity.rs), the monitor's thread                      *)
(*           (maho-app/src/clipboard.rs), the poll_frame worker            *)
(*           (tauri-shell lib.rs, clipboard_image.rs) and the command      *)
(*           set_client_clipboard (parity.rs)                              *)
(*                                                                         *)
(* A hash of a text is the text.  There is one image, of two chunks.  A    *)
(* clipboard entry knows who wrote it (`from'), which no code reads; one   *)
(* access to the system's clipboard is one step.                           *)
(***************************************************************************)
EXTENDS Integers, Sequences, FiniteSets

CONSTANTS
    HostSystems,  \* a subset of {"wayland", "x11", "windows"}
    ClipTexts,
    MaxCopies,    \* entries the two users copy
    MaxUpsets,    \* changes of the host's permission, of the client's switch and of the
                  \* connection, and failures of a clipboard
    MaxMishaps    \* how many of these may be failures

ASSUME ClipboardAssumption ==
    /\ HostSystems \subseteq {"wayland", "x11", "windows"}
    /\ "none" \notin ClipTexts  \* Nil is no text
    /\ {MaxCopies, MaxUpsets, MaxMishaps} \subseteq Nat

VARIABLES
    system,   \* the host's clipboard backend
    hostClip, \* the host's clipboard and LinuxClipboard / WindowsClipboard, Assembly, image_id
    allowed,  \* effective_permissions.clipboard of the host's session
    mac,      \* the client's clipboard and ParityState
    clipMonitor,  \* ClipboardMonitor and its callback
    poller,   \* the poll_frame worker
    switch,   \* set_client_clipboard
    toHost, toMac,
    online,     \* the connection is up
    log       \* budgets and what went wrong (history)

clipboardVars == <<system, hostClip, allowed, mac, clipMonitor, poller, switch, toHost, toMac, online, log>>

Nil == "none"
NoTransfer == [id |-> 0, era |-> 0]
NoImage == -1
Empty(n) == [kind |-> "none", val |-> Nil, from |-> "local", count |-> n, secret |-> FALSE, fresh |-> FALSE]
Entry(kind, val, from, n, secret) ==
    [kind |-> kind, val |-> val, from |-> from, count |-> n, secret |-> secret, fresh |-> from = "local"]

\* The clipboard objects of a new connection; the system's clipboard stays.
\* WindowsClipboard::new starts from the present sequence number, LinuxClipboard has seen nothing.
NewHostClip(entry) ==
    [clip |-> entry, seen |-> entry.count, wrote |-> Nil, recent |-> FALSE, hash |-> Nil,
     image |-> FALSE, active |-> NoTransfer, used |-> {}, nextId |-> 0]

ClipboardInit ==
    /\ system \in HostSystems
    /\ hostClip = NewHostClip(Empty(0))
    /\ allowed = TRUE
    /\ mac = [clip |-> Empty(0), on |-> TRUE, shellOn |-> TRUE, perm |-> TRUE, slot |-> Nil,
              latest |-> 0, part |-> NoTransfer, image |-> NoImage, imageSeen |-> 0, sequence |-> 0]
    /\ clipMonitor = [live |-> TRUE, published |-> TRUE, last |-> 0, written |-> -1, hash |-> Nil, sending |-> Empty(0)]
    /\ poller = [at |-> "idle", enabled |-> TRUE, image |-> NoImage, text |-> Nil, next |-> 0]
    /\ switch = [at |-> "idle", want |-> TRUE]
    /\ toHost = <<>> /\ toMac = <<>>
    /\ online = TRUE
    /\ log = [copies |-> 0, toggles |-> 0, mishaps |-> 0, hostEra |-> 0, macEra |-> 0, hostTalk |-> Nil, macTalk |-> Nil,
              withheld |-> {}, bad |-> {}]

Images == system # "x11"
CanToggle == log.toggles + log.mishaps < MaxUpsets
CanMishap == CanToggle /\ log.mishaps < MaxMishaps
TextMessage(v) == [type |-> "text", val |-> v]
Chunk(id, i) == [type |-> "chunk", id |-> id, index |-> i]
PermissionMessage(p) == [type |-> "permissions", clipboard |-> p]
Note(l, cond, what) == IF cond THEN [l EXCEPT !.bad = @ \cup {what}] ELSE l

\* What sending an entry would show: the peer's own entry goes back, or a secret gets out.
SentLog(l, entry) ==
    Note(Note(l, entry.from = "remote", "echo"), entry.secret /\ system # "x11", "leak")

(***************************************************************************)
(* The users.                                                              *)
(***************************************************************************)
UserCopies(kind, val, secret) ==
    /\ log.copies < MaxCopies
    /\ log' = [log EXCEPT !.copies = @ + 1]
    /\ \/ /\ hostClip' = [hostClip EXCEPT !.clip = Entry(kind, val, "local", @.count + 1, secret)]
          /\ UNCHANGED mac
       \/ /\ mac' = [mac EXCEPT !.clip = Entry(kind, val, "local", @.count + 1, secret)]
          /\ UNCHANGED hostClip
    /\ UNCHANGED <<system, allowed, clipMonitor, poller, switch, toHost, toMac, online>>

(***************************************************************************)
(* The host's loop.                                                        *)
(***************************************************************************)
\* The top of the loop: a transfer is cancelled while the clipboard is not permitted, then the
\* permission is recomputed and sent.
HostPermission ==
    /\ online /\ CanToggle
    /\ allowed' = ~ allowed
    /\ hostClip' = IF allowed THEN hostClip ELSE [hostClip EXCEPT !.active = NoTransfer]
    /\ toMac' = Append(toMac, PermissionMessage(~ allowed))
    /\ log' = [log EXCEPT !.toggles = @ + 1, !.hostEra = @ + 1]
    /\ UNCHANGED <<system, mac, clipMonitor, poller, switch, toHost, online>>

\* Assembly::expire.
HostExpire ==
    /\ online /\ hostClip.active # NoTransfer
    /\ hostClip' = [hostClip EXCEPT !.active = NoTransfer]
    /\ UNCHANGED <<system, allowed, mac, clipMonitor, poller, switch, toHost, toMac, online, log>>

\* DEFAULT_ECHO_PERIOD after a remote write (Linux).
EchoPeriodPasses ==
    /\ hostClip.recent
    /\ hostClip' = [hostClip EXCEPT !.recent = FALSE]
    /\ UNCHANGED <<system, allowed, mac, clipMonitor, poller, switch, toHost, toMac, online, log>>

\* selection_is_sensitive / wayland_selection_is_concealed; a remote write on Windows carries
\* the exclusion formats.
Sensitive(clip) ==
    CASE system = "x11" -> FALSE
      [] system = "wayland" -> clip.secret
      [] system = "windows" -> clip.secret \/ clip.from = "remote"

\* ClipboardEchoSuppressor::observe_local of clipboard_linux.rs.
EchoOnLinux(h) == h.wrote = h.clip.val /\ h.recent
LinuxObserves(h) ==
    LET v == h.clip.val
        forget == IF h.recent THEN h.wrote ELSE Nil
    IN  [state |-> [h EXCEPT !.hash = v, !.wrote = forget],
         sends |-> ~ EchoOnLinux(h) /\ h.hash # v]

\* WindowsClipboard::poll after observe_sequence, and observe_text.
WindowsObserves(h) == [state |-> [h EXCEPT !.hash = h.clip.val], sends |-> h.hash # h.clip.val]

\* LinuxClipboard::poll, WindowsClipboard::poll, and the loop that sends what they return.  On
\* Windows the sequence number is taken before the clipboard is opened, which may fail.
HostPollText(fails) ==
    LET windows == system = "windows"
        h == [hostClip EXCEPT !.seen = IF windows THEN hostClip.clip.count ELSE @]
        readable == hostClip.clip.kind = "text" /\ ~ Sensitive(hostClip.clip) /\ ~ fails
        o == IF ~ readable THEN [state |-> h, sends |-> FALSE]
             ELSE IF windows THEN WindowsObserves(h) ELSE LinuxObserves(h)
        echo == readable /\ ~ windows /\ EchoOnLinux(h)
        lost == readable /\ ~ o.sends /\ ~ echo /\ h.clip.fresh /\ h.clip.val # log.hostTalk
        counted == [log EXCEPT !.mishaps = IF fails THEN @ + 1 ELSE @,
                               !.hostTalk = IF o.sends \/ echo THEN h.clip.val ELSE @]
    IN /\ online /\ allowed
       /\ windows => hostClip.seen # hostClip.clip.count
       /\ fails => windows /\ CanMishap
       /\ hostClip' = [o.state EXCEPT !.clip.fresh = IF readable THEN FALSE ELSE @]
       /\ toMac' = IF o.sends THEN Append(toMac, TextMessage(h.clip.val)) ELSE toMac
       /\ log' = Note(IF o.sends THEN SentLog(counted, h.clip) ELSE counted, lost, "swallowed")
       /\ UNCHANGED <<system, allowed, mac, clipMonitor, poller, switch, toHost, online>>

\* poll_image and the loop that sends every chunk of a new image.  Wayland forgets the image
\* when the selection holds none, Windows does not.
HostPollImage ==
    LET clip == hostClip.clip
        has == clip.kind = "image"
        sends == has /\ ~ hostClip.image
        id == hostClip.nextId + 1
    IN /\ online /\ allowed /\ Images /\ ~ Sensitive(clip)
       /\ has \/ system = "wayland"
       /\ hostClip' = [hostClip EXCEPT !.image = has, !.nextId = IF sends THEN id ELSE @,
                                       !.clip.fresh = IF has THEN FALSE ELSE @]
       /\ toMac' = IF sends THEN toMac \o <<Chunk(id, 0), Chunk(id, 1)>> ELSE toMac
       /\ log' = IF sends THEN SentLog(log, clip) ELSE log
       /\ UNCHANGED <<system, allowed, mac, clipMonitor, poller, switch, toHost, online>>

\* A write of the host's clipboard.  It is done and recorded, or it fails before anything
\* happened, or it fails after the text was set: a command that ran out of time, exclusion
\* formats that could not be published.
Writes == {"done", "refused"} \cup {"unrecorded"}

\* Mutant: what was written for the peer is not remembered.
ApplyTextForgets(h, v, how) ==
    IF how = "refused" THEN h
    ELSE [h EXCEPT !.clip = Entry("text", v, IF how = "done" THEN "remote" ELSE "unrecorded", @.count + 1, FALSE)]

\* apply_remote_text.
ApplyText(h, v, how) ==
    LET entry == Entry("text", v, IF how = "done" THEN "remote" ELSE "unrecorded", h.clip.count + 1, FALSE)
    IN CASE how = "refused" -> h
         [] how = "unrecorded" -> [h EXCEPT !.clip = entry]
         [] how = "done" ->
              IF system = "windows" THEN [h EXCEPT !.clip = entry, !.seen = entry.count, !.hash = v]
              ELSE [h EXCEPT !.clip = entry, !.hash = v, !.wrote = v, !.recent = TRUE]

\* apply_remote_image.
ApplyImage(h, how) ==
    LET entry == Entry("image", "img", IF how = "done" THEN "remote" ELSE "unrecorded", h.clip.count + 1, FALSE)
    IN CASE how = "refused" -> h
         [] how = "unrecorded" -> [h EXCEPT !.clip = entry]
         [] how = "done" -> [h EXCEPT !.clip = entry, !.image = TRUE]

\* ControlMessage::ClipboardSyncUpdate: the transfer in progress is cancelled in any case.
HostTakesText(m, how) ==
    LET h == [hostClip EXCEPT !.active = NoTransfer] IN
    /\ hostClip' = IF allowed THEN ApplyText(h, m.val, how) ELSE h
    /\ log' = [log EXCEPT !.mishaps = IF how = "done" THEN @ ELSE @ + 1,
                          !.hostTalk = IF allowed /\ how = "done" THEN m.val ELSE @]

\* Assembly::push; an error is logged and leaves nothing in progress.
Assemble(h, m) ==
    CASE m.index = 0 /\ m.id \notin h.used ->
           [state |-> [h EXCEPT !.active = [id |-> m.id, era |-> log.hostEra], !.used = @ \cup {m.id}], whole |-> FALSE]
      [] m.index = 1 /\ h.active # NoTransfer /\ h.active.id = m.id -> [state |-> [h EXCEPT !.active = NoTransfer], whole |-> TRUE]
      [] OTHER -> [state |-> [h EXCEPT !.active = NoTransfer], whole |-> FALSE]

\* ControlMessage::ClipboardImageChunk.
HostTakesChunk(m, how) ==
    LET o == Assemble(hostClip, m)
        take == allowed /\ o.whole
    IN /\ hostClip' = CASE ~ allowed -> [hostClip EXCEPT !.active = NoTransfer]
                        [] take -> ApplyImage(o.state, how)
                        [] OTHER -> o.state
       /\ log' = Note([log EXCEPT !.mishaps = IF how = "done" THEN @ ELSE @ + 1],
                      take /\ (hostClip.active.era # log.hostEra \/ hostClip.active.id # m.id), "torn")

HostReceives(how) ==
    /\ online /\ toHost # <<>>
    /\ how # "done" => allowed /\ CanMishap
    /\ LET m == Head(toHost) IN
       IF m.type = "text" THEN HostTakesText(m, how) ELSE HostTakesChunk(m, how)
    /\ toHost' = Tail(toHost)
    /\ UNCHANGED <<system, allowed, mac, clipMonitor, poller, switch, toMac, online>>

(***************************************************************************)
(* The client's TCP reader: handle_packet.                                 *)
(***************************************************************************)
\* GuestPermissions.
MacTakesPermissions(m) ==
    /\ mac' = IF m.clipboard THEN [mac EXCEPT !.perm = TRUE]
              ELSE [mac EXCEPT !.perm = FALSE, !.part = NoTransfer, !.image = NoImage]
    /\ UNCHANGED online

\* ClipboardSyncUpdate: text makes every image stale; RuntimeEvents keeps the latest text.
MacTakesText(m) ==
    /\ mac' = [mac EXCEPT !.part = NoTransfer, !.image = NoImage, !.slot = IF mac.on /\ mac.perm THEN m.val ELSE @]
    /\ UNCHANGED online

\* ClipboardImageChunk and ImageAssembly::push.  An error ends the connection.
MacTakesChunk(m) ==
    LET starts == mac.on /\ mac.perm /\ m.index = 0 /\ m.id > mac.latest
        ends == mac.on /\ mac.perm /\ m.index = 1 /\ mac.part # NoTransfer /\ mac.part.id = m.id
    IN /\ mac' = CASE starts -> [mac EXCEPT !.latest = m.id, !.part = [id |-> m.id, era |-> log.macEra]]
                   [] ends -> [mac EXCEPT !.part = NoTransfer, !.image = mac.part.era]
                   [] OTHER -> mac
       /\ online' = (starts \/ ends)

MacReceives ==
    /\ online /\ toMac # <<>>
    /\ LET m == Head(toMac) IN
       /\ CASE m.type = "permissions" -> MacTakesPermissions(m)
            [] m.type = "text" -> MacTakesText(m)
            [] m.type = "chunk" -> MacTakesChunk(m)
       /\ log' = Note([log EXCEPT !.macEra = IF m.type = "permissions" THEN @ + 1 ELSE @],
                      mac'.image # NoImage /\ mac.image = NoImage /\ mac'.image # log.macEra, "torn")
    /\ toMac' = Tail(toMac)
    /\ UNCHANGED <<system, hostClip, allowed, clipMonitor, poller, switch, toHost>>

\* The connection ends and the TCP runtime makes another: connect_with_psk resets what belongs
\* to a connection, the host begins with new clipboard objects and tells its permissions.
Reconnect ==
    /\ CanToggle
    /\ online' = TRUE
    /\ hostClip' = NewHostClip([hostClip.clip EXCEPT !.from = "local", !.fresh = FALSE])
    /\ mac' = [mac EXCEPT !.perm = FALSE, !.latest = 0, !.part = NoTransfer]
    /\ toHost' = <<>> /\ toMac' = <<PermissionMessage(allowed)>>
    /\ log' = [log EXCEPT !.hostTalk = Nil, !.toggles = @ + 1]
    /\ UNCHANGED <<system, allowed, clipMonitor, poller, switch>>

(***************************************************************************)
(* The monitor's thread.                                                   *)
(***************************************************************************)
\* poll_once, with ClipboardSynchronizer::poll.
MonitorPolls ==
    LET clip == mac.clip
        echo == clipMonitor.written = clip.count
        changed == ~ echo /\ clip.count # clipMonitor.last
        plain == changed /\ ~ clip.secret /\ clip.kind = "text"
        sends == plain /\ clipMonitor.hash # clip.val
        lost == clip.fresh /\ (echo \/ (plain /\ ~ sends /\ clip.val \notin {log.macTalk} \cup log.withheld))
    IN /\ clipMonitor.live /\ clipMonitor.sending = Empty(0) /\ (echo \/ changed)
       /\ clipMonitor' = [clipMonitor EXCEPT !.last = clip.count, !.written = IF echo THEN -1 ELSE @,
                                     !.hash = IF sends THEN clip.val ELSE @,
                                     !.sending = IF sends THEN clip ELSE Empty(0)]
       /\ log' = Note(log, lost, "swallowed")
       /\ UNCHANGED <<system, hostClip, allowed, mac, poller, switch, toHost, toMac, online>>

\* The callback of start_clipboard_monitor.
MonitorSends ==
    LET clip == clipMonitor.sending
        sends == mac.perm /\ online
    IN /\ clipMonitor.sending # Empty(0)
       /\ clipMonitor' = [clipMonitor EXCEPT !.sending = Empty(0)]
       /\ toHost' = IF sends THEN Append(toHost, TextMessage(clip.val)) ELSE toHost
       /\ log' = IF sends THEN Note(SentLog([log EXCEPT !.macTalk = clip.val], clip), switch.at = "idle" /\ ~ mac.on, "late")
                 ELSE [log EXCEPT !.withheld = @ \cup {clip.val}]
       /\ UNCHANGED <<system, hostClip, allowed, mac, poller, switch, toMac, online>>

(***************************************************************************)
(* set_client_clipboard.                                                   *)
(***************************************************************************)
\* ClientSession::set_clipboard_enabled.
SessionSwitch(on) == IF on THEN [mac EXCEPT !.on = TRUE] ELSE [mac EXCEPT !.on = FALSE, !.part = NoTransfer, !.image = NoImage]

SwitchBegins ==
    /\ switch.at = "idle" /\ CanToggle
    /\ mac' = SessionSwitch(~ mac.on)
    /\ switch' = [at |-> "shell", want |-> ~ mac.on]
    /\ log' = [log EXCEPT !.toggles = @ + 1, !.macEra = @ + 1]
    /\ UNCHANGED <<system, hostClip, allowed, clipMonitor, poller, toHost, toMac, online>>

SwitchShell ==
    /\ switch.at = "shell"
    /\ mac' = [mac EXCEPT !.shellOn = switch.want]
    /\ switch' = [switch EXCEPT !.at = "stop"]
    /\ UNCHANGED <<system, hostClip, allowed, clipMonitor, poller, toHost, toMac, online, log>>

\* stop_clipboard_monitor joins the monitor's thread.
SwitchStops ==
    /\ switch.at = "stop" /\ clipMonitor.sending = Empty(0)
    /\ clipMonitor' = [clipMonitor EXCEPT !.live = FALSE, !.published = FALSE]
    /\ switch' = [switch EXCEPT !.at = IF switch.want THEN "start" ELSE "idle"]
    /\ UNCHANGED <<system, hostClip, allowed, mac, poller, toHost, toMac, online, log>>

\* start_clipboard_monitor: the new monitor runs before it is stored.
SwitchStarts ==
    /\ switch.at = "start"
    /\ clipMonitor' = [live |-> TRUE, published |-> FALSE, last |-> mac.clip.count, written |-> -1, hash |-> Nil, sending |-> Empty(0)]
    /\ switch' = [switch EXCEPT !.at = "publish"]
    /\ UNCHANGED <<system, hostClip, allowed, mac, poller, toHost, toMac, online, log>>

SwitchPublishes ==
    /\ switch.at = "publish"
    /\ clipMonitor' = [clipMonitor EXCEPT !.published = TRUE]
    /\ switch' = [switch EXCEPT !.at = "idle"]
    /\ UNCHANGED <<system, hostClip, allowed, mac, poller, toHost, toMac, online, log>>

(***************************************************************************)
(* poll_frame_with_clipboard.                                              *)
(***************************************************************************)
\* ImageClipboard::exchange takes the image before it looks at anything else.
PollBegins ==
    /\ poller.at = "idle"
    /\ mac.image # NoImage \/ mac.slot # Nil \/ mac.clip.count # mac.imageSeen
    /\ poller' = [poller EXCEPT !.at = IF Images THEN "exchange" ELSE "drain", !.enabled = mac.shellOn,
                                !.image = IF Images THEN mac.image ELSE NoImage]
    /\ mac' = IF Images THEN [mac EXCEPT !.image = NoImage] ELSE mac
    /\ UNCHANGED <<system, hostClip, allowed, clipMonitor, switch, toHost, toMac, online, log>>

\* The rest of exchange up to send_clipboard_image; the poll is due or not.
PollExchanges(due) ==
    LET open == poller.enabled /\ mac.perm
        writes == open /\ poller.image # NoImage
        clip == IF writes THEN Entry("image", "img", "remote", mac.clip.count + 1, FALSE) ELSE mac.clip
        seen == IF writes \/ ~ open THEN clip.count ELSE mac.imageSeen
        polls == open /\ due
        sends == polls /\ seen # clip.count /\ ~ clip.secret /\ clip.kind = "image" /\ mac.on
    IN /\ poller.at = "exchange"
       /\ mac' = [mac EXCEPT !.clip = clip, !.imageSeen = IF polls THEN clip.count ELSE seen,
                             !.sequence = IF sends THEN @ + 1 ELSE @]
       /\ poller' = [poller EXCEPT !.at = IF sends THEN "chunk" ELSE "drain", !.image = NoImage, !.next = 0]
       /\ log' = IF sends THEN SentLog(log, clip) ELSE log
       /\ UNCHANGED <<system, hostClip, allowed, clipMonitor, switch, toHost, toMac, online>>

\* send_clipboard_image: every chunk is sent under the permission of its own moment.
PollSendsChunk ==
    LET sends == mac.on /\ mac.perm /\ online
        more == sends /\ poller.next = 0
    IN /\ poller.at = "chunk"
       /\ toHost' = IF sends THEN Append(toHost, Chunk(mac.sequence, poller.next)) ELSE toHost
       /\ poller' = [poller EXCEPT !.at = IF more THEN "chunk" ELSE "drain", !.next = IF more THEN 1 ELSE 0]
       /\ UNCHANGED <<system, hostClip, allowed, mac, clipMonitor, switch, toMac, online, log>>

PollDrains ==
    /\ poller.at = "drain"
    /\ mac' = [mac EXCEPT !.slot = Nil]
    /\ poller' = IF mac.slot # Nil /\ mac.shellOn THEN [poller EXCEPT !.at = "apply", !.text = mac.slot]
                 ELSE [poller EXCEPT !.at = "idle"]
    /\ UNCHANGED <<system, hostClip, allowed, clipMonitor, switch, toHost, toMac, online, log>>

\* record_remote_write.
RecordRemoteWrite(n, v) == [clipMonitor EXCEPT !.last = n, !.written = n, !.hash = v]

\* The monitor applies and records the text; without one, or when the write through it failed,
\* the text is written past it.
PollApplies(fails) ==
    LET mine == clipMonitor.published /\ ~ fails
        n == mac.clip.count + (IF clipMonitor.published /\ fails THEN 2 ELSE 1)
    IN /\ poller.at = "apply" /\ (fails => clipMonitor.published /\ CanMishap)
       /\ mac' = [mac EXCEPT !.clip = Entry("text", poller.text, IF mine THEN "remote" ELSE "unrecorded", n, FALSE)]
       /\ clipMonitor' = IF mine THEN RecordRemoteWrite(n, poller.text) ELSE clipMonitor
       /\ poller' = [poller EXCEPT !.at = "idle", !.text = Nil]
       /\ log' = [log EXCEPT !.mishaps = IF fails THEN @ + 1 ELSE @, !.macTalk = IF mine THEN poller.text ELSE @,
                             !.withheld = IF mine /\ clipMonitor.sending # Empty(0) THEN @ \cup {poller.text} ELSE @]
       /\ UNCHANGED <<system, hostClip, allowed, switch, toHost, toMac, online>>

ClipboardNext ==
    \/ \E v \in ClipTexts, s \in BOOLEAN : UserCopies("text", v, s)
    \/ UserCopies("image", "img", FALSE)
    \/ HostPermission \/ HostExpire \/ EchoPeriodPasses
    \/ \E fails \in BOOLEAN : HostPollText(fails)
    \/ HostPollImage
    \/ \E how \in Writes : HostReceives(how)
    \/ MacReceives \/ Reconnect
    \/ MonitorPolls \/ MonitorSends
    \/ SwitchBegins \/ SwitchShell \/ SwitchStops \/ SwitchStarts \/ SwitchPublishes
    \/ PollBegins \/ (\E due \in BOOLEAN : PollExchanges(due)) \/ PollSendsChunk \/ PollDrains
    \/ \E fails \in BOOLEAN : PollApplies(fails)

ClipboardSpec == ClipboardInit /\ [][ClipboardNext]_clipboardVars

(***************************************************************************)
(* Properties.                                                             *)
(***************************************************************************)
\* Whatever the users, the permission, the switch and the two ends' clocks do: text or an image
\* that came from the peer and was recorded by apply_remote, record_remote_write or
\* apply_remote_image is not sent back; a concealed entry is not sent (X11 cannot tell); an
\* image is written only if it was received whole while the clipboard stayed permitted and on;
\* the monitor sends nothing once set_client_clipboard(false) has returned; and a poll drops a
\* new local text only if it is what the end exchanged last or, on Linux, last took for the
\* peer's within the echo period, or was withheld before, or was applied while the monitor had
\* another text between its poll and the callback, or Windows could not open the clipboard.
ClipboardSafe == log.bad = {}
=============================================================================
