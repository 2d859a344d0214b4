---------------------------- MODULE InputInjection ----------------------------
(***************************************************************************)
(* What one host session does to the keyboard, the pointer and the         *)
(* gamepads of the desktop: the input arm of handle_connection             *)
(* (maho-host/src/session.rs), the permissions that gate it, and the three *)
(* injectors behind it: uinput (inject_linux.rs, gamepad_linux.rs),        *)
(* SendInput (inject_windows.rs, gamepad_windows.rs) and CoreGraphics      *)
(* (inject_macos.rs).                                                      *)
(*                                                                         *)
(* A handler is written as the set of its outcomes, records [dev, ok]: the *)
(* injector and the desktop it leaves behind, and whether it returned Ok.  *)
(* The desktop is external: it holds what was pressed until a release of   *)
(* the same key arrives, or its device is destroyed.  Positions, scrolling *)
(* and motion hold nothing and are one event; the four modifiers that have *)
(* a left and a right key are one, SHIFT.                                  *)
(***************************************************************************)
EXTENDS Integers, Sequences, FiniteSets, SequencesExt

CONSTANTS
    Systems,     \* the platforms checked: a subset of {"linux", "windows", "macos"}
    Modifier,    \* modifier bits of the wire: a subset of {"SHIFT", "CAPS"}
    WireKeys,    \* key codes of the wire: members of Keys, and "unmapped"
    Pads,        \* gamepad numbers below 4, the ones an injector creates
    ExcessPads,  \* gamepad numbers from 4 on
    BatchMax,    \* UNICODE_BATCH_MAX_CHARS
    Burst,       \* BURST_CAPACITY of the macOS rate limit
    MaxFailures  \* calls into the operating system that fail

Keys == {"key0", "shift", "rshift", "caps"}

ASSUME InjectionAssumption ==
    /\ Systems \subseteq {"linux", "windows", "macos"}
    /\ Modifier \subseteq {"SHIFT", "CAPS"}
    /\ WireKeys \subseteq Keys \cup {"unmapped"}
    /\ (Pads \cup ExcessPads) \cap (Keys \cup {"left", "packet", "unmapped"}) = {} /\ Pads \cap ExcessPads = {}
    /\ {BatchMax, Burst} \subseteq Nat \ {0} /\ MaxFailures \in Nat

VARIABLES
    os,        \* the platform
    dev,       \* the injector and the desktop under it
    perm,      \* effective_permissions: a subset of {"keyboard", "mouse", "gamepad"}
    injected,  \* injected_input
    phase,     \* "up", or "ended" once the injector is dropped
    wanted     \* what the peer holds: pressed, and neither released nor taken away (history)

injectionVars == <<os, dev, perm, injected, phase, wanted>>

Permissions == {"keyboard", "mouse", "gamepad"}

\* A new injector over a desktop that holds `held'.
NewInjector(held) ==
    [held |-> held,      \* what the desktop holds: keys, "left", pads
     keys |-> {},        \* held_keys, active_keys
     buttons |-> {},     \* active_buttons, active_mouse_buttons (Windows, macOS)
     mods |-> {},        \* modifiers (Linux, Windows)
     pads |-> {},        \* the gamepads created
     report |-> {},      \* their Reports (Windows)
     batch |-> 0,        \* characters in UnicodeBatch (Linux)
     high |-> FALSE,     \* pending_surrogate
     tokens |-> Burst,   \* RateLimit::tokens (macOS)
     source |-> FALSE,   \* event_source exists (macOS)
     trusted |-> TRUE,   \* AXIsProcessTrusted (macOS)
     disorder |-> FALSE, \* something landed on the desktop before older text (history)
     stuck |-> FALSE,    \* a release did not arrive (history)
     lost |-> FALSE,     \* and the injector no longer tracks what it was to release (history)
     faults |-> 0]       \* failures so far

InjectionInit ==
    /\ os \in Systems
    /\ dev = NewInjector({})
    /\ perm = Permissions \ (IF os = "macos" THEN {"gamepad"} ELSE {})
    /\ injected = FALSE /\ phase = "up" /\ wanted = {}

(***************************************************************************)
(* Outcomes.                                                               *)
(***************************************************************************)
Ok(s) == [dev |-> s, ok |-> TRUE]
Err(s) == [dev |-> s, ok |-> FALSE]
CanFail(s) == s.faults < MaxFailures
Failed(s) == [s EXCEPT !.faults = @ + 1]
When(possible, outcomes) == IF possible THEN outcomes ELSE {}

Press(k) == <<k, TRUE>>
Release(k) == <<k, FALSE>>
\* What the batch presses, and what it releases and does not press again.
PressedIn(batch) == {batch[i][1] : i \in {j \in DOMAIN batch : batch[j][2]}}
ReleasedIn(batch) ==
    {batch[i][1] : i \in {j \in DOMAIN batch :
        ~ batch[j][2] /\ \A n \in DOMAIN batch : n > j => batch[n][1] # batch[j][1]}}
Applied(held, batch) == (held \cup PressedIn(batch)) \ ReleasedIn(batch)

\* The batch reaches the desktop.  It lands before the text still queued, if there is any.
Landed(s, batch) ==
    [s EXCEPT !.held = Applied(@, batch), !.disorder = @ \/ (batch # <<>> /\ s.batch > 0)]

\* A release among what did not arrive leaves the desktop holding it.
Missed(s, batch) ==
    LET up == \E i \in DOMAIN batch : ~ batch[i][2]
    IN  [Failed(s) EXCEPT !.stuck = @ \/ up, !.lost = @ \/ up]

\* The handler still knows what it failed to release.
Kept(outcomes, s) == {[o EXCEPT !.dev.lost = s.lost] : o \in outcomes}

\* VirtualDevice::emit writes the whole report or nothing.
Emit(s, batch) == {Ok(Landed(s, batch))} \cup When(batch # <<>> /\ CanFail(s), {Err(Missed(s, batch))})

\* SendInput inserts a prefix; so do several emits in a row, the first failure ending them.
EmitPrefix(s, batch) ==
    {Ok(Landed(s, batch))} \cup
    {Err(Missed(Landed(s, SubSeq(batch, 1, n)), SubSeq(batch, n + 1, Len(batch)))) :
        n \in {m \in 0 .. Len(batch) - 1 : CanFail(s)}}

\* `then' applied to the injector of every outcome.
Then(outcomes, f(_)) == UNION {f(o) : o \in outcomes}

ModKey(m) == IF m = "SHIFT" THEN "shift" ELSE "caps"
IsModKey(k) == k \in {"shift", "rshift", "caps"}

\* modifier_events, modifier_inputs: one transition per modifier that differs.
ModEvents(before, after, synced) ==
    LET change == SetToSeq({m \in synced : (m \in before) # (m \in after)})
    IN  [i \in DOMAIN change |-> <<ModKey(change[i]), change[i] \in after>>]

\* The key tables macos_keycode_to_evdev and KEY_MAP, the 0x100 limit of macOS, and the
\* characters ascii_to_evdev has a key for, with or without Shift.
EvdevMaps(code) == code # "unmapped"
WindowsMaps(code) == code # "unmapped"
MacMaps(code) == code # "unmapped"
AsciiMaps(unit) == unit \in {"ascii", "upper"}

(***************************************************************************)
(* Linux: uinput.                                                          *)
(***************************************************************************)
\* type_unicode: wtype inserts the batch, or fails and the text is dropped.
TypeUnicode(s) == [s EXCEPT !.batch = 0]
FlushPendingText(s) == IF s.batch > 0 THEN TypeUnicode(s) ELSE s

LinuxPointer(s, down) == Kept(Emit(s, <<<<"left", down>>>>), s)

LinuxKey(s, key, down, mods) ==
    IF ~ EvdevMaps(key) THEN {Ok(s)}
    ELSE LET sync == IF IsModKey(key) THEN <<>> ELSE ModEvents(s.mods, mods, Modifier)
             s1 == IF IsModKey(key) THEN s ELSE [s EXCEPT !.mods = mods]
         IN  {IF o.ok THEN Ok([o.dev EXCEPT !.keys = IF down THEN @ \cup {key} ELSE @ \ {key}])
                      ELSE o : o \in Kept(Emit(s1, Append(sync, <<key, down>>)), s)}

LinuxFlags(s, mods) == Kept(Emit([s EXCEPT !.mods = mods], ModEvents(s.mods, mods, Modifier)), s)

\* UnicodeChar: a unit of a surrogate pair, an ASCII character by its key with its own reports,
\* any other character into the batch, which is typed when it is full.
LinuxChar(s, unit) ==
    CASE unit = "high" -> {Ok([s EXCEPT !.high = TRUE])}
      [] unit = "low" /\ ~ s.high -> {Err(s)}
      [] AsciiMaps(unit) ->
            LET s1 == FlushPendingText([s EXCEPT !.high = FALSE])
                tap == <<Press("key0"), Release("key0")>>
            IN  EmitPrefix(s1, IF unit = "upper" THEN <<Press("shift")>> \o tap \o <<Release("shift")>> ELSE tap)
      [] OTHER -> LET s1 == [s EXCEPT !.high = FALSE, !.batch = @ + 1]
                  IN  {Ok(IF s1.batch >= BatchMax THEN TypeUnicode(s1) ELSE s1)}

\* Gamepads::inject: the device on first use, then the report.
LinuxPad(s, pad, down) ==
    IF pad \in ExcessPads THEN {Err(s)}
    ELSE Kept(Emit([s EXCEPT !.pads = @ \cup {pad}], <<<<pad, down>>>>), s)
         \cup When(pad \notin s.pads /\ CanFail(s), {Err(Failed(s))})

\* Reset: the gamepads are destroyed, buttons, held keys and all modifier keys released; that
\* an emit failed is ignored.
LinuxReset(s) ==
    LET ups == SetToSeq({Release(k) : k \in s.keys \cup {"shift", "rshift", "caps"}})
        s1 == [s EXCEPT !.held = @ \ s.pads, !.pads = {}, !.keys = {}, !.mods = {}, !.high = FALSE]
    IN  {Ok(o.dev) : o \in Then(Emit(s1, <<Release("left")>>), LAMBDA o : Emit(o.dev, ups))}

LinuxInject(s, e) ==
    LET s1 == IF e.type = "Char" THEN s ELSE FlushPendingText(s)
    IN  CASE e.type = "NotFinite" -> {Ok(s)}
          [] e.type = "Move" -> {Ok(s1)} \cup When(CanFail(s1), {Err(Failed(s1))})
          [] e.type = "Button" -> LinuxPointer(s1, e.down)
          [] e.type = "Key" -> LinuxKey(s1, e.key, e.down, e.mods)
          [] e.type = "Flags" -> LinuxFlags(s1, e.mods)
          [] e.type = "Char" -> LinuxChar(s1, e.unit)
          [] e.type = "Pad" -> LinuxPad(s1, e.pad, e.down)
          [] e.type = "Reset" -> LinuxReset(s1)

\* Drop: a Reset, and the kernel releases whatever a destroyed device still holds.
LinuxDrop(s) == {[o.dev EXCEPT !.held = {}] : o \in LinuxReset(FlushPendingText(s))}

(***************************************************************************)
(* Windows: SendInput.                                                     *)
(***************************************************************************)
WindowsButton(s, down) ==
    EmitPrefix([s EXCEPT !.buttons = IF down THEN @ \cup {"left"} ELSE @ \ {"left"}], <<<<"left", down>>>>)

WindowsKey(s, key, down, mods) ==
    IF ~ WindowsMaps(key) THEN {Ok(s)}
    ELSE LET sync == IF IsModKey(key) THEN <<>> ELSE ModEvents(s.mods, mods, {"SHIFT"})
             s1 == IF IsModKey(key) THEN s ELSE [s EXCEPT !.mods = mods]
         IN  EmitPrefix([s1 EXCEPT !.keys = IF down THEN @ \cup {key} ELSE @ \ {key}], Append(sync, <<key, down>>))

WindowsFlags(s, mods) == EmitPrefix([s EXCEPT !.mods = mods], ModEvents(s.mods, mods, {"SHIFT"}))

WindowsChar(s) == EmitPrefix(s, <<Press("packet"), Release("packet")>>)

\* Gamepads::inject: the report is changed before it is submitted, and all of it is submitted.
WindowsPad(s, pad, down) ==
    IF pad \in ExcessPads THEN {Err(s)}
    ELSE LET report == IF down THEN s.report \cup {pad} ELSE s.report \ {pad}
             s1 == [s EXCEPT !.pads = @ \cup {pad}, !.report = report]
         IN  {Ok([s1 EXCEPT !.held = (@ \ {pad}) \cup (report \cap {pad})])}
             \cup Kept(When(CanFail(s), {Err(Missed(s1, <<<<pad, down>>>>))}), s)
             \cup When(pad \notin s.pads /\ CanFail(s), {Err(Failed(s))})

DropPads(s) == [s EXCEPT !.held = @ \ s.pads, !.pads = {}, !.report = {}]

WindowsReset(s) ==
    EmitPrefix([DropPads(s) EXCEPT !.keys = {}, !.buttons = {}, !.mods = {}],
               <<Release("left")>> \o SetToSeq({Release(k) : k \in s.keys \cup {"shift"}}))

WindowsInject(s, e) ==
    CASE e.type = "NotFinite" -> {Ok(s)}
      [] e.type = "Move" -> {Ok(s)} \cup When(CanFail(s), {Err(Failed(s))})
      [] e.type = "Button" -> WindowsButton(s, e.down)
      [] e.type = "Key" -> WindowsKey(s, e.key, e.down, e.mods)
      [] e.type = "Flags" -> WindowsFlags(s, e.mods)
      [] e.type = "Char" -> WindowsChar(s)
      [] e.type = "Pad" -> WindowsPad(s, e.pad, e.down)
      [] e.type = "Reset" -> WindowsReset(s)

WindowsDrop(s) ==
    {DropPads(o.dev) : o \in EmitPrefix([s EXCEPT !.keys = {}, !.buttons = {}],
        ModEvents(s.mods, {}, {"SHIFT"}) \o SetToSeq({Release(k) : k \in s.keys \cup s.buttons}))}

(***************************************************************************)
(* macOS: CoreGraphics.                                                    *)
(***************************************************************************)
\* shared_source: the first event creates it; once created it is kept.
\* An event is created and posted, or creation fails and ends the call.
Post(s, batch) == {[o EXCEPT !.dev.source = @ \/ o.ok] : o \in EmitPrefix(s, batch)}

MacButton(s, down) ==
    Post([s EXCEPT !.buttons = IF down THEN @ \cup {"left"} ELSE @ \ {"left"}], <<<<"left", down>>>>)

MacKey(s, key, down) ==
    IF ~ MacMaps(key) THEN {Ok(s)}
    ELSE Post([s EXCEPT !.keys = IF down THEN @ \cup {key} ELSE @ \ {key}], <<<<key, down>>>>)

\* FlagsChanged posts a key-down of the modifier key that nothing tracks.
MacFlags(s, key) ==
    IF ~ MacMaps(key) THEN {Ok(s)}
    ELSE {IF o.ok THEN Ok([o.dev EXCEPT !.stuck = TRUE, !.lost = TRUE]) ELSE o : o \in Post(s, <<Press(key)>>)}

\* UnicodeChar: a key-down on virtual key 0, then its release.
MacChar(s, unit) ==
    IF unit = "high" THEN {Ok([s EXCEPT !.high = TRUE])}
    ELSE Post([s EXCEPT !.high = FALSE], <<Press("key0"), Release("key0")>>)

\* Reset: a release for every tracked button and key, a failed creation skipped; without an event
\* source the first one aborts it, and everything stays tracked.
MacReset(s) ==
    LET tracked == s.keys \cup s.buttons
        s1 == [s EXCEPT !.high = FALSE]
        done(R) == [Landed(s1, SetToSeq({Release(k) : k \in R})) EXCEPT !.keys = {}, !.buttons = {},
                       !.source = @ \/ tracked # {}]
    IN  {Ok(done(tracked))}
        \cup {Ok([Failed(done(R)) EXCEPT !.stuck = TRUE, !.lost = TRUE]) : R \in {Q \in SUBSET tracked : Q # tracked /\ CanFail(s)}}
        \cup When(tracked # {} /\ ~ s.source /\ CanFail(s), {Err([Failed(s1) EXCEPT !.stuck = TRUE])})

ReleasesHold(e) == e.type = "Reset" \/ (e.type \in {"Key", "Button"} /\ ~ e.down)

Throttled(s, e) == ~ ReleasesHold(e) /\ s.tokens = 0

MacCreate(s, e) ==
    CASE e.type = "NotFinite" -> {Err(s)}
      [] e.type = "Move" -> Post(s, <<>>) \cup When(CanFail(s), {Err(Failed(s))})
      [] e.type = "Button" -> MacButton(s, e.down)
      [] e.type = "Key" -> MacKey(s, e.key, e.down)
      [] e.type = "Flags" -> MacFlags(s, e.key)
      [] e.type = "Char" -> MacChar(s, e.unit)
      [] e.type = "Pad" -> {Ok(s)}
      [] e.type = "Reset" -> MacReset(s)

MacInject(s, e) ==
    IF ~ s.trusted THEN {Err([s EXCEPT !.stuck = @ \/ ReleasesHold(e)])}
    ELSE IF Throttled(s, e) THEN {Err(s)}
    ELSE MacCreate(IF ReleasesHold(e) THEN s ELSE [s EXCEPT !.tokens = @ - 1], e)

MacDrop(s) ==
    IF s.keys \cup s.buttons = {} THEN {s}
    ELSE IF ~ s.trusted THEN {[s EXCEPT !.stuck = TRUE]}
    ELSE {o.dev : o \in MacReset(s)}

(***************************************************************************)
(* The session.                                                            *)
(***************************************************************************)
Event ==
    {[type |-> t] : t \in {"NotFinite", "Move", "Reset"}}
    \cup {[type |-> "Button", down |-> b] : b \in BOOLEAN}
    \cup {[type |-> "Key", key |-> k, down |-> b, mods |-> m] : k \in WireKeys, b \in BOOLEAN, m \in SUBSET Modifier}
    \cup {[type |-> "Flags", key |-> k, mods |-> m] : k \in WireKeys \ {"key0"}, m \in SUBSET Modifier}
    \cup {[type |-> "Char", unit |-> u] : u \in {"ascii", "upper", "wide", "high", "low"}}
    \cup {[type |-> "Pad", pad |-> p, down |-> b] : p \in Pads \cup ExcessPads, b \in BOOLEAN}

\* guests::allows.  A peer without the GAMEPAD capability is a peer without the permission.
Allows(e) ==
    CASE e.type \in {"Key", "Flags", "Char"} -> "keyboard" \in perm
      [] e.type = "Pad" -> "gamepad" \in perm
      [] e.type = "Reset" -> TRUE
      [] OTHER -> "mouse" \in perm

Inject(s, e) ==
    CASE os = "linux" -> LinuxInject(s, e)
      [] os = "windows" -> WindowsInject(s, e)
      [] os = "macos" -> MacInject(s, e)

DropInjector(s) ==
    CASE os = "linux" -> LinuxDrop(s)
      [] os = "windows" -> WindowsDrop(s)
      [] os = "macos" -> MacDrop(s)

ResetEvent == [type |-> "Reset"]

\* What the peer holds after it sent e and e was handled.
Wants(e) ==
    CASE e.type = "Button" -> IF e.down THEN wanted \cup {"left"} ELSE wanted \ {"left"}
      [] e.type = "Key" -> IF e.down THEN wanted \cup {e.key} ELSE wanted \ {e.key}
      [] e.type = "Pad" -> IF e.down THEN wanted \cup {e.pad} ELSE wanted \ {e.pad}
      [] e.type = "Reset" -> {}
      [] OTHER -> wanted

\* PacketType::InputEvent.  Without the keyboard permission an event carries no modifiers.
ReceiveInput(e) ==
    /\ phase = "up" /\ Allows(e)
    /\ LET gated == IF "keyboard" \notin perm /\ e.type \in {"Key", "Flags"} THEN [e EXCEPT !.mods = {}] ELSE e
       IN  \E o \in Inject(dev, gated) :
             /\ dev' = o.dev
             /\ injected' = (injected \/ o.ok)
    /\ wanted' = Wants(e)
    /\ UNCHANGED <<os, perm, phase>>

\* Mutant: a revoked permission does not release what was pressed under it.
RevokeWithoutReset(now) == {Ok(dev)}

\* What a change of the effective permissions does to the injector.
Revoke(now) == IF perm \ now # {} THEN Inject(dev, ResetEvent) ELSE {Ok(dev)}

\* The permissions are recomputed from the grant and the policy at the top of the loop.
PermissionsChange(now) ==
    /\ phase = "up" /\ now # perm /\ (os = "macos" => "gamepad" \notin now)
    /\ \E o \in Revoke(now) : dev' = o.dev
    /\ perm' = now
    /\ wanted' = IF perm \ now # {} THEN {} ELSE wanted
    /\ UNCHANGED <<os, injected, phase>>

\* flush_idle_text at the top of the loop.
FlushIdleText ==
    /\ phase = "up" /\ dev.batch > 0
    /\ dev' = TypeUnicode(dev)
    /\ UNCHANGED <<os, perm, injected, phase, wanted>>

\* update_geometry with another desktop size builds new devices and then drops the old ones;
\* macOS replaces its injector for another display.
OutputChanges ==
    /\ phase = "up" /\ os # "windows"
    /\ \E s \in DropInjector(dev) :
         dev' = [NewInjector(s.held) EXCEPT !.faults = s.faults, !.trusted = s.trusted,
                  !.disorder = s.disorder, !.stuck = s.stuck, !.lost = s.lost \/ s.held # {}]
    /\ wanted' = {}
    /\ UNCHANGED <<os, perm, injected, phase>>

\* The session ends, for whatever reason (a failed update_geometry is one): a Reset if anything
\* was injected, and the injector is dropped.
SessionEnds ==
    /\ phase = "up" /\ phase' = "ended"
    /\ \E o \in (IF injected THEN Inject(dev, ResetEvent) ELSE {Ok(dev)}) : \E s \in DropInjector(o.dev) : dev' = s
    /\ wanted' = {}
    /\ UNCHANGED <<os, perm, injected>>

\* The rate limit refills (macOS).
Refill ==
    /\ phase = "up" /\ os = "macos" /\ dev.tokens < Burst
    /\ dev' = [dev EXCEPT !.tokens = @ + 1]
    /\ UNCHANGED <<os, perm, injected, phase, wanted>>

\* The owner of the Mac grants or withdraws Accessibility access.
AccessibilityChanges ==
    /\ phase = "up" /\ os = "macos" /\ (dev.trusted => CanFail(dev))
    /\ dev' = [dev EXCEPT !.trusted = ~ @, !.faults = IF dev.trusted THEN @ + 1 ELSE @]
    /\ UNCHANGED <<os, perm, injected, phase, wanted>>

InjectionNext ==
    \/ \E e \in Event : ReceiveInput(e)
    \/ \E now \in SUBSET Permissions : PermissionsChange(now)
    \/ FlushIdleText \/ OutputChanges \/ SessionEnds \/ Refill \/ AccessibilityChanges

InjectionSpec == InjectionInit /\ [][InjectionNext]_injectionVars

(***************************************************************************)
(* Properties.                                                             *)
(***************************************************************************)
InjectionTypeOK ==
    /\ dev.held \subseteq Keys \cup {"left", "packet"} \cup Pads
    /\ dev.keys \subseteq Keys /\ dev.buttons \subseteq {"left"} /\ dev.mods \subseteq Modifier
    /\ dev.batch \in 0 .. BatchMax - 1 /\ dev.tokens \in 0 .. Burst /\ dev.faults \in 0 .. MaxFailures
    /\ perm \subseteq Permissions /\ wanted \subseteq Keys \cup {"left", "unmapped"} \cup Pads \cup ExcessPads

Synthesized == {"shift", "caps"}

\* What a Reset releases: what is tracked, and what the platform releases in any case.
Releasable ==
    dev.keys \cup dev.pads \cup
    (CASE os = "linux" -> {"left", "shift", "rshift", "caps"}
       [] os = "windows" -> {"left", "shift"}
       [] os = "macos" -> dev.buttons)

\* Whatever the desktop holds, the next Reset releases, unless the operating system refused a
\* release that the injector then forgot: on Linux a key, a button, a modifier or a gamepad
\* whose release failed is not forgotten.  As long as every release arrived, the desktop
\* holds, modifiers synthesized from an event aside, only what the peer still holds; a session
\* that may not use the keyboard, the mouse or the gamepads holds nothing on them, and one
\* that ended holds nothing at all.  Text typed on Linux lands before what was sent after it.
InjectionSafe ==
    /\ InjectionTypeOK
    /\ ~ dev.lost => dev.held \subseteq Releasable
    /\ ~ dev.stuck => /\ dev.held \ Synthesized \subseteq wanted
                      /\ "keyboard" \notin perm => dev.held \cap Keys = {}
                      /\ "mouse" \notin perm => "left" \notin dev.held
                      /\ "gamepad" \notin perm => dev.held \cap Pads = {}
                      /\ phase = "ended" => dev.held = {}
    /\ ~ dev.disorder
=============================================================================
