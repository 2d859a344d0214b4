----------------------------- MODULE Discovery -----------------------------
(***************************************************************************)
(* The discovery of hosts on the local network (maho-net discovery): the   *)
(* tracker of found hosts, the browser over Apple's DNS-SD (one worker     *)
(* thread whose poll loop owns a table of services, one per name and       *)
(* interface, each with its own resolve and address queries), the browser  *)
(* over mdns-sd, and the two advertisers.  mDNSResponder and the mdns-sd   *)
(* daemon are external: they call back with services and addresses that    *)
(* come, change, fail and go in any order.                                 *)
(***************************************************************************)
EXTENDS Integers, Sequences, FiniteSets

CONSTANTS Backends,    \* subset of {"apple", "mdns"}
          ServiceKeys, \* the services on the network, [name, interface]; interface 0 is "any"
          Metadata,    \* what a service says of itself; BadMetadata does not validate
          AddressKinds,\* subset of {"v4", "global6", "local6", "unusable"}
          LinkLocalInterfaces, \* the interfaces of this machine with a link-local address
          MaxServices, \* MAX_CONCURRENT_SERVICES
          MaxTracked,  \* MAX_TRACKED_HOSTS
          MaxEvents, MaxTimeouts, MaxFaults

ASSUME DiscoveryAssumption ==
    /\ Backends \subseteq {"apple", "mdns"} /\ LinkLocalInterfaces \subseteq Nat
    /\ MaxServices \in Nat \ {0} /\ MaxTracked \in Nat \ {0}
    /\ \A k \in ServiceKeys : k.interface \in Nat

BadMetadata == "bad"
NoHost == [name |-> "none"]
ServiceNames == {k.name : k \in ServiceKeys}
AdvertiserIdle == [start |-> "idle", worker |-> "none", handle |-> FALSE, context |-> FALSE, wake |-> "none", error |-> FALSE, daemon |-> "none"]

VARIABLES
    browser,   \* [backend, phase, error, callbackError, fired, dropped, announced: what browse reported]
    pending,   \* BrowseContext.pending_ops; on mdns-sd the events not received yet
    table,     \* active_services: [key -> service]
    tracker,   \* DiscoveryTracker: [name -> [host, aged, newer: the names seen since]]
    ghost,     \* [lost: evicted or aged since their last upsert, orphans: listed as a service that
               \* expired, last: last valid resolve]
    advertiser,
    budget     \* bounds: [events, timeouts, faults]

discoveryVars == <<browser, pending, table, tracker, ghost, advertiser, budget>>

(***************************************************************************)
(* Addresses and what makes a service a host.                              *)
(***************************************************************************)
\* effective_ipv6_scope: the interface of the callback unless it names no interface.
EffectiveScope(interface) == interface

\* attach_link_local_scopes: a link-local address is paired with every local candidate.
AttachScopes(kinds) ==
    {[kind |-> k, scope |-> 0] : k \in kinds \ {"local6"}}
    \cup (IF "local6" \in kinds THEN {[kind |-> "local6", scope |-> i] : i \in IF LinkLocalInterfaces = {} THEN {0} ELSE LinkLocalInterfaces} ELSE {})

\* is_usable_ipv4, is_usable_ipv6 and is_usable_ipv6_with_scope.
IsUsable(a) == a.kind # "unusable" /\ (a.kind = "local6" => a.scope > 0)

\* choose_preferred_endpoint: IPv4, then global IPv6, then link-local with the first scope.
Preference(a) == CASE a.kind = "v4" -> 0 [] a.kind = "global6" -> 1 [] OTHER -> 2 + a.scope
ChooseEndpoint(addresses) ==
    CHOOSE a \in {x \in addresses : IsUsable(x)} : \A b \in {x \in addresses : IsUsable(x)} : Preference(a) <= Preference(b)

\* validate_resolved_service and decide_service_state_action.
Publishes(s) == s.target /\ s.meta # BadMetadata /\ \E a \in s.addresses : IsUsable(a)
HostOf(name, s) == [name |-> name, meta |-> s.meta, endpoint |-> ChooseEndpoint(s.addresses)]

(***************************************************************************)
(* DiscoveryTracker.                                                       *)
(***************************************************************************)
Listed(t, name) == name \in DOMAIN t
Keep(t, names) == [n \in DOMAIN t \cap names |-> [t[n] EXCEPT !.newer = @ \cap names]]
DropKey(t, name) == Keep(t, DOMAIN t \ {name})
Retain(t) == Keep(t, {n \in DOMAIN t : ~ t[n].aged})

\* min_by_key of last_seen: the entry most others were seen after.
OldestEntry(t) == CHOOSE n \in DOMAIN t : \A m \in DOMAIN t : Cardinality(t[m].newer) <= Cardinality(t[n].newer)

Insert(t, host) ==
    [n \in DOMAIN t \cup {host.name} |->
        IF n = host.name THEN [host |-> host, aged |-> FALSE, newer |-> {}]
        ELSE [t[n] EXCEPT !.newer = @ \cup {host.name}]]
Upsert(t, host) ==
    LET live == Retain(t)
        full == ~ Listed(live, host.name) /\ Cardinality(DOMAIN live) >= MaxTracked
    IN Insert(IF full THEN DropKey(live, OldestEntry(live)) ELSE live, host)
Snapshot(t) == {t[n].host : n \in {m \in DOMAIN t : ~ t[m].aged}}

\* What the tracker forgot by itself.
Forgot(t, u, host) == {n \in ServiceNames \ {host.name} : Listed(t, n) /\ ~ Listed(u, n)}
Track(host) ==
    /\ tracker' = Upsert(tracker, host)
    /\ ghost' = [ghost EXCEPT !.lost = (@ \cup Forgot(tracker, Upsert(tracker, host), host)) \ {host.name}, !.orphans = @ \ {host.name}]
Untrack(name) ==
    /\ tracker' = DropKey(tracker, name)
    /\ ghost' = [ghost EXCEPT !.lost = @ \ {name}, !.orphans = @ \ {name}, !.last = [@ EXCEPT ![name] = NoHost]]

DiscoveryInit ==
    /\ \E b \in Backends :
         browser = [backend |-> b, phase |-> IF b = "apple" THEN "ops" ELSE "receive", announced |-> {}, error |-> "none", callbackError |-> "none", fired |-> FALSE, dropped |-> FALSE]
    /\ pending = <<>>
    /\ table = <<>>
    /\ tracker = <<>>
    /\ ghost = [lost |-> {}, orphans |-> {}, last |-> [n \in ServiceNames |-> NoHost]]
    /\ advertiser = AdvertiserIdle
    /\ budget = [events |-> 0, timeouts |-> 0, faults |-> 0]

InPhase(p) == browser.phase = p
Phase(p) == [browser EXCEPT !.phase = p]
Spend(what) == budget' = [budget EXCEPT ![what] = @ + 1]
CanSpend(what, bound) == budget[what] < bound

(***************************************************************************)
(* The worker of AppleDnsServiceBrowser: apply the browse operations,      *)
(* drop what did not resolve, open queries, publish, poll.                 *)
(***************************************************************************)
\* The hosts another interface still has under a name.
Surviving(t, name) == {HostOf(name, t[k]) : k \in {j \in DOMAIN t : j.name = name /\ Publishes(t[j])}}

\* Mutant: a retraction on one interface erases the host.
SurvivingNone(t, name) == {}

\* The hosts the name may have once the retraction on one interface is settled.
Others(t, name) == Surviving(t, name)

FreshService == [resolve |-> TRUE, addr |-> FALSE, target |-> FALSE, meta |-> BadMetadata, addresses |-> {}, dirty |-> FALSE, error |-> FALSE, old |-> FALSE]

\* One operation of pending_ops; DNSServiceResolve may fail.
ApplyBrowseOp(fails) ==
    LET op == Head(pending)
        rest == [k \in DOMAIN table \ {op.key} |-> table[k]]
    IN /\ InPhase("ops") /\ pending # <<>>
       /\ pending' = Tail(pending)
       /\ \/ /\ op.type = "removed" /\ op.key \in DOMAIN table
             /\ table' = rest
             /\ IF Others(rest, op.key.name) = {} THEN Untrack(op.key.name)
                ELSE \E h \in Others(rest, op.key.name) : Track(h)
          \/ /\ op.type = "added" /\ op.key \notin DOMAIN table /\ Cardinality(DOMAIN table) < MaxServices /\ ~ fails
             /\ table' = [k \in DOMAIN table \cup {op.key} |-> IF k = op.key THEN FreshService ELSE table[k]]
             /\ UNCHANGED <<tracker, ghost>>
          \/ /\ \/ op.type = "removed" /\ op.key \notin DOMAIN table
                \/ op.type = "added" /\ (op.key \in DOMAIN table \/ Cardinality(DOMAIN table) >= MaxServices \/ fails)
             /\ UNCHANGED <<table, tracker, ghost>>
       /\ UNCHANGED <<browser, advertiser, budget>>

\* unresolved_service_expired: dropped without a word to the tracker.
Expired(s) == ~ (s.target /\ s.addresses # {}) /\ s.old
ExpireServices ==
    LET gone == {k \in DOMAIN table : Expired(table[k])} IN
    /\ InPhase("ops") /\ pending = <<>>
    /\ table' = [k \in DOMAIN table \ gone |-> table[k]]
    /\ ghost' = [ghost EXCEPT !.orphans = @ \cup {n \in {k.name : k \in gone} : Listed(tracker, n) /\ tracker[n].host \notin Surviving(table', n)}]
    /\ browser' = Phase("publish")
    /\ UNCHANGED <<pending, tracker, advertiser, budget>>

\* The pending tracker operations of one name, whose order is the order of a hash map.
Touched(name) == {k \in DOMAIN table : k.name = name /\ (table[k].dirty \/ table[k].error)}
PublishService(name) ==
    LET all == Surviving(table, name)
        said == {HostOf(name, table[k]) : k \in {j \in Touched(name) : table[j].dirty /\ Publishes(table[j])}}
        retracts == \E k \in Touched(name) : table[k].error \/ ~ Publishes(table[k])
        next == said \cup (IF retracts THEN Others(table, name) ELSE {})
    IN /\ InPhase("publish") /\ Touched(name) # {}
       /\ table' = [k \in DOMAIN table |-> IF k \in Touched(name) THEN [table[k] EXCEPT !.dirty = FALSE, !.error = FALSE] ELSE table[k]]
       /\ IF next = {} THEN Untrack(name) ELSE \E h \in next : Track(h)
       /\ UNCHANGED <<browser, pending, advertiser, budget>>

\* The address queries of services that know their target and have none; they may fail.
OpenQueries(fails) ==
    /\ InPhase("publish") /\ \A n \in ServiceNames : Touched(n) = {}
    /\ table' = [k \in DOMAIN table |-> [table[k] EXCEPT !.addr = @ \/ (table[k].target /\ ~ fails)]]
    /\ browser' = Phase("poll")
    /\ UNCHANGED <<pending, tracker, ghost, advertiser, budget>>

\* poll: the wake socket ends the worker, a closed browse socket ends it with an error and
\* takes what it had found back.
PollEnds ==
    /\ InPhase("poll")
    /\ \/ /\ browser.dropped
          /\ browser' = Phase("exited")
          /\ UNCHANGED <<tracker, ghost, budget>>
       \/ /\ CanSpend("faults", MaxFaults) /\ Spend("faults")
          /\ \E e \in {"backend", "policy"} : browser' = [browser EXCEPT !.phase = "exited", !.error = e]
          /\ tracker' = Keep(tracker, DOMAIN tracker \ {k.name : k \in DOMAIN table})
          /\ UNCHANGED ghost
       \/ /\ CanSpend("faults", MaxFaults) /\ Spend("faults")
          /\ browser' = [browser EXCEPT !.phase = "exited", !.error = "backend"]
          /\ UNCHANGED <<tracker, ghost>>
    /\ table' = IF browser'.phase = "exited" THEN <<>> ELSE table
    /\ UNCHANGED <<pending, advertiser>>

PollReturns ==
    /\ InPhase("poll") /\ ~ browser.dropped
    /\ browser' = [Phase("browse") EXCEPT !.fired = FALSE]
    /\ UNCHANGED <<pending, table, tracker, ghost, advertiser, budget>>

\* browse_callback: mDNSResponder reports a service once and its end once.
BrowseCallback ==
    /\ InPhase("browse")
    /\ \/ /\ CanSpend("events", MaxEvents) /\ Spend("events")
          /\ \E k \in ServiceKeys :
               LET known == k \in browser.announced IN
               /\ pending' = Append(pending, [type |-> IF known THEN "removed" ELSE "added", key |-> k])
               /\ browser' = [browser EXCEPT !.fired = TRUE, !.announced = IF known THEN @ \ {k} ELSE @ \cup {k}]
       \/ /\ CanSpend("faults", MaxFaults) /\ Spend("faults")
          /\ \E e \in {"backend", "policy"} : browser' = [browser EXCEPT !.fired = TRUE, !.callbackError = e]
          /\ UNCHANGED pending
    /\ UNCHANGED <<table, tracker, ghost, advertiser>>

\* A browse round without an error clears the error of an earlier one.
BrowseDone ==
    /\ InPhase("browse")
    /\ browser' = [Phase("handles") EXCEPT !.error = IF browser.fired /\ browser.callbackError = "none" /\ @ # "policy" THEN "none" ELSE @]
    /\ UNCHANGED <<pending, table, tracker, ghost, advertiser, budget>>

\* resolve_callback.
ResolveCallback(k) ==
    /\ InPhase("handles") /\ k \in DOMAIN table /\ table[k].resolve
    /\ \/ /\ CanSpend("events", MaxEvents) /\ Spend("events")
          /\ \E m \in Metadata : table' = [table EXCEPT ![k] = [@ EXCEPT !.target = TRUE, !.meta = m, !.dirty = TRUE]]
       \/ /\ CanSpend("faults", MaxFaults) /\ Spend("faults")
          /\ table' = [table EXCEPT ![k].error = TRUE]
    /\ UNCHANGED <<browser, pending, tracker, ghost, advertiser>>

\* addr_callback: an address is added once and removed by its value.
AddressCallback(k) ==
    /\ InPhase("handles") /\ k \in DOMAIN table /\ table[k].addr
    /\ CanSpend("events", MaxEvents) /\ Spend("events")
    /\ \E kind \in AddressKinds :
         LET a == [kind |-> kind, scope |-> IF kind = "local6" THEN EffectiveScope(k.interface) ELSE 0]
             after == IF a \in table[k].addresses THEN table[k].addresses \ {a} ELSE table[k].addresses \cup {a}
         IN table' = [table EXCEPT ![k] = [@ EXCEPT !.addresses = after, !.dirty = TRUE]]
    /\ UNCHANGED <<browser, pending, tracker, ghost, advertiser>>

\* A query whose socket closed is dropped; an address query is opened again.
HandleDies(k) ==
    /\ InPhase("handles") /\ k \in DOMAIN table
    /\ CanSpend("faults", MaxFaults) /\ Spend("faults")
    /\ \/ table[k].resolve /\ table' = [table EXCEPT ![k].resolve = FALSE]
       \/ table[k].addr /\ table' = [table EXCEPT ![k].addr = FALSE]
    /\ UNCHANGED <<browser, pending, tracker, ghost, advertiser>>

HandlesDone ==
    /\ InPhase("handles")
    /\ browser' = [Phase("ops") EXCEPT !.error = IF browser.callbackError = "none" THEN @ ELSE browser.callbackError, !.callbackError = "none"]
    /\ UNCHANGED <<pending, table, tracker, ghost, advertiser, budget>>

\* UNRESOLVED_SERVICE_TTL of a service, HOST_TTL of the tracker's oldest host.
TimePasses ==
    /\ CanSpend("timeouts", MaxTimeouts) /\ Spend("timeouts") /\ ~ InPhase("exited")
    /\ \/ /\ \E k \in DOMAIN table : ~ table[k].old /\ table' = [table EXCEPT ![k].old = TRUE]
          /\ UNCHANGED <<tracker, ghost>>
       \/ \E n \in DOMAIN tracker :
            /\ ~ tracker[n].aged /\ \A m \in DOMAIN tracker : n \in tracker[m].newer => tracker[m].aged
            /\ tracker' = [tracker EXCEPT ![n].aged = TRUE]
            /\ ghost' = [ghost EXCEPT !.lost = @ \cup {n}]
            /\ UNCHANGED table
    /\ UNCHANGED <<browser, pending, advertiser>>

\* The owner drops the browser; it joins the worker.
DropBrowser ==
    /\ ~ browser.dropped
    /\ browser' = [browser EXCEPT !.dropped = TRUE]
    /\ UNCHANGED <<pending, table, tracker, ghost, advertiser, budget>>

(***************************************************************************)
(* The worker of MdnsSdBrowser.                                            *)
(***************************************************************************)
\* parse_service_metadata_scoped of the addresses a resolved service came with.
MdnsHost(m, kinds) == [target |-> TRUE, meta |-> m, addresses |-> AttachScopes(kinds)]
MdnsResolved ==
    /\ InPhase("receive") /\ CanSpend("events", MaxEvents) /\ Spend("events")
    /\ \E n \in ServiceNames, m \in Metadata, kinds \in SUBSET AddressKinds :
         LET s == MdnsHost(m, kinds)
             h == HostOf(n, s)
         IN IF Publishes(s)
            THEN /\ tracker' = Upsert(tracker, h)
                 /\ ghost' = [ghost EXCEPT !.lost = (@ \cup Forgot(tracker, Upsert(tracker, h), h)) \ {n}, !.last[n] = h]
            ELSE UNCHANGED <<tracker, ghost>>
    /\ UNCHANGED <<browser, pending, table, advertiser>>
MdnsRemoved ==
    /\ InPhase("receive") /\ CanSpend("events", MaxEvents) /\ Spend("events")
    /\ \E n \in ServiceNames : Untrack(n)
    /\ UNCHANGED <<browser, pending, table, advertiser>>

\* An error of the daemon is recorded; a closed channel ends the worker and clears the tracker.
MdnsError ==
    /\ InPhase("receive") /\ CanSpend("faults", MaxFaults) /\ Spend("faults")
    /\ \/ browser' = [browser EXCEPT !.error = "backend"] /\ UNCHANGED <<tracker, ghost>>
       \/ /\ ~ browser.dropped
          /\ browser' = [browser EXCEPT !.phase = "exited", !.error = "backend"]
          /\ tracker' = <<>>
          /\ ghost' = [ghost EXCEPT !.last = [n \in ServiceNames |-> NoHost]]
    /\ UNCHANGED <<pending, table, advertiser>>
MdnsStops ==
    /\ InPhase("receive") /\ browser.dropped
    /\ browser' = Phase("exited")
    /\ UNCHANGED <<pending, table, tracker, ghost, advertiser, budget>>

(***************************************************************************)
(* The advertisers.  A host advertises and a client browses: the two are   *)
(* not interleaved.                                                        *)
(***************************************************************************)
Untouched == advertiser.start = "idle" /\ budget = [events |-> 0, timeouts |-> 0, faults |-> 0] /\ ~ browser.dropped
             /\ browser.phase \in {"ops", "receive"}
\* AppleDnsServiceAdvertiser::start up to the worker; a name that is too long or an address of
\* no interface ends it.
StartAdvertiser ==
    /\ browser.backend = "apple" /\ Untouched
    /\ \/ advertiser' = [advertiser EXCEPT !.start = "failed"]
       \/ advertiser' = [advertiser EXCEPT !.start = "waiting", !.worker = "registering", !.wake = "open"]
    /\ UNCHANGED <<browser, pending, table, tracker, ghost, budget>>

\* DNSServiceRegister on the worker and the answer to start.
RegisterService(fails) ==
    /\ advertiser.worker = "registering"
    /\ advertiser' =
         IF fails THEN [advertiser EXCEPT !.worker = "ended", !.start = IF @ = "waiting" THEN "failed" ELSE @, !.wake = IF advertiser.start = "waiting" THEN "closed" ELSE @]
         ELSE [advertiser EXCEPT !.worker = "polling", !.handle = TRUE, !.context = TRUE, !.start = IF @ = "waiting" THEN "started" ELSE @]
    /\ UNCHANGED <<browser, pending, table, tracker, ghost, budget>>

\* start gives up after half a second: its end of the wake socket closes.
StartTimesOut ==
    /\ advertiser.start = "waiting"
    /\ advertiser' = [advertiser EXCEPT !.start = "failed", !.wake = "closed"]
    /\ UNCHANGED <<browser, pending, table, tracker, ghost, budget>>

\* The registration's socket closes: the handle goes, check_error tells.
RegistrationDies ==
    /\ advertiser.worker = "polling" /\ advertiser.handle
    /\ advertiser' = [advertiser EXCEPT !.handle = FALSE, !.error = TRUE]
    /\ UNCHANGED <<browser, pending, table, tracker, ghost, budget>>

DropAdvertiser ==
    /\ advertiser.start = "started"
    /\ advertiser' = [advertiser EXCEPT !.start = "dropping", !.wake = "signalled"]
    /\ UNCHANGED <<browser, pending, table, tracker, ghost, budget>>

\* The worker sees the wake socket, frees the registration and then its context; Drop joins it.
AdvertiserEnds ==
    /\ advertiser.worker = "polling" /\ advertiser.wake \in {"signalled", "closed"}
    /\ advertiser' = [advertiser EXCEPT !.worker = "ended", !.handle = FALSE, !.context = FALSE]
    /\ UNCHANGED <<browser, pending, table, tracker, ghost, budget>>
AdvertiserJoined ==
    /\ advertiser.start = "dropping" /\ advertiser.worker = "ended"
    /\ advertiser' = [advertiser EXCEPT !.start = "dropped"]
    /\ UNCHANGED <<browser, pending, table, tracker, ghost, budget>>

\* MdnsSdAdvertiser::start: no interface or a refused registration shuts the daemon down, any
\* other failure leaves it to itself.
StartMdnsAdvertiser ==
    /\ browser.backend = "mdns" /\ Untouched
    /\ \/ advertiser' = [advertiser EXCEPT !.start = "started", !.daemon = "running"]
       \/ advertiser' = [advertiser EXCEPT !.start = "failed", !.daemon = "none"]
       \/ advertiser' = [advertiser EXCEPT !.start = "failed", !.daemon = "shut down"]
       \/ advertiser' = [advertiser EXCEPT !.start = "failed", !.daemon = "abandoned"]
    /\ UNCHANGED <<browser, pending, table, tracker, ghost, budget>>
DropMdnsAdvertiser ==
    /\ advertiser.start = "started" /\ advertiser.daemon = "running"
    /\ advertiser' = [advertiser EXCEPT !.start = "dropped", !.daemon = "shut down"]
    /\ UNCHANGED <<browser, pending, table, tracker, ghost, budget>>

AdvertiserNext ==
    \/ StartAdvertiser \/ StartTimesOut \/ RegistrationDies \/ AdvertiserEnds \/ AdvertiserJoined
    \/ (advertiser.daemon = "none" /\ DropAdvertiser)
    \/ \E b \in BOOLEAN : RegisterService(b)
    \/ StartMdnsAdvertiser \/ DropMdnsAdvertiser

BrowserNext ==
    \/ ExpireServices \/ PollEnds \/ PollReturns \/ BrowseCallback \/ BrowseDone \/ HandlesDone
    \/ TimePasses \/ DropBrowser
    \/ MdnsResolved \/ MdnsRemoved \/ MdnsError \/ MdnsStops
    \/ \E b \in BOOLEAN : ApplyBrowseOp(b) \/ OpenQueries(b)
    \/ \E n \in ServiceNames : PublishService(n)
    \/ \E k \in ServiceKeys : ResolveCallback(k) \/ AddressCallback(k) \/ HandleDies(k)

DiscoveryNext == AdvertiserNext \/ (advertiser = AdvertiserIdle /\ BrowserNext)

DiscoverySpec == DiscoveryInit /\ [][DiscoveryNext]_discoveryVars

(***************************************************************************)
(* Properties.                                                             *)
(***************************************************************************)
ShownHosts == Snapshot(tracker)

\* While the Apple worker waits, the list is what its services say: every host is the current
\* state of one of its interfaces, and every name some interface publishes is there, but for
\* what the bounded tracker forgot and for names that expired while listed.
AppleListIsCurrent ==
    (browser.backend = "apple" /\ InPhase("poll")) =>
        /\ \A h \in ShownHosts : h \in Surviving(table, h.name) \/ h.name \in ghost.orphans
        /\ \A n \in ServiceNames : Surviving(table, n) # {} => (\E h \in ShownHosts : h.name = n) \/ n \in ghost.lost

\* The list of the mdns-sd browser has the last valid state of every service not removed since.
MdnsListIsCurrent ==
    browser.backend = "mdns" =>
        \A n \in ServiceNames :
            /\ \A h \in ShownHosts : h.name = n => h = ghost.last[n]
            /\ ghost.last[n] # NoHost => ghost.last[n] \in ShownHosts \/ n \in ghost.lost

\* Every host on the list was resolved to an address a client can connect to.
ListedAreUsable == \A h \in ShownHosts : h.meta # BadMetadata /\ IsUsable(h.endpoint)

\* A browser that stopped says so: without being dropped it never ends without an error.
StoppedIsAnError == (InPhase("exited") /\ ~ browser.dropped) => browser.error # "none"

\* Nobody calls back into freed memory, a failed start keeps no registration alive, and a
\* dropped advertiser is gone.
AdvertiserIsFreed ==
    /\ advertiser.handle => advertiser.context
    /\ (advertiser.start = "failed" /\ advertiser.worker # "none") => advertiser.wake = "closed"
    /\ (advertiser.start = "dropped" /\ browser.backend = "apple") => advertiser.worker = "ended" /\ ~ advertiser.context

\* Discovery shows what the network said last, within its bounds, whatever the order in which
\* services appear on interfaces, resolve, change, fail and go.
DiscoverySafe ==
    /\ AppleListIsCurrent /\ MdnsListIsCurrent /\ ListedAreUsable
    /\ StoppedIsAnError /\ AdvertiserIsFreed
    /\ Cardinality(DOMAIN table) <= MaxServices /\ Cardinality(DOMAIN tracker) <= MaxTracked
=============================================================================
