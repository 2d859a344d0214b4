----------------------------- MODULE PairingStore -----------------------------
(***************************************************************************)
(* The client's PairingStore (maho-app/src/pairing.rs), used at once by    *)
(* the GUI and by the headless client.  On Unix every update runs under    *)
(* the flock of StoreFileLock; elsewhere the lock file is opened but not   *)
(* locked; on iOS each record is a Keychain item and nothing is locked.    *)
(* Loads take no lock, and load_all may write: it imports the store of     *)
(* the program's earlier name the first time.                              *)
(***************************************************************************)
EXTENDS Naturals, FiniteSets

CONSTANTS PairingIds,   \* ids of records
          Clients,      \* processes (threads on iOS) that use the store
          MaxStoreOps   \* operations begun, in all (bound)

ASSUME PairingStoreAssumption == MaxStoreOps \in Nat /\ PairingIds # {}

VARIABLES
    platform,    \* "unix", "windows" or "keychain"
    legacy,      \* the records of the earlier program's store, never written
    present,     \* client-pairings.json exists; on iOS, the migration marker is set
    disk,        \* the records stored now
    holders,     \* who holds StoreFileLock
    storePc, storeOp, loaded,   \* of each client: where it is, its operation, what it read
    todo,        \* of each client: legacy records its import has still to save
    begun,       \* operations begun
    ledger,      \* history: the store if each update took effect at once
    overwritten, \* history: a migration wrote over a file that existed
    gone         \* history: ids deleted, the migration over, while nobody held their record

storeVars == <<platform, legacy, present, disk, holders, storePc, storeOp, loaded, todo,
               begun, ledger, overwritten, gone>>
history == <<ledger, overwritten, gone>>

NoPairing == [key |-> 0, endpoint |-> 0, trust |-> "none"]
Pairings == [key: {1, 2}, endpoint: {0, 1}, trust: {"owner", "guest"}]
Stores == [PairingIds -> Pairings \cup {NoPairing}]
Fresh(k) == [key |-> k, endpoint |-> 0, trust |-> "owner"]
EmptyStore == [i \in PairingIds |-> NoPairing]
IdsIn(s) == {i \in PairingIds : s[i] # NoPairing}

\* save, delete, remember_endpoint, load_all, and the trust of a reconnect, which
\* begin_handshake_with_trust loads and then saves.
StoreOps == [kind: {"save", "delete", "remember", "list", "trust"}, id: PairingIds,
             rec: Pairings, fromTrust: BOOLEAN]
NoStoreOp == [kind |-> "list", id |-> CHOOSE i \in PairingIds : TRUE, rec |-> Fresh(1),
              fromTrust |-> FALSE]

StoreTypeOK ==
    /\ platform \in {"unix", "windows", "keychain"}
    /\ legacy \in Stores /\ disk \in Stores /\ ledger \in Stores
    /\ present \in BOOLEAN /\ overwritten \in BOOLEAN
    /\ holders \subseteq Clients
    /\ storePc \in [Clients -> {"idle", "lock", "load", "migrate", "write", "mark", "import", "item"}]
    /\ storeOp \in [Clients -> StoreOps]
    /\ begun \in 0 .. MaxStoreOps /\ gone \subseteq PairingIds

StoreInit ==
    /\ platform \in {"unix", "windows", "keychain"}
    /\ legacy \in {[i \in PairingIds |-> IF i \in S THEN Fresh(1) ELSE NoPairing] : S \in SUBSET PairingIds}
    /\ present \in BOOLEAN
    /\ disk \in IF present THEN {legacy, EmptyStore} ELSE {EmptyStore}
    /\ holders = {} /\ begun = 0 /\ overwritten = FALSE
    /\ storePc = [c \in Clients |-> "idle"]
    /\ storeOp = [c \in Clients |-> NoStoreOp]
    /\ loaded = [c \in Clients |-> EmptyStore]
    /\ todo = [c \in Clients |-> {}]
    /\ ledger = IF present THEN disk ELSE legacy
    /\ gone = {}

KeychainBackend == platform = "keychain"

\* update_record_endpoint; the key must be the one the session used.
RememberEndpoint(s, o) ==
    IF s[o.id] # NoPairing /\ s[o.id].key = o.rec.key THEN [s EXCEPT ![o.id].endpoint = 1] ELSE s

Removed(s, id) == [s EXCEPT ![id] = NoPairing]

\* What an update makes of the records it loaded.
Updated(s, o) ==
    CASE o.kind = "save" -> [s EXCEPT ![o.id] = o.rec]
      [] o.kind = "delete" -> Removed(s, o.id)
      [] o.kind = "remember" -> RememberEndpoint(s, o)

\* Nobody else is about to write a record of id.
NobodyHolds(c, id) ==
    \A d \in Clients \ {c} :
        storePc[d] = "idle" \/ (storePc[d] # "mark" /\ storeOp[d].id # id /\ id \notin todo[d])

StoreGo(c, p) == storePc' = [storePc EXCEPT ![c] = p]
\* The call returns, its locals go, and the lock if it has it.
StoreReturn(c) ==
    /\ storePc' = [storePc EXCEPT ![c] = "idle"]
    /\ storeOp' = [storeOp EXCEPT ![c] = NoStoreOp]
    /\ loaded' = [loaded EXCEPT ![c] = EmptyStore]
    /\ holders' = holders \ {c}

BeginStoreOp(c, o) ==
    /\ storePc[c] = "idle" /\ begun < MaxStoreOps
    /\ begun' = begun + 1
    /\ storeOp' = [storeOp EXCEPT ![c] = o]
    /\ StoreGo(c, IF o.kind \in {"list", "trust"} \/ (KeychainBackend /\ o.kind = "remember") THEN "load"
                  ELSE IF KeychainBackend THEN "item" ELSE "lock")
    /\ gone' = IF o.kind = "save" THEN gone \ {o.id} ELSE gone
    /\ UNCHANGED <<platform, legacy, present, disk, holders, loaded, todo, ledger, overwritten>>

LockAlwaysFree == TRUE   \* Mutant: the lock file is opened, not locked.

\* StoreFileLock::acquire.
LockFree == platform = "unix" => holders = {}

AcquireStoreLock(c) ==
    /\ storePc[c] = "lock" /\ LockFree
    /\ holders' = holders \cup {c}
    /\ StoreGo(c, "load")
    /\ UNCHANGED <<platform, legacy, present, disk, storeOp, loaded, todo, begun, history>>

\* An operation that has its records: a load is over, a trust that differs is saved with
\* what was loaded, an update is written, an endpoint of an unknown record is not.
WithRecords(c, recs) ==
    LET o == storeOp[c]
        known == recs[o.id] # NoPairing
    IN
    \/ /\ CASE o.kind = "list" -> TRUE
            [] o.kind = "trust" -> ~known \/ recs[o.id].trust = o.rec.trust
            [] o.kind = "remember" -> RememberEndpoint(recs, o) = recs
            [] OTHER -> FALSE
       /\ StoreReturn(c)
    \/ /\ o.kind = "trust" /\ known /\ recs[o.id].trust # o.rec.trust
       /\ storeOp' = [storeOp EXCEPT ![c] = [kind |-> "save", id |-> o.id, fromTrust |-> TRUE,
                                            rec |-> [recs[o.id] EXCEPT !.trust = o.rec.trust]]]
       /\ StoreGo(c, IF KeychainBackend THEN "item" ELSE "lock") /\ UNCHANGED <<loaded, holders>>
    \/ /\ o.kind \in {"save", "delete"} \/ (o.kind = "remember" /\ RememberEndpoint(recs, o) # recs)
       /\ loaded' = [loaded EXCEPT ![c] = recs]
       /\ StoreGo(c, IF KeychainBackend THEN "item" ELSE "write") /\ UNCHANGED <<storeOp, holders>>

\* load_all of a file: read it, or find it absent and turn to the legacy store.
LoadFile(c) ==
    /\ storePc[c] = "load" /\ ~KeychainBackend
    /\ IF ~present /\ IdsIn(legacy) # {}
       THEN StoreGo(c, "migrate") /\ UNCHANGED <<storeOp, holders, loaded>>
       ELSE WithRecords(c, disk)
    /\ UNCHANGED <<platform, legacy, present, disk, todo, begun, history>>

\* write_records of what the legacy store held; the rename replaces whatever is there.
MigrateFile(c) ==
    /\ storePc[c] = "migrate"
    /\ disk' = legacy /\ present' = TRUE
    /\ overwritten' = (overwritten \/ present)
    /\ WithRecords(c, legacy)
    /\ UNCHANGED <<platform, legacy, todo, begun, ledger, gone>>

\* write_records: a private temporary, then an atomic rename; the lock goes with the call.
WriteFile(c) ==
    /\ storePc[c] = "write"
    /\ disk' = Updated(loaded[c], storeOp[c]) /\ present' = TRUE
    /\ ledger' = Updated(ledger, storeOp[c])
    /\ gone' = IF storeOp[c].kind = "delete" /\ NobodyHolds(c, storeOp[c].id)
               THEN gone \cup {storeOp[c].id} ELSE gone
    /\ StoreReturn(c)
    /\ UNCHANGED <<platform, legacy, todo, begun, overwritten>>

\* load_keychain finds the item, or (not for an endpoint) load_all_keychain reads them all
\* and the migration is considered once.
LoadKeychain(c) ==
    LET o == storeOp[c] IN
    /\ storePc[c] = "load" /\ KeychainBackend
    /\ IF o.kind = "remember" \/ (o.kind = "trust" /\ disk[o.id] # NoPairing) \/ present
       THEN WithRecords(c, disk)
       ELSE loaded' = [loaded EXCEPT ![c] = disk] /\ StoreGo(c, "mark") /\ UNCHANGED <<storeOp, holders>>
    /\ UNCHANGED <<platform, legacy, present, disk, todo, begun, history>>

\* mark_legacy_migration_completed comes before the migration.
MarkMigrated(c) ==
    /\ storePc[c] = "mark"
    /\ present' = TRUE
    /\ IF IdsIn(loaded[c]) = {}
       THEN /\ todo' = [todo EXCEPT ![c] = IdsIn(legacy)]
            /\ StoreGo(c, "import") /\ UNCHANGED <<storeOp, loaded, holders>>
       ELSE WithRecords(c, loaded[c]) /\ UNCHANGED todo
    /\ UNCHANGED <<platform, legacy, disk, begun, history>>

\* migrate_legacy_keychain: one item after the other.
ImportItem(c) ==
    /\ storePc[c] = "import"
    /\ \/ \E i \in todo[c] :
            /\ disk' = [disk EXCEPT ![i] = legacy[i]]
            /\ todo' = [todo EXCEPT ![c] = @ \ {i}]
            /\ UNCHANGED <<storePc, storeOp, loaded, holders>>
       \/ todo[c] = {} /\ WithRecords(c, legacy) /\ UNCHANGED <<disk, todo>>
    /\ UNCHANGED <<platform, legacy, present, begun, history>>

\* save_keychain and delete_keychain: one item.
WriteItem(c) ==
    LET o == storeOp[c]
        new == IF o.kind = "remember" THEN Updated(loaded[c], o)[o.id] ELSE Updated(disk, o)[o.id]
    IN
    /\ storePc[c] = "item"
    /\ disk' = [disk EXCEPT ![o.id] = new]
    /\ gone' = IF o.kind = "delete" /\ present /\ NobodyHolds(c, o.id) THEN gone \cup {o.id} ELSE gone
    /\ StoreReturn(c)
    /\ UNCHANGED <<platform, legacy, present, todo, begun, ledger, overwritten>>

\* The call fails, or its process ends: the temporary is not renamed, the lock is released.
StoreCallEnds(c) ==
    /\ storePc[c] # "idle"
    /\ StoreReturn(c)
    /\ todo' = [todo EXCEPT ![c] = {}]
    /\ UNCHANGED <<platform, legacy, present, disk, begun, history>>

StoreCalls ==
    {[kind |-> k, id |-> i, rec |-> Fresh(n), fromTrust |-> FALSE] :
        k \in {"save", "remember"}, i \in PairingIds, n \in {1, 2}}
    \cup {[kind |-> k, id |-> i, rec |-> [Fresh(1) EXCEPT !.trust = "guest"], fromTrust |-> FALSE] :
        k \in {"delete", "trust"}, i \in PairingIds}
    \cup {NoStoreOp}

StoreNext ==
    \E c \in Clients :
        \/ \E o \in StoreCalls : BeginStoreOp(c, o)
        \/ AcquireStoreLock(c) \/ LoadFile(c) \/ MigrateFile(c) \/ WriteFile(c)
        \/ LoadKeychain(c) \/ MarkMigrated(c) \/ ImportItem(c) \/ WriteItem(c)
        \/ StoreCallEnds(c)

StoreSpec == StoreInit /\ [][StoreNext]_storeVars

(***************************************************************************)
(* Properties.                                                             *)
(***************************************************************************)
\* On Unix the file is what the updates make of it one after the other, whoever made them.
StoreSerial ==
    platform = "unix" /\ ~overwritten => (IF present THEN disk ELSE legacy) = ledger

\* A pairing that was deleted stays so, the legacy store notwithstanding.
DeletedStaysGone ==
    platform # "windows" /\ ~overwritten => \A i \in gone : disk[i] = NoPairing

\* The client's pairing store is safe: no update of PairingStore is lost between the GUI
\* and the headless client (StoreFileLock), and neither a later load_all nor a later update
\* brings back a record that was deleted.
PairingStoreSafe == StoreTypeOK /\ StoreSerial /\ DeletedStaysGone
===============================================================================
