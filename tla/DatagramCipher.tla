--------------------------- MODULE DatagramCipher ---------------------------
(***************************************************************************)
(* One direction of the AES-GCM UDP channel (maho-net/src/udp_gcm.rs): the *)
(* sender's nonce counter, a network that loses, duplicates, reorders and  *)
(* alters datagrams, and the receiver's replay window.                     *)
(*                                                                         *)
(* The window is a map from 64-counter blocks to bit masks; an entry with  *)
(* an empty mask never exists, so the map is the set of counters whose bit *)
(* is set, and pruning a block removes the counters of that block.         *)
(***************************************************************************)
EXTENDS Naturals, FiniteSets

CONSTANTS
    Window,         \* REPLAY_WINDOW_SIZE (4096)
    Block,          \* counters per bit mask (64)
    MaxCounter      \* the largest value of the u64 nonce counter

ASSUME CipherAssumption ==
    /\ Window \in Nat \ {0}
    /\ Block \in Nat \ {0}
    /\ MaxCounter \in Nat \ {0}

VARIABLES
    sendCounter,    \* DatagramCipher.send_counter of the sealing end
    sealed,         \* [counter -> how many datagrams were sealed with it]
    highest,        \* ReplayWindow.highest_received
    receivedAny,    \* ReplayWindow.received_any
    seen,           \* ReplayWindow.blocks, as the set of recorded counters
    opened,         \* [counter -> how often open returned its plaintext]
    result          \* what the last call of either end returned

cipherVars == <<sendCounter, sealed, highest, receivedAny, seen, opened, result>>

Counters == 0 .. MaxCounter
Results == {"none", "sealed", "exhausted", "truncated", "wrong_direction",
            "replay", "authentication", "ok"}

-----------------------------------------------------------------------------
(* ReplayWindow *)

\* saturating_sub of u64
SaturatingSub(a, b) == IF a > b THEN a - b ELSE 0

\* Mutant: the age test lets the counter at the far edge through.
CanAcceptTooOld(c) ==
    /\ ~ (receivedAny /\ c < highest /\ highest - c > Window + Block)
    /\ c \notin seen

CanAccept(c) ==
    /\ ~ (receivedAny /\ c < highest /\ highest - c >= Window)
    /\ c \notin seen

OldestBlock(h) == SaturatingSub(h, SaturatingSub(Window, 1)) \div Block

\* Mutant: the oldest block of the window is pruned too.
RecordPrunesOldest(c) ==
    LET newHighest == IF ~ receivedAny \/ c > highest THEN c ELSE highest
    IN  /\ highest' = newHighest
        /\ receivedAny' = TRUE
        /\ seen' = IF OldestBlock(newHighest) > OldestBlock(highest)
                   THEN {x \in seen \cup {c} : x \div Block > OldestBlock(newHighest)}
                   ELSE seen \cup {c}

Record(c) ==
    LET newHighest == IF ~ receivedAny \/ c > highest THEN c ELSE highest
        oldest     == OldestBlock(newHighest)
        marked     == seen \cup {c}
    IN  /\ highest' = newHighest
        /\ receivedAny' = TRUE
        /\ seen' = IF oldest > OldestBlock(highest)
                   THEN {x \in marked : x \div Block >= oldest}
                   ELSE marked

-----------------------------------------------------------------------------
(* DatagramCipher *)

CipherInit ==
    /\ sendCounter = 0
    /\ sealed = [c \in Counters |-> 0]
    /\ highest = 0
    /\ receivedAny = FALSE
    /\ seen = {}
    /\ opened = [c \in Counters |-> 0]
    /\ result = "none"

\* Mutant: wrapping_add.
SealWraps ==
    LET next == (sendCounter + 1) % (MaxCounter + 1)
    IN  /\ sendCounter' = next
        /\ sealed' = [sealed EXCEPT ![next] = @ + 1]
        /\ result' = "sealed"
        /\ UNCHANGED <<highest, receivedAny, seen, opened>>

\* seal_into: checked_add, then the incremented counter is the nonce.
Seal ==
    \/ /\ sendCounter < MaxCounter
       /\ sendCounter' = sendCounter + 1
       /\ sealed' = [sealed EXCEPT ![sendCounter + 1] = @ + 1]
       /\ result' = "sealed"
       /\ UNCHANGED <<highest, receivedAny, seen, opened>>
    \/ /\ sendCounter = MaxCounter
       /\ result' = "exhausted"
       /\ UNCHANGED <<sendCounter, sealed, highest, receivedAny, seen, opened>>

Reject(why) ==
    /\ result' = why
    /\ UNCHANGED <<sendCounter, sealed, highest, receivedAny, seen, opened>>

\* open on a datagram of this direction that the sender sealed: a datagram
\* stays in the network for ever, so it arrives late, twice or never.
OpenGenuine(c) ==
    /\ sealed[c] > 0
    /\ \/ /\ ~ CanAccept(c)
          /\ Reject("replay")
       \/ /\ CanAccept(c)
          /\ Record(c)
          /\ opened' = [opened EXCEPT ![c] = @ + 1]
          /\ result' = "ok"
          /\ UNCHANGED <<sendCounter, sealed>>

\* open on a datagram whose bytes changed on the way: any counter may be read
\* from it, the window is consulted first, and the tag then fails.
OpenAltered(c) ==
    \/ ~ CanAccept(c) /\ Reject("replay")
    \/ CanAccept(c) /\ Reject("authentication")

OpenShort == Reject("truncated")
OpenOtherDirection == Reject("wrong_direction")

CipherNext ==
    \/ Seal
    \/ OpenShort
    \/ OpenOtherDirection
    \/ \E c \in Counters : OpenGenuine(c)
    \/ \E c \in Counters : OpenAltered(c)

CipherSpec == CipherInit /\ [][CipherNext]_cipherVars

-----------------------------------------------------------------------------
(* Properties *)

Delivered == {c \in Counters : opened[c] > 0}

\* Every variable of the two cipher halves stays in its type.
CipherTypeOK ==
    /\ sendCounter \in Counters
    /\ sealed \in [Counters -> Nat]
    /\ highest \in Counters
    /\ receivedAny \in BOOLEAN
    /\ seen \in SUBSET Counters
    /\ opened \in [Counters -> Nat]
    /\ result \in Results

\* A nonce is never used for two datagrams, also when the 64-bit counter runs
\* out: seal_into fails with CounterExhausted rather than wrap.
NonceNeverReused == \A c \in Counters : sealed[c] <= 1

\* No datagram is ever opened twice, however late the copy arrives: what
\* record prunes from the bit map, can_accept refuses by age.
NoReplay == \A c \in Counters : opened[c] <= 1

\* No genuine datagram is refused by mistake: a sealed counter that was never
\* opened and is less than Window behind the highest opened one is acceptable,
\* whatever altered datagrams were seen in between.
FreshIsAcceptable ==
    \A c \in Counters :
        /\ c \notin Delivered
        /\ \A h \in Delivered : h < c + Window
        => CanAccept(c)

\* The cipher implements the replay rule of the protocol document.
Contract == INSTANCE ReplayContract WITH
    authenticated <- Delivered, verdict <- result

ImplementsContract == Contract!Spec

-----------------------------------------------------------------------------
(* The inductive invariant of the proofs: the recorded bits are counters   *)
(* that were opened, and every opened counter still inside the window is   *)
(* recorded, so pruning loses nothing that the age test does not refuse.   *)

SeenWasDelivered == seen \subseteq Delivered

RecentIsSeen ==
    \A c \in Delivered : c + Window > highest => c \in seen

HighestIsDelivered ==
    /\ receivedAny => highest \in Delivered
    /\ ~ receivedAny => highest = 0 /\ Delivered = {}
    /\ \A c \in Delivered : c <= highest

SealedUpToCounter ==
    \A c \in Counters : sealed[c] = IF c \in 1 .. sendCounter THEN 1 ELSE 0

CipherInv ==
    /\ CipherTypeOK
    /\ NoReplay
    /\ SeenWasDelivered
    /\ RecentIsSeen
    /\ HighestIsDelivered
    /\ SealedUpToCounter
=============================================================================
