--------------------------- MODULE ReplayContract ---------------------------
(***************************************************************************)
(* What the receiving half of a UDP traffic cipher promises, as the wire   *)
(* protocol states it (docs/protocol-v3.md, section 7.3): a counter at     *)
(* least Window behind the highest authenticated one is refused, so is one *)
(* that was authenticated before, and only authentication marks a counter. *)
(* It keeps the whole history and says nothing of blocks or of pruning;    *)
(* DatagramCipher, which does, is shown to implement it.                   *)
(***************************************************************************)
EXTENDS Naturals

CONSTANTS
    Window,         \* how far behind the highest counter a datagram may be
    Counters        \* the counters a nonce can carry

VARIABLES
    authenticated,  \* every counter opened so far
    verdict         \* what the last call returned

contractVars == <<authenticated, verdict>>

TooOld(c) == \E h \in authenticated : h >= c + Window

Init ==
    /\ authenticated = {}
    /\ verdict = "none"

\* An authentic datagram is opened exactly when it is new and recent enough.
Accept(c) ==
    /\ c \notin authenticated
    /\ ~ TooOld(c)
    /\ authenticated' = authenticated \cup {c}
    /\ verdict' = "ok"

Refuse(c) ==
    /\ c \in authenticated \/ TooOld(c)
    /\ verdict' = "replay"
    /\ UNCHANGED authenticated

\* Everything else (sending, a datagram that is cut, from the other direction
\* or altered) leaves the history as it is.
Other ==
    /\ verdict' \notin {"ok", "replay"}
    /\ UNCHANGED authenticated

Next == Other \/ \E c \in Counters : Accept(c) \/ Refuse(c)

Spec == Init /\ [][Next]_contractVars
=============================================================================
