------------------------------- MODULE MCRelay -------------------------------
(* A host that registers twice: its first connection breaks, perhaps        *)
(* unnoticed by the relay.                                                  *)
EXTENDS Relay

CONSTANTS a

MCHostIdOf == [s \in HostSockets |-> a]
MCClientHost == [c \in Clients |-> a]
=============================================================================
