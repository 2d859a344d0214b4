----------------------------- MODULE MCClientSide -----------------------------
(***************************************************************************)
(* The client and the wire, one component at a time: the components share  *)
(* no state, so each is explored with the others standing still.           *)
(***************************************************************************)
EXTENDS PairingStore, DesktopShell, AgentServer, MediaTransport, ReceiverLoss, WireCodec,
        DatagramCipher, TLC

VARIABLE part   \* the component that runs

clientSideVars == <<part, storeVars, desktopVars, agentVars, transportVars, lossVars,
                    codecVars, cipherVars>>

ClientSideInit ==
    /\ part \in {"store", "desktop", "agent", "transport", "loss", "codec", "cipher"}
    /\ StoreInit /\ DesktopInit /\ AgentInit /\ TransportInit /\ LossInit /\ CodecInit
    /\ CipherInit
    /\ part # "store" => platform = "unix" /\ ~present /\ legacy = EmptyStore
    /\ part # "transport" => tx.frame = 0

ClientSideNext ==
    /\ UNCHANGED part
    /\ \/ /\ part = "store" /\ StoreNext
          /\ UNCHANGED <<desktopVars, agentVars, transportVars, lossVars, codecVars, cipherVars>>
       \/ /\ part = "desktop" /\ DesktopNext
          /\ UNCHANGED <<storeVars, agentVars, transportVars, lossVars, codecVars, cipherVars>>
       \/ /\ part = "agent" /\ AgentNext
          /\ UNCHANGED <<storeVars, desktopVars, transportVars, lossVars, codecVars, cipherVars>>
       \/ /\ part = "transport" /\ TransportNext
          /\ UNCHANGED <<storeVars, desktopVars, agentVars, lossVars, codecVars, cipherVars>>
       \/ /\ part = "loss" /\ LossNext
          /\ UNCHANGED <<storeVars, desktopVars, agentVars, transportVars, codecVars, cipherVars>>
       \/ /\ part = "codec" /\ CodecNext
          /\ UNCHANGED <<storeVars, desktopVars, agentVars, transportVars, lossVars, cipherVars>>
       \/ /\ part = "cipher" /\ CipherNext
          /\ UNCHANGED <<storeVars, desktopVars, agentVars, transportVars, lossVars, codecVars>>

\* A state is told apart by the component that runs: the others are as they began.
Running ==
    CASE part = "store" -> <<part, storeVars>>
      [] part = "desktop" -> <<part, desktopVars>>
      [] part = "agent" -> <<part, agentVars>>
      [] part = "transport" -> <<part, transportVars>>
      [] part = "loss" -> <<part, lossVars>>
      [] part = "codec" -> <<part, codecVars>>
      [] part = "cipher" -> <<part, cipherVars>>

ClientSideSpec == ClientSideInit /\ [][ClientSideNext]_clientSideVars
=============================================================================
