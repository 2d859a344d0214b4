-------------------------- MODULE MCNativeHandoff --------------------------
(***************************************************************************)
(* The instance TLC checks: two bitrates, so that a request may be         *)
(* superseded, repeated or equal to the one in force.                      *)
(***************************************************************************)
EXTENDS NativeHandoff

TwoRates == {1, 2}
=============================================================================
