---------------------------- MODULE MCWindowsMedia ----------------------------
(***************************************************************************)
(* The Windows media pipeline on a desktop whose two modes have frames of  *)
(* one length, as 1920x1080 and 1080x1920 have.                            *)
(***************************************************************************)
EXTENDS WindowsMedia

MCSameLengths == [m \in DeskModes |-> 1]
===============================================================================
