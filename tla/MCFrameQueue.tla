---------------------------- MODULE MCFrameQueue ----------------------------
(* Five ids in a ring and indices over two rings, so that ids wrap while      *)
(* frames with equal ids and different indices exist.                        *)
EXTENDS FrameQueue, TLC
=============================================================================
