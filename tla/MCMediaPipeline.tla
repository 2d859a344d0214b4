--------------------------- MODULE MCMediaPipeline ---------------------------
(* Three pipelines: the first one and two replacements.                      *)
EXTENDS MediaPipeline, TLC
=============================================================================
