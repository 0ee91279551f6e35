--------------------------- MODULE MCCallPipeline ---------------------------
(* Instances of CallPipeline for TLC. *)
EXTENDS CallPipeline, TLC

CONSTANTS c1, c2, w1, w2
=============================================================================
