----------------------------- MODULE MCLiveCall -----------------------------
(* Instances of LiveCall for TLC. *)
EXTENDS LiveCall, TLC
=============================================================================
