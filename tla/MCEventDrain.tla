---------------------------- MODULE MCEventDrain ----------------------------
(* Instances of EventDrain for TLC. *)
EXTENDS EventDrain
=============================================================================
