---------------------------- MODULE MCWarmChild ----------------------------
(* Instances of WarmChild for TLC.                                           *)
EXTENDS WarmChild
CONSTANTS c1, s1
=============================================================================
