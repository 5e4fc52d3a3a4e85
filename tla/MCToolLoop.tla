---------------------------- MODULE MCToolLoop ----------------------------
(* Instances of ToolLoop for TLC.                                          *)
EXTENDS ToolLoop

CONSTANTS c1, c2, x1, x2

\* A response carries no call, one, or two; the ids come back in every round.
UpToTwoCalls == {<<>>, <<c1>>, <<c1, c2>>}
TwoCalls == {<<>>, <<c1, c2>>}
OneCall == {<<>>, <<c1>>}
=============================================================================
