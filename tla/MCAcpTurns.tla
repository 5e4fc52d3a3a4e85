---------------------------- MODULE MCAcpTurns ----------------------------
(* Instances of AcpTurns for TLC.                                          *)
EXTENDS AcpTurns

MCLimits == {
  [conns |-> 2, asks |-> 0, faults |-> {}, shutdown |-> TRUE],
  [conns |-> 2, asks |-> 0, faults |-> {"start", "death"}, shutdown |-> FALSE],
  [conns |-> 1, asks |-> 1, faults |-> {"error", "silence"}, shutdown |-> FALSE]}
=============================================================================
