---------------------------- MODULE MCFormulaPool ----------------------------
(* Instances of FormulaPool for TLC.                                         *)
EXTENDS FormulaPool

CONSTANTS h1, h2, s1, s2

Symmetry == Permutations(Callers) \cup Permutations(Sessions)
=============================================================================
