-------------------------- MODULE SequenceFilters --------------------------
(***************************************************************************)
(* Filtering a list or a deque (the code's comprehensions "x for x in q if *)
(* x not in S" and its sweeps of a queue).  SelectSeq says the same, but   *)
(* the proof system cannot look into it; the recursion here can be         *)
(* reasoned about.                                                         *)
(***************************************************************************)
EXTENDS Naturals, Sequences

\* One step of the loop: what is left of the first n elements.
WithoutStep(q, S, f, n) ==
  IF n = 0 THEN <<>>
  ELSE IF q[n] \in S THEN f[n - 1] ELSE Append(f[n - 1], q[n])

\* The elements of q that are not in S, in their order.
Without(q, S) ==
  LET f[n \in 0 .. Len(q)] == WithoutStep(q, S, f, n) IN f[Len(q)]

\* No element of the sequence comes twice.
IsDistinct(q) == \A i, k \in 1 .. Len(q) : q[i] = q[k] => i = k

\* x stands somewhere in front of y.
Precedes(q, x, y) == \E i, k \in 1 .. Len(q) : i < k /\ q[i] = x /\ q[k] = y
=============================================================================
