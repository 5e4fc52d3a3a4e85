--------------------------- MODULE StreamPromise ---------------------------
(***************************************************************************)
(* What a streamed answer promises the reader of the sidebar: fragments    *)
(* appear in the order they were produced, each once, and nothing appears  *)
(* once the answer is over.                                                *)
(***************************************************************************)
EXTENDS Naturals, Sequences

CONSTANT MaxFragments

VARIABLES put,    \* fragments produced, numbered from 1
          shown,  \* the fragments on the screen
          over    \* the answer has ended

UpTo(n) == [i \in 1 .. n |-> i]

Init == put = 0 /\ shown = <<>> /\ over = FALSE

Put == put < MaxFragments /\ put' = put + 1 /\ UNCHANGED <<shown, over>>

Show == ~over /\ (\E n \in Len(shown) + 1 .. put : shown' = UpTo(n)) /\ UNCHANGED <<put, over>>

End == ~over /\ over' = TRUE /\ UNCHANGED <<put, shown>>

Next == Put \/ Show \/ End

Spec == Init /\ [][Next]_<<put, shown, over>>
=============================================================================
