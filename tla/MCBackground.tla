---------------------------- MODULE MCBackground ----------------------------
(* Background on small instances. *)
EXTENDS Background, TLC

CONSTANTS o1, o2, c1, c2

\* No part tells two objects or two calls apart.
ObjectsAndCalls == Permutations(Objects) \cup Permutations(Calls)

\* Two records as large as the bound, so that two offers can pass it together.
TwoLargeOneSmall == [b1 |-> 2, b2 |-> 2, b3 |-> 1, b4 |-> 1]
=============================================================================
