------------------------------- MODULE Slots -------------------------------
(***************************************************************************)
(* What a pool of slots promises: at most cap holders at a time, each with *)
(* one slot, and a count that is exactly theirs.  The gateway's pools are  *)
(* shown to implement it: the in-flight cap, the large-body slots of chat  *)
(* and those of the passthrough surface.                                   *)
(***************************************************************************)
EXTENDS Naturals

CONSTANT Holders

VARIABLES cap,       \* the size of the pool, from the configuration
          holders,
          used

Init == cap \in Nat /\ holders = {} /\ used = 0

Take(x) ==
    /\ x \in Holders \ holders
    /\ used < cap
    /\ holders' = holders \cup {x}
    /\ used' = used + 1
    /\ cap' = cap

Give(x) ==
    /\ x \in holders
    /\ holders' = holders \ {x}
    /\ used' = used - 1
    /\ cap' = cap

Next == \E x \in Holders : Take(x) \/ Give(x)

Spec == Init /\ [][Next]_<<cap, holders, used>>
=============================================================================
