----------------------------- MODULE MCLimiter -----------------------------
(* Limiter on small instances. *)
EXTENDS Limiter, TLC

OneKey == [r \in Requests |-> CHOOSE k \in Keys : TRUE]

TwoLimits == {[rpm |-> 1, tpm |-> 1, conc |-> 2], [rpm |-> 2, tpm |-> 2, conc |-> 1]}

AllRequests == Permutations(Requests)
=============================================================================
