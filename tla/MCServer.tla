------------------------------ MODULE MCServer ------------------------------
(* Server on small instances. *)
EXTENDS Server, TLC

Good == [enabled |-> TRUE, key |-> "active", grant |-> TRUE, axis |-> "token",
         allowed |-> TRUE, quota |-> FALSE, credential |-> "held",
         record |-> TRUE, passthroughRef |-> TRUE]

\* A key that may do everything, on either axis, and what takes that back.
SomeDocuments ==
    {Good, [Good EXCEPT !.axis = "credit", !.record = FALSE, !.passthroughRef = FALSE],
     [Good EXCEPT !.allowed = FALSE],
     [Good EXCEPT !.quota = TRUE, !.passthroughRef = FALSE],
     [Good EXCEPT !.axis = "credit", !.credential = "pending"]}

\* One request in flight at a time with both large paths turned off, and two
\* that share one slot of each pool.
SomeSizes ==
    {[inFlight |-> 1, chat |-> 0, pass |-> 0],
     [inFlight |-> 2, chat |-> 1, pass |-> 1]}

AllRequests == Permutations(Requests)
=============================================================================
