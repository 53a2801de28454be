--------------------------- MODULE MCUsageOutbox ---------------------------
(* UsageOutbox on small instances. *)
EXTENDS UsageOutbox, TLC

EventSymmetry == Permutations(Events)
OnlyOn == {TRUE}
OnOrOff == BOOLEAN
OneCrash == [r \in Retentions |-> 1]
OneCrashForAll == [r \in Retentions |-> Cardinality(Events) + 1]
FewerIfPruned == [r \in Retentions |-> IF r = 0 THEN Cardinality(Events) + 1
                                       ELSE Cardinality(Events)]
=============================================================================
