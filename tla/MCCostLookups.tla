--------------------------- MODULE MCCostLookups ---------------------------
(* CostLookups on small instances. *)
EXTENDS CostLookups
=============================================================================
