--------------------------- MODULE MCUpstreamCall ---------------------------
(* UpstreamCall on small instances. *)
EXTENDS UpstreamCall, TLC

CallSymmetry == Permutations(Calls)

\* One outcome of each kind callUpstream tells apart.
OneOfEachKind == {"ok", "refused", "timeout", "fault"}
=============================================================================
