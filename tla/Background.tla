----------------------------- MODULE Background -----------------------------
(***************************************************************************)
(* The parts of the process beside the request path: body capture, the     *)
(* vendor catalogue and object ownership.  They share no state, so a       *)
(* behaviour follows one of them and leaves the others at their start.     *)
(***************************************************************************)
EXTENDS BodySink, VendorCatalog, Ownership

VARIABLE part

vars == <<part, sinkVars, catalogVars, ownershipVars>>

Init ==
    /\ part \in {"bodies", "catalog", "ownership"}
    /\ SinkInit /\ OwnershipInit
    /\ CatalogInit /\ (part # "catalog" => passthroughRef = NoRef)

Next ==
    \/ part = "bodies" /\ SinkNext /\ UNCHANGED <<part, catalogVars, ownershipVars>>
    \/ part = "catalog" /\ CatalogNext /\ UNCHANGED <<part, sinkVars, ownershipVars>>
    \/ part = "ownership" /\ OwnershipNext /\ UNCHANGED <<part, sinkVars, catalogVars>>

Spec == Init /\ [][Next]_vars
=============================================================================
