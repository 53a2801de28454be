-------------------------- MODULE MCSnapshotStore --------------------------
(* SnapshotStore on small instances. *)
EXTENDS SnapshotStore

BothSources == {"file", "http"}
SomeReset == BOOLEAN
=============================================================================
