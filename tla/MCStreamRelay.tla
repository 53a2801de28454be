--------------------------- MODULE MCStreamRelay ---------------------------
(* StreamRelay on small instances. *)
EXTENDS StreamRelay
=============================================================================
