--------------------------- MODULE MCPoTokenFlow ---------------------------
(* Instances of PoTokenFlow for TLC. *)
EXTENDS PoTokenFlow
=============================================================================
