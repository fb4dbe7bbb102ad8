--------------------------- MODULE MCConnRegistry ---------------------------
(* Instances of ConnRegistry. *)
EXTENDS ConnRegistry
=============================================================================
