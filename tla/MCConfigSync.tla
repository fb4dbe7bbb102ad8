---------------------------- MODULE MCConfigSync ----------------------------
(* Instances of ConfigSync. *)
EXTENDS ConfigSync

CONSTANTS n1, n2, r1, h1, h2

NoEvents == {}
AllOnOne == OptionalEvents \ {"rule moves"}
=============================================================================
