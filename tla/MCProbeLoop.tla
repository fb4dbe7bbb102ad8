----------------------------- MODULE MCProbeLoop -----------------------------
(* Instances of ProbeLoop for TLC.                                          *)
EXTENDS ProbeLoop

CONSTANTS b1, b2, b3

(* The three replicas in order, and a list with two of them swapped.  With  *)
(* a window of one, probes of two seconds and a budget of half of five,     *)
(* the cycles of a settled network fit while one replica hangs, and are     *)
(* dropped without end when two or three do.                                *)
Lists == {<<b1, b2, b3>>, <<b2, b1>>}
=============================================================================
