----------------------------- MODULE MCFailover -----------------------------
(* An instance of Failover, with its log, for TLC.                          *)
EXTENDS FailoverLog

CONSTANTS b1, b2, b3

(* Three, two or no replicas, and a reordering.                             *)
Lists == {<<b1, b2, b3>>, <<b2, b1>>, <<>>}
=============================================================================
