----------------------------- MODULE MCCapacity -----------------------------
(* Bounds for checking Capacity.  The account and the saturation of a node  *)
(* share no variable, so the one is explored while the node has no cap and  *)
(* the other while it has carried nothing; and sent and received bytes are  *)
(* alike in all but name, so one direction stands for the other.            *)
EXTENDS Capacity

MaxTotal == 2   \* bound on the bytes carried in the two directions together

Bounded ==
  /\ carried = Zero \/ cap = "none"
  /\ direction # "rx"
  /\ Total(carried) <= MaxTotal
=============================================================================
