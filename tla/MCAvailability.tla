--------------------------- MODULE MCAvailability ---------------------------
(* Instances of Availability for TLC.                                       *)
EXTENDS Availability, TLC

CONSTANTS n1, n2, a1, a2, a6, g1, g2

(* The first node may be given another address, of the other kind. *)
TwoAddresses == (n1 :> {a1, a6}) @@ (n2 :> {a2})

(* One line falls back on the other, which gains and loses a member. *)
OnTheOther == (g1 :> g2) @@ (g2 :> NoGroup)
Shared     == {(g1 :> {n1}) @@ (g2 :> {n2}), (g1 :> {n1}) @@ (g2 :> {n1, n2})}

(* Nodes report themselves up, the second over its soft quota: one that is  *)
(* down is in the class of one that is silent.                              *)
Heard(load) ==
  {[forwarding_up |-> TRUE, backend_reachable |-> TRUE, load |-> load]}
FewReports == (n1 :> Heard("Included")) @@ (n2 :> Heard("SoftQuota"))
=============================================================================
