------------------------------ MODULE MCGeoDns ------------------------------
(* Instances of ZoneStore, DnsAnswer, GeoTable and CfRecords for TLC.  What *)
(* they have in common only changes in one of them at a time, so the run is *)
(* their sum: `part` says which one moves, the others stand where they      *)
(* started.                                                                 *)
EXTENDS DnsAnswer, GeoTable, CfRecords, TLC

CONSTANTS www, sub, apex, tail

VARIABLE part

(* apex is the configured domain, sub is below it, www is below both, and   *)
(* tail ends with the text of apex but is another domain.                   *)
ItsNames  == {www, sub, apex, tail}
ItsBelow  == {<<www, sub>>, <<www, apex>>, <<sub, apex>>}
ItsEnds   == ItsBelow \cup {<<tail, apex>>}
Zone(name, typed, ns) == [apex |-> name, canonical |-> typed, ns |-> ns]
OneSpec   == {Zone(www, FALSE, FALSE)}
ItsSettings == Zone(sub, TRUE, TRUE)

(* What the resolver may know of the zones when it answers. *)
ZoneLists == [Zones -> {NoZone, Zone(apex, TRUE, TRUE), Zone(sub, FALSE, TRUE), ItsSettings}]

(* Evening and the rest of the day, in hours: 20 to 2 is 10 to 1 of 12.     *)
Evening == [start |-> 10, end |-> 1]
Rest    == [start |-> 1, end |-> 10]
Night   == [start |-> 10, end |-> 12]
Morning == [start |-> 0, end |-> 10]

Line(zone, region, isp, priority, fallback, window) ==
  [zone |-> zone, region |-> region, isp |-> isp, priority |-> priority,
   fallback |-> fallback, window |-> window]

OneLine == 2 :> Line(1, AnyValue, AnyValue, 0, 3, Always)

(* A line for one region and one for all; an evening line beside them; the  *)
(* same at the edge of the day; one line left.                              *)
ItsLines ==
  { (1 :> Line(1, "east", AnyValue, 0, 2, Rest)) @@ (2 :> Line(NoZone, AnyValue, AnyValue, 0, NoGroup, Always))
      @@ (3 :> Line(1, "east", AnyValue, 0, 2, Evening)),
    (1 :> Line(NoZone, AnyValue, "ct", 1, 2, Morning)) @@ (2 :> Line(1, AnyValue, "ct", 1, NoGroup, Always))
      @@ (3 :> Line(NoZone, AnyValue, "ct", 0, NoGroup, Night)),
    OneLine }

(* Hours east of UTC. *)
ItsOffsets == {0, 5, -4}

ItsClients == {[region |-> "east", isp |-> "ct"], [region |-> "west", isp |-> "ct"]}

(* The one zone below the configured domain. *)
OneList == {<<"sub">>}

(* What the operator adds by hand: an address of his own, for the host.     *)
OtherAddress == {[name |-> "ns", type |-> "A", content |-> "other", made |-> "operator"]}

Parts == {"zones", "lines", "table", "records"}

MCInit ==
  /\ part \in Parts
  /\ LinesInit /\ (part = "lines" \/ groups = OneLine)
  /\ TableInit /\ RecordsInit
  /\ handler = [h \in Requests |-> Idle] /\ stale_cause = "none"
  /\ zones \in IF part = "lines" THEN ZoneLists ELSE {[z \in Zones |-> NoZone]}
  /\ db_zones = zones

MCNext ==
  /\ UNCHANGED part
  /\ \/ part = "zones" /\ ZoneNext  /\ UNCHANGED <<lvars, gvars, rvars>>
     \/ part = "lines" /\ LinesNext /\ UNCHANGED <<zvars, gvars, rvars>>
     \/ part = "table" /\ TableNext /\ UNCHANGED <<zvars, lvars, rvars>>
     \/ part = "records" /\ RecordsNext /\ UNCHANGED <<zvars, lvars, gvars>>

MCSpec == MCInit /\ [][MCNext]_<<part, zvars, lvars, gvars, rvars>>

(* Handlers, updates and Cloudflare jobs are the same model values, so that *)
(* they take one symmetry.                                                  *)
Symmetry == Permutations(Requests) \cup Permutations(Ids)
=============================================================================
