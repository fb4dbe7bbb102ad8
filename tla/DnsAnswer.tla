----------------------------- MODULE DnsAnswer -----------------------------
(***************************************************************************)
(* What the panel's resolver answers (crates/panel/src/dns/handler.rs,      *)
(* handle_request; dns/answer.rs, resolve; dns/ecs.rs): which zone a query  *)
(* is about, which line groups stand for it now, which of them matches the  *)
(* client, and whose addresses it gets.                                     *)
(*                                                                          *)
(* A response is a function of what the resolver holds; that changes under  *)
(* it: the groups when one is edited, the snapshot with every rebuild, the  *)
(* lookup table with an update.  Availability and ZoneStore say how; here   *)
(* they just change.  An address stands for what the table knows of it.     *)
(* Left out: TXT (Certificates), TTLs, EDNS echoes, and the diagnostics.    *)
(***************************************************************************)
EXTENDS ZoneStore, Integers

CONSTANTS
  Day,            \* minutes of a day: 1440
  Offsets,        \* minutes east of UTC: -720..840
  Groups, NoGroup, AnyValue, Always,
  GroupConfigs,   \* the line groups the operator may have: id -> LineGroup
  Regions, Isps,
  Clients,        \* networks that ask, [region, isp] as the table has them
  Addresses, IPv4, \* of the nodes, and which of them can be in an A record
  Available       \* what a rebuild may find for one group

TimeWindow == [start : 0..(Day - 1), end : 1..Day]

(* validate_window *)
ValidWindows == {w \in TimeWindow : w.start # w.end}

LineGroup ==
  [zone : Zones \cup {NoZone}, region : Regions \cup {AnyValue}, isp : Isps \cup {AnyValue},
   priority : Int, fallback : Groups \cup {NoGroup}, window : ValidWindows \cup {Always}]

(* What every lookup returns while no table is loaded. *)
Unknown == [region |-> "unknown", isp |-> "unknown"]

NoEcs == [region |-> "none", isp |-> "none"]

ASSUME DayAssumption == Day \in Nat /\ Day > 1 /\ Offsets \subseteq Int
ASSUME LineGroupsAssumption ==
  /\ Groups \subseteq Nat /\ NoGroup \notin Groups
  /\ \A grps \in GroupConfigs : DOMAIN grps \subseteq Groups
                                /\ \A g \in DOMAIN grps : grps[g] \in LineGroup
  /\ Clients \subseteq [region : Regions, isp : Isps] /\ IPv4 \subseteq Addresses
  /\ Available \subseteq SUBSET Addresses

VARIABLES
  groups,         \* the line groups in memory
  snapshot,       \* [available, fallback], both by group
  located         \* whether a lookup table is loaded

lvars == <<groups, snapshot, located>>

-----------------------------------------------------------------------------
(* Time *)

(* local_minute_of_day; % is rem_euclid. *)
LocalMinute(now, offset) == (now + offset) % Day

(* Mutant of InWindow: the last minute is in the window. *)
InWindowEnd(window, minute) ==
  LET t == minute % Day
  IN  IF window.start <= window.end THEN window.start <= t /\ t <= window.end
      ELSE window.start <= t \/ t <= window.end

(* TimeWindow::contains *)
InWindow(window, minute) ==
  LET t == minute % Day
  IN  IF window.start <= window.end THEN window.start <= t /\ t < window.end
      ELSE window.start <= t \/ t < window.end

Active(group, minute) == group.window = Always \/ InWindow(group.window, minute)

-----------------------------------------------------------------------------
(* The line of a client *)

(* client_network: the subnet the query speaks for, else who sent it. *)
ClientNetwork(query) == IF query.ecs # NoEcs THEN query.ecs ELSE query.source

Lookup(client) == IF located THEN client ELSE Unknown

(* The groups resolve looks at: of the matched zone or of none, in their    *)
(* time.  With no zone matched, those of none.                              *)
Candidates(grps, zone, minute) ==
  {g \in DOMAIN grps : /\ grps[g].zone \in {NoZone, zone}
                       /\ Active(grps[g], minute)}

Specificity(group) ==
  (IF group.region # AnyValue THEN 1 ELSE 0) + (IF group.isp # AnyValue THEN 1 ELSE 0)

(* More specific first, then the lower priority number, then the lower id.  *)
Precedes(grps, a, b) ==
  LET sa == Specificity(grps[a])  sb == Specificity(grps[b])
  IN  \/ sa > sb
      \/ sa = sb /\ grps[a].priority < grps[b].priority
      \/ sa = sb /\ grps[a].priority = grps[b].priority /\ a <= b

(* match_line_group: the first of those that fit. *)
Fits(grps, cands, place) ==
  {g \in cands : /\ grps[g].region \in {AnyValue, place.region}
                 /\ grps[g].isp \in {AnyValue, place.isp}}

MatchLineGroup(grps, cands, place) ==
  LET fits == Fits(grps, cands, place)
      first == {g \in fits : \A h \in fits : Precedes(grps, g, h)}
  IN  IF first = {} THEN NoGroup ELSE CHOOSE g \in first : TRUE

(* Mutant of TheLine: the time is looked at last. *)
TheLineThenTime(grps, zone, minute, place) ==
  LET line == MatchLineGroup(grps, {g \in DOMAIN grps : grps[g].zone \in {NoZone, zone}}, place)
  IN  IF line # NoGroup /\ Active(grps[line], minute) THEN line ELSE NoGroup

TheLine(grps, zone, minute, place) ==
  MatchLineGroup(grps, Candidates(grps, zone, minute), place)

(* A group the snapshot does not know has no addresses. *)
AddressesFor(g) ==
  IF g \in DOMAIN snapshot.available THEN snapshot.available[g] \cap IPv4 ELSE {}

(* The fallback in the snapshot, or else the one in the group. *)
FallbackOf(grps, line) ==
  IF line \in DOMAIN snapshot.fallback /\ snapshot.fallback[line] # NoGroup
  THEN snapshot.fallback[line] ELSE grps[line].fallback

-----------------------------------------------------------------------------
(* Responses *)

Query == [name : Names, type : {"A", "NS", "SOA", "other"},
          ecs : Clients \cup {NoEcs}, source : Clients]

ServFail == [code |-> "SERVFAIL", answer |-> {}, soa |-> NoZone]
Answer(ips) == [code |-> "NOERROR", answer |-> ips, soa |-> NoZone]

(* No data: with the SOA of the zone the name is in, if any. *)
NoData(zone) == [code |-> "NOERROR", answer |-> {}, soa |-> zone]

(* resolve: the line's addresses, else those of its fallback, once; the     *)
(* fallback's own zone, matchers and window are not looked at.              *)
Resolve(grps, query, minute) ==
  LET line == TheLine(grps, MatchedZone(zones, query.name), minute, Lookup(ClientNetwork(query)))
      own  == AddressesFor(line)
      other == IF line = NoGroup THEN {} ELSE AddressesFor(FallbackOf(grps, line))
  IN  IF own # {} THEN Answer(own)
      ELSE IF other # {} THEN Answer(other) ELSE ServFail

(* handle_request, for a query with a question in it. *)
Response(grps, query, minute) ==
  LET zone == ServedZone(zones, query.name)
      at_apex == zone # NoZone /\ zones[zone].apex = query.name
  IN  IF query.type = "A" THEN Resolve(grps, query, minute)
      ELSE IF at_apex /\ query.type = "SOA" THEN Answer({"SOA record"})
      ELSE IF at_apex /\ query.type = "NS" /\ zones[zone].ns THEN Answer({"NS records"})
      ELSE NoData(zone)

-----------------------------------------------------------------------------
(* What the resolver holds changes *)

LinesInit ==
  /\ groups \in GroupConfigs
  /\ snapshot = [available |-> << >>, fallback |-> << >>]
  /\ located = FALSE

(* refresh_groups installs the groups before the snapshot is rebuilt. *)
StoreGroups == groups' \in GroupConfigs /\ UNCHANGED <<snapshot, located>>

(* rebuild_and_store_snapshot *)
StoreSnapshot ==
  /\ \E available \in [DOMAIN groups -> Available] :
       snapshot' = [available |-> available,
                    fallback  |-> [g \in DOMAIN groups |-> groups[g].fallback]]
  /\ UNCHANGED <<groups, located>>

(* ProviderHandle::switch (GeoTable) *)
SwitchTable == ~located /\ located' = TRUE /\ UNCHANGED <<groups, snapshot>>

LinesNext == StoreGroups \/ StoreSnapshot \/ SwitchTable

-----------------------------------------------------------------------------
Minutes == {LocalMinute(now, offset) : now \in 0..(Day - 1), offset \in Offsets}

(* model.rs:183-186: two windows that are each other's complement hand over *)
(* without a gap and without an overlap, around midnight as well.  (The     *)
(* whole day begins where it ends, and has no complement.)                  *)
Complements(v, w) ==
  /\ {v, w} \subseteq ValidWindows /\ v # w
  /\ w.start = v.end % Day /\ v.start = w.end % Day

WindowsHandOver ==
  \A g, h \in DOMAIN groups :
    (groups[g].window # Always /\ groups[h].window # Always
     /\ Complements(groups[g].window, groups[h].window))
      => \A minute \in Minutes : Active(groups[g], minute) # Active(groups[h], minute)

Without(grps, g) == [h \in DOMAIN grps \ {g} |-> grps[h]]

(* model.rs:229-231: outside its window a group is as if it were not there, *)
(* whoever asks: the next best group takes over, and no answer is lost to   *)
(* it.  (Unless another group names it as its fallback: that is not asked   *)
(* about the time.)                                                         *)
OutsideWindowAbsent ==
  \A g \in DOMAIN groups, minute \in Minutes, name \in Names, client \in Clients :
    LET query == [name |-> name, type |-> "A", ecs |-> NoEcs, source |-> client]
    IN  ~Active(groups[g], minute)
        => Response(groups, query, minute) = Response(Without(groups, g), query, minute)
=============================================================================
