------------------------------ MODULE DnsProofs ------------------------------
(***************************************************************************)
(* Proofs about the zones, the answers and the lookup table: for any names, *)
(* zones, groups and number of handlers at work, and a day of any length.   *)
(***************************************************************************)
EXTENDS DnsAnswer, GeoTable, CfRecords, FiniteSetTheorems, TLAPS

(* What a handler that is about to install a list has read is a list.       *)
HandlersTyped ==
  /\ DOMAIN handler = Requests
  /\ \A h \in Requests : handler[h].pc \in {"store", "check"} => handler[h].seen \in Rows

ZonesInv ==
  db_zones \in Rows /\ zones \in Rows /\ HandlersTyped /\ ZonesFollowRows

(* A handler that moves leaves the others where they are. *)
LEMMA GoesOn ==
  ASSUME HandlersTyped, NEW h \in Requests, NEW pc, NEW seen, NEW todo,
         GoOn(h, pc, seen, todo), pc \in {"store", "check"} => seen \in Rows
  PROVE  /\ HandlersTyped'
         /\ handler'[h].pc = pc
         /\ \A k \in Requests \ {h} : handler'[k] = handler[k]
  BY DEF HandlersTyped, GoOn, Rows

(* A handler that gives up leaves the two in agreement, or a cause.         *)
LEMMA GivenUp ==
  ASSUME ZonesInv, NEW h \in Requests, NEW cause \in Causes \ {"none"}, GivesUp(h, cause)
  PROVE  ZonesInv'
<1>1. HandlersTyped'
  BY GoesOn DEF ZonesInv, GivesUp, Go
<1> QED
  BY <1>1 DEF ZonesInv, GivesUp, Causes, ZonesFollowRows

(* So does one that installs what it has read. *)
LEMMA Installed ==
  ASSUME ZonesInv, NEW h \in Requests, handler[h].pc \in {"store", "check"}, Installs(h)
  PROVE  ZonesInv'
<1>1. HandlersTyped' /\ handler[h].seen \in Rows
  BY GoesOn DEF ZonesInv, HandlersTyped, Installs, Go
<1> QED
  BY <1>1 DEF ZonesInv, Installs, ZonesFollowRows

(* One handler, every step of it. *)
LEMMA HandlerInv ==
  ASSUME ZonesInv, NEW h \in Requests,
         \/ CreateZone(h) \/ DeleteZone(h) \/ ListZones(h) \/ RequestEnds(h) \/ StoreZones(h)
         \/ CheckSettingsZone(h) \/ CreateSettingsZone(h)
         \/ CheckStarts(h) \/ CheckLists(h) \/ CheckRepairs(h)
         \/ CheckStores(h) \/ CheckAbandoned(h)
  PROVE  ZonesInv'
<1> USE DEF ZonesInv
<1>1. CASE CreateZone(h)
  <2>1. HandlersTyped' /\ handler'[h].pc = "list"
    BY <1>1, GoesOn DEF CreateZone, Go
  <2>2. db_zones' \in Rows /\ zones' \in Rows
    BY <1>1, SpecsAssumption DEF CreateZone, Rows
  <2> QED
    BY <2>1, <2>2 DEF ZonesFollowRows
<1>2. CASE DeleteZone(h)
  <2>1. HandlersTyped' /\ handler'[h].pc = "list"
    BY <1>2, GoesOn DEF DeleteZone, Go
  <2>2. db_zones' \in Rows /\ zones' \in Rows
    BY <1>2 DEF DeleteZone, Rows
  <2> QED
    BY <2>1, <2>2 DEF ZonesFollowRows
<1>3. CASE ListZones(h)
  <2>1. CASE Go(h, "store", db_zones) /\ UNCHANGED <<db_zones, zones, stale_cause>>
    <3>1. HandlersTyped' /\ handler'[h].pc = "store"
      BY <2>1, GoesOn DEF Go
    <3> QED
      BY <2>1, <3>1 DEF ZonesFollowRows
  <2>2. CASE GivesUp(h, "list failed")
    BY <2>2, GivenUp DEF Causes
  <2> QED
    BY <1>3, <2>1, <2>2 DEF ListZones
<1>4. CASE StoreZones(h) \/ CheckStores(h)
  BY <1>4, Installed DEF StoreZones, CheckStores
<1>5. CASE CheckSettingsZone(h)
  <2>1. HandlersTyped' /\ \A k \in Requests \ {h} : handler'[k] = handler[k]
    BY <1>5, GoesOn DEF CheckSettingsZone, Go
  <2> QED
    BY <1>5, <2>1 DEF CheckSettingsZone, ZonesFollowRows
<1>6. CASE CreateSettingsZone(h)
  <2>1. HandlersTyped' /\ \A k \in Requests \ {h} : handler'[k] = handler[k]
    BY <1>6, GoesOn DEF CreateSettingsZone, Go
  <2>2. CASE UNCHANGED <<db_zones, stale_cause>>
    BY <1>6, <2>1, <2>2 DEF CreateSettingsZone, ZonesFollowRows
  <2>3. CASE \E z \in Zones : /\ db_zones' = [db_zones EXCEPT ![z] = SettingsZone]
                              /\ stale_cause' = "settings"
    <3>1. stale_cause' # "none"
      BY <2>3
    <3>2. db_zones' \in Rows
      BY <2>3, SpecsAssumption DEF Rows
    <3> QED
      BY <1>6, <2>1, <3>1, <3>2 DEF CreateSettingsZone, ZonesFollowRows
  <2> QED
    BY <1>6, <2>2, <2>3 DEF CreateSettingsZone
<1>7. CASE CheckStarts(h)
  <2>1. PICK todo \in {{}, Managed} : GoOn(h, "check list", << >>, todo)
    BY <1>7 DEF CheckStarts
  <2>2. HandlersTyped' /\ \A k \in Requests \ {h} : handler'[k] = handler[k]
    BY <2>1, GoesOn
  <2> QED
    BY <1>7, <2>2 DEF CheckStarts, ZonesFollowRows
<1>8. CASE CheckLists(h)
  <2>1. HandlersTyped' /\ \A k \in Requests \ {h} : handler'[k] = handler[k]
    BY <1>8, GoesOn DEF CheckLists, Go
  <2> QED
    BY <1>8, <2>1 DEF CheckLists, ZonesFollowRows
<1>9. CASE CheckRepairs(h)
  <2> DEFINE list == handler[h].seen
             Done(z) == IF list[z] = NoZone THEN ChildZone ELSE Delegated(list[z])
  <2>1. list \in Rows
    BY <1>9 DEF CheckRepairs, HandlersTyped
  <2>2. \A z \in Zones : Done(z) \in ZoneSpec
    BY <2>1, SpecsAssumption DEF Rows, ChildZone, Delegated, ZoneSpec
  <2>3. PICK child \in handler[h].todo, z \in Zones :
          /\ db_zones' = [db_zones EXCEPT ![z] = Done(z)]
          /\ GoOn(h, "check", [list EXCEPT ![z] = Done(z)], handler[h].todo \ {child})
    BY <1>9 DEF CheckRepairs
  <2>4. db_zones' \in Rows /\ [list EXCEPT ![z] = Done(z)] \in Rows
    BY <2>1, <2>2, <2>3 DEF Rows
  <2>5. HandlersTyped' /\ handler'[h].pc = "check"
    BY <2>3, <2>4, GoesOn
  <2> QED
    BY <1>9, <2>4, <2>5 DEF CheckRepairs, ZonesFollowRows
<1>10. CASE RequestEnds(h) \/ CheckAbandoned(h)
  BY <1>10, GivenUp DEF RequestEnds, CheckAbandoned, Causes
<1> QED
  BY <1>1, <1>2, <1>3, <1>4, <1>5, <1>6, <1>7, <1>8, <1>9, <1>10

LEMMA NextInv == ASSUME ZonesInv, [ZoneNext]_zvars PROVE ZonesInv'
<1>1. CASE PanelRestarts
  BY <1>1 DEF PanelRestarts, ZonesInv, ZonesFollowRows, HandlersTyped, Idle
<1>2. CASE UNCHANGED zvars
  BY <1>2 DEF zvars, ZonesInv, ZonesFollowRows, HandlersTyped
<1> QED
  BY <1>1, <1>2, HandlerInv DEF ZoneNext

(* Every edit of the zones reaches the resolver, but for the named causes:  *)
(* for any number of zones and of handlers at work at once.                 *)
THEOREM EditsReachResolver == ZoneSpecification => []ZonesFollowRows
<1>1. ZoneInit => ZonesInv
  BY DEF ZoneInit, ZonesInv, ZonesFollowRows, HandlersTyped, Rows, Idle
<1>2. ZonesInv => ZonesFollowRows
  BY DEF ZonesInv
<1> QED
  BY <1>1, <1>2, NextInv, PTL DEF ZoneSpecification

(* Where the zones are whole names typed the one way, and one of them holds  *)
(* the name, both ways to match it come to the same zone.                   *)
LEMMA OneMatch ==
  ASSUME zones \in Rows, NEW name \in Names,
         \A z \in Present(zones) : zones[z].canonical,
         \A z \in Present(zones) : <<name, zones[z].apex>> \notin EndsWith \ Below,
         \A y, z \in Covering(zones, name) : y = z
  PROVE  MatchedZone(zones, name) = ServedZone(zones, name)
<1> DEFINE hits == Covering(zones, name)
           longest == {z \in hits : \A y \in hits :
                         <<zones[y].apex, zones[z].apex>> \notin EndsWith}
<1>1. TextMatches(zones, name) = hits
  BY NamesAssumption DEF TextMatches, Covering
<1>2. longest = hits
  <2>1. ASSUME NEW z \in hits PROVE <<zones[z].apex, zones[z].apex>> \notin EndsWith
    BY NamesAssumption DEF Covering, Present, Rows, ZoneSpec
  <2> QED
    BY <2>1
<1>3. hits \subseteq Nat
  BY ZonesAssumption DEF Covering, Present
<1>4. MatchedZone(zones, name)
        = IF hits = {} THEN NoZone ELSE CHOOSE z \in hits : \A y \in hits : z <= y
  BY <1>1 DEF MatchedZone
<1>5. ServedZone(zones, name)
        = IF longest = {} THEN NoZone ELSE CHOOSE z \in longest : \A y \in longest : y <= z
  BY DEF ServedZone
<1>6. ASSUME NEW s \in hits
      PROVE  MatchedZone(zones, name) = s /\ ServedZone(zones, name) = s
  <2>1. hits = {s} /\ longest = {s} /\ s <= s
    BY <1>2, <1>3, <1>6
  <2> HIDE DEF hits, longest
  <2> QED
    BY <1>4, <1>5, <2>1
<1> QED
  BY <1>2, <1>4, <1>5, <1>6

(* The two ways to match a query name agree, but for the three kinds of     *)
(* zones that are named: for any names, zones and handlers.                 *)
THEOREM MatchesAgree == ZoneSpecification => []OneZonePerName
<1>1. ZoneInit => ZonesInv
  BY DEF ZoneInit, ZonesInv, ZonesFollowRows, HandlersTyped, Rows, Idle
<1>2. ZonesInv => OneZonePerName
  BY OneMatch DEF ZonesInv, OneZonePerName
<1> QED
  BY <1>1, <1>2, NextInv, PTL DEF ZoneSpecification

-----------------------------------------------------------------------------
(* A window holds the minutes of a day from its start to its end, and goes  *)
(* on from midnight when it ends before it starts.                          *)
LEMMA Remainder ==
  ASSUME NEW n \in 0..Day PROVE n % Day = IF n = Day THEN 0 ELSE n
  BY DayAssumption, Z3

LEMMA HandOver ==
  ASSUME NEW v \in ValidWindows, NEW w \in ValidWindows, Complements(v, w),
         NEW minute \in 0..(Day - 1)
  PROVE  ~(InWindow(v, minute) <=> InWindow(w, minute))
<1>1. /\ v.start \in 0..(Day - 1) /\ v.end \in 1..Day /\ v.start # v.end
      /\ w.start \in 0..(Day - 1) /\ w.end \in 1..Day /\ w.start # w.end
      /\ ~(v.start = w.start /\ v.end = w.end)
  BY DEF ValidWindows, TimeWindow, Complements
<1>2. /\ w.start = IF v.end = Day THEN 0 ELSE v.end
      /\ v.start = IF w.end = Day THEN 0 ELSE w.end
  <2>1. v.end \in 0..Day /\ w.end \in 0..Day
    BY <1>1, DayAssumption
  <2> QED
    BY <2>1, Remainder DEF Complements
<1>3. minute % Day = minute
  BY Remainder, DayAssumption
<1>4. InWindow(v, minute) <=> IF v.start <= v.end THEN v.start <= minute /\ minute < v.end
                              ELSE v.start <= minute \/ minute < v.end
  BY <1>3 DEF InWindow
<1>5. InWindow(w, minute) <=> IF w.start <= w.end THEN w.start <= minute /\ minute < w.end
                              ELSE w.start <= minute \/ minute < w.end
  BY <1>3 DEF InWindow
<1> QED
  BY <1>1, <1>2, <1>4, <1>5, DayAssumption

(* Windows that are each other's complement hand over at every minute, for  *)
(* a day of any length, all offsets, and any groups.                        *)
THEOREM ComplementsHandOver == LinesInit /\ [][LinesNext]_lvars => []WindowsHandOver
<1> DEFINE GroupsInv == groups \in GroupConfigs
<1>1. Minutes \subseteq 0..(Day - 1)
  <2>1. \A n \in Int : n % Day \in 0..(Day - 1)
    BY DayAssumption, Z3
  <2> QED
    BY <2>1, DayAssumption DEF Minutes, LocalMinute
<1>2. ASSUME GroupsInv PROVE WindowsHandOver
  <2> SUFFICES ASSUME NEW g \in DOMAIN groups, NEW h \in DOMAIN groups,
                      groups[g].window # Always, groups[h].window # Always,
                      Complements(groups[g].window, groups[h].window), NEW minute \in Minutes
               PROVE  Active(groups[g], minute) # Active(groups[h], minute)
    BY DEF WindowsHandOver
  <2>1. groups[g].window \in ValidWindows /\ groups[h].window \in ValidWindows
    BY DEF Complements
  <2>2. ~(InWindow(groups[g].window, minute) <=> InWindow(groups[h].window, minute))
    BY <1>1, <2>1, HandOver
  <2>3. ~(Active(groups[g], minute) <=> Active(groups[h], minute))
    BY <2>2 DEF Active
  <2> QED
    BY <2>3
<1>3. LinesInit => GroupsInv
  BY DEF LinesInit
<1>4. GroupsInv /\ [LinesNext]_lvars => GroupsInv'
  BY DEF LinesNext, StoreGroups, StoreSnapshot, SwitchTable, lvars
<1> QED
  BY <1>2, <1>3, <1>4, PTL
-----------------------------------------------------------------------------
(* Matching looks at the candidates only: a group that is none of them may  *)
(* as well not be there.                                                    *)
LEMMA MatchIgnores ==
  ASSUME NEW grps, NEW g, NEW cands \in SUBSET (DOMAIN grps \ {g}), NEW place
  PROVE  MatchLineGroup(Without(grps, g), cands, place) = MatchLineGroup(grps, cands, place)
<1> DEFINE fits == Fits(grps, cands, place)
<1>1. \A h \in cands : Without(grps, g)[h] = grps[h]
  BY DEF Without
<1>2. Fits(Without(grps, g), cands, place) = fits
  BY <1>1 DEF Fits
<1>3. \A a, b \in fits : Precedes(Without(grps, g), a, b) <=> Precedes(grps, a, b)
  <2>1. \A h \in fits : Without(grps, g)[h] = grps[h]
    BY <1>1 DEF Fits
  <2> QED
    BY <2>1 DEF Precedes, Specificity
<1> DEFINE first(G) == {a \in Fits(G, cands, place) :
                         \A b \in Fits(G, cands, place) : Precedes(G, a, b)}
<1>4. first(Without(grps, g)) = first(grps)
  BY <1>2, <1>3
<1>5. \A G : MatchLineGroup(G, cands, place)
             = IF first(G) = {} THEN NoGroup ELSE CHOOSE a \in first(G) : TRUE
  BY DEF MatchLineGroup
<1> HIDE DEF first
<1> QED
  BY <1>4, <1>5, Zenon

(* What matches is a candidate. *)
LEMMA MatchIsCandidate ==
  ASSUME NEW grps, NEW cands, NEW place, MatchLineGroup(grps, cands, place) # NoGroup
  PROVE  MatchLineGroup(grps, cands, place) \in cands
<1> DEFINE fits == Fits(grps, cands, place)
           first == {g \in fits : \A h \in fits : Precedes(grps, g, h)}
<1>1. first # {} /\ MatchLineGroup(grps, cands, place) = CHOOSE g \in first : TRUE
  BY DEF MatchLineGroup
<1>2. (CHOOSE g \in first : TRUE) \in first
  BY <1>1
<1> QED
  BY <1>1, <1>2 DEF Fits

LEMMA AbsentAlike ==
  ASSUME NEW g \in DOMAIN groups, NEW minute, ~Active(groups[g], minute), NEW query,
         query.type = "A"
  PROVE  Response(groups, query, minute) = Response(Without(groups, g), query, minute)
<1> DEFINE zone == MatchedZone(zones, query.name)
           place == Lookup(ClientNetwork(query))
           cands == Candidates(groups, zone, minute)
           line == TheLine(groups, zone, minute, place)
<1>1. DOMAIN Without(groups, g) = DOMAIN groups \ {g}
      /\ \A h \in DOMAIN groups \ {g} : Without(groups, g)[h] = groups[h]
  BY DEF Without
<1>2. cands \subseteq DOMAIN groups \ {g}
  BY DEF Candidates
<1>3. Candidates(Without(groups, g), zone, minute) = cands
  BY <1>1, <1>2 DEF Candidates
<1>4. TheLine(Without(groups, g), zone, minute, place) = line
  BY <1>2, <1>3, MatchIgnores DEF TheLine
<1>5. line # NoGroup => FallbackOf(Without(groups, g), line) = FallbackOf(groups, line)
  <2>1. line # NoGroup => line \in cands
    BY MatchIsCandidate DEF TheLine
  <2> QED
    BY <1>1, <1>2, <2>1 DEF FallbackOf
<1>6. Resolve(groups, query, minute) = Resolve(Without(groups, g), query, minute)
  BY <1>4, <1>5 DEF Resolve
<1> QED
  BY <1>6 DEF Response

(* Outside its window a group is as if it were not there, for every query,  *)
(* any groups and zones, and whatever the table and the snapshot hold.      *)
THEOREM AbsentOutsideWindow == LinesInit /\ [][LinesNext]_lvars => []OutsideWindowAbsent
<1>1. OutsideWindowAbsent
  <2> SUFFICES ASSUME NEW g \in DOMAIN groups, NEW minute \in Minutes, NEW name \in Names,
                      NEW client \in Clients, ~Active(groups[g], minute)
               PROVE  LET query == [name |-> name, type |-> "A", ecs |-> NoEcs, source |-> client]
                      IN  Response(groups, query, minute)
                            = Response(Without(groups, g), query, minute)
    BY DEF OutsideWindowAbsent
  <2> QED
    BY AbsentAlike
<1> QED
  BY <1>1, PTL
-----------------------------------------------------------------------------
(* The lookup table *)

WritersTyped ==
  DOMAIN writer = Writers /\ \A w \in Writers : DOMAIN writer[w] = {"pc", "body"}

(* A writer that has looked at the file, and one that is about to, stand in *)
(* the way of the claim; the last step of either settles it.                *)
LEMMA TableStep ==
  ASSUME WritersTyped, OkMeansKept, [TableNext]_gvars
  PROVE  (WritersTyped /\ OkMeansKept)'
<1>1. ASSUME NEW w \in Writers, NEW pc, NEW body, Step(w, pc, body)
      PROVE  /\ WritersTyped' /\ writer'[w].pc = pc
             /\ \A k \in Writers \ {w} : writer'[k] = writer[k]
  BY <1>1 DEF Step, WritersTyped
<1>2. ASSUME NEW w \in Writers, Download(w) PROVE (WritersTyped /\ OkMeansKept)'
  <2>1. PICK body \in {"good", "bad"} : Step(w, "write", body)
    BY <1>2 DEF Download
  <2>2. /\ WritersTyped' /\ writer'[w].pc = "write"
        /\ \A k \in Writers \ {w} : writer'[k] = writer[k]
    BY <1>1, <2>1
  <2> QED
    BY <1>2, <2>2 DEF Download, OkMeansKept
<1>3. ASSUME NEW w \in Writers, WriteTable(w) PROVE (WritersTyped /\ OkMeansKept)'
  BY <1>1, <1>3 DEF WriteTable, OkMeansKept
<1>8. ASSUME NEW w \in Writers, WritesTable(w) PROVE (WritersTyped /\ OkMeansKept)'
  <2>1. CASE Step(w, "validate", "none")
    BY <1>1, <2>1 DEF OkMeansKept
  <2>2. CASE Ends(w, "failed")
    BY <1>1, <2>2 DEF Ends, OkMeansKept
  <2> QED
    BY <1>8, <2>1, <2>2 DEF WritesTable
<1>4. ASSUME NEW w \in Writers, Validate(w) PROVE (WritersTyped /\ OkMeansKept)'
  <2>1. CASE table_file # "good" /\ Step(w, "remove", "none")
    BY <1>1, <2>1 DEF OkMeansKept
  <2>2. CASE table_file = "good" /\ Step(w, "switch", "none")
    BY <1>1, <2>2 DEF OkMeansKept
  <2>3. CASE table_file = "good" /\ Ends(w, "ok")
    BY <1>1, <1>4, <2>3 DEF Validate, Ends, OkMeansKept
  <2> QED
    BY <1>4, <2>1, <2>2, <2>3 DEF Validate
<1>5. ASSUME NEW w \in Writers, Switch(w) PROVE (WritersTyped /\ OkMeansKept)'
  BY <1>1, <1>5 DEF Switch, Ends, OkMeansKept
<1>9. ASSUME NEW w \in Writers, RemoveTable(w) PROVE (WritersTyped /\ OkMeansKept)'
  BY <1>1, <1>9 DEF RemoveTable, Ends, OkMeansKept
<1>6. CASE TablePanelRestarts
  BY <1>6 DEF TablePanelRestarts, WritersTyped, OkMeansKept, Resting
<1>7. CASE UNCHANGED gvars
  BY <1>7 DEF gvars, WritersTyped, OkMeansKept
<1> QED
  BY <1>2, <1>3, <1>4, <1>5, <1>6, <1>7, <1>8, <1>9 DEF TableNext

(* A writer that ended well has left a table, and nobody else has spoiled   *)
(* it: for any number of updates and of runs of fetch-geocn at once.        *)
THEOREM DownloadsStay == TableSpec => []OkMeansKept
<1>1. TableInit => WritersTyped /\ OkMeansKept
  BY DEF TableInit, WritersTyped, OkMeansKept, Resting
<1> QED
  BY <1>1, TableStep, PTL DEF TableSpec
-----------------------------------------------------------------------------
(* The records at Cloudflare: jobs *)

Calls == {"look", "create", "verify", "update", "delete"}

(* A job at work has settings and, until it is done, a record it is at;     *)
(* only a repair is about anything, and it upserts and deletes nothing.     *)
KnownJob(q) ==
  /\ q.pc # "idle" => q.ip \in Ips
  /\ q.pc \in Calls => q.todo # << >>
  /\ q.pc = "done" => q.todo = << >>
  /\ q.kind # "repair" => q.about = {}
  /\ q.kind = "repair" => /\ ToSet(q.todo) \subseteq {NsHost} \cup Children
                          /\ q.pc \notin {"update", "delete"}

JobsInv == job \in [Jobs -> Job] /\ \A j \in Jobs : KnownJob(job[j])

LEMMA Elements ==
  ASSUME NEW S, NEW s \in Seq(S)
  PROVE  /\ ToSet(s) \subseteq S
         /\ s # << >> => Head(s) \in ToSet(s) /\ Tail(s) \in Seq(S)
         /\ s # << >> => ToSet(s) = {Head(s)} \cup ToSet(Tail(s))
         /\ s # << >> => (Len(s) > 1 <=> Tail(s) # << >>)
         /\ \A e \in S : /\ <<e>> \in Seq(S) /\ ToSet(<<e>>) = {e} /\ <<e>> # << >>
                         /\ <<e>> \o s \in Seq(S) /\ ToSet(<<e>> \o s) = {e} \cup ToSet(s)
                         /\ <<e>> \o s # << >>
<1>1. ToSet(s) = {s[i] : i \in 1..Len(s)} /\ Len(s) \in Nat
  BY DEF ToSet
<1>2. ASSUME s # << >> PROVE Len(s) >= 1
  BY <1>1, <1>2
<1>3. ASSUME s # << >>
      PROVE  /\ Tail(s) \in Seq(S) /\ Len(Tail(s)) = Len(s) - 1
             /\ \A i \in 1..Len(s) - 1 : Tail(s)[i] = s[i + 1]
             /\ Head(s) = s[1]
  BY <1>3
<1>4. ASSUME s # << >> PROVE ToSet(s) = {Head(s)} \cup ToSet(Tail(s))
  <2> DEFINE t == Tail(s)
             n == Len(s)
  <2>1. /\ t \in Seq(S) /\ Len(t) = n - 1 /\ \A i \in 1..n - 1 : t[i] = s[i + 1]
        /\ Head(s) = s[1] /\ n \in Nat /\ n >= 1
    BY <1>1, <1>2, <1>3, <1>4
  <2> HIDE DEF t
  <2>2. ToSet(t) = {t[i] : i \in 1..n - 1}
    BY <2>1 DEF ToSet
  <2>3. \A i \in 1..n : i = 1 \/ i - 1 \in 1..n - 1
    BY <2>1
  <2>4. ToSet(s) = {s[i] : i \in 1..n}
    BY <1>1
  <2> HIDE DEF n
  <2>5. ASSUME NEW x \in ToSet(s) PROVE x = s[1] \/ x \in ToSet(t)
    <3>1. PICK i \in 1..n : x = s[i]
      BY <2>4
    <3>2. CASE i = 1
      BY <3>1, <3>2
    <3>3. CASE i - 1 \in 1..n - 1
      <4>1. t[i - 1] = s[i]
        BY <2>1, <3>1, <3>3
      <4> QED
        BY <2>2, <3>1, <3>3, <4>1
    <3> QED
      BY <2>3, <3>2, <3>3
  <2>6. ASSUME NEW x \in ToSet(t) PROVE x \in ToSet(s)
    <3>1. PICK i \in 1..n - 1 : x = t[i]
      BY <2>2
    <3>2. i + 1 \in 1..n /\ x = s[i + 1]
      BY <2>1, <3>1
    <3> QED
      BY <2>4, <3>2
  <2>7. s[1] \in ToSet(s)
    BY <2>1, <2>4
  <2>8. ToSet(s) = {s[1]} \cup ToSet(t)
    BY <2>5, <2>6, <2>7
  <2> QED
    BY <2>1, <2>8 DEF t
<1>5. ASSUME NEW e \in S
      PROVE  /\ <<e>> \in Seq(S) /\ ToSet(<<e>>) = {e} /\ <<e>> # << >>
             /\ <<e>> \o s \in Seq(S) /\ ToSet(<<e>> \o s) = {e} \cup ToSet(s)
             /\ <<e>> \o s # << >>
  <2>1. <<e>> \in Seq(S) /\ Len(<<e>>) = 1 /\ <<e>>[1] = e /\ <<e>> # << >>
    OBVIOUS
  <2>2. ToSet(<<e>>) = {<<e>>[i] : i \in 1..1}
    BY <2>1 DEF ToSet
  <2> DEFINE t == <<e>> \o s
  <2>3. t \in Seq(S) /\ Len(t) = 1 + Len(s) /\ t[1] = e /\ \A i \in 1..Len(s) : t[i + 1] = s[i]
    BY <2>1
  <2>4. ToSet(t) = {t[i] : i \in 1..1 + Len(s)}
    BY <2>3 DEF ToSet
  <2> HIDE DEF t
  <2>8. ToSet(t) = {e} \cup ToSet(s)
    <3> DEFINE n == Len(s)
    <3>1. /\ ToSet(s) = {s[i] : i \in 1..n} /\ ToSet(t) = {t[i] : i \in 1..1 + n}
          /\ n \in Nat /\ t[1] = e /\ \A i \in 1..n : t[i + 1] = s[i]
      BY <1>1, <2>3, <2>4
    <3> HIDE DEF n
    <3>2. ASSUME NEW x \in ToSet(t) PROVE x = e \/ x \in ToSet(s)
      <4>1. PICK i \in 1..1 + n : x = t[i]
        BY <3>1
      <4>2. CASE i = 1
        BY <3>1, <4>1, <4>2
      <4>3. CASE i # 1
        <5>1. i - 1 \in 1..n /\ t[(i - 1) + 1] = s[i - 1] /\ (i - 1) + 1 = i
          BY <3>1, <4>1, <4>3
        <5> QED
          BY <3>1, <4>1, <5>1
      <4> QED
        BY <4>2, <4>3
    <3>3. ASSUME NEW x \in ToSet(s) PROVE x \in ToSet(t)
      <4>1. PICK i \in 1..n : x = s[i]
        BY <3>1
      <4>2. i + 1 \in 1..1 + n /\ x = t[i + 1]
        BY <3>1, <4>1
      <4> QED
        BY <3>1, <4>2
    <3>4. e \in ToSet(t)
      BY <3>1
    <3> QED
      BY <3>2, <3>3, <3>4
  <2>9. t # << >>
    BY <1>1, <2>3
  <2> QED
    BY <2>1, <2>2, <2>3, <2>8, <2>9 DEF t
<1>6. ASSUME s # << >>
      PROVE  (Len(s) > 1 <=> Tail(s) # << >>) /\ Head(s) \in ToSet(s)
  <2> DEFINE n == Len(s)
             t == Tail(s)
  <2>1. n \in Nat /\ n >= 1 /\ t \in Seq(S) /\ Len(t) = n - 1
    BY <1>1, <1>2, <1>3, <1>6
  <2> HIDE DEF n, t
  <2>2. n > 1 <=> Len(t) # 0
    BY <2>1
  <2>3. Len(t) = 0 <=> t = << >>
    BY <2>1
  <2>4. Head(s) \in ToSet(s)
    BY <1>4, <1>6
  <2> QED
    BY <2>2, <2>3, <2>4 DEF n, t
<1>7. ToSet(s) \subseteq S
  BY <1>1
<1> QED
  BY <1>3, <1>4, <1>5, <1>6, <1>7

LEMMA Moved ==
  ASSUME JobsInv, NEW j \in Jobs, NEW q \in Job, KnownJob(q), job' = [job EXCEPT ![j] = q]
  PROVE  JobsInv' /\ job'[j] = q /\ \A k \in Jobs \ {j} : job'[k] = job[k]
BY DEF JobsInv

LEMMA QuitsIs ==
  ASSUME JobsInv, NEW j \in Jobs, Quits(j)
  PROVE  JobsInv' /\ job'[j] = NoJob /\ \A k \in Jobs \ {j} : job'[k] = job[k]
<1>1. NoJob \in Job /\ KnownJob(NoJob)
  <2>1. << >> \in Seq(RecordNames)
    OBVIOUS
  <2> QED
    BY <2>1 DEF NoJob, Job, KnownJob, Kinds, Calls
<1> QED
  BY <1>1, Moved DEF Quits

(* What a call leaves of a job that goes on.                                *)
SameWork(q, p) == q.kind = p.kind /\ q.ip = p.ip /\ q.about = p.about

LEMMA AtWork ==
  ASSUME JobsInv, NEW j \in Jobs, job[j].pc \in Calls
  PROVE  /\ job[j].todo \in Seq(RecordNames) /\ job[j].todo # << >>
         /\ Name(j) \in RecordNames /\ Name(j) \in ToSet(job[j].todo)
         /\ job[j].ip \in Ips /\ Content(Name(j), job[j].ip) \in Ips \cup {NsHost}
<1>1. /\ job[j].todo \in Seq(RecordNames) /\ job[j].todo # << >> /\ job[j].ip \in Ips
  BY DEF JobsInv, Job, KnownJob, Calls
<1>2. Name(j) \in RecordNames /\ Name(j) \in ToSet(job[j].todo)
  BY <1>1, Elements DEF Name
<1> QED
  BY <1>1, <1>2 DEF Content

LEMMA TurnsIs ==
  ASSUME JobsInv, NEW j \in Jobs, NEW pc \in Calls, NEW found \in SUBSET Ids, Turns(j, pc, found),
         job[j].pc \in Calls, job[j].kind = "repair" => pc \notin {"update", "delete"}
  PROVE  /\ JobsInv' /\ \A k \in Jobs \ {j} : job'[k] = job[k]
         /\ SameWork(job'[j], job[j]) /\ job'[j].todo = job[j].todo
         /\ job'[j].attention = job[j].attention /\ job'[j].pc = pc /\ job'[j].found = found
<1> DEFINE q == [kind |-> job[j].kind, ip |-> job[j].ip, about |-> job[j].about,
                 todo |-> job[j].todo, pc |-> pc, found |-> found, attention |-> job[j].attention]
<1>1. job[j] \in Job /\ KnownJob(job[j])
  BY DEF JobsInv
<1>2. q \in Job
  BY <1>1 DEF Job, Calls
<1>3. KnownJob(q)
  BY <1>1 DEF KnownJob, Calls
<1>4. job' = [job EXCEPT ![j] = q]
  BY DEF Turns, Set
<1>5. /\ q.kind = job[j].kind /\ q.ip = job[j].ip /\ q.about = job[j].about
      /\ q.todo = job[j].todo /\ q.attention = job[j].attention /\ q.pc = pc /\ q.found = found
  OBVIOUS
<1> HIDE DEF q
<1> QED
  BY <1>2, <1>3, <1>4, <1>5, Moved DEF SameWork

(* A job goes to its next record, is done, or is over.                      *)
LEMMA GoesIs ==
  ASSUME JobsInv, NEW j \in Jobs, job[j].pc \in Calls,
         NEW attention \in SUBSET RecordNames, GoesWith(j, attention)
  PROVE  /\ JobsInv' /\ \A k \in Jobs \ {j} : job'[k] = job[k]
         /\ \/ job'[j] = NoJob /\ job[j].kind # "repair"
            \/ /\ SameWork(job'[j], job[j]) /\ job'[j].pc \in {"look", "done"}
               /\ ToSet(job[j].todo) = {Name(j)} \cup ToSet(job'[j].todo)
               /\ job'[j].attention = attention
<1>1. job[j] \in Job /\ KnownJob(job[j])
  BY DEF JobsInv
<1> DEFINE todo == job[j].todo
           rest == Tail(todo)
<1>2. /\ todo \in Seq(RecordNames) /\ todo # << >> /\ rest \in Seq(RecordNames)
      /\ ToSet(todo) = {Name(j)} \cup ToSet(rest) /\ (Len(todo) > 1 <=> rest # << >>)
  BY AtWork, Elements DEF Name
<1> DEFINE q(pc) == [kind |-> job[j].kind, ip |-> job[j].ip, about |-> job[j].about,
                     todo |-> rest, pc |-> pc, found |-> {}, attention |-> attention]
<1>3. ASSUME NEW pc \in {"look", "done"}, pc = "look" <=> rest # << >>,
             job' = [job EXCEPT ![j] = q(pc)]
      PROVE  /\ JobsInv' /\ \A k \in Jobs \ {j} : job'[k] = job[k]
             /\ SameWork(job'[j], job[j]) /\ job'[j].pc \in {"look", "done"}
             /\ ToSet(job[j].todo) = {Name(j)} \cup ToSet(job'[j].todo)
             /\ job'[j].attention = attention
  <2> DEFINE p == q(pc)
  <2>1. p \in Job
    BY <1>1, <1>2 DEF Job
  <2>2. KnownJob(p)
    BY <1>1, <1>2, <1>3 DEF KnownJob, Calls
  <2>3. /\ p.kind = job[j].kind /\ p.ip = job[j].ip /\ p.about = job[j].about
        /\ p.todo = rest /\ p.attention = attention /\ p.pc = pc
    OBVIOUS
  <2>4. job' = [job EXCEPT ![j] = p]
    BY <1>3
  <2> HIDE DEF p
  <2> QED
    BY <1>2, <2>1, <2>2, <2>3, <2>4, Moved DEF SameWork
<1>4. CASE rest # << >>
  BY <1>2, <1>3, <1>4 DEF GoesWith, Set
<1>5. CASE rest = << >> /\ job[j].kind = "repair"
  BY <1>2, <1>3, <1>5 DEF GoesWith, Set
<1>6. CASE rest = << >> /\ job[j].kind # "repair"
  BY <1>2, <1>6, QuitsIs DEF GoesWith
<1> QED
  BY <1>4, <1>5, <1>6
-----------------------------------------------------------------------------
(* The records at Cloudflare: what holds of them *)

Shape ==
  /\ record \in [Ids -> Record \cup {NoRecord}]
  /\ settings \in Ips \cup {NoIp} /\ clean \subseteq Jobs

(* The panel's own records at a name. *)
Ours(name) == {i \in Same(name) : record[i].made = "panel"}

(* What a job is about to update is the panel's address, if it is there.    *)
Upserts == \A j \in Jobs :
  job[j].pc = "update" =>
    job[j].found # {} /\ \A i \in job[j].found : record[i] # NoRecord => record[i].name = PanelName

(* Until a job is overtaken all of them have the same address.              *)
OneAddress == ~overtaken =>
  \A j, k \in Jobs : job[j].pc # "idle" /\ job[k].pc # "idle" =>
    (settings = NoIp \/ job[j].ip = settings) /\ job[j].ip = job[k].ip

(* What has been made since a job found nothing is what it is about to make. *)
Fresh == ~overtaken =>
  \A j \in Jobs : job[j].pc = "create" =>
    \A i \in Ours(Name(j)) : record[i].content = Content(Name(j), job[j].ip)

Single == ~overtaken => \A name \in RecordNames : \A i, k \in Ours(name) : i = k

(* What a repair has been at is right, or reported. *)
Settled(q) ==
  \A name \in q.about :
    name \in ToSet(q.todo) \/ Classify(name, q.ip) = "ok" \/ name \in q.attention

Repaired == \A j \in clean : Settled(job[j])

RecordsInv == Shape /\ JobsInv /\ Upserts /\ OneAddress /\ Fresh /\ Single /\ Repaired

LEMMA RecordsInitInv == RecordsInit => RecordsInv
<1> SUFFICES ASSUME RecordsInit PROVE RecordsInv
  OBVIOUS
<1>1. NoJob \in Job /\ KnownJob(NoJob) /\ NoJob.pc = "idle"
  <2>1. << >> \in Seq(RecordNames)
    OBVIOUS
  <2> QED
    BY <2>1 DEF NoJob, Job, KnownJob, Kinds, Calls
<1>2. \A name : Ours(name) = {}
  BY DEF RecordsInit, Ours, Same, At
<1> QED
  BY <1>1, <1>2 DEF RecordsInit, RecordsInv, Shape, JobsInv, Upserts, OneAddress, Fresh, Single,
                    Repaired

(* A job starts. *)
LEMMA Starting ==
  ASSUME RecordsInv, NEW j \in Jobs, NEW kind \in Kinds, NEW todo \in Seq(RecordNames),
         NEW ip \in Ips, todo # << >>,
         kind = "repair" => ToSet(todo) \subseteq {NsHost} \cup Children,
         Starts(j, kind, todo, ip), job[j].pc = "idle", UNCHANGED record, settings' = ip,
         ~overtaken' => ~overtaken /\ (settings = ip \/ ~OvertakenBy(ip))
  PROVE  RecordsInv'
<1> DEFINE about == IF kind = "repair" THEN ToSet(todo) ELSE {}
           q == [kind |-> kind, ip |-> ip, todo |-> todo, pc |-> "look", about |-> about,
                 found |-> {}, attention |-> {}]
<1>1. about \subseteq RecordNames
  BY Elements
<1>2. q \in Job
  BY <1>1 DEF Job
<1>3. KnownJob(q)
  BY DEF KnownJob, Calls
<1>4. q.pc = "look" /\ q.ip = ip /\ q.todo = todo /\ q.about \subseteq ToSet(todo)
  OBVIOUS
<1>5. job' = [job EXCEPT ![j] = q] /\ clean' \subseteq clean \cup {j}
  BY DEF Starts
<1> HIDE DEF q
<1>6. JobsInv' /\ job'[j] = q /\ \A k \in Jobs \ {j} : job'[k] = job[k]
  BY <1>2, <1>3, <1>5, Moved DEF RecordsInv
<1>7. Shape' /\ Upserts'
  BY <1>4, <1>5, <1>6 DEF RecordsInv, Shape, Upserts
<1>8. OneAddress'
  <2> SUFFICES ASSUME ~overtaken' PROVE \A k \in Jobs : job'[k].pc # "idle" => job'[k].ip = ip
    BY DEF OneAddress
  <2>1. ASSUME NEW k \in Jobs \ {j}, job[k].pc # "idle" PROVE job[k].ip = ip
    <3>1. job[k].ip \in Ips /\ ip # NoIp /\ job[k].ip # NoIp
      BY <2>1, RecordsAssumption DEF RecordsInv, JobsInv, KnownJob, RecordsAssumption
    <3>2. CASE settings = ip
      BY <2>1, <3>1, <3>2 DEF RecordsInv, OneAddress
    <3>3. CASE ~OvertakenBy(ip)
      BY <2>1, <3>1, <3>3 DEF OvertakenBy
    <3> QED
      BY <3>2, <3>3
  <2> QED
    BY <1>4, <1>6, <2>1
<1>9. Fresh' /\ Single'
  BY <1>4, <1>6 DEF RecordsInv, Fresh, Single, Ours, Same, At, Name
<1>10. Repaired'
  <2> SUFFICES ASSUME NEW k \in clean' PROVE Settled(job[k])'
    BY DEF Repaired
  <2>1. CASE k = j
    BY <1>4, <1>6, <2>1 DEF Settled
  <2>2. CASE k # j
    <3>1. k \in clean /\ k \in Jobs /\ job'[k] = job[k] /\ Settled(job[k])
      BY <1>5, <1>6, <2>2 DEF RecordsInv, Shape, Repaired
    <3> QED
      BY <3>1 DEF Settled, Classify, Same, At
  <2> QED
    BY <2>1, <2>2
<1> QED
  BY <1>6, <1>7, <1>8, <1>9, <1>10 DEF RecordsInv

LEMMA StartsInv ==
  ASSUME RecordsInv, NEW j \in Jobs,
         \/ SyncRecords(j) \/ PutSettings(j) \/ CreateZoneRecord(j) \/ DeleteZoneRecords(j)
         \/ RepairStarts(j)
  PROVE  RecordsInv'
<1>1. /\ SetupList \in Seq(RecordNames) /\ SetupList # << >>
      /\ {"setup", "zone", "repair", "delete"} \subseteq Kinds
  BY RecordsAssumption DEF RecordsAssumption, SetupList, RecordNames, Kinds
<1>2. settings # NoIp => settings \in Ips
  BY DEF RecordsInv, Shape
<1>3. \A c \in Children : <<c>> \in Seq(RecordNames) /\ <<c>> # << >>
  BY DEF RecordNames
<1>4. CASE SyncRecords(j)
  BY <1>1, <1>2, <1>4, Starting DEF SyncRecords
<1>5. CASE PutSettings(j)
  BY <1>1, <1>5, Starting DEF PutSettings
<1>6. CASE CreateZoneRecord(j)
  BY <1>1, <1>2, <1>3, <1>6, Starting DEF CreateZoneRecord
<1>7. CASE DeleteZoneRecords(j)
  BY <1>1, <1>2, <1>3, <1>7, Starting DEF DeleteZoneRecords
<1>8. CASE RepairStarts(j)
  <2>1. PICK managed \in ManagedLists : Starts(j, "repair", <<NsHost>> \o managed, settings)
    BY <1>8 DEF RepairStarts
  <2> DEFINE todo == <<NsHost>> \o managed
             S == {NsHost} \cup Children
  <2>2. managed \in Seq(S) /\ NsHost \in S
    BY RecordsAssumption DEF RecordsAssumption
  <2> HIDE DEF S
  <2>3. todo \in Seq(S) /\ todo # << >> /\ ToSet(todo) \subseteq S
    <3>1. todo \in Seq(S) /\ todo # << >>
      BY <2>2, Elements
    <3> QED
      BY <3>1, Elements
  <2>4. todo \in Seq(RecordNames)
    BY <2>3 DEF S, RecordNames
  <2> HIDE DEF todo
  <2> QED
    BY <1>1, <1>2, <1>8, <2>1, <2>3, <2>4, Starting DEF RepairStarts, todo, S
<1> QED
  BY <1>4, <1>5, <1>6, <1>7, <1>8
(* A call that changes no record. *)
LEMMA QuietInv ==
  ASSUME RecordsInv, NEW j \in Jobs, JobsInv', \A k \in Jobs \ {j} : job'[k] = job[k],
         UNCHANGED <<record, settings, overtaken>>, clean' \subseteq clean,
         job'[j] = NoJob \/ (SameWork(job'[j], job[j]) /\ job[j].pc # "idle"),
         job'[j].pc = "update" =>
           job'[j].found # {} /\ \A i \in job'[j].found : record[i] # NoRecord => record[i].name = PanelName,
         job'[j].pc = "create" => job'[j].todo = job[j].todo /\ Same(Name(j)) = {},
         j \in clean' => Settled(job'[j])
  PROVE  RecordsInv'
<1>1. Shape' /\ Upserts'
  <2>1. \A k \in Jobs \ {j} : job[k].pc = "update" =>
          job[k].found # {} /\ \A i \in job[k].found : record[i] # NoRecord => record[i].name = PanelName
    BY DEF RecordsInv, Upserts
  <2> QED
    BY <2>1 DEF RecordsInv, Shape, Upserts
<1>2. OneAddress'
  <2>1. \A k \in Jobs : job'[k].pc # "idle" => job[k].pc # "idle" /\ job'[k].ip = job[k].ip
    BY DEF SameWork, NoJob
  <2> QED
    BY <2>1 DEF RecordsInv, OneAddress
<1>3. Fresh' /\ Single'
  <2>1. Single'
    BY DEF RecordsInv, Single, Ours, Same, At
  <2>2. ASSUME ~overtaken, NEW k \in Jobs, job'[k].pc = "create", NEW i \in Ours(Name(k))'
        PROVE  record'[i].content = Content(Name(k), job[k].ip)'
    <3>1. CASE k = j
      BY <2>2, <3>1 DEF Ours, Same, At, Name
    <3>2. CASE k # j
      <4>1. job'[k] = job[k] /\ i \in Ours(Name(k))
        BY <2>2, <3>2 DEF Ours, Same, At, Name
      <4>2. record[i].content = Content(Name(k), job[k].ip)
        BY <2>2, <4>1 DEF RecordsInv, Fresh
      <4> QED
        BY <4>1, <4>2 DEF Content, Name
    <3> QED
      BY <3>1, <3>2
  <2> QED
    BY <2>1, <2>2 DEF Fresh
<1>4. Repaired'
  <2> SUFFICES ASSUME NEW k \in clean' PROVE Settled(job[k])'
    BY DEF Repaired
  <2>1. Settled(job'[k])
    <3>1. k \in Jobs /\ Settled(job[k])
      BY DEF RecordsInv, Shape, Repaired
    <3> QED
      BY <3>1
  <2> QED
    BY <2>1 DEF Settled, Classify, Same, At
<1> QED
  BY <1>1, <1>2, <1>3, <1>4 DEF RecordsInv

(* A repair that takes up its next record has settled the last one.         *)
LEMMA GoesSettled ==
  ASSUME RecordsInv, NEW j \in Jobs, job[j].pc \in Calls, NEW attention \in SUBSET RecordNames,
         GoesWith(j, attention), job[j].attention \subseteq attention, j \in clean,
         \/ Name(j) \in attention \/ Classify(Name(j), job[j].ip) = "ok" \/ job[j].kind # "repair"
  PROVE  Settled(job'[j])
<1>1. \/ job'[j] = NoJob
      \/ /\ SameWork(job'[j], job[j]) /\ ToSet(job[j].todo) = {Name(j)} \cup ToSet(job'[j].todo)
         /\ job'[j].attention = attention
  BY GoesIs DEF RecordsInv
<1>2. Settled(job[j])
  BY DEF RecordsInv, Repaired
<1>3. job[j].kind # "repair" => job[j].about = {}
  BY DEF RecordsInv, JobsInv, KnownJob
<1>4. CASE job'[j] = NoJob
  BY <1>4 DEF Settled, NoJob
<1>5. CASE SameWork(job'[j], job[j])
  BY <1>1, <1>2, <1>3, <1>4, <1>5 DEF Settled, SameWork
<1> QED
  BY <1>1, <1>4, <1>5

LEMMA PanelNotRepaired ==
  ASSUME JobsInv, NEW j \in Jobs, job[j].pc \in Calls, Name(j) = PanelName
  PROVE  job[j].kind # "repair"
<1>1. Name(j) \in ToSet(job[j].todo) /\ KnownJob(job[j])
  BY AtWork DEF JobsInv
<1> QED
  BY <1>1, RecordsAssumption DEF KnownJob, RecordsAssumption

LEMMA GoesInv ==
  ASSUME RecordsInv, NEW j \in Jobs, job[j].pc \in Calls, NEW attention \in SUBSET RecordNames,
         GoesWith(j, attention), job[j].attention \subseteq attention,
         UNCHANGED <<record, settings, overtaken>>, clean' \subseteq clean,
         \/ Name(j) \in attention \/ Classify(Name(j), job[j].ip) = "ok"
         \/ job[j].kind # "repair" \/ j \notin clean'
  PROVE  RecordsInv'
<1>1. /\ JobsInv' /\ \A k \in Jobs \ {j} : job'[k] = job[k]
      /\ \/ job'[j] = NoJob
         \/ SameWork(job'[j], job[j]) /\ job'[j].pc \in {"look", "done"}
  BY GoesIs DEF RecordsInv
<1>2. job'[j].pc \notin {"update", "create"}
  BY <1>1 DEF NoJob
<1>3. j \in clean' => Settled(job'[j])
  BY GoesSettled
<1> QED
  BY <1>1, <1>2, <1>3, QuietInv DEF Calls

LEMMA QuitsInv ==
  ASSUME RecordsInv, NEW j \in Jobs, Quits(j), UNCHANGED <<record, settings, overtaken>>,
         clean' \subseteq clean
  PROVE  RecordsInv'
<1>1. JobsInv' /\ job'[j] = NoJob /\ \A k \in Jobs \ {j} : job'[k] = job[k]
  BY QuitsIs DEF RecordsInv
<1>2. NoJob.pc = "idle" /\ Settled(NoJob)
  BY DEF NoJob, Settled
<1> QED
  BY <1>1, <1>2, QuietInv

LEMMA TurnsInv ==
  ASSUME RecordsInv, NEW j \in Jobs, NEW pc \in Calls, NEW found \in SUBSET Ids, Turns(j, pc, found),
         job[j].pc \in Calls, job[j].kind = "repair" => pc \notin {"update", "delete"},
         UNCHANGED <<record, settings, overtaken>>, clean' \subseteq clean,
         pc = "update" => found # {} /\ \A i \in found : record[i] # NoRecord => record[i].name = PanelName,
         pc = "create" => Same(Name(j)) = {}
  PROVE  RecordsInv'
<1>1. /\ JobsInv' /\ \A k \in Jobs \ {j} : job'[k] = job[k]
      /\ SameWork(job'[j], job[j]) /\ job'[j].todo = job[j].todo
      /\ job'[j].attention = job[j].attention /\ job'[j].pc = pc /\ job'[j].found = found
  BY TurnsIs DEF RecordsInv
<1>2. j \in clean => Settled(job'[j])
  <2>1. j \in clean => Settled(job[j])
    BY DEF RecordsInv, Repaired
  <2> QED
    BY <1>1, <2>1 DEF Settled, SameWork
<1> QED
  BY <1>1, <1>2, QuietInv DEF Calls

LEMMA ConflictsInv ==
  ASSUME RecordsInv, NEW j \in Jobs, job[j].pc \in Calls, Conflicts(j),
         UNCHANGED <<record, settings, overtaken>>, clean' \subseteq clean
  PROVE  RecordsInv'
<1>1. CASE job[j].kind = "repair"
  <2> DEFINE attention == job[j].attention \cup {Name(j)}
  <2>1. attention \in SUBSET RecordNames /\ job[j].attention \subseteq attention /\ Name(j) \in attention
    BY AtWork DEF RecordsInv, JobsInv, Job
  <2>2. GoesWith(j, attention)
    BY <1>1 DEF Conflicts
  <2> HIDE DEF attention
  <2> QED
    BY <2>1, <2>2, GoesInv
<1>2. CASE job[j].kind # "repair"
  BY <1>2, QuitsInv DEF Conflicts
<1> QED
  BY <1>1, <1>2

LEMMA FailsInv ==
  ASSUME RecordsInv, NEW j \in Jobs, job[j].pc \in Calls, Fails(j),
         UNCHANGED <<record, settings, overtaken>>, clean' = clean \ {j}
  PROVE  RecordsInv'
<1>1. CASE job[j].kind = "repair"
  <2>1. job[j].attention \in SUBSET RecordNames
    BY DEF RecordsInv, JobsInv, Job
  <2> QED
    BY <1>1, <2>1, GoesInv DEF Fails, Goes
<1>2. CASE job[j].kind # "repair"
  BY <1>2, QuitsInv DEF Fails
<1> QED
  BY <1>1, <1>2

LEMMA LookInv == ASSUME RecordsInv, NEW j \in Jobs, Look(j) PROVE RecordsInv'
<1> DEFINE found == Same(Name(j))
           verdict == Classify(Name(j), job[j].ip)
<1>1. /\ job[j].pc = "look" /\ UNCHANGED <<record, settings, clean, overtaken>>
      /\ job[j].pc \in Calls
  BY DEF Look, At_, Calls
<1>2. job[j].attention \in SUBSET RecordNames /\ found \in SUBSET Ids
      /\ {"create", "update", "delete"} \subseteq Calls
  BY DEF RecordsInv, JobsInv, Job, Same, At, Calls
<1>3. verdict \in {"ok", "missing", "conflict"} /\ (verdict = "missing" => found = {})
  BY DEF Classify
<1>4. CASE job[j].kind = "delete"
  <2>1. Turns(j, "delete", found)
    BY <1>4 DEF Look
  <2> HIDE DEF found
  <2> QED
    BY <1>1, <1>2, <1>4, <2>1, TurnsInv
<1>5. CASE job[j].kind # "delete" /\ Name(j) = PanelName
  <2>1. job[j].kind # "repair"
    BY <1>1, <1>5, PanelNotRepaired DEF RecordsInv
  <2>2. CASE found = {}
    <3>1. Turns(j, "create", {})
      BY <1>5, <2>2 DEF Look
    <3> QED
      BY <1>1, <1>2, <2>1, <2>2, <3>1, TurnsInv
  <2>3. CASE found # {}
    <3>1. PICK i \in found : Turns(j, "update", {i})
      BY <1>5, <2>3 DEF Look
    <3>2. record[i].name = PanelName /\ i \in Ids
      BY <1>5, <3>1 DEF Same, At
    <3> QED
      BY <1>1, <1>2, <2>1, <3>1, <3>2, TurnsInv
  <2> QED
    BY <2>2, <2>3
<1>6. CASE job[j].kind # "delete" /\ Name(j) # PanelName
  <2>1. CASE verdict = "ok"
    <3>1. Goes(j)
      BY <1>6, <2>1 DEF Look
    <3> QED
      BY <1>1, <1>2, <2>1, <3>1, GoesInv DEF Goes
  <2>2. CASE verdict = "missing"
    <3>1. Turns(j, "create", {})
      BY <1>6, <2>2 DEF Look
    <3> QED
      BY <1>1, <1>2, <1>3, <2>2, <3>1, TurnsInv
  <2>3. CASE verdict = "conflict"
    <3>1. Conflicts(j)
      BY <1>6, <2>3 DEF Look
    <3> QED
      BY <1>1, <3>1, ConflictsInv
  <2> QED
    BY <1>3, <2>1, <2>2, <2>3
<1> QED
  BY <1>4, <1>5, <1>6

LEMMA VerifyInv == ASSUME RecordsInv, NEW j \in Jobs, Verify(j) PROVE RecordsInv'
<1>1. job[j].pc \in Calls /\ UNCHANGED <<record, settings, clean, overtaken>>
      /\ job[j].attention \in SUBSET RecordNames
  BY DEF Verify, At_, Calls, RecordsInv, JobsInv, Job
<1>2. CASE Classify(Name(j), job[j].ip) = "ok"
  BY <1>1, <1>2, GoesInv DEF Verify, Goes
<1>3. CASE Classify(Name(j), job[j].ip) # "ok"
  BY <1>1, <1>3, ConflictsInv DEF Verify
<1> QED
  BY <1>2, <1>3

LEMMA EndsInv ==
  ASSUME RecordsInv, NEW j \in Jobs, CallFails(j) \/ Abandoned(j) \/ Answered(j)
  PROVE  RecordsInv'
<1>1. CASE CallFails(j)
  BY <1>1, FailsInv DEF CallFails, Calls
<1>2. CASE Abandoned(j) \/ Answered(j)
  BY <1>2, QuitsInv DEF Abandoned, Answered
<1> QED
  BY <1>1, <1>2
(* A record by its fields. *)
LEMMA ItsFields ==
  ASSUME NEW q \in Record, NEW new \in Record, q.name = new.name, q.type = new.type,
         q.content = new.content, new.made = "panel"
  PROVE  [q EXCEPT !.made = "panel"] = new
<1> DEFINE e == [q EXCEPT !.made = "panel"]
<1>1. e \in Record /\ e.name = new.name /\ e.type = new.type /\ e.content = new.content
      /\ e.made = new.made
  BY DEF Record
<1> HIDE DEF e
<1>2. e = new
  BY <1>1 DEF Record
<1> QED
  BY <1>2 DEF e

(* A record is added where there was none. *)
LEMMA Adding ==
  ASSUME Shape, NEW i \in Ids, record[i] = NoRecord, NEW new \in Record,
         record' = [record EXCEPT ![i] = new]
  PROVE  /\ record' \in [Ids -> Record \cup {NoRecord}] /\ record'[i] = new /\ new # NoRecord
         /\ \A k \in Ids \ {i} : record'[k] = record[k]
         /\ \A name : name # new.name =>
              At(name)' = At(name) /\ Same(name)' = Same(name) /\ Ours(name)' = Ours(name)
         /\ \A name : Ours(name)' \subseteq Ours(name) \cup {i}
         /\ new.made # "panel" => \A name : Ours(name)' = Ours(name)
<1>1. /\ record' \in [Ids -> Record \cup {NoRecord}] /\ record'[i] = new
      /\ new # NoRecord /\ \A k \in Ids \ {i} : record'[k] = record[k]
  BY RecordsAssumption DEF Shape, RecordsAssumption
<1>2. ASSUME NEW name
      PROVE  /\ At(name)' = IF new.name = name THEN At(name) \cup {i} ELSE At(name)
             /\ i \notin At(name)
  BY <1>1 DEF At
<1>3. ASSUME NEW name
      PROVE  Same(name)' = IF new.name = name /\ new.type = Type(name)
                           THEN Same(name) \cup {i} ELSE Same(name)
  BY <1>1, <1>2 DEF Same
<1>4. ASSUME NEW name
      PROVE  Ours(name)' = IF new.name = name /\ new.type = Type(name) /\ new.made = "panel"
                           THEN Ours(name) \cup {i} ELSE Ours(name)
  <2>1. \A k \in Same(name) : k # i /\ k \in Ids
    BY <1>2 DEF Same, At
  <2> QED
    BY <1>1, <1>3, <2>1 DEF Ours
<1> QED
  BY <1>1, <1>2, <1>3, <1>4

(* What a job has created: it is the only one of the panel's at its name,   *)
(* because Cloudflare would have refused it beside what was made meanwhile. *)
LEMMA Created ==
  ASSUME RecordsInv, NEW j \in Jobs, Create(j), NEW i \in Unused, NEW new \in Record,
         record' = [record EXCEPT ![i] = new], new.name = Name(j), new.type = Type(Name(j)),
         new.content = Content(Name(j), job[j].ip), new.made = "panel",
         JobsInv', \A k \in Jobs \ {j} : job'[k] = job[k],
         job'[j] = NoJob \/ SameWork(job'[j], job[j]), job'[j].pc \notin {"update", "create"},
         clean' \subseteq clean, clean' \subseteq {j},
         j \in clean' => \A name \in job'[j].about :
           name \in ToSet(job'[j].todo) \/ name \in job'[j].attention
             \/ (name # Name(j) /\ Classify(name, job'[j].ip) = "ok")
  PROVE  RecordsInv'
<1>1. job[j].pc = "create" /\ UNCHANGED <<settings, overtaken>>
      /\ ~\E k \in At(Name(j)) : [record[k] EXCEPT !.made = "panel"] = new
  <2>1. new = [name |-> Name(j), type |-> Type(Name(j)),
               content |-> Content(Name(j), job[j].ip), made |-> "panel"]
    BY DEF Record
  <2> QED
    BY <2>1 DEF Create, At_
<1>2. i \in Ids /\ record[i] = NoRecord /\ \A k \in Jobs : i \notin job[k].found
  BY DEF Unused
<1>3. /\ record' \in [Ids -> Record \cup {NoRecord}] /\ record'[i] = new /\ new # NoRecord
      /\ \A k \in Ids \ {i} : record'[k] = record[k]
      /\ \A name : name # Name(j) =>
           At(name)' = At(name) /\ Same(name)' = Same(name) /\ Ours(name)' = Ours(name)
      /\ \A name : Ours(name)' \subseteq Ours(name) \cup {i}
  <2>1. Shape
    BY DEF RecordsInv
  <2>2. /\ record' \in [Ids -> Record \cup {NoRecord}] /\ record'[i] = new /\ new # NoRecord
        /\ \A k \in Ids \ {i} : record'[k] = record[k]
    BY <1>2, <2>1, Adding
  <2>3. /\ \A name : name # new.name =>
             At(name)' = At(name) /\ Same(name)' = Same(name) /\ Ours(name)' = Ours(name)
        /\ \A name : Ours(name)' \subseteq Ours(name) \cup {i}
    BY <1>2, <2>1, Adding
  <2> QED
    BY <2>2, <2>3
<1>4. \A k \in Jobs : job'[k].pc # "idle" => job[k].pc # "idle" /\ job'[k].ip = job[k].ip
  BY <1>1 DEF SameWork, NoJob
<1>5. Shape' /\ OneAddress'
  BY <1>1, <1>3, <1>4 DEF RecordsInv, Shape, OneAddress
<1>6. Upserts'
  <2> SUFFICES ASSUME NEW k \in Jobs, job'[k].pc = "update"
               PROVE  job'[k].found # {} /\ \A m \in job'[k].found :
                        record'[m] # NoRecord => record'[m].name = PanelName
    BY DEF Upserts
  <2>1. /\ job'[k] = job[k] /\ job[k].found \subseteq Ids \ {i} /\ job[k].found # {}
        /\ \A m \in job[k].found : record[m] # NoRecord => record[m].name = PanelName
    BY <1>2 DEF RecordsInv, JobsInv, Job, Upserts
  <2> QED
    BY <1>3, <2>1
<1>7. Fresh'
  <2> SUFFICES ASSUME ~overtaken', NEW k \in Jobs, job'[k].pc = "create", NEW m \in Ours(Name(k))'
               PROVE  record'[m].content = Content(Name(k), job[k].ip)'
    BY DEF Fresh
  <2>1. k # j /\ job'[k] = job[k] /\ job[k].ip = job[j].ip
    BY <1>1 DEF RecordsInv, OneAddress
  <2>2. Content(Name(k), job[k].ip)' = Content(Name(k), job[k].ip) /\ Name(k)' = Name(k)
    BY <2>1 DEF Content, Name
  <2>3. m \in Ours(Name(k)) \cup {i} /\ (m = i => Name(k) = Name(j))
    BY <1>2, <1>3, <2>2 DEF Ours, Same, At
  <2>4. CASE m = i
    BY <1>3, <2>1, <2>2, <2>3, <2>4
  <2>5. CASE m # i
    <3>1. record[m].content = Content(Name(k), job[k].ip) /\ m \in Ids
      BY <1>1, <2>1, <2>3, <2>5 DEF RecordsInv, Fresh, Ours, Same, At
    <3> QED
      BY <1>3, <2>2, <2>5, <3>1
  <2> QED
    BY <2>4, <2>5
<1>8. Single'
  <2>1. ASSUME ~overtaken PROVE Ours(Name(j)) = {}
    <3> SUFFICES ASSUME NEW m \in Ours(Name(j)) PROVE FALSE
      OBVIOUS
    <3>1. record[m].content = new.content
      BY <1>1, <2>1 DEF RecordsInv, Fresh
    <3>2. /\ m \in At(Name(j)) /\ m \in Ids /\ record[m] # NoRecord
          /\ record[m].name = new.name /\ record[m].type = new.type
      BY DEF Ours, Same, At
    <3>3. record[m] \in Record
      BY <3>2 DEF RecordsInv, Shape
    <3> DEFINE q == record[m]
    <3> HIDE DEF q
    <3>4. [q EXCEPT !.made = "panel"] = new
      BY <3>1, <3>2, <3>3, ItsFields DEF q
    <3> QED
      BY <1>1, <3>2, <3>4 DEF q
  <2>2. ASSUME ~overtaken, NEW name \in RecordNames, NEW m \in Ours(name)', NEW k \in Ours(name)'
        PROVE  m = k
    <3>1. CASE name = Name(j)
      BY <1>3, <2>1, <2>2, <3>1
    <3>2. CASE name # Name(j)
      BY <1>3, <2>2, <3>2 DEF RecordsInv, Single
    <3> QED
      BY <3>1, <3>2
  <2> QED
    BY <1>1, <2>2 DEF Single
<1>9. Repaired'
  <2> SUFFICES ASSUME j \in clean', NEW name \in job'[j].about
               PROVE  name \in ToSet(job'[j].todo) \/ name \in job'[j].attention
                        \/ Classify(name, job[j].ip)' = "ok"
    BY DEF Repaired, Settled
  <2>1. CASE name # Name(j) /\ Classify(name, job'[j].ip) = "ok"
    <3>1. /\ At(name)' = At(name) /\ Same(name)' = Same(name)
          /\ At(name) \subseteq Ids \ {i} /\ Same(name) \subseteq At(name)
      BY <1>2, <1>3, <2>1 DEF At, Same
    <3>2. \A k \in At(name) : record'[k] = record[k]
      BY <1>3, <3>1
    <3>3. \A ip : Classify(name, ip)' = Classify(name, ip)
      BY <3>1, <3>2 DEF Classify
    <3> QED
      BY <2>1, <3>3
  <2> QED
    BY <2>1
<1> QED
  BY <1>5, <1>6, <1>7, <1>8, <1>9 DEF RecordsInv
LEMMA CreateInv == ASSUME RecordsInv, NEW j \in Jobs, Create(j) PROVE RecordsInv'
<1> DEFINE new == [name |-> Name(j), type |-> Type(Name(j)),
                   content |-> Content(Name(j), job[j].ip), made |-> "panel"]
<1>1. PICK i \in Unused : record' = [record EXCEPT ![i] = new]
  BY DEF Create
<1>2. job[j].pc = "create" /\ job[j].pc \in Calls /\ job[j].attention \in SUBSET RecordNames
  BY DEF Create, At_, Calls, RecordsInv, JobsInv, Job
<1>3. new \in Record
  <2>1. Name(j) \in RecordNames /\ Content(Name(j), job[j].ip) \in Ips \cup {NsHost}
    BY <1>2, AtWork DEF RecordsInv
  <2> QED
    BY <2>1 DEF Record, Type
<1>4. /\ new.name = Name(j) /\ new.type = Type(Name(j))
      /\ new.content = Content(Name(j), job[j].ip) /\ new.made = "panel"
  OBVIOUS
<1> HIDE DEF new
<1>5. ASSUME NEW attention \in SUBSET RecordNames, GoesWith(j, attention)
      PROVE  /\ JobsInv' /\ \A k \in Jobs \ {j} : job'[k] = job[k]
             /\ job'[j] = NoJob \/ SameWork(job'[j], job[j])
             /\ job'[j].pc \notin {"update", "create"}
  <2>1. /\ JobsInv' /\ \A k \in Jobs \ {j} : job'[k] = job[k]
        /\ \/ job'[j] = NoJob
           \/ SameWork(job'[j], job[j]) /\ job'[j].pc \in {"look", "done"}
    BY <1>2, <1>5, GoesIs DEF RecordsInv
  <2> QED
    BY <2>1 DEF NoJob
<1>6. CASE Name(j) = PanelName /\ Goes(j) /\ Disturb(j)
  <2>1. /\ JobsInv' /\ \A k \in Jobs \ {j} : job'[k] = job[k]
        /\ job'[j] = NoJob \/ SameWork(job'[j], job[j])
        /\ job'[j].pc \notin {"update", "create"}
    BY <1>2, <1>5, <1>6 DEF Goes
  <2>2. job'[j].about = {}
    <3>1. job[j].kind # "repair"
      BY <1>2, <1>6, PanelNotRepaired DEF RecordsInv
    <3> QED
      BY <2>1, <3>1 DEF RecordsInv, JobsInv, KnownJob, SameWork, NoJob
  <2>3. clean' \subseteq clean /\ clean' \subseteq {j}
    BY <1>6 DEF Disturb
  <2> QED
    BY <1>1, <1>3, <1>4, <2>1, <2>2, <2>3, Created
<1>7. CASE Name(j) # PanelName /\ Turns(j, "verify", {}) /\ Disturb(j)
  <2>1. /\ JobsInv' /\ \A k \in Jobs \ {j} : job'[k] = job[k]
        /\ SameWork(job'[j], job[j]) /\ job'[j].todo = job[j].todo
        /\ job'[j].attention = job[j].attention /\ job'[j].pc = "verify"
    <3>1. {} \in SUBSET Ids /\ "verify" \in Calls
      BY DEF Calls
    <3> QED
      BY <1>2, <1>7, <3>1, TurnsIs DEF RecordsInv
  <2>2. clean' \subseteq clean /\ clean' \subseteq {j}
    BY <1>7 DEF Disturb
  <2>3. Name(j) \in ToSet(job[j].todo)
    BY <1>2, AtWork DEF RecordsInv
  <2>4. ASSUME j \in clean', NEW name \in job'[j].about
        PROVE  name \in ToSet(job'[j].todo) \/ name \in job'[j].attention
                 \/ (name # Name(j) /\ Classify(name, job'[j].ip) = "ok")
    <3>1. Settled(job[j])
      BY <2>2, <2>4 DEF RecordsInv, Repaired
    <3>2. Settled(job'[j])
      BY <2>1, <3>1 DEF Settled, SameWork
    <3> QED
      BY <2>1, <2>3, <2>4, <3>2 DEF Settled
  <2> QED
    BY <1>1, <1>3, <1>4, <2>1, <2>2, <2>4, Created
<1>8. CASE Fails(j) /\ clean' = {}
  <2>1. /\ JobsInv' /\ \A k \in Jobs \ {j} : job'[k] = job[k]
        /\ job'[j] = NoJob \/ SameWork(job'[j], job[j])
        /\ job'[j].pc \notin {"update", "create"}
    <3>1. CASE job[j].kind = "repair"
      BY <1>2, <1>5, <1>8, <3>1 DEF Fails, Goes
    <3>2. CASE job[j].kind # "repair"
      <4>1. JobsInv' /\ job'[j] = NoJob /\ \A k \in Jobs \ {j} : job'[k] = job[k]
        BY <1>8, <3>2, QuitsIs DEF Fails, RecordsInv
      <4> QED
        BY <4>1 DEF NoJob
    <3> QED
      BY <3>1, <3>2
  <2> QED
    BY <1>1, <1>3, <1>4, <1>8, <2>1, Created
<1> QED
  BY <1>6, <1>7, <1>8 DEF Create

(* An update changes the address in one record and moves none; no repair    *)
(* makes one.                                                               *)
LEMMA UpdateInv == ASSUME RecordsInv, NEW j \in Jobs, Update(j) PROVE RecordsInv'
<1> DEFINE i == CHOOSE i \in job[j].found : TRUE
<1>1. /\ job[j].pc = "update" /\ job[j].pc \in Calls /\ record[i] # NoRecord
      /\ record' = [record EXCEPT ![i].content = job[j].ip]
      /\ (Goes(j) /\ Disturb(j)) \/ (Fails(j) /\ clean' = {})
      /\ UNCHANGED <<settings, overtaken>>
  BY DEF Update, At_, Calls
<1>2. i \in job[j].found /\ i \in Ids /\ job[j].attention \in SUBSET RecordNames
  BY <1>1 DEF RecordsInv, Upserts, JobsInv, Job
<1>3. record[i] \in Record /\ record[i].name = PanelName /\ job[j].ip \in Ips
  BY <1>1, <1>2, AtWork DEF RecordsInv, Upserts, Shape
<1> HIDE DEF i
<1> DEFINE new == [record[i] EXCEPT !.content = job[j].ip]
<1>4. /\ new \in Record /\ new.name = record[i].name /\ new.type = record[i].type
      /\ new.made = record[i].made /\ new.content = job[j].ip
  BY <1>3 DEF Record
<1>5. record' = [record EXCEPT ![i] = new]
  BY <1>1
<1> HIDE DEF new
<1>6. /\ record' \in [Ids -> Record \cup {NoRecord}] /\ record'[i] = new /\ new # NoRecord
      /\ \A k \in Ids \ {i} : record'[k] = record[k]
  BY <1>2, <1>4, <1>5, RecordsAssumption DEF RecordsInv, Shape, RecordsAssumption
<1>7. ASSUME NEW name PROVE Ours(name)' = Ours(name)
  <2>1. \A k \in Ids : /\ record'[k] # NoRecord <=> record[k] # NoRecord
                       /\ record'[k].name = record[k].name /\ record'[k].type = record[k].type
                       /\ record'[k].made = record[k].made
    BY <1>1, <1>4, <1>6
  <2>2. At(name)' = At(name)
    BY <2>1 DEF At
  <2>3. Same(name)' = Same(name) /\ Same(name) \subseteq Ids
    BY <2>1, <2>2 DEF Same, At
  <2> QED
    BY <2>1, <2>3 DEF Ours
<1>8. job[j].kind # "repair" /\ job[j].about = {}
  BY <1>1 DEF RecordsInv, JobsInv, KnownJob
<1>9. /\ JobsInv' /\ \A k \in Jobs \ {j} : job'[k] = job[k]
      /\ \/ job'[j] = NoJob
         \/ SameWork(job'[j], job[j]) /\ job'[j].pc \in {"look", "done"}
  <2>1. Goes(j) \/ Quits(j)
    BY <1>1, <1>8 DEF Fails
  <2>2. CASE Goes(j)
    BY <1>1, <1>2, <2>2, GoesIs DEF RecordsInv, Goes
  <2>3. CASE Quits(j)
    BY <2>3, QuitsIs DEF RecordsInv
  <2> QED
    BY <2>1, <2>2, <2>3
<1>10. job'[j].pc \notin {"update", "create"} /\ job'[j].about = {} /\ clean' \subseteq clean \cap {j}
  BY <1>1, <1>8, <1>9 DEF NoJob, SameWork, Disturb
<1>11. Shape' /\ OneAddress'
  <2>1. \A k \in Jobs : job'[k].pc # "idle" => job[k].pc # "idle" /\ job'[k].ip = job[k].ip
    BY <1>1, <1>9 DEF SameWork, NoJob
  <2> QED
    BY <1>1, <1>6, <1>10, <2>1 DEF RecordsInv, Shape, OneAddress
<1>12. Upserts'
  <2> SUFFICES ASSUME NEW k \in Jobs, job'[k].pc = "update"
               PROVE  job'[k].found # {} /\ \A m \in job'[k].found :
                        record'[m] # NoRecord => record'[m].name = PanelName
    BY DEF Upserts
  <2>1. /\ job'[k] = job[k] /\ job[k].found \subseteq Ids /\ job[k].found # {}
        /\ \A m \in job[k].found : record[m] # NoRecord => record[m].name = PanelName
    BY <1>9, <1>10 DEF RecordsInv, JobsInv, Job, Upserts
  <2> QED
    BY <1>3, <1>4, <1>6, <2>1
<1>13. Fresh'
  <2> SUFFICES ASSUME ~overtaken', NEW k \in Jobs, job'[k].pc = "create", NEW m \in Ours(Name(k))'
               PROVE  record'[m].content = Content(Name(k), job[k].ip)'
    BY DEF Fresh
  <2>1. k # j /\ job'[k] = job[k] /\ job[k].ip = job[j].ip
    BY <1>1, <1>9, <1>10 DEF RecordsInv, OneAddress
  <2>2. Content(Name(k), job[k].ip)' = Content(Name(k), job[k].ip) /\ Name(k)' = Name(k)
    BY <2>1 DEF Content, Name
  <2>3. m \in Ours(Name(k)) /\ m \in Ids /\ record[m].name = Name(k)
    BY <1>7, <2>2 DEF Ours, Same, At
  <2>4. CASE m = i
    <3>1. Name(k) \notin Children
      BY <1>3, <2>3, <2>4, RecordsAssumption DEF RecordsAssumption
    <3>2. record'[m].content = job[j].ip
      BY <1>4, <1>6, <2>4
    <3> QED
      BY <2>1, <2>2, <3>1, <3>2 DEF Content
  <2>5. CASE m # i
    <3>1. record[m].content = Content(Name(k), job[k].ip)
      BY <1>1, <2>1, <2>3 DEF RecordsInv, Fresh
    <3> QED
      BY <1>6, <2>2, <2>3, <2>5, <3>1
  <2> QED
    BY <2>4, <2>5
<1>14. Single'
  BY <1>1, <1>7 DEF RecordsInv, Single
<1>15. Repaired'
  BY <1>10 DEF Repaired, Settled
<1> QED
  BY <1>9, <1>11, <1>12, <1>13, <1>14, <1>15 DEF RecordsInv

(* Records go, at the operator's hand or at a deletion's.                   *)
LEMMA Losing ==
  ASSUME RecordsInv, NEW i \in Ids, record' = [record EXCEPT ![i] = NoRecord],
         NEW left \in SUBSET Jobs,
         JobsInv', \A k \in Jobs : k \in left \/ job'[k] = job[k],
         \A k \in left : /\ SameWork(job'[k], job[k]) /\ job[k].pc # "idle"
                         /\ job'[k].pc \notin {"update", "create"},
         UNCHANGED <<settings, overtaken>>, clean' \subseteq clean,
         \A k \in clean' : job'[k].about = {}
  PROVE  RecordsInv'
<1>1. /\ record' \in [Ids -> Record \cup {NoRecord}] /\ record'[i] = NoRecord
      /\ \A k \in Ids \ {i} : record'[k] = record[k]
  BY DEF RecordsInv, Shape
<1>2. ASSUME NEW name
      PROVE  Ours(name)' \subseteq Ours(name) \ {i} /\ Ours(name) \subseteq Ids
  <2>1. At(name)' = At(name) \ {i} /\ At(name) \subseteq Ids
    BY <1>1 DEF At
  <2>2. Same(name)' \subseteq Same(name) \ {i} /\ Same(name) \subseteq Ids
    BY <1>1, <2>1 DEF Same
  <2> QED
    BY <1>1, <2>2 DEF Ours
<1>3. Shape' /\ OneAddress' /\ Single' /\ Repaired'
  <2>1. \A k \in Jobs : job'[k].pc # "idle" => job[k].pc # "idle" /\ job'[k].ip = job[k].ip
    BY DEF SameWork
  <2>2. Single'
    BY <1>2 DEF RecordsInv, Single
  <2> QED
    BY <1>1, <2>1, <2>2 DEF RecordsInv, Shape, OneAddress, Repaired, Settled
<1>4. Upserts'
  <2> SUFFICES ASSUME NEW k \in Jobs, job'[k].pc = "update"
               PROVE  job'[k].found # {} /\ \A m \in job'[k].found :
                        record'[m] # NoRecord => record'[m].name = PanelName
    BY DEF Upserts
  <2>1. /\ job'[k] = job[k] /\ job[k].found \subseteq Ids /\ job[k].found # {}
        /\ \A m \in job[k].found : record[m] # NoRecord => record[m].name = PanelName
    BY DEF RecordsInv, JobsInv, Job, Upserts
  <2> QED
    BY <1>1, <2>1
<1>5. Fresh'
  <2> SUFFICES ASSUME ~overtaken', NEW k \in Jobs, job'[k].pc = "create", NEW m \in Ours(Name(k))'
               PROVE  record'[m].content = Content(Name(k), job[k].ip)'
    BY DEF Fresh
  <2>1. job'[k] = job[k]
    OBVIOUS
  <2>2. Content(Name(k), job[k].ip)' = Content(Name(k), job[k].ip) /\ Name(k)' = Name(k)
    BY <2>1 DEF Content, Name
  <2>3. m \in Ours(Name(k)) \ {i} /\ m \in Ids
    BY <1>2, <2>2
  <2>4. record[m].content = Content(Name(k), job[k].ip)
    BY <2>1, <2>3 DEF RecordsInv, Fresh
  <2> QED
    BY <1>1, <2>2, <2>3, <2>4
<1> QED
  BY <1>3, <1>4, <1>5 DEF RecordsInv
LEMMA DeleteInv == ASSUME RecordsInv, NEW j \in Jobs, Delete(j) PROVE RecordsInv'
<1>1. job[j].pc = "delete" /\ job[j].pc \in Calls /\ UNCHANGED <<settings, overtaken>>
      /\ job[j].found \in SUBSET Ids /\ job[j].attention \in SUBSET RecordNames
  BY DEF Delete, At_, Calls, RecordsInv, JobsInv, Job
<1>2. job[j].kind # "repair" /\ job[j].about = {}
  BY <1>1 DEF RecordsInv, JobsInv, KnownJob
<1>3. CASE job[j].found = {} /\ Goes(j) /\ UNCHANGED <<record, clean>>
  BY <1>1, <1>2, <1>3, GoesInv DEF Goes
<1>4. ASSUME NEW i \in job[j].found, Turns(j, "delete", job[j].found \ {i}),
             UNCHANGED record, clean' = clean \ {j}
      PROVE  RecordsInv'
  <2> DEFINE found == job[j].found \ {i}
  <2>1. found \in SUBSET Ids /\ Turns(j, "delete", found)
    BY <1>1, <1>4
  <2> HIDE DEF found
  <2> QED
    BY <1>1, <1>2, <1>4, <2>1, TurnsInv DEF Calls
<1>5. ASSUME NEW i \in job[j].found, Turns(j, "delete", job[j].found \ {i}),
             record' = [record EXCEPT ![i] = NoRecord], Disturb(j)
      PROVE  RecordsInv'
  <2> DEFINE found == job[j].found \ {i}
  <2>1. found \in SUBSET Ids /\ Turns(j, "delete", found) /\ i \in Ids
    BY <1>1, <1>5
  <2> HIDE DEF found
  <2>2. /\ JobsInv' /\ \A k \in Jobs \ {j} : job'[k] = job[k]
        /\ SameWork(job'[j], job[j]) /\ job'[j].pc = "delete"
    BY <1>1, <1>2, <2>1, TurnsIs DEF RecordsInv, Calls
  <2>3. job'[j].about = {} /\ clean' \subseteq clean \cap {j}
    BY <1>2, <1>5, <2>2 DEF SameWork, Disturb
  <2> DEFINE left == {j}
  <2>4. /\ left \in SUBSET Jobs /\ \A k \in Jobs : k \in left \/ job'[k] = job[k]
        /\ \A k \in left : /\ SameWork(job'[k], job[k]) /\ job[k].pc # "idle"
                           /\ job'[k].pc \notin {"update", "create"}
    BY <1>1, <2>2
  <2> HIDE DEF left
  <2> QED
    BY <1>1, <1>5, <2>1, <2>2, <2>3, <2>4, Losing
<1> QED
  BY <1>3, <1>4, <1>5 DEF Delete

LEMMA OperatorInv == ASSUME RecordsInv, OperatorEdits PROVE RecordsInv'
<1>1. UNCHANGED <<settings, job, overtaken>> /\ clean' = {} /\ JobsInv'
  BY DEF OperatorEdits, RecordsInv, JobsInv
<1>2. PICK i \in Ids :
        \/ i \in Unused /\ \E r \in OperatorRecords : record' = [record EXCEPT ![i] = r]
        \/ record' = [record EXCEPT ![i] = NoRecord]
  BY DEF OperatorEdits
<1>3. CASE record' = [record EXCEPT ![i] = NoRecord]
  <2>1. {} \in SUBSET Jobs
    OBVIOUS
  <2> QED
    BY <1>1, <1>3, <2>1, Losing
<1>4. ASSUME i \in Unused, NEW r \in OperatorRecords, record' = [record EXCEPT ![i] = r]
      PROVE  RecordsInv'
  <2>1. r \in Record /\ r.made # "panel" /\ record[i] = NoRecord /\ Shape
        /\ \A k \in Jobs : i \notin job[k].found
    BY <1>4, RecordsAssumption DEF RecordsAssumption, Unused, RecordsInv
  <2>2. /\ record' \in [Ids -> Record \cup {NoRecord}]
        /\ \A k \in Ids \ {i} : record'[k] = record[k]
        /\ \A name : Ours(name)' = Ours(name)
    BY <1>4, <2>1, Adding
  <2>3. \A name : Ours(name) \subseteq Ids \ {i}
    BY <2>1 DEF Ours, Same, At
  <2>4. Shape' /\ OneAddress' /\ Single' /\ Repaired'
    <3>1. Single'
      BY <1>1, <2>2 DEF RecordsInv, Single
    <3> QED
      BY <1>1, <2>2, <3>1 DEF RecordsInv, Shape, OneAddress, Repaired
  <2>5. Upserts'
    <3> SUFFICES ASSUME NEW k \in Jobs, job'[k].pc = "update"
                 PROVE  job'[k].found # {} /\ \A m \in job'[k].found :
                          record'[m] # NoRecord => record'[m].name = PanelName
      BY DEF Upserts
    <3>1. /\ job'[k] = job[k] /\ job[k].found \subseteq Ids \ {i} /\ job[k].found # {}
          /\ \A m \in job[k].found : record[m] # NoRecord => record[m].name = PanelName
      BY <1>1, <2>1 DEF RecordsInv, JobsInv, Job, Upserts
    <3> QED
      BY <2>2, <3>1
  <2>6. Fresh'
    <3> SUFFICES ASSUME ~overtaken', NEW k \in Jobs, job'[k].pc = "create", NEW m \in Ours(Name(k))'
                 PROVE  record'[m].content = Content(Name(k), job[k].ip)'
      BY DEF Fresh
    <3>1. Content(Name(k), job[k].ip)' = Content(Name(k), job[k].ip) /\ Name(k)' = Name(k)
      BY <1>1 DEF Content, Name
    <3>2. m \in Ours(Name(k)) /\ m \in Ids \ {i}
      BY <2>2, <2>3, <3>1
    <3>3. record[m].content = Content(Name(k), job[k].ip)
      BY <1>1, <3>2 DEF RecordsInv, Fresh
    <3> QED
      BY <2>2, <3>1, <3>2, <3>3
  <2> QED
    BY <1>1, <2>4, <2>5, <2>6 DEF RecordsInv
<1> QED
  BY <1>2, <1>3, <1>4

LEMMA RecordsStep == RecordsInv /\ [RecordsNext]_rvars => RecordsInv'
<1> SUFFICES ASSUME RecordsInv, [RecordsNext]_rvars PROVE RecordsInv'
  OBVIOUS
<1>1. ASSUME NEW j \in Jobs, JobStep(j) PROVE RecordsInv'
  BY <1>1, StartsInv, LookInv, CreateInv, VerifyInv, UpdateInv, DeleteInv, EndsInv DEF JobStep
<1>2. CASE DeleteSettings \/ UNCHANGED rvars
  <2>1. UNCHANGED <<record, job, clean, overtaken>> /\ settings' \in {settings, NoIp}
    BY <1>2 DEF DeleteSettings, rvars
  <2>2. OneAddress'
    BY <2>1 DEF RecordsInv, OneAddress
  <2>3. Fresh' /\ Single' /\ Upserts' /\ JobsInv' /\ Shape'
    BY <2>1 DEF RecordsInv, Fresh, Single, Ours, Same, At, Name, Content, Upserts, JobsInv, Shape
  <2>4. Repaired'
    BY <2>1 DEF RecordsInv, Repaired, Settled, Classify, Same, At
  <2> QED
    BY <2>2, <2>3, <2>4 DEF RecordsInv
<1> QED
  BY <1>1, <1>2, OperatorInv DEF RecordsNext

LEMMA RecordsInvAlways == RecordsSpec => []RecordsInv
BY RecordsInitInv, RecordsStep, PTL DEF RecordsSpec

(* A repair that nothing has disturbed and no call failed in leaves each    *)
(* record it is about right or reported, for any names, lists of zones,     *)
(* number of handlers and records of the operator's own.                    *)
THEOREM RepairsEndRight == RecordsSpec => []RepairEndsRight
<1>1. RecordsInv => RepairEndsRight
  <2> SUFFICES ASSUME RecordsInv, NEW j \in clean, job[j].kind = "repair", job[j].pc = "done",
                      NEW name \in job[j].about
               PROVE  Classify(name, job[j].ip) = "ok" \/ name \in job[j].attention
    BY DEF RepairEndsRight
  <2>1. Settled(job[j]) /\ KnownJob(job[j])
    BY DEF RecordsInv, Shape, JobsInv, Repaired
  <2>2. ToSet(<< >>) = {}
    BY DEF ToSet
  <2> QED
    BY <2>1, <2>2 DEF Settled, KnownJob
<1> QED
  BY <1>1, RecordsInvAlways, PTL

(* No two records that the panel has made stand at one name, whatever is    *)
(* lost or edited meanwhile and however many handlers look at once, as long *)
(* as none of them still has the settings of before.                        *)
THEOREM NeverTwoRecords == RecordsSpec => []OneRecordPerName
<1>1. RecordsInv => OneRecordPerName
  <2> SUFFICES ASSUME RecordsInv, ~overtaken, NEW name \in RecordNames
               PROVE  Cardinality({i \in Same(name) : record[i].made = "panel"}) <= 1
    BY DEF OneRecordPerName
  <2> DEFINE ours == {i \in Same(name) : record[i].made = "panel"}
  <2>1. \A i, k \in ours : i = k
    BY DEF RecordsInv, Single, Ours
  <2> SUFFICES Cardinality(ours) <= 1
    OBVIOUS
  <2> HIDE DEF ours
  <2>2. CASE ours = {}
    BY <2>2, FS_EmptySet
  <2>3. CASE ours # {}
    <3>1. PICK i \in ours : ours = {i}
      BY <2>1, <2>3
    <3> QED
      BY <3>1, FS_Singleton
  <2> QED
    BY <2>2, <2>3
<1> QED
  BY <1>1, RecordsInvAlways, PTL
(* Records, jobs and the settings keep their shapes. *)
THEOREM RecordsTyped == RecordsSpec => []RecordsTypeOK
<1> DEFINE Flag == overtaken \in BOOLEAN
<1>1. RecordsInit => Flag
  BY DEF RecordsInit
<1>2. Flag /\ [RecordsNext]_rvars => Flag'
  <2> SUFFICES ASSUME Flag, [RecordsNext]_rvars PROVE Flag'
    OBVIOUS
  <2>1. ASSUME NEW j \in Jobs, JobStep(j)
        PROVE  overtaken' = overtaken \/ overtaken' = (overtaken \/ OvertakenBy(settings'))
    <3>1. CASE PutSettings(j)
      BY <3>1 DEF PutSettings
    <3>2. CASE ~PutSettings(j)
      BY <2>1, <3>2
         DEF JobStep, SyncRecords, CreateZoneRecord, DeleteZoneRecords, RepairStarts, Look, Create,
             Verify, Update, Delete, CallFails, Abandoned, Answered
    <3> QED
      BY <3>1, <3>2
  <2> QED
    BY <2>1 DEF RecordsNext, DeleteSettings, OperatorEdits, rvars
<1>3. RecordsInv /\ Flag => RecordsTypeOK
  BY DEF RecordsInv, Shape, JobsInv, RecordsTypeOK
<1> QED
  BY <1>1, <1>2, <1>3, RecordsInvAlways, PTL DEF RecordsSpec
=============================================================================
