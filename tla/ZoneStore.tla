----------------------------- MODULE ZoneStore -----------------------------
(***************************************************************************)
(* The DNS zones of the panel: the rows (crates/panel/src/db.rs, dns_zone), *)
(* the list the resolver reads (state.rs, zones), the handlers that edit    *)
(* the one and refresh the other (api.rs, create_zone, delete_zone,         *)
(* put_cf_settings, refresh_zones), the integrity check, which looks at     *)
(* both and may repair the rows (dns_integrity.rs), and the two ways a      *)
(* query name is matched to a zone: served_zone (dns/handler.rs), by whole  *)
(* labels and longest apex, and the start of resolve (dns/answer.rs), by    *)
(* text.                                                                    *)
(*                                                                          *)
(* A name is a model value; CONSTANTS say which names end with which.  An   *)
(* apex is kept as it was typed: `canonical` is FALSE when that is in upper *)
(* case or with a dot at the end, which a query name never is.  Left out:   *)
(* an apex that is no name at all, and the Cloudflare calls of the same     *)
(* handlers (CfRecords).                                                    *)
(***************************************************************************)
EXTENDS Naturals

CONSTANTS
  Names,          \* lower-case names, without the dot at the end
  EndsWith,       \* <<n, m>>: the text of n ends with that of m, n longer
  Below,          \* the same with a dot in between: n is in the domain m
  Zones,          \* ids of zone rows; ids are random, their order is fixed
  NoZone,
  ZoneSpecs,      \* the zones the operator may create
  CfDomain,       \* the configured parent domain,
  SettingsZone,   \* and the zone put_cf_settings creates: subdomain.domain
  Requests

ZoneSpec == [apex : Names, canonical : BOOLEAN, ns : BOOLEAN]

ASSUME ZonesAssumption == Zones \subseteq Nat /\ NoZone \notin Zones
ASSUME NamesAssumption ==
  /\ Below \subseteq EndsWith /\ EndsWith \subseteq Names \X Names
  /\ \A n \in Names : <<n, n>> \notin EndsWith
  /\ \A n, m, k \in Names :
       <<n, m>> \in EndsWith /\ <<m, k>> \in EndsWith => <<n, k>> \in EndsWith
ASSUME SpecsAssumption ==
  CfDomain \in Names /\ ZoneSpecs \cup {SettingsZone} \subseteq ZoneSpec /\ NoZone \notin ZoneSpec

VARIABLES
  db_zones,       \* the rows: id -> zone, or NoZone
  zones,          \* what the resolver reads
  handler,        \* request -> [pc, seen, todo]: a handler, the list it has read,
                  \* and the children an integrity check has yet to look at
  stale_cause     \* what last left the two differing, until they agree again

zvars == <<db_zones, zones, handler, stale_cause>>

Delegated(spec) == [spec EXCEPT !.ns = TRUE]

ChildZone == [SettingsZone EXCEPT !.canonical = TRUE, !.ns = TRUE]

Rows == [Zones -> ZoneSpec \cup {NoZone}]

(* How the resolver's list can be left behind the rows.                     *)
Causes ==
  {"none", "settings", "overtaken", "list failed", "request ended", "check abandoned"}

HandlerStates ==
  [pc : {"idle", "list", "create", "check list"}, seen : {<< >>}, todo : SUBSET Names] \cup
  [pc : {"store", "check"}, seen : Rows, todo : SUBSET Names]

Idle == [pc |-> "idle", seen |-> << >>, todo |-> {}]

-----------------------------------------------------------------------------
(* Matching a query name to a zone, in the resolver's list *)

Present(list) == {z \in Zones : list[z] # NoZone}

(* The zones a name is in, by whole labels, however the apex was typed.     *)
Covering(list, name) ==
  {z \in Present(list) :
     name = list[z].apex \/ <<name, list[z].apex>> \in Below}

(* served_zone: the longest apex; max_by_key keeps the last of equal ones.  *)
ServedZone(list, name) ==
  LET longest == {z \in Covering(list, name) : \A y \in Covering(list, name) :
                    <<list[y].apex, list[z].apex>> \notin EndsWith}
  IN  IF longest = {} THEN NoZone
      ELSE CHOOSE z \in longest : \A y \in longest : y <= z

(* Mutant of TextMatches: names below the apex only. *)
TextMatchesBelow(list, name) ==
  {z \in Present(list) : list[z].canonical /\ <<name, list[z].apex>> \in EndsWith}

(* The test of resolve: the text of the name ends with the apex as typed.   *)
TextMatches(list, name) ==
  {z \in Present(list) : /\ list[z].canonical
                         /\ name = list[z].apex \/ <<name, list[z].apex>> \in EndsWith}

(* The first such zone of the list, which is in the order of the ids.       *)
MatchedZone(list, name) ==
  LET hits == TextMatches(list, name)
  IN  IF hits = {} THEN NoZone ELSE CHOOSE z \in hits : \A y \in hits : z <= y

-----------------------------------------------------------------------------
(* The handlers.  Each database call is a step of its own. *)

ZoneInit ==
  /\ db_zones \in {[z \in Zones |-> NoZone]}
  /\ zones = db_zones
  /\ handler = [h \in Requests |-> Idle]
  /\ stale_cause = "none"

GoOn(h, pc, seen, todo) ==
  handler' = [handler EXCEPT ![h] = [pc |-> pc, seen |-> seen, todo |-> todo]]

Go(h, pc, seen) == GoOn(h, pc, seen, {})

(* A handler installs the list it has read, however old that is by now.     *)
Installs(h) ==
  /\ zones' = handler[h].seen
  /\ Go(h, "idle", << >>)
  /\ stale_cause' = IF handler[h].seen = db_zones THEN "none" ELSE "overtaken"
  /\ UNCHANGED db_zones

(* A handler ends and leaves the resolver's list as it is.                  *)
GivesUp(h, cause) ==
  /\ Go(h, "idle", << >>)
  /\ stale_cause' = IF zones = db_zones THEN "none" ELSE cause
  /\ UNCHANGED <<db_zones, zones>>

(* create_zone: the row is stored under a new id. *)
CreateZone(h) ==
  /\ handler[h].pc = "idle" /\ Go(h, "list", << >>)
  /\ \E z \in Zones, spec \in ZoneSpecs :
       /\ db_zones[z] = NoZone
       /\ db_zones' = [db_zones EXCEPT ![z] = spec]
  /\ UNCHANGED <<zones, stale_cause>>

(* Mutant of DeleteZone: the resolver is not told. *)
DeleteZoneOnly(h) ==
  /\ handler[h].pc = "idle" /\ Go(h, "idle", << >>)
  /\ \E z \in Zones : db_zones' = [db_zones EXCEPT ![z] = NoZone]
  /\ UNCHANGED <<zones, stale_cause>>

(* delete_zone, of any id: one that does not exist deletes nothing. *)
DeleteZone(h) ==
  /\ handler[h].pc = "idle" /\ Go(h, "list", << >>)
  /\ \E z \in Zones : db_zones' = [db_zones EXCEPT ![z] = NoZone]
  /\ UNCHANGED <<zones, stale_cause>>

(* refresh_zones lists the rows; when that fails it gives up silently. *)
ListZones(h) ==
  /\ handler[h].pc = "list"
  /\ \/ Go(h, "store", db_zones) /\ UNCHANGED <<db_zones, zones, stale_cause>>
     \/ GivesUp(h, "list failed")

(* The client of create_zone or delete_zone hangs up, and the handler is    *)
(* dropped after it has changed the row.                                    *)
RequestEnds(h) == handler[h].pc = "list" /\ GivesUp(h, "request ended")

(* refresh_zones installs what it listed. *)
StoreZones(h) == handler[h].pc = "store" /\ Installs(h)

(* put_cf_settings looks for a zone of the configured name (a failing list  *)
(* counts as no zones) ...                                                  *)
CheckSettingsZone(h) ==
  /\ handler[h].pc = "idle"
  /\ Go(h, "create", << >>)
  /\ UNCHANGED <<db_zones, zones, stale_cause>>

(* ... and creates a missing one, without a refresh.  The name is compared  *)
(* as typed.  The insert may fail unnoticed.                                *)
CreateSettingsZone(h) ==
  /\ handler[h].pc = "create" /\ Go(h, "idle", << >>)
  /\ \/ UNCHANGED <<db_zones, stale_cause>>
     \/ \E z \in Zones :
          /\ db_zones[z] = NoZone
          /\ db_zones' = [db_zones EXCEPT ![z] = SettingsZone]
          /\ stale_cause' = "settings"
  /\ UNCHANGED zones

(* derive_desired_state: the configured child and what the resolver has     *)
(* below the configured domain.                                             *)
Managed == {SettingsZone.apex} \cup
           {name \in {zones[z].apex : z \in Present(zones)} : <<name, CfDomain>> \in Below}

(* inspect_and_repair takes them from memory.  A check that is not to       *)
(* repair anything looks only.                                              *)
CheckStarts(h) ==
  /\ handler[h].pc = "idle"
  /\ \E todo \in {{}, Managed} : GoOn(h, "check list", << >>, todo)
  /\ UNCHANGED <<db_zones, zones, stale_cause>>

(* After the Cloudflare calls it lists the rows; a failure ends it.         *)
CheckLists(h) ==
  /\ handler[h].pc = "check list"
  /\ \/ GoOn(h, "check", db_zones, handler[h].todo)
     \/ Go(h, "idle", << >>)
  /\ UNCHANGED <<db_zones, zones, stale_cause>>

(* The first row it has listed with a child's name, however it was typed.   *)
ListedAs(list, child) ==
  LET hits == {z \in Present(list) : list[z].apex = child}
  IN  IF hits = {} THEN NoZone ELSE CHOOSE z \in hits : \A y \in hits : z <= y

NeedsRepair(list, child) ==
  LET z == ListedAs(list, child)
  IN  IF z = NoZone THEN child = SettingsZone.apex ELSE ~list[z].ns

(* inspect_local_zones writes back a listed row without an NS, completed,   *)
(* whatever has become of it, and adds a row for the configured child (to   *)
(* the end of its list, which is not kept here).                            *)
CheckRepairs(h) ==
  LET list == handler[h].seen
  IN  /\ handler[h].pc = "check"
      /\ \E child \in handler[h].todo, z \in Zones :
           LET spec == IF list[z] = NoZone THEN ChildZone ELSE Delegated(list[z])
           IN  /\ NeedsRepair(list, child)
               /\ \/ z = ListedAs(list, child)
                  \/ ListedAs(list, child) = NoZone /\ list[z] = NoZone /\ db_zones[z] = NoZone
               /\ db_zones' = [db_zones EXCEPT ![z] = spec]
               /\ GoOn(h, "check", [list EXCEPT ![z] = spec], handler[h].todo \ {child})
      /\ UNCHANGED <<zones, stale_cause>>

(* An upsert that fails, the endpoint's 15 seconds, or a client that hangs  *)
(* up ends it where it is.                                                  *)
CheckAbandoned(h) == handler[h].pc = "check" /\ GivesUp(h, "check abandoned")

(* It ends by installing the list it has made, repairs or not.              *)
CheckStores(h) ==
  /\ handler[h].pc = "check"
  /\ \A child \in handler[h].todo : ~NeedsRepair(handler[h].seen, child)
  /\ Installs(h)

(* The panel starts again: the resolver's list is read from the rows.       *)
PanelRestarts ==
  /\ zones' = db_zones
  /\ handler' = [h \in Requests |-> Idle]
  /\ stale_cause' = "none"
  /\ UNCHANGED db_zones

ZoneNext ==
  \/ \E h \in Requests :
       \/ CreateZone(h) \/ DeleteZone(h) \/ ListZones(h) \/ RequestEnds(h) \/ StoreZones(h)
       \/ CheckSettingsZone(h) \/ CreateSettingsZone(h)
       \/ CheckStarts(h) \/ CheckLists(h) \/ CheckRepairs(h)
       \/ CheckStores(h) \/ CheckAbandoned(h)
  \/ PanelRestarts

ZoneSpecification == ZoneInit /\ [][ZoneNext]_zvars

-----------------------------------------------------------------------------
ZoneTypeOK ==
  /\ db_zones \in Rows /\ zones \in Rows
  /\ handler \in [Requests -> HandlerStates]
  /\ stale_cause \in Causes

(* The resolver's list is the rows with no handler about to install a list  *)
(* (refresh_zones, inspect_local_zones), but when, since they last agreed,  *)
(* the settings handler added a zone, a list read before another edit was   *)
(* installed after it, a refresh could not list, or the client hung up      *)
(* before it, or an integrity check was cut short.  The next refresh that   *)
(* is not overtaken mends each of these.                                    *)
ZonesFollowRows ==
  \/ zones = db_zones \/ stale_cause # "none"
  \/ \E h \in Requests : handler[h].pc \in {"list", "store", "check"}

(* The A handler's zone of a name is the one every other query type sees,   *)
(* unless an apex was typed in another form, the name ends with an apex     *)
(* only as text, or several zones hold the name (answer.rs takes the first  *)
(* of them, handler.rs the longest).                                        *)
OneZonePerName ==
  \A name \in Names :
    \/ MatchedZone(zones, name) = ServedZone(zones, name)
    \/ \E z \in Present(zones) : ~zones[z].canonical
    \/ \E z \in Present(zones) : <<name, zones[z].apex>> \in EndsWith \ Below
    \/ \E y, z \in Covering(zones, name) : y # z
=============================================================================
