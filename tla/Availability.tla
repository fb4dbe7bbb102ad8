---------------------------- MODULE Availability ----------------------------
(***************************************************************************)
(* Which nodes the panel hands out in DNS answers: what it has heard from   *)
(* each node (crates/panel/src/scheduler.rs), how that becomes the          *)
(* availability snapshot (ws_server.rs, rebuild_and_store_snapshot), and    *)
(* what the resolver makes of the snapshot (dns/answer.rs, resolve).        *)
(*                                                                          *)
(* A rebuild reads the node rows, loads the groups, waits for the runtimes, *)
(* then builds and stores; nothing orders two rebuilds against each other,  *)
(* so a task carries what it has read.  No timer rebuilds: only the events  *)
(* below do.  Time appears only as a node's freshness, which lapses.        *)
(*                                                                          *)
(* Left out: the accounting behind a report's load, addresses given as host *)
(* names (ddns.rs), and how a client is matched to a group.                 *)
(***************************************************************************)
EXTENDS Naturals, FiniteSets

CONSTANTS
  Nodes, Groups,
  AddressesOf,     \* node -> the addresses it may be given, its own
  IPv6,            \* those that no A record can carry
  Memberships,     \* the memberships the operator may choose, Groups -> SUBSET Nodes
  Fallback,        \* group -> its fallback_group, or NoGroup
  NoGroup, Deleted,
  Reports,         \* node -> the reports its agent may make
  Requests,        \* the API requests that may be in progress at once
  Sessions         \* the connection tasks that may be in progress at once

Loads == {"Included", "SoftQuota", "Saturated", "HardQuota"}

Report == [forwarding_up : BOOLEAN, backend_reachable : BOOLEAN, load : Loads]

ASSUME AddressesAssumption ==
  \A n, m \in Nodes : n # m => AddressesOf[n] \cap AddressesOf[m] = {}
ASSUME GroupsAssumption ==
  /\ Memberships \subseteq [Groups -> SUBSET Nodes]
  /\ \A g \in Groups : Fallback[g] \in Groups \cup {NoGroup}
ASSUME ReportsAssumption == Reports \in [Nodes -> SUBSET Report]

VARIABLES
  address,         \* DB: node -> its public_ip, or Deleted
  members,         \* DB: group -> its member nodes
  groups,          \* what the panel holds of members in memory
  runtimes,        \* node -> NodeRuntime
  task,            \* task -> [pc, seen], what a handler under way has read
  snapshot,        \* group -> the addresses available
  vouched          \* nodes that have reported good health to this panel process

vars == <<address, members, groups, runtimes, task, snapshot, vouched>>

Tasks == Requests \cup Sessions

(* connected and last_contact_ms as far as freshness goes: "fresh" within   *)
(* the freshness window, "stale" past it, "gone" once disconnected.         *)
Contacts == {"fresh", "stale", "gone"}

NodeRuntime ==
  [contact : Contacts, forwarding_up : BOOLEAN, backend_reachable : BOOLEAN,
   load : Loads]

(* Mutant of NoRuntime: a node is up until it says otherwise.               *)
NoRuntimeUp ==
  [contact |-> "gone", forwarding_up |-> TRUE, backend_reachable |-> TRUE,
   load |-> "Included"]

NoRuntime ==
  [contact |-> "gone", forwarding_up |-> FALSE, backend_reachable |-> FALSE,
   load |-> "Included"]

Idle == [pc |-> "idle", seen |-> << >>]

NoSnapshot == [g \in Groups |-> {}]

-----------------------------------------------------------------------------
(* Classification and selection *)

(* Mutant of Fresh: a connection that is not known to be gone is enough.    *)
FreshWhileConnected(rt) == rt.contact # "gone"

Fresh(rt) == rt.contact = "fresh"

Healthy(rt) == Fresh(rt) /\ rt.forwarding_up /\ rt.backend_reachable

(* classify_node: health comes before load.                                 *)
Class(rt) == IF Healthy(rt) THEN rt.load ELSE "Unhealthy"

Soft == {"SoftQuota", "Saturated"}

(* Mutant of SelectAvailable: tier one or nothing.                          *)
SelectTierOne(nodes) == {n \in nodes : Class(runtimes[n]) = "Included"}

(* Included nodes, else the softly excluded ones; never the others.         *)
SelectAvailable(nodes) ==
  LET tier1 == {n \in nodes : Class(runtimes[n]) = "Included"}
  IN  IF tier1 # {} THEN tier1 ELSE {n \in nodes : Class(runtimes[n]) \in Soft}

(* build_snapshot, from the rows and groups read before and the runtimes as *)
(* they are: members without a row are skipped.                             *)
Built(addr, grps) ==
  [g \in Groups |->
     {addr[n] : n \in SelectAvailable({m \in grps[g] : addr[m] # Deleted})}]

-----------------------------------------------------------------------------
Init ==
  /\ address \in [Nodes -> UNION {AddressesOf[n] : n \in Nodes}]
  /\ \A n \in Nodes : address[n] \in AddressesOf[n]
  /\ members \in Memberships /\ groups = members
  /\ runtimes = [n \in Nodes |-> NoRuntime]
  /\ task = [t \in Tasks |-> Idle]
  /\ snapshot = NoSnapshot
  /\ vouched = {}

Go(t, pc, seen) == task' = [task EXCEPT ![t] = [pc |-> pc, seen |-> seen]]

Begins(t, pool) == t \in pool /\ task[t].pc = "idle" /\ Go(t, "read", << >>)

-----------------------------------------------------------------------------
(* Sessions.  Each of these ends in a rebuild, Heartbeat excepted.          *)

(* touch_runtime leaves what was last reported, in whichever session.       *)
Touched(n) == [runtimes EXCEPT ![n].contact = "fresh"]

OnConnect(t, n) ==
  /\ Begins(t, Sessions)
  /\ runtimes' = Touched(n)
  /\ UNCHANGED <<address, members, groups, snapshot, vouched>>

Heartbeat(n) ==
  /\ runtimes[n].contact # "gone"
  /\ runtimes' = Touched(n)
  /\ UNCHANGED <<address, members, groups, task, snapshot, vouched>>

(* handle_status_report gives up on a node without a row. *)
StatusReport(t, n, report) ==
  /\ runtimes[n].contact # "gone"
  /\ address[n] # Deleted
  /\ Begins(t, Sessions)
  /\ runtimes' = [runtimes EXCEPT ![n] =
       [contact           |-> "fresh",
        forwarding_up     |-> report.forwarding_up,
        backend_reachable |-> report.backend_reachable,
        load              |-> report.load]]
  /\ vouched' = IF report.forwarding_up /\ report.backend_reachable
                THEN vouched \cup {n} ELSE vouched
  /\ UNCHANGED <<address, members, groups, snapshot>>

Disconnect(t, n) ==
  /\ runtimes[n].contact # "gone"
  /\ Begins(t, Sessions)
  /\ runtimes' = [runtimes EXCEPT ![n].contact = "gone"]
  /\ UNCHANGED <<address, members, groups, snapshot, vouched>>

-----------------------------------------------------------------------------
(* Requests *)

(* update_node reads the row, and later inserts or replaces it.             *)
UpdateNode(t, n, a) ==
  /\ t \in Requests /\ task[t].pc = "idle"
  /\ address[n] # Deleted
  /\ Go(t, "upsert", [node |-> n, address |-> a])
  /\ UNCHANGED <<address, members, groups, runtimes, snapshot, vouched>>

UpsertNode(t) ==
  /\ task[t].pc = "upsert"
  /\ address' = [address EXCEPT ![task[t].seen.node] = task[t].seen.address]
  /\ Go(t, "read", << >>)
  /\ UNCHANGED <<members, groups, runtimes, snapshot, vouched>>

DeleteNode(t, n) ==
  /\ address[n] # Deleted
  /\ Begins(t, Requests)
  /\ address' = [address EXCEPT ![n] = Deleted]
  /\ UNCHANGED <<members, groups, runtimes, snapshot, vouched>>

(* update_group: the row, then refresh_groups, in three steps.              *)
UpdateGroup(t) ==
  /\ t \in Requests /\ task[t].pc = "idle"
  /\ members' \in Memberships
  /\ Go(t, "list groups", << >>)
  /\ UNCHANGED <<address, groups, runtimes, snapshot, vouched>>

ListGroups(t) ==
  /\ task[t].pc = "list groups"
  /\ Go(t, "put groups", members)
  /\ UNCHANGED <<address, members, groups, runtimes, snapshot, vouched>>

PutGroups(t) ==
  /\ task[t].pc = "put groups"
  /\ groups' = task[t].seen
  /\ Go(t, "read", << >>)
  /\ UNCHANGED <<address, members, runtimes, snapshot, vouched>>

-----------------------------------------------------------------------------
(* rebuild_and_store_snapshot, in whichever task *)

ReadNodes(t) ==
  /\ task[t].pc = "read"
  /\ Go(t, "load groups", address)
  /\ UNCHANGED <<address, members, groups, runtimes, snapshot, vouched>>

(* list_nodes fails: the snapshot stays as it is. *)
ReadFails(t) ==
  /\ task[t].pc = "read"
  /\ task' = [task EXCEPT ![t] = Idle]
  /\ UNCHANGED <<address, members, groups, runtimes, snapshot, vouched>>

LoadGroups(t) ==
  /\ task[t].pc = "load groups"
  /\ Go(t, "build", [address |-> task[t].seen, groups |-> groups])
  /\ UNCHANGED <<address, members, groups, runtimes, snapshot, vouched>>

BuildSnapshot(t) ==
  /\ task[t].pc = "build"
  /\ Go(t, "store", Built(task[t].seen.address, task[t].seen.groups))
  /\ UNCHANGED <<address, members, groups, runtimes, snapshot, vouched>>

(* Mutant of StoreSnapshot: a line without a node keeps its last answer.    *)
StoreUnlessEmpty(t) ==
  /\ task[t].pc = "store"
  /\ snapshot' = [g \in Groups |-> IF task[t].seen[g] = {} THEN snapshot[g]
                                  ELSE task[t].seen[g]]
  /\ task' = [task EXCEPT ![t] = Idle]
  /\ UNCHANGED <<address, members, groups, runtimes, vouched>>

StoreSnapshot(t) ==
  /\ task[t].pc = "store"
  /\ snapshot' = task[t].seen
  /\ task' = [task EXCEPT ![t] = Idle]
  /\ UNCHANGED <<address, members, groups, runtimes, vouched>>

-----------------------------------------------------------------------------
(* The freshness window passes without a word from n.                       *)
Lapses(n) ==
  /\ Fresh(runtimes[n])
  /\ runtimes' = [runtimes EXCEPT ![n].contact = "stale"]
  /\ UNCHANGED <<address, members, groups, task, snapshot, vouched>>

(* The initial rebuild finds empty runtimes, and groups are read anew.      *)
PanelRestarts ==
  /\ groups' = members
  /\ runtimes' = [n \in Nodes |-> NoRuntime]
  /\ task' = [t \in Tasks |-> Idle]
  /\ snapshot' = NoSnapshot
  /\ vouched' = {}
  /\ UNCHANGED <<address, members>>

TaskStep(t) ==
  UpsertNode(t) \/ ListGroups(t) \/ PutGroups(t) \/ ReadNodes(t) \/ LoadGroups(t)
    \/ BuildSnapshot(t) \/ StoreSnapshot(t)

Next ==
  \/ \E t \in Tasks, n \in Nodes :
       \/ OnConnect(t, n) \/ Disconnect(t, n) \/ DeleteNode(t, n)
       \/ \E a \in AddressesOf[n] : UpdateNode(t, n, a)
  \/ \E t \in Tasks, n \in Nodes : \E report \in Reports[n] : StatusReport(t, n, report)
  \/ \E t \in Tasks : UpdateGroup(t) \/ TaskStep(t) \/ ReadFails(t)
  \/ \E n \in Nodes : Heartbeat(n) \/ Lapses(n)
  \/ PanelRestarts

(* Tasks run to completion, and rows that are read again and again are read *)
(* at some point; no agent has to report, and none to fall silent.          *)
Spec == /\ Init /\ [][Next]_vars
        /\ \A t \in Tasks : WF_vars(TaskStep(t)) /\ SF_vars(ReadNodes(t))

-----------------------------------------------------------------------------
(* The resolver *)

ipv4_only(ips) == ips \ IPv6

(* resolve, for a client of line g; no address is a SERVFAIL.               *)
Answer(g) ==
  IF ipv4_only(snapshot[g]) # {} THEN ipv4_only(snapshot[g])
  ELSE IF Fallback[g] # NoGroup THEN ipv4_only(snapshot[Fallback[g]]) ELSE {}

-----------------------------------------------------------------------------
(* Properties *)

Snapshots == [Groups -> SUBSET UNION {AddressesOf[n] : n \in Nodes}]

(* Shapes, and a runtime that says a node is up has a report behind it.     *)
TypeOK ==
  /\ \A n \in Nodes : address[n] \in AddressesOf[n] \cup {Deleted}
  /\ members \in Memberships /\ groups \in Memberships
  /\ runtimes \in [Nodes -> NodeRuntime]
  /\ \A n \in Nodes :
       runtimes[n].forwarding_up /\ runtimes[n].backend_reachable => n \in vouched
  /\ snapshot \in Snapshots
  /\ \A t \in Tasks : task[t].pc = "store" => task[t].seen \in Snapshots

(* No client is sent to a node that this panel process has not heard report *)
(* its forwarding and its backends up, whatever the process has forgotten   *)
(* in a restart and whichever rebuild stored last (lib.rs:284-285:          *)
(* "cold-start runtimes are empty so nodes are Unhealthy until they report, *)
(* which is correct fail-safe behavior").                                   *)
ServedOnlyVouched ==
  \A g \in Groups : \A a \in Answer(g) : \E n \in vouched : a \in AddressesOf[n]

(* Reports of node n keep coming in *)
Reporting(n) == []<><<\E t \in Tasks, r \in Reports[n] : StatusReport(t, n, r)>>_vars

(* README, AC-5 ("online→offline when heartbeat stale"): a node that falls  *)
(* silent leaves the answers for good, without its socket ever closing, as  *)
(* long as some other node keeps reporting.                                 *)
SilentNodeLeaves ==
  \A n, m \in Nodes :
    (n # m /\ <>[](runtimes[n].contact # "fresh") /\ Reporting(m))
      => <>[](\A g \in Groups : Answer(g) \cap AddressesOf[n] = {})

(* A deleted node, and an address that was replaced, leave the answers for  *)
(* good, though rebuilds that read the row before may still be under way    *)
(* and store last: the next report of any node rebuilds.                    *)
OldAddressLeaves ==
  \A n \in Nodes : \A a \in AddressesOf[n] :
    <>[](address[n] # a) /\ (\E m \in Nodes : Reporting(m))
      => <>[](\A g \in Groups : a \notin Answer(g))

(* n counts in an answer of g's own nodes: it is healthy, has an IPv4       *)
(* address, and is not kept out by a fellow of a better tier with an IPv6   *)
(* one, which tier selection prefers and the resolver then drops.  (By any  *)
(* node: a rebuild may know one as it was before it became a fellow.)       *)
Counts(n, g) ==
  /\ n \in groups[g] /\ address[n] \notin IPv6 \cup {Deleted}
  /\ Healthy(runtimes[n])
  /\ \/ runtimes[n].load = "Included"
     \/ runtimes[n].load \in Soft /\ \A m \in Nodes : address[m] \notin IPv6

(* answer.rs:89-90, snapshot.rs on select_available: a line with a node     *)
(* that counts, or failing that with such a node in its fallback, is        *)
(* answered: soft exclusions, silent fellows, group edits under way,        *)
(* failing reads and overlapping rebuilds never turn it into a SERVFAIL for *)
(* long.                                                                    *)
LineIsAnswered ==
  \A n \in Nodes, g \in Groups :
    /\ <>[](Counts(n, g) \/ (Fallback[g] # NoGroup /\ Counts(n, Fallback[g])))
    /\ Reporting(n)
    => <>[](Answer(g) # {})
=============================================================================
