-------------------------------- MODULE Ddns --------------------------------
(***************************************************************************)
(* Nodes addressed by a host name (crates/panel/src/ddns.rs): a loop        *)
(* resolves the names beside everything else and keeps each answer, with    *)
(* the name it is for, in the node's runtime; a snapshot                    *)
(* (scheduler.rs, build_snapshot; ws_server.rs, rebuild_and_store_snapshot) *)
(* serves what fits the node's row.  Rows, runtimes and snapshot change one *)
(* after the other, and rebuilds overlap.                                   *)
(*                                                                          *)
(* Left out: the health of a node, which decides with its address whether   *)
(* it is served, and the order in which overlapping snapshots are stored:   *)
(* both are Availability's.                                                 *)
(***************************************************************************)
EXTENDS Sequences, SequencesExt

CONSTANTS
  NodeOrder,        \* nodes, in the order of their rows
  Hosts, Literals,  \* what a row may hold: a host name, or an address
  Ips,              \* what a host name resolves to
  Refresh,          \* the loop,
  Rebuilders,       \* and the other rebuilds under way
  NoAddress

Nodes == ToSet(NodeOrder)
Builders == Rebuilders \cup {Refresh}

ASSUME AddressesAssumption ==
  /\ Refresh \notin Rebuilders /\ NoAddress \notin Hosts \cup Literals \cup Ips
  /\ Hosts \cap (Literals \cup Ips) = {}

VARIABLES
  public_ip,        \* the rows: node -> name or address; NoAddress: no node
  resolved,         \* the runtimes: node -> [host, ip]
  served,           \* the snapshot: node -> [row, ip], the row it was built on
  refresh,          \* [pc, rows, left, ip, changed]: the loop
  building,         \* builder -> the rows it has listed, or NoRows
  answered          \* history: <<host, ip>> the resolver has ever answered

dvars == <<public_ip, resolved, served, refresh, building, answered>>

NoRows == << >>
Rows == [Nodes -> Hosts \cup Literals \cup {NoAddress}]
Unresolved == [host |-> NoAddress, ip |-> NoAddress]
Sleeping == [pc |-> "idle", rows |-> NoRows, left |-> << >>, ip |-> NoAddress, changed |-> FALSE]

(* Mutant of AddressOf: the last answer, whatever name it was for. *)
AddressUnbound(row, last) == IF row \in Literals THEN row ELSE last.ip

(* An address is used directly; a name's only if it is the one resolved.    *)
AddressOf(row, last) ==
  IF row \in Literals THEN row
  ELSE IF last.host = row THEN last.ip ELSE NoAddress

Snapshot(rows) ==
  [n \in Nodes |-> [row |-> rows[n], ip |-> AddressOf(rows[n], resolved[n])]]

DdnsInit ==
  /\ public_ip \in {[n \in Nodes |-> NoAddress]}
  /\ resolved = [n \in Nodes |-> Unresolved]
  /\ served = Snapshot(public_ip)
  /\ refresh = Sleeping
  /\ building = [b \in Builders |-> NoRows]
  /\ answered = {}

(* create_node, update_node and delete_node; each rebuilds afterwards, as   *)
(* do reports, disconnects and the watchdog.                                *)
EditNode ==
  /\ \E n \in Nodes, a \in Hosts \cup Literals \cup {NoAddress} :
       public_ip' = [public_ip EXCEPT ![n] = a]
  /\ UNCHANGED <<resolved, served, refresh, building, answered>>

(* rebuild_and_store_snapshot lists the rows; a failure leaves it at that.  *)
BuildStarts(b) ==
  /\ building[b] = NoRows
  /\ IF b = Refresh THEN refresh.pc = "build" /\ refresh' = Sleeping ELSE UNCHANGED refresh
  /\ \/ building' = [building EXCEPT ![b] = public_ip]
     \/ UNCHANGED building
  /\ UNCHANGED <<public_ip, resolved, served, answered>>

(* Then it takes the runtimes as they are, and stores. *)
BuildEnds(b) ==
  /\ building[b] # NoRows
  /\ served' = Snapshot(building[b])
  /\ building' = [building EXCEPT ![b] = NoRows]
  /\ UNCHANGED <<public_ip, resolved, refresh, answered>>

-----------------------------------------------------------------------------
(* refresh_all *)

RefreshStarts ==
  /\ refresh.pc = "idle" /\ building[Refresh] = NoRows
  /\ refresh' = [Sleeping EXCEPT !.pc = "next", !.rows = public_ip, !.left = NodeOrder]
  /\ UNCHANGED <<public_ip, resolved, served, building, answered>>

(* A node with an address, one whose name has no IPv4 address, or a lookup  *)
(* that fails: it keeps what it has.                                        *)
Skips ==
  /\ refresh.pc = "next" /\ refresh.left # << >>
  /\ refresh' = [refresh EXCEPT !.left = Tail(refresh.left)]
  /\ UNCHANGED <<public_ip, resolved, served, building, answered>>

(* A lookup takes its time; no lock is held. *)
Resolves ==
  /\ refresh.pc = "next" /\ refresh.left # << >>
  /\ LET host == refresh.rows[Head(refresh.left)]
     IN  /\ host \in Hosts
         /\ \E ip \in Ips : /\ refresh' = [refresh EXCEPT !.pc = "keep", !.ip = ip]
                            /\ answered' = answered \cup {<<host, ip>>}
  /\ UNCHANGED <<public_ip, resolved, served, building>>

(* What is kept is for the name that was looked up. *)
Keeps ==
  LET n == Head(refresh.left)
      new == [host |-> refresh.rows[n], ip |-> refresh.ip]
  IN  /\ refresh.pc = "keep"
      /\ resolved' = [resolved EXCEPT ![n] = new]
      /\ refresh' = [refresh EXCEPT !.pc = "next", !.left = Tail(refresh.left), !.ip = NoAddress,
                                    !.changed = @ \/ resolved[n] # new]
      /\ UNCHANGED <<public_ip, served, building, answered>>

RefreshEnds ==
  /\ refresh.pc = "next" /\ refresh.left = << >>
  /\ refresh' = IF refresh.changed THEN [Sleeping EXCEPT !.pc = "build"] ELSE Sleeping
  /\ UNCHANGED <<public_ip, resolved, served, building, answered>>

(* The panel starts with nothing resolved, and builds a snapshot.           *)
DdnsRestarts ==
  /\ resolved' = [n \in Nodes |-> Unresolved]
  /\ served' = [n \in Nodes |-> [row |-> public_ip[n], ip |-> AddressOf(public_ip[n], Unresolved)]]
  /\ refresh' = Sleeping
  /\ building' = [b \in Builders |-> NoRows]
  /\ UNCHANGED <<public_ip, answered>>

DdnsNext ==
  \/ EditNode
  \/ \E b \in Builders : BuildStarts(b) \/ BuildEnds(b)
  \/ RefreshStarts \/ Skips \/ Resolves \/ Keeps \/ RefreshEnds
  \/ DdnsRestarts

DdnsSpec == DdnsInit /\ [][DdnsNext]_dvars

-----------------------------------------------------------------------------
DdnsTypeOK ==
  /\ public_ip \in Rows
  /\ resolved \in [Nodes -> [host : Hosts \cup {NoAddress}, ip : Ips \cup {NoAddress}]]
  /\ served \in [Nodes -> [row : Hosts \cup Literals \cup {NoAddress},
                           ip : Ips \cup Literals \cup {NoAddress}]]
  /\ refresh \in [pc : {"idle", "next", "keep", "build"}, rows : Rows \cup {NoRows},
                  left : Seq(Nodes), ip : Ips \cup {NoAddress}, changed : BOOLEAN]
  /\ building \in [Builders -> Rows \cup {NoRows}]
  /\ answered \subseteq Hosts \X Ips

(* ddns.rs:124-126, scheduler.rs:345-350: an address served for a node is   *)
(* one that the name in its row has resolved to, or that is in its row, and *)
(* never one of the name it had before, although the row may change while   *)
(* its name is looked up, and again between that and the rebuild.           *)
ServedIsItsName ==
  \A n \in Nodes : served[n].ip # NoAddress =>
    served[n].row = served[n].ip \/ <<served[n].row, served[n].ip>> \in answered
=============================================================================
