------------------------- MODULE AvailabilityProofs -------------------------
(***************************************************************************)
(* Proofs about the availability snapshot, for any number of nodes, lines   *)
(* and rebuilds under way at once.                                          *)
(***************************************************************************)
EXTENDS Availability, TLAPS

(* The addresses of a snapshot belong to nodes in V.                        *)
Backed(snap, V) ==
  \A g \in Groups : \A a \in snap[g] : \E n \in V : a \in AddressesOf[n]

Row(n) == AddressesOf[n] \cup {Deleted}

(* What a task carries is sound, however old it is: rows and groups that    *)
(* once were, and, once built, a snapshot of nodes in V.                    *)
TaskOK(w, V) ==
  /\ w.pc = "upsert" => w.seen.node \in Nodes
                          /\ w.seen.address \in AddressesOf[w.seen.node]
  /\ w.pc = "put groups" => w.seen \in Memberships
  /\ w.pc = "load groups" => \A n \in Nodes : w.seen[n] \in Row(n)
  /\ w.pc = "build" => /\ \A n \in Nodes : w.seen.address[n] \in Row(n)
                       /\ w.seen.groups \in Memberships
  /\ w.pc = "store" => w.seen \in Snapshots /\ Backed(w.seen, V)

RowsOK == \A n \in Nodes : address[n] \in Row(n)

RuntimesOK ==
  /\ runtimes \in [Nodes -> NodeRuntime]
  /\ \A n \in Nodes :
       runtimes[n].forwarding_up /\ runtimes[n].backend_reachable => n \in vouched

(* ServedOnlyVouched is not inductive: a snapshot on its way from a task    *)
(* into the resolver must be backed too, and what a rebuild reads must be   *)
(* such that what it builds is.                                             *)
IInv ==
  /\ DOMAIN address = Nodes /\ RowsOK
  /\ members \in Memberships /\ groups \in Memberships
  /\ vouched \subseteq Nodes /\ RuntimesOK
  /\ DOMAIN task = Tasks /\ \A t \in Tasks : TaskOK(task[t], vouched)
  /\ snapshot \in Snapshots /\ Backed(snapshot, vouched)

-----------------------------------------------------------------------------
(* Only a healthy node is in a class that may be served.                    *)
LEMMA ServableIsHealthy ==
  ASSUME NEW rt \in NodeRuntime, Class(rt) \in {"Included"} \cup Soft
  PROVE  rt.forwarding_up /\ rt.backend_reachable
BY DEF Class, Healthy, Soft

(* Whatever tier a line falls to, it takes nodes that are vouched for.      *)
LEMMA SelectedVouched ==
  ASSUME RuntimesOK, NEW nodes \in SUBSET Nodes
  PROVE  SelectAvailable(nodes) \subseteq nodes \cap vouched
<1>1. ASSUME NEW n \in SelectAvailable(nodes)
      PROVE  n \in nodes /\ Class(runtimes[n]) \in {"Included"} \cup Soft
  BY <1>1 DEF SelectAvailable
<1>2. ASSUME NEW n \in SelectAvailable(nodes) PROVE n \in vouched
  <2>1. n \in Nodes /\ runtimes[n] \in NodeRuntime
    BY <1>1 DEF RuntimesOK
  <2>2. runtimes[n].forwarding_up /\ runtimes[n].backend_reachable
    BY <1>1, <2>1, ServableIsHealthy
  <2> QED
    BY <2>1, <2>2 DEF RuntimesOK
<1> QED
  BY <1>1, <1>2

(* A snapshot built from rows and groups of any age and the runtimes of now *)
(* is backed by the nodes vouched for now.                                  *)
LEMMA BuiltBacked ==
  ASSUME RuntimesOK, NEW addr, NEW grps \in Memberships,
         \A n \in Nodes : addr[n] \in Row(n)
  PROVE  Built(addr, grps) \in Snapshots /\ Backed(Built(addr, grps), vouched)
<1> DEFINE candidates(g) == {m \in grps[g] : addr[m] # Deleted}
           served(g) == SelectAvailable(candidates(g))
<1>1. ASSUME NEW g \in Groups
      PROVE  served(g) \subseteq candidates(g) \cap vouched /\ candidates(g) \subseteq Nodes
  <2>1. candidates(g) \in SUBSET Nodes
    BY GroupsAssumption
  <2> QED
    BY <2>1, SelectedVouched
<1>2. ASSUME NEW g \in Groups, NEW n \in served(g)
      PROVE  n \in vouched /\ n \in Nodes /\ addr[n] \in AddressesOf[n]
  <2>1. n \in candidates(g) /\ n \in vouched /\ n \in Nodes
    BY <1>1
  <2> QED
    BY <2>1 DEF Row
<1>3. Built(addr, grps) = [g \in Groups |-> {addr[n] : n \in served(g)}]
  BY DEF Built
<1> HIDE DEF served
<1> QED
  BY <1>2, <1>3 DEF Snapshots, Backed

(* A node that is vouched for stays so, and so does what it backs.          *)
LEMMA BackedGrows ==
  ASSUME NEW snap, NEW V, NEW W, V \subseteq W, Backed(snap, V)
  PROVE  Backed(snap, W)
BY DEF Backed

LEMMA TaskOKGrows ==
  ASSUME NEW w, NEW V, NEW W, V \subseteq W, TaskOK(w, V)
  PROVE  TaskOK(w, W)
BY BackedGrows DEF TaskOK

(* A step of one task that leaves it sound leaves all of them sound.        *)
LEMMA TaskMoves ==
  ASSUME IInv, vouched \subseteq vouched',
         NEW t \in Tasks, NEW w, TaskOK(w, vouched'),
         task' = [task EXCEPT ![t] = w]
  PROVE  DOMAIN task' = Tasks /\ \A u \in Tasks : TaskOK(task'[u], vouched')
<1>1. ASSUME NEW u \in Tasks, u # t PROVE TaskOK(task'[u], vouched')
  <2>1. task'[u] = task[u] /\ TaskOK(task[u], vouched)
    BY <1>1 DEF IInv
  <2> QED
    BY <2>1, TaskOKGrows
<1>2. task'[t] = w /\ DOMAIN task' = Tasks
  BY DEF IInv
<1> QED
  BY <1>1, <1>2

(* The counterpart of the above for the actions, which all use Go.          *)
LEMMA GoMoves ==
  ASSUME IInv, vouched \subseteq vouched',
         NEW t \in Tasks, NEW pc, NEW seen, Go(t, pc, seen),
         TaskOK([pc |-> pc, seen |-> seen], vouched')
  PROVE  DOMAIN task' = Tasks /\ \A u \in Tasks : TaskOK(task'[u], vouched')
BY TaskMoves DEF Go

(* Tasks start, and end, with nothing to be sound about.                    *)
LEMMA NothingSeen ==
  ASSUME NEW V, NEW pc \in {"idle", "read", "list groups"}, NEW seen
  PROVE  TaskOK([pc |-> pc, seen |-> seen], V)
BY DEF TaskOK

-----------------------------------------------------------------------------
(* Initially nothing is known and nothing is served.                        *)
LEMMA InitInv == Init => IInv
<1> SUFFICES ASSUME Init PROVE IInv
  OBVIOUS
<1>1. DOMAIN address = Nodes /\ RowsOK
  BY DEF Init, RowsOK, Row
<1>2. members \in Memberships /\ groups \in Memberships /\ vouched \subseteq Nodes
  BY DEF Init
<1>3. RuntimesOK
  BY DEF Init, RuntimesOK, NoRuntime, NodeRuntime, Contacts, Loads
<1>4. DOMAIN task = Tasks /\ \A t \in Tasks : TaskOK(task[t], vouched)
  BY DEF Init, Idle, TaskOK
<1>5. snapshot \in Snapshots /\ Backed(snapshot, vouched)
  BY DEF Init, NoSnapshot, Snapshots, Backed
<1> QED
  BY <1>1, <1>2, <1>3, <1>4, <1>5 DEF IInv

(* What the sessions do: runtimes change, and only a report vouches.        *)
LEMMA SessionsInv ==
  ASSUME IInv, NEW n \in Nodes,
         \/ \E t \in Tasks : OnConnect(t, n) \/ Disconnect(t, n)
         \/ \E t \in Tasks, report \in Reports[n] : StatusReport(t, n, report)
         \/ Heartbeat(n) \/ Lapses(n)
  PROVE  IInv'
<1>1. runtimes[n] \in NodeRuntime
  BY DEF IInv, RuntimesOK
<1>2. CASE \E t \in Tasks : OnConnect(t, n) \/ Disconnect(t, n)
  <2>1. PICK t \in Tasks : OnConnect(t, n) \/ Disconnect(t, n)
    BY <1>2
  <2>2. UNCHANGED <<address, members, groups, snapshot, vouched>>
        /\ Go(t, "read", << >>)
    BY <2>1 DEF OnConnect, Disconnect, Begins
  <2>3. \E c \in Contacts : runtimes' = [runtimes EXCEPT ![n].contact = c]
    BY <2>1 DEF OnConnect, Disconnect, Touched, Contacts
  <2>4. RuntimesOK'
    BY <1>1, <2>2, <2>3 DEF IInv, RuntimesOK, NodeRuntime
  <2>5. DOMAIN task' = Tasks /\ \A u \in Tasks : TaskOK(task'[u], vouched')
    BY <2>2, GoMoves, NothingSeen
  <2> QED
    BY <2>2, <2>4, <2>5 DEF IInv, RowsOK
<1>3. CASE \E t \in Tasks, report \in Reports[n] : StatusReport(t, n, report)
  <2>1. PICK t \in Tasks, report \in Reports[n] : StatusReport(t, n, report)
    BY <1>3
  <2>2. UNCHANGED <<address, members, groups, snapshot>> /\ Go(t, "read", << >>)
        /\ vouched \subseteq vouched' /\ vouched' \subseteq Nodes
    BY <2>1 DEF StatusReport, Begins, IInv
  <2>3. RuntimesOK'
    <3>1. report \in Report
      BY ReportsAssumption
    <3>2. runtimes'[n] \in NodeRuntime
          /\ (runtimes'[n].forwarding_up /\ runtimes'[n].backend_reachable
                => n \in vouched')
      BY <2>1, <3>1 DEF StatusReport, Report, NodeRuntime, Contacts, IInv, RuntimesOK
    <3>3. \A m \in Nodes \ {n} : runtimes'[m] = runtimes[m]
      BY <2>1 DEF StatusReport, IInv, RuntimesOK
    <3>4. runtimes' \in [Nodes -> NodeRuntime]
      BY <2>1, <3>2, <3>3 DEF StatusReport, IInv, RuntimesOK
    <3> QED
      BY <2>2, <3>2, <3>3, <3>4 DEF IInv, RuntimesOK
  <2>4. DOMAIN task' = Tasks /\ \A u \in Tasks : TaskOK(task'[u], vouched')
    BY <2>2, GoMoves, NothingSeen
  <2>5. Backed(snapshot', vouched')
    BY <2>2, BackedGrows DEF IInv
  <2> QED
    BY <2>2, <2>3, <2>4, <2>5 DEF IInv, RowsOK
<1>4. CASE Heartbeat(n) \/ Lapses(n)
  <2>1. UNCHANGED <<address, members, groups, task, snapshot, vouched>>
    BY <1>4 DEF Heartbeat, Lapses
  <2>2. \E c \in Contacts : runtimes' = [runtimes EXCEPT ![n].contact = c]
    BY <1>4 DEF Heartbeat, Lapses, Touched, Contacts
  <2>3. RuntimesOK'
    BY <1>1, <2>1, <2>2 DEF IInv, RuntimesOK, NodeRuntime
  <2> QED
    BY <2>1, <2>3 DEF IInv, RowsOK
<1> QED
  BY <1>2, <1>3, <1>4

(* What the requests do: rows and groups change, and a task may carry the   *)
(* row or the groups it means to store.                                     *)
LEMMA RequestsInv ==
  ASSUME IInv, NEW t \in Tasks,
         \/ \E n \in Nodes : DeleteNode(t, n)
         \/ \E n \in Nodes : \E a \in AddressesOf[n] : UpdateNode(t, n, a)
         \/ UpsertNode(t) \/ UpdateGroup(t) \/ ListGroups(t) \/ PutGroups(t)
  PROVE  IInv'
<1> DEFINE TasksOK == DOMAIN task' = Tasks /\ \A u \in Tasks : TaskOK(task'[u], vouched')
<1>0. TaskOK(task[t], vouched)
  BY DEF IInv
<1>1. CASE \E n \in Nodes : DeleteNode(t, n)
  <2>1. PICK n \in Nodes : DeleteNode(t, n)
    BY <1>1
  <2>2. UNCHANGED <<members, groups, runtimes, snapshot, vouched>>
        /\ Go(t, "read", << >>) /\ address' = [address EXCEPT ![n] = Deleted]
    BY <2>1 DEF DeleteNode, Begins
  <2>3. TasksOK
    BY <2>2, GoMoves, NothingSeen
  <2> QED
    BY <2>2, <2>3 DEF IInv, RowsOK, Row, RuntimesOK
<1>2. CASE \E n \in Nodes : \E a \in AddressesOf[n] : UpdateNode(t, n, a)
  <2>0. PICK n \in Nodes : \E a \in AddressesOf[n] : UpdateNode(t, n, a)
    BY <1>2
  <2>1. PICK a \in AddressesOf[n] : UpdateNode(t, n, a)
    BY <2>0
  <2>2. UNCHANGED <<address, members, groups, runtimes, snapshot, vouched>>
        /\ Go(t, "upsert", [node |-> n, address |-> a])
    BY <2>1 DEF UpdateNode
  <2>3. TaskOK([pc |-> "upsert", seen |-> [node |-> n, address |-> a]], vouched')
    BY DEF TaskOK
  <2>4. TasksOK
    BY <2>2, <2>3, GoMoves
  <2> QED
    BY <2>2, <2>4 DEF IInv, RowsOK, RuntimesOK
<1>3. CASE UpsertNode(t)
  <2>1. UNCHANGED <<members, groups, runtimes, snapshot, vouched>>
        /\ Go(t, "read", << >>)
    BY <1>3 DEF UpsertNode
  <2>2. DOMAIN address' = Nodes /\ RowsOK'
    BY <1>0, <1>3 DEF UpsertNode, TaskOK, IInv, RowsOK, Row
  <2>3. TasksOK
    BY <2>1, GoMoves, NothingSeen
  <2> QED
    BY <2>1, <2>2, <2>3 DEF IInv, RuntimesOK
<1>4. CASE UpdateGroup(t)
  <2>1. UNCHANGED <<address, groups, runtimes, snapshot, vouched>>
        /\ Go(t, "list groups", << >>) /\ members' \in Memberships
    BY <1>4 DEF UpdateGroup
  <2>2. TasksOK
    BY <2>1, GoMoves, NothingSeen
  <2> QED
    BY <2>1, <2>2 DEF IInv, RowsOK, RuntimesOK
<1>5. CASE ListGroups(t)
  <2>1. UNCHANGED <<address, members, groups, runtimes, snapshot, vouched>>
        /\ Go(t, "put groups", members)
    BY <1>5 DEF ListGroups
  <2>2. TaskOK([pc |-> "put groups", seen |-> members], vouched')
    BY DEF TaskOK, IInv
  <2>3. TasksOK
    BY <2>1, <2>2, GoMoves
  <2> QED
    BY <2>1, <2>3 DEF IInv, RowsOK, RuntimesOK
<1>6. CASE PutGroups(t)
  <2>1. UNCHANGED <<address, members, runtimes, snapshot, vouched>>
        /\ Go(t, "read", << >>) /\ groups' \in Memberships
    BY <1>0, <1>6 DEF PutGroups, TaskOK
  <2>2. TasksOK
    BY <2>1, GoMoves, NothingSeen
  <2> QED
    BY <2>1, <2>2 DEF IInv, RowsOK, RuntimesOK
<1> QED
  BY <1>1, <1>2, <1>3, <1>4, <1>5, <1>6

(* The steps of a rebuild hand on what IInv asks of a task; the last  *)
(* one hands it to the resolver.                                            *)
LEMMA RebuildInv ==
  ASSUME IInv, NEW t \in Tasks,
         \/ ReadNodes(t) \/ ReadFails(t) \/ LoadGroups(t)
         \/ BuildSnapshot(t) \/ StoreSnapshot(t)
  PROVE  IInv'
<1> DEFINE TasksOK == DOMAIN task' = Tasks /\ \A u \in Tasks : TaskOK(task'[u], vouched')
<1>0. TaskOK(task[t], vouched)
  BY DEF IInv
<1>1. CASE ReadNodes(t)
  <2>1. UNCHANGED <<address, members, groups, runtimes, snapshot, vouched>>
        /\ Go(t, "load groups", address)
    BY <1>1 DEF ReadNodes
  <2>2. TaskOK([pc |-> "load groups", seen |-> address], vouched')
    BY DEF TaskOK, IInv, RowsOK
  <2>3. TasksOK
    BY <2>1, <2>2, GoMoves
  <2> QED
    BY <2>1, <2>3 DEF IInv, RowsOK, RuntimesOK
<1>4. CASE ReadFails(t)
  <2>1. UNCHANGED <<address, members, groups, runtimes, snapshot, vouched>>
        /\ task' = [task EXCEPT ![t] = Idle]
    BY <1>4 DEF ReadFails
  <2>2. TaskOK(Idle, vouched')
    BY DEF TaskOK, Idle
  <2>3. TasksOK
    BY <2>1, <2>2, TaskMoves
  <2> QED
    BY <2>1, <2>3 DEF IInv, RowsOK, RuntimesOK
<1>5. CASE LoadGroups(t)
  <2> DEFINE read == [address |-> task[t].seen, groups |-> groups]
  <2>1. UNCHANGED <<address, members, groups, runtimes, snapshot, vouched>>
        /\ Go(t, "build", read) /\ task[t].pc = "load groups"
    BY <1>5 DEF LoadGroups
  <2>2. \A n \in Nodes : read.address[n] \in Row(n)
    BY <1>0, <2>1 DEF TaskOK
  <2>3. TaskOK([pc |-> "build", seen |-> read], vouched')
    BY <2>2 DEF TaskOK, IInv
  <2>4. TasksOK
    BY <2>1, <2>3, GoMoves
  <2> QED
    BY <2>1, <2>4 DEF IInv, RowsOK, RuntimesOK
<1>2. CASE BuildSnapshot(t)
  <2> DEFINE built == Built(task[t].seen.address, task[t].seen.groups)
  <2>1. UNCHANGED <<address, members, groups, runtimes, snapshot, vouched>>
        /\ Go(t, "store", built) /\ task[t].pc = "build"
    BY <1>2 DEF BuildSnapshot
  <2>2. /\ \A n \in Nodes : task[t].seen.address[n] \in Row(n)
        /\ task[t].seen.groups \in Memberships
    BY <1>0, <2>1 DEF TaskOK
  <2>3. built \in Snapshots /\ Backed(built, vouched)
    BY <2>2, BuiltBacked DEF IInv
  <2> HIDE DEF built
  <2>4. TaskOK([pc |-> "store", seen |-> built], vouched')
    BY <2>1, <2>3 DEF TaskOK
  <2>5. TasksOK
    BY <2>1, <2>4, GoMoves
  <2> QED
    BY <2>1, <2>5 DEF IInv, RowsOK, RuntimesOK
<1>3. CASE StoreSnapshot(t)
  <2>1. UNCHANGED <<address, members, groups, runtimes, vouched>>
        /\ snapshot' \in Snapshots /\ Backed(snapshot', vouched)
        /\ task' = [task EXCEPT ![t] = Idle]
    BY <1>0, <1>3 DEF StoreSnapshot, TaskOK
  <2>2. TaskOK(Idle, vouched')
    BY DEF TaskOK, Idle
  <2>3. TasksOK
    BY <2>1, <2>2, TaskMoves
  <2> QED
    BY <2>1, <2>3 DEF IInv, RowsOK, RuntimesOK
<1> QED
  BY <1>1, <1>2, <1>3, <1>4, <1>5

(* A restarted panel vouches for nobody, and has nothing under way.         *)
LEMMA RestartInv ==
  ASSUME IInv, PanelRestarts
  PROVE  IInv'
<1>1. address' = address /\ members' = members /\ groups' = members /\ vouched' = {}
  BY DEF PanelRestarts
<1>2. RuntimesOK'
  BY DEF PanelRestarts, RuntimesOK, NoRuntime, NodeRuntime, Contacts, Loads
<1>3. DOMAIN task' = Tasks /\ \A t \in Tasks : TaskOK(task'[t], vouched')
  BY DEF PanelRestarts, Idle, TaskOK
<1>4. snapshot' \in Snapshots /\ Backed(snapshot', vouched')
  BY DEF PanelRestarts, NoSnapshot, Snapshots, Backed
<1> QED
  BY <1>1, <1>2, <1>3, <1>4 DEF IInv, RowsOK

LEMMA NextInv == IInv /\ [Next]_vars => IInv'
<1> SUFFICES ASSUME IInv, [Next]_vars PROVE IInv'
  OBVIOUS
<1>1. CASE UNCHANGED vars
  BY <1>1 DEF vars, IInv, RowsOK, RuntimesOK
<1>2. CASE \E t \in Tasks, n \in Nodes : OnConnect(t, n) \/ Disconnect(t, n)
  BY <1>2, SessionsInv
<1>3. CASE \E t \in Tasks, n \in Nodes :
             DeleteNode(t, n) \/ \E a \in AddressesOf[n] : UpdateNode(t, n, a)
  <2>1. PICK t \in Tasks, n \in Nodes :
          DeleteNode(t, n) \/ \E a \in AddressesOf[n] : UpdateNode(t, n, a)
    BY <1>3
  <2> QED
    BY <2>1, RequestsInv
<1>4. CASE \E t \in Tasks, n \in Nodes : \E report \in Reports[n] : StatusReport(t, n, report)
  BY <1>4, SessionsInv
<1>5. CASE \E t \in Tasks : UpdateGroup(t) \/ TaskStep(t) \/ ReadFails(t)
  BY <1>5, RequestsInv, RebuildInv DEF TaskStep
<1>6. CASE \E n \in Nodes : Heartbeat(n) \/ Lapses(n)
  BY <1>6, SessionsInv
<1>7. CASE PanelRestarts
  BY <1>7, RestartInv
<1> QED
  BY <1>1, <1>2, <1>3, <1>4, <1>5, <1>6, <1>7 DEF Next

(* The invariant gives the shapes.                                          *)
LEMMA InvTyped == IInv => TypeOK
BY DEF IInv, TypeOK, RowsOK, Row, RuntimesOK, TaskOK

(* The invariant gives what is served, for the line's own nodes and for     *)
(* those of its fallback.                                                   *)
LEMMA InvVouched == IInv => ServedOnlyVouched
<1> SUFFICES ASSUME IInv, NEW g \in Groups, NEW a \in Answer(g)
             PROVE  \E n \in vouched : a \in AddressesOf[n]
  BY DEF ServedOnlyVouched
<1>1. a \in snapshot[g] \/ (Fallback[g] # NoGroup /\ a \in snapshot[Fallback[g]])
  BY DEF Answer, ipv4_only
<1>2. Fallback[g] # NoGroup => Fallback[g] \in Groups
  BY GroupsAssumption
<1> QED
  BY <1>1, <1>2 DEF IInv, Backed

-----------------------------------------------------------------------------
(* Rows, groups, runtimes and snapshots keep their shapes, and a runtime    *)
(* that says a node is up has a report behind it (scheduler.rs NodeRuntime, *)
(* snapshot.rs AvailabilitySnapshot).                                       *)
THEOREM ShapesKept == Spec => []TypeOK
<1> QED
  BY InitInv, NextInv, InvTyped, PTL DEF Spec

(* However many rebuilds overlap, in whichever order they store, and        *)
(* however often the panel restarts between them, no client is sent to a    *)
(* node that this panel process has not heard report itself up              *)
(* (rebuild_and_store_snapshot, resolve).                                   *)
THEOREM OnlyVouchedServed == Spec => []ServedOnlyVouched
<1> QED
  BY InitInv, NextInv, InvVouched, PTL DEF Spec
=============================================================================
