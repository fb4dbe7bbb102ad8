---------------------------- MODULE ConfigProofs ----------------------------
(***************************************************************************)
(* Proofs about the configuration's way to the nodes: for any nodes, rules, *)
(* number of requests at once, and length of the queues.                    *)
(***************************************************************************)
EXTENDS ConfigSync, SequenceTheorems, TLAPS

Places == {"idle", "delete", "bump", "read rules", "read gen", "send"}
Task == [pc : Places, node : Nodes \cup {Unowned}, rule : Rules \cup {NoRule},
         rules : Contents, gen : Nat]

(* A rule that no node has does not exist. *)
Content == [node : Nodes, rev : Revisions] \cup {[node |-> Unowned, rev |-> 0]}

Causes == {"moved away", "no bump", "edited under a push", "failed at an applied gen"}

Typed ==
  /\ rule \in [Rules -> Content]
  /\ desired \in [Nodes -> Nat] /\ recorded \in [Nodes -> Nat]
  /\ task \in [Tasks -> Task]
  /\ connected \subseteq Nodes /\ heard \subseteq Nodes
  /\ to_agent \in [Nodes -> Seq([gen : Nat, rules : Contents])]
  /\ to_panel \in [Nodes -> Seq(Nat)]
  /\ applied_gen \in [Nodes -> Nat]
  /\ running \in [Nodes -> [rules : Contents, up : BOOLEAN]]
  /\ causes \in [Nodes -> SUBSET Causes]

(* A task that is about something knows about what; only requests edit; the *)
(* task of a connection is about its node.                                  *)
Knows(t, x) ==
  /\ x.pc \notin {"idle", "delete"} => x.node \in Nodes
  /\ x.pc \in {"delete", "bump"} => t \in Handlers
  /\ x.pc = "delete" => x.rule \in Rules
  /\ \A n \in Nodes : t = ConnTask(n) /\ x.pc # "idle" => x.node = n

TasksKnow == \A t \in Tasks : Knows(t, task[t])

(* No generation runs ahead of the one the panel asked for.                 *)
NoneAhead ==
  /\ \A n \in Nodes :
       /\ recorded[n] <= desired[n] /\ applied_gen[n] <= desired[n]
       /\ \A i \in 1..Len(to_agent[n]) : to_agent[n][i].gen <= desired[n]
       /\ \A i \in 1..Len(to_panel[n]) : to_panel[n][i] <= desired[n]
  /\ \A t \in Tasks : task[t].pc = "send" => task[t].gen <= desired[task[t].node]

(* A reason for n's rules to be others than those of the last generation:   *)
(* what the model blames, or an edit whose generation is still to come.     *)
Excused(n) == causes[n] # {} \/ BumpDue(n)

(* Whoever holds the generation that is desired now holds the rules of now. *)
Says(n, gen, content) == gen = desired[n] => Excused(n) \/ content = RulesOf(n)

PushesSay ==
  /\ \A n \in Nodes : \A i \in 1..Len(to_agent[n]) :
       Says(n, to_agent[n][i].gen, to_agent[n][i].rules)
  /\ \A t \in Tasks :
       task[t].pc = "send" => Says(task[t].node, task[t].gen, task[t].rules)

(* A node that has applied it runs them, and all of its relays are up.      *)
AppliedRuns ==
  \A n \in Nodes :
    /\ Says(n, applied_gen[n], running[n].rules)
    /\ applied_gen[n] = desired[n] => Excused(n) \/ running[n].up

(* A node that never had a generation has no rules. *)
ZeroIsEmpty == \A n \in Nodes : Says(n, 0, {})

(* The last thing the panel has heard, or is about to hear, from n.         *)
LastWord(n) == IF to_panel[n] = << >> THEN recorded[n] ELSE to_panel[n][Len(to_panel[n])]

(* It is the truth, if it is on its way or has been recorded.               *)
HeardTruth ==
  \A n \in Nodes : (n \in heard \/ to_panel[n] # << >>) => LastWord(n) = applied_gen[n]

SyncInv ==
  Typed /\ TasksKnow /\ NoneAhead /\ PushesSay /\ AppliedRuns /\ ZeroIsEmpty /\ HeardTruth

-----------------------------------------------------------------------------
(* Steps of a task *)

(* A task that changes leaves the others where they are. *)
LEMMA Others ==
  ASSUME Typed, NEW t \in Tasks, NEW new, task' = [task EXCEPT ![t] = new]
  PROVE  task'[t] = new /\ \A k \in Tasks \ {t} : task'[k] = task[k]
  BY DEF Typed

LEMMA Goes ==
  ASSUME Typed, NEW t \in Tasks, NEW pc \in Places, NEW n \in Nodes \cup {Unowned}, GoTo(t, pc, n)
  PROVE  /\ task' \in [Tasks -> Task]
         /\ task'[t].pc = pc /\ task'[t].node = n
         /\ task'[t].rule = task[t].rule /\ task'[t].rules = task[t].rules
         /\ task'[t].gen = task[t].gen
         /\ \A k \in Tasks \ {t} : task'[k] = task[k]
<1> DEFINE new == [task[t] EXCEPT !.pc = pc, !.node = n]
<1>1. /\ new \in Task /\ new.pc = pc /\ new.node = n
      /\ new.rule = task[t].rule /\ new.rules = task[t].rules /\ new.gen = task[t].gen
  BY DEF Typed, Task
<1>2. task' = [task EXCEPT ![t] = new]
  BY DEF Typed, GoTo
<1> HIDE DEF new
<1> QED
  BY <1>1, <1>2 DEF Typed

(* A push that has read the rules, and one that has read the generation.    *)
LEMMA HasRules ==
  ASSUME Typed, NEW t \in Tasks, NEW content \in Contents,
         task' = [task EXCEPT ![t].pc = "read gen", ![t].rules = content]
  PROVE  /\ task' \in [Tasks -> Task]
         /\ task'[t].pc = "read gen" /\ task'[t].node = task[t].node
         /\ \A k \in Tasks \ {t} : task'[k] = task[k]
<1> DEFINE new == [task[t] EXCEPT !.pc = "read gen", !.rules = content]
<1>1. new \in Task /\ new.pc = "read gen" /\ new.node = task[t].node
  BY DEF Typed, Task, Places
<1>2. task' = [task EXCEPT ![t] = new]
  BY DEF Typed
<1> HIDE DEF new
<1> QED
  BY <1>1, <1>2 DEF Typed

LEMMA HasGen ==
  ASSUME Typed, NEW t \in Tasks, NEW gen \in Nat,
         task' = [task EXCEPT ![t].pc = "send", ![t].gen = gen]
  PROVE  /\ task' \in [Tasks -> Task]
         /\ task'[t].pc = "send" /\ task'[t].node = task[t].node
         /\ task'[t].rules = task[t].rules /\ task'[t].gen = gen
         /\ \A k \in Tasks \ {t} : task'[k] = task[k]
<1> DEFINE new == [task[t] EXCEPT !.pc = "send", !.gen = gen]
<1>1. /\ new \in Task /\ new.pc = "send" /\ new.node = task[t].node
      /\ new.rules = task[t].rules /\ new.gen = gen
  BY DEF Typed, Task, Places
<1>2. task' = [task EXCEPT ![t] = new]
  BY DEF Typed
<1> HIDE DEF new
<1> QED
  BY <1>1, <1>2 DEF Typed

LEMMA KindsOfTasks ==
  /\ Handlers \subseteq Tasks
  /\ \A n \in Nodes :
       /\ ConnTask(n) \in Tasks /\ ConnTask(n) \notin Handlers
       /\ Watchdog(n) \in Tasks /\ Watchdog(n) \notin Handlers
  /\ \A m, n \in Nodes : /\ ConnTask(m) # Watchdog(n)
                         /\ ConnTask(m) = ConnTask(n) => m = n
  BY HandlersAssumption DEF Tasks, ConnTask, Watchdog

LEMMA Blamed ==
  ASSUME Typed, NEW n \in Nodes, NEW cause \in Causes, Blame(n, cause)
  PROVE  /\ causes' \in [Nodes -> SUBSET Causes] /\ causes'[n] # {}
         /\ \A m \in Nodes : causes[m] # {} => causes'[m] # {}
  BY DEF Typed, Blame

-----------------------------------------------------------------------------
(* Types, step by step *)

LEMMA RulesAreContents ==
  ASSUME Typed, NEW n \in Nodes PROVE RulesOf(n) \in Contents
<1>1. \A r \in Rules : rule[r].node = n => rule[r].rev \in Revisions
  BY UnownedAssumption DEF Typed, Content
<1> QED
  BY <1>1 DEF RulesOf, Contents

LEMMA TaskTyped ==
  ASSUME Typed, NEW t \in Tasks, NEW new \in Task, task' = [task EXCEPT ![t] = new]
  PROVE  task' \in [Tasks -> Task]
  BY DEF Typed

LEMMA IdleTyped == Idle \in Task
  BY DEF Idle, Task, Places, Contents

LEMMA HandlerTyped ==
  ASSUME Typed, TasksKnow, NEW t \in Handlers, HandlerStarts(t) \/ RequestEnds(t) \/ DeleteRule(t)
  PROVE  Typed'
<1>0. t \in Tasks
  BY KindsOfTasks
<1>1. ASSUME NEW r \in Rules, NEW n \in Nodes, NEW rev \in Revisions, UpsertRule(t, r, n, rev)
      PROVE  Typed'
  <2>1. task' \in [Tasks -> Task]
    BY <1>0, <1>1, Goes DEF Places, UpsertRule
  <2>2. rule' \in [Rules -> Content]
    BY <1>1 DEF UpsertRule, Typed, Content
  <2>3. causes' \in [Nodes -> SUBSET Causes]
    <3>1. CASE rule[r].node \in {Unowned, n}
      BY <1>1, <3>1 DEF UpsertRule, Typed
    <3>2. CASE rule[r].node \notin {Unowned, n}
      <4>1. rule[r].node \in Nodes
        BY <3>2 DEF Typed, Content
      <4> QED
        BY <1>1, <3>2, <4>1, Blamed DEF UpsertRule, Causes
    <3> QED
      BY <3>1, <3>2
  <2> QED
    BY <1>1, <2>1, <2>2, <2>3 DEF UpsertRule, Typed, netvars, agentvars
<1>2. ASSUME NEW r \in Rules, FindRule(t, r) PROVE Typed'
  <2>1. rule[r].node \in Nodes \cup {Unowned}
    BY <1>2 DEF FindRule, Typed, Content
  <2>2. [Idle EXCEPT !.pc = "delete", !.node = rule[r].node, !.rule = r] \in Task
    BY <2>1 DEF Idle, Task, Places, Contents
  <2>3. task' \in [Tasks -> Task]
    BY <1>0, <1>2, <2>2, TaskTyped DEF FindRule
  <2> QED
    BY <1>2, <2>3 DEF FindRule, Typed, dbvars, netvars, agentvars
<1>3. ASSUME NEW n \in Nodes, PushUnbumped(t, n) PROVE Typed'
  <2>1. task' \in [Tasks -> Task]
    BY <1>0, <1>3, Goes DEF Places, PushUnbumped
  <2> QED
    BY <1>3, <2>1 DEF PushUnbumped, Typed, dbvars, netvars, agentvars
<1>4. CASE RequestEnds(t)
  <2>1. task' \in [Tasks -> Task]
    BY <1>0, <1>4, IdleTyped, TaskTyped DEF RequestEnds
  <2>2. causes' \in [Nodes -> SUBSET Causes]
    BY <1>0, <1>4, Blamed DEF RequestEnds, TasksKnow, Knows, Causes, Typed
  <2> QED
    BY <1>4, <2>1, <2>2 DEF RequestEnds, Typed, dbvars, netvars, agentvars
<1>5. CASE DeleteRule(t)
  <2> DEFINE n == rule[task[t].rule].node
  <2>1. task[t].rule \in Rules /\ task[t].node \in Nodes \cup {Unowned}
    BY <1>0, <1>5 DEF DeleteRule, TasksKnow, Knows, Typed, Task
  <2>2. task' \in [Tasks -> Task]
    <3>1. CASE task[t].node = Unowned
      BY <1>0, <1>5, <3>1, IdleTyped, TaskTyped DEF DeleteRule
    <3>2. CASE task[t].node # Unowned
      BY <1>0, <1>5, <2>1, <3>2, Goes DEF Places, DeleteRule
    <3> QED
      BY <3>1, <3>2
  <2>3. rule' \in [Rules -> Content]
    BY <1>5, <2>1 DEF DeleteRule, Typed, Content
  <2>4. causes' \in [Nodes -> SUBSET Causes]
    <3>1. CASE n \in {Unowned, task[t].node}
      BY <1>5, <3>1 DEF DeleteRule, Typed
    <3>2. CASE n \notin {Unowned, task[t].node}
      <4>1. n \in Nodes
        BY <2>1, <3>2 DEF Typed, Content
      <4> QED
        BY <1>5, <3>2, <4>1, Blamed DEF DeleteRule, Causes
    <3> QED
      BY <3>1, <3>2
  <2> QED
    BY <1>5, <2>2, <2>3, <2>4 DEF DeleteRule, Typed, netvars, agentvars
<1> QED
  BY <1>1, <1>2, <1>3, <1>4, <1>5 DEF HandlerStarts

LEMMA PushTyped ==
  ASSUME Typed, TasksKnow, NEW t \in Tasks,
         BumpDesiredGen(t) \/ ReadRules(t) \/ ReadGen(t) \/ Send(t) \/ ReadFails(t)
  PROVE  Typed'
<1>1. task[t].node \in Nodes
  BY DEF BumpDesiredGen, ReadRules, ReadGen, Send, ReadFails, TasksKnow, Knows
<1>2. CASE BumpDesiredGen(t)
  <2>1. task' \in [Tasks -> Task]
    BY <1>1, <1>2, Goes DEF Places, BumpDesiredGen
  <2>2. desired' = [desired EXCEPT ![task[t].node] = desired[task[t].node] + 1]
    BY <1>2 DEF BumpDesiredGen
  <2>3. desired' \in [Nodes -> Nat]
    BY <1>1, <2>2 DEF Typed
  <2> QED
    BY <1>2, <2>1, <2>3 DEF BumpDesiredGen, Typed, netvars, agentvars
<1>3. CASE ReadRules(t)
  <2>1. RulesOf(task[t].node) \in Contents
    BY <1>1, RulesAreContents
  <2>3. task' \in [Tasks -> Task]
    BY <1>3, <2>1, HasRules DEF ReadRules
  <2> QED
    BY <1>3, <2>3 DEF ReadRules, Typed, dbvars, netvars, agentvars
<1>4. CASE ReadGen(t)
  <2>1. task' \in [Tasks -> Task]
    BY <1>1, <1>4, HasGen DEF ReadGen, Typed
  <2>2. causes' \in [Nodes -> SUBSET Causes]
    BY <1>1, <1>4, Blamed DEF ReadGen, Typed, Causes
  <2> QED
    BY <1>4, <2>1, <2>2 DEF ReadGen, Typed, dbvars, netvars, agentvars
<1>5. CASE Send(t)
  <2>1. task' \in [Tasks -> Task]
    BY <1>5, IdleTyped, TaskTyped DEF Send
  <2>2. [gen |-> task[t].gen, rules |-> task[t].rules] \in [gen : Nat, rules : Contents]
    BY DEF Typed, Task
  <2> DEFINE queue == Append(to_agent[task[t].node], [gen |-> task[t].gen, rules |-> task[t].rules])
  <2>3. queue \in Seq([gen : Nat, rules : Contents])
    BY <1>1, <2>2, AppendProperties DEF Typed
  <2>4. to_agent' = [to_agent EXCEPT ![task[t].node] = queue] \/ to_agent' = to_agent
    BY <1>5 DEF Send
  <2> HIDE DEF queue
  <2>5. to_agent' \in [Nodes -> Seq([gen : Nat, rules : Contents])]
    BY <1>1, <2>3, <2>4 DEF Typed
  <2> QED
    BY <1>5, <2>1, <2>5 DEF Send, Typed, dbvars, agentvars
<1>6. CASE ReadFails(t)
  <2>1. task' \in [Tasks -> Task]
    BY <1>6, IdleTyped, TaskTyped DEF ReadFails
  <2> QED
    BY <1>6, <2>1 DEF ReadFails, Typed, dbvars, netvars, agentvars
<1> QED
  BY <1>2, <1>3, <1>4, <1>5, <1>6

LEMMA NodeTyped ==
  ASSUME Typed, NEW n \in Nodes,
         \/ OnConnect(n) \/ Disconnect(n) \/ AgentRestarts(n) \/ DriftWatchdog(n)
         \/ ApplyPush(n) \/ ApplyFails(n) \/ StatusReport(n) \/ RecordAppliedGen(n)
         \/ RecordFails(n)
  PROVE  Typed'
<1>1. CASE OnConnect(n)
  <2>1. task' \in [Tasks -> Task]
    BY <1>1, KindsOfTasks, Goes DEF Places, OnConnect
  <2> QED
    BY <1>1, <2>1 DEF OnConnect, Typed, dbvars, agentvars
<1>2. CASE DriftWatchdog(n)
  <2>1. task' \in [Tasks -> Task]
    BY <1>2, KindsOfTasks, Goes DEF Places, DriftWatchdog
  <2> QED
    BY <1>2, <2>1 DEF DriftWatchdog, Typed, dbvars, netvars, agentvars
<1>3. LoseConnection(n) =>
        /\ connected' \subseteq Nodes /\ heard' \subseteq Nodes
        /\ task' \in [Tasks -> Task]
        /\ to_agent' \in [Nodes -> Seq([gen : Nat, rules : Contents])]
        /\ to_panel' \in [Nodes -> Seq(Nat)]
  <2>1. LoseConnection(n) => task' \in [Tasks -> Task]
    BY KindsOfTasks, IdleTyped, TaskTyped DEF LoseConnection
  <2>2. << >> \in Seq([gen : Nat, rules : Contents]) /\ << >> \in Seq(Nat)
    BY EmptySeq
  <2> QED
    BY <2>1, <2>2 DEF LoseConnection, Typed
<1>4. CASE Disconnect(n)
  BY <1>3, <1>4 DEF Disconnect, Typed, dbvars, agentvars
<1>5. CASE AgentRestarts(n)
  BY <1>3, <1>5 DEF AgentRestarts, Typed, dbvars, Contents
<1>6. ASSUME to_agent[n] # << >>
      PROVE  /\ Head(to_agent[n]) \in [gen : Nat, rules : Contents]
             /\ Tail(to_agent[n]) \in Seq([gen : Nat, rules : Contents])
  BY <1>6, HeadTailProperties DEF Typed
<1>7. \A gen \in Nat : Reply(n, gen) => to_panel' \in [Nodes -> Seq(Nat)]
  BY AppendProperties DEF Reply, Typed
<1>8. CASE ApplyPush(n)
  BY <1>6, <1>7, <1>8 DEF ApplyPush, Typed, dbvars
<1>9. CASE ApplyFails(n)
  <2>1. causes' \in [Nodes -> SUBSET Causes]
    BY <1>9, Blamed DEF ApplyFails, FailedApply, Typed, Causes
  <2>2. running' \in [Nodes -> [rules : Contents, up : BOOLEAN]]
    <3>1. [rules |-> Head(to_agent[n]).rules, up |-> FALSE] \in [rules : Contents, up : BOOLEAN]
      BY <1>6, <1>9 DEF ApplyFails, FailedApply
    <3>2. \/ running' = running
          \/ running' = [running EXCEPT ![n] = [rules |-> Head(to_agent[n]).rules, up |-> FALSE]]
      BY <1>9 DEF ApplyFails, FailedApply
    <3> QED
      BY <3>1, <3>2 DEF Typed
  <2> QED
    BY <1>6, <1>7, <1>9, <2>1, <2>2 DEF ApplyFails, FailedApply, Typed, dbvars
<1>10. CASE StatusReport(n)
  BY <1>7, <1>10 DEF StatusReport, Typed, dbvars, agentvars
<1>11. CASE RecordAppliedGen(n) \/ RecordFails(n)
  <2>1. Head(to_panel[n]) \in Nat /\ Tail(to_panel[n]) \in Seq(Nat)
    BY <1>11, HeadTailProperties DEF RecordAppliedGen, RecordFails, Receives, Typed
  <2> QED
    BY <1>11, <2>1 DEF RecordAppliedGen, RecordFails, Receives, Typed, agentvars
<1> QED
  BY <1>1, <1>2, <1>4, <1>5, <1>8, <1>9, <1>10, <1>11

LEMMA NextTyped == ASSUME Typed, TasksKnow, Next PROVE Typed'
<1>1. ASSUME NEW t \in Tasks, DeleteRule(t) PROVE t \in Handlers
  BY <1>1 DEF DeleteRule, TasksKnow, Knows
<1>2. ASSUME NEW t \in Tasks, TaskStep(t) PROVE Typed'
  BY <1>1, <1>2, HandlerTyped, PushTyped DEF TaskStep
<1> QED
  BY <1>2, HandlerTyped, PushTyped, NodeTyped DEF Next

-----------------------------------------------------------------------------
(* A task that goes on with its push is about the node that it was about.   *)
LEMMA GoesOn ==
  ASSUME Typed, TasksKnow, NEW t \in Tasks,
         BumpDesiredGen(t) \/ ReadRules(t) \/ ReadGen(t) \/ Send(t)
  PROVE  /\ task[t].node \in Nodes /\ task[t].pc # "idle"
         /\ \A k \in Tasks \ {t} : task'[k] = task[k]
         /\ task'[t].pc \notin {"delete", "bump"}
         /\ task'[t].pc # "idle" => task'[t].node = task[t].node
<1>1. task[t].node \in Nodes /\ task[t].pc # "idle"
  BY DEF BumpDesiredGen, ReadRules, ReadGen, Send, TasksKnow, Knows
<1>2. CASE BumpDesiredGen(t)
  BY <1>1, <1>2, Goes DEF BumpDesiredGen, Places
<1>3. CASE ReadRules(t)
  BY <1>1, <1>3, HasRules, RulesAreContents DEF ReadRules
<1>4. CASE ReadGen(t)
  BY <1>1, <1>4, HasGen DEF ReadGen, Typed
<1>5. CASE Send(t)
  BY <1>1, <1>5, Others DEF Send, Idle
<1> QED
  BY <1>2, <1>3, <1>4, <1>5

LEMMA NextKnows == ASSUME Typed, TasksKnow, Next PROVE TasksKnow'
<1>1. ASSUME NEW t \in Tasks, \A k \in Tasks \ {t} : task'[k] = task[k], Knows(t, task'[t])
      PROVE  TasksKnow'
  BY <1>1 DEF TasksKnow
<1>2. ASSUME NEW t \in Handlers PROVE t \in Tasks /\ \A n \in Nodes : t # ConnTask(n)
  BY <1>2, KindsOfTasks
<1>3. ASSUME NEW t \in Handlers, NEW r \in Rules, NEW n \in Nodes, NEW rev \in Revisions,
             UpsertRule(t, r, n, rev)
      PROVE  TasksKnow'
  <2>1. /\ task'[t].pc = "bump" /\ task'[t].node = n
        /\ \A k \in Tasks \ {t} : task'[k] = task[k]
    BY <1>2, <1>3, Goes DEF UpsertRule, Places
  <2> QED
    BY <1>1, <1>2, <2>1 DEF Knows
<1>4. ASSUME NEW t \in Handlers, NEW r \in Rules, FindRule(t, r) PROVE TasksKnow'
  <2>1. /\ task'[t] = [Idle EXCEPT !.pc = "delete", !.node = rule[r].node, !.rule = r]
        /\ \A k \in Tasks \ {t} : task'[k] = task[k]
    BY <1>2, <1>4, Others DEF FindRule
  <2> QED
    BY <1>1, <1>2, <2>1 DEF Knows, Idle
<1>5. ASSUME NEW t \in Handlers, NEW n \in Nodes, PushUnbumped(t, n) PROVE TasksKnow'
  <2>1. /\ task'[t].pc = "read rules" /\ task'[t].node = n
        /\ \A k \in Tasks \ {t} : task'[k] = task[k]
    BY <1>2, <1>5, Goes DEF PushUnbumped, Places
  <2> QED
    BY <1>1, <1>2, <2>1 DEF Knows
<1>6. ASSUME NEW t \in Tasks, RequestEnds(t) \/ ReadFails(t) PROVE TasksKnow'
  <2>1. task'[t] = Idle /\ \A k \in Tasks \ {t} : task'[k] = task[k]
    BY <1>6, Others DEF RequestEnds, ReadFails
  <2> QED
    BY <1>1, <2>1 DEF Knows, Idle
<1>7. ASSUME NEW t \in Tasks, DeleteRule(t) PROVE TasksKnow'
  <2>1. t \in Handlers /\ task[t].node \in Nodes \cup {Unowned}
    BY <1>7 DEF DeleteRule, TasksKnow, Knows, Typed, Task
  <2>2. CASE task[t].node = Unowned
    <3>1. task'[t] = Idle /\ \A k \in Tasks \ {t} : task'[k] = task[k]
      BY <1>7, <2>2, Others DEF DeleteRule
    <3> QED
      BY <1>1, <3>1 DEF Knows, Idle
  <2>3. CASE task[t].node # Unowned
    <3>1. /\ task'[t].pc = "bump" /\ task'[t].node = task[t].node
          /\ \A k \in Tasks \ {t} : task'[k] = task[k]
      BY <1>7, <2>1, <2>3, Goes DEF DeleteRule, Places
    <3> QED
      BY <1>1, <1>2, <2>1, <2>3, <3>1 DEF Knows
  <2> QED
    BY <2>2, <2>3
<1>8. ASSUME NEW t \in Tasks, BumpDesiredGen(t) \/ ReadRules(t) \/ ReadGen(t) \/ Send(t)
      PROVE  TasksKnow'
  <2>1. Knows(t, task[t])
    BY DEF TasksKnow
  <2> QED
    BY <1>1, <1>8, <2>1, GoesOn DEF Knows
<1>9. ASSUME NEW n \in Nodes, OnConnect(n) PROVE TasksKnow'
  <2>1. /\ task'[ConnTask(n)].pc = "read rules" /\ task'[ConnTask(n)].node = n
        /\ \A k \in Tasks \ {ConnTask(n)} : task'[k] = task[k]
    BY <1>9, KindsOfTasks, Goes DEF OnConnect, Places
  <2> QED
    BY <1>1, KindsOfTasks, <2>1 DEF Knows
<1>10. ASSUME NEW n \in Nodes, DriftWatchdog(n) PROVE TasksKnow'
  <2>1. /\ task'[Watchdog(n)].pc = "read rules" /\ task'[Watchdog(n)].node = n
        /\ \A k \in Tasks \ {Watchdog(n)} : task'[k] = task[k]
    BY <1>10, KindsOfTasks, Goes DEF DriftWatchdog, Places
  <2> QED
    BY <1>1, KindsOfTasks, <2>1 DEF Knows
<1>11. ASSUME NEW n \in Nodes, LoseConnection(n) PROVE TasksKnow'
  <2>1. /\ task'[Watchdog(n)] = Idle
        /\ \A k \in Tasks \ {Watchdog(n)} : task'[k] = task[k]
    BY <1>11, KindsOfTasks, Others DEF LoseConnection
  <2> QED
    BY <1>1, KindsOfTasks, <2>1 DEF Knows, Idle
<1>12. ASSUME NEW n \in Nodes, \/ ApplyPush(n) \/ ApplyFails(n) \/ StatusReport(n)
                               \/ RecordAppliedGen(n) \/ RecordFails(n)
       PROVE  TasksKnow'
  BY <1>12 DEF ApplyPush, ApplyFails, FailedApply, StatusReport, RecordAppliedGen, RecordFails,
               Receives, TasksKnow
<1> QED
  BY <1>2, <1>3, <1>4, <1>5, <1>6, <1>7, <1>8, <1>9, <1>10, <1>11, <1>12
     DEF Next, HandlerStarts, TaskStep, Disconnect, AgentRestarts

-----------------------------------------------------------------------------
(* What a step may do to the database, as n's generation sees it: either    *)
(* the generation is as it was, and so are the rules, unless n is excused;  *)
(* or it is a new one.                                                      *)
Moves(n) ==
  \/ /\ desired'[n] = desired[n] /\ (Excused(n) => Excused(n)')
     /\ Excused(n)' \/ RulesOf(n)' = RulesOf(n)
  \/ desired'[n] > desired[n]

(* A task that was not about to bump changes no excuse. *)
LEMMA DueStays ==
  ASSUME NEW t, \A k \in Tasks \ {t} : task'[k] = task[k], task[t].pc # "bump", NEW n, BumpDue(n)
  PROVE  BumpDue(n)'
  BY KindsOfTasks DEF BumpDue

LEMMA QuietMoves ==
  ASSUME Typed, NEW t, \A k \in Tasks \ {t} : task'[k] = task[k], task[t].pc # "bump",
         UNCHANGED <<rule, desired>>, \A n \in Nodes : causes[n] # {} => causes'[n] # {}
  PROVE  \A n \in Nodes : Moves(n)
<1>1. \A n : RulesOf(n)' = RulesOf(n)
  BY DEF RulesOf
<1> QED
  BY <1>1, DueStays DEF Moves, Excused

(* Rule r is replaced by a row that is to's or nobody's; its request has a  *)
(* bump to come at that node, if it is one, and a node that loses the rule  *)
(* is blamed.                                                               *)
Edits(t, r, to, new) ==
  /\ to # Unowned => task'[t].pc = "bump" /\ task'[t].node = to
  /\ task[t].pc # "bump" /\ task'[t].pc \in {"bump", "idle"}
  /\ \A k \in Tasks \ {t} : task'[k] = task[k]
  /\ desired' = desired /\ rule' = [rule EXCEPT ![r] = new]
  /\ IF rule[r].node \in {Unowned, to} THEN UNCHANGED causes
     ELSE Blame(rule[r].node, "moved away")

LEMMA UpsertEdits ==
  ASSUME Typed, NEW t \in Tasks, NEW r \in Rules, NEW n \in Nodes, NEW rev \in Revisions,
         UpsertRule(t, r, n, rev)
  PROVE  /\ [node |-> n, rev |-> rev] \in Content
         /\ Edits(t, r, n, [node |-> n, rev |-> rev])
<1>1. /\ task'[t].pc = "bump" /\ task'[t].node = n
      /\ \A k \in Tasks \ {t} : task'[k] = task[k]
  BY Goes DEF UpsertRule, Places
<1> QED
  BY <1>1 DEF UpsertRule, Content, Edits

LEMMA DeleteEdits ==
  ASSUME Typed, TasksKnow, NEW t \in Tasks, DeleteRule(t)
  PROVE  /\ t \in Handlers /\ task[t].rule \in Rules /\ task[t].node \in Nodes \cup {Unowned}
         /\ [node |-> Unowned, rev |-> 0] \in Content
         /\ Edits(t, task[t].rule, task[t].node, [node |-> Unowned, rev |-> 0])
<1>1. t \in Handlers /\ task[t].rule \in Rules /\ task[t].node \in Nodes \cup {Unowned}
  BY DEF DeleteRule, TasksKnow, Knows, Typed, Task
<1>2. /\ task[t].node # Unowned => task'[t].pc = "bump" /\ task'[t].node = task[t].node
      /\ task'[t].pc \in {"bump", "idle"}
      /\ \A k \in Tasks \ {t} : task'[k] = task[k]
  <2>1. CASE task[t].node = Unowned
    <3>1. task'[t] = Idle /\ \A k \in Tasks \ {t} : task'[k] = task[k]
      BY <2>1, Others DEF DeleteRule
    <3> QED
      BY <2>1, <3>1 DEF Idle
  <2>2. CASE task[t].node # Unowned
    BY <1>1, <2>2, Goes DEF DeleteRule, Places
  <2> QED
    BY <2>1, <2>2
<1> QED
  BY <1>1, <1>2 DEF DeleteRule, Content, Edits

LEMMA EditMoves ==
  ASSUME Typed, NEW t \in Handlers, NEW r \in Rules, NEW to \in Nodes \cup {Unowned}, NEW new \in Content,
         Edits(t, r, to, new), new.node \in {to, Unowned}
  PROVE  \A n \in Nodes : Moves(n)
<1>1. t \in Tasks
  BY KindsOfTasks
<1>2. SUFFICES ASSUME NEW n \in Nodes PROVE Moves(n)
  OBVIOUS
<1>3. \A m \in Nodes : causes[m] # {} => causes'[m] # {}
  <2>1. rule[r].node \notin {Unowned, to} => rule[r].node \in Nodes
    BY DEF Typed, Content
  <2>2. "moved away" \in Causes
    BY DEF Causes
  <2> QED
    BY <2>1, <2>2, Blamed DEF Edits
<1>4. CASE n = to
  BY <1>4, UnownedAssumption DEF Edits, Moves, Excused, BumpDue
<1>5. CASE n # to /\ rule[r].node = n
  BY <1>5, Blamed, UnownedAssumption DEF Edits, Moves, Excused, Causes
<1>6. CASE n # to /\ rule[r].node # n
  <2>1. \A q \in Rules : IF q = r THEN rule'[q].node # n /\ rule[q].node # n
                         ELSE rule'[q] = rule[q]
    BY <1>6, UnownedAssumption DEF Edits, Typed
  <2>2. RulesOf(n)' = RulesOf(n)
    BY <2>1 DEF RulesOf
  <2> QED
    BY <1>3, <2>2, DueStays DEF Edits, Moves, Excused
<1> QED
  BY <1>4, <1>5, <1>6

LEMMA NextMoves == ASSUME Typed, TasksKnow, Next PROVE \A n \in Nodes : Moves(n)
<1>0. ASSUME NEW t \in Handlers PROVE t \in Tasks
  BY <1>0, KindsOfTasks
<1>1. ASSUME NEW t \in Tasks, DeleteRule(t) PROVE \A n \in Nodes : Moves(n)
  <2>1. [node |-> Unowned, rev |-> 0].node = Unowned
    OBVIOUS
  <2> QED
    BY <1>1, <2>1, DeleteEdits, EditMoves
<1>2. ASSUME NEW t \in Handlers, NEW r \in Rules, NEW n \in Nodes, NEW rev \in Revisions,
             UpsertRule(t, r, n, rev)
      PROVE  \A m \in Nodes : Moves(m)
  <2> DEFINE row == [node |-> n, rev |-> rev]
  <2>1. row \in Content /\ row.node = n /\ Edits(t, r, n, row)
    BY <1>0, <1>2, UpsertEdits
  <2> HIDE DEF row
  <2> QED
    BY <2>1, EditMoves
<1>3. ASSUME NEW t \in Handlers, NEW r \in Rules, FindRule(t, r)
      PROVE  \A n \in Nodes : Moves(n)
  <2>1. \A k \in Tasks \ {t} : task'[k] = task[k]
    BY <1>0, <1>3, Others DEF FindRule
  <2> QED
    BY <1>3, <2>1, QuietMoves DEF FindRule, dbvars
<1>4. ASSUME NEW t \in Handlers, NEW n \in Nodes, PushUnbumped(t, n)
      PROVE  \A m \in Nodes : Moves(m)
  <2>1. \A k \in Tasks \ {t} : task'[k] = task[k]
    BY <1>0, <1>4, Goes DEF PushUnbumped, Places
  <2> QED
    BY <1>4, <2>1, QuietMoves DEF PushUnbumped, dbvars
<1>5. ASSUME NEW t \in Handlers, RequestEnds(t) PROVE \A n \in Nodes : Moves(n)
  <2>1. \A k \in Tasks \ {t} : task'[k] = task[k]
    BY <1>0, <1>5, Others DEF RequestEnds
  <2>2. CASE task[t].pc # "bump"
    BY <1>5, <2>1, <2>2, QuietMoves DEF RequestEnds, dbvars
  <2>3. CASE task[t].pc = "bump"
    <3>1. task[t].node \in Nodes
      BY <1>0, <2>3 DEF TasksKnow, Knows
    <3>2. \A n : RulesOf(n)' = RulesOf(n)
      BY <1>5 DEF RequestEnds, dbvars, RulesOf
    <3>3. /\ causes'[task[t].node] # {}
          /\ \A n \in Nodes : causes[n] # {} => causes'[n] # {}
      BY <1>5, <2>3, <3>1, Blamed DEF RequestEnds, Causes
    <3>4. \A n \in Nodes \ {task[t].node} : BumpDue(n) => BumpDue(n)'
      BY <1>0, <2>1 DEF BumpDue
    <3> QED
      BY <1>5, <3>2, <3>3, <3>4 DEF RequestEnds, dbvars, Moves, Excused
  <2> QED
    BY <2>2, <2>3
<1>6. ASSUME NEW t \in Tasks, BumpDesiredGen(t) PROVE \A n \in Nodes : Moves(n)
  <2>1. task[t].node \in Nodes /\ \A k \in Tasks \ {t} : task'[k] = task[k]
    BY <1>6, GoesOn
  <2>2. \A n : RulesOf(n)' = RulesOf(n)
    BY <1>6 DEF BumpDesiredGen, RulesOf
  <2>3. \A n \in Nodes \ {task[t].node} : BumpDue(n) => BumpDue(n)'
    BY <1>0, <2>1 DEF BumpDue
  <2>4. desired' = [desired EXCEPT ![task[t].node] = desired[task[t].node] + 1]
    BY <1>6 DEF BumpDesiredGen
  <2>5. \A n \in Nodes : IF n = task[t].node THEN desired'[n] > desired[n]
                         ELSE desired'[n] = desired[n]
    BY <2>1, <2>4 DEF Typed
  <2> QED
    BY <1>6, <2>2, <2>3, <2>5 DEF BumpDesiredGen, Moves, Excused
<1>7. ASSUME NEW t \in Tasks, ReadRules(t) \/ ReadGen(t) \/ Send(t)
      PROVE  \A n \in Nodes : Moves(n)
  <2>1. task[t].node \in Nodes /\ \A k \in Tasks \ {t} : task'[k] = task[k]
    BY <1>7, GoesOn
  <2>2. \A n \in Nodes : causes[n] # {} => causes'[n] # {}
    BY <1>7, <2>1, Blamed DEF ReadRules, ReadGen, Send, Causes
  <2> QED
    BY <1>7, <2>1, <2>2, QuietMoves DEF ReadRules, ReadGen, Send, dbvars
<1>8. ASSUME NEW n \in Nodes, OnConnect(n) \/ DriftWatchdog(n)
      PROVE  \A m \in Nodes : Moves(m)
  <2>1. \E t : task[t].pc # "bump" /\ \A k \in Tasks \ {t} : task'[k] = task[k]
    BY <1>8, KindsOfTasks, Goes DEF OnConnect, DriftWatchdog, Places
  <2> QED
    BY <1>8, <2>1, QuietMoves DEF OnConnect, DriftWatchdog, dbvars
<1>9. ASSUME NEW n \in Nodes, LoseConnection(n), UNCHANGED <<dbvars, causes>>
      PROVE  \A m \in Nodes : Moves(m)
  <2>1. /\ \A k \in Tasks \ {Watchdog(n)} : task'[k] = task[k]
        /\ task[Watchdog(n)].pc # "bump"
    BY <1>9, KindsOfTasks, Others DEF LoseConnection, TasksKnow, Knows
  <2> QED
    BY <1>9, <2>1, QuietMoves DEF dbvars
<1>10. ASSUME NEW n \in Nodes, \/ ApplyPush(n) \/ ApplyFails(n) \/ StatusReport(n)
                               \/ RecordAppliedGen(n) \/ RecordFails(n)
       PROVE  \A m \in Nodes : Moves(m)
  <2>1. UNCHANGED <<rule, desired, task>>
    BY <1>10 DEF ApplyPush, ApplyFails, FailedApply, StatusReport, RecordAppliedGen,
                 RecordFails, Receives, dbvars
  <2>2. \A m \in Nodes : causes[m] # {} => causes'[m] # {}
    BY <1>10, Blamed DEF ApplyPush, ApplyFails, FailedApply, StatusReport, RecordAppliedGen,
                         RecordFails, Receives, Causes
  <2>3. task[ConnTask(n)].pc # "bump"
    BY KindsOfTasks DEF TasksKnow, Knows
  <2> QED
    BY <2>1, <2>2, <2>3, QuietMoves
<1>11. ASSUME NEW t \in Tasks, ReadFails(t) PROVE \A n \in Nodes : Moves(n)
  <2>1. \A k \in Tasks \ {t} : task'[k] = task[k]
    BY <1>11, Others DEF ReadFails
  <2> QED
    BY <1>11, <2>1, QuietMoves DEF ReadFails, dbvars
<1> QED
  BY <1>1, <1>2, <1>3, <1>4, <1>5, <1>6, <1>7, <1>8, <1>9, <1>10, <1>11
     DEF Next, HandlerStarts, TaskStep, Disconnect, AgentRestarts

-----------------------------------------------------------------------------
(* What is in a queue has the queue's type, the head included.              *)
LEMMA InQueue ==
  ASSUME Typed, NEW n \in Nodes
  PROVE  /\ Len(to_agent[n]) \in Nat /\ Len(to_panel[n]) \in Nat
         /\ \A i \in 1..Len(to_agent[n]) : to_agent[n][i].gen \in Nat
         /\ \A i \in 1..Len(to_panel[n]) : to_panel[n][i] \in Nat
         /\ to_agent[n] # << >> => /\ Len(to_agent[n]) > 0
                                   /\ Head(to_agent[n]) = to_agent[n][1]
         /\ to_panel[n] # << >> => /\ Len(to_panel[n]) > 0
                                   /\ Head(to_panel[n]) = to_panel[n][1]
<1> DEFINE Push == [gen : Nat, rules : Contents]
<1>1. to_agent[n] \in Seq(Push) /\ to_panel[n] \in Seq(Nat)
  BY DEF Typed
<1>2. \A push \in Push : push.gen \in Nat
  OBVIOUS
<1> HIDE DEF Push
<1>3. \A i \in 1..Len(to_agent[n]) : to_agent[n][i] \in Push
  BY <1>1, ElementOfSeq
<1>4. \A i \in 1..Len(to_panel[n]) : to_panel[n][i] \in Nat
  BY <1>1, ElementOfSeq
<1>5. /\ to_agent[n] # << >> => Len(to_agent[n]) > 0 /\ Head(to_agent[n]) = to_agent[n][1]
      /\ to_panel[n] # << >> => Len(to_panel[n]) > 0 /\ Head(to_panel[n]) = to_panel[n][1]
      /\ Len(to_agent[n]) \in Nat /\ Len(to_panel[n]) \in Nat
  BY <1>1, EmptySeq, LenProperties
<1> QED
  BY <1>2, <1>3, <1>4, <1>5

(* Holding a generation and its rules, before a step and after it           *)

Held(n, gen, content) ==
  gen <= desired[n] /\ Says(n, gen, content)
HeldNext(n, gen, content) ==
  gen <= desired'[n] /\ (gen = desired'[n] => Excused(n)' \/ content = RulesOf(n)')

LEMMA HeldOn ==
  ASSUME Typed, Typed', NEW n \in Nodes, NEW gen \in Nat, NEW content,
         Moves(n), Held(n, gen, content)
  PROVE  HeldNext(n, gen, content)
<1>1. desired[n] \in Nat /\ desired'[n] \in Nat
  BY DEF Typed
<1> QED
  BY <1>1 DEF Moves, Held, HeldNext, Says

(* Where the messages on their way to a node come from. *)
LEMMA PushesComeFrom ==
  ASSUME Typed, TasksKnow, Next
  PROVE  \A n \in Nodes : \A i \in 1..Len(to_agent'[n]) :
           \/ \E j \in 1..Len(to_agent[n]) : to_agent'[n][i] = to_agent[n][j]
           \/ \E t \in Tasks : /\ task[t].pc = "send" /\ task[t].node = n
                               /\ to_agent'[n][i] = [gen |-> task[t].gen, rules |-> task[t].rules]
<1> DEFINE From(n, queue) ==
      \A i \in 1..Len(queue) :
        \/ \E j \in 1..Len(to_agent[n]) : queue[i] = to_agent[n][j]
        \/ \E t \in Tasks : /\ task[t].pc = "send" /\ task[t].node = n
                            /\ queue[i] = [gen |-> task[t].gen, rules |-> task[t].rules]
<1>0. \A n \in Nodes : From(n, to_agent[n])
  OBVIOUS
<1>1. CASE UNCHANGED to_agent
  BY <1>0, <1>1
<1>2. ASSUME NEW t \in Tasks, Send(t) PROVE \A n \in Nodes : From(n, to_agent'[n])
  <2> DEFINE m == task[t].node
             push == [gen |-> task[t].gen, rules |-> task[t].rules]
  <2>1. m \in Nodes /\ task[t].pc = "send"
    BY <1>2 DEF Send, TasksKnow, Knows
  <2>2. CASE UNCHANGED to_agent
    BY <1>1, <2>2
  <2>3. CASE to_agent' = [to_agent EXCEPT ![m] = Append(to_agent[m], push)]
    <3>1. push \in [gen : Nat, rules : Contents]
      BY DEF Typed, Task
    <3> HIDE DEF push
    <3>2. /\ Len(Append(to_agent[m], push)) = Len(to_agent[m]) + 1
          /\ \A i \in 1..Len(to_agent[m]) : Append(to_agent[m], push)[i] = to_agent[m][i]
          /\ Append(to_agent[m], push)[Len(to_agent[m]) + 1] = push
      BY <2>1, <3>1, AppendProperties DEF Typed
    <3>3. Len(to_agent[m]) \in Nat
      BY <2>1, LenProperties DEF Typed
    <3>4. From(m, Append(to_agent[m], push))
      BY <2>1, <3>2, <3>3 DEF push
    <3> HIDE DEF From
    <3> QED
      BY <1>0, <2>1, <2>3, <3>4 DEF Typed
  <2> QED
    BY <1>2, <2>2, <2>3 DEF Send
<1>3. ASSUME NEW n \in Nodes, LoseConnection(n) PROVE \A m \in Nodes : From(m, to_agent'[m])
  <2>1. From(n, << >>)
    OBVIOUS
  <2> HIDE DEF From
  <2> QED
    BY <1>0, <1>3, <2>1 DEF LoseConnection, Typed
<1>4. ASSUME NEW n \in Nodes, ApplyPush(n) \/ ApplyFails(n)
      PROVE  \A m \in Nodes : From(m, to_agent'[m])
  <2>1. /\ to_agent[n] # << >> /\ to_agent' = [to_agent EXCEPT ![n] = Tail(to_agent[n])]
    BY <1>4 DEF ApplyPush, ApplyFails, FailedApply
  <2>2. /\ Len(to_agent[n]) \in Nat /\ Len(Tail(to_agent[n])) = Len(to_agent[n]) - 1
        /\ \A i \in 1..Len(Tail(to_agent[n])) : Tail(to_agent[n])[i] = to_agent[n][i + 1]
    BY <2>1, LenProperties, HeadTailProperties DEF Typed
  <2>3. From(n, Tail(to_agent[n]))
    BY <2>2
  <2> HIDE DEF From
  <2> QED
    BY <1>0, <2>1, <2>3 DEF Typed
<1> HIDE DEF From
<1>5. \A n \in Nodes : From(n, to_agent'[n])
  <2>1. ASSUME UNCHANGED to_agent PROVE \A n \in Nodes : From(n, to_agent'[n])
    BY <1>0, <2>1
  <2> QED
    BY <1>2, <1>3, <1>4, <2>1
       DEF Next, HandlerStarts, TaskStep, Disconnect, AgentRestarts, UpsertRule, FindRule,
           PushUnbumped, RequestEnds, DeleteRule, BumpDesiredGen, ReadRules, ReadGen,
           ReadFails, OnConnect, DriftWatchdog, StatusReport, RecordAppliedGen, RecordFails,
           Receives, netvars
<1> QED
  BY <1>5 DEF From

(* What a task is about to send is what it was about to send, or what it    *)
(* has just read: and then the rules are as old as they are, or blamed.     *)
LEMMA SendersReadIt ==
  ASSUME Typed, TasksKnow, Next
  PROVE  \A t \in Tasks : task'[t].pc = "send" =>
           \/ task'[t] = task[t]
           \/ \E n \in Nodes : /\ task'[t].node = n /\ task'[t].gen = desired'[n]
                               /\ Excused(n)' \/ task'[t].rules = RulesOf(n)'
<1>0. ASSUME NEW k \in Tasks, \A t \in Tasks \ {k} : task'[t] = task[t],
             task'[k].pc # "send"
      PROVE  \A t \in Tasks : task'[t].pc = "send" => task'[t] = task[t]
  BY <1>0
<1>1. ASSUME UNCHANGED task
      PROVE  \A t \in Tasks : task'[t].pc = "send" => task'[t] = task[t]
  BY <1>1
<1>2. ASSUME NEW t \in Handlers PROVE t \in Tasks
  BY <1>2, KindsOfTasks
<1>3. ASSUME NEW k \in Tasks, ReadGen(k)
      PROVE  /\ \A t \in Tasks \ {k} : task'[t] = task[t]
             /\ \E n \in Nodes : /\ task'[k].node = n /\ task'[k].gen = desired'[n]
                                 /\ Excused(n)' \/ task'[k].rules = RulesOf(n)'
  <2> DEFINE n == task[k].node
  <2>1. n \in Nodes /\ desired[n] \in Nat /\ task[k].pc = "read gen"
    BY <1>3 DEF ReadGen, TasksKnow, Knows, Typed
  <2>2. /\ task'[k].node = n /\ task'[k].gen = desired[n] /\ task'[k].rules = task[k].rules
        /\ \A t \in Tasks \ {k} : task'[t] = task[t]
    BY <1>3, <2>1, HasGen DEF ReadGen
  <2>3. RulesOf(n)' = RulesOf(n) /\ desired' = desired
    BY <1>3, <2>2 DEF ReadGen, dbvars, RulesOf
  <2>4. BumpDue(n) => BumpDue(n)'
    BY <2>1, <2>2, DueStays
  <2>5. task[k].rules # RulesOf(n) /\ ~BumpDue(n) => causes'[n] # {}
    BY <1>3, <2>1, Blamed DEF ReadGen, Causes
  <2> QED
    BY <2>1, <2>2, <2>3, <2>4, <2>5 DEF Excused
<1>4. ASSUME NEW k \in Tasks, BumpDesiredGen(k) \/ ReadRules(k) \/ Send(k)
      PROVE  \A t \in Tasks : task'[t].pc = "send" => task'[t] = task[t]
  <2>1. task[k].node \in Nodes /\ \A t \in Tasks \ {k} : task'[t] = task[t]
    BY <1>4, GoesOn
  <2>2. CASE BumpDesiredGen(k)
    BY <1>0, <2>1, <2>2, Goes DEF BumpDesiredGen, Places
  <2>3. CASE ReadRules(k)
    BY <1>0, <2>1, <2>3, HasRules, RulesAreContents DEF ReadRules
  <2>4. CASE Send(k)
    <3>1. task'[k] = Idle
      BY <2>4, Others DEF Send
    <3> QED
      BY <1>0, <2>1, <3>1 DEF Idle
  <2> QED
    BY <1>4, <2>2, <2>3, <2>4
<1>5. ASSUME NEW k \in Handlers, HandlerStarts(k) \/ DeleteRule(k)
      PROVE  \A t \in Tasks : task'[t].pc = "send" => task'[t] = task[t]
  <2>1. ASSUME NEW r \in Rules, NEW n \in Nodes, NEW rev \in Revisions, UpsertRule(k, r, n, rev)
        PROVE  (\A t \in Tasks \ {k} : task'[t] = task[t]) /\ task'[k].pc # "send"
    BY <1>2, <2>1, Goes DEF UpsertRule, Places
  <2>2. ASSUME NEW r \in Rules, FindRule(k, r)
        PROVE  (\A t \in Tasks \ {k} : task'[t] = task[t]) /\ task'[k].pc # "send"
    <3>1. /\ task'[k] = [Idle EXCEPT !.pc = "delete", !.node = rule[r].node, !.rule = r]
          /\ \A t \in Tasks \ {k} : task'[t] = task[t]
      BY <1>2, <2>2, Others DEF FindRule
    <3> QED
      BY <3>1 DEF Idle
  <2>3. ASSUME NEW n \in Nodes, PushUnbumped(k, n)
        PROVE  (\A t \in Tasks \ {k} : task'[t] = task[t]) /\ task'[k].pc # "send"
    BY <1>2, <2>3, Goes DEF PushUnbumped, Places
  <2>4. ASSUME DeleteRule(k)
        PROVE  (\A t \in Tasks \ {k} : task'[t] = task[t]) /\ task'[k].pc # "send"
    BY <1>2, <2>4, DeleteEdits DEF Edits
  <2> QED
    BY <1>0, <1>2, <1>5, <2>1, <2>2, <2>3, <2>4 DEF HandlerStarts
<1>6. ASSUME NEW n \in Nodes, OnConnect(n) \/ DriftWatchdog(n)
      PROVE  \A t \in Tasks : task'[t].pc = "send" => task'[t] = task[t]
  BY <1>0, <1>6, KindsOfTasks, Goes DEF OnConnect, DriftWatchdog, Places
<1>7. ASSUME NEW n \in Nodes, LoseConnection(n)
      PROVE  \A t \in Tasks : task'[t].pc = "send" => task'[t] = task[t]
  <2>1. /\ task'[Watchdog(n)] = Idle
        /\ \A k \in Tasks \ {Watchdog(n)} : task'[k] = task[k]
    BY <1>7, KindsOfTasks, Others DEF LoseConnection
  <2> QED
    BY <1>0, <2>1, KindsOfTasks DEF Idle
<1>8. ASSUME NEW n \in Nodes, \/ ApplyPush(n) \/ ApplyFails(n) \/ StatusReport(n)
                               \/ RecordAppliedGen(n) \/ RecordFails(n)
      PROVE  UNCHANGED task
  BY <1>8 DEF ApplyPush, ApplyFails, FailedApply, StatusReport, RecordAppliedGen, RecordFails,
              Receives
<1>9. ASSUME NEW k \in Tasks, DeleteRule(k) PROVE k \in Handlers
  BY <1>9, DeleteEdits
<1>10. ASSUME NEW k \in Tasks, RequestEnds(k) \/ ReadFails(k)
       PROVE  \A t \in Tasks : task'[t].pc = "send" => task'[t] = task[t]
  <2>1. task'[k] = Idle /\ \A t \in Tasks \ {k} : task'[t] = task[t]
    BY <1>10, Others DEF RequestEnds, ReadFails
  <2> QED
    BY <1>0, <2>1 DEF Idle
<1> QED
  BY <1>1, <1>2, <1>3, <1>4, <1>5, <1>6, <1>7, <1>8, <1>9, <1>10
     DEF Next, TaskStep, Disconnect, AgentRestarts

(* What a node runs is what it ran, nothing, or a push; an apply that fails *)
(* leaves a generation that is behind the push, or is blamed.               *)
LEMMA RunsWhatItGot ==
  ASSUME Typed, Next
  PROVE  \A n \in Nodes :
    \/ UNCHANGED <<applied_gen[n], running[n]>>
    \/ applied_gen'[n] = 0 /\ running'[n] = [rules |-> {}, up |-> TRUE]
    \/ /\ to_agent[n] # << >>
       /\ applied_gen'[n] = to_agent[n][1].gen
       /\ running'[n] = [rules |-> to_agent[n][1].rules, up |-> TRUE]
    \/ /\ to_agent[n] # << >> /\ applied_gen'[n] = applied_gen[n] /\ desired' = desired
       /\ applied_gen[n] < to_agent[n][1].gen \/ causes'[n] # {}
<1>1. CASE UNCHANGED <<applied_gen, running>>
  BY <1>1
<1>2. ASSUME NEW n \in Nodes, AgentRestarts(n)
      PROVE  /\ applied_gen' = [applied_gen EXCEPT ![n] = 0]
             /\ running' = [running EXCEPT ![n] = [rules |-> {}, up |-> TRUE]]
  BY <1>2 DEF AgentRestarts
<1>3. ASSUME NEW n \in Nodes, to_agent[n] # << >>
      PROVE  /\ Head(to_agent[n]) = to_agent[n][1] /\ applied_gen[n] \in Nat
             /\ Head(to_agent[n]).gen \in Nat
  <2>1. applied_gen[n] \in Nat
    BY DEF Typed
  <2> QED
    BY <1>3, <2>1, InQueue
<1>4. ASSUME NEW n \in Nodes, ApplyPush(n)
      PROVE  /\ to_agent[n] # << >>
             /\ applied_gen' = [applied_gen EXCEPT ![n] = to_agent[n][1].gen]
             /\ running' = [running EXCEPT ![n] = [rules |-> to_agent[n][1].rules, up |-> TRUE]]
  BY <1>3, <1>4 DEF ApplyPush
<1>5. ASSUME NEW n \in Nodes, ApplyFails(n)
      PROVE  /\ to_agent[n] # << >> /\ applied_gen' = applied_gen /\ desired' = desired
             /\ applied_gen[n] < to_agent[n][1].gen \/ causes'[n] # {}
             /\ \A m \in Nodes \ {n} : running'[m] = running[m]
  <2>0. to_agent[n] # << >> /\ applied_gen' = applied_gen /\ desired' = desired
    BY <1>5 DEF ApplyFails, FailedApply, dbvars
  <2>1. applied_gen[n] >= to_agent[n][1].gen => causes'[n] # {}
    BY <1>3, <1>5, Blamed DEF ApplyFails, FailedApply, Causes
  <2>2. \A m \in Nodes \ {n} : running'[m] = running[m]
    BY <1>5 DEF ApplyFails, FailedApply, Typed
  <2>3. applied_gen[n] \in Nat /\ to_agent[n][1].gen \in Nat
    BY <1>3, <2>0
  <2> QED
    BY <2>0, <2>1, <2>2, <2>3
<1>6. CASE \E n \in Nodes : AgentRestarts(n) \/ ApplyPush(n)
  <2>1. ASSUME NEW n \in Nodes, AgentRestarts(n)
        PROVE  /\ applied_gen'[n] = 0 /\ running'[n] = [rules |-> {}, up |-> TRUE]
               /\ \A m \in Nodes \ {n} : /\ applied_gen'[m] = applied_gen[m]
                                          /\ running'[m] = running[m]
    BY <1>2, <2>1 DEF Typed
  <2>2. ASSUME NEW n \in Nodes, ApplyPush(n)
        PROVE  /\ to_agent[n] # << >> /\ applied_gen'[n] = to_agent[n][1].gen
               /\ running'[n] = [rules |-> to_agent[n][1].rules, up |-> TRUE]
               /\ \A m \in Nodes \ {n} : /\ applied_gen'[m] = applied_gen[m]
                                          /\ running'[m] = running[m]
    BY <1>4, <2>2 DEF Typed
  <2> QED
    BY <1>6, <2>1, <2>2
<1>7. CASE \E n \in Nodes : ApplyFails(n)
  BY <1>5, <1>7
<1> QED
  BY <1>1, <1>6, <1>7
     DEF Next, HandlerStarts, TaskStep, Disconnect, UpsertRule, FindRule,
         PushUnbumped, RequestEnds, DeleteRule, BumpDesiredGen, ReadRules, ReadGen, Send,
         ReadFails, OnConnect, DriftWatchdog, StatusReport, RecordAppliedGen, RecordFails,
         Receives, agentvars

(* What a node tells the panel is a generation that it has applied or has   *)
(* been pushed.                                                             *)
LEMMA WordsComeFrom ==
  ASSUME Typed, Next
  PROVE  \A n \in Nodes :
    /\ \A i \in 1..Len(to_panel'[n]) :
         \/ \E j \in 1..Len(to_panel[n]) : to_panel'[n][i] = to_panel[n][j]
         \/ to_panel'[n][i] = applied_gen[n]
         \/ to_agent[n] # << >> /\ to_panel'[n][i] = to_agent[n][1].gen
    /\ \/ recorded'[n] = recorded[n]
       \/ to_panel[n] # << >> /\ recorded'[n] = to_panel[n][1]
<1> DEFINE From(n, queue) ==
      \A i \in 1..Len(queue) :
        \/ \E j \in 1..Len(to_panel[n]) : queue[i] = to_panel[n][j]
        \/ queue[i] = applied_gen[n]
        \/ to_agent[n] # << >> /\ queue[i] = to_agent[n][1].gen
<1>0. \A n \in Nodes : From(n, to_panel[n])
  OBVIOUS
<1>1. ASSUME NEW n \in Nodes, NEW gen \in Nat, Reply(n, gen),
             gen = applied_gen[n] \/ (to_agent[n] # << >> /\ gen = to_agent[n][1].gen)
      PROVE  \A m \in Nodes : From(m, to_panel'[m])
  <2>1. /\ Len(Append(to_panel[n], gen)) = Len(to_panel[n]) + 1
        /\ \A i \in 1..Len(to_panel[n]) : Append(to_panel[n], gen)[i] = to_panel[n][i]
        /\ Append(to_panel[n], gen)[Len(to_panel[n]) + 1] = gen
        /\ Len(to_panel[n]) \in Nat
    BY AppendProperties, LenProperties DEF Typed
  <2>2. From(n, Append(to_panel[n], gen))
    BY <1>1, <2>1
  <2> HIDE DEF From
  <2> QED
    BY <1>0, <1>1, <2>2 DEF Reply, Typed
<1>2. ASSUME NEW n \in Nodes, ApplyPush(n) \/ ApplyFails(n) \/ StatusReport(n)
      PROVE  (\A m \in Nodes : From(m, to_panel'[m])) /\ recorded' = recorded
  <2>1. to_agent[n] # << >> => /\ Head(to_agent[n]) = to_agent[n][1]
                               /\ Head(to_agent[n]).gen \in Nat
    BY InQueue
  <2>2. applied_gen[n] \in Nat
    BY DEF Typed
  <2> HIDE DEF From
  <2>3. CASE ApplyPush(n)
    BY <1>1, <2>1, <2>3 DEF ApplyPush, dbvars
  <2>4. CASE ApplyFails(n)
    BY <1>1, <2>2, <2>4 DEF ApplyFails, FailedApply, dbvars
  <2>5. CASE StatusReport(n)
    BY <1>1, <2>2, <2>5 DEF StatusReport, dbvars
  <2> QED
    BY <1>2, <2>3, <2>4, <2>5
<1>3. ASSUME NEW n \in Nodes, LoseConnection(n) PROVE \A m \in Nodes : From(m, to_panel'[m])
  <2>1. From(n, << >>)
    OBVIOUS
  <2> HIDE DEF From
  <2> QED
    BY <1>0, <1>3, <2>1 DEF LoseConnection, Typed
<1>4. ASSUME NEW n \in Nodes, RecordAppliedGen(n) \/ RecordFails(n)
      PROVE  /\ \A m \in Nodes : From(m, to_panel'[m])
             /\ \A m \in Nodes : \/ recorded'[m] = recorded[m]
                                 \/ to_panel[m] # << >> /\ recorded'[m] = to_panel[m][1]
  <2>1. /\ to_panel[n] # << >> /\ to_panel' = [to_panel EXCEPT ![n] = Tail(to_panel[n])]
        /\ \/ recorded' = [recorded EXCEPT ![n] = Head(to_panel[n])]
           \/ recorded' = recorded
    BY <1>4 DEF RecordAppliedGen, RecordFails, Receives
  <2>2. /\ Len(to_panel[n]) \in Nat /\ Len(Tail(to_panel[n])) = Len(to_panel[n]) - 1
        /\ \A i \in 1..Len(Tail(to_panel[n])) : Tail(to_panel[n])[i] = to_panel[n][i + 1]
        /\ Head(to_panel[n]) = to_panel[n][1]
    BY <2>1, LenProperties, HeadTailProperties DEF Typed
  <2>3. From(n, Tail(to_panel[n]))
    BY <2>2
  <2> HIDE DEF From
  <2> QED
    BY <1>0, <2>1, <2>2, <2>3 DEF Typed
<1> HIDE DEF From
<1>5. CASE UNCHANGED <<to_panel, recorded>>
  BY <1>0, <1>5 DEF From
<1>6. CASE \E n \in Nodes : ApplyPush(n) \/ ApplyFails(n) \/ StatusReport(n)
  BY <1>2, <1>6 DEF From
<1>7. CASE \E n \in Nodes : LoseConnection(n) /\ recorded' = recorded
  BY <1>3, <1>7 DEF From
<1>8. CASE \E n \in Nodes : RecordAppliedGen(n) \/ RecordFails(n)
  BY <1>4, <1>8 DEF From
<1> QED
  BY <1>5, <1>6, <1>7, <1>8
     DEF Next, HandlerStarts, TaskStep, Disconnect, AgentRestarts, UpsertRule, FindRule,
         PushUnbumped, RequestEnds, DeleteRule, BumpDesiredGen, ReadRules, ReadGen, Send,
         ReadFails, OnConnect, DriftWatchdog, netvars, dbvars

-----------------------------------------------------------------------------
(* The invariant *)

Holdings == NoneAhead /\ PushesSay /\ AppliedRuns /\ ZeroIsEmpty

LEMMA AllHeld ==
  ASSUME Typed, TasksKnow, Holdings
  PROVE  /\ \A n \in Nodes : \A i \in 1..Len(to_agent[n]) :
              /\ to_agent[n][i].gen \in Nat
              /\ Held(n, to_agent[n][i].gen, to_agent[n][i].rules)
         /\ \A t \in Tasks : task[t].pc = "send" =>
              /\ task[t].node \in Nodes /\ task[t].gen \in Nat
              /\ Held(task[t].node, task[t].gen, task[t].rules)
         /\ \A n \in Nodes : Held(n, applied_gen[n], running[n].rules) /\ Held(n, 0, {})
<1>1. \A n \in Nodes : \A i \in 1..Len(to_agent[n]) : to_agent[n][i].gen \in Nat
  BY InQueue
<1>2. \A t \in Tasks : task[t].pc = "send" => task[t].node \in Nodes
  BY DEF TasksKnow, Knows
<1>3. \A t \in Tasks : task[t].gen \in Nat
  BY DEF Typed, Task
<1>4. \A n \in Nodes : desired[n] \in Nat
  BY DEF Typed
<1> QED
  BY <1>1, <1>2, <1>3, <1>4 DEF Holdings, NoneAhead, PushesSay, AppliedRuns, ZeroIsEmpty, Held

LEMMA NextHoldings ==
  ASSUME Typed, TasksKnow, Holdings, Next
  PROVE  Holdings'
<1>1. Typed' /\ \A n \in Nodes : Moves(n)
  BY NextTyped, NextMoves
<1>2. \A n \in Nodes : desired[n] \in Nat /\ desired'[n] \in Nat
  BY <1>1 DEF Typed
<1>3. \A n \in Nodes : \A i \in 1..Len(to_agent[n]) :
        HeldNext(n, to_agent[n][i].gen, to_agent[n][i].rules)
  BY <1>1, AllHeld, HeldOn
<1>4. \A t \in Tasks : task[t].pc = "send" =>
        task[t].node \in Nodes /\ HeldNext(task[t].node, task[t].gen, task[t].rules)
  BY <1>1, AllHeld, HeldOn
<1>5. \A n \in Nodes : HeldNext(n, applied_gen[n], running[n].rules) /\ HeldNext(n, 0, {})
  BY <1>1, AllHeld, HeldOn DEF Typed
<1>6. \A n \in Nodes : \A i \in 1..Len(to_agent'[n]) :
        HeldNext(n, to_agent'[n][i].gen, to_agent'[n][i].rules)
  <2>1. SUFFICES ASSUME NEW n \in Nodes, NEW i \in 1..Len(to_agent'[n])
                 PROVE  HeldNext(n, to_agent'[n][i].gen, to_agent'[n][i].rules)
    OBVIOUS
  <2>2. CASE \E j \in 1..Len(to_agent[n]) : to_agent'[n][i] = to_agent[n][j]
    BY <1>3, <2>2
  <2>3. ASSUME NEW t \in Tasks, task[t].pc = "send", task[t].node = n,
               to_agent'[n][i] = [gen |-> task[t].gen, rules |-> task[t].rules]
        PROVE  HeldNext(n, to_agent'[n][i].gen, to_agent'[n][i].rules)
    BY <1>4, <2>3
  <2> QED
    BY <2>2, <2>3, PushesComeFrom
<1>7. \A t \in Tasks : task'[t].pc = "send" =>
        \E n \in Nodes : n = task'[t].node /\ HeldNext(n, task'[t].gen, task'[t].rules)
  <2>1. SUFFICES ASSUME NEW t \in Tasks, task'[t].pc = "send"
                 PROVE  \E n \in Nodes : /\ n = task'[t].node
                                         /\ HeldNext(n, task'[t].gen, task'[t].rules)
    OBVIOUS
  <2>2. CASE task'[t] = task[t]
    BY <1>4, <2>1, <2>2
  <2>3. ASSUME NEW n \in Nodes, task'[t].node = n, task'[t].gen = desired'[n],
               Excused(n)' \/ task'[t].rules = RulesOf(n)'
        PROVE  n = task'[t].node /\ HeldNext(n, task'[t].gen, task'[t].rules)
    BY <1>2, <2>3 DEF HeldNext
  <2> QED
    BY <2>1, <2>2, <2>3, SendersReadIt
<1>8. \A n \in Nodes :
        /\ HeldNext(n, applied_gen'[n], running'[n].rules)
        /\ applied_gen'[n] = desired'[n] => Excused(n)' \/ running'[n].up
  <2>1. SUFFICES ASSUME NEW n \in Nodes
                 PROVE  /\ HeldNext(n, applied_gen'[n], running'[n].rules)
                        /\ applied_gen'[n] = desired'[n] => Excused(n)' \/ running'[n].up
    OBVIOUS
  <2>2. CASE UNCHANGED <<applied_gen[n], running[n]>>
    <3>1. applied_gen[n] \in Nat
      BY DEF Typed
    <3>2. applied_gen[n] <= desired[n] /\ (applied_gen[n] = desired[n] => Excused(n) \/ running[n].up)
      BY DEF Holdings, NoneAhead, AppliedRuns
    <3>3. applied_gen[n] = desired'[n] => Excused(n)' \/ running[n].up
      BY <1>1, <1>2, <3>1, <3>2 DEF Moves
    <3> QED
      BY <1>5, <2>2, <3>3
  <2>3. CASE applied_gen'[n] = 0 /\ running'[n] = [rules |-> {}, up |-> TRUE]
    BY <1>5, <2>3
  <2>4. CASE /\ to_agent[n] # << >> /\ applied_gen'[n] = to_agent[n][1].gen
             /\ running'[n] = [rules |-> to_agent[n][1].rules, up |-> TRUE]
    <3>1. HeldNext(n, to_agent[n][1].gen, to_agent[n][1].rules)
      BY <1>3, <2>4, InQueue
    <3> QED
      BY <2>4, <3>1
  <2>5. CASE /\ to_agent[n] # << >> /\ applied_gen'[n] = applied_gen[n] /\ desired' = desired
             /\ applied_gen[n] < to_agent[n][1].gen \/ causes'[n] # {}
    <3>0. applied_gen[n] \in Nat
      BY DEF Typed
    <3>1. /\ to_agent[n][1].gen \in Nat /\ to_agent[n][1].gen <= desired[n]
          /\ applied_gen[n] \in Nat /\ applied_gen[n] <= desired[n]
      BY <2>5, <3>0, InQueue DEF Holdings, NoneAhead
    <3>2. applied_gen'[n] = desired'[n] => Excused(n)'
      BY <1>2, <2>5, <3>1 DEF Excused
    <3> QED
      BY <1>2, <2>5, <3>1, <3>2 DEF HeldNext
  <2> QED
    BY <2>2, <2>3, <2>4, <2>5, RunsWhatItGot
<1>9. \A n \in Nodes :
        /\ recorded'[n] <= desired'[n]
        /\ \A i \in 1..Len(to_panel'[n]) : to_panel'[n][i] <= desired'[n]
  <2>1. SUFFICES ASSUME NEW n \in Nodes
                 PROVE  /\ recorded'[n] <= desired'[n]
                        /\ \A i \in 1..Len(to_panel'[n]) : to_panel'[n][i] <= desired'[n]
    OBVIOUS
  <2>2. desired[n] <= desired'[n]
    BY <1>1, <1>2 DEF Moves
  <2>3. /\ recorded[n] \in Nat /\ recorded[n] <= desired'[n]
        /\ applied_gen[n] \in Nat /\ applied_gen[n] <= desired'[n]
    BY <1>2, <2>2 DEF Holdings, NoneAhead, Typed
  <2>4. \A i \in 1..Len(to_panel[n]) : to_panel[n][i] <= desired'[n]
    BY <1>2, <2>2, InQueue DEF Holdings, NoneAhead
  <2>5. to_agent[n] # << >> => to_agent[n][1].gen <= desired'[n]
    BY <1>3, InQueue DEF HeldNext
  <2>6. recorded'[n] <= desired'[n]
    BY <2>3, <2>4, InQueue, WordsComeFrom
  <2>7. ASSUME NEW i \in 1..Len(to_panel'[n]) PROVE to_panel'[n][i] <= desired'[n]
    BY <2>3, <2>4, <2>5, WordsComeFrom
  <2> QED
    BY <2>6, <2>7
<1> QED
  BY <1>5, <1>6, <1>7, <1>8, <1>9
     DEF Holdings, NoneAhead, PushesSay, AppliedRuns, ZeroIsEmpty, HeldNext, Says

LEMMA AppendIsSomething ==
  ASSUME NEW S, NEW seq \in Seq(S), NEW elt \in S PROVE Append(seq, elt) # << >>
<1>1. Append(seq, elt) \in Seq(S) /\ Len(Append(seq, elt)) = Len(seq) + 1 /\ Len(seq) \in Nat
  BY AppendProperties, LenProperties
<1>2. Len(<< >>) = 0
  BY EmptySeq
<1> QED
  BY <1>1, <1>2

(* The last word, when one is added and when the first is taken.            *)
LEMMA LastOfAppend ==
  ASSUME Typed, NEW n \in Nodes, NEW gen \in Nat, Reply(n, gen)
  PROVE  LastWord(n)' = gen /\ \A m \in Nodes \ {n} : to_panel'[m] = to_panel[m]
<1>1. /\ to_panel'[n] = Append(to_panel[n], gen)
      /\ \A m \in Nodes \ {n} : to_panel'[m] = to_panel[m]
  BY DEF Typed, Reply
<1>2. to_panel[n] \in Seq(Nat)
  BY DEF Typed
<1>3. /\ Len(Append(to_panel[n], gen)) = Len(to_panel[n]) + 1
      /\ Append(to_panel[n], gen)[Len(to_panel[n]) + 1] = gen
      /\ Append(to_panel[n], gen) # << >>
  BY <1>2, AppendProperties, AppendIsSomething
<1> QED
  BY <1>1, <1>3 DEF LastWord

LEMMA LastOfTail ==
  ASSUME Typed, NEW n \in Nodes, Receives(n)
  PROVE  /\ to_panel[n] # << >>
         /\ to_panel'[n] # << >> => to_panel'[n][Len(to_panel'[n])] = LastWord(n)
         /\ to_panel'[n] = << >> => Head(to_panel[n]) = LastWord(n)
         /\ \A m \in Nodes \ {n} : to_panel'[m] = to_panel[m]
<1>1. /\ to_panel[n] # << >> /\ to_panel'[n] = Tail(to_panel[n])
      /\ \A m \in Nodes \ {n} : to_panel'[m] = to_panel[m]
  BY DEF Typed, Receives
<1>2. /\ Len(to_panel[n]) \in Nat /\ Len(to_panel[n]) > 0
      /\ Head(to_panel[n]) = to_panel[n][1]
  BY <1>1, InQueue
<1>3. /\ Len(Tail(to_panel[n])) = Len(to_panel[n]) - 1
      /\ \A i \in 1..Len(Tail(to_panel[n])) : Tail(to_panel[n])[i] = to_panel[n][i + 1]
      /\ Tail(to_panel[n]) \in Seq(Nat)
  BY <1>1, HeadTailProperties DEF Typed
<1>4. Tail(to_panel[n]) = << >> <=> Len(to_panel[n]) = 1
  <2>1. /\ Tail(to_panel[n]) # << >> => Len(Tail(to_panel[n])) \in Nat \ {0}
        /\ Tail(to_panel[n]) = << >> => Len(Tail(to_panel[n])) = 0
    BY <1>3, EmptySeq, Zenon
  <2> QED
    BY <1>2, <1>3, <2>1
<1>5. CASE Len(to_panel[n]) = 1
  BY <1>1, <1>2, <1>4, <1>5 DEF LastWord
<1>6. CASE Len(to_panel[n]) # 1
  <2> DEFINE last == Len(to_panel[n]) - 1
  <2>1. /\ last \in 1..Len(Tail(to_panel[n])) /\ last + 1 = Len(to_panel[n])
        /\ Len(Tail(to_panel[n])) = last
    <3>1. Len(Tail(to_panel[n])) = last
      BY <1>3
    <3>2. last \in 1..last /\ last + 1 = Len(to_panel[n])
      <4>1. \A k \in Nat : k > 0 /\ k # 1 => k - 1 \in 1..(k - 1) /\ (k - 1) + 1 = k
        OBVIOUS
      <4> QED
        BY <1>2, <1>6, <4>1
    <3> QED
      BY <3>1, <3>2
  <2> HIDE DEF last
  <2>2. Tail(to_panel[n])[last] = to_panel[n][Len(to_panel[n])]
    BY <1>3, <2>1, Zenon
  <2> QED
    BY <1>1, <1>3, <1>4, <1>6, <2>1, <2>2 DEF LastWord, last
<1> QED
  BY <1>5, <1>6

LEMMA NextHeard ==
  ASSUME Typed, HeardTruth, Next
  PROVE  HeardTruth'
<1> DEFINE Heard(n) == (n \in heard \/ to_panel[n] # << >>) => LastWord(n) = applied_gen[n]
<1>0. \A n \in Nodes : Heard(n)
  BY DEF HeardTruth
<1>1. ASSUME NEW n \in Nodes, Heard(n)',
             \A m \in Nodes \ {n} : /\ to_panel'[m] = to_panel[m] /\ (m \in heard' <=> m \in heard)
                                    /\ recorded'[m] = recorded[m]
                                    /\ applied_gen'[m] = applied_gen[m]
      PROVE  HeardTruth'
  <2>1. \A m \in Nodes \ {n} : LastWord(m)' = LastWord(m)
    BY <1>1 DEF LastWord
  <2> QED
    BY <1>0, <1>1, <2>1 DEF HeardTruth
<1>2. CASE UNCHANGED <<to_panel, heard, recorded, applied_gen>>
  <2>1. \A n \in Nodes : LastWord(n)' = LastWord(n)
    BY <1>2 DEF LastWord
  <2> QED
    BY <1>0, <1>2, <2>1 DEF HeardTruth
<1>3. ASSUME NEW n \in Nodes, Disconnect(n) \/ AgentRestarts(n) PROVE HeardTruth'
  <2>1. n \notin heard' /\ to_panel'[n] = << >>
    BY <1>3 DEF Disconnect, AgentRestarts, LoseConnection, Typed
  <2>2. \A m \in Nodes \ {n} : /\ to_panel'[m] = to_panel[m] /\ (m \in heard' <=> m \in heard)
                               /\ recorded'[m] = recorded[m]
                               /\ applied_gen'[m] = applied_gen[m]
    BY <1>3 DEF Disconnect, AgentRestarts, LoseConnection, dbvars, agentvars, Typed
  <2> QED
    BY <1>1, <2>1, <2>2
<1>4. ASSUME NEW n \in Nodes, ApplyPush(n) \/ ApplyFails(n) \/ StatusReport(n)
      PROVE  HeardTruth'
  <2>1. applied_gen[n] \in Nat /\ \A gen \in Nat : [applied_gen EXCEPT ![n] = gen][n] = gen
    BY DEF Typed
  <2>2. LastWord(n)' = applied_gen'[n] /\ \A m \in Nodes \ {n} : to_panel'[m] = to_panel[m]
    <3>1. CASE ApplyPush(n)
      <4>1. Head(to_agent[n]).gen \in Nat
        BY <3>1, InQueue DEF ApplyPush
      <4> QED
        BY <2>1, <3>1, <4>1, LastOfAppend DEF ApplyPush
    <3>2. CASE ApplyFails(n) \/ StatusReport(n)
      BY <2>1, <3>2, LastOfAppend DEF ApplyFails, FailedApply, StatusReport, agentvars
    <3> QED
      BY <1>4, <3>1, <3>2
  <2>3. /\ heard' = heard /\ recorded' = recorded
        /\ \A m \in Nodes \ {n} : applied_gen'[m] = applied_gen[m]
    BY <1>4 DEF ApplyPush, ApplyFails, FailedApply, StatusReport, dbvars, agentvars, Typed
  <2> QED
    BY <1>1, <2>2, <2>3
<1>5. ASSUME NEW n \in Nodes, RecordAppliedGen(n) \/ RecordFails(n) PROVE HeardTruth'
  <2>1. /\ Receives(n) /\ applied_gen' = applied_gen
        /\ \A m \in Nodes \ {n} : /\ (m \in heard' <=> m \in heard)
                                  /\ recorded'[m] = recorded[m]
    BY <1>5 DEF RecordAppliedGen, RecordFails, Receives, agentvars, Typed
  <2>2. LastWord(n) = applied_gen[n]
    BY <1>0, <2>1, LastOfTail
  <2>3. RecordAppliedGen(n) => recorded'[n] = Head(to_panel[n])
    BY DEF RecordAppliedGen, Typed
  <2>4. RecordFails(n) => n \notin heard'
    BY DEF RecordFails
  <2>5. Heard(n)'
    BY <1>5, <2>1, <2>2, <2>3, <2>4, LastOfTail DEF LastWord
  <2> HIDE DEF Heard
  <2> QED
    BY <1>1, <2>1, <2>5, LastOfTail
<1>6. ASSUME NEW t \in Handlers, HandlerStarts(t) \/ RequestEnds(t)
      PROVE  UNCHANGED <<to_panel, heard, recorded, applied_gen>>
  BY <1>6 DEF HandlerStarts, UpsertRule, FindRule, PushUnbumped, RequestEnds, dbvars, netvars,
              agentvars
<1>7. ASSUME NEW t \in Tasks, TaskStep(t) \/ ReadFails(t)
      PROVE  UNCHANGED <<to_panel, heard, recorded, applied_gen>>
  BY <1>7 DEF TaskStep, DeleteRule, BumpDesiredGen, ReadRules, ReadGen, Send, ReadFails, dbvars,
              netvars, agentvars
<1>8. ASSUME NEW n \in Nodes, OnConnect(n) \/ DriftWatchdog(n)
      PROVE  UNCHANGED <<to_panel, heard, recorded, applied_gen>>
  BY <1>8 DEF OnConnect, DriftWatchdog, dbvars, netvars, agentvars
<1> QED
  BY <1>2, <1>3, <1>4, <1>5, <1>6, <1>7, <1>8 DEF Next

LEMMA InitSync == Init => SyncInv
<1> SUFFICES ASSUME Init PROVE SyncInv
  OBVIOUS
<1>1. \A n \in Nodes : RulesOf(n) = {}
  BY UnownedAssumption DEF Init, RulesOf
<1>2. Typed
  <2>1. Idle \in Task /\ {} \in Contents
    BY IdleTyped DEF Contents
  <2>2. << >> \in Seq([gen : Nat, rules : Contents]) /\ << >> \in Seq(Nat)
    BY EmptySeq
  <2> QED
    BY <2>1, <2>2 DEF Init, Typed, Content
<1>3. TasksKnow
  BY DEF Init, TasksKnow, Knows, Idle
<1>4. NoneAhead /\ PushesSay
  BY DEF Init, NoneAhead, PushesSay, Idle
<1>5. AppliedRuns /\ ZeroIsEmpty
  BY <1>1 DEF Init, AppliedRuns, ZeroIsEmpty, Says
<1>6. HeardTruth
  BY DEF Init, HeardTruth
<1> QED
  BY <1>2, <1>3, <1>4, <1>5, <1>6 DEF SyncInv

LEMMA NextSync == SyncInv /\ [Next]_vars => SyncInv'
<1> SUFFICES ASSUME SyncInv, [Next]_vars PROVE SyncInv'
  OBVIOUS
<1>1. CASE Next
  BY <1>1, NextTyped, NextKnows, NextHoldings, NextHeard DEF SyncInv, Holdings
<1>2. CASE UNCHANGED vars
  <2>1. UNCHANGED <<rule, desired, recorded, task, connected, to_agent, to_panel,
                    heard, applied_gen, running, causes>>
    BY <1>2 DEF vars, dbvars, netvars, agentvars
  <2>2. Typed' /\ TasksKnow' /\ NoneAhead'
    BY <2>1 DEF SyncInv, Typed, TasksKnow, NoneAhead
  <2>3. \A n : Excused(n)' = Excused(n) /\ RulesOf(n)' = RulesOf(n) /\ LastWord(n)' = LastWord(n)
    BY <2>1 DEF Excused, BumpDue, RulesOf, LastWord
  <2>4. PushesSay' /\ AppliedRuns' /\ ZeroIsEmpty' /\ HeardTruth'
    BY <2>1, <2>3 DEF SyncInv, PushesSay, AppliedRuns, ZeroIsEmpty, HeardTruth, Says
  <2> QED
    BY <2>2, <2>4 DEF SyncInv
<1> QED
  BY <1>1, <1>2

LEMMA SyncTypes == SyncInv => TypeOK
<1> SUFFICES ASSUME SyncInv PROVE TypeOK
  OBVIOUS
<1>1. Typed /\ NoneAhead
  BY DEF SyncInv
<1>2. /\ rule \in [Rules -> [node : Nodes \cup {Unowned}, rev : Revisions \cup {0}]]
      /\ connected \subseteq Nodes /\ heard \subseteq Nodes
  BY <1>1 DEF Typed, Content
<1>3. ASSUME NEW n \in Nodes
      PROVE  /\ running[n].rules \in Contents /\ running[n].up \in BOOLEAN
             /\ DOMAIN to_agent[n] = 1..Len(to_agent[n])
             /\ DOMAIN to_panel[n] = 1..Len(to_panel[n])
  BY <1>1, LenProperties DEF Typed
<1>4. \A t \in Tasks : task[t].rules \in Contents
  BY <1>1 DEF Typed, Task
<1> QED
  BY <1>1, <1>2, <1>3, <1>4 DEF TypeOK, NoneAhead

(* A settled node has heard and said everything: what the panel recorded is *)
(* what the node applied, and the node runs what the database says.         *)
LEMMA SyncExplains == SyncInv => DivergenceHasKnownCause
<1> SUFFICES ASSUME SyncInv, NEW n \in heard, Settled(n), causes[n] = {}
             PROVE  running[n] = [rules |-> RulesOf(n), up |-> TRUE]
  BY DEF DivergenceHasKnownCause
<1>1. n \in Nodes
  BY DEF SyncInv, Typed
<1>2. applied_gen[n] = desired[n]
  BY <1>1 DEF Settled, Quiet, SyncInv, HeardTruth, LastWord
<1>3. ~Excused(n)
  BY KindsOfTasks DEF Settled, Quiet, Excused, BumpDue
<1>4. running[n].rules = RulesOf(n) /\ running[n].up
  BY <1>1, <1>2, <1>3 DEF SyncInv, AppliedRuns, Says
<1>5. running[n] \in [rules : Contents, up : BOOLEAN]
  BY <1>1 DEF SyncInv, Typed
<1> QED
  BY <1>4, <1>5

(* No task, no message and no record is ever ahead of the generation that   *)
(* the panel asks for, whatever is reordered, lost or restarted.            *)
THEOREM NothingRunsAhead == Spec => []TypeOK
<1> QED
  BY InitSync, NextSync, SyncTypes, PTL DEF Spec

(* A connected node with nothing under way, its last word recorded and the  *)
(* drift check content runs what the database says, or has been blamed      *)
(* (push_config with its failing reads, the on-connect push, the watchdog,  *)
(* the agent's apply and acknowledge, all at once).                         *)
THEOREM DivergenceExplained == Spec => []DivergenceHasKnownCause
<1> QED
  BY InitSync, NextSync, SyncExplains, PTL DEF Spec
=============================================================================
