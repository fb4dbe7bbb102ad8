----------------------------- MODULE ConfigSync -----------------------------
(***************************************************************************)
(* How a node's configuration gets from the panel's database to the node:   *)
(* the API handlers that edit rules (crates/panel/src/api.rs), push_config, *)
(* the on-connect push and the drift watchdog (crates/panel/src/            *)
(* ws_server.rs), the two directions of the agent's socket, and the agent's *)
(* apply-and-acknowledge (crates/agent/src/conn.rs).                        *)
(*                                                                          *)
(* Every panel task runs on its own and yields at each database call, so    *)
(* each such call is a step of its own: a handler upserts, bumps the        *)
(* generation and pushes; a push reads the rules, later reads the           *)
(* generation, later queues the message.  A rule's content is a revision.   *)
(* One connection per node at a time; ConnRegistry treats several.          *)
(***************************************************************************)
EXTENDS Naturals, Sequences, FiniteSets

CONSTANTS
  Nodes, Rules, Revisions,
  Handlers,       \* API requests that may be in progress at once
  Events,         \* which of the optional events below may happen
  Unowned,        \* a rule that does not exist has this for a node
  NoRule,         \* a task that is not deleting has this for a rule
  MaxGen,         \* bound on the generations one node reaches
  MaxQueue        \* bound on either direction of a socket

OptionalEvents == {"rule moves", "apply fails", "request ends", "reads fail",
                   "record fails", "disconnect", "agent restarts"}

ASSUME EventsAssumption == Events \subseteq OptionalEvents
ASSUME BoundsAssumption == MaxGen \in Nat \ {0} /\ MaxQueue \in Nat \ {0}
ASSUME UnownedAssumption == Unowned \notin Nodes

(* The tasks of the panel that push: request handlers, and per node the     *)
(* connection's own task and its watchdog.                                  *)
ConnTask(n) == <<"conn", n>>
Watchdog(n) == <<"watchdog", n>>
Tasks == Handlers \cup {ConnTask(n) : n \in Nodes} \cup {Watchdog(n) : n \in Nodes}

(* A request is neither of a connection's own tasks. *)
ASSUME HandlersAssumption ==
  \A n \in Nodes : ConnTask(n) \notin Handlers /\ Watchdog(n) \notin Handlers

VARIABLES
  rule,           \* DB: rule -> [node, rev]
  desired,        \* DB: node -> desired_config_gen
  recorded,       \* DB: node -> applied_config_gen
  task,           \* task -> [pc, node, rule, rules, gen]
  connected,      \* the nodes with a live socket
  to_agent,       \* node -> pushes under way
  to_panel,       \* node -> acks and reports under way
  applied_gen,    \* the agent's own applied_gen
  running,        \* node -> [rules, up]: what its relays forward
  heard,          \* history: the connected nodes whose last word is recorded
  causes          \* node -> what has happened that may part DB and node

dbvars    == <<rule, desired, recorded>>
agentvars == <<applied_gen, running>>
netvars   == <<connected, to_agent, to_panel, heard>>
vars      == <<dbvars, task, netvars, agentvars, causes>>

RulesOf(n) == {<<r, rule[r].rev>> : r \in {q \in Rules : rule[q].node = n}}

Idle == [pc |-> "idle", node |-> Unowned, rule |-> NoRule, rules |-> {}, gen |-> 0]

(* The first cause is enough. *)
Blame(n, cause) == causes' = [causes EXCEPT ![n] = IF @ = {} THEN {cause} ELSE @]

Init ==
  /\ rule = [r \in Rules |-> [node |-> Unowned, rev |-> 0]]
  /\ desired = [n \in Nodes |-> 0] /\ recorded = [n \in Nodes |-> 0]
  /\ task = [t \in Tasks |-> Idle]
  /\ connected = {}
  /\ to_agent = [n \in Nodes |-> << >>] /\ to_panel = [n \in Nodes |-> << >>]
  /\ applied_gen = [n \in Nodes |-> 0]
  /\ running = [n \in Nodes |-> [rules |-> {}, up |-> TRUE]]
  /\ heard = {} /\ causes = [n \in Nodes |-> {}]

-----------------------------------------------------------------------------
(* The API handlers *)

GoTo(t, pc, n) == task' = [task EXCEPT ![t].pc = pc, ![t].node = n]

(* create_rule and update_rule: the row is replaced, whatever node it was   *)
(* on; bump and push concern the node of the request alone.                 *)
UpsertRule(t, r, n, rev) ==
  LET old == rule[r].node
  IN  /\ task[t].pc = "idle"
      /\ desired[n] < MaxGen
      /\ rule[r] # [node |-> n, rev |-> rev]
      /\ old \notin {Unowned, n} => "rule moves" \in Events
      /\ rule' = [rule EXCEPT ![r] = [node |-> n, rev |-> rev]]
      /\ GoTo(t, "bump", n)
      /\ IF old \in {Unowned, n} THEN UNCHANGED causes ELSE Blame(old, "moved away")
      /\ UNCHANGED <<desired, recorded, netvars, agentvars>>

(* delete_rule looks up the node of the rule, if it finds the rule, then     *)
(* deletes the row whatever its node is by then.                            *)
FindRule(t, r) ==
  LET n == rule[r].node
  IN  /\ task[t].pc = "idle"
      /\ n # Unowned => desired[n] < MaxGen
      /\ task' = [task EXCEPT ![t] = [Idle EXCEPT !.pc = "delete", !.node = n, !.rule = r]]
      /\ UNCHANGED <<dbvars, netvars, agentvars, causes>>

(* A rule that was not found has no node to bump or to push to. *)
DeleteRule(t) ==
  LET r == task[t].rule
      n == rule[r].node
  IN  /\ task[t].pc = "delete"
      /\ rule' = [rule EXCEPT ![r] = [node |-> Unowned, rev |-> 0]]
      /\ IF task[t].node = Unowned THEN task' = [task EXCEPT ![t] = Idle]
         ELSE GoTo(t, "bump", task[t].node)
      /\ IF n \in {Unowned, task[t].node} THEN UNCHANGED causes ELSE Blame(n, "moved away")
      /\ UNCHANGED <<desired, recorded, netvars, agentvars>>

BumpDesiredGen(t) ==
  LET n == task[t].node
  IN  /\ task[t].pc = "bump"
      /\ desired' = [desired EXCEPT ![n] = @ + 1]
      /\ GoTo(t, "read rules", n)
      /\ UNCHANGED <<rule, recorded, netvars, agentvars, causes>>

(* A database error, or a client that hangs up, ends a request at the call  *)
(* it is at; the rules it has edited then go without a new generation.      *)
RequestEnds(t) ==
  /\ "request ends" \in Events
  /\ task[t].pc # "idle"
  /\ IF task[t].pc = "bump" THEN Blame(task[t].node, "no bump") ELSE UNCHANGED causes
  /\ task' = [task EXCEPT ![t] = Idle]
  /\ UNCHANGED <<dbvars, netvars, agentvars>>

(* Group edits and certificate issue push to member nodes without a bump.   *)
PushUnbumped(t, n) ==
  /\ task[t].pc = "idle"
  /\ GoTo(t, "read rules", n)
  /\ UNCHANGED <<dbvars, netvars, agentvars, causes>>

-----------------------------------------------------------------------------
(* push_config, in whichever task *)

ReadRules(t) ==
  /\ task[t].pc = "read rules"
  /\ task' = [task EXCEPT ![t].pc = "read gen", ![t].rules = RulesOf(task[t].node)]
  /\ UNCHANGED <<dbvars, netvars, agentvars, causes>>

(* An edit of n's rules whose generation is still to come *)
BumpDue(n) == \E h \in Handlers : task[h].pc = "bump" /\ task[h].node = n

(* Rules read before an edit may be sent with the edit's own generation. *)
ReadGen(t) ==
  LET n == task[t].node
  IN  /\ task[t].pc = "read gen"
      /\ task' = [task EXCEPT ![t].pc = "send", ![t].gen = desired[n]]
      /\ IF task[t].rules # RulesOf(n) /\ ~BumpDue(n)
         THEN Blame(n, "edited under a push")
         ELSE UNCHANGED causes
      /\ UNCHANGED <<dbvars, netvars, agentvars>>

(* push_config returns without a word when it cannot read. *)
ReadFails(t) ==
  /\ "reads fail" \in Events
  /\ task[t].pc \in {"read rules", "read gen"}
  /\ task' = [task EXCEPT ![t] = Idle]
  /\ UNCHANGED <<dbvars, netvars, agentvars, causes>>

(* To whichever connection the node has now, if any.  The connection's own  *)
(* push has room above the bound, since it is done before anything is read. *)
Send(t) ==
  LET n == task[t].node
  IN  /\ task[t].pc = "send"
      /\ IF n \in connected
         THEN /\ Len(to_agent[n]) < MaxQueue \/ t = ConnTask(n)
              /\ to_agent' = [to_agent EXCEPT ![n] =
                   Append(@, [gen |-> task[t].gen, rules |-> task[t].rules])]
         ELSE UNCHANGED to_agent
      /\ task' = [task EXCEPT ![t] = Idle]
      /\ UNCHANGED <<dbvars, connected, to_panel, heard, agentvars, causes>>

(* Mutant of DriftWatchdog: it only watches nodes that never applied any.   *)
DriftWatchdogNewNodes(n) ==
  /\ n \in connected
  /\ task[Watchdog(n)].pc = "idle" /\ task[ConnTask(n)].pc = "idle"
  /\ recorded[n] = 0 /\ desired[n] # 0
  /\ GoTo(Watchdog(n), "read rules", n)
  /\ UNCHANGED <<dbvars, netvars, agentvars, causes>>

(* Every T_ACK_SECS, and not before on_connect is done. *)
DriftWatchdog(n) ==
  /\ n \in connected
  /\ task[Watchdog(n)].pc = "idle" /\ task[ConnTask(n)].pc = "idle"
  /\ recorded[n] # desired[n]
  /\ GoTo(Watchdog(n), "read rules", n)
  /\ UNCHANGED <<dbvars, netvars, agentvars, causes>>

-----------------------------------------------------------------------------
(* Connections *)

(* The previous connection's task has finished its push. *)
OnConnect(n) ==
  /\ n \notin connected
  /\ task[ConnTask(n)].pc = "idle"
  /\ connected' = connected \cup {n}
  /\ GoTo(ConnTask(n), "read rules", n)
  /\ UNCHANGED <<dbvars, to_agent, to_panel, heard, agentvars, causes>>

(* What is in flight is lost, the watchdog is aborted wherever it is. *)
LoseConnection(n) ==
  /\ connected' = connected \ {n} /\ heard' = heard \ {n}
  /\ to_agent' = [to_agent EXCEPT ![n] = << >>]
  /\ to_panel' = [to_panel EXCEPT ![n] = << >>]
  /\ task' = [task EXCEPT ![Watchdog(n)] = Idle]

Disconnect(n) ==
  /\ "disconnect" \in Events /\ n \in connected
  /\ LoseConnection(n)
  /\ UNCHANGED <<dbvars, agentvars, causes>>

(* The relays die with the agent, and applied_gen starts from 0. *)
AgentRestarts(n) ==
  /\ "agent restarts" \in Events
  /\ LoseConnection(n)
  /\ applied_gen' = [applied_gen EXCEPT ![n] = 0]
  /\ running' = [running EXCEPT ![n] = [rules |-> {}, up |-> TRUE]]
  /\ UNCHANGED <<dbvars, causes>>

-----------------------------------------------------------------------------
(* The agent *)

Reply(n, gen) ==
  /\ Len(to_panel[n]) < MaxQueue
  /\ to_panel' = [to_panel EXCEPT ![n] = Append(@, gen)]

ApplyPush(n) ==
  /\ to_agent[n] # << >>
  /\ LET push == Head(to_agent[n])
     IN  /\ applied_gen' = [applied_gen EXCEPT ![n] = push.gen]
         /\ running' = [running EXCEPT ![n] = [rules |-> push.rules, up |-> TRUE]]
         /\ Reply(n, push.gen)
  /\ to_agent' = [to_agent EXCEPT ![n] = Tail(@)]
  /\ UNCHANGED <<dbvars, task, connected, heard, causes>>

(* A write fails (nothing is restarted) or the spawn of a tool that has     *)
(* rules does (a relay is down).                                            *)
FailedApply(n) ==
  /\ "apply fails" \in Events
  /\ to_agent[n] # << >>
  /\ LET push == Head(to_agent[n])
     IN  /\ \/ UNCHANGED running
            \/ /\ push.rules # {}
               /\ running' = [running EXCEPT ![n] = [rules |-> push.rules, up |-> FALSE]]
         /\ IF applied_gen[n] >= push.gen THEN Blame(n, "failed at an applied gen")
            ELSE UNCHANGED causes
  /\ to_agent' = [to_agent EXCEPT ![n] = Tail(@)]
  /\ UNCHANGED <<dbvars, task, connected, heard, applied_gen>>

(* Mutant of ApplyFails: the ack names the generation of the push.          *)
ApplyFailsAcked(n) == FailedApply(n) /\ Reply(n, Head(to_agent[n]).gen)

(* The ack repeats the last good generation. *)
ApplyFails(n) == FailedApply(n) /\ Reply(n, applied_gen[n])

StatusReport(n) ==
  /\ n \in connected
  /\ Reply(n, applied_gen[n])
  /\ UNCHANGED <<dbvars, task, connected, to_agent, heard, agentvars, causes>>

(* The connection's task reads when on_connect is done. *)
Receives(n) ==
  /\ to_panel[n] # << >> /\ task[ConnTask(n)].pc = "idle"
  /\ to_panel' = [to_panel EXCEPT ![n] = Tail(@)]
  /\ UNCHANGED <<rule, desired, task, connected, to_agent, agentvars, causes>>

(* handle_config_ack and handle_status_report: the last word wins. *)
RecordAppliedGen(n) ==
  /\ Receives(n)
  /\ recorded' = [recorded EXCEPT ![n] = Head(to_panel[n])]
  /\ heard' = heard \cup {n}

(* get_node or set_applied_gen fails, which nobody is told. *)
RecordFails(n) ==
  /\ "record fails" \in Events
  /\ Receives(n) /\ UNCHANGED recorded
  /\ heard' = heard \ {n}

-----------------------------------------------------------------------------
HandlerStarts(t) ==
  \/ \E r \in Rules, n \in Nodes, rev \in Revisions : UpsertRule(t, r, n, rev)
  \/ \E r \in Rules : FindRule(t, r)
  \/ \E n \in Nodes : PushUnbumped(t, n)

TaskStep(t) ==
  DeleteRule(t) \/ BumpDesiredGen(t) \/ ReadRules(t) \/ ReadGen(t) \/ Send(t)

Next ==
  \/ \E t \in Handlers : HandlerStarts(t) \/ RequestEnds(t)
  \/ \E t \in Tasks : TaskStep(t) \/ ReadFails(t)
  \/ \E n \in Nodes :
       \/ OnConnect(n) \/ Disconnect(n) \/ AgentRestarts(n) \/ DriftWatchdog(n)
       \/ ApplyPush(n) \/ ApplyFails(n) \/ StatusReport(n)
       \/ RecordAppliedGen(n) \/ RecordFails(n)

(* Tasks run to completion, timers fire, TCP delivers while it lives, the   *)
(* agent reconnects and reports; and of what is tried again and again - the *)
(* watchdog's reads, an apply, the record of its outcome - each succeeds at *)
(* some point, and so does a send, whose queue never fills in the code.     *)
(* Nothing makes an operator edit, or stop editing.                         *)
Fairness ==
  /\ \A t \in Tasks : WF_vars(TaskStep(t))
  /\ \A n \in Nodes :
       /\ WF_vars(OnConnect(n)) /\ WF_vars(DriftWatchdog(n)) /\ WF_vars(StatusReport(n))
       /\ SF_vars(ReadRules(Watchdog(n))) /\ SF_vars(ReadGen(Watchdog(n)))
       /\ SF_vars(Send(Watchdog(n)))
       /\ SF_vars(ApplyPush(n)) /\ SF_vars(RecordAppliedGen(n))

Spec == Init /\ [][Next]_vars /\ Fairness

-----------------------------------------------------------------------------
(* Properties *)

Contents == SUBSET (Rules \X Revisions)

(* Shapes, and no generation runs ahead of the one the panel asked for:     *)
(* neither what a task is about to push, what the agent says it has         *)
(* applied, nor what the panel recorded of that.                            *)
TypeOK ==
  /\ rule \in [Rules -> [node : Nodes \cup {Unowned}, rev : Revisions \cup {0}]]
  /\ connected \subseteq Nodes /\ heard \subseteq Nodes
  /\ \A n \in Nodes :
       /\ recorded[n] <= desired[n] /\ applied_gen[n] <= desired[n]
       /\ running[n].rules \in Contents /\ running[n].up \in BOOLEAN
       /\ \A i \in DOMAIN to_agent[n] : to_agent[n][i].gen <= desired[n]
       /\ \A i \in DOMAIN to_panel[n] : to_panel[n][i] <= desired[n]
  /\ \A t \in Tasks : /\ task[t].rules \in Contents
                      /\ task[t].pc = "send" => task[t].gen <= desired[task[t].node]

(* Nothing more is on its way to or from n. *)
Quiet(n) ==
  /\ n \in connected
  /\ to_agent[n] = << >> /\ to_panel[n] = << >>
  /\ \A t \in Tasks : task[t].node = n => task[t].pc = "idle"

Settled(n) == Quiet(n) /\ recorded[n] = desired[n]

(* What the generations are for: when nothing is under way, the last word   *)
(* of the node's connection is recorded and the panel's drift check is      *)
(* content with it, the node forwards exactly what the database says, with  *)
(* every relay up - whatever was reordered between tasks, lost with a       *)
(* connection or to a failing read, or forgotten in a restart - unless one  *)
(* of the four causes the model names has happened to that node.            *)
DivergenceHasKnownCause ==
  \A n \in heard :
    Settled(n) /\ causes[n] = {} => running[n] = [rules |-> RulesOf(n), up |-> TRUE]

(* ws_server.rs:459-460: a node that stays connected is pushed to until     *)
(* what it has applied, and what is recorded of it, is what is desired,     *)
(* though edits race with pushes, and reads, writes and applies fail.       *)
GenerationsAgree ==
  \A n \in Nodes : <>[](n \in connected) =>
    <>[](recorded[n] = desired[n] /\ applied_gen[n] = desired[n])

=============================================================================
