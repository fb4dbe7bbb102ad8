---------------------------- MODULE ConnRegistry ----------------------------
(***************************************************************************)
(* The panel's registry of agent connections, for one node that connects    *)
(* again and again (crates/panel/src/ws_server.rs handle_socket).  Each     *)
(* socket has a task of its own in the panel, which lives until it reads    *)
(* the end of its stream; the agent has one socket at a time, but what it   *)
(* sent on an earlier one, the end included, may be read much later.  Every *)
(* await of a task separates two of its steps.                              *)
(***************************************************************************)
EXTENDS Naturals, Sequences

CONSTANTS
  MaxSockets,       \* bound on the connections the agent opens
  MaxInFlight,      \* bound on the frames under way on one socket
  PanelMayRestart

ASSUME SocketsAssumption == MaxSockets \in Nat \ {0} /\ MaxInFlight \in Nat \ {0}
ASSUME RestartAssumption == PanelMayRestart \in BOOLEAN

Sockets == 1..MaxSockets
None    == 0

VARIABLES
  at,             \* the socket the agent is on, or None
  opened,         \* how many it has opened
  inbox,          \* socket -> frames the panel has yet to read
  pc,             \* socket -> where the panel's task for it is
  registered,     \* conns: the socket registered for the node, or None
  closing,        \* sockets that were sent Close{Superseded}
  configured,     \* sockets that were sent a ConfigPush
  push_failed,    \* history: sockets whose own push could not read the database
  rt_connected,   \* the NodeRuntime's connected
  conn_state      \* the agent row's conn_state is 'connected'

agentvars == <<at, opened>>
sentvars  == <<closing, configured, push_failed>>
vars == <<agentvars, inbox, pc, registered, sentvars, rt_connected, conn_state>>

Init ==
  /\ at = None /\ opened = 0
  /\ inbox = [s \in Sockets |-> << >>]
  /\ pc = [s \in Sockets |-> "handshake"]
  /\ registered = None
  /\ closing = {} /\ configured = {} /\ push_failed = {}
  /\ rt_connected = FALSE /\ conn_state = FALSE

-----------------------------------------------------------------------------
(* The agent *)

AgentConnects ==
  /\ at = None /\ opened < MaxSockets
  /\ opened' = opened + 1 /\ at' = opened + 1
  /\ inbox' = [inbox EXCEPT ![at'] = <<"hello">>]
  /\ UNCHANGED <<pc, registered, sentvars, rt_connected, conn_state>>

(* A heartbeat or a report; only after HelloOk. *)
AgentSends ==
  /\ at # None
  /\ pc[at] \notin {"handshake", "record"}
  /\ Len(inbox[at]) < MaxInFlight
  /\ inbox' = [inbox EXCEPT ![at] = Append(@, "frame")]
  /\ UNCHANGED <<agentvars, pc, registered, sentvars, rt_connected, conn_state>>

(* The transport fails, the agent restarts or it obeys a Close: the last    *)
(* frames may be lost, and the panel reads the end at some point.           *)
AgentLeaves ==
  /\ at # None
  /\ \E k \in 0..Len(inbox[at]) :
       inbox' = [inbox EXCEPT ![at] = Append(SubSeq(@, 1, k), "eof")]
  /\ at' = None
  /\ UNCHANGED <<opened, pc, registered, sentvars, rt_connected, conn_state>>

-----------------------------------------------------------------------------
(* The panel's task for a socket *)

Step(s, from, to) == pc[s] = from /\ pc' = [pc EXCEPT ![s] = to]

(* handshake up to get_agent and the token; a stream that ends ends it. *)
ReadHello(s) ==
  /\ inbox[s] # << >>
  /\ Step(s, "handshake", IF Head(inbox[s]) = "hello" THEN "record" ELSE "done")
  /\ inbox' = [inbox EXCEPT ![s] = Tail(@)]
  /\ UNCHANGED <<agentvars, registered, sentvars, rt_connected, conn_state>>

(* upsert_agent, then HelloOk *)
RecordAgent(s) ==
  /\ Step(s, "record", "register")
  /\ conn_state' = TRUE
  /\ UNCHANGED <<agentvars, inbox, registered, sentvars, rt_connected>>

(* Mutant of SupersedeRegister: the previous connection is not told.        *)
SupersedeSilently(s) ==
  /\ Step(s, "register", "touch")
  /\ registered' = s
  /\ UNCHANGED <<agentvars, inbox, sentvars, rt_connected, conn_state>>

SupersedeRegister(s) ==
  /\ Step(s, "register", "touch")
  /\ registered' = s
  /\ closing' = closing \cup ({registered} \ {None})
  /\ UNCHANGED <<agentvars, inbox, configured, push_failed, rt_connected, conn_state>>

TouchRuntime(s) ==
  /\ Step(s, "touch", "push")
  /\ rt_connected' = TRUE
  /\ UNCHANGED <<agentvars, inbox, registered, sentvars, conn_state>>

(* Mutant of PushConfig: a node that had its configuration is not sent it.  *)
PushConfigOnce(s) ==
  /\ Step(s, "push", "receive")
  /\ configured' = IF configured = {} THEN {registered} \ {None} ELSE configured
  /\ UNCHANGED <<agentvars, inbox, registered, closing, push_failed, rt_connected, conn_state>>

(* push_config looks the node's connection up when it sends. *)
PushConfig(s) ==
  /\ Step(s, "push", "receive")
  /\ configured' = configured \cup ({registered} \ {None})
  /\ UNCHANGED <<agentvars, inbox, registered, closing, push_failed, rt_connected, conn_state>>

(* list_rules_for_node or get_node fails: it returns, and sends nothing.    *)
PushFails(s) ==
  /\ Step(s, "push", "receive")
  /\ push_failed' = push_failed \cup {s}
  /\ UNCHANGED <<agentvars, inbox, registered, closing, configured, rt_connected, conn_state>>

(* Mutant of Receive: frames do not set connected, the handshake has.       *)
ReceiveWithoutTouch(s) ==
  /\ inbox[s] # << >>
  /\ Step(s, "receive", IF Head(inbox[s]) = "eof" THEN "leave" ELSE "receive")
  /\ inbox' = [inbox EXCEPT ![s] = Tail(@)]
  /\ UNCHANGED <<agentvars, registered, sentvars, rt_connected, conn_state>>

(* Heartbeats and reports alike set connected. *)
Receive(s) ==
  /\ inbox[s] # << >>
  /\ LET frame == Head(inbox[s])
     IN  /\ Step(s, "receive", IF frame = "eof" THEN "leave" ELSE "receive")
         /\ rt_connected' = (rt_connected \/ frame = "frame")
  /\ inbox' = [inbox EXCEPT ![s] = Tail(@)]
  /\ UNCHANGED <<agentvars, registered, sentvars, conn_state>>

(* Mutant of Unregister: the session is not compared.                       *)
UnregisterAny(s) ==
  /\ Step(s, "leave", "clear runtime")
  /\ registered' = None
  /\ UNCHANGED <<agentvars, inbox, sentvars, rt_connected, conn_state>>

(* disconnect: the conns lock is released before the other two updates. *)
Unregister(s) ==
  /\ Step(s, "leave", IF registered = s THEN "clear runtime" ELSE "done")
  /\ registered' = IF registered = s THEN None ELSE registered
  /\ UNCHANGED <<agentvars, inbox, sentvars, rt_connected, conn_state>>

ClearRuntime(s) ==
  /\ Step(s, "clear runtime", "clear row")
  /\ rt_connected' = FALSE
  /\ UNCHANGED <<agentvars, inbox, registered, sentvars, conn_state>>

ClearRow(s) ==
  /\ Step(s, "clear row", "done")
  /\ conn_state' = FALSE
  /\ UNCHANGED <<agentvars, inbox, registered, sentvars, rt_connected>>

(* All tasks and runtimes are in memory, the agent's row is not. *)
PanelRestarts ==
  /\ PanelMayRestart /\ opened > 0
  /\ at' = None
  /\ inbox' = [s \in Sockets |-> << >>]
  /\ pc' = [s \in Sockets |-> IF s <= opened THEN "done" ELSE "handshake"]
  /\ registered' = None /\ rt_connected' = FALSE
  /\ UNCHANGED <<opened, sentvars, conn_state>>

TaskStep(s) ==
  \/ ReadHello(s) \/ RecordAgent(s) \/ SupersedeRegister(s) \/ TouchRuntime(s)
  \/ PushConfig(s) \/ PushFails(s) \/ Receive(s) \/ Unregister(s) \/ ClearRuntime(s) \/ ClearRow(s)

Next ==
  \/ AgentConnects \/ AgentSends \/ AgentLeaves \/ PanelRestarts
  \/ \E s \in Sockets : TaskStep(s)

(* The panel's tasks run and TCP delivers, the end of a dead stream         *)
(* included; a live agent sends heartbeats and obeys a Close.               *)
Spec == /\ Init /\ [][Next]_vars
        /\ \A s \in Sockets : WF_vars(TaskStep(s))
        /\ WF_vars(AgentSends) /\ WF_vars(at \in closing /\ AgentLeaves)

-----------------------------------------------------------------------------
(* Properties *)

(* Shapes, and what conns holds is a connection whose task has yet to       *)
(* unregister it, so every push has a live writer behind it.                *)
TypeOK ==
  /\ at \in {None, opened} /\ opened \in 0..MaxSockets
  /\ \A s \in Sockets : /\ inbox[s] \in Seq({"hello", "frame", "eof"})
                        /\ s > opened => pc[s] = "handshake" /\ inbox[s] = << >>
  /\ closing \cup configured \cup push_failed \subseteq Sockets
  /\ rt_connected \in BOOLEAN /\ conn_state \in BOOLEAN
  /\ registered # None
       => /\ registered \in 1..opened
          /\ pc[registered] \in {"touch", "push", "receive", "leave"}

(* ws_server.rs:486-487: the exit of an old socket never evicts the         *)
(* connection that superseded it; only the registered socket's own end      *)
(* leaves the node without one.                                             *)
EvictedOnlyByItself ==
  [][registered # None /\ registered' = None
       => pc'[registered] = "clear runtime" \/ PanelRestarts]_vars

(* gap 7.1: two live sockets never stay: one that is neither registered nor *)
(* on its way to be has been told to close.                                 *)
OthersAreClosed ==
  \A s \in Sockets :
    pc[s] \in {"touch", "push", "receive"} => s = registered \/ s \in closing

(* The registered connection has been sent a configuration once its task is *)
(* past on_connect, although push_config looks the connection up anew and   *)
(* other sockets come and go meanwhile - unless that task's own push could  *)
(* not read the database, which only the drift watchdog makes good.         *)
RegisteredIsConfigured ==
  \A s \in Sockets :
    registered = s /\ pc[s] = "receive" => s \in configured \/ s \in push_failed

(* An agent that stays on a socket ends up registered there and counted as  *)
(* connected, whatever the tasks of its earlier sockets still do.           *)
StayingAgentCounts ==
  \A s \in Sockets : <>[](at = s) => <>[](registered = s /\ rt_connected)

=============================================================================
