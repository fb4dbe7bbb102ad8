---------------------------- MODULE RegistryProofs ----------------------------
(***************************************************************************)
(* Proofs about the connection registry, for any number of sockets and any  *)
(* number of frames under way.                                              *)
(***************************************************************************)
EXTENDS ConnRegistry, TLAPS

Frames == {"hello", "frame", "eof"}

(* Where a task is while its socket is the registered one.                  *)
Holding == {"touch", "push", "receive", "leave"}

(* TypeOK with the domains of its functions.                                *)
Typed ==
  /\ at \in {None, opened} /\ opened \in 0..MaxSockets
  /\ inbox \in [Sockets -> Seq(Frames)] /\ DOMAIN pc = Sockets
  /\ \A s \in Sockets : s > opened => pc[s] = "handshake" /\ inbox[s] = << >>
  /\ closing \subseteq Sockets /\ configured \subseteq Sockets /\ push_failed \subseteq Sockets
  /\ rt_connected \in BOOLEAN /\ conn_state \in BOOLEAN

(* What conns holds is a socket whose task will unregister it.              *)
RegisteredLive ==
  registered # None => registered \in 1..opened /\ pc[registered] \in Holding

(* OthersAreClosed and RegisteredIsConfigured are preserved only together   *)
(* with RegisteredLive: it is what lets the newcomer's Close reach the      *)
(* socket before it, and the configuration reach the newcomer.              *)
IInv == Typed /\ RegisteredLive /\ OthersAreClosed /\ RegisteredIsConfigured

(* sentvars is an abbreviation. *)
USE DEF sentvars

-----------------------------------------------------------------------------
LEMMA InitInv == Init => IInv
<1> SUFFICES ASSUME Init PROVE IInv
  OBVIOUS
<1>1. inbox \in [Sockets -> Seq(Frames)] /\ \A s \in Sockets : inbox[s] = << >>
  <2>1. << >> \in Seq(Frames)
    OBVIOUS
  <2> QED
    BY <2>1 DEF Init
<1>2. opened \in 0..MaxSockets /\ at = None /\ registered = None
  BY SocketsAssumption DEF Init
<1>3. DOMAIN pc = Sockets /\ \A s \in Sockets : pc[s] = "handshake"
  BY DEF Init
<1>4. /\ closing = {} /\ configured = {} /\ push_failed = {}
      /\ rt_connected = FALSE /\ conn_state = FALSE
  BY DEF Init
<1>5. Typed
  BY <1>1, <1>2, <1>3, <1>4 DEF Typed
<1> QED
  BY <1>2, <1>3, <1>5 DEF IInv, RegisteredLive, OthersAreClosed, RegisteredIsConfigured

(* The agent's steps change no task.                                        *)
LEMMA AgentInv ==
  ASSUME IInv, AgentConnects \/ AgentSends \/ AgentLeaves
  PROVE  IInv'
<1>1. UNCHANGED <<pc, registered, closing, configured, push_failed, rt_connected, conn_state>>
  BY DEF AgentConnects, AgentSends, AgentLeaves
<1>2. opened \in Nat /\ opened' \in 0..MaxSockets /\ opened <= opened'
      /\ at' \in {None, opened'}
  BY SocketsAssumption
     DEF IInv, Typed, AgentConnects, AgentSends, AgentLeaves, agentvars
<1>3. inbox' \in [Sockets -> Seq(Frames)]
      /\ \A s \in Sockets : s > opened' => inbox'[s] = << >>
  <2>1. CASE AgentConnects
    <3>1. opened' \in Sockets /\ inbox' = [inbox EXCEPT ![opened'] = <<"hello">>]
      BY <2>1, SocketsAssumption DEF AgentConnects, IInv, Typed, Sockets
    <3> QED
      BY <3>1, <1>2 DEF IInv, Typed, Frames, Sockets
  <2>2. CASE AgentSends
    <3>1. at \in Sockets /\ opened' = opened /\ at <= opened
          /\ inbox' = [inbox EXCEPT ![at] = Append(inbox[at], "frame")]
      BY <2>2, SocketsAssumption DEF AgentSends, agentvars, IInv, Typed, Sockets, None
    <3>2. Append(inbox[at], "frame") \in Seq(Frames)
      BY <3>1 DEF IInv, Typed, Frames
    <3> QED
      BY <3>1, <3>2, <1>2 DEF IInv, Typed, Sockets
  <2>3. CASE AgentLeaves
    <3>1. at \in Sockets /\ opened' = opened /\ at <= opened
      BY <2>3, SocketsAssumption DEF AgentLeaves, IInv, Typed, Sockets, None
    <3>2. PICK k \in 0..Len(inbox[at]) :
            inbox' = [inbox EXCEPT ![at] = Append(SubSeq(inbox[at], 1, k), "eof")]
      BY <2>3 DEF AgentLeaves
    <3>3. inbox[at] \in Seq(Frames)
      BY <3>1 DEF IInv, Typed
    <3>4. Append(SubSeq(inbox[at], 1, k), "eof") \in Seq(Frames)
      BY <3>3 DEF Frames
    <3> QED
      BY <3>1, <3>2, <3>4, <1>2 DEF IInv, Typed, Sockets
  <2> QED
    BY <2>1, <2>2, <2>3
<1> QED
  BY <1>1, <1>2, <1>3
     DEF IInv, Typed, RegisteredLive, OthersAreClosed, RegisteredIsConfigured,
         Sockets, None

(* A task that is past its handshake, or has something to read, is that of  *)
(* a socket the agent opened.                                               *)
LEMMA BusyIsOpened ==
  ASSUME Typed, NEW s \in Sockets, pc[s] # "handshake" \/ inbox[s] # << >>
  PROVE  s \in 1..opened
BY SocketsAssumption DEF Typed, Sockets

(* Every step of a task moves that task only, and reads its socket at most. *)
LEMMA TaskMoves ==
  ASSUME IInv, NEW s \in Sockets, TaskStep(s)
  PROVE  /\ s \in 1..opened /\ UNCHANGED <<at, opened>>
         /\ DOMAIN pc' = Sockets /\ \A u \in Sockets \ {s} : pc'[u] = pc[u]
         /\ inbox' \in [Sockets -> Seq(Frames)]
         /\ \A u \in Sockets \ {s} : inbox'[u] = inbox[u]
<1>1. s \in 1..opened /\ UNCHANGED <<at, opened>>
  <2>1. pc[s] # "handshake" \/ inbox[s] # << >>
    BY DEF TaskStep, Step, ReadHello, RecordAgent, SupersedeRegister, TouchRuntime,
           PushConfig, PushFails, Receive, Unregister, ClearRuntime, ClearRow
  <2>2. UNCHANGED <<at, opened>>
    BY DEF TaskStep, ReadHello, RecordAgent, SupersedeRegister, TouchRuntime,
           PushConfig, PushFails, Receive, Unregister, ClearRuntime, ClearRow, agentvars
  <2> QED
    BY <2>1, <2>2, BusyIsOpened DEF IInv
<1>2. \E to : pc' = [pc EXCEPT ![s] = to]
  BY DEF TaskStep, Step, ReadHello, RecordAgent, SupersedeRegister, TouchRuntime,
         PushConfig, PushFails, Receive, Unregister, ClearRuntime, ClearRow
<1>3. inbox' = inbox \/ (inbox[s] # << >> /\ inbox' = [inbox EXCEPT ![s] = Tail(inbox[s])])
  BY DEF TaskStep, ReadHello, RecordAgent, SupersedeRegister, TouchRuntime,
         PushConfig, PushFails, Receive, Unregister, ClearRuntime, ClearRow
<1>4. inbox \in [Sockets -> Seq(Frames)] /\ DOMAIN pc = Sockets
  BY DEF IInv, Typed
<1>5. inbox[s] # << >> => Tail(inbox[s]) \in Seq(Frames)
  BY <1>4
<1> QED
  BY <1>1, <1>2, <1>3, <1>4, <1>5

(* The steps of a task, grouped by what they do to conns.                   *)
LEMMA TaskInv ==
  ASSUME IInv, NEW s \in Sockets, TaskStep(s)
  PROVE  IInv'
<1>1. /\ s \in 1..opened /\ UNCHANGED <<at, opened>>
      /\ DOMAIN pc' = Sockets /\ \A u \in Sockets \ {s} : pc'[u] = pc[u]
      /\ inbox' \in [Sockets -> Seq(Frames)]
      /\ \A u \in Sockets \ {s} : inbox'[u] = inbox[u]
  BY TaskMoves
<1>2. /\ registered # None => registered \in Sockets
      /\ opened \in Nat /\ None \notin Sockets
  BY SocketsAssumption DEF IInv, Typed, RegisteredLive, Sockets, None
<1>3. ASSUME closing' \subseteq Sockets, configured' \subseteq Sockets,
             push_failed' \subseteq Sockets,
             rt_connected' \in BOOLEAN, conn_state' \in BOOLEAN
      PROVE  Typed'
  <2>1. \A u \in Sockets : u > opened' => u # s
    BY <1>1, <1>2
  <2> QED
    BY <1>1, <1>3, <2>1 DEF IInv, Typed
<1>4. CASE ReadHello(s) \/ RecordAgent(s)
  <2>1. /\ UNCHANGED <<registered, closing, configured, push_failed>> /\ rt_connected' \in BOOLEAN
        /\ conn_state' \in BOOLEAN
        /\ pc[s] \in {"handshake", "record"} /\ pc'[s] \in {"record", "register", "done"}
    BY <1>4 DEF ReadHello, RecordAgent, Step, IInv, Typed
  <2>2. Typed'
    BY <1>3, <2>1 DEF IInv, Typed
  <2>3. RegisteredLive'
    BY <1>1, <1>2, <2>1 DEF IInv, RegisteredLive, Holding
  <2>4. OthersAreClosed' /\ RegisteredIsConfigured'
    BY <1>1, <2>1 DEF IInv, OthersAreClosed, RegisteredIsConfigured
  <2> QED
    BY <2>2, <2>3, <2>4 DEF IInv
<1>5. CASE SupersedeRegister(s)
  <2>1. /\ registered' = s /\ pc'[s] = "touch"
        /\ closing' = closing \cup ({registered} \ {None})
        /\ UNCHANGED <<configured, push_failed, rt_connected, conn_state>>
    BY <1>5 DEF SupersedeRegister, Step, IInv, Typed
  <2>2. Typed'
    BY <1>2, <1>3, <2>1 DEF IInv, Typed
  <2>3. RegisteredLive'
    BY <1>1, <2>1 DEF RegisteredLive, Holding
  <2>4. OthersAreClosed'
    BY <1>1, <1>2, <2>1 DEF IInv, OthersAreClosed
  <2>5. RegisteredIsConfigured'
    BY <1>1, <2>1 DEF RegisteredIsConfigured
  <2> QED
    BY <2>2, <2>3, <2>4, <2>5 DEF IInv
<1>6. CASE TouchRuntime(s) \/ PushConfig(s) \/ PushFails(s) \/ Receive(s)
  <2>1. /\ UNCHANGED <<registered, closing, conn_state>>
        /\ rt_connected' \in BOOLEAN
        /\ configured \subseteq configured' /\ configured' \subseteq Sockets
        /\ push_failed \subseteq push_failed' /\ push_failed' \subseteq Sockets
    BY <1>2, <1>6 DEF TouchRuntime, PushConfig, PushFails, Receive, IInv, Typed
  <2>2. /\ pc[s] \in {"touch", "push", "receive"}
        /\ pc'[s] \in {"push", "receive", "leave"}
    BY <1>6 DEF TouchRuntime, PushConfig, PushFails, Receive, Step, IInv, Typed
  <2>3. Typed'
    BY <1>3, <2>1 DEF IInv, Typed
  <2>4. RegisteredLive'
    BY <1>1, <1>2, <2>1, <2>2 DEF IInv, RegisteredLive, Holding
  <2>5. OthersAreClosed'
    BY <1>1, <2>1, <2>2 DEF IInv, OthersAreClosed
  <2>6. registered = s /\ pc'[s] = "receive" => s \in configured' \/ s \in push_failed'
    <3>1. CASE TouchRuntime(s)
      BY <3>1, <1>6 DEF TouchRuntime, Step, IInv, Typed
    <3>2. CASE PushConfig(s)
      BY <3>2, <1>2 DEF PushConfig
    <3>3. CASE Receive(s)
      BY <3>3, <2>1 DEF Receive, Step, IInv, RegisteredIsConfigured
    <3>4. CASE PushFails(s)
      BY <3>4 DEF PushFails
    <3> QED
      BY <1>6, <3>1, <3>2, <3>3, <3>4
  <2>7. RegisteredIsConfigured'
    BY <1>1, <2>1, <2>6 DEF IInv, RegisteredIsConfigured
  <2> QED
    BY <2>3, <2>4, <2>5, <2>7 DEF IInv
<1>7. CASE Unregister(s) \/ ClearRuntime(s) \/ ClearRow(s)
  <2>1. /\ UNCHANGED <<closing, configured, push_failed>>
        /\ rt_connected' \in BOOLEAN /\ conn_state' \in BOOLEAN
        /\ pc'[s] \in {"clear runtime", "clear row", "done"}
    BY <1>7 DEF Unregister, ClearRuntime, ClearRow, Step, IInv, Typed
  <2>2. \/ registered # s /\ registered' = registered
        \/ registered = s /\ registered' = None
    BY <1>1, <1>2, <1>7
       DEF Unregister, ClearRuntime, ClearRow, Step, IInv, RegisteredLive, Holding, Sockets
  <2>3. Typed'
    BY <1>3, <2>1 DEF IInv, Typed
  <2>4. RegisteredLive'
    BY <1>1, <1>2, <2>2 DEF IInv, RegisteredLive
  <2>5. OthersAreClosed' /\ RegisteredIsConfigured'
    <3>1. ASSUME NEW u \in Sockets, u # s, registered = s,
                 pc[u] \in {"touch", "push", "receive"}
          PROVE  u \in closing
      BY <3>1 DEF IInv, OthersAreClosed
    <3> QED
      BY <1>1, <1>2, <2>1, <2>2, <3>1 DEF IInv, OthersAreClosed, RegisteredIsConfigured
  <2> QED
    BY <2>3, <2>4, <2>5 DEF IInv
<1> QED
  BY <1>4, <1>5, <1>6, <1>7 DEF TaskStep

(* A restart leaves no task but those that have not begun.                  *)
LEMMA RestartInv ==
  ASSUME IInv, PanelRestarts
  PROVE  IInv'
<1>1. /\ at' = None /\ opened' = opened /\ registered' = None /\ rt_connected' = FALSE
      /\ UNCHANGED <<closing, configured, push_failed, conn_state>>
  BY DEF PanelRestarts
<1>2. DOMAIN pc' = Sockets
      /\ \A s \in Sockets : pc'[s] \in {"done", "handshake"}
                           /\ (s > opened => pc'[s] = "handshake")
  BY SocketsAssumption DEF PanelRestarts, IInv, Typed, Sockets
<1>3. inbox' \in [Sockets -> Seq(Frames)] /\ \A s \in Sockets : inbox'[s] = << >>
  <2>1. << >> \in Seq(Frames)
    OBVIOUS
  <2> QED
    BY <2>1 DEF PanelRestarts
<1> QED
  BY <1>1, <1>2, <1>3
     DEF IInv, Typed, RegisteredLive, OthersAreClosed, RegisteredIsConfigured

LEMMA NextInv == IInv /\ [Next]_vars => IInv'
<1> SUFFICES ASSUME IInv, [Next]_vars PROVE IInv'
  OBVIOUS
<1>1. CASE UNCHANGED vars
  BY <1>1 DEF vars, agentvars, IInv, Typed, RegisteredLive, OthersAreClosed,
              RegisteredIsConfigured
<1>2. CASE AgentConnects \/ AgentSends \/ AgentLeaves
  BY <1>2, AgentInv
<1>3. CASE PanelRestarts
  BY <1>3, RestartInv
<1>4. CASE \E s \in Sockets : TaskStep(s)
  BY <1>4, TaskInv
<1> QED
  BY <1>1, <1>2, <1>3, <1>4 DEF Next

LEMMA InvImplies == IInv => TypeOK /\ OthersAreClosed /\ RegisteredIsConfigured
BY DEF IInv, Typed, TypeOK, RegisteredLive, Holding, Frames

LEMMA StepEvicts ==
  IInv /\ [Next]_vars
    => [registered # None /\ registered' = None
          => pc'[registered] = "clear runtime" \/ PanelRestarts]_vars
<1> SUFFICES ASSUME IInv, Next, ~PanelRestarts, registered # None, registered' = None
             PROVE  pc'[registered] = "clear runtime"
  OBVIOUS
<1>1. ~(AgentConnects \/ AgentSends \/ AgentLeaves)
  BY DEF AgentConnects, AgentSends, AgentLeaves
<1>2. PICK s \in Sockets : TaskStep(s)
  BY <1>1 DEF Next
<1>3. Unregister(s)
  <2>1. Unregister(s) \/ registered' = registered \/ registered' = s
    BY <1>2 DEF TaskStep, ReadHello, RecordAgent, SupersedeRegister, TouchRuntime,
                PushConfig, PushFails, Receive, ClearRuntime, ClearRow
  <2>2. s # None
    BY SocketsAssumption DEF Sockets, None
  <2> QED
    BY <2>1, <2>2
<1> QED
  BY <1>3 DEF Unregister, Step, IInv, Typed

-----------------------------------------------------------------------------
(* conns holds only sockets with a task behind them (ws_server.rs           *)
(* supersede_register, disconnect).                                         *)
THEOREM RegistryTyped == Spec => []TypeOK
<1> QED
  BY InitInv, NextInv, InvImplies, PTL DEF Spec

(* A live socket that is not the registered one has been told to close, for *)
(* any number of sockets whose tasks interleave (supersede_register).       *)
THEOREM TheRestAreClosed == Spec => []OthersAreClosed
<1> QED
  BY InitInv, NextInv, InvImplies, PTL DEF Spec

(* The registered socket has its configuration once its task serves it, or  *)
(* that task's own reads failed (on_connect, push_config).                  *)
THEOREM RegisteredGetsConfig == Spec => []RegisteredIsConfigured
<1> QED
  BY InitInv, NextInv, InvImplies, PTL DEF Spec

(* The teardown of one socket never evicts another (disconnect).            *)
THEOREM NoForeignEviction == Spec => EvictedOnlyByItself
<1> QED
  BY InitInv, NextInv, StepEvicts, PTL DEF Spec, EvictedOnlyByItself
=============================================================================
