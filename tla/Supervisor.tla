----------------------------- MODULE Supervisor -----------------------------
(***************************************************************************)
(* The agent's process supervisor (crates/agent/src/supervisor.rs): one     *)
(* slot per relay tool, holding whether the tool is desired and its child.  *)
(* A child reads its tool's config file when it is spawned; what it read is *)
(* kept with the child, because the file may be rewritten under it.         *)
(*                                                                          *)
(* The operating system is external: a spawn fails while the tool is in     *)
(* `failing` (binary missing, out of resources), a child may exit at any    *)
(* time, and a kill succeeds.  is_running never errors (try_wait on one's   *)
(* own child).                                                              *)
(*                                                                          *)
(* The session drives the supervisor (AgentNode): start and stop_tool are   *)
(* what it makes of a slot, Spawned and Absent, always several at a time.   *)
(***************************************************************************)
EXTENDS Naturals

CONSTANTS
  Tools,       \* the relay tools
  HealsBefore, \* HealsBefore[t]: the tools healed before t in one pass
  Configs,     \* what a config file may say
  NoConfig,    \* no such file
  SpawnFaults  \* the tools whose spawn may fail

VARIABLES
  slot,        \* tool -> Slot
  file,        \* tool -> the contents of its config file
  failing      \* the tools whose spawn fails at present

ChildStates == {"none", "running", "exited"}

Slot == [desired : BOOLEAN, child : ChildStates, config : Configs \cup {NoConfig}]

(* What stop_tool leaves, its child killed.                                 *)
Absent == [desired |-> FALSE, child |-> "none", config |-> NoConfig]

(* What start and a successful heal leave: the old child is killed, a new   *)
(* one is spawned against the file as it is; if that fails, the tool stays  *)
(* desired with no child.                                                   *)
Spawned(t, contents) ==
  IF t \in failing
  THEN [desired |-> TRUE, child |-> "none", config |-> NoConfig]
  ELSE [desired |-> TRUE, child |-> "running", config |-> contents]

(* Mutant of NeedsHeal: only a child that was seen to exit is replaced.     *)
NeedsHealExited(t) == slot[t].desired /\ slot[t].child = "exited"

NeedsHeal(t) == slot[t].desired /\ slot[t].child # "running"

(* heal_if_crashed walks the tools in order; the first spawn that fails     *)
(* returns from the whole pass.                                             *)
Healed ==
  [t \in Tools |->
     IF /\ NeedsHeal(t) /\ t \notin failing
        /\ \A u \in HealsBefore[t] : NeedsHeal(u) => u \notin failing
     THEN Spawned(t, file[t]) ELSE slot[t]]

Desired == {t \in Tools : slot[t].desired}

ForwardingUp ==
  Desired # {} /\ \A t \in Desired : slot[t].child = "running"

-----------------------------------------------------------------------------
HealIfCrashed == slot' = Healed /\ UNCHANGED <<file, failing>>

ChildExits(t) ==
  /\ slot[t].child = "running"
  /\ slot' = [slot EXCEPT ![t].child = "exited"]
  /\ UNCHANGED <<file, failing>>

SpawnabilityChanges ==
  /\ failing' \in SUBSET SpawnFaults
  /\ UNCHANGED <<slot, file>>

-----------------------------------------------------------------------------
(* Properties *)

(* Shapes; a tool that is not desired has nothing left in its slot, and     *)
(* what a child read is known exactly while there is one.                   *)
TypeOK ==
  /\ slot \in [Tools -> Slot]
  /\ \A t \in Tools : /\ ~slot[t].desired => slot[t] = Absent
                      /\ slot[t].child = "none" <=> slot[t].config = NoConfig
  /\ file \in [Tools -> Configs \cup {NoConfig}]
  /\ failing \subseteq SpawnFaults
=============================================================================
