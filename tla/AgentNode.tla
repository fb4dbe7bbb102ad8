------------------------------ MODULE AgentNode ------------------------------
(***************************************************************************)
(* The agent process as a whole: sessions with the panel that come and go   *)
(* (run_reconnect_loop), inside a session the failover engine (Failover),   *)
(* under it the supervisor and the config files (Supervisor), and the       *)
(* generation the agent believes it has applied.                            *)
(*                                                                          *)
(* The engine is created anew for every session; the supervisor, the        *)
(* config files and applied_gen outlive it, and only the files outlive the  *)
(* process.  All arms of the session loop run to completion, so an arm is   *)
(* one action.  TLS material is left out: a certificate only matters here   *)
(* as one more file whose write may fail.                                   *)
(***************************************************************************)
EXTENDS Integers, Sequences

CONSTANTS
  RuleIds, Backends, BackendLists,
  failover_max_fails, failover_recovery_checks,
  probe_interval_secs, min_dwell_secs, U32Max, U64Max,
  Gens,           \* generations the panel's pushes may carry
  RuleSets,       \* the sets of rules it may push: functions from rules to specs
  WriteFaults,    \* what may go wrong in config::apply: a subset of Faults
  SpawnFaults,    \* the tools whose spawn may fail
  NoConfig, Truncated

Tools == {"gost", "realm"}

HealsBefore == [t \in Tools |-> IF t = "realm" THEN {"gost"} ELSE {}]

VARIABLES
  session,        \* "up" between HelloOk and the end of the session
  pushed,         \* the last ConfigPush of this session, for the properties
  rules,          \* the session's failover engine
  slot, file, failing,
  applied_gen

(* A relay config: the one upstream of each of the tool's rules.            *)
Upstreams == UNION {[S -> Backends] : S \in (SUBSET RuleIds) \ {{}}}

E == INSTANCE Failover
S == INSTANCE Supervisor WITH Configs <- Upstreams \cup {Truncated}

vars == <<session, pushed, rules, slot, file, failing, applied_gen>>

-----------------------------------------------------------------------------
(* Rendering *)

(* One upstream per rule of the tool; no config for a tool without rules.   *)
RenderTool(t, upstream, tool) ==
  LET mine == {r \in DOMAIN upstream : tool[r] = t}
  IN  IF mine = {} THEN NoConfig ELSE [r \in mine |-> upstream[r]]

(* FailoverEngine::render_active: the engine's active replica of each rule. *)
RenderActive(rls) ==
  LET active == {r \in DOMAIN rls : rls[r].active # 0}
  IN  [t \in Tools |->
         RenderTool(t, [r \in active |-> E!ActiveEndpoint(rls[r])],
                       [r \in active |-> rls[r].spec.tool])]

(* The panel's own rendering, for the primary of each rule.                 *)
RenderPrimary(specs) ==
  [t \in Tools |-> RenderTool(t, [r \in DOMAIN specs |-> specs[r].backends[1]],
                                 [r \in DOMAIN specs |-> specs[r].tool])]

(* A push: the node's rules, rendered by the panel, and sent in structured  *)
(* form as well unless the kill switch is on or the agent is too old.       *)
Push == [gen : Gens, armed : BOOLEAN, specs : RuleSets]

(* build_rule_specs puts the rule's backend first, so no list is empty.     *)
RuleSetsAssumption ==
  /\ RuleSets \subseteq UNION {[R -> E!RuleSpec] : R \in SUBSET RuleIds}
  /\ \A specs \in RuleSets : \A r \in DOMAIN specs : specs[r].backends # << >>
ASSUME RuleSetsAssumption

(* What the engine assumes of its lists, its tunables and its widths.       *)
ASSUME EngineAssumption ==
  /\ BackendLists \subseteq Seq(Backends)
  /\ failover_max_fails       \in Nat
  /\ failover_recovery_checks \in Nat
  /\ probe_interval_secs      \in Nat
  /\ min_dwell_secs           \in Nat
  /\ U32Max \in Nat /\ E!MaxFails <= U32Max /\ E!RecoveryChecks <= U32Max
  /\ U64Max \in Nat /\ E!DwellTicks <= U64Max \div 2

(* A file that is missing or cut short is not a config.                     *)
ASSUME ContentsAssumption ==
  /\ NoConfig \notin Upstreams \cup {Truncated}
  /\ Truncated \notin Upstreams

(* select_apply_push, the part that chooses the bytes: the engine's         *)
(* selection while it has rules, the panel's text otherwise.                *)
SelectedConfigs(push, rls) ==
  IF DOMAIN rls # {} THEN RenderActive(rls) ELSE RenderPrimary(push.specs)

-----------------------------------------------------------------------------
(* config::apply: gost's file, then realm's, then the certificate; the      *)
(* first failure abandons the rest.                                         *)

Faults == {"none", "gost", "realm", "cert"}

(* Only a file that is to be written can fail to be.                        *)
FaultOK(fault, configs) == fault \in Tools => configs[fault] # NoConfig

(* The contents of t's file after the writes; a failed write may have       *)
(* truncated it.                                                            *)
WrittenTo(t, configs, fault) ==
  IF configs[t] = NoConfig \/ (fault = "gost" /\ t = "realm") THEN {file[t]}
  ELSE IF fault = t THEN {file[t], Truncated}
  ELSE {configs[t]}

Write(configs, fault) ==
  \E after \in [Tools -> UNION {WrittenTo(t, configs, fault) : t \in Tools}] :
    /\ \A t \in Tools : after[t] \in WrittenTo(t, configs, fault)
    /\ file' = after

-----------------------------------------------------------------------------
(* The session's arms *)

(* ok: this push and every switch since were written.                       *)
NoPush == [armed     |-> FALSE, ok |-> FALSE,
           primaries |-> [t \in Tools |-> NoConfig]]

AgentInit ==
  /\ session = "down" /\ pushed = NoPush
  /\ rules = << >>
  /\ slot = [t \in Tools |-> S!Absent]
  /\ file = [t \in Tools |-> NoConfig]
  /\ failing \in SUBSET SpawnFaults
  /\ applied_gen = 0

(* HelloOk arrives: a new engine, no rules yet. *)
Connect ==
  /\ session = "down"
  /\ session' = "up"
  /\ rules' = << >> /\ pushed' = NoPush
  /\ UNCHANGED <<slot, file, failing, applied_gen>>

(* The session ends for whatever reason; relays keep running. *)
Disconnect ==
  /\ session = "up"
  /\ session' = "down"
  /\ rules' = << >> /\ pushed' = NoPush
  /\ UNCHANGED <<slot, file, failing, applied_gen>>

(* The process is restarted: PDEATHSIG takes the children with it. *)
Restart ==
  /\ session' = "down"
  /\ rules' = << >> /\ pushed' = NoPush
  /\ slot' = [t \in Tools |-> S!Absent]
  /\ applied_gen' = 0
  /\ UNCHANGED <<file, failing>>

(* Heartbeat arm; what it reports is read off the state. *)
HeartbeatTick ==
  /\ session = "up"
  /\ S!HealIfCrashed
  /\ UNCHANGED <<session, pushed, rules, applied_gen>>

(* Mutant of RulesAfter: a push without rules leaves the engine alone.      *)
RulesAfterKeeping(push) ==
  IF push.armed THEN E!AdoptRules(push.specs) ELSE rules

(* A push without structured rules empties the engine.                      *)
RulesAfter(push) == IF push.armed THEN E!AdoptRules(push.specs) ELSE << >>

(* Mutant of GenAfter: what was written counts as applied.                  *)
GenAfterWrite(push, fault, wanted) ==
  IF fault = "none" THEN push.gen ELSE applied_gen

(* A generation counts as applied only if everything was written and every  *)
(* spawn succeeded; otherwise the ack repeats the last good one.            *)
GenAfter(push, fault, wanted) ==
  IF fault = "none" /\ wanted \cap failing = {} THEN push.gen ELSE applied_gen

(* The ConfigPush arm: adopt the rules, write the files; then stop the      *)
(* tools without a config and (re)start the others.                         *)
ReceivePush(push, fault) ==
  /\ session = "up" /\ fault \in WriteFaults \cup {"none"}
  /\ rules' = RulesAfter(push)
  /\ LET configs == SelectedConfigs(push, rules')
         wanted  == {t \in Tools : configs[t] # NoConfig}
     IN  /\ FaultOK(fault, configs)
         /\ Write(configs, fault)
         /\ slot' = [t \in Tools |->
                       IF fault # "none" THEN slot[t]
                       ELSE IF t \in wanted THEN S!Spawned(t, configs[t])
                       ELSE S!Absent]
         /\ applied_gen' = GenAfter(push, fault, wanted)
  /\ pushed' = [armed |-> push.armed, ok |-> fault = "none",
                primaries |-> RenderPrimary(push.specs)]
  /\ UNCHANGED <<session, failing>>

(* Mutants of SwitchedTools: a revert to the primary restarts nothing; any  *)
(* switch restarts every tool that has a rule.                              *)
SwitchedToStandby ==
  {rules[r].spec.tool : r \in {q \in DOMAIN rules : rules'[q].active > rules[q].active}}

AllToolsOnSwitch ==
  IF \A r \in DOMAIN rules : rules'[r].active = rules[r].active THEN {}
  ELSE {rules[r].spec.tool : r \in DOMAIN rules}

SwitchedTools ==
  {rules[r].spec.tool : r \in {q \in DOMAIN rules : rules'[q].active # rules[q].active}}

(* The probe arm: one completed cycle, then apply_failover_switch, which    *)
(* writes and restarts only the tools with a rule that switched, logs what  *)
(* fails, and leaves applied_gen alone.                                     *)
ProbeTick(fault) ==
  /\ session = "up" /\ fault \in WriteFaults \cup {"none"}
  /\ E!ProbeAndDecide
  /\ LET rendered == RenderActive(rules')
         configs  == [t \in Tools |-> IF t \in SwitchedTools THEN rendered[t]
                                      ELSE NoConfig]
     IN  /\ fault # "cert" /\ FaultOK(fault, configs)
         /\ Write(configs, fault)
         /\ slot' = [t \in Tools |->
                       IF fault = "none" /\ t \in SwitchedTools
                       THEN S!Spawned(t, configs[t]) ELSE slot[t]]
  /\ pushed' = [pushed EXCEPT !.ok = @ /\ fault = "none"]
  /\ UNCHANGED <<session, failing, applied_gen>>

ChildExits(t) == S!ChildExits(t) /\ UNCHANGED <<session, pushed, rules, applied_gen>>

SpawnabilityChanges ==
  S!SpawnabilityChanges /\ UNCHANGED <<session, pushed, rules, applied_gen>>

AgentNext ==
  \/ Connect \/ Disconnect \/ Restart \/ HeartbeatTick \/ SpawnabilityChanges
  \/ \E t \in Tools : ChildExits(t)
  \/ \E fault \in Faults :
       ProbeTick(fault) \/ \E push \in Push : ReceivePush(push, fault)

(* Within a session the heartbeat arm comes first in the biased select. *)
AgentSpec == AgentInit /\ [][AgentNext]_vars /\ WF_vars(HeartbeatTick)

-----------------------------------------------------------------------------
(* Properties *)

TypeOK ==
  /\ session \in {"up", "down"}
  /\ pushed \in [armed : BOOLEAN, ok : BOOLEAN,
                 primaries : [Tools -> Upstreams \cup {NoConfig}]]
  /\ E!TypeOK
  /\ S!TypeOK
  /\ applied_gen \in Gens \cup {0}

Running(t) == slot[t].child = "running"

(* A config with which t serves each of its rules on its active replica.    *)
Serves(config, t) ==
  \A r \in DOMAIN rules :
    rules[r].spec.tool = t =>
      /\ config \in Upstreams /\ r \in DOMAIN config
      /\ config[r] = E!ActiveEndpoint(rules[r])

(* As long as every write of the session has succeeded, what                *)
(* active_backends reports is what the relays forward to: for every rule    *)
(* the engine manages, its tool's file names the active replica, and so     *)
(* does a running relay.  Engine, file and process are three copies of the  *)
(* selection that pushes, switches, self-heal and crashes update apart      *)
(* (protocol.rs, ActiveBackend: "Currently active backend for one           *)
(* forwarding rule").                                                       *)
ReportedIsServed ==
  session = "up" /\ pushed.ok =>
    /\ \A r \in DOMAIN rules : slot[rules[r].spec.tool].desired
    /\ \A t \in Tools : Serves(file[t], t) /\ (Running(t) => Serves(slot[t].config, t))

(* The same of the relays alone and with no word about writes, as the panel *)
(* reads any report that says the node forwards.                            *)
ReportIsTrue ==
  session = "up" /\ S!ForwardingUp => \A t \in Tools : Serves(slot[t].config, t)

(* Once an unarmed push (kill switch on) has been taken, every relay runs   *)
(* the primaries and nothing but the next push changes that: no probe       *)
(* cycle of before, no self-heal, no crash moves it (README, "Emergency     *)
(* kill-switch": reverts to the single-primary behaviour).                  *)
KillSwitchHolds ==
  pushed.ok /\ ~pushed.armed =>
    \A t \in Tools :
      /\ Running(t) => slot[t].config = pushed.primaries[t]
      /\ slot[t].desired = (pushed.primaries[t] # NoConfig)

(* The agent moves to a new generation only in a step that leaves every     *)
(* desired relay running what its file says and no relay that should not    *)
(* run, and would be reported as forwarding (conn.rs: acking desired on     *)
(* failure "would look converged").                                         *)
AppliedOnlyWhenRunning ==
  [][applied_gen' \notin {applied_gen, 0} =>
       /\ \A t \in Tools :
            IF pushed'.primaries[t] = NoConfig THEN slot'[t] = S!Absent
            ELSE slot'[t].child = "running" /\ slot'[t].config = file'[t]
       /\ S!ForwardingUp' \/ \A t \in Tools : pushed'.primaries[t] = NoConfig]_vars

(* A switch of one tool's rules leaves the other tool's relay, alive or     *)
(* dead, and its file exactly as they were (conn.rs, apply_failover_switch: *)
(* only the affected tools are bounced).  A step that changes the engine    *)
(* and no rule's spec is a probe cycle.                                     *)
SwitchBouncesOnlyItsTool ==
  [][/\ rules' # rules /\ DOMAIN rules' = DOMAIN rules
     /\ \A r \in DOMAIN rules : rules'[r].spec = rules[r].spec
     => \A t \in Tools :
          \/ slot'[t] = slot[t] /\ file'[t] = file[t]
          \/ \E r \in DOMAIN rules :
               rules[r].spec.tool = t /\ rules'[r].active # rules[r].active]_vars

(* If the session lasts and spawns succeed from some point on, every        *)
(* desired relay is running again and again, and while nothing that failed  *)
(* to be written is outstanding it runs every rule on its active replica:   *)
(* no crash, failed spawn or switch leaves a relay down for good.           *)
RelayComesBackOnActive ==
  <>[](session = "up" /\ failing = {}) =>
    \A t \in Tools :
      []<>(/\ slot[t].desired => Running(t)
           /\ pushed.ok => \A r \in DOMAIN rules :
                rules[r].spec.tool = t
                  => Running(t) /\ slot[t].config[r] = E!ActiveEndpoint(rules[r]))
=============================================================================
