---------------------------- MODULE AgentProofs ----------------------------
(***************************************************************************)
(* Proofs about the agent process: what its engine selects, what its files  *)
(* say and what its relays run, for any rules, pushes, faults and crashes.  *)
(***************************************************************************)
EXTENDS AgentNode, TLAPS

(* The engine's proofs; what they say of the log and of the probe loop is   *)
(* not used here.                                                           *)
FP == INSTANCE FailoverProofs WITH
  log <- << >>, net <- << >>, last_health <- {},
  probe_timeout_ms <- 0, heartbeat_interval_secs <- 0, PROBE_CONCURRENCY <- 1

(* The engine and its proofs read the tunables alike. *)
LEMMA EngineBounds ==
  /\ E!MaxFails = FP!MaxFails /\ E!RecoveryChecks = FP!RecoveryChecks
  /\ E!DwellTicks = FP!DwellTicks
BY DEF E!MaxFails, FP!MaxFails, E!RecoveryChecks, FP!RecoveryChecks, E!DwellTicks, FP!DwellTicks,
       E!ProbeInterval, FP!ProbeInterval, E!AtLeastOne, FP!AtLeastOne

(* What holds of an engine's rules: what the engine's own proofs keep, and  *)
(* that no rule is without a backend.                                       *)
EngineOf(rls) ==
  /\ rls = [r \in DOMAIN rls |-> rls[r]] /\ DOMAIN rls \subseteq RuleIds
  /\ \A r \in DOMAIN rls : FP!RuleInv(rls[r]) /\ rls[r].spec.backends # << >>

Engine == EngineOf(rules)

LEMMA NoRules == EngineOf(<< >>)
BY DEF EngineOf

(* An active replica is one of the rule's backends. *)
LEMMA ActiveKnown ==
  ASSUME NEW rls, EngineOf(rls), NEW r \in DOMAIN rls
  PROVE  /\ rls[r].active # 0 /\ E!ActiveEndpoint(rls[r]) \in Backends
         /\ rls[r].spec.tool \in Tools /\ r \in RuleIds
         /\ rls[r] \in FP!RuleState
<1>1. /\ rls[r] \in FP!RuleState
      /\ Len(rls[r].endpoints) = Len(rls[r].spec.backends)
      /\ rls[r].active \in 0..Len(rls[r].endpoints)
      /\ rls[r].active = 0 <=> rls[r].endpoints = << >>
      /\ rls[r].spec.backends # << >>
  BY DEF EngineOf, FP!RuleInv, FP!WellFormed
<1>2. rls[r].spec \in FP!RuleSpec
  BY <1>1 DEF FP!RuleState
<1>3. rls[r].spec.backends \in Seq(Backends) /\ rls[r].spec.tool \in Tools
  BY <1>2, EngineAssumption DEF FP!RuleSpec
<1>4. Len(rls[r].spec.backends) \in Nat \ {0}
  BY <1>1, <1>3
<1>5. rls[r].endpoints # << >>
  BY <1>1, <1>4
<1>6. rls[r].active \in 1..Len(rls[r].spec.backends)
  BY <1>1, <1>4, <1>5
<1>7. rls[r].spec.backends[rls[r].active] \in Backends
  BY <1>3, <1>6
<1> QED
  BY <1>1, <1>3, <1>6, <1>7 DEF E!ActiveEndpoint, EngineOf

(* A push's rules. *)
LEMMA PushedSpecs ==
  ASSUME NEW push \in Push
  PROVE  /\ push.specs = [r \in DOMAIN push.specs |-> push.specs[r]]
         /\ DOMAIN push.specs \subseteq RuleIds
         /\ \A r \in DOMAIN push.specs :
              /\ push.specs[r] \in FP!RuleSpec /\ push.specs[r].tool \in Tools
              /\ push.specs[r].backends # << >> /\ push.specs[r].backends[1] \in Backends
<1>1. push.specs \in RuleSets
  BY DEF Push
<1>2. PICK R \in SUBSET RuleIds : push.specs \in [R -> E!RuleSpec]
  BY <1>1, RuleSetsAssumption DEF RuleSetsAssumption
<1>3. E!RuleSpec = FP!RuleSpec
  BY DEF E!RuleSpec, FP!RuleSpec
<1>4. ASSUME NEW r \in DOMAIN push.specs
      PROVE  /\ push.specs[r] \in FP!RuleSpec /\ push.specs[r].tool \in Tools
             /\ push.specs[r].backends # << >> /\ push.specs[r].backends[1] \in Backends
  <2>1. push.specs[r] \in FP!RuleSpec /\ push.specs[r].backends # << >>
    BY <1>1, <1>2, <1>3, <1>4, RuleSetsAssumption DEF RuleSetsAssumption
  <2>2. push.specs[r].backends \in Seq(Backends) /\ push.specs[r].tool \in Tools
    BY <2>1, EngineAssumption DEF FP!RuleSpec
  <2> QED
    BY <2>1, <2>2
<1> QED
  BY <1>2, <1>4

(* The engine adopts a push. *)
LEMMA AdoptKeepsEngine ==
  ASSUME Engine, NEW push \in Push, rules' = E!AdoptRules(push.specs)
  PROVE  /\ Engine' /\ DOMAIN rules' = DOMAIN push.specs
         /\ \A r \in DOMAIN push.specs : rules'[r].spec = push.specs[r]
<1> DEFINE specs == push.specs
           R == DOMAIN specs
<1>1. R \in SUBSET RuleIds /\ specs \in [R -> FP!RuleSpec]
  BY PushedSpecs
<1>2. rules' = FP!AdoptRules(specs)
  BY DEF E!AdoptRules, FP!AdoptRules, E!NewRule, FP!NewRule, E!NewEndpoint, FP!NewEndpoint
<1>3. FP!SetRules
  BY <1>1, <1>2 DEF FP!SetRules
<1>4. FP!IInv
  BY DEF Engine, EngineOf, FP!IInv
<1>5. FP!IInv'
  BY <1>3, <1>4, FP!SetRulesInv, EngineAssumption, EngineBounds
<1>6. DOMAIN rules' = R /\ rules' = [r \in DOMAIN rules' |-> rules'[r]]
  BY <1>2 DEF FP!AdoptRules
<1>7. ASSUME NEW r \in R PROVE rules'[r].spec = specs[r]
  <2>1. CASE r \in DOMAIN rules /\ rules[r].spec.backends = specs[r].backends
    <3>1. rules[r] \in FP!RuleState
      BY <2>1, ActiveKnown DEF Engine
    <3>2. rules'[r] = [rules[r] EXCEPT !.spec = specs[r]]
      BY <1>2, <2>1 DEF FP!AdoptRules
    <3> QED
      BY <3>1, <3>2 DEF FP!RuleState
  <2>2. CASE ~(r \in DOMAIN rules /\ rules[r].spec.backends = specs[r].backends)
    <3>1. rules'[r] = FP!NewRule(specs[r])
      BY <1>2, <2>2 DEF FP!AdoptRules
    <3> QED
      BY <3>1 DEF FP!NewRule
  <2> QED
    BY <2>1, <2>2
<1>8. \A r \in R : specs[r].backends # << >>
  BY PushedSpecs
<1> HIDE DEF specs, R
<1>9. Engine'
  BY <1>1, <1>5, <1>6, <1>7, <1>8 DEF Engine, EngineOf, FP!IInv
<1> QED
  BY <1>6, <1>7, <1>9 DEF specs, R

(* The engine folds a probe cycle. *)
LEMMA ProbeKeepsEngine ==
  ASSUME Engine, E!ProbeAndDecide
  PROVE  /\ Engine' /\ DOMAIN rules' = DOMAIN rules
         /\ \A r \in DOMAIN rules : rules'[r].spec = rules[r].spec
<1>1. FP!ProbeAndDecide
  BY DEF E!ProbeAndDecide, FP!ProbeAndDecide, E!IsActive, FP!IsActive, E!Replicas, FP!Replicas,
         E!FoldProbes, FP!FoldProbes, E!ProbeRule, FP!ProbeRule, E!Reselect, FP!Reselect,
         E!Observed, FP!Observed, E!Observe, FP!Observe, E!Selected, FP!Selected,
         E!UpSet, FP!UpSet, E!BestUp, FP!BestUp, E!SaturatingInc, FP!SaturatingInc,
         E!MaxFails, FP!MaxFails, E!RecoveryChecks, FP!RecoveryChecks,
         E!DwellTicks, FP!DwellTicks, E!ProbeInterval, FP!ProbeInterval,
         E!AtLeastOne, FP!AtLeastOne
<1>2. FP!IInv
  BY DEF Engine, EngineOf, FP!IInv
<1>3. FP!IInv'
  BY <1>1, <1>2, FP!ProbeAndDecideInv, EngineAssumption, EngineBounds
<1>4. PICK answered : FP!FoldProbes(answered)
  BY <1>1 DEF FP!ProbeAndDecide
<1>5. DOMAIN rules' = DOMAIN rules /\ rules' = [r \in DOMAIN rules' |-> rules'[r]]
  BY <1>4 DEF FP!FoldProbes
<1>6. ASSUME NEW r \in DOMAIN rules PROVE rules'[r].spec = rules[r].spec
  <2> DEFINE rs == rules[r]
             reach == {i \in 1..Len(rs.endpoints) : <<r, i>> \in answered}
  <2>1. rules'[r] = FP!ProbeRule(rs, reach)
    BY <1>4 DEF FP!FoldProbes
  <2>2. rs \in FP!RuleState
    BY ActiveKnown DEF Engine
  <2> HIDE DEF reach, rs
  <2> DEFINE o == FP!Observed(rs, reach)
  <2>3. o.spec = rs.spec /\ DOMAIN o = DOMAIN rs
    BY <2>2 DEF FP!Observed, FP!RuleState
  <2>4. DOMAIN rs = {"spec", "endpoints", "active", "ticks"}
    BY <2>2 DEF FP!RuleState
  <2> HIDE DEF o
  <2>5. FP!ProbeRule(rs, reach).spec = o.spec
    <3>1. \/ FP!ProbeRule(rs, reach) = o
          \/ FP!ProbeRule(rs, reach) = [o EXCEPT !.active = FP!Selected(o), !.ticks = 0]
      BY DEF FP!ProbeRule, FP!Reselect, o
    <3> QED
      BY <2>3, <2>4, <3>1
  <2> QED
    BY <2>1, <2>3, <2>5 DEF rs
<1>7. Engine'
  BY <1>3, <1>5, <1>6 DEF Engine, EngineOf, FP!IInv
<1> QED
  BY <1>5, <1>6, <1>7
-----------------------------------------------------------------------------
(* Rendering *)

Contents == Upstreams \cup {Truncated}

ServesIn(rls, config, t) ==
  \A r \in DOMAIN rls :
    rls[r].spec.tool = t =>
      /\ config \in Upstreams /\ r \in DOMAIN config
      /\ config[r] = E!ActiveEndpoint(rls[r])

(* A tool has a config exactly when it has a rule. *)
LEMMA RenderToolIs ==
  ASSUME NEW R \in SUBSET RuleIds, NEW upstream \in [R -> Backends], NEW tool, NEW t
  PROVE  /\ RenderTool(t, upstream, tool) \in Upstreams \cup {NoConfig}
         /\ RenderTool(t, upstream, tool) = NoConfig <=> \A r \in R : tool[r] # t
         /\ \A r \in R : tool[r] = t =>
              /\ RenderTool(t, upstream, tool) \in Upstreams
              /\ r \in DOMAIN RenderTool(t, upstream, tool)
              /\ RenderTool(t, upstream, tool)[r] = upstream[r]
<1> DEFINE mine == {r \in DOMAIN upstream : tool[r] = t}
           c == RenderTool(t, upstream, tool)
<1>1. DOMAIN upstream = R
  OBVIOUS
<1>2. CASE mine = {}
  <2>1. c = NoConfig /\ \A r \in R : tool[r] # t
    BY <1>1, <1>2 DEF RenderTool
  <2> QED
    BY <2>1
<1>3. CASE mine # {}
  <2>1. c = [r \in mine |-> upstream[r]]
    BY <1>3 DEF RenderTool
  <2>2. mine \in SUBSET RuleIds /\ mine # {} /\ \A r \in mine : upstream[r] \in Backends
    BY <1>1, <1>3
  <2> HIDE DEF c
  <2>3. c \in Upstreams
    <3> HIDE DEF mine
    <3>1. c \in [mine -> Backends]
      BY <2>1, <2>2
    <3> QED
      BY <2>2, <3>1 DEF Upstreams
  <2>4. c # NoConfig
    BY <2>3, ContentsAssumption
  <2> QED
    BY <1>1, <1>3, <2>1, <2>3, <2>4 DEF c
<1> QED
  BY <1>2, <1>3

(* What the engine renders serves its rules. *)
LEMMA RenderActiveIs ==
  ASSUME NEW rls, EngineOf(rls), NEW t \in Tools
  PROVE  /\ RenderActive(rls)[t] \in Upstreams \cup {NoConfig}
         /\ RenderActive(rls)[t] = NoConfig <=> \A r \in DOMAIN rls : rls[r].spec.tool # t
         /\ ServesIn(rls, RenderActive(rls)[t], t)
<1> DEFINE R == DOMAIN rls
           active == {r \in R : rls[r].active # 0}
           upstream == [r \in R |-> E!ActiveEndpoint(rls[r])]
           tool == [r \in R |-> rls[r].spec.tool]
<1>1. active = R /\ R \in SUBSET RuleIds /\ upstream \in [R -> Backends]
  BY ActiveKnown
<1>2. RenderActive(rls)[t] = RenderTool(t, upstream, tool)
  <2>1. RenderActive(rls)[t] = RenderTool(t, [r \in active |-> E!ActiveEndpoint(rls[r])],
                                             [r \in active |-> rls[r].spec.tool])
    BY DEF RenderActive
  <2> QED
    BY <1>1, <2>1
<1>3. \A r \in R : upstream[r] = E!ActiveEndpoint(rls[r]) /\ tool[r] = rls[r].spec.tool
  OBVIOUS
<1> HIDE DEF upstream, tool, R
<1>4. /\ RenderTool(t, upstream, tool) \in Upstreams \cup {NoConfig}
      /\ RenderTool(t, upstream, tool) = NoConfig <=> \A r \in R : tool[r] # t
      /\ \A r \in R : tool[r] = t =>
           /\ RenderTool(t, upstream, tool) \in Upstreams
           /\ r \in DOMAIN RenderTool(t, upstream, tool)
           /\ RenderTool(t, upstream, tool)[r] = upstream[r]
  BY <1>1, RenderToolIs
<1> QED
  BY <1>2, <1>3, <1>4 DEF ServesIn, R

(* What the panel renders. *)
LEMMA RenderPrimaryIs ==
  ASSUME NEW push \in Push, NEW t \in Tools
  PROVE  /\ RenderPrimary(push.specs)[t] \in Upstreams \cup {NoConfig}
         /\ RenderPrimary(push.specs)[t] = NoConfig
              <=> \A r \in DOMAIN push.specs : push.specs[r].tool # t
<1> DEFINE R == DOMAIN push.specs
           upstream == [r \in R |-> push.specs[r].backends[1]]
           tool == [r \in R |-> push.specs[r].tool]
<1>1. R \in SUBSET RuleIds /\ upstream \in [R -> Backends]
  BY PushedSpecs
<1>2. RenderPrimary(push.specs)[t] = RenderTool(t, upstream, tool)
  BY DEF RenderPrimary
<1>3. \A r \in R : tool[r] = push.specs[r].tool
  OBVIOUS
<1> HIDE DEF upstream, tool, R
<1>4. /\ RenderTool(t, upstream, tool) \in Upstreams \cup {NoConfig}
      /\ RenderTool(t, upstream, tool) = NoConfig <=> \A r \in R : tool[r] # t
  BY <1>1, RenderToolIs
<1> QED
  BY <1>2, <1>3, <1>4 DEF R

-----------------------------------------------------------------------------
(* Files and slots *)

(* config::apply leaves a config in each file it was given one for. *)
LEMMA WriteIs ==
  ASSUME NEW configs \in [Tools -> Upstreams \cup {NoConfig}], NEW fault, Write(configs, fault),
         file \in [Tools -> Contents \cup {NoConfig}]
  PROVE  /\ file' \in [Tools -> Contents \cup {NoConfig}]
         /\ \A t \in Tools :
              /\ file[t] # NoConfig => file'[t] # NoConfig
              /\ configs[t] = NoConfig => file'[t] = file[t]
              /\ fault = "none" /\ configs[t] # NoConfig => file'[t] = configs[t]
<1>1. /\ file' = [t \in Tools |-> file'[t]]
      /\ \A t \in Tools : file'[t] \in WrittenTo(t, configs, fault)
  BY DEF Write
<1>2. ASSUME NEW t \in Tools
      PROVE  /\ file'[t] \in Contents \cup {NoConfig}
             /\ file[t] # NoConfig => file'[t] # NoConfig
             /\ configs[t] = NoConfig => file'[t] = file[t]
             /\ fault = "none" /\ configs[t] # NoConfig => file'[t] = configs[t]
  <2>1. file'[t] \in WrittenTo(t, configs, fault) /\ file[t] \in Contents \cup {NoConfig}
        /\ configs[t] \in Upstreams \cup {NoConfig} /\ t \in {"gost", "realm"}
    BY <1>1 DEF Tools
  <2>2. Truncated # NoConfig
    BY ContentsAssumption
  <2> QED
    BY <2>1, <2>2 DEF WrittenTo, Contents
<1> QED
  BY <1>1, <1>2

GoodSlot(s) ==
  /\ s \in S!Slot
  /\ ~s.desired => s = S!Absent
  /\ s.child = "none" <=> s.config = NoConfig

LEMMA AbsentIs ==
  GoodSlot(S!Absent) /\ ~S!Absent.desired /\ S!Absent.child # "running"
BY DEF GoodSlot, S!Absent, S!Slot, S!ChildStates

LEMMA SpawnedIs ==
  ASSUME NEW t \in Tools, NEW contents \in Contents
  PROVE  /\ GoodSlot(S!Spawned(t, contents))
         /\ S!Spawned(t, contents).desired
         /\ S!Spawned(t, contents).child = "running" => S!Spawned(t, contents).config = contents
         /\ t \notin failing => S!Spawned(t, contents).child = "running"
<1>1. contents # NoConfig /\ contents \in (Upstreams \cup {Truncated}) \cup {NoConfig}
  BY ContentsAssumption DEF Contents
<1> QED
  BY <1>1 DEF S!Spawned, GoodSlot, S!Slot, S!ChildStates

-----------------------------------------------------------------------------
(* TypeOK, and what it takes *)

Shapes ==
  /\ session \in {"up", "down"}
  /\ pushed \in [armed : BOOLEAN, ok : BOOLEAN, primaries : [Tools -> Upstreams \cup {NoConfig}]]
  /\ slot = [t \in Tools |-> slot[t]] /\ \A t \in Tools : GoodSlot(slot[t])
  /\ file \in [Tools -> Contents \cup {NoConfig}]
  /\ failing \subseteq SpawnFaults
  /\ applied_gen \in Gens \cup {0}

(* A relay that is wanted has had a config, a session that is down has no   *)
(* engine, and without an armed push the engine is empty.                   *)
Linked ==
  /\ \A t \in Tools : slot[t].desired => file[t] # NoConfig
  /\ session = "down" => rules = << >> /\ ~pushed.ok
  /\ ~pushed.armed => rules = << >>

AgentInv == Engine /\ Shapes /\ Linked

(* The configs a push is answered with: one for each tool with a rule.      *)
LEMMA SelectedIs ==
  ASSUME Engine, NEW push \in Push, rules' = RulesAfter(push)
  PROVE  /\ Engine'
         /\ \A r \in DOMAIN rules' : r \in DOMAIN push.specs /\ rules'[r].spec = push.specs[r]
         /\ SelectedConfigs(push, rules') \in [Tools -> Upstreams \cup {NoConfig}]
         /\ RenderPrimary(push.specs) \in [Tools -> Upstreams \cup {NoConfig}]
         /\ \A t \in Tools :
              /\ ServesIn(rules', SelectedConfigs(push, rules')[t], t)
              /\ SelectedConfigs(push, rules')[t] = NoConfig
                   <=> RenderPrimary(push.specs)[t] = NoConfig
         /\ ~push.armed => rules' = << >>
                           /\ SelectedConfigs(push, rules') = RenderPrimary(push.specs)
<1>1. RenderPrimary(push.specs) \in [Tools -> Upstreams \cup {NoConfig}]
  <2>1. RenderPrimary(push.specs) = [t \in Tools |-> RenderPrimary(push.specs)[t]]
    BY DEF RenderPrimary
  <2> QED
    BY <2>1, RenderPrimaryIs
<1>2. CASE ~push.armed
  <2>1. rules' = << >> /\ DOMAIN rules' = {}
    BY <1>2 DEF RulesAfter
  <2>2. SelectedConfigs(push, rules') = RenderPrimary(push.specs)
    BY <2>1 DEF SelectedConfigs
  <2>3. Engine'
    BY <2>1, NoRules DEF Engine
  <2> QED
    BY <1>1, <2>1, <2>2, <2>3 DEF ServesIn
<1>3. CASE push.armed
  <2>1. /\ Engine' /\ DOMAIN rules' = DOMAIN push.specs
        /\ \A r \in DOMAIN push.specs : rules'[r].spec = push.specs[r]
    BY <1>3, AdoptKeepsEngine DEF RulesAfter
  <2> DEFINE rls == rules'
  <2>2. EngineOf(rls)
    BY <2>1 DEF Engine
  <2>3. CASE DOMAIN rules' = {}
    <3>1. SelectedConfigs(push, rules') = RenderPrimary(push.specs)
      BY <2>3 DEF SelectedConfigs
    <3> QED
      BY <1>1, <1>3, <2>1, <2>3, <3>1 DEF ServesIn
  <2>4. CASE DOMAIN rules' # {}
    <3>1. SelectedConfigs(push, rls) = RenderActive(rls)
      BY <2>4 DEF SelectedConfigs
    <3>2. RenderActive(rls) = [t \in Tools |-> RenderActive(rls)[t]]
      BY DEF RenderActive
    <3> HIDE DEF rls
    <3>3. \A t \in Tools :
            /\ RenderActive(rls)[t] \in Upstreams \cup {NoConfig}
            /\ RenderActive(rls)[t] = NoConfig <=> \A r \in DOMAIN rls : rls[r].spec.tool # t
            /\ ServesIn(rls, RenderActive(rls)[t], t)
      BY <2>2, RenderActiveIs
    <3>4. \A t \in Tools : RenderActive(rls)[t] = NoConfig <=> RenderPrimary(push.specs)[t] = NoConfig
      BY <2>1, <3>3, RenderPrimaryIs DEF rls
    <3>5. RenderActive(rls) \in [Tools -> Upstreams \cup {NoConfig}]
      BY <3>2, <3>3
    <3> QED
      BY <1>1, <1>3, <2>1, <3>1, <3>3, <3>4, <3>5 DEF rls
  <2> QED
    BY <2>3, <2>4
<1> QED
  BY <1>2, <1>3 DEF Push
LEMMA AgentInitInv == AgentInit => AgentInv
<1> SUFFICES ASSUME AgentInit PROVE AgentInv
  OBVIOUS
<1>1. Engine /\ Linked
  BY NoRules, AbsentIs DEF AgentInit, Engine, Linked, NoPush
<1>2. NoPush \in [armed : BOOLEAN, ok : BOOLEAN, primaries : [Tools -> Upstreams \cup {NoConfig}]]
  BY DEF NoPush
<1>3. slot = [t \in Tools |-> slot[t]] /\ \A t \in Tools : GoodSlot(slot[t])
  BY AbsentIs DEF AgentInit
<1>4. file \in [Tools -> Contents \cup {NoConfig}]
  BY DEF AgentInit
<1> QED
  BY <1>1, <1>2, <1>3, <1>4 DEF AgentInv, Shapes, AgentInit

(* The steps that leave the session without an engine.                      *)
LEMMA SessionMoves ==
  ASSUME AgentInv, Connect \/ Disconnect \/ Restart
  PROVE  AgentInv' /\ rules' = << >> /\ pushed' = NoPush
<1>1. rules' = << >> /\ pushed' = NoPush /\ session' \in {"up", "down"} /\ Engine'
  BY NoRules DEF Connect, Disconnect, Restart, Engine
<1>2. NoPush \in [armed : BOOLEAN, ok : BOOLEAN, primaries : [Tools -> Upstreams \cup {NoConfig}]]
      /\ ~NoPush.ok
  BY DEF NoPush
<1>3. CASE Connect \/ Disconnect
  BY <1>1, <1>2, <1>3 DEF AgentInv, Shapes, Linked, Connect, Disconnect
<1>4. CASE Restart
  <2>1. slot' = [t \in Tools |-> S!Absent] /\ UNCHANGED <<file, failing>> /\ applied_gen' = 0
    BY <1>4 DEF Restart
  <2>2. slot' = [t \in Tools |-> slot'[t]] /\ \A t \in Tools : GoodSlot(slot'[t]) /\ ~slot'[t].desired
    BY <2>1, AbsentIs
  <2> QED
    BY <1>1, <1>2, <2>1, <2>2 DEF AgentInv, Shapes, Linked
<1> QED
  BY <1>1, <1>3, <1>4

(* A pass of self-heal respawns a relay against its file, or leaves it.     *)
LEMMA HealIs ==
  ASSUME AgentInv, HeartbeatTick
  PROVE  /\ AgentInv' /\ UNCHANGED <<session, pushed, rules, file, applied_gen>>
         /\ \A t \in Tools :
              /\ slot'[t].desired = slot[t].desired
              /\ slot'[t] = slot[t] \/ (slot[t].desired
                                        /\ (slot'[t].child = "running" => slot'[t].config = file[t]))
<1>1. UNCHANGED <<session, pushed, rules, file, failing, applied_gen>> /\ slot' = S!Healed
  BY DEF HeartbeatTick, S!HealIfCrashed
<1>2. slot' = [t \in Tools |-> slot'[t]]
  BY <1>1 DEF S!Healed
<1>3. ASSUME NEW t \in Tools
      PROVE  slot'[t] = slot[t] \/ (slot[t].desired /\ slot'[t] = S!Spawned(t, file[t]))
  BY <1>1 DEF S!Healed, S!NeedsHeal
<1>4. ASSUME NEW t \in Tools
      PROVE  /\ GoodSlot(slot'[t]) /\ slot'[t].desired = slot[t].desired
             /\ slot'[t] = slot[t] \/ (slot[t].desired
                                       /\ (slot'[t].child = "running" => slot'[t].config = file[t]))
  <2>1. GoodSlot(slot[t])
    BY DEF AgentInv, Shapes
  <2>2. CASE slot'[t] = slot[t]
    BY <2>1, <2>2
  <2>3. CASE slot[t].desired /\ slot'[t] = S!Spawned(t, file[t])
    <3>1. file[t] \in Contents
      BY <2>3 DEF AgentInv, Shapes, Linked
    <3>2. GoodSlot(slot'[t]) /\ slot'[t].desired
          /\ (slot'[t].child = "running" => slot'[t].config = file[t])
      BY <2>3, <3>1, SpawnedIs
    <3>3. slot'[t].desired = TRUE /\ slot[t].desired = TRUE
      BY <2>1, <2>3, <3>2 DEF GoodSlot, S!Slot
    <3> QED
      BY <2>3, <3>2, <3>3
  <2> QED
    BY <1>3, <2>2, <2>3
<1>5. AgentInv'
  BY <1>1, <1>2, <1>4 DEF AgentInv, Engine, Shapes, Linked
<1> QED
  BY <1>1, <1>4, <1>5

(* A child that exits, and a change of what can be spawned. *)
LEMMA OutsideIs ==
  ASSUME AgentInv, SpawnabilityChanges \/ \E t \in Tools : ChildExits(t)
  PROVE  /\ AgentInv' /\ UNCHANGED <<session, pushed, rules, file, applied_gen>>
         /\ \A t \in Tools : /\ slot'[t].desired = slot[t].desired
                             /\ Running(t)' => slot'[t] = slot[t]
<1>1. CASE SpawnabilityChanges
  <2>1. UNCHANGED <<session, pushed, rules, slot, file, applied_gen>> /\ failing' \subseteq SpawnFaults
    BY <1>1 DEF SpawnabilityChanges, S!SpawnabilityChanges
  <2> QED
    BY <2>1 DEF AgentInv, Engine, Shapes, Linked
<1>2. ASSUME NEW t \in Tools, ChildExits(t)
      PROVE  /\ AgentInv' /\ UNCHANGED <<session, pushed, rules, file, applied_gen>>
             /\ \A u \in Tools : /\ slot'[u].desired = slot[u].desired
                                 /\ Running(u)' => slot'[u] = slot[u]
  <2>1. /\ UNCHANGED <<session, pushed, rules, file, failing, applied_gen>>
        /\ slot[t].child = "running" /\ slot' = [slot EXCEPT ![t].child = "exited"]
    BY <1>2 DEF ChildExits, S!ChildExits
  <2>2. GoodSlot(slot[t]) /\ DOMAIN slot = Tools
    BY DEF AgentInv, Shapes
  <2> DEFINE dead == [slot[t] EXCEPT !.child = "exited"]
  <2>3. slot' = [slot EXCEPT ![t] = dead]
    BY <2>1
  <2>4. dead \in S!Slot /\ dead.desired = slot[t].desired /\ dead.child = "exited"
        /\ dead.config = slot[t].config
    BY <2>2 DEF GoodSlot, S!Slot, S!ChildStates
  <2>5. slot[t].desired
    BY <2>1, <2>2 DEF GoodSlot, S!Absent
  <2> HIDE DEF dead
  <2>6. GoodSlot(dead)
    BY <2>1, <2>2, <2>4, <2>5 DEF GoodSlot
  <2>7. /\ slot' = [u \in Tools |-> slot'[u]] /\ slot'[t] = dead
        /\ \A u \in Tools \ {t} : slot'[u] = slot[u]
    BY <2>2, <2>3 DEF AgentInv, Shapes
  <2>8. \A u \in Tools : GoodSlot(slot'[u]) /\ slot'[u].desired = slot[u].desired
                         /\ (slot'[u].child = "running" => slot'[u] = slot[u])
    BY <2>4, <2>6, <2>7 DEF AgentInv, Shapes
  <2>9. AgentInv'
    BY <2>1, <2>7, <2>8 DEF AgentInv, Engine, Shapes, Linked
  <2> QED
    BY <2>1, <2>8, <2>9 DEF Running
<1> QED
  BY <1>1, <1>2

(* What the ConfigPush arm does. *)
LEMMA PushIs ==
  ASSUME AgentInv, NEW push \in Push, NEW fault, ReceivePush(push, fault)
  PROVE  /\ AgentInv' /\ session = "up" /\ rules' = RulesAfter(push)
         /\ pushed' = [armed |-> push.armed, ok |-> fault = "none",
                       primaries |-> RenderPrimary(push.specs)]
         /\ fault = "none" =>
              \A t \in Tools :
                IF RenderPrimary(push.specs)[t] = NoConfig THEN slot'[t] = S!Absent
                ELSE /\ file'[t] = SelectedConfigs(push, rules')[t]
                     /\ slot'[t] = S!Spawned(t, file'[t])
         /\ applied_gen' # applied_gen =>
              /\ fault = "none"
              /\ \A t \in Tools : RenderPrimary(push.specs)[t] # NoConfig => t \notin failing
<1> DEFINE configs == SelectedConfigs(push, rules')
           primaries == RenderPrimary(push.specs)
           wanted == {t \in Tools : configs[t] # NoConfig}
<1>1. /\ session = "up" /\ rules' = RulesAfter(push) /\ UNCHANGED <<session, failing>>
      /\ pushed' = [armed |-> push.armed, ok |-> fault = "none", primaries |-> primaries]
      /\ Write(configs, fault)
      /\ slot' = [t \in Tools |-> IF fault # "none" THEN slot[t]
                                  ELSE IF t \in wanted THEN S!Spawned(t, configs[t])
                                  ELSE S!Absent]
      /\ applied_gen' = GenAfter(push, fault, wanted)
  BY DEF ReceivePush
<1>2. /\ Engine'
      /\ configs \in [Tools -> Upstreams \cup {NoConfig}]
      /\ primaries \in [Tools -> Upstreams \cup {NoConfig}]
      /\ \A t \in Tools : configs[t] = NoConfig <=> primaries[t] = NoConfig
      /\ ~push.armed => rules' = << >>
  BY <1>1, SelectedIs DEF AgentInv
<1>3. \A t \in Tools : t \in wanted <=> primaries[t] # NoConfig
  BY <1>2
<1>4. applied_gen' \in Gens \cup {0}
      /\ (applied_gen' # applied_gen => fault = "none" /\ wanted \cap failing = {})
  BY <1>1 DEF GenAfter, Push, AgentInv, Shapes
<1> HIDE DEF configs, primaries, wanted
<1>5. /\ file' \in [Tools -> Contents \cup {NoConfig}]
      /\ \A t \in Tools :
           /\ file[t] # NoConfig => file'[t] # NoConfig
           /\ fault = "none" /\ configs[t] # NoConfig => file'[t] = configs[t]
  BY <1>1, <1>2, WriteIs DEF AgentInv, Shapes
<1>6. slot' = [t \in Tools |-> slot'[t]]
  BY <1>1
<1>7. ASSUME NEW t \in Tools
      PROVE  /\ GoodSlot(slot'[t])
             /\ slot'[t].desired => file'[t] # NoConfig
             /\ fault = "none" =>
                  IF primaries[t] = NoConfig THEN slot'[t] = S!Absent
                  ELSE file'[t] = configs[t] /\ slot'[t] = S!Spawned(t, file'[t])
  <2>1. CASE fault # "none"
    BY <1>1, <1>5, <2>1 DEF AgentInv, Shapes, Linked
  <2>2. CASE fault = "none" /\ primaries[t] = NoConfig
    BY <1>1, <1>3, <2>2, AbsentIs
  <2>3. CASE fault = "none" /\ primaries[t] # NoConfig
    <3>1. configs[t] \in Upstreams /\ configs[t] # NoConfig
      BY <1>2, <2>3
    <3>2. file'[t] = configs[t] /\ slot'[t] = S!Spawned(t, configs[t])
      BY <1>1, <1>3, <1>5, <2>3, <3>1
    <3>3. GoodSlot(S!Spawned(t, configs[t]))
      BY <3>1, SpawnedIs DEF Contents
    <3> QED
      BY <2>3, <3>1, <3>2, <3>3
  <2> QED
    BY <2>1, <2>2, <2>3
<1>8. Shapes'
  <2>1. pushed' \in [armed : BOOLEAN, ok : BOOLEAN, primaries : [Tools -> Upstreams \cup {NoConfig}]]
    BY <1>1, <1>2 DEF Push
  <2> QED
    BY <1>1, <1>4, <1>5, <1>6, <1>7, <2>1 DEF AgentInv, Shapes
<1>9. Linked'
  BY <1>1, <1>2, <1>7 DEF Linked
<1> QED
  BY <1>1, <1>2, <1>3, <1>4, <1>7, <1>8, <1>9 DEF AgentInv, configs, primaries

(* What the probe arm does: only the tools with a rule that switched are    *)
(* written and restarted.                                                   *)
LEMMA ProbeIs ==
  ASSUME AgentInv, NEW fault, ProbeTick(fault)
  PROVE  /\ AgentInv' /\ session' = session /\ UNCHANGED applied_gen
         /\ rules # << >> /\ DOMAIN rules' = DOMAIN rules
         /\ \A r \in DOMAIN rules : rules'[r].spec = rules[r].spec
         /\ pushed' = [pushed EXCEPT !.ok = @ /\ fault = "none"]
         /\ \A t \in Tools :
              /\ t \notin SwitchedTools => slot'[t] = slot[t] /\ file'[t] = file[t]
              /\ t \in SwitchedTools /\ fault = "none" =>
                   /\ file'[t] = RenderActive(rules')[t] /\ file'[t] \in Upstreams
                   /\ slot'[t] = S!Spawned(t, file'[t])
<1> DEFINE rendered == RenderActive(rules')
           switched == SwitchedTools
           configs == [t \in Tools |-> IF t \in switched THEN rendered[t] ELSE NoConfig]
<1>1. /\ session = "up" /\ E!ProbeAndDecide /\ UNCHANGED <<session, failing, applied_gen>>
      /\ pushed' = [pushed EXCEPT !.ok = @ /\ fault = "none"]
      /\ Write(configs, fault)
      /\ slot' = [t \in Tools |-> IF fault = "none" /\ t \in switched
                                  THEN S!Spawned(t, configs[t]) ELSE slot[t]]
  BY DEF ProbeTick
<1>2. /\ Engine' /\ DOMAIN rules' = DOMAIN rules
      /\ \A r \in DOMAIN rules : rules'[r].spec = rules[r].spec
  BY <1>1, ProbeKeepsEngine DEF AgentInv
<1>3. rules # << >>
  BY <1>1 DEF E!ProbeAndDecide, E!IsActive
<1>4. ASSUME NEW t \in Tools, t \in switched PROVE rendered[t] \in Upstreams
  <2>1. PICK r \in DOMAIN rules : rules[r].spec.tool = t
    BY <1>4 DEF SwitchedTools
  <2> DEFINE rls == rules'
  <2>2. EngineOf(rls) /\ r \in DOMAIN rls /\ rls[r].spec.tool = t
    BY <1>2, <2>1 DEF Engine
  <2> HIDE DEF rls
  <2>3. RenderActive(rls)[t] \in Upstreams
    BY <2>2, RenderActiveIs
  <2> QED
    BY <2>3 DEF rls
<1>5. configs \in [Tools -> Upstreams \cup {NoConfig}]
      /\ \A t \in Tools : configs[t] = IF t \in switched THEN rendered[t] ELSE NoConfig
  BY <1>4
<1> HIDE DEF configs, rendered, switched
<1>6. /\ file' \in [Tools -> Contents \cup {NoConfig}]
      /\ \A t \in Tools :
           /\ file[t] # NoConfig => file'[t] # NoConfig
           /\ configs[t] = NoConfig => file'[t] = file[t]
           /\ fault = "none" /\ configs[t] # NoConfig => file'[t] = configs[t]
  BY <1>1, <1>5, WriteIs DEF AgentInv, Shapes
<1>7. slot' = [t \in Tools |-> slot'[t]]
  BY <1>1
<1>8. ASSUME NEW t \in Tools
      PROVE  /\ GoodSlot(slot'[t])
             /\ slot'[t].desired => file'[t] # NoConfig
             /\ t \notin switched => slot'[t] = slot[t] /\ file'[t] = file[t]
             /\ t \in switched /\ fault = "none" =>
                  /\ file'[t] = rendered[t] /\ file'[t] \in Upstreams
                  /\ slot'[t] = S!Spawned(t, file'[t])
  <2>1. CASE ~(t \in switched /\ fault = "none")
    BY <1>1, <1>5, <1>6, <2>1 DEF AgentInv, Shapes, Linked
  <2>2. CASE t \in switched /\ fault = "none"
    <3>1. configs[t] = rendered[t] /\ rendered[t] \in Upstreams /\ configs[t] # NoConfig
      BY <1>4, <1>5, <2>2, ContentsAssumption
    <3>2. file'[t] = rendered[t] /\ slot'[t] = S!Spawned(t, rendered[t])
      BY <1>1, <1>6, <2>2, <3>1
    <3>3. GoodSlot(S!Spawned(t, rendered[t]))
      BY <3>1, SpawnedIs DEF Contents
    <3> QED
      BY <2>2, <3>1, <3>2, <3>3
  <2> QED
    BY <2>1, <2>2
<1>9. /\ pushed' \in [armed : BOOLEAN, ok : BOOLEAN, primaries : [Tools -> Upstreams \cup {NoConfig}]]
      /\ pushed'.armed = pushed.armed
  BY <1>1 DEF AgentInv, Shapes
<1>10. Shapes'
  BY <1>1, <1>6, <1>7, <1>8, <1>9 DEF AgentInv, Shapes
<1>11. Linked'
  BY <1>1, <1>3, <1>8, <1>9 DEF AgentInv, Linked
<1> QED
  BY <1>1, <1>2, <1>3, <1>8, <1>10, <1>11 DEF AgentInv, rendered, switched

LEMMA AgentInvStep == AgentInv /\ [AgentNext]_vars => AgentInv'
<1> SUFFICES ASSUME AgentInv, [AgentNext]_vars PROVE AgentInv'
  OBVIOUS
<1>1. CASE UNCHANGED vars
  BY <1>1 DEF vars, AgentInv, Engine, Shapes, Linked
<1> QED
  BY <1>1, SessionMoves, HealIs, OutsideIs, PushIs, ProbeIs DEF AgentNext
-----------------------------------------------------------------------------
(* Types *)

LEMMA AgentInvAlways == AgentSpec => []AgentInv
<1> QED
  BY AgentInitInv, AgentInvStep, PTL DEF AgentSpec

(* The engine keeps its types, the files hold configs, and a slot of a tool *)
(* that is not desired is empty, over any sessions, restarts, pushes,       *)
(* faults and crashes.                                                      *)
THEOREM AgentTyped == AgentSpec => []TypeOK
<1>1. AgentInv => TypeOK
  <2> SUFFICES ASSUME AgentInv PROVE TypeOK
    OBVIOUS
  <2>1. E!TypeOK
    <3>1. DOMAIN rules \subseteq RuleIds /\ \A r \in DOMAIN rules : FP!WellFormed(rules[r])
      BY DEF AgentInv, Engine, EngineOf, FP!RuleInv
    <3>2. E!RuleState = FP!RuleState
      BY DEF E!RuleState, FP!RuleState, E!RuleSpec, FP!RuleSpec, E!EndpointState, FP!EndpointState
    <3> QED
      BY <3>1, <3>2 DEF E!TypeOK, E!WellFormed, FP!WellFormed
  <2>2. S!TypeOK
    BY DEF AgentInv, Shapes, GoodSlot, S!TypeOK, Contents
  <2> QED
    BY <2>1, <2>2 DEF AgentInv, Shapes, TypeOK
<1> QED
  BY <1>1, AgentInvAlways, PTL

-----------------------------------------------------------------------------
(* ReportedIsServed *)

(* What ReportedIsServed says of one tool, its slot and its file.           *)
ServedBy(rls, s, contents, t) ==
  /\ \A r \in DOMAIN rls : rls[r].spec.tool = t => s.desired
  /\ ServesIn(rls, contents, t)
  /\ s.child = "running" => ServesIn(rls, s.config, t)

LEMMA ServedIs ==
  ASSUME AgentInv
  PROVE  ReportedIsServed
           <=> (session = "up" /\ pushed.ok => \A t \in Tools : ServedBy(rules, slot[t], file[t], t))
<1>1. \A r \in DOMAIN rules : rules[r].spec.tool \in Tools
  BY ActiveKnown DEF AgentInv, Engine
<1>2. \A config, t : Serves(config, t) <=> ServesIn(rules, config, t)
  BY DEF Serves, ServesIn
<1> QED
  BY <1>1, <1>2 DEF ReportedIsServed, ServedBy, Running

(* A tool that was started against a file that serves its rules serves      *)
(* them, and so does a tool without a rule, whatever it runs.               *)
LEMMA StartedServes ==
  ASSUME NEW rls, NEW t \in Tools, NEW contents \in Contents, ServesIn(rls, contents, t)
  PROVE  ServedBy(rls, S!Spawned(t, contents), contents, t)
BY SpawnedIs DEF ServedBy

LEMMA NothingToServe ==
  ASSUME NEW rls, NEW t \in Tools, ServesIn(rls, NoConfig, t), NEW s, NEW contents
  PROVE  ServedBy(rls, s, contents, t)
BY ContentsAssumption DEF ServesIn, ServedBy

(* A push taken without a fault leaves every tool serving the rules pushed. *)
LEMMA PushServes ==
  ASSUME AgentInv, NEW push \in Push, ReceivePush(push, "none"), NEW t \in Tools
  PROVE  ServedBy(rules', slot'[t], file'[t], t)
<1> DEFINE rls == rules'
           config == SelectedConfigs(push, rls)[t]
           primary == RenderPrimary(push.specs)[t]
<1>1. IF primary = NoConfig THEN slot'[t] = S!Absent
      ELSE file'[t] = config /\ slot'[t] = S!Spawned(t, file'[t])
  BY PushIs
<1>2. /\ ServesIn(rls, config, t)
      /\ config = NoConfig <=> primary = NoConfig
      /\ config \in Upstreams \cup {NoConfig}
  BY PushIs, SelectedIs DEF AgentInv
<1> HIDE DEF rls, config, primary
<1>3. ServedBy(rls, slot'[t], file'[t], t)
  <2>1. CASE config = NoConfig
    BY <1>2, <2>1, NothingToServe
  <2>2. CASE config # NoConfig
    BY <1>1, <1>2, <2>2, StartedServes DEF Contents
  <2> QED
    BY <2>1, <2>2
<1> QED
  BY <1>3 DEF rls

(* So does a probe cycle, for the tools it switched and the others.         *)
LEMMA ProbeServes ==
  ASSUME AgentInv, ProbeTick("none"), NEW t \in Tools, ServedBy(rules, slot[t], file[t], t)
  PROVE  ServedBy(rules', slot'[t], file'[t], t)
<1>1. CASE t \in SwitchedTools
  <2> DEFINE rls == rules'
  <2>1. /\ file'[t] = RenderActive(rls)[t] /\ file'[t] \in Upstreams
        /\ slot'[t] = S!Spawned(t, file'[t])
    BY <1>1, ProbeIs
  <2>2. EngineOf(rls)
    BY ProbeIs DEF AgentInv, Engine
  <2> HIDE DEF rls
  <2>3. ServesIn(rls, file'[t], t)
    BY <2>1, <2>2, RenderActiveIs
  <2>4. ServedBy(rls, slot'[t], file'[t], t)
    BY <2>1, <2>3, StartedServes DEF Contents
  <2> QED
    BY <2>4 DEF rls
<1>2. CASE t \notin SwitchedTools
  <2>1. slot'[t] = slot[t] /\ file'[t] = file[t] /\ DOMAIN rules' = DOMAIN rules
        /\ \A r \in DOMAIN rules : rules'[r].spec = rules[r].spec
    BY <1>2, ProbeIs
  <2>2. \A r \in DOMAIN rules : rules[r].spec.tool = t => rules'[r].active = rules[r].active
    BY <1>2 DEF SwitchedTools
  <2>3. \A r \in DOMAIN rules :
          rules[r].spec.tool = t => E!ActiveEndpoint(rules'[r]) = E!ActiveEndpoint(rules[r])
    BY <2>1, <2>2 DEF E!ActiveEndpoint
  <2> QED
    BY <2>1, <2>3 DEF ServedBy, ServesIn
<1> QED
  BY <1>1, <1>2

(* While every write of the session has succeeded, what the agent reports   *)
(* as its active backends is what its files say and its relays run, over    *)
(* any pushes, switches, crashes, self-heals and restarts.                  *)
THEOREM ReportsAreServed == AgentSpec => []ReportedIsServed
<1> DEFINE Inv == AgentInv /\ ReportedIsServed
<1>1. AgentInit => Inv
  BY AgentInitInv DEF AgentInit, ReportedIsServed
<1>2. Inv /\ [AgentNext]_vars => Inv'
  <2> SUFFICES ASSUME Inv, [AgentNext]_vars PROVE AgentInv' /\ ReportedIsServed'
    OBVIOUS
  <2>0. AgentInv'
    BY AgentInvStep
  <2> SUFFICES ASSUME session' = "up", pushed'.ok, NEW t \in Tools
               PROVE  ServedBy(rules', slot'[t], file'[t], t)
    <3> DEFINE rls == rules'
    <3>1. EngineOf(rls)
      BY <2>0 DEF AgentInv, Engine
    <3> HIDE DEF rls
    <3>2. \A r \in DOMAIN rls : rls[r].spec.tool \in Tools
      BY <3>1, ActiveKnown
    <3> QED
      BY <2>0, <3>2 DEF rls, ReportedIsServed, ServedBy, Serves, ServesIn, Running
  <2>1. session = "up" /\ pushed.ok => ServedBy(rules, slot[t], file[t], t)
    BY ServedIs
  <2>2. CASE UNCHANGED vars
    BY <2>1, <2>2 DEF vars
  <2>3. CASE Connect \/ Disconnect \/ Restart
    <3>1. ~pushed'.ok
      BY <2>3, SessionMoves DEF NoPush
    <3> QED
      BY <3>1
  <2>4. CASE HeartbeatTick
    <3>1. /\ session = "up" /\ pushed.ok /\ UNCHANGED <<rules, file>>
          /\ slot'[t].desired = slot[t].desired
          /\ slot'[t] = slot[t] \/ (slot'[t].child = "running" => slot'[t].config = file[t])
      BY <2>4, HealIs
    <3> QED
      BY <2>1, <3>1 DEF ServedBy
  <2>5. CASE SpawnabilityChanges \/ \E u \in Tools : ChildExits(u)
    <3>1. /\ session = "up" /\ pushed.ok /\ UNCHANGED <<rules, file>>
          /\ slot'[t].desired = slot[t].desired
          /\ slot'[t].child = "running" => slot'[t] = slot[t]
      BY <2>5, OutsideIs DEF Running
    <3> QED
      BY <2>1, <3>1 DEF ServedBy
  <2>6. ASSUME NEW fault, ProbeTick(fault) PROVE ServedBy(rules', slot'[t], file'[t], t)
    <3>1. session = "up" /\ pushed.ok /\ fault = "none"
      BY <2>6, ProbeIs DEF AgentInv, Shapes
    <3> QED
      BY <2>1, <2>6, <3>1, ProbeServes
  <2>7. ASSUME NEW fault, NEW push \in Push, ReceivePush(push, fault)
        PROVE  ServedBy(rules', slot'[t], file'[t], t)
    <3>1. fault = "none"
      <4>1. pushed' = [armed |-> push.armed, ok |-> fault = "none",
                       primaries |-> RenderPrimary(push.specs)]
        BY <2>7, PushIs
      <4> QED
        BY <4>1
    <3> QED
      BY <2>7, <3>1, PushServes
  <2> QED
    BY <2>2, <2>3, <2>4, <2>5, <2>6, <2>7 DEF AgentNext
<1> QED
  BY <1>1, <1>2, PTL DEF AgentSpec

-----------------------------------------------------------------------------
(* KillSwitchHolds *)

(* The kill switch holds over self-heal because the files hold the          *)
(* primaries too.                                                           *)
Killed ==
  pushed.ok /\ ~pushed.armed =>
    \A t \in Tools : pushed.primaries[t] # NoConfig => file[t] = pushed.primaries[t]

LEMMA KillStep ==
  ASSUME AgentInv, Killed, KillSwitchHolds, [AgentNext]_vars
  PROVE  Killed' /\ KillSwitchHolds'
<1>0. AgentInv'
  BY AgentInvStep
<1> SUFFICES ASSUME pushed'.ok, ~pushed'.armed, NEW t \in Tools
             PROVE  /\ pushed'.primaries[t] # NoConfig => file'[t] = pushed'.primaries[t]
                    /\ slot'[t].child = "running" => slot'[t].config = pushed'.primaries[t]
                    /\ slot'[t].desired = (pushed'.primaries[t] # NoConfig)
  BY DEF Killed, KillSwitchHolds, Running
<1>1. pushed.ok /\ ~pushed.armed =>
        /\ pushed.primaries[t] # NoConfig => file[t] = pushed.primaries[t]
        /\ slot[t].child = "running" => slot[t].config = pushed.primaries[t]
        /\ slot[t].desired = (pushed.primaries[t] # NoConfig)
  BY DEF Killed, KillSwitchHolds, Running
<1>2. CASE UNCHANGED vars
  BY <1>1, <1>2 DEF vars
<1>3. CASE Connect \/ Disconnect \/ Restart
  <2>1. ~pushed'.ok
    BY <1>3, SessionMoves DEF NoPush
  <2> QED
    BY <2>1
<1>4. CASE HeartbeatTick
  <2>1. /\ UNCHANGED <<pushed, file>> /\ slot'[t].desired = slot[t].desired
        /\ slot'[t] = slot[t]
           \/ (slot[t].desired /\ (slot'[t].child = "running" => slot'[t].config = file[t]))
    BY <1>4, HealIs
  <2> QED
    BY <1>1, <2>1
<1>5. CASE SpawnabilityChanges \/ \E u \in Tools : ChildExits(u)
  <2>1. /\ UNCHANGED <<pushed, file>> /\ slot'[t].desired = slot[t].desired
        /\ slot'[t].child = "running" => slot'[t] = slot[t]
    BY <1>5, OutsideIs DEF Running
  <2> QED
    BY <1>1, <2>1
<1>6. ASSUME NEW fault, ProbeTick(fault) PROVE FALSE
  <2>1. rules # << >> /\ pushed'.armed = pushed.armed
    BY <1>6, ProbeIs DEF AgentInv, Shapes
  <2> QED
    BY <2>1 DEF AgentInv, Linked
<1>7. ASSUME NEW fault, NEW push \in Push, ReceivePush(push, fault)
      PROVE  /\ pushed'.primaries[t] # NoConfig => file'[t] = pushed'.primaries[t]
             /\ slot'[t].child = "running" => slot'[t].config = pushed'.primaries[t]
             /\ slot'[t].desired = (pushed'.primaries[t] # NoConfig)
  <2> DEFINE primaries == RenderPrimary(push.specs)
             configs == SelectedConfigs(push, rules')
  <2>1. pushed' = [armed |-> push.armed, ok |-> fault = "none", primaries |-> primaries]
        /\ rules' = RulesAfter(push)
    BY <1>7, PushIs
  <2>2. fault = "none" /\ ~push.armed /\ pushed'.primaries = primaries
    BY <2>1
  <2>3. configs = primaries /\ primaries[t] \in Upstreams \cup {NoConfig}
    BY <2>1, <2>2, SelectedIs DEF AgentInv
  <2>4. IF primaries[t] = NoConfig THEN slot'[t] = S!Absent
        ELSE file'[t] = configs[t] /\ slot'[t] = S!Spawned(t, file'[t])
    BY <1>7, <2>2, PushIs
  <2> HIDE DEF primaries, configs
  <2>5. CASE primaries[t] = NoConfig
    <3>1. slot'[t] = S!Absent
      BY <2>4, <2>5
    <3>2. slot'[t].desired = FALSE /\ slot'[t].child # "running"
      BY <3>1 DEF S!Absent
    <3>3. pushed'.primaries[t] = NoConfig
      BY <2>2, <2>5
    <3> QED
      BY <3>2, <3>3
  <2>6. CASE primaries[t] # NoConfig
    <3>1. slot'[t] = S!Spawned(t, file'[t]) /\ file'[t] = primaries[t] /\ file'[t] \in Contents
      BY <2>3, <2>4, <2>6 DEF Contents
    <3>2. slot'[t].desired /\ (slot'[t].child = "running" => slot'[t].config = file'[t])
      BY <3>1, SpawnedIs
    <3>3. slot'[t].desired = TRUE
      BY <1>0, <3>2 DEF AgentInv, Shapes, GoodSlot, S!Slot
    <3> QED
      BY <2>2, <2>6, <3>1, <3>2, <3>3
  <2> QED
    BY <2>5, <2>6
<1> QED
  BY <1>2, <1>3, <1>4, <1>5, <1>6, <1>7 DEF AgentNext

(* After an unarmed push every relay that runs runs the primary, whatever   *)
(* heals, crashes or ends, until the next push.                             *)
THEOREM KillSwitchIsFinal == AgentSpec => []KillSwitchHolds
<1>1. AgentInit => Killed /\ KillSwitchHolds
  BY DEF AgentInit, Killed, KillSwitchHolds, NoPush
<1>2. AgentInv /\ Killed /\ KillSwitchHolds /\ [AgentNext]_vars => Killed' /\ KillSwitchHolds'
  BY KillStep
<1> QED
  BY <1>1, <1>2, AgentInvAlways, PTL DEF AgentSpec

-----------------------------------------------------------------------------
(* Action properties *)

(* A new generation counts as applied only in a step that leaves every      *)
(* desired relay running what its file says, over any faults and failing    *)
(* spawns.                                                                  *)
THEOREM AppliedMeansRunning == AgentSpec => AppliedOnlyWhenRunning
<1> DEFINE Applied ==
      /\ \A t \in Tools :
           IF pushed'.primaries[t] = NoConfig THEN slot'[t] = S!Absent
           ELSE slot'[t].child = "running" /\ slot'[t].config = file'[t]
      /\ S!ForwardingUp' \/ \A t \in Tools : pushed'.primaries[t] = NoConfig
<1>1. AgentInv /\ [AgentNext]_vars => [applied_gen' \notin {applied_gen, 0} => Applied]_vars
  <2> SUFFICES ASSUME AgentInv, AgentNext, applied_gen' \notin {applied_gen, 0} PROVE Applied
    BY DEF vars
  <2>1. PICK push \in Push, fault \in Faults : ReceivePush(push, fault)
    <3>1. ~(Connect \/ Disconnect \/ Restart)
      BY DEF Connect, Disconnect, Restart
    <3>2. ~HeartbeatTick /\ ~SpawnabilityChanges /\ ~\E t \in Tools : ChildExits(t)
      BY HealIs, OutsideIs
    <3>3. \A fault : ~ProbeTick(fault)
      BY DEF ProbeTick
    <3> QED
      BY <3>1, <3>2, <3>3 DEF AgentNext
  <2> DEFINE primaries == RenderPrimary(push.specs)
             configs == SelectedConfigs(push, rules')
  <2>2. /\ AgentInv' /\ rules' = RulesAfter(push)
        /\ pushed' = [armed |-> push.armed, ok |-> fault = "none", primaries |-> primaries]
    BY <2>1, PushIs
  <2>3. /\ fault = "none"
        /\ \A t \in Tools : primaries[t] # NoConfig => t \notin failing
    BY <2>1, PushIs
  <2>4. \A t \in Tools : IF primaries[t] = NoConfig THEN slot'[t] = S!Absent
                         ELSE file'[t] = configs[t] /\ slot'[t] = S!Spawned(t, file'[t])
    BY <2>1, <2>3, PushIs
  <2>5. pushed'.primaries = primaries
    BY <2>2
  <2>6. \A t \in Tools : primaries[t] # NoConfig => configs[t] \in Contents
    <3>1. /\ configs \in [Tools -> Upstreams \cup {NoConfig}]
          /\ \A t \in Tools : configs[t] = NoConfig <=> primaries[t] = NoConfig
      BY <2>2, SelectedIs DEF AgentInv
    <3> QED
      BY <3>1 DEF Contents
  <2> HIDE DEF primaries, configs
  <2>7. ASSUME NEW t \in Tools, primaries[t] # NoConfig
        PROVE  /\ slot'[t].child = "running" /\ slot'[t].config = file'[t] /\ slot'[t].desired
    <3>1. slot'[t] = S!Spawned(t, file'[t]) /\ file'[t] \in Contents /\ t \notin failing
      BY <2>3, <2>4, <2>6, <2>7
    <3> QED
      BY <3>1, SpawnedIs
  <2>8. S!ForwardingUp' \/ \A t \in Tools : primaries[t] = NoConfig
    <3>1. \A t \in Tools : slot'[t].desired => primaries[t] # NoConfig
      BY <2>4, AbsentIs
    <3> QED
      BY <2>7, <3>1 DEF S!ForwardingUp, S!Desired
  <2> QED
    BY <2>4, <2>5, <2>7, <2>8
<1> QED
  BY <1>1, AgentInvAlways, PTL DEF AgentSpec, AppliedOnlyWhenRunning

(* A push that names the rules the engine has changes nothing in it.        *)
LEMMA SameSpecsSameRules ==
  ASSUME AgentInv, NEW push \in Push, rules' = RulesAfter(push), DOMAIN rules' = DOMAIN rules,
         \A r \in DOMAIN rules : rules'[r].spec = rules[r].spec
  PROVE  rules' = rules
<1>1. rules = [r \in DOMAIN rules |-> rules[r]]
  BY DEF AgentInv, Engine, EngineOf
<1>2. CASE ~push.armed
  <2>1. rules' = << >>
    BY <1>2 DEF RulesAfter
  <2> QED
    BY <1>1, <2>1
<1>3. CASE push.armed
  <2>1. rules' = E!AdoptRules(push.specs)
    BY <1>3 DEF RulesAfter
  <2>2. DOMAIN push.specs = DOMAIN rules
        /\ \A r \in DOMAIN rules : push.specs[r] = rules[r].spec
    BY <2>1, AdoptKeepsEngine DEF AgentInv
  <2>3. ASSUME NEW r \in DOMAIN rules PROVE rules'[r] = rules[r]
    <3>1. rules'[r] = [rules[r] EXCEPT !.spec = rules[r].spec]
      BY <2>1, <2>2 DEF E!AdoptRules
    <3>2. rules[r] \in FP!RuleState
      BY ActiveKnown DEF AgentInv, Engine
    <3> QED
      BY <3>1, <3>2 DEF FP!RuleState
  <2>4. rules' = [r \in DOMAIN rules |-> rules'[r]]
    BY <2>1, <2>2 DEF E!AdoptRules
  <2> QED
    BY <1>1, <2>3, <2>4
<1> QED
  BY <1>2, <1>3

(* Whatever the rules, the faults and the state of the relays, a switch     *)
(* touches the slot and the file of the tools it is about and of no other.  *)
THEOREM SwitchesStayLocal == AgentSpec => SwitchBouncesOnlyItsTool
<1> DEFINE Local ==
      \A t \in Tools :
        \/ slot'[t] = slot[t] /\ file'[t] = file[t]
        \/ \E r \in DOMAIN rules : rules[r].spec.tool = t /\ rules'[r].active # rules[r].active
<1>1. AgentInv /\ [AgentNext]_vars =>
        [/\ rules' # rules /\ DOMAIN rules' = DOMAIN rules
         /\ \A r \in DOMAIN rules : rules'[r].spec = rules[r].spec
         => Local]_vars
  <2> SUFFICES ASSUME AgentInv, AgentNext, rules' # rules, DOMAIN rules' = DOMAIN rules,
                      \A r \in DOMAIN rules : rules'[r].spec = rules[r].spec
               PROVE  Local
    BY DEF vars
  <2>1. rules' # << >>
    BY DEF AgentInv, Engine, EngineOf
  <2>2. PICK fault \in Faults : ProbeTick(fault)
    BY <2>1, SessionMoves, HealIs, OutsideIs, PushIs, SameSpecsSameRules DEF AgentNext
  <2>3. \A t \in Tools : t \notin SwitchedTools => slot'[t] = slot[t] /\ file'[t] = file[t]
    BY <2>2, ProbeIs
  <2>4. \A t \in SwitchedTools :
          \E r \in DOMAIN rules : rules[r].spec.tool = t /\ rules'[r].active # rules[r].active
    BY DEF SwitchedTools
  <2> QED
    BY <2>3, <2>4
<1> QED
  BY <1>1, AgentInvAlways, PTL DEF AgentSpec, SwitchBouncesOnlyItsTool
-----------------------------------------------------------------------------
(* The engine inside the agent *)

(* A session that begins or ends is, to the engine, a push of no rules.     *)
LEMMA EmptyPush == ASSUME rules' = << >> PROVE E!SetRules
<1>1. << >> \in [{} -> E!RuleSpec] /\ DOMAIN << >> = {} /\ {} \in SUBSET RuleIds
  OBVIOUS
<1>2. E!AdoptRules(<< >>) = << >>
  BY DEF E!AdoptRules
<1> QED
  BY <1>1, <1>2 DEF E!SetRules

(* The agent implements the engine's specification: whatever sessions,      *)
(* restarts, faults and crashes do around it, it is only ever moved by      *)
(* pushes and completed probe cycles.                                       *)
THEOREM AgentRunsTheEngine == AgentSpec => E!Spec
<1>1. AgentInit => E!Init
  BY DEF AgentInit, E!Init
<1>2. AgentInv /\ [AgentNext]_vars => [E!Next]_rules
  <2> SUFFICES ASSUME AgentInv, [AgentNext]_vars PROVE rules' = rules \/ E!SetRules \/ E!ProbeAndDecide
    BY DEF E!Next
  <2>1. CASE UNCHANGED vars
    BY <2>1 DEF vars
  <2>2. CASE Connect \/ Disconnect \/ Restart
    BY <2>2, SessionMoves, EmptyPush
  <2>3. ASSUME NEW push \in Push, NEW fault, ReceivePush(push, fault)
        PROVE  E!SetRules
    <3>1. rules' = RulesAfter(push)
      BY <2>3 DEF ReceivePush
    <3>2. CASE ~push.armed
      BY <3>1, <3>2, EmptyPush DEF RulesAfter
    <3>3. CASE push.armed
      <4>1. push.specs \in [DOMAIN push.specs -> E!RuleSpec] /\ DOMAIN push.specs \in SUBSET RuleIds
        BY PushedSpecs DEF E!RuleSpec, FP!RuleSpec
      <4>2. rules' = E!AdoptRules(push.specs)
        BY <3>1, <3>3 DEF RulesAfter
      <4> DEFINE R == DOMAIN push.specs
                 specs == push.specs
      <4> HIDE DEF R, specs
      <4>3. R \in SUBSET RuleIds /\ specs \in [R -> E!RuleSpec] /\ rules' = E!AdoptRules(specs)
        BY <4>1, <4>2 DEF R, specs
      <4> QED
        BY <4>3 DEF E!SetRules
    <3> QED
      BY <3>2, <3>3
  <2>4. ASSUME NEW fault, ProbeTick(fault) PROVE E!ProbeAndDecide
    BY <2>4 DEF ProbeTick
  <2> QED
    BY <2>1, <2>2, <2>3, <2>4, HealIs, OutsideIs DEF AgentNext
<1> QED
  BY <1>1, <1>2, AgentInvAlways, PTL DEF AgentSpec, E!Spec

(* So the engine's own guarantees hold in the whole agent: no rule is left  *)
(* on a replica that is down while another is up, classes agree with their  *)
(* streaks, and every switch has its reason.                                *)
THEOREM AgentNeverPinned ==
  AgentSpec => /\ [](E!ActiveHealthy /\ E!HysteresisConsistent)
               /\ E!SwitchesJustified
<1> DEFINE Justified ==
      \A r \in DOMAIN rules \cap DOMAIN rules' :
        rules[r].spec.backends = rules'[r].spec.backends
          => E!SwitchJustified(rules[r], rules'[r])
<1>1. AgentInv => E!ActiveHealthy /\ E!HysteresisConsistent
  BY EngineBounds
     DEF AgentInv, Engine, EngineOf, FP!RuleInv, E!ActiveHealthy, E!HysteresisConsistent,
         E!ServedByHealthy, FP!ServedByHealthy, E!UpSet, FP!UpSet, E!Consistent, FP!Consistent
<1>2. AgentInv /\ [E!Next]_rules => [Justified]_rules
  <2> SUFFICES ASSUME AgentInv, E!Next PROVE Justified
    OBVIOUS
  <2>1. FP!IInv
    BY DEF AgentInv, Engine, EngineOf, FP!IInv
  <2>2. FP!SetRules \/ FP!ProbeAndDecide
    BY DEF E!Next, E!SetRules, FP!SetRules, E!RuleSpec, FP!RuleSpec,
         E!AdoptRules, FP!AdoptRules, E!NewRule, FP!NewRule, E!NewEndpoint, FP!NewEndpoint,
         E!ProbeAndDecide, FP!ProbeAndDecide, E!IsActive, FP!IsActive, E!Replicas, FP!Replicas,
         E!FoldProbes, FP!FoldProbes, E!ProbeRule, FP!ProbeRule, E!Reselect, FP!Reselect,
         E!Observed, FP!Observed, E!Observe, FP!Observe, E!Selected, FP!Selected,
         E!UpSet, FP!UpSet, E!BestUp, FP!BestUp, E!SaturatingInc, FP!SaturatingInc,
         E!MaxFails, FP!MaxFails, E!RecoveryChecks, FP!RecoveryChecks,
         E!DwellTicks, FP!DwellTicks, E!ProbeInterval, FP!ProbeInterval,
         E!AtLeastOne, FP!AtLeastOne
  <2>3. CASE FP!SetRules
    BY <2>1, <2>3, FP!SetRulesInv, EngineAssumption, EngineBounds DEF E!SwitchJustified
  <2>4. CASE FP!ProbeAndDecide
    <3>1. \A r \in DOMAIN rules : FP!SwitchJustified(rules[r], rules'[r])
      BY <2>1, <2>4, FP!ProbeAndDecideInv, EngineAssumption, EngineBounds
    <3> QED
      BY <3>1, EngineBounds DEF E!SwitchJustified, FP!SwitchJustified, E!UpSet, FP!UpSet
  <2> QED
    BY <2>2, <2>3, <2>4
<1> QED
  BY <1>1, <1>2, AgentRunsTheEngine, AgentInvAlways, PTL DEF E!Spec, E!SwitchesJustified
============================================================================
