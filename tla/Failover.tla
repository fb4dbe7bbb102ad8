------------------------------ MODULE Failover ------------------------------
(***************************************************************************)
(* The agent's failover engine (crates/agent/src/failover.rs): one state    *)
(* machine per forwarding rule, fed by the probe cycle, that selects the    *)
(* active replica of the rule's ordered backend list.                       *)
(*                                                                          *)
(* The engine is owned by one session task, so its two entry points never   *)
(* overlap: adopting the rules of a ConfigPush (set_rules) and folding the  *)
(* outcome of a probe cycle (phase 2 of probe_and_decide, which has no      *)
(* await).  Phase 1 only reads; a cycle cancelled in phase 1 is a stutter.  *)
(***************************************************************************)
EXTENDS Integers, Sequences

CONSTANTS
  RuleIds,                    \* rule identifiers the panel may push
  Tools,                      \* relay programs a rule may be served by
  Backends,                   \* backend endpoints (host:port)
  BackendLists,               \* ordered replica lists a RuleSpec may carry
  failover_max_fails,         \* the tunables as HelloOk carries them
  failover_recovery_checks,
  probe_interval_secs,
  min_dwell_secs,
  U32Max,                     \* where the streak counters saturate
  U64Max                      \* where ticks_since_switch saturates

AtLeastOne(n) == IF n = 0 THEN 1 ELSE n

(* FailoverTunables::from_hello_ok floors every tunable but the dwell.      *)
MaxFails       == AtLeastOne(failover_max_fails)
RecoveryChecks == AtLeastOne(failover_recovery_checks)
ProbeInterval  == AtLeastOne(probe_interval_secs)

(* The dwell window in probe cycles, rounded up.                            *)
DwellTicks == (min_dwell_secs + ProbeInterval - 1) \div ProbeInterval

ASSUME ListsAssumption == BackendLists \subseteq Seq(Backends)

ASSUME TunablesAssumption ==
  /\ failover_max_fails       \in Nat
  /\ failover_recovery_checks \in Nat
  /\ probe_interval_secs      \in Nat
  /\ min_dwell_secs           \in Nat

(* The thresholds are u32 and the dwell is a u32 number of seconds, so all  *)
(* three are within reach of their saturating counters.                     *)
ASSUME WidthAssumption ==
  /\ U32Max \in Nat /\ MaxFails <= U32Max /\ RecoveryChecks <= U32Max
  /\ U64Max \in Nat /\ DwellTicks <= U64Max \div 2

VARIABLE rules      \* the engine: rule id -> RuleState, for the pushed rules

-----------------------------------------------------------------------------
(* Data *)

RuleSpec == [backends : BackendLists, tool : Tools]

EndpointState == [up : BOOLEAN, fails : 0..U32Max, successes : 0..U32Max]

(* active_idx = None is written 0; index 0 of the code is 1 here.           *)
RuleState == [spec : RuleSpec, endpoints : Seq(EndpointState),
              active : Nat, ticks : 0..U64Max]

(* Optimistic: a freshly pushed backend starts up.                          *)
NewEndpoint == [up |-> TRUE, fails |-> 0, successes |-> 0]

NewRule(spec) ==
  [spec      |-> spec,
   endpoints |-> [i \in 1..Len(spec.backends) |-> NewEndpoint],
   active    |-> IF spec.backends = <<>> THEN 0 ELSE 1,
   ticks     |-> U64Max \div 2]

SaturatingInc(n, max) == IF n = max THEN n ELSE n + 1

-----------------------------------------------------------------------------
(* Hysteresis and selection *)

(* Mutant of Observe: a result leaves the opposite streak alone.            *)
ObserveKeepingStreak(e, reachable) ==
  LET f == SaturatingInc(e.fails, U32Max)
      s == SaturatingInc(e.successes, U32Max)
  IN  IF reachable
      THEN [e EXCEPT !.up = @ \/ s >= RecoveryChecks, !.successes = s]
      ELSE [e EXCEPT !.up = @ /\ f < MaxFails, !.fails = f]

(* Fold one probe result into an endpoint's streaks: fast fail, slow        *)
(* recovery.                                                                *)
Observe(e, reachable) ==
  LET f == SaturatingInc(e.fails, U32Max)
      s == SaturatingInc(e.successes, U32Max)
  IN  IF reachable
      THEN [up |-> e.up \/ s >= RecoveryChecks, fails |-> 0, successes |-> s]
      ELSE [up |-> e.up /\ f < MaxFails, fails |-> f, successes |-> 0]

UpSet(rs) == {i \in 1..Len(rs.endpoints) : rs.endpoints[i].up}

(* The highest-priority endpoint that is up.                                *)
BestUp(rs) == CHOOSE b \in UpSet(rs) : \A i \in UpSet(rs) : b <= i

(* Mutants of Selected: the dwell is asked about first, and not at all.     *)
SelectedDwellFirst(rs) ==
  IF UpSet(rs) = {} \/ rs.ticks < DwellTicks THEN rs.active ELSE BestUp(rs)

SelectedNoDwell(rs) == IF UpSet(rs) = {} THEN rs.active ELSE BestUp(rs)

Selected(rs) ==
  LET cur == rs.active
  IN  IF UpSet(rs) = {} THEN cur                            \* keep last known
      ELSE IF cur \notin UpSet(rs) THEN BestUp(rs)          \* escape now
      ELSE IF BestUp(rs) < cur /\ rs.ticks >= DwellTicks
           THEN BestUp(rs)                                  \* revert
      ELSE cur

(* Mutant of Reselect: a switch does not restart the dwell.                 *)
ReselectKeepingTicks(rs) == [rs EXCEPT !.active = Selected(rs)]

Reselect(rs) ==
  IF Selected(rs) = rs.active THEN rs
  ELSE [rs EXCEPT !.active = Selected(rs), !.ticks = 0]

(* What the fold does to one rule before it reselects.                      *)
Observed(rs, reachable) ==
  [rs EXCEPT !.ticks = SaturatingInc(@, U64Max),
             !.endpoints = [i \in 1..Len(@) |-> Observe(@[i], i \in reachable)]]

ProbeRule(rs, reachable) == Reselect(Observed(rs, reachable))

-----------------------------------------------------------------------------
(* What the session reads off the engine *)

IsActive == DOMAIN rules # {}

(* The endpoint a rule's relay is rendered for, and reported as active.     *)
ActiveEndpoint(rs) == rs.spec.backends[rs.active]

-----------------------------------------------------------------------------
(* The engine's operations *)

Init == rules = << >>

(* A rule whose backend list is the one already held keeps its streaks and  *)
(* its selection; any other starts afresh; rules not pushed are dropped.    *)
AdoptRules(specs) ==
  [r \in DOMAIN specs |->
     IF r \in DOMAIN rules /\ rules[r].spec.backends = specs[r].backends
     THEN [rules[r] EXCEPT !.spec = specs[r]]
     ELSE NewRule(specs[r])]

SetRules ==
  \E S \in SUBSET RuleIds : \E specs \in [S -> RuleSpec] :
    rules' = AdoptRules(specs)

Replicas == UNION {{r} \X (1..Len(rules[r].endpoints)) : r \in DOMAIN rules}

(* Phase 2 of a probe cycle that completed; answered are the replicas whose *)
(* probe succeeded.                                                         *)
FoldProbes(answered) ==
  rules' = [r \in DOMAIN rules |->
              ProbeRule(rules[r], {i \in 1..Len(rules[r].endpoints) :
                                     <<r, i>> \in answered})]

(* The same replica probed for two rules may answer one and not the other.  *)
ProbeAndDecide ==
  /\ IsActive
  /\ \E answered \in SUBSET Replicas : FoldProbes(answered)

Next == SetRules \/ ProbeAndDecide

Spec == Init /\ [][Next]_rules

-----------------------------------------------------------------------------
(* Properties *)

WellFormed(rs) ==
  /\ rs \in RuleState
  /\ Len(rs.endpoints) = Len(rs.spec.backends)
  /\ rs.active \in 0..Len(rs.endpoints)
  /\ rs.active = 0 <=> rs.endpoints = <<>>

(* Every rule is a record of the engine's types whose selection points      *)
(* inside its own replica list, and is None only for an empty list.         *)
TypeOK ==
  /\ DOMAIN rules \subseteq RuleIds
  /\ \A r \in DOMAIN rules : WellFormed(rules[r])

ServedByHealthy(rs) == UpSet(rs) # {} => rs.active \in UpSet(rs)

(* A rule with any replica up is never left on one that is down: neither    *)
(* the dwell nor a re-push can pin it to a dead backend (failover.rs: "dwell *)
(* never pins the node to a dead backend").                                 *)
ActiveHealthy == \A r \in DOMAIN rules : ServedByHealthy(rules[r])

Consistent(e) ==
  /\ e.fails = 0 \/ e.successes = 0
  /\ e.up => e.fails < MaxFails
  /\ ~e.up => e.successes < RecoveryChecks

(* An endpoint's class always agrees with its streaks: one that is up has   *)
(* not failed MaxFails times in a row, one that is down has not answered    *)
(* RecoveryChecks times in a row, and the two streaks exclude each other.   *)
HysteresisConsistent ==
  \A r \in DOMAIN rules :
    \A i \in 1..Len(rules[r].endpoints) : Consistent(rules[r].endpoints[i])

(* A rule whose endpoints survive the step leaves an active replica that is *)
(* still up only for one of higher priority, only once DwellTicks cycles    *)
(* have passed since its last switch, and never when no replica is up (a    *)
(* dead rule must not drive restarts).                                      *)
SwitchJustified(old, new) ==
  (old.active # new.active) =>
    /\ new.active \in UpSet(new)
    /\ \/ old.active \notin UpSet(new)
       \/ new.active < old.active /\ old.ticks + 1 >= DwellTicks

SwitchesJustified ==
  [][\A r \in DOMAIN rules \cap DOMAIN rules' :
       rules[r].spec.backends = rules'[r].spec.backends
         => SwitchJustified(rules[r], rules'[r])]_rules

=============================================================================
