----------------------------- MODULE FailoverLog -----------------------------
(***************************************************************************)
(* The failover engine with the outcomes of its probes recorded beside it,  *)
(* so that it can be shown to implement FailoverPolicy.  The log observes:  *)
(* no guard and no rule of the engine reads it.                             *)
(***************************************************************************)
EXTENDS Failover

VARIABLE log      \* rule -> replica -> its most recent outcomes

LogWindow == IF MaxFails > RecoveryChecks THEN MaxFails ELSE RecoveryChecks

Logged(s, outcome) ==
  LET t == Append(s, outcome) IN IF Len(t) > LogWindow THEN Tail(t) ELSE t

LogInit == Init /\ log = << >>

LogSetRules ==
  /\ SetRules
  /\ log' = [r \in DOMAIN rules' |->
               IF r \in DOMAIN rules
                    /\ rules[r].spec.backends = rules'[r].spec.backends
               THEN log[r]
               ELSE [i \in 1..Len(rules'[r].endpoints) |-> << >>]]

LogProbeAndDecide ==
  /\ IsActive
  /\ \E answered \in SUBSET Replicas :
       /\ FoldProbes(answered)
       /\ log' = [r \in DOMAIN rules |->
                    [i \in DOMAIN log[r] |->
                       Logged(log[r][i], <<r, i>> \in answered)]]

LogNext == LogSetRules \/ LogProbeAndDecide

LogSpec == LogInit /\ [][LogNext]_<<rules, log>>

-----------------------------------------------------------------------------
(* The engine seen through the policy's eyes.                               *)
Policy == INSTANCE FailoverPolicy WITH
  Rules  <- RuleIds,
  Lists  <- BackendLists,
  Dwell  <- DwellTicks,
  policy <- [r \in DOMAIN rules |->
               [backends |-> rules[r].spec.backends,
                outcomes |-> log[r],
                healthy  |-> UpSet(rules[r]),
                active   |-> rules[r].active,
                since    |-> IF rules[r].ticks < DwellTicks
                             THEN rules[r].ticks ELSE DwellTicks]]

(* The engine's saturating streaks and ticks implement the policy stated    *)
(* over raw probe outcomes (FailoverEngine::probe_and_decide, set_rules).   *)
ImplementsPolicy == Policy!PolicySpec
=============================================================================
