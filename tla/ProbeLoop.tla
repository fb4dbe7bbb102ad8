------------------------------ MODULE ProbeLoop ------------------------------
(***************************************************************************)
(* The probe arm of the agent's session loop (run_session, crates/agent/src *)
(* /conn.rs) around the failover engine: every probe tick runs one cycle    *)
(* under an outer time budget, and a cycle that outlives the budget is      *)
(* dropped before its synchronous phase.  The network decides what each     *)
(* probe meets; a probe whose target swallows the connect takes the whole   *)
(* probe timeout, all others are over at once.  Rules are probed side by    *)
(* side, a rule's replicas through a window of PROBE_CONCURRENCY.           *)
(***************************************************************************)
EXTENDS Failover

CONSTANTS
  probe_timeout_ms, heartbeat_interval_secs,
  PROBE_CONCURRENCY        \* 32 in the code, scaled down with the lists

ASSUME ConcurrencyAssumption == PROBE_CONCURRENCY \in Nat \ {0}

DEFAULT_HEARTBEAT_INTERVAL_SECS == 20

HeartbeatMillis ==
  1000 * IF heartbeat_interval_secs > 0 THEN heartbeat_interval_secs
         ELSE DEFAULT_HEARTBEAT_INTERVAL_SECS

ProbeTimeout == AtLeastOne(probe_timeout_ms)

Smaller(a, b) == IF a < b THEN a ELSE b
Larger(a, b)  == IF a > b THEN a ELSE b

(* Mutant of CycleBudget: half the heartbeat in seconds, taken for millis.  *)
CycleBudgetInSeconds == HeartbeatMillis \div 2000

CycleBudget == Smaller(HeartbeatMillis \div 2, Larger(4 * ProbeTimeout, 2000))

VARIABLES
  net,          \* what a probe of a backend meets, as each rule sees it
  last_health   \* the last completed cycle's results: {} = None

vars == <<rules, net, last_health>>

Reactions == {"answers", "refuses", "hangs"}

Reaction(r, i) == net[r][rules[r].spec.backends[i]]

Answered == {p \in Replicas : Reaction(p[1], p[2]) = "answers"}

ProbeCost(r, i) == IF Reaction(r, i) = "hangs" THEN ProbeTimeout ELSE 0

(* buffered_probe: when rule r's i-th result is handed on.  Results keep    *)
(* their order, and a probe starts once the one PROBE_CONCURRENCY before it *)
(* has been handed on.                                                      *)
HandedOn(r) ==
  LET at[i \in Nat] ==
        IF i = 0 THEN 0
        ELSE LET start == IF i > PROBE_CONCURRENCY THEN at[i - PROBE_CONCURRENCY] ELSE 0
             IN  Larger(at[i - 1], start + ProbeCost(r, i))
  IN  at

(* A cycle is over when the last rule's last result is.                     *)
CostWithin(limit) ==
  \A r \in DOMAIN rules : HandedOn(r)[Len(rules[r].endpoints)] <= limit

LoopInit ==
  /\ Init
  /\ net \in [RuleIds -> [Backends -> Reactions]]
  /\ last_health = {}

NetworkChanges ==
  /\ \E r \in RuleIds, b \in Backends, reaction \in Reactions :
       net' = [net EXCEPT ![r][b] = reaction]
  /\ UNCHANGED <<rules, last_health>>

(* Mutant of ReceivePush: the old probe results stay beside the new rules.  *)
ReceivePushKeepingHealth == SetRules /\ UNCHANGED <<net, last_health>>

(* A ConfigPush hands its rules to the engine and forgets the probe results *)
ReceivePush == SetRules /\ last_health' = {} /\ UNCHANGED net

CycleCompletes ==
  /\ IsActive
  /\ CostWithin(CycleBudget)
  /\ FoldProbes(Answered)
  /\ last_health' = {<<p[1], p[2], p \in Answered>> : p \in Replicas}
  /\ UNCHANGED net

(* Dropped before the fold.  At equality either timer may fire first.       *)
CycleExceedsBudget ==
  /\ IsActive
  /\ ~CostWithin(CycleBudget - 1)
  /\ UNCHANGED vars

ProbeTick == CycleCompletes \/ CycleExceedsBudget

LoopNext == NetworkChanges \/ ReceivePush \/ ProbeTick

(* tokio's interval ticks forever and the select loop reaches its arm: the  *)
(* arms above it are an elapsed heartbeat and a shutdown.                   *)
LoopSpec == LoopInit /\ [][LoopNext]_vars /\ WF_vars(ProbeTick)

-----------------------------------------------------------------------------
(* Properties *)

(* A rule's stored health never says more replicas than it has, is complete *)
(* whenever present, and a replica the report calls reachable while it is   *)
(* still classified down is on a success streak: report and engine come     *)
(* from the same cycle.                                                     *)
HealthMatchesEngine ==
  last_health # {} =>
    /\ {<<h[1], h[2]>> : h \in last_health} = Replicas
    /\ \A h \in last_health :
         LET e == rules[h[1]].endpoints[h[2]]
         IN  IF h[3] THEN e.successes > 0 ELSE e.fails > 0

BestAnswering(r, i) ==
  /\ r \in DOMAIN rules
  /\ i \in 1..Len(rules[r].endpoints)
  /\ Reaction(r, i) = "answers"
  /\ \A j \in 1..(i - 1) : Reaction(r, j) # "answers"

(* conn.rs:256-258: a normal cycle costs no more than a probe timeout, and  *)
(* is never clipped - where a probe timeout is less than half a heartbeat.  *)
NormalCycle == CostWithin(ProbeTimeout) /\ 2 * ProbeTimeout < HeartbeatMillis

(* If the network settles so that cycles are normal, and a rule keeps its   *)
(* backend list, the rule ends up, for good, on the highest-priority        *)
(* replica that answers: streaks, dwell, and the cycles that were dropped   *)
(* before, only delay it.  Where replicas go on hanging beyond the budget   *)
(* every cycle is dropped, and the rule stays where it is.                  *)
SettlesOnBest ==
  \A r \in RuleIds : \A bs \in BackendLists : \A i \in 1..Len(bs) :
    <>[](NormalCycle /\ BestAnswering(r, i) /\ rules[r].spec.backends = bs)
      => <>[](r \in DOMAIN rules /\ rules[r].active = i)

=============================================================================
