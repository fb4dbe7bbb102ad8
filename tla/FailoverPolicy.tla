--------------------------- MODULE FailoverPolicy ---------------------------
(***************************************************************************)
(* What the failover engine promises, stated over the outcomes of the       *)
(* probes alone: no streak counters and no tick counter.  For every rule    *)
(* the policy remembers the most recent outcomes of each replica, oldest    *)
(* first, and from them which replicas count as healthy:                    *)
(*   - a replica is written off exactly when its last MaxFails probes all   *)
(*     failed, and trusted again exactly when its last RecoveryChecks       *)
(*     probes all answered (crates/agent/src/failover.rs, module header);   *)
(*   - the rule leaves a replica written off for a healthy one at once, and *)
(*     leaves a healthy one only for a better one, Dwell cycles or more     *)
(*     after its previous switch.                                           *)
(* Which healthy replica an escape picks, and whether a permitted revert is *)
(* taken, the policy leaves open.                                           *)
(***************************************************************************)
EXTENDS Integers, Sequences

CONSTANTS Rules, Lists, MaxFails, RecoveryChecks, Dwell

VARIABLE policy    \* rule -> [backends, outcomes, healthy, active, since]

Window == IF MaxFails > RecoveryChecks THEN MaxFails ELSE RecoveryChecks

Recent(s, n) == SubSeq(s, Len(s) - n + 1, Len(s))

Remember(s, outcome) ==
  LET t == Append(s, outcome) IN IF Len(t) > Window THEN Tail(t) ELSE t

AllLast(s, n, outcome) ==
  Len(s) >= n /\ \A i \in 1..n : Recent(s, n)[i] = outcome

Fresh(backends) ==
  [backends |-> backends,
   outcomes |-> [i \in 1..Len(backends) |-> << >>],
   healthy  |-> 1..Len(backends),
   active   |-> IF backends = << >> THEN 0 ELSE 1,
   since    |-> Dwell]

Push ==
  \E S \in SUBSET Rules : \E lists \in [S -> Lists] :
    policy' = [r \in S |->
                 IF r \in DOMAIN policy /\ policy[r].backends = lists[r]
                 THEN policy[r] ELSE Fresh(lists[r])]

Healthy(p, outcomes) ==
  {i \in 1..Len(p.backends) :
     \/ AllLast(outcomes[i], RecoveryChecks, TRUE)
     \/ i \in p.healthy /\ ~AllLast(outcomes[i], MaxFails, FALSE)}

Permitted(p, healthy, since) ==
  IF healthy = {} THEN {p.active}
  ELSE IF p.active \notin healthy THEN healthy
  ELSE {p.active} \cup {i \in healthy : i < p.active /\ since >= Dwell}

(* What one probe cycle may make of a rule, given which replicas answered.  *)
Successors(p, answered) ==
  LET outcomes == [i \in 1..Len(p.backends) |->
                     Remember(p.outcomes[i], i \in answered)]
      healthy  == Healthy(p, outcomes)
      since    == IF p.since < Dwell THEN p.since + 1 ELSE Dwell
  IN  {[p EXCEPT !.outcomes = outcomes, !.healthy = healthy, !.active = a,
                 !.since = IF a = p.active THEN since ELSE 0] :
         a \in Permitted(p, healthy, since)}

Cycle ==
  /\ policy # << >>
  /\ DOMAIN policy' = DOMAIN policy
  /\ \A r \in DOMAIN policy :
       \E answered \in SUBSET (1..Len(policy[r].backends)) :
         policy'[r] \in Successors(policy[r], answered)

PolicyInit == policy = << >>

PolicySpec == PolicyInit /\ [][Push \/ Cycle]_policy
=============================================================================
