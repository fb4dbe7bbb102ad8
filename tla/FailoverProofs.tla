--------------------------- MODULE FailoverProofs ---------------------------
(***************************************************************************)
(* Proofs about the failover engine, for every set of rules, every replica  *)
(* list and every value of the tunables.                                    *)
(***************************************************************************)
EXTENDS FailoverLog, ProbeLoop, TLAPS, WellFoundedInduction, SequenceTheorems

(* What holds of every rule the engine keeps: the conjuncts of the three    *)
(* invariants for one rule.  Selection is sound only for well-formed rules, *)
(* and the streaks bound each other, so the three are proved together.      *)
RuleInv(rs) ==
  /\ WellFormed(rs)
  /\ ServedByHealthy(rs)
  /\ \A i \in 1..Len(rs.endpoints) : Consistent(rs.endpoints[i])

IInv ==
  /\ DOMAIN rules \subseteq RuleIds
  /\ \A r \in DOMAIN rules : RuleInv(rules[r])

(* The tunables the engine runs with are positive and within the counters'  *)
(* widths.                                                                  *)
LEMMA TunablesPositive ==
  /\ MaxFails \in Nat \ {0} /\ MaxFails <= U32Max
  /\ RecoveryChecks \in Nat \ {0} /\ RecoveryChecks <= U32Max
  /\ ProbeInterval \in Nat \ {0}
  /\ U32Max \in Nat /\ U64Max \in Nat
BY TunablesAssumption, WidthAssumption
   DEF MaxFails, RecoveryChecks, ProbeInterval, AtLeastOne

(* The dwell is a number of cycles. *)
LEMMA DwellNat == DwellTicks \in Nat
<1>1. /\ min_dwell_secs + ProbeInterval - 1 \in Nat
      /\ ProbeInterval \in Nat \ {0}
  BY TunablesPositive, TunablesAssumption
<1> QED
  BY <1>1 DEF DwellTicks

(* Among the endpoints that are up there is one of highest priority, and    *)
(* BestUp is that one.                                                      *)
LEMMA BestUpIsBest ==
  ASSUME NEW rs, Len(rs.endpoints) \in Nat, UpSet(rs) # {}
  PROVE  BestUp(rs) \in UpSet(rs) /\ \A i \in UpSet(rs) : BestUp(rs) <= i
<1>1. UpSet(rs) \subseteq Nat
  BY DEF UpSet
<1>2. PICK b \in UpSet(rs) :
        \A i \in UpSet(rs) : ~(<<i, b>> \in OpToRel(<, Nat))
  BY <1>1, WFMin, NatLessThanWellFounded
<1>3. ASSUME NEW i \in UpSet(rs) PROVE b <= i
  <2>1. i \in Nat /\ b \in Nat
    BY <1>1
  <2>2. <<i, b>> \in OpToRel(<, Nat) <=> i < b
    BY <2>1 DEF OpToRel
  <2>3. ~(i < b)
    BY <1>2, <2>2, Zenon
  <2> QED
    BY <2>1, <2>3
<1> QED
  BY <1>3 DEF BestUp

(* One probe keeps an endpoint well typed and its class in agreement with   *)
(* its streaks.                                                             *)
LEMMA ObserveConsistent ==
  ASSUME NEW e \in EndpointState, Consistent(e), NEW reachable \in BOOLEAN
  PROVE  Observe(e, reachable) \in EndpointState /\ Consistent(Observe(e, reachable))
<1> DEFINE f == SaturatingInc(e.fails, U32Max)
           s == SaturatingInc(e.successes, U32Max)
<1>1. /\ e.up \in BOOLEAN
      /\ e.fails \in 0..U32Max /\ e.successes \in 0..U32Max
      /\ U32Max \in Nat
  BY TunablesPositive DEF EndpointState
<1>2. f \in 1..U32Max /\ s \in 1..U32Max
  BY <1>1, TunablesPositive DEF SaturatingInc
<1> HIDE DEF f, s
<1>3. CASE reachable
  <2> DEFINE u == e.up \/ s >= RecoveryChecks
  <2>1. Observe(e, reachable) = [up |-> u, fails |-> 0, successes |-> s]
    BY <1>3 DEF Observe, f, s
  <2>2. u \in BOOLEAN /\ (~u => s < RecoveryChecks)
    BY <1>1, <1>2, TunablesPositive
  <2> HIDE DEF u
  <2> QED
    BY <1>1, <1>2, <2>1, <2>2, TunablesPositive DEF EndpointState, Consistent
<1>4. CASE ~reachable
  <2> DEFINE u == e.up /\ f < MaxFails
  <2>1. Observe(e, reachable) = [up |-> u, fails |-> f, successes |-> 0]
    BY <1>4 DEF Observe, f, s
  <2>2. u \in BOOLEAN /\ (u => f < MaxFails)
    BY <1>1, <1>2, TunablesPositive
  <2> HIDE DEF u
  <2> QED
    BY <1>1, <1>2, <2>1, <2>2, TunablesPositive DEF EndpointState, Consistent
<1> QED
  BY <1>3, <1>4

(* A new rule satisfies the rule invariant: every replica starts up, the    *)
(* primary is active.                                                       *)
LEMMA NewRuleInv ==
  ASSUME NEW spec \in RuleSpec
  PROVE  RuleInv(NewRule(spec)) /\ NewRule(spec).spec = spec
<1> DEFINE n == Len(spec.backends)
           rs == NewRule(spec)
<1>1. spec.backends \in Seq(Backends) /\ n \in Nat
  BY ListsAssumption DEF RuleSpec
<1>2. NewEndpoint \in EndpointState /\ Consistent(NewEndpoint)
  BY TunablesPositive DEF NewEndpoint, EndpointState, Consistent
<1>3. rs.endpoints \in Seq(EndpointState) /\ Len(rs.endpoints) = n
  BY <1>1, <1>2 DEF NewRule
<1>4. \A i \in 1..n : rs.endpoints[i] = NewEndpoint
  BY <1>1 DEF NewRule
<1>5. rs.active \in 0..n /\ (rs.active = 0 <=> n = 0) /\ (n # 0 => rs.active = 1)
  BY <1>1, EmptySeq DEF NewRule
<1>6. WellFormed(rs)
  <2>1. rs.ticks \in 0..U64Max
    BY TunablesPositive DEF NewRule
  <2>2. rs \in RuleState
    BY <1>3, <1>5, <2>1 DEF NewRule, RuleState
  <2> QED
    BY <1>1, <1>3, <1>5, <2>2 DEF WellFormed, NewRule
<1>7. ServedByHealthy(rs)
  BY <1>3, <1>4, <1>5 DEF ServedByHealthy, UpSet, NewEndpoint
<1> QED
  BY <1>2, <1>3, <1>4, <1>6, <1>7 DEF RuleInv, NewRule

(* Folding a probe result into a rule keeps its shape and its streaks       *)
(* consistent; its selection is then only what it was before.               *)
LEMMA ObservedInv ==
  ASSUME NEW rs, RuleInv(rs), NEW reachable
  PROVE  LET o == Observed(rs, reachable)
         IN  /\ WellFormed(o)
             /\ \A i \in 1..Len(o.endpoints) : Consistent(o.endpoints[i])
             /\ Len(o.endpoints) = Len(rs.endpoints)
             /\ o.active = rs.active /\ o.spec = rs.spec
             /\ o.ticks = SaturatingInc(rs.ticks, U64Max)
<1> DEFINE o == Observed(rs, reachable)
           n == Len(rs.endpoints)
           eps == [i \in 1..n |-> Observe(rs.endpoints[i], i \in reachable)]
<1>1. /\ rs \in RuleState /\ rs.endpoints \in Seq(EndpointState) /\ n \in Nat
      /\ \A i \in 1..n : rs.endpoints[i] \in EndpointState
      /\ rs.ticks \in 0..U64Max
  BY DEF RuleInv, WellFormed, RuleState
<1>2. ASSUME NEW i \in 1..n
      PROVE  eps[i] \in EndpointState /\ Consistent(eps[i])
  <2>1. eps[i] = Observe(rs.endpoints[i], i \in reachable)
    OBVIOUS
  <2>2. rs.endpoints[i] \in EndpointState /\ Consistent(rs.endpoints[i])
    BY <1>1 DEF RuleInv
  <2>3. (i \in reachable) \in BOOLEAN
    OBVIOUS
  <2> QED
    BY <2>1, <2>2, <2>3, ObserveConsistent, Zenon
<1>3. eps \in Seq(EndpointState) /\ Len(eps) = n
  <2>1. eps \in [1..n -> EndpointState]
    BY <1>2
  <2> HIDE DEF eps
  <2> QED
    BY <1>1, <2>1
<1>4. o = [rs EXCEPT !.ticks = SaturatingInc(rs.ticks, U64Max), !.endpoints = eps]
  BY <1>1 DEF Observed
<1>5. SaturatingInc(rs.ticks, U64Max) \in 0..U64Max
  BY <1>1, TunablesPositive DEF SaturatingInc
<1> HIDE DEF o, eps
<1>6. /\ o \in RuleState
      /\ o.endpoints = eps /\ o.active = rs.active /\ o.spec = rs.spec
      /\ o.ticks = SaturatingInc(rs.ticks, U64Max)
  BY <1>1, <1>3, <1>4, <1>5 DEF RuleState
<1>7. eps = << >> <=> rs.endpoints = << >>
  BY <1>1, <1>3, EmptySeq
<1>8. WellFormed(o)
  BY <1>3, <1>6, <1>7 DEF RuleInv, WellFormed
<1> QED
  BY <1>2, <1>3, <1>6, <1>8 DEF o

(* Selection points inside the list, at a replica that is up when there is  *)
(* one, and leaves a replica that is up only for a better one past the      *)
(* dwell.                                                                   *)
LEMMA SelectedSound ==
  ASSUME NEW rs, WellFormed(rs)
  PROVE  /\ Selected(rs) \in 0..Len(rs.endpoints)
         /\ UpSet(rs) # {} => Selected(rs) \in UpSet(rs)
         /\ Selected(rs) # rs.active =>
              /\ Selected(rs) \in UpSet(rs)
              /\ rs.active \in UpSet(rs) =>
                   Selected(rs) < rs.active /\ rs.ticks >= DwellTicks
         /\ Selected(rs) = 0 <=> rs.active = 0 /\ rs.endpoints = << >>
<1>1. /\ Len(rs.endpoints) \in Nat /\ rs.active \in 0..Len(rs.endpoints)
      /\ UpSet(rs) \subseteq 1..Len(rs.endpoints)
      /\ rs.active = 0 <=> rs.endpoints = << >>
      /\ rs.endpoints = << >> => Len(rs.endpoints) = 0
  BY EmptySeq DEF WellFormed, RuleState, UpSet
<1>2. UpSet(rs) # {} => BestUp(rs) \in UpSet(rs)
  BY <1>1, BestUpIsBest
<1>3. CASE UpSet(rs) = {}
  BY <1>1, <1>3 DEF Selected
<1>4. CASE UpSet(rs) # {} /\ rs.active \notin UpSet(rs)
  BY <1>1, <1>2, <1>4 DEF Selected
<1>5. CASE UpSet(rs) # {} /\ rs.active \in UpSet(rs)
  BY <1>1, <1>2, <1>5 DEF Selected
<1> QED
  BY <1>3, <1>4, <1>5

(* A probe cycle keeps the rule invariant, and every switch it makes is     *)
(* justified.                                                               *)
LEMMA ProbeRuleInv ==
  ASSUME NEW rs, RuleInv(rs), NEW reachable
  PROVE  /\ RuleInv(ProbeRule(rs, reachable))
         /\ SwitchJustified(rs, ProbeRule(rs, reachable))
<1> DEFINE o == Observed(rs, reachable)
           p == ProbeRule(rs, reachable)
           sel == Selected(o)
<1>1. /\ WellFormed(o)
      /\ \A i \in 1..Len(o.endpoints) : Consistent(o.endpoints[i])
      /\ o.active = rs.active
      /\ o.ticks = SaturatingInc(rs.ticks, U64Max)
  BY ObservedInv
<1>2. /\ sel \in 0..Len(o.endpoints)
      /\ UpSet(o) # {} => sel \in UpSet(o)
      /\ sel # o.active =>
           /\ sel \in UpSet(o)
           /\ o.active \in UpSet(o) => sel < o.active /\ o.ticks >= DwellTicks
      /\ sel = 0 <=> o.active = 0 /\ o.endpoints = << >>
  BY <1>1, SelectedSound
<1> HIDE DEF o, sel, p
<1>3. p = IF sel = o.active THEN o ELSE [o EXCEPT !.active = sel, !.ticks = 0]
  BY DEF ProbeRule, Reselect, o, sel, p
<1>4. /\ p \in RuleState /\ p.spec = o.spec /\ p.endpoints = o.endpoints
      /\ p.active = sel
  <2>1. o \in RuleState /\ Len(o.endpoints) \in Nat /\ sel \in Nat
    BY <1>1, <1>2 DEF WellFormed, RuleState
  <2>2. CASE sel = o.active
    BY <1>3, <2>1, <2>2
  <2>3. CASE sel # o.active
    <3>1. p = [o EXCEPT !.active = sel, !.ticks = 0]
      BY <1>3, <2>3
    <3>2. p = [spec |-> o.spec, endpoints |-> o.endpoints,
               active |-> sel, ticks |-> 0]
      BY <2>1, <3>1 DEF RuleState
    <3>3. o.spec \in RuleSpec /\ o.endpoints \in Seq(EndpointState)
      BY <2>1 DEF RuleState
    <3>4. 0 \in 0..U64Max
      BY TunablesPositive
    <3> QED
      BY <2>1, <3>2, <3>3, <3>4 DEF RuleState
  <2> QED
    BY <2>2, <2>3
<1>5. UpSet(p) = UpSet(o)
  BY <1>4 DEF UpSet
<1>6. WellFormed(p)
  BY <1>1, <1>2, <1>4 DEF WellFormed
<1>7. RuleInv(p)
  BY <1>1, <1>2, <1>4, <1>5, <1>6 DEF RuleInv, ServedByHealthy
<1>8. SwitchJustified(rs, p)
  <2>1. rs.ticks \in 0..U64Max /\ U64Max \in Nat /\ DwellTicks \in Nat
    BY TunablesPositive, DwellNat DEF RuleInv, WellFormed, RuleState
  <2>2. o.ticks >= DwellTicks => rs.ticks + 1 >= DwellTicks
    BY <1>1, <2>1 DEF SaturatingInc
  <2> QED
    BY <1>1, <1>2, <1>4, <1>5, <2>2 DEF SwitchJustified
<1> QED
  BY <1>7, <1>8 DEF p

-----------------------------------------------------------------------------
(* The invariant *)

(* The engine starts with no rules. *)
LEMMA InitInv == Init => IInv
BY DEF Init, IInv

(* Adopting a push keeps the invariant: a rule whose list is unchanged is   *)
(* the rule it was with a new spec, any other rule is new.                  *)
LEMMA SetRulesInv ==
  ASSUME IInv, SetRules
  PROVE  /\ IInv'
         /\ \A r \in DOMAIN rules \cap DOMAIN rules' :
              rules[r].spec.backends = rules'[r].spec.backends
                => rules'[r].active = rules[r].active
<1>0. PICK S \in SUBSET RuleIds :
        \E specs \in [S -> RuleSpec] : rules' = AdoptRules(specs)
  BY DEF SetRules
<1>1. PICK specs \in [S -> RuleSpec] : rules' = AdoptRules(specs)
  BY <1>0
<1>2. DOMAIN rules' = S
  BY <1>1 DEF AdoptRules
<1>3. ASSUME NEW r \in S
      PROVE  /\ RuleInv(rules'[r])
             /\ r \in DOMAIN rules
                /\ rules[r].spec.backends = rules'[r].spec.backends
                  => rules'[r].active = rules[r].active
  <2>1. specs[r] \in RuleSpec
    BY <1>3
  <2>2. CASE r \in DOMAIN rules /\ rules[r].spec.backends = specs[r].backends
    <3>1. rules'[r] = [rules[r] EXCEPT !.spec = specs[r]]
      BY <1>1, <1>3, <2>2 DEF AdoptRules
    <3>2. RuleInv(rules[r]) /\ rules[r] \in RuleState
      BY <2>2 DEF IInv, RuleInv, WellFormed
    <3>3. /\ rules'[r] \in RuleState
          /\ rules'[r].spec = specs[r]
          /\ rules'[r].endpoints = rules[r].endpoints
          /\ rules'[r].active = rules[r].active
      BY <2>1, <3>1, <3>2 DEF RuleState
    <3>4. UpSet(rules'[r]) = UpSet(rules[r])
      BY <3>3 DEF UpSet
    <3> QED
      BY <2>2, <3>2, <3>3, <3>4 DEF RuleInv, WellFormed, ServedByHealthy
  <2>3. CASE ~(r \in DOMAIN rules /\ rules[r].spec.backends = specs[r].backends)
    <3>1. rules'[r] = NewRule(specs[r])
      BY <1>1, <1>3, <2>3 DEF AdoptRules
    <3> QED
      BY <2>1, <2>3, <3>1, NewRuleInv
  <2> QED
    BY <2>2, <2>3
<1> QED
  BY <1>2, <1>3 DEF IInv

(* A completed probe cycle keeps the invariant. *)
LEMMA ProbeAndDecideInv ==
  ASSUME IInv, ProbeAndDecide
  PROVE  /\ IInv'
         /\ \A r \in DOMAIN rules : SwitchJustified(rules[r], rules'[r])
<1>1. PICK answered \in SUBSET Replicas : FoldProbes(answered)
  BY DEF ProbeAndDecide
<1>2. /\ DOMAIN rules' = DOMAIN rules
      /\ \A r \in DOMAIN rules :
           rules'[r] = ProbeRule(rules[r], {i \in 1..Len(rules[r].endpoints) :
                                              <<r, i>> \in answered})
  BY <1>1 DEF FoldProbes
<1>3. \A r \in DOMAIN rules :
        RuleInv(rules'[r]) /\ SwitchJustified(rules[r], rules'[r])
  BY <1>2, ProbeRuleInv DEF IInv
<1> QED
  BY <1>2, <1>3 DEF IInv

(* The strengthened invariant is inductive. *)
LEMMA NextInv == IInv /\ [Next]_rules => IInv'
<1> SUFFICES ASSUME IInv, [Next]_rules PROVE IInv'
  OBVIOUS
<1>1. CASE SetRules
  BY <1>1, SetRulesInv
<1>2. CASE ProbeAndDecide
  BY <1>2, ProbeAndDecideInv
<1>3. CASE UNCHANGED rules
  BY <1>3 DEF IInv
<1> QED
  BY <1>1, <1>2, <1>3 DEF Next

(* It holds in every reachable state. *)
LEMMA Invariance == Spec => []IInv
BY InitInv, NextInv, PTL DEF Spec

(* The engine's state is well formed at all times: every selection points   *)
(* inside its own rule's replica list, and only a rule without replicas     *)
(* selects none.                                                            *)
THEOREM TypeCorrect == Spec => []TypeOK
<1>1. IInv => TypeOK
  BY DEF IInv, RuleInv, TypeOK
<1> QED
  BY <1>1, Invariance, PTL

(* No rule that has a replica up is served by one that is down, whatever    *)
(* the thresholds, the dwell, the pushes and the probe outcomes.            *)
THEOREM NeverPinnedToDead == Spec => []ActiveHealthy
<1>1. IInv => ActiveHealthy
  BY DEF IInv, RuleInv, ActiveHealthy
<1> QED
  BY <1>1, Invariance, PTL

(* The up/down class of every endpoint always agrees with its streaks. *)
THEOREM StreaksConsistent == Spec => []HysteresisConsistent
<1>1. IInv => HysteresisConsistent
  BY DEF IInv, RuleInv, HysteresisConsistent
<1> QED
  BY <1>1, Invariance, PTL

(* Every switch of a rule that keeps its list goes to a replica that is up, *)
(* from one that is down or, past the dwell, to a better one.               *)
THEOREM AllSwitchesJustified == Spec => SwitchesJustified
<1> DEFINE Justified ==
      \A r \in DOMAIN rules \cap DOMAIN rules' :
        rules[r].spec.backends = rules'[r].spec.backends
          => SwitchJustified(rules[r], rules'[r])
<1>1. IInv /\ [Next]_rules => [Justified]_rules
  <2> SUFFICES ASSUME IInv, Next PROVE Justified
    OBVIOUS
  <2>1. CASE SetRules
    BY <2>1, SetRulesInv DEF SwitchJustified
  <2>2. CASE ProbeAndDecide
    BY <2>2, ProbeAndDecideInv
  <2> QED
    BY <2>1, <2>2 DEF Next
<1> QED
  BY <1>1, Invariance, PTL DEF Spec, SwitchesJustified
-----------------------------------------------------------------------------
(* The engine implements FailoverPolicy.  The log is related to the streaks: *)
(* a streak has reached k exactly when the last k outcomes are its own, for  *)
(* every k a threshold can be.                                               *)

Trailing(s, n, outcome) ==
  Len(s) >= n /\ \A i \in Len(s) - n + 1..Len(s) : s[i] = outcome

Row(s, k, outcome) == \A n \in 0..LogWindow : Trailing(s, n, outcome) <=> n <= k

Tells(s, e) ==
  /\ s \in Seq(BOOLEAN) /\ Len(s) <= LogWindow
  /\ Row(s, e.fails, FALSE) /\ Row(s, e.successes, TRUE)

LogInv ==
  /\ IInv
  /\ DOMAIN log = DOMAIN rules
  /\ \A r \in DOMAIN rules :
       /\ log[r] = [i \in 1..Len(rules[r].endpoints) |-> log[r][i]]
       /\ \A i \in 1..Len(rules[r].endpoints) :
            Tells(log[r][i], rules[r].endpoints[i])

LEMMA WindowNat ==
  /\ LogWindow \in Nat \ {0} /\ LogWindow <= U32Max
  /\ MaxFails <= LogWindow /\ RecoveryChecks <= LogWindow
BY TunablesPositive DEF LogWindow

(* The policy's way of asking for the last outcomes is the log's. *)
LEMMA TrailingIsAllLast ==
  ASSUME NEW s \in Seq(BOOLEAN), NEW n \in Nat, NEW outcome
  PROVE  Policy!AllLast(s, n, outcome) <=> Trailing(s, n, outcome)
<1> DEFINE m == Len(s)
           t == SubSeq(s, m - n + 1, m)
<1>1. m \in Nat
  OBVIOUS
<1>2. CASE m >= n
  <2>1. \A i \in 1..n : t[i] = s[m - n + i]
    BY <1>1, <1>2
  <2>2. \A i \in 1..n : m - n + i \in m - n + 1..m
    BY <1>1, <1>2
  <2>3. \A j \in m - n + 1..m : j - (m - n) \in 1..n /\ m - n + (j - (m - n)) = j
    BY <1>1, <1>2
  <2> HIDE DEF t, m
  <2>4. (\A i \in 1..n : t[i] = outcome) <=> (\A j \in m - n + 1..m : s[j] = outcome)
    BY <2>1, <2>2, <2>3
  <2> QED
    BY <1>2, <2>4 DEF Policy!AllLast, Policy!Recent, Trailing, t, m
<1>3. CASE ~(m >= n)
  BY <1>3 DEF Policy!AllLast, Trailing
<1> QED
  BY <1>2, <1>3

LEMMA TrailingNone ==
  ASSUME NEW s \in Seq(BOOLEAN), NEW outcome
  PROVE  Trailing(s, 0, outcome)
BY DEF Trailing

LEMMA TrailingEmpty ==
  ASSUME NEW outcome, NEW n \in Nat
  PROVE  Trailing(<< >>, n, outcome) <=> n <= 0
BY DEF Trailing

LEMMA Appended ==
  ASSUME NEW s \in Seq(BOOLEAN), NEW next \in BOOLEAN
  PROVE  /\ Append(s, next) \in Seq(BOOLEAN) /\ Len(Append(s, next)) = Len(s) + 1
         /\ Append(s, next)[Len(s) + 1] = next
         /\ \A i \in 1..Len(s) : Append(s, next)[i] = s[i]
OBVIOUS

LEMMA TrailingAppend ==
  ASSUME NEW s \in Seq(BOOLEAN), NEW next \in BOOLEAN, NEW outcome, NEW n \in Nat
  PROVE  Trailing(Append(s, next), n + 1, outcome)
           <=> next = outcome /\ Trailing(s, n, outcome)
<1> DEFINE t == Append(s, next)
           m == Len(s)
<1>1. m \in Nat /\ Len(t) = m + 1 /\ t[m + 1] = next /\ \A i \in 1..m : t[i] = s[i]
  BY Appended
<1> HIDE DEF t, m
<1>2. ASSUME Trailing(t, n + 1, outcome) PROVE next = outcome /\ Trailing(s, n, outcome)
  <2>1. m >= n /\ \A i \in m - n + 1..m + 1 : t[i] = outcome
    BY <1>1, <1>2 DEF Trailing
  <2>2. next = outcome
    BY <1>1, <2>1
  <2>3. \A i \in m - n + 1..m : i \in 1..m /\ i \in m - n + 1..m + 1
    BY <1>1, <2>1
  <2> QED
    BY <1>1, <2>1, <2>2, <2>3 DEF Trailing, m
<1>3. ASSUME next = outcome, Trailing(s, n, outcome) PROVE Trailing(t, n + 1, outcome)
  <2>1. m >= n /\ \A i \in m - n + 1..m : s[i] = outcome
    BY <1>3 DEF Trailing, m
  <2>2. \A i \in m - n + 1..m + 1 : i = m + 1 \/ (i \in m - n + 1..m /\ i \in 1..m)
    BY <1>1, <2>1
  <2>3. \A i \in (m + 1) - (n + 1) + 1..m + 1 : i \in m - n + 1..m + 1
    BY <1>1
  <2> QED
    BY <1>1, <1>3, <2>1, <2>2, <2>3 DEF Trailing
<1> QED
  BY <1>2, <1>3 DEF t

LEMMA Shortened ==
  ASSUME NEW s \in Seq(BOOLEAN), NEW m \in Nat, Len(s) = m + 1
  PROVE  /\ Tail(s) \in Seq(BOOLEAN) /\ Len(Tail(s)) = m
         /\ \A i \in 1..m : Tail(s)[i] = s[i + 1]
OBVIOUS

LEMMA TrailingTail ==
  ASSUME NEW s \in Seq(BOOLEAN), NEW m \in Nat, Len(s) = m + 1,
         NEW outcome, NEW n \in 0..m
  PROVE  Trailing(Tail(s), n, outcome) <=> Trailing(s, n, outcome)
<1> DEFINE t == Tail(s)
<1>1. Len(t) = m /\ \A i \in 1..m : t[i] = s[i + 1]
  BY Shortened
<1> HIDE DEF t
<1>2. \A i \in m - n + 1..m : i \in 1..m /\ i + 1 \in (m + 1) - n + 1..m + 1
  OBVIOUS
<1>3. \A j \in (m + 1) - n + 1..m + 1 : j - 1 \in m - n + 1..m /\ j - 1 \in 1..m
                                        /\ (j - 1) + 1 = j
  OBVIOUS
<1>4. (\A i \in m - n + 1..m : t[i] = outcome)
        <=> (\A j \in (m + 1) - n + 1..m + 1 : s[j] = outcome)
  BY <1>1, <1>2, <1>3
<1>5. m >= n /\ m + 1 >= n
  OBVIOUS
<1> QED
  BY <1>1, <1>4, <1>5 DEF Trailing, t

(* A probe's outcome in the log. *)
LEMMA LoggedTrailing ==
  ASSUME NEW s \in Seq(BOOLEAN), Len(s) <= LogWindow, NEW next \in BOOLEAN
  PROVE  /\ Logged(s, next) \in Seq(BOOLEAN) /\ Len(Logged(s, next)) <= LogWindow
         /\ \A outcome : \A n \in 0..LogWindow - 1 :
              Trailing(Logged(s, next), n + 1, outcome)
                <=> next = outcome /\ Trailing(s, n, outcome)
<1> DEFINE t == Append(s, next)
           w == LogWindow
           l == Len(s)
<1>1. t \in Seq(BOOLEAN) /\ Len(t) = l + 1 /\ l \in Nat /\ l <= w /\ w \in Nat \ {0}
  BY Appended, WindowNat
<1>2. \A outcome : \A n \in 0..w - 1 :
        Trailing(t, n + 1, outcome) <=> next = outcome /\ Trailing(s, n, outcome)
  BY <1>1, TrailingAppend
<1>3. Logged(s, next) = IF Len(t) > w THEN Tail(t) ELSE t
  BY DEF Logged
<1> HIDE DEF t, w, l
<1>4. CASE Len(t) > w
  <2>1. Len(t) = w + 1
    BY <1>1, <1>4
  <2>2. Tail(t) \in Seq(BOOLEAN) /\ Len(Tail(t)) = w
    BY <1>1, <2>1, Shortened
  <2>3. \A outcome : \A n \in 0..w - 1 :
          Trailing(Tail(t), n + 1, outcome) <=> Trailing(t, n + 1, outcome)
    <3> TAKE outcome
    <3> TAKE n \in 0..w - 1
    <3>1. n + 1 \in 0..w
      BY <1>1
    <3> QED
      BY <1>1, <2>1, <3>1, TrailingTail
  <2>4. Logged(s, next) = Tail(t)
    BY <1>3, <1>4
  <2>5. Len(Tail(t)) <= w
    BY <1>1, <2>2
  <2> QED
    BY <1>2, <2>2, <2>3, <2>4, <2>5 DEF w
<1>5. CASE ~(Len(t) > w)
  <2>1. Logged(s, next) = t
    BY <1>3, <1>5
  <2>2. Len(t) <= w
    BY <1>1, <1>5
  <2> QED
    BY <1>1, <1>2, <2>1, <2>2 DEF w
<1> QED
  BY <1>4, <1>5

(* A row of outcomes goes on, or ends. *)
RowsOn(s, t, going, outcome) ==
  \A n \in 0..LogWindow - 1 :
    Trailing(t, n + 1, outcome) <=> going /\ Trailing(s, n, outcome)

(* A streak and the row of outcomes it counts grow and end together. *)
LEMMA StreakOn ==
  ASSUME NEW s \in Seq(BOOLEAN), NEW t \in Seq(BOOLEAN), NEW going \in BOOLEAN, NEW outcome,
         RowsOn(s, t, going, outcome),
         NEW k \in 0..U32Max, Row(s, k, outcome),
         NEW l \in 0..U32Max, l = IF going THEN SaturatingInc(k, U32Max) ELSE 0
  PROVE  Row(t, l, outcome)
<1> SUFFICES ASSUME NEW n \in 0..LogWindow PROVE Trailing(t, n, outcome) <=> n <= l
  BY DEF Row
<1>1. CASE n = 0
  BY <1>1, TrailingNone
<1>2. CASE n # 0
  <2>1. PICK m \in 0..LogWindow - 1 : n = m + 1
    BY <1>2, WindowNat
  <2>2. Trailing(t, n, outcome) <=> going /\ Trailing(s, m, outcome)
    BY <2>1 DEF RowsOn
  <2>3. Trailing(s, m, outcome) <=> m <= k
    BY <2>1, WindowNat DEF Row
  <2>4. going => (m <= k <=> n <= l)
    BY <2>1, WindowNat, TunablesPositive DEF SaturatingInc
  <2>5. ~going => ~(n <= l)
    BY <1>2, WindowNat
  <2> QED
    BY <2>2, <2>3, <2>4, <2>5
<1> QED
  BY <1>1, <1>2

LEMMA ObserveTells ==
  ASSUME NEW e \in EndpointState, NEW s, Tells(s, e), NEW reachable \in BOOLEAN
  PROVE  Tells(Logged(s, reachable), Observe(e, reachable))
<1> DEFINE t == Logged(s, reachable)
           o == Observe(e, reachable)
<1>1. s \in Seq(BOOLEAN) /\ Len(s) <= LogWindow
  BY DEF Tells
<1>2. /\ t \in Seq(BOOLEAN) /\ Len(t) <= LogWindow
      /\ \A outcome : \A n \in 0..LogWindow - 1 :
           Trailing(t, n + 1, outcome) <=> reachable = outcome /\ Trailing(s, n, outcome)
  BY <1>1, LoggedTrailing
<1>3. /\ o.fails = IF ~reachable THEN SaturatingInc(e.fails, U32Max) ELSE 0
      /\ o.successes = IF reachable THEN SaturatingInc(e.successes, U32Max) ELSE 0
  BY DEF Observe
<1>4. e.fails \in 0..U32Max /\ e.successes \in 0..U32Max
  BY DEF EndpointState
<1>5. o.fails \in 0..U32Max /\ o.successes \in 0..U32Max
  BY <1>3, <1>4, TunablesPositive DEF SaturatingInc
<1> HIDE DEF t, o
<1>6. ASSUME NEW outcome \in BOOLEAN, NEW going \in BOOLEAN, going = (reachable = outcome),
             NEW k \in 0..U32Max, Row(s, k, outcome),
             NEW l \in 0..U32Max, l = IF going THEN SaturatingInc(k, U32Max) ELSE 0
      PROVE  Row(t, l, outcome)
  <2>1. RowsOn(s, t, going, outcome)
    BY <1>2, <1>6 DEF RowsOn
  <2> QED
    BY <1>1, <1>2, <1>6, <2>1, StreakOn
<1>7. Row(t, o.fails, FALSE) /\ Row(t, o.successes, TRUE)
  <2>1. Row(s, e.fails, FALSE) /\ Row(s, e.successes, TRUE)
    BY DEF Tells
  <2>2. CASE reachable
    BY <1>3, <1>4, <1>5, <1>6, <2>1, <2>2
  <2>3. CASE ~reachable
    BY <1>3, <1>4, <1>5, <1>6, <2>1, <2>3
  <2> QED
    BY <2>2, <2>3
<1> QED
  BY <1>2, <1>7 DEF Tells, t, o

(* A new log says what the streaks of a new endpoint say: nothing. *)
LEMMA NewTells == Tells(<< >>, NewEndpoint)
<1>1. << >> \in Seq(BOOLEAN) /\ Len(<< >>) = 0
  BY EmptySeq
<1>2. \A outcome : \A n \in 0..LogWindow : Trailing(<< >>, n, outcome) <=> n <= 0
  BY TrailingEmpty, WindowNat
<1>3. 0 <= LogWindow
  BY WindowNat
<1> QED
  BY <1>1, <1>2, <1>3 DEF Tells, Row, NewEndpoint
(* What one cycle makes of a rule's fields. *)
LEMMA ProbeRuleFields ==
  ASSUME NEW rs, RuleInv(rs), NEW reachable
  PROVE  LET o == Observed(rs, reachable)
             p == ProbeRule(rs, reachable)
         IN  /\ p.spec = rs.spec /\ p.endpoints = o.endpoints
             /\ p.active = Selected(o)
             /\ p.ticks = IF Selected(o) = rs.active THEN o.ticks ELSE 0
             /\ o.endpoints = [i \in 1..Len(rs.endpoints) |->
                                 Observe(rs.endpoints[i], i \in reachable)]
             /\ DOMAIN o.endpoints = 1..Len(rs.endpoints)
<1> DEFINE o == Observed(rs, reachable)
           p == ProbeRule(rs, reachable)
           sel == Selected(o)
           eps == [i \in 1..Len(rs.endpoints) |-> Observe(rs.endpoints[i], i \in reachable)]
<1>1. WellFormed(o) /\ o.active = rs.active /\ o.spec = rs.spec
  BY ObservedInv
<1>2. rs \in RuleState
  BY DEF RuleInv, WellFormed
<1>3. o = [rs EXCEPT !.ticks = SaturatingInc(rs.ticks, U64Max), !.endpoints = eps]
  BY <1>2 DEF Observed
<1> HIDE DEF eps
<1>4. o.endpoints = eps
  BY <1>2, <1>3 DEF RuleState
<1>5. DOMAIN eps = 1..Len(rs.endpoints)
  BY DEF eps
<1>6. p = IF sel = o.active THEN o ELSE [o EXCEPT !.active = sel, !.ticks = 0]
  BY DEF ProbeRule, Reselect
<1> HIDE DEF o, p, sel
<1>7. o \in RuleState
  BY <1>1 DEF WellFormed
<1>8. p.spec = o.spec /\ p.endpoints = o.endpoints /\ p.active = sel
      /\ p.ticks = IF sel = o.active THEN o.ticks ELSE 0
  BY <1>6, <1>7 DEF RuleState
<1> QED
  BY <1>1, <1>4, <1>5, <1>8 DEF o, p, sel, eps

(* A rule and its log, through the policy's eyes. *)
Capped(n) == IF n < DwellTicks THEN n ELSE DwellTicks

View(rs, outcomes) ==
  [backends |-> rs.spec.backends, outcomes |-> outcomes, healthy |-> UpSet(rs),
   active |-> rs.active, since |-> Capped(rs.ticks)]

LogOf(rs, outcomes) ==
  /\ outcomes = [i \in 1..Len(rs.endpoints) |-> outcomes[i]]
  /\ \A i \in 1..Len(rs.endpoints) : Tells(outcomes[i], rs.endpoints[i])

(* The policy writes a replica off, and trusts it again, when the engine    *)
(* does.                                                                    *)
LEMMA HealthyAgrees ==
  ASSUME NEW e \in EndpointState, NEW s, Tells(s, e), NEW reachable \in BOOLEAN
  PROVE  Observe(e, reachable).up
           <=> \/ Policy!AllLast(Logged(s, reachable), RecoveryChecks, TRUE)
               \/ e.up /\ ~Policy!AllLast(Logged(s, reachable), MaxFails, FALSE)
<1> DEFINE t == Logged(s, reachable)
           o == Observe(e, reachable)
<1>1. Tells(t, o)
  BY ObserveTells
<1>2. RecoveryChecks \in 0..LogWindow /\ MaxFails \in 0..LogWindow
      /\ RecoveryChecks \in Nat /\ MaxFails \in Nat
  BY TunablesPositive, WindowNat
<1>3. t \in Seq(BOOLEAN)
  BY <1>1 DEF Tells
<1>4. Policy!AllLast(t, RecoveryChecks, TRUE) <=> RecoveryChecks <= o.successes
  <2>1. Trailing(t, RecoveryChecks, TRUE) <=> RecoveryChecks <= o.successes
    BY <1>1, <1>2 DEF Tells, Row
  <2>2. Policy!AllLast(t, RecoveryChecks, TRUE) <=> Trailing(t, RecoveryChecks, TRUE)
    BY <1>2, <1>3, TrailingIsAllLast
  <2> QED
    BY <2>1, <2>2
<1>5. Policy!AllLast(t, MaxFails, FALSE) <=> MaxFails <= o.fails
  <2>1. Trailing(t, MaxFails, FALSE) <=> MaxFails <= o.fails
    BY <1>1, <1>2 DEF Tells, Row
  <2>2. Policy!AllLast(t, MaxFails, FALSE) <=> Trailing(t, MaxFails, FALSE)
    BY <1>2, <1>3, TrailingIsAllLast
  <2> QED
    BY <2>1, <2>2
<1>6. o.up <=> RecoveryChecks <= o.successes \/ (e.up /\ ~(MaxFails <= o.fails))
  <2>1. e.up \in BOOLEAN /\ e.fails \in 0..U32Max /\ e.successes \in 0..U32Max
    BY DEF EndpointState
  <2>2. CASE reachable
    <3>1. o.fails = 0 /\ o.successes = SaturatingInc(e.successes, U32Max)
          /\ (o.up <=> e.up \/ SaturatingInc(e.successes, U32Max) >= RecoveryChecks)
      BY <2>1, <2>2 DEF Observe
    <3> QED
      BY <2>1, <3>1, TunablesPositive DEF SaturatingInc
  <2>3. CASE ~reachable
    <3>1. o.successes = 0 /\ o.fails = SaturatingInc(e.fails, U32Max)
          /\ (o.up <=> e.up /\ SaturatingInc(e.fails, U32Max) < MaxFails)
      BY <2>1, <2>3 DEF Observe
    <3> QED
      BY <2>1, <3>1, TunablesPositive DEF SaturatingInc
  <2> QED
    BY <2>2, <2>3
<1> QED
  BY <1>4, <1>5, <1>6

LEMMA Reviewed ==
  ASSUME NEW B, NEW O, NEW H, NEW A, NEW S,
         NEW p \in [backends : B, outcomes : O, healthy : H, active : A, since : S],
         NEW o, NEW h, NEW a, NEW s,
         NEW q, q = [p EXCEPT !.outcomes = o, !.healthy = h, !.active = a, !.since = s]
  PROVE  q = [backends |-> p.backends, outcomes |-> o, healthy |-> h, active |-> a, since |-> s]
OBVIOUS

(* A rule's cycle is one the policy allows, and its log goes on telling.    *)
LEMMA RuleCycleAllowed ==
  ASSUME NEW rs, RuleInv(rs), NEW outcomes, LogOf(rs, outcomes),
         NEW reachable \in SUBSET (1..Len(rs.endpoints)),
         NEW next, next = [i \in 1..Len(rs.endpoints) |-> Logged(outcomes[i], i \in reachable)]
  PROVE  /\ LogOf(ProbeRule(rs, reachable), next)
         /\ View(ProbeRule(rs, reachable), next)
              \in Policy!Successors(View(rs, outcomes), reachable)
<1> DEFINE o == Observed(rs, reachable)
           q == ProbeRule(rs, reachable)
           sel == Selected(o)
           n == Len(rs.endpoints)
           p == View(rs, outcomes)
           since == Capped(o.ticks)
<1>1. /\ WellFormed(o) /\ Len(o.endpoints) = n /\ o.active = rs.active
      /\ o.ticks = SaturatingInc(rs.ticks, U64Max)
  BY ObservedInv
<1>2. /\ q.spec = rs.spec /\ q.endpoints = o.endpoints /\ q.active = sel
      /\ q.ticks = IF sel = rs.active THEN o.ticks ELSE 0
      /\ o.endpoints = [i \in 1..n |-> Observe(rs.endpoints[i], i \in reachable)]
  BY ProbeRuleFields
<1>3. /\ n \in Nat /\ n = Len(rs.spec.backends)
      /\ \A i \in 1..n : rs.endpoints[i] \in EndpointState
      /\ rs.ticks \in 0..U64Max /\ U64Max \in Nat /\ DwellTicks \in Nat
      /\ DwellTicks <= U64Max \div 2
  BY TunablesPositive, DwellNat, WidthAssumption DEF RuleInv, WellFormed, RuleState
<1>4. /\ UpSet(o) # {} => sel \in UpSet(o)
      /\ sel # rs.active =>
           /\ sel \in UpSet(o)
           /\ rs.active \in UpSet(o) => sel < rs.active /\ o.ticks >= DwellTicks
  BY <1>1, SelectedSound
<1>5. DOMAIN next = 1..n /\ \A i \in 1..n : next[i] = Logged(outcomes[i], i \in reachable)
  OBVIOUS
<1>6. ASSUME NEW i \in 1..n
      PROVE  /\ Tells(next[i], o.endpoints[i])
             /\ o.endpoints[i].up
                  <=> \/ Policy!AllLast(next[i], RecoveryChecks, TRUE)
                      \/ rs.endpoints[i].up /\ ~Policy!AllLast(next[i], MaxFails, FALSE)
  <2> DEFINE reached == i \in reachable
  <2>1. next[i] = Logged(outcomes[i], reached) /\ o.endpoints[i] = Observe(rs.endpoints[i], reached)
        /\ reached \in BOOLEAN
    BY <1>2, <1>5
  <2>2. Tells(outcomes[i], rs.endpoints[i]) /\ rs.endpoints[i] \in EndpointState
    BY <1>3 DEF LogOf
  <2> HIDE DEF reached
  <2> QED
    BY <2>1, <2>2, ObserveTells, HealthyAgrees
<1>7. LogOf(q, next)
  BY <1>1, <1>2, <1>5, <1>6 DEF LogOf
<1>8. p.backends = rs.spec.backends /\ p.outcomes = outcomes /\ p.healthy = UpSet(rs)
      /\ p.active = rs.active /\ p.since = Capped(rs.ticks)
  BY DEF View
<1>9. next = [i \in 1..Len(p.backends) |-> Policy!Remember(p.outcomes[i], i \in reachable)]
  BY <1>3, <1>8 DEF Policy!Remember, Policy!Window, Logged, LogWindow
<1>10. UpSet(o) = Policy!Healthy(p, next)
  BY <1>1, <1>3, <1>6, <1>8 DEF UpSet, Policy!Healthy
<1>11. since = IF p.since < DwellTicks THEN p.since + 1 ELSE DwellTicks
  <2>1. \A k \in Nat, d \in Nat, m \in Nat : k <= m /\ d <= m
          => (IF (IF k = m THEN k ELSE k + 1) < d THEN (IF k = m THEN k ELSE k + 1) ELSE d)
             = (IF (IF k < d THEN k ELSE d) < d THEN (IF k < d THEN k ELSE d) + 1 ELSE d)
    OBVIOUS
  <2>2. DwellTicks <= U64Max
    BY <1>3
  <2> QED
    BY <1>1, <1>3, <1>8, <2>1, <2>2 DEF Capped, SaturatingInc
<1>12. UpSet(q) = UpSet(o)
  BY <1>2 DEF UpSet
<1>13. Capped(q.ticks) = IF sel = p.active THEN since ELSE 0
  BY <1>2, <1>3, <1>8 DEF Capped
<1>14. since >= DwellTicks <=> o.ticks >= DwellTicks
  BY <1>1, <1>3 DEF Capped, SaturatingInc
<1> HIDE DEF o, q, sel, n, p, since
<1>15. sel \in Policy!Permitted(p, UpSet(o), since)
  BY <1>4, <1>8, <1>14 DEF Policy!Permitted
<1>16. View(q, next) = [p EXCEPT !.outcomes = next, !.healthy = UpSet(o), !.active = sel,
                                 !.since = IF sel = p.active THEN since ELSE 0]
  <2> DEFINE left == IF sel = p.active THEN since ELSE 0
             up == UpSet(o)
  <2>1. View(q, next) = [backends |-> rs.spec.backends, outcomes |-> next, healthy |-> up,
                         active |-> sel, since |-> left]
    BY <1>2, <1>12, <1>13 DEF View
  <2> HIDE DEF left, up
  <2> DEFINE new == [p EXCEPT !.outcomes = next, !.healthy = up, !.active = sel, !.since = left]
  <2>2. View(q, next) = new
    <3>1. p \in [backends : {p.backends}, outcomes : {p.outcomes}, healthy : {p.healthy},
                 active : {p.active}, since : {p.since}]
      BY DEF p, View
    <3> HIDE DEF new
    <3>2. new = [p EXCEPT !.outcomes = next, !.healthy = up, !.active = sel, !.since = left]
      BY DEF new
    <3>3. new = [backends |-> p.backends, outcomes |-> next, healthy |-> up,
                 active |-> sel, since |-> left]
      BY <3>1, <3>2, Reviewed
    <3> QED
      BY <1>8, <2>1, <3>3
  <2> QED
    BY <2>2 DEF left, up
<1>17. View(q, next) \in Policy!Successors(p, reachable)
  BY <1>9, <1>10, <1>11, <1>15, <1>16 DEF Policy!Successors
<1> QED
  BY <1>7, <1>17 DEF q, p
(* The engine's rules through the policy's eyes. *)
Seen == [r \in DOMAIN rules |-> View(rules[r], log[r])]

LEMMA LogInvIs ==
  LogInv <=> /\ IInv
             /\ DOMAIN log = DOMAIN rules
             /\ \A r \in DOMAIN rules : LogOf(rules[r], log[r])
BY DEF LogInv, LogOf

LEMMA LogInitInv == LogInit => LogInv
BY InitInv DEF LogInit, Init, LogInv

(* A rule pushed anew is the policy's fresh rule. *)
LEMMA FreshAgrees ==
  ASSUME NEW spec \in RuleSpec,
         NEW outcomes, outcomes = [i \in 1..Len(NewRule(spec).endpoints) |-> << >>]
  PROVE  /\ LogOf(NewRule(spec), outcomes)
         /\ View(NewRule(spec), outcomes) = Policy!Fresh(spec.backends)
<1> DEFINE rs == NewRule(spec)
           n == Len(spec.backends)
<1>1. spec.backends \in Seq(Backends) /\ n \in Nat
  BY ListsAssumption DEF RuleSpec
<1>2. rs.endpoints = [i \in 1..n |-> NewEndpoint] /\ rs.spec = spec
      /\ rs.active = (IF spec.backends = << >> THEN 0 ELSE 1) /\ rs.ticks = U64Max \div 2
  BY DEF NewRule
<1>3. Len(rs.endpoints) = n
  BY <1>1, <1>2
<1> HIDE DEF rs
<1>4. LogOf(rs, outcomes)
  BY <1>2, <1>3, NewTells DEF LogOf, rs
<1>5. UpSet(rs) = 1..n
  BY <1>2, <1>3 DEF UpSet, NewEndpoint
<1>6. Capped(rs.ticks) = DwellTicks
  <2>1. DwellTicks \in Nat /\ DwellTicks <= U64Max \div 2 /\ U64Max \in Nat
    BY DwellNat, TunablesPositive, WidthAssumption
  <2> QED
    BY <1>2, <2>1 DEF Capped
<1>7. outcomes = [i \in 1..n |-> << >>]
  BY <1>3 DEF rs
<1>8. View(rs, outcomes) = Policy!Fresh(spec.backends)
  BY <1>2, <1>5, <1>6, <1>7 DEF View, Policy!Fresh
<1> QED
  BY <1>4, <1>8 DEF rs

(* A push maps to the policy's push. *)
LEMMA PushMaps ==
  ASSUME LogInv, LogSetRules
  PROVE  /\ LogInv'
         /\ \E S \in SUBSET RuleIds : \E lists \in [S -> BackendLists] :
              Seen' = [r \in S |->
                         IF r \in DOMAIN rules /\ View(rules[r], log[r]).backends = lists[r]
                         THEN View(rules[r], log[r]) ELSE Policy!Fresh(lists[r])]
<1>1. SetRules
  BY DEF LogSetRules
<1>2. PICK S \in SUBSET RuleIds : \E specs \in [S -> RuleSpec] : rules' = AdoptRules(specs)
  BY <1>1 DEF SetRules
<1>3. PICK specs \in [S -> RuleSpec] : rules' = AdoptRules(specs)
  BY <1>2
<1> DEFINE lists == [r \in S |-> specs[r].backends]
           Kept(r) == r \in DOMAIN rules /\ rules[r].spec.backends = specs[r].backends
<1>4. DOMAIN rules' = S /\ \A r \in S :
        /\ specs[r] \in RuleSpec
        /\ rules'[r] = IF Kept(r) THEN [rules[r] EXCEPT !.spec = specs[r]] ELSE NewRule(specs[r])
  BY <1>3 DEF AdoptRules
<1>5. \A r \in S : rules'[r].spec = specs[r]
  <2> TAKE r \in S
  <2>1. CASE Kept(r)
    <3>1. rules[r] \in RuleState
      BY <2>1 DEF LogInv, IInv, RuleInv, WellFormed
    <3> QED
      BY <1>4, <2>1, <3>1 DEF RuleState
  <2>2. CASE ~Kept(r)
    BY <1>4, <2>2, NewRuleInv
  <2> QED
    BY <2>1, <2>2
<1>6. DOMAIN log' = S /\ \A r \in S :
        log'[r] = IF Kept(r) THEN log[r] ELSE [i \in 1..Len(rules'[r].endpoints) |-> << >>]
  BY <1>4, <1>5 DEF LogSetRules
<1>7. ASSUME NEW r \in S
      PROVE  /\ LogOf(rules'[r], log'[r])
             /\ View(rules'[r], log'[r]) = IF Kept(r) THEN View(rules[r], log[r])
                                           ELSE Policy!Fresh(specs[r].backends)
  <2>1. CASE Kept(r)
    <3>1. rules[r] \in RuleState /\ LogOf(rules[r], log[r])
      BY <2>1, LogInvIs DEF LogInv, IInv, RuleInv, WellFormed
    <3>2. rules'[r] = [rules[r] EXCEPT !.spec = specs[r]] /\ log'[r] = log[r]
      BY <1>4, <1>6, <2>1
    <3>3. /\ rules'[r].spec = specs[r]
          /\ rules'[r].endpoints = rules[r].endpoints
          /\ rules'[r].active = rules[r].active /\ rules'[r].ticks = rules[r].ticks
      BY <3>1, <3>2 DEF RuleState
    <3>4. LogOf(rules'[r], log'[r])
      BY <3>1, <3>2, <3>3 DEF LogOf
    <3>5. View(rules'[r], log'[r]) = View(rules[r], log[r])
      BY <2>1, <3>2, <3>3 DEF View, UpSet
    <3> QED
      BY <2>1, <3>4, <3>5
  <2>2. CASE ~Kept(r)
    <3>1. rules'[r] = NewRule(specs[r]) /\ specs[r] \in RuleSpec
          /\ log'[r] = [i \in 1..Len(NewRule(specs[r]).endpoints) |-> << >>]
      BY <1>4, <1>6, <2>2
    <3> DEFINE out == log'[r]
    <3> HIDE DEF out
    <3>2. LogOf(NewRule(specs[r]), out)
          /\ View(NewRule(specs[r]), out) = Policy!Fresh(specs[r].backends)
      BY <3>1, FreshAgrees DEF out
    <3> QED
      BY <2>2, <3>1, <3>2 DEF out
  <2> QED
    BY <2>1, <2>2
<1>8. LogInv'
  <2>1. IInv'
    BY <1>1, SetRulesInv DEF LogInv
  <2>2. \A r \in S : LogOf(rules'[r], log'[r])
    BY <1>7
  <2> QED
    BY <1>4, <1>6, <2>1, <2>2 DEF LogInv, LogOf
<1>9. lists \in [S -> BackendLists]
  BY <1>4 DEF RuleSpec
<1>10. Seen' = [r \in S |-> View(rules'[r], log'[r])]
  BY <1>4 DEF Seen
<1>11. \A r \in S : View(rules'[r], log'[r])
                    = IF r \in DOMAIN rules /\ View(rules[r], log[r]).backends = lists[r]
                      THEN View(rules[r], log[r]) ELSE Policy!Fresh(lists[r])
  <2> TAKE r \in S
  <2>1. View(rules[r], log[r]).backends = rules[r].spec.backends /\ lists[r] = specs[r].backends
    BY DEF View
  <2> QED
    BY <1>7, <2>1
<1> HIDE DEF lists, Kept
<1> QED
  BY <1>8, <1>9, <1>10, <1>11

(* A probe cycle maps to the policy's cycle. *)
LEMMA CycleMaps ==
  ASSUME LogInv, LogProbeAndDecide
  PROVE  /\ LogInv'
         /\ DOMAIN rules # {} /\ DOMAIN rules' = DOMAIN rules
         /\ \A r \in DOMAIN rules :
              \E answered \in SUBSET (1..Len(View(rules[r], log[r]).backends)) :
                View(rules'[r], log'[r])
                  \in Policy!Successors(View(rules[r], log[r]), answered)
<1>1. PICK answered \in SUBSET Replicas :
        /\ FoldProbes(answered)
        /\ log' = [r \in DOMAIN rules |->
                    [i \in DOMAIN log[r] |-> Logged(log[r][i], <<r, i>> \in answered)]]
  BY DEF LogProbeAndDecide
<1> DEFINE reach(r) == {i \in 1..Len(rules[r].endpoints) : <<r, i>> \in answered}
<1>2. /\ DOMAIN rules # {} /\ DOMAIN rules' = DOMAIN rules /\ DOMAIN log' = DOMAIN rules
      /\ \A r \in DOMAIN rules : rules'[r] = ProbeRule(rules[r], reach(r))
  BY <1>1 DEF FoldProbes, LogProbeAndDecide, IsActive
<1>3. ASSUME NEW r \in DOMAIN rules
      PROVE  /\ LogOf(rules'[r], log'[r])
             /\ View(rules'[r], log'[r])
                  \in Policy!Successors(View(rules[r], log[r]), reach(r))
             /\ reach(r) \in SUBSET (1..Len(View(rules[r], log[r]).backends))
  <2>1. RuleInv(rules[r]) /\ LogOf(rules[r], log[r])
    BY LogInvIs DEF IInv
  <2>2. DOMAIN log[r] = 1..Len(rules[r].endpoints)
    BY <2>1 DEF LogOf
  <2>3. log'[r] = [i \in 1..Len(rules[r].endpoints) |-> Logged(log[r][i], i \in reach(r))]
    BY <1>1, <2>2
  <2>4. reach(r) \in SUBSET (1..Len(rules[r].endpoints))
    OBVIOUS
  <2>5. View(rules[r], log[r]).backends = rules[r].spec.backends
        /\ Len(rules[r].spec.backends) = Len(rules[r].endpoints)
    BY <2>1 DEF View, RuleInv, WellFormed
  <2> DEFINE out == log'[r]
             rs == rules[r]
             old == log[r]
             reached == reach(r)
  <2>6. rules'[r] = ProbeRule(rs, reached)
    BY <1>2
  <2> HIDE DEF out, rs, old, reached
  <2>7. LogOf(ProbeRule(rs, reached), out)
        /\ View(ProbeRule(rs, reached), out) \in Policy!Successors(View(rs, old), reached)
    <3>1. out = [i \in 1..Len(rs.endpoints) |-> Logged(old[i], i \in reached)]
      BY <2>3 DEF out, rs, old, reached
    <3>2. RuleInv(rs) /\ LogOf(rs, old) /\ reached \in SUBSET (1..Len(rs.endpoints))
      BY <2>1, <2>4 DEF rs, old, reached
    <3> QED
      BY <3>1, <3>2, RuleCycleAllowed
  <2> QED
    BY <2>4, <2>5, <2>6, <2>7 DEF out, rs, old, reached
<1>4. IInv'
  <2>1. ProbeAndDecide
    BY <1>1 DEF ProbeAndDecide, LogProbeAndDecide
  <2> QED
    BY <2>1, ProbeAndDecideInv DEF LogInv
<1>5. LogInv'
  BY <1>2, <1>3, <1>4 DEF LogInv, LogOf
<1> HIDE DEF reach
<1> QED
  BY <1>2, <1>3, <1>5

(* FailoverPolicy: the streaks, which saturate and which a probe's opposite *)
(* outcome clears, and the ticks, which saturate, drive the engine exactly  *)
(* as the raw outcomes and the cycles since the last switch would: every    *)
(* push and every probe cycle is a step the policy allows.                  *)
THEOREM EngineImplementsPolicy == LogSpec => ImplementsPolicy
<1>1. LogInit => Policy!PolicyInit
  BY DEF LogInit, Init, Policy!PolicyInit
<1>2. LogInv /\ [LogNext]_<<rules, log>> => LogInv'
  <2> SUFFICES ASSUME LogInv, [LogNext]_<<rules, log>> PROVE LogInv'
    OBVIOUS
  <2>1. CASE UNCHANGED <<rules, log>>
    BY <2>1 DEF LogInv, IInv
  <2> QED
    BY <2>1, PushMaps, CycleMaps DEF LogNext
<1>3. LogInv /\ LogSetRules => Policy!Push
  BY PushMaps DEF Policy!Push, Seen, View, Capped
<1>4. LogInv /\ LogProbeAndDecide => Policy!Cycle
  BY CycleMaps DEF Policy!Cycle, View, Capped
<1>5. LogInv /\ [LogNext]_<<rules, log>>
        => [Policy!Push \/ Policy!Cycle]_
             [r \in DOMAIN rules |->
               [backends |-> rules[r].spec.backends,
                outcomes |-> log[r],
                healthy  |-> UpSet(rules[r]),
                active   |-> rules[r].active,
                since    |-> IF rules[r].ticks < DwellTicks
                             THEN rules[r].ticks ELSE DwellTicks]]
  <2> SUFFICES ASSUME LogInv, UNCHANGED <<rules, log>>
               PROVE  UNCHANGED [r \in DOMAIN rules |->
                 [backends |-> rules[r].spec.backends,
                  outcomes |-> log[r],
                  healthy  |-> UpSet(rules[r]),
                  active   |-> rules[r].active,
                  since    |-> IF rules[r].ticks < DwellTicks
                               THEN rules[r].ticks ELSE DwellTicks]]
    BY <1>3, <1>4 DEF LogNext
  <2> QED
    BY DEF UpSet
<1> QED
  BY LogInitInv, <1>1, <1>2, <1>5, PTL DEF LogSpec, ImplementsPolicy, Policy!PolicySpec
(* The log only observes: what holds of the engine holds of it with its log. *)
THEOREM LogOnlyObserves == LogSpec => Spec
<1>1. LogInit => Init
  BY DEF LogInit
<1>2. [LogNext]_<<rules, log>> => [Next]_rules
  BY DEF LogNext, LogSetRules, LogProbeAndDecide, Next, ProbeAndDecide
<1> QED
  BY <1>1, <1>2, PTL DEF LogSpec, Spec

-----------------------------------------------------------------------------
(* The probe loop around the engine                                         *)

(* However the loop pushes, probes and drops cycles, the engine makes its   *)
(* own steps only.                                                          *)
LEMMA LoopSteps == [LoopNext]_vars => [Next]_rules
<1>1. Answered \in SUBSET Replicas
  BY DEF Answered
<1> QED
  BY <1>1 DEF LoopNext, NetworkChanges, ReceivePush, ProbeTick, CycleCompletes,
              CycleExceedsBudget, Next, ProbeAndDecide, vars

(* A replica's streak after the cycle is of the outcome the report shows.   *)
LEMMA CycleMatches ==
  ASSUME IInv, CycleCompletes
  PROVE  HealthMatchesEngine'
<1>1. /\ \A r \in DOMAIN rules :
           rules'[r] = ProbeRule(rules[r], {i \in 1..Len(rules[r].endpoints) :
                                              <<r, i>> \in Answered})
      /\ DOMAIN rules' = DOMAIN rules
      /\ last_health' = {<<p[1], p[2], p \in Answered>> : p \in Replicas}
  BY DEF CycleCompletes, FoldProbes
<1>2. ASSUME NEW r \in DOMAIN rules, NEW i \in 1..Len(rules[r].endpoints)
      PROVE  /\ Len(rules'[r].endpoints) = Len(rules[r].endpoints)
             /\ <<r, i>> \in Answered => rules'[r].endpoints[i].successes > 0
             /\ <<r, i>> \notin Answered => rules'[r].endpoints[i].fails > 0
  <2> DEFINE reach == {j \in 1..Len(rules[r].endpoints) : <<r, j>> \in Answered}
             rs == rules[r]
  <2>1. RuleInv(rs) /\ rules'[r] = ProbeRule(rs, reach) /\ (i \in reach <=> <<r, i>> \in Answered)
    BY <1>1 DEF IInv
  <2>2. rs.endpoints[i] \in EndpointState
    BY <2>1 DEF RuleInv, WellFormed, RuleState
  <2> HIDE DEF reach
  <2>3. /\ rules'[r].endpoints = Observed(rs, reach).endpoints
        /\ Observed(rs, reach).endpoints
             = [j \in 1..Len(rs.endpoints) |-> Observe(rs.endpoints[j], j \in reach)]
        /\ Len(Observed(rs, reach).endpoints) = Len(rs.endpoints)
    BY <2>1, ProbeRuleFields, ObservedInv
  <2>4. rules'[r].endpoints[i] = Observe(rs.endpoints[i], i \in reach)
    BY <2>3
  <2>5. SaturatingInc(rs.endpoints[i].fails, U32Max) > 0
        /\ SaturatingInc(rs.endpoints[i].successes, U32Max) > 0
    BY <2>2, TunablesPositive DEF EndpointState, SaturatingInc
  <2> QED
    BY <2>1, <2>3, <2>4, <2>5 DEF Observe
<1>3. Replicas' = Replicas
  <2>1. \A r \in DOMAIN rules : Len(rules'[r].endpoints) = Len(rules[r].endpoints)
    <3> TAKE r \in DOMAIN rules
    <3> DEFINE reach == {j \in 1..Len(rules[r].endpoints) : <<r, j>> \in Answered}
               rs == rules[r]
    <3>1. RuleInv(rs) /\ rules'[r] = ProbeRule(rs, reach)
      BY <1>1 DEF IInv
    <3> HIDE DEF reach
    <3>2. ProbeRule(rs, reach).endpoints = Observed(rs, reach).endpoints
      BY <3>1, ProbeRuleFields
    <3>3. Len(Observed(rs, reach).endpoints) = Len(rs.endpoints)
      BY <3>1, ObservedInv
    <3> QED
      BY <3>1, <3>2, <3>3
  <2> QED
    BY <1>1, <2>1 DEF Replicas
<1>4. \A p \in Replicas : /\ p = <<p[1], p[2]>> /\ p[1] \in DOMAIN rules
                          /\ p[2] \in 1..Len(rules[p[1]].endpoints)
  BY DEF Replicas
<1>5. {<<h[1], h[2]>> : h \in last_health'} = Replicas
  <2> DEFINE H == last_health'
  <2>1. H = {<<p[1], p[2], p \in Answered>> : p \in Replicas}
    BY <1>1
  <2> HIDE DEF H
  <2>2. ASSUME NEW h \in H PROVE <<h[1], h[2]>> \in Replicas
    <3>1. PICK p \in Replicas : h = <<p[1], p[2], p \in Answered>>
      BY <2>1
    <3> QED
      BY <1>4, <3>1
  <2>3. ASSUME NEW p \in Replicas PROVE \E h \in H : p = <<h[1], h[2]>>
    <3> DEFINE h == <<p[1], p[2], p \in Answered>>
    <3>1. h \in H
      BY <2>1
    <3>2. h[1] = p[1] /\ h[2] = p[2]
      OBVIOUS
    <3> QED
      BY <1>4, <3>1, <3>2
  <2> QED
    BY <2>2, <2>3 DEF H
<1>6. ASSUME NEW h \in last_health'
      PROVE  LET e == rules'[h[1]].endpoints[h[2]]
             IN  IF h[3] THEN e.successes > 0 ELSE e.fails > 0
  <2>1. PICK p \in Replicas : h = <<p[1], p[2], p \in Answered>>
    BY <1>1
  <2>2. h[1] = p[1] /\ h[2] = p[2] /\ (h[3] <=> <<p[1], p[2]>> \in Answered)
    BY <1>4, <2>1
  <2> QED
    BY <1>2, <1>4, <2>2
<1> QED
  BY <1>3, <1>5, <1>6 DEF HealthMatchesEngine

(* The probe loop implements the engine's specification: a cycle that is    *)
(* dropped for its budget, and whatever the network does, is nothing to it. *)
THEOREM LoopRunsTheEngine == LoopSpec => Spec
<1>1. LoopInit => Init
  BY DEF LoopInit
<1> QED
  BY <1>1, LoopSteps, PTL DEF LoopSpec, Spec

(* HealthMatchesEngine: a report's health is of the replicas the engine     *)
(* holds and of the cycle its streaks were last folded from, so a push      *)
(* between a cycle and a report never leaves old results beside new rules.  *)
THEOREM HealthIsTheEngines == LoopSpec => []HealthMatchesEngine
<1>1. LoopInit => IInv /\ HealthMatchesEngine
  BY InitInv DEF LoopInit, HealthMatchesEngine
<1>2. IInv /\ HealthMatchesEngine /\ [LoopNext]_vars => (IInv /\ HealthMatchesEngine)'
  <2> SUFFICES ASSUME IInv, HealthMatchesEngine, [LoopNext]_vars
               PROVE  IInv' /\ HealthMatchesEngine'
    OBVIOUS
  <2>1. IInv'
    BY LoopSteps, NextInv
  <2>2. CASE CycleCompletes
    BY <2>1, <2>2, CycleMatches
  <2>3. CASE ReceivePush
    BY <2>1, <2>3 DEF ReceivePush, HealthMatchesEngine
  <2>4. CASE UNCHANGED <<rules, last_health>>
    BY <2>1, <2>4 DEF HealthMatchesEngine, Replicas
  <2> QED
    BY <2>2, <2>3, <2>4 DEF LoopNext, NetworkChanges, ProbeTick, CycleExceedsBudget, vars
<1> QED
  BY <1>1, <1>2, PTL DEF LoopSpec
=============================================================================
