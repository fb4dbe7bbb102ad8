--------------------------- MODULE CapacityProofs ---------------------------
(***************************************************************************)
(* Proofs about the traffic account, for any traffic, any number of resets, *)
(* of earlier sockets and of reports under way, read in any order.          *)
(***************************************************************************)
EXTENDS Capacity, TLAPS

(* Reading b may have been taken after reading a: the counters grew by no   *)
(* more since than what the node carried since, and if their sum shrank     *)
(* there is a new epoch.                                                    *)
Before(a, b) ==
  /\ \A d \in {"tx", "rx"} : /\ a.carried[d] <= b.carried[d]
                             /\ b.at[d] + a.carried[d] <= b.carried[d] + a.at[d]
  /\ a.epoch <= b.epoch
  /\ a.epoch = b.epoch => Total(a.at) <= Total(b.at)

(* A reading of the past: the collector has not sampled less since.         *)
Past(a) ==
  /\ \A d \in {"tx", "rx"} : /\ a.carried[d] <= carried[d]
                             /\ nic[d] + a.carried[d] <= carried[d] + a.at[d]
  /\ a.epoch <= epoch
  /\ a.epoch = epoch
       => \/ Total(a.at) = 0
          \/ last # NoSample /\ Total(a.at) <= Total(last)

(* Every reading there is. *)
Known ==
  {NoReading, mem.last, row.last}
    \cup {wire[i] : i \in DOMAIN wire}
    \cup UNION {{old_wire[s][i] : i \in DOMAIN old_wire[s]} : s \in Earlier}

(* An account is covered by what the node had carried at its last reading   *)
(* and what is counted again.                                               *)
Covered(state) == state.usage <= Billed(state.last.carried) + state.again

(* Whatever the order they arrive in, the readings were taken one after the *)
(* other.                                                                   *)
Account ==
  /\ \A a \in Known : Past(a)
  /\ \A a, b \in Known : Before(a, b) \/ Before(b, a)
  /\ Covered(mem) /\ Covered(row)

(* The rest of TypeOK. *)
RestTyped ==
  /\ last \in Counters \cup {NoSample} /\ cap \in Caps
  /\ saturation \in {"normal", "saturated"}
  /\ enter_windows \in 0..SatWindows - 1 /\ exit_windows \in 0..SatWindows - 1
  /\ levels \in Seq(Levels) /\ base \in Counters /\ unaccounted \in BOOLEAN

(* What an account is typed by; the counters must not be ahead of what was  *)
(* carried, or they would leave their range.                                *)
Typed ==
  /\ carried \in Counters /\ nic \in Counters
  /\ \A d \in {"tx", "rx"} : nic[d] <= carried[d]
  /\ epoch \in 0..MaxEpochs /\ direction \in Directions
  /\ wire \in Seq(Reading) /\ old_wire \in [Earlier -> Seq(Reading)]
  /\ mem \in CapacityState /\ row \in CapacityState

-----------------------------------------------------------------------------
(* Lemmas about the operators *)

LEMMA ZeroTyped == Zero \in Counters /\ NoBaseline \in CapacityState
BY BoundsAssumption DEF Zero, Counters, NoBaseline, NoReading, CapacityState, Reading

(* Billed counts at most the total, and more traffic is not billed less.    *)
LEMMA BilledTyped ==
  ASSUME direction \in Directions, NEW c \in [tx : Nat, rx : Nat]
  PROVE  Billed(c) \in Nat
BY DEF Directions, Billed, Total

LEMMA BilledMonotonic ==
  ASSUME direction \in Directions,
         NEW b \in [tx : Nat, rx : Nat], NEW c \in [tx : Nat, rx : Nat],
         b.tx <= c.tx, b.rx <= c.rx
  PROVE  Billed(b) <= Billed(c)
BY DEF Directions, Billed, Total

(* The traffic between two readings is billed once. *)
LEMMA BilledDelta ==
  ASSUME direction \in Directions,
         NEW a \in Reading, NEW r \in Reading, Before(a, r), Monotonic(a.at, r.at)
  PROVE  Billed(Minus(r.at, a.at)) \in Nat
         /\ Billed(a.carried) + Billed(Minus(r.at, a.at)) <= Billed(r.carried)
BY BoundsAssumption
   DEF Directions, Billed, Total, Minus, Monotonic, Before, Reading, Counters

(* Of the same epoch and not below the baseline, an older reading is the    *)
(* baseline.                                                                *)
LEMMA OlderAddsNothing ==
  ASSUME direction \in Directions,
         NEW a \in Reading, NEW r \in Reading, Before(r, a), r.epoch = a.epoch,
         Monotonic(a.at, r.at)
  PROVE  Billed(Minus(r.at, a.at)) = 0
<1>1. a.at \in [tx : Nat, rx : Nat] /\ r.at \in [tx : Nat, rx : Nat]
  BY BoundsAssumption DEF Reading, Counters
<1>2. Total(r.at) <= Total(a.at) /\ a.at.tx <= r.at.tx /\ a.at.rx <= r.at.rx
  BY DEF Before, Monotonic
<1>3. r.at.tx - a.at.tx = 0 /\ r.at.rx - a.at.rx = 0
  BY <1>1, <1>2 DEF Total
<1> QED
  BY <1>3 DEF Minus, Billed, Total

(* What a reading is behind its baseline, if it is.                         *)
LEMMA BehindTyped ==
  ASSUME direction \in Directions, NEW a \in Reading, NEW r \in Reading
  PROVE  /\ Behind(a, r) \in Nat
         /\ Billed(a.carried) \in Nat /\ Billed(r.carried) \in Nat
         /\ Billed(a.carried) <= Billed(r.carried) + Behind(a, r)
         /\ Before(a, r) => Behind(a, r) = 0
<1>1. a.carried \in [tx : Nat, rx : Nat] /\ r.carried \in [tx : Nat, rx : Nat]
  BY BoundsAssumption DEF Reading, Counters
<1>2. Billed(a.carried) \in Nat /\ Billed(r.carried) \in Nat
  BY <1>1, BilledTyped
<1>3. Before(a, r) => Billed(a.carried) <= Billed(r.carried)
  BY <1>1, BilledMonotonic DEF Before
<1> QED
  BY <1>2, <1>3 DEF Behind

(* What apply_capacity adds: nothing, or what grew since the baseline.      *)
LEMMA AccountedRecord ==
  ASSUME direction \in Directions, NEW prior \in CapacityState, NEW r \in Reading
  PROVE  /\ Accounted(prior, r) \in CapacityState
         /\ Accounted(prior, r).last = r
         /\ Accounted(prior, r).has_counter_baseline
         /\ Accounted(prior, r).again = prior.again + Behind(prior.last, r)
         /\ Accounted(prior, r).usage
              = IF /\ prior.has_counter_baseline /\ r.epoch = prior.last.epoch
                   /\ Monotonic(prior.last.at, r.at)
                THEN prior.usage + Billed(Minus(r.at, prior.last.at)) ELSE prior.usage
<1> DEFINE a == prior.last
<1>1. a \in Reading /\ prior.usage \in Nat /\ prior.again \in Nat
  BY DEF CapacityState
<1>2. Behind(a, r) \in Nat
  BY <1>1, BehindTyped
<1>3. Monotonic(a.at, r.at) => Minus(r.at, a.at) \in [tx : Nat, rx : Nat]
  BY <1>1, BoundsAssumption DEF Minus, Monotonic, Reading, Counters
<1>4. Monotonic(a.at, r.at) => Billed(Minus(r.at, a.at)) \in Nat
  BY <1>3, BilledTyped
<1> HIDE DEF a
<1> QED
  BY <1>1, <1>2, <1>4 DEF Accounted, Rebased, CapacityState, a

(* An account stays covered when it takes in another reading. *)
LEMMA AccountedCovered ==
  ASSUME direction \in Directions, NEW prior \in CapacityState, NEW r \in Reading,
         Before(prior.last, r) \/ Before(r, prior.last), Covered(prior)
  PROVE  Covered(Accounted(prior, r))
<1> DEFINE a == prior.last
           new == Accounted(prior, r)
           Counts == /\ prior.has_counter_baseline /\ r.epoch = a.epoch
                     /\ Monotonic(a.at, r.at)
<1>1. a \in Reading /\ prior.usage \in Nat /\ prior.again \in Nat
  BY DEF CapacityState
<1>2. /\ new.last = r /\ new.again = prior.again + Behind(a, r)
      /\ Counts => new.usage = prior.usage + Billed(Minus(r.at, a.at))
      /\ ~Counts => new.usage = prior.usage
  BY AccountedRecord
<1>3. prior.usage <= Billed(a.carried) + prior.again
  BY DEF Covered
<1>4. /\ Behind(a, r) \in Nat
      /\ Billed(a.carried) \in Nat /\ Billed(r.carried) \in Nat
      /\ Billed(a.carried) <= Billed(r.carried) + Behind(a, r)
      /\ Before(a, r) => Behind(a, r) = 0
  BY <1>1, BehindTyped
<1>5. Counts /\ Before(a, r)
        => Billed(Minus(r.at, a.at)) \in Nat
           /\ Billed(a.carried) + Billed(Minus(r.at, a.at)) <= Billed(r.carried)
  BY <1>1, BilledDelta
<1>6. Counts /\ Before(r, a) => Billed(Minus(r.at, a.at)) = 0
  BY <1>1, OlderAddsNothing
<1>7. Before(a, r) \/ Before(r, a)
  OBVIOUS
<1> HIDE DEF a, new, Counts
<1>8. CASE ~Counts
  BY <1>1, <1>2, <1>3, <1>4, <1>8 DEF Covered, new
<1>9. CASE Counts /\ Before(a, r)
  BY <1>1, <1>2, <1>3, <1>4, <1>5, <1>9 DEF Covered, new
<1>10. CASE Counts /\ Before(r, a)
  BY <1>1, <1>2, <1>3, <1>4, <1>6, <1>10 DEF Covered, new
<1> QED
  BY <1>7, <1>8, <1>9, <1>10 DEF new

LEMMA EmptyCovered ==
  direction \in Directions => Covered(NoBaseline)
BY DEF Covered, NoBaseline, NoReading, Billed, Total, Zero, Directions

LEMMA KnownTyped ==
  ASSUME Typed
  PROVE  /\ Known \subseteq Reading
         /\ NoReading \in Known /\ mem.last \in Known /\ row.last \in Known
         /\ \A i \in DOMAIN wire : wire[i] \in Known
         /\ \A s \in Earlier : \A i \in DOMAIN old_wire[s] : old_wire[s][i] \in Known
<1>1. NoReading \in Reading
  BY BoundsAssumption DEF NoReading, Zero, Reading, Counters
<1>2. mem.last \in Reading /\ row.last \in Reading
  BY DEF Typed, CapacityState
<1>3. \A i \in DOMAIN wire : wire[i] \in Reading
  BY DEF Typed
<1>4. ASSUME NEW s \in Earlier, NEW i \in DOMAIN old_wire[s]
      PROVE  old_wire[s][i] \in Reading
  <2>1. old_wire[s] \in Seq(Reading)
    BY DEF Typed
  <2> QED
    BY <2>1
<1> QED
  BY <1>1, <1>2, <1>3, <1>4 DEF Known

(* Nothing new is known, and what is past stays so.                         *)
LEMMA ChainKept ==
  ASSUME Account, Known' \subseteq Known,
         ASSUME NEW a \in Known, Past(a) PROVE Past(a)',
         Covered(mem)', Covered(row)'
  PROVE  Account'
<1>1. \A a \in Known : Past(a)'
  BY DEF Account
<1>2. \A a \in Known' : Past(a)'
  BY <1>1
<1>3. \A a, b \in Known' : Before(a, b)' \/ Before(b, a)'
  BY DEF Account, Before, Total
<1> QED
  BY <1>2, <1>3 DEF Account

(* Nothing but the present moved, and it moved on.                          *)
LEMMA PresentMoves ==
  ASSUME Account, UNCHANGED <<wires, mem, row, direction>>,
         ASSUME NEW a \in Known, Past(a) PROVE Past(a)'
  PROVE  Account'
<1>1. Known' = Known
  BY DEF Known, wires
<1>2. Covered(mem)' /\ Covered(row)'
  BY DEF Account, Covered, Billed, Total
<1> QED
  BY <1>1, <1>2, ChainKept

-----------------------------------------------------------------------------
(* Typed is inductive *)

LEMMA EmptySeq == ASSUME NEW S PROVE << >> \in Seq(S)
OBVIOUS

LEMMA TypedInit == Init => Typed
BY ZeroTyped, EmptySeq, BoundsAssumption DEF Init, Typed, Counters, Zero

(* What the panel reads of a socket's readings. *)
LEMMA HeadAndTail ==
  ASSUME NEW q \in Seq(Reading), q # << >>
  PROVE  /\ Head(q) \in Reading /\ Tail(q) \in Seq(Reading) /\ Head(q) = q[1]
         /\ \A i \in DOMAIN Tail(q) : i + 1 \in DOMAIN q /\ Tail(q)[i] = q[i + 1]
         /\ 1 \in DOMAIN q
OBVIOUS

(* What a socket that ends leaves for the panel to read.                    *)
LEMMA Leftover ==
  ASSUME NEW q \in Seq(Reading), NEW k \in 0..Len(q)
  PROVE  /\ SubSeq(q, 1, k) \in Seq(Reading)
         /\ \A i \in DOMAIN SubSeq(q, 1, k) : i \in DOMAIN q /\ SubSeq(q, 1, k)[i] = q[i]
<1>1. SubSeq(q, 1, k) \in Seq(Reading) /\ Len(SubSeq(q, 1, k)) = k
  OBVIOUS
<1>2. \A i \in 1..k : SubSeq(q, 1, k)[i] = q[i]
  OBVIOUS
<1> QED
  BY <1>1, <1>2

LEMMA LeftoverTyped ==
  ASSUME Typed, SocketEnds
  PROVE  /\ wire' \in Seq(Reading) /\ old_wire' \in [Earlier -> Seq(Reading)]
         /\ Known' \subseteq Known \cup {mem'.last, row'.last}
<1>1. PICK s \in Earlier, k \in 0..Len(wire) :
        old_wire' = [old_wire EXCEPT ![s] = SubSeq(wire, 1, k)]
  BY DEF SocketEnds
<1> DEFINE left == SubSeq(wire, 1, k)
<1>2. left \in Seq(Reading) /\ \A i \in DOMAIN left : i \in DOMAIN wire /\ left[i] = wire[i]
  BY Leftover DEF Typed
<1>3. wire' = << >>
  BY DEF SocketEnds
<1>4. wire' \in Seq(Reading) /\ DOMAIN wire' = {}
  BY <1>3, EmptySeq
<1>5. old_wire' = [old_wire EXCEPT ![s] = left]
  BY <1>1
<1> HIDE DEF left
<1>6. old_wire' \in [Earlier -> Seq(Reading)]
  BY <1>2, <1>5 DEF Typed
<1>7. ASSUME NEW z \in Earlier, NEW i \in DOMAIN old_wire'[z]
      PROVE  old_wire'[z][i] \in Known
  <2>1. CASE z = s
    <3>1. old_wire'[z] = left
      BY <1>5, <2>1 DEF Typed
    <3> QED
      BY <1>2, <1>7, <3>1, KnownTyped
  <2>2. CASE z # s
    <3>1. old_wire'[z] = old_wire[z]
      BY <1>5, <2>2 DEF Typed
    <3> QED
      BY <1>7, <3>1, KnownTyped
  <2> QED
    BY <2>1, <2>2
<1> QED
  BY <1>4, <1>6, <1>7, KnownTyped DEF Known

(* What is read of a socket was known. *)
LEMMA OldRead ==
  ASSUME Typed, NEW s \in Earlier, old_wire[s] # << >>,
         old_wire' = [old_wire EXCEPT ![s] = Tail(@)], wire' = wire
  PROVE  /\ Head(old_wire[s]) \in Reading /\ Head(old_wire[s]) \in Known
         /\ old_wire' \in [Earlier -> Seq(Reading)]
         /\ Known' \subseteq Known \cup {mem'.last, row'.last}
<1> DEFINE q == old_wire[s]
<1>1. q \in Seq(Reading) /\ q # << >>
  BY DEF Typed
<1>2. /\ Head(q) \in Reading /\ Tail(q) \in Seq(Reading) /\ Head(q) = q[1]
      /\ \A i \in DOMAIN Tail(q) : i + 1 \in DOMAIN q /\ Tail(q)[i] = q[i + 1]
      /\ 1 \in DOMAIN q
  <2> HIDE DEF q
  <2> QED
    BY <1>1, HeadAndTail
<1>3. old_wire' \in [Earlier -> Seq(Reading)]
  BY <1>2 DEF Typed
<1>4. ASSUME NEW z \in Earlier, NEW i \in DOMAIN old_wire'[z]
      PROVE  old_wire'[z][i] \in Known
  <2>1. CASE z = s
    <3>1. old_wire'[z] = Tail(q)
      BY <2>1 DEF Typed
    <3>2. i + 1 \in DOMAIN q /\ old_wire'[z][i] = q[i + 1]
      BY <1>2, <1>4, <3>1
    <3> QED
      BY <3>2, KnownTyped
  <2>2. CASE z # s
    <3>1. old_wire'[z] = old_wire[z]
      BY <2>2 DEF Typed
    <3> QED
      BY <1>4, <3>1, KnownTyped
  <2> QED
    BY <2>1, <2>2
<1>5. Head(q) \in Known
  BY <1>2, KnownTyped
<1> QED
  BY <1>2, <1>3, <1>4, <1>5, KnownTyped DEF Known

LEMMA NewRead ==
  ASSUME Typed, wire # << >>, wire' = Tail(wire), old_wire' = old_wire
  PROVE  /\ Head(wire) \in Reading /\ Head(wire) \in Known
         /\ wire' \in Seq(Reading)
         /\ Known' \subseteq Known \cup {mem'.last, row'.last}
<1>1. /\ Head(wire) \in Reading /\ Tail(wire) \in Seq(Reading) /\ Head(wire) = wire[1]
      /\ \A i \in DOMAIN Tail(wire) : i + 1 \in DOMAIN wire /\ Tail(wire)[i] = wire[i + 1]
      /\ 1 \in DOMAIN wire
  BY HeadAndTail DEF Typed
<1> QED
  BY <1>1, KnownTyped DEF Known

LEMMA EpochTyped ==
  ASSUME Typed, Report
  PROVE  epoch' \in 0..MaxEpochs
BY BoundsAssumption DEF Typed, Report, EpochOf

LEMMA HandleTyped ==
  ASSUME Typed, NEW r \in Reading, HandleReport(r) \/ DropReport
  PROVE  mem' \in CapacityState /\ row' \in CapacityState
<1>1. CASE DropReport
  BY <1>1 DEF DropReport, Typed
<1>2. CASE HandleReport(r)
  <2>1. PICK prior \in {mem, row, NoBaseline} :
          mem' = Accounted(prior, r) /\ row' \in {mem', row}
    BY <1>2 DEF HandleReport
  <2>2. prior \in CapacityState
    BY <2>1, ZeroTyped DEF Typed
  <2> QED
    BY <2>1, <2>2, AccountedRecord DEF Typed
<1> QED
  BY <1>1, <1>2

LEMMA TypedStep == Typed /\ [Next]_vars => Typed'
<1> SUFFICES ASSUME Typed, [Next]_vars PROVE Typed'
  OBVIOUS
<1>1. ASSUME NEW d \in {"tx", "rx"}, Carries(d) PROVE Typed'
  <2>1. /\ carried' \in Counters /\ nic' \in Counters
        /\ \A e \in {"tx", "rx"} : nic'[e] <= carried'[e]
    BY <1>1, BoundsAssumption DEF Carries, Typed, Counters
  <2> QED
    BY <1>1, <2>1 DEF Carries, Typed, agentvars, nodevars, wires
<1>2. CASE NicDrops
  <2>1. nic' \in Counters /\ \A e \in {"tx", "rx"} : nic'[e] <= carried[e]
    BY <1>2, BoundsAssumption DEF NicDrops, Typed, Counters
  <2> QED
    BY <1>2, <2>1 DEF NicDrops, Typed, agentvars, nodevars, wires
<1>3. CASE Report
  <2>1. epoch' \in 0..MaxEpochs
    BY <1>3, EpochTyped
  <2>2. [epoch |-> epoch', at |-> nic, carried |-> carried] \in Reading
    BY <2>1 DEF Typed, Reading
  <2>3. wire' \in Seq(Reading)
    BY <1>3, <2>2 DEF Report, Typed
  <2> QED
    BY <1>3, <2>1, <2>3 DEF Report, Typed, nodevars
<1>4. CASE Reconnect \/ AgentRestarts
  <2>1. wire' \in Seq(Reading) /\ old_wire' \in [Earlier -> Seq(Reading)]
    BY <1>4, LeftoverTyped DEF Reconnect, AgentRestarts
  <2>2. epoch' \in 0..MaxEpochs
    BY <1>4, BoundsAssumption DEF Reconnect, AgentRestarts, Typed, agentvars
  <2> QED
    BY <1>4, <2>1, <2>2 DEF Reconnect, AgentRestarts, Typed, nodevars
<1>5. CASE ReceiveOld
  <2>1. PICK s \in Earlier :
          /\ old_wire[s] # << >> /\ (HandleReport(Head(old_wire[s])) \/ DropReport)
          /\ old_wire' = [old_wire EXCEPT ![s] = Tail(@)]
          /\ UNCHANGED <<carried, nic, agentvars, nodevars, wire>>
    BY <1>5 DEF ReceiveOld
  <2>2. Head(old_wire[s]) \in Reading /\ old_wire' \in [Earlier -> Seq(Reading)]
    BY <2>1, OldRead
  <2>3. mem' \in CapacityState /\ row' \in CapacityState
    BY <2>1, <2>2, HandleTyped
  <2> QED
    BY <2>1, <2>2, <2>3 DEF Typed, agentvars, nodevars
<1>6. CASE Receive
  <2>1. Head(wire) \in Reading /\ wire' \in Seq(Reading)
    BY <1>6, NewRead DEF Receive
  <2>2. mem' \in CapacityState /\ row' \in CapacityState
    BY <1>6, <2>1, HandleTyped DEF Receive
  <2> QED
    BY <1>6, <2>1, <2>2 DEF Receive, Typed, agentvars, nodevars
<1>7. CASE EditCap
  BY <1>7 DEF EditCap, Typed, agentvars, wires
<1>8. CASE PanelRestarts
  BY <1>8, ZeroTyped, EmptySeq DEF PanelRestarts, Typed, agentvars, nodevars
<1>9. CASE UNCHANGED vars
  BY <1>9 DEF vars, Typed, agentvars, nodevars, wires
<1> QED
  BY <1>1, <1>2, <1>3, <1>4, <1>5, <1>6, <1>7, <1>8, <1>9 DEF Next

-----------------------------------------------------------------------------
(* The rest of TypeOK *)

LEMMA RestInit == Init => RestTyped
<1> SUFFICES ASSUME Init PROVE RestTyped
  OBVIOUS
<1>1. levels \in Seq(Levels)
  BY EmptySeq DEF Init
<1>2. enter_windows \in 0..SatWindows - 1 /\ exit_windows \in 0..SatWindows - 1
  BY DEF Init, SatWindows
<1> QED
  BY <1>1, <1>2, ZeroTyped DEF Init, RestTyped

(* What debounce_saturation leaves behind. *)
LEMMA DebounceTyped ==
  ASSUME RestTyped, Debounce
  PROVE  /\ saturation' \in {"normal", "saturated"}
         /\ enter_windows' \in 0..SatWindows - 1 /\ exit_windows' \in 0..SatWindows - 1
         /\ levels' \in Seq(Levels)
<1>1. CASE cap = "some"
  <2>1. PICK level \in Levels : Measured(level)
    BY <1>1 DEF Debounce
  <2>2. /\ saturation' \in {"normal", "saturated"}
        /\ enter_windows' \in 0..SatWindows - 1 /\ exit_windows' \in 0..SatWindows - 1
    BY <2>1 DEF Measured, RestTyped, Flips, SatWindows
  <2>3. levels' \in Seq(Levels)
    BY <2>1 DEF Measured, Noted, RestTyped, SatWindows
  <2> QED
    BY <2>2, <2>3
<1>2. CASE cap # "some"
  <2>1. levels' \in Seq(Levels)
    BY <1>2, EmptySeq DEF Debounce, Unmeasured, RestTyped
  <2> QED
    BY <1>2, <2>1 DEF Debounce, Unmeasured, RestTyped, SatWindows
<1> QED
  BY <1>1, <1>2

LEMMA HandleRest ==
  ASSUME Typed, RestTyped, NEW r \in Reading, HandleReport(r) \/ DropReport,
         UNCHANGED <<last, cap>>
  PROVE  RestTyped'
<1>1. CASE DropReport
  BY <1>1 DEF DropReport, RestTyped, satvars
<1>2. CASE HandleReport(r)
  <2>1. base' \in {base, r.at} /\ unaccounted' \in BOOLEAN
    BY <1>2, ZeroTyped DEF HandleReport, RestTyped, Typed, CapacityState
  <2>2. base' \in Counters
    BY <2>1 DEF RestTyped, Reading
  <2>3. Debounce
    BY <1>2 DEF HandleReport
  <2> QED
    BY <2>1, <2>2, <2>3, DebounceTyped DEF RestTyped
<1> QED
  BY <1>1, <1>2

LEMMA RestStep == Typed /\ RestTyped /\ [Next]_vars => RestTyped'
<1> SUFFICES ASSUME Typed, RestTyped, [Next]_vars PROVE RestTyped'
  OBVIOUS
<1>1. CASE Carries("tx") \/ Carries("rx")
  BY <1>1 DEF Carries, RestTyped, agentvars, nodevars, satvars
<1>2. CASE NicDrops
  BY <1>2 DEF NicDrops, RestTyped, agentvars, nodevars, satvars
<1>3. CASE Report
  BY <1>3 DEF Report, Typed, RestTyped, nodevars, satvars
<1>4. CASE Reconnect \/ AgentRestarts
  BY <1>4 DEF Reconnect, AgentRestarts, RestTyped, agentvars, nodevars, satvars
<1>5. CASE ReceiveOld
  <2>1. PICK s \in Earlier :
          /\ old_wire[s] # << >> /\ (HandleReport(Head(old_wire[s])) \/ DropReport)
          /\ old_wire' = [old_wire EXCEPT ![s] = Tail(@)]
          /\ UNCHANGED <<carried, nic, agentvars, nodevars, wire>>
    BY <1>5 DEF ReceiveOld
  <2> QED
    BY <2>1, OldRead, HandleRest DEF agentvars, nodevars
<1>6. CASE Receive
  <2>1. Head(wire) \in Reading
    BY <1>6, NewRead DEF Receive
  <2> QED
    BY <1>6, <2>1, HandleRest DEF Receive, agentvars, nodevars
<1>7. CASE EditCap
  BY <1>7 DEF EditCap, RestTyped, Caps, agentvars, satvars
<1>8. CASE PanelRestarts
  <2>1. levels' \in Seq(Levels)
    BY <1>8, EmptySeq DEF PanelRestarts
  <2>2. enter_windows' \in 0..SatWindows - 1 /\ exit_windows' \in 0..SatWindows - 1
    BY <1>8 DEF PanelRestarts, SatWindows
  <2>3. unaccounted' \in BOOLEAN /\ last' = last /\ cap' = cap /\ base' = base
        /\ saturation' = "normal"
    BY <1>8 DEF PanelRestarts, Typed, RestTyped, CapacityState, agentvars, nodevars
  <2> QED
    BY <2>1, <2>2, <2>3 DEF RestTyped
<1>9. CASE UNCHANGED vars
  BY <1>9 DEF vars, RestTyped, agentvars, nodevars, satvars
<1> QED
  BY <1>1, <1>2, <1>3, <1>4, <1>5, <1>6, <1>7, <1>8, <1>9 DEF Next

(* TypeOK: shapes, and no count of windows reaches the one that flips, for  *)
(* any bounds and whatever order the sockets are read in.                   *)
THEOREM AccountTyped == Spec => []TypeOK
<1>1. Init => Typed /\ RestTyped
  BY TypedInit, RestInit
<1>2. Typed /\ RestTyped /\ [Next]_vars => (Typed /\ RestTyped)'
  BY TypedStep, RestStep
<1>3. Typed /\ RestTyped => TypeOK
  BY DEF Typed, RestTyped, TypeOK
<1> QED
  BY <1>1, <1>2, <1>3, PTL DEF Spec

-----------------------------------------------------------------------------
(* Account is inductive *)

LEMMA AccountInit == Init => Account
<1> SUFFICES ASSUME Init PROVE Account
  OBVIOUS
<1>1. Known = {NoReading}
  BY DEF Init, Known, NoBaseline
<1>2. Past(NoReading) /\ Before(NoReading, NoReading)
  BY DEF Init, Past, Before, NoReading, Zero, Total
<1>3. Covered(mem) /\ Covered(row)
  BY EmptyCovered DEF Init
<1> QED
  BY <1>1, <1>2, <1>3 DEF Account

(* Taking in a reading keeps both accounts covered. *)
LEMMA HandleAccount ==
  ASSUME Typed, Account, NEW r \in Known, HandleReport(r) \/ DropReport,
         UNCHANGED <<direction, carried, nic, epoch, last>>,
         Known' \subseteq Known \cup {mem'.last, row'.last}
  PROVE  Account'
<1>0. r \in Reading
  BY KnownTyped
<1>1. CASE DropReport
  <2>1. mem' = mem /\ row' = row
    BY <1>1 DEF DropReport
  <2>2. Known' \subseteq Known
    BY <2>1, KnownTyped
  <2>3. Covered(mem)' /\ Covered(row)'
    BY <2>1 DEF Account, Covered, Billed, Total
  <2>4. ASSUME NEW a \in Known, Past(a) PROVE Past(a)'
    BY <2>4 DEF Past
  <2> QED
    BY <2>2, <2>3, <2>4, ChainKept
<1>2. CASE HandleReport(r)
  <2>1. PICK prior \in {mem, row, NoBaseline} :
          mem' = Accounted(prior, r) /\ row' \in {mem', row}
    BY <1>2 DEF HandleReport
  <2>2. NoBaseline.last = NoReading
    BY DEF NoBaseline
  <2>3. prior \in CapacityState /\ prior.last \in Known /\ Covered(prior)
    BY <2>1, <2>2, ZeroTyped, EmptyCovered, KnownTyped DEF Typed, Account
  <2>4. Before(prior.last, r) \/ Before(r, prior.last)
    BY <2>3 DEF Account
  <2>5. Covered(Accounted(prior, r)) /\ Accounted(prior, r).last = r
    BY <1>0, <2>3, <2>4, AccountedCovered, AccountedRecord DEF Typed
  <2>6. Covered(mem)' /\ Covered(row)'
    BY <2>1, <2>5 DEF Account, Covered, Billed, Total
  <2>7. Known' \subseteq Known
    BY <2>1, <2>5, KnownTyped
  <2>8. ASSUME NEW a \in Known, Past(a) PROVE Past(a)'
    BY <2>8 DEF Past
  <2> QED
    BY <2>6, <2>7, <2>8, ChainKept
<1> QED
  BY <1>1, <1>2

(* A report adds the present to what is known, after all the rest.          *)
LEMMA ReportAccount ==
  ASSUME Typed, RestTyped, Account, Report
  PROVE  Account'
<1> DEFINE r == [epoch |-> epoch', at |-> nic, carried |-> carried]
<1>1. wire' = Append(wire, r) /\ wire \in Seq(Reading)
  BY DEF Report, Typed
<1>2. r.epoch = epoch' /\ r.at = nic /\ r.carried = carried
  OBVIOUS
<1>3. UNCHANGED <<nic, carried, old_wire, mem, row, direction>> /\ last' = nic
  BY DEF Report, nodevars
<1> HIDE DEF r
<1>4. epoch' = IF last # NoSample /\ Total(nic) < Total(last) THEN epoch + 1 ELSE epoch
  BY DEF Report, EpochOf
<1>5. nic \in Counters /\ last \in Counters \cup {NoSample} /\ epoch \in Nat
      /\ Total(nic) \in Nat /\ Total(last) \in Nat
  BY BoundsAssumption DEF Typed, RestTyped, Counters, NoSample, Total
<1>6. nic # NoSample
  BY <1>5, BoundsAssumption DEF Counters, NoSample
<1> DEFINE Lately(a) ==
             /\ \A d \in {"tx", "rx"} : /\ a.carried[d] <= carried[d]
                                        /\ nic[d] + a.carried[d] <= carried[d] + a.at[d]
             /\ a.epoch <= epoch'
             /\ a.epoch = epoch' => Total(a.at) <= Total(nic)
<1>7. ASSUME NEW a \in Known PROVE Before(a, r) /\ Lately(a)
  <2>1. Past(a) /\ a \in Reading
    BY <1>7, KnownTyped DEF Account
  <2>2. a.epoch \in Nat /\ Total(a.at) \in Nat
    BY <2>1, BoundsAssumption DEF Reading, Counters, Total
  <2>3. a.epoch <= epoch' /\ (a.epoch = epoch' => Total(a.at) <= Total(nic))
    BY <1>4, <1>5, <2>1, <2>2 DEF Past
  <2> QED
    BY <1>2, <2>1, <2>3 DEF Before, Past
<1>8. Lately(r) /\ Before(r, r)
  <2>1. \A d \in {"tx", "rx"} : carried[d] \in Nat /\ nic[d] \in Nat
    BY BoundsAssumption DEF Typed, Counters
  <2>2. epoch' \in Nat /\ Total(r.at) = Total(nic)
    BY <1>2, <1>4, <1>5
  <2> QED
    BY <1>2, <1>5, <2>1, <2>2 DEF Before
<1>9. Known' \subseteq Known \cup {r}
  <2>1. \A i \in DOMAIN wire' : wire'[i] = r \/ (i \in DOMAIN wire /\ wire'[i] = wire[i])
    BY <1>1
  <2>2. \A i \in DOMAIN wire' : wire'[i] \in Known \cup {r}
    BY <2>1, KnownTyped
  <2> QED
    BY <1>3, <2>2, KnownTyped DEF Known
<1>10. Covered(mem)' /\ Covered(row)'
  BY <1>3 DEF Account, Covered, Billed, Total
<1>11. \A a \in Known' : Past(a)'
  <2>1. \A a \in Known' : Lately(a)
    BY <1>7, <1>8, <1>9
  <2> QED
    BY <1>3, <1>6, <2>1 DEF Past, Total
<1>12. \A a, b \in Known' : Before(a, b) \/ Before(b, a)
  BY <1>7, <1>8, <1>9 DEF Account
<1>13. \A a, b \in Known' : Before(a, b)' \/ Before(b, a)'
  BY <1>12 DEF Before, Total
<1> QED
  BY <1>10, <1>11, <1>13 DEF Account

(* What is past stays past: the traffic counted by the system grows with    *)
(* what is carried, and a reset only lowers it.                             *)
LEMMA PresentGoesOn ==
  ASSUME Typed, NEW a \in Known, Past(a), UNCHANGED <<epoch, last>>,
         \A e \in {"tx", "rx"} :
           \E n \in Nat : carried'[e] = carried[e] + n /\ nic'[e] <= nic[e] + n,
         nic' \in Counters
  PROVE  Past(a)'
<1>1. a \in Reading
  BY KnownTyped
<1>2. ASSUME NEW e \in {"tx", "rx"}
      PROVE  /\ a.carried[e] <= carried'[e]
             /\ nic'[e] + a.carried[e] <= carried'[e] + a.at[e]
  <2>1. PICK n \in Nat : carried'[e] = carried[e] + n /\ nic'[e] <= nic[e] + n
    OBVIOUS
  <2>2. /\ a.carried[e] \in Nat /\ a.at[e] \in Nat
        /\ carried[e] \in Nat /\ nic[e] \in Nat /\ nic'[e] \in Nat
    <3>1. /\ a.carried \in [{"tx", "rx"} -> Nat] /\ a.at \in [{"tx", "rx"} -> Nat]
          /\ carried \in [{"tx", "rx"} -> Nat] /\ nic \in [{"tx", "rx"} -> Nat]
          /\ nic' \in [{"tx", "rx"} -> Nat]
      BY <1>1, BoundsAssumption DEF Reading, Counters, Typed
    <3> QED
      BY <3>1
  <2>3. a.carried[e] <= carried[e] /\ nic[e] + a.carried[e] <= carried[e] + a.at[e]
    BY DEF Past
  <2> QED
    BY <2>1, <2>2, <2>3
<1> QED
  BY <1>2 DEF Past, Total

LEMMA AccountStep == Typed /\ RestTyped /\ Account /\ [Next]_vars => Account'
<1> SUFFICES ASSUME Typed, RestTyped, Account, [Next]_vars PROVE Account'
  OBVIOUS
<1>0. \A e \in {"tx", "rx"} : carried[e] \in Nat /\ nic[e] \in Nat
  BY BoundsAssumption DEF Typed, Counters
<1>1. ASSUME NEW d \in {"tx", "rx"}, Carries(d) PROVE Account'
  <2>1. nic' \in Counters
    BY <1>1, TypedStep DEF Typed, Next
  <2>2. ASSUME NEW e \in {"tx", "rx"}
        PROVE  \E n \in Nat : carried'[e] = carried[e] + n /\ nic'[e] <= nic[e] + n
    <3>1. \/ nic'[e] = nic[e] + 1 /\ carried'[e] = carried[e] + 1
          \/ nic'[e] = nic[e] + 0 /\ carried'[e] = carried[e] + 0
      BY <1>0, <1>1 DEF Carries, Typed, Counters
    <3> QED
      BY <1>0, <3>1
  <2>3. ASSUME NEW a \in Known, Past(a) PROVE Past(a)'
    BY <1>1, <2>1, <2>2, <2>3, PresentGoesOn DEF Carries, agentvars
  <2> QED
    BY <1>1, <2>3, PresentMoves DEF Carries, nodevars
<1>2. CASE NicDrops
  <2>1. nic' \in Counters /\ nic'.tx <= nic.tx /\ nic'.rx <= nic.rx /\ carried' = carried
        /\ UNCHANGED <<epoch, last>>
    BY <1>2 DEF NicDrops, agentvars
  <2>2. ASSUME NEW e \in {"tx", "rx"}
        PROVE  \E n \in Nat : carried'[e] = carried[e] + n /\ nic'[e] <= nic[e] + n
    <3>1. nic \in [{"tx", "rx"} -> Nat] /\ nic' \in [{"tx", "rx"} -> Nat]
          /\ carried \in [{"tx", "rx"} -> Nat]
      BY <2>1, BoundsAssumption DEF Typed, Counters
    <3>2. carried'[e] = carried[e] + 0 /\ nic'[e] <= nic[e] + 0
      BY <2>1, <3>1
    <3> QED
      BY <3>2
  <2>3. ASSUME NEW a \in Known, Past(a) PROVE Past(a)'
    BY <2>1, <2>2, <2>3, PresentGoesOn
  <2> QED
    BY <1>2, <2>3, PresentMoves DEF NicDrops, nodevars
<1>3. CASE Report
  BY <1>3, ReportAccount
<1>4. CASE Reconnect \/ AgentRestarts
  <2>1. UNCHANGED <<nic, carried, mem, row, direction>> /\ SocketEnds
    BY <1>4 DEF Reconnect, AgentRestarts, nodevars
  <2>2. Known' \subseteq Known
    BY <2>1, LeftoverTyped, KnownTyped
  <2>3. ASSUME NEW a \in Known, Past(a) PROVE Past(a)'
    <3>1. CASE Reconnect
      BY <2>1, <2>3, <3>1 DEF Reconnect, Past, Total, agentvars
    <3>2. CASE AgentRestarts
      <4>1. a \in Reading
        BY <2>3, KnownTyped
      <4>2. a.epoch \in Nat /\ epoch \in Nat
        BY <4>1, BoundsAssumption DEF Reading, Typed
      <4>3. a.epoch <= epoch /\ epoch' = epoch + 1
        BY <2>3, <3>2 DEF Past, AgentRestarts
      <4>4. a.epoch <= epoch' /\ a.epoch # epoch'
        BY <4>2, <4>3
      <4> QED
        BY <2>1, <2>3, <4>4 DEF Past
    <3> QED
      BY <1>4, <3>1, <3>2
  <2>4. Covered(mem)' /\ Covered(row)'
    BY <2>1 DEF Account, Covered, Billed, Total
  <2> QED
    BY <2>2, <2>3, <2>4, ChainKept
<1>5. CASE ReceiveOld
  <2>1. PICK s \in Earlier :
          /\ old_wire[s] # << >> /\ (HandleReport(Head(old_wire[s])) \/ DropReport)
          /\ old_wire' = [old_wire EXCEPT ![s] = Tail(@)]
          /\ UNCHANGED <<carried, nic, agentvars, nodevars, wire>>
    BY <1>5 DEF ReceiveOld
  <2>2. Head(old_wire[s]) \in Known /\ Known' \subseteq Known \cup {mem'.last, row'.last}
    BY <2>1, OldRead
  <2> QED
    BY <2>1, <2>2, HandleAccount DEF agentvars, nodevars
<1>6. CASE Receive
  <2>1. Head(wire) \in Known /\ Known' \subseteq Known \cup {mem'.last, row'.last}
    BY <1>6, NewRead DEF Receive
  <2> QED
    BY <1>6, <2>1, HandleAccount DEF Receive, agentvars, nodevars
<1>7. CASE EditCap \/ UNCHANGED vars
  <2>1. ASSUME NEW a \in Known, Past(a) PROVE Past(a)'
    BY <1>7, <2>1 DEF Past, Total, EditCap, vars, agentvars
  <2> QED
    BY <1>7, <2>1, PresentMoves DEF EditCap, vars, nodevars, wires
<1>8. CASE PanelRestarts
  <2>1. old_wire' = [s \in Earlier |-> << >>] /\ wire' = << >> /\ mem' = NoBaseline
        /\ row' = row /\ UNCHANGED <<direction, carried, nic, epoch, last>>
    BY <1>8 DEF PanelRestarts, agentvars, nodevars
  <2>2. \A s \in Earlier : DOMAIN old_wire'[s] = {}
    BY <2>1
  <2>3. DOMAIN wire' = {} /\ mem'.last = NoReading
    BY <2>1 DEF NoBaseline
  <2>4. Known' \subseteq Known
    BY <2>1, <2>2, <2>3, KnownTyped DEF Known
  <2>5. ASSUME NEW a \in Known, Past(a) PROVE Past(a)'
    BY <2>1, <2>5 DEF Past, Total
  <2>6. Covered(mem)' /\ Covered(row)'
    BY <2>1, EmptyCovered DEF Typed, Account, Covered, Billed, Total
  <2> QED
    BY <2>4, <2>5, <2>6, ChainKept
<1> QED
  BY <1>1, <1>2, <1>3, <1>4, <1>5, <1>6, <1>7, <1>8 DEF Next

(* OverCountsOnlyAgain: whatever is lost, reset or restarted, and in        *)
(* whatever order any number of sockets are read, the usage exceeds what    *)
(* the node carried by no more than what late readings moved the baseline   *)
(* back over.                                                               *)
THEOREM UsageIsCarried == Spec => []OverCountsOnlyAgain
<1>1. Init => Typed /\ RestTyped /\ Account
  BY TypedInit, RestInit, AccountInit
<1>2. Typed /\ RestTyped /\ Account /\ [Next]_vars => (Typed /\ RestTyped /\ Account)'
  BY TypedStep, RestStep, AccountStep
<1>3. Typed /\ Account => OverCountsOnlyAgain
  <2> SUFFICES ASSUME Typed, Account, NEW state \in {mem, row}
               PROVE  state.usage <= Billed(carried) + state.again
    BY DEF OverCountsOnlyAgain
  <2>1. state \in CapacityState /\ state.last \in Known /\ Covered(state)
    BY KnownTyped DEF Typed, Account
  <2>2. state.usage \in Nat /\ state.again \in Nat
        /\ state.last.carried \in [tx : Nat, rx : Nat] /\ carried \in [tx : Nat, rx : Nat]
    BY <2>1, BoundsAssumption DEF CapacityState, Reading, Counters, Typed
  <2>3. state.last.carried.tx <= carried.tx /\ state.last.carried.rx <= carried.rx
    BY <2>1 DEF Account, Past
  <2>4. Billed(state.last.carried) \in Nat /\ Billed(carried) \in Nat
        /\ Billed(state.last.carried) <= Billed(carried)
    BY <2>2, <2>3, BilledTyped, BilledMonotonic DEF Typed
  <2> QED
    BY <2>1, <2>2, <2>4 DEF Covered
<1> QED
  BY <1>1, <1>2, <1>3, PTL DEF Spec

-----------------------------------------------------------------------------
(* CountsAllItSees.  While nothing is given up, the system shows what the   *)
(* node carried, in one epoch, and no reading says otherwise.               *)

Plain(r) == r.epoch = 0 /\ r.at = r.carried

Uneventful ==
  /\ nic = carried /\ epoch = 0
  /\ last # NoSample => last.tx <= nic.tx /\ last.rx <= nic.rx
  /\ \A a \in Known : Plain(a)

(* The account of all traffic since the first baseline. *)
Balanced(state) ==
  /\ ~state.has_counter_baseline
       => state.usage = 0 /\ state.again = 0 /\ state.last = NoReading
  /\ ~unaccounted /\ state.has_counter_baseline
       => state.usage + Billed(base) = Billed(state.last.at) + state.again

Books ==
  /\ ~unaccounted => Uneventful
  /\ Balanced(mem) /\ Balanced(row)

LEMMA EmptyBalanced == Balanced(NoBaseline)
BY DEF Balanced, NoBaseline

LEMMA BooksInit == Init => Books
<1> SUFFICES ASSUME Init PROVE Books
  OBVIOUS
<1>1. Known = {NoReading}
  BY DEF Init, Known, NoBaseline
<1>2. Uneventful
  BY <1>1 DEF Init, Uneventful, Plain, NoReading
<1>3. mem = NoBaseline /\ row = NoBaseline
  BY DEF Init
<1> QED
  BY <1>2, <1>3, EmptyBalanced DEF Books

(* The traffic of consecutive readings adds up. *)
LEMMA BilledAdds ==
  ASSUME direction \in Directions,
         NEW a \in Counters, NEW b \in Counters, Monotonic(a, b)
  PROVE  Billed(a) + Billed(Minus(b, a)) = Billed(b)
BY BoundsAssumption DEF Directions, Billed, Total, Minus, Monotonic, Counters

(* While readings show what was carried, what a reading adds and what it    *)
(* moves the baseline back over make up for the change of baseline.         *)
LEMMA PlainAccounted ==
  ASSUME Typed, NEW prior \in CapacityState, NEW r \in Reading, NEW b \in Counters,
         prior.has_counter_baseline, Plain(prior.last), Plain(r),
         Before(prior.last, r) \/ Before(r, prior.last),
         prior.usage + Billed(b) = Billed(prior.last.at) + prior.again
  PROVE  Accounted(prior, r).usage + Billed(b) = Billed(r.at) + Accounted(prior, r).again
<1> DEFINE a == prior.last.at
           c == r.at
           behind == Behind(prior.last, r)
           new == Accounted(prior, r)
<1>1. a \in Counters /\ c \in Counters /\ prior.usage \in Nat /\ prior.again \in Nat
      /\ direction \in Directions /\ prior.last \in Reading
  BY DEF CapacityState, Reading, Typed
<1>2. /\ new.again = prior.again + behind
      /\ Monotonic(a, c) => new.usage = prior.usage + Billed(Minus(c, a))
      /\ ~Monotonic(a, c) => new.usage = prior.usage
  BY <1>1, AccountedRecord DEF Plain
<1>3. a \in [tx : Nat, rx : Nat] /\ c \in [tx : Nat, rx : Nat] /\ b \in [tx : Nat, rx : Nat]
  BY <1>1, BoundsAssumption DEF Counters
<1>4. Billed(a) \in Nat /\ Billed(b) \in Nat /\ Billed(c) \in Nat
  BY <1>1, <1>3, BilledTyped
<1>5. behind = IF Billed(c) < Billed(a) THEN Billed(a) - Billed(c) ELSE 0
  BY DEF Behind, Plain
<1>6. CASE Monotonic(a, c)
  <2>1. Billed(a) + Billed(Minus(c, a)) = Billed(c)
    BY <1>1, <1>6, BilledAdds
  <2>2. Minus(c, a) \in [tx : Nat, rx : Nat]
    BY <1>1, <1>6, BoundsAssumption DEF Minus, Monotonic, Counters
  <2>3. Billed(Minus(c, a)) \in Nat
    BY <1>1, <2>2, BilledTyped
  <2> HIDE DEF a, c, behind, new
  <2> QED
    BY <1>1, <1>2, <1>4, <1>5, <1>6, <2>1, <2>3 DEF a, c, new
<1>7. CASE ~Monotonic(a, c)
  <2>1. c.tx <= a.tx /\ c.rx <= a.rx
    BY <1>7 DEF Before, Monotonic, Plain
  <2>2. Billed(c) <= Billed(a)
    BY <1>1, <1>3, <2>1, BilledMonotonic
  <2>3. behind = Billed(a) - Billed(c)
    BY <1>4, <1>5, <2>2
  <2> HIDE DEF a, c, behind, new
  <2> QED
    BY <1>1, <1>2, <1>4, <1>7, <2>3 DEF a, c, new
<1> QED
  BY <1>6, <1>7

(* A report keeps the books, or says what it gives up. *)
LEMMA HandleBooks ==
  ASSUME Typed, RestTyped, Account, Books, NEW r \in Known, HandleReport(r) \/ DropReport,
         UNCHANGED direction
  PROVE  /\ Balanced(mem)' /\ Balanced(row)'
         /\ unaccounted => unaccounted'
<1>0. r \in Reading /\ (~unaccounted => Plain(r))
  BY KnownTyped DEF Books, Uneventful
<1>1. \A c : Billed(c)' = Billed(c)
  BY DEF Billed, Total
<1>2. CASE DropReport
  BY <1>1, <1>2 DEF DropReport, Books, Balanced
<1>3. CASE HandleReport(r)
  <2>1. PICK prior \in {mem, row, NoBaseline} :
          /\ mem' = Accounted(prior, r)
          /\ row' \in {mem', row}
          /\ base' = IF prior.has_counter_baseline \/ unaccounted THEN base ELSE r.at
          /\ unaccounted' = (unaccounted \/ (~prior.has_counter_baseline /\ row.has_counter_baseline))
    BY <1>3 DEF HandleReport
  <2>2. prior \in CapacityState /\ Balanced(prior)
    BY <2>1, ZeroTyped, EmptyBalanced DEF Typed, Books
  <2>3. mem'.last = r /\ mem'.has_counter_baseline
    BY <1>0, <2>1, <2>2, AccountedRecord DEF Typed
  <2>4. CASE unaccounted'
    <3>1. Balanced(mem)'
      BY <2>3, <2>4 DEF Balanced
    <3>2. Balanced(row)'
      BY <2>1, <2>3, <2>4 DEF Balanced, Books
    <3> QED
      BY <2>4, <3>1, <3>2
  <2>5. CASE ~unaccounted' /\ prior.has_counter_baseline
    <3>1. ~unaccounted /\ base' = base /\ base \in Counters
      BY <2>1, <2>5 DEF RestTyped
    <3>2. prior \in {mem, row}
      BY <2>1, <2>5 DEF NoBaseline
    <3>3. Plain(prior.last) /\ (Before(prior.last, r) \/ Before(r, prior.last))
      BY <3>1, <3>2, KnownTyped DEF Books, Uneventful, Account
    <3>4. Accounted(prior, r).usage + Billed(base) = Billed(r.at) + Accounted(prior, r).again
      BY <1>0, <2>2, <2>5, <3>1, <3>3, PlainAccounted DEF Balanced
    <3>5. Balanced(mem)'
      BY <1>1, <2>1, <2>3, <3>1, <3>4 DEF Balanced
    <3>6. Balanced(row)'
      BY <1>1, <2>1, <2>3, <3>1, <3>5 DEF Balanced, Books
    <3> QED
      BY <3>1, <3>5, <3>6
  <2>6. CASE ~unaccounted' /\ ~prior.has_counter_baseline
    <3>1. ~unaccounted /\ ~row.has_counter_baseline /\ base' = r.at
      BY <2>1, <2>6
    <3>2. prior.usage = 0 /\ prior.again = 0 /\ prior.last = NoReading
      BY <2>2, <2>6 DEF Balanced
    <3>3. Billed(r.at) \in Nat /\ Billed(r.carried) \in Nat
      BY <1>0, BilledTyped, BoundsAssumption DEF Typed, Reading, Counters
    <3>4. Billed(NoReading.carried) = 0
      BY DEF NoReading, Billed, Total, Zero, Typed, Directions
    <3>5. Behind(NoReading, r) = 0
      BY <3>3, <3>4 DEF Behind
    <3>6. mem'.usage = 0 /\ mem'.again = 0
      BY <1>0, <2>1, <2>2, <2>6, <3>2, <3>5, AccountedRecord DEF Typed
    <3>7. Balanced(mem)'
      BY <1>1, <2>3, <3>1, <3>3, <3>6 DEF Balanced
    <3>8. Balanced(row)'
      BY <2>1, <3>1, <3>7 DEF Balanced, Books
    <3> QED
      BY <3>1, <3>7, <3>8
  <2> QED
    BY <2>4, <2>5, <2>6
<1> QED
  BY <1>2, <1>3

(* Whatever is read leaves nothing known that was not. *)
LEMMA HandleKnown ==
  ASSUME Typed, NEW r \in Known, HandleReport(r) \/ DropReport,
         Known' \subseteq Known \cup {mem'.last, row'.last}
  PROVE  Known' \subseteq Known
<1>1. CASE DropReport
  BY <1>1, KnownTyped DEF DropReport
<1>2. CASE HandleReport(r)
  <2>1. PICK prior \in {mem, row, NoBaseline} :
          mem' = Accounted(prior, r) /\ row' \in {mem', row}
    BY <1>2 DEF HandleReport
  <2>2. Accounted(prior, r).last = r
    BY DEF Accounted, Rebased
  <2> QED
    BY <2>1, <2>2, KnownTyped
<1> QED
  BY <1>1, <1>2

LEMMA BooksStep ==
  Typed /\ RestTyped /\ Account /\ Books /\ [Next]_vars => Books'
<1> SUFFICES ASSUME Typed, RestTyped, Account, Books, [Next]_vars
             PROVE  Books'
  OBVIOUS
<1> DEFINE Kept == UNCHANGED <<direction, mem, row, base>>
<1>1. ASSUME Kept, unaccounted' = unaccounted, ~unaccounted => Uneventful' PROVE Books'
  BY <1>1 DEF Books, Balanced, Billed, Total
<1>2. ASSUME Kept, unaccounted' PROVE Books'
  BY <1>2 DEF Books, Balanced
<1>3. ASSUME NEW d \in {"tx", "rx"}, Carries(d) PROVE Books'
  <2>1. ~unaccounted => Uneventful'
    <3> SUFFICES ASSUME ~unaccounted PROVE Uneventful'
      OBVIOUS
    <3>1. nic' = carried' /\ epoch' = 0 /\ last' = last
      BY <1>3 DEF Carries, Books, Uneventful, agentvars
    <3>2. nic.tx <= nic'.tx /\ nic.rx <= nic'.rx
          /\ nic'.tx \in Nat /\ nic'.rx \in Nat /\ nic.tx \in Nat /\ nic.rx \in Nat
      BY <1>3, BoundsAssumption DEF Carries, Typed, Counters
    <3>3. last # NoSample => last.tx \in Nat /\ last.rx \in Nat
      BY BoundsAssumption DEF RestTyped, Counters
    <3>4. last # NoSample => last.tx <= nic'.tx /\ last.rx <= nic'.rx
      BY <3>2, <3>3 DEF Books, Uneventful
    <3>5. Known' = Known
      BY <1>3 DEF Carries, Known, wires
    <3> QED
      BY <3>1, <3>4, <3>5 DEF Books, Uneventful, Plain
  <2> QED
    BY <1>1, <1>3, <2>1 DEF Carries, nodevars
<1>4. CASE NicDrops
  BY <1>2, <1>4 DEF NicDrops, nodevars
<1>5. CASE Report
  <2>1. ~unaccounted => Uneventful'
    <3> SUFFICES ASSUME ~unaccounted PROVE Uneventful'
      OBVIOUS
    <3>1. Uneventful
      BY DEF Books
    <3>2. ~(last # NoSample /\ Total(nic) < Total(last))
      BY <3>1, BoundsAssumption DEF Uneventful, Total, Typed, RestTyped, Counters
    <3>3. epoch' = 0 /\ last' = nic /\ nic' = nic /\ carried' = carried /\ old_wire' = old_wire
          /\ mem' = mem /\ row' = row
      BY <1>5, <3>1, <3>2 DEF Report, EpochOf, Uneventful
    <3> DEFINE r == [epoch |-> epoch', at |-> nic, carried |-> carried]
    <3>4. Plain(r)
      BY <3>1, <3>3 DEF Plain, Uneventful
    <3>5. wire' = Append(wire, r) /\ wire \in Seq(Reading)
      BY <1>5 DEF Report, Typed
    <3> HIDE DEF r
    <3>6. \A i \in DOMAIN wire' : \/ i \in DOMAIN wire /\ wire'[i] = wire[i]
                                  \/ wire'[i] = r
      BY <3>5
    <3>7. last'.tx <= nic'.tx /\ last'.rx <= nic'.rx
      BY <3>3, BoundsAssumption DEF Typed, Counters
    <3>8. \A i \in DOMAIN wire' : wire'[i] \in Known \cup {r}
      BY <3>6, KnownTyped
    <3>9. Known' \subseteq Known \cup {r}
      BY <3>3, <3>8, KnownTyped DEF Known
    <3> QED
      BY <3>1, <3>3, <3>4, <3>7, <3>9 DEF Uneventful, Plain
  <2> QED
    BY <1>1, <1>5, <2>1 DEF Report, nodevars
<1>6. CASE Reconnect
  <2>1. Known' \subseteq Known
    BY <1>6, LeftoverTyped, KnownTyped DEF Reconnect
  <2>2. ~unaccounted => Uneventful'
    BY <1>6, <2>1 DEF Reconnect, Books, Uneventful, Plain, agentvars
  <2> QED
    BY <1>1, <1>6, <2>2 DEF Reconnect, nodevars
<1>7. CASE AgentRestarts
  BY <1>2, <1>7 DEF AgentRestarts, nodevars
<1>8. ASSUME NEW r \in Known, HandleReport(r) \/ DropReport,
             UNCHANGED <<carried, nic, agentvars, nodevars>>,
             Known' \subseteq Known \cup {mem'.last, row'.last}
      PROVE  Books'
  <2>1. Balanced(mem)' /\ Balanced(row)' /\ (unaccounted => unaccounted')
    BY <1>8, HandleBooks DEF nodevars
  <2>2. Known' \subseteq Known
    BY <1>8, HandleKnown
  <2>3. ~unaccounted => Uneventful'
    BY <1>8, <2>2 DEF Books, Uneventful, Plain, agentvars
  <2> QED
    BY <2>1, <2>3 DEF Books
<1>9. CASE ReceiveOld
  <2>1. PICK s \in Earlier :
          /\ old_wire[s] # << >> /\ (HandleReport(Head(old_wire[s])) \/ DropReport)
          /\ old_wire' = [old_wire EXCEPT ![s] = Tail(@)]
          /\ UNCHANGED <<carried, nic, agentvars, nodevars, wire>>
    BY <1>9 DEF ReceiveOld
  <2>2. Head(old_wire[s]) \in Known /\ Known' \subseteq Known \cup {mem'.last, row'.last}
    BY <2>1, OldRead
  <2> QED
    BY <1>8, <2>1, <2>2
<1>10. CASE Receive
  <2>1. Head(wire) \in Known /\ Known' \subseteq Known \cup {mem'.last, row'.last}
    BY <1>10, NewRead DEF Receive
  <2> QED
    BY <1>8, <1>10, <2>1 DEF Receive
<1>11. CASE EditCap \/ UNCHANGED vars
  <2>1. UNCHANGED <<carried, nic, agentvars, direction, wires, mem, row, base, unaccounted>>
    BY <1>11 DEF EditCap, vars, nodevars
  <2>2. Known' = Known
    BY <2>1 DEF Known, wires
  <2>3. ~unaccounted => Uneventful'
    BY <2>1, <2>2 DEF Books, Uneventful, Plain, agentvars
  <2> QED
    BY <1>1, <2>1, <2>3
<1>12. CASE PanelRestarts
  <2>1. old_wire' = [s \in Earlier |-> << >>] /\ wire' = << >> /\ mem' = NoBaseline
        /\ UNCHANGED <<carried, nic, epoch, last, direction, row, base>>
    BY <1>12 DEF PanelRestarts, agentvars, nodevars
  <2>2. unaccounted => unaccounted'
    BY <1>12 DEF PanelRestarts
  <2>3. \A s \in Earlier : DOMAIN old_wire'[s] = {}
    BY <2>1
  <2>4. DOMAIN wire' = {} /\ mem'.last = NoReading
    BY <2>1 DEF NoBaseline
  <2>5. Known' \subseteq Known
    BY <2>1, <2>3, <2>4, KnownTyped DEF Known
  <2>6. ~unaccounted' => Uneventful'
    BY <2>1, <2>2, <2>5 DEF Books, Uneventful, Plain
  <2>7. Balanced(mem)'
    BY <2>1 DEF Balanced, NoBaseline
  <2>8. Balanced(row)'
    BY <2>1, <2>2 DEF Books, Balanced, Billed, Total
  <2> QED
    BY <2>6, <2>7, <2>8 DEF Books
<1> QED
  BY <1>3, <1>4, <1>5, <1>6, <1>7, <1>9, <1>10, <1>11, <1>12 DEF Next

(* CountsAllItSees: reports and writes that fail, reconnections, restarts of *)
(* the panel and sockets read out of order lose none of the traffic between  *)
(* the first reading and the last, and what is counted again is known to the *)
(* byte.                                                                     *)
THEOREM NothingIsLost == Spec => []CountsAllItSees
<1>1. Init => Typed /\ RestTyped /\ Account /\ Books
  BY TypedInit, RestInit, AccountInit, BooksInit
<1>2. /\ Typed /\ RestTyped /\ Account /\ Books /\ [Next]_vars
      => (Typed /\ RestTyped /\ Account /\ Books)'
  BY TypedStep, RestStep, AccountStep, BooksStep
<1>3. Books => CountsAllItSees
  BY DEF CountsAllItSees, Books, Balanced
<1> QED
  BY <1>1, <1>2, <1>3, PTL DEF Spec

-----------------------------------------------------------------------------
(* Debounced.  The two counters of windows say how far back the levels      *)
(* measured have been at the threshold they wait for, and nothing else.     *)

Counts(windows, level) ==
  \A n \in 0..SatWindows : EndsWith(levels, level, n) <=> n <= windows

Windows ==
  /\ Len(levels) <= SatWindows
  /\ saturation = "normal" => Counts(enter_windows, "high")
  /\ saturation = "saturated" => enter_windows = 0 /\ Counts(exit_windows, "low")
  /\ cap = "none" => saturation = "normal" /\ levels = << >> /\ enter_windows = 0

LEMMA EndsEmpty ==
  ASSUME NEW level, NEW n \in Nat
  PROVE  EndsWith(<< >>, level, n) <=> n <= 0
BY DEF EndsWith

LEMMA EndsAnyway ==
  ASSUME NEW seq \in Seq(Levels), NEW level
  PROVE  EndsWith(seq, level, 0)
BY DEF EndsWith

LEMMA AppendedLen ==
  ASSUME NEW seq \in Seq(Levels), NEW next
  PROVE  Len(Append(seq, next)) = Len(seq) + 1
OBVIOUS

LEMMA TailLen ==
  ASSUME NEW seq \in Seq(Levels), Len(seq) = 3
  PROVE  Tail(seq) \in Seq(Levels) /\ Len(Tail(seq)) = 2
OBVIOUS

(* One more window: either the row goes on, or it begins anew.              *)
LEMMA EndsAppend ==
  ASSUME NEW seq \in Seq(Levels), NEW next \in Levels, NEW level, NEW n \in Nat
  PROVE  EndsWith(Append(seq, next), level, n + 1) <=> next = level /\ EndsWith(seq, level, n)
<1> DEFINE new == Append(seq, next)
           m == Len(seq)
<1>1. m \in Nat /\ Len(new) = m + 1 /\ new[m + 1] = next /\ \A i \in 1..m : new[i] = seq[i]
  OBVIOUS
<1> HIDE DEF new, m
<1>2. ASSUME EndsWith(new, level, n + 1) PROVE next = level /\ EndsWith(seq, level, n)
  <2>1. m >= n /\ \A i \in m - n + 1..m + 1 : new[i] = level
    BY <1>1, <1>2 DEF EndsWith
  <2>2. next = level
    BY <1>1, <2>1
  <2>3. \A i \in m - n + 1..m : i \in 1..m /\ i \in m - n + 1..m + 1
    BY <1>1, <2>1
  <2> QED
    BY <1>1, <2>1, <2>2, <2>3 DEF EndsWith, m
<1>3. ASSUME next = level, EndsWith(seq, level, n) PROVE EndsWith(new, level, n + 1)
  <2>1. m >= n /\ \A i \in m - n + 1..m : seq[i] = level
    BY <1>3 DEF EndsWith, m
  <2>2. \A i \in m - n + 1..m + 1 : i = m + 1 \/ (i \in m - n + 1..m /\ i \in 1..m)
    BY <1>1, <2>1
  <2>3. \A i \in (m + 1) - (n + 1) + 1..m + 1 : i \in m - n + 1..m + 1
    BY <1>1
  <2>4. m + 1 >= n + 1
    BY <1>1, <2>1
  <2>5. \A i \in (m + 1) - (n + 1) + 1..m + 1 : new[i] = level
    BY <1>1, <1>3, <2>1, <2>2, <2>3
  <2> QED
    BY <1>1, <2>4, <2>5 DEF EndsWith
<1> QED
  BY <1>2, <1>3 DEF new

(* What the window that is forgotten was does not show in a shorter row.    *)
LEMMA EndsTail ==
  ASSUME NEW seq \in Seq(Levels), NEW level, NEW n \in Nat, n < Len(seq)
  PROVE  EndsWith(Tail(seq), level, n) <=> EndsWith(seq, level, n)
<1> DEFINE m == Len(seq)
<1>1. m \in Nat /\ Len(Tail(seq)) = m - 1 /\ \A i \in 1..m - 1 : Tail(seq)[i] = seq[i + 1]
  OBVIOUS
<1> HIDE DEF m
<1>2. \A i \in m - 1 - n + 1..m - 1 : i \in 1..m - 1 /\ i + 1 \in m - n + 1..m
  BY <1>1 DEF m
<1>3. \A i \in m - n + 1..m : i - 1 \in m - 1 - n + 1..m - 1 /\ i - 1 \in 1..m - 1
                              /\ (i - 1) + 1 = i
  BY <1>1 DEF m
<1>4. ASSUME EndsWith(seq, level, n) PROVE EndsWith(Tail(seq), level, n)
  <2>1. \A i \in m - n + 1..m : seq[i] = level
    BY <1>4 DEF EndsWith, m
  <2>2. \A i \in m - 1 - n + 1..m - 1 : Tail(seq)[i] = level
    BY <1>1, <1>2, <2>1
  <2>3. m - 1 >= n
    BY <1>1 DEF m
  <2> QED
    BY <1>1, <2>2, <2>3 DEF EndsWith
<1>5. ASSUME EndsWith(Tail(seq), level, n) PROVE EndsWith(seq, level, n)
  <2>1. \A i \in m - 1 - n + 1..m - 1 : Tail(seq)[i] = level
    BY <1>1, <1>5 DEF EndsWith
  <2>2. \A i \in m - n + 1..m : seq[i] = level
    BY <1>1, <1>3, <2>1
  <2>3. m >= n
    BY <1>1 DEF m
  <2> QED
    BY <2>2, <2>3 DEF EndsWith, m
<1> QED
  BY <1>4, <1>5

(* The levels remembered, when saturation stays as it is.                   *)
LEMMA NotedEnds ==
  ASSUME levels \in Seq(Levels), Len(levels) <= SatWindows,
         NEW next \in Levels, Noted(next), saturation' = saturation,
         NEW level, NEW n \in 0..SatWindows - 1
  PROVE  /\ Len(levels') <= SatWindows
         /\ EndsWith(levels', level, n + 1) <=> next = level /\ EndsWith(levels, level, n)
<1>1. CASE Len(levels) < SatWindows
  <2>1. levels' = Append(levels, next)
    BY <1>1 DEF Noted
  <2>2. Len(levels') <= SatWindows
    BY <1>1, <2>1 DEF SatWindows
  <2> QED
    BY <2>1, <2>2, EndsAppend DEF SatWindows
<1>2. CASE ~(Len(levels) < SatWindows)
  <2> DEFINE rest == Tail(levels)
  <2>1. levels' = Append(rest, next)
    BY <1>2 DEF Noted
  <2>2. Len(levels) \in Nat
    OBVIOUS
  <2>3. Len(levels) = 3
    <3>1. \A k \in Nat : k <= 3 /\ ~(k < 3) => k = 3
      OBVIOUS
    <3>2. Len(levels) <= 3 /\ ~(Len(levels) < 3)
      BY <1>2 DEF SatWindows
    <3> QED
      BY <2>2, <3>1, <3>2, Zenon
  <2>4. rest \in Seq(Levels) /\ Len(rest) = 2
    BY <2>3, TailLen
  <2> HIDE DEF rest
  <2>5. Len(levels') <= SatWindows
    <3>1. Len(levels') = 2 + 1
      BY <2>1, <2>4, AppendedLen, Zenon
    <3> QED
      BY <3>1 DEF SatWindows
  <2>6. n \in Nat /\ n < Len(levels)
    BY <2>3 DEF SatWindows
  <2>7. EndsWith(levels', level, n + 1) <=> next = level /\ EndsWith(rest, level, n)
    BY <2>1, <2>4, <2>6, EndsAppend
  <2>8. EndsWith(rest, level, n) <=> EndsWith(levels, level, n)
    BY <2>6, EndsTail DEF rest
  <2> QED
    BY <2>5, <2>7, <2>8
<1> QED
  BY <1>1, <1>2

(* The row of levels and the counter that waits for the level move together. *)
LEMMA CountsOn ==
  ASSUME levels \in Seq(Levels), Len(levels) <= SatWindows,
         NEW next \in Levels, Noted(next), saturation' = saturation,
         NEW level, NEW windows \in 0..SatWindows - 1, Counts(windows, level),
         NEW left \in 0..SatWindows - 1,
         next = level => left = windows + 1, next # level => left = 0
  PROVE  \A n \in 0..SatWindows : EndsWith(levels', level, n) <=> n <= left
<1> TAKE n \in 0..SatWindows
<1>1. CASE n = 0
  <2>1. levels' \in Seq(Levels)
    BY DEF Noted, SatWindows
  <2> QED
    BY <1>1, <2>1, EndsAnyway
<1>2. CASE n # 0
  <2>1. PICK k \in 0..SatWindows - 1 : n = k + 1
    BY <1>2 DEF SatWindows
  <2>2. EndsWith(levels', level, k + 1) <=> next = level /\ EndsWith(levels, level, k)
    BY <2>1, NotedEnds
  <2>3. EndsWith(levels, level, k) <=> k <= windows
    BY <2>1 DEF Counts, SatWindows
  <2>4. next = level => (k <= windows <=> n <= left)
    BY <2>1 DEF SatWindows
  <2>5. next # level => ~(n <= left)
    BY <1>2
  <2> QED
    BY <2>1, <2>2, <2>3, <2>4, <2>5
<1> QED
  BY <1>1, <1>2

(* A report's debounce keeps the counters true, and flips only after them.  *)
LEMMA MeasuredWindows ==
  ASSUME RestTyped, Windows, cap = "some", cap' = cap,
         NEW level \in Levels, Measured(level)
  PROVE  /\ Windows'
         /\ saturation' # saturation
              => EndsWith(levels, IF saturation = "normal" THEN "high" ELSE "low", SatWindows - 1)
<1>1. levels \in Seq(Levels) /\ Len(levels) <= SatWindows
  BY DEF RestTyped, Windows
<1>2. Noted(level)
  BY DEF Measured
<1>3. CASE saturation' # saturation
  <2>1. levels' = << >>
    BY <1>2, <1>3 DEF Noted
  <2>2. enter_windows' = 0 /\ exit_windows' = 0
    BY <1>3 DEF Measured
  <2>3. Len(levels') = 0
    BY <2>1
  <2>4. \A l : \A n \in 0..SatWindows : EndsWith(levels', l, n) <=> n <= 0
    BY <2>1, EndsEmpty DEF SatWindows
  <2>5. Windows'
    BY <2>2, <2>3, <2>4 DEF Windows, Counts, SatWindows
  <2>6. \/ saturation = "normal" /\ enter_windows >= SatWindows - 1
        \/ saturation = "saturated" /\ exit_windows >= SatWindows - 1
    BY <1>3 DEF Measured, Flips, SatWindows, RestTyped
  <2>7. EndsWith(levels, IF saturation = "normal" THEN "high" ELSE "low", SatWindows - 1)
    BY <2>6 DEF Windows, Counts, SatWindows
  <2> QED
    BY <2>5, <2>7
<1>4. CASE saturation' = saturation /\ saturation = "normal"
  <2>1. /\ enter_windows \in 0..SatWindows - 1 /\ enter_windows' \in 0..SatWindows - 1
        /\ level = "high" => enter_windows' = enter_windows + 1
        /\ level # "high" => enter_windows' = 0
    BY <1>4 DEF Measured, Flips, SatWindows, RestTyped
  <2>2. Counts(enter_windows, "high")
    BY <1>4 DEF Windows
  <2> DEFINE left == enter_windows'
  <2> HIDE DEF left
  <2>3. left \in 0..SatWindows - 1 /\ (level = "high" => left = enter_windows + 1)
        /\ (level # "high" => left = 0)
    BY <2>1 DEF left
  <2>4. \A n \in 0..SatWindows : EndsWith(levels', "high", n) <=> n <= left
    BY <1>1, <1>2, <1>4, <2>1, <2>2, <2>3, CountsOn
  <2>5. Len(levels') <= SatWindows
    BY <1>1, <1>2, <1>4, NotedEnds DEF SatWindows
  <2>6. Counts(enter_windows, "high")'
    BY <2>4 DEF Counts, left
  <2> QED
    BY <1>4, <2>5, <2>6 DEF Windows
<1>5. CASE saturation' = saturation /\ saturation = "saturated"
  <2>1. /\ exit_windows \in 0..SatWindows - 1 /\ exit_windows' \in 0..SatWindows - 1
        /\ level = "low" => exit_windows' = exit_windows + 1
        /\ level # "low" => exit_windows' = 0
        /\ enter_windows' = 0
    BY <1>5 DEF Measured, Flips, SatWindows, RestTyped
  <2>2. Counts(exit_windows, "low")
    BY <1>5 DEF Windows
  <2> DEFINE left == exit_windows'
  <2> HIDE DEF left
  <2>3. left \in 0..SatWindows - 1 /\ (level = "low" => left = exit_windows + 1)
        /\ (level # "low" => left = 0)
    BY <2>1 DEF left
  <2>4. \A n \in 0..SatWindows : EndsWith(levels', "low", n) <=> n <= left
    BY <1>1, <1>2, <1>5, <2>1, <2>2, <2>3, CountsOn
  <2>5. Len(levels') <= SatWindows
    BY <1>1, <1>2, <1>5, NotedEnds DEF SatWindows
  <2>6. Counts(exit_windows, "low")'
    BY <2>4 DEF Counts, left
  <2> QED
    BY <1>5, <2>1, <2>5, <2>6 DEF Windows
<1> QED
  BY <1>3, <1>4, <1>5 DEF RestTyped

(* The panel forgets the levels whenever it leaves saturation unmeasured.   *)
LEMMA UnmeasuredWindows ==
  ASSUME RestTyped, Windows, Unmeasured, cap' = cap
  PROVE  Windows'
<1>1. CASE saturation = "normal"
  <2>1. saturation' = "normal" /\ levels' = levels
    BY <1>1 DEF Unmeasured
  <2>2. enter_windows' = enter_windows
    BY <1>1 DEF Unmeasured, Windows
  <2> QED
    BY <1>1, <2>1, <2>2 DEF Windows, Counts
<1>2. CASE saturation = "saturated"
  <2>1. saturation' = "normal" /\ levels' = << >> /\ enter_windows' = 0
    BY <1>2 DEF Unmeasured, Windows
  <2>2. \A n \in 0..SatWindows : EndsWith(levels', "high", n) <=> n <= 0
    BY <2>1, EndsEmpty DEF SatWindows
  <2>3. Len(levels') <= SatWindows
    BY <2>1 DEF SatWindows
  <2> QED
    BY <2>1, <2>2, <2>3 DEF Windows, Counts
<1> QED
  BY <1>1, <1>2 DEF RestTyped

LEMMA WindowsInit == Init => Windows
<1> SUFFICES ASSUME Init PROVE Windows
  OBVIOUS
<1>1. levels = << >> /\ enter_windows = 0 /\ saturation = "normal"
  BY DEF Init
<1>2. \A n \in 0..SatWindows : EndsWith(levels, "high", n) <=> n <= 0
  BY <1>1, EndsEmpty DEF SatWindows
<1>3. Len(levels) <= SatWindows
  BY <1>1 DEF SatWindows
<1> QED
  BY <1>1, <1>2, <1>3 DEF Windows, Counts

(* What a step may do to the saturation: Debounced before its window is     *)
(* the last of the row.                                                     *)
FlipsAfterARow ==
  saturation' # saturation
    => \/ /\ cap = "some"
          /\ EndsWith(levels, IF saturation = "normal" THEN "high" ELSE "low", SatWindows - 1)
       \/ saturation' = "normal" /\ (cap # "some" \/ PanelRestarts)

LEMMA WindowsStep ==
  RestTyped /\ Windows /\ [Next]_vars => Windows' /\ FlipsAfterARow
<1> SUFFICES ASSUME RestTyped, Windows, [Next]_vars PROVE Windows' /\ FlipsAfterARow
  OBVIOUS
<1>1. ASSUME UNCHANGED satvars, cap' = cap \/ cap' # "none" PROVE Windows' /\ FlipsAfterARow
  BY <1>1 DEF Windows, Counts, FlipsAfterARow, satvars
<1>2. ASSUME NEW r, HandleReport(r) \/ DropReport, cap' = cap
      PROVE  Windows' /\ FlipsAfterARow
  <2>1. CASE DropReport
    BY <1>1, <1>2, <2>1 DEF DropReport
  <2>2. CASE HandleReport(r) /\ cap = "some"
    <3>1. PICK level \in Levels : Measured(level)
      BY <2>2 DEF HandleReport, Debounce
    <3> QED
      BY <1>2, <2>2, <3>1, MeasuredWindows DEF FlipsAfterARow
  <2>3. CASE HandleReport(r) /\ cap # "some"
    <3>1. Unmeasured
      BY <2>3 DEF HandleReport, Debounce
    <3> QED
      BY <1>2, <2>3, <3>1, UnmeasuredWindows DEF FlipsAfterARow, Unmeasured
  <2> QED
    BY <1>2, <2>1, <2>2, <2>3
<1>3. CASE Carries("tx") \/ Carries("rx")
  BY <1>1, <1>3 DEF Carries, nodevars
<1>4. CASE NicDrops
  BY <1>1, <1>4 DEF NicDrops, nodevars
<1>5. CASE Report
  BY <1>1, <1>5 DEF Report, nodevars
<1>6. CASE Reconnect \/ AgentRestarts
  BY <1>1, <1>6 DEF Reconnect, AgentRestarts, nodevars
<1>7. CASE ReceiveOld \/ Receive
  BY <1>2, <1>7 DEF ReceiveOld, Receive, nodevars
<1>8. CASE EditCap
  BY <1>1, <1>8 DEF EditCap
<1>9. CASE PanelRestarts
  <2>1. saturation' = "normal" /\ levels' = << >> /\ enter_windows' = 0
    BY <1>9 DEF PanelRestarts
  <2>2. \A n \in 0..SatWindows : EndsWith(levels', "high", n) <=> n <= 0
    BY <2>1, EndsEmpty DEF SatWindows
  <2>3. Len(levels') <= SatWindows
    BY <2>1 DEF SatWindows
  <2> QED
    BY <1>9, <2>1, <2>2, <2>3 DEF Windows, Counts, FlipsAfterARow
<1>10. CASE UNCHANGED vars
  BY <1>1, <1>10 DEF vars, nodevars
<1> QED
  BY <1>3, <1>4, <1>5, <1>6, <1>7, <1>8, <1>9, <1>10 DEF Next

(* No row is complete after a step: the window that completes it flips.     *)
LEMMA NoFullRow ==
  ASSUME RestTyped, RestTyped', Windows', [Next]_vars
  PROVE  ~EndsWith(levels', IF saturation = "normal" THEN "high" ELSE "low", SatWindows)
<1>1. CASE levels' = << >>
  BY <1>1, EndsEmpty DEF SatWindows
<1>2. CASE saturation' = saturation
  BY <1>2 DEF Windows, Counts, RestTyped, SatWindows
<1>3. saturation' # saturation => levels' = << >>
  <2> SUFFICES ASSUME saturation' # saturation PROVE levels' = << >>
    OBVIOUS
  <2>1. PanelRestarts \/ \E r : HandleReport(r)
    BY DEF Next, Carries, NicDrops, Report, Reconnect, AgentRestarts, ReceiveOld, Receive,
           DropReport, EditCap, vars, satvars
  <2>2. CASE PanelRestarts
    BY <2>2 DEF PanelRestarts
  <2>3. CASE \E r : HandleReport(r)
    <3>1. Unmeasured \/ \E level \in Levels : Measured(level)
      BY <2>3 DEF HandleReport, Debounce
    <3> QED
      BY <3>1 DEF Unmeasured, Measured, Noted, RestTyped
  <2> QED
    BY <2>1, <2>2, <2>3
<1> QED
  BY <1>1, <1>2, <1>3

(* Debounced: saturation flips exactly at the third window in a row at its  *)
(* threshold, however often the cap is edited between two reports.          *)
THEOREM SaturationDebounced == Spec => Debounced
<1> DEFINE IInv == Typed /\ RestTyped /\ Windows
<1>1. Init => IInv
  BY TypedInit, RestInit, WindowsInit
<1>2. IInv /\ [Next]_vars => IInv'
  BY TypedStep, RestStep, WindowsStep
<1> DEFINE level == IF saturation = "normal" THEN "high" ELSE "low"
           Flip == /\ saturation' # saturation
                        => \/ cap = "some" /\ EndsWith(levels, level, SatWindows - 1)
                           \/ saturation' = "normal" /\ (cap # "some" \/ PanelRestarts)
                   /\ ~EndsWith(levels', level, SatWindows)
<1>3. IInv /\ IInv' /\ [Next]_vars => [Flip]_vars
  BY WindowsStep, NoFullRow DEF FlipsAfterARow
<1>4. [][Flip]_vars => Debounced
  BY DEF Debounced
<1> HIDE DEF IInv, Flip
<1>5. Spec => [][Flip]_vars
  BY <1>1, <1>2, <1>3, PTL DEF Spec
<1> QED
  BY <1>4, <1>5
=============================================================================
