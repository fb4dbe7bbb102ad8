------------------------------ MODULE Capacity ------------------------------
(***************************************************************************)
(* The accounting of one node's traffic: the counters its agent reads       *)
(* (crates/agent/src/capacity.rs), the reports that carry them, and the     *)
(* usage and the saturation the panel derives from them                     *)
(* (crates/panel/src/scheduler.rs apply_capacity, debounce_saturation),     *)
(* kept in memory and in the node's row.  What earlier sockets of the agent *)
(* carried may still be unread when the next one is in use, and each is     *)
(* read by a task of its own (see ConnRegistry).                            *)
(***************************************************************************)
EXTENDS Naturals, Sequences

CONSTANTS
  MaxCarried,     \* bound on the bytes the node carries in each direction
  MaxInFlight,    \* bound on the reports under way on one socket
  MaxEpochs,      \* bound on the counter epochs, one a start or a reset
  Earlier         \* places for earlier sockets not yet read to their end

ASSUME BoundsAssumption ==
  MaxCarried \in Nat /\ MaxInFlight \in Nat /\ MaxEpochs \in Nat

Counters   == [tx : 0..MaxCarried, rx : 0..MaxCarried]
Directions == {"both", "tx", "rx"}
SatWindows == 3
Levels     == {"low", "mid", "high"}   \* below 70 % of the cap, between, from 85 %
Caps       == {"none", "zero", "some"}

Zero     == [tx |-> 0, rx |-> 0]
NoSample == [tx |-> MaxCarried + 1, rx |-> MaxCarried + 1]

(* A reading as the agent reports it, with what the node had carried then.  *)
Reading == [epoch : 0..MaxEpochs, at : Counters, carried : Counters]

(* CapacityState: the usage, and the last reading as the baseline; again is *)
(* history, the traffic the baseline has been moved back over by readings   *)
(* older than itself.                                                       *)
NoReading     == [epoch |-> 0, at |-> Zero, carried |-> Zero]
CapacityState ==
  [usage : Nat, last : Reading, has_counter_baseline : BOOLEAN, again : Nat]
NoBaseline    ==
  [usage |-> 0, last |-> NoReading, has_counter_baseline |-> FALSE, again |-> 0]

VARIABLES
  carried,        \* what the node has really carried
  nic,            \* the totals the operating system shows of it
  epoch, last,    \* the CapacityCollector's epoch and last sample
  direction,      \* the node's quota_direction
  cap,            \* the node's bandwidth_cap_mbps
  wire, old_wire, \* readings on the agent's socket and on each earlier one
  mem,            \* the NodeRuntime's capacity
  row,            \* the same columns of the node's row
  saturation, enter_windows, exit_windows,
  levels,         \* history: the last levels measured since saturation changed
  base,           \* history: the first baseline
  unaccounted     \* history: something happened whose traffic is given up

agentvars == <<epoch, last>>
nodevars  == <<direction, cap>>
wires     == <<wire, old_wire>>
satvars   == <<saturation, enter_windows, exit_windows, levels>>
vars == <<carried, nic, agentvars, nodevars, wires, mem, row, satvars, base, unaccounted>>

Total(c) == c.tx + c.rx

(* What counts towards the quota. *)
Billed(c) == IF direction = "both" THEN Total(c)
             ELSE IF direction = "tx" THEN c.tx ELSE c.rx

Init ==
  /\ carried = Zero /\ nic = Zero
  /\ epoch = 0 /\ last = NoSample
  /\ direction \in Directions /\ cap \in Caps
  /\ wire = << >> /\ old_wire = [s \in Earlier |-> << >>]
  /\ mem = NoBaseline /\ row = NoBaseline
  /\ saturation = "normal" /\ enter_windows = 0 /\ exit_windows = 0 /\ levels = << >>
  /\ base = Zero /\ unaccounted = FALSE

-----------------------------------------------------------------------------
(* The node and its agent *)

Carries(d) ==
  /\ carried[d] < MaxCarried
  /\ carried' = [carried EXCEPT ![d] = @ + 1]
  /\ nic' = [nic EXCEPT ![d] = @ + 1]
  /\ UNCHANGED <<agentvars, nodevars, wires, mem, row, satvars, base, unaccounted>>

(* A reboot, or an interface that goes: either total may drop. *)
NicDrops ==
  /\ nic' \in {c \in Counters : c.tx <= nic.tx /\ c.rx <= nic.rx /\ c # nic}
  /\ unaccounted' = TRUE
  /\ UNCHANGED <<carried, agentvars, nodevars, wires, mem, row, satvars, base>>

(* Only a drop of the sum starts a new epoch. *)
EpochOf(sample) ==
  IF last # NoSample /\ Total(sample) < Total(last) THEN epoch + 1 ELSE epoch

(* sample_at, and the report that carries the reading. *)
Report ==
  /\ Len(wire) < MaxInFlight /\ EpochOf(nic) <= MaxEpochs
  /\ epoch' = EpochOf(nic) /\ last' = nic
  /\ wire' = Append(wire, [epoch |-> epoch', at |-> nic, carried |-> carried])
  /\ UNCHANGED <<carried, nic, nodevars, old_wire, mem, row, satvars, base, unaccounted>>

(* The agent leaves its socket; what it sent last may be lost. *)
SocketEnds ==
  /\ \E s \in Earlier, k \in 0..Len(wire) :
       /\ old_wire[s] = << >>
       /\ old_wire' = [old_wire EXCEPT ![s] = SubSeq(wire, 1, k)]
  /\ wire' = << >>

Reconnect ==
  /\ SocketEnds
  /\ UNCHANGED <<carried, nic, agentvars, nodevars, mem, row, satvars, base, unaccounted>>

(* The epoch of a start is its time, later than any epoch before it. *)
AgentRestarts ==
  /\ epoch < MaxEpochs
  /\ SocketEnds
  /\ epoch' = epoch + 1 /\ last' = NoSample
  /\ unaccounted' = TRUE
  /\ UNCHANGED <<carried, nic, nodevars, mem, row, satvars, base>>

-----------------------------------------------------------------------------
(* The panel *)

Minus(c, b) == [tx |-> c.tx - b.tx, rx |-> c.rx - b.rx]
Monotonic(b, c) == b.tx <= c.tx /\ b.rx <= c.rx

(* The traffic between a reading and a baseline taken after it. *)
Behind(baseline, r) ==
  IF Billed(r.carried) < Billed(baseline.carried)
  THEN Billed(baseline.carried) - Billed(r.carried) ELSE 0

(* A reading becomes the baseline, after what it adds was counted. *)
Rebased(prior, r, usage) ==
  [usage |-> usage, last |-> r, has_counter_baseline |-> TRUE,
   again |-> prior.again + Behind(prior.last, r)]

(* Mutant of Accounted: a new epoch's counters are taken as traffic since  *)
(* its start.                                                               *)
AccountedFromZero(prior, r) ==
  Rebased(prior, r,
          IF r.epoch # prior.last.epoch THEN prior.usage + Billed(r.at)
          ELSE IF Monotonic(prior.last.at, r.at)
               THEN prior.usage + Billed(Minus(r.at, prior.last.at)) ELSE prior.usage)

(* apply_capacity: a first reading, a new epoch or a drop of either counter *)
(* re-baselines; otherwise the deltas count.                                *)
Accounted(prior, r) ==
  Rebased(prior, r,
          IF /\ prior.has_counter_baseline /\ r.epoch = prior.last.epoch
             /\ Monotonic(prior.last.at, r.at)
          THEN prior.usage + Billed(Minus(r.at, prior.last.at))
          ELSE prior.usage)

(* Mutant of Flips: the first window flips.                                 *)
FlipsAtOnce(windows) == TRUE

(* The window just measured is the last of SatWindows consecutive ones. *)
Flips(windows) == windows + 1 >= SatWindows

(* levels ends with the level n times over. *)
EndsWith(seq, level, n) ==
  Len(seq) >= n /\ \A i \in Len(seq) - n + 1..Len(seq) : seq[i] = level

(* history: only as much as the debounce may look at *)
Noted(level) ==
  levels' = IF saturation' # saturation THEN << >>
            ELSE IF Len(levels) < SatWindows THEN Append(levels, level)
            ELSE Append(Tail(levels), level)

(* debounce_saturation under a cap above zero *)
Measured(level) ==
  /\ \/ /\ saturation = "normal" /\ exit_windows' = 0
        /\ enter_windows' = IF level # "high" \/ Flips(enter_windows) THEN 0
                            ELSE enter_windows + 1
        /\ saturation' = IF level = "high" /\ Flips(enter_windows)
                         THEN "saturated" ELSE "normal"
     \/ /\ saturation = "saturated" /\ enter_windows' = 0
        /\ exit_windows' = IF level # "low" \/ Flips(exit_windows) THEN 0
                           ELSE exit_windows + 1
        /\ saturation' = IF level = "low" /\ Flips(exit_windows)
                         THEN "normal" ELSE "saturated"
  /\ Noted(level)

Unmeasured ==
  /\ saturation' = "normal"
  /\ IF cap = "none" THEN enter_windows' = 0 /\ exit_windows' = 0
                     ELSE UNCHANGED <<enter_windows, exit_windows>>
  /\ levels' = IF saturation = "normal" THEN levels ELSE << >>

Debounce == IF cap = "some" THEN \E level \in Levels : Measured(level) ELSE Unmeasured

(* Mutant of HandleReport: a restart begins a new account. *)
HandleReportFromMemory(r) ==
  /\ mem' = Accounted(mem, r)
  /\ row' \in {mem', row}
  /\ base' = IF mem.has_counter_baseline THEN base ELSE r.at
  /\ UNCHANGED unaccounted
  /\ Debounce

(* handle_status_report under the runtimes lock: the row is read only when  *)
(* memory has no baseline, and a read that fails counts as an empty row; a  *)
(* write that fails leaves the row behind.                                  *)
HandleReport(r) ==
  \E prior \in IF mem.has_counter_baseline THEN {mem} ELSE {row, NoBaseline} :
    /\ mem' = Accounted(prior, r)
    /\ row' \in {mem', row}
    /\ base' = IF prior.has_counter_baseline \/ unaccounted THEN base ELSE r.at
    /\ unaccounted' = (unaccounted \/ (~prior.has_counter_baseline /\ row.has_counter_baseline))
    /\ Debounce

(* The node's row cannot be read: the report is dropped. *)
DropReport == UNCHANGED <<mem, row, satvars, base, unaccounted>>

Receive ==
  /\ wire # << >>
  /\ HandleReport(Head(wire)) \/ DropReport
  /\ wire' = Tail(wire)
  /\ UNCHANGED <<carried, nic, agentvars, nodevars, old_wire>>

(* An earlier socket is read on, with nothing to say that it is an earlier  *)
(* one.                                                                     *)
ReceiveOld ==
  \E s \in Earlier :
    /\ old_wire[s] # << >>
    /\ HandleReport(Head(old_wire[s])) \/ DropReport
    /\ old_wire' = [old_wire EXCEPT ![s] = Tail(@)]
    /\ UNCHANGED <<carried, nic, agentvars, nodevars, wire>>

(* update_node: the cap is changed, never removed. *)
EditCap ==
  /\ cap' \in {"zero", "some"}
  /\ UNCHANGED <<carried, nic, agentvars, direction, wires, mem, row, satvars, base, unaccounted>>

(* Memory is lost and the sockets with it. *)
PanelRestarts ==
  /\ wire' = << >> /\ old_wire' = [s \in Earlier |-> << >>]
  /\ mem' = NoBaseline
  /\ saturation' = "normal" /\ enter_windows' = 0 /\ exit_windows' = 0 /\ levels' = << >>
  /\ unaccounted' = (unaccounted \/ (mem.has_counter_baseline /\ ~row.has_counter_baseline))
  /\ UNCHANGED <<carried, nic, agentvars, nodevars, row, base>>

Next ==
  \/ Carries("tx") \/ Carries("rx") \/ NicDrops
  \/ Report \/ Reconnect \/ AgentRestarts
  \/ Receive \/ ReceiveOld \/ EditCap \/ PanelRestarts

Spec == Init /\ [][Next]_vars

-----------------------------------------------------------------------------
(* Properties *)

(* Shapes, and the windows stay below the count that flips.                 *)
TypeOK ==
  /\ carried \in Counters /\ nic \in Counters
  /\ epoch \in 0..MaxEpochs /\ last \in Counters \cup {NoSample}
  /\ direction \in Directions /\ cap \in Caps
  /\ wire \in Seq(Reading) /\ old_wire \in [Earlier -> Seq(Reading)]
  /\ mem \in CapacityState /\ row \in CapacityState
  /\ saturation \in {"normal", "saturated"}
  /\ enter_windows \in 0..SatWindows - 1 /\ exit_windows \in 0..SatWindows - 1
  /\ levels \in Seq(Levels) /\ base \in Counters /\ unaccounted \in BOOLEAN

(* The usage exceeds what the node carried of what its quota counts, in     *)
(* memory or in the row, by no more than the traffic that readings out of   *)
(* order moved the baseline back over: no reset of either counter, restart  *)
(* of either program, lost report or failing read or write counts a byte    *)
(* twice, and a late reading only the bytes between it and the baseline.    *)
OverCountsOnlyAgain ==
  \A state \in {mem, row} : state.usage <= Billed(carried) + state.again

(* scheduler.rs:88-89 ("usage can only ever under-count, never over-count") *)
(* says it without the exception.                                           *)
NeverOverCounts ==
  \A state \in {mem, row} : state.usage <= Billed(carried)

(* And nothing is lost without a reason: unless the counters or the agent   *)
(* started anew, or the account could not be read back, the usage is the    *)
(* traffic between the first reading and the last one accounted, and what   *)
(* was counted again, whatever reports and writes were lost, in whatever    *)
(* order the sockets were read and however often the panel restarted.       *)
CountsAllItSees ==
  \A state \in {mem, row} :
    state.has_counter_baseline /\ ~unaccounted
      => state.usage + Billed(base) = Billed(state.last.at) + state.again

(* scheduler.rs:152-154: a report flips saturation exactly when it is the   *)
(* third window in a row at its threshold, the windows before the cap was   *)
(* zeroed and after it counting as neighbours; otherwise saturation ends    *)
(* only with the cap zeroed or the panel's memory lost.                     *)
Debounced ==
  [][LET level == IF saturation = "normal" THEN "high" ELSE "low"
     IN  /\ saturation' # saturation
              => \/ cap = "some" /\ EndsWith(levels, level, SatWindows - 1)
                 \/ saturation' = "normal" /\ (cap # "some" \/ PanelRestarts)
         /\ ~EndsWith(levels', level, SatWindows)]_vars

=============================================================================
