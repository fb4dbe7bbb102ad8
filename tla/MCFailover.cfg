SPECIFICATION LogSpec
CONSTANTS
  b1 = b1
  b2 = b2
  b3 = b3
  RuleIds = {r1}
  Tools = {gost}
  Backends = {b1, b2, b3}
  BackendLists <- Lists
  failover_max_fails = 2
  failover_recovery_checks = 3
  probe_interval_secs = 2
  min_dwell_secs = 5
  U32Max = 4
  U64Max = 8
INVARIANTS
  ActiveHealthy
  HysteresisConsistent
PROPERTIES
  SwitchesJustified
  ImplementsPolicy
