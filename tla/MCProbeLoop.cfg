SPECIFICATION LoopSpec
CONSTANTS
  b1 = b1
  b2 = b2
  b3 = b3
  RuleIds = {r1}
  Tools = {gost}
  Backends = {b1, b2, b3}
  BackendLists <- Lists
  failover_max_fails = 2
  failover_recovery_checks = 2
  probe_interval_secs = 2
  min_dwell_secs = 3
  U32Max = 2
  U64Max = 4
  probe_timeout_ms = 2000
  heartbeat_interval_secs = 5
  PROBE_CONCURRENCY = 1
INVARIANT
  HealthMatchesEngine
PROPERTY
  SettlesOnBest
