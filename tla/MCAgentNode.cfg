SPECIFICATION AgentSpec
CONSTANTS
  b1 = b1
  b2 = b2
  r1 = r1
  r2 = r2
  RuleIds = {r1, r2}
  Backends = {b1, b2}
  BackendLists <- OneList
  failover_max_fails = 1
  failover_recovery_checks = 1
  probe_interval_secs = 5
  min_dwell_secs = 0
  U32Max = 1
  U64Max = 0
  Gens = {1}
  RuleSets <- FewRules
  WriteFaults = {"realm", "cert"}
  SpawnFaults = {"realm"}
  NoConfig = NoConfig
  Truncated = Truncated
INVARIANTS
  ReportedIsServed
  KillSwitchHolds
PROPERTIES
  AppliedOnlyWhenRunning
  SwitchBouncesOnlyItsTool
  RelayComesBackOnActive
