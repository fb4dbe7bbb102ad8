SPECIFICATION Spec
CONSTANTS
  MaxSockets = 3
  MaxInFlight = 2
  PanelMayRestart = TRUE
INVARIANTS OthersAreClosed RegisteredIsConfigured
PROPERTIES EvictedOnlyByItself StayingAgentCounts
CHECK_DEADLOCK FALSE
