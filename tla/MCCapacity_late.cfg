SPECIFICATION Spec
CONSTANTS
  MaxCarried = 2
  MaxInFlight = 1
  MaxEpochs = 1
  Earlier = {s1}
  s1 = s1
INVARIANT NeverOverCounts
CONSTRAINT Bounded
