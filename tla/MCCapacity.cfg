SPECIFICATION Spec
CONSTANTS
  MaxCarried = 2
  MaxInFlight = 1
  MaxEpochs = 2
  Earlier = {s1}
  s1 = s1
INVARIANTS OverCountsOnlyAgain CountsAllItSees
PROPERTY Debounced
CONSTRAINT Bounded
