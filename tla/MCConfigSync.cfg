SPECIFICATION Spec
CONSTANTS
  n1 = n1
  n2 = n2
  r1 = r1
  h1 = h1
  h2 = h2
  Nodes = {n1}
  Rules = {r1}
  Revisions = {1}
  Handlers = {h1}
  Events <- AllOnOne
  Unowned = Unowned
  NoRule = NoRule
  MaxGen = 2
  MaxQueue = 1
INVARIANTS
  DivergenceHasKnownCause
PROPERTY
  GenerationsAgree
CHECK_DEADLOCK FALSE
