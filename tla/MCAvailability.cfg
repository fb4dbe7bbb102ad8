SPECIFICATION Spec
CONSTANTS
  n1 = n1
  n2 = n2
  a1 = a1
  a2 = a2
  a6 = a6
  g1 = g1
  g2 = g2
  Nodes = {n1, n2}
  Groups = {g1, g2}
  AddressesOf <- TwoAddresses
  IPv6 = {a6}
  Memberships <- Shared
  Fallback <- OnTheOther
  NoGroup = NoGroup
  Deleted = Deleted
  Reports <- FewReports
  Requests = {h1}
  Sessions = {s1}
INVARIANTS
  ServedOnlyVouched
PROPERTIES
  SilentNodeLeaves
  OldAddressLeaves
  LineIsAnswered
