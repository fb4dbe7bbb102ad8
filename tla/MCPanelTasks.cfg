SPECIFICATION MCSpec
CONSTANTS
  ZoneOrder <- TwoZones
  Delegated = {"here"}
  Requests = {r1}
  Loop = Loop
  Nobody = Nobody
  FrontNodes = {n1, n2}
  Sockets = {p1}
  Rules = {i1, i2}
  NoRule = NoRule
  Copies = {none, one}
  NoCopies = none
  Omitted = Omitted
  Editors = {e1, e2}
  Handlers = {h1, h2}
  NoSecret = NoSecret
  Secrets = {s1, s2}
  Tokens = {t1, t2}
  MaxPassword = 1
  Agents = {a1}
  Jobs = {j1, j2}
  MaxBuild = 1
  Part = Part
  NoFile = NoFile
  NodeOrder <- OneNode
  Hosts = {"host1", "host2"}
  Literals = {"1"}
  Ips = {"1", "2"}
  Refresh = "refresh"
  Rebuilders = {"b1"}
  NoAddress = "none"
  Token = "token"
  PanelIp = "ip"
  KeyOrder <- ThreeKeys
  Required = {"token"}
  Default = Default
  Values = {v1}
  PanelIps = {"1"}
  Blank = Blank
  Absent = Absent
  None = None
  Unchanged = Unchanged
  Workers = {w1, w2}
INVARIANTS
  PairsMatch
  UniqueListenSockets
  EnabledMeansConfirmed
  SessionsFollowPassword
  WholeExecutables
  ToldRunIt
  ServedIsItsName
  RestartKeepsSettings
PROPERTIES
  DueIsRenewed
