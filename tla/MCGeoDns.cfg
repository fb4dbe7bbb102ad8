SPECIFICATION MCSpec
CONSTANTS
  www = www
  sub = sub
  apex = apex
  tail = tail
  Names <- ItsNames
  EndsWith <- ItsEnds
  Below <- ItsBelow
  Zones = {1, 2}
  NoZone = NoZone
  CfDomain = apex
  ZoneSpecs <- OneSpec
  SettingsZone <- ItsSettings
  Requests = {h1, h2}
  Day = 12
  Offsets <- ItsOffsets
  Groups = {1, 2, 3}
  NoGroup = 0
  AnyValue = AnyValue
  Always = Always
  GroupConfigs <- ItsLines
  Regions = {"east", "west"}
  Isps = {"ct"}
  Clients <- ItsClients
  Addresses = {"a1", "a2", "v6"}
  IPv4 = {"a1", "a2"}
  Available = {{}, {"a1"}, {"a2", "v6"}, {"v6"}}
  Updates = {h1, h2}
  Fetches = {f1}
  Ids = {i1, i2, i3}
  NoRecord = NoRecord
  NsHost = "ns"
  PanelName = "panel"
  Children = {"sub"}
  ManagedLists <- OneList
  Configured = "sub"
  Ips = {"1", "2"}
  NoIp = NoIp
  Jobs = {h1, h2}
  OperatorRecords <- OtherAddress
INVARIANTS
  ZonesFollowRows
  OneZonePerName
  WindowsHandOver
  OutsideWindowAbsent
  OkMeansKept
  RepairEndsRight
  OneRecordPerName
SYMMETRY Symmetry
