SPECIFICATION LiveSpec
CONSTANTS
  o1 = o1
  o2 = o2
  o3 = o3
  o4 = o4
  o5 = o5
  o6 = o6
  t1 = t1
  t2 = t2
  b1 = b1
  b2 = b2
  g1 = g1
  g2 = g2
  c1 = c1
  c2 = c2
  p1 = p1
  p2 = p2
  Daemon = Daemon
  NoGroup = NoGroup
  NoClient = NoClient
  AnyClient = AnyClient
  UidOf <- OneUid
  BrowserOf <- Placement
  HomeOf <- Homes
  OwnerOf <- Owners
  Ops = {o1, o2}
  Tabs = {t1, t2}
  Browsers = {b1}
  GroupIds = {g1}
  Clients = {c1}
  Principals = {p1}
  Request <- TwoTabs
  IdleLease = 2
  DisconnectGrace = 1
  SettlementWindow = 1
  PerClient = 4
  PerTab = 2
  PerBridgeDispatch = 2
  RecentLimit = 4
  Recovered = {}
  Commands = {"clock", "disconnect", "end", "settle"}
  Outcomes = {"success", "ambiguous"}
  MaxLease = 1
  MaxFence = 3
  MaxRevision = 2
PROPERTIES
  SettlementsSurface
  OrphansEnd
