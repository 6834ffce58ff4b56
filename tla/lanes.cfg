SPECIFICATION ObservedSpec
CONSTANTS
  o1 = o1
  o2 = o2
  o3 = o3
  o4 = o4
  o5 = o5
  o6 = o6
  t1 = t1
  t2 = t2
  b1 = b1
  b2 = b2
  g1 = g1
  g2 = g2
  c1 = c1
  c2 = c2
  p1 = p1
  p2 = p2
  Daemon = Daemon
  NoGroup = NoGroup
  NoClient = NoClient
  AnyClient = AnyClient
  UidOf <- OneUid
  BrowserOf <- Placement
  HomeOf <- Homes
  OwnerOf <- Owners
  Ops = {o1, o2, o3, o4, o5, o6}
  Tabs = {t1}
  Browsers = {b1}
  GroupIds = {g1}
  Clients = {c1, c2}
  Principals = {p1}
  Request <- Shared
  IdleLease = 2
  DisconnectGrace = 1
  SettlementWindow = 1
  PerClient = 3
  PerTab = 1
  PerBridgeDispatch = 2
  RecentLimit = 1
  Recovered = {}
  Commands = {"cancel", "query"}
  Outcomes = {"success", "failure"}
  MaxLease = 1
  MaxFence = 3
  MaxRevision = 1
INVARIANTS
  Exclusive
  QueuesExact
  OvertakenSeldom
  RecentExact
  IntentsExact
  NoPhantomExecution
PROPERTIES
  NoReplay
