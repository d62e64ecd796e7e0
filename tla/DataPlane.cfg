CONSTANTS
  c1 = c1
  c2 = c2
  c3 = c3
  k1 = k1
  k2 = k2
  f1 = f1
  f2 = f2
  Conns <- MCConns
  Sources = {1, 2}
  Limits = {0, 1}
  MaxEdits = 2
  EditedConns = 2
  BoxConfigs = {"entry", "plain", "landing"}
  RelayEntry = {"entry"}
  BoxLanding = {"landing"}
  Routes = {1}
  Identity <- MCIdentity
  BoxUserSets <- MCUserSets
  Clients <- MCClients
  MaxAsks = 3
  Flows <- MCFlows
  Addresses = {1, 2}
  Speeds = {1, 2}
  DeviceLimits = {0, 1}
  Elsewhere <- MCElsewhere
  MaxUpdates = 2
  MaxTrackers = 2
  MaxCarried = 1
  GateUpdates = 1
  SpeedAddresses = {1}
  SessionIds = {1}
  StreamIds = {1, 2}
  Callers = {"call"}
  MinIdleSession = 0
  MaxBreaks = 1
SYMMETRY DataPlaneSymmetry
SPECIFICATION DataPlaneSpec
INVARIANTS DataPlaneTypeOK DispatcherExact TrackerExact BoxSound PoolSound
CHECK_DEADLOCK FALSE
