SPECIFICATION DeviceSpec
CONSTANTS
  Absent = Absent
  NodeId = {1, 2}
  MaxFutureSkew = 1
  CounterBase = 3
  CounterWidth = 1
  Device = 1
  Walls = {0, 1, 2}
  RemoteHlcs <- PeerHlcs
  SnapshotHlcs <- BehindHlcs
  MaxCounter = 2
  MaxMints = 4
  Key <- StoredKeys
  Table = "t"
  Schemas <- Declared
  Typings <- Kinds
  MaxRows = 2
  Item = {1, 2}
  MaxFaults = 2
  MaxOps = 4
  MaxFailedUpgrades = 5
  MaxBackoff = 30
  Cooldown = 3600
  MaxTurns = 5
  Member = {m1, m2}
  File = {f}
  SealKey = {s1}
  MaxCalls = 3
  Client = {c1, c2}
  FileName = {1, 2}
  PageSize = 1
  MaxObjects = 5
  MaxRequests = 3
  MaxErrors = 1
INVARIANTS
  ClockCoversStamps
  
  ReturnedIsStored
  RelayInv
  DurableInv
  SealHolds
  MetadataAgrees
  FoldersInv
PROPERTIES
  StampsIncrease
  Reconnects
CHECK_DEADLOCK FALSE
