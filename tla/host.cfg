\* The mailbox host: two handlers at a time, three requests in all;
\* and the lives of a mesh that is evicted.
SPECIFICATION MCHostSpec
CONSTANTS
  none = none
  k1 = k1
  k2 = k2
  h1 = h1
  h2 = h2
  s1 = s1
  p1 = p1
  p2 = p2
  Peer = {p1, p2}
  Stories <- MCStories
  Handler = {h1, h2}
  Colo = {k1, k2}
  Socket = {s1}
  Absent = none
  Address <- MCAddress
  Name <- MCName
  Value = {0, 1, 2}
  Loads <- MCLoads
  GateRuns <- MCGateRuns
  LayerRuns <- MCLayerRuns
  Policy <- MCPolicy
  PathTtl = 1
  MaxTime = 3
  MaxRequests = 3
  MaxCalls = 1
  MaxStoredFileBytes = 2
  MaxMeshStoredBytes = 2
SYMMETRY Symmetry
INVARIANTS
  
  StoredFilesInv
  OwedAreServed
  LineageInv
PROPERTIES
  LoweredOnlyByRace
  AnchoredKeep
