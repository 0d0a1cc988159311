SPECIFICATION Spec
CONSTANTS
  d1 = d1
  d2 = d2
  Device = {d1, d2}
  Readers = {}
  Writers = {d1, d2}
  Compactors = {d2}
  MaxStamp = 2
  MaxEpoch = 1
  Faults = {}
  MaxFaults = 0
INVARIANTS
  SnapshotsCover
  AcceptedKept

  
