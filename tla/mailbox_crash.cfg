SPECIFICATION Spec
CONSTANTS
  d1 = d1
  d2 = d2
  Device = {d1, d2}
  Readers = {}
  Writers = {d1}
  Compactors = {d2}
  MaxStamp = 2
  MaxEpoch = 1
  Faults = {"crash", "fail", "list", "read", "stall"}
  MaxFaults = 1
INVARIANT ReceiptsApplied
PROPERTY ImplementsLog
