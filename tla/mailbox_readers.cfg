SPECIFICATION LiveSpec
CONSTANTS
  d1 = d1
  d2 = d2
  Device = {d1, d2}
  Readers = {d2}
  Writers = {d1}
  Compactors = {d1}
  MaxStamp = 1
  MaxEpoch = 3
  Faults = {}
  MaxFaults = 0
INVARIANT EpochRestored
PROPERTY ReadersCatchUp
