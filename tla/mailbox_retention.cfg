\* A device that is fenced when it returns after a long absence.
SPECIFICATION Spec
CONSTANTS
  d1 = d1
  Device = {d1}
  Readers = {}
  Writers = {d1}
  Compactors = {d1}
  MaxStamp = 2
  MaxEpoch = 2
  Faults = {"lapse", "deny", "stall", "fail", "list", "crash"}
  MaxFaults = 3
PROPERTY QuarantineWithheld
