SPECIFICATION Spec
CONSTANTS
    Absent = Absent
    a1 = a1
    Adapters = {a1, a2}
    Generations = {1, 2, 3}
    ConnectCalls = {1, 2}
    MaxPulls = 2
    Flushes = {f1, f2}
    Compactions = {c1, c2}
    Checks = {k1, k2}
    flushThreshold = 2
    compactAutoThreshold = 1
    compactRemoteChangeThreshold = 0
INVARIANTS
  SessionInv
  UpkeepInv
PROPERTIES
  InvalidationAnswered
CHECK_DEADLOCK FALSE
