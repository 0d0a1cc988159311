SPECIFICATION Spec
CONSTANTS
    Absent = Absent
    Generator = generator
    RecoveredKey = recovered
    feature = feature
    Scanners = {s1, s2}
    CompleteCalls = {c1, c2}
    Tabs = {t1, t2}
    MeshIds = {m1, m2}
    StoreIds = {1, 2}
    Changes = {1, 2}
    MaxRequests = 4
    MaxGrants = 3
    Subjects = {u1}
    Beginnings = {Absent, 1}
    Expiries = {Absent, 1, 2}
    Requests = {r1}
    MaxDepth = 2
    maxChainLength = 2
    LastTime = 1
    MaxRevoked = 1
    python = python
    swift = swift
    Python = {python}
    Swift = {swift}
    Mutations = {1, 2, 3}
    RowOf <- MCRowOf
    Calls = {1, 2}
    MaxEpoch = 3
INVARIANTS
  PairingInv
  
  HookSettles
  
PROPERTIES
  GrantedWithinRoot
  PullShows
CHECK_DEADLOCK FALSE
