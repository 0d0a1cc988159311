CONSTANTS
  t1 = t1
  t2 = t2
  w1 = w1
  w2 = w2
  Tab = {t1, t2}
  Write = {w1, w2}
  MaxGen = 3
  MaxQueue = 1
  Loads <- MCLoads
  MigratesFrom <- MCMigratesFrom
  InPlace <- MCInPlace
SPECIFICATION Spec
INVARIANTS
  BrowserInv

  
  
CHECK_DEADLOCK FALSE
