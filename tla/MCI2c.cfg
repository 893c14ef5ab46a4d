SPECIFICATION Spec
CONSTANTS
  NULL = NULL
  SIGNALED = SIGNALED
  mc = mc
  md = md
  sc = sc
  x1 = x1
  x2 = x2
  x3 = x3
  DefaultLimit = 2
  Msg <- Messages
  Client <- Clients
  Masters <- TwoMasters
  HasCallback <- Clients
  Lengths <- TwoBytes
  MaxQueued <- Queued
  MaxEvents = 1
  Faults <- SomeFaults
INVARIANTS I2cTypeOK OnePlace InUse MasterServed SentOnce
SYMMETRY Alike
