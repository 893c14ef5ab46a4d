SPECIFICATION FairLockSpec
CONSTANTS
  SIGNALED = SIGNALED
  NULL = NULL
  RUNQ = RUNQ
  SLEEP = SLEEP
  idle = idle
  t1 = t1
  t2 = t2
  t3 = t3
  d1 = d1
  q1 = q1
  Thread <- TwoThreads
  Idle = idle
  Queue <- DeviceEvent
  Device <- OneDevice
  IsrQueue <- EventOnly
  CreatePrio <- Equal2
  Prios <- Nothing
  EcMax = 3
  MaxIsr = 1
  NotifySleepers = FALSE
INVARIANTS OneEvent
PROPERTIES AllocSucceeds
