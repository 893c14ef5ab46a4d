SPECIFICATION Spec
CONSTANTS
  SIGNALED = SIGNALED
  NULL = NULL
  RUNQ = RUNQ
  SLEEP = SLEEP
  idle = idle
  t1 = t1
  t2 = t2
  t3 = t3
  q1 = q1
  q2 = q2
  Thread <- ThreeThreads
  Idle = idle
  Queue <- OneQueue
  IsrQueue <- OneQueue
  CreatePrio <- Mixed3
  Prios <- Lower
  EcMax = 3
  MaxIsr = 2
  NotifySleepers = FALSE
INVARIANTS TypeOK OneList EventsAtHead CanResume IdleLast ListsInOrder
PROPERTIES FirstComeFirstServed
SYMMETRY Alike
