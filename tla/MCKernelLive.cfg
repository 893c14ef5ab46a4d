SPECIFICATION FairSpec
CONSTANTS
  SIGNALED = SIGNALED
  NULL = NULL
  RUNQ = RUNQ
  SLEEP = SLEEP
  idle = idle
  t1 = t1
  t2 = t2
  t3 = t3
  q1 = q1
  q2 = q2
  Thread <- TwoThreads
  Idle = idle
  Queue <- OneQueue
  IsrQueue <- OneQueue
  CreatePrio <- Equal2
  Prios <- NoPrios
  EcMax = 3
  MaxIsr = 2
  NotifySleepers = FALSE
PROPERTIES PostedEventWakes TimedWaitEnds ReadyRuns
