------------------------------- MODULE Kernel -------------------------------
(***************************************************************************)
(* The cooperative kernel of BermudaOS: the run queue and the scheduler    *)
(* (sys/sched.c), the calls by which a thread gives up the processor       *)
(* (sys/thread.c) and the events that block and wake threads               *)
(* (sys/events/event.c).                                                   *)
(*                                                                         *)
(* One thread runs at a time, and the processor changes hands in           *)
(* BermudaSwitchTask only.  Interrupt handlers run between any two         *)
(* critical sections of the running thread, so an action is what happens   *)
(* from one critical section on data that a handler shares (an event queue *)
(* and the ec fields of its threads) to the next one; pc is the place the  *)
(* running thread has reached.  A thread that was switched out always      *)
(* resumes behind BermudaSwitchTask, and cont says what it does there.     *)
(***************************************************************************)
EXTENDS ThreadQueue, FiniteSets

CONSTANTS
  Thread,         \* the threads
  Idle,           \* the idle thread
  Queue,          \* the event queues
  IsrQueue,       \* those that interrupt handlers post to
  RUNQ,           \* stands for &BermudaRunQueue in t->queue
  SLEEP,          \* stands for a timer that calls BermudaThreadTimeout
  CreatePrio,     \* the priority each thread is created with
  Prios,          \* the priorities that threads ask for later
  EcMax,          \* the largest value of ec, 255 for an unsigned char
  MaxIsr,         \* bound: how many events interrupt handlers post
  NotifySleepers  \* whether callers notify threads that did not call
                  \* BermudaThreadWait

ASSUME KernelConstants ==
  /\ Idle \in Thread
  /\ NULL \notin Thread \cup Queue \cup {RUNQ, SLEEP, SIGNALED}
  /\ SIGNALED \notin Seq(Thread) \cup Queue \cup {SLEEP}
  /\ {RUNQ, SLEEP} \cap Queue = {}
  /\ IsrQueue \subseteq Queue
  /\ CreatePrio \in [Thread -> Nat]
  /\ Prios \subseteq Nat
  /\ \A t \in Thread \ {Idle} : CreatePrio[t] < CreatePrio[Idle]
  /\ \A p \in Prios : p < CreatePrio[Idle]
  /\ EcMax \in Nat \ {0}
  /\ MaxIsr \in Nat
  /\ NotifySleepers \in BOOLEAN

VARIABLES
  threads, \* BermudaThreadHead: the threads created, the last one first
  runq,    \* BermudaRunQueue
  queue,   \* the event queues: SIGNALED or the threads that wait
  ec,      \* t->ec
  onq,     \* t->queue
  state,   \* t->state
  prio,    \* t->prio
  timer,   \* t->th_timer: NULL, SIGNALED, SLEEP, or the event queue that
           \* the armed timer passes to BermudaEventTMO
  cur,     \* BermudaCurrentThread
  pc,      \* where the running thread is
  wq,      \* the queue of the call in progress (tqpp)
  tmo,     \* whether that call has a time-out
  up,      \* the caller of BermudaEventSignalRaw: "yield" or "scan"
  scan,    \* the position of BermudaSchedulerExec in threads
  cont,    \* what each thread does when BermudaSwitchTask returns
  isrs     \* events posted by interrupt handlers so far

threadVars == <<onq, state, prio, timer>>
callVars   == <<wq, tmo, up>>
vars == <<threads, runq, queue, ec, onq, state, prio, timer, cur, pc, wq, tmo, up,
          scan, cont, isrs>>

State == {"READY", "RUNNING", "SLEEPING", "WAITING"}

PC == {"app",      \* in the code of the thread
       "waitRead", \* EventWaitNext has called EventWait
       "consume",  \* EventWait has seen SIGNALED
       "block",    \* EventWait has not seen SIGNALED
       "link",     \* PrioQueueAdd has found waiting threads
       "sigRead",  \* SignalRaw called from SchedulerExec
       "sigPop",   \* SignalRaw has seen waiting threads
       "sigSet",   \* SignalRaw has seen NULL
       "yield",    \* in ThreadYield
       "scan",     \* SchedulerExec: looks at the next thread
       "post",     \* SchedulerExec: has seen an event of that thread
       "timers",   \* SchedulerExec: TimerProcess
       "return"}   \* behind BermudaSwitchTask

\* What a thread that was switched out does next: return from a call that
\* has no result, return 0 from EventWait, or look at th_timer.
Cont == {"return", "granted", "blocked"}

(***************************************************************************)
(* BermudaSchedulerInit: the idle thread is created and runs.  A driver    *)
(* starts its queue with an event stored (SIGNALED) or empty.              *)
(***************************************************************************)
Init ==
  /\ threads = <<Idle>>
  /\ runq = <<Idle>>
  /\ queue \in [Queue -> {SIGNALED, <<>>}]
  /\ ec = [t \in Thread |-> 0]
  /\ onq = [t \in Thread |-> IF t = Idle THEN RUNQ ELSE NULL]
  /\ cur = Idle
  /\ state = [t \in Thread |-> "READY"]
  /\ prio = CreatePrio
  /\ timer = [t \in Thread |-> NULL]
  /\ pc = "app"
  /\ wq = NULL
  /\ tmo = FALSE
  /\ up = "yield"
  /\ scan = 1
  /\ cont = [t \in Thread |-> "return"]
  /\ isrs = 0
-----------------------------------------------------------------------------
(***************************************************************************)
(* Steps that several operations share.                                    *)
(***************************************************************************)

\* The idle thread does nothing but yield.
InApp == pc = "app" /\ cur # Idle

\* FAULT: the running thread stays in the run queue.
StayInRunQueue == UNCHANGED <<runq, ec>>

\* The running thread leaves the run queue.
LeaveRunQueue ==
  /\ runq' = Removed(runq, cur)
  /\ ec' = RemovedEc(runq, cur, ec)

\* FAULT: events posted by interrupt handlers are not looked for.
SchedulerSkipsEvents == pc' = "timers" /\ scan' = 1

\* Start of BermudaSchedulerExec.
SchedulerExec == pc' = "scan" /\ scan' = 1

\* FAULT: an event is counted off twice, where it is read and where it is
\* delivered.
TwoFewer(n) == n - 2

\* t->ec--, in an unsigned char.
OneFewer(n) == IF n = 0 THEN EcMax ELSE n - 1

\* FAULT: the timer of a thread that got its event goes on.
KeepTimer(t) == timer

\* BermudaTimerStop on the timer of t, if it has one.
StopTimer(t) == [timer EXCEPT ![t] = NULL]

\* Return from BermudaEventSignalRaw to its caller.
SignalReturns ==
  IF up = "scan"
  THEN pc' = "scan" /\ scan' = scan + 1
  ELSE pc' = "yield" /\ scan' = scan

\* The first critical section of BermudaEventWait.
CheckEvent(q) == pc' = IF queue[q] = SIGNALED THEN "consume" ELSE "block"

\* The branches of BermudaEventSignalRaw on what its first critical section
\* has read; a stored event stays as it is.
CheckWaiters(q) ==
  IF queue[q] = SIGNALED
  THEN SignalReturns
  ELSE pc' = (IF queue[q] = <<>> THEN "sigSet" ELSE "sigPop") /\ scan' = scan

\* The rest of BermudaEventWait up to BermudaSchedulerExec: with a time-out, a
\* timer is armed that will call BermudaEventTMO.
GoToSleep ==
  /\ state' = [state EXCEPT ![cur] = "SLEEPING"]
  /\ timer' = [timer EXCEPT ![cur] = IF tmo THEN wq ELSE NULL]
  /\ cont' = [cont EXCEPT ![cur] = "blocked"]
  /\ SchedulerExec
-----------------------------------------------------------------------------
(***************************************************************************)
(* BermudaEventWait and BermudaEventWaitNext (event.c).                    *)
(***************************************************************************)

EventWait(q, w) ==
  /\ InApp
  /\ wq' = q
  /\ tmo' = w
  /\ CheckEvent(q)
  /\ UNCHANGED <<threads, runq, queue, ec, threadVars, cur, up, scan, cont, isrs>>

\* Drops a stored event, then calls BermudaEventWait.
EventWaitNext(q, w) ==
  /\ InApp
  /\ wq' = q
  /\ tmo' = w
  /\ queue' = [queue EXCEPT ![q] = IF @ = SIGNALED THEN <<>> ELSE @]
  /\ pc' = "waitRead"
  /\ UNCHANGED <<threads, runq, ec, threadVars, cur, up, scan, cont, isrs>>

WaitRead ==
  /\ pc = "waitRead"
  /\ CheckEvent(wq)
  /\ UNCHANGED <<threads, runq, queue, ec, threadVars, cur, callVars, scan, cont, isrs>>

\* FAULT: the stored event is not cleared.
ConsumeEventKept ==
  /\ pc = "consume"
  /\ cont' = [cont EXCEPT ![cur] = "granted"]
  /\ pc' = "yield"
  /\ UNCHANGED <<threads, runq, queue, ec, threadVars, cur, callVars, scan, isrs>>

\* A stored event is taken at once; the thread yields and returns 0.
ConsumeEvent ==
  /\ pc = "consume"
  /\ queue' = [queue EXCEPT ![wq] = <<>>]
  /\ cont' = [cont EXCEPT ![cur] = "granted"]
  /\ pc' = "yield"
  /\ UNCHANGED <<threads, runq, ec, threadVars, cur, callVars, scan, isrs>>

(***************************************************************************)
(* The thread leaves the run queue and enters the event queue.  An         *)
(* interrupt handler may have posted an event since the check.             *)
(* BermudaThreadPrioQueueAdd links the thread in its first critical        *)
(* section when nobody else waits, and leaves it to look for the place of  *)
(* the thread otherwise.                                                   *)
(***************************************************************************)
BlockFirst ==
  /\ pc = "block"
  /\ queue[wq] \in {SIGNALED, <<>>}
  /\ runq' = Removed(runq, cur)
  /\ ec' = [RemovedEc(runq, cur, ec)
              EXCEPT ![cur] = IF queue[wq] = SIGNALED THEN 1 ELSE 0]
  /\ onq' = [onq EXCEPT ![cur] = wq]
  /\ queue' = [queue EXCEPT ![wq] = <<cur>>]
  /\ GoToSleep
  /\ UNCHANGED <<threads, prio, cur, callVars, isrs>>

BlockBehind ==
  /\ pc = "block"
  /\ queue[wq] \notin {SIGNALED, <<>>}
  /\ LeaveRunQueue
  /\ onq' = [onq EXCEPT ![cur] = wq]
  /\ pc' = "link"
  /\ UNCHANGED <<threads, queue, state, prio, timer, cur, callVars, scan, cont, isrs>>

LinkWaiter ==
  /\ pc = "link"
  /\ queue' = [queue EXCEPT ![wq] = PrioInsert(@, cur, prio)]
  /\ ec' = TakeOver(ec, cur, Successor(queue'[wq], cur))
  /\ GoToSleep
  /\ UNCHANGED <<threads, runq, onq, prio, cur, callVars, isrs>>
-----------------------------------------------------------------------------
(***************************************************************************)
(* BermudaEventSignal, BermudaEventSignalRaw, BermudaEventSignalFromISR.   *)
(***************************************************************************)

EventSignal(q) ==
  /\ InApp
  /\ wq' = q
  /\ up' = "yield"
  /\ pc' = IF queue[q] = SIGNALED THEN "yield"
           ELSE IF queue[q] = <<>> THEN "sigSet" ELSE "sigPop"
  /\ UNCHANGED <<threads, runq, queue, ec, threadVars, cur, tmo, scan, cont, isrs>>

SignalRead ==
  /\ pc = "sigRead"
  /\ CheckWaiters(wq)
  /\ UNCHANGED <<threads, runq, queue, ec, threadVars, cur, callVars, cont, isrs>>

\* The most important waiting thread leaves the queue and becomes ready.
SignalPop ==
  LET t == Head(queue[wq])
  IN  /\ pc = "sigPop"
      /\ queue' = [queue EXCEPT ![wq] = Released(@, t, ec)]
      /\ ec' = AddedEc(runq, t, prio, PassOn(ec, t, Successor(queue[wq], t)))
      /\ runq' = Added(runq, t, prio)
      /\ onq' = [onq EXCEPT ![t] = RUNQ]
      /\ timer' = StopTimer(t)
      /\ state' = [state EXCEPT ![t] = "READY"]
      /\ SignalReturns
      /\ UNCHANGED <<threads, prio, cur, callVars, cont, isrs>>

SignalStore ==
  /\ pc = "sigSet"
  /\ queue' = [queue EXCEPT ![wq] = SIGNALED]
  /\ SignalReturns
  /\ UNCHANGED <<threads, runq, ec, threadVars, cur, callVars, cont, isrs>>

\* An interrupt handler stores the event or counts it at the first waiter.
SignalFromISR(q) ==
  /\ isrs < MaxIsr
  /\ isrs' = isrs + 1
  /\ \/ /\ queue[q] = SIGNALED
        /\ UNCHANGED <<queue, ec>>
     \/ /\ queue[q] = <<>>
        /\ queue' = [queue EXCEPT ![q] = SIGNALED]
        /\ UNCHANGED ec
     \/ /\ queue[q] \notin {SIGNALED, <<>>}
        /\ ec' = [ec EXCEPT ![Head(queue[q])] = IF @ = EcMax THEN 0 ELSE @ + 1]
        /\ UNCHANGED queue
  /\ UNCHANGED <<threads, runq, threadVars, cur, pc, callVars, scan, cont>>
-----------------------------------------------------------------------------
(***************************************************************************)
(* The calls of thread.c.                                                  *)
(***************************************************************************)

\* The idle thread creates the main thread, and that one the others.
ThreadCreate(t) ==
  /\ pc = "app"
  /\ t \notin Range(threads)
  /\ cur = Idle => Len(threads) = 1
  /\ threads' = <<t>> \o threads
  /\ state' = [state EXCEPT ![t] = "READY"]
  /\ runq' = Added(runq, t, prio)
  /\ ec' = AddedEc(runq, t, prio, ec)
  /\ onq' = [onq EXCEPT ![t] = RUNQ]
  /\ UNCHANGED <<queue, prio, timer, cur, pc, callVars, scan, cont, isrs>>

CallYield ==
  /\ pc = "app"
  /\ cur = Idle => Len(threads) > 1
  /\ pc' = "yield"
  /\ UNCHANGED <<threads, runq, queue, ec, threadVars, cur, callVars, scan, cont, isrs>>

\* The running thread goes behind the threads that are as important as it.
ThreadYield ==
  /\ pc = "yield"
  /\ \/ /\ Successor(runq, cur) # NULL
        /\ runq' = Added(Removed(runq, cur), cur, prio)
        /\ ec' = AddedEc(Removed(runq, cur), cur, prio, RemovedEc(runq, cur, ec))
        /\ onq' = [onq EXCEPT ![cur] = RUNQ]
     \/ /\ Successor(runq, cur) = NULL
        /\ UNCHANGED <<runq, ec, onq>>
  /\ SchedulerExec
  /\ UNCHANGED <<threads, queue, state, prio, timer, cur, callVars, cont, isrs>>

ThreadSleep ==
  /\ InApp
  /\ LeaveRunQueue
  /\ onq' = [onq EXCEPT ![cur] = NULL]
  /\ state' = [state EXCEPT ![cur] = "SLEEPING"]
  /\ timer' = [timer EXCEPT ![cur] = SLEEP]
  /\ pc' = "yield"
  /\ UNCHANGED <<threads, queue, prio, cur, callVars, scan, cont, isrs>>

ThreadWait ==
  /\ InApp
  /\ LeaveRunQueue
  /\ onq' = [onq EXCEPT ![cur] = NULL]
  /\ state' = [state EXCEPT ![cur] = "WAITING"]
  /\ SchedulerExec
  /\ UNCHANGED <<threads, queue, prio, timer, cur, callVars, cont, isrs>>

ThreadNotify(t) ==
  /\ InApp
  /\ \/ /\ state[t] \in {"WAITING", "SLEEPING"}
        /\ state' = [state EXCEPT ![t] = "READY"]
        /\ runq' = Added(runq, t, prio)
        /\ ec' = AddedEc(runq, t, prio, ec)
        /\ onq' = [onq EXCEPT ![t] = RUNQ]
     \/ /\ state[t] \notin {"WAITING", "SLEEPING"}
        /\ UNCHANGED <<state, runq, ec, onq>>
  /\ pc' = "yield"
  /\ UNCHANGED <<threads, queue, prio, timer, cur, callVars, scan, cont, isrs>>

\* FAULT: the thread keeps its place in the run queue.
ThreadSetPrioInPlace(p) ==
  /\ InApp
  /\ prio' = [prio EXCEPT ![cur] = p]
  /\ UNCHANGED <<threads, runq, queue, ec, onq, state, timer, cur, pc, callVars,
                 scan, cont, isrs>>

\* Switches to the new head of the run queue without running the scheduler.
ThreadSetPrio(p) ==
  LET top == Head(runq')
  IN  /\ InApp
      /\ prio' = [prio EXCEPT ![cur] = p]
      /\ runq' = Added(Removed(runq, cur), cur, prio')
      /\ ec' = AddedEc(Removed(runq, cur), cur, prio', RemovedEc(runq, cur, ec))
      /\ onq' = [onq EXCEPT ![cur] = RUNQ]
      /\ \/ /\ cur = top
            /\ UNCHANGED <<state, cur, pc>>
         \/ /\ cur # top
            /\ state' = [state EXCEPT ![cur] = "READY", ![top] = "RUNNING"]
            /\ cur' = top
            /\ pc' = "return"
      /\ UNCHANGED <<threads, queue, timer, callVars, scan, cont, isrs>>
-----------------------------------------------------------------------------
(***************************************************************************)
(* BermudaSchedulerExec: post the events that interrupt handlers left at   *)
(* waiting threads, process the timers, run the head of the run queue.     *)
(***************************************************************************)

ScanThread ==
  /\ pc = "scan"
  /\ \/ /\ scan > Len(threads)
        /\ pc' = "timers"
        /\ UNCHANGED scan
     \/ /\ scan <= Len(threads)
        /\ ec[threads[scan]] = 0
        /\ scan' = scan + 1
        /\ UNCHANGED pc
     \/ /\ scan <= Len(threads)
        /\ ec[threads[scan]] > 0
        /\ pc' = "post"
        /\ UNCHANGED scan
  /\ UNCHANGED <<threads, runq, queue, ec, threadVars, cur, callVars, cont, isrs>>

PostEvent ==
  LET t == threads[scan]
  IN  /\ pc = "post"
      /\ ec' = [ec EXCEPT ![t] = OneFewer(@)]
      /\ wq' = onq[t]
      /\ up' = "scan"
      /\ \/ /\ queue[onq[t]] # SIGNALED
            /\ pc' = "sigRead"
            /\ UNCHANGED scan
         \/ /\ queue[onq[t]] = SIGNALED
            /\ pc' = "scan"
            /\ scan' = scan + 1
      /\ UNCHANGED <<threads, runq, queue, threadVars, cur, tmo, cont, isrs>>

\* FAULT: the thread is marked ready, and not linked into the run queue.
ThreadTimeoutMarks(t) ==
  /\ pc = "timers"
  /\ timer[t] = SLEEP
  /\ timer' = [timer EXCEPT ![t] = NULL]
  /\ state' = [state EXCEPT ![t] = "READY"]
  /\ UNCHANGED <<threads, runq, queue, ec, onq, prio, cur, pc, callVars, scan,
                 cont, isrs>>

\* BermudaThreadTimeout, called from BermudaTimerProcess.
ThreadTimeout(t) ==
  /\ pc = "timers"
  /\ timer[t] = SLEEP
  /\ timer' = [timer EXCEPT ![t] = NULL]
  /\ state' = [state EXCEPT ![t] = "READY"]
  /\ runq' = Added(runq, t, prio)
  /\ ec' = AddedEc(runq, t, prio, ec)
  /\ onq' = [onq EXCEPT ![t] = RUNQ]
  /\ UNCHANGED <<threads, queue, prio, cur, pc, callVars, scan, cont, isrs>>

\* BermudaEventTMO: the thread of the timer leaves the queue and its wait fails.
EventTMO(t) ==
  LET q == timer[t]
  IN  /\ pc = "timers"
      /\ q \in Queue
      /\ queue[q] # SIGNALED
      /\ Contains(queue[q], t)
      /\ queue' = [queue EXCEPT ![q] = Released(@, t, ec)]
      /\ ec' = AddedEc(runq, t, prio, PassOn(ec, t, Successor(queue[q], t)))
      /\ runq' = Added(runq, t, prio)
      /\ onq' = [onq EXCEPT ![t] = RUNQ]
      /\ state' = [state EXCEPT ![t] = "READY"]
      /\ timer' = [timer EXCEPT ![t] = SIGNALED]
      /\ UNCHANGED <<threads, prio, cur, pc, callVars, scan, cont, isrs>>

\* BermudaSwitchTask, if the running thread is not the head of the run queue.
\* The call is over, and with it the locals of its functions.
SwitchTask ==
  LET top == Head(runq)
  IN  /\ pc = "timers"
      /\ \/ /\ cur # top
            /\ cur' = top
            /\ state' = [state EXCEPT ![cur] = IF @ = "RUNNING" THEN "READY" ELSE @,
                                      ![top] = "RUNNING"]
         \/ /\ cur = top
            /\ UNCHANGED <<cur, state>>
      /\ pc' = "return"
      /\ wq' = NULL /\ tmo' = FALSE /\ up' = "yield" /\ scan' = 1
      /\ UNCHANGED <<threads, runq, queue, ec, onq, prio, timer, cont, isrs>>

\* The call returns; BermudaEventWait fails if its timer elapsed.
CallReturn ==
  /\ pc = "return"
  /\ pc' = "app"
  /\ cont' = [cont EXCEPT ![cur] = "return"]
  /\ timer' = [timer EXCEPT ![cur] = IF cont[cur] = "blocked" /\ @ = SIGNALED
                                     THEN NULL ELSE @]
  /\ UNCHANGED <<threads, runq, queue, ec, onq, state, prio, cur, callVars, scan, isrs>>
-----------------------------------------------------------------------------
(***************************************************************************)
(* What a thread may ask of the kernel.  A caller of BermudaThreadNotify   *)
(* normally names a thread that has called BermudaThreadWait.              *)
(***************************************************************************)
Notifiable(t) == t \in Range(threads) /\ (state[t] = "SLEEPING" => NotifySleepers)

AppCall ==
  \/ \E q \in Queue, w \in BOOLEAN : EventWait(q, w) \/ EventWaitNext(q, w)
  \/ \E q \in Queue : EventSignal(q)
  \/ \E t \in Thread : Notifiable(t) /\ ThreadNotify(t)
  \/ \E p \in Prios : ThreadSetPrio(p)
  \/ \E t \in Thread : ThreadCreate(t)
  \/ CallYield \/ ThreadSleep \/ ThreadWait

KernelStep ==
  \/ WaitRead \/ ConsumeEvent \/ BlockFirst \/ BlockBehind \/ LinkWaiter
  \/ SignalRead \/ SignalPop \/ SignalStore
  \/ ThreadYield \/ ScanThread \/ PostEvent \/ SwitchTask \/ CallReturn

TimerElapses == \E t \in Thread : ThreadTimeout(t) \/ EventTMO(t)

Interrupt == \E q \in IsrQueue : SignalFromISR(q)

Next == AppCall \/ KernelStep \/ TimerElapses \/ Interrupt

Spec == Init /\ [][Next]_vars

(***************************************************************************)
(* The running thread executes: its kernel code always goes on, and its    *)
(* own code calls the kernel sooner or later (the kernel is cooperative    *)
(* and depends on that).  The hardware timer ticks, so an armed timer      *)
(* elapses in one of the calls of BermudaTimerProcess.                     *)
(***************************************************************************)
Fairness ==
  /\ WF_vars(KernelStep)
  /\ WF_vars(AppCall)
  /\ \A t \in Thread : SF_vars(ThreadTimeout(t)) /\ SF_vars(EventTMO(t))

FairSpec == Spec /\ Fairness
-----------------------------------------------------------------------------
Waiters(q) == IF queue[q] = SIGNALED THEN {} ELSE Range(queue[q])

TypeOK ==
  /\ threads \in Seq(Thread)
  /\ runq \in Seq(Thread)
  /\ queue \in [Queue -> {SIGNALED} \cup Seq(Thread)]
  /\ ec \in [Thread -> 0 .. EcMax]
  /\ onq \in [Thread -> Queue \cup {RUNQ, NULL}]
  /\ state \in [Thread -> State]
  /\ prio \in [Thread -> Nat]
  /\ timer \in [Thread -> Queue \cup {SLEEP, SIGNALED, NULL}]
  /\ cur \in Thread
  /\ pc \in PC
  /\ wq \in Queue \cup {NULL}
  /\ tmo \in BOOLEAN
  /\ up \in {"yield", "scan"}
  /\ scan \in 1 .. Len(threads) + 1
  /\ cont \in [Thread -> Cont]
  /\ isrs \in 0 .. MaxIsr

(***************************************************************************)
(* Every thread is linked into exactly one place, the one t->queue names:  *)
(* its single "next" field allows no more.  The running thread is in none  *)
(* while it moves from the run queue to an event queue.                    *)
(***************************************************************************)
OneList ==
  /\ NoDuplicates(runq)
  /\ \A q \in Queue : queue[q] # SIGNALED => NoDuplicates(queue[q])
  /\ \A t \in Thread :
       /\ t \in Range(runq) <=> onq[t] = RUNQ
       /\ \A q \in Queue :
            t \in Waiters(q) <=> onq[t] = q /\ ~(pc = "link" /\ t = cur)

(***************************************************************************)
(* An event that an interrupt handler counted is held by the first thread  *)
(* of an event queue, where BermudaEventSignalRaw will find that thread.   *)
(***************************************************************************)
EventsAtHead ==
  \A t \in Thread : ec[t] > 0 => \E q \in Queue : t \in Waiters(q) /\ t = Head(queue[q])

(***************************************************************************)
(* A thread off the run queue can get back: it waits in an event queue, or *)
(* its sleep timer is armed, or it called BermudaThreadWait.  And a timer  *)
(* is armed for a thread only while there is something to time out.        *)
(***************************************************************************)
CanResume ==
  \A t \in Thread :
    /\ t \in Range(threads) \ Range(runq) =>
         \/ \E q \in Queue : t \in Waiters(q)
         \/ timer[t] = SLEEP
         \/ state[t] = "WAITING"
         \/ t = cur /\ pc = "link"
    /\ timer[t] = SLEEP => t \notin Range(runq) /\ state[t] = "SLEEPING"
    /\ \A q \in Queue : timer[t] = q => t \in Waiters(q)
    /\ timer[t] = SIGNALED => t \in Range(runq) /\ cont[t] = "blocked"

\* The processor always has the idle thread to turn to, behind all others.
IdleLast == runq # <<>> /\ runq[Len(runq)] = Idle

(***************************************************************************)
(* All lists are in order of importance, whatever the threads did to their *)
(* priorities.                                                             *)
(***************************************************************************)
ListsInOrder ==
  /\ InPrioOrder(runq, prio)
  /\ \A q \in Queue : queue[q] # SIGNALED => InPrioOrder(queue[q], prio)

(***************************************************************************)
(* A thread never overtakes an equally important one that was in the queue *)
(* before it, and leaves before the threads in front of it only when its   *)
(* wait times out.                                                         *)
(***************************************************************************)
Before(s, t, u) == \E i, j \in DOMAIN s : i < j /\ s[i] = t /\ s[j] = u

FirstComeFirstServed ==
  [][\A q \in Queue : \A t, u \in Thread :
       queue[q] # SIGNALED /\ t \in Range(queue[q]) =>
         /\ queue'[q] # SIGNALED /\ Before(queue'[q], u, t)
              => Before(queue[q], u, t) \/ prio[u] < prio[t]
         /\ Before(queue[q], t, u) /\ t \in Waiters(q)' /\ u \notin Waiters(q)'
              => timer'[u] = SIGNALED]_vars

(***************************************************************************)
(* An event posted to a waiting thread is not lost: the first thread of a  *)
(* queue that holds one gets out of the queue.                             *)
(***************************************************************************)
PostedEventWakes ==
  \A t \in Thread : ec[t] > 0 ~> t \in Range(runq)

(***************************************************************************)
(* sched.c:86: the threads that are ready run, one after the other when    *)
(* they are equally important.                                             *)
(***************************************************************************)
ReadyRuns == \A t \in Thread \ {Idle} : t \in Range(runq) ~> cur = t

\* A wait with a time-out, and a sleep, come to an end.
TimedWaitEnds ==
  \A t \in Thread : timer[t] \notin {NULL, SIGNALED} ~> t \in Range(runq)
=============================================================================
