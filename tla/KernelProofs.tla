---------------------------- MODULE KernelProofs ----------------------------
(***************************************************************************)
(* The safety of the kernel for any number of threads and event queues:    *)
(* TypeOK, OneList, EventsAtHead and CanResume are invariants of Kernel,   *)
(* as are ListsInOrder and IdleLast, and its steps are                     *)
(* FirstComeFirstServed.                                                   *)
(*                                                                         *)
(* None of the first three is inductive alone.  OneList says that the      *)
(* thread an event wakes is not in the run queue already; EventsAtHead     *)
(* says that the thread whose event the scheduler posts is in an event     *)
(* queue, so that t->queue is one; and both need to know where the running *)
(* thread is at each place of the code (Running, Located), that a thread   *)
(* with a sleep timer or in BermudaThreadWait is in no list (OffLists),    *)
(* and that a thread not created yet is in none either (Created).          *)
(* CanResume follows by a further invariant, Resume.                       *)
(***************************************************************************)
EXTENDS KernelEvents, ThreadQueueProofs

\* Where the running thread is.
Running ==
  /\ pc \in {"app", "waitRead", "consume", "block", "return"} => cur \in Range(runq)
  /\ pc \in {"waitRead", "consume", "block", "link"} => cur # Idle
  /\ pc = "link" => onq[cur] = wq

\* What the code at pc has found out.
Located ==
  /\ pc \in {"waitRead", "consume", "block", "link", "sigRead", "sigPop", "sigSet"}
       => wq \in Queue
  /\ pc = "consume" => queue[wq] = SIGNALED
  /\ pc = "sigSet" => queue[wq] \in {SIGNALED, <<>>}
  /\ pc \in {"link", "sigPop"} => queue[wq] \notin {SIGNALED, <<>>}
  /\ pc \in {"sigRead", "sigPop", "sigSet"} /\ up = "scan" => scan <= Len(threads)
  /\ pc = "post" =>
       /\ scan <= Len(threads)
       /\ \E q \in Queue : /\ threads[scan] \in Waiters(q)
                           /\ threads[scan] = Head(queue[q])

\* Threads that are in no list.
OffLists ==
  \A t \in Thread : timer[t] = SLEEP \/ state[t] = "WAITING" => onq[t] = NULL

WaitingHasNoTimer ==
  \A t \in Thread : state[t] = "WAITING" => timer[t] # SLEEP

Created ==
  /\ cur \in Range(threads)
  /\ \A t \in Thread \ Range(threads) : onq[t] = NULL /\ timer[t] = NULL

\* The inductive invariant.
IInv ==
  /\ TypeOK /\ OneList /\ EventsAtHead
  /\ Idle \in Range(runq)
  /\ Running /\ Located /\ OffLists /\ WaitingHasNoTimer /\ Created
-----------------------------------------------------------------------------
(***************************************************************************)
(* Consequences of the invariant that the steps use.                       *)
(***************************************************************************)

LEMMA Constants ==
  /\ NULL \notin Thread /\ NULL \notin Queue /\ NULL # RUNQ /\ NULL # SLEEP
  /\ NULL # SIGNALED
  /\ SIGNALED \notin Seq(Thread) /\ SIGNALED \notin Queue /\ SIGNALED # SLEEP
  /\ RUNQ \notin Queue /\ SLEEP \notin Queue
  /\ Idle \in Thread /\ EcMax \in Nat /\ MaxIsr \in Nat
  /\ IsrQueue \subseteq Queue /\ Prios \subseteq Nat
BY KernelConstants

\* The lists hold threads, each once, and events are at heads of event queues.
LEMMA Facts ==
  ASSUME IInv
  PROVE  /\ runq \in Seq(Thread) /\ NoDuplicates(runq) /\ Range(runq) \subseteq Thread
         /\ runq # <<>> /\ Head(runq) \in Range(runq)
         /\ prio \in [Thread -> Nat] /\ ec \in [Thread -> Nat]
         /\ \A u \in Range(runq) : onq[u] = RUNQ /\ ec[u] = 0
         /\ \A u \in Thread : u \in Range(runq) <=> onq[u] = RUNQ
         /\ \A q \in Queue : queue[q] # SIGNALED =>
              /\ queue[q] \in Seq(Thread) /\ NoDuplicates(queue[q])
              /\ Range(queue[q]) \subseteq Thread
              /\ \A u \in Range(queue[q]) :
                   /\ onq[u] = q /\ u \notin Range(runq)
                   /\ ec[u] > 0 => u = Head(queue[q])
         /\ cur \in Thread /\ threads \in Seq(Thread) /\ Range(threads) \subseteq Thread
<1>1. runq \in Seq(Thread) /\ NoDuplicates(runq) /\ threads \in Seq(Thread) /\ cur \in Thread
  BY DEF IInv, TypeOK, OneList
<1>2. Range(runq) \subseteq Thread /\ Range(threads) \subseteq Thread
  BY <1>1, RangeOfSeq
<1>3. prio \in [Thread -> Nat] /\ ec \in [Thread -> Nat]
  BY Constants DEF IInv, TypeOK
<1>4. \A u \in Thread : u \in Range(runq) <=> onq[u] = RUNQ
  BY DEF IInv, OneList
<1>5. \A u \in Thread : ec[u] > 0 => \E q \in Queue : onq[u] = q /\ u = Head(queue[q])
  BY DEF IInv, EventsAtHead, OneList
<1>6. \A u \in Range(runq) : onq[u] = RUNQ /\ ec[u] = 0
  BY <1>2, <1>3, <1>4, <1>5, Constants
<1>7. ASSUME NEW q \in Queue, queue[q] # SIGNALED
      PROVE  /\ queue[q] \in Seq(Thread) /\ NoDuplicates(queue[q])
             /\ Range(queue[q]) \subseteq Thread
             /\ \A u \in Range(queue[q]) :
                  /\ onq[u] = q /\ u \notin Range(runq)
                  /\ ec[u] > 0 => u = Head(queue[q])
  <2>1. queue[q] \in Seq(Thread) /\ NoDuplicates(queue[q])
    BY <1>7 DEF IInv, TypeOK, OneList
  <2>2. Range(queue[q]) \subseteq Thread BY <2>1, RangeOfSeq
  <2>3. \A u \in Range(queue[q]) : onq[u] = q
    BY <2>2, <1>7 DEF IInv, OneList, Waiters
  <2>4. QED BY <2>1, <2>2, <2>3, <1>4, <1>5, Constants
<1>8. runq # <<>> /\ Head(runq) \in Range(runq)
  BY <1>1, MemberIsNotEmpty, HeadInRange DEF IInv
<1>9. QED BY <1>1, <1>2, <1>3, <1>4, <1>6, <1>7, <1>8

\* A thread joins a list without events: it has none.
LEMMA JoinsList ==
  ASSUME NEW l \in Seq(Thread), NoDuplicates(l), NEW t \in Thread, t \notin Range(l),
         NEW p \in [Thread -> Nat],
         NEW e \in [Thread -> Nat], \A u \in Range(l) : e[u] = 0
  PROVE  Joined(Thread, l, t, p, e)
<1>1. SIGNALED \notin Seq(Thread) /\ NULL \notin Thread BY Constants
<1>2. QED BY <1>1, AddedProps, Zenon

\* BermudaThreadPrioQueueAdd(&BermudaRunQueue, t).
LEMMA JoinRunQueue ==
  ASSUME IInv, NEW t \in Thread, t \notin Range(runq),
         NEW p \in [Thread -> Nat],
         NEW e \in [Thread -> Nat], \A u \in Range(runq) : e[u] = 0
  PROVE  /\ Added(runq, t, p) \in Seq(Thread)
         /\ NoDuplicates(Added(runq, t, p))
         /\ Range(Added(runq, t, p)) = Range(runq) \cup {t}
         /\ AddedEc(runq, t, p, e) = [e EXCEPT ![t] = 0]
<1>1. runq \in Seq(Thread) /\ NoDuplicates(runq) BY Facts
<1>2. Joined(Thread, runq, t, p, e) BY <1>1, JoinsList
<1>3. QED BY <1>2 DEF Joined

\* BermudaThreadQueueRemove(&BermudaRunQueue, BermudaCurrentThread).
LEMMA QuitRunQueue ==
  ASSUME IInv, cur \in Range(runq)
  PROVE  /\ Removed(runq, cur) \in Seq(Thread)
         /\ NoDuplicates(Removed(runq, cur))
         /\ Range(Removed(runq, cur)) = Range(runq) \ {cur}
         /\ RemovedEc(runq, cur, ec) = ec
BY Facts, Constants, RemovedProps

\* Both: the running thread goes to its place in the run queue.
LEMMA RequeueCurrent ==
  ASSUME IInv, cur \in Range(runq), NEW p \in [Thread -> Nat]
  PROVE  LET r == Removed(runq, cur)
         IN  /\ Added(r, cur, p) \in Seq(Thread)
             /\ NoDuplicates(Added(r, cur, p))
             /\ Range(Added(r, cur, p)) = Range(runq)
             /\ AddedEc(r, cur, p, RemovedEc(runq, cur, ec)) = ec
<1> DEFINE r == Removed(runq, cur)
<1>1. /\ r \in Seq(Thread) /\ NoDuplicates(r)
      /\ Range(r) = Range(runq) \ {cur} /\ RemovedEc(runq, cur, ec) = ec
  BY QuitRunQueue
<1>2. ec \in [Thread -> Nat] /\ cur \in Thread /\ \A u \in Range(runq) : ec[u] = 0
  BY Facts
<1> HIDE DEF r
<1>3. cur \notin Range(r) /\ \A u \in Range(r) : ec[u] = 0 BY <1>1, <1>2
<1>4. r \in Seq(Thread) /\ NoDuplicates(r) BY <1>1
<1>5. Joined(Thread, r, cur, p, ec)
  BY <1>2, <1>3, <1>4, JoinsList
<1>7. /\ Added(r, cur, p) \in Seq(Thread) /\ NoDuplicates(Added(r, cur, p))
      /\ Range(Added(r, cur, p)) = Range(r) \cup {cur}
      /\ AddedEc(r, cur, p, ec) = [ec EXCEPT ![cur] = 0]
  BY <1>5 DEF Joined
<1>8. [ec EXCEPT ![cur] = 0] = ec BY <1>2
<1>9. QED BY <1>1, <1>7, <1>8 DEF r
-----------------------------------------------------------------------------
(***************************************************************************)
(* What steps do to the lists.                                             *)
(***************************************************************************)

\* The lists and the counts stay as they are.
LEMMA SameLists ==
  ASSUME IInv, runq' = runq, queue' = queue, ec' = ec, onq' = onq,
         pc # "link", pc' # "link"
  PROVE  OneList' /\ EventsAtHead' /\ Idle \in Range(runq')
<1>1. \A q \in Queue : Waiters(q)' = Waiters(q) BY DEF Waiters
<1>2. OneList /\ EventsAtHead /\ Idle \in Range(runq) BY DEF IInv
<1>3. OneList' BY <1>1, <1>2 DEF OneList
<1>4. EventsAtHead' BY <1>1, <1>2 DEF EventsAtHead
<1>5. QED BY <1>2, <1>3, <1>4

\* The threads stay as they are.
LEMMA SameThreads ==
  ASSUME IInv, UNCHANGED <<threads, onq, state, timer, cur>>
  PROVE  OffLists' /\ WaitingHasNoTimer' /\ Created'
BY DEF IInv, OffLists, WaitingHasNoTimer, Created
-----------------------------------------------------------------------------
(***************************************************************************)
(* The steps that only move on in the code.                                *)
(***************************************************************************)

LEMMA EventWaitStep ==
  ASSUME IInv, NEW q \in Queue, NEW w \in BOOLEAN, EventWait(q, w)
  PROVE  IInv'
<1>1. pc # "link" /\ pc' \in {"consume", "block"}
  BY DEF EventWait, InApp, CheckEvent
<1>2. OneList' /\ EventsAtHead' /\ Idle \in Range(runq')
  BY <1>1, SameLists DEF EventWait, threadVars
<1>3. OffLists' /\ WaitingHasNoTimer' /\ Created'
  BY SameThreads DEF EventWait, threadVars
<1>4. TypeOK'
  BY <1>1 DEF IInv, TypeOK, EventWait, threadVars, PC
<1>5. Running' /\ Located'
  BY <1>1 DEF IInv, Running, Located, EventWait, InApp, CheckEvent, threadVars
<1>6. QED BY <1>2, <1>3, <1>4, <1>5 DEF IInv

LEMMA WaitReadStep ==
  ASSUME IInv, WaitRead
  PROVE  IInv'
<1>1. pc = "waitRead" /\ pc' \in {"consume", "block"}
  BY DEF WaitRead, CheckEvent
<1>2. OneList' /\ EventsAtHead' /\ Idle \in Range(runq')
  BY <1>1, SameLists DEF WaitRead, threadVars
<1>3. OffLists' /\ WaitingHasNoTimer' /\ Created'
  BY SameThreads DEF WaitRead, threadVars
<1>4. TypeOK'
  BY <1>1 DEF IInv, TypeOK, WaitRead, threadVars, callVars, PC
<1>5. Running' /\ Located'
  BY <1>1 DEF IInv, Running, Located, WaitRead, CheckEvent, threadVars, callVars
<1>6. QED BY <1>2, <1>3, <1>4, <1>5 DEF IInv

LEMMA EventSignalStep ==
  ASSUME IInv, NEW q \in Queue, EventSignal(q)
  PROVE  IInv'
<1>1. /\ pc = "app" /\ pc' \in {"yield", "sigSet", "sigPop"}
      /\ pc' = "sigSet" => queue[q] \in {SIGNALED, <<>>}
      /\ pc' = "sigPop" => queue[q] \notin {SIGNALED, <<>>}
  BY DEF EventSignal, InApp
<1>2. OneList' /\ EventsAtHead' /\ Idle \in Range(runq')
  BY <1>1, SameLists DEF EventSignal, threadVars
<1>3. OffLists' /\ WaitingHasNoTimer' /\ Created'
  BY SameThreads DEF EventSignal, threadVars
<1>4. TypeOK'
  BY <1>1 DEF IInv, TypeOK, EventSignal, threadVars, PC
<1>5. Running' /\ Located'
  BY <1>1 DEF IInv, Running, Located, EventSignal, threadVars
<1>6. QED BY <1>2, <1>3, <1>4, <1>5 DEF IInv

LEMMA SignalReadStep ==
  ASSUME IInv, SignalRead
  PROVE  IInv'
<1>1. /\ pc = "sigRead" /\ wq \in Queue
      /\ pc' \in {"yield", "scan", "sigSet", "sigPop"}
      /\ pc' = "sigSet" => queue[wq] \in {SIGNALED, <<>>}
      /\ pc' = "sigPop" => queue[wq] \notin {SIGNALED, <<>>}
      /\ \/ scan' = scan
         \/ up = "scan" /\ pc' = "scan" /\ scan' = scan + 1
  BY DEF SignalRead, CheckWaiters, SignalReturns, IInv, Located
<1>2. OneList' /\ EventsAtHead' /\ Idle \in Range(runq')
  BY <1>1, SameLists DEF SignalRead, threadVars
<1>3. OffLists' /\ WaitingHasNoTimer' /\ Created'
  BY SameThreads DEF SignalRead, threadVars
<1>4. up = "scan" => scan <= Len(threads)
  BY <1>1 DEF IInv, Located
<1>5. scan' \in 1 .. Len(threads) + 1
  BY <1>1, <1>4, LenProperties DEF IInv, TypeOK
<1>6. TypeOK'
  BY <1>1, <1>5 DEF IInv, TypeOK, SignalRead, threadVars, callVars, PC
<1>7. Running' /\ Located'
  BY <1>1, <1>4 DEF IInv, Running, Located, SignalRead, threadVars, callVars
<1>8. QED BY <1>2, <1>3, <1>6, <1>7 DEF IInv

LEMMA CallYieldStep ==
  ASSUME IInv, CallYield
  PROVE  IInv'
<1>1. pc = "app" /\ pc' = "yield" BY DEF CallYield
<1>2. OneList' /\ EventsAtHead' /\ Idle \in Range(runq')
  BY <1>1, SameLists DEF CallYield, threadVars
<1>3. OffLists' /\ WaitingHasNoTimer' /\ Created'
  BY SameThreads DEF CallYield, threadVars
<1>4. TypeOK'
  BY <1>1 DEF IInv, TypeOK, CallYield, threadVars, callVars, PC
<1>5. Running' /\ Located'
  BY <1>1 DEF IInv, Running, Located, CallYield, threadVars
<1>6. QED BY <1>2, <1>3, <1>4, <1>5 DEF IInv

LEMMA ScanThreadStep ==
  ASSUME IInv, ScanThread
  PROVE  IInv'
<1>1. /\ pc = "scan" /\ pc' \in {"scan", "timers", "post"}
      /\ scan' = scan \/ (scan <= Len(threads) /\ scan' = scan + 1)
      /\ pc' = "post" => scan' = scan
      /\ pc' = "post" => scan <= Len(threads)
      /\ pc' = "post" => ec[threads[scan]] > 0
  BY Zenon DEF ScanThread
<1>2. OneList' /\ EventsAtHead' /\ Idle \in Range(runq')
  BY <1>1, SameLists DEF ScanThread, threadVars
<1>3. OffLists' /\ WaitingHasNoTimer' /\ Created'
  BY SameThreads DEF ScanThread, threadVars
<1>4. scan \in 1 .. Len(threads) + 1 /\ Len(threads) \in Nat
  BY LenProperties DEF IInv, TypeOK
<1>5. scan' \in 1 .. Len(threads) + 1
  BY <1>1, <1>4
<1>5b. TypeOK'
  BY <1>1, <1>5 DEF IInv, TypeOK, ScanThread, threadVars, callVars, PC
<1>6. pc' = "post" => \E q \in Queue : /\ threads[scan] \in Waiters(q)
                                      /\ threads[scan] = Head(queue[q])
  <2>1. scan <= Len(threads) => threads[scan] \in Thread
    BY <1>4, ElementOfSeq DEF IInv, TypeOK
  <2>2. QED BY <1>1, <2>1 DEF IInv, EventsAtHead
<1>7. UNCHANGED <<threads, queue>> /\ \A q \in Queue : Waiters(q)' = Waiters(q)
  BY DEF ScanThread, Waiters
<1>8. Running' /\ Located'
  BY <1>1, <1>6, <1>7 DEF IInv, Running, Located, ScanThread, threadVars, callVars
<1>9. QED BY <1>2, <1>3, <1>5b, <1>8 DEF IInv

\* Behind BermudaSwitchTask only th_timer changes.
LEMMA CallReturnStep ==
  ASSUME IInv, CallReturn
  PROVE  IInv'
<1>1. pc = "return" /\ pc' = "app" BY DEF CallReturn
<1>2. OneList' /\ EventsAtHead' /\ Idle \in Range(runq')
  BY <1>1, SameLists DEF CallReturn
<1>3. cur \in Thread /\ timer \in [Thread -> Queue \cup {SLEEP, SIGNALED, NULL}]
  BY DEF IInv, TypeOK
<1>4. \A t \in Thread : timer'[t] = timer[t] \/ timer'[t] = NULL
  BY <1>3 DEF CallReturn
<1>5. timer' \in [Thread -> Queue \cup {SLEEP, SIGNALED, NULL}]
  BY <1>3 DEF CallReturn
<1>6. OffLists' /\ WaitingHasNoTimer' /\ Created'
  BY <1>4, Constants DEF IInv, OffLists, WaitingHasNoTimer, Created, CallReturn
<1>7. cont' \in [Thread -> Cont]
  BY <1>3 DEF IInv, TypeOK, CallReturn, Cont
<1>8. TypeOK'
  BY <1>1, <1>5, <1>7 DEF IInv, TypeOK, CallReturn, callVars, PC
<1>9. Running' /\ Located'
  BY <1>1 DEF IInv, Running, Located, CallReturn
<1>10. QED BY <1>2, <1>6, <1>8, <1>9 DEF IInv

LEMMA SwitchTaskStep ==
  ASSUME IInv, SwitchTask
  PROVE  IInv'
<1>1. pc = "timers" /\ pc' = "return" BY DEF SwitchTask
<1>2. OneList' /\ EventsAtHead' /\ Idle \in Range(runq')
  BY <1>1, SameLists DEF SwitchTask
<1>3. Head(runq) \in Range(runq) /\ Head(runq) \in Thread /\ cur \in Thread
  BY Facts
<1>4. cur' = Head(runq) BY DEF SwitchTask
<1>5. state' \in [Thread -> State]
  <2>1. state \in [Thread -> State] BY DEF IInv, TypeOK
  <2>2. state[cur] \in State BY <2>1, <1>3
  <2>3. CASE state' = state BY <2>1, <2>3
  <2>4. CASE state' = [state EXCEPT ![cur] = IF @ = "RUNNING" THEN "READY" ELSE @,
                                    ![Head(runq)] = "RUNNING"]
    BY <2>1, <2>2, <2>4, <1>3 DEF State
  <2>5. QED BY <2>3, <2>4 DEF SwitchTask
<1>6. \A t \in Thread : state'[t] = "WAITING" => state[t] = "WAITING"
  <2>1. state \in [Thread -> State] BY DEF IInv, TypeOK
  <2>2. QED BY <2>1, <1>3 DEF SwitchTask
<1>7. OffLists' /\ WaitingHasNoTimer'
  BY <1>6 DEF IInv, OffLists, WaitingHasNoTimer, SwitchTask
<1>8. Created'
  <2>1. onq[Head(runq)] = RUNQ BY <1>3, Facts
  <2>2. Head(runq) \in Range(threads)
    BY <2>1, <1>3, Constants DEF IInv, Created
  <2>3. QED BY <2>2, <1>4 DEF IInv, Created, SwitchTask
<1>9. 1 \in 1 .. Len(threads) + 1
  BY LenProperties DEF IInv, TypeOK
<1>10. TypeOK'
  BY <1>1, <1>3, <1>4, <1>5, <1>9 DEF IInv, TypeOK, SwitchTask, PC
<1>11. Running' /\ Located'
  BY <1>1, <1>3, <1>4 DEF IInv, Running, Located, SwitchTask
<1>12. QED BY <1>2, <1>7, <1>8, <1>10, <1>11 DEF IInv
-----------------------------------------------------------------------------
(***************************************************************************)
(* A thread that is in no list joins the run queue.                        *)
(***************************************************************************)

LEMMA JoinStep ==
  ASSUME IInv, NEW t \in Thread, onq[t] = NULL,
         runq' = Added(runq, t, prio), ec' = AddedEc(runq, t, prio, ec),
         onq' = [onq EXCEPT ![t] = RUNQ], queue' = queue,
         pc # "link", pc' # "link"
  PROVE  /\ runq' \in Seq(Thread) /\ Range(runq') = Range(runq) \cup {t}
         /\ ec' \in [Thread -> 0 .. EcMax]
         /\ onq' \in [Thread -> Queue \cup {RUNQ, NULL}]
         /\ OneList' /\ EventsAtHead' /\ Idle \in Range(runq')
<1>1. t \notin Range(runq) /\ \A q \in Queue : t \notin Waiters(q)
  BY Constants DEF IInv, OneList
<1>2. prio \in [Thread -> Nat] /\ ec \in [Thread -> Nat]
      /\ \A u \in Range(runq) : ec[u] = 0
  BY Facts
<1>3. /\ runq' \in Seq(Thread) /\ NoDuplicates(runq')
      /\ Range(runq') = Range(runq) \cup {t}
      /\ ec' = [ec EXCEPT ![t] = 0]
  BY <1>1, <1>2, JoinRunQueue
<1>4. ec' \in [Thread -> 0 .. EcMax]
  BY <1>3, Constants DEF IInv, TypeOK
<1>5. onq \in [Thread -> Queue \cup {RUNQ, NULL}] BY DEF IInv, TypeOK
<1>6. onq' \in [Thread -> Queue \cup {RUNQ, NULL}] BY <1>5
<1>7. \A q \in Queue : Waiters(q)' = Waiters(q) BY DEF Waiters
<1>8. OneList'
  BY <1>1, <1>3, <1>5, <1>7, Constants DEF IInv, OneList
<1>9. EventsAtHead'
  BY <1>2, <1>3, <1>7 DEF IInv, EventsAtHead
<1>10. QED BY <1>3, <1>4, <1>6, <1>8, <1>9 DEF IInv

LEMMA ThreadTimeoutStep ==
  ASSUME IInv, NEW t \in Thread, ThreadTimeout(t)
  PROVE  IInv'
<1>1. pc = "timers" /\ pc' = "timers" /\ timer[t] = SLEEP BY DEF ThreadTimeout
<1>2. onq[t] = NULL BY <1>1 DEF IInv, OffLists
<1>3. /\ runq' \in Seq(Thread) /\ Range(runq') = Range(runq) \cup {t}
      /\ ec' \in [Thread -> 0 .. EcMax]
      /\ onq' \in [Thread -> Queue \cup {RUNQ, NULL}]
      /\ OneList' /\ EventsAtHead' /\ Idle \in Range(runq')
  BY <1>1, <1>2, JoinStep DEF ThreadTimeout
<1>4. TypeOK'
  BY <1>3 DEF IInv, TypeOK, ThreadTimeout, callVars, State
<1>5. Running' /\ Located'
  BY <1>1 DEF IInv, Running, Located, ThreadTimeout
<1>6. OffLists' /\ WaitingHasNoTimer'
  BY Constants DEF IInv, TypeOK, OffLists, WaitingHasNoTimer, ThreadTimeout
<1>7. Created'
  BY <1>1, Constants DEF IInv, TypeOK, Created, ThreadTimeout
<1>8. QED BY <1>3, <1>4, <1>5, <1>6, <1>7 DEF IInv

LEMMA ThreadNotifyStep ==
  ASSUME IInv, NotifySleepers = FALSE,
         NEW t \in Thread, Notifiable(t), ThreadNotify(t)
  PROVE  IInv'
<1>1. pc = "app" /\ pc' = "yield" BY DEF ThreadNotify, InApp
<1>2. state[t] # "SLEEPING" /\ t \in Range(threads) BY DEF Notifiable
<1>3. CASE state[t] # "WAITING"
  <2>1. UNCHANGED <<threads, runq, queue, ec, onq, state, timer, cur>>
    BY <1>2, <1>3 DEF ThreadNotify
  <2>2. OneList' /\ EventsAtHead' /\ Idle \in Range(runq')
    BY <1>1, <2>1, SameLists
  <2>3. OffLists' /\ WaitingHasNoTimer' /\ Created' BY <2>1, SameThreads
  <2>4. TypeOK'
    BY <1>1, <2>1 DEF IInv, TypeOK, ThreadNotify, callVars, PC
  <2>5. Running' /\ Located'
    BY <1>1, <2>1 DEF IInv, Running, Located
  <2>6. QED BY <2>2, <2>3, <2>4, <2>5 DEF IInv
<1>4. CASE state[t] = "WAITING"
  <2>1. onq[t] = NULL /\ timer[t] # SLEEP
    BY <1>4 DEF IInv, OffLists, WaitingHasNoTimer
  <2>2. /\ state' = [state EXCEPT ![t] = "READY"]
        /\ runq' = Added(runq, t, prio)
        /\ ec' = AddedEc(runq, t, prio, ec)
        /\ onq' = [onq EXCEPT ![t] = RUNQ]
    BY <1>4 DEF ThreadNotify
  <2>3. /\ runq' \in Seq(Thread) /\ Range(runq') = Range(runq) \cup {t}
        /\ ec' \in [Thread -> 0 .. EcMax]
        /\ onq' \in [Thread -> Queue \cup {RUNQ, NULL}]
        /\ OneList' /\ EventsAtHead' /\ Idle \in Range(runq')
    BY <1>1, <2>1, <2>2, JoinStep DEF ThreadNotify
  <2>4. TypeOK'
    BY <1>1, <2>2, <2>3 DEF IInv, TypeOK, ThreadNotify, callVars, State, PC
  <2>5. Running' /\ Located'
    BY <1>1 DEF IInv, Running, Located, ThreadNotify
  <2>6. OffLists' /\ WaitingHasNoTimer'
    BY <2>1, <2>2 DEF IInv, TypeOK, OffLists, WaitingHasNoTimer, ThreadNotify
  <2>7. Created'
    BY <1>2, <2>2 DEF IInv, TypeOK, Created, ThreadNotify
  <2>8. QED BY <2>3, <2>4, <2>5, <2>6, <2>7 DEF IInv
<1>5. QED BY <1>3, <1>4

\* The new thread is in front of all threads.
LEMMA ThreadsCreated ==
  ASSUME IInv, NEW t \in Thread, ThreadCreate(t)
  PROVE  /\ threads' \in Seq(Thread) /\ Len(threads') = Len(threads) + 1
         /\ Len(threads) \in Nat
         /\ \A i \in 1 .. Len(threads) : threads'[i + 1] = threads[i]
         /\ threads'[1] = t
         /\ Range(threads') = Range(threads) \cup {t}
<1>1. threads' = <<t>> \o threads BY DEF ThreadCreate
<1>4. /\ threads' \in Seq(Thread) /\ Len(threads') = Len(threads) + 1
      /\ Len(threads) \in Nat
      /\ \A i \in 1 .. Len(threads) : threads'[i + 1] = threads[i]
      /\ threads'[1] = t
  <2>1. threads \in Seq(Thread) BY DEF IInv, TypeOK
  <2>2. QED BY <2>1, <1>1, ConcatProperties, LenProperties
<1>5. Range(threads') = Range(threads) \cup {t}
  <2>1. threads \in Seq(Thread) BY DEF IInv, TypeOK
  <2>2. \A x : x \in Range(threads) <=> \E i \in 1 .. Len(threads) : threads[i] = x
    BY <2>1, InRange
  <2>3. \A x : x \in Range(threads') <=> \E i \in 1 .. Len(threads') : threads'[i] = x
    BY <1>4, InRange
  <2>4. \A i \in 1 .. Len(threads') : i = 1 \/ (i - 1 \in 1 .. Len(threads) /\ (i - 1) + 1 = i)
    BY <1>4
  <2>5. \A i \in 1 .. Len(threads) : i + 1 \in 1 .. Len(threads')
    BY <1>4
  <2>6. ASSUME NEW x \in Range(threads') PROVE x \in Range(threads) \cup {t}
    <3>1. PICK i \in 1 .. Len(threads') : threads'[i] = x BY <2>3
    <3>2. CASE i = 1 BY <3>1, <3>2, <1>4
    <3>3. CASE i - 1 \in 1 .. Len(threads) /\ (i - 1) + 1 = i
      <4>1. threads'[(i - 1) + 1] = threads[i - 1] BY <3>3, <1>4
      <4>2. QED BY <4>1, <3>1, <3>3, <2>2
    <3>4. QED BY <3>2, <3>3, <2>4
  <2>7. ASSUME NEW x \in Range(threads) PROVE x \in Range(threads')
    <3>1. PICK i \in 1 .. Len(threads) : threads[i] = x BY <2>2
    <3>2. threads'[i + 1] = x /\ i + 1 \in 1 .. Len(threads') BY <3>1, <1>4, <2>5
    <3>3. QED BY <3>2, <2>3
  <2>8. t \in Range(threads') BY <1>4, <2>3
  <2>9. QED BY <2>6, <2>7, <2>8
<1>6. QED BY <1>4, <1>5

LEMMA ThreadCreateStep ==
  ASSUME IInv, NEW t \in Thread, ThreadCreate(t)
  PROVE  IInv'
<1>1. /\ pc = "app" /\ pc' = "app" /\ t \notin Range(threads)
      /\ threads' = <<t>> \o threads
  BY DEF ThreadCreate
<1>2. onq[t] = NULL /\ timer[t] = NULL BY <1>1 DEF IInv, Created
<1>3. /\ runq' \in Seq(Thread) /\ Range(runq') = Range(runq) \cup {t}
      /\ ec' \in [Thread -> 0 .. EcMax]
      /\ onq' \in [Thread -> Queue \cup {RUNQ, NULL}]
      /\ OneList' /\ EventsAtHead' /\ Idle \in Range(runq')
  BY <1>1, <1>2, JoinStep DEF ThreadCreate
<1>4. /\ threads' \in Seq(Thread) /\ Len(threads') = Len(threads) + 1
      /\ Len(threads) \in Nat
      /\ \A i \in 1 .. Len(threads) : threads'[i + 1] = threads[i]
      /\ threads'[1] = t
  BY ThreadsCreated
<1>5. Range(threads') = Range(threads) \cup {t}
  BY ThreadsCreated
<1>6. scan' \in 1 .. Len(threads') + 1
  BY <1>4 DEF IInv, TypeOK, ThreadCreate
<1>7. TypeOK'
  BY <1>3, <1>4, <1>6 DEF IInv, TypeOK, ThreadCreate, callVars, State
<1>8. Running' /\ Located'
  BY <1>1, <1>3 DEF IInv, Running, Located, ThreadCreate
<1>9. OffLists' /\ WaitingHasNoTimer'
  BY <1>2, Constants DEF IInv, TypeOK, OffLists, WaitingHasNoTimer, ThreadCreate
<1>10. Created'
  BY <1>5 DEF IInv, TypeOK, Created, ThreadCreate
<1>11. QED BY <1>3, <1>7, <1>8, <1>9, <1>10 DEF IInv
-----------------------------------------------------------------------------
(***************************************************************************)
(* The running thread leaves the run queue, or goes to its place there.    *)
(***************************************************************************)

LEMMA LeaveStep ==
  ASSUME IInv, cur \in Range(runq), cur # Idle,
         LeaveRunQueue, NEW o \in Queue \cup {NULL}, onq' = [onq EXCEPT ![cur] = o],
         queue' = queue, cur' = cur, pc # "link", pc' = "link" <=> o \in Queue
  PROVE  /\ runq' \in Seq(Thread) /\ ec' = ec
         /\ onq' \in [Thread -> Queue \cup {RUNQ, NULL}]
         /\ OneList' /\ EventsAtHead' /\ Idle \in Range(runq')
<1>1. /\ runq' \in Seq(Thread) /\ NoDuplicates(runq')
      /\ Range(runq') = Range(runq) \ {cur} /\ ec' = ec
  BY QuitRunQueue DEF LeaveRunQueue
<1>2. onq \in [Thread -> Queue \cup {RUNQ, NULL}] /\ cur \in Thread
  BY DEF IInv, TypeOK
<1>3. onq' \in [Thread -> Queue \cup {RUNQ, NULL}] BY <1>2
<1>4. \A q \in Queue : Waiters(q)' = Waiters(q) /\ cur \notin Waiters(q)
  BY <1>2, Constants DEF Waiters, IInv, OneList
<1>5. \A t \in Thread : t \in Range(runq') <=> onq'[t] = RUNQ
  BY <1>1, <1>2, Constants DEF IInv, OneList
<1>6. ASSUME NEW t \in Thread, NEW q \in Queue
      PROVE  t \in Waiters(q)' <=> onq'[t] = q /\ ~(pc' = "link" /\ t = cur')
  <2>1. CASE t = cur BY <2>1, <1>2, <1>4, Constants
  <2>2. CASE t # cur BY <2>2, <1>2, <1>4 DEF IInv, OneList
  <2>3. QED BY <2>1, <2>2
<1>7. OneList' BY <1>1, <1>5, <1>6 DEF IInv, OneList
<1>8. EventsAtHead' BY <1>1, <1>4 DEF IInv, EventsAtHead
<1>9. QED BY <1>1, <1>3, <1>7, <1>8 DEF IInv

LEMMA ThreadSleepStep ==
  ASSUME IInv, ThreadSleep
  PROVE  IInv'
<1>1. pc = "app" /\ cur # Idle /\ pc' = "yield" BY DEF ThreadSleep, InApp
<1>2. cur \in Range(runq) /\ cur \in Thread BY <1>1 DEF IInv, Running, TypeOK
<1>3. /\ runq' \in Seq(Thread) /\ ec' = ec
      /\ onq' \in [Thread -> Queue \cup {RUNQ, NULL}]
      /\ OneList' /\ EventsAtHead' /\ Idle \in Range(runq')
  BY <1>1, <1>2, Constants, LeaveStep DEF ThreadSleep
<1>4. TypeOK'
  BY <1>1, <1>2, <1>3 DEF IInv, TypeOK, ThreadSleep, callVars, State, PC
<1>5. Running' /\ Located'
  BY <1>1 DEF IInv, Running, Located, ThreadSleep
<1>6. OffLists' /\ WaitingHasNoTimer' /\ Created'
  BY <1>2 DEF IInv, TypeOK, OffLists, WaitingHasNoTimer, Created, ThreadSleep
<1>7. QED BY <1>3, <1>4, <1>5, <1>6 DEF IInv

LEMMA ThreadWaitStep ==
  ASSUME IInv, ThreadWait
  PROVE  IInv'
<1>1. /\ pc = "app" /\ cur # Idle /\ pc' = "scan" /\ scan' = 1
  BY DEF ThreadWait, InApp, SchedulerExec
<1>2. cur \in Range(runq) /\ cur \in Thread BY <1>1 DEF IInv, Running, TypeOK
<1>3. /\ runq' \in Seq(Thread) /\ ec' = ec
      /\ onq' \in [Thread -> Queue \cup {RUNQ, NULL}]
      /\ OneList' /\ EventsAtHead' /\ Idle \in Range(runq')
  BY <1>1, <1>2, Constants, LeaveStep DEF ThreadWait
<1>4. scan' \in 1 .. Len(threads') + 1
  BY <1>1, LenProperties DEF IInv, TypeOK, ThreadWait
<1>5. TypeOK'
  BY <1>1, <1>2, <1>3, <1>4 DEF IInv, TypeOK, ThreadWait, callVars, State, PC
<1>6. Running' /\ Located'
  BY <1>1 DEF IInv, Running, Located, ThreadWait
<1>7. timer[cur] # SLEEP
  BY <1>2, Facts, Constants DEF IInv, OffLists
<1>8. OffLists' /\ WaitingHasNoTimer' /\ Created'
  BY <1>2, <1>7 DEF IInv, TypeOK, OffLists, WaitingHasNoTimer, Created, ThreadWait
<1>9. QED BY <1>3, <1>5, <1>6, <1>8 DEF IInv

LEMMA BlockBehindStep ==
  ASSUME IInv, BlockBehind
  PROVE  IInv'
<1>1. /\ pc = "block" /\ pc' = "link" /\ wq \in Queue /\ cur # Idle
      /\ cur \in Range(runq) /\ cur \in Thread
  BY DEF BlockBehind, IInv, Running, Located, TypeOK
<1>2. /\ runq' \in Seq(Thread) /\ ec' = ec
      /\ onq' \in [Thread -> Queue \cup {RUNQ, NULL}]
      /\ OneList' /\ EventsAtHead' /\ Idle \in Range(runq')
  <2>1. LeaveRunQueue /\ onq' = [onq EXCEPT ![cur] = wq] /\ queue' = queue /\ cur' = cur
    BY DEF BlockBehind
  <2>2. wq \in Queue \cup {NULL} /\ (pc' = "link" <=> wq \in Queue) BY <1>1
  <2>3. QED BY <1>1, <2>1, <2>2, LeaveStep
<1>3. TypeOK'
  BY <1>1, <1>2 DEF IInv, TypeOK, BlockBehind, callVars, PC
<1>4. onq'[cur'] = wq'
  BY <1>1 DEF IInv, TypeOK, BlockBehind, callVars
<1>5. Running' /\ Located'
  BY <1>1, <1>4 DEF IInv, Running, Located, BlockBehind, callVars
<1>6. OffLists' /\ WaitingHasNoTimer' /\ Created'
  <2>1. timer[cur] # SLEEP /\ state[cur] # "WAITING"
    BY <1>1, Facts, Constants DEF IInv, OffLists
  <2>2. QED
    BY <1>1, <2>1 DEF IInv, TypeOK, OffLists, WaitingHasNoTimer, Created, BlockBehind
<1>7. QED BY <1>2, <1>3, <1>5, <1>6 DEF IInv

\* The order of the run queue changes, and nothing else does.
LEMMA ReorderStep ==
  ASSUME IInv, runq' \in Seq(Thread), NoDuplicates(runq'), Range(runq') = Range(runq),
         queue' = queue, ec' = ec, onq' = onq, pc # "link", pc' # "link"
  PROVE  OneList' /\ EventsAtHead' /\ Idle \in Range(runq')
<1>1. \A q \in Queue : Waiters(q)' = Waiters(q) BY DEF Waiters
<1>2. OneList' BY <1>1 DEF IInv, OneList
<1>3. EventsAtHead' BY <1>1 DEF IInv, EventsAtHead
<1>4. QED BY <1>2, <1>3 DEF IInv

LEMMA ThreadYieldStep ==
  ASSUME IInv, ThreadYield
  PROVE  IInv'
<1>1. pc = "yield" /\ pc' = "scan" /\ scan' = 1 BY DEF ThreadYield, SchedulerExec
<1>2. /\ runq' \in Seq(Thread) /\ NoDuplicates(runq') /\ Range(runq') = Range(runq)
      /\ ec' = ec /\ onq' = onq
  <2>1. CASE Successor(runq, cur) = NULL /\ UNCHANGED <<runq, ec, onq>>
    BY <2>1, Facts
  <2>2. CASE /\ Successor(runq, cur) # NULL
             /\ runq' = Added(Removed(runq, cur), cur, prio)
             /\ ec' = AddedEc(Removed(runq, cur), cur, prio, RemovedEc(runq, cur, ec))
             /\ onq' = [onq EXCEPT ![cur] = RUNQ]
    <3>1. cur \in Range(runq) BY <2>2, Facts, SuccessorInList
    <3>2. prio \in [Thread -> Nat] /\ onq[cur] = RUNQ /\ cur \in Thread BY <3>1, Facts
    <3>3. onq' = onq BY <2>2, <3>2 DEF IInv, TypeOK
    <3>4. QED BY <2>2, <3>1, <3>2, <3>3, RequeueCurrent
  <2>3. QED BY <2>1, <2>2 DEF ThreadYield
<1>3. OneList' /\ EventsAtHead' /\ Idle \in Range(runq')
  BY <1>1, <1>2, ReorderStep DEF ThreadYield
<1>4. OffLists' /\ WaitingHasNoTimer' /\ Created'
  BY <1>2, SameThreads DEF ThreadYield
<1>5. scan' \in 1 .. Len(threads') + 1
  BY <1>1, LenProperties DEF IInv, TypeOK, ThreadYield
<1>6. TypeOK'
  BY <1>1, <1>2, <1>5 DEF IInv, TypeOK, ThreadYield, callVars, PC
<1>7. Running' /\ Located'
  BY <1>1 DEF Running, Located
<1>8. QED BY <1>3, <1>4, <1>6, <1>7 DEF IInv

LEMMA ThreadSetPrioStep ==
  ASSUME IInv, NEW p \in Prios, ThreadSetPrio(p)
  PROVE  IInv'
<1>1. pc = "app" /\ pc' \in {"app", "return"}
  BY DEF ThreadSetPrio, InApp
<1>2. cur \in Range(runq) /\ cur \in Thread BY <1>1 DEF IInv, Running, TypeOK
<1>3. prio' \in [Thread -> Nat]
  BY <1>2, Constants DEF IInv, TypeOK, ThreadSetPrio
<1>4. /\ runq' \in Seq(Thread) /\ NoDuplicates(runq') /\ Range(runq') = Range(runq)
      /\ ec' = ec
  BY <1>2, <1>3, RequeueCurrent DEF ThreadSetPrio
<1>5. onq' = onq
  BY <1>2, Facts DEF IInv, TypeOK, ThreadSetPrio
<1>6. OneList' /\ EventsAtHead' /\ Idle \in Range(runq')
  BY <1>1, <1>4, <1>5, ReorderStep DEF ThreadSetPrio
<1>7. /\ cur' \in Range(runq') /\ cur' \in Thread
      /\ \/ state' = state
         \/ \E top \in Thread : state' = [state EXCEPT ![cur] = "READY", ![top] = "RUNNING"]
  <2>1. runq' # <<>> /\ Head(runq') \in Range(runq') /\ Head(runq') \in Thread
    BY <1>4, <1>6, MemberIsNotEmpty, HeadInRange, RangeOfSeq
  <2>2. QED BY <1>2, <1>4, <2>1 DEF ThreadSetPrio
<1>8. state' \in [Thread -> State] /\ \A t \in Thread : state'[t] = "WAITING" => state[t] = "WAITING"
  BY <1>2, <1>7 DEF IInv, TypeOK, State
<1>9. OffLists' /\ WaitingHasNoTimer'
  BY <1>5, <1>8 DEF IInv, OffLists, WaitingHasNoTimer, ThreadSetPrio
<1>10. Created'
  <2>1. onq[cur'] = RUNQ BY <1>4, <1>7, Facts
  <2>2. cur' \in Range(threads)
    BY <2>1, <1>7, Constants DEF IInv, Created
  <2>3. QED BY <2>2, <1>5 DEF IInv, Created, ThreadSetPrio
<1>11. TypeOK'
  BY <1>1, <1>3, <1>4, <1>5, <1>7, <1>8 DEF IInv, TypeOK, ThreadSetPrio, callVars, PC
<1>12. Running' /\ Located'
  BY <1>1, <1>7 DEF Running, Located
<1>13. QED BY <1>6, <1>9, <1>10, <1>11, <1>12 DEF IInv
-----------------------------------------------------------------------------
(***************************************************************************)
(* An event is stored in a queue where nobody waits, or taken from it.     *)
(***************************************************************************)

LEMMA StoreStep ==
  ASSUME IInv, NEW q \in Queue, queue[q] \in {SIGNALED, <<>>},
         NEW x \in {SIGNALED, <<>>}, queue' = [queue EXCEPT ![q] = x],
         runq' = runq, ec' = ec, onq' = onq,
         pc = "link" <=> pc' = "link", cur' = cur
  PROVE  /\ queue' \in [Queue -> {SIGNALED} \cup Seq(Thread)]
         /\ OneList' /\ EventsAtHead' /\ Idle \in Range(runq')
         /\ \A r \in Queue : Waiters(r)' = Waiters(r)
<1>1. queue \in [Queue -> {SIGNALED} \cup Seq(Thread)] BY DEF IInv, TypeOK
<1>2. <<>> \in Seq(Thread) /\ NoDuplicates(<<>>) /\ Range(<<>>) = {}
  <2>1. <<>> \in Seq(Thread) /\ Len(<<>>) = 0 BY EmptySeq
  <2>2. \A u : u \notin Range(<<>>) BY <2>1, MemberIsNotEmpty, Zenon
  <2>3. NoDuplicates(<<>>) BY DEF NoDuplicates
  <2>4. QED BY <2>1, <2>2, <2>3
<1>3. queue' \in [Queue -> {SIGNALED} \cup Seq(Thread)] BY <1>1, <1>2
<1>4. ASSUME NEW r \in Queue
      PROVE  /\ Waiters(r)' = Waiters(r)
             /\ Waiters(r) # {} => queue'[r] = queue[r]
             /\ queue'[r] # SIGNALED => NoDuplicates(queue'[r])
  <2>1. CASE r = q
    <3>1. queue'[q] = x BY <1>1
    <3>2. Waiters(q) = {} BY <1>2 DEF Waiters
    <3>3. Waiters(q)' = {} BY <3>1, <1>2 DEF Waiters
    <3>4. queue'[q] # SIGNALED => NoDuplicates(queue'[q]) BY <3>1, <1>2
    <3>5. QED BY <2>1, <3>2, <3>3, <3>4
  <2>2. CASE r # q
    <3>1. queue'[r] = queue[r] BY <2>2, <1>1
    <3>2. QED BY <3>1 DEF Waiters, IInv, OneList
  <2>3. QED BY <2>1, <2>2
<1>5. OneList' BY <1>4 DEF IInv, OneList
<1>6. EventsAtHead' BY <1>4 DEF IInv, EventsAtHead
<1>7. QED BY <1>3, <1>4, <1>5, <1>6 DEF IInv

LEMMA EventWaitNextStep ==
  ASSUME IInv, NEW q \in Queue, NEW w \in BOOLEAN, EventWaitNext(q, w)
  PROVE  IInv'
<1>1. pc = "app" /\ pc' = "waitRead" /\ cur # Idle BY DEF EventWaitNext, InApp
<1>2. /\ queue' \in [Queue -> {SIGNALED} \cup Seq(Thread)]
      /\ OneList' /\ EventsAtHead' /\ Idle \in Range(runq')
  <2>1. CASE queue[q] = SIGNALED
    <3>1. queue' = [queue EXCEPT ![q] = <<>>] BY <2>1 DEF EventWaitNext
    <3>2. <<>> \in {SIGNALED, <<>>} /\ queue[q] \in {SIGNALED, <<>>} BY <2>1
    <3>3. QED BY <3>1, <3>2, <1>1, StoreStep DEF EventWaitNext, threadVars
  <2>2. CASE queue[q] # SIGNALED
    <3>1. queue' = queue BY <2>2 DEF EventWaitNext, IInv, TypeOK
    <3>2. QED BY <3>1, <1>1, SameLists DEF EventWaitNext, threadVars, IInv, TypeOK
  <2>3. QED BY <2>1, <2>2
<1>3. OffLists' /\ WaitingHasNoTimer' /\ Created'
  BY SameThreads DEF EventWaitNext, threadVars
<1>4. TypeOK'
  BY <1>1, <1>2 DEF IInv, TypeOK, EventWaitNext, threadVars, PC
<1>5. Running' /\ Located'
  BY <1>1 DEF IInv, Running, Located, EventWaitNext
<1>6. QED BY <1>2, <1>3, <1>4, <1>5 DEF IInv

LEMMA ConsumeEventStep ==
  ASSUME IInv, ConsumeEvent
  PROVE  IInv'
<1>1. /\ pc = "consume" /\ pc' = "yield" /\ wq \in Queue /\ cur \in Thread
      /\ queue[wq] \in {SIGNALED, <<>>} /\ <<>> \in {SIGNALED, <<>>}
  BY DEF ConsumeEvent, IInv, Located, TypeOK
<1>2. /\ queue' \in [Queue -> {SIGNALED} \cup Seq(Thread)]
      /\ OneList' /\ EventsAtHead' /\ Idle \in Range(runq')
  BY <1>1, StoreStep DEF ConsumeEvent, threadVars
<1>3. OffLists' /\ WaitingHasNoTimer' /\ Created'
  BY SameThreads DEF ConsumeEvent, threadVars
<1>4. TypeOK'
  BY <1>1, <1>2 DEF IInv, TypeOK, ConsumeEvent, threadVars, callVars, PC, Cont
<1>5. Running' /\ Located'
  BY <1>1 DEF IInv, Running, Located, ConsumeEvent
<1>6. QED BY <1>2, <1>3, <1>4, <1>5 DEF IInv

LEMMA SignalStoreStep ==
  ASSUME IInv, SignalStore
  PROVE  IInv'
<1>1. /\ pc = "sigSet" /\ wq \in Queue
      /\ queue[wq] \in {SIGNALED, <<>>} /\ SIGNALED \in {SIGNALED, <<>>}
      /\ up = "scan" => scan <= Len(threads)
  BY DEF SignalStore, IInv, Located
<1>2. pc' \in {"yield", "scan"}
  BY DEF SignalStore, SignalReturns
<1>3. /\ queue' \in [Queue -> {SIGNALED} \cup Seq(Thread)]
      /\ OneList' /\ EventsAtHead' /\ Idle \in Range(runq')
  BY <1>1, <1>2, StoreStep DEF SignalStore, threadVars
<1>4. OffLists' /\ WaitingHasNoTimer' /\ Created'
  BY SameThreads DEF SignalStore, threadVars
<1>5. scan' \in 1 .. Len(threads') + 1
  BY <1>1, LenProperties DEF IInv, TypeOK, SignalStore, SignalReturns
<1>6. TypeOK'
  BY <1>2, <1>3, <1>5 DEF IInv, TypeOK, SignalStore, threadVars, callVars, PC
<1>7. Running' /\ Located'
  BY <1>2 DEF IInv, Running, Located
<1>8. QED BY <1>3, <1>4, <1>6, <1>7 DEF IInv
-----------------------------------------------------------------------------
(***************************************************************************)
(* The first waiter of a queue gets one event more or less.                *)
(***************************************************************************)

LEMMA CountStep ==
  ASSUME IInv, NEW q \in Queue, NEW t \in Waiters(q), t = Head(queue[q]),
         NEW n \in 0 .. EcMax, ec' = [ec EXCEPT ![t] = n],
         runq' = runq, queue' = queue, onq' = onq,
         pc = "link" <=> pc' = "link", cur' = cur
  PROVE  /\ ec' \in [Thread -> 0 .. EcMax]
         /\ OneList' /\ EventsAtHead' /\ Idle \in Range(runq')
<1>1. \A r \in Queue : Waiters(r)' = Waiters(r) BY DEF Waiters
<1>2. ec \in [Thread -> 0 .. EcMax] BY DEF IInv, TypeOK
<1>3. ec' \in [Thread -> 0 .. EcMax] BY <1>2
<1>4. OneList' BY <1>1 DEF IInv, OneList
<1>5. ASSUME NEW u \in Thread, ec'[u] > 0
      PROVE  \E r \in Queue : u \in Waiters(r)' /\ u = Head(queue'[r])
  <2>1. CASE u = t BY <2>1, <1>1
  <2>2. CASE u # t
    <3>1. ec[u] > 0 BY <2>2, <1>2, <1>5
    <3>2. QED BY <3>1, <1>1 DEF IInv, EventsAtHead
  <2>3. QED BY <2>1, <2>2
<1>6. EventsAtHead' BY <1>5 DEF EventsAtHead
<1>7. QED BY <1>3, <1>4, <1>6 DEF IInv

LEMMA SignalFromISRStep ==
  ASSUME IInv, NEW q \in Queue, SignalFromISR(q)
  PROVE  IInv'
<1>1. /\ pc' = pc /\ cur' = cur /\ runq' = runq /\ onq' = onq
      /\ queue \in [Queue -> {SIGNALED} \cup Seq(Thread)]
      /\ UNCHANGED <<threads, threadVars, callVars, scan, cont>>
  BY DEF SignalFromISR, threadVars, IInv, TypeOK
<1>2. /\ queue' \in [Queue -> {SIGNALED} \cup Seq(Thread)]
      /\ ec' \in [Thread -> 0 .. EcMax]
      /\ OneList' /\ EventsAtHead' /\ Idle \in Range(runq')
      /\ \A r \in Queue :
           /\ Waiters(r)' = Waiters(r)
           /\ Waiters(r) # {} => queue'[r] = queue[r]
           /\ queue'[r] = queue[r] \/ (queue[r] = <<>> /\ queue'[r] = SIGNALED)
  <2>1. CASE queue' = queue /\ ec' = ec
    <3>1. \A r \in Queue : Waiters(r)' = Waiters(r) BY <2>1 DEF Waiters
    <3>2. OneList' BY <3>1, <2>1, <1>1 DEF IInv, OneList
    <3>3. EventsAtHead' BY <3>1, <2>1, <1>1 DEF IInv, EventsAtHead
    <3>4. QED BY <3>1, <3>2, <3>3, <2>1, <1>1 DEF IInv, TypeOK
  <2>2. CASE queue[q] = <<>> /\ queue' = [queue EXCEPT ![q] = SIGNALED] /\ ec' = ec
    <3>1. queue[q] \in {SIGNALED, <<>>} /\ SIGNALED \in {SIGNALED, <<>>} BY <2>2
    <3>2. /\ queue' \in [Queue -> {SIGNALED} \cup Seq(Thread)]
          /\ OneList' /\ EventsAtHead' /\ Idle \in Range(runq')
          /\ \A r \in Queue : Waiters(r)' = Waiters(r)
      BY <3>1, <2>2, <1>1, StoreStep
    <3>3. Waiters(q) = {} BY <2>2, EmptySeq, InRange, MemberIsNotEmpty DEF Waiters
    <3>4. QED BY <3>2, <3>3, <2>2, <1>1 DEF IInv, TypeOK
  <2>3. CASE /\ queue[q] \notin {SIGNALED, <<>>} /\ queue' = queue
             /\ ec' = [ec EXCEPT ![Head(queue[q])] = IF @ = EcMax THEN 0 ELSE @ + 1]
    <3> DEFINE t == Head(queue[q])
               n == IF ec[t] = EcMax THEN 0 ELSE ec[t] + 1
    <3>1. t \in Range(queue[q]) /\ t \in Thread
      BY <2>3, <1>1, HeadInRange, RangeOfSeq
    <3>2. t \in Waiters(q) BY <3>1, <2>3 DEF Waiters
    <3>3. n \in 0 .. EcMax BY <3>1, Constants DEF IInv, TypeOK
    <3>4. ec' = [ec EXCEPT ![t] = n] BY <2>3
    <3>5. \A r \in Queue : Waiters(r)' = Waiters(r) BY <2>3 DEF Waiters
    <3> HIDE DEF n
    <3>6. QED BY <3>2, <3>3, <3>4, <3>5, <2>3, <1>1, CountStep
  <2>4. QED BY <2>1, <2>2, <2>3 DEF SignalFromISR
<1>3. OffLists' /\ WaitingHasNoTimer' /\ Created'
  BY <1>1, SameThreads DEF threadVars
<1>4. isrs' \in 0 .. MaxIsr
  BY Constants DEF IInv, TypeOK, SignalFromISR
<1>5. TypeOK'
  BY <1>1, <1>2, <1>4 DEF IInv, TypeOK, threadVars, callVars
<1>6. Running'
  BY <1>1 DEF IInv, Running, callVars
<1>7. Located'
  <2>1. pc \in {"consume", "sigSet", "link", "sigPop"} => wq \in Queue
    BY DEF IInv, Located
  <2>2. pc = "post" => \E r \in Queue : /\ threads[scan] \in Waiters(r)'
                                         /\ threads[scan] = Head(queue'[r])
    BY <1>2 DEF IInv, Located
  <2>3. QED BY <1>1, <1>2, <2>1, <2>2, Constants DEF IInv, Located, callVars
<1>8. QED BY <1>2, <1>3, <1>5, <1>6, <1>7 DEF IInv

LEMMA PostEventStep ==
  ASSUME IInv, PostEvent
  PROVE  IInv'
<1> DEFINE t == threads[scan]
<1>1. pc = "post" /\ pc' \in {"sigRead", "scan"} BY DEF PostEvent
<1>2. PICK q \in Queue : t \in Waiters(q) /\ t = Head(queue[q])
  BY <1>1 DEF IInv, Located
<1>3. scan <= Len(threads) /\ scan \in 1 .. Len(threads) + 1 /\ Len(threads) \in Nat
  BY <1>1, LenProperties DEF IInv, Located, TypeOK
<1>4. t \in Thread BY <1>3, ElementOfSeq DEF IInv, TypeOK
<1>5. onq[t] = q BY <1>2, <1>4 DEF IInv, OneList
<1>6. OneFewer(ec[t]) \in 0 .. EcMax
  <2>1. ec[t] \in 0 .. EcMax /\ EcMax \in Nat BY <1>4, Constants DEF IInv, TypeOK
  <2>2. QED BY <2>1 DEF OneFewer
<1>7. ec' = [ec EXCEPT ![t] = OneFewer(ec[t])] /\ wq' = q /\ up' = "scan"
  BY <1>5 DEF PostEvent
<1>8. /\ ec' \in [Thread -> 0 .. EcMax]
      /\ OneList' /\ EventsAtHead' /\ Idle \in Range(runq')
  BY <1>1, <1>2, <1>6, <1>7, CountStep DEF PostEvent, threadVars
<1>9. OffLists' /\ WaitingHasNoTimer' /\ Created'
  BY SameThreads DEF PostEvent, threadVars
<1>10. scan' \in 1 .. Len(threads) + 1 /\ (pc' = "sigRead" => scan' = scan)
  BY <1>1, <1>3 DEF PostEvent
<1>11. TypeOK'
  BY <1>1, <1>7, <1>8, <1>10 DEF IInv, TypeOK, PostEvent, threadVars, PC
<1>12. Running' /\ Located'
  BY <1>1, <1>3, <1>7, <1>10 DEF Running, Located, PostEvent
<1>13. QED BY <1>8, <1>9, <1>11, <1>12 DEF IInv
-----------------------------------------------------------------------------
(***************************************************************************)
(* The running thread enters an event queue.                               *)
(***************************************************************************)

\* BermudaEventWait has blocked: t->th_timer and the state are not those of a
\* thread that is in no list.
LEMMA SleepStep ==
  ASSUME IInv, GoToSleep, cur' = cur, cur \in Range(threads), wq \in Queue,
         threads' = threads, onq' = [onq EXCEPT ![cur] = wq]
  PROVE  /\ pc' = "scan" /\ scan' = 1
         /\ scan' \in 1 .. Len(threads') + 1
         /\ state' \in [Thread -> State] /\ cont' \in [Thread -> Cont]
         /\ timer' \in [Thread -> Queue \cup {SLEEP, SIGNALED, NULL}]
         /\ OffLists' /\ WaitingHasNoTimer' /\ Created'
<1>1. pc' = "scan" /\ scan' = 1 BY DEF GoToSleep, SchedulerExec
<1>2. scan' \in 1 .. Len(threads') + 1
  BY <1>1, LenProperties DEF IInv, TypeOK
<1>3. cur \in Thread /\ state \in [Thread -> State] /\ cont \in [Thread -> Cont]
      /\ timer \in [Thread -> Queue \cup {SLEEP, SIGNALED, NULL}]
      /\ onq \in [Thread -> Queue \cup {RUNQ, NULL}]
  BY DEF IInv, TypeOK
<1>4. state' \in [Thread -> State] /\ cont' \in [Thread -> Cont]
  BY <1>3 DEF GoToSleep, State, Cont
<1>5. timer' \in [Thread -> Queue \cup {SLEEP, SIGNALED, NULL}]
  BY <1>3 DEF GoToSleep
<1>6. state'[cur] = "SLEEPING" /\ timer'[cur] # SLEEP
  BY <1>3, Constants DEF GoToSleep
<1>7. \A t \in Thread \ {cur} : /\ state'[t] = state[t]
                                 /\ timer'[t] = timer[t] /\ onq'[t] = onq[t]
  BY <1>3 DEF GoToSleep
<1>8. OffLists' /\ WaitingHasNoTimer'
  BY <1>6, <1>7 DEF IInv, OffLists, WaitingHasNoTimer
<1>9. Created' BY <1>7 DEF IInv, Created
<1>10. QED BY <1>1, <1>2, <1>4, <1>5, <1>8, <1>9

LEMMA BlockFirstStep ==
  ASSUME IInv, BlockFirst
  PROVE  IInv'
<1>0. PICK w \in Queue : wq = w BY DEF BlockFirst, IInv, Located
<1>1. /\ pc = "block" /\ wq = w /\ w \in Queue /\ cur # Idle
      /\ cur \in Range(runq) /\ cur \in Thread /\ cur \in Range(threads)
      /\ cur' = cur /\ threads' = threads /\ onq' = [onq EXCEPT ![cur] = w]
      /\ GoToSleep
  BY <1>0 DEF BlockFirst, IInv, Running, Located, TypeOK, Created
<1>2. /\ pc' = "scan" /\ scan' \in 1 .. Len(threads') + 1
      /\ state' \in [Thread -> State] /\ cont' \in [Thread -> Cont]
      /\ timer' \in [Thread -> Queue \cup {SLEEP, SIGNALED, NULL}]
      /\ OffLists' /\ WaitingHasNoTimer' /\ Created'
  BY <1>1, SleepStep
<1>3. /\ runq' \in Seq(Thread) /\ NoDuplicates(runq')
      /\ Range(runq') = Range(runq) \ {cur} /\ RemovedEc(runq, cur, ec) = ec
  BY <1>1, QuitRunQueue DEF BlockFirst
<1>4. /\ queue \in [Queue -> {SIGNALED} \cup Seq(Thread)]
      /\ onq \in [Thread -> Queue \cup {RUNQ, NULL}]
      /\ ec \in [Thread -> 0 .. EcMax]
  BY DEF IInv, TypeOK
<1>5. PICK n \in 0 .. EcMax : ec' = [ec EXCEPT ![cur] = n]
  <2>1. 0 \in 0 .. EcMax /\ 1 \in 0 .. EcMax BY KernelConstants
  <2>2. QED BY <1>3, <2>1 DEF BlockFirst
<1>6. ec' \in [Thread -> 0 .. EcMax] BY <1>4, <1>5
<1>7. /\ <<cur>> \in Seq(Thread) /\ NoDuplicates(<<cur>>) /\ Range(<<cur>>) = {cur}
      /\ Head(<<cur>>) = cur
  <2>1. <<cur>> \in Seq(Thread) /\ Len(<<cur>>) = 1 /\ <<cur>>[1] = cur BY <1>1
  <2>2. \A x : x \in Range(<<cur>>) <=> \E i \in 1 .. Len(<<cur>>) : <<cur>>[i] = x
    BY <2>1, InRange
  <2>3. Range(<<cur>>) = {cur} BY <2>1, <2>2
  <2>4. NoDuplicates(<<cur>>) BY DEF NoDuplicates
  <2>5. QED BY <2>1, <2>3, <2>4
<1>8. queue'[w] = <<cur>> /\ \A q \in Queue \ {w} : queue'[q] = queue[q]
  BY <1>1, <1>4 DEF BlockFirst
<1>9. queue' \in [Queue -> {SIGNALED} \cup Seq(Thread)]
  BY <1>1, <1>4, <1>7 DEF BlockFirst
<1>10. Waiters(w)' = {cur} /\ \A q \in Queue \ {w} : Waiters(q)' = Waiters(q)
  BY <1>7, <1>8, Constants, <1>1 DEF Waiters
<1>11. Waiters(w) = {}
  <2>1. <<>> \in Seq(Thread) BY EmptySeq
  <2>2. \A u : u \notin Range(<<>>) BY <2>1, MemberIsNotEmpty, Zenon
  <2>3. QED BY <1>1, <2>2 DEF Waiters, BlockFirst
<1>12. \A q \in Queue : queue'[q] # SIGNALED => NoDuplicates(queue'[q])
  BY <1>7, <1>8 DEF IInv, OneList
<1>13. ASSUME NEW t \in Thread
       PROVE  /\ t \in Range(runq') <=> onq'[t] = RUNQ
              /\ \A q \in Queue : t \in Waiters(q)' <=> onq'[t] = q
  <2>1. CASE t = cur
    <3>1. onq'[t] = w BY <1>1, <1>4, <2>1
    <3>2. \A q \in Queue : t \notin Waiters(q) BY <1>1, <2>1, Constants DEF IInv, OneList
    <3>3. QED BY <1>1, <1>3, <1>10, <2>1, <3>1, <3>2, Constants
  <2>2. CASE t # cur
    <3>1. onq'[t] = onq[t] BY <1>1, <1>4, <2>2
    <3>2. t \in Range(runq) <=> onq[t] = RUNQ BY DEF IInv, OneList
    <3>3. \A q \in Queue : t \in Waiters(q) <=> onq[t] = q BY <2>2 DEF IInv, OneList
    <3>4. QED BY <1>3, <1>10, <1>11, <2>2, <3>1, <3>2, <3>3
  <2>3. QED BY <2>1, <2>2
<1>14. OneList' BY <1>2, <1>3, <1>12, <1>13 DEF OneList
<1>15. ASSUME NEW t \in Thread, ec'[t] > 0
       PROVE  \E q \in Queue : t \in Waiters(q)' /\ t = Head(queue'[q])
  <2>1. CASE t = cur BY <1>1, <1>7, <1>8, <1>10, <2>1
  <2>2. CASE t # cur
    <3>1. ec[t] > 0 BY <1>4, <1>5, <1>15, <2>2
    <3>2. PICK q \in Queue : t \in Waiters(q) /\ t = Head(queue[q])
      BY <3>1 DEF IInv, EventsAtHead
    <3>3. q # w BY <3>2, <1>11
    <3>4. QED BY <3>2, <3>3, <1>8, <1>10
  <2>3. QED BY <2>1, <2>2
<1>16. EventsAtHead' BY <1>15 DEF EventsAtHead
<1>17. onq' \in [Thread -> Queue \cup {RUNQ, NULL}] BY <1>1, <1>4
<1>18. TypeOK'
  BY <1>2, <1>3, <1>6, <1>9, <1>17 DEF IInv, TypeOK, BlockFirst, callVars, PC
<1>19. Running' /\ Located' BY <1>2 DEF Running, Located
<1>20. Idle \in Range(runq') BY <1>1, <1>3 DEF IInv
<1>21. QED BY <1>2, <1>14, <1>16, <1>18, <1>19, <1>20 DEF IInv

LEMMA LinkWaiterStep ==
  ASSUME IInv, LinkWaiter
  PROVE  IInv'
<1>0. PICK w \in Queue : wq = w BY DEF LinkWaiter, IInv, Located
<1> DEFINE l == queue[w]
           n == PrioInsert(l, cur, prio)
<1>1. /\ pc = "link" /\ wq = w /\ w \in Queue /\ cur # Idle /\ onq[cur] = w
      /\ cur \in Thread /\ cur \in Range(threads) /\ l \notin {SIGNALED, <<>>}
      /\ cur' = cur /\ threads' = threads /\ onq' = onq /\ runq' = runq
      /\ GoToSleep
  BY <1>0 DEF LinkWaiter, IInv, Running, Located, TypeOK, Created
<1>2. /\ queue \in [Queue -> {SIGNALED} \cup Seq(Thread)]
      /\ onq \in [Thread -> Queue \cup {RUNQ, NULL}]
      /\ ec \in [Thread -> 0 .. EcMax] /\ prio \in [Thread -> Nat]
  BY DEF IInv, TypeOK
<1>3. onq' = [onq EXCEPT ![cur] = w] BY <1>1, <1>2
<1>4. /\ pc' = "scan" /\ scan' \in 1 .. Len(threads') + 1
      /\ state' \in [Thread -> State] /\ cont' \in [Thread -> Cont]
      /\ timer' \in [Thread -> Queue \cup {SLEEP, SIGNALED, NULL}]
      /\ OffLists' /\ WaitingHasNoTimer' /\ Created'
  BY <1>1, <1>3, SleepStep
<1>5. l \in Seq(Thread) /\ NoDuplicates(l) /\ \A u \in Range(l) : ec[u] > 0 => u = Head(l)
  BY <1>1, Facts
<1>6. cur \notin Range(l) /\ Range(l) = Waiters(w)
  BY <1>1 DEF IInv, OneList, Waiters
<1>7. n \in Seq(Thread) /\ NoDuplicates(n) /\ Range(n) = Range(l) \cup {cur}
  <2>1. prio \in [Thread -> Nat] BY <1>2
  <2>2. n \in Seq(Thread) BY <2>1, <1>1, <1>5, PrioInsertProps, Zenon
  <2>3. NoDuplicates(n) BY <2>1, <1>1, <1>5, <1>6, PrioInsertOnce, Zenon
  <2>4. Range(n) = Range(l) \cup {cur} BY <2>1, <1>1, <1>5, PrioInsertRange, SMT
  <2>5. QED BY <2>2, <2>3, <2>4
<1>8. /\ ec' \in [Thread -> 0 .. EcMax]
      /\ \A u \in Thread : ec'[u] > 0 =>
           \/ u \in Range(n) /\ u = Head(n)
           \/ u \notin Range(n) /\ ec[u] > 0
  <2>1. queue'[w] = n /\ ec' = TakeOver(ec, cur, Successor(n, cur))
    BY <1>1, <1>2 DEF LinkWaiter
  <2>2. NULL \notin Thread /\ EcMax \in Nat BY Constants
  <2>3. LET e2 == TakeOver(ec, cur, Successor(n, cur))
        IN  /\ e2 \in [Thread -> 0 .. EcMax]
            /\ \A u \in Thread : e2[u] > 0 =>
                 \/ u \in Range(n) /\ u = Head(n)
                 \/ u \notin Range(n) /\ ec[u] > 0
    <3>1. cur \in Thread /\ ec \in [Thread -> 0 .. EcMax] /\ prio \in [Thread -> Nat]
      BY <1>1, <1>2
    <3>2. cur \notin Range(l) BY <1>6
    <3>3. QED BY <2>2, <3>1, <3>2, <1>5, WaiterAdded, Zenon
  <2>4. ec' = TakeOver(ec, cur, Successor(n, cur)) BY <2>1
  <2>5. QED BY <2>3, <2>4
<1>9. /\ queue' \in [Queue -> {SIGNALED} \cup Seq(Thread)]
      /\ queue'[w] = n /\ \A q \in Queue \ {w} : queue'[q] = queue[q]
  <2>1. queue' = [queue EXCEPT ![w] = n] BY <1>1 DEF LinkWaiter
  <2> HIDE DEF n
  <2>2. QED BY <2>1, <1>1, <1>2, <1>7
<1> HIDE DEF n
<1>10. Waiters(w)' = Waiters(w) \cup {cur}
       /\ \A q \in Queue \ {w} : Waiters(q)' = Waiters(q)
  <2>1. n # SIGNALED BY <1>7, Constants
  <2>2. QED BY <2>1, <1>6, <1>7, <1>9 DEF Waiters
<1>11. \A q \in Queue : queue'[q] # SIGNALED => NoDuplicates(queue'[q])
  BY <1>7, <1>9 DEF IInv, OneList
<1>12. ASSUME NEW t \in Thread, NEW q \in Queue
       PROVE  t \in Waiters(q)' <=> onq[t] = q
  <2>1. CASE t = cur
    <3>1. \A r \in Queue : t \notin Waiters(r) BY <1>1, <2>1 DEF IInv, OneList
    <3>2. QED BY <1>1, <1>10, <2>1, <3>1
  <2>2. CASE t # cur
    <3>1. t \in Waiters(q) <=> onq[t] = q BY <2>2 DEF IInv, OneList
    <3>2. QED BY <1>10, <2>2, <3>1
  <2>3. QED BY <2>1, <2>2
<1>13. OneList' BY <1>1, <1>4, <1>11, <1>12 DEF IInv, OneList
<1>14. ASSUME NEW t \in Thread, ec'[t] > 0
       PROVE  \E q \in Queue : t \in Waiters(q)' /\ t = Head(queue'[q])
  <2>1. CASE t \in Range(n) /\ t = Head(n)
    BY <1>1, <1>6, <1>7, <1>9, <1>10, <2>1
  <2>2. CASE t \notin Range(n) /\ ec[t] > 0
    <3>1. PICK q \in Queue : t \in Waiters(q) /\ t = Head(queue[q])
      BY <2>2 DEF IInv, EventsAtHead
    <3>2. q # w BY <3>1, <2>2, <1>6, <1>7
    <3>3. QED BY <3>1, <3>2, <1>9, <1>10
  <2>3. QED BY <2>1, <2>2, <1>8, <1>14
<1>15. EventsAtHead' BY <1>14 DEF EventsAtHead
<1>16. TypeOK'
  BY <1>1, <1>4, <1>8, <1>9 DEF IInv, TypeOK, LinkWaiter, callVars, PC
<1>17. Running' /\ Located' BY <1>4 DEF Running, Located
<1>18. Idle \in Range(runq') BY <1>1 DEF IInv
<1>19. QED BY <1>4, <1>13, <1>15, <1>16, <1>17, <1>18 DEF IInv
-----------------------------------------------------------------------------
(***************************************************************************)
(* A thread gets out of an event queue, and joins the run queue.           *)
(***************************************************************************)

LEMMA ReleaseStep ==
  ASSUME IInv, NEW q \in Queue, NEW t \in Waiters(q),
         queue' = [queue EXCEPT ![q] = Released(@, t, ec)],
         ec' = AddedEc(runq, t, prio, PassOn(ec, t, Successor(queue[q], t))),
         runq' = Added(runq, t, prio), onq' = [onq EXCEPT ![t] = RUNQ],
         pc # "link", pc' # "link"
  PROVE  /\ runq' \in Seq(Thread) /\ Range(runq') = Range(runq) \cup {t}
         /\ queue' \in [Queue -> {SIGNALED} \cup Seq(Thread)]
         /\ ec' \in [Thread -> 0 .. EcMax]
         /\ onq' \in [Thread -> Queue \cup {RUNQ, NULL}]
         /\ OneList' /\ EventsAtHead' /\ Idle \in Range(runq')
<1> DEFINE l == queue[q]
           r == Released(l, t, ec)
           e2 == PassOn(ec, t, Successor(l, t))
<1>1. /\ queue \in [Queue -> {SIGNALED} \cup Seq(Thread)]
      /\ onq \in [Thread -> Queue \cup {RUNQ, NULL}]
      /\ ec \in [Thread -> 0 .. EcMax] /\ prio \in [Thread -> Nat]
  BY DEF IInv, TypeOK
<1>2. l # SIGNALED /\ t \in Range(l) /\ Range(l) = Waiters(q) BY DEF Waiters
<1>3. /\ l \in Seq(Thread) /\ NoDuplicates(l) /\ Range(l) \subseteq Thread
      /\ \A u \in Range(l) : u \notin Range(runq)
      /\ \A u \in Range(l) : ec[u] > 0 => u = Head(l)
  BY <1>2, Facts
<1>4. t \in Thread /\ t \notin Range(runq) /\ onq[t] = q
  BY <1>2, <1>3, Facts
<1>5. /\ r = SIGNALED => Range(l) = {t}
      /\ r # SIGNALED => /\ r \in Seq(Thread) /\ NoDuplicates(r)
                         /\ Range(r) = Range(l) \ {t}
      /\ e2 \in [Thread -> 0 .. EcMax] /\ e2[t] = 0
      /\ \A u \in Thread : e2[u] > 0 =>
           \/ r # SIGNALED /\ u \in Range(r) /\ u = Head(r)
           \/ u \notin Range(l) /\ ec[u] > 0
  <2>1. LET r2 == Released(l, t, ec)
            e3 == PassOn(ec, t, Successor(l, t))
        IN  /\ r2 = SIGNALED => Range(l) = {t}
            /\ r2 # SIGNALED => /\ r2 \in Seq(Thread) /\ NoDuplicates(r2)
                                /\ Range(r2) = Range(l) \ {t}
            /\ e3 \in [Thread -> 0 .. EcMax] /\ e3[t] = 0
            /\ \A u \in Thread : e3[u] > 0 =>
                 \/ r2 # SIGNALED /\ u \in Range(r2) /\ u = Head(r2)
                 \/ u \notin Range(l) /\ ec[u] > 0
    <3>1. NULL \notin Thread /\ SIGNALED \notin Seq(Thread) /\ EcMax \in Nat BY Constants
    <3>2. l \in Seq(Thread) /\ NoDuplicates(l) /\ t \in Range(l) BY <1>2, <1>3
    <3>3. ec \in [Thread -> 0 .. EcMax] BY <1>1
    <3>4. \A u \in Range(l) : ec[u] > 0 => u = Head(l) BY <1>3
    <3>5. QED BY <3>1, <3>2, <3>3, <3>4, WaiterReleased, Zenon
  <2>2. QED BY <2>1
<1>6. /\ queue' = [queue EXCEPT ![q] = r]
      /\ ec' = AddedEc(runq, t, prio, e2)
  OBVIOUS
<1> HIDE DEF e2, r
<1>7. \A u \in Range(runq) : e2[u] = 0
  <2>1. \A u \in Range(runq) : u \in Thread /\ ec[u] = 0 /\ u \notin Range(l)
    BY <1>3, Facts
  <2>2. ASSUME NEW u \in Range(runq), e2[u] > 0 PROVE FALSE
    BY <2>1, <2>2, <1>5
  <2>3. QED BY <2>1, <2>2, <1>5
<1>8. /\ runq' \in Seq(Thread) /\ NoDuplicates(runq')
      /\ Range(runq') = Range(runq) \cup {t}
      /\ ec' = [e2 EXCEPT ![t] = 0]
  <2>1. e2 \in [Thread -> Nat]
    BY <1>5, Constants
  <2>2. prio \in [Thread -> Nat] /\ t \in Thread /\ t \notin Range(runq) BY <1>1, <1>4
  <2>3. /\ Added(runq, t, prio) \in Seq(Thread)
        /\ NoDuplicates(Added(runq, t, prio))
        /\ Range(Added(runq, t, prio)) = Range(runq) \cup {t}
        /\ AddedEc(runq, t, prio, e2) = [e2 EXCEPT ![t] = 0]
    BY <2>1, <2>2, <1>7, JoinRunQueue, Zenon
  <2>4. QED BY <2>3, <1>6
<1>9. ec' = e2 BY <1>4, <1>5, <1>8
<1>10. /\ queue' \in [Queue -> {SIGNALED} \cup Seq(Thread)]
       /\ queue'[q] = r /\ \A p \in Queue \ {q} : queue'[p] = queue[p]
  BY <1>1, <1>5, <1>6
<1>11. /\ Waiters(q)' = Waiters(q) \ {t}
       /\ \A p \in Queue \ {q} : Waiters(p)' = Waiters(p)
  <2>1. CASE r = SIGNALED BY <2>1, <1>2, <1>5, <1>10 DEF Waiters
  <2>2. CASE r # SIGNALED BY <2>2, <1>2, <1>5, <1>10 DEF Waiters
  <2>3. QED BY <2>1, <2>2
<1>12. \A p \in Queue : queue'[p] # SIGNALED => NoDuplicates(queue'[p])
  BY <1>5, <1>10 DEF IInv, OneList
<1>13. ASSUME NEW u \in Thread
       PROVE  /\ u \in Range(runq') <=> onq'[u] = RUNQ
              /\ \A p \in Queue : u \in Waiters(p)' <=> onq'[u] = p
  <2>1. CASE u = t
    <3>1. onq'[u] = RUNQ BY <1>1, <1>4, <2>1
    <3>2. \A p \in Queue \ {q} : u \notin Waiters(p)
      BY <1>4, <2>1 DEF IInv, OneList
    <3>3. QED BY <3>1, <3>2, <2>1, <1>8, <1>11, Constants
  <2>2. CASE u # t
    <3>1. onq'[u] = onq[u] BY <1>1, <1>4, <2>2
    <3>2. u \in Range(runq) <=> onq[u] = RUNQ BY DEF IInv, OneList
    <3>3. \A p \in Queue : u \in Waiters(p) <=> onq[u] = p BY DEF IInv, OneList
    <3>4. QED BY <3>1, <3>2, <3>3, <2>2, <1>8, <1>11
  <2>3. QED BY <2>1, <2>2
<1>14. OneList' BY <1>8, <1>12, <1>13 DEF OneList
<1>15. ASSUME NEW u \in Thread, ec'[u] > 0
       PROVE  \E p \in Queue : u \in Waiters(p)' /\ u = Head(queue'[p])
  <2>1. CASE r # SIGNALED /\ u \in Range(r) /\ u = Head(r)
    <3>1. u \in Waiters(q)' BY <2>1, <1>10 DEF Waiters
    <3>2. QED BY <3>1, <2>1, <1>10
  <2>2. CASE u \notin Range(l) /\ ec[u] > 0
    <3>1. PICK p \in Queue : u \in Waiters(p) /\ u = Head(queue[p])
      BY <2>2 DEF IInv, EventsAtHead
    <3>2. p # q BY <3>1, <2>2, <1>2
    <3>3. QED BY <3>1, <3>2, <1>10, <1>11
  <2>3. QED BY <2>1, <2>2, <1>5, <1>9, <1>15
<1>16. EventsAtHead' BY <1>15 DEF EventsAtHead
<1>17. onq' \in [Thread -> Queue \cup {RUNQ, NULL}] BY <1>1, <1>4
<1>18. QED BY <1>5, <1>8, <1>9, <1>10, <1>14, <1>16, <1>17 DEF IInv

LEMMA SignalPopStep ==
  ASSUME IInv, SignalPop
  PROVE  IInv'
<1>1. PICK q \in Queue : wq = q BY DEF SignalPop, IInv, Located
<1> DEFINE t == Head(queue[q])
<1>2. /\ pc = "sigPop" /\ queue[q] \notin {SIGNALED, <<>>}
      /\ up = "scan" => scan <= Len(threads)
  BY <1>1 DEF SignalPop, IInv, Located
<1>3. pc' \in {"yield", "scan"} BY DEF SignalPop, SignalReturns
<1>4. t \in Waiters(q) /\ t \in Thread /\ t \in Range(threads)
  <2>1. queue[q] \in Seq(Thread) /\ Range(queue[q]) \subseteq Thread BY <1>2, Facts
  <2>2. t \in Range(queue[q]) BY <2>1, <1>2, HeadInRange
  <2>3. t \in Thread /\ onq[t] = q BY <1>2, <2>1, <2>2, Facts
  <2>4. t \in Range(threads) BY <2>3, Constants DEF IInv, Created
  <2>5. QED BY <1>2, <2>2, <2>3, <2>4 DEF Waiters
<1>5. /\ queue' = [queue EXCEPT ![q] = Released(@, t, ec)]
      /\ ec' = AddedEc(runq, t, prio, PassOn(ec, t, Successor(queue[q], t)))
      /\ runq' = Added(runq, t, prio) /\ onq' = [onq EXCEPT ![t] = RUNQ]
      /\ timer' = [timer EXCEPT ![t] = NULL] /\ state' = [state EXCEPT ![t] = "READY"]
      /\ cur' = cur /\ threads' = threads
  BY <1>1 DEF SignalPop, StopTimer
<1> HIDE DEF t
<1>6. /\ runq' \in Seq(Thread) /\ Range(runq') = Range(runq) \cup {t}
      /\ queue' \in [Queue -> {SIGNALED} \cup Seq(Thread)]
      /\ ec' \in [Thread -> 0 .. EcMax]
      /\ onq' \in [Thread -> Queue \cup {RUNQ, NULL}]
      /\ OneList' /\ EventsAtHead' /\ Idle \in Range(runq')
  BY <1>2, <1>3, <1>4, <1>5, ReleaseStep
<1>7. scan' \in 1 .. Len(threads') + 1
  BY <1>2, LenProperties, SMTT(30) DEF IInv, TypeOK, SignalPop, SignalReturns
<1>8. TypeOK'
  BY <1>3, <1>5, <1>6, <1>7 DEF IInv, TypeOK, SignalPop, callVars, State, PC
<1>9. OffLists' /\ WaitingHasNoTimer'
  BY <1>4, <1>5, Constants DEF IInv, TypeOK, OffLists, WaitingHasNoTimer
<1>10. Created' BY <1>4, <1>5 DEF IInv, TypeOK, Created
<1>11. Running' /\ Located' BY <1>3 DEF Running, Located
<1>12. QED BY <1>6, <1>8, <1>9, <1>10, <1>11 DEF IInv

LEMMA EventTMOStep ==
  ASSUME IInv, NEW t \in Thread, EventTMO(t)
  PROVE  IInv'
<1>1. PICK q \in Queue : timer[t] = q BY DEF EventTMO
<1>2. /\ pc = "timers" /\ pc' = "timers" /\ queue[q] # SIGNALED
      /\ Contains(queue[q], t)
  BY <1>1 DEF EventTMO
<1>3. t \in Waiters(q) /\ t \in Range(threads)
  <2>1. t \in Range(queue[q])
    BY <1>2, InRange DEF Contains, IInv, TypeOK
  <2>2. onq[t] = q BY <2>1, <1>2, Facts
  <2>3. QED BY <2>1, <2>2, <1>2, Constants DEF Waiters, IInv, Created
<1>4. /\ queue' = [queue EXCEPT ![q] = Released(@, t, ec)]
      /\ ec' = AddedEc(runq, t, prio, PassOn(ec, t, Successor(queue[q], t)))
      /\ runq' = Added(runq, t, prio) /\ onq' = [onq EXCEPT ![t] = RUNQ]
      /\ state' = [state EXCEPT ![t] = "READY"]
      /\ timer' = [timer EXCEPT ![t] = SIGNALED]
      /\ cur' = cur /\ threads' = threads
  BY <1>1 DEF EventTMO
<1>5. /\ runq' \in Seq(Thread) /\ Range(runq') = Range(runq) \cup {t}
      /\ queue' \in [Queue -> {SIGNALED} \cup Seq(Thread)]
      /\ ec' \in [Thread -> 0 .. EcMax]
      /\ onq' \in [Thread -> Queue \cup {RUNQ, NULL}]
      /\ OneList' /\ EventsAtHead' /\ Idle \in Range(runq')
  BY <1>2, <1>3, <1>4, ReleaseStep
<1>6. TypeOK'
  BY <1>2, <1>4, <1>5 DEF IInv, TypeOK, EventTMO, callVars, State
<1>7. OffLists' /\ WaitingHasNoTimer'
  BY <1>4, Constants DEF IInv, TypeOK, OffLists, WaitingHasNoTimer
<1>8. Created' BY <1>3, <1>4 DEF IInv, TypeOK, Created
<1>9. Running' /\ Located' BY <1>2 DEF Running, Located
<1>10. QED BY <1>5, <1>6, <1>7, <1>8, <1>9 DEF IInv
-----------------------------------------------------------------------------
(***************************************************************************)
(* The invariant holds at first, and every step keeps it.                  *)
(***************************************************************************)

LEMMA IdleAlone == Range(<<Idle>>) = {Idle}
<1>1. <<Idle>> \in Seq(Thread) /\ Len(<<Idle>>) = 1 /\ <<Idle>>[1] = Idle
  BY Constants
<1>2. \A x : x \in Range(<<Idle>>) <=> \E i \in 1 .. Len(<<Idle>>) : <<Idle>>[i] = x
  BY <1>1, InRange
<1>3. QED BY <1>1, <1>2

LEMMA InitIInv ==
  ASSUME Init
  PROVE  IInv
<1>1. <<Idle>> \in Seq(Thread) /\ Len(<<Idle>>) = 1 /\ <<Idle>>[1] = Idle
  BY Constants
<1>2. Range(<<Idle>>) = {Idle}
  BY IdleAlone
<1>3. <<>> \in Seq(Thread) /\ NoDuplicates(<<>>) /\ \A u : u \notin Range(<<>>)
  <2>1. <<>> \in Seq(Thread) BY EmptySeq
  <2>2. \A u : u \notin Range(<<>>) BY <2>1, MemberIsNotEmpty, Zenon
  <2>3. NoDuplicates(<<>>) BY DEF NoDuplicates
  <2>4. QED BY <2>1, <2>2, <2>3
<1>4. \A q \in Queue : queue[q] \in {SIGNALED, <<>>} BY DEF Init
<1>5. \A q \in Queue : Waiters(q) = {} BY <1>3, <1>4 DEF Waiters
<1>6. TypeOK
  <2>1. 1 \in 1 .. Len(threads) + 1 BY <1>1 DEF Init
  <2>2. queue \in [Queue -> {SIGNALED} \cup Seq(Thread)] BY <1>3 DEF Init
  <2>3. CreatePrio \in [Thread -> Nat] /\ 0 \in 0 .. EcMax /\ 0 \in 0 .. MaxIsr
    BY KernelConstants
  <2>4. QED BY <1>1, <2>1, <2>2, <2>3, Constants DEF Init, TypeOK, State, PC, Cont
<1>7. OneList
  <2>1. NoDuplicates(runq) BY <1>1 DEF Init, NoDuplicates
  <2>2. \A q \in Queue : queue[q] # SIGNALED => NoDuplicates(queue[q]) BY <1>3, <1>4
  <2>3. \A t \in Thread : t \in Range(runq) <=> onq[t] = RUNQ
    BY <1>2, Constants DEF Init
  <2>4. \A t \in Thread, q \in Queue : onq[t] # q BY Constants DEF Init
  <2>5. QED BY <2>1, <2>2, <2>3, <2>4, <1>5 DEF OneList
<1>8. EventsAtHead BY DEF Init, EventsAtHead
<1>9. Idle \in Range(runq) BY <1>2 DEF Init
<1>10. Running /\ Located BY <1>9 DEF Init, Running, Located
<1>11. OffLists /\ WaitingHasNoTimer
  BY Constants DEF Init, OffLists, WaitingHasNoTimer
<1>12. Created BY <1>2 DEF Init, Created
<1>13. QED BY <1>6, <1>7, <1>8, <1>9, <1>10, <1>11, <1>12 DEF IInv

LEMMA NextIInv ==
  ASSUME NotifySleepers = FALSE, IInv, [Next]_vars
  PROVE  IInv'
<1>1. CASE AppCall
  <2>1. ASSUME NEW q \in Queue, NEW w \in BOOLEAN, EventWait(q, w) PROVE IInv'
    BY <2>1, EventWaitStep
  <2>2. ASSUME NEW q \in Queue, NEW w \in BOOLEAN, EventWaitNext(q, w) PROVE IInv'
    BY <2>2, EventWaitNextStep
  <2>3. ASSUME NEW q \in Queue, EventSignal(q) PROVE IInv'
    BY <2>3, EventSignalStep
  <2>4. ASSUME NEW t \in Thread, Notifiable(t), ThreadNotify(t) PROVE IInv'
    BY <2>4, ThreadNotifyStep
  <2>5. ASSUME NEW p \in Prios, ThreadSetPrio(p) PROVE IInv'
    BY <2>5, ThreadSetPrioStep
  <2>6. ASSUME NEW t \in Thread, ThreadCreate(t) PROVE IInv'
    BY <2>6, ThreadCreateStep
  <2>7. QED
    BY <1>1, <2>1, <2>2, <2>3, <2>4, <2>5, <2>6,
       CallYieldStep, ThreadSleepStep, ThreadWaitStep DEF AppCall
<1>2. CASE KernelStep
  BY <1>2, WaitReadStep, ConsumeEventStep, BlockFirstStep, BlockBehindStep,
     LinkWaiterStep, SignalReadStep, SignalPopStep, SignalStoreStep,
     ThreadYieldStep, ScanThreadStep, PostEventStep, SwitchTaskStep, CallReturnStep
     DEF KernelStep
<1>3. CASE TimerElapses
  BY <1>3, ThreadTimeoutStep, EventTMOStep DEF TimerElapses
<1>4. CASE Interrupt
  BY <1>4, SignalFromISRStep, Constants DEF Interrupt
<1>5. CASE UNCHANGED vars
  BY <1>5 DEF vars, threadVars, callVars, IInv, TypeOK, OneList, EventsAtHead, Waiters,
     Running, Located, OffLists, WaitingHasNoTimer, Created
<1>6. QED BY <1>1, <1>2, <1>3, <1>4, <1>5 DEF Next

\* As long as BermudaThreadNotify names no thread but those that called
\* BermudaThreadWait, the invariant of the kernel holds.
THEOREM KernelInvariant ==
  ASSUME NotifySleepers = FALSE
  PROVE  Spec => []IInv
<1>1. Init => IInv BY InitIInv
<1>2. IInv /\ [Next]_vars => IInv' BY NextIInv
<1>3. QED BY <1>1, <1>2, PTL DEF Spec

\* All variables of the kernel keep their types; in particular BermudaSchedulerExec
\* never posts an event of a thread that is in no event queue.
THEOREM KernelTypes ==
  ASSUME NotifySleepers = FALSE
  PROVE  Spec => []TypeOK
<1>1. IInv => TypeOK BY DEF IInv
<1>2. QED BY <1>1, KernelInvariant, PTL

\* No operation of sched.c, thread.c and event.c links a thread twice, or loses
\* track of the list it is in.
THEOREM KernelOneList ==
  ASSUME NotifySleepers = FALSE
  PROVE  Spec => []OneList
<1>1. IInv => OneList BY DEF IInv
<1>2. QED BY <1>1, KernelInvariant, PTL

\* The events that interrupt handlers count are always where
\* BermudaEventSignalRaw finds a thread to wake.
THEOREM KernelEventsAtHead ==
  ASSUME NotifySleepers = FALSE
  PROVE  Spec => []EventsAtHead
<1>1. IInv => EventsAtHead BY DEF IInv
<1>2. QED BY <1>1, KernelInvariant, PTL
-----------------------------------------------------------------------------
(***************************************************************************)
(* A thread that is off the run queue can get back.  As OneList ties the   *)
(* lists to t->queue, CanResume can be said of each thread by itself       *)
(* (Resumable).  It is inductive with two more facts: the timer of the     *)
(* running thread is gone in its own code and until it blocks, and a       *)
(* thread whose wait may time out will look at its timer when it runs      *)
(* again.                                                                  *)
(***************************************************************************)

Resumable(t) ==
  /\ t \in Range(threads) => onq[t] # NULL \/ timer[t] = SLEEP \/ state[t] = "WAITING"
  /\ timer[t] = SLEEP => onq[t] = NULL /\ state[t] = "SLEEPING"
  /\ timer[t] \in Queue => onq[t] = timer[t] /\ cont[t] = "blocked"
  /\ timer[t] = SIGNALED => onq[t] = RUNQ /\ cont[t] = "blocked"

TimerGone == pc \in {"app", "waitRead", "consume", "block", "link"} => timer[cur] = NULL

Resume == TimerGone /\ \A t \in Thread : Resumable(t)
-----------------------------------------------------------------------------
LEMMA Timers ==
  ASSUME IInv
  PROVE  /\ cur \in Thread
         /\ onq \in [Thread -> Queue \cup {RUNQ, NULL}]
         /\ timer \in [Thread -> Queue \cup {SLEEP, SIGNALED, NULL}]
         /\ state \in [Thread -> State] /\ cont \in [Thread -> Cont]
BY DEF IInv, TypeOK

LEMMA ResumeImplies ==
  ASSUME IInv, Resume
  PROVE  CanResume
<1>1. ASSUME NEW t \in Thread
      PROVE  /\ t \in Range(runq) <=> onq[t] = RUNQ
             /\ \A q \in Queue : t \in Waiters(q) <=> onq[t] = q /\ ~(pc = "link" /\ t = cur)
  BY DEF IInv, OneList
<1>2. ASSUME NEW t \in Thread, t \in Range(threads) \ Range(runq)
      PROVE  \/ \E q \in Queue : t \in Waiters(q)
             \/ timer[t] = SLEEP
             \/ state[t] = "WAITING"
             \/ t = cur /\ pc = "link"
  <2>1. CASE onq[t] \in Queue
    BY <1>1, <2>1
  <2>2. CASE onq[t] = NULL
    BY <1>2, <2>2 DEF Resume, Resumable
  <2> QED
    BY <1>1, <1>2, <2>1, <2>2, Timers
<1>3. ASSUME NEW t \in Thread
      PROVE  /\ timer[t] = SLEEP => t \notin Range(runq) /\ state[t] = "SLEEPING"
             /\ timer[t] = SIGNALED => t \in Range(runq) /\ cont[t] = "blocked"
  BY <1>1, Constants DEF Resume, Resumable
<1>4. ASSUME NEW t \in Thread, NEW q \in Queue, timer[t] = q
      PROVE  t \in Waiters(q)
  BY <1>1, <1>4, Constants DEF Resume, Resumable, TimerGone
<1> QED
  BY <1>2, <1>3, <1>4 DEF CanResume

\* Steps that leave the threads alone.
LEMMA StayResumable ==
  ASSUME IInv, Resume, UNCHANGED <<threads, onq, state, timer, cont, cur>>,
         pc' \in {"app", "waitRead", "consume", "block", "link"} =>
           pc \in {"app", "waitRead", "consume", "block", "link"}
  PROVE  Resume'
BY DEF Resume, Resumable, TimerGone

LEMMA QuietSteps ==
  ASSUME IInv, Resume,
         \/ CallYield \/ WaitRead \/ SignalRead \/ SignalStore \/ ScanThread \/ PostEvent
         \/ \E q \in Queue : \/ EventSignal(q) \/ SignalFromISR(q)
                             \/ \E w \in BOOLEAN : EventWait(q, w) \/ EventWaitNext(q, w)
  PROVE  Resume'
<1>1. UNCHANGED <<threads, onq, state, timer, cont, cur>>
  BY DEF CallYield, WaitRead, SignalRead, SignalStore, ScanThread, PostEvent, EventSignal,
     SignalFromISR, EventWait, EventWaitNext, threadVars
<1>2. \/ pc \in {"app", "waitRead"}
      \/ pc' \in {"yield", "scan", "timers", "post", "sigRead", "sigPop", "sigSet"}
      \/ pc' = pc
  BY Zenon DEF CallYield, WaitRead, SignalRead, SignalStore, ScanThread, PostEvent, EventSignal,
     SignalFromISR, EventWait, EventWaitNext, InApp, CheckWaiters, SignalReturns
<1> QED
  BY <1>1, <1>2, StayResumable

\* Another thread, or a change of the thread x alone.
LEMMA OthersResumable ==
  ASSUME Resume, NEW x,
         threads' = threads,
         \A t \in Thread \ {x} : /\ onq'[t] = onq[t] /\ timer'[t] = timer[t]
                                 /\ state'[t] = state[t] /\ cont'[t] = cont[t]
  PROVE  \A t \in Thread \ {x} : Resumable(t)'
BY DEF Resume, Resumable

\* The running thread takes an event, blocks, sleeps or waits.
LEMMA CurrentSteps ==
  ASSUME IInv, Resume,
         \/ ConsumeEvent \/ BlockFirst \/ BlockBehind \/ LinkWaiter
         \/ ThreadYield \/ ThreadSleep \/ ThreadWait \/ CallReturn
  PROVE  Resume'
<1>1. /\ threads' = threads /\ cur' = cur
      /\ \A t \in Thread \ {cur} : /\ onq'[t] = onq[t] /\ timer'[t] = timer[t]
                                   /\ state'[t] = state[t] /\ cont'[t] = cont[t]
  BY Timers DEF ConsumeEvent, BlockFirst, BlockBehind, LinkWaiter, ThreadYield, ThreadSleep,
     ThreadWait, CallReturn, threadVars, GoToSleep
<1>2. \A t \in Thread \ {cur} : Resumable(t)'
  BY <1>1, OthersResumable
<1>3. Resumable(cur) /\ cur \in Thread /\ (cur \in Range(runq) <=> onq[cur] = RUNQ)
  BY Facts DEF Resume
<1>4. Resumable(cur)' /\ TimerGone'
  <2>1. CASE ConsumeEvent
    <3>1. timer[cur] = NULL /\ UNCHANGED <<threads, onq, state, timer, cur>> /\ pc' = "yield"
      BY <2>1 DEF ConsumeEvent, Resume, TimerGone, threadVars
    <3> QED
      BY <1>3, <3>1, Constants DEF Resumable, TimerGone
  <2>2. CASE BlockFirst \/ LinkWaiter
    <3>1. /\ wq \in Queue /\ onq'[cur] = wq /\ pc' = "scan"
          /\ timer'[cur] \in {wq, NULL} /\ cont'[cur] = "blocked"
      BY <2>2, Timers DEF BlockFirst, LinkWaiter, GoToSleep, SchedulerExec,
         IInv, Located, Running
    <3> QED
      BY <1>1, <3>1, Constants DEF Resumable, TimerGone
  <2>3. CASE BlockBehind
    <3>1. /\ wq \in Queue /\ onq'[cur] = wq /\ pc' = "link"
          /\ timer'[cur] = NULL
      BY <2>3, Timers DEF BlockBehind, IInv, Located, Resume, TimerGone
    <3> QED
      BY <1>1, <3>1, Constants DEF Resumable, TimerGone
  <2>4. CASE ThreadYield
    <3>1. onq' = onq
      <4>1. CASE Successor(runq, cur) = NULL
        BY <2>4, <4>1 DEF ThreadYield
      <4>2. CASE Successor(runq, cur) # NULL
        <5>1. cur \in Range(runq)
          BY <4>2, Facts, SuccessorInList
        <5> QED
          BY <1>3, <2>4, <4>2, <5>1, Timers DEF ThreadYield
      <4> QED
        BY <4>1, <4>2
    <3>2. UNCHANGED <<threads, state, timer, cont, cur>> /\ pc' = "scan"
      BY <2>4 DEF ThreadYield, SchedulerExec
    <3> QED
      BY <1>3, <3>1, <3>2 DEF Resumable, TimerGone
  <2>5. CASE ThreadSleep
    <3>1. onq'[cur] = NULL /\ timer'[cur] = SLEEP /\ state'[cur] = "SLEEPING" /\ pc' = "yield"
      BY <2>5, Timers DEF ThreadSleep
    <3> QED
      BY <1>1, <3>1, Constants DEF Resumable, TimerGone
  <2>6. CASE ThreadWait
    <3>1. onq'[cur] = NULL /\ timer'[cur] = NULL /\ state'[cur] = "WAITING" /\ pc' = "scan"
      BY <2>6, Timers DEF ThreadWait, SchedulerExec, InApp, Resume, TimerGone
    <3> QED
      BY <1>1, <3>1, Constants DEF Resumable, TimerGone
  <2>7. CASE CallReturn
    <3>1. onq[cur] = RUNQ
      BY <1>3, <2>7 DEF CallReturn, IInv, Running
    <3>2. timer[cur] \in {SIGNALED, NULL} /\ (timer[cur] = SIGNALED => cont[cur] = "blocked")
      BY <1>3, <3>1, Timers, Constants DEF Resumable
    <3>3. timer'[cur] = NULL /\ onq' = onq
      BY <1>3, <2>7, <3>2, Timers DEF CallReturn
    <3> QED
      BY <1>1, <3>1, <3>3, Constants DEF Resumable, TimerGone
  <2> QED
    BY <2>1, <2>2, <2>3, <2>4, <2>5, <2>6, <2>7
<1>5. ASSUME NEW t \in Thread PROVE Resumable(t)'
  <2>1. CASE t = cur
    BY <1>1, <1>4, <2>1 DEF Resumable
  <2>2. CASE t # cur
    BY <1>2, <2>2
  <2> QED
    BY <2>1, <2>2
<1> QED
  BY <1>4, <1>5 DEF Resume

\* Another thread becomes ready.
LEMMA WakeSteps ==
  ASSUME IInv, Resume, NotifySleepers = FALSE,
         \/ SignalPop
         \/ \E t \in Thread : \/ ThreadCreate(t)
                              \/ Notifiable(t) /\ ThreadNotify(t)
                              \/ ThreadTimeout(t) \/ EventTMO(t)
  PROVE  Resume'
<1>1. PICK x \in Thread :
        /\ Range(threads') \subseteq Range(threads) \cup {x} /\ cont' = cont
        /\ \A t \in Thread \ {x} : /\ onq'[t] = onq[t] /\ timer'[t] = timer[t]
                                   /\ state'[t] = state[t]
        /\ \/ onq'[x] = RUNQ /\ timer'[x] = NULL
           \/ onq'[x] = RUNQ /\ timer'[x] = SIGNALED /\ timer[x] \in Queue
           \/ UNCHANGED <<onq, timer, state, threads>>
  <2>1. CASE SignalPop
    <3>1. /\ queue[wq] # SIGNALED /\ queue[wq] # <<>> /\ wq \in Queue
      BY <2>1 DEF IInv, Located, SignalPop
    <3>2. Head(queue[wq]) \in Thread
      BY <3>1, Facts, HeadTailProperties
    <3>3. WITNESS Head(queue[wq]) \in Thread
    <3> QED
      BY <2>1, <3>2, Timers DEF SignalPop, StopTimer
  <2>2. ASSUME NEW x \in Thread, ThreadCreate(x)
        PROVE  /\ Range(threads') = Range(threads) \cup {x} /\ cont' = cont
               /\ \A t \in Thread \ {x} : /\ onq'[t] = onq[t] /\ timer'[t] = timer[t]
                                          /\ state'[t] = state[t]
               /\ onq'[x] = RUNQ /\ timer'[x] = NULL
    <3>1. x \notin Range(threads) /\ threads' = <<x>> \o threads
      BY <2>2 DEF ThreadCreate
    <3>2. Range(threads') = Range(threads) \cup {x}
      BY <2>2, ThreadsCreated
    <3>3. timer[x] = NULL
      BY <3>1 DEF IInv, Created
    <3> QED
      BY <2>2, <3>2, <3>3, Timers DEF ThreadCreate
  <2>3. ASSUME NEW x \in Thread, Notifiable(x), ThreadNotify(x)
        PROVE  /\ threads' = threads /\ cont' = cont
               /\ \A t \in Thread \ {x} : /\ onq'[t] = onq[t] /\ timer'[t] = timer[t]
                                          /\ state'[t] = state[t]
               /\ \/ onq'[x] = RUNQ /\ timer'[x] = NULL
                  \/ UNCHANGED <<onq, timer, state>>
    <3>1. threads' = threads /\ cont' = cont /\ timer' = timer
      BY <2>3 DEF ThreadNotify
    <3>2. CASE state[x] \in {"WAITING", "SLEEPING"}
      <4>1. state[x] = "WAITING"
        BY <2>3, <3>2 DEF Notifiable
      <4>2. onq[x] = NULL /\ timer[x] # SLEEP
        BY <4>1 DEF IInv, OffLists, WaitingHasNoTimer
      <4>3. timer[x] = NULL
        BY <4>2, Timers, Constants DEF Resume, Resumable
      <4> QED
        BY <2>3, <3>1, <3>2, <4>3, Timers DEF ThreadNotify
    <3>3. CASE state[x] \notin {"WAITING", "SLEEPING"}
      BY <2>3, <3>1, <3>3 DEF ThreadNotify
    <3> QED
      BY <3>2, <3>3
  <2>4. ASSUME NEW x \in Thread, ThreadTimeout(x) \/ EventTMO(x)
        PROVE  /\ threads' = threads /\ cont' = cont
               /\ \A t \in Thread \ {x} : /\ onq'[t] = onq[t] /\ timer'[t] = timer[t]
                                          /\ state'[t] = state[t]
               /\ \/ onq'[x] = RUNQ /\ timer'[x] = NULL
                  \/ onq'[x] = RUNQ /\ timer'[x] = SIGNALED /\ timer[x] \in Queue
    BY <2>4, Timers DEF ThreadTimeout, EventTMO
  <2> QED
    BY <2>1, <2>2, <2>3, <2>4
<1>2. \A t \in Thread \ {x} : Resumable(t)'
  BY <1>1 DEF Resume, Resumable
<1>3. Resumable(x)'
  BY <1>1, Constants DEF Resume, Resumable
<1>4. TimerGone'
  <2>1. cur' = cur
    BY DEF SignalPop, ThreadCreate, ThreadNotify, ThreadTimeout, EventTMO
  <2>2. \/ pc' \in {"yield", "scan", "timers"}
        \/ pc = "app" /\ pc' = "app" /\ timer' = timer
    BY DEF SignalPop, ThreadCreate, ThreadNotify, ThreadTimeout, EventTMO, SignalReturns
  <2> QED
    BY <2>1, <2>2 DEF Resume, TimerGone
<1>5. \A t \in Thread : Resumable(t)'
  BY <1>2, <1>3, Zenon
<1> QED
  BY <1>4, <1>5 DEF Resume

\* The processor changes hands between two threads of the run queue, or leaves
\* a thread that blocked.
LEMMA SwitchSteps ==
  ASSUME IInv, Resume, SwitchTask \/ \E p \in Prios : ThreadSetPrio(p)
  PROVE  Resume'
<1>1. PICK top \in Range(runq) :
        /\ threads' = threads /\ cont' = cont /\ timer' = timer /\ onq' = onq
        /\ \A t \in Thread \ {top} : \/ state'[t] = state[t]
                                     \/ t = cur /\ state[t] = "RUNNING"
                                     \/ onq[t] = RUNQ
        /\ \/ pc' = "return"
           \/ pc = "app" /\ pc' = "app" /\ cur' = cur
  <2>1. CASE SwitchTask
    <3>1. Head(runq) \in Range(runq)
      BY Facts
    <3>2. WITNESS Head(runq) \in Range(runq)
    <3> QED
      BY <2>1, Timers DEF SwitchTask
  <2>2. ASSUME NEW p \in Prios, ThreadSetPrio(p)
        PROVE  \E top \in Range(runq) :
                 /\ threads' = threads /\ cont' = cont /\ timer' = timer /\ onq' = onq
                 /\ \A t \in Thread \ {top} : state'[t] = state[t] \/ onq[t] = RUNQ
                 /\ \/ pc' = "return"
                    \/ pc = "app" /\ pc' = "app" /\ cur' = cur
    <3>1. /\ cur \in Range(runq) /\ prio' = [prio EXCEPT ![cur] = p]
          /\ runq' = Added(Removed(runq, cur), cur, prio')
      BY <2>2 DEF IInv, Running, ThreadSetPrio, InApp
    <3>2. prio' \in [Thread -> Nat]
      BY <3>1, Facts, Constants
    <3>3. Range(runq') = Range(runq) /\ runq' \in Seq(Thread)
      BY <3>1, <3>2, RequeueCurrent
    <3>4. Head(runq') \in Range(runq)
      BY <3>1, <3>3, MemberIsNotEmpty, HeadInRange
    <3>5. onq[cur] = RUNQ
      BY <3>1, Facts
    <3>6. WITNESS Head(runq') \in Range(runq)
    <3> QED
      BY <2>2, <3>5, Timers DEF ThreadSetPrio, InApp
  <2> QED
    BY <2>1, <2>2
<1>2. onq[top] = RUNQ
  BY Facts
<1>3. ASSUME NEW t \in Thread PROVE Resumable(t)'
  <2>1. Resumable(t)
    BY DEF Resume
  <2>2. state'[t] = state[t] \/ onq[t] = RUNQ \/ state[t] = "RUNNING"
    BY <1>1, <1>2
  <2> QED
    BY <1>1, <2>1, <2>2, Constants DEF Resumable
<1> QED
  BY <1>1, <1>3 DEF Resume, TimerGone
-----------------------------------------------------------------------------
(***************************************************************************)
(* The theorem.                                                            *)
(***************************************************************************)

LEMMA InitResume ==
  ASSUME Init
  PROVE  Resume
<1>1. \A t \in Thread : timer[t] = NULL /\ (t # Idle => t \notin Range(threads))
  <2>1. Range(threads) = {Idle}
    BY IdleAlone DEF Init
  <2> QED
    BY <2>1 DEF Init
<1> QED
  BY <1>1, Constants DEF Init, Resume, Resumable, TimerGone

LEMMA NextResume ==
  ASSUME NotifySleepers = FALSE, IInv, Resume, [Next]_vars
  PROVE  Resume'
<1>1. CASE AppCall
  <2>1. ASSUME NEW q \in Queue, NEW w \in BOOLEAN, EventWait(q, w) PROVE Resume'
    BY <2>1, QuietSteps
  <2>2. ASSUME NEW q \in Queue, NEW w \in BOOLEAN, EventWaitNext(q, w) PROVE Resume'
    BY <2>2, QuietSteps
  <2>3. ASSUME NEW q \in Queue, EventSignal(q) PROVE Resume'
    BY <2>3, QuietSteps
  <2>4. ASSUME NEW t \in Thread, Notifiable(t), ThreadNotify(t) PROVE Resume'
    BY <2>4, WakeSteps
  <2>5. ASSUME NEW t \in Thread, ThreadCreate(t) PROVE Resume'
    BY <2>5, WakeSteps
  <2>6. ASSUME NEW p \in Prios, ThreadSetPrio(p) PROVE Resume'
    BY <2>6, SwitchSteps
  <2>7. CASE CallYield \/ ThreadSleep \/ ThreadWait
    BY <2>7, QuietSteps, CurrentSteps
  <2> QED
    BY <1>1, <2>1, <2>2, <2>3, <2>4, <2>5, <2>6, <2>7 DEF AppCall
<1>2. CASE KernelStep
  <2>1. CASE WaitRead \/ SignalRead \/ SignalStore \/ ScanThread \/ PostEvent
    BY <2>1, QuietSteps
  <2>2. CASE \/ ConsumeEvent \/ BlockFirst \/ BlockBehind \/ LinkWaiter
             \/ ThreadYield \/ CallReturn
    BY <2>2, CurrentSteps
  <2>3. CASE SignalPop
    BY <2>3, WakeSteps
  <2>4. CASE SwitchTask
    BY <2>4, SwitchSteps
  <2> QED
    BY <1>2, <2>1, <2>2, <2>3, <2>4 DEF KernelStep
<1>3. CASE TimerElapses
  <2>1. ASSUME NEW t \in Thread, ThreadTimeout(t) \/ EventTMO(t) PROVE Resume'
    BY <2>1, WakeSteps
  <2> QED
    BY <1>3, <2>1 DEF TimerElapses
<1>4. CASE Interrupt
  BY <1>4, QuietSteps, Constants DEF Interrupt
<1>5. CASE UNCHANGED vars
  BY <1>5, StayResumable DEF vars
<1> QED
  BY <1>1, <1>2, <1>3, <1>4, <1>5 DEF Next

\* Every thread off the run queue has an event queue, a timer or a notifier to
\* bring it back, and no timer is left that would link a ready thread again.
THEOREM KernelCanResume ==
  ASSUME NotifySleepers = FALSE
  PROVE  Spec => []CanResume
<1>1. Init => IInv /\ Resume
  BY InitIInv, InitResume
<1>2. IInv /\ Resume /\ [Next]_vars => (IInv /\ Resume)'
  BY NextIInv, NextResume
<1>3. IInv /\ Resume => CanResume
  BY ResumeImplies
<1> QED
  BY <1>1, <1>2, <1>3, PTL DEF Spec
-----------------------------------------------------------------------------
(***************************************************************************)
(* The order of the thread lists.                                          *)
(*                                                                         *)
(* ListsInOrder rests on the types and places of IInv: the thread whose    *)
(* priority changes is in the run queue alone, so that no event queue has  *)
(* to be sorted again.  IdleLast follows from the order of the run queue,  *)
(* as the idle thread is in it and less important than all others.         *)
(* FirstComeFirstServed holds because a step puts at most one thread into  *)
(* an event queue, or takes one out of it (Moved).                         *)
(***************************************************************************)

\* Nobody gets a priority as low as that of the idle thread.
IdleLeast ==
  /\ prio[Idle] = CreatePrio[Idle]
  /\ \A t \in Thread \ {Idle} : prio[t] < prio[Idle]

Order == ListsInOrder /\ IdleLeast
-----------------------------------------------------------------------------
(***************************************************************************)
(* Lists that stay in order.                                               *)
(***************************************************************************)

LEMMA EmptyInOrder ==
  ASSUME NEW T, NEW p \in [T -> Nat]
  PROVE  /\ InPrioOrder(<<>>, p)
         /\ \A x \in T : InPrioOrder(<<x>>, p)
<1>1. InPrioOrder(<<>>, p)
  BY DEF InPrioOrder
<1>2. ASSUME NEW x \in T PROVE InPrioOrder(<<x>>, p)
  BY DEF InPrioOrder
<1> QED
  BY <1>1, <1>2

\* A thread that leaves a list leaves the others in order.
LEMMA RemoveFirstInOrder ==
  ASSUME NEW T, NEW s \in Seq(T), NEW x, NEW p \in [T -> Nat], InPrioOrder(s, p)
  PROVE  InPrioOrder(RemoveFirst(s, x), p)
<1>1. CASE x \notin Range(s)
  BY <1>1, RemoveFirstPlace
<1>2. CASE x \in Range(s)
  <2>1. PICK i \in 1 .. Len(s) : RemoveFirst(s, x) = RemoveAt(s, i)
    BY <1>2, RemoveFirstPlace
  <2> DEFINE r == RemoveAt(s, i)
  <2>2. Len(s) \in Nat
    BY LenProperties
  <2>3. /\ r \in Seq(T)
        /\ Len(r) = Len(s) - 1
        /\ \A j \in 1 .. Len(s) - 1 : r[j] = IF j < i THEN s[j] ELSE s[j + 1]
    BY RemoveAtProps, Zenon
  <2>4. DOMAIN r = 1 .. Len(s) - 1 /\ DOMAIN s = 1 .. Len(s)
    BY <2>3, LenProperties
  <2> HIDE DEF r
  <2>5. ASSUME NEW j \in DOMAIN r, NEW k \in DOMAIN r, j < k
        PROVE  p[r[j]] <= p[r[k]]
    <3>1. j \in DOMAIN s /\ j + 1 \in DOMAIN s /\ k \in DOMAIN s /\ k + 1 \in DOMAIN s
      BY <2>2, <2>4
    <3>2. i \in Int /\ j \in Int /\ k \in Int
      BY <2>2, <2>4
    <3>3. j < k + 1 /\ j + 1 < k + 1 /\ (k < i => j < i)
      BY <2>5, <3>2
    <3>4. /\ r[j] = IF j < i THEN s[j] ELSE s[j + 1]
          /\ r[k] = IF k < i THEN s[k] ELSE s[k + 1]
      BY <2>3, <2>4
    <3>5. \A m, n \in DOMAIN s : m < n => p[s[m]] <= p[s[n]]
      BY DEF InPrioOrder
    <3>6. p[s[j]] <= p[s[k]] /\ p[s[j]] <= p[s[k + 1]] /\ p[s[j + 1]] <= p[s[k + 1]]
      BY <2>5, <3>1, <3>3, <3>5
    <3> QED
      BY <3>3, <3>4, <3>6
  <2> QED
    BY <2>1, <2>5 DEF InPrioOrder, r
<1> QED
  BY <1>1, <1>2

\* The order of a list does not depend on threads outside of it.
LEMMA SameOrder ==
  ASSUME NEW T, NEW s \in Seq(T), NEW p, NEW r, NEW x, x \notin Range(s),
         \A t \in T \ {x} : r[t] = p[t], InPrioOrder(s, p)
  PROVE  InPrioOrder(s, r)
<1>1. ASSUME NEW i \in DOMAIN s PROVE r[s[i]] = p[s[i]]
  <2>1. i \in 1 .. Len(s)
    BY LenProperties
  <2>2. s[i] \in T /\ s[i] # x
    BY <2>1, ElementOfSeq, InRange
  <2> QED
    BY <2>2
<1> QED
  BY <1>1 DEF InPrioOrder

\* A list in order ends with the least important of its threads.
LEMMA LeastIsLast ==
  ASSUME NEW T, NEW s \in Seq(T), NEW p \in [T -> Nat], InPrioOrder(s, p),
         NEW x \in Range(s), \A t \in T \ {x} : p[t] < p[x]
  PROVE  s # <<>> /\ s[Len(s)] = x
<1>1. PICK i \in 1 .. Len(s) : s[i] = x
  BY InRange
<1>2. Len(s) \in Nat /\ DOMAIN s = 1 .. Len(s)
  BY LenProperties
<1>3. Len(s) \in DOMAIN s /\ s[Len(s)] \in T
  BY <1>1, <1>2, ElementOfSeq
<1>4. i = Len(s) \/ i < Len(s)
  <2>1. i \in Int /\ Len(s) \in Int /\ i <= Len(s)
    BY <1>2
  <2> QED
    BY <2>1
<1>5. p[s[i]] <= p[s[Len(s)]]
  <2>1. CASE i = Len(s)
    BY <1>1, <1>3, <2>1
  <2>2. CASE i < Len(s)
    BY <1>1, <1>2, <1>3, <2>2 DEF InPrioOrder
  <2> QED
    BY <1>4, <2>1, <2>2
<1>6. x \in T
  BY <1>1, <1>2, ElementOfSeq
<1>7. ASSUME s[Len(s)] # x PROVE FALSE
  <2>1. p[s[Len(s)]] < p[x]
    BY <1>3, <1>7
  <2>2. p[s[Len(s)]] \in Nat /\ p[x] \in Nat
    BY <1>3, <1>6
  <2> QED
    BY <1>1, <1>5, <2>1, <2>2
<1>8. s # <<>>
  BY MemberIsNotEmpty
<1> QED
  BY <1>7, <1>8
-----------------------------------------------------------------------------
(***************************************************************************)
(* What the steps of the kernel do to the lists.                           *)
(***************************************************************************)

\* The run queue, after a step that leaves the priorities alone.
RunShape ==
  \/ runq' = runq
  \/ \E x \in Thread : \/ runq' = Removed(runq, x)
                        \/ runq' = Added(runq, x, prio)
                        \/ runq' = Added(Removed(runq, x), x, prio)

\* The event queue q, after any step.
QueueShape(q) ==
  \/ queue'[q] \in {queue[q], SIGNALED, <<>>}
  \/ \E x \in Thread : \/ queue'[q] = <<x>>
                        \/ /\ queue[q] # SIGNALED
                           /\ queue'[q] \in {PrioInsert(queue[q], x, prio), RemoveFirst(queue[q], x)}

\* BermudaThreadPrioQueueAdd and BermudaThreadQueueRemove on the run queue.
LEMMA RunQueueInOrder ==
  ASSUME IInv, NEW p \in [Thread -> Nat], NEW r \in Seq(Thread), InPrioOrder(r, p),
         NEW x \in Thread
  PROVE  /\ Removed(r, x) \in Seq(Thread) /\ InPrioOrder(Removed(r, x), p)
         /\ InPrioOrder(Added(r, x, p), p)
<1>1. r # SIGNALED
  BY Constants
<1>2. Removed(r, x) = RemoveFirst(r, x) /\ Added(r, x, p) = PrioInsert(r, x, p)
  BY <1>1 DEF Removed, Added
<1>3. RemoveFirst(r, x) \in Seq(Thread)
  <2>1. CASE x \notin Range(r)
    BY <2>1, RemoveFirstPlace
  <2>2. CASE x \in Range(r)
    <3>1. PICK i \in 1 .. Len(r) : RemoveFirst(r, x) = RemoveAt(r, i)
      BY <2>2, RemoveFirstPlace
    <3> QED
      BY <3>1, RemoveAtProps
  <2> QED
    BY <2>1, <2>2
<1> QED
  BY <1>2, <1>3, RemoveFirstInOrder, PrioInsertInOrder

\* A step that does no more than that keeps the order.
LEMMA ShapesKeepOrder ==
  ASSUME IInv, Order, prio' = prio, RunShape, \A q \in Queue : QueueShape(q)
  PROVE  Order'
<1>1. prio \in [Thread -> Nat] /\ runq \in Seq(Thread)
  BY Facts
<1>2. InPrioOrder(runq', prio)
  <2>1. InPrioOrder(runq, prio)
    BY DEF Order, ListsInOrder
  <2>2. ASSUME NEW x \in Thread
        PROVE  /\ InPrioOrder(Removed(runq, x), prio)
               /\ InPrioOrder(Added(runq, x, prio), prio)
               /\ InPrioOrder(Added(Removed(runq, x), x, prio), prio)
    BY <1>1, <2>1, RunQueueInOrder
  <2> QED
    BY <2>1, <2>2 DEF RunShape
<1>3. ASSUME NEW q \in Queue, queue'[q] # SIGNALED
      PROVE  InPrioOrder(queue'[q], prio)
  <2>1. queue[q] # SIGNALED => queue[q] \in Seq(Thread) /\ InPrioOrder(queue[q], prio)
    BY Facts DEF Order, ListsInOrder
  <2>2. InPrioOrder(<<>>, prio) /\ \A x \in Thread : InPrioOrder(<<x>>, prio)
    BY <1>1, EmptyInOrder
  <2>3. ASSUME NEW x \in Thread, queue[q] # SIGNALED
        PROVE  /\ InPrioOrder(PrioInsert(queue[q], x, prio), prio)
               /\ InPrioOrder(RemoveFirst(queue[q], x), prio)
    BY <1>1, <2>1, <2>3, PrioInsertInOrder, RemoveFirstInOrder
  <2> QED
    BY <1>3, <2>1, <2>2, <2>3 DEF QueueShape
<1> QED
  BY <1>2, <1>3 DEF Order, ListsInOrder, IdleLeast
-----------------------------------------------------------------------------
(***************************************************************************)
(* The steps.                                                              *)
(***************************************************************************)

\* Steps that touch no event queue.
LEMMA RunQueueSteps ==
  ASSUME IInv, Order,
         \/ CallYield \/ ThreadSleep \/ ThreadWait
         \/ WaitRead \/ BlockBehind \/ SignalRead
         \/ ThreadYield \/ ScanThread \/ PostEvent \/ SwitchTask \/ CallReturn
         \/ \E q \in Queue : EventSignal(q) \/ \E w \in BOOLEAN : EventWait(q, w)
         \/ \E t \in Thread : ThreadCreate(t) \/ ThreadNotify(t) \/ ThreadTimeout(t)
  PROVE  Order'
<1>1. cur \in Thread
  BY Facts
<1>2. queue' = queue /\ prio' = prio /\ RunShape
  BY <1>1 DEF RunShape, CallYield, ThreadSleep, ThreadWait, WaitRead, BlockBehind,
     SignalRead, ThreadYield, ScanThread, PostEvent, SwitchTask, CallReturn, EventSignal,
     EventWait, ThreadCreate, ThreadNotify, ThreadTimeout, LeaveRunQueue, threadVars
<1> QED
  BY <1>2, ShapesKeepOrder DEF QueueShape

\* Steps that store an event in an event queue or take it out.
LEMMA StoreSteps ==
  ASSUME IInv, Order,
         \/ ConsumeEvent \/ SignalStore
         \/ \E q \in Queue : SignalFromISR(q) \/ \E w \in BOOLEAN : EventWaitNext(q, w)
  PROVE  Order'
<1>1. queue \in [Queue -> {SIGNALED} \cup Seq(Thread)]
  BY DEF IInv, TypeOK
<1>2. runq' = runq /\ prio' = prio
  BY DEF ConsumeEvent, SignalStore, SignalFromISR, EventWaitNext, threadVars
<1>3. \A q \in Queue : queue'[q] \in {queue[q], SIGNALED, <<>>}
  BY <1>1 DEF ConsumeEvent, SignalStore, SignalFromISR, EventWaitNext
<1> QED
  BY <1>2, <1>3, ShapesKeepOrder DEF QueueShape, RunShape

\* The running thread enters an event queue.
LEMMA BlockSteps ==
  ASSUME IInv, Order, BlockFirst \/ LinkWaiter
  PROVE  Order'
<1>1. /\ queue \in [Queue -> {SIGNALED} \cup Seq(Thread)] /\ cur \in Thread
      /\ wq \in Queue /\ pc = "link" => queue[wq] # SIGNALED
  BY DEF IInv, TypeOK, Located, BlockFirst, LinkWaiter
<1>2. prio' = prio /\ RunShape
  BY <1>1 DEF RunShape, BlockFirst, LinkWaiter
<1>3. ASSUME NEW q \in Queue PROVE QueueShape(q)
  <2>1. CASE BlockFirst
    BY <1>1, <2>1 DEF QueueShape, BlockFirst
  <2>2. CASE LinkWaiter
    BY <1>1, <2>2 DEF QueueShape, LinkWaiter
  <2> QED
    BY <2>1, <2>2
<1> QED
  BY <1>2, <1>3, ShapesKeepOrder

\* An event or a time-out takes a thread out of an event queue.
LEMMA ReleaseSteps ==
  ASSUME IInv, Order, SignalPop \/ \E t \in Thread : EventTMO(t)
  PROVE  Order'
<1>1. PICK q \in Queue, t \in Thread :
        /\ queue[q] # SIGNALED
        /\ queue' = [queue EXCEPT ![q] = Released(@, t, ec)]
        /\ runq' = Added(runq, t, prio)
        /\ prio' = prio
  <2>1. CASE SignalPop
    <3>1. wq \in Queue /\ queue[wq] # SIGNALED /\ queue[wq] # <<>>
      BY <2>1 DEF IInv, Located, SignalPop
    <3>2. queue[wq] \in Seq(Thread)
      BY <3>1, Facts
    <3>3. Head(queue[wq]) \in Thread
      BY <3>1, <3>2, HeadTailProperties
    <3> QED
      BY <2>1, <3>1, <3>3 DEF SignalPop
  <2>2. CASE \E t \in Thread : EventTMO(t)
    BY <2>2 DEF EventTMO
  <2> QED
    BY <2>1, <2>2
<1>2. RunShape
  BY <1>1 DEF RunShape
<1>3. queue \in [Queue -> {SIGNALED} \cup Seq(Thread)]
  BY DEF IInv, TypeOK
<1>4. ASSUME NEW k \in Queue PROVE QueueShape(k)
  BY <1>1, <1>3 DEF QueueShape, Released
<1> QED
  BY <1>1, <1>2, <1>4, ShapesKeepOrder

\* BermudaThreadSetPrio moves the thread to its new place in the run queue.
LEMMA SetPrioStep ==
  ASSUME IInv, Order, NEW p \in Prios, ThreadSetPrio(p)
  PROVE  Order'
<1>1. /\ cur \in Range(runq) /\ cur \in Thread /\ cur # Idle
      /\ prio' = [prio EXCEPT ![cur] = p]
      /\ runq' = Added(Removed(runq, cur), cur, prio')
      /\ queue' = queue
  BY Facts DEF IInv, Running, ThreadSetPrio, InApp
<1>2. p \in Nat /\ p < CreatePrio[Idle] /\ prio \in [Thread -> Nat] /\ Idle \in Thread
  BY KernelConstants, Facts
<1>3. prio' \in [Thread -> Nat] /\ \A t \in Thread \ {cur} : prio'[t] = prio[t]
  BY <1>1, <1>2
<1>4. IdleLeast'
  BY <1>1, <1>2, <1>3 DEF Order, IdleLeast
<1>5. InPrioOrder(runq', prio')
  <2> DEFINE r == Removed(runq, cur)
  <2>1. r \in Seq(Thread) /\ InPrioOrder(r, prio)
    BY <1>1, <1>2, Facts, RunQueueInOrder DEF Order, ListsInOrder
  <2>2. cur \notin Range(r)
    BY <1>1, QuitRunQueue
  <2> HIDE DEF r
  <2>3. InPrioOrder(r, prio')
    BY <1>3, <2>1, <2>2, SameOrder
  <2> QED
    BY <1>1, <1>3, <2>1, <2>3, RunQueueInOrder DEF r
<1>6. ASSUME NEW q \in Queue, queue'[q] # SIGNALED
      PROVE  InPrioOrder(queue'[q], prio')
  <2>1. queue[q] \in Seq(Thread) /\ cur \notin Range(queue[q]) /\ InPrioOrder(queue[q], prio)
    BY <1>1, <1>6, Facts DEF Order, ListsInOrder
  <2> DEFINE l == queue[q]
  <2>2. InPrioOrder(l, prio')
    <3> HIDE DEF l
    <3>1. l \in Seq(Thread) /\ cur \notin Range(l) /\ InPrioOrder(l, prio)
      BY <2>1 DEF l
    <3> QED
      BY <1>3, <3>1, SameOrder
  <2> QED
    BY <1>1, <2>2
<1> QED
  BY <1>4, <1>5, <1>6 DEF Order, ListsInOrder
-----------------------------------------------------------------------------
(***************************************************************************)
(* The theorems.                                                           *)
(***************************************************************************)

LEMMA InitOrder ==
  ASSUME Init
  PROVE  Order
<1>1. CreatePrio \in [Thread -> Nat] /\ prio = CreatePrio /\ Idle \in Thread
  BY KernelConstants DEF Init
<1>2. IdleLeast
  BY <1>1, KernelConstants DEF IdleLeast
<1>3. runq = <<Idle>> /\ \A q \in Queue : queue[q] \in {SIGNALED, <<>>}
  BY DEF Init
<1> QED
  BY <1>1, <1>2, <1>3, EmptyInOrder DEF Order, ListsInOrder

LEMMA NextOrder ==
  ASSUME IInv, Order, [Next]_vars
  PROVE  Order'
<1>1. CASE AppCall
  BY <1>1, RunQueueSteps, StoreSteps, SetPrioStep DEF AppCall
<1>2. CASE KernelStep
  BY <1>2, RunQueueSteps, StoreSteps, BlockSteps, ReleaseSteps DEF KernelStep
<1>3. CASE TimerElapses
  BY <1>3, RunQueueSteps, ReleaseSteps DEF TimerElapses
<1>4. CASE Interrupt
  BY <1>4, StoreSteps, Constants DEF Interrupt
<1>5. CASE UNCHANGED vars
  BY <1>5 DEF vars, Order, ListsInOrder, IdleLeast
<1> QED
  BY <1>1, <1>2, <1>3, <1>4, <1>5 DEF Next

LEMMA OrderInvariant ==
  ASSUME NotifySleepers = FALSE
  PROVE  Spec => [](IInv /\ Order)
<1>1. Init => IInv /\ Order
  BY InitIInv, InitOrder
<1>2. IInv /\ Order /\ [Next]_vars => (IInv /\ Order)'
  BY NextIInv, NextOrder
<1> QED
  BY <1>1, <1>2, PTL DEF Spec

\* The run queue and the event queues are in order of importance, whatever the
\* threads did to their priorities.
THEOREM KernelListsInOrder ==
  ASSUME NotifySleepers = FALSE
  PROVE  Spec => []ListsInOrder
<1>1. Order => ListsInOrder
  BY DEF Order
<1> QED
  BY <1>1, OrderInvariant, PTL

\* The idle thread is the last of the run queue: BermudaSwitchTask always finds
\* a thread, and the idle thread runs only when no other can.
THEOREM KernelIdleLast ==
  ASSUME NotifySleepers = FALSE
  PROVE  Spec => []IdleLast
<1>1. IInv /\ Order => IdleLast
  <2> SUFFICES ASSUME IInv, Order PROVE IdleLast
    OBVIOUS
  <2>1. runq \in Seq(Thread) /\ prio \in [Thread -> Nat] /\ InPrioOrder(runq, prio)
    BY Facts DEF Order, ListsInOrder
  <2>2. Idle \in Range(runq) /\ \A t \in Thread \ {Idle} : prio[t] < prio[Idle]
    BY DEF IInv, Order, IdleLeast
  <2> QED
    BY <2>1, <2>2, LeastIsLast DEF IdleLast
<1> QED
  BY <1>1, OrderInvariant, PTL
-----------------------------------------------------------------------------
(***************************************************************************)
(* First come, first served.                                               *)
(***************************************************************************)

LEMMA Inserted ==
  ASSUME NEW T, NEW s \in Seq(T), NEW x \in T, NEW p \in [T -> Nat]
  PROVE  LET n == PrioInsert(s, x, p)
             k == PrioPlace(s, x, p)
         IN  /\ n \in Seq(T)
             /\ Len(n) = Len(s) + 1
             /\ k \in 1 .. Len(s) + 1
             /\ \A j \in 1 .. Len(s) + 1 : j < k => j \in 1 .. Len(s) /\ n[j] = s[j]
             /\ n[k] = x
             /\ \A j \in 1 .. Len(s) + 1 : j > k => j - 1 \in 1 .. Len(s) /\ n[j] = s[j - 1]
             /\ Len(s) \in Nat
BY PrioInsertParts, Zenon

\* A thread that joins a list passes less important threads alone.
LEMMA BeforeInserted ==
  ASSUME NEW T, NEW s \in Seq(T), NEW p \in [T -> Nat], InPrioOrder(s, p),
         NEW x \in T, x \notin Range(s), NEW t \in Range(s), NEW u,
         Before(PrioInsert(s, x, p), u, t)
  PROVE  Before(s, u, t) \/ p[u] < p[t]
<1> DEFINE n == PrioInsert(s, x, p)
           k == PrioPlace(s, x, p)
<1>1. /\ n \in Seq(T)
      /\ Len(n) = Len(s) + 1
      /\ k \in 1 .. Len(s) + 1
      /\ \A j \in 1 .. Len(s) + 1 : j < k => j \in 1 .. Len(s) /\ n[j] = s[j]
      /\ n[k] = x
      /\ \A j \in 1 .. Len(s) + 1 : j > k => j - 1 \in 1 .. Len(s) /\ n[j] = s[j - 1]
      /\ Len(s) \in Nat
  BY Inserted, Zenon
<1>2. k <= Len(s) => p[s[k]] > p[x]
  BY PrioPlaceProps
<1>3. DOMAIN s = 1 .. Len(s)
  BY LenProperties
<1>4. DOMAIN n = 1 .. Len(s) + 1
  BY <1>1, LenProperties
<1> HIDE DEF n, k
<1>5. PICK i \in 1 .. Len(s) + 1, j \in 1 .. Len(s) + 1 : i < j /\ n[i] = u /\ n[j] = t
  BY <1>4 DEF Before, n
<1>6. j # k
  BY <1>1, <1>5
<1>7. CASE i = k
  <2>1. j - 1 \in 1 .. Len(s) /\ t = s[j - 1] /\ u = x /\ k <= j - 1 /\ k \in 1 .. Len(s)
    BY <1>1, <1>5, <1>7
  <2>2. p[s[k]] <= p[s[j - 1]]
    <3>1. CASE k = j - 1
      <4>1. s[k] \in T
        BY <2>1, ElementOfSeq
      <4> QED
        BY <3>1, <4>1
    <3>2. CASE k < j - 1
      BY <1>3, <2>1, <3>2 DEF InPrioOrder
    <3> QED
      BY <1>1, <2>1, <3>1, <3>2
  <2>3. s[k] \in T /\ s[j - 1] \in T
    BY <2>1, ElementOfSeq
  <2>4. p[x] \in Nat /\ p[s[k]] \in Nat /\ p[s[j - 1]] \in Nat /\ p[s[k]] > p[x]
    BY <1>2, <2>1, <2>3
  <2> QED
    BY <2>1, <2>2, <2>4
<1>8. CASE i # k
  <2>1. PICK a \in 1 .. Len(s) : s[a] = u /\ a = IF i < k THEN i ELSE i - 1
    <3>1. CASE i < k
      BY <1>1, <1>5, <3>1
    <3>2. CASE i > k
      BY <1>1, <1>5, <3>2
    <3> QED
      BY <1>1, <1>8, <3>1, <3>2
  <2>2. PICK b \in 1 .. Len(s) : s[b] = t /\ b = IF j < k THEN j ELSE j - 1
    <3>1. CASE j < k
      BY <1>1, <1>5, <3>1
    <3>2. CASE j > k
      BY <1>1, <1>5, <3>2
    <3> QED
      BY <1>1, <1>6, <3>1, <3>2
  <2>3. i \in Int /\ j \in Int /\ k \in Int /\ i < j
    BY <1>1, <1>5
  <2>4. a < b
    BY <1>6, <1>8, <2>1, <2>2, <2>3
  <2> QED
    BY <1>3, <2>1, <2>2, <2>4 DEF Before
<1> QED
  BY <1>7, <1>8

\* A thread that leaves a list changes the order of no others.
LEMMA BeforeRemoved ==
  ASSUME NEW T, NEW s \in Seq(T), NEW x \in Range(s), NEW t, NEW u,
         Before(RemoveFirst(s, x), u, t)
  PROVE  Before(s, u, t)
<1>1. PICK k \in 1 .. Len(s) : RemoveFirst(s, x) = RemoveAt(s, k)
  BY RemoveFirstPlace
<1> DEFINE r == RemoveAt(s, k)
<1>2. /\ r \in Seq(T) /\ Len(r) = Len(s) - 1 /\ Len(s) \in Nat
      /\ \A j \in 1 .. Len(s) - 1 : r[j] = IF j < k THEN s[j] ELSE s[j + 1]
  BY RemoveAtProps, LenProperties
<1>3. DOMAIN s = 1 .. Len(s)
  BY LenProperties
<1>4. DOMAIN r = 1 .. Len(s) - 1
  BY <1>2, LenProperties
<1> HIDE DEF r
<1>5. PICK i \in 1 .. Len(s) - 1, j \in 1 .. Len(s) - 1 : i < j /\ r[i] = u /\ r[j] = t
  BY <1>1, <1>4 DEF Before, r
<1>6. ASSUME NEW h \in 1 .. Len(s) - 1
      PROVE  \E m \in 1 .. Len(s) : s[m] = r[h] /\ m = IF h < k THEN h ELSE h + 1
  <2>1. h \in 1 .. Len(s) /\ h + 1 \in 1 .. Len(s)
    BY <1>2
  <2>2. r[h] = IF h < k THEN s[h] ELSE s[h + 1]
    BY <1>2
  <2> QED
    BY <2>1, <2>2
<1>7. PICK a \in 1 .. Len(s) : s[a] = u /\ a = IF i < k THEN i ELSE i + 1
  BY <1>5, <1>6
<1>8. PICK b \in 1 .. Len(s) : s[b] = t /\ b = IF j < k THEN j ELSE j + 1
  BY <1>5, <1>6
<1>9. a < b
  <2>1. i \in Int /\ j \in Int /\ k \in Int /\ i < j
    BY <1>2, <1>5
  <2> QED
    BY <1>7, <1>8, <2>1
<1> QED
  BY <1>3, <1>7, <1>8, <1>9 DEF Before

\* The queue q, with the thread that joined it or left it.
Moved(q) ==
  \/ queue'[q] = queue[q]
  \/ queue[q] \in {SIGNALED, <<>>}
  \/ /\ queue[q] # SIGNALED
     /\ \E x \in Thread : /\ x \notin Range(queue[q])
                          /\ queue'[q] = PrioInsert(queue[q], x, prio)
  \/ /\ queue[q] # SIGNALED
     /\ \E x \in Range(queue[q]) : /\ queue'[q] \in {SIGNALED, RemoveFirst(queue[q], x)}
                                   /\ queue'[q] = SIGNALED => Range(queue[q]) = {x}
                                   /\ x = Head(queue[q]) \/ timer'[x] = SIGNALED

\* What FirstComeFirstServed says of q.
Served(q) ==
  \A t, u \in Thread :
    queue[q] # SIGNALED /\ t \in Range(queue[q]) =>
      /\ queue'[q] # SIGNALED /\ Before(queue'[q], u, t)
           => Before(queue[q], u, t) \/ prio[u] < prio[t]
      /\ Before(queue[q], t, u) /\ t \in Waiters(q)' /\ u \notin Waiters(q)'
           => timer'[u] = SIGNALED

LEMMA MovedIsServed ==
  ASSUME IInv, Order, NEW q \in Queue, Moved(q)
  PROVE  Served(q)
<1> SUFFICES ASSUME NEW t \in Thread, NEW u \in Thread,
                    queue[q] # SIGNALED, t \in Range(queue[q])
             PROVE  /\ queue'[q] # SIGNALED /\ Before(queue'[q], u, t)
                         => Before(queue[q], u, t) \/ prio[u] < prio[t]
                    /\ Before(queue[q], t, u) /\ t \in Waiters(q)' /\ u \notin Waiters(q)'
                         => timer'[u] = SIGNALED
  BY DEF Served
<1> PICK s : s = queue[q]
  OBVIOUS
<1>1. /\ s \in Seq(Thread) /\ NoDuplicates(s) /\ prio \in [Thread -> Nat]
      /\ InPrioOrder(s, prio)
  BY Facts DEF Order, ListsInOrder
<1>2. Before(s, t, u) => u \in Range(s) /\ u # Head(s)
  <2> SUFFICES ASSUME Before(s, t, u) PROVE u \in Range(s) /\ u # Head(s)
    OBVIOUS
  <2>1. DOMAIN s = 1 .. Len(s) /\ Len(s) \in Nat
    BY <1>1, LenProperties
  <2>2. PICK i \in 1 .. Len(s), j \in 1 .. Len(s) : i < j /\ s[i] = t /\ s[j] = u
    BY <2>1 DEF Before
  <2>3. s # <<>>
    BY <2>2, <1>1, InRange, MemberIsNotEmpty
  <2>4. Head(s) = s[1] /\ 1 \in DOMAIN s
    BY <1>1, <2>1, <2>2, <2>3, HeadInRange
  <2>5. j # 1
    BY <2>1, <2>2
  <2>6. \A a, b \in DOMAIN s : s[a] = s[b] => a = b
    BY <1>1 DEF NoDuplicates
  <2>7. s[j] # s[1]
    BY <2>1, <2>2, <2>4, <2>5, <2>6
  <2> QED
    BY <1>1, <2>2, <2>4, <2>7, InRange
<1>3. Waiters(q)' = IF queue'[q] = SIGNALED THEN {} ELSE Range(queue'[q])
  BY DEF Waiters
<1>4. CASE queue'[q] = queue[q]
  BY <1>2, <1>3, <1>4
<1>5. CASE queue[q] \in {SIGNALED, <<>>}
  BY <1>1, <1>5, MemberIsNotEmpty
<1>6. ASSUME NEW x \in Thread, x \notin Range(s), queue'[q] = PrioInsert(s, x, prio)
      PROVE  /\ Before(queue'[q], u, t) => Before(s, u, t) \/ prio[u] < prio[t]
             /\ u \in Range(s) => u \in Range(queue'[q])
  BY <1>1, <1>6, BeforeInserted, PrioInsertRange
<1>7. ASSUME NEW x \in Range(s), queue'[q] \in {SIGNALED, RemoveFirst(s, x)},
             x = Head(s) \/ timer'[x] = SIGNALED
      PROVE  /\ queue'[q] # SIGNALED /\ Before(queue'[q], u, t)
                  => Before(queue[q], u, t) \/ prio[u] < prio[t]
             /\ Before(queue[q], t, u) /\ t \in Waiters(q)' /\ u \notin Waiters(q)'
                  => timer'[u] = SIGNALED
  <2>1. Before(RemoveFirst(s, x), u, t) => Before(s, u, t)
    BY <1>1, BeforeRemoved
  <2>2. Range(RemoveFirst(s, x)) = Range(s) \ {x}
    BY <1>1, RemoveFirstProps
  <2> QED
    BY <1>2, <1>3, <1>7, <2>1, <2>2
<1> QED
  BY <1>2, <1>3, <1>4, <1>5, <1>6, <1>7 DEF Moved

\* Steps that leave the event queues alone, or touch one where nobody waits.
LEMMA OthersMove ==
  ASSUME IInv, NEW q \in Queue,
         \/ queue' = queue
         \/ ConsumeEvent \/ SignalStore \/ BlockFirst
         \/ \E k \in Queue : SignalFromISR(k) \/ \E w \in BOOLEAN : EventWaitNext(k, w)
  PROVE  Moved(q)
<1>1. queue \in [Queue -> {SIGNALED} \cup Seq(Thread)]
  BY DEF IInv, TypeOK
<1>2. queue'[q] = queue[q] \/ queue[q] \in {SIGNALED, <<>>}
  <2>1. CASE ConsumeEvent \/ SignalStore \/ BlockFirst
    BY <1>1, <2>1 DEF IInv, Located, ConsumeEvent, SignalStore, BlockFirst
  <2>2. CASE \E k \in Queue : SignalFromISR(k) \/ \E w \in BOOLEAN : EventWaitNext(k, w)
    BY <1>1, <2>2 DEF SignalFromISR, EventWaitNext
  <2> QED
    BY <2>1, <2>2
<1> QED
  BY <1>2 DEF Moved

LEMMA WaiterMoves ==
  ASSUME IInv, NEW q \in Queue, LinkWaiter
  PROVE  Moved(q)
<1>1. /\ queue \in [Queue -> {SIGNALED} \cup Seq(Thread)] /\ cur \in Thread
      /\ wq \in Queue /\ queue[wq] # SIGNALED /\ pc = "link"
      /\ queue' = [queue EXCEPT ![wq] = PrioInsert(@, cur, prio)]
  BY DEF IInv, TypeOK, Located, LinkWaiter
<1>2. cur \notin Range(queue[wq])
  BY <1>1 DEF IInv, OneList, Waiters
<1> QED
  BY <1>1, <1>2 DEF Moved

\* An event or a time-out takes x out of q: the queue is left as it was, with an
\* event when x was alone.
LEMMA ReleasedOne ==
  ASSUME IInv, NEW q \in Queue, queue[q] # SIGNALED, NEW x \in Range(queue[q])
  PROVE  /\ Released(queue[q], x, ec) \in {SIGNALED, RemoveFirst(queue[q], x)}
         /\ Released(queue[q], x, ec) = SIGNALED => Range(queue[q]) = {x}
<1> PICK s : s = queue[q]
  OBVIOUS
<1>1. /\ s \in Seq(Thread) /\ NoDuplicates(s) /\ ec \in [Thread -> 0 .. EcMax]
      /\ \A u \in Range(s) : ec[u] > 0 => u = Head(s)
  BY Facts DEF IInv, TypeOK
<1>2. NULL \notin Thread /\ SIGNALED \notin Seq(Thread) /\ EcMax \in Nat
  BY Constants
<1>3. Released(s, x, ec) = SIGNALED => Range(s) = {x}
  BY <1>1, <1>2, WaiterReleased
<1> QED
  BY <1>3 DEF Released

LEMMA ReleasedMoves ==
  ASSUME IInv, NEW q \in Queue, SignalPop \/ \E t \in Thread : EventTMO(t)
  PROVE  Moved(q)
<1>1. PICK k \in Queue, x \in Thread :
        /\ queue[k] # SIGNALED /\ x \in Range(queue[k])
        /\ queue' = [queue EXCEPT ![k] = Released(@, x, ec)]
        /\ x = Head(queue[k]) \/ timer'[x] = SIGNALED
  <2>1. CASE SignalPop
    <3>1. wq \in Queue /\ queue[wq] # SIGNALED /\ queue[wq] # <<>>
      BY <2>1 DEF IInv, Located, SignalPop
    <3>2. queue[wq] \in Seq(Thread)
      BY <3>1, Facts
    <3>3. Head(queue[wq]) \in Thread /\ Head(queue[wq]) \in Range(queue[wq])
      BY <3>1, <3>2, HeadTailProperties, HeadInRange
    <3> QED
      BY <2>1, <3>1, <3>3 DEF SignalPop
  <2>2. ASSUME NEW t \in Thread, EventTMO(t)
        PROVE  \E k \in Queue, x \in Thread :
                 /\ queue[k] # SIGNALED /\ x \in Range(queue[k])
                 /\ queue' = [queue EXCEPT ![k] = Released(@, x, ec)]
                 /\ x = Head(queue[k]) \/ timer'[x] = SIGNALED
    <3>1. /\ timer[t] \in Queue /\ queue[timer[t]] # SIGNALED
          /\ Contains(queue[timer[t]], t)
          /\ queue' = [queue EXCEPT ![timer[t]] = Released(@, t, ec)]
          /\ timer' = [timer EXCEPT ![t] = SIGNALED]
      BY <2>2 DEF EventTMO
    <3>2. timer \in [Thread -> Queue \cup {SLEEP, SIGNALED, NULL}]
      BY DEF IInv, TypeOK
    <3>3. queue[timer[t]] \in Seq(Thread)
      BY <3>1, Facts
    <3>4. t \in Range(queue[timer[t]])
      BY <3>1, <3>3, InRange DEF Contains
    <3> QED
      BY <3>1, <3>2, <3>4
  <2> QED
    BY <2>1, <2>2
<1>2. queue \in [Queue -> {SIGNALED} \cup Seq(Thread)]
  BY DEF IInv, TypeOK
<1>3. CASE q = k
  <2>1. queue'[q] = Released(queue[q], x, ec)
    BY <1>1, <1>2, <1>3
  <2> QED
    BY <1>1, <1>3, <2>1, ReleasedOne DEF Moved
<1>4. CASE q # k
  BY <1>1, <1>2, <1>4 DEF Moved
<1> QED
  BY <1>3, <1>4

LEMMA NextServes ==
  ASSUME IInv, Order, [Next]_vars, NEW q \in Queue
  PROVE  Served(q)
<1>1. CASE AppCall
  <2>1. queue' = queue \/ \E k \in Queue, w \in BOOLEAN : EventWaitNext(k, w)
    BY <1>1 DEF AppCall, EventWait, EventSignal, ThreadNotify, ThreadSetPrio, ThreadCreate,
       CallYield, ThreadSleep, ThreadWait
  <2> QED
    BY <2>1, OthersMove, MovedIsServed
<1>2. CASE KernelStep
  <2>1. \/ queue' = queue
        \/ ConsumeEvent \/ SignalStore \/ BlockFirst \/ LinkWaiter \/ SignalPop
    BY <1>2 DEF KernelStep, WaitRead, BlockBehind, SignalRead, ThreadYield, ScanThread,
       PostEvent, SwitchTask, CallReturn
  <2> QED
    BY <2>1, OthersMove, WaiterMoves, ReleasedMoves, MovedIsServed
<1>3. CASE TimerElapses
  <2>1. queue' = queue \/ \E t \in Thread : EventTMO(t)
    BY <1>3 DEF TimerElapses, ThreadTimeout
  <2> QED
    BY <2>1, OthersMove, ReleasedMoves, MovedIsServed
<1>4. CASE Interrupt
  BY <1>4, Constants, OthersMove, MovedIsServed DEF Interrupt
<1>5. CASE UNCHANGED vars
  <2>1. queue' = queue
    BY <1>5 DEF vars
  <2> QED
    BY <2>1, OthersMove, MovedIsServed
<1> QED
  BY <1>1, <1>2, <1>3, <1>4, <1>5 DEF Next

\* A thread never overtakes an equally important one in an event queue, and
\* leaves before those in front of it only when its wait times out, whatever the
\* other threads, the timers and the interrupt handlers do in between.
THEOREM KernelFirstComeFirstServed ==
  ASSUME NotifySleepers = FALSE
  PROVE  Spec => FirstComeFirstServed
<1>1. ASSUME IInv, Order, [Next]_vars
      PROVE  [\A q \in Queue : \A t, u \in Thread :
                queue[q] # SIGNALED /\ t \in Range(queue[q]) =>
                  /\ queue'[q] # SIGNALED /\ Before(queue'[q], u, t)
                       => Before(queue[q], u, t) \/ prio[u] < prio[t]
                  /\ Before(queue[q], t, u) /\ t \in Waiters(q)' /\ u \notin Waiters(q)'
                       => timer'[u] = SIGNALED]_vars
  <2>1. \A q \in Queue : Served(q)
    BY <1>1, NextServes
  <2> QED
    BY <2>1 DEF Served
<1> QED
  BY <1>1, OrderInvariant, PTL DEF FirstComeFirstServed, Spec

-----------------------------------------------------------------------------
(***************************************************************************)
(* The kernel implements the abstract event queues, for any number of      *)
(* threads and event queues: every step of Kernel is a step of EventSpec   *)
(* on the waiting threads, the pending events and the failed waits, or     *)
(* leaves them alone.                                                      *)
(*                                                                         *)
(* The abstract specification counts events with the natural numbers and   *)
(* the code with an unsigned char, so the theorems assume that no count    *)
(* reaches the limit (CountsFit).  Then a count that BermudaSchedulerExec  *)
(* has seen is still there when it takes an event off (Counted).           *)
(***************************************************************************)

(***************************************************************************)
(* The operators of ThreadQueue, as EventSpec uses them.                   *)
(***************************************************************************)

LEMMA SameMin ==
  ASSUME NEW S
  PROVE  Abstract!Min(S) = Min(S)
BY DEF Abstract!Min, Min

LEMMA SamePrioInsert ==
  ASSUME NEW s, NEW t, NEW p
  PROVE  Abstract!PrioInsert(s, t, p) = PrioInsert(s, t, p)
BY SameMin DEF Abstract!PrioInsert, Abstract!PrioPlace, Abstract!InsertAt,
   PrioInsert, PrioPlace, InsertAt

LEMMA SameRemoveFirst ==
  ASSUME NEW s, NEW t
  PROVE  Abstract!RemoveFirst(s, t) = RemoveFirst(s, t)
BY DEF Abstract!RemoveFirst, Abstract!RemoveAt, Abstract!SelectInSeq, Abstract!Min,
   RemoveFirst, RemoveAt, SelectInSeq, Min

LEMMA SameContains ==
  ASSUME NEW s, NEW t
  PROVE  Abstract!Contains(s, t) = Contains(s, t)
BY DEF Abstract!Contains, Contains

\* At most one event is left behind.
LEMMA AtMostOne ==
  ASSUME NEW n \in Nat
  PROVE  Abstract!Min({n, 1}) = IF n = 0 THEN 0 ELSE 1
<1>1. {n, 1} \in SUBSET Nat /\ {n, 1} # {}
  OBVIOUS
<1>2. Min({n, 1}) \in {n, 1} /\ \A k \in {n, 1} : Min({n, 1}) <= k
  BY <1>1, LeastOf
<1> QED
  BY <1>2, SameMin
-----------------------------------------------------------------------------
(***************************************************************************)
(* How a list and the events at its head change together.                  *)
(***************************************************************************)

\* The events of the event queue l, those in flight left out.
Count(l, e) == IF l = SIGNALED THEN 1 ELSE IF l = <<>> THEN 0 ELSE e[Head(l)]

\* A thread that enters a list takes over the events of the head when it
\* becomes the head itself.
Entered(T, l, x, p, e) ==
  LET n == PrioInsert(l, x, p)
      f == TakeOver(e, x, Successor(n, x))
  IN  /\ n \in Seq(T) /\ n # <<>>
      /\ Count(n, f) = Count(l, e)
      /\ \A u \in T : u \in Range(l) \/ u = x \/ f[u] = e[u]

LEMMA CountWhenAdded ==
  ASSUME NEW T, NULL \notin T, SIGNALED \notin Seq(T),
         NEW l \in Seq(T), l # <<>>, NoDuplicates(l), NEW x \in T, x \notin Range(l),
         NEW p \in [T -> Nat], NEW e \in [T -> Nat]
  PROVE  Entered(T, l, x, p, e)
<1> DEFINE n == PrioInsert(l, x, p)
           k == PrioPlace(l, x, p)
           b == Successor(n, x)
           f == TakeOver(e, x, b)
<1>1. /\ n \in Seq(T)
      /\ Len(n) = Len(l) + 1
      /\ k \in 1 .. Len(l) + 1
      /\ \A j \in 1 .. Len(l) + 1 : j < k => j \in 1 .. Len(l) /\ n[j] = l[j]
      /\ n[k] = x
      /\ \A j \in 1 .. Len(l) + 1 : j > k => j - 1 \in 1 .. Len(l) /\ n[j] = l[j - 1]
      /\ Len(l) \in Nat
  BY PrioInsertParts
<1>2. NoDuplicates(n)
  BY PrioInsertOnce
<1>3. b = IF k < Len(n) THEN n[k + 1] ELSE NULL
  BY <1>1, <1>2, SuccessorProps
<1>4. n # <<>> /\ Head(n) = n[1] /\ Head(l) = l[1] /\ Len(l) >= 1 /\ Head(l) \in Range(l)
  BY <1>1, HeadInRange, PrioInsertHead
<1>5. f = [u \in T |-> IF u = x THEN IF b = NULL THEN 0 ELSE e[b]
                       ELSE IF u = b THEN 0 ELSE e[u]]
  BY DEF TakeOver
<1>6. b = NULL \/ \E j \in 1 .. Len(l) : b = l[j] /\ (k = 1 => j = 1) /\ (k # 1 => j # 1)
  <2>1. CASE k < Len(n)
    <3>0. k \in Nat /\ k >= 1 /\ k < Len(l) + 1 /\ Len(l) \in Nat
      BY <1>1, <2>1
    <3>1. k + 1 \in 1 .. Len(l) + 1 /\ k + 1 > k /\ (k + 1) - 1 = k
      BY <3>0
    <3>2. k \in 1 .. Len(l) /\ n[k + 1] = l[k]
      BY <1>1, <3>1
    <3> QED
      BY <1>3, <2>1, <3>2
  <2> QED
    BY <1>3, <2>1
<1>7. \A j \in 1 .. Len(l) : l[j] \in Range(l) /\ l[j] \in T
  BY InRange
<1>8. \A i, j \in 1 .. Len(l) : l[i] = l[j] => i = j
  BY LenProperties DEF NoDuplicates
<1> HIDE DEF n, k, b, f
<1>9. n # SIGNALED /\ l # SIGNALED
  BY <1>1
<1>10. f[Head(n)] = e[Head(l)]
  <2>1. CASE k = 1
    <3>1. k < Len(n)
      BY <1>1, <1>4, <2>1
    <3>2. 2 \in 1 .. Len(l) + 1 /\ 2 > k /\ 2 - 1 = 1 /\ k + 1 = 2
      BY <1>1, <1>4, <2>1
    <3>3. b = l[1]
      BY <1>1, <1>3, <3>1, <3>2
    <3>4. b \in T
      BY <1>4, <1>7, <3>3, <1>1
    <3> QED
      BY <1>1, <1>4, <1>5, <2>1, <3>3, <3>4
  <2>2. CASE k # 1
    <3>1. 1 \in 1 .. Len(l) + 1 /\ 1 < k
      BY <1>1, <2>2
    <3>2. n[1] = l[1] /\ 1 \in 1 .. Len(l)
      BY <1>1, <3>1
    <3>3. l[1] # b /\ l[1] # x /\ l[1] \in T
      BY <1>6, <1>7, <1>8, <2>2, <3>2
    <3> QED
      BY <1>4, <1>5, <3>2, <3>3
  <2> QED
    BY <2>1, <2>2
<1>11. \A u \in T : u \in Range(l) \/ u = x \/ f[u] = e[u]
  BY <1>5, <1>6, <1>7
<1> QED
  BY <1>1, <1>4, <1>9, <1>10, <1>11 DEF n, b, f, Count, Entered

\* A thread that leaves a list leaves the events behind: with its successor, or,
\* when there is none, as one stored event.
Departed(T, l, x, e) ==
  LET r == Released(l, x, e)
      f == PassOn(e, x, Successor(l, x))
  IN  /\ RemoveFirst(l, x) = IF r = SIGNALED THEN <<>> ELSE r
      /\ Count(r, f) = IF Len(l) = 1 THEN IF e[Head(l)] = 0 THEN 0 ELSE 1
                       ELSE e[Head(l)]
      /\ \A u \in T \ Range(l) : f[u] = e[u]
      /\ x = Head(l) => RemoveFirst(l, x) = Tail(l)

LEMMA CountWhenReleased ==
  ASSUME NEW T, NULL \notin T, SIGNALED \notin Seq(T),
         NEW l \in Seq(T), NoDuplicates(l), NEW x \in Range(l), NEW e \in [T -> Nat],
         \A u \in Range(l) : e[u] > 0 => u = Head(l)
  PROVE  Departed(T, l, x, e)
<1> DEFINE r == Released(l, x, e)
           d == RemoveFirst(l, x)
           b == Successor(l, x)
           f == PassOn(e, x, b)
<1>1. PICK i \in 1 .. Len(l) : l[i] = x /\ d = RemoveAt(l, i)
  BY RemoveFirstPlace
<1>2. /\ d \in Seq(T) /\ Len(d) = Len(l) - 1
      /\ \A j \in 1 .. Len(l) - 1 : d[j] = IF j < i THEN l[j] ELSE l[j + 1]
  <2>1. /\ RemoveAt(l, i) \in Seq(T)
        /\ Len(RemoveAt(l, i)) = Len(l) - 1
        /\ \A j \in 1 .. Len(l) - 1 :
             RemoveAt(l, i)[j] = IF j < i THEN l[j] ELSE l[j + 1]
    BY RemoveAtProps
  <2> HIDE DEF d
  <2> QED
    BY <1>1, <2>1
<1>3. b = IF i < Len(l) THEN l[i + 1] ELSE NULL
  BY <1>1, SuccessorProps
<1>4. l # <<>> /\ Len(l) \in Nat /\ Len(l) >= 1 /\ Head(l) = l[1] /\ 1 \in 1 .. Len(l)
  BY <1>1, LenProperties, MemberIsNotEmpty, HeadInRange
<1>5. \A j \in 1 .. Len(l) : l[j] \in Range(l) /\ l[j] \in T
  BY InRange
<1>6. \A j, k \in 1 .. Len(l) : l[k] = l[j] => k = j
  BY LenProperties DEF NoDuplicates
<1>7. f = [u \in T |-> IF u = x THEN 0
                       ELSE IF u = b /\ e[x] > 0 THEN e[x] ELSE e[u]]
  BY DEF PassOn
<1>8. r = IF e[x] > 0 /\ b = NULL THEN SIGNALED ELSE d
  BY DEF Released
<1>9. x \in T /\ e[x] \in Nat /\ e[l[1]] \in Nat
  BY <1>1, <1>4, <1>5
<1>10. b = NULL \/ b \in Range(l)
  <2>1. i < Len(l) => i + 1 \in 1 .. Len(l)
    BY <1>1, <1>4
  <2> QED
    BY <1>3, <1>5, <2>1
<1> HIDE DEF r, d, b, f
<1>11. \A u \in T \ Range(l) : f[u] = e[u]
  BY <1>7, <1>10
<1>12. CASE Len(l) = 1
  <2>1. i = 1 /\ b = NULL /\ d = <<>>
    BY <1>1, <1>2, <1>3, <1>12, EmptySeq
  <2>2. x = Head(l)
    BY <1>1, <1>4, <2>1
  <2>3. Tail(l) = <<>>
    <3>1. Tail(l) \in Seq(T) /\ Len(Tail(l)) = 0
      BY <1>4, <1>12, HeadTailProperties
    <3> QED
      BY <3>1, EmptySeq
  <2>4. <<>> # SIGNALED
    BY EmptySeq
  <2>5. Count(r, f) = IF e[Head(l)] = 0 THEN 0 ELSE 1
    BY <1>8, <1>9, <2>1, <2>2, <2>4 DEF Count
  <2> QED
    BY <1>8, <1>11, <1>12, <2>1, <2>2, <2>3, <2>4, <2>5 DEF r, d, b, f, Departed
<1>13. CASE Len(l) # 1
  <2>1. Len(d) >= 1 /\ 2 \in 1 .. Len(l) /\ 1 \in 1 .. Len(l) - 1 /\ 1 < Len(l)
    BY <1>2, <1>4, <1>13
  <2>2. d # <<>> /\ d # SIGNALED
    BY <1>2, <2>1, EmptySeq
  <2>3. Head(d) = d[1]
    BY <1>2, <2>2, HeadInRange
  <2>4. r = d
    <3>1. CASE i = 1
      <4>1. b = l[2]
        <5>1. i < Len(l) /\ l[i + 1] = l[2]
          BY <2>1, <3>1
        <5> QED
          BY <1>3, <5>1
      <4> QED
        BY <1>5, <1>8, <2>1, <4>1
    <3>2. CASE i # 1
      <4>1. x # Head(l)
        BY <1>1, <1>4, <1>6, <3>2
      <4> QED
        BY <1>8, <1>9, <4>1
    <3> QED
      BY <3>1, <3>2
  <2>5. f[Head(d)] = e[Head(l)]
    <3>1. CASE i = 1
      <4>1. d[1] = l[2] /\ b = l[2]
        BY <1>2, <1>3, <1>4, <1>13, <2>1, <3>1
      <4>2. l[2] # x /\ l[2] # Head(l) /\ l[2] \in T
        BY <1>1, <1>4, <1>5, <1>6, <2>1, <3>1
      <4>3. e[l[2]] = 0
        BY <1>5, <2>1, <4>2
      <4> QED
        BY <1>1, <1>4, <1>7, <1>9, <2>3, <3>1, <4>1, <4>2, <4>3
    <3>2. CASE i # 1
      <4>1. d[1] = l[1]
        BY <1>1, <1>2, <2>1, <3>2
      <4>2. x # l[1] /\ l[1] \in T
        BY <1>1, <1>4, <1>5, <1>6, <3>2
      <4>3. ~ (e[x] > 0)
        BY <1>4, <4>2
      <4> QED
        BY <1>4, <1>7, <2>3, <4>1, <4>2, <4>3
    <3> QED
      BY <3>1, <3>2
  <2>6. x = Head(l) => d = Tail(l)
    <3> SUFFICES ASSUME x = Head(l) PROVE d = Tail(l)
      OBVIOUS
    <3>1. i = 1
      BY <1>1, <1>4, <1>6
    <3>2. /\ Tail(l) \in Seq(T) /\ Len(Tail(l)) = Len(l) - 1
          /\ \A j \in 1 .. Len(Tail(l)) : Tail(l)[j] = l[j + 1]
      BY <1>4, HeadTailProperties
    <3>3. \A j \in 1 .. Len(d) : d[j] = Tail(l)[j]
      <4> TAKE j \in 1 .. Len(d)
      <4>1. j \in 1 .. Len(l) - 1 /\ ~ (j < 1)
        BY <1>2, <1>4
      <4> QED
        BY <1>2, <3>1, <3>2, <4>1
    <3> QED
      BY <1>2, <3>2, <3>3, SeqEqual
  <2>7. Count(r, f) = e[Head(l)]
    BY <2>2, <2>4, <2>5 DEF Count
  <2> QED
    BY <1>11, <1>13, <2>2, <2>4, <2>6, <2>7 DEF r, d, b, f, Departed
<1> QED
  BY <1>12, <1>13
-----------------------------------------------------------------------------
(***************************************************************************)
(* The state of EventSpec that a state of Kernel stands for, one queue at  *)
(* a time.                                                                 *)
(***************************************************************************)

WaitersOf(q) == IF queue[q] = SIGNALED THEN <<>> ELSE queue[q]

PendOf(q) ==
  IF queue[q] = SIGNALED THEN 1
  ELSE IF queue[q] = <<>> THEN 0
  ELSE ec[Head(queue[q])] + (IF InFlight(q) THEN 1 ELSE 0)

\* A count that BermudaSchedulerExec has seen is still there when it takes an
\* event off.
Counted == pc = "post" => ec[threads[scan]] > 0

\* No count is at the limit of its unsigned char.
CountsFit == \A t \in Thread : ec[t] < EcMax

LEMMA Lists ==
  ASSUME IInv, NEW q \in Queue, queue[q] \notin {SIGNALED, <<>>}
  PROVE  /\ queue[q] \in Seq(Thread) /\ NoDuplicates(queue[q])
         /\ Waiters(q) = Range(queue[q])
         /\ Head(queue[q]) \in Waiters(q) /\ Head(queue[q]) \in Thread
         /\ ec \in [Thread -> Nat]
         /\ \A u \in Range(queue[q]) : ec[u] > 0 => u = Head(queue[q])
<1>1. /\ queue[q] \in Seq(Thread) /\ NoDuplicates(queue[q])
      /\ Range(queue[q]) \subseteq Thread /\ ec \in [Thread -> Nat]
      /\ \A u \in Range(queue[q]) : ec[u] > 0 => u = Head(queue[q])
  BY Facts
<1>2. Head(queue[q]) \in Range(queue[q])
  BY <1>1, HeadInRange
<1> QED
  BY <1>1, <1>2 DEF Waiters

LEMMA Whereabouts ==
  ASSUME IInv, NEW q \in Queue, NEW u \in Waiters(q)
  PROVE  /\ u \in Thread /\ onq[u] = q /\ u \notin Range(runq) /\ onq[u] # RUNQ
         /\ onq[u] # NULL /\ queue[q] \notin {SIGNALED, <<>>}
<1>1. /\ queue[q] # SIGNALED /\ queue[q] \in Seq(Thread) /\ u \in Range(queue[q])
      /\ u \in Thread /\ onq[u] = q /\ u \notin Range(runq)
  BY Facts DEF Waiters
<1>2. queue[q] # <<>>
  BY <1>1, MemberIsNotEmpty
<1> QED
  BY <1>1, <1>2, Constants

LEMMA WaitersCount ==
  ASSUME NEW q \in Queue, queue[q] \notin {SIGNALED, <<>>}
  PROVE  PendOf(q) = ec[Head(queue[q])] + (IF InFlight(q) THEN 1 ELSE 0)
BY DEF PendOf

\* A queue that a step leaves alone.
LEMMA SameQueue ==
  ASSUME IInv, NEW q \in Queue, queue'[q] = queue[q],
         \A u \in Waiters(q) : ec'[u] = ec[u],
         queue[q] \notin {SIGNALED, <<>>} => (InFlight(q)' <=> InFlight(q))
  PROVE  WaitersOf(q)' = WaitersOf(q) /\ PendOf(q)' = PendOf(q)
<1>1. WaitersOf(q)' = WaitersOf(q)
  BY DEF WaitersOf
<1>2. CASE queue[q] \in {SIGNALED, <<>>}
  BY <1>1, <1>2 DEF PendOf
<1>3. CASE queue[q] \notin {SIGNALED, <<>>}
  <2>1. ec'[Head(queue[q])] = ec[Head(queue[q])]
    BY <1>3, Lists
  <2>2. (IF InFlight(q)' THEN 1 ELSE 0) = (IF InFlight(q) THEN 1 ELSE 0)
    BY <1>3
  <2> QED
    BY <1>1, <1>3, <2>1, <2>2 DEF PendOf
<1> QED
  BY <1>2, <1>3

\* A step that changes the queue q.
LEMMA QueueChanges ==
  ASSUME NEW q \in Queue,
         \A r \in Queue \ {q} : WaitersOf(r)' = WaitersOf(r) /\ PendOf(r)' = PendOf(r)
  PROVE  /\ AbstractWaiters' = [AbstractWaiters EXCEPT ![q] = WaitersOf(q)']
         /\ AbstractPend' = [AbstractPend EXCEPT ![q] = PendOf(q)']
         /\ AbstractWaiters[q] = WaitersOf(q) /\ AbstractPend[q] = PendOf(q)
<1>1. /\ AbstractWaiters = [r \in Queue |-> WaitersOf(r)]
      /\ AbstractPend = [r \in Queue |-> PendOf(r)]
      /\ AbstractWaiters' = [r \in Queue |-> WaitersOf(r)']
      /\ AbstractPend' = [r \in Queue |-> PendOf(r)']
  BY DEF AbstractWaiters, AbstractPend, WaitersOf, PendOf
<1> HIDE DEF WaitersOf, PendOf
<1> QED
  BY <1>1

\* A step that leaves the queues, the events and the time-outs alone.
LEMMA NothingChanges ==
  ASSUME IInv, queue' = queue, prio' = prio,
         \A q \in Queue : \A u \in Waiters(q) : ec'[u] = ec[u],
         \A q \in Queue :
           queue[q] \notin {SIGNALED, <<>>} => (InFlight(q)' <=> InFlight(q)),
         \A t \in Thread : timer'[t] = SIGNALED <=> timer[t] = SIGNALED
  PROVE  UNCHANGED Abstract!esvars
<1>1. \A r \in Queue : WaitersOf(r)' = WaitersOf(r) /\ PendOf(r)' = PendOf(r)
  BY SameQueue
<1>2. /\ AbstractWaiters = [r \in Queue |-> WaitersOf(r)]
      /\ AbstractPend = [r \in Queue |-> PendOf(r)]
      /\ AbstractWaiters' = [r \in Queue |-> WaitersOf(r)']
      /\ AbstractPend' = [r \in Queue |-> PendOf(r)']
  BY DEF AbstractWaiters, AbstractPend, WaitersOf, PendOf
<1>3. AbstractFailed' = AbstractFailed
  BY DEF AbstractFailed
<1> HIDE DEF WaitersOf, PendOf
<1> QED
  BY <1>1, <1>2, <1>3 DEF Abstract!esvars
-----------------------------------------------------------------------------
(***************************************************************************)
(* Steps that EventSpec does not see.                                      *)
(***************************************************************************)

\* The running thread looks at a queue, or changes the run queue only.
LEMMA CallCounts ==
  ASSUME IInv,
         \/ CallYield \/ WaitRead \/ BlockBehind \/ SignalRead \/ ThreadYield
         \/ ScanThread \/ SwitchTask \/ UNCHANGED vars
         \/ \E q \in Queue : EventSignal(q) \/ \E w \in BOOLEAN : EventWait(q, w)
  PROVE  ec' = ec
<1>1. CASE ThreadYield
  <2>1. pc = "yield" /\ (Successor(runq, cur) # NULL \/ ec' = ec)
    BY <1>1 DEF ThreadYield
  <2>2. CASE Successor(runq, cur) # NULL
    <3>1. cur \in Range(runq)
      BY <2>2, Facts, SuccessorInList
    <3>2. prio \in [Thread -> Nat]
      BY Facts
    <3>3. AddedEc(Removed(runq, cur), cur, prio, RemovedEc(runq, cur, ec)) = ec
      BY <3>1, <3>2, RequeueCurrent
    <3> QED
      BY <1>1, <3>3 DEF ThreadYield
  <2> QED
    BY <2>1, <2>2
<1>2. CASE BlockBehind
  <2>1. cur \in Range(runq)
    BY <1>2 DEF BlockBehind, IInv, Running
  <2> QED
    BY <1>2, <2>1, QuitRunQueue DEF BlockBehind, LeaveRunQueue
<1> QED
  BY <1>1, <1>2 DEF CallYield, WaitRead, SignalRead, ScanThread, SwitchTask, EventSignal,
     EventWait, vars

LEMMA UnseenCalls ==
  ASSUME IInv,
         \/ CallYield \/ WaitRead \/ BlockBehind \/ SignalRead \/ ThreadYield
         \/ ScanThread \/ SwitchTask \/ UNCHANGED vars
         \/ \E q \in Queue : EventSignal(q) \/ \E w \in BOOLEAN : EventWait(q, w)
  PROVE  UNCHANGED Abstract!esvars
<1>1. queue' = queue /\ prio' = prio /\ timer' = timer
  BY DEF CallYield, WaitRead, BlockBehind, SignalRead, ThreadYield, ScanThread, SwitchTask,
     EventSignal, EventWait, threadVars, vars
<1>2. ec' = ec
  BY CallCounts
<1>3. \A q \in Queue : queue[q] \notin {SIGNALED, <<>>} => (InFlight(q)' <=> InFlight(q))
  <2> TAKE q \in Queue
  <2>1. CASE SignalRead
    BY <2>1 DEF SignalRead, CheckWaiters, SignalReturns, InFlight, callVars
  <2>2. CASE \E k \in Queue : EventSignal(k) \/ \E w \in BOOLEAN : EventWait(k, w)
    BY <2>2 DEF EventSignal, EventWait, CheckEvent, InApp, InFlight
  <2>3. CASE WaitRead
    BY <2>3 DEF WaitRead, CheckEvent, InFlight
  <2>4. CASE CallYield \/ BlockBehind \/ ThreadYield \/ ScanThread
    BY <2>4 DEF CallYield, BlockBehind, ThreadYield, SchedulerExec, ScanThread, InFlight
  <2>5. CASE SwitchTask
    BY <2>5 DEF SwitchTask, InFlight
  <2>6. CASE UNCHANGED vars
    BY <2>6 DEF vars, InFlight
  <2> QED
    BY <2>1, <2>2, <2>3, <2>4, <2>5, <2>6
<1> QED
  BY <1>1, <1>2, <1>3, NothingChanges

\* A thread starts or ends a sleep, or a wait for another thread.
LEMMA ThreadCounts ==
  ASSUME IInv, NotifySleepers = FALSE,
         \/ ThreadSleep \/ ThreadWait
         \/ \E t \in Thread : \/ ThreadCreate(t)
                              \/ Notifiable(t) /\ ThreadNotify(t)
                              \/ ThreadTimeout(t)
  PROVE  ec' = ec \/ \E t \in Thread : onq[t] = NULL /\ ec' = [ec EXCEPT ![t] = 0]
<1>1. ec \in [Thread -> Nat] /\ prio \in [Thread -> Nat] /\ \A u \in Range(runq) : ec[u] = 0
  BY Facts
<1>2. ec' = ec \/ \E t \in Thread : onq[t] = NULL /\ ec' = AddedEc(runq, t, prio, ec)
  <2>1. CASE ThreadSleep \/ ThreadWait
    <3>1. cur \in Range(runq)
      BY <2>1 DEF ThreadSleep, ThreadWait, InApp, IInv, Running
    <3> QED
      BY <2>1, <3>1, QuitRunQueue DEF ThreadSleep, ThreadWait, LeaveRunQueue
  <2>2. ASSUME NEW t \in Thread, ThreadCreate(t)
        PROVE  onq[t] = NULL /\ ec' = AddedEc(runq, t, prio, ec)
    BY <2>2 DEF ThreadCreate, IInv, Created
  <2>3. ASSUME NEW t \in Thread, Notifiable(t), ThreadNotify(t)
        PROVE  ec' = ec \/ (onq[t] = NULL /\ ec' = AddedEc(runq, t, prio, ec))
    BY <2>3 DEF Notifiable, ThreadNotify, IInv, OffLists
  <2>4. ASSUME NEW t \in Thread, ThreadTimeout(t)
        PROVE  onq[t] = NULL /\ ec' = AddedEc(runq, t, prio, ec)
    BY <2>4 DEF ThreadTimeout, IInv, OffLists
  <2> QED
    BY <2>1, <2>2, <2>3, <2>4
<1>3. ASSUME NEW t \in Thread, onq[t] = NULL, ec' = AddedEc(runq, t, prio, ec)
      PROVE  ec' = [ec EXCEPT ![t] = 0]
  <2>1. t \notin Range(runq)
    BY <1>3, Facts, Constants
  <2> QED
    BY <1>1, <1>3, <2>1, JoinRunQueue
<1> QED
  BY <1>2, <1>3

LEMMA UnseenThreads ==
  ASSUME IInv, Resume, NotifySleepers = FALSE,
         \/ ThreadSleep \/ ThreadWait
         \/ \E t \in Thread : \/ ThreadCreate(t)
                              \/ Notifiable(t) /\ ThreadNotify(t)
                              \/ ThreadTimeout(t)
  PROVE  UNCHANGED Abstract!esvars
<1>1. queue' = queue /\ prio' = prio /\ pc \in {"app", "timers"}
  BY DEF ThreadSleep, ThreadWait, ThreadCreate, ThreadNotify, ThreadTimeout, InApp
<1>2. pc' \in {"app", "yield", "scan", "timers"}
  BY DEF ThreadSleep, ThreadWait, ThreadCreate, ThreadNotify, ThreadTimeout, SchedulerExec,
     InApp
<1>3. timer \in [Thread -> Queue \cup {SLEEP, SIGNALED, NULL}] /\ cur \in Thread
  BY Timers
<1>4. \A u \in Thread : timer'[u] = SIGNALED <=> timer[u] = SIGNALED
  <2>1. CASE ThreadSleep
    <3>1. timer' = [timer EXCEPT ![cur] = SLEEP] /\ pc = "app"
      BY <2>1 DEF ThreadSleep, InApp
    <3>2. timer[cur] = NULL
      BY <3>1 DEF Resume, TimerGone
    <3> QED
      BY <1>3, <3>1, <3>2, Constants
  <2>2. ASSUME NEW t \in Thread, ThreadTimeout(t)
        PROVE  \A u \in Thread : timer'[u] = SIGNALED <=> timer[u] = SIGNALED
    <3>1. timer' = [timer EXCEPT ![t] = NULL] /\ timer[t] = SLEEP
      BY <2>2 DEF ThreadTimeout
    <3> QED
      BY <1>3, <3>1, Constants
  <2> QED
    BY <2>1, <2>2 DEF ThreadWait, ThreadCreate, ThreadNotify
<1>5. \A q \in Queue : \A u \in Waiters(q) : ec'[u] = ec[u]
  <2>1. ec' = ec \/ \E t \in Thread : onq[t] = NULL /\ ec' = [ec EXCEPT ![t] = 0]
    BY ThreadCounts
  <2>2. \A q \in Queue : \A u \in Waiters(q) : u \in Thread /\ onq[u] # NULL
    BY Whereabouts
  <2>3. ec \in [Thread -> Nat]
    BY Facts
  <2> QED
    BY <2>1, <2>2, <2>3
<1>6. \A q \in Queue : InFlight(q)' <=> InFlight(q)
  BY <1>1, <1>2 DEF InFlight
<1> QED
  BY <1>1, <1>4, <1>5, <1>6, NothingChanges

\* BermudaSchedulerExec takes an event off a count; it is in flight then.
LEMMA UnseenPost ==
  ASSUME IInv, Counted, PostEvent
  PROVE  UNCHANGED Abstract!esvars
<1>1. PICK t \in Thread, q \in Queue :
        t = threads[scan] /\ t \in Waiters(q) /\ t = Head(queue[q])
  <2>1. PICK q \in Queue : threads[scan] \in Waiters(q) /\ threads[scan] = Head(queue[q])
    BY DEF PostEvent, IInv, Located
  <2>2. threads[scan] \in Thread
    BY <2>1, Whereabouts
  <2> QED
    BY <2>1, <2>2
<1>2. onq[t] = q /\ queue[q] \notin {SIGNALED, <<>>}
  BY <1>1, Whereabouts
<1>3. /\ pc = "post" /\ ec' = [ec EXCEPT ![t] = OneFewer(@)]
      /\ wq' = q /\ up' = "scan" /\ pc' = "sigRead"
      /\ queue' = queue /\ prio' = prio /\ timer' = timer
  BY <1>1, <1>2 DEF PostEvent, threadVars
<1>4. ec[t] > 0 /\ ec \in [Thread -> Nat]
  BY <1>1, <1>3, Facts DEF Counted
<1>5. ec' = [ec EXCEPT ![t] = ec[t] - 1]
  <2>1. OneFewer(ec[t]) = ec[t] - 1
    BY <1>4 DEF OneFewer
  <2> QED
    BY <1>3, <2>1
<1>6. \A r \in Queue \ {q} : WaitersOf(r)' = WaitersOf(r) /\ PendOf(r)' = PendOf(r)
  <2> TAKE r \in Queue \ {q}
  <2>1. \A u \in Waiters(r) : ec'[u] = ec[u]
    BY <1>2, <1>4, <1>5, Whereabouts
  <2>2. ~ InFlight(r) /\ ~ InFlight(r)'
    BY <1>3 DEF InFlight
  <2> QED
    BY <1>3, <2>1, <2>2, SameQueue
<1>7. WaitersOf(q)' = WaitersOf(q)
  BY <1>3 DEF WaitersOf
<1>8. PendOf(q)' = PendOf(q)
  <2>1. PendOf(q) = ec[t] + 0
    BY <1>1, <1>2, <1>3 DEF PendOf, InFlight
  <2>2. PendOf(q)' = ec'[t] + 1
    BY <1>1, <1>2, <1>3 DEF PendOf, InFlight
  <2>3. ec'[t] = ec[t] - 1 /\ ec[t] \in Nat
    BY <1>4, <1>5
  <2> QED
    BY <1>4, <2>1, <2>2, <2>3
<1>9. /\ AbstractWaiters = [r \in Queue |-> WaitersOf(r)]
      /\ AbstractPend = [r \in Queue |-> PendOf(r)]
      /\ AbstractWaiters' = [r \in Queue |-> WaitersOf(r)']
      /\ AbstractPend' = [r \in Queue |-> PendOf(r)']
  BY DEF AbstractWaiters, AbstractPend, WaitersOf, PendOf
<1>10. AbstractFailed' = AbstractFailed
  BY <1>3 DEF AbstractFailed
<1> HIDE DEF WaitersOf, PendOf
<1> QED
  BY <1>3, <1>6, <1>7, <1>8, <1>9, <1>10 DEF Abstract!esvars
-----------------------------------------------------------------------------
(***************************************************************************)
(* Events that are stored, counted and taken.                              *)
(***************************************************************************)

LEMMA EmptyIsNoMarker == <<>> # SIGNALED
<1>1. <<>> \in Seq(Thread)
  BY EmptySeq
<1> QED
  BY <1>1, Constants

LEMMA SameFailed ==
  ASSUME \A t \in Thread : timer'[t] = SIGNALED <=> timer[t] = SIGNALED
  PROVE  AbstractFailed' = AbstractFailed
BY DEF AbstractFailed

\* A stored event is taken or dropped.
LEMMA Takes ==
  ASSUME IInv, NEW q \in Queue, queue[q] = SIGNALED,
         queue' = [queue EXCEPT ![q] = <<>>], ec' = ec, prio' = prio, timer' = timer,
         pc \notin {"sigRead", "sigPop"}, pc' \notin {"sigRead", "sigPop"}
  PROVE  Abstract!Take(q)
<1>1. queue \in [Queue -> {SIGNALED} \cup Seq(Thread)] /\ <<>> # SIGNALED
  BY EmptyIsNoMarker DEF IInv, TypeOK
<1>2. \A r \in Queue \ {q} : WaitersOf(r)' = WaitersOf(r) /\ PendOf(r)' = PendOf(r)
  BY <1>1, SameQueue DEF InFlight
<1>3. WaitersOf(q)' = <<>> /\ WaitersOf(q) = <<>> /\ PendOf(q) = 1 /\ PendOf(q)' = 0
  BY <1>1 DEF WaitersOf, PendOf
<1>4. /\ AbstractWaiters' = [AbstractWaiters EXCEPT ![q] = <<>>]
      /\ AbstractPend' = [AbstractPend EXCEPT ![q] = 0]
      /\ AbstractWaiters[q] = <<>> /\ AbstractPend[q] = 1
  BY <1>2, <1>3, QueueChanges
<1>5. AbstractWaiters' = AbstractWaiters
  BY <1>4 DEF AbstractWaiters
<1> QED
  BY <1>4, <1>5, SameFailed DEF Abstract!Take

LEMMA TakeSteps ==
  ASSUME IInv, ConsumeEvent \/ \E q \in Queue, w \in BOOLEAN : EventWaitNext(q, w)
  PROVE  UNCHANGED Abstract!esvars \/ \E q \in Queue : Abstract!Take(q)
<1>1. CASE ConsumeEvent
  <2>1. /\ wq \in Queue /\ queue[wq] = SIGNALED
        /\ queue' = [queue EXCEPT ![wq] = <<>>] /\ ec' = ec /\ prio' = prio /\ timer' = timer
        /\ pc \notin {"sigRead", "sigPop"} /\ pc' \notin {"sigRead", "sigPop"}
    BY <1>1 DEF ConsumeEvent, IInv, Located, threadVars
  <2> QED
    BY <2>1, Takes
<1>2. ASSUME NEW q \in Queue, NEW w \in BOOLEAN, EventWaitNext(q, w)
      PROVE  UNCHANGED Abstract!esvars \/ Abstract!Take(q)
  <2>1. /\ queue' = [queue EXCEPT ![q] = IF @ = SIGNALED THEN <<>> ELSE @]
        /\ ec' = ec /\ prio' = prio /\ timer' = timer
        /\ pc \notin {"sigRead", "sigPop"} /\ pc' \notin {"sigRead", "sigPop"}
    BY <1>2 DEF EventWaitNext, InApp, threadVars
  <2>2. CASE queue[q] = SIGNALED
    BY <2>1, <2>2, Takes
  <2>3. CASE queue[q] # SIGNALED
    <3>1. queue' = queue
      BY <2>1, <2>3 DEF IInv, TypeOK
    <3> QED
      BY <2>1, <3>1, NothingChanges DEF InFlight
  <2> QED
    BY <2>2, <2>3
<1> QED
  BY <1>1, <1>2

\* BermudaEventSignalRaw stores an event.
LEMMA StorePosts ==
  ASSUME IInv, SignalStore
  PROVE  Abstract!Post(wq)
<1>1. /\ wq \in Queue /\ queue[wq] \in {SIGNALED, <<>>}
      /\ queue' = [queue EXCEPT ![wq] = SIGNALED] /\ ec' = ec
      /\ prio' = prio /\ timer' = timer
      /\ pc \notin {"sigRead", "sigPop"} /\ pc' \notin {"sigRead", "sigPop"}
  BY DEF SignalStore, IInv, Located, SignalReturns, threadVars
<1>2. queue \in [Queue -> {SIGNALED} \cup Seq(Thread)]
  BY DEF IInv, TypeOK
<1>3. \A r \in Queue \ {wq} : WaitersOf(r)' = WaitersOf(r) /\ PendOf(r)' = PendOf(r)
  BY <1>1, <1>2, SameQueue DEF InFlight
<1> PICK q \in Queue : q = wq
  BY <1>1
<1>4. /\ WaitersOf(q)' = <<>> /\ WaitersOf(q) = <<>> /\ PendOf(q)' = 1
  <2>1. queue'[q] = SIGNALED /\ queue[q] \in {SIGNALED, <<>>}
    BY <1>1, <1>2
  <2> QED
    BY <2>1 DEF WaitersOf, PendOf
<1>5. /\ AbstractWaiters' = [AbstractWaiters EXCEPT ![q] = <<>>]
      /\ AbstractPend' = [AbstractPend EXCEPT ![q] = 1]
      /\ AbstractWaiters[q] = <<>>
  BY <1>3, <1>4, QueueChanges
<1>6. AbstractWaiters' = AbstractWaiters
  BY <1>5 DEF AbstractWaiters
<1>7. Abstract!Post(q)
  BY <1>1, <1>5, <1>6, SameFailed DEF Abstract!Post
<1> QED
  BY <1>7

\* An interrupt handler stores or counts an event.
LEMMA InterruptPosts ==
  ASSUME IInv, CountsFit, NEW q \in Queue, SignalFromISR(q)
  PROVE  Abstract!Post(q)
<1>1. /\ prio' = prio /\ timer' = timer /\ pc' = pc /\ wq' = wq /\ up' = up
  BY DEF SignalFromISR, threadVars, callVars
<1>2. queue \in [Queue -> {SIGNALED} \cup Seq(Thread)] /\ <<>> # SIGNALED
  BY EmptyIsNoMarker DEF IInv, TypeOK
<1>3. /\ \A r \in Queue \ {q} : WaitersOf(r)' = WaitersOf(r) /\ PendOf(r)' = PendOf(r)
      /\ WaitersOf(q)' = WaitersOf(q)
      /\ PendOf(q)' = IF WaitersOf(q) = <<>> THEN 1 ELSE PendOf(q) + 1
  <2>1. CASE queue[q] \in {SIGNALED, <<>>}
    <3>1. queue' = [queue EXCEPT ![q] = SIGNALED] /\ ec' = ec
      BY <1>2, <2>1 DEF SignalFromISR
    <3>2. \A r \in Queue \ {q} : WaitersOf(r)' = WaitersOf(r) /\ PendOf(r)' = PendOf(r)
      BY <1>1, <1>2, <3>1, SameQueue DEF InFlight
    <3>3. queue'[q] = SIGNALED
      BY <1>2, <3>1
    <3> QED
      BY <2>1, <3>2, <3>3 DEF WaitersOf, PendOf
  <2>2. CASE queue[q] \notin {SIGNALED, <<>>}
    <3>1. queue' = queue /\ Head(queue[q]) \in Waiters(q) /\ Head(queue[q]) \in Thread
          /\ ec \in [Thread -> Nat]
      BY <2>2, Lists DEF SignalFromISR
    <3>2. ec[Head(queue[q])] # EcMax
      BY <3>1, Constants DEF CountsFit
    <3>3. ec' = [ec EXCEPT ![Head(queue[q])] = ec[Head(queue[q])] + 1]
      BY <2>2, <3>2 DEF SignalFromISR
    <3>4. \A r \in Queue \ {q} : \A u \in Waiters(r) : ec'[u] = ec[u]
      BY <3>1, <3>3, Whereabouts
    <3>5. \A r \in Queue \ {q} : WaitersOf(r)' = WaitersOf(r) /\ PendOf(r)' = PendOf(r)
      BY <1>1, <3>1, <3>4, SameQueue DEF InFlight
    <3>6. PendOf(q)' = PendOf(q) + 1
      <4>1. PendOf(q) = ec[Head(queue[q])] + (IF InFlight(q) THEN 1 ELSE 0)
        BY <2>2 DEF PendOf
      <4>2. PendOf(q)' = ec'[Head(queue[q])] + (IF InFlight(q) THEN 1 ELSE 0)
        BY <1>1, <2>2, <3>1 DEF PendOf, InFlight
      <4>3. ec'[Head(queue[q])] = ec[Head(queue[q])] + 1 /\ ec[Head(queue[q])] \in Nat
        BY <3>1, <3>3
      <4> QED
        BY <4>1, <4>2, <4>3
    <3> QED
      BY <2>2, <3>1, <3>5, <3>6 DEF WaitersOf
  <2> QED
    BY <2>1, <2>2
<1>4. /\ AbstractWaiters' = [AbstractWaiters EXCEPT ![q] = WaitersOf(q)]
      /\ AbstractPend' = [AbstractPend EXCEPT ![q] = PendOf(q)']
      /\ AbstractWaiters[q] = WaitersOf(q) /\ AbstractPend[q] = PendOf(q)
  BY <1>3, QueueChanges
<1>5. AbstractWaiters' = AbstractWaiters
  BY <1>4 DEF AbstractWaiters
<1>6. AbstractPend' = [AbstractPend EXCEPT ![q] = IF AbstractWaiters[q] = <<>> THEN 1 ELSE @ + 1]
  BY <1>3, <1>4
<1> QED
  BY <1>1, <1>5, <1>6, SameFailed DEF Abstract!Post
-----------------------------------------------------------------------------
(***************************************************************************)
(* Threads that enter and leave the event queues.                          *)
(***************************************************************************)

\* A thread that no queue names is in none of them.
LEMMA InNoQueue ==
  ASSUME IInv, NEW t \in Thread, \A q \in Queue : t \notin Waiters(q)
  PROVE  \A q \in Queue : ~ Abstract!Contains(AbstractWaiters[q], t)
<1> TAKE q \in Queue
<1>1. AbstractWaiters[q] = WaitersOf(q) /\ WaitersOf(q) \in Seq(Thread)
      /\ t \notin Range(WaitersOf(q))
  <2>1. AbstractWaiters[q] = WaitersOf(q)
    BY DEF AbstractWaiters, WaitersOf
  <2>2. CASE queue[q] = SIGNALED
    <3>1. <<>> \in Seq(Thread)
      BY EmptySeq
    <3>2. t \notin Range(<<>>)
      BY <3>1, MemberIsNotEmpty
    <3> QED
      BY <2>1, <2>2, <3>1, <3>2 DEF WaitersOf
  <2>3. CASE queue[q] # SIGNALED
    BY <2>1, <2>3, Facts DEF WaitersOf, Waiters
  <2> QED
    BY <2>2, <2>3
<1>2. ~ Contains(WaitersOf(q), t)
  BY <1>1, InRange DEF Contains
<1> QED
  BY <1>1, <1>2, SameContains

LEMMA SleepsUnfailed ==
  ASSUME IInv, Resume, GoToSleep, wq \in Queue, pc \in {"block", "link"}
  PROVE  AbstractFailed' = AbstractFailed /\ cur \notin AbstractFailed
<1>1. /\ timer \in [Thread -> Queue \cup {SLEEP, SIGNALED, NULL}] /\ cur \in Thread
      /\ timer[cur] = NULL
  BY Timers DEF Resume, TimerGone
<1>2. \E v \in Queue \cup {NULL} : timer' = [timer EXCEPT ![cur] = v]
  BY DEF GoToSleep
<1>3. \A t \in Thread : timer'[t] = SIGNALED <=> timer[t] = SIGNALED
  BY <1>1, <1>2, Constants
<1> QED
  BY <1>1, <1>3, SameFailed, Constants DEF AbstractFailed

LEMMA AddedToEmpty ==
  ASSUME NEW T, NEW e \in Seq(T), NEW x \in T, NEW p \in [T -> Nat]
  PROVE  /\ PrioInsert(e, x, p) \in Seq(T)
         /\ Len(e) = 0 => Len(PrioInsert(e, x, p)) = 1 /\ PrioInsert(e, x, p)[1] = x
<1> DEFINE n == PrioInsert(e, x, p)
           k == PrioPlace(e, x, p)
<1>1. n \in Seq(T) /\ Len(n) = Len(e) + 1 /\ k \in 1 .. Len(e) + 1
  BY PrioInsertProps
<1>2. n[k] = x
  BY PrioInsertParts
<1> HIDE DEF n, k
<1>3. Len(e) = 0 => Len(n) = 1 /\ n[1] = x
  BY <1>1, <1>2
<1> QED
  BY <1>1, <1>3 DEF n

LEMMA AddedToNobody ==
  ASSUME NEW T, NEW x \in T, NEW p \in [T -> Nat]
  PROVE  PrioInsert(<<>>, x, p) = <<x>>
<1> DEFINE e == <<>>
           w == <<x>>
<1>0. Len(e) = 0
  BY EmptySeq
<1>1. e \in Seq(T)
  BY EmptySeq
<1>2. w \in Seq(T) /\ Len(w) = 1 /\ w[1] = x
  OBVIOUS
<1> HIDE DEF e, w
<1>3. /\ PrioInsert(e, x, p) \in Seq(T)
      /\ Len(e) = 0 => Len(PrioInsert(e, x, p)) = 1 /\ PrioInsert(e, x, p)[1] = x
  BY <1>1, AddedToEmpty
<1>4. PrioInsert(e, x, p) = w
  BY <1>0, <1>2, <1>3, SeqEqual
<1> QED
  BY <1>4 DEF e, w

LEMMA FirstJoins ==
  ASSUME IInv, Resume, BlockFirst
  PROVE  Abstract!Join(wq, cur)
<1> PICK q \in Queue, t \in Thread : q = wq /\ t = cur
  BY Timers DEF BlockFirst, IInv, Located
<1>1. /\ pc = "block" /\ pc' = "scan" /\ queue[q] \in {SIGNALED, <<>>}
      /\ ec' = [RemovedEc(runq, cur, ec) EXCEPT ![t] = IF queue[q] = SIGNALED THEN 1 ELSE 0]
      /\ queue' = [queue EXCEPT ![q] = <<cur>>]
      /\ prio' = prio /\ GoToSleep
  BY DEF BlockFirst, GoToSleep, SchedulerExec
<1>2. t \in Range(runq) /\ RemovedEc(runq, cur, ec) = ec
  BY <1>1, QuitRunQueue DEF IInv, Running
<1>3. \A r \in Queue : t \notin Waiters(r)
  BY <1>2, Whereabouts
<1>4. ec \in [Thread -> Nat] /\ prio \in [Thread -> Nat]
  BY Facts
<1>5. PrioInsert(<<>>, t, prio) = <<t>>
  BY <1>4, AddedToNobody
<1> DEFINE w == <<t>>
<1>6. w # <<>> /\ w # SIGNALED /\ Head(w) = t
  <2>1. w \in Seq(Thread) /\ w # <<>> /\ Head(w) = t
    OBVIOUS
  <2> QED
    BY <2>1, Constants
<1>7. queue \in [Queue -> {SIGNALED} \cup Seq(Thread)]
  BY DEF IInv, TypeOK
<1>8. queue' = [queue EXCEPT ![q] = w]
  BY <1>1
<1> HIDE DEF w
<1>9. queue'[q] = w /\ \A r \in Queue \ {q} : queue'[r] = queue[r]
  BY <1>7, <1>8
<1>10. \A r \in Queue \ {q} : WaitersOf(r)' = WaitersOf(r) /\ PendOf(r)' = PendOf(r)
  <2> TAKE r \in Queue \ {q}
  <2>1. \A u \in Waiters(r) : ec'[u] = ec[u]
    BY <1>1, <1>2, <1>3, <1>4, Whereabouts
  <2>2. ~ InFlight(r) /\ ~ InFlight(r)'
    BY <1>1 DEF InFlight
  <2> QED
    BY <1>9, <2>1, <2>2, SameQueue
<1>11. WaitersOf(q) = <<>> /\ WaitersOf(q)' = w
  BY <1>1, <1>6, <1>9 DEF WaitersOf
<1>12. PendOf(q)' = PendOf(q)
  <2>1. ec'[t] = IF queue[q] = SIGNALED THEN 1 ELSE 0
    BY <1>1, <1>2, <1>4
  <2>2. PendOf(q)' = ec'[t] + 0
    BY <1>1, <1>6, <1>9 DEF PendOf, InFlight
  <2>3. PendOf(q) = IF queue[q] = SIGNALED THEN 1 ELSE 0
    BY <1>1 DEF PendOf
  <2> QED
    BY <2>1, <2>2, <2>3
<1>13. /\ AbstractWaiters' = [AbstractWaiters EXCEPT ![q] = w]
       /\ AbstractPend' = [AbstractPend EXCEPT ![q] = PendOf(q)]
       /\ AbstractWaiters[q] = <<>> /\ AbstractPend[q] = PendOf(q)
  BY <1>10, <1>11, <1>12, QueueChanges
<1>14. AbstractPend' = AbstractPend
  BY <1>13 DEF AbstractPend
<1>15. w = Abstract!PrioInsert(AbstractWaiters[q], t, prio)
  BY <1>5, <1>13, SamePrioInsert DEF w
<1>16. AbstractFailed' = AbstractFailed /\ t \notin AbstractFailed
  BY <1>1, SleepsUnfailed
<1>17. \A r \in Queue : ~ Abstract!Contains(AbstractWaiters[r], t)
  BY <1>3, InNoQueue
<1>18. Abstract!Join(q, t)
  BY <1>1, <1>13, <1>14, <1>15, <1>16, <1>17 DEF Abstract!Join
<1> QED
  BY <1>18

LEMMA WaiterJoins ==
  ASSUME IInv, Resume, LinkWaiter
  PROVE  Abstract!Join(wq, cur)
<1> PICK q \in Queue, t \in Thread : q = wq /\ t = cur
  BY Timers DEF LinkWaiter, IInv, Located
<1> DEFINE l == queue[q]
           n == PrioInsert(l, t, prio)
<1>1. /\ pc = "link" /\ pc' = "scan" /\ l \notin {SIGNALED, <<>>}
      /\ queue' = [queue EXCEPT ![q] = n]
      /\ ec' = TakeOver(ec, t, Successor(queue'[q], t))
      /\ prio' = prio /\ GoToSleep
  BY DEF LinkWaiter, GoToSleep, SchedulerExec, IInv, Located
<1>2. \A r \in Queue : t \notin Waiters(r)
  BY <1>1 DEF IInv, OneList
<1>3. /\ l \in Seq(Thread) /\ NoDuplicates(l) /\ ec \in [Thread -> Nat]
      /\ Waiters(q) = Range(l)
  BY <1>1, Lists
<1>4. prio \in [Thread -> Nat] /\ NULL \notin Thread /\ SIGNALED \notin Seq(Thread)
  BY Facts, Constants
<1>5. queue'[q] = n /\ \A r \in Queue \ {q} : queue'[r] = queue[r]
  <2>1. queue \in [Queue -> {SIGNALED} \cup Seq(Thread)]
    BY DEF IInv, TypeOK
  <2> QED
    BY <1>1, <2>1
<1>6. /\ n \in Seq(Thread) /\ n # <<>>
      /\ Count(n, ec') = Count(l, ec)
      /\ \A u \in Thread : u \in Range(l) \/ u = t \/ ec'[u] = ec[u]
  <2>3. l # <<>> /\ t \notin Range(l)
    BY <1>1, <1>2, <1>3
  <2>1. Entered(Thread, l, t, prio, ec)
    BY <1>3, <1>4, <2>3, CountWhenAdded
  <2>2. ec' = TakeOver(ec, t, Successor(n, t))
    BY <1>1, <1>5
  <2> QED
    BY <2>1, <2>2 DEF Entered
<1> HIDE DEF l, n
<1>7. n # SIGNALED
  BY <1>4, <1>6
<1>8. \A r \in Queue \ {q} : WaitersOf(r)' = WaitersOf(r) /\ PendOf(r)' = PendOf(r)
  <2> TAKE r \in Queue \ {q}
  <2>1. \A u \in Waiters(r) : ec'[u] = ec[u]
    <3> TAKE u \in Waiters(r)
    <3>1. u \in Thread /\ u \notin Range(l) /\ u # t
      BY <1>2, <1>3, Whereabouts
    <3> QED
      BY <1>6, <3>1
  <2>2. ~ InFlight(r) /\ ~ InFlight(r)'
    BY <1>1 DEF InFlight
  <2> QED
    BY <1>5, <2>1, <2>2, SameQueue
<1>9. WaitersOf(q) = l /\ WaitersOf(q)' = n
  BY <1>1, <1>5, <1>7 DEF WaitersOf, l
<1>10. PendOf(q)' = PendOf(q)
  <2>1. PendOf(q) = ec[Head(l)] + 0 /\ PendOf(q)' = ec'[Head(n)] + 0
    BY <1>1, <1>5, <1>6, <1>7 DEF PendOf, InFlight, l
  <2>2. ec[Head(l)] = ec'[Head(n)]
    BY <1>1, <1>6, <1>7 DEF Count
  <2> QED
    BY <2>1, <2>2
<1>11. /\ AbstractWaiters' = [AbstractWaiters EXCEPT ![q] = n]
       /\ AbstractPend' = [AbstractPend EXCEPT ![q] = PendOf(q)]
       /\ AbstractWaiters[q] = l /\ AbstractPend[q] = PendOf(q)
  BY <1>8, <1>9, <1>10, QueueChanges
<1>12. AbstractPend' = AbstractPend
  BY <1>11 DEF AbstractPend
<1>13. n = Abstract!PrioInsert(AbstractWaiters[q], t, prio)
  BY <1>11, SamePrioInsert DEF n
<1>14. AbstractFailed' = AbstractFailed /\ t \notin AbstractFailed
  BY <1>1, SleepsUnfailed
<1>15. \A r \in Queue : ~ Abstract!Contains(AbstractWaiters[r], t)
  BY <1>2, InNoQueue
<1>16. Abstract!Join(q, t)
  BY <1>1, <1>11, <1>12, <1>13, <1>14, <1>15 DEF Abstract!Join
<1> QED
  BY <1>16


\* A released thread passes its events on.
LEMMA ReleaseCounts ==
  ASSUME IInv, NEW q \in Queue, NEW t \in Waiters(q),
         ec' = AddedEc(runq, t, prio, PassOn(ec, t, Successor(queue[q], t)))
  PROVE  /\ Departed(Thread, queue[q], t, ec)
         /\ ec' = PassOn(ec, t, Successor(queue[q], t))
         /\ ec' \in [Thread -> Nat]
         /\ \A m \in Nat : ec \in [Thread -> 0 .. m] => ec' \in [Thread -> 0 .. m]
<1> PICK l : l = queue[q]
  OBVIOUS
<1>1. t \in Thread /\ t \notin Range(runq) /\ l \notin {SIGNALED, <<>>}
  BY Whereabouts
<1>2. /\ l \in Seq(Thread) /\ NoDuplicates(l) /\ t \in Range(l) /\ ec \in [Thread -> Nat]
      /\ Head(l) \in Thread /\ \A u \in Range(l) : ec[u] > 0 => u = Head(l)
  BY <1>1, Lists
<1>3. /\ NULL \notin Thread /\ SIGNALED \notin Seq(Thread) /\ EcMax \in Nat
      /\ ec \in [Thread -> 0 .. EcMax] /\ prio \in [Thread -> Nat]
      /\ \A u \in Range(runq) : u \in Thread /\ ec[u] = 0 /\ u \notin Range(l)
  <2>1. NULL \notin Thread /\ SIGNALED \notin Seq(Thread) /\ EcMax \in Nat
    BY Constants
  <2>2. ec \in [Thread -> 0 .. EcMax] /\ prio \in [Thread -> Nat]
    BY DEF IInv, TypeOK
  <2>3. \A u \in Range(runq) : u \in Thread /\ ec[u] = 0
    BY Facts
  <2>4. \A u \in Range(l) : u \notin Range(runq)
    BY <1>1, Facts
  <2> QED
    BY <2>1, <2>2, <2>3, <2>4
<1> DEFINE f == PassOn(ec, t, Successor(l, t))
<1>4. Departed(Thread, l, t, ec)
  BY <1>2, <1>3, CountWhenReleased
<1>5. /\ f[t] = 0 /\ f \in [Thread -> Nat]
      /\ \A m \in Nat : ec \in [Thread -> 0 .. m] => f \in [Thread -> 0 .. m]
  <2>1. ASSUME NEW m \in Nat, ec \in [Thread -> 0 .. m]
        PROVE  f \in [Thread -> 0 .. m] /\ f[t] = 0
    <3>1. t \in Thread /\ 0 \in 0 .. m
      BY <1>1
    <3> QED
      BY <2>1, <3>1 DEF PassOn
  <2> HIDE DEF f
  <2>2. f \in [Thread -> 0 .. EcMax] /\ f[t] = 0
    BY <1>3, <2>1
  <2>3. f \in [Thread -> Nat]
    BY <1>3, <2>2
  <2> QED
    BY <2>1, <2>2, <2>3
<1>6. \A u \in Thread \ Range(l) : f[u] = ec[u]
  BY <1>4 DEF Departed
<1>7. ec' = AddedEc(runq, t, prio, f)
  OBVIOUS
<1> HIDE DEF f
<1>8. ec' = f
  <2>1. f \in [Thread -> Nat] /\ \A u \in Range(runq) : f[u] = 0
    BY <1>3, <1>5, <1>6
  <2>2. AddedEc(runq, t, prio, f) = [f EXCEPT ![t] = 0]
    BY <1>1, <1>3, <2>1, JoinRunQueue
  <2> QED
    BY <1>5, <1>7, <2>1, <2>2
<1> QED
  BY <1>4, <1>5, <1>8 DEF f

LEMMA ReleaseChanges ==
  ASSUME IInv, NEW q \in Queue, NEW t \in Waiters(q),
         queue' = [queue EXCEPT ![q] = Released(@, t, ec)],
         ec' = AddedEc(runq, t, prio, PassOn(ec, t, Successor(queue[q], t))),
         \A r \in Queue : ~ InFlight(r)', \A r \in Queue \ {q} : ~ InFlight(r)
  PROVE  /\ AbstractWaiters[q] = queue[q] /\ queue[q] # <<>>
         /\ Abstract!Contains(queue[q], t)
         /\ AbstractWaiters' = [AbstractWaiters EXCEPT ![q] = RemoveFirst(queue[q], t)]
         /\ t = Head(queue[q]) => RemoveFirst(queue[q], t) = Tail(queue[q])
         /\ ec[Head(queue[q])] \in Nat
         /\ AbstractPend[q] = ec[Head(queue[q])] + (IF InFlight(q) THEN 1 ELSE 0)
         /\ AbstractPend' =
              [AbstractPend EXCEPT ![q] = Abstract!Left(q, ec[Head(queue[q])])]
<1> PICK l : l = queue[q]
  OBVIOUS
<1>1. t \in Thread /\ t \notin Range(runq) /\ l \notin {SIGNALED, <<>>}
  BY Whereabouts
<1>2. /\ l \in Seq(Thread) /\ NoDuplicates(l) /\ t \in Range(l) /\ ec \in [Thread -> Nat]
      /\ Head(l) \in Thread /\ \A u \in Range(l) : ec[u] > 0 => u = Head(l)
  BY <1>1, Lists
<1> DEFINE r == Released(l, t, ec)
           f == PassOn(ec, t, Successor(l, t))
<1>3. Departed(Thread, l, t, ec) /\ ec' = f /\ ec' \in [Thread -> Nat]
  BY ReleaseCounts
<1> HIDE DEF f
<1>4. \A u \in Thread \ Range(l) : ec'[u] = ec[u]
  BY <1>3 DEF Departed, f
<1>5. queue'[q] = r /\ \A k \in Queue \ {q} : queue'[k] = queue[k]
  BY DEF IInv, TypeOK
<1> HIDE DEF r
<1>6. \A k \in Queue \ {q} : WaitersOf(k)' = WaitersOf(k) /\ PendOf(k)' = PendOf(k)
  <2> TAKE k \in Queue \ {q}
  <2>1. \A u \in Waiters(k) : ec'[u] = ec[u]
    <3> TAKE u \in Waiters(k)
    <3>1. onq[u] = k /\ u \in Thread
      BY Whereabouts
    <3>2. Range(l) = Waiters(q)
      BY <1>1 DEF Waiters
    <3>3. u \notin Range(l)
      BY <3>1, <3>2, Whereabouts
    <3> QED
      BY <1>4, <3>1, <3>3
  <2> QED
    BY <1>5, <2>1, SameQueue
<1>7. WaitersOf(q) = l /\ WaitersOf(q)' = RemoveFirst(l, t)
  BY <1>1, <1>3, <1>5 DEF WaitersOf, Departed, r
<1>8. PendOf(q) = ec[Head(l)] + (IF InFlight(q) THEN 1 ELSE 0) /\ ec[Head(l)] \in Nat
  BY <1>1, <1>2 DEF PendOf
<1>9. PendOf(q)' = IF Len(l) = 1 THEN IF ec[Head(l)] = 0 THEN 0 ELSE 1 ELSE ec[Head(l)]
  <2>1. Count(r, ec') = IF Len(l) = 1 THEN IF ec[Head(l)] = 0 THEN 0 ELSE 1 ELSE ec[Head(l)]
    BY <1>3 DEF Departed, r, f
  <2>2. PendOf(q)' = IF r = SIGNALED THEN 1 ELSE IF r = <<>> THEN 0 ELSE ec'[Head(r)] + 0
    BY <1>5 DEF PendOf
  <2>3. r # SIGNALED /\ r # <<>> => ec'[Head(r)] + 0 = ec'[Head(r)]
    <3> SUFFICES ASSUME r # SIGNALED, r # <<>> PROVE ec'[Head(r)] \in Nat
      OBVIOUS
    <3>1. r = RemoveFirst(l, t)
      BY <1>3 DEF Departed, r
    <3>2. r \in Seq(Thread)
      BY <1>2, <3>1, RemoveFirstProps
    <3>3. Head(r) \in Thread
      BY <3>2, HeadTailProperties
    <3> QED
      BY <1>3, <3>3
  <2> QED
    BY <2>1, <2>2, <2>3 DEF Count
<1>10. Abstract!Contains(l, t)
  <2>1. Contains(l, t)
    BY <1>2, InRange DEF Contains
  <2> QED
    BY <2>1, SameContains
<1>11. /\ AbstractWaiters' = [AbstractWaiters EXCEPT ![q] = RemoveFirst(l, t)]
       /\ AbstractPend' = [AbstractPend EXCEPT ![q] = PendOf(q)']
       /\ AbstractWaiters[q] = l /\ AbstractPend[q] = PendOf(q)
  BY <1>6, <1>7, QueueChanges
<1>12. Abstract!Left(q, ec[Head(l)]) = PendOf(q)'
  BY <1>8, <1>9, <1>11, AtMostOne DEF Abstract!Left
<1> QED
  BY <1>1, <1>3, <1>8, <1>10, <1>11, <1>12 DEF Departed

\* A thread signals a queue, or the scheduler delivers an event it has taken off
\* the count.
LEMMA PopWakes ==
  ASSUME IInv, Resume, SignalPop
  PROVE  Abstract!Wake(wq) \/ Abstract!Deliver(wq)
<1> PICK q \in Queue : q = wq
  BY DEF SignalPop, IInv, Located
<1> DEFINE t == Head(queue[q])
<1>1. /\ pc = "sigPop" /\ queue[q] \notin {SIGNALED, <<>>}
      /\ prio' = prio /\ timer' = [timer EXCEPT ![t] = NULL]
      /\ queue' = [queue EXCEPT ![q] = Released(@, t, ec)]
      /\ ec' = AddedEc(runq, t, prio, PassOn(ec, t, Successor(queue[q], t)))
      /\ wq' = wq /\ pc' \in {"scan", "yield"}
  BY DEF SignalPop, StopTimer, SignalReturns, callVars, IInv, Located
<1>2. t \in Waiters(q)
  BY <1>1, Lists
<1>3. onq[t] # RUNQ /\ t \in Thread
  BY <1>2, Whereabouts
<1>4. timer[t] # SIGNALED /\ timer \in [Thread -> Queue \cup {SLEEP, SIGNALED, NULL}]
  BY <1>3, Timers DEF Resume, Resumable
<1>5. AbstractFailed' = AbstractFailed
  BY <1>1, <1>3, <1>4, SameFailed, Constants
<1>6. (\A r \in Queue : ~ InFlight(r)') /\ \A r \in Queue \ {q} : ~ InFlight(r)
  BY <1>1 DEF InFlight
<1> HIDE DEF t
<1>7. /\ AbstractWaiters[q] = queue[q] /\ queue[q] # <<>>
      /\ Abstract!Contains(queue[q], t)
      /\ AbstractWaiters' = [AbstractWaiters EXCEPT ![q] = RemoveFirst(queue[q], t)]
      /\ t = Head(queue[q]) => RemoveFirst(queue[q], t) = Tail(queue[q])
      /\ ec[Head(queue[q])] \in Nat
      /\ AbstractPend[q] = ec[Head(queue[q])] + (IF InFlight(q) THEN 1 ELSE 0)
      /\ AbstractPend' = [AbstractPend EXCEPT ![q] = Abstract!Left(q, ec[Head(queue[q])])]
  BY <1>1, <1>2, <1>6, ReleaseChanges
<1>8. AbstractWaiters' = [AbstractWaiters EXCEPT ![q] = Tail(AbstractWaiters[q])]
  BY <1>7 DEF t
<1>9. CASE InFlight(q)
  <2>1. AbstractPend[q] > 0 /\ AbstractPend[q] - 1 = ec[Head(queue[q])]
    BY <1>7, <1>9
  <2>2. Abstract!Deliver(q)
    BY <1>1, <1>5, <1>7, <1>8, <2>1 DEF Abstract!Deliver
  <2> QED
    BY <2>2
<1>10. CASE ~ InFlight(q)
  <2>1. AbstractPend[q] = ec[Head(queue[q])]
    BY <1>7, <1>10
  <2>2. Abstract!Wake(q)
    BY <1>1, <1>5, <1>7, <1>8, <2>1 DEF Abstract!Wake
  <2> QED
    BY <2>2
<1> QED
  BY <1>9, <1>10

LEMMA TimeoutExpires ==
  ASSUME IInv, NEW t \in Thread, EventTMO(t)
  PROVE  Abstract!Expire(timer[t], t)
<1>1. timer[t] \in Queue
  BY DEF EventTMO
<1> PICK q \in Queue : q = timer[t]
  BY <1>1
<1>2. /\ pc = "timers" /\ pc' = pc /\ queue[q] # SIGNALED /\ Contains(queue[q], t)
      /\ prio' = prio /\ timer' = [timer EXCEPT ![t] = SIGNALED]
      /\ queue' = [queue EXCEPT ![q] = Released(@, t, ec)]
      /\ ec' = AddedEc(runq, t, prio, PassOn(ec, t, Successor(queue[q], t)))
  BY DEF EventTMO
<1>3. t \in Waiters(q)
  BY <1>2, Facts, InRange DEF Contains, Waiters
<1>4. timer \in [Thread -> Queue \cup {SLEEP, SIGNALED, NULL}]
  BY Timers
<1>5. AbstractFailed' = AbstractFailed \cup {t}
  BY <1>2, <1>4 DEF AbstractFailed
<1>6. (\A r \in Queue : ~ InFlight(r)') /\ \A r \in Queue : ~ InFlight(r)
  BY <1>2 DEF InFlight
<1>7. /\ AbstractWaiters[q] = queue[q] /\ queue[q] # <<>>
      /\ Abstract!Contains(queue[q], t)
      /\ AbstractWaiters' = [AbstractWaiters EXCEPT ![q] = RemoveFirst(queue[q], t)]
      /\ t = Head(queue[q]) => RemoveFirst(queue[q], t) = Tail(queue[q])
      /\ ec[Head(queue[q])] \in Nat
      /\ AbstractPend[q] = ec[Head(queue[q])] + (IF InFlight(q) THEN 1 ELSE 0)
      /\ AbstractPend' = [AbstractPend EXCEPT ![q] = Abstract!Left(q, ec[Head(queue[q])])]
  BY <1>2, <1>3, <1>6, ReleaseChanges
<1>8. AbstractPend[q] = ec[Head(queue[q])]
  BY <1>6, <1>7
<1>9. Abstract!Expire(q, t)
  BY <1>2, <1>5, <1>7, <1>8, SameRemoveFirst DEF Abstract!Expire
<1> QED
  BY <1>9
-----------------------------------------------------------------------------
(***************************************************************************)
(* The steps of the running thread that are left.                          *)
(***************************************************************************)

LEMMA ReturnFails ==
  ASSUME IInv, Resume, CallReturn
  PROVE  UNCHANGED Abstract!esvars \/ Abstract!ReturnFailure(cur)
<1>1. /\ pc = "return" /\ pc' = "app" /\ queue' = queue /\ ec' = ec /\ prio' = prio
      /\ timer' = [timer EXCEPT ![cur] = IF cont[cur] = "blocked" /\ @ = SIGNALED
                                         THEN NULL ELSE @]
  BY DEF CallReturn
<1>2. timer \in [Thread -> Queue \cup {SLEEP, SIGNALED, NULL}] /\ cur \in Thread
  BY Timers
<1>3. CASE timer[cur] # SIGNALED
  <2>1. timer' = timer
    BY <1>1, <1>2, <1>3
  <2> QED
    BY <1>1, <2>1, NothingChanges DEF InFlight
<1>4. CASE timer[cur] = SIGNALED
  <2>1. cont[cur] = "blocked"
    BY <1>2, <1>4 DEF Resume, Resumable
  <2>2. timer' = [timer EXCEPT ![cur] = NULL]
    BY <1>1, <1>4, <2>1
  <2>3. AbstractFailed' = AbstractFailed \ {cur} /\ cur \in AbstractFailed
    BY <1>2, <1>4, <2>2, Constants DEF AbstractFailed
  <2>4. AbstractWaiters' = AbstractWaiters /\ AbstractPend' = AbstractPend
    BY <1>1 DEF AbstractWaiters, AbstractPend, InFlight
  <2> QED
    BY <1>1, <2>3, <2>4 DEF Abstract!ReturnFailure
<1> QED
  BY <1>3, <1>4

LEMMA PrioritySets ==
  ASSUME IInv, NEW p \in Prios, ThreadSetPrio(p)
  PROVE  Abstract!SetPrio(cur)
<1>1. /\ pc = "app" /\ pc' \in {"app", "return"} /\ queue' = queue /\ timer' = timer
      /\ prio' = [prio EXCEPT ![cur] = p]
      /\ ec' = AddedEc(Removed(runq, cur), cur, prio', RemovedEc(runq, cur, ec))
  BY DEF ThreadSetPrio, InApp
<1>2. cur \in Range(runq) /\ cur \in Thread /\ prio \in [Thread -> Nat] /\ p \in Nat
  BY <1>1, Facts, Constants DEF IInv, Running
<1>3. /\ prio' \in [Thread -> Nat]
      /\ \A u \in Thread \ {cur} : prio'[u] = prio[u]
  BY <1>1, <1>2
<1>4. ec' = ec
  BY <1>1, <1>2, <1>3, RequeueCurrent
<1>5. \A q \in Queue : cur \notin Waiters(q)
  BY <1>2, Whereabouts
<1>6. /\ AbstractWaiters' = AbstractWaiters /\ AbstractPend' = AbstractPend
      /\ AbstractFailed' = AbstractFailed
  BY <1>1, <1>4 DEF AbstractWaiters, AbstractPend, AbstractFailed, InFlight
<1>7. \A q \in Queue : ~ Abstract!Contains(AbstractWaiters[q], cur)
  BY <1>2, <1>5, InNoQueue
<1> QED
  BY <1>3, <1>6, <1>7 DEF Abstract!SetPrio

LEMMA InitImplements ==
  ASSUME Init
  PROVE  Abstract!Init
<1>1. \A q \in Queue : queue[q] \in {SIGNALED, <<>>}
  BY DEF Init
<1>2. AbstractWaiters = [q \in Queue |-> <<>>] /\ AbstractPend \in [Queue -> {0, 1}]
  BY <1>1 DEF AbstractWaiters, AbstractPend
<1>3. AbstractFailed = {}
  BY Constants DEF Init, AbstractFailed
<1>4. prio \in [Thread -> Nat]
  BY KernelConstants DEF Init
<1> QED
  BY <1>2, <1>3, <1>4 DEF Abstract!Init

\* Every step of the kernel is one of the event queues, or none.
LEMMA NextImplements ==
  ASSUME NotifySleepers = FALSE, IInv, Resume, Counted, CountsFit, [Next]_vars
  PROVE  [Abstract!Next]_(Abstract!esvars)
<1>1. CASE AppCall
  <2>1. ASSUME NEW q \in Queue, NEW w \in BOOLEAN, EventWait(q, w) \/ EventWaitNext(q, w)
        PROVE  UNCHANGED Abstract!esvars \/ \E k \in Queue : Abstract!Take(k)
    BY <2>1, UnseenCalls, TakeSteps
  <2>2. ASSUME NEW p \in Prios, ThreadSetPrio(p)
        PROVE  \E t \in Thread : Abstract!SetPrio(t)
    BY <2>2, PrioritySets, Facts
  <2>3. ASSUME \/ \E q \in Queue : EventSignal(q)
               \/ CallYield
        PROVE  UNCHANGED Abstract!esvars
    BY <2>3, UnseenCalls
  <2>4. ASSUME \/ \E t \in Thread : Notifiable(t) /\ ThreadNotify(t)
               \/ \E t \in Thread : ThreadCreate(t)
               \/ ThreadSleep \/ ThreadWait
        PROVE  UNCHANGED Abstract!esvars
    BY <2>4, UnseenThreads
  <2> QED
    BY <1>1, <2>1, <2>2, <2>3, <2>4 DEF AppCall, Abstract!Next
<1>2. CASE KernelStep
  <2>1. ASSUME WaitRead \/ BlockBehind \/ SignalRead \/ ThreadYield \/ ScanThread \/ SwitchTask
        PROVE  UNCHANGED Abstract!esvars
    BY <2>1, UnseenCalls
  <2>2. ASSUME ConsumeEvent
        PROVE  UNCHANGED Abstract!esvars \/ \E k \in Queue : Abstract!Take(k)
    BY <2>2, TakeSteps
  <2>3. ASSUME BlockFirst \/ LinkWaiter
        PROVE  \E k \in Queue, t \in Thread : Abstract!Join(k, t)
    <3>1. wq \in Queue /\ cur \in Thread
      BY <2>3, Facts DEF BlockFirst, LinkWaiter, IInv, Located
    <3> QED
      BY <2>3, <3>1, FirstJoins, WaiterJoins
  <2>4. ASSUME SignalPop
        PROVE  \E k \in Queue : Abstract!Wake(k) \/ Abstract!Deliver(k)
    <3>1. wq \in Queue
      BY <2>4 DEF SignalPop, IInv, Located
    <3> QED
      BY <2>4, <3>1, PopWakes
  <2>5. ASSUME SignalStore
        PROVE  \E k \in Queue : Abstract!Post(k)
    <3>1. wq \in Queue
      BY <2>5 DEF SignalStore, IInv, Located
    <3> QED
      BY <2>5, <3>1, StorePosts
  <2>6. ASSUME CallReturn
        PROVE  UNCHANGED Abstract!esvars \/ \E t \in Thread : Abstract!ReturnFailure(t)
    BY <2>6, ReturnFails, Facts
  <2> QED
    BY <1>2, <2>1, <2>2, <2>3, <2>4, <2>5, <2>6, UnseenPost DEF KernelStep, Abstract!Next
<1>3. CASE TimerElapses
  <2>1. ASSUME NEW t \in Thread, EventTMO(t)
        PROVE  \E k \in Queue, u \in Thread : Abstract!Expire(k, u)
    <3>1. timer[t] \in Queue
      BY <2>1 DEF EventTMO
    <3> QED
      BY <2>1, <3>1, TimeoutExpires
  <2>2. ASSUME NEW t \in Thread, ThreadTimeout(t)
        PROVE  UNCHANGED Abstract!esvars
    BY <2>2, UnseenThreads
  <2> QED
    BY <1>3, <2>1, <2>2 DEF TimerElapses, Abstract!Next
<1>4. CASE Interrupt
  <2>1. \E q \in Queue : Abstract!Post(q)
    BY <1>4, InterruptPosts, Constants DEF Interrupt
  <2> QED
    BY <2>1 DEF Abstract!Next
<1>5. CASE UNCHANGED vars
  BY <1>5, UnseenCalls
<1> QED
  BY <1>1, <1>2, <1>3, <1>4, <1>5 DEF Next
-----------------------------------------------------------------------------
LEMMA NextCounted ==
  ASSUME IInv, Counted, CountsFit, [Next]_vars
  PROVE  Counted'
<1> SUFFICES ASSUME pc' = "post"
             PROVE  ec'[threads'[scan']] > 0
  BY DEF Counted
<1>1. CASE AppCall
  BY <1>1 DEF AppCall, EventWait, EventWaitNext, CheckEvent, EventSignal, ThreadNotify,
     ThreadSetPrio, ThreadCreate, CallYield, ThreadSleep, ThreadWait, SchedulerExec, InApp
<1>2. CASE KernelStep
  <2>1. ScanThread
    BY <1>2 DEF KernelStep, WaitRead, CheckEvent, ConsumeEvent, BlockFirst, BlockBehind,
       LinkWaiter, GoToSleep, SchedulerExec, SignalRead, CheckWaiters, SignalReturns,
       SignalPop, SignalStore, ThreadYield, PostEvent, SwitchTask, CallReturn
  <2> QED
    BY <2>1 DEF ScanThread
<1>3. CASE TimerElapses
  BY <1>3 DEF TimerElapses, ThreadTimeout, EventTMO
<1>4. ASSUME NEW q \in Queue, SignalFromISR(q)
      PROVE  ec'[threads'[scan']] > 0
  <2>1. /\ pc = "post" /\ threads' = threads /\ scan' = scan
    BY <1>4 DEF SignalFromISR
  <2>2. ec[threads[scan]] > 0 /\ threads[scan] \in Thread
    <3>1. \E k \in Queue : threads[scan] \in Waiters(k)
      BY <2>1 DEF IInv, Located
    <3> QED
      BY <2>1, <3>1, Whereabouts DEF Counted
  <2>3. CASE ec' = ec
    BY <2>1, <2>2, <2>3
  <2>4. CASE queue[q] \notin {SIGNALED, <<>>}
    <3>1. Head(queue[q]) \in Thread /\ ec \in [Thread -> Nat]
      BY <2>4, Lists
    <3>2. ec[Head(queue[q])] # EcMax
      BY <3>1, Constants DEF CountsFit
    <3>3. ec' = [ec EXCEPT ![Head(queue[q])] = ec[Head(queue[q])] + 1]
      BY <1>4, <2>4, <3>2 DEF SignalFromISR
    <3> QED
      BY <2>1, <2>2, <3>1, <3>3
  <2> QED
    BY <1>4, <2>3, <2>4 DEF SignalFromISR
<1>5. CASE Interrupt
  BY <1>4, <1>5, Constants DEF Interrupt
<1>6. CASE UNCHANGED vars
  BY <1>6 DEF vars, Counted
<1> QED
  BY <1>1, <1>2, <1>3, <1>5, <1>6 DEF Next

\* Every event posted to an event queue is stored, counted and delivered as
\* EventSpec says, to the thread it says, in whatever order threads, timers and
\* interrupt handlers run, as long as no count reaches the limit of its char.
THEOREM KernelImplementsEvents ==
  ASSUME NotifySleepers = FALSE
  PROVE  Spec /\ []CountsFit => ImplementsEvents
<1>1. Init => Counted
  BY DEF Init, Counted
<1>2. Init => Abstract!Init
  BY InitImplements
<1>3. IInv /\ Counted /\ CountsFit /\ [Next]_vars => Counted'
  BY NextCounted
<1>4. IInv /\ Resume /\ Counted /\ CountsFit /\ [Next]_vars => [Abstract!Next]_(Abstract!esvars)
  BY NextImplements
<1>5. Init => Resume
  BY InitResume
<1>6. IInv /\ Resume /\ [Next]_vars => Resume'
  BY NextResume
<1> QED
  BY <1>1, <1>2, <1>3, <1>4, <1>5, <1>6, KernelInvariant, PTL
     DEF ImplementsEvents, Abstract!Spec, Spec
-----------------------------------------------------------------------------
(***************************************************************************)
(* Interrupt handlers that post fewer events than a count can hold never   *)
(* bring one to its limit: a thread that starts to wait takes over at most *)
(* the one event that was posted since it looked at the queue.             *)
(***************************************************************************)

Bounded ==
  /\ ec \in [Thread -> 0 .. isrs]
  /\ pc = "block" /\ queue[wq] = SIGNALED => isrs > 0

LEMMA BoundedCounts ==
  ASSUME IInv, Counted, Bounded, NotifySleepers = FALSE, MaxIsr < EcMax, Next
  PROVE  ec' \in [Thread -> 0 .. isrs']
<1>1. isrs \in Nat /\ isrs <= MaxIsr /\ 0 \in 0 .. isrs /\ cur \in Thread
      /\ ec \in [Thread -> 0 .. isrs] /\ ec \in [Thread -> Nat]
  BY Constants, Facts DEF IInv, TypeOK, Bounded
<1>2. CASE ec' = ec /\ isrs' = isrs
  BY <1>1, <1>2
<1>3. ASSUME NEW t \in Thread, NEW n \in 0 .. isrs, ec' = [ec EXCEPT ![t] = n], isrs' = isrs
      PROVE  ec' \in [Thread -> 0 .. isrs']
  BY <1>1, <1>3
<1>4. CASE AppCall
  <2>1. isrs' = isrs
    BY <1>4 DEF AppCall, EventWait, EventWaitNext, EventSignal, ThreadNotify, ThreadSetPrio,
       ThreadCreate, CallYield, ThreadSleep, ThreadWait
  <2>2. \/ ec' = ec
        \/ \E t \in Thread : ec' = [ec EXCEPT ![t] = 0]
        \/ \E p \in Prios : ThreadSetPrio(p)
    BY <1>4, ThreadCounts, CallCounts DEF AppCall, EventWaitNext
  <2>3. ASSUME NEW p \in Prios, ThreadSetPrio(p)
        PROVE  ec' = ec
    <3>1. cur \in Range(runq)
      BY <2>3 DEF ThreadSetPrio, InApp, IInv, Running
    <3>2. prio' \in [Thread -> Nat]
      BY <2>3, Facts, Constants DEF ThreadSetPrio
    <3> QED
      BY <2>3, <3>1, <3>2, RequeueCurrent DEF ThreadSetPrio
  <2> QED
    BY <1>1, <1>2, <1>3, <2>1, <2>2, <2>3
<1>5. CASE KernelStep
  <2>1. isrs' = isrs
    BY <1>5 DEF KernelStep, WaitRead, ConsumeEvent, BlockFirst, BlockBehind, LinkWaiter,
       SignalRead, SignalPop, SignalStore, ThreadYield, ScanThread, PostEvent, SwitchTask,
       CallReturn
  <2>2. \/ ec' = ec
        \/ BlockFirst \/ LinkWaiter \/ SignalPop \/ PostEvent
    BY <1>5, CallCounts DEF KernelStep, ConsumeEvent, SignalStore, CallReturn
  <2>3. ASSUME BlockFirst
        PROVE  ec' \in [Thread -> 0 .. isrs']
    <3>1. pc = "block" /\ ec' = [RemovedEc(runq, cur, ec) EXCEPT
                                   ![cur] = IF queue[wq] = SIGNALED THEN 1 ELSE 0]
      BY <2>3 DEF BlockFirst
    <3>2. RemovedEc(runq, cur, ec) = ec
      BY <3>1, QuitRunQueue DEF IInv, Running
    <3>3. (IF queue[wq] = SIGNALED THEN 1 ELSE 0) \in 0 .. isrs
      BY <1>1, <3>1 DEF Bounded
    <3> QED
      BY <1>3, <1>1, <2>1, <3>1, <3>2, <3>3
  <2>4. ASSUME LinkWaiter
        PROVE  ec' \in [Thread -> 0 .. isrs']
    <3> PICK q \in Queue : q = wq
      BY <2>4 DEF LinkWaiter, IInv, Located
    <3>1. /\ pc = "link" /\ queue[q] \notin {SIGNALED, <<>>}
          /\ queue' = [queue EXCEPT ![q] = PrioInsert(@, cur, prio)]
          /\ ec' = TakeOver(ec, cur, Successor(queue'[q], cur))
      BY <2>4 DEF LinkWaiter, IInv, Located
    <3>2. queue \in [Queue -> {SIGNALED} \cup Seq(Thread)] /\ prio \in [Thread -> Nat]
      BY DEF IInv, TypeOK
    <3>3. queue[q] \in Seq(Thread) /\ NoDuplicates(queue[q]) /\ Waiters(q) = Range(queue[q])
      BY <3>1, Lists
    <3>4. cur \notin Range(queue[q])
      BY <1>1, <3>1, <3>3 DEF IInv, OneList
    <3>5. PrioInsert(queue[q], cur, prio) \in Seq(Thread)
      BY <1>1, <3>2, <3>3, PrioInsertProps
    <3>6. NoDuplicates(PrioInsert(queue[q], cur, prio))
      BY <1>1, <3>2, <3>3, <3>4, PrioInsertOnce
    <3>7. queue'[q] = PrioInsert(queue[q], cur, prio)
      BY <3>1, <3>2
    <3>8. \/ Successor(queue'[q], cur) = NULL
          \/ Successor(queue'[q], cur) \in Thread
      <4>1. queue'[q] \in Seq(Thread) /\ NoDuplicates(queue'[q])
        BY <3>5, <3>6, <3>7
      <4>2. Range(queue'[q]) \subseteq Thread
        BY <4>1, InRange, LenProperties
      <4> QED
        BY <4>1, <4>2, SuccessorInList
    <3> HIDE DEF Successor
    <3>9. ec' = [u \in Thread |-> IF u = cur
                                  THEN IF Successor(queue'[q], cur) = NULL THEN 0
                                       ELSE ec[Successor(queue'[q], cur)]
                                  ELSE IF u = Successor(queue'[q], cur) THEN 0 ELSE ec[u]]
      BY <1>1, <3>1 DEF TakeOver
    <3> QED
      BY <1>1, <2>1, <3>8, <3>9
  <2>5. ASSUME SignalPop
        PROVE  ec' \in [Thread -> 0 .. isrs']
    <3> PICK q \in Queue : q = wq
      BY <2>5 DEF SignalPop, IInv, Located
    <3>1. queue[q] \notin {SIGNALED, <<>>}
      BY <2>5 DEF SignalPop, IInv, Located
    <3>2. Head(queue[q]) \in Waiters(q)
      BY <3>1, Lists
    <3>3. ec' = AddedEc(runq, Head(queue[q]), prio,
                        PassOn(ec, Head(queue[q]), Successor(queue[q], Head(queue[q]))))
      BY <2>5 DEF SignalPop
    <3> QED
      BY <1>1, <2>1, <3>2, <3>3, ReleaseCounts
  <2>6. ASSUME PostEvent
        PROVE  ec' \in [Thread -> 0 .. isrs']
    <3>1. threads[scan] \in Thread
      BY <2>6, Whereabouts DEF PostEvent, IInv, Located
    <3>2. ec[threads[scan]] > 0 /\ ec' = [ec EXCEPT ![threads[scan]] = OneFewer(@)]
      BY <2>6 DEF PostEvent, Counted
    <3>3. OneFewer(ec[threads[scan]]) \in 0 .. isrs
      BY <1>1, <3>1, <3>2 DEF OneFewer
    <3> QED
      BY <1>3, <2>1, <3>1, <3>2, <3>3
  <2> QED
    BY <1>2, <2>1, <2>2, <2>3, <2>4, <2>5, <2>6
<1>6. CASE TimerElapses
  <2>1. ASSUME NEW t \in Thread, ThreadTimeout(t)
        PROVE  isrs' = isrs /\ (ec' = ec \/ \E u \in Thread : ec' = [ec EXCEPT ![u] = 0])
    BY <2>1, ThreadCounts DEF ThreadTimeout
  <2>2. ASSUME NEW t \in Thread, EventTMO(t)
        PROVE  ec' \in [Thread -> 0 .. isrs']
    <3> PICK q \in Queue : q = timer[t]
      BY <2>2 DEF EventTMO
    <3>1. /\ queue[q] # SIGNALED /\ Contains(queue[q], t) /\ isrs' = isrs
          /\ ec' = AddedEc(runq, t, prio, PassOn(ec, t, Successor(queue[q], t)))
      BY <2>2 DEF EventTMO
    <3>2. t \in Waiters(q)
      BY <3>1, Facts, InRange DEF Contains, Waiters
    <3> QED
      BY <1>1, <3>1, <3>2, ReleaseCounts
  <2> QED
    BY <1>1, <1>2, <1>3, <1>6, <2>1, <2>2 DEF TimerElapses
<1>7. ASSUME NEW q \in Queue, SignalFromISR(q)
      PROVE  ec' \in [Thread -> 0 .. isrs']
  <2>1. isrs' = isrs + 1 /\ isrs' \in Nat
    BY <1>1, <1>7 DEF SignalFromISR
  <2>2. CASE ec' = ec
    BY <1>1, <2>1, <2>2
  <2>3. CASE queue[q] \notin {SIGNALED, <<>>}
    <3>1. Head(queue[q]) \in Thread
      BY <2>3, Lists
    <3>2. ec' = [ec EXCEPT ![Head(queue[q])] = IF @ = EcMax THEN 0 ELSE @ + 1]
      BY <1>7, <2>3 DEF SignalFromISR
    <3> QED
      BY <1>1, <2>1, <3>1, <3>2
  <2> QED
    BY <1>7, <2>2, <2>3 DEF SignalFromISR
<1> QED
  BY <1>4, <1>5, <1>6, <1>7, Constants DEF Next, Interrupt


LEMMA NextBounded ==
  ASSUME IInv, Counted, Bounded, NotifySleepers = FALSE, MaxIsr < EcMax, [Next]_vars
  PROVE  Bounded'
<1>1. CASE UNCHANGED vars
  BY <1>1 DEF vars, Bounded
<1>2. CASE Next
  <2>1. ec' \in [Thread -> 0 .. isrs']
    BY <1>2, BoundedCounts
  <2>2. isrs \in Nat
    BY Constants DEF IInv, TypeOK
  <2>3. ASSUME pc' = "block", queue'[wq'] = SIGNALED
        PROVE  isrs' > 0
    <3>1. CASE AppCall
      <4>1. PICK q \in Queue, w \in BOOLEAN : EventWait(q, w)
        BY <2>3, <3>1 DEF AppCall, EventWaitNext, EventSignal, ThreadNotify, ThreadSetPrio,
           ThreadCreate, CallYield, ThreadSleep, ThreadWait, SchedulerExec, InApp
      <4> QED
        BY <2>3, <4>1 DEF EventWait, CheckEvent
    <3>2. CASE KernelStep
      <4>1. WaitRead
        BY <2>3, <3>2 DEF KernelStep, ConsumeEvent, BlockFirst, BlockBehind, LinkWaiter,
           GoToSleep, SchedulerExec, SignalRead, CheckWaiters, SignalReturns, SignalPop,
           SignalStore, ThreadYield, ScanThread, PostEvent, SwitchTask, CallReturn
      <4> QED
        BY <2>3, <4>1 DEF WaitRead, CheckEvent, callVars
    <3>3. CASE TimerElapses
      BY <2>3, <3>3 DEF TimerElapses, ThreadTimeout, EventTMO
    <3>4. CASE Interrupt
      BY <2>2, <3>4 DEF Interrupt, SignalFromISR
    <3> QED
      BY <1>2, <3>1, <3>2, <3>3, <3>4 DEF Next
  <2> QED
    BY <2>1, <2>3 DEF Bounded
<1> QED
  BY <1>1, <1>2

LEMMA BoundedFits ==
  ASSUME IInv, Bounded, MaxIsr < EcMax
  PROVE  CountsFit
<1>1. isrs \in Nat /\ isrs <= MaxIsr /\ MaxIsr \in Nat /\ EcMax \in Nat
  BY Constants DEF IInv, TypeOK
<1>2. \A t \in Thread : ec[t] \in 0 .. isrs
  BY DEF Bounded
<1> QED
  BY <1>1, <1>2 DEF CountsFit

\* The kernel implements the event queues outright when interrupt handlers post
\* fewer events than a count can hold.
THEOREM KernelImplementsFewEvents ==
  ASSUME NotifySleepers = FALSE, MaxIsr < EcMax
  PROVE  Spec => ImplementsEvents
<1>1. Init => Counted
  BY DEF Init, Counted
<1>2. Init => Bounded
  BY DEF Init, Bounded
<1>3. IInv /\ Bounded => CountsFit
  BY BoundedFits
<1>4. IInv /\ Counted /\ CountsFit /\ [Next]_vars => Counted'
  BY NextCounted
<1>5. IInv /\ Counted /\ Bounded /\ [Next]_vars => Bounded'
  BY NextBounded
<1> QED
  BY <1>1, <1>2, <1>3, <1>4, <1>5, KernelInvariant, KernelImplementsEvents, PTL DEF Spec
=============================================================================
