--------------------------- MODULE DeviceLockProofs ---------------------------
(***************************************************************************)
(* OneEvent and MutualExclusion are invariants of DeviceLock, for any      *)
(* number of threads, devices and other event queues.                      *)
(*                                                                         *)
(* The steps of LockSpec are steps of Kernel, so that its invariants hold. *)
(* Owners(d) then depends on the fields of each thread alone (Has), and    *)
(* OneEvent becomes inductive with five more facts: how far an allocation  *)
(* has got (Allocates), which calls in progress are about a device         *)
(* (Calls), that a thread forgets its last call (Fresh), and that a thread *)
(* in the queue of a device allocates it (Waits) and has no event counted  *)
(* there (NoEvents).                                                       *)
(***************************************************************************)
EXTENDS DeviceLock, KernelProofs

\* The running thread is on its way into an event queue.
Entering == pc \in {"consume", "block", "link"}

Fresh == pc \in {"app", "waitRead"} \/ Entering => cont[cur] = "return"

Allocates(t) ==
  want[t] # NULL =>
    \/ t = cur /\ Entering /\ wq = want[t] /\ cont[t] = "return"
    \/ cont[t] = "granted" /\ onq[t] = RUNQ
    \/ cont[t] = "blocked" /\ onq[t] \in {want[t], RUNQ}

Calls ==
  /\ pc = "waitRead" => wq \notin Device
  /\ Entering /\ wq \in Device => want[cur] = wq
  /\ pc = "block" /\ wq \in Device => queue[wq] # SIGNALED
  /\ pc \in {"sigRead", "sigPop", "sigSet"} /\ up = "scan" => wq \notin Device
  /\ pc = "sigRead" => up = "scan"
  /\ pc = "post" => onq[threads[scan]] \notin Device

NoEvents == \A t \in Thread : ec[t] > 0 => onq[t] \notin Device

Waits == \A t \in Thread : onq[t] \in Device => want[t] = onq[t]

Has(t, d) ==
  \/ d \in holds[t]
  \/ /\ want[t] = d
     /\ \/ cont[t] = "granted"
        \/ cont[t] = "blocked" /\ onq[t] = RUNQ /\ timer[t] # SIGNALED

Held(d) ==
  /\ \A t, u \in Thread : Has(t, d) /\ Has(u, d) => t = u
  /\ queue[d] = SIGNALED => (\A t \in Thread : ~Has(t, d)) /\ ~Releasing(d)
  /\ Releasing(d) => \A t \in Thread : ~Has(t, d)
  /\ queue[d] # SIGNALED /\ ~Releasing(d) => \E t \in Thread : Has(t, d)

LockTypes ==
  /\ want \in [Thread -> Device \cup {NULL}]
  /\ holds \in [Thread -> SUBSET Device]

Locks ==
  /\ LockTypes /\ Fresh /\ Calls /\ NoEvents /\ Waits
  /\ \A t \in Thread : Allocates(t)
  /\ \A d \in Device : Held(d)

LockInv == IInv /\ Resume /\ Locks
-----------------------------------------------------------------------------
(***************************************************************************)
(* Consequences of the invariant.                                          *)
(***************************************************************************)

LEMMA Places ==
  /\ Device \subseteq Queue /\ Device \cap IsrQueue = {}
  /\ NULL \notin Device /\ RUNQ \notin Device /\ SIGNALED \notin Device
BY DeviceConstants, Constants

\* The owners of a device, by the fields of the threads.
LEMMA OwnersHave ==
  ASSUME LockInv, NEW d \in Device, NEW t \in Thread
  PROVE  t \in Owners(d) <=> Has(t, d)
<1>1. CASE want[t] = d /\ cont[t] = "blocked"
  <2>1. onq[t] \in {d, RUNQ} /\ (pc = "link" => t # cur)
    BY <1>1, Places DEF LockInv, Locks, Allocates, Fresh, Entering
  <2>2. t \in Waiters(d) <=> onq[t] = d
    BY <2>1, Places DEF LockInv, IInv, OneList
  <2> QED
    BY <1>1, <2>1, <2>2, Places DEF Owners, Has
<1>2. CASE ~(want[t] = d /\ cont[t] = "blocked")
  BY <1>2 DEF Owners, Has
<1> QED
  BY <1>1, <1>2

LEMMA LocksImply ==
  ASSUME LockInv
  PROVE  OneEvent /\ LockTypeOK /\ MutualExclusion
<1>1. \A d \in Device : Owners(d) = {t \in Thread : Has(t, d)}
  <2>1. \A d \in Device : Owners(d) \subseteq Thread
    BY DEF Owners
  <2> QED
    BY <2>1, OwnersHave
<1>2. OneEvent
  <2>1. ASSUME NEW d \in Device
        PROVE  /\ \A t, u \in Owners(d) : t = u
               /\ queue[d] = SIGNALED => Owners(d) = {} /\ ~Releasing(d)
               /\ Releasing(d) => Owners(d) = {}
               /\ queue[d] # SIGNALED => Owners(d) # {} \/ Releasing(d)
    BY <1>1 DEF LockInv, Locks, Held
  <2> QED
    BY <2>1 DEF OneEvent
<1>3. LockTypeOK
  BY DEF LockInv, IInv, Locks, LockTypes, LockTypeOK
<1>4. MutualExclusion
  BY DEF LockInv, Locks, Held, Has, MutualExclusion
<1> QED
  BY <1>2, <1>3, <1>4

\* A thread in its own code allocates nothing.
LEMMA IdleCaller ==
  ASSUME LockInv, pc \in {"app", "waitRead"}
  PROVE  want[cur] = NULL
BY DEF LockInv, Locks, Fresh, Allocates, Entering, IInv, TypeOK

\* Nor does one that waits elsewhere.
LEMMA IdleElsewhere ==
  ASSUME LockInv, NEW t \in Thread, ~(t = cur /\ Entering),
         onq[t] # RUNQ, onq[t] \notin Device
  PROVE  want[t] = NULL
BY DEF LockInv, Locks, LockTypes, Allocates

\* Nor does the running thread on its way into another queue.
LEMMA IdleEntering ==
  ASSUME LockInv, Entering, wq \notin Device
  PROVE  want[cur] = NULL
BY DEF LockInv, Locks, LockTypes, Fresh, Allocates, IInv, TypeOK
-----------------------------------------------------------------------------
(***************************************************************************)
(* What a step leaves alone.                                               *)
(***************************************************************************)
Same(t) ==
  /\ onq'[t] = onq[t] /\ timer'[t] = timer[t] /\ cont'[t] = cont[t]
  /\ want'[t] = want[t] /\ holds'[t] = holds[t]

LEMMA SameThread ==
  ASSUME NEW t \in Thread, Same(t)
  PROVE  /\ \A d \in Device : Has(t, d)' <=> Has(t, d)
         /\ Allocates(t) /\ (t = cur /\ Entering => UNCHANGED <<cur, pc, wq>>) => Allocates(t)'
BY DEF Same, Has, Allocates, Entering

LEMMA LoneThread ==
  ASSUME Locks, NEW x \in Thread, \A t \in Thread \ {x} : Same(t), Entering => x = cur,
         want[x] = NULL, want'[x] = NULL, holds'[x] = holds[x]
  PROVE  \A t \in Thread : Allocates(t)' /\ \A d \in Device : Has(t, d)' <=> Has(t, d)
<1>1. Allocates(x)' /\ \A d \in Device : Has(x, d)' <=> Has(x, d)
  BY Places DEF Allocates, Has
<1>2. ASSUME NEW t \in Thread \ {x}
      PROVE  Allocates(t)' /\ \A d \in Device : Has(t, d)' <=> Has(t, d)
  BY <1>2, SameThread DEF Locks
<1> QED
  BY <1>1, <1>2

LEMMA HeldKept ==
  ASSUME NEW d \in Device, Held(d), \A t \in Thread : Has(t, d)' <=> Has(t, d),
         queue'[d] = SIGNALED <=> queue[d] = SIGNALED, Releasing(d)' <=> Releasing(d)
  PROVE  Held(d)'
BY DEF Held

LEMMA AllHeldKept ==
  ASSUME Locks,
         \A t \in Thread : \A d \in Device : Has(t, d)' <=> Has(t, d),
         \A d \in Device : queue'[d] = SIGNALED <=> queue[d] = SIGNALED,
         \A d \in Device : Releasing(d)' <=> Releasing(d)
  PROVE  \A d \in Device : Held(d)'
<1>1. \A d \in Device : Held(d)
  BY DEF Locks
<1> QED
  BY <1>1, HeldKept

-----------------------------------------------------------------------------
(***************************************************************************)
(* Steps that change no field of a thread that an allocation looks at.     *)
(***************************************************************************)
Quiet ==
  \/ CallYield \/ WaitRead \/ SignalRead \/ ScanThread \/ PostEvent
  \/ SwitchTask \/ ThreadYield
  \/ wq \notin Device /\ SignalStore
  \/ \E q \in Queue \ Device : \/ EventSignal(q)
                               \/ \E w \in BOOLEAN : EventWait(q, w) \/ EventWaitNext(q, w)
  \/ \E q \in IsrQueue : SignalFromISR(q)
  \/ \E p \in Prios : ThreadSetPrio(p)

\* A thread that moves within the run queue.
LEMMA MovesInRunQueue ==
  ASSUME IInv, ThreadYield \/ \E p \in Prios : ThreadSetPrio(p)
  PROVE  /\ UNCHANGED <<onq, timer, cont, ec, queue>>
         /\ ~Entering /\ pc \notin {"sigPop", "sigSet"}
         /\ pc' \in {"scan", "app", "return"}
         /\ pc' = "app" => pc = "app" /\ cur' = cur
<1>1. CASE ThreadYield
  <2>1. CASE Successor(runq, cur) = NULL
    BY <1>1, <2>1 DEF ThreadYield, SchedulerExec, Entering
  <2>2. CASE Successor(runq, cur) # NULL
    <3>1. cur \in Range(runq)
      BY <2>2, Facts, SuccessorInList
    <3>2. onq[cur] = RUNQ /\ prio \in [Thread -> Nat]
      BY <3>1, Facts
    <3>3. AddedEc(Removed(runq, cur), cur, prio, RemovedEc(runq, cur, ec)) = ec
      BY <3>1, <3>2, RequeueCurrent
    <3>4. /\ ec' = AddedEc(Removed(runq, cur), cur, prio, RemovedEc(runq, cur, ec))
          /\ onq' = [onq EXCEPT ![cur] = RUNQ] /\ UNCHANGED <<timer, cont, queue>>
          /\ pc = "yield" /\ pc' = "scan"
      BY <1>1, <2>2 DEF ThreadYield, SchedulerExec
    <3> QED
      BY <3>2, <3>3, <3>4, Timers DEF Entering
  <2> QED
    BY <2>1, <2>2
<1>2. ASSUME NEW p \in Prios, ThreadSetPrio(p)
      PROVE  /\ UNCHANGED <<onq, timer, cont, ec, queue>>
             /\ pc = "app" /\ pc' \in {"app", "return"} /\ (pc' = "app" => cur' = cur)
  <2>1. /\ cur \in Range(runq) /\ prio' = [prio EXCEPT ![cur] = p]
        /\ ec' = AddedEc(Removed(runq, cur), cur, prio', RemovedEc(runq, cur, ec))
        /\ onq' = [onq EXCEPT ![cur] = RUNQ] /\ UNCHANGED <<timer, cont, queue>>
    BY <1>2 DEF IInv, Running, ThreadSetPrio, InApp
  <2>2. prio' \in [Thread -> Nat]
    BY <2>1, Facts, Constants
  <2>3. ec' = ec
    BY <2>1, <2>2, RequeueCurrent
  <2>4. onq' = onq
    BY <2>1, Facts, Timers
  <2> QED
    BY <1>2, <2>1, <2>3, <2>4 DEF ThreadSetPrio, InApp
<1> QED
  BY <1>1, <1>2 DEF Entering

LEMMA QuietFields ==
  ASSUME LockInv, Quiet, UNCHANGED lockVars
  PROVE  /\ UNCHANGED <<onq, timer, cont>>
         /\ \A t \in Thread : Same(t)
<1>1. UNCHANGED <<onq, timer, cont>>
  <2>1. CASE ThreadYield \/ \E p \in Prios : ThreadSetPrio(p)
    BY <2>1, MovesInRunQueue DEF LockInv
  <2>2. CASE ~(ThreadYield \/ \E p \in Prios : ThreadSetPrio(p))
    BY <2>2 DEF Quiet, CallYield, WaitRead, SignalRead, ScanThread, PostEvent, SwitchTask,
       SignalStore, EventSignal, EventWait, EventWaitNext, SignalFromISR, threadVars
  <2> QED
    BY <2>1, <2>2
<1> QED
  BY <1>1 DEF Same, lockVars

LEMMA QuietControl ==
  ASSUME LockInv, Quiet, UNCHANGED lockVars
  PROVE  /\ Entering => UNCHANGED <<cur, pc, wq>>
         /\ \A d \in Device : /\ queue'[d] = queue[d]
                              /\ Releasing(d)' <=> Releasing(d)
         /\ Fresh' /\ Calls'
<1>1. CASE CallYield \/ ScanThread \/ SwitchTask
  <2>1. /\ queue' = queue /\ ~Entering /\ pc \notin {"sigPop", "sigSet"}
        /\ pc' \in {"yield", "scan", "post", "timers", "return"}
    BY <1>1 DEF CallYield, ScanThread, SwitchTask, Entering
  <2>2. pc' = "post" => onq'[threads'[scan']] \notin Device
    <3>1. CASE ScanThread
      <4>1. pc' = "post" => ec[threads[scan]] > 0 /\ scan <= Len(threads)
        BY <3>1 DEF ScanThread
      <4>2. UNCHANGED <<onq, threads>> /\ (pc' = "post" => scan' = scan)
        BY <3>1 DEF ScanThread, threadVars
      <4>3. scan <= Len(threads) => threads[scan] \in Thread
        BY DEF LockInv, IInv, TypeOK
      <4> QED
        BY <4>1, <4>2, <4>3 DEF LockInv, Locks, NoEvents
    <3>2. CASE CallYield \/ SwitchTask
      BY <3>2 DEF CallYield, SwitchTask
    <3> QED
      BY <1>1, <3>1, <3>2
  <2> QED
    BY <2>1, <2>2 DEF Releasing, Fresh, Calls, Entering
<1>2. CASE ThreadYield \/ \E p \in Prios : ThreadSetPrio(p)
  <2>1. /\ UNCHANGED <<onq, timer, cont, ec, queue>>
        /\ ~Entering /\ pc \notin {"sigPop", "sigSet"}
        /\ pc' \in {"scan", "app", "return"}
        /\ pc' = "app" => pc = "app" /\ cur' = cur
    BY <1>2, MovesInRunQueue DEF LockInv
  <2> QED
    BY <2>1 DEF Releasing, LockInv, Locks, Fresh, Calls, Entering
<1>3. CASE WaitRead
  <2>1. /\ UNCHANGED <<queue, cur, wq, cont>> /\ pc = "waitRead"
        /\ pc' \in {"consume", "block"}
    BY <1>3 DEF WaitRead, CheckEvent, callVars
  <2> QED
    BY <2>1 DEF Releasing, LockInv, Locks, Fresh, Calls, Entering
<1>4. CASE SignalRead
  <2>1. /\ UNCHANGED <<queue, cur, wq, up, cont>> /\ pc = "sigRead" /\ up = "scan"
        /\ pc' \in {"sigPop", "sigSet", "scan"}
    BY <1>4 DEF SignalRead, CheckWaiters, SignalReturns, callVars, LockInv, Locks, Calls
  <2> QED
    BY <2>1 DEF Releasing, LockInv, Locks, Fresh, Calls, Entering
<1>5. CASE PostEvent
  <2>1. /\ UNCHANGED <<queue, cur, cont>> /\ pc = "post" /\ up' = "scan"
        /\ wq' = onq[threads[scan]] /\ pc' \in {"sigRead", "scan"}
    BY <1>5 DEF PostEvent
  <2>2. wq' \notin Device
    BY <2>1 DEF LockInv, Locks, Calls
  <2> QED
    BY <2>1, <2>2 DEF Releasing, LockInv, Locks, Fresh, Calls, Entering
<1>6. CASE wq \notin Device /\ SignalStore
  <2>1. /\ wq \notin Device /\ queue' = [queue EXCEPT ![wq] = SIGNALED]
        /\ UNCHANGED <<cur, wq, cont>> /\ pc = "sigSet" /\ pc' \in {"scan", "yield"}
    BY <1>6 DEF SignalStore, SignalReturns, callVars
  <2>2. \A d \in Device : queue'[d] = queue[d]
    BY <2>1, Places DEF LockInv, IInv, TypeOK
  <2> QED
    BY <2>1, <2>2 DEF Releasing, LockInv, Locks, Fresh, Calls, Entering
<1>7. ASSUME NEW q \in Queue \ Device, EventSignal(q)
      PROVE  /\ queue' = queue /\ wq' = q /\ up' = "yield" /\ pc = "app"
             /\ pc' \in {"yield", "sigSet", "sigPop"}
  BY <1>7 DEF EventSignal, InApp
<1>8. ASSUME NEW q \in Queue \ Device, NEW w \in BOOLEAN, EventWait(q, w) \/ EventWaitNext(q, w)
      PROVE  /\ \A d \in Device : queue'[d] = queue[d]
             /\ wq' = q /\ UNCHANGED <<cur, cont>> /\ pc = "app"
             /\ pc' \in {"consume", "block", "waitRead"}
  BY <1>8, Places DEF EventWait, EventWaitNext, CheckEvent, InApp, LockInv, IInv, TypeOK
<1>9. ASSUME NEW q \in IsrQueue, SignalFromISR(q)
      PROVE  /\ \A d \in Device : queue'[d] = queue[d]
             /\ UNCHANGED <<cur, pc, wq, up, cont, onq, threads, scan>>
  BY <1>9, Places, Constants DEF SignalFromISR, callVars, threadVars, LockInv, IInv, TypeOK
<1>10. CASE \E q \in Queue \ Device : EventSignal(q)
  BY <1>7, <1>10 DEF Releasing, Fresh, Calls, Entering
<1>11. CASE \E q \in Queue \ Device, w \in BOOLEAN : EventWait(q, w) \/ EventWaitNext(q, w)
  BY <1>8, <1>11 DEF Releasing, LockInv, Locks, Fresh, Calls, Entering
<1>12. CASE \E q \in IsrQueue : SignalFromISR(q)
  <2>1. /\ \A d \in Device : queue'[d] = queue[d]
        /\ UNCHANGED <<cur, pc, wq, up, cont, onq, threads, scan, want>>
    BY <1>9, <1>12 DEF lockVars
  <2> QED
    BY <2>1 DEF Releasing, LockInv, Locks, Fresh, Calls, Entering
<1> QED
  BY <1>1, <1>2, <1>3, <1>4, <1>5, <1>6, <1>10, <1>11, <1>12 DEF Quiet

LEMMA QuietStep ==
  ASSUME LockInv, Quiet, UNCHANGED lockVars
  PROVE  Locks'
<1>1. \A t \in Thread : Allocates(t)' /\ \A d \in Device : Has(t, d)' <=> Has(t, d)
  BY QuietFields, QuietControl, SameThread DEF LockInv, Locks
<1>2. \A d \in Device : Held(d)'
  <2>1. /\ \A t \in Thread : \A d \in Device : Has(t, d)' <=> Has(t, d)
        /\ \A d \in Device : queue'[d] = SIGNALED <=> queue[d] = SIGNALED
        /\ \A d \in Device : Releasing(d)' <=> Releasing(d)
    BY <1>1, QuietControl
  <2> QED
    BY <2>1, AllHeldKept DEF LockInv
<1>3. \A t \in Thread : ec'[t] > 0 => ec[t] > 0 \/ onq[t] \notin Device
  <2>1. CASE ThreadYield \/ \E p \in Prios : ThreadSetPrio(p)
    BY <2>1, MovesInRunQueue DEF LockInv
  <2>2. CASE PostEvent
    <3>1. /\ threads[scan] \in Thread /\ onq[threads[scan]] \notin Device
          /\ ec' = [ec EXCEPT ![threads[scan]] = OneFewer(@)]
      BY <2>2 DEF PostEvent, LockInv, IInv, TypeOK, Located, Locks, Calls
    <3> QED
      BY <3>1 DEF LockInv, IInv, TypeOK
  <2>3. ASSUME NEW q \in IsrQueue, SignalFromISR(q)
        PROVE  \A t \in Thread : ec'[t] > 0 => ec[t] > 0 \/ onq[t] \notin Device
    <3>1. q \in Queue /\ q \notin Device
      BY Places, Constants
    <3>2. CASE queue[q] \in {SIGNALED, <<>>}
      BY <2>3, <3>2 DEF SignalFromISR
    <3>3. CASE queue[q] \notin {SIGNALED, <<>>}
      <4>1. queue[q] \in Seq(Thread) /\ queue[q] # <<>>
        BY <3>1, <3>3 DEF LockInv, IInv, TypeOK
      <4>2. Head(queue[q]) \in Range(queue[q])
        BY <4>1, HeadInRange
      <4>3. onq[Head(queue[q])] = q
        BY <3>1, <3>3, <4>2, Facts DEF LockInv
      <4>4. \A t \in Thread : t # Head(queue[q]) => ec'[t] = ec[t]
        BY <2>3, <3>3 DEF SignalFromISR, LockInv, IInv, TypeOK
      <4> QED
        BY <3>1, <4>3, <4>4
    <3> QED
      BY <3>2, <3>3
  <2>4. CASE \/ CallYield \/ WaitRead \/ SignalRead \/ ScanThread \/ SwitchTask
             \/ SignalStore
             \/ \E q \in Queue \ Device :
                  EventSignal(q) \/ \E w \in BOOLEAN : EventWait(q, w) \/ EventWaitNext(q, w)
    BY <2>4 DEF CallYield, WaitRead, SignalRead, ScanThread, SwitchTask, SignalStore,
       EventSignal, EventWait, EventWaitNext
  <2> QED
    BY <2>1, <2>2, <2>3, <2>4 DEF Quiet
<1>4. NoEvents' /\ Waits'
  BY <1>3, QuietFields DEF LockInv, Locks, NoEvents, Waits, lockVars
<1>5. LockTypes'
  BY DEF LockInv, Locks, LockTypes, lockVars
<1> QED
  BY <1>1, <1>2, <1>4, <1>5, QuietControl DEF Locks
-----------------------------------------------------------------------------
(***************************************************************************)
(* The events that a list change moves between threads.                    *)
(***************************************************************************)

\* A thread that leaves an event queue for the run queue.
LEMMA EventsReleased ==
  ASSUME IInv, NEW q \in Queue, NEW t \in Waiters(q),
         ec' = AddedEc(runq, t, prio, PassOn(ec, t, Successor(queue[q], t)))
  PROVE  \A u \in Thread :
           ec'[u] > 0 => u # t /\ (ec[u] > 0 \/ (u \in Waiters(q) /\ ec[t] > 0))
<1> DEFINE l == queue[q]
           n == Successor(l, t)
           e == PassOn(ec, t, n)
<1>1. /\ l # SIGNALED /\ l \in Seq(Thread) /\ NoDuplicates(l) /\ t \in Range(l)
      /\ Range(l) \subseteq Thread /\ \A u \in Range(l) : u \notin Range(runq)
      /\ ec \in [Thread -> Nat] /\ \A u \in Range(runq) : ec[u] = 0
  BY Facts DEF Waiters
<1>2. n # NULL => n \in Range(l)
  BY <1>1, SuccessorInList
<1>3. /\ DOMAIN e = Thread
      /\ \A u \in Thread : e[u] = IF u = t THEN 0
                                 ELSE IF u = n /\ ec[t] > 0 THEN ec[t] ELSE ec[u]
  BY <1>1 DEF PassOn
<1>4. e \in [Thread -> Nat]
  <2>1. \A u \in Thread : e[u] \in Nat
    BY <1>1, <1>3
  <2>2. e = [u \in Thread |-> e[u]]
    BY <1>1 DEF PassOn
  <2> QED
    BY <2>1, <2>2
<1>5. \A u \in Range(runq) : e[u] = 0
  BY <1>1, <1>2, <1>3, Facts, Constants
<1>6. t \in Thread /\ t \notin Range(runq) /\ prio \in [Thread -> Nat]
  BY <1>1, Facts
<1>7. ec' = [e EXCEPT ![t] = 0]
  <2>1. AddedEc(runq, t, prio, e) = [e EXCEPT ![t] = 0]
    <3> HIDE DEF e
    <3> QED
      BY <1>4, <1>5, <1>6, JoinRunQueue
  <2> QED
    BY <2>1
<1>8. \A u \in Thread :
        e[u] > 0 => u # t /\ (ec[u] > 0 \/ (u = n /\ n # NULL /\ ec[t] > 0))
  BY <1>1, <1>3, Constants
<1>9. \A u \in Thread : ec'[u] > 0 => u # t /\ e[u] > 0
  <2> HIDE DEF e
  <2> QED
    BY <1>4, <1>6, <1>7
<1> QED
  BY <1>1, <1>2, <1>8, <1>9 DEF Waiters

\* A thread that enters an event queue where others wait.
LEMMA EventsLinked ==
  ASSUME IInv, LinkWaiter
  PROVE  \A u \in Thread : ec'[u] > 0 =>
           IF u = cur THEN \E n \in Waiters(wq) : ec[n] > 0 ELSE ec[u] > 0
<1> DEFINE l == queue[wq]
           s == PrioInsert(l, cur, prio)
           n == Successor(s, cur)
<1>1. /\ wq \in Queue /\ l # SIGNALED /\ onq[cur] = wq /\ pc = "link"
  BY DEF LinkWaiter, IInv, Located, Running
<1>2. /\ l \in Seq(Thread) /\ NoDuplicates(l) /\ cur \in Thread
      /\ prio \in [Thread -> Nat] /\ ec \in [Thread -> Nat]
  BY <1>1, Facts
<1>3. cur \notin Range(l)
  BY <1>1, <1>2 DEF IInv, OneList, Waiters
<1>4. /\ s \in Seq(Thread) /\ Range(s) = Range(l) \cup {cur} /\ NoDuplicates(s)
  <2>1. s \in Seq(Thread)
    BY <1>2, PrioInsertProps
  <2>2. Range(s) = Range(l) \cup {cur}
    BY <1>2, PrioInsertRange
  <2>3. NoDuplicates(s)
    BY <1>2, <1>3, PrioInsertOnce
  <2> QED
    BY <2>1, <2>2, <2>3
<1>5. n # NULL => n \in Waiters(wq) /\ n \in Thread
  <2>1. n # NULL => n \in Range(s) \ {cur}
    <3> HIDE DEF s
    <3> QED
      BY <1>4, SuccessorInList
  <2>2. Range(l) \subseteq Thread
    BY <1>1, Facts
  <2> QED
    BY <1>1, <1>4, <2>1, <2>2 DEF Waiters
<1>6. ec' = TakeOver(ec, cur, n)
  <2>1. queue'[wq] = s /\ ec' = TakeOver(ec, cur, Successor(queue'[wq], cur))
    BY <1>1 DEF LinkWaiter, IInv, TypeOK
  <2> QED
    BY <2>1
<1>7. \A u \in Thread : ec'[u] = IF u = cur THEN (IF n = NULL THEN 0 ELSE ec[n])
                                 ELSE IF u = n THEN 0 ELSE ec[u]
  <2> HIDE DEF n
  <2> QED
    BY <1>2, <1>6 DEF TakeOver
<1> HIDE DEF n
<1> QED
  BY <1>5, <1>7
-----------------------------------------------------------------------------
(***************************************************************************)
(* Steps of one thread that allocates nothing.                             *)
(***************************************************************************)
LEMMA LoneStep ==
  ASSUME LockInv, UNCHANGED lockVars,
         NEW x \in Thread, \A t \in Thread \ {x} : Same(t), Entering => x = cur,
         want[x] = NULL, onq'[x] = onq[x] \/ onq'[x] \notin Device,
         \A d \in Device : queue'[d] = queue[d],
         \A d \in Device : Releasing(d)' <=> Releasing(d),
         Fresh', Calls', NoEvents'
  PROVE  Locks'
<1>1. want'[x] = NULL /\ holds'[x] = holds[x] /\ Locks
  BY DEF lockVars, LockInv
<1>2. \A t \in Thread : Allocates(t)' /\ \A d \in Device : Has(t, d)' <=> Has(t, d)
  BY <1>1, LoneThread
<1>3. \A d \in Device : Held(d)'
  BY <1>1, <1>2, AllHeldKept
<1>4. LockTypes' /\ Waits'
  BY DEF LockInv, Locks, LockTypes, Waits, lockVars, Same
<1> QED
  BY <1>2, <1>3, <1>4 DEF Locks

\* The running thread enters another queue, or leaves the run queue.
LEMMA CurrentStep ==
  ASSUME LockInv, UNCHANGED lockVars,
         \/ wq \notin Device /\ (ConsumeEvent \/ BlockFirst \/ BlockBehind \/ LinkWaiter)
         \/ ThreadSleep \/ ThreadWait
         \/ want[cur] = NULL /\ CallReturn
  PROVE  Locks'
<1>1. /\ cur \in Thread /\ cur' = cur
      /\ \A t \in Thread \ {cur} : Same(t)
  BY Timers DEF ConsumeEvent, BlockFirst, BlockBehind, LinkWaiter, ThreadSleep, ThreadWait,
     CallReturn, threadVars, GoToSleep, lockVars, Same, LockInv
<1>2. want[cur] = NULL
  <2>1. CASE wq \notin Device /\ (ConsumeEvent \/ BlockFirst \/ BlockBehind \/ LinkWaiter)
    BY <2>1, IdleEntering DEF ConsumeEvent, BlockFirst, BlockBehind, LinkWaiter, Entering
  <2>2. CASE ThreadSleep \/ ThreadWait
    BY <2>2, IdleCaller DEF ThreadSleep, ThreadWait, InApp
  <2> QED
    BY <2>1, <2>2
<1>3. \A d \in Device : queue'[d] = queue[d]
  BY Places DEF ConsumeEvent, BlockFirst, BlockBehind, LinkWaiter, ThreadSleep, ThreadWait,
     CallReturn, LockInv, IInv, TypeOK
<1>4. /\ \/ pc' \in {"yield", "scan", "app"}
         \/ pc' = "link" /\ wq' = wq /\ wq \notin Device /\ pc = "block" /\ cont' = cont
      /\ pc \in {"consume", "block", "link", "app", "return"}
      /\ pc' = "app" => cont'[cur] = "return"
  BY Timers DEF ConsumeEvent, BlockFirst, BlockBehind, LinkWaiter, ThreadSleep, ThreadWait,
     CallReturn, GoToSleep, SchedulerExec, InApp, callVars, LockInv
<1>5. (\A d \in Device : Releasing(d)' <=> Releasing(d)) /\ Fresh' /\ Calls'
  BY <1>1, <1>4 DEF Releasing, LockInv, Locks, Fresh, Calls, Entering
<1>6. NoEvents'
  <2>1. CASE ConsumeEvent \/ CallReturn
    BY <2>1 DEF ConsumeEvent, CallReturn, threadVars, LockInv, Locks, NoEvents
  <2>2. CASE \/ ThreadSleep \/ ThreadWait
             \/ wq \notin Device /\ (BlockFirst \/ BlockBehind)
    <3>1. cur \in Range(runq)
      BY <2>2 DEF ThreadSleep, ThreadWait, BlockFirst, BlockBehind, InApp, LockInv, IInv, Running
    <3>2. RemovedEc(runq, cur, ec) = ec
      BY <3>1, QuitRunQueue DEF LockInv
    <3>3. \A u \in Thread \ {cur} : ec'[u] = ec[u]
      BY <2>2, <3>2 DEF ThreadSleep, ThreadWait, BlockFirst, BlockBehind, LeaveRunQueue,
         LockInv, IInv, TypeOK
    <3>4. onq'[cur] \notin Device
      BY <2>2, Timers, Places DEF ThreadSleep, ThreadWait, BlockFirst, BlockBehind, LockInv
    <3> QED
      BY <1>1, <3>3, <3>4 DEF Same, LockInv, Locks, NoEvents
  <2>3. CASE wq \notin Device /\ LinkWaiter
    <3>1. onq' = onq /\ onq[cur] = wq
      BY <2>3 DEF LinkWaiter, LockInv, IInv, Running
    <3>2. \A u \in Thread \ {cur} : ec'[u] > 0 => ec[u] > 0
      BY <2>3, EventsLinked DEF LockInv
    <3> QED
      BY <2>3, <3>1, <3>2 DEF LockInv, Locks, NoEvents
  <2> QED
    BY <2>1, <2>2, <2>3
<1>7. onq'[cur] = onq[cur] \/ onq'[cur] \notin Device
  BY Timers, Places DEF ConsumeEvent, BlockFirst, BlockBehind, LinkWaiter, ThreadSleep,
     ThreadWait, CallReturn, threadVars, LockInv
<1> QED
  BY <1>1, <1>2, <1>3, <1>5, <1>6, <1>7, LoneStep

\* Another thread gets ready.
LEMMA WakeStep ==
  ASSUME LockInv, UNCHANGED lockVars, NEW x \in Thread,
         onq[x] # RUNQ, onq[x] \notin Device, onq' = [onq EXCEPT ![x] = RUNQ],
         \A t \in Thread \ {x} : timer'[t] = timer[t],
         cont' = cont, cur' = cur,
         \A u \in Thread : ec'[u] > 0 => u = x \/ ec[u] > 0 \/ onq[u] \notin Device,
         \A d \in Device : queue'[d] = queue[d],
         \/ pc = "sigPop" /\ pc' \in {"yield", "scan"} /\ wq \notin Device
         \/ pc = "app" /\ pc' \in {"app", "yield"}
         \/ pc = "timers" /\ pc' = "timers"
  PROVE  Locks'
<1>1. ~Entering /\ pc' \in {"yield", "scan", "timers", "app"}
  BY DEF Entering
<1>2. want[x] = NULL
  BY <1>1, IdleElsewhere
<1>3. \A t \in Thread \ {x} : Same(t)
  BY Timers DEF Same, lockVars, LockInv
<1>4. (\A d \in Device : Releasing(d)' <=> Releasing(d)) /\ Fresh' /\ Calls'
  BY <1>1 DEF Releasing, LockInv, Locks, Fresh, Calls, Entering
<1>5. NoEvents'
  BY <1>3, Timers, Places DEF LockInv, Locks, NoEvents, Same
<1>6. onq'[x] \notin Device
  BY Timers, Places DEF LockInv
<1> QED
  BY <1>1, <1>2, <1>3, <1>4, <1>5, <1>6, LoneStep

\* A thread off all lists joins the run queue.
LEMMA JoinsStep ==
  ASSUME LockInv, UNCHANGED lockVars, NEW x \in Thread,
         \/ ThreadCreate(x)
         \/ ThreadTimeout(x)
         \/ Notifiable(x) /\ ThreadNotify(x) /\ state[x] = "WAITING"
  PROVE  Locks'
<1>1. onq[x] = NULL
  BY DEF ThreadCreate, ThreadTimeout, ThreadNotify, LockInv, IInv, Created, OffLists
<1>2. x \notin Range(runq) /\ prio \in [Thread -> Nat] /\ ec \in [Thread -> Nat]
      /\ \A u \in Range(runq) : ec[u] = 0
  BY <1>1, Facts, Constants DEF LockInv
<1>3. ec' = AddedEc(runq, x, prio, ec)
  BY DEF ThreadCreate, ThreadTimeout, ThreadNotify
<1>4. ec' = [ec EXCEPT ![x] = 0]
  BY <1>2, <1>3, JoinRunQueue DEF LockInv
<1>5. \A u \in Thread : ec'[u] > 0 => u = x \/ ec[u] > 0 \/ onq[u] \notin Device
  BY <1>2, <1>4
<1>6. /\ onq' = [onq EXCEPT ![x] = RUNQ] /\ cont' = cont /\ cur' = cur /\ queue' = queue
      /\ \A t \in Thread \ {x} : timer'[t] = timer[t]
      /\ \/ pc = "app" /\ pc' \in {"app", "yield"}
         \/ pc = "timers" /\ pc' = "timers"
  BY Timers DEF ThreadCreate, ThreadTimeout, ThreadNotify, InApp, LockInv
<1> QED
  BY <1>1, <1>5, <1>6, WakeStep, Places, Constants

LEMMA NotifyStep ==
  ASSUME NotifySleepers = FALSE, LockInv, UNCHANGED lockVars,
         NEW t \in Thread, Notifiable(t), ThreadNotify(t)
  PROVE  Locks'
<1>1. CASE state[t] \in {"WAITING", "SLEEPING"}
  <2>1. state[t] = "WAITING"
    BY <1>1 DEF Notifiable
  <2> QED
    BY <2>1, JoinsStep
<1>2. CASE state[t] \notin {"WAITING", "SLEEPING"}
  <2>1. /\ UNCHANGED <<onq, timer, cont, cur, ec, queue, wq>> /\ pc = "app" /\ pc' = "yield"
    BY <1>2 DEF ThreadNotify, InApp, callVars
  <2>2. want[cur] = NULL /\ cur \in Thread
    BY <2>1, IdleCaller DEF LockInv, IInv, TypeOK
  <2>3. \A u \in Thread : Same(u)
    BY <2>1 DEF Same, lockVars
  <2>4. (\A d \in Device : Releasing(d)' <=> Releasing(d)) /\ Fresh' /\ Calls' /\ NoEvents'
    BY <2>1 DEF Releasing, LockInv, Locks, Fresh, Calls, NoEvents, Entering
  <2> QED
    BY <2>1, <2>2, <2>3, <2>4, LoneStep
<1> QED
  BY <1>1, <1>2

\* A thread leaves another event queue, with its event or after its time-out.
LEMMA ElsewhereStep ==
  ASSUME LockInv, UNCHANGED lockVars,
         \/ wq \notin Device /\ SignalPop
         \/ \E t \in Thread : timer[t] \notin Device /\ EventTMO(t)
  PROVE  Locks'
<1>1. ASSUME NEW q \in Queue \ Device, NEW x \in Waiters(q),
             ec' = AddedEc(runq, x, prio, PassOn(ec, x, Successor(queue[q], x))),
             queue' = [queue EXCEPT ![q] = Released(@, x, ec)],
             onq' = [onq EXCEPT ![x] = RUNQ], cont' = cont, cur' = cur,
             \A t \in Thread \ {x} : timer'[t] = timer[t],
             \/ pc = "sigPop" /\ pc' \in {"yield", "scan"} /\ wq \notin Device
             \/ pc = "timers" /\ pc' = "timers"
      PROVE  Locks'
  <2>1. \A u \in Waiters(q) : onq[u] = q /\ u \in Thread
    BY Facts DEF LockInv, Waiters
  <2>2. \A u \in Thread : ec'[u] > 0 => u # x /\ (ec[u] > 0 \/ u \in Waiters(q))
    BY <1>1, EventsReleased DEF LockInv
  <2>3. \A d \in Device : queue'[d] = queue[d]
    BY <1>1, Places DEF LockInv, IInv, TypeOK
  <2>4. x \in Thread /\ onq[x] # RUNQ /\ onq[x] \notin Device
    BY <2>1, Constants
  <2>5. \A u \in Thread : ec'[u] > 0 => u = x \/ ec[u] > 0 \/ onq[u] \notin Device
    BY <2>1, <2>2
  <2>6. \/ pc = "sigPop" /\ pc' \in {"yield", "scan"} /\ wq \notin Device
        \/ pc = "timers" /\ pc' = "timers"
    BY <1>1
  <2>7. onq' = [onq EXCEPT ![x] = RUNQ] /\ cont' = cont /\ cur' = cur
        /\ \A t \in Thread \ {x} : timer'[t] = timer[t]
    BY <1>1
  <2> QED
    BY <2>3, <2>4, <2>5, <2>6, <2>7, WakeStep
<1>2. CASE wq \notin Device /\ SignalPop
  <2> DEFINE x == Head(queue[wq])
  <2>1. wq \in Queue /\ queue[wq] # SIGNALED /\ queue[wq] # <<>>
    BY <1>2 DEF SignalPop, LockInv, IInv, Located
  <2>2. x \in Waiters(wq) /\ x \in Thread
    BY <2>1, Facts, HeadInRange DEF LockInv, Waiters
  <2>3. /\ ec' = AddedEc(runq, x, prio, PassOn(ec, x, Successor(queue[wq], x)))
        /\ queue' = [queue EXCEPT ![wq] = Released(@, x, ec)]
        /\ onq' = [onq EXCEPT ![x] = RUNQ] /\ cont' = cont /\ cur' = cur
        /\ timer' = [timer EXCEPT ![x] = NULL]
        /\ pc = "sigPop" /\ pc' \in {"yield", "scan"}
    BY <1>2 DEF SignalPop, StopTimer, SignalReturns
  <2>4. \A t \in Thread \ {x} : timer'[t] = timer[t]
    BY <2>3, Timers DEF LockInv
  <2> HIDE DEF x
  <2> QED
    BY <1>1, <1>2, <2>1, <2>2, <2>3, <2>4
<1>3. ASSUME NEW t \in Thread, timer[t] \notin Device, EventTMO(t)
      PROVE  Locks'
  <2> DEFINE q == timer[t]
  <2>1. /\ q \in Queue \ Device
        /\ ec' = AddedEc(runq, t, prio, PassOn(ec, t, Successor(queue[q], t)))
        /\ queue' = [queue EXCEPT ![q] = Released(@, t, ec)]
        /\ onq' = [onq EXCEPT ![t] = RUNQ] /\ cont' = cont /\ cur' = cur
        /\ timer' = [timer EXCEPT ![t] = SIGNALED]
        /\ pc = "timers" /\ pc' = "timers"
    BY <1>3 DEF EventTMO
  <2>2. t \in Waiters(q)
    BY <2>1 DEF LockInv, IInv, OneList, Resume, Resumable
  <2>3. \A u \in Thread \ {t} : timer'[u] = timer[u]
    BY <2>1, Timers DEF LockInv
  <2> HIDE DEF q
  <2> QED
    BY <1>1, <2>1, <2>2, <2>3
<1> QED
  BY <1>2, <1>3

-----------------------------------------------------------------------------
(***************************************************************************)
(* Steps of an allocation and of a release.                                *)
(***************************************************************************)

\* Steps of the thread x that leave the event where it is.
LEMMA ThreadStep ==
  ASSUME LockInv, NEW x \in Thread, \A t \in Thread \ {x} : Same(t), Entering => x = cur,
         \A d \in Device : Has(x, d)' <=> Has(x, d), Allocates(x)',
         onq'[x] \in Device => want'[x] = onq'[x],
         \A d \in Device : queue'[d] = SIGNALED <=> queue[d] = SIGNALED,
         \A d \in Device : Releasing(d)' <=> Releasing(d),
         LockTypes', Fresh', Calls', NoEvents'
  PROVE  Locks'
<1>1. ASSUME NEW t \in Thread \ {x}
      PROVE  Allocates(t)' /\ \A d \in Device : Has(t, d)' <=> Has(t, d)
  BY <1>1, SameThread DEF LockInv, Locks
<1>2. \A t \in Thread : Allocates(t)' /\ \A d \in Device : Has(t, d)' <=> Has(t, d)
  BY <1>1
<1>3. \A d \in Device : Held(d)'
  BY <1>2, AllHeldKept DEF LockInv
<1>4. Waits'
  BY DEF LockInv, Locks, Waits, Same
<1> QED
  BY <1>2, <1>3, <1>4 DEF Locks

LEMMA DeviceAllocStep ==
  ASSUME LockInv, NEW d \in Device, NEW w \in BOOLEAN, DeviceAlloc(d, w)
  PROVE  Locks'
<1>1. /\ pc = "app" /\ wq' = d /\ cur' = cur /\ cur \in Thread
      /\ UNCHANGED <<queue, ec, onq, timer, cont, holds>>
      /\ want' = [want EXCEPT ![cur] = d]
      /\ pc' = "consume" \/ (pc' = "block" /\ queue[d] # SIGNALED)
  BY DEF DeviceAlloc, EventWait, CheckEvent, InApp, threadVars, LockInv, IInv, TypeOK
<1>2. want[cur] = NULL /\ cont[cur] = "return" /\ want \in [Thread -> Device \cup {NULL}]
      /\ want'[cur] = d
  BY <1>1, IdleCaller DEF LockInv, Locks, Fresh, LockTypes
<1>3. \A t \in Thread \ {cur} : Same(t)
  BY <1>1, <1>2 DEF Same
<1>4. (\A e \in Device : Has(cur, e)' <=> Has(cur, e)) /\ Allocates(cur)'
  BY <1>1, <1>2, Places DEF Has, Allocates, Entering
<1>5. LockTypes' /\ Fresh' /\ Calls' /\ NoEvents'
  BY <1>1, <1>2 DEF LockInv, Locks, LockTypes, Fresh, Calls, NoEvents, Entering
<1>6. onq[cur] = RUNQ
  BY <1>1, Facts DEF LockInv, IInv, Running
<1>7. \A e \in Device : Releasing(e)' <=> Releasing(e)
  BY <1>1 DEF Releasing
<1> QED
  BY <1>1, <1>3, <1>4, <1>5, <1>6, <1>7, ThreadStep, Places DEF Entering

LEMMA AllocReturnStep ==
  ASSUME LockInv, AllocReturn
  PROVE  Locks'
<1>1. /\ pc = "return" /\ pc' = "app" /\ cur' = cur /\ cur \in Thread /\ want[cur] # NULL
      /\ UNCHANGED <<queue, ec, onq, wq>> /\ cont' = [cont EXCEPT ![cur] = "return"]
      /\ timer' = [timer EXCEPT ![cur] = IF cont[cur] = "blocked" /\ @ = SIGNALED
                                         THEN NULL ELSE @]
      /\ want' = [want EXCEPT ![cur] = NULL]
  BY DEF AllocReturn, CallReturn, callVars, LockInv, IInv, TypeOK
<1>2. onq[cur] = RUNQ
  BY <1>1, Facts DEF LockInv, IInv, Running
<1>3. cont[cur] \in {"granted", "blocked"}
  BY <1>1 DEF LockInv, Locks, Allocates, Entering
<1>4. /\ want \in [Thread -> Device \cup {NULL}] /\ holds \in [Thread -> SUBSET Device]
      /\ cont \in [Thread -> Cont]
      /\ timer \in [Thread -> Queue \cup {SLEEP, SIGNALED, NULL}]
  BY Timers DEF LockInv, Locks, LockTypes
<1>5. \E h \in SUBSET Device : holds' = [holds EXCEPT ![cur] = h]
  <2>1. holds[cur] \in SUBSET Device /\ want[cur] \in Device
    BY <1>1, <1>4
  <2>2. \/ holds' = [holds EXCEPT ![cur] = holds[cur]]
        \/ holds' = [holds EXCEPT ![cur] = holds[cur] \cup {want[cur]}]
    BY <1>1, <1>4 DEF AllocReturn
  <2> QED
    BY <2>1, <2>2
<1>6. \A t \in Thread \ {cur} : Same(t)
  BY <1>1, <1>4, <1>5 DEF Same
<1>7. (\A e \in Device : Has(cur, e)' <=> Has(cur, e)) /\ Allocates(cur)'
  <2>1. want'[cur] = NULL
    BY <1>1, <1>4
  <2>2. CASE cont[cur] = "blocked" /\ timer[cur] = SIGNALED
    BY <1>1, <1>4, <2>1, <2>2, Places DEF AllocReturn, Has, Allocates
  <2>3. CASE ~(cont[cur] = "blocked" /\ timer[cur] = SIGNALED)
    <3>1. \A e \in Device : Has(cur, e) <=> e \in holds[cur] \/ e = want[cur]
      BY <1>2, <1>3, <2>3 DEF Has
    <3>2. holds'[cur] = holds[cur] \cup {want[cur]}
      BY <1>1, <1>4, <2>3 DEF AllocReturn
    <3> QED
      BY <1>1, <2>1, <3>1, <3>2, Places DEF Has, Allocates
  <2> QED
    BY <2>2, <2>3
<1>8. LockTypes' /\ Fresh' /\ Calls' /\ NoEvents'
  BY <1>1, <1>4, <1>5 DEF LockInv, Locks, LockTypes, Fresh, Calls, NoEvents, Entering
<1>9. \A e \in Device : Releasing(e)' <=> Releasing(e)
  BY <1>1 DEF Releasing
<1> QED
  BY <1>1, <1>2, <1>6, <1>7, <1>8, <1>9, ThreadStep, Places DEF Entering

\* A thread blocks, in the queue of a device.
LEMMA BlockStep ==
  ASSUME LockInv, UNCHANGED lockVars, wq \in Device,
         BlockFirst \/ BlockBehind \/ LinkWaiter
  PROVE  Locks'
<1>1. /\ Entering /\ cur \in Thread /\ cur' = cur /\ wq' = wq /\ wq \in Queue
      /\ want[cur] = wq /\ cont[cur] = "return"
      /\ UNCHANGED <<want, holds>>
  BY Places DEF BlockFirst, BlockBehind, LinkWaiter, Entering, callVars, lockVars,
     LockInv, IInv, TypeOK, Locks, Fresh, Calls
<1>2. onq'[cur] = wq
  BY <1>1, Timers DEF BlockFirst, BlockBehind, LinkWaiter, LockInv, IInv, Running
<1>3. \/ pc' = "scan" /\ cont'[cur] = "blocked"
      \/ pc' = "link" /\ cont' = cont
  BY <1>1, Timers DEF BlockFirst, BlockBehind, LinkWaiter, GoToSleep, SchedulerExec, LockInv
<1>4. \A t \in Thread \ {cur} : Same(t)
  BY <1>1, Timers DEF BlockFirst, BlockBehind, LinkWaiter, threadVars, GoToSleep, Same, LockInv
<1>5. (\A e \in Device : Has(cur, e)' <=> Has(cur, e)) /\ Allocates(cur)'
  BY <1>1, <1>2, <1>3, Places DEF Has, Allocates, Entering
<1>6. \A e \in Device : queue'[e] = SIGNALED <=> queue[e] = SIGNALED
  <2>1. queue[wq] # SIGNALED
    BY <1>1 DEF BlockFirst, BlockBehind, LinkWaiter, LockInv, IInv, Located, Locks, Calls
  <2>2. queue'[wq] # SIGNALED
    <3>1. CASE BlockFirst
      <4>1. queue'[wq] = <<cur>>
        BY <1>1, <3>1 DEF BlockFirst, LockInv, IInv, TypeOK
      <4>2. <<cur>> \in Seq(Thread)
        BY <1>1
      <4> QED
        BY <4>1, <4>2, Constants
    <3>2. CASE BlockBehind
      BY <2>1, <3>2 DEF BlockBehind
    <3>3. CASE LinkWaiter
      <4>1. queue'[wq] = PrioInsert(queue[wq], cur, prio)
        BY <1>1, <3>3 DEF LinkWaiter, LockInv, IInv, TypeOK
      <4>2. queue[wq] \in Seq(Thread) /\ prio \in [Thread -> Nat]
        BY <1>1, <2>1, Facts DEF LockInv
      <4>3. PrioInsert(queue[wq], cur, prio) \in Seq(Thread)
        BY <1>1, <4>2, PrioInsertProps
      <4> QED
        BY <4>1, <4>3, Constants
    <3> QED
      BY <3>1, <3>2, <3>3
  <2>3. \A e \in Device \ {wq} : queue'[e] = queue[e]
    BY Places DEF BlockFirst, BlockBehind, LinkWaiter, LockInv, IInv, TypeOK
  <2> QED
    BY <2>1, <2>2, <2>3
<1>7. NoEvents'
  <2>1. CASE BlockFirst \/ BlockBehind
    <3>1. cur \in Range(runq)
      BY <2>1 DEF BlockFirst, BlockBehind, LockInv, IInv, Running
    <3>2. RemovedEc(runq, cur, ec) = ec /\ ec[cur] = 0 /\ ec \in [Thread -> Nat]
      BY <3>1, QuitRunQueue, Facts DEF LockInv
    <3>3. queue[wq] # SIGNALED
      BY <1>1, <2>1 DEF BlockFirst, BlockBehind, LockInv, Locks, Calls
    <3>4. ec'[cur] = 0 /\ \A u \in Thread \ {cur} : ec'[u] = ec[u]
      BY <1>1, <2>1, <3>2, <3>3 DEF BlockFirst, BlockBehind, LeaveRunQueue
    <3> QED
      BY <1>4, <3>4 DEF LockInv, Locks, NoEvents, Same
  <2>2. CASE LinkWaiter
    <3>1. \A n \in Waiters(wq) : onq[n] = wq /\ n \in Thread
      BY <1>1, Facts DEF LockInv, Waiters
    <3>2. \A n \in Waiters(wq) : ~(ec[n] > 0)
      BY <3>1 DEF LockInv, Locks, NoEvents
    <3>3. \A u \in Thread : ec'[u] > 0 => u # cur /\ ec[u] > 0
      BY <2>2, <3>2, EventsLinked DEF LockInv
    <3> QED
      BY <1>4, <3>3 DEF LockInv, Locks, NoEvents, Same
  <2> QED
    BY <2>1, <2>2
<1>8. LockTypes' /\ Fresh' /\ Calls'
  BY <1>1, <1>3 DEF LockInv, Locks, LockTypes, Fresh, Calls, Entering
<1>9. \A e \in Device : Releasing(e)' <=> Releasing(e)
  BY <1>1, <1>3 DEF Releasing, Entering
<1> QED
  BY <1>1, <1>2, <1>4, <1>5, <1>6, <1>7, <1>8, <1>9, ThreadStep

\* A wait for a device is given up after its time-out.
LEMMA GiveUpStep ==
  ASSUME LockInv, UNCHANGED lockVars, NEW t \in Thread, timer[t] \in Device, EventTMO(t)
  PROVE  Locks'
<1> DEFINE d == timer[t]
<1>1. /\ d \in Queue /\ d \in Device /\ queue[d] # SIGNALED
      /\ pc = "timers" /\ pc' = "timers" /\ UNCHANGED <<want, holds, cont, cur>>
      /\ ec' = AddedEc(runq, t, prio, PassOn(ec, t, Successor(queue[d], t)))
      /\ queue' = [queue EXCEPT ![d] = Released(@, t, ec)]
      /\ onq' = [onq EXCEPT ![t] = RUNQ]
      /\ timer' = [timer EXCEPT ![t] = SIGNALED]
  BY DEF EventTMO, lockVars
<1>2. onq[t] = d /\ cont[t] = "blocked"
  BY <1>1 DEF LockInv, Resume, Resumable
<1>3. t \in Waiters(d) /\ \A u \in Waiters(d) : u \in Thread /\ onq[u] = d
  BY <1>1, <1>2, Facts DEF LockInv, IInv, OneList, Waiters
<1>4. \A u \in Waiters(d) : ~(ec[u] > 0)
  BY <1>1, <1>3 DEF LockInv, Locks, NoEvents
<1>5. \A u \in Thread : ec'[u] > 0 => u # t /\ ec[u] > 0
  <2> HIDE DEF d
  <2>1. \A u \in Thread :
          ec'[u] > 0 => u # t /\ (ec[u] > 0 \/ (u \in Waiters(d) /\ ec[t] > 0))
    BY <1>1, <1>3, EventsReleased DEF LockInv
  <2> QED
    BY <1>3, <1>4, <2>1
<1>6. \A e \in Device : queue'[e] = SIGNALED <=> queue[e] = SIGNALED
  <2>1. queue[d] \in Seq(Thread) /\ NoDuplicates(queue[d])
    BY <1>1, Facts DEF LockInv
  <2>2. queue'[d] = RemoveFirst(queue[d], t)
    BY <1>1, <1>3, <1>4 DEF Released, LockInv, IInv, TypeOK
  <2>3. queue'[d] # SIGNALED
    BY <2>1, <2>2, RemoveFirstProps, Constants
  <2>4. \A e \in Device \ {d} : queue'[e] = queue[e]
    BY <1>1, Places DEF LockInv, IInv, TypeOK
  <2> QED
    BY <1>1, <2>3, <2>4
<1>7. \A u \in Thread \ {t} : Same(u)
  BY <1>1, Timers DEF Same, LockInv
<1>8. onq'[t] = RUNQ /\ timer'[t] = SIGNALED
  BY <1>1, Timers DEF LockInv
<1>9. (\A e \in Device : Has(t, e)' <=> Has(t, e)) /\ Allocates(t)'
  BY <1>1, <1>2, <1>8, Places DEF Has, Allocates
<1>10. LockTypes' /\ Fresh' /\ Calls'
  BY <1>1 DEF LockInv, Locks, LockTypes, Fresh, Calls, Entering
<1>11. NoEvents'
  BY <1>5, <1>7 DEF LockInv, Locks, NoEvents, Same
<1>12. \A e \in Device : Releasing(e)' <=> Releasing(e)
  BY <1>1 DEF Releasing
<1>13. ~Entering
  BY <1>1 DEF Entering
<1> QED
  BY <1>6, <1>7, <1>8, <1>9, <1>10, <1>11, <1>12, <1>13, ThreadStep, Places

\* Steps by which the event of the device d gets to or from the thread x.
LEMMA MoveStep ==
  ASSUME LockInv, NEW x \in Thread, \A t \in Thread \ {x} : Same(t), Entering => x = cur,
         NEW d \in Device, Held(d)', Allocates(x)',
         onq'[x] \in Device => want'[x] = onq'[x],
         \A e \in Device \ {d} : Has(x, e)' <=> Has(x, e),
         \A e \in Device \ {d} : queue'[e] = queue[e],
         \A e \in Device : Releasing(e) \/ Releasing(e)' => e = d,
         LockTypes', Fresh', Calls', NoEvents'
  PROVE  Locks'
<1>1. ASSUME NEW t \in Thread \ {x}
      PROVE  Allocates(t)' /\ \A e \in Device : Has(t, e)' <=> Has(t, e)
  BY <1>1, SameThread DEF LockInv, Locks
<1>2. \A t \in Thread : Allocates(t)'
  BY <1>1
<1>3. ASSUME NEW e \in Device \ {d}
      PROVE  Held(e)'
  <2>1. \A t \in Thread : Has(t, e)' <=> Has(t, e)
    BY <1>1
  <2>2. Held(e) /\ queue'[e] = queue[e] /\ (Releasing(e)' <=> Releasing(e))
    BY DEF LockInv, Locks
  <2> QED
    BY <2>1, <2>2, HeldKept
<1>4. Waits'
  BY DEF LockInv, Locks, Waits, Same
<1> QED
  BY <1>2, <1>3, <1>4 DEF Locks

LEMMA TakeStep ==
  ASSUME LockInv, UNCHANGED lockVars, wq \in Device, ConsumeEvent
  PROVE  Locks'
<1>1. /\ pc = "consume" /\ pc' = "yield" /\ UNCHANGED <<want, holds, onq, timer, ec, cur, wq>>
      /\ queue' = [queue EXCEPT ![wq] = <<>>] /\ cont' = [cont EXCEPT ![cur] = "granted"]
      /\ cur \in Thread /\ wq \in Queue
  BY Places DEF ConsumeEvent, threadVars, callVars, lockVars, LockInv, IInv, TypeOK
<1>2. /\ queue[wq] = SIGNALED /\ want[cur] = wq /\ onq[cur] = RUNQ /\ cont'[cur] = "granted"
      /\ cont[cur] = "return"
  BY <1>1, Facts, Timers DEF LockInv, IInv, Located, Running, Locks, Calls, Fresh, Entering
<1>3. \A t \in Thread \ {cur} : Same(t)
  BY <1>1, Timers DEF Same, LockInv
<1>4. queue'[wq] # SIGNALED /\ \A e \in Device \ {wq} : queue'[e] = queue[e]
  <2>1. <<>> \in Seq(Thread)
    OBVIOUS
  <2> QED
    BY <1>1, <2>1, Constants, Places DEF LockInv, IInv, TypeOK
<1>5. \A t \in Thread : ~Has(t, wq)
  BY <1>2 DEF LockInv, Locks, Held
<1>6. Has(cur, wq)'
  BY <1>1, <1>2 DEF Has
<1>7. \A t \in Thread \ {cur} : ~Has(t, wq)'
  BY <1>1, <1>3, <1>5 DEF Has, Same
<1>8. \A e \in Device : ~Releasing(e) /\ ~Releasing(e)'
  BY <1>1 DEF Releasing
<1>9. Held(wq)'
  BY <1>1, <1>4, <1>6, <1>7, <1>8 DEF Held
<1>10. Allocates(cur)' /\ \A e \in Device \ {wq} : Has(cur, e)' <=> Has(cur, e)
  BY <1>1, <1>2 DEF Allocates, Has
<1>11. LockTypes' /\ Fresh' /\ Calls' /\ NoEvents'
  BY <1>1 DEF LockInv, Locks, LockTypes, Fresh, Calls, NoEvents, Entering
<1> QED
  BY <1>1, <1>2, <1>3, <1>4, <1>8, <1>9, <1>10, <1>11, MoveStep, Places

LEMMA DeviceReleaseStep ==
  ASSUME LockInv, NEW d \in Device, DeviceRelease(d)
  PROVE  Locks'
<1>1. /\ pc = "app" /\ UNCHANGED <<want, queue, onq, timer, cont, ec, cur>> /\ cur \in Thread
      /\ wq' = d /\ up' = "yield" /\ d \in holds[cur]
      /\ holds' = [holds EXCEPT ![cur] = @ \ {d}]
      /\ pc' \in {"yield", "sigSet", "sigPop"}
      /\ queue[d] # SIGNALED => pc' \in {"sigSet", "sigPop"}
  BY DEF DeviceRelease, EventSignal, InApp, threadVars, LockInv, IInv, TypeOK
<1>2. want[cur] = NULL /\ holds \in [Thread -> SUBSET Device]
  BY <1>1, IdleCaller DEF LockInv, Locks, LockTypes
<1>3. Has(cur, d) /\ Held(d)
  BY <1>1 DEF Has, LockInv, Locks
<1>4. queue[d] # SIGNALED /\ \A t \in Thread \ {cur} : ~Has(t, d)
  BY <1>1, <1>3 DEF Held
<1>5. \A t \in Thread \ {cur} : Same(t)
  BY <1>1, <1>2 DEF Same
<1>6. \A t \in Thread : ~Has(t, d)'
  <2>1. ASSUME NEW t \in Thread, t = cur
        PROVE  ~Has(t, d)'
    BY <1>1, <1>2, <2>1, Places DEF Has
  <2>2. ASSUME NEW t \in Thread \ {cur}
        PROVE  ~Has(t, d)'
    BY <1>4, <1>5, SameThread
  <2> QED
    BY <2>1, <2>2
<1>7. Releasing(d)' /\ \A e \in Device : Releasing(e) \/ Releasing(e)' => e = d
  BY <1>1, <1>4 DEF Releasing
<1>8. Held(d)'
  BY <1>1, <1>4, <1>6, <1>7 DEF Held
<1>9. Allocates(cur)' /\ \A e \in Device \ {d} : Has(cur, e)' <=> Has(cur, e)
  BY <1>1, <1>2, Places DEF Allocates, Has
<1>10. LockTypes' /\ Fresh' /\ Calls' /\ NoEvents'
  BY <1>1, <1>2 DEF LockInv, Locks, LockTypes, Fresh, Calls, NoEvents, Entering
<1>11. onq[cur] = RUNQ /\ ~Entering
  BY <1>1, Facts DEF LockInv, IInv, Running, Entering
<1> QED
  BY <1>1, <1>5, <1>7, <1>8, <1>9, <1>10, <1>11, MoveStep, Places

LEMMA SignalDeviceStep ==
  ASSUME LockInv, UNCHANGED lockVars, wq \in Device, SignalPop
  PROVE  Locks'
<1>1. /\ wq \in Queue /\ queue[wq] # SIGNALED /\ queue[wq] # <<>>
  BY DEF SignalPop, LockInv, IInv, Located
<1>2. PICK x : x = Head(queue[wq])
  OBVIOUS
<1>3. /\ queue[wq] \in Seq(Thread) /\ NoDuplicates(queue[wq]) /\ x \in Range(queue[wq])
      /\ x \in Thread /\ x \in Waiters(wq)
      /\ \A u \in Waiters(wq) : u \in Thread /\ onq[u] = wq
  <2>1. queue[wq] \in Seq(Thread) /\ Head(queue[wq]) \in Range(queue[wq])
    BY <1>1, Facts, HeadInRange DEF LockInv
  <2> QED
    BY <1>1, <1>2, <2>1, Facts DEF LockInv, Waiters
<1>4. /\ pc = "sigPop" /\ up = "yield" /\ pc' = "yield"
      /\ UNCHANGED <<want, holds, cont, cur, wq>>
      /\ ec' = AddedEc(runq, x, prio, PassOn(ec, x, Successor(queue[wq], x)))
      /\ queue' = [queue EXCEPT ![wq] = Released(@, x, ec)]
      /\ onq' = [onq EXCEPT ![x] = RUNQ] /\ timer' = [timer EXCEPT ![x] = NULL]
  <2>1. pc = "sigPop" /\ up = "yield"
    BY DEF SignalPop, LockInv, IInv, TypeOK, Locks, Calls
  <2> QED
    BY <1>2, <2>1 DEF SignalPop, SignalReturns, StopTimer, callVars, lockVars
<1>5. \A u \in Waiters(wq) : ~(ec[u] > 0)
  BY <1>3 DEF LockInv, Locks, NoEvents
<1>6. \A u \in Thread : ec'[u] > 0 => u # x /\ ec[u] > 0
  <2>1. \A u \in Thread :
          ec'[u] > 0 => u # x /\ (ec[u] > 0 \/ (u \in Waiters(wq) /\ ec[x] > 0))
    BY <1>1, <1>3, <1>4, EventsReleased DEF LockInv
  <2> QED
    BY <1>3, <1>5, <2>1
<1>7. queue'[wq] # SIGNALED /\ \A e \in Device \ {wq} : queue'[e] = queue[e]
  <2>1. queue'[wq] = RemoveFirst(queue[wq], x)
    BY <1>1, <1>3, <1>4, <1>5 DEF Released, LockInv, IInv, TypeOK
  <2>2. RemoveFirst(queue[wq], x) \in Seq(Thread)
    BY <1>3, RemoveFirstProps
  <2> QED
    BY <1>4, <2>1, <2>2, Constants, Places DEF LockInv, IInv, TypeOK
<1>8. \A u \in Thread \ {x} : Same(u)
  BY <1>4, Timers DEF Same, LockInv
<1>9. want[x] = wq /\ cont[x] = "blocked"
  BY <1>3, <1>4, Places DEF LockInv, Locks, Waits, Allocates, Entering
<1>10. onq'[x] = RUNQ /\ timer'[x] = NULL
  BY <1>3, <1>4, Timers DEF LockInv
<1>11. Has(x, wq)' /\ Allocates(x)' /\ \A e \in Device \ {wq} : Has(x, e)' <=> Has(x, e)
  BY <1>4, <1>9, <1>10, Constants DEF Has, Allocates
<1>12. \A t \in Thread \ {x} : ~Has(t, wq)'
  <2>1. Releasing(wq) /\ Held(wq)
    BY <1>4 DEF Releasing, LockInv, Locks
  <2>2. \A t \in Thread : ~Has(t, wq)
    BY <2>1 DEF Held
  <2> QED
    BY <1>4, <1>8, <2>2 DEF Has, Same
<1>13. \A e \in Device : (Releasing(e) => e = wq) /\ ~Releasing(e)'
  BY <1>4 DEF Releasing
<1>14. Held(wq)'
  BY <1>3, <1>4, <1>7, <1>11, <1>12, <1>13 DEF Held
<1>15. LockTypes' /\ Fresh' /\ Calls'
  BY <1>4 DEF LockInv, Locks, LockTypes, Fresh, Calls, Entering
<1>16. NoEvents'
  BY <1>6, <1>8 DEF LockInv, Locks, NoEvents, Same
<1>17. ~Entering /\ (onq'[x] \in Device => want'[x] = onq'[x])
  BY <1>4, <1>10, Places DEF Entering
<1>18. /\ x \in Thread /\ Allocates(x)' /\ \A e \in Device \ {wq} : Has(x, e)' <=> Has(x, e)
       /\ \A e \in Device : Releasing(e) \/ Releasing(e)' => e = wq
       /\ \A e \in Device \ {wq} : queue'[e] = queue[e]
  BY <1>3, <1>7, <1>11, <1>13
<1> QED
  BY <1>4, <1>8, <1>14, <1>15, <1>16, <1>17, <1>18, MoveStep

LEMMA StoreDeviceStep ==
  ASSUME LockInv, UNCHANGED lockVars, wq \in Device, SignalStore
  PROVE  Locks'
<1>1. /\ pc = "sigSet" /\ up = "yield" /\ pc' = "yield" /\ cur \in Thread
      /\ UNCHANGED <<want, holds, cont, cur, wq, ec, onq, timer>>
      /\ queue' = [queue EXCEPT ![wq] = SIGNALED]
  <2>1. pc = "sigSet" /\ up = "yield" /\ cur \in Thread
    BY DEF SignalStore, LockInv, IInv, TypeOK, Locks, Calls
  <2> QED
    BY <2>1 DEF SignalStore, SignalReturns, callVars, threadVars, lockVars
<1>2. \A t \in Thread : Same(t)
  BY <1>1 DEF Same
<1>3. \A t \in Thread : Allocates(t)' /\ \A e \in Device : Has(t, e)' <=> Has(t, e)
  BY <1>1, <1>2, SameThread DEF LockInv, Locks, Entering
<1>4. \A t \in Thread : ~Has(t, wq)
  BY <1>1 DEF Releasing, LockInv, Locks, Held
<1>5. queue'[wq] = SIGNALED /\ \A e \in Device \ {wq} : queue'[e] = queue[e]
  BY <1>1, Places DEF LockInv, IInv, TypeOK
<1>6. \A e \in Device : (Releasing(e) => e = wq) /\ ~Releasing(e)'
  BY <1>1 DEF Releasing
<1>7. \A t \in Thread : ~Has(t, wq)'
  BY <1>1, <1>4 DEF Has
<1>8. Held(wq)'
  BY <1>1, <1>5, <1>6, <1>7 DEF Held
<1>9. LockTypes' /\ Fresh' /\ Calls' /\ NoEvents'
  BY <1>1 DEF LockInv, Locks, LockTypes, Fresh, Calls, NoEvents, Entering
<1>10. /\ ~Entering /\ Allocates(cur)' /\ \A e \in Device : Has(cur, e)' <=> Has(cur, e)
       /\ onq'[cur] \in Device => want'[cur] = onq'[cur]
  BY <1>1 DEF Entering, Has, Allocates, Waits, LockInv, Locks
<1> QED
  BY <1>1, <1>2, <1>5, <1>6, <1>8, <1>9, <1>10, MoveStep
-----------------------------------------------------------------------------
(***************************************************************************)
(* The theorems.                                                           *)
(***************************************************************************)

LEMMA InitLocks ==
  ASSUME LockInit
  PROVE  LockInv
<1>1. IInv /\ Resume
  BY InitIInv, InitResume DEF LockInit
<1>2. /\ want = [t \in Thread |-> NULL] /\ holds = [t \in Thread |-> {}]
      /\ ec = [t \in Thread |-> 0] /\ cont = [t \in Thread |-> "return"]
      /\ pc = "app" /\ Idle \in Thread /\ cur = Idle
      /\ \A d \in Device : queue[d] = SIGNALED
  BY Constants DEF LockInit, Init
<1>3. LockTypes /\ Fresh /\ NoEvents /\ \A t \in Thread : Allocates(t)
  BY <1>2, Places DEF LockTypes, Fresh, NoEvents, Allocates, Entering
<1>4. \A t \in Thread : \A d \in Device : ~Has(t, d)
  BY <1>2, Places DEF Has
<1>5. Waits
  BY Places DEF LockInit, Init, Waits
<1>6. Calls /\ \A d \in Device : Held(d)
  BY <1>2, <1>4 DEF Held, Releasing, Calls, Entering
<1> QED
  BY <1>1, <1>3, <1>4, <1>5, <1>6 DEF LockInv, Locks

\* Every step of LockSpec is a step of Kernel.
LEMMA LockNextIsNext ==
  ASSUME [LockNext]_<<vars, lockVars>>
  PROVE  [Next]_vars
<1>1. CASE \E d \in Device, w \in BOOLEAN : DeviceAlloc(d, w)
  BY <1>1, Places DEF DeviceAlloc, Next, AppCall
<1>2. CASE \E d \in Device : DeviceRelease(d)
  BY <1>2, Places DEF DeviceRelease, Next, AppCall
<1>3. CASE AllocReturn
  BY <1>3 DEF AllocReturn, Next, KernelStep
<1>4. CASE OtherCall
  BY <1>4 DEF OtherCall, Next, AppCall
<1>5. CASE InKernel
  BY <1>5 DEF InKernel, Next, KernelStep
<1> QED
  BY <1>1, <1>2, <1>3, <1>4, <1>5 DEF LockNext

\* Every step keeps the invariant of the locks.
LEMMA NextLocks ==
  ASSUME NotifySleepers = FALSE, LockInv, [LockNext]_<<vars, lockVars>>
  PROVE  Locks'
<1>1. ASSUME NEW d \in Device, NEW w \in BOOLEAN, DeviceAlloc(d, w)
      PROVE  Locks'
  BY <1>1, DeviceAllocStep
<1>2. ASSUME NEW d \in Device, DeviceRelease(d)
      PROVE  Locks'
  BY <1>2, DeviceReleaseStep
<1>3. CASE AllocReturn
  BY <1>3, AllocReturnStep
<1>4. CASE OtherCall
  <2>1. UNCHANGED lockVars
    BY <1>4 DEF OtherCall
  <2>2. ASSUME NEW t \in Thread, Notifiable(t), ThreadNotify(t)
        PROVE  Locks'
    BY <2>1, <2>2, NotifyStep
  <2>3. ASSUME NEW t \in Thread, ThreadCreate(t)
        PROVE  Locks'
    BY <2>1, <2>3, JoinsStep
  <2>4. CASE ThreadSleep \/ ThreadWait
    BY <2>1, <2>4, CurrentStep
  <2>5. CASE Quiet
    BY <2>1, <2>5, QuietStep
  <2> QED
    BY <1>4, <2>2, <2>3, <2>4, <2>5 DEF OtherCall, Quiet
<1>5. CASE InKernel
  <2>1. UNCHANGED lockVars
    BY <1>5 DEF InKernel
  <2>2. CASE wq \notin Device /\ (ConsumeEvent \/ BlockFirst \/ BlockBehind \/ LinkWaiter)
    BY <2>1, <2>2, CurrentStep
  <2>3. CASE wq \in Device /\ ConsumeEvent
    BY <2>1, <2>3, TakeStep
  <2>4. CASE wq \in Device /\ (BlockFirst \/ BlockBehind \/ LinkWaiter)
    BY <2>1, <2>4, BlockStep
  <2>5. CASE SignalPop
    BY <2>1, <2>5, ElsewhereStep, SignalDeviceStep
  <2>6. CASE SignalStore
    <3>1. CASE wq \in Device
      BY <2>1, <2>6, <3>1, StoreDeviceStep
    <3>2. CASE wq \notin Device
      BY <2>1, <2>6, <3>2, QuietStep DEF Quiet
    <3> QED
      BY <3>1, <3>2
  <2>7. CASE want[cur] = NULL /\ CallReturn
    BY <2>1, <2>7, CurrentStep
  <2>8. ASSUME NEW t \in Thread, ThreadTimeout(t)
        PROVE  Locks'
    BY <2>1, <2>8, JoinsStep
  <2>9. ASSUME NEW t \in Thread, EventTMO(t)
        PROVE  Locks'
    <3>1. CASE timer[t] \in Device
      BY <2>1, <2>9, <3>1, GiveUpStep
    <3>2. CASE timer[t] \notin Device
      BY <2>1, <2>9, <3>2, ElsewhereStep
    <3> QED
      BY <3>1, <3>2
  <2>10. CASE \/ WaitRead \/ SignalRead \/ ThreadYield \/ ScanThread \/ PostEvent
              \/ SwitchTask \/ Interrupt
    BY <2>1, <2>10, QuietStep DEF Quiet, Interrupt
  <2> QED
    BY <1>5, <2>2, <2>3, <2>4, <2>5, <2>6, <2>7, <2>8, <2>9, <2>10
       DEF InKernel, TimerElapses
<1>6. CASE UNCHANGED <<vars, lockVars>>
  <2>1. UNCHANGED <<threads, queue, ec, onq, timer, cur, pc, wq, up, scan, cont, want, holds>>
    BY <1>6 DEF vars, lockVars, threadVars, callVars
  <2> QED
    BY <2>1 DEF LockInv, Locks, LockTypes, Fresh, Calls, NoEvents, Waits, Allocates, Held,
       Has, Releasing, Entering
<1> QED
  BY <1>1, <1>2, <1>3, <1>4, <1>5, <1>6 DEF LockNext

LEMMA LockInvariant ==
  ASSUME NotifySleepers = FALSE
  PROVE  LockSpec => []LockInv
<1>1. LockInit => LockInv
  BY InitLocks
<1>2. LockInv /\ [LockNext]_<<vars, lockVars>> => LockInv'
  <2>1. IInv /\ Resume /\ [Next]_vars => IInv' /\ Resume'
    BY NextIInv, NextResume
  <2> QED
    BY <2>1, NextLocks, LockNextIsNext DEF LockInv
<1> QED
  BY <1>1, <1>2, PTL DEF LockSpec

\* The event of a device is in exactly one place: in its mutex, with one owner,
\* or with a release in progress; whatever allocations time out.
THEOREM DeviceOneEvent ==
  ASSUME NotifySleepers = FALSE
  PROVE  LockSpec => []OneEvent
<1>1. LockInv => OneEvent
  BY LocksImply
<1> QED
  BY <1>1, LockInvariant, PTL

\* BermudaDeviceAlloc never gives a device to two threads.
THEOREM DeviceMutualExclusion ==
  ASSUME NotifySleepers = FALSE
  PROVE  LockSpec => []MutualExclusion
<1>1. LockInv => MutualExclusion
  BY LocksImply
<1> QED
  BY <1>1, LockInvariant, PTL

\* The kernel stays well-typed under the calls of devreg.c.
THEOREM DeviceTypes ==
  ASSUME NotifySleepers = FALSE
  PROVE  LockSpec => []LockTypeOK
<1>1. LockInv => LockTypeOK
  BY LocksImply
<1> QED
  BY <1>1, LockInvariant, PTL
=============================================================================
