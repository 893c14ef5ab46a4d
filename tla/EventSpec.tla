------------------------------ MODULE EventSpec ------------------------------
(***************************************************************************)
(* What the event queues of BermudaOS promise, without critical sections,  *)
(* run queue or scheduler.  A queue stores one event while nobody waits,   *)
(* and counts the events posted to it while threads wait.  An event wakes  *)
(* the most important thread, the longest waiting one among equals.  A     *)
(* wait that times out takes no event away.                                *)
(***************************************************************************)
EXTENDS ThreadQueue

CONSTANTS Thread, Queue

VARIABLES
  waiters,   \* the threads that wait in each queue
  pend,      \* the events posted to each queue and not taken
  failed,    \* the threads whose wait timed out and is about to return -1
  prio

esvars == <<waiters, pend, failed, prio>>

Init ==
  /\ waiters = [q \in Queue |-> <<>>]
  /\ pend \in [Queue -> {0, 1}]
  /\ failed = {}
  /\ prio \in [Thread -> Nat]

\* An event: stored, or counted when there are waiting threads.
Post(q) ==
  /\ pend' = [pend EXCEPT ![q] = IF waiters[q] = <<>> THEN 1 ELSE @ + 1]
  /\ UNCHANGED <<waiters, failed, prio>>

\* A thread takes the stored event (EventWait) or drops it (EventWaitNext).
Take(q) ==
  /\ waiters[q] = <<>>
  /\ pend[q] > 0
  /\ pend' = [pend EXCEPT ![q] = 0]
  /\ UNCHANGED <<waiters, failed, prio>>

Join(q, t) ==
  /\ \A p \in Queue : ~Contains(waiters[p], t)
  /\ t \notin failed
  /\ waiters' = [waiters EXCEPT ![q] = PrioInsert(@, t, prio)]
  /\ UNCHANGED <<pend, failed, prio>>

\* The last thread that leaves a queue leaves at most one event behind.
Left(q, n) == IF Len(waiters[q]) = 1 THEN Min({n, 1}) ELSE n

\* A thread signals the queue, and the first waiter leaves it.
Wake(q) ==
  /\ waiters[q] # <<>>
  /\ waiters' = [waiters EXCEPT ![q] = Tail(@)]
  /\ pend' = [pend EXCEPT ![q] = Left(q, @)]
  /\ UNCHANGED <<failed, prio>>

\* An event that was counted is delivered to the first waiter.
Deliver(q) ==
  /\ waiters[q] # <<>>
  /\ pend[q] > 0
  /\ waiters' = [waiters EXCEPT ![q] = Tail(@)]
  /\ pend' = [pend EXCEPT ![q] = Left(q, @ - 1)]
  /\ UNCHANGED <<failed, prio>>

Expire(q, t) ==
  /\ Contains(waiters[q], t)
  /\ waiters' = [waiters EXCEPT ![q] = RemoveFirst(@, t)]
  /\ pend' = [pend EXCEPT ![q] = Left(q, @)]
  /\ failed' = failed \cup {t}
  /\ UNCHANGED prio

\* The wait of t returns -1, once.
ReturnFailure(t) ==
  /\ t \in failed
  /\ failed' = failed \ {t}
  /\ UNCHANGED <<waiters, pend, prio>>

\* A thread that does not wait changes its priority.
SetPrio(t) ==
  /\ \A q \in Queue : ~Contains(waiters[q], t)
  /\ prio' \in [Thread -> Nat]
  /\ \A u \in Thread \ {t} : prio'[u] = prio[u]
  /\ UNCHANGED <<waiters, pend, failed>>

Next ==
  \/ \E q \in Queue : Post(q) \/ Take(q) \/ Wake(q) \/ Deliver(q)
  \/ \E q \in Queue, t \in Thread : Join(q, t) \/ Expire(q, t)
  \/ \E t \in Thread : ReturnFailure(t) \/ SetPrio(t)

Spec == Init /\ [][Next]_esvars
=============================================================================
