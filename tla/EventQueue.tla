----------------------------- MODULE EventQueue -----------------------------
(***************************************************************************)
(* The event queues of sys/events/event.c as values, for the drivers that  *)
(* wait in them: the threads that wait, all of one priority, and the       *)
(* events that are stored (no waiter: SIGNALED or NULL) or counted at the  *)
(* first waiter.  EventSpec is the same as a system of its own, which the  *)
(* kernel implements.                                                      *)
(***************************************************************************)
EXTENDS Integers, Sequences, SequencesExt, FiniteSetsExt, Functions

\* SIGNALED, as the queues of all drivers start, and NULL.
Stored == [waiters |-> <<>>, pend |-> 1]
Nothing == [waiters |-> <<>>, pend |-> 0]

Waiting(q) == q.waiters # <<>>

\* The last thread that leaves a queue leaves at most one event behind.
Rest(waiters, n) ==
  [waiters |-> waiters, pend |-> IF waiters = <<>> THEN Min({n, 1}) ELSE n]

\* BermudaEventWait: takes the stored event, or joins the queue.
Takes(q) == ~Waiting(q) /\ q.pend = 1

Wait(q, t) == IF Takes(q) THEN Nothing ELSE [q EXCEPT !.waiters = Append(@, t)]

\* BermudaEventWaitNext: a stored event is dropped.
WaitNext(q, t) == IF Takes(q) THEN Rest(<<t>>, 0) ELSE [q EXCEPT !.waiters = Append(@, t)]

\* BermudaEventSignal: the first waiter leaves, or the event is stored.
Signal(q) == IF Waiting(q) THEN Rest(Tail(q.waiters), q.pend) ELSE Stored

\* BermudaEventSignalFromISR.
SignalFromISR(q) == IF Waiting(q) THEN [q EXCEPT !.pend = @ + 1] ELSE Stored

\* The scheduler delivers an event that was counted to the first waiter.
Delivers(q, t) == Waiting(q) /\ q.pend > 0 /\ Head(q.waiters) = t

Delivered(q) == Rest(Tail(q.waiters), q.pend - 1)

\* FAULT: the thread stays in the queue.
TimedOutStays(q, t) == q

\* BermudaEventTMO takes t out of the queue.
TimedOut(q, t) == Rest(RemoveFirst(q.waiters, t), q.pend)
=============================================================================
