----------------------------- MODULE KernelEvents -----------------------------
(***************************************************************************)
(* The kernel implements the abstract event queues of EventSpec.           *)
(***************************************************************************)
EXTENDS Kernel

\* BermudaSchedulerExec has taken an event off the count of the first waiter
\* of q and is about to deliver it.
InFlight(q) == up = "scan" /\ wq = q /\ pc \in {"sigRead", "sigPop"}

AbstractWaiters == [q \in Queue |-> IF queue[q] = SIGNALED THEN <<>> ELSE queue[q]]

AbstractPend ==
  [q \in Queue |->
     IF queue[q] = SIGNALED THEN 1
     ELSE IF queue[q] = <<>> THEN 0
     ELSE ec[Head(queue[q])] + (IF InFlight(q) THEN 1 ELSE 0)]

AbstractFailed == {t \in Thread : timer[t] = SIGNALED}

Abstract == INSTANCE EventSpec WITH waiters <- AbstractWaiters,
                                    pend    <- AbstractPend,
                                    failed  <- AbstractFailed

(***************************************************************************)
(* Whatever the interleaving of threads, timers and interrupt handlers, no *)
(* event is lost, duplicated or given to the wrong thread.                 *)
(***************************************************************************)
ImplementsEvents == Abstract!Spec
=============================================================================
