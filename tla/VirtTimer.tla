------------------------------ MODULE VirtTimer ------------------------------
(***************************************************************************)
(* The virtual timers (sys/virt_timer.c): a list of timers in the order of *)
(* their deadlines, each of which holds the ticks from the deadline of its *)
(* predecessor to its own.                                                 *)
(*                                                                         *)
(* The tick interrupt counts the system ticks at any time.  Threads create *)
(* and stop timers between two calls of BermudaTimerProcess; the           *)
(* call-backs of the kernel, BermudaThreadTimeout and BermudaEventTMO,     *)
(* leave the timers alone.                                                 *)
(***************************************************************************)
EXTENDS Integers, Sequences, SequencesExt, FiniteSetsExt

CONSTANTS
  Timer,    \* the timer objects the heap can hold
  Ticks,    \* the numbers of ticks that timers are created with
  Wrap,     \* 2^32: one more than the largest unsigned long
  MaxLag    \* bound: the ticks between two calls of BermudaTimerProcess

ASSUME TimerConstants ==
  /\ Ticks \subseteq Nat
  /\ MaxLag \in Nat \ {0}
  /\ Wrap \in Nat /\ MaxLag < Wrap
  /\ \A n \in Ticks : n + MaxLag < Wrap

VARIABLES
  list,     \* BermudaTimerList
  left,     \* timer->ticks_left
  ticks,    \* timer->ticks
  handle,   \* whether timer->handle is set
  heap,     \* the timers that are allocated
  tick,     \* BermudaTimerGetSysTick()
  last,     \* last_sys_tick
  diff,     \* the ticks BermudaTimerProcess has still to distribute
  pc        \* "thread", or "process" inside BermudaTimerProcess

timerVars == <<list, left, ticks, handle, heap, tick, last, diff, pc>>

Init ==
  /\ list = <<>>
  /\ left = [t \in Timer |-> 0]
  /\ ticks = [t \in Timer |-> 0]
  /\ handle = [t \in Timer |-> FALSE]
  /\ heap = {}
  /\ tick = 0
  /\ last = 0
  /\ diff = 0
  /\ pc = "thread"

(***************************************************************************)
(* As in ThreadQueue, a FAULT is a slip in the definition behind it.       *)
(***************************************************************************)

\* FAULT: ignores that the counter wraps.
LagUnwrapped == tick - last

\* The ticks that BermudaTimerProcess has not seen yet.
Lag == (tick - last) % Wrap

\* The ticks from the start of the list l to its i-th timer.
TicksTo(l, lf, i) ==
  LET sum[j \in 0 .. Len(l)] == IF j = 0 THEN 0 ELSE sum[j - 1] + lf[l[j]]
  IN  sum[i]

\* BermudaTimerAdd of a timer that is n ticks away: behind the timers that
\* are as near.
AddPlace(l, lf, n) == Min({i \in 1 .. Len(l) + 1 : i <= Len(l) => n < TicksTo(l, lf, i)})

\* FAULT: the timer behind the new one moves.
TimerAddAlone(t, n, l, lf) ==
  LET i == AddPlace(l, lf, n)
  IN  /\ list' = InsertAt(l, i, t)
      /\ left' = [lf EXCEPT ![t] = n - TicksTo(l, lf, i - 1)]

TimerAdd(t, n, l, lf) ==
  LET i    == AddPlace(l, lf, n)
      rest == n - TicksTo(l, lf, i - 1)
  IN  /\ list' = InsertAt(l, i, t)
      /\ left' = [u \in Timer |-> IF u = t THEN rest
                                  ELSE IF i <= Len(l) /\ u = l[i] THEN lf[u] - rest
                                  ELSE lf[u]]

\* A one-shot has no ticks to start again with.
TimerCreate(t, n, periodic) ==
  /\ pc = "thread"
  /\ t \notin heap
  /\ heap' = heap \cup {t}
  /\ ticks' = [ticks EXCEPT ![t] = IF periodic THEN n ELSE 0]
  /\ handle' = [handle EXCEPT ![t] = TRUE]
  /\ TimerAdd(t, (n + tick - last) % Wrap, list, left)
  /\ UNCHANGED <<tick, last, diff, pc>>

\* FAULT: frees the timer at once in any case.
TimerStopFrees(t) ==
  /\ pc = "thread"
  /\ t \in heap /\ handle[t]
  /\ handle' = [handle EXCEPT ![t] = FALSE]
  /\ ticks' = [ticks EXCEPT ![t] = 0]
  /\ heap' = heap \ {t}
  /\ \/ /\ left[t] = 0
        /\ UNCHANGED <<list, left>>
     \/ /\ left[t] > 0
        /\ list' = RemoveFirst(list, t)
        /\ left' = [left EXCEPT ![t] = 0]
  /\ UNCHANGED <<tick, last, diff, pc>>

(***************************************************************************)
(* A timer is stopped by the one who created it, once, before it elapses.  *)
(* With no ticks left it stays in the list, to be freed by                 *)
(* BermudaTimerProcess.                                                    *)
(***************************************************************************)
TimerStop(t) ==
  /\ pc = "thread"
  /\ t \in heap /\ handle[t]
  /\ handle' = [handle EXCEPT ![t] = FALSE]
  /\ ticks' = [ticks EXCEPT ![t] = 0]
  /\ \/ /\ left[t] = 0
        /\ UNCHANGED <<list, left, heap>>
     \/ /\ left[t] > 0
        /\ list' = RemoveFirst(list, t)
        /\ left' = [u \in Timer |->
                      IF u = t THEN 0
                      ELSE IF \E i \in 2 .. Len(list) : list[i - 1] = t /\ list[i] = u
                           THEN left[u] + left[t]
                      ELSE left[u]]
        /\ heap' = heap \ {t}
  /\ UNCHANGED <<tick, last, diff, pc>>

\* BermudaSchedulerExec calls BermudaTimerProcess when there are new ticks.
TimerProcess ==
  /\ pc = "thread"
  /\ tick # last
  /\ diff' = Lag
  /\ last' = tick
  /\ pc' = "process"
  /\ UNCHANGED <<list, left, ticks, handle, heap, tick>>

\* FAULT: the ticks of the call are forgotten when the timer is further away.
DistributeNothing ==
  /\ pc = "process"
  /\ diff > 0 /\ list # <<>>
  /\ left[Head(list)] > diff
  /\ diff' = 0
  /\ UNCHANGED <<list, left, ticks, handle, heap, tick, last, pc>>

\* The ticks do not reach the first timer.
Distribute ==
  /\ pc = "process"
  /\ diff > 0 /\ list # <<>>
  /\ left[Head(list)] > diff
  /\ left' = [left EXCEPT ![Head(list)] = @ - diff]
  /\ diff' = 0
  /\ UNCHANGED <<list, ticks, handle, heap, tick, last, pc>>

\* The first timer elapses: its call-back runs, unless it was stopped, and it
\* is freed or starts again.
Elapse ==
  LET t == Head(list)
  IN  /\ pc = "process"
      /\ diff > 0 /\ list # <<>>
      /\ left[t] <= diff
      /\ diff' = diff - left[t]
      /\ \/ /\ ticks[t] = 0
            /\ list' = Tail(list)
            /\ left' = [left EXCEPT ![t] = 0]
            /\ heap' = heap \ {t}
            /\ handle' = [handle EXCEPT ![t] = FALSE]
         \/ /\ ticks[t] > 0
            /\ TimerAdd(t, ticks[t], Tail(list), left)
            /\ UNCHANGED <<heap, handle>>
      /\ UNCHANGED <<ticks, tick, last, pc>>

ProcessReturns ==
  /\ pc = "process"
  /\ diff = 0 \/ list = <<>>
  /\ pc' = "thread"
  /\ diff' = 0
  /\ UNCHANGED <<list, left, ticks, handle, heap, tick, last>>

\* The tick interrupt (arch/avr/328/328-timer.c).
SysTick ==
  /\ Lag < MaxLag
  /\ tick' = (tick + 1) % Wrap
  /\ UNCHANGED <<list, left, ticks, handle, heap, last, diff, pc>>

Process == TimerProcess \/ Distribute \/ Elapse \/ ProcessReturns

Next ==
  \/ \E t \in Timer, n \in Ticks, periodic \in BOOLEAN : TimerCreate(t, n, periodic)
  \/ \E t \in Timer : TimerStop(t)
  \/ Process
  \/ SysTick

Spec == Init /\ [][Next]_timerVars

(***************************************************************************)
(* The tick interrupt comes again and again, and the threads call the      *)
(* scheduler again and again.                                              *)
(***************************************************************************)
FairSpec == Spec /\ WF_timerVars(SysTick) /\ WF_timerVars(Process)
-----------------------------------------------------------------------------
(***************************************************************************)
(* The list holds every allocated timer, once, and none that was freed:    *)
(* TimerStop and Process agree on who frees a timer.                       *)
(***************************************************************************)
ListIsHeap == Range(list) = heap /\ Len(list) = Cardinality(heap)

(***************************************************************************)
(* The differences in the list are the deadlines of TimerSpec.             *)
(***************************************************************************)
Running == {t \in heap : handle[t]}

Due == [t \in Timer |->
          IF t \in Running
          THEN TicksTo(list, left, CHOOSE i \in DOMAIN list : list[i] = t) - diff - Lag
          ELSE 0]

Abstract == INSTANCE TimerSpec WITH
              running <- Running,
              due     <- Due,
              period  <- [t \in Timer |-> IF t \in Running THEN ticks[t] ELSE 0],
              busy    <- pc = "process",
              since   <- IF pc = "process" THEN Lag ELSE 0

(***************************************************************************)
(* Creating, stopping and elapsing timers moves no other deadline, periods *)
(* do not drift, and no timer elapses early, out of order, or later than   *)
(* in the first call after the tick of its deadline.                       *)
(***************************************************************************)
ImplementsTimers == Abstract!Spec

(***************************************************************************)
(* A one-shot elapses, whatever timers are created and stopped around it.  *)
(***************************************************************************)
OneShotElapses == \A t \in Timer : t \in heap /\ ticks[t] = 0 ~> t \notin heap

(***************************************************************************)
(* virt_timer.h:73 "Amount of system ticks left before the handle will be  *)
(* called", virt_timer.c:263 "timer elapsed when ticks_left == 0": a timer  *)
(* that reaches 0 in a call of BermudaTimerProcess elapses in that call.   *)
(***************************************************************************)
ElapsesAtZero ==
  [][ProcessReturns =>
       \A i \in DOMAIN list : handle[list[i]] => TicksTo(list, left, i) > 0]_timerVars
=============================================================================
