------------------------------ MODULE TimerSpec ------------------------------
(***************************************************************************)
(* What the virtual timers of BermudaOS promise: every timer that is       *)
(* running has a deadline of its own, which other timers do not move, and  *)
(* a call of BermudaTimerProcess elapses timers in the order of their      *)
(* deadlines, no timer before its deadline and every timer whose deadline  *)
(* was over before the tick of the call.                                   *)
(***************************************************************************)
EXTENDS Integers

CONSTANTS Timer,    \* the timer objects
          Ticks     \* the numbers of ticks that timers are created with

VARIABLES
  running,   \* the timers that will elapse
  due,       \* how many ticks away the deadline of each of them is
  period,    \* of a periodic timer; 0 for a one-shot
  busy,      \* whether BermudaTimerProcess is at work
  since      \* the ticks since it was called

tsvars == <<running, due, period, busy, since>>

Init ==
  /\ running = {}
  /\ due = [t \in Timer |-> 0]
  /\ period = [t \in Timer |-> 0]
  /\ busy = FALSE
  /\ since = 0

Tick ==
  /\ due' = [t \in Timer |-> IF t \in running THEN due[t] - 1 ELSE 0]
  /\ since' = IF busy THEN since + 1 ELSE 0
  /\ UNCHANGED <<running, period, busy>>

Start(t, n, p) ==
  /\ ~busy
  /\ t \notin running
  /\ p \in {0, n}
  /\ running' = running \cup {t}
  /\ due' = [due EXCEPT ![t] = n]
  /\ period' = [period EXCEPT ![t] = p]
  /\ UNCHANGED <<busy, since>>

Stop(t) ==
  /\ ~busy
  /\ t \in running
  /\ running' = running \ {t}
  /\ due' = [due EXCEPT ![t] = 0]
  /\ period' = [period EXCEPT ![t] = 0]
  /\ UNCHANGED <<busy, since>>

Call ==
  /\ ~busy
  /\ busy' = TRUE
  /\ UNCHANGED <<running, due, period, since>>

\* A periodic timer starts again from its deadline, however late it is.
Elapse(t) ==
  /\ busy
  /\ t \in running
  /\ due[t] + since <= 0
  /\ \A u \in running : due[t] <= due[u]
  /\ running' = IF period[t] = 0 THEN running \ {t} ELSE running
  /\ due' = [due EXCEPT ![t] = IF period[t] = 0 THEN 0 ELSE @ + period[t]]
  /\ UNCHANGED <<period, busy, since>>

Return ==
  /\ busy
  /\ \A t \in running : due[t] + since >= 0
  /\ busy' = FALSE
  /\ since' = 0
  /\ UNCHANGED <<running, due, period>>

Next ==
  \/ Tick \/ Call \/ Return
  \/ \E t \in Timer : Stop(t) \/ Elapse(t)
  \/ \E t \in Timer, n \in Ticks, p \in Ticks \cup {0} : Start(t, n, p)

Spec == Init /\ [][Next]_tsvars
=============================================================================
