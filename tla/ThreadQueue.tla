----------------------------- MODULE ThreadQueue -----------------------------
(***************************************************************************)
(* The thread lists of BermudaOS.  A list is a chain of THREAD structures  *)
(* through their "next" field, kept in descending order of importance (a   *)
(* lower "prio" is more important) and first come, first served among      *)
(* equals.  It is modelled by the sequence of its threads; <<>> is the     *)
(* NULL list.  The head of an event queue may also be the marker SIGNALED. *)
(*                                                                         *)
(* ec[t] is the field "ec" of t: the events that an interrupt handler      *)
(* posted to the queue t waits in and that are not delivered yet.          *)
(***************************************************************************)
EXTENDS Integers, Sequences, SequencesExt, FiniteSetsExt

CONSTANTS SIGNALED,     \* queue marker: an event is stored, nobody waits
          NULL          \* no thread, no queue, no timer

(***************************************************************************)
(* Some definitions here and in the other modules are preceded by a        *)
(* variant of them, marked FAULT.  No specification uses a FAULT: it is a  *)
(* slip that a change of the code could make, put in the place of the      *)
(* definition to see that a property notices it.                           *)
(***************************************************************************)

\* FAULT: passes threads that are less important, not the equal ones.
PrioPlaceLifo(s, t, prio) ==
  Min({i \in 1 .. Len(s) + 1 : i <= Len(s) => prio[s[i]] >= prio[t]})

\* FAULT: ignores the priorities.
PrioPlaceLast(s, t, prio) == Len(s) + 1

(***************************************************************************)
(* The place at which BermudaThreadPrioQueueAdd stops walking: in front of *)
(* the first thread that is less important than t.                         *)
(***************************************************************************)
PrioPlace(s, t, prio) ==
  Min({i \in 1 .. Len(s) + 1 : i <= Len(s) => prio[s[i]] > prio[t]})

\* The list with t linked in front of that thread.
PrioInsert(s, t, prio) == InsertAt(s, PrioPlace(s, t, prio), t)

\* The thread behind t in the list: t->next.
Successor(s, t) ==
  LET after == {i \in 2 .. Len(s) : s[i - 1] = t}
  IN  IF after = {} THEN NULL ELSE s[Min(after)]

\* FAULT: the events stay where they are.
TakeOverNothing(ec, t, n) == [ec EXCEPT ![t] = 0]

(***************************************************************************)
(* The event counts after t takes over the events of n, the thread it has  *)
(* just been linked in front of, and after t, on its way out of a list,    *)
(* passes its events on to its successor n.                                *)
(***************************************************************************)
TakeOver(ec, t, n) ==
  [u \in DOMAIN ec |-> IF u = t THEN IF n = NULL THEN 0 ELSE ec[n]
                       ELSE IF u = n THEN 0 ELSE ec[u]]

PassOn(ec, t, n) ==
  [u \in DOMAIN ec |-> IF u = t THEN 0
                       ELSE IF u = n /\ ec[t] > 0 THEN ec[t] ELSE ec[u]]

(***************************************************************************)
(* BermudaThreadPrioQueueAdd on the list l: the new list and the new event *)
(* counts.  A stored event (SIGNALED) becomes an event of the new thread.  *)
(***************************************************************************)
Added(l, t, prio) == IF l = SIGNALED THEN <<t>> ELSE PrioInsert(l, t, prio)

AddedEc(l, t, prio, ec) ==
  IF l = SIGNALED
  THEN [ec EXCEPT ![t] = 1]
  ELSE TakeOver(ec, t, Successor(PrioInsert(l, t, prio), t))

(***************************************************************************)
(* BermudaThreadQueueRemove: the list without t, and the event counts.     *)
(* Nothing happens when t is not on the list.                              *)
(***************************************************************************)
Removed(l, t) == IF l = SIGNALED THEN l ELSE RemoveFirst(l, t)

RemovedEc(l, t, ec) ==
  IF l = SIGNALED \/ ~Contains(l, t)
  THEN ec
  ELSE PassOn(ec, t, Successor(l, t))

\* FAULT: the events of the last waiter are dropped.
ReleasedForgets(l, t, ec) == RemoveFirst(l, t)

(***************************************************************************)
(* BermudaEventSignalRaw and BermudaEventTMO take t out of an event queue: *)
(* its events go to its successor, or stay in the queue as SIGNALED when   *)
(* t was the only one there.                                               *)
(***************************************************************************)
Released(l, t, ec) ==
  IF ec[t] > 0 /\ Successor(l, t) = NULL
  THEN SIGNALED
  ELSE RemoveFirst(l, t)

\* Most important first, i.e. non-decreasing prio.
InPrioOrder(s, prio) == \A i, j \in DOMAIN s : i < j => prio[s[i]] <= prio[s[j]]

NoDuplicates(s) == \A i, j \in DOMAIN s : s[i] = s[j] => i = j
=============================================================================
