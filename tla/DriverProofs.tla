----------------------------- MODULE DriverProofs -----------------------------
(***************************************************************************)
(* What the parts of Devices promise, for any number of threads, tasks,    *)
(* pins, files, descriptors and messages: the SPI bus has one owner, a     *)
(* descriptor leads to the stream it was opened for, a read of the serial  *)
(* port takes the first byte, a conversion returns a sample of its own     *)
(* pin, a thread resumes with its own registers, the message vector keeps  *)
(* the messages of masters first, the network pays for packets in their    *)
(* order, and hardware holds what its driver was given.                    *)
(*                                                                         *)
(* Each part has an inductive invariant of its own; the steps of the other *)
(* parts leave its variables alone.                                        *)
(***************************************************************************)
EXTENDS Devices, FiniteSetTheorems, SequenceTheorems, TLAPS

\* The lemmas about lists do not depend on the markers.
Lists == INSTANCE ThreadQueueProofs WITH NULL <- NoThread, SIGNALED <- Boot

-----------------------------------------------------------------------------
\* The operators of the two instances of the library are the same.
LEMMA SameOperators ==
  /\ \A f : Lists!Range(f) = Range(f)
  /\ \A S : Lists!Min(S) = Min(S)
  /\ \A s : Lists!NoDuplicates(s) <=> \A i, j \in DOMAIN s : s[i] = s[j] => i = j
BY DEF Range, Lists!Range, Min, Lists!Min, Lists!NoDuplicates

LEMMA SameRemoval ==
  ASSUME NEW s, NEW x
  PROVE  RemoveFirst(s, x) = Lists!RemoveFirst(s, x)
<1> DEFINE I == {i \in 1 .. Len(s) : s[i] = x}
<1>1. CASE I # {}
  <2>1. SelectInSeq(s, LAMBDA v : v = x) = Min(I)
    BY <1>1 DEF SelectInSeq
  <2>2. Lists!SelectInSeq(s, LAMBDA v : v = x) = Lists!Min(I)
    BY <1>1 DEF Lists!SelectInSeq
  <2>3. RemoveFirst(s, x) = RemoveAt(s, Min(I))
    BY <1>1, <2>1 DEF RemoveFirst
  <2>4. Lists!RemoveFirst(s, x) = Lists!RemoveAt(s, Lists!Min(I))
    BY <1>1, <2>2 DEF Lists!RemoveFirst
  <2>5. Min(I) = Lists!Min(I)
    BY DEF Min, Lists!Min
  <2> QED
    BY <2>3, <2>4, <2>5 DEF RemoveAt, Lists!RemoveAt
<1>2. CASE I = {}
  BY <1>2 DEF RemoveFirst, Lists!RemoveFirst
<1> QED
  BY <1>1, <1>2

\* The least of some natural numbers.
LEMMA LeastOfSome ==
  ASSUME NEW S \in SUBSET Nat, S # {}
  PROVE  Min(S) \in S /\ \A x \in S : Min(S) <= x
BY Lists!LeastOf, SameOperators

-----------------------------------------------------------------------------
(***************************************************************************)
(* Event queues as values: each waiter is in the queue once, and without   *)
(* waiters at most one event is stored.                                    *)
(***************************************************************************)
Once(s) == \A i, j \in DOMAIN s : s[i] = s[j] => i = j

QueueOf(T, q) ==
  /\ q \in [waiters : Seq(T), pend : Nat]
  /\ Once(q.waiters)
  /\ q.waiters = <<>> => q.pend \in 0 .. 1

Members(q) == Range(q.waiters)

LEMMA RestIsQueue ==
  ASSUME NEW T, NEW w \in Seq(T), Once(w), NEW n \in Nat
  PROVE  /\ QueueOf(T, Rest(w, n))
         /\ Rest(w, n).waiters = w
         /\ w # <<>> => Rest(w, n).pend = n
         /\ n \in {0, 1} => Rest(w, n).pend = n
<1>1. Min({n, 1}) = IF n <= 1 THEN n ELSE 1
  BY LeastOfSome
<1> QED
  BY <1>1 DEF QueueOf, Rest

LEMMA EmptyQueues ==
  ASSUME NEW T
  PROVE  /\ QueueOf(T, Stored) /\ QueueOf(T, Nothing)
         /\ Members(Stored) = {} /\ Members(Nothing) = {}
<1>1. <<>> \in Seq(T) /\ Range(<<>>) = {} /\ Once(<<>>)
  BY DEF Range, Once
<1> QED
  BY <1>1 DEF QueueOf, Stored, Nothing, Members

LEMMA MemberAt ==
  ASSUME NEW T, NEW s \in Seq(T), NEW x
  PROVE  x \in Range(s) <=> \E i \in 1 .. Len(s) : s[i] = x
BY Lists!InRange, SameOperators

\* j is q with t among its waiters.
JoinedBy(T, q, t, j) ==
  QueueOf(T, j) /\ Members(j) = Members(q) \cup {t} /\ j.pend = q.pend

\* The queue with t behind its waiters.
LEMMA Joined ==
  ASSUME NEW T, NEW q, QueueOf(T, q), NEW t \in T, t \notin Members(q),
         q.waiters # <<>> \/ q.pend = 0
  PROVE  JoinedBy(T, q, t, [q EXCEPT !.waiters = Append(@, t)])
<1> DEFINE s == q.waiters
           a == Append(s, t)
<1>1. s \in Seq(T) /\ Once(s) /\ q.pend \in Nat
  BY DEF QueueOf
<1>2. a \in Seq(T) /\ Len(a) = Len(s) + 1 /\ Len(s) \in Nat /\ a # <<>>
  BY <1>1
<1>3. \A i \in 1 .. Len(s) + 1 : a[i] = IF i = Len(s) + 1 THEN t ELSE s[i]
  BY <1>1
<1>4. Range(a) = Range(s) \cup {t}
  <2>1. ASSUME NEW x
        PROVE  /\ x \in Range(a) <=> \E i \in 1 .. Len(s) + 1 : a[i] = x
               /\ x \in Range(s) <=> \E i \in 1 .. Len(s) : s[i] = x
    <3>1. x \in Range(a) <=> \E i \in 1 .. Len(a) : a[i] = x
      BY <1>2, MemberAt
    <3> QED
      BY <1>1, <1>2, <3>1, MemberAt
  <2>2. ASSUME NEW x
        PROVE  (\E i \in 1 .. Len(s) + 1 : a[i] = x) <=> x = t \/ \E i \in 1 .. Len(s) : s[i] = x
    BY <1>2, <1>3
  <2> QED
    BY <2>1, <2>2
<1>5. Once(a)
  <2>1. \A i \in 1 .. Len(s) : s[i] # t
    BY <1>1, MemberAt DEF Members
  <2> QED
    BY <1>1, <1>2, <1>3, <2>1 DEF Once
<1>6. PICK j : j = [q EXCEPT !.waiters = Append(@, t)]
  OBVIOUS
<1>7. /\ j \in [waiters : Seq(T), pend : Nat] /\ j.waiters = a /\ j.pend = q.pend
  BY <1>2, <1>6 DEF QueueOf
<1> HIDE DEF a
<1>8. QueueOf(T, j)
  BY <1>2, <1>5, <1>7 DEF QueueOf
<1>9. Members(j) = Members(q) \cup {t}
  BY <1>4, <1>7 DEF Members
<1> QED
  BY <1>6, <1>7, <1>8, <1>9 DEF JoinedBy

\* The queue without its first waiter.
LEMMA Behead ==
  ASSUME NEW T, NEW s \in Seq(T), Once(s), s # <<>>
  PROVE  /\ Tail(s) \in Seq(T) /\ Once(Tail(s))
         /\ Head(s) \in Range(s) /\ Head(s) \in T
         /\ Range(Tail(s)) = Range(s) \ {Head(s)}
<1>1. /\ Tail(s) \in Seq(T) /\ Len(Tail(s)) = Len(s) - 1 /\ Len(s) \in Nat \ {0}
      /\ Head(s) = s[1] /\ Head(s) \in T
      /\ \A i \in 1 .. Len(s) - 1 : Tail(s)[i] = s[i + 1]
  BY HeadTailProperties, EmptySeq
<1>2. Once(Tail(s))
  BY <1>1 DEF Once
<1>3. Head(s) \in Range(s)
  BY <1>1, MemberAt
<1>4. ASSUME NEW x
      PROVE  x \in Range(Tail(s)) <=> x \in Range(s) /\ x # Head(s)
  <2>1. x \in Range(Tail(s)) <=> \E i \in 1 .. Len(s) - 1 : s[i + 1] = x
    <3>1. x \in Range(Tail(s)) <=> \E i \in 1 .. Len(Tail(s)) : Tail(s)[i] = x
      BY <1>1, MemberAt
    <3> QED
      BY <1>1, <3>1
  <2>2. (\E i \in 1 .. Len(s) - 1 : s[i + 1] = x) <=> \E i \in 2 .. Len(s) : s[i] = x
    <3>1. \A i \in 2 .. Len(s) : i - 1 \in 1 .. Len(s) - 1 /\ (i - 1) + 1 = i
      BY <1>1
    <3> QED
      BY <1>1, <3>1
  <2>3. \A i \in 2 .. Len(s) : s[i] # s[1]
    BY <1>1 DEF Once
  <2>4. x \in Range(s) <=> x = s[1] \/ \E i \in 2 .. Len(s) : s[i] = x
    BY <1>1, MemberAt
  <2> QED
    BY <1>1, <2>1, <2>2, <2>3, <2>4
<1> QED
  BY <1>1, <1>2, <1>3, <1>4

LEMMA WaitProps ==
  ASSUME NEW T, NEW q, QueueOf(T, q), NEW t \in T, t \notin Members(q)
  PROVE  /\ QueueOf(T, Wait(q, t))
         /\ Takes(q) => Members(q) = {} /\ Members(Wait(q, t)) = {} /\ Wait(q, t).pend = 0
         /\ ~Takes(q) => /\ Members(Wait(q, t)) = Members(q) \cup {t}
                         /\ Wait(q, t).pend = q.pend
<1>1. CASE Takes(q)
  <2>1. q.waiters = <<>> /\ Wait(q, t) = Nothing
    BY <1>1 DEF Takes, Waiting, Wait
  <2> QED
    BY <1>1, <2>1, EmptyQueues DEF Members, Nothing, Range
<1>2. CASE ~Takes(q)
  <2>1. q.waiters # <<>> \/ q.pend = 0
    BY <1>2 DEF Takes, Waiting, QueueOf
  <2>2. Wait(q, t) = [q EXCEPT !.waiters = Append(@, t)]
    BY <1>2 DEF Wait
  <2>3. JoinedBy(T, q, t, Wait(q, t))
    BY <2>1, <2>2, Joined
  <2> QED
    BY <1>2, <2>3 DEF JoinedBy
<1> QED
  BY <1>1, <1>2

LEMMA WaitNextProps ==
  ASSUME NEW T, NEW q, QueueOf(T, q), NEW t \in T, t \notin Members(q)
  PROVE  /\ QueueOf(T, WaitNext(q, t))
         /\ Members(WaitNext(q, t)) = Members(q) \cup {t}
         /\ WaitNext(q, t).pend = IF q.waiters = <<>> THEN 0 ELSE q.pend
<1>1. CASE Takes(q)
  <2>1. q.waiters = <<>> /\ WaitNext(q, t) = Rest(<<t>>, 0)
    BY <1>1 DEF Takes, Waiting, WaitNext
  <2> DEFINE w == <<t>>
  <2>2. w \in Seq(T) /\ Once(w) /\ Range(w) = {t}
    BY DEF Once, Range
  <2>3. Range(<<>>) = {} /\ WaitNext(q, t) = Rest(w, 0)
    BY <2>1 DEF Range
  <2> HIDE DEF w
  <2>4. QueueOf(T, Rest(w, 0)) /\ Rest(w, 0).waiters = w /\ Rest(w, 0).pend = 0
    BY <2>2, RestIsQueue
  <2> QED
    BY <2>1, <2>2, <2>3, <2>4 DEF Members
<1>2. CASE ~Takes(q)
  <2>1. q.waiters # <<>> \/ q.pend = 0
    BY <1>2 DEF Takes, Waiting, QueueOf
  <2>2. WaitNext(q, t) = [q EXCEPT !.waiters = Append(@, t)]
    BY <1>2 DEF WaitNext
  <2>3. JoinedBy(T, q, t, WaitNext(q, t))
    BY <2>1, <2>2, Joined
  <2>4. q.waiters = <<>> => q.pend = 0
    BY <2>1
  <2> QED
    BY <2>3, <2>4 DEF JoinedBy
<1> QED
  BY <1>1, <1>2

LEMMA SignalProps ==
  ASSUME NEW T, NEW q, QueueOf(T, q), q.pend <= 1
  PROVE  /\ QueueOf(T, Signal(q))
         /\ Waiting(q) => /\ Head(q.waiters) \in Members(q) /\ Head(q.waiters) \in T
                          /\ Members(Signal(q)) = Members(q) \ {Head(q.waiters)}
                          /\ Signal(q).pend = q.pend
         /\ ~Waiting(q) => Members(q) = {} /\ Members(Signal(q)) = {} /\ Signal(q).pend = 1
<1>1. CASE Waiting(q)
  <2>1. /\ q.waiters \in Seq(T) /\ Once(q.waiters) /\ q.waiters # <<>> /\ q.pend \in Nat
        /\ Signal(q) = Rest(Tail(q.waiters), q.pend)
    BY <1>1 DEF QueueOf, Waiting, Signal
  <2> DEFINE w == Tail(q.waiters)
  <2>2. /\ w \in Seq(T) /\ Once(w) /\ Range(w) = Range(q.waiters) \ {Head(q.waiters)}
        /\ Head(q.waiters) \in Range(q.waiters) /\ Head(q.waiters) \in T
        /\ Signal(q) = Rest(w, q.pend)
    BY <2>1, Behead
  <2> HIDE DEF w
  <2>3. QueueOf(T, Signal(q)) /\ Signal(q).waiters = w /\ Signal(q).pend = q.pend
    BY <2>1, <2>2, RestIsQueue
  <2> QED
    BY <1>1, <2>2, <2>3 DEF Members
<1>2. CASE ~Waiting(q)
  <2>1. q.waiters = <<>> /\ Signal(q) = Stored
    BY <1>2 DEF Waiting, Signal
  <2> QED
    BY <1>2, <2>1, EmptyQueues DEF Members, Stored, Range
<1> QED
  BY <1>1, <1>2

LEMMA IsrProps ==
  ASSUME NEW T, NEW q, QueueOf(T, q)
  PROVE  /\ QueueOf(T, SignalFromISR(q))
         /\ Members(SignalFromISR(q)) = Members(q)
         /\ SignalFromISR(q).waiters = q.waiters
         /\ SignalFromISR(q).pend = IF Waiting(q) THEN q.pend + 1 ELSE 1
BY EmptyQueues DEF SignalFromISR, Stored, Waiting, QueueOf, Members

LEMMA DeliveredProps ==
  ASSUME NEW T, NEW q, QueueOf(T, q), NEW t, Delivers(q, t)
  PROVE  /\ QueueOf(T, Delivered(q))
         /\ t \in Members(q) /\ t \in T /\ q.pend > 0
         /\ Members(Delivered(q)) = Members(q) \ {t}
         /\ q.pend = 1 => Delivered(q).pend = 0
<1>1. /\ q.waiters \in Seq(T) /\ Once(q.waiters) /\ q.waiters # <<>>
      /\ q.pend \in Nat /\ q.pend > 0 /\ t = Head(q.waiters)
      /\ Delivered(q) = Rest(Tail(q.waiters), q.pend - 1)
  BY DEF QueueOf, Delivers, Waiting, Delivered
<1>2. q.pend - 1 \in Nat /\ (q.pend = 1 => q.pend - 1 = 0)
  BY <1>1
<1> DEFINE w == Tail(q.waiters)
<1>3. /\ w \in Seq(T) /\ Once(w) /\ Range(w) = Range(q.waiters) \ {t}
      /\ t \in Range(q.waiters) /\ t \in T /\ Delivered(q) = Rest(w, q.pend - 1)
  BY <1>1, Behead
<1> HIDE DEF w
<1>4. /\ QueueOf(T, Delivered(q)) /\ Delivered(q).waiters = w
      /\ q.pend = 1 => Delivered(q).pend = 0
  BY <1>1, <1>2, <1>3, RestIsQueue
<1> QED
  BY <1>1, <1>3, <1>4 DEF Members

LEMMA TimedOutProps ==
  ASSUME NEW T, NEW q, QueueOf(T, q), q.pend <= 1, NEW t
  PROVE  /\ QueueOf(T, TimedOut(q, t))
         /\ Members(TimedOut(q, t)) = Members(q) \ {t}
         /\ TimedOut(q, t).pend = q.pend
<1>1. /\ q.waiters \in Seq(T) /\ Lists!NoDuplicates(q.waiters) /\ q.pend \in Nat
      /\ TimedOut(q, t) = Rest(RemoveFirst(q.waiters, t), q.pend)
  BY SameOperators DEF QueueOf, Once, TimedOut
<1>2. /\ RemoveFirst(q.waiters, t) \in Seq(T)
      /\ Lists!NoDuplicates(RemoveFirst(q.waiters, t))
      /\ Lists!Range(RemoveFirst(q.waiters, t)) = Lists!Range(q.waiters) \ {t}
  BY <1>1, Lists!RemoveFirstProps, SameRemoval
<1>3. Once(RemoveFirst(q.waiters, t))
  BY <1>2, SameOperators DEF Once
<1> QED
  BY <1>1, <1>2, <1>3, RestIsQueue, SameOperators DEF Members

-----------------------------------------------------------------------------
(***************************************************************************)
(* The SPI bus.  A task waits for the mutex exactly while it is in the     *)
(* queue, and the event of the mutex is stored or with the one owner.      *)
(***************************************************************************)
SpiPlaces == {"idle", "locking", "locked", "allocating", "owner"}

Owns(t) == spiPc[t] \in {"locked", "owner"}

SpiInv ==
  /\ spiPc \in [Task -> SpiPlaces]
  /\ QueueOf(Task, spiMutex)
  /\ \A t \in Task : spiPc[t] \in {"locking", "allocating"} <=> t \in Members(spiMutex)
  /\ spiMutex.pend \in {0, 1}
  /\ \A t, u \in Task : Owns(t) /\ Owns(u) => t = u
  /\ spiMutex.pend = 1 => Members(spiMutex) = {} /\ \A t \in Task : ~Owns(t)
  /\ spiMutex.pend = 0 => \E t \in Task : Owns(t)

LEMMA SpiInitInv ==
  ASSUME SpiInit
  PROVE  SpiInv
BY EmptyQueues DEF SpiInit, SpiInv, SpiPlaces, Owns, Stored

LEMMA SpiStays ==
  ASSUME SpiInv, UNCHANGED <<spiMutex, spiPc>>
  PROVE  SpiInv'
BY DEF SpiInv, Owns, Members, QueueOf

\* A task that is idle takes the mutex, or joins its queue.
LEMMA SpiWaits ==
  ASSUME SpiInv, NEW t \in Task, spiPc[t] = "idle",
         spiMutex' = Wait(spiMutex, t),
         \/ SpiGoto(t, IF Takes(spiMutex) THEN "locked" ELSE "locking")
         \/ SpiGoto(t, IF Takes(spiMutex) THEN "owner" ELSE "allocating")
  PROVE  SpiInv'
<1>1. t \notin Members(spiMutex)
  BY DEF SpiInv
<1>2. /\ QueueOf(Task, spiMutex')
      /\ Takes(spiMutex) => Members(spiMutex) = {} /\ Members(spiMutex') = {} /\ spiMutex'.pend = 0
      /\ ~Takes(spiMutex) => /\ Members(spiMutex') = Members(spiMutex) \cup {t}
                             /\ spiMutex'.pend = spiMutex.pend
  BY <1>1, WaitProps DEF SpiInv
<1>3. CASE Takes(spiMutex)
  <2>1. spiMutex.pend = 1 /\ \A u \in Task : ~Owns(u)
    BY <1>3 DEF Takes, SpiInv
  <2>2. spiPc' = [spiPc EXCEPT ![t] = spiPc'[t]] /\ spiPc'[t] \in {"locked", "owner"}
    BY <1>3 DEF SpiGoto, SpiInv
  <2>3. \A u \in Task : Owns(u)' <=> u = t
    BY <2>1, <2>2 DEF Owns, SpiInv
  <2> QED
    BY <1>2, <1>3, <2>1, <2>2, <2>3 DEF SpiInv, SpiPlaces
<1>4. CASE ~Takes(spiMutex)
  <2>1. spiPc' = [spiPc EXCEPT ![t] = spiPc'[t]] /\ spiPc'[t] \in {"locking", "allocating"}
    BY <1>4 DEF SpiGoto, SpiInv
  <2>2. spiMutex.pend = 0
    <3>1. CASE ~Waiting(spiMutex)
      BY <1>4, <3>1 DEF Takes, SpiInv
    <3>2. CASE Waiting(spiMutex)
      <4>1. Head(spiMutex.waiters) \in Members(spiMutex)
        BY <3>2, SignalProps DEF SpiInv
      <4> QED
        BY <4>1 DEF SpiInv
    <3> QED
      BY <3>1, <3>2
  <2>3. \A u \in Task : Owns(u)' <=> Owns(u)
    BY <2>1 DEF Owns, SpiInv
  <2> QED
    BY <1>2, <1>4, <2>1, <2>2, <2>3 DEF SpiInv, SpiPlaces
<1> QED
  BY <1>3, <1>4

\* A task gives up its wait.
LEMMA SpiGivesUp ==
  ASSUME SpiInv, NEW t \in Task, spiPc[t] \in {"locking", "allocating"},
         spiMutex' = TimedOut(spiMutex, t), SpiGoto(t, "idle")
  PROVE  SpiInv'
<1>1. /\ QueueOf(Task, spiMutex')
      /\ Members(spiMutex') = Members(spiMutex) \ {t}
      /\ spiMutex'.pend = spiMutex.pend
  BY TimedOutProps DEF SpiInv
<1>2. \A u \in Task : spiPc'[u] = IF u = t THEN "idle" ELSE spiPc[u]
  BY DEF SpiGoto, SpiInv
<1>3. spiPc' \in [Task -> SpiPlaces]
  BY DEF SpiGoto, SpiInv, SpiPlaces
<1>4. \A u \in Task : Owns(u)' <=> Owns(u)
  BY <1>2 DEF Owns
<1> QED
  BY <1>1, <1>2, <1>3, <1>4 DEF SpiInv

\* The owner passes the bus to the first task that waits, or frees it.
LEMMA SpiUnlocks ==
  ASSUME SpiInv, NEW t \in Task, Owns(t), SpiUnlock(t)
  PROVE  SpiInv'
<1> DEFINE h == Head(spiMutex.waiters)
<1>1. spiMutex.pend = 0 /\ spiPc \in [Task -> SpiPlaces] /\ t \notin Members(spiMutex)
  BY DEF SpiInv, Owns
<1>2. /\ QueueOf(Task, spiMutex')
      /\ Waiting(spiMutex) => /\ h \in Members(spiMutex) /\ h \in Task
                              /\ Members(spiMutex') = Members(spiMutex) \ {h}
                              /\ spiMutex'.pend = 0
      /\ ~Waiting(spiMutex) => Members(spiMutex) = {} /\ Members(spiMutex') = {} /\ spiMutex'.pend = 1
  <2>1. QueueOf(Task, spiMutex) /\ spiMutex.pend <= 1 /\ spiMutex' = Signal(spiMutex)
    BY <1>1 DEF SpiInv, SpiUnlock
  <2> QED
    BY <1>1, <2>1, SignalProps
<1>3. \A u \in Task :
        /\ u = t => spiPc'[u] = "idle"
        /\ u # t /\ Waiting(spiMutex) /\ u = h =>
             spiPc'[u] = IF spiPc[u] = "locking" THEN "locked" ELSE "owner"
        /\ u # t /\ ~(Waiting(spiMutex) /\ u = h) => spiPc'[u] = spiPc[u]
  <2> TAKE u \in Task
  <2>1. u = t => spiPc'[u] = "idle"
    BY <1>1, <1>2 DEF SpiUnlock
  <2>2. u # t /\ Waiting(spiMutex) /\ u = h =>
          spiPc'[u] = IF spiPc[u] = "locking" THEN "locked" ELSE "owner"
    BY DEF SpiUnlock
  <2>3. u # t /\ ~(Waiting(spiMutex) /\ u = h) => spiPc'[u] = spiPc[u]
    BY DEF SpiUnlock
  <2> QED
    BY <2>1, <2>2, <2>3
<1>4. spiPc' \in [Task -> SpiPlaces]
  BY <1>1 DEF SpiUnlock, SpiPlaces
<1>5. \A u \in Task : u # t => ~Owns(u)
  BY DEF SpiInv
<1>6. CASE Waiting(spiMutex)
  <2>1. \A u \in Task : spiPc'[u] = IF u = t THEN "idle"
                                    ELSE IF u = h THEN IF spiPc[u] = "locking" THEN "locked" ELSE "owner"
                                    ELSE spiPc[u]
    BY <1>3, <1>6
  <2>2. h # t
    BY <1>1, <1>2, <1>6
  <2>3. \A u \in Task : Owns(u)' <=> u = h
    BY <1>2, <1>5, <1>6, <2>1, <2>2 DEF Owns
  <2>4. \A u \in Task : spiPc'[u] \in {"locking", "allocating"} <=> u \in Members(spiMutex')
    BY <1>1, <1>2, <1>6, <2>1, <2>2 DEF SpiInv
  <2> QED
    BY <1>2, <1>4, <1>6, <2>3, <2>4 DEF SpiInv
<1>7. CASE ~Waiting(spiMutex)
  <2>1. \A u \in Task : spiPc'[u] = IF u = t THEN "idle" ELSE spiPc[u]
    BY <1>3, <1>7
  <2>2. \A u \in Task : ~Owns(u)'
    BY <1>5, <2>1 DEF Owns
  <2> QED
    BY <1>2, <1>4, <1>7, <2>1, <2>2 DEF SpiInv
<1> QED
  BY <1>6, <1>7

LEMMA SpiNextInv ==
  ASSUME SpiInv, SpiNext
  PROVE  SpiInv'
<1>1. ASSUME NEW t \in Task, SpiFlush(t) \/ SpiAlloc(t)
      PROVE  SpiInv'
  BY <1>1, SpiWaits DEF SpiFlush, SpiAlloc, OwnSocket
<1>2. ASSUME NEW t \in Task, SpiLockTmo(t) \/ SpiAllocTmo(t)
      PROVE  SpiInv'
  BY <1>2, SpiGivesUp DEF SpiLockTmo, SpiAllocTmo
<1>3. ASSUME NEW t \in Task, SpiXfer(t) \/ SpiRelease(t)
      PROVE  SpiInv'
  BY <1>3, SpiUnlocks DEF SpiXfer, SpiRelease, Owns
<1>4. ASSUME NEW t \in Task, SpiWrite(t) \/ SpiRead(t) \/ FileCall(t)
      PROVE  SpiInv'
  BY <1>4, SpiStays DEF SpiWrite, SpiRead, SpiSetBuff, FileCall, spiVars
<1>5. ASSUME UNCHANGED spiVars
      PROVE  SpiInv'
  BY <1>5, SpiStays DEF spiVars
<1> QED
  BY <1>1, <1>2, <1>3, <1>4, <1>5 DEF SpiNext, SpiStep

LEMMA SpiInvImplies ==
  ASSUME SpiInv
  PROVE  OneOwner
<1> DEFINE owners == {t \in Task : spiPc[t] \in {"locked", "owner"}}
<1>1. CASE spiMutex.pend = 1
  <2>1. owners = {}
    BY <1>1 DEF SpiInv, Owns
  <2> QED
    BY <1>1, <2>1, FS_EmptySet DEF OneOwner
<1>2. CASE spiMutex.pend = 0
  <2>1. PICK t \in Task : owners = {t}
    BY <1>2 DEF SpiInv, Owns
  <2>2. Cardinality(owners) = 1
    BY <2>1, FS_Singleton
  <2> QED
    BY <1>2, <2>2 DEF OneOwner
<1> QED
  BY <1>1, <1>2 DEF SpiInv

\* The lock of the SPI bus, always.
LEMMA SpiInvariant ==
  Spec => []SpiInv
<1>1. Init => SpiInv
  BY SpiInitInv DEF Init
<1>2. SpiInv /\ [Next]_vars => SpiInv'
  <2>1. [Next]_vars => SpiNext \/ UNCHANGED <<spiMutex, spiPc>>
    BY DEF Next, Only, vars, spiVars
  <2> QED
    BY <2>1, SpiNextInv, SpiStays
<1> QED
  BY <1>1, <1>2, PTL DEF Spec

(***************************************************************************)
(* At most one task has the SPI bus, and it is free when none has,         *)
(* whatever locks time out (spi_flush_client and dev->alloc).              *)
(***************************************************************************)
THEOREM SpiOneOwner == Spec => []OneOwner
BY SpiInvariant, SpiInvImplies, PTL

-----------------------------------------------------------------------------
(***************************************************************************)
(* The open files.  A descriptor is held by one task, and the stream knows *)
(* the descriptor it was given last: two facts that OwnStream needs.       *)
(***************************************************************************)
Stream == Task \cup Named

FilesInv ==
  /\ iob \in [Slots -> Stream \cup {NoFile}]
  /\ fd \in [Stream -> Int]
  /\ handle \in [Task -> Slots \cup {-1}]
  /\ opened \in [Task -> Stream \cup {NoFile}]
  /\ \A t \in Task : handle[t] # -1 =>
       /\ opened[t] \in Stream /\ iob[handle[t]] = opened[t] /\ fd[opened[t]] = handle[t]
       /\ opened[t] \in Task => opened[t] \in live
  /\ \A t, u \in Task : handle[t] # -1 /\ handle[t] = handle[u] => t = u

LEMMA SlotNumbers == Slots \subseteq Nat /\ -1 \notin Slots /\ NoFile \notin Stream
BY FilesConstants DEF Slots, Stream

\* A stream s that no task has open is put in the free slot i for t.
LEMMA OpensFree ==
  ASSUME FilesInv, NEW t \in Task, NEW s \in Stream, NEW i \in Slots,
         handle[t] = -1, iob[i] = NoFile,
         \A u \in Task : handle[u] # -1 => opened[u] # s,
         iob' = [iob EXCEPT ![i] = s], fd' = [fd EXCEPT ![s] = i], Holds(t, i, s),
         live \subseteq live', s \in Task => s \in live'
  PROVE  FilesInv'
<1>1. i # -1 /\ i \in Int
  BY SlotNumbers
<1>2. /\ iob' \in [Slots -> Stream \cup {NoFile}] /\ fd' \in [Stream -> Int]
      /\ handle' \in [Task -> Slots \cup {-1}] /\ opened' \in [Task -> Stream \cup {NoFile}]
  BY <1>1 DEF FilesInv, Holds
<1>3. ASSUME NEW u \in Task, u # t
      PROVE  /\ handle'[u] = handle[u] /\ opened'[u] = opened[u]
             /\ handle[u] # -1 => /\ handle[u] # i /\ handle[u] \in Slots
                                  /\ iob'[handle[u]] = opened[u]
                                  /\ opened[u] # s /\ fd'[opened[u]] = handle[u]
  <2>1. handle'[u] = handle[u] /\ opened'[u] = opened[u]
    BY <1>3 DEF Holds, FilesInv
  <2>2. ASSUME handle[u] # -1
        PROVE  /\ handle[u] # i /\ handle[u] \in Slots /\ opened[u] # s
               /\ opened[u] \in Stream /\ iob[handle[u]] = opened[u]
               /\ fd[opened[u]] = handle[u]
    BY <2>2, SlotNumbers DEF FilesInv
  <2> QED
    BY <2>1, <2>2 DEF FilesInv
<1>4. handle'[t] = i /\ opened'[t] = s /\ iob'[i] = s /\ fd'[s] = i
  BY DEF Holds, FilesInv
<1>5. \A u \in Task : handle'[u] # -1 =>
        /\ opened'[u] \in Stream /\ iob'[handle'[u]] = opened'[u]
        /\ fd'[opened'[u]] = handle'[u]
        /\ opened'[u] \in Task => opened'[u] \in live'
  BY <1>3, <1>4 DEF FilesInv
<1>6. \A u, v \in Task : handle'[u] # -1 /\ handle'[u] = handle'[v] => u = v
  BY <1>3, <1>4 DEF FilesInv
<1> QED
  BY <1>2, <1>5, <1>6 DEF FilesInv

LEMMA OpenInv ==
  ASSUME ~FileShared, FilesInv, NEW t \in Task, NEW f \in Named, NEW m, Open(t, f, m)
  PROVE  FilesInv'
<1> DEFINE i == Min(Openable(f))
<1>1. /\ Openable(f) # {} /\ f \notin {iob[j] : j \in Slots} /\ handle[t] = -1
      /\ Openable(f) \subseteq Slots
  BY DEF Open, Openable
<1>2. i \in Openable(f)
  BY <1>1, SlotNumbers, LeastOfSome
<1>3. i \in Slots /\ iob[i] = NoFile
  BY <1>1, <1>2 DEF Openable
<1>4. iob' = [iob EXCEPT ![i] = f] /\ fd' = [fd EXCEPT ![f] = i] /\ Holds(t, i, f) /\ live' = live
  BY <1>3 DEF Open
<1>5. \A u \in Task : handle[u] # -1 => opened[u] # f
  BY <1>1 DEF FilesInv
<1>6. f \in Task => f \in live'
  BY FilesConstants
<1> HIDE DEF i
<1> QED
  BY <1>1, <1>3, <1>4, <1>5, <1>6, OpensFree DEF Stream

LEMMA SocketInv ==
  ASSUME FilesInv, NEW t \in Task, NEW m, Socket(t, m)
  PROVE  FilesInv'
<1> DEFINE i == Min(FreeSlots)
<1>1. FreeSlots # {} /\ handle[t] = -1 /\ t \notin live /\ FreeSlots \subseteq Slots
  BY DEF Socket, FreeSlots
<1>2. i \in FreeSlots
  BY <1>1, SlotNumbers, LeastOfSome
<1>3. i \in Slots /\ iob[i] = NoFile
  BY <1>2 DEF FreeSlots
<1>4. /\ iob' = [iob EXCEPT ![i] = t] /\ fd' = [fd EXCEPT ![t] = i] /\ Holds(t, i, t)
      /\ live' = live \cup {t}
  BY DEF Socket
<1>5. \A u \in Task : handle[u] # -1 => opened[u] # t
  BY <1>1 DEF FilesInv
<1> HIDE DEF i
<1> QED
  BY <1>1, <1>3, <1>4, <1>5, OpensFree DEF Stream

\* The stream is closed for the one task that holds its descriptor.
LEMMA CloseInv ==
  ASSUME FilesInv, NEW t \in Task, Close(t)
  PROVE  FilesInv'
<1> DEFINE h == handle[t]
           s == opened[t]
<1>1. h # -1 /\ h \in Slots /\ s \in Stream /\ iob[h] = s /\ fd[s] = h /\ s # NoFile
  BY SlotNumbers DEF FilesInv, Close
<1>2. /\ iob' = [iob EXCEPT ![h] = NoFile] /\ fd' = [fd EXCEPT ![s] = -1]
      /\ live' = live \ {s} /\ Holds(t, -1, NoFile)
  BY <1>1 DEF Close
<1>3. /\ iob' \in [Slots -> Stream \cup {NoFile}] /\ fd' \in [Stream -> Int]
      /\ handle' \in [Task -> Slots \cup {-1}] /\ opened' \in [Task -> Stream \cup {NoFile}]
  <2>1. iob' \in [Slots -> Stream \cup {NoFile}]
    BY <1>2 DEF FilesInv
  <2>2. fd' \in [Stream -> Int]
    <3> DEFINE none == -1
    <3>1. none \in Int /\ fd' = [fd EXCEPT ![s] = none]
      BY <1>2
    <3> HIDE DEF none
    <3> QED
      BY <3>1 DEF FilesInv
  <2>3. handle' \in [Task -> Slots \cup {-1}]
    BY <1>2 DEF FilesInv, Holds
  <2>4. opened' \in [Task -> Stream \cup {NoFile}]
    BY <1>2 DEF FilesInv, Holds
  <2> QED
    BY <2>1, <2>2, <2>3, <2>4
<1>4. handle'[t] = -1 /\ \A u \in Task : u # t => handle'[u] = handle[u] /\ opened'[u] = opened[u]
  BY <1>2 DEF Holds, FilesInv
<1>5. ASSUME NEW u \in Task, u # t, handle[u] # -1
      PROVE  handle[u] # h /\ opened[u] # s
  BY <1>1, <1>5 DEF FilesInv
<1>6. ASSUME NEW u \in Task, handle'[u] # -1
      PROVE  /\ opened'[u] \in Stream /\ iob'[handle'[u]] = opened'[u]
             /\ fd'[opened'[u]] = handle'[u]
             /\ opened'[u] \in Task => opened'[u] \in live'
  <2>1. u # t /\ handle[u] # -1 /\ handle'[u] = handle[u] /\ opened'[u] = opened[u]
    BY <1>4, <1>6
  <2>2. handle[u] \in Slots /\ handle[u] # h /\ opened[u] # s /\ opened[u] \in Stream
    BY <1>5, <2>1 DEF FilesInv
  <2>3. iob'[handle[u]] = iob[handle[u]] /\ fd'[opened[u]] = fd[opened[u]]
    BY <1>2, <2>2 DEF FilesInv
  <2> QED
    BY <1>2, <2>1, <2>2, <2>3 DEF FilesInv
<1>7. \A u, v \in Task : handle'[u] # -1 /\ handle'[u] = handle'[v] => u = v
  BY <1>4 DEF FilesInv
<1> QED
  BY <1>3, <1>6, <1>7 DEF FilesInv

LEMMA FilesStay ==
  ASSUME FilesInv, UNCHANGED <<iob, fd, live, handle, opened>>
  PROVE  FilesInv'
BY DEF FilesInv

LEMMA FilesNextInv ==
  ASSUME ~FileShared, FilesInv, SpiNext
  PROVE  FilesInv'
<1>1. ASSUME NEW t \in Task, SpiStep(t) \/ SpiWrite(t) \/ SpiRead(t) \/ SpiFlush(t) \/ SpiAlloc(t)
      PROVE  FilesInv'
  <2>1. UNCHANGED filesVars
    BY <1>1 DEF SpiStep, SpiLockTmo, SpiAllocTmo, SpiXfer, SpiRelease, SpiWrite, SpiRead,
                SpiSetBuff, SpiFlush, SpiAlloc
  <2> QED
    BY <2>1, FilesStay DEF filesVars
<1>2. ASSUME NEW t \in Task, FileCall(t)
      PROVE  FilesInv'
  <2>1. ASSUME NEW m \in Modes, Mode(t, m)
        PROVE  FilesInv'
    BY <2>1, FilesStay DEF Mode
  <2> QED
    BY <1>2, <2>1, OpenInv, SocketInv, CloseInv DEF FileCall
<1>3. ASSUME NEW f \in Named, VfsAdd(f) \/ VfsDelete(f)
      PROVE  FilesInv'
  BY <1>3, FilesStay DEF VfsAdd, VfsDelete
<1> QED
  BY <1>1, <1>2, <1>3 DEF SpiNext

(***************************************************************************)
(* The descriptor that a task holds leads to the stream it opened, which   *)
(* is allocated and knows the descriptor (open, iob_add, close), whatever  *)
(* other tasks do: when no file is opened twice.                           *)
(***************************************************************************)
THEOREM FilesOwnStream ==
  ASSUME ~FileShared
  PROVE  Spec => []OwnStream
<1>1. Init => FilesInv
  BY DEF Init, FilesInit, FilesInv, Stream
<1>2. FilesInv /\ [Next]_vars => FilesInv'
  <2>1. [Next]_vars => SpiNext \/ UNCHANGED filesVars
    BY DEF Next, Only, vars
  <2> QED
    BY <2>1, FilesNextInv, FilesStay DEF filesVars
<1>3. FilesInv => OwnStream
  BY DEF FilesInv, OwnStream
<1> QED
  BY <1>1, <1>2, <1>3, PTL DEF Spec

-----------------------------------------------------------------------------
(***************************************************************************)
(* The serial port, when one thread reads at a time and no byte arrives    *)
(* between the receiver's start and the wait: the port rests, or one       *)
(* reader is in one of the stages below, in which the byte it is to get is *)
(* still to arrive, first in the buffer, or delivered.                     *)
(***************************************************************************)
Numbers == 0 .. Bytes - 1

SerTypes ==
  /\ serPc \in [Reader -> {"idle", "next", "enabled", "waiting", "woken"}]
  /\ serByte \in [Reader -> Numbers \cup {NoByte}]
  /\ serFirst \in [Reader -> Numbers \cup {NoByte}]
  /\ rxNext \in Numbers /\ rxFifo \in Seq(Numbers)
  /\ QueueOf(Reader, rxQueue)

Off == ~rxOn /\ rxFifo = <<>> /\ rxLen = 0 /\ Members(rxQueue) = {} /\ serCur = Nobody

Enabled(t) ==
  /\ serPc[t] = "enabled" /\ serCur = t
  /\ rxOn /\ rx = t /\ rxLen = 1 /\ rxFifo = <<>> /\ Members(rxQueue) = {}
  /\ serFirst[t] = rxNext

\* The byte is still to be taken, or it was and the event is counted.
Untaken(t) ==
  /\ rxLen = 1 /\ rxQueue.pend = 0
  /\ IF rxFifo = <<>> THEN rxNext = serFirst[t] ELSE Head(rxFifo) = serFirst[t]

Taken(t) == rxLen = 0 /\ rxQueue.pend = 1 /\ serByte[t] = serFirst[t]

Waits(t) ==
  /\ serPc[t] = "waiting" /\ serCur = Nobody
  /\ rxOn /\ rx = t /\ Members(rxQueue) = {t}
  /\ Untaken(t) \/ Taken(t)

Roused(t) ==
  /\ serPc[t] = "woken" /\ serCur = Nobody
  /\ rxLen = 0 /\ Members(rxQueue) = {} /\ serByte[t] = serFirst[t]

Resting == Off /\ \A u \in Reader : serPc[u] = "idle"

Alone(t) == \A u \in Reader : u # t => serPc[u] = "idle"

Reads(t) == (serPc[t] = "next" /\ Off) \/ Enabled(t) \/ Waits(t) \/ Roused(t)

SerInv == SerTypes /\ (Resting \/ \E t \in Reader : Alone(t) /\ Reads(t))

LEMMA NoWaiters ==
  ASSUME NEW T, NEW q, QueueOf(T, q)
  PROVE  /\ Waiting(q) <=> Members(q) # {}
         /\ ~Waiting(q) => q.pend \in {0, 1}
<1>1. CASE q.waiters = <<>>
  BY <1>1 DEF Waiting, Members, Range, QueueOf
<1>2. CASE q.waiters # <<>>
  BY <1>2, Behead DEF Waiting, Members, QueueOf
<1> QED
  BY <1>1, <1>2

\* A step of the one thread t that reads.
LEMMA SerMoves ==
  ASSUME SerTypes, NEW t \in Reader, Alone(t), NEW l \in {"idle", "next", "enabled", "waiting", "woken"},
         SerGoto(t, l)
  PROVE  /\ serPc' \in [Reader -> {"idle", "next", "enabled", "waiting", "woken"}]
         /\ Alone(t)' /\ serPc'[t] = l
         /\ l = "idle" => \A u \in Reader : serPc'[u] = "idle"
BY DEF SerTypes, Alone, SerGoto

LEMMA SerStarts ==
  ASSUME ~SerShared, SerInv, NEW t \in Reader, NEW n, SerRead(t, n)
  PROVE  SerInv'
<1>1. Resting /\ SerTypes /\ Alone(t) /\ SerGoto(t, "next")
  BY DEF SerInv, SerRead, Reads, Enabled, Waits, Roused, Alone, Resting
<1>2. Alone(t)' /\ serPc'[t] = "next" /\ SerTypes'
  BY <1>1, SerMoves DEF SerTypes, SerRead, QueueOf
<1>3. Off'
  BY <1>1 DEF Resting, Off, SerRead, Members
<1> QED
  BY <1>2, <1>3 DEF SerInv, Reads

LEMMA SerEnables ==
  ASSUME SerInv, NEW t \in Reader, SerReadByte(t)
  PROVE  SerInv'
<1>1. SerTypes /\ Alone(t) /\ Off /\ SerGoto(t, "enabled")
  BY DEF SerInv, SerReadByte, Reads, Enabled, Waits, Roused, Alone, Resting
<1>2. /\ rxOn' /\ rxFifo' = rxFifo /\ rxLen' = 1 /\ rx' = t /\ serCur' = t
      /\ serByte' = [serByte EXCEPT ![t] = NoByte] /\ serFirst' = [serFirst EXCEPT ![t] = rxNext]
      /\ rxNext' = rxNext /\ rxQueue' = rxQueue
  BY DEF SerReadByte, UsartIoCtl
<1>3. Alone(t)' /\ serPc'[t] = "enabled" /\ SerTypes'
  BY <1>1, <1>2, SerMoves DEF SerTypes
<1>4. Enabled(t)'
  BY <1>1, <1>2, <1>3 DEF Enabled, Off, SerTypes, Members
<1> QED
  BY <1>3, <1>4 DEF SerInv, Reads

LEMMA SerWaits ==
  ASSUME SerInv, NEW t \in Reader, SerWait(t)
  PROVE  SerInv'
<1>1. SerTypes /\ Alone(t) /\ Enabled(t) /\ SerGoto(t, "waiting")
  BY DEF SerInv, SerWait, Reads, Off, Enabled, Waits, Roused, Alone, Resting
<1>2. /\ rxQueue' = WaitNext(rxQueue, t) /\ serCur' = Nobody
      /\ UNCHANGED <<rxOn, rxFifo, rxNext, rxLen, rx, serByte, serFirst>>
  BY DEF SerWait
<1>3. ~Waiting(rxQueue) /\ QueueOf(Reader, rxQueue) /\ t \notin Members(rxQueue)
  BY <1>1, NoWaiters DEF Enabled, SerTypes
<1>4. /\ QueueOf(Reader, rxQueue') /\ Members(rxQueue') = {t} /\ rxQueue'.pend = 0
  BY <1>1, <1>2, <1>3, WaitNextProps DEF Enabled, Waiting
<1>5. Alone(t)' /\ serPc'[t] = "waiting" /\ SerTypes'
  BY <1>1, <1>2, <1>4, SerMoves DEF SerTypes
<1>6. Waits(t)'
  BY <1>1, <1>2, <1>4, <1>5 DEF Enabled, Waits, Untaken
<1> QED
  BY <1>5, <1>6 DEF SerInv, Reads

LEMMA SerWakes ==
  ASSUME SerInv, NEW t \in Reader, SerEvent(t)
  PROVE  SerInv'
<1>1. /\ Delivers(rxQueue, t) /\ rxQueue' = Delivered(rxQueue) /\ SerGoto(t, "woken")
      /\ UNCHANGED <<rxOn, rxFifo, rxNext, rxLen, rx, serByte, serFirst, serCur>>
  BY DEF SerEvent
<1>2. /\ QueueOf(Reader, rxQueue') /\ t \in Members(rxQueue) /\ rxQueue.pend > 0
      /\ Members(rxQueue') = Members(rxQueue) \ {t}
  BY <1>1, DeliveredProps DEF SerInv, SerTypes
<1>3. SerTypes /\ Alone(t) /\ Waits(t)
  BY <1>2 DEF SerInv, Resting, Reads, Off, Enabled, Waits, Roused
<1>4. Alone(t)' /\ serPc'[t] = "woken" /\ SerTypes'
  BY <1>1, <1>2, <1>3, SerMoves DEF SerTypes
<1>5. Roused(t)'
  BY <1>1, <1>2, <1>3, <1>4 DEF Waits, Untaken, Taken, Roused
<1> QED
  BY <1>4, <1>5 DEF SerInv, Reads

LEMMA SerStops ==
  ASSUME SerInv, NEW t \in Reader, SerStop(t)
  PROVE  SerInv'
<1>1. SerTypes /\ Alone(t) /\ Roused(t)
  BY DEF SerInv, SerStop, Reads, Off, Enabled, Waits, Roused, Alone, Resting
<1>2. /\ ~rxOn' /\ rxFifo' = <<>>
      /\ UNCHANGED <<rxNext, rxLen, rxQueue, serByte, serFirst, serCur>>
      /\ \E l \in {"next", "idle"} : SerGoto(t, l)
  BY DEF SerStop, UsartIoCtl
<1>3. PICK l \in {"next", "idle"} : SerGoto(t, l)
  BY <1>2
<1>4. /\ Alone(t)' /\ serPc'[t] = l /\ SerTypes'
      /\ l = "idle" => \A u \in Reader : serPc'[u] = "idle"
  BY <1>1, <1>2, <1>3, SerMoves DEF SerTypes
<1>5. Off'
  BY <1>1, <1>2 DEF Roused, Off
<1> QED
  BY <1>4, <1>5 DEF SerInv, Reads, Resting

\* A byte arrives behind the one that the reader is to get.
LEMMA SerReceives ==
  ASSUME ~SerFast, SerInv, SerReceive
  PROVE  SerInv'
<1>1. /\ serCur = Nobody
      /\ rxNext' = (rxNext + 1) % Bytes
      /\ rxFifo' = IF rxOn /\ Len(rxFifo) < 2 THEN Append(rxFifo, rxNext) ELSE rxFifo
      /\ UNCHANGED <<rxOn, rxLen, rx, rxQueue, serPc, serByte, serFirst, serCur>>
  BY DEF SerReceive
<1>2. SerTypes /\ SerTypes'
  <2>1. rxNext' \in Numbers
    BY <1>1, SerialConstants DEF SerInv, SerTypes, Numbers
  <2> QED
    BY <1>1, <2>1 DEF SerInv, SerTypes
<1>3. CASE Resting
  BY <1>1, <1>2, <1>3 DEF SerInv, Resting, Off
<1>4. ASSUME NEW t \in Reader, Alone(t), Reads(t)
      PROVE  SerInv'
  <2>1. Alone(t)'
    BY <1>1, <1>4 DEF Alone
  <2>2. CASE serPc[t] = "next" /\ Off
    BY <1>1, <1>2, <2>1, <2>2 DEF SerInv, Reads, Off
  <2>3. CASE Waits(t)
    <3>1. Taken(t) => Taken(t)'
      BY <1>1 DEF Taken
    <3>2. ASSUME Untaken(t)
          PROVE  Untaken(t)'
      <4>1. CASE rxFifo = <<>>
        <5>1. rxFifo' = Append(rxFifo, rxNext) /\ rxFifo' # <<>> /\ Head(rxFifo') = rxNext
          BY <1>1, <1>2, <2>3, <4>1 DEF Waits, SerTypes
        <5> QED
          BY <1>1, <3>2, <4>1, <5>1 DEF Untaken
      <4>2. CASE rxFifo # <<>>
        <5>1. rxFifo' # <<>> /\ Head(rxFifo') = Head(rxFifo)
          BY <1>1, <1>2, <4>2 DEF SerTypes
        <5> QED
          BY <1>1, <3>2, <4>2, <5>1 DEF Untaken
      <4> QED
        BY <4>1, <4>2
    <3>3. Waits(t)'
      BY <1>1, <2>3, <3>1, <3>2 DEF Waits
    <3> QED
      BY <1>2, <2>1, <3>3 DEF SerInv, Reads
  <2>4. CASE Roused(t)
    BY <1>1, <1>2, <2>1, <2>4 DEF SerInv, Reads, Roused
  <2>5. ~Enabled(t)
    BY <1>1, SerialConstants DEF Enabled
  <2> QED
    BY <1>4, <2>2, <2>3, <2>4, <2>5 DEF Reads
<1> QED
  BY <1>3, <1>4 DEF SerInv

\* The interrupt takes the byte for the reader that waits.
LEMMA SerInterrupts ==
  ASSUME SerInv, SerInterrupt
  PROVE  SerInv'
<1>1. /\ rxFifo # <<>> /\ rxLen # 0 /\ rxFifo' = Tail(rxFifo) /\ rxLen' = 0
      /\ serByte' = [serByte EXCEPT ![rx] = Head(rxFifo)]
      /\ rxQueue' = SignalFromISR(rxQueue)
      /\ UNCHANGED <<rxOn, rxNext, rx, serPc, serFirst, serCur>>
  BY DEF SerInterrupt
<1>2. PICK t \in Reader : Alone(t) /\ Waits(t) /\ Untaken(t)
  BY <1>1 DEF SerInv, Resting, Reads, Off, Enabled, Waits, Taken, Roused
<1>3. /\ QueueOf(Reader, rxQueue') /\ Members(rxQueue') = Members(rxQueue)
      /\ Waiting(rxQueue) => rxQueue'.pend = rxQueue.pend + 1
  BY <1>1, IsrProps DEF SerInv, SerTypes
<1>4. Waiting(rxQueue) /\ rxQueue'.pend = 1 /\ Members(rxQueue') = {t}
  <2>1. Members(rxQueue) = {t} /\ rxQueue.pend = 0 /\ QueueOf(Reader, rxQueue)
    BY <1>2 DEF Waits, Untaken, SerInv, SerTypes
  <2>2. Waiting(rxQueue)
    BY <2>1, NoWaiters
  <2> QED
    BY <1>3, <2>1, <2>2
<1>5. Head(rxFifo) \in Numbers /\ rxFifo' \in Seq(Numbers)
  BY <1>1 DEF SerInv, SerTypes
<1>6. SerTypes' /\ Alone(t)' /\ serByte'[t] = Head(rxFifo)
  BY <1>1, <1>2, <1>3, <1>5 DEF SerInv, SerTypes, Alone, Waits
<1>7. Waits(t)'
  BY <1>1, <1>2, <1>4, <1>6 DEF Waits, Untaken, Taken
<1> QED
  BY <1>6, <1>7 DEF SerInv, Reads

\* One thread at most reads, always.
LEMMA SerInvariant ==
  ASSUME ~SerFast, ~SerShared
  PROVE  Spec => []SerInv
<1>1. Init => SerInv
  <2> SUFFICES ASSUME Init
               PROVE  SerInv
    OBVIOUS
  <2>1. QueueOf(Reader, Stored) /\ Members(Stored) = {}
    BY EmptyQueues
  <2>2. SerTypes
    BY <2>1, SerialConstants DEF Init, SerInit, SerTypes, Numbers
  <2> QED
    BY <2>1, <2>2 DEF Init, SerInit, SerInv, Resting, Off
<1>2. SerInv /\ [Next]_vars => SerInv'
  <2>1. [Next]_vars => SerNext \/ UNCHANGED serVars
    BY DEF Next, Only, vars
  <2>2. SerInv /\ UNCHANGED serVars => SerInv'
    BY DEF serVars, SerInv, SerTypes, QueueOf, Resting, Reads, Alone, Off, Enabled, Waits,
           Untaken, Taken, Roused, Members
  <2>3. ASSUME SerInv, SerNext
        PROVE  SerInv'
    BY <2>3, SerStarts, SerEnables, SerWaits, SerWakes, SerStops, SerReceives, SerInterrupts
    DEF SerNext, SerStep
  <2> QED
    BY <2>1, <2>2, <2>3
<1> QED
  BY <1>1, <1>2, PTL DEF Spec

(***************************************************************************)
(* Each byte of a read is the first that arrived after the receiver was    *)
(* turned on for it (usart_read, BermudaUsartReadByte, BermudaUsartISR):   *)
(* when threads do not read at the same time, and no byte arrives before   *)
(* its reader waits.                                                       *)
(***************************************************************************)
THEOREM SerialReadsFirst ==
  ASSUME ~SerFast, ~SerShared
  PROVE  Spec => []ReadsFirst
<1>1. SerInv => ReadsFirst
  BY DEF SerInv, Resting, Alone, Reads, Off, Enabled, Waits, Roused, ReadsFirst
<1> QED
  BY <1>1, SerInvariant, PTL

-----------------------------------------------------------------------------
(***************************************************************************)
(* The converter, until the first time-out and when no conversion ends     *)
(* before its thread waits: one thread has the mutex, the conversion that  *)
(* runs is its own, and so is the sample that is in the data register.     *)
(***************************************************************************)
AdcPlaces == {"idle", "mutex", "locked", "started", "converting", "converted"}

Converts(t) == adcPc[t] \in {"locked", "started", "converting", "converted"}

AdcTypes ==
  /\ adcPc \in [AdcThread -> AdcPlaces]
  /\ adcPin \in [AdcThread -> Pin \cup {NoPin}] /\ adcSample \in [AdcThread -> Pin \cup {NoPin}]
  /\ QueueOf(AdcThread, adcMutex) /\ QueueOf(AdcThread, adcQueue)

AdcLocks ==
  /\ \A t \in AdcThread : adcPc[t] = "mutex" <=> t \in Members(adcMutex)
  /\ adcMutex.pend \in {0, 1}
  /\ adcMutex.pend = 1 => Members(adcMutex) = {} /\ \A t \in AdcThread : ~Converts(t)
  /\ \A t, u \in AdcThread : Converts(t) /\ Converts(u) => t = u

AdcSamples ==
  /\ \A t \in AdcThread : adcPc[t] # "idle" => adcPin[t] \in Pin
  /\ \A t \in AdcThread : adcSample[t] # NoPin => adcSample[t] = adcPin[t]

AdcRests == adsc = NoPin /\ Members(adcQueue) = {}

Stage(t) ==
  /\ adcPc[t] = "locked" => AdcRests
  /\ adcPc[t] = "started" => adsc = adcPin[t] /\ Members(adcQueue) = {}
  /\ adcPc[t] = "converting" =>
       /\ Members(adcQueue) = {t}
       /\ \/ adcQueue.pend = 0 /\ adsc = adcPin[t]
          \/ adcQueue.pend = 1 /\ adsc = NoPin /\ adcData = adcPin[t]
  /\ adcPc[t] = "converted" => AdcRests /\ adcData = adcPin[t]

AdcStages ==
  /\ (\A t \in AdcThread : ~Converts(t)) => AdcRests
  /\ \A t \in AdcThread : Converts(t) => Stage(t)

AdcInv == AdcTypes /\ AdcLocks /\ AdcSamples /\ AdcStages

\* A step of the thread t that has the mutex, to the place l where it keeps it.
LEMMA AdcMoves ==
  ASSUME AdcInv, NEW t \in AdcThread, Converts(t),
         NEW l \in {"locked", "started", "converting", "converted"}, AdcGoto(t, l),
         UNCHANGED <<adcMutex, adcPin, adcSample>>,
         QueueOf(AdcThread, adcQueue'), Stage(t)'
  PROVE  AdcInv'
<1>1. \A u \in AdcThread : u # t => ~Converts(u) /\ adcPc'[u] = adcPc[u] /\ ~Converts(u)'
  BY DEF AdcInv, AdcTypes, AdcLocks, AdcGoto, Converts
<1>2. adcPc'[t] = l /\ Converts(t)' /\ adcPc[t] \notin {"idle", "mutex"}
  BY DEF AdcInv, AdcTypes, AdcGoto, Converts
<1>3. AdcTypes'
  BY DEF AdcInv, AdcTypes, AdcGoto, AdcPlaces
<1>4. AdcLocks'
  BY <1>1, <1>2 DEF AdcInv, AdcLocks, Members
<1>5. AdcSamples' /\ AdcStages'
  BY <1>1, <1>2 DEF AdcInv, AdcSamples, AdcStages
<1> QED
  BY <1>3, <1>4, <1>5 DEF AdcInv

LEMMA AdcCalls ==
  ASSUME AdcInv, NEW t \in AdcThread, NEW p \in Pin, AdcCall(t, p)
  PROVE  AdcInv'
<1>1. /\ adcPc[t] = "idle" /\ adcMutex' = Wait(adcMutex, t)
      /\ adcPin' = [adcPin EXCEPT ![t] = p] /\ adcSample' = [adcSample EXCEPT ![t] = NoPin]
      /\ AdcGoto(t, IF Takes(adcMutex) THEN "locked" ELSE "mutex")
      /\ UNCHANGED <<adcQueue, adsc, adcData>>
  BY DEF AdcCall
<1>2. t \notin Members(adcMutex) /\ ~Converts(t)
  BY <1>1 DEF AdcInv, AdcLocks, Converts
<1>3. /\ QueueOf(AdcThread, adcMutex')
      /\ Takes(adcMutex) => /\ Members(adcMutex) = {} /\ Members(adcMutex') = {}
                            /\ adcMutex'.pend = 0
      /\ ~Takes(adcMutex) => /\ Members(adcMutex') = Members(adcMutex) \cup {t}
                             /\ adcMutex'.pend = adcMutex.pend
  BY <1>1, <1>2, WaitProps DEF AdcInv, AdcTypes
<1>4. AdcTypes'
  BY <1>1, <1>3 DEF AdcInv, AdcTypes, AdcPlaces, AdcGoto
<1>5. AdcSamples'
  BY <1>1 DEF AdcInv, AdcTypes, AdcSamples, AdcGoto
<1>6. \A u \in AdcThread : u # t => adcPc'[u] = adcPc[u] /\ adcPin'[u] = adcPin[u]
  BY <1>1 DEF AdcInv, AdcTypes, AdcGoto
<1>7. CASE Takes(adcMutex)
  <2>1. adcPc'[t] = "locked"
    BY <1>1, <1>7 DEF AdcInv, AdcTypes, AdcGoto
  <2>2. (\A u \in AdcThread : ~Converts(u)) /\ AdcRests
    BY <1>7 DEF AdcInv, AdcLocks, AdcStages, Takes
  <2>3. AdcLocks'
    BY <1>3, <1>6, <1>7, <2>1, <2>2 DEF AdcInv, AdcLocks, Converts
  <2>4. \A u \in AdcThread : Converts(u)' => u = t
    BY <1>6, <2>2 DEF Converts
  <2>5. AdcStages'
    BY <1>1, <2>1, <2>2, <2>4 DEF AdcStages, Stage, AdcRests, Members, Converts
  <2> QED
    BY <1>4, <1>5, <2>3, <2>5 DEF AdcInv
<1>8. CASE ~Takes(adcMutex)
  <2>1. adcPc'[t] = "mutex"
    BY <1>1, <1>8 DEF AdcInv, AdcTypes, AdcGoto
  <2>2. adcMutex.pend = 0
    <3>1. CASE Waiting(adcMutex)
      BY <3>1, NoWaiters DEF AdcInv, AdcTypes, AdcLocks
    <3>2. CASE ~Waiting(adcMutex)
      BY <1>8, <3>2 DEF AdcInv, AdcLocks, Takes
    <3> QED
      BY <3>1, <3>2
  <2>3. \A u \in AdcThread : Converts(u)' <=> Converts(u)
    BY <1>2, <1>6, <2>1 DEF Converts
  <2>4. AdcLocks'
    BY <1>1, <1>3, <1>6, <1>8, <2>1, <2>2, <2>3 DEF AdcInv, AdcLocks
  <2>5. AdcStages'
    BY <1>1, <1>2, <1>6, <2>3 DEF AdcInv, AdcStages, Stage, AdcRests, Members
  <2> QED
    BY <1>4, <1>5, <2>4, <2>5 DEF AdcInv
<1> QED
  BY <1>7, <1>8

\* The thread t that has the mutex leaves with its sample or without one, and
\* the waiter h has the mutex, if h is another thread.
OwnResult(t) ==
  /\ \E v \in {NoPin, adcPin[t]} : adcSample' = [adcSample EXCEPT ![t] = v]
  /\ UNCHANGED <<adcQueue, adsc, adcPin>>

HandsOver(t, h) ==
  /\ adcPc' = [u \in AdcThread |-> IF u = t THEN "idle" ELSE IF u = h THEN "locked" ELSE adcPc[u]]
  /\ QueueOf(AdcThread, adcMutex')
  /\ \/ /\ h = t /\ Members(adcMutex') = Members(adcMutex)
        /\ adcMutex'.pend = 0 \/ (adcMutex'.pend = 1 /\ Members(adcMutex) = {})
     \/ /\ h \in Members(adcMutex) /\ Members(adcMutex') = Members(adcMutex) \ {h}
        /\ adcMutex'.pend = 0

LEMMA AdcLeaves ==
  ASSUME AdcInv, NEW t \in AdcThread, Converts(t), AdcRests, OwnResult(t),
         NEW h \in AdcThread, HandsOver(t, h)
  PROVE  AdcInv'
<1>1. t \notin Members(adcMutex) /\ \A u \in AdcThread : u # t => ~Converts(u)
  BY DEF AdcInv, AdcLocks, Converts
<1>2. AdcTypes'
  <2>1. adcPc' \in [AdcThread -> AdcPlaces]
    BY DEF AdcInv, AdcTypes, AdcPlaces, HandsOver
  <2>2. adcSample' \in [AdcThread -> Pin \cup {NoPin}]
    BY DEF AdcInv, AdcTypes, OwnResult
  <2> QED
    BY <2>1, <2>2 DEF AdcInv, AdcTypes, OwnResult, HandsOver
<1>3. \A u \in AdcThread : Converts(u)' <=> u = h /\ h # t
  BY <1>1 DEF Converts, HandsOver
<1>4. h # t => h \in Members(adcMutex)
  BY DEF HandsOver
<1>5. AdcLocks'
  <2>1. CASE h = t
    BY <1>1, <1>3, <2>1 DEF AdcInv, AdcTypes, AdcLocks, HandsOver
  <2>2. CASE h # t
    BY <1>1, <1>3, <2>2 DEF AdcInv, AdcTypes, AdcLocks, HandsOver
  <2> QED
    BY <2>1, <2>2
<1>6. AdcSamples'
  <2>1. \A u \in AdcThread : u # t => adcSample'[u] = adcSample[u]
    BY DEF AdcInv, AdcTypes, OwnResult
  <2>2. \A u \in AdcThread : adcSample'[u] # NoPin => adcSample'[u] = adcPin[u]
    BY <2>1 DEF AdcInv, AdcSamples, OwnResult
  <2>3. \A u \in AdcThread : adcPc'[u] # "idle" => adcPin[u] \in Pin
    BY <1>4 DEF AdcInv, AdcSamples, AdcLocks, HandsOver
  <2> QED
    BY <2>2, <2>3 DEF AdcSamples, OwnResult
<1>7. AdcStages'
  BY <1>3, <1>4 DEF AdcStages, Stage, AdcRests, Members, OwnResult, HandsOver
<1> QED
  BY <1>2, <1>5, <1>6, <1>7 DEF AdcInv

\* AdcOff and AdcRead.
LEMMA AdcReturns ==
  ASSUME AdcInv, NEW t \in AdcThread, AdcOff(t) \/ AdcRead(t)
  PROVE  AdcInv'
<1>1. Converts(t) /\ Stage(t) /\ adcMutex.pend = 0 /\ QueueOf(AdcThread, adcMutex)
  BY DEF AdcOff, AdcRead, Converts, AdcInv, AdcTypes, AdcLocks, AdcStages
<1>2. CASE AdcOff(t)
  <2>1. /\ adcPc[t] = "locked" /\ AdcGoto(t, "idle")
        /\ UNCHANGED <<adcMutex, adcQueue, adsc, adcPin, adcSample>>
    BY <1>2 DEF AdcOff
  <2>2. adcPc' = [u \in AdcThread |-> IF u = t THEN "idle" ELSE IF u = t THEN "locked" ELSE adcPc[u]]
    BY <2>1 DEF AdcGoto, AdcInv, AdcTypes
  <2>3. AdcRests
    BY <1>1, <2>1 DEF Stage
  <2>4. OwnResult(t)
    <3>1. adcSample[t] \in {NoPin, adcPin[t]} /\ adcSample' = [adcSample EXCEPT ![t] = adcSample[t]]
      BY <2>1 DEF AdcInv, AdcTypes, AdcSamples
    <3> QED
      BY <2>1, <3>1 DEF OwnResult
  <2>5. HandsOver(t, t)
    BY <1>1, <2>1, <2>2 DEF HandsOver
  <2> QED
    BY <1>1, <2>3, <2>4, <2>5, AdcLeaves
<1>3. CASE AdcRead(t)
  <2> DEFINE h == IF Waiting(adcMutex) THEN Head(adcMutex.waiters) ELSE t
  <2>1. /\ adcPc[t] = "converted" /\ adcMutex' = Signal(adcMutex)
        /\ adcSample' = [adcSample EXCEPT ![t] = adcData]
        /\ UNCHANGED <<adcQueue, adsc, adcPin>>
    BY <1>3 DEF AdcRead
  <2>2. AdcRests /\ adcData = adcPin[t] /\ adcPin[t] \in Pin
    BY <1>1, <2>1 DEF Stage, AdcInv, AdcSamples
  <2>3. /\ QueueOf(AdcThread, adcMutex')
        /\ Waiting(adcMutex) => /\ Head(adcMutex.waiters) \in Members(adcMutex)
                                /\ Head(adcMutex.waiters) \in AdcThread
                                /\ Members(adcMutex') = Members(adcMutex) \ {Head(adcMutex.waiters)}
                                /\ adcMutex'.pend = 0
        /\ ~Waiting(adcMutex) => Members(adcMutex) = {} /\ Members(adcMutex') = {} /\ adcMutex'.pend = 1
    BY <1>1, <2>1, SignalProps
  <2>4. Waiting(adcMutex) => Head(adcMutex.waiters) # t
    BY <1>1, <2>3 DEF AdcInv, AdcLocks, Converts
  <2>5. adcPc' = [u \in AdcThread |-> IF u = t THEN "idle" ELSE IF u = h THEN "locked" ELSE adcPc[u]]
    <3>1. CASE Waiting(adcMutex)
      <4> DEFINE g == Head(adcMutex.waiters)
      <4>1. adcPc' = [u \in AdcThread |-> IF u = t THEN "idle"
                                         ELSE IF u = g THEN "locked" ELSE adcPc[u]]
        BY <1>3, <3>1 DEF AdcRead
      <4>2. g # t /\ h = g
        BY <2>4, <3>1
      <4> HIDE DEF g, h
      <4> QED
        BY <4>1, <4>2
    <3>2. CASE ~Waiting(adcMutex)
      BY <1>3, <3>2 DEF AdcRead
    <3> QED
      BY <3>1, <3>2
  <2>6. OwnResult(t)
    BY <2>1, <2>2 DEF AdcInv, AdcTypes, OwnResult
  <2>7. h \in AdcThread /\ HandsOver(t, h)
    BY <2>3, <2>5 DEF HandsOver
  <2> HIDE DEF h
  <2> QED
    BY <1>1, <2>2, <2>6, <2>7, AdcLeaves
<1> QED
  BY <1>2, <1>3

\* AdcStart, AdcWait and AdcEvent.
LEMMA AdcGoesOn ==
  ASSUME AdcInv, NEW t \in AdcThread, AdcStart(t) \/ AdcWait(t) \/ AdcEvent(t)
  PROVE  AdcInv'
<1>1. CASE AdcStart(t)
  <2>1. Converts(t) /\ AdcRests
    BY <1>1 DEF AdcStart, Converts, AdcInv, AdcStages, Stage
  <2>2. /\ AdcGoto(t, "started") /\ adsc' = adcPin[t]
        /\ UNCHANGED <<adcMutex, adcQueue, adcPin, adcSample>>
    BY <1>1, <2>1 DEF AdcStart, AdcRests
  <2>3. adcPc'[t] = "started"
    BY <2>2 DEF AdcGoto, AdcInv, AdcTypes
  <2>4. Stage(t)'
    BY <2>1, <2>2, <2>3 DEF Stage, AdcRests, Members
  <2> QED
    BY <2>1, <2>2, <2>4, AdcMoves DEF AdcInv, AdcTypes
<1>2. CASE AdcWait(t)
  <2>1. Converts(t) /\ adsc = adcPin[t] /\ Members(adcQueue) = {} /\ QueueOf(AdcThread, adcQueue)
    BY <1>2 DEF AdcWait, Converts, AdcInv, AdcTypes, AdcStages, Stage
  <2>2. /\ AdcGoto(t, "converting") /\ adcQueue' = WaitNext(adcQueue, t)
        /\ UNCHANGED <<adcMutex, adsc, adcPin, adcSample>>
    BY <1>2 DEF AdcWait
  <2>3. ~Waiting(adcQueue)
    BY <2>1, NoWaiters
  <2>4. QueueOf(AdcThread, adcQueue') /\ Members(adcQueue') = {t} /\ adcQueue'.pend = 0
    BY <2>1, <2>2, <2>3, WaitNextProps DEF Waiting
  <2>5. adcPc'[t] = "converting"
    BY <2>2 DEF AdcGoto, AdcInv, AdcTypes
  <2>6. Stage(t)'
    BY <2>1, <2>2, <2>4, <2>5 DEF Stage
  <2> QED
    BY <2>1, <2>2, <2>4, <2>6, AdcMoves
<1>3. CASE AdcEvent(t)
  <2>1. /\ AdcGoto(t, "converted") /\ Delivers(adcQueue, t) /\ adcQueue' = Delivered(adcQueue)
        /\ UNCHANGED <<adcMutex, adsc, adcData, adcPin, adcSample>>
    BY <1>3 DEF AdcEvent
  <2>2. /\ QueueOf(AdcThread, adcQueue') /\ t \in Members(adcQueue) /\ adcQueue.pend > 0
        /\ Members(adcQueue') = Members(adcQueue) \ {t}
    BY <2>1, DeliveredProps DEF AdcInv, AdcTypes
  <2>3. PICK u \in AdcThread : Converts(u) /\ Stage(u)
    BY <2>2 DEF AdcInv, AdcStages, AdcRests
  <2>4. /\ u = t /\ adcPc[t] = "converting" /\ Members(adcQueue) = {t}
        /\ adsc = NoPin /\ adcData = adcPin[t]
    BY <2>2, <2>3 DEF Converts, Stage, AdcRests
  <2>5. adcPc'[t] = "converted"
    BY <2>1 DEF AdcGoto, AdcInv, AdcTypes
  <2>6. Stage(t)'
    BY <2>1, <2>2, <2>4, <2>5 DEF Stage, AdcRests
  <2> QED
    BY <2>1, <2>2, <2>3, <2>4, <2>6, AdcMoves
<1> QED
  BY <1>1, <1>2, <1>3

LEMMA AdcCompletes ==
  ASSUME ~AdcFast, AdcInv, AdcComplete
  PROVE  AdcInv'
<1>1. /\ adsc # NoPin /\ \A t \in AdcThread : adcPc[t] # "started"
      /\ adcData' = adsc /\ adsc' = NoPin /\ adcQueue' = SignalFromISR(adcQueue)
      /\ UNCHANGED <<adcMutex, adcPc, adcPin, adcSample>>
  BY DEF AdcComplete
<1>2. PICK t \in AdcThread : Converts(t) /\ Stage(t)
  BY <1>1 DEF AdcInv, AdcStages, AdcRests
<1>3. /\ adcPc[t] = "converting" /\ Members(adcQueue) = {t} /\ adcQueue.pend = 0
      /\ adsc = adcPin[t] /\ QueueOf(AdcThread, adcQueue)
  BY <1>1, <1>2 DEF Converts, Stage, AdcRests, AdcInv, AdcTypes
<1>4. Waiting(adcQueue)
  BY <1>3, NoWaiters
<1>5. QueueOf(AdcThread, adcQueue') /\ Members(adcQueue') = {t} /\ adcQueue'.pend = 1
  BY <1>1, <1>3, <1>4, IsrProps
<1>6. AdcTypes' /\ AdcLocks' /\ AdcSamples'
  BY <1>1, <1>5 DEF AdcInv, AdcTypes, AdcLocks, AdcSamples, Converts, Members
<1>7. Stage(t)'
  BY <1>1, <1>3, <1>5 DEF Stage
<1>8. AdcStages'
  BY <1>1, <1>2, <1>7 DEF AdcInv, AdcLocks, AdcStages, Converts
<1> QED
  BY <1>6, <1>8 DEF AdcInv

LEMMA AdcStays ==
  ASSUME AdcInv, UNCHANGED <<adcMutex, adcQueue, adsc, adcData, adcPc, adcPin, adcSample>>
  PROVE  AdcInv'
BY DEF AdcInv, AdcTypes, AdcLocks, AdcSamples, AdcStages, Stage, AdcRests, Converts, Members, QueueOf

(***************************************************************************)
(* The sample that a call of BermudaADCConvert returns was taken from the  *)
(* pin it asked for, until the first time-out: when no conversion ends     *)
(* before its thread waits for it.                                         *)
(***************************************************************************)
THEOREM AdcOwnSample ==
  ASSUME ~AdcFast
  PROVE  Spec => []OwnSample
<1> DEFINE Good == adcLate \/ AdcInv
<1>1. Init => Good
  <2> SUFFICES ASSUME Init
               PROVE  AdcInv
    OBVIOUS
  <2>1. /\ QueueOf(AdcThread, Stored) /\ Members(Stored) = {} /\ Stored.pend = 1
        /\ adcMutex = Stored /\ adcQueue = Stored
    BY EmptyQueues DEF Init, AdcInit, Stored
  <2>2. AdcTypes /\ AdcSamples
    BY <2>1 DEF Init, AdcInit, AdcTypes, AdcSamples, AdcPlaces
  <2>3. AdcLocks /\ AdcStages
    BY <2>1 DEF Init, AdcInit, AdcLocks, AdcStages, AdcRests, Converts
  <2> QED
    BY <2>2, <2>3 DEF AdcInv
<1>2. Good /\ [Next]_vars => Good'
  <2>1. [Next]_vars => AdcNext \/ UNCHANGED adcVars
    BY DEF Next, Only, vars
  <2>2. UNCHANGED adcVars /\ Good => Good'
    BY AdcStays DEF adcVars
  <2>3. ASSUME adcLate, AdcNext
        PROVE  adcLate'
    BY <2>3 DEF AdcNext, AdcStep, AdcOff, AdcStart, AdcWait, AdcEvent, AdcRead, AdcMutexTmo,
                AdcConvTmo, AdcCall, AdcComplete, AdcDisable
  <2>4. ASSUME AdcInv, AdcNext
        PROVE  Good'
    <3>1. ASSUME NEW t \in AdcThread, AdcStep(t)
          PROVE  AdcInv'
      BY <2>4, <3>1, AdcReturns, AdcGoesOn DEF AdcStep
    <3>2. ASSUME NEW t \in AdcThread, AdcMutexTmo(t) \/ AdcConvTmo(t)
          PROVE  adcLate'
      BY <3>2 DEF AdcMutexTmo, AdcConvTmo
    <3>3. AdcDisable => AdcInv'
      BY <2>4, AdcStays DEF AdcDisable
    <3> QED
      BY <2>4, <3>1, <3>2, <3>3, AdcCalls, AdcCompletes DEF AdcNext
  <2> QED
    BY <2>1, <2>2, <2>3, <2>4
<1>3. Good => OwnSample
  BY DEF AdcInv, AdcSamples, OwnSample
<1> QED
  BY <1>1, <1>2, <1>3, PTL DEF Spec
-----------------------------------------------------------------------------
(***************************************************************************)
(* The switch of threads.  A thread that does not run has its registers on *)
(* its stack, as BermudaStackInit or BermudaSwitchTask left them there,    *)
(* and nothing else but, after a switch, what it returns to.               *)
(***************************************************************************)
Byte == {Zero} \cup CtxThread \cup (CtxThread \X Register \X (0 .. 1))

Place == (CtxThread \cup {Boot}) \X Nat

Cell == Byte \cup Place \cup {"handle", "exec", "switched", TRUE, FALSE}

\* A sequence of n cells.
Stack(S, s, n) == s \in Seq(S) /\ n \in Nat /\ Len(s) = n

\* With the stack pointer p, the stack m of t holds the registers k.
Holding(m, p, t, k) ==
  \E h \in {34, 36} :
    /\ p = <<t, h>>
    /\ Stack(Cell, m, h)
    /\ h = 34 => m[1] = "handle" /\ m[3] = TRUE
    /\ h = 36 => m[2] = TRUE /\ m[3] = "switched" /\ m[5] = FALSE
    /\ m[h - 32] = k[0]
    /\ \A r \in 1 .. 31 : m[h - 31 + r] = k[r]

CtxTypes ==
  /\ current \in CtxThread
  /\ runQ \in Seq(CtxThread) /\ killQ \in Seq(CtxThread)
  /\ life \in [CtxThread -> {"new", "live", "freed"}]
  /\ place \in {"boot", "app", "switched"}
  /\ mem \in [CtxThread \cup {Boot} -> Seq(Cell)]
  /\ sp \in [CtxThread -> Place]
  /\ kept \in [CtxThread -> [Register -> Byte]]

\* Who is ready or waits to be freed is live, and IDLE is always ready.
CtxLists ==
  /\ Lists!NoDuplicates(runQ)
  /\ Range(runQ) \cap Range(killQ) = {}
  /\ {Idle, current} \subseteq Range(runQ)
  /\ \A t \in Range(runQ) \cup Range(killQ) : life[t] = "live"

CtxRuns ==
  /\ place = "boot" =>
       /\ current = Idle /\ runQ[1] = Idle /\ Len(runQ) = 1 /\ stack = Boot
       /\ mem[Boot] = <<>> /\ sreg = TRUE /\ regs \in [Register -> Byte]
  /\ place # "boot" => stack = current /\ regs = kept[current]
  /\ place = "app" => sreg = TRUE /\ mem[stack] = <<>>
  /\ place = "switched" => Len(mem[stack]) = 2 /\ mem[stack][2] = TRUE /\ sreg = FALSE

CtxSaved ==
  \A t \in CtxThread : life[t] = "live" /\ (t # current \/ place = "boot") =>
    Holding(mem[t], sp[t], t, kept[t])

CtxInv == CtxTypes /\ CtxLists /\ CtxRuns /\ CtxSaved

LEMMA Cells ==
  /\ Byte \subseteq Cell /\ Place \subseteq Cell
  /\ {"handle", "exec", "switched", TRUE, FALSE} \subseteq Cell
  /\ Zero \in Byte /\ CtxThread \subseteq Byte
  /\ \A t \in CtxThread, r \in Register, k \in 0 .. 1 : <<t, r, k>> \in Byte
BY DEF Byte, Cell

\* One sequence behind the other.
Behind(w, s, u) == w = s \o u

Follows(w, s, n, u, k) ==
  /\ \A i \in 1 .. n : w[i] = s[i]
  /\ \A i \in 1 .. k : w[n + i] = u[i]

LEMMA BehindProps ==
  ASSUME NEW S, NEW s, NEW n, Stack(S, s, n), NEW u, NEW k, Stack(S, u, k),
         NEW w, Behind(w, s, u)
  PROVE  Stack(S, w, n + k) /\ Follows(w, s, n, u, k)
<1>1. s \in Seq(S) /\ u \in Seq(S) /\ Len(s) = n /\ Len(u) = k /\ n \in Nat /\ k \in Nat
  BY DEF Stack
<1>2. /\ s \o u \in Seq(S)
      /\ Len(s \o u) = Len(s) + Len(u)
      /\ \A i \in 1 .. Len(s) + Len(u) :
           (s \o u)[i] = IF i <= Len(s) THEN s[i] ELSE u[i - Len(s)]
  BY <1>1, ConcatProperties
<1>3. /\ w \in Seq(S)
      /\ Len(w) = Len(s) + Len(u)
      /\ \A i \in 1 .. Len(s) + Len(u) : w[i] = IF i <= Len(s) THEN s[i] ELSE u[i - Len(s)]
  BY <1>2, Zenon DEF Behind
<1>4. /\ Len(w) = n + k
      /\ \A i \in 1 .. n + k : w[i] = IF i <= n THEN s[i] ELSE u[i - n]
  BY <1>1, <1>3, Zenon
<1>5. \A i \in 1 .. n : w[i] = s[i]
  BY <1>1, <1>4
<1>6. \A i \in 1 .. k : w[n + i] = u[i]
  BY <1>1, <1>4
<1> QED
  BY <1>1, <1>3, <1>4, <1>5, <1>6 DEF Stack, Follows

LEMMA FunctionIsSeq ==
  ASSUME NEW S, NEW n \in Nat, NEW f \in [1 .. n -> S]
  PROVE  Stack(S, f, n)
<1>1. f \in Seq(S)
  BY SeqDef
<1>2. Len(f) = n
  BY <1>1, LenProperties
<1> QED
  BY <1>1, <1>2 DEF Stack

\* What is on the stack m after two cells, the registers of a switch, and two more.
Stacked(full, m, ab, cd, f, top) == \E u, v, g :
  Behind(u, m, ab) /\ Behind(g, cd, f) /\ Behind(v, u, g) /\ Behind(full, v, top)

LEMMA Pushed ==
  ASSUME NEW S, NEW m, NEW n, Stack(S, m, n), NEW ab, Stack(S, ab, 2), NEW cd, Stack(S, cd, 2),
         NEW f, Stack(S, f, 31), NEW top, Stack(S, top, 2),
         NEW full, Stacked(full, m, ab, cd, f, top)
  PROVE  /\ Stack(S, full, n + 37)
         /\ \A i \in 1 .. n : full[i] = m[i]
         /\ full[n + 1] = ab[1] /\ full[n + 2] = ab[2] /\ full[n + 3] = cd[1]
         /\ full[n + 4] = cd[2]
         /\ \A r \in 1 .. 31 : full[n + 4 + r] = f[r]
<1>1. PICK u, v, g :
        Behind(u, m, ab) /\ Behind(g, cd, f) /\ Behind(v, u, g) /\ Behind(full, v, top)
  BY DEF Stacked
<1>2. Stack(S, g, 2 + 31) /\ Follows(g, cd, 2, f, 31)
  BY <1>1, BehindProps
<1>3. Stack(S, g, 33)
  BY <1>2, 2 + 31 = 33
<1>4. Stack(S, u, n + 2) /\ Follows(u, m, n, ab, 2)
  BY <1>1, BehindProps
<1>6. Stack(S, v, (n + 2) + 33) /\ Follows(v, u, n + 2, g, 33)
  BY <1>1, <1>3, <1>4, BehindProps
<1>8. Stack(S, full, ((n + 2) + 33) + 2) /\ Follows(full, v, (n + 2) + 33, top, 2)
  BY <1>1, <1>6, BehindProps
<1>9. n \in Nat
  BY DEF Stack
<1>10. /\ \A i \in 1 .. n + 35 : full[i] = v[i]
       /\ \A i \in 1 .. n + 2 : v[i] = u[i]
       /\ \A i \in 1 .. 33 : v[(n + 2) + i] = g[i]
       /\ \A i \in 1 .. n : u[i] = m[i]
       /\ \A i \in 1 .. 2 : u[n + i] = ab[i]
       /\ \A i \in 1 .. 2 : g[i] = cd[i]
       /\ \A i \in 1 .. 31 : g[2 + i] = f[i]
  BY <1>2, <1>4, <1>6, <1>8, <1>9 DEF Follows
<1>11. /\ \A i \in 1 .. n : full[i] = m[i]
       /\ full[n + 1] = ab[1] /\ full[n + 2] = ab[2] /\ full[n + 3] = cd[1]
       /\ full[n + 4] = cd[2]
  <2>1. full[n + 1] = u[n + 1] /\ full[n + 2] = u[n + 2]
    BY <1>9, <1>10
  <2>2. full[n + 3] = g[1] /\ full[n + 4] = g[2]
    BY <1>9, <1>10
  <2> QED
    BY <1>9, <1>10, <2>1, <2>2
<1>12. ASSUME NEW r \in 1 .. 31
       PROVE  full[n + 4 + r] = f[r]
  <2>1. full[n + 4 + r] = v[(n + 2) + (2 + r)]
    BY <1>9, <1>10
  <2>2. v[(n + 2) + (2 + r)] = g[2 + r]
    BY <1>9, <1>10
  <2> QED
    BY <1>10, <2>1, <2>2
<1>13. Stack(S, full, n + 37)
  BY <1>8, <1>9, ((n + 2) + 33) + 2 = n + 37
<1> QED
  BY <1>11, <1>12, <1>13

LEMMA Cut ==
  ASSUME NEW S, NEW s, NEW n, Stack(S, s, n), NEW k \in 0 .. n
  PROVE  Stack(S, SubSeq(s, 1, k), k) /\ \A i \in 1 .. k : SubSeq(s, 1, k)[i] = s[i]
<1>1. s \in Seq(S) /\ n \in Nat /\ Len(s) = n
  BY DEF Stack
<1>2. \A i \in 1 .. k : s[i] \in S
  BY <1>1, ElementOfSeq
<1>3. 1 \in Int /\ k \in Int /\ k - 1 + 1 = k /\ (1 <= k \/ k = 0) /\ k \in Nat
  BY <1>1
<1>4. /\ SubSeq(s, 1, k) \in Seq(S)
      /\ Len(SubSeq(s, 1, k)) = IF 1 <= k THEN k - 1 + 1 ELSE 0
      /\ \A i \in 1 .. k - 1 + 1 : SubSeq(s, 1, k)[i] = s[1 + i - 1]
  BY <1>2, <1>3, SubSeqProperties
<1>5. \A i \in 1 .. k : SubSeq(s, 1, k)[i] = s[i]
  <2> TAKE i \in 1 .. k
  <2>1. 1 + i - 1 = i /\ i \in 1 .. k - 1 + 1
    BY <1>3
  <2> QED
    BY <1>4, <2>1, Zenon
<1>6. Len(SubSeq(s, 1, k)) = k
  BY <1>3, <1>4, Zenon
<1> QED
  BY <1>3, <1>4, <1>5, <1>6 DEF Stack

LEMMA PairIsStack ==
  ASSUME NEW S, NEW a \in S, NEW b \in S
  PROVE  /\ Stack(S, <<a, b>>, 2)
         /\ <<a, b>>[1] = a /\ <<a, b>>[2] = b
BY DEF Stack

LEMMA TripleIsStack ==
  ASSUME NEW S, NEW a \in S, NEW b \in S, NEW c \in S
  PROVE  /\ Stack(S, <<a, b, c>>, 3)
         /\ <<a, b, c>>[1] = a /\ <<a, b, c>>[2] = b /\ <<a, b, c>>[3] = c
BY DEF Stack

\* BermudaStackInit: what starts a thread with its parameter.
LEMMA FreshHolds ==
  ASSUME NEW t \in CtxThread
  PROVE  /\ StackInit(t, TRUE) \in Seq(Cell)
         /\ Holding(StackInit(t, TRUE), <<t, 34>>, t, FreshRegisters(t))
         /\ FreshRegisters(t) \in [Register -> Byte]
<1> DEFINE f == [i \in 1 .. 31 |-> IF i \in {24, 25} THEN t ELSE Zero]
           b == <<"handle", Zero, TRUE>>
           k == FreshRegisters(t)
<1>1. k \in [Register -> Byte] /\ k[0] = Zero /\ \A r \in 1 .. 31 : k[r] = f[r]
  BY Cells DEF FreshRegisters, Register
<1>2. Stack(Cell, f, 31)
  <2>1. f \in [1 .. 31 -> Cell] /\ 31 \in Nat
    BY Cells
  <2> HIDE DEF f
  <2> QED
    BY <2>1, FunctionIsSeq
<1>3. Stack(Cell, b, 3) /\ b[1] = "handle" /\ b[2] = Zero /\ b[3] = TRUE
  <2>1. "handle" \in Cell /\ Zero \in Cell /\ TRUE \in Cell
    BY Cells, Zenon
  <2> QED
    BY <2>1, TripleIsStack
<1>4. Behind(StackInit(t, TRUE), b, f)
  BY DEF Behind, StackInit
<1> HIDE DEF f, b, k
<1> DEFINE m == StackInit(t, TRUE)
<1> HIDE DEF m
<1>5. Stack(Cell, m, 3 + 31) /\ Follows(m, b, 3, f, 31)
  BY <1>2, <1>3, <1>4, BehindProps DEF m
<1>6. /\ m[1] = "handle" /\ m[2] = Zero /\ m[3] = TRUE
      /\ \A r \in 1 .. 31 : m[3 + r] = f[r]
  BY <1>3, <1>5 DEF Follows
<1>7. /\ Stack(Cell, m, 34) /\ m[34 - 32] = k[0]
      /\ \A r \in 1 .. 31 : m[34 - 31 + r] = k[r]
  BY <1>1, <1>5, <1>6, 3 + 31 = 34, 34 - 32 = 2, 34 - 31 = 3
<1>8. Holding(m, <<t, 34>>, t, k)
  BY <1>6, <1>7 DEF Holding
<1>9. m \in Seq(Cell)
  BY <1>7 DEF Stack
<1> QED
  BY <1>1, <1>8, <1>9 DEF m, k

\* BermudaSwitchTask: the registers k on the stack, above what was there.
SwitchStack(m, k, d) ==
  m \o <<TRUE, "switched">> \o (<<k[0], FALSE>> \o [i \in 1 .. 31 |-> k[i]]) \o <<d, d>>

OnTop(full, n, k) ==
  /\ Stack(Cell, full, n + 37)
  /\ full[n + 1] = TRUE /\ full[n + 2] = "switched" /\ full[n + 3] = k[0]
  /\ full[n + 4] = FALSE
  /\ \A r \in 1 .. 31 : full[n + 4 + r] = k[r]

LEMMA SwitchPushes ==
  ASSUME NEW m, NEW n, Stack(Cell, m, n), NEW k \in [Register -> Byte], NEW d \in Cell
  PROVE  OnTop(SwitchStack(m, k, d), n, k)
<1> DEFINE f  == [i \in 1 .. 31 |-> k[i]]
           ab == <<TRUE, "switched">>
           cd == <<k[0], FALSE>>
           top == <<d, d>>
           full == SwitchStack(m, k, d)
<1>1. Stack(Cell, ab, 2) /\ ab[1] = TRUE /\ ab[2] = "switched"
  BY Cells, PairIsStack
<1>2. Stack(Cell, cd, 2) /\ cd[1] = k[0] /\ cd[2] = FALSE
  <2>1. k[0] \in Cell
    BY Cells DEF Register
  <2>2. FALSE \in Cell
    BY Cells, Zenon
  <2> QED
    BY <2>1, <2>2, PairIsStack
<1>3. Stack(Cell, top, 2)
  BY PairIsStack
<1>4. Stack(Cell, f, 31) /\ \A r \in 1 .. 31 : f[r] = k[r]
  <2>1. f \in [1 .. 31 -> Cell] /\ 31 \in Nat /\ \A r \in 1 .. 31 : f[r] = k[r]
    BY Cells DEF Register
  <2> HIDE DEF f
  <2> QED
    BY <2>1, FunctionIsSeq
<1>5. Stacked(full, m, ab, cd, f, top)
  BY Zenon DEF Stacked, Behind, SwitchStack
<1> HIDE DEF f, ab, cd, top, full
<1>6. /\ Stack(Cell, full, n + 37)
      /\ full[n + 1] = ab[1] /\ full[n + 2] = ab[2] /\ full[n + 3] = cd[1]
      /\ full[n + 4] = cd[2]
      /\ \A r \in 1 .. 31 : full[n + 4 + r] = f[r]
  BY <1>1, <1>2, <1>3, <1>4, <1>5, Pushed
<1> QED
  BY <1>1, <1>2, <1>4, <1>6 DEF full, OnTop

\* What a stack that holds k gives back: k, and where the thread goes on.
Restored(t, k, p, new) ==
  /\ p[1] = t
  /\ [r \in Register |-> IF r = 0 THEN new[Len(new) - 32] ELSE new[Len(new) - 31 + r]] = k
  /\ new[Len(new) - 33] = "handle" =>
       new[Len(new) - 31] = TRUE /\ SubSeq(new, 1, Len(new) - 34) = <<>>
  /\ new[Len(new) - 33] # "handle" =>
       /\ Stack(Cell, SubSeq(new, 1, Len(new) - 34), 2)
       /\ SubSeq(new, 1, Len(new) - 34)[2] = TRUE /\ new[Len(new) - 31] = FALSE
  /\ SubSeq(new, 1, Len(new) - 34) \in Seq(Cell)

LEMMA SwitchRestores ==
  ASSUME NEW m, NEW p, NEW t \in CtxThread, NEW k \in [Register -> Byte], Holding(m, p, t, k)
  PROVE  Restored(t, k, p, SubSeq(m, 1, p[2]))
<1>1. PICK h \in {34, 36} :
        /\ p = <<t, h>>
        /\ Stack(Cell, m, h)
        /\ h = 34 => m[1] = "handle" /\ m[3] = TRUE
        /\ h = 36 => m[2] = TRUE /\ m[3] = "switched" /\ m[5] = FALSE
        /\ m[h - 32] = k[0]
        /\ \A r \in 1 .. 31 : m[h - 31 + r] = k[r]
  BY DEF Holding
<1> DEFINE new  == SubSeq(m, 1, p[2])
           rest == SubSeq(new, 1, Len(new) - 34)
<1>2. p[1] = t /\ p[2] = h
  BY <1>1
<1>3. Stack(Cell, new, h) /\ \A i \in 1 .. h : new[i] = m[i]
  <2>1. Stack(Cell, m, h) /\ h \in 0 .. h
    BY <1>1
  <2> QED
    BY <1>2, <2>1, Cut
<1> HIDE DEF new
<1>4. Len(new) = h
  BY <1>3 DEF Stack
<1>5. Stack(Cell, rest, h - 34) /\ \A i \in 1 .. h - 34 : rest[i] = new[i]
  <2>1. Stack(Cell, new, h) /\ h - 34 \in 0 .. h
    BY <1>3
  <2> QED
    BY <1>4, <2>1, Cut
<1> HIDE DEF rest
<1>6. new[h - 32] = k[0] /\ \A r \in 1 .. 31 : new[h - 31 + r] = k[r]
  <2>1. new[h - 32] = m[h - 32] /\ \A r \in 1 .. 31 : new[h - 31 + r] = m[h - 31 + r]
    BY <1>3
  <2> QED
    BY <1>1, <2>1
<1>7. [r \in Register |-> IF r = 0 THEN new[h - 32] ELSE new[h - 31 + r]] = k
  BY <1>6 DEF Register
<1>8. ASSUME h = 34
      PROVE  new[h - 33] = "handle" /\ new[h - 31] = TRUE /\ rest = <<>>
  <2>1. new[1] = "handle" /\ new[3] = TRUE
    BY <1>1, <1>3, <1>8
  <2>2. rest \in Seq(Cell) /\ Len(rest) = 0
    BY <1>5, <1>8 DEF Stack
  <2>3. rest = <<>>
    BY <2>2, EmptySeq
  <2> QED
    BY <1>8, <2>1, <2>3
<1>9. ASSUME h = 36
      PROVE  new[h - 33] # "handle" /\ new[h - 31] = FALSE /\ Stack(Cell, rest, 2) /\ rest[2] = TRUE
  <2>1. new[3] = "switched" /\ new[2] = TRUE /\ new[5] = FALSE
    BY <1>1, <1>3, <1>9
  <2>2. Stack(Cell, rest, 2) /\ rest[2] = new[2]
    BY <1>5, <1>9
  <2> QED
    BY <1>9, <2>1, <2>2
<1>10. rest \in Seq(Cell)
  BY <1>5 DEF Stack
<1>11. Restored(t, k, p, new)
  BY <1>2, <1>4, <1>7, <1>8, <1>9, <1>10 DEF Restored, rest
<1> QED
  BY <1>11 DEF new

\* A stack that the switch leaves holds the registers.
LEMMA SwitchSaves ==
  ASSUME NEW t \in CtxThread, NEW k \in [Register -> Byte], NEW full, OnTop(full, 1, k)
  PROVE  Holding(SubSeq(full, 1, Len(full) - 2), <<t, Len(full) - 2>>, t, k)
<1> DEFINE m == SubSeq(full, 1, 36)
<1>1. Len(full) - 2 = 36 /\ 36 \in 0 .. 38 /\ Stack(Cell, full, 38)
  BY DEF OnTop, Stack
<1>2. Stack(Cell, m, 36) /\ \A i \in 1 .. 36 : m[i] = full[i]
  BY <1>1, Cut
<1> HIDE DEF m
<1>3. m[2] = TRUE /\ m[3] = "switched" /\ m[4] = k[0] /\ m[5] = FALSE
  BY <1>2 DEF OnTop
<1>4. \A r \in 1 .. 31 : m[36 - 31 + r] = k[r]
  BY <1>2 DEF OnTop
<1>5. Holding(m, <<t, 36>>, t, k)
  BY <1>2, <1>3, <1>4 DEF Holding
<1> QED
  BY <1>1, <1>5 DEF m

\* BermudaSwitchTask: t runs with its registers, and the others are saved.
LEMMA SwitchProps ==
  ASSUME CtxTypes, NEW t \in CtxThread, t # stack, Holding(mem[t], sp[t], t, kept[t]),
         stack \in CtxThread \cup {Boot}, sreg = TRUE, regs \in [Register -> Byte],
         NEW calls, NEW m, Behind(m, mem[stack], calls), NEW n, Stack(Cell, m, n),
         SwitchTask(calls, t)
  PROVE  /\ current' = t /\ stack' = t /\ regs' = kept[t]
         /\ place' \in {"app", "switched"}
         /\ place' = "app" => sreg' = TRUE /\ mem'[t] = <<>>
         /\ place' = "switched" => Len(mem'[t]) = 2 /\ mem'[t][2] = TRUE /\ sreg' = FALSE
         /\ mem' \in [CtxThread \cup {Boot} -> Seq(Cell)]
         /\ sp' \in [CtxThread -> Place]
         /\ \A u \in CtxThread \ {t, current, stack} : mem'[u] = mem[u] /\ sp'[u] = sp[u]
         /\ n = 1 /\ stack = current => Holding(mem'[current], sp'[current], current, regs)
<1> DEFINE d    == sp[t]
           full == SwitchStack(m, regs, d)
           new  == SubSeq(mem[t], 1, d[2])
           cut  == SubSeq(full, 1, Len(full) - 2)
           rest == SubSeq(new, 1, Len(new) - 34)
<1>1. OnTop(full, n, regs)
  <2>1. d \in Cell
    BY Cells DEF CtxTypes
  <2> QED
    BY <2>1, SwitchPushes
<1>2. Restored(t, kept[t], d, new)
  <2>1. kept[t] \in [Register -> Byte]
    BY DEF CtxTypes
  <2> QED
    BY <2>1, SwitchRestores
<1>3. d[1] = t
  BY <1>2 DEF Restored
<1>4. full = mem[stack] \o calls \o <<sreg, "switched">> \o Frame(FALSE) \o <<d, d>>
  BY Zenon DEF Behind, Frame, SwitchStack
<1>5. SubSeq(IF d[1] = stack THEN full ELSE mem[d[1]], 1, d[2]) = new
  BY <1>3
<1> HIDE DEF d, full, new
<1>6. /\ sp' = [sp EXCEPT ![current] = StackSave(full)]
      /\ current' = t
      /\ regs' = [r \in Register |-> IF r = 0 THEN new[Len(new) - 32] ELSE new[Len(new) - 31 + r]]
      /\ sreg' = new[Len(new) - 31]
      /\ place' = IF new[Len(new) - 33] = "handle" THEN "app" ELSE "switched"
      /\ stack' = d[1]
      /\ mem' = [mem EXCEPT ![stack] = cut, ![d[1]] = rest]
  BY <1>4, <1>5, Zenon DEF SwitchTask, d
<1>7. /\ Stack(Cell, cut, n + 35) /\ Len(full) - 2 = n + 35
      /\ StackSave(full) = <<stack, Len(full) - 2>>
  <2>1. n \in Nat /\ Len(full) = n + 37
    BY <1>1 DEF OnTop, Stack
  <2>2. n + 35 \in 0 .. n + 37 /\ Len(full) - 2 = n + 35
    BY <2>1
  <2>3. Stack(Cell, SubSeq(full, 1, n + 35), n + 35)
    BY <1>1, <2>2, Cut DEF OnTop
  <2> QED
    BY <2>2, <2>3 DEF StackSave
<1>8. cut \in Seq(Cell) /\ rest \in Seq(Cell)
  BY <1>2, <1>7 DEF Restored, Stack
<1> HIDE DEF cut, rest
<1>9. mem'[t] = rest /\ (stack \in CtxThread => mem'[stack] = cut)
      /\ mem' \in [CtxThread \cup {Boot} -> Seq(Cell)]
      /\ \A u \in CtxThread \ {t, stack} : mem'[u] = mem[u]
  BY <1>3, <1>6, <1>8 DEF CtxTypes
<1>10. sp' \in [CtxThread -> Place] /\ sp'[current] = <<stack, Len(full) - 2>>
       /\ \A u \in CtxThread \ {current} : sp'[u] = sp[u]
  <2>1. <<stack, Len(full) - 2>> \in Place
    BY <1>7 DEF Place, Stack
  <2> QED
    BY <1>6, <1>7, <2>1 DEF CtxTypes
<1>11. current' = t /\ stack' = t /\ regs' = kept[t] /\ place' \in {"app", "switched"}
  BY <1>2, <1>3, <1>6 DEF Restored
<1>12. place' = "app" => sreg' = TRUE /\ mem'[t] = <<>>
  BY <1>2, <1>6, <1>9 DEF Restored, rest
<1>13. place' = "switched" => Len(mem'[t]) = 2 /\ mem'[t][2] = TRUE /\ sreg' = FALSE
  BY <1>2, <1>6, <1>9 DEF Restored, rest, Stack
<1>14. ASSUME n = 1, stack = current
       PROVE  Holding(mem'[current], sp'[current], current, regs)
  <2>1. current \in CtxThread /\ OnTop(full, 1, regs)
    BY <1>1, <1>14 DEF CtxTypes
  <2>2. Holding(cut, <<current, Len(full) - 2>>, current, regs)
    BY <2>1, SwitchSaves DEF cut
  <2> QED
    BY <1>9, <1>10, <1>14, <2>1, <2>2
<1> QED
  BY <1>9, <1>10, <1>11, <1>12, <1>13, <1>14

\* The queues of the scheduler, as those of the kernel.
LEMMA SameInsertion ==
  ASSUME NEW s, NEW t, NEW p
  PROVE  Q!PrioInsert(s, t, p) = Lists!PrioInsert(s, t, p)
<1>1. Q!PrioPlace(s, t, p) = Lists!PrioPlace(s, t, p)
  BY DEF Q!PrioPlace, Lists!PrioPlace, Q!Min, Lists!Min
<1> QED
  BY <1>1 DEF Q!PrioInsert, Lists!PrioInsert, Q!InsertAt, Lists!InsertAt

ReadyList(s) == s \in Seq(CtxThread) /\ Lists!NoDuplicates(s)

LEMMA Readied ==
  ASSUME NEW s, ReadyList(s), NEW t \in CtxThread, t \notin Range(s)
  PROVE  ReadyList(Q!PrioInsert(s, t, CtxPrio)) /\
         Range(Q!PrioInsert(s, t, CtxPrio)) = Range(s) \cup {t}
<1>1. CtxPrio \in [CtxThread -> Nat]
  BY ContextConstants
<1>2. s \in Seq(CtxThread) /\ Lists!NoDuplicates(s) /\ t \notin Lists!Range(s)
  BY SameOperators DEF ReadyList
<1>3. Lists!PrioInsert(s, t, CtxPrio) \in Seq(CtxThread)
  BY <1>1, <1>2, Lists!PrioInsertProps
<1>4. Lists!NoDuplicates(Lists!PrioInsert(s, t, CtxPrio))
  BY <1>1, <1>2, Lists!PrioInsertOnce
<1>5. Lists!Range(Lists!PrioInsert(s, t, CtxPrio)) = Lists!Range(s) \cup {t}
  BY <1>1, <1>2, Lists!PrioInsertRange
<1> QED
  BY <1>3, <1>4, <1>5, SameInsertion, SameOperators DEF ReadyList

LEMMA Unreadied ==
  ASSUME NEW s, ReadyList(s), NEW t
  PROVE  ReadyList(RemoveFirst(s, t)) /\ Range(RemoveFirst(s, t)) = Range(s) \ {t}
<1>1. s \in Seq(CtxThread) /\ Lists!NoDuplicates(s)
  BY DEF ReadyList
<1>2. /\ Lists!RemoveFirst(s, t) \in Seq(CtxThread)
      /\ Lists!NoDuplicates(Lists!RemoveFirst(s, t))
      /\ Lists!Range(Lists!RemoveFirst(s, t)) = Lists!Range(s) \ {t}
  BY <1>1, Lists!RemoveFirstProps
<1> QED
  BY <1>2, SameRemoval, SameOperators DEF ReadyList

LEMMA FirstIsReady ==
  ASSUME NEW s, ReadyList(s), Range(s) # {}
  PROVE  s[1] \in Range(s) /\ s[1] \in CtxThread /\ Range(s) \subseteq CtxThread
<1>1. s \in Seq(CtxThread)
  BY DEF ReadyList
<1>2. PICK i \in 1 .. Len(s) : s[i] = s[i]
  BY <1>1, MemberAt
<1>3. 1 \in 1 .. Len(s)
  BY <1>1, <1>2
<1>4. DOMAIN s = 1 .. Len(s) /\ \A j \in 1 .. Len(s) : s[j] \in CtxThread
  BY <1>1, LenProperties, ElementOfSeq
<1> QED
  BY <1>3, <1>4 DEF Range

\* The queue q of BermudaThreadFree without q: nobody waits to be freed.
LEMMA FreedProps ==
  ASSUME CtxTypes, NEW q
  PROVE  /\ Freed(q) \in [CtxThread -> {"new", "live", "freed"}]
         /\ \A t \in CtxThread : /\ t \in Range(q) => Freed(q)[t] = "freed"
                                 /\ t \notin Range(q) => Freed(q)[t] = life[t]
BY DEF CtxTypes, Freed, Range

(***************************************************************************)
(* BermudaSchedulerExec with a run queue that still has IDLE, and a kill   *)
(* queue of other threads.                                                 *)
(***************************************************************************)
LEMMA ExecInv ==
  ASSUME CtxInv, place = "app", NEW rq, NEW kq, ReadyList(rq), kq \in Seq(CtxThread),
         Idle \in Range(rq), Range(rq) \subseteq Range(runQ),
         Range(rq) \cap Range(kq) = {}, \A t \in Range(kq) : life[t] = "live",
         SchedulerExec(rq, kq), UNCHANGED kept
  PROVE  CtxInv'
<1>1. rq[1] \in Range(rq) /\ rq[1] \in CtxThread /\ Range(rq) \subseteq CtxThread
  BY FirstIsReady
<1>2. /\ runQ' = rq /\ kept' = kept
      /\ \A t \in Range(rq) : life[t] = "live"
      /\ stack = current /\ sreg = TRUE /\ mem[stack] = <<>> /\ regs = kept[current]
      /\ current \in CtxThread
  BY DEF CtxInv, CtxLists, CtxRuns, CtxTypes, SchedulerExec
<1>3. CASE rq[1] # current
  <2> DEFINE t == rq[1]
             m == <<"exec">>
  <2>1. SwitchTask(<<"exec">>, t) /\ killQ' = kq /\ life' = life
    BY <1>3 DEF SchedulerExec
  <2>2. t # stack /\ Holding(mem[t], sp[t], t, kept[t])
    BY <1>1, <1>2, <1>3 DEF CtxInv, CtxSaved
  <2>3. Behind(m, mem[stack], <<"exec">>)
    BY <1>2 DEF Behind
  <2>4. Stack(Cell, m, 1)
    <3>1. "exec" \in Cell
      BY Cells, Zenon
    <3> QED
      BY <3>1 DEF Stack
  <2>5. kept[current] \in [Register -> Byte]
    BY <1>2 DEF CtxInv, CtxTypes
  <2> HIDE DEF m, t
  <2>6. /\ current' = t /\ stack' = t /\ regs' = kept[t]
        /\ place' \in {"app", "switched"}
        /\ place' = "app" => sreg' = TRUE /\ mem'[t] = <<>>
        /\ place' = "switched" => Len(mem'[t]) = 2 /\ mem'[t][2] = TRUE /\ sreg' = FALSE
        /\ mem' \in [CtxThread \cup {Boot} -> Seq(Cell)]
        /\ sp' \in [CtxThread -> Place]
        /\ \A u \in CtxThread \ {t, current, stack} : mem'[u] = mem[u] /\ sp'[u] = sp[u]
        /\ 1 = 1 /\ stack = current => Holding(mem'[current], sp'[current], current, regs)
    <3>1. CtxTypes /\ t \in CtxThread /\ stack \in CtxThread \cup {Boot}
          /\ regs \in [Register -> Byte]
      BY <1>1, <1>2, <2>5 DEF CtxInv, t
    <3> QED
      BY <1>2, <2>1, <2>2, <2>3, <2>4, <3>1, SwitchProps
  <2>7. CtxTypes'
    BY <1>1, <1>2, <2>1, <2>6 DEF CtxInv, CtxTypes, ReadyList, t
  <2>8. CtxLists'
    BY <1>1, <1>2, <2>1, <2>6 DEF CtxLists, ReadyList, t
  <2>9. CtxRuns'
    BY <1>2, <2>6 DEF CtxRuns
  <2>10. CtxSaved'
    <3> SUFFICES ASSUME NEW u \in CtxThread, life'[u] = "live", u # t
                 PROVE  Holding(mem'[u], sp'[u], u, kept'[u])
      BY <2>6 DEF CtxSaved
    <3>1. CASE u = current
      BY <1>2, <2>6, <3>1
    <3>2. CASE u # current
      <4>1. Holding(mem[u], sp[u], u, kept[u])
        BY <2>1, <3>2 DEF CtxInv, CtxSaved
      <4>2. mem'[u] = mem[u] /\ sp'[u] = sp[u]
        BY <1>2, <2>6, <3>2
      <4> QED
        BY <1>2, <4>1, <4>2
    <3> QED
      BY <3>1, <3>2
  <2> QED
    BY <2>7, <2>8, <2>9, <2>10 DEF CtxInv
<1>4. CASE rq[1] = current
  <2>1. /\ killQ' = <<>> /\ life' = Freed(kq)
        /\ UNCHANGED <<current, regs, sreg, stack, mem, sp, place>>
    BY <1>4 DEF SchedulerExec
  <2>2. /\ life' \in [CtxThread -> {"new", "live", "freed"}]
        /\ \A t \in CtxThread : /\ t \in Range(kq) => life'[t] = "freed"
                                /\ t \notin Range(kq) => life'[t] = life[t]
    BY <2>1, FreedProps DEF CtxInv
  <2>3. killQ' \in Seq(CtxThread) /\ Range(killQ') = {}
    BY <2>1 DEF Range
  <2>4. CtxTypes'
    BY <1>2, <2>1, <2>2, <2>3 DEF CtxInv, CtxTypes, ReadyList
  <2>5. CtxLists'
    BY <1>1, <1>2, <1>4, <2>1, <2>2, <2>3 DEF CtxLists, ReadyList
  <2>6. CtxRuns'
    BY <1>2, <2>1 DEF CtxInv, CtxRuns
  <2>7. CtxSaved'
    BY <1>2, <2>1, <2>2 DEF CtxInv, CtxSaved
  <2> QED
    BY <2>4, <2>5, <2>6, <2>7 DEF CtxInv
<1> QED
  BY <1>3, <1>4
-----------------------------------------------------------------------------
\* The other steps: the start, the return from a switch, and what a thread does.
LEMMA StartInv ==
  ASSUME CtxInv, SchedulerStart
  PROVE  CtxInv'
<1> DEFINE m == <<>>
<1>1. /\ place = "boot" /\ current = Idle /\ runQ[1] = Idle /\ stack = Boot
      /\ mem[Boot] = <<>> /\ sreg = TRUE /\ regs \in [Register -> Byte]
      /\ SwitchTask(<<>>, Idle) /\ UNCHANGED <<runQ, killQ, head, qnext, life, kept>>
  BY DEF CtxInv, CtxRuns, SchedulerStart
<1>2. Idle \in CtxThread /\ Boot \notin CtxThread
  BY ContextConstants
<1>3. life[Idle] = "live" /\ Holding(mem[Idle], sp[Idle], Idle, kept[Idle])
  BY <1>1, <1>2 DEF CtxInv, CtxLists, CtxSaved
<1>4. Behind(m, mem[stack], <<>>)
  BY <1>1 DEF Behind
<1>5. Stack(Cell, m, 0)
  BY DEF Stack
<1> HIDE DEF m
<1>6. /\ current' = Idle /\ stack' = Idle /\ regs' = kept[Idle]
      /\ place' \in {"app", "switched"}
      /\ place' = "app" => sreg' = TRUE /\ mem'[Idle] = <<>>
      /\ place' = "switched" => Len(mem'[Idle]) = 2 /\ mem'[Idle][2] = TRUE /\ sreg' = FALSE
      /\ mem' \in [CtxThread \cup {Boot} -> Seq(Cell)]
      /\ sp' \in [CtxThread -> Place]
      /\ \A u \in CtxThread \ {Idle, current, stack} : mem'[u] = mem[u] /\ sp'[u] = sp[u]
  <2>1. CtxTypes /\ Idle # stack /\ stack \in CtxThread \cup {Boot}
    BY <1>1, <1>2 DEF CtxInv
  <2> QED
    BY <1>1, <1>2, <1>3, <1>4, <1>5, <2>1, SwitchProps
<1>7. CtxTypes'
  BY <1>1, <1>2, <1>6 DEF CtxInv, CtxTypes
<1>8. CtxLists'
  BY <1>1, <1>6 DEF CtxInv, CtxLists
<1>9. CtxRuns'
  BY <1>1, <1>6 DEF CtxRuns
<1>10. CtxSaved'
  BY <1>1, <1>2, <1>6 DEF CtxInv, CtxSaved
<1> QED
  BY <1>7, <1>8, <1>9, <1>10 DEF CtxInv

LEMMA ResumeInv ==
  ASSUME CtxInv, Resume
  PROVE  CtxInv'
<1>1. /\ place = "switched" /\ stack = current /\ current \in CtxThread
      /\ mem[stack] \in Seq(Cell) /\ Len(mem[stack]) = 2 /\ mem[stack][2] = TRUE
  BY DEF CtxInv, CtxTypes, CtxRuns, Resume
<1>2. /\ sreg' = TRUE /\ place' = "app" /\ life' = Freed(killQ) /\ killQ' = <<>>
      /\ mem' = [mem EXCEPT ![stack] = <<>>]
      /\ UNCHANGED <<current, runQ, head, qnext, regs, stack, sp, kept>>
  <2>1. SubSeq(mem[stack], 1, 0) = <<>>
    BY SubSeqEmpty
  <2>2. Len(mem[stack]) - 2 = 0 /\ mem[stack][Len(mem[stack])] = TRUE
    BY <1>1
  <2>3. /\ sreg' = mem[stack][Len(mem[stack])] /\ place' = "app"
        /\ mem' = [mem EXCEPT ![stack] = SubSeq(mem[stack], 1, Len(mem[stack]) - 2)]
        /\ life' = Freed(killQ) /\ killQ' = <<>>
        /\ UNCHANGED <<current, runQ, head, qnext, regs, stack, sp, kept>>
    BY DEF Resume
  <2> QED
    BY <2>1, <2>2, <2>3, Zenon
<1>3. mem' \in [CtxThread \cup {Boot} -> Seq(Cell)] /\ mem'[current] = <<>>
      /\ \A u \in CtxThread \ {current} : mem'[u] = mem[u]
  <2>1. <<>> \in Seq(Cell)
    BY EmptySeq
  <2> QED
    BY <1>1, <1>2, <2>1 DEF CtxInv, CtxTypes
<1>4. /\ life' \in [CtxThread -> {"new", "live", "freed"}]
      /\ \A t \in CtxThread : /\ t \in Range(killQ) => life'[t] = "freed"
                              /\ t \notin Range(killQ) => life'[t] = life[t]
  BY <1>2, FreedProps DEF CtxInv
<1>5. killQ' \in Seq(CtxThread) /\ Range(killQ') = {}
  BY <1>2 DEF Range
<1>6. \A t \in Range(runQ) : t \in CtxThread
  <2>1. ReadyList(runQ) /\ Range(runQ) # {}
    BY DEF CtxInv, CtxTypes, CtxLists, ReadyList
  <2> QED
    BY <2>1, FirstIsReady
<1>7. CtxTypes'
  BY <1>2, <1>3, <1>4, <1>5 DEF CtxInv, CtxTypes
<1>8. CtxLists'
  BY <1>2, <1>4, <1>5, <1>6 DEF CtxInv, CtxLists
<1>9. CtxRuns'
  BY <1>1, <1>2, <1>3 DEF CtxInv, CtxRuns
<1>10. CtxSaved'
  BY <1>1, <1>2, <1>3, <1>4 DEF CtxInv, CtxSaved
<1> QED
  BY <1>7, <1>8, <1>9, <1>10 DEF CtxInv

LEMMA ComputeInv ==
  ASSUME CtxInv, NEW k \in 0 .. 1, Compute(k)
  PROVE  CtxInv'
<1> DEFINE new == [r \in Register |-> <<current, r, k>>]
<1>1. /\ place = "app" /\ regs' = new /\ kept' = [kept EXCEPT ![current] = new]
      /\ UNCHANGED <<current, runQ, killQ, head, qnext, life, sreg, stack, mem, sp, place>>
  BY DEF Compute
<1>2. current \in CtxThread
  BY DEF CtxInv, CtxTypes
<1>3. new \in [Register -> Byte]
  BY <1>2, Cells
<1> HIDE DEF new
<1>4. CtxTypes'
  BY <1>1, <1>2, <1>3 DEF CtxInv, CtxTypes
<1>5. CtxLists'
  BY <1>1 DEF CtxInv, CtxLists
<1>6. CtxRuns'
  BY <1>1, <1>2 DEF CtxInv, CtxTypes, CtxRuns
<1>7. CtxSaved'
  BY <1>1, <1>2 DEF CtxInv, CtxTypes, CtxSaved
<1> QED
  BY <1>4, <1>5, <1>6, <1>7 DEF CtxInv

LEMMA CreateInv ==
  ASSUME CtxInv, NEW t \in CtxThread, ThreadCreate(t)
  PROVE  CtxInv'
<1>1. /\ place = "app" /\ life[t] = "new" /\ sreg = TRUE
      /\ mem' = [mem EXCEPT ![t] = StackInit(t, sreg)]
      /\ sp' = [sp EXCEPT ![t] = <<t, 34>>]
      /\ life' = [life EXCEPT ![t] = "live"]
      /\ runQ' = Q!PrioInsert(runQ, t, CtxPrio)
      /\ kept' = [kept EXCEPT ![t] = FreshRegisters(t)]
      /\ UNCHANGED <<current, killQ, regs, sreg, stack, place>>
  BY DEF CtxInv, CtxRuns, ThreadCreate
<1>2. ReadyList(runQ) /\ t \notin Range(runQ) /\ t \notin Range(killQ) /\ t # current
      /\ stack = current /\ mem[stack] = <<>> /\ regs = kept[current] /\ current \in CtxThread
  BY <1>1 DEF CtxInv, CtxTypes, CtxLists, CtxRuns, ReadyList
<1>3. ReadyList(runQ') /\ Range(runQ') = Range(runQ) \cup {t}
  BY <1>1, <1>2, Readied
<1>4. /\ StackInit(t, TRUE) \in Seq(Cell) /\ FreshRegisters(t) \in [Register -> Byte]
      /\ Holding(StackInit(t, TRUE), <<t, 34>>, t, FreshRegisters(t))
  BY FreshHolds
<1>5. StackInit(t, sreg) = StackInit(t, TRUE)
  BY <1>1
<1>6. <<t, 34>> \in Place
  BY DEF Place
<1>7. CtxTypes'
  BY <1>1, <1>3, <1>4, <1>5, <1>6 DEF CtxInv, CtxTypes, ReadyList
<1>8. CtxLists'
  BY <1>1, <1>2, <1>3 DEF CtxInv, CtxTypes, CtxLists, ReadyList
<1>9. CtxRuns'
  BY <1>1, <1>2 DEF CtxInv, CtxTypes, CtxRuns
<1>10. CtxSaved'
  <2> SUFFICES ASSUME NEW u \in CtxThread, life'[u] = "live", u # current
               PROVE  Holding(mem'[u], sp'[u], u, kept'[u])
    BY <1>1 DEF CtxSaved
  <2>1. CASE u = t
    BY <1>1, <1>4, <1>5, <2>1 DEF CtxInv, CtxTypes
  <2>2. CASE u # t
    BY <1>1, <2>2 DEF CtxInv, CtxTypes, CtxSaved
  <2> QED
    BY <2>1, <2>2
<1> QED
  BY <1>7, <1>8, <1>9, <1>10 DEF CtxInv

LEMMA ReadyInv ==
  ASSUME CtxInv, NEW t \in CtxThread, MakeReady(t)
  PROVE  CtxInv'
<1>1. /\ place = "app" /\ life[t] = "live" /\ runQ' = Q!PrioInsert(runQ, t, CtxPrio)
      /\ t \notin Range(runQ) /\ t \notin Range(killQ)
      /\ UNCHANGED <<current, killQ, head, qnext, life, regs, sreg, stack, mem, sp, place, kept>>
  BY DEF MakeReady, Contains, Range
<1>2. ReadyList(runQ)
  BY DEF CtxInv, CtxTypes, CtxLists, ReadyList
<1>3. ReadyList(runQ') /\ Range(runQ') = Range(runQ) \cup {t}
  BY <1>1, <1>2, Readied
<1>4. CtxTypes'
  BY <1>1, <1>3 DEF CtxInv, CtxTypes, ReadyList
<1>5. CtxLists'
  BY <1>1, <1>3 DEF CtxInv, CtxLists, ReadyList
<1>6. CtxRuns' /\ CtxSaved'
  BY <1>1 DEF CtxInv, CtxRuns, CtxSaved
<1> QED
  BY <1>4, <1>5, <1>6 DEF CtxInv

LEMMA LeavesInv ==
  ASSUME CtxInv, ThreadYield \/ ThreadWait \/ ThreadExit
  PROVE  CtxInv'
<1> DEFINE less == RemoveFirst(runQ, current)
           back == Q!PrioInsert(less, current, CtxPrio)
<1>1. /\ ReadyList(runQ) /\ killQ \in Seq(CtxThread) /\ Idle \in Range(runQ)
      /\ current \in Range(runQ) /\ current \in CtxThread
      /\ Range(runQ) \cap Range(killQ) = {}
      /\ \A t \in Range(runQ) \cup Range(killQ) : life[t] = "live"
  BY DEF CtxInv, CtxTypes, CtxLists, ReadyList
<1>2. ReadyList(less) /\ Range(less) = Range(runQ) \ {current}
  BY <1>1, Unreadied
<1>3. ReadyList(back) /\ Range(back) = Range(runQ)
  <2>1. current \notin Range(less)
    BY <1>2
  <2>2. ReadyList(back) /\ Range(back) = Range(less) \cup {current}
    BY <1>1, <1>2, <2>1, Readied
  <2> QED
    BY <1>1, <1>2, <2>2
<1> HIDE DEF less, back
<1>4. CASE ThreadYield
  <2>1. /\ place = "app" /\ kept' = kept
        /\ SchedulerExec(runQ, killQ) \/ SchedulerExec(back, killQ)
    BY <1>4 DEF ThreadYield, less, back
  <2>2. SchedulerExec(runQ, killQ) => CtxInv'
    BY <1>1, <2>1, ExecInv
  <2>3. SchedulerExec(back, killQ) => CtxInv'
    BY <1>1, <1>3, <2>1, ExecInv
  <2> QED
    BY <2>1, <2>2, <2>3
<1>5. CASE ThreadWait
  <2>1. place = "app" /\ kept' = kept /\ current # Idle /\ SchedulerExec(less, killQ)
    BY <1>5 DEF ThreadWait, less
  <2>2. Idle \in Range(less) /\ Range(less) \subseteq Range(runQ)
        /\ Range(less) \cap Range(killQ) = {}
    BY <1>1, <1>2, <2>1
  <2> QED
    BY <1>1, <1>2, <2>1, <2>2, ExecInv
<1>6. CASE ThreadExit
  <2> DEFINE kq == Append(killQ, current)
  <2>1. place = "app" /\ kept' = kept /\ current # Idle /\ SchedulerExec(less, kq)
    BY <1>6 DEF ThreadExit, less
  <2>2. kq \in Seq(CtxThread) /\ Range(kq) = Range(killQ) \cup {current}
    <3>1. /\ kq \in Seq(CtxThread) /\ Len(kq) = Len(killQ) + 1 /\ kq[Len(killQ) + 1] = current
          /\ \A i \in 1 .. Len(killQ) : kq[i] = killQ[i]
      BY <1>1
    <3> HIDE DEF kq
    <3>2. DOMAIN kq = 1 .. Len(killQ) + 1 /\ DOMAIN killQ = 1 .. Len(killQ) /\ Len(killQ) \in Nat
      BY <1>1, <3>1, LenProperties
    <3> QED
      BY <3>1, <3>2 DEF Range
  <2> HIDE DEF kq
  <2>3. Idle \in Range(less) /\ Range(less) \subseteq Range(runQ)
        /\ Range(less) \cap Range(kq) = {} /\ \A t \in Range(kq) : life[t] = "live"
    BY <1>1, <1>2, <2>1, <2>2
  <2> QED
    BY <1>2, <2>1, <2>2, <2>3, ExecInv
<1> QED
  BY <1>4, <1>5, <1>6

LEMMA CtxInitInv ==
  ASSUME CtxInit
  PROVE  CtxInv
<1>1. /\ current = Idle /\ runQ = <<Idle>> /\ killQ = <<>>
      /\ life = [t \in CtxThread |-> IF t = Idle THEN "live" ELSE "new"]
      /\ regs = [r \in Register |-> Zero] /\ sreg = TRUE /\ stack = Boot /\ place = "boot"
      /\ mem = [s \in CtxThread \cup {Boot} |-> IF s = Idle THEN StackInit(Idle, TRUE) ELSE <<>>]
      /\ sp = [t \in CtxThread |-> IF t = Idle THEN <<t, 34>> ELSE <<Boot, 0>>]
      /\ kept = [t \in CtxThread |-> FreshRegisters(t)]
  BY DEF CtxInit
<1>2. Idle \in CtxThread /\ Boot # Idle
  BY ContextConstants
<1>3. \A t \in CtxThread : FreshRegisters(t) \in [Register -> Byte]
  BY FreshHolds
<1>4. /\ StackInit(Idle, TRUE) \in Seq(Cell)
      /\ Holding(StackInit(Idle, TRUE), <<Idle, 34>>, Idle, FreshRegisters(Idle))
  BY <1>2, FreshHolds
<1>5. /\ runQ \in Seq(CtxThread) /\ Len(runQ) = 1 /\ runQ[1] = Idle
      /\ Range(runQ) = {Idle} /\ Lists!NoDuplicates(runQ)
  BY <1>1, <1>2 DEF Range, Lists!NoDuplicates
<1>6. killQ \in Seq(CtxThread) /\ Range(killQ) = {}
  BY <1>1 DEF Range
<1>7. mem \in [CtxThread \cup {Boot} -> Seq(Cell)]
  <2>1. <<>> \in Seq(Cell)
    BY EmptySeq
  <2> QED
    BY <1>1, <1>4, <2>1
<1>8. sp \in [CtxThread -> Place]
  BY <1>1 DEF Place
<1>9. CtxTypes
  BY <1>1, <1>2, <1>3, <1>5, <1>6, <1>7, <1>8 DEF CtxTypes
<1>10. CtxLists
  BY <1>1, <1>2, <1>5, <1>6 DEF CtxLists
<1>11. CtxRuns
  <2>1. regs \in [Register -> Byte]
    BY <1>1, Cells
  <2>2. mem[Boot] = <<>>
    BY <1>1, <1>2
  <2> QED
    BY <1>1, <1>5, <2>1, <2>2 DEF CtxRuns
<1>12. CtxSaved
  BY <1>1, <1>2, <1>4 DEF CtxSaved
<1> QED
  BY <1>9, <1>10, <1>11, <1>12 DEF CtxInv

\* The stacks and queues of the threads, always.
LEMMA CtxInvariant ==
  Spec => []CtxInv
<1>1. Init => CtxInv
  BY CtxInitInv DEF Init
<1>2. CtxInv /\ [Next]_vars => CtxInv'
  <2>1. [Next]_vars => CtxNext \/ UNCHANGED ctxVars
    BY DEF Next, Only, vars
  <2>2. CtxInv /\ UNCHANGED ctxVars => CtxInv'
    BY DEF CtxInv, CtxTypes, CtxLists, CtxRuns, CtxSaved, ctxVars
  <2>3. CtxInv /\ CtxNext => CtxInv'
    BY StartInv, ResumeInv, ComputeInv, CreateInv, ReadyInv, LeavesInv DEF CtxNext
  <2> QED
    BY <2>1, <2>2, <2>3
<1> QED
  BY <1>1, <1>2, PTL DEF Spec

(***************************************************************************)
(* A thread that runs is live, is on its own stack and finds all registers *)
(* as it left them, or its parameter at its start, whoever ran in between; *)
(* it goes on with interrupts on and an empty stack.  No freed thread is   *)
(* ready (BermudaSwitchTask, BermudaSchedulerExec, BermudaThreadExit).     *)
(***************************************************************************)
THEOREM ThreadResumesOwn == Spec => []ResumesOwn
<1>1. CtxInv => ResumesOwn
  BY DEF CtxInv, CtxLists, CtxRuns, ResumesOwn
<1> QED
  BY <1>1, CtxInvariant, PTL
-----------------------------------------------------------------------------
(***************************************************************************)
(* The message vector.  An operation keeps the order of what it does not   *)
(* move across a message, which is seen on the array alone; the array and  *)
(* what came are then compared.                                            *)
(***************************************************************************)
Message == MasterMsg \cup SlaveMsg

Array(n) == [0 .. n - 1 -> Message \cup {NULL}]

\* A pointer to an array is not NULL.
ArraysAreNotNull == \A n \in Nat : NULL \notin Array(n)

LEMMA VectorFields ==
  ASSUME NEW d, NEW n, NEW l
  PROVE  Vector(d, n, l).data = d /\ Vector(d, n, l).length = n /\ Vector(d, n, l).limit = l
BY DEF Vector

Filled(d, n, l) ==
  l \in Nat /\ n \in 0 .. l /\ d \in Array(l) /\ \A i \in 0 .. n - 1 : d[i] \in Message

\* The array e is d with x put in at k, where the first n entries are in use.
PutIn(e, d, n, k, x) ==
  /\ e[k] = x
  /\ \A i \in 0 .. k - 1 : e[i] = d[i]
  /\ \A i \in k + 1 .. n : e[i] = d[i - 1]

\* x at k stands behind the messages of masters, or at the end if it is a slave's.
RightPlace(d, n, k, x) ==
  /\ k \in 0 .. n
  /\ x \in SlaveMsg => k = n
  /\ x \notin SlaveMsg => \A i \in 0 .. k - 1 : d[i] \notin SlaveMsg
  /\ k < n => d[k] \in SlaveMsg

LEMMA ResizedProps ==
  ASSUME NEW d, NEW n, NEW l, Filled(d, n, l), NEW m \in Nat, m >= l
  PROVE  \E e : /\ Resized(Vector(d, n, l), m) = Vector(e, n, m) /\ Filled(e, n, m)
                /\ \A i \in 0 .. n - 1 : e[i] = d[i]
<1> DEFINE e == [i \in 0 .. m - 1 |-> IF i < l THEN d[i] ELSE NULL]
<1>1. l \in Nat /\ n \in 0 .. l /\ d \in Array(l) /\ \A i \in 0 .. n - 1 : d[i] \in Message
  BY DEF Filled
<1>2. Resized(Vector(d, n, l), m) = Vector(e, n, m)
  BY DEF Resized, Vector
<1>3. e \in Array(m)
  BY <1>1 DEF Array
<1>4. \A i \in 0 .. n - 1 : e[i] = d[i]
  BY <1>1
<1>5. Filled(e, n, m)
  <2> HIDE DEF e
  <2> QED
    BY <1>1, <1>3, <1>4 DEF Filled
<1> QED
  BY <1>2, <1>4, <1>5

LEMMA ShiftedProps ==
  ASSUME NEW d, NEW n, NEW l, Filled(d, n, l), n < l, NEW k \in 0 .. n, NEW x \in Message
  PROVE  \E e, m : /\ InsertEntry(Vector(d, n, l), x, k) = Vector(e, n + 1, m)
                   /\ Filled(e, n + 1, m) /\ PutIn(e, d, n, k, x)
<1>1. PICK f, m : /\ (IF n + 1 >= l THEN Resized(Vector(d, n, l), l + 1) ELSE Vector(d, n, l))
                       = Vector(f, n, m)
                  /\ Filled(f, n, m) /\ n < m
                  /\ \A i \in 0 .. n - 1 : f[i] = d[i]
  <2>1. l \in Nat /\ n \in Nat /\ l + 1 \in Nat /\ l + 1 >= l
    BY DEF Filled
  <2>2. CASE n + 1 >= l
    <3>1. PICK e : /\ Resized(Vector(d, n, l), l + 1) = Vector(e, n, l + 1)
                   /\ Filled(e, n, l + 1)
                   /\ \A i \in 0 .. n - 1 : e[i] = d[i]
      BY <2>1, ResizedProps
    <3> QED
      BY <2>1, <2>2, <3>1
  <2>3. CASE ~(n + 1 >= l)
    BY <2>3
  <2> QED
    BY <2>2, <2>3
<1> DEFINE g == [j \in DOMAIN f |-> IF j > k /\ j <= n THEN f[j - 1] ELSE f[j]]
           e == [g EXCEPT ![k] = x]
<1>2. m \in Nat /\ n \in Nat /\ n < m /\ f \in [0 .. m - 1 -> Message \cup {NULL}]
      /\ \A i \in 0 .. n - 1 : f[i] \in Message
  BY <1>1 DEF Filled, Array
<1>3. ShiftRight(Vector(d, n, l), k) = Vector(g, n + 1, m)
  BY <1>1 DEF ShiftRight, Vector
<1>4. InsertEntry(Vector(d, n, l), x, k) = Vector(e, n + 1, m)
  BY <1>3 DEF InsertEntry, Vector
<1>5. g \in [0 .. m - 1 -> Message \cup {NULL}]
      /\ \A j \in 0 .. m - 1 : g[j] = IF j > k /\ j <= n THEN f[j - 1] ELSE f[j]
  BY <1>2
<1> HIDE DEF g
<1>6. e \in [0 .. m - 1 -> Message \cup {NULL}]
      /\ \A j \in 0 .. m - 1 : e[j] = IF j = k THEN x ELSE g[j]
  BY <1>2, <1>5
<1> HIDE DEF e
<1>7. PutIn(e, d, n, k, x)
  <2>1. e[k] = x
    BY <1>2, <1>6
  <2>2. ASSUME NEW i \in 0 .. k - 1
        PROVE  e[i] = d[i]
    BY <1>1, <1>2, <1>5, <1>6
  <2>3. ASSUME NEW i \in k + 1 .. n
        PROVE  e[i] = d[i - 1]
    BY <1>1, <1>2, <1>5, <1>6
  <2> QED
    BY <2>1, <2>2, <2>3 DEF PutIn
<1>8. Filled(e, n + 1, m)
  <2>1. \A i \in 0 .. (n + 1) - 1 : e[i] \in Message
    BY <1>2, <1>5, <1>6
  <2> QED
    BY <1>2, <1>6, <2>1 DEF Filled, Array
<1> QED
  BY <1>4, <1>7, <1>8

\* i2c_vector_add: x goes to its right place.
LEMMA AddProps ==
  ASSUME NEW d, NEW n, NEW l, Filled(d, n, l), NEW x \in Message
  PROVE  \E e, m, k : /\ Add(Vector(d, n, l), x, SlaveMsg) = Vector(e, n + 1, m)
                      /\ Filled(e, n + 1, m) /\ PutIn(e, d, n, k, x) /\ RightPlace(d, n, k, x)
<1> DEFINE at == {i \in 0 .. n - 1 : d[i] \in SlaveMsg}
           v  == Vector(d, n, l)
           w  == IF n = l THEN Resized(v, l + DefaultLimit) ELSE v
<1>1. l \in Nat /\ n \in Nat /\ n \in 0 .. l /\ DefaultLimit \in Nat \ {0}
  BY VectorConstants DEF Filled
<1>2. PICK f, m : w = Vector(f, n, m) /\ Filled(f, n, m) /\ n < m
                  /\ \A i \in 0 .. n - 1 : f[i] = d[i]
  <2>1. CASE n = l
    <3>1. l + DefaultLimit \in Nat /\ l + DefaultLimit >= l /\ n < l + DefaultLimit
      BY <1>1, <2>1
    <3>2. PICK e : /\ Resized(v, l + DefaultLimit) = Vector(e, n, l + DefaultLimit)
                   /\ Filled(e, n, l + DefaultLimit)
                   /\ \A i \in 0 .. n - 1 : e[i] = d[i]
      BY <3>1, ResizedProps
    <3> QED
      BY <2>1, <3>1, <3>2
  <2>2. CASE n # l
    BY <1>1, <2>2
  <2> QED
    BY <2>1, <2>2
<1>3. Add(v, x, SlaveMsg) = IF x \notin SlaveMsg /\ at # {}
                            THEN InsertEntry(w, x, Min(at))
                            ELSE Vector([w.data EXCEPT ![n] = x], n + 1, w.limit)
  BY DEF Add, Vector
<1> HIDE DEF v, w
<1>4. CASE x \notin SlaveMsg /\ at # {}
  <2> DEFINE k == Min(at)
  <2>1. k \in at /\ \A i \in at : k <= i
    BY <1>1, <1>4, LeastOfSome
  <2> HIDE DEF k
  <2>2. k \in 0 .. n /\ k < n /\ d[k] \in SlaveMsg /\ \A i \in 0 .. k - 1 : d[i] \notin SlaveMsg
    BY <1>1, <2>1
  <2>3. PICK e, h : /\ InsertEntry(Vector(f, n, m), x, k) = Vector(e, n + 1, h)
                    /\ Filled(e, n + 1, h) /\ PutIn(e, f, n, k, x)
    BY <1>2, <2>2, ShiftedProps
  <2>4. Add(v, x, SlaveMsg) = Vector(e, n + 1, h)
    BY <1>2, <1>3, <1>4, <2>3 DEF k
  <2>5. PutIn(e, d, n, k, x)
    BY <1>1, <1>2, <2>2, <2>3 DEF PutIn
  <2>6. RightPlace(d, n, k, x)
    BY <1>4, <2>2 DEF RightPlace
  <2> QED
    BY <2>3, <2>4, <2>5, <2>6 DEF v
<1>5. CASE ~(x \notin SlaveMsg /\ at # {})
  <2> DEFINE e == [f EXCEPT ![n] = x]
  <2>1. m \in Nat /\ f \in [0 .. m - 1 -> Message \cup {NULL}]
        /\ \A i \in 0 .. n - 1 : f[i] \in Message
    BY <1>2 DEF Filled, Array
  <2>2. Add(v, x, SlaveMsg) = Vector(e, n + 1, m)
    BY <1>2, <1>3, <1>5 DEF Vector
  <2>3. /\ e \in [0 .. m - 1 -> Message \cup {NULL}]
        /\ e[n] = x /\ \A i \in 0 .. n - 1 : e[i] = f[i]
    BY <1>1, <1>2, <2>1
  <2> HIDE DEF e
  <2>4. Filled(e, n + 1, m)
    <3>1. \A i \in 0 .. (n + 1) - 1 : e[i] \in Message
      BY <1>1, <2>1, <2>3
    <3> QED
      BY <1>1, <1>2, <2>1, <2>3, <3>1 DEF Filled, Array
  <2>5. PutIn(e, d, n, n, x)
    BY <1>1, <1>2, <2>3 DEF PutIn
  <2>6. RightPlace(d, n, n, x)
    BY <1>1, <1>5 DEF RightPlace
  <2> QED
    BY <2>2, <2>4, <2>5, <2>6 DEF v
<1> QED
  BY <1>4, <1>5

\* i2c_vector_shift_left: the entry k is gone.
TakenOut(e, d, n, k) ==
  /\ \A i \in 0 .. k - 1 : e[i] = d[i]
  /\ \A i \in k .. n - 2 : e[i] = d[i + 1]

LEMMA DeleteProps ==
  ASSUME NEW d, NEW n, NEW l, Filled(d, n, l), NEW k \in 0 .. n - 1
  PROVE  \E e : /\ Delete(Vector(d, n, l), k) = Vector(e, n - 1, l)
                /\ Filled(e, n - 1, l) /\ TakenOut(e, d, n, k)
<1> DEFINE e == [j \in DOMAIN d |-> IF j < k THEN d[j]
                                    ELSE IF j < n - 1 THEN d[j + 1] ELSE NULL]
<1>1. l \in Nat /\ n \in 0 .. l /\ d \in [0 .. l - 1 -> Message \cup {NULL}]
      /\ \A i \in 0 .. n - 1 : d[i] \in Message
  BY DEF Filled, Array
<1>2. Delete(Vector(d, n, l), k) = Vector(e, n - 1, l)
  BY DEF Delete, Vector
<1>3. DOMAIN d = 0 .. l - 1
  BY <1>1
<1>4. \A j \in 0 .. l - 1 : e[j] = IF j < k THEN d[j] ELSE IF j < n - 1 THEN d[j + 1] ELSE NULL
  BY <1>1, <1>3
<1>5. e \in [0 .. l - 1 -> Message \cup {NULL}]
  <2>1. e = [j \in 0 .. l - 1 |-> e[j]]
    BY <1>3
  <2> HIDE DEF e
  <2>2. \A j \in 0 .. l - 1 : e[j] \in Message \cup {NULL}
    BY <1>1, <1>4
  <2> QED
    BY <2>1, <2>2
<1> HIDE DEF e
<1>6. TakenOut(e, d, n, k)
  <2>1. ASSUME NEW i \in 0 .. k - 1
        PROVE  e[i] = d[i]
    BY <1>1, <1>4
  <2>2. ASSUME NEW i \in k .. n - 2
        PROVE  e[i] = d[i + 1]
    BY <1>1, <1>4
  <2> QED
    BY <2>1, <2>2 DEF TakenOut
<1>7. Filled(e, n - 1, l)
  <2>1. \A i \in 0 .. (n - 1) - 1 : e[i] \in Message
    BY <1>1, <1>4
  <2> QED
    BY <1>1, <1>5, <2>1 DEF Filled, Array
<1> QED
  BY <1>2, <1>6, <1>7
-----------------------------------------------------------------------------
\* In the sequence s, m comes before n.
Precedes(s, m, n) == \E j \in DOMAIN s : \E i \in 1 .. j - 1 : s[i] = m /\ s[j] = n

\* The first n entries of d are those of s, masters' first, each kind in the order of s.
Sorted(d, n, s) ==
  /\ Range(s) = {d[i] : i \in 0 .. n - 1}
  /\ \A j \in 0 .. n - 1 : \A i \in 0 .. j - 1 :
       /\ d[i] # d[j]
       /\ d[i] \in SlaveMsg => d[j] \in SlaveMsg
       /\ (d[i] \in SlaveMsg <=> d[j] \in SlaveMsg) => Precedes(s, d[i], d[j])

LEMMA Arrives ==
  ASSUME NEW T, NEW s \in Seq(T), Once(s), NEW x \in T, x \notin Range(s)
  PROVE  /\ Append(s, x) \in Seq(T) /\ Once(Append(s, x))
         /\ Range(Append(s, x)) = Range(s) \cup {x}
         /\ \A m \in Range(s) : Precedes(Append(s, x), m, x)
         /\ \A m, n : Precedes(s, m, n) => Precedes(Append(s, x), m, n)
<1> DEFINE a == Append(s, x)
<1>1. /\ a \in Seq(T) /\ Len(a) = Len(s) + 1 /\ a[Len(s) + 1] = x
      /\ \A i \in 1 .. Len(s) : a[i] = s[i]
  OBVIOUS
<1> HIDE DEF a
<1>2. DOMAIN s = 1 .. Len(s) /\ Len(s) \in Nat /\ DOMAIN a = 1 .. Len(s) + 1
  BY <1>1, LenProperties
<1>3. \A i \in 1 .. Len(s) : s[i] # x
  BY <1>2 DEF Range
<1>4. Once(a)
  BY <1>1, <1>2, <1>3 DEF Once
<1>5. Range(a) = Range(s) \cup {x}
  BY <1>1, <1>2 DEF Range
<1>6. ASSUME NEW m \in Range(s)
      PROVE  Precedes(a, m, x)
  <2>1. PICK i \in 1 .. Len(s) : s[i] = m
    BY <1>2 DEF Range
  <2>2. Len(s) + 1 \in DOMAIN a /\ i \in 1 .. (Len(s) + 1) - 1 /\ a[i] = m
    BY <1>1, <1>2, <2>1
  <2> QED
    BY <1>1, <2>2 DEF Precedes
<1>7. ASSUME NEW m, NEW n, Precedes(s, m, n)
      PROVE  Precedes(a, m, n)
  <2>1. PICK j \in 1 .. Len(s) : \E i \in 1 .. j - 1 : s[i] = m /\ s[j] = n
    BY <1>2, <1>7 DEF Precedes
  <2>2. PICK i \in 1 .. j - 1 : s[i] = m /\ s[j] = n
    BY <2>1
  <2>3. j \in DOMAIN a /\ a[i] = m /\ a[j] = n
    BY <1>1, <1>2, <2>2
  <2> QED
    BY <2>3 DEF Precedes
<1> QED
  BY <1>1, <1>4, <1>5, <1>6, <1>7 DEF a

LEMMA Departs ==
  ASSUME NEW T, NEW s \in Seq(T), Once(s), NEW x
  PROVE  /\ RemoveFirst(s, x) \in Seq(T) /\ Once(RemoveFirst(s, x))
         /\ Range(RemoveFirst(s, x)) = Range(s) \ {x}
         /\ \A m, n : Precedes(s, m, n) /\ m # x /\ n # x => Precedes(RemoveFirst(s, x), m, n)
<1>1. /\ Lists!RemoveFirst(s, x) \in Seq(T)
      /\ Lists!NoDuplicates(Lists!RemoveFirst(s, x))
      /\ Lists!Range(Lists!RemoveFirst(s, x)) = Lists!Range(s) \ {x}
  <2>1. Lists!NoDuplicates(s)
    BY SameOperators DEF Once
  <2> QED
    BY <2>1, Lists!RemoveFirstProps
<1> DEFINE r == RemoveFirst(s, x)
<1>2. r = Lists!RemoveFirst(s, x)
  BY SameRemoval
<1>3. r \in Seq(T) /\ Once(r) /\ Range(r) = Range(s) \ {x}
  BY <1>1, <1>2, SameOperators DEF Once
<1>4. ASSUME NEW m, NEW n, Precedes(s, m, n), m # x, n # x
      PROVE  Precedes(r, m, n)
  <2>1. DOMAIN s = 1 .. Len(s) /\ Len(s) \in Nat
    BY LenProperties
  <2>2. PICK j \in 1 .. Len(s) : \E i \in 1 .. j - 1 : s[i] = m /\ s[j] = n
    BY <1>4, <2>1 DEF Precedes
  <2>3. PICK i \in 1 .. j - 1 : s[i] = m /\ s[j] = n
    BY <2>2
  <2>4. CASE x \notin Range(s)
    <3>1. r = s
      BY <1>2, <2>4, Lists!RemoveFirstPlace, SameOperators
    <3> QED
      BY <1>4, <3>1
  <2>5. CASE x \in Range(s)
    <3>1. PICK k \in 1 .. Len(s) : s[k] = x /\ r = Lists!RemoveAt(s, k)
      BY <1>2, <2>5, Lists!RemoveFirstPlace, SameOperators
    <3>2. /\ Len(r) = Len(s) - 1
          /\ \A p \in 1 .. Len(s) - 1 : r[p] = IF p < k THEN s[p] ELSE s[p + 1]
      BY <3>1, Lists!RemoveAtProps
    <3> HIDE DEF r
    <3>3. DOMAIN r = 1 .. Len(s) - 1
      BY <1>3, <3>2, LenProperties
    <3>4. k # i /\ k # j
      BY <1>4, <2>3, <3>1
    <3> DEFINE p == IF i < k THEN i ELSE i - 1
               q == IF j < k THEN j ELSE j - 1
    <3>5. /\ p \in Int /\ (i < k => p = i) /\ (i > k => p = i - 1)
          /\ q \in Int /\ (j < k => q = j) /\ (j > k => q = j - 1)
      BY <2>1, <3>4
    <3> HIDE DEF p, q
    <3>6. p \in 1 .. q - 1 /\ q \in 1 .. Len(s) - 1
      BY <2>1, <3>4, <3>5
    <3>7. r[p] = s[i]
      BY <2>1, <3>2, <3>4, <3>5, <3>6
    <3>8. r[q] = s[j]
      BY <2>1, <3>2, <3>4, <3>5, <3>6
    <3> QED
      BY <2>3, <3>3, <3>6, <3>7, <3>8 DEF Precedes
  <2> QED
    BY <2>4, <2>5
<1> QED
  BY <1>3, <1>4 DEF r

\* A message that comes, and one that goes.
LEMMA AddSorted ==
  ASSUME NEW d, NEW n \in Nat, NEW s \in Seq(Message), Once(s), Sorted(d, n, s),
         NEW x \in Message, x \notin Range(s),
         NEW e, NEW k, PutIn(e, d, n, k, x), RightPlace(d, n, k, x)
  PROVE  Sorted(e, n + 1, Append(s, x))
<1> PICK a : a = Append(s, x)
  OBVIOUS
<1>1. /\ Range(a) = Range(s) \cup {x}
      /\ \A m \in Range(s) : Precedes(a, m, x)
      /\ \A m, o : Precedes(s, m, o) => Precedes(a, m, o)
  BY Arrives
<1>2. k \in 0 .. n /\ e[k] = x
      /\ \A i \in 0 .. n : /\ i < k => i \in 0 .. n - 1 /\ e[i] = d[i]
                           /\ i > k => i - 1 \in 0 .. n - 1 /\ e[i] = d[i - 1]
  BY DEF PutIn, RightPlace
<1>3. \A i \in 0 .. n - 1 : d[i] \in Range(s) /\ d[i] # x
  BY DEF Sorted
<1>4. Range(a) = {e[i] : i \in 0 .. n}
  <2>1. ASSUME NEW i \in 0 .. n
        PROVE  e[i] \in Range(a)
    <3>1. CASE i < k
      BY <1>1, <1>2, <1>3, <3>1
    <3>2. CASE i = k
      BY <1>1, <1>2, <3>2
    <3>3. CASE i > k
      <4>1. i - 1 \in 0 .. n - 1 /\ e[i] = d[i - 1]
        BY <1>2, <3>3
      <4> QED
        BY <1>1, <1>3, <4>1
    <3> QED
      BY <1>2, <3>1, <3>2, <3>3
  <2>2. ASSUME NEW m \in Range(a)
        PROVE  \E i \in 0 .. n : e[i] = m
    <3>1. CASE m = x
      BY <1>2, <3>1
    <3>2. CASE m # x
      <4>1. PICK i \in 0 .. n - 1 : d[i] = m
        BY <1>1, <3>2 DEF Sorted
      <4>2. CASE i < k
        BY <1>2, <4>1, <4>2
      <4>3. CASE i >= k
        <5>1. i + 1 \in 0 .. n /\ i + 1 > k /\ (i + 1) - 1 = i
          BY <1>2, <4>3
        <5>2. e[i + 1] = d[i]
          BY <1>2, <5>1
        <5> QED
          BY <4>1, <5>1, <5>2
      <4> QED
        BY <1>2, <4>2, <4>3
    <3> QED
      BY <3>1, <3>2
  <2> QED
    BY <2>1, <2>2
<1>5. ASSUME NEW j \in 0 .. n, NEW i \in 0 .. j - 1
      PROVE  /\ e[i] # e[j]
             /\ e[i] \in SlaveMsg => e[j] \in SlaveMsg
             /\ (e[i] \in SlaveMsg <=> e[j] \in SlaveMsg) => Precedes(a, e[i], e[j])
  <2>1. CASE j = k
    <3>1. e[j] = x /\ e[i] = d[i] /\ d[i] \in Range(s) /\ d[i] # x /\ i \in 0 .. k - 1
      BY <1>2, <1>3, <2>1
    <3>2. x \notin SlaveMsg => d[i] \notin SlaveMsg
      BY <3>1 DEF RightPlace
    <3> QED
      BY <1>1, <3>1, <3>2
  <2>2. CASE i = k
    <3>1. e[i] = x /\ e[j] = d[j - 1] /\ d[j - 1] # x /\ j - 1 \in k .. n - 1 /\ k < n
      BY <1>2, <1>3, <2>2
    <3>2. d[k] \in SlaveMsg /\ x \notin SlaveMsg
      BY <3>1 DEF RightPlace
    <3>3. d[j - 1] \in SlaveMsg
      <4>1. CASE j - 1 = k
        BY <3>2, <4>1
      <4>2. CASE j - 1 # k
        <5>1. j - 1 \in 0 .. n - 1 /\ k \in 0 .. (j - 1) - 1
          BY <1>2, <3>1, <4>2
        <5> QED
          BY <3>2, <5>1 DEF Sorted
      <4> QED
        BY <4>1, <4>2
    <3> QED
      BY <3>1, <3>2, <3>3
  <2>3. CASE i # k /\ j # k
    <3>1. PICK q \in 0 .. n - 1 : \E p \in 0 .. q - 1 : e[i] = d[p] /\ e[j] = d[q]
      <4>1. CASE j < k
        BY <1>2, <4>1
      <4>2. CASE i < k /\ j > k
        <5>1. j - 1 \in 0 .. n - 1 /\ i \in 0 .. (j - 1) - 1 /\ e[i] = d[i] /\ e[j] = d[j - 1]
          BY <1>2, <4>2
        <5> QED
          BY <5>1
      <4>3. CASE i > k
        <5>1. j - 1 \in 0 .. n - 1 /\ i - 1 \in 0 .. (j - 1) - 1
              /\ e[i] = d[i - 1] /\ e[j] = d[j - 1]
          BY <1>2, <4>3
        <5> QED
          BY <5>1
      <4> QED
        BY <1>2, <2>3, <4>1, <4>2, <4>3
    <3>2. PICK p \in 0 .. q - 1 : e[i] = d[p] /\ e[j] = d[q]
      BY <3>1
    <3> QED
      BY <1>1, <3>2 DEF Sorted
  <2> QED
    BY <2>1, <2>2, <2>3
<1>6. (n + 1) - 1 = n
  OBVIOUS
<1>7. Sorted(e, n + 1, a)
  BY <1>4, <1>5, <1>6 DEF Sorted
<1> QED
  BY <1>7

LEMMA DeleteSorted ==
  ASSUME NEW d, NEW n \in Nat, NEW s \in Seq(Message), Once(s), Sorted(d, n, s),
         NEW k \in 0 .. n - 1, NEW e, TakenOut(e, d, n, k)
  PROVE  Sorted(e, n - 1, RemoveFirst(s, d[k]))
<1> PICK r : r = RemoveFirst(s, d[k])
  OBVIOUS
<1>1. /\ Range(r) = Range(s) \ {d[k]}
      /\ \A m, o : Precedes(s, m, o) /\ m # d[k] /\ o # d[k] => Precedes(r, m, o)
  BY Departs
<1>2. \A i \in 0 .. n - 2 :
        \E p \in 0 .. n - 1 : p # k /\ e[i] = d[p] /\ (i < k => p = i) /\ (i >= k => p = i + 1)
  <2> TAKE i \in 0 .. n - 2
  <2>1. CASE i < k
    BY <2>1 DEF TakenOut
  <2>2. CASE i >= k
    <3>1. i + 1 \in 0 .. n - 1 /\ i + 1 # k /\ e[i] = d[i + 1]
      BY <2>2 DEF TakenOut
    <3> QED
      BY <2>2, <3>1
  <2> QED
    BY <2>1, <2>2
<1>3. \A i, j \in 0 .. n - 1 : i # j => d[i] # d[j]
  <2> TAKE i, j \in 0 .. n - 1
  <2>1. i < j => d[i] # d[j]
    BY DEF Sorted
  <2>2. j < i => d[i] # d[j]
    BY DEF Sorted
  <2> QED
    BY <2>1, <2>2
<1>4. Range(r) = {e[i] : i \in 0 .. n - 2}
  <2>1. ASSUME NEW i \in 0 .. n - 2
        PROVE  e[i] \in Range(r)
    BY <1>1, <1>2, <1>3 DEF Sorted
  <2>2. ASSUME NEW m \in Range(r)
        PROVE  \E i \in 0 .. n - 2 : e[i] = m
    <3>1. PICK p \in 0 .. n - 1 : d[p] = m /\ p # k
      BY <1>1 DEF Sorted
    <3>2. CASE p < k
      <4>1. p \in 0 .. n - 2 /\ e[p] = d[p]
        BY <3>2 DEF TakenOut
      <4> QED
        BY <3>1, <4>1
    <3>3. CASE p > k
      <4>1. p - 1 \in k .. n - 2 /\ (p - 1) + 1 = p
        BY <3>3
      <4>2. p - 1 \in 0 .. n - 2 /\ e[p - 1] = d[p]
        BY <4>1 DEF TakenOut
      <4> QED
        BY <3>1, <4>2
    <3> QED
      BY <3>1, <3>2, <3>3
  <2> QED
    BY <2>1, <2>2
<1>5. ASSUME NEW j \in 0 .. n - 2, NEW i \in 0 .. j - 1
      PROVE  /\ e[i] # e[j]
             /\ e[i] \in SlaveMsg => e[j] \in SlaveMsg
             /\ (e[i] \in SlaveMsg <=> e[j] \in SlaveMsg) => Precedes(r, e[i], e[j])
  <2>1. i \in 0 .. n - 2 /\ i < j
    OBVIOUS
  <2>2. PICK q \in 0 .. n - 1 :
          q # k /\ e[j] = d[q] /\ (j < k => q = j) /\ (j >= k => q = j + 1)
    BY <1>2
  <2>3. PICK p \in 0 .. n - 1 :
          p # k /\ e[i] = d[p] /\ (i < k => p = i) /\ (i >= k => p = i + 1)
    BY <1>2, <2>1
  <2>4. p \in 0 .. q - 1
    BY <2>1, <2>2, <2>3
  <2>5. d[p] # d[k] /\ d[q] # d[k]
    BY <1>3, <2>2, <2>3
  <2> QED
    BY <1>1, <2>2, <2>3, <2>4, <2>5 DEF Sorted
<1>6. (n - 1) - 1 = n - 2
  OBVIOUS
<1>7. Sorted(e, n - 1, r)
  BY <1>4, <1>5, <1>6 DEF Sorted
<1> QED
  BY <1>7

\* The array is in order, or there is none and no message.
MsgvInv ==
  /\ msgv = Vector(msgv.data, msgv.length, msgv.limit)
  /\ msgv.data = NULL => msgv.length = 0 /\ msgv.limit \in Nat
  /\ msgv.data # NULL => Filled(msgv.data, msgv.length, msgv.limit)
  /\ arrived \in Seq(Message) /\ Once(arrived)
  /\ Sorted(msgv.data, msgv.length, arrived)

\* No array is shrunk: v->length + DEFAULT_MSG_LIMIT < v->length is never true.
LEMMA NeverReshaped ==
  ASSUME NEW d, NEW n \in Nat, NEW l
  PROVE  Reshape(Vector(d, n, l)) = Vector(d, n, l)
BY VectorConstants DEF Reshape, Vector

LEMMA MsgvAddInv ==
  ASSUME ArraysAreNotNull, MsgvInv, NEW x \in Message, MsgvAdd(x)
  PROVE  MsgvInv'
<1>1. x \notin Range(arrived)
  BY DEF MsgvAdd, ArrivedIs, Range
<1>2. CASE msgv.data = NULL
  <2> DEFINE d == [i \in 0 .. DefaultLimit - 1 |-> NULL]
  <2>1. msgv' = Vector(d, 0, DefaultLimit) /\ arrived' = arrived
    BY <1>2 DEF MsgvAdd, AfterError, Create
  <2>2. DefaultLimit \in Nat /\ d \in Array(DefaultLimit)
    BY VectorConstants DEF Array
  <2>3. Filled(d, 0, DefaultLimit)
    <3> HIDE DEF d
    <3> QED
      BY <2>2 DEF Filled
  <2> HIDE DEF d
  <2>4. msgv'.data = d /\ msgv'.length = 0 /\ msgv'.limit = DefaultLimit
    BY <2>1, VectorFields
  <2>5. Sorted(d, 0, arrived)
    <3>1. msgv.length = 0 /\ Sorted(msgv.data, 0, arrived)
      BY <1>2 DEF MsgvInv
    <3> QED
      BY <3>1 DEF Sorted
  <2> QED
    BY <2>1, <2>2, <2>3, <2>4, <2>5 DEF MsgvInv
<1>3. CASE msgv.data # NULL
  <2> PICK d, n, l : d = msgv.data /\ n = msgv.length /\ l = msgv.limit
    OBVIOUS
  <2>1. msgv = Vector(d, n, l) /\ Filled(d, n, l) /\ Sorted(d, n, arrived)
        /\ arrived \in Seq(Message) /\ Once(arrived)
    BY <1>3 DEF MsgvInv
  <2>2. msgv' = Add(Vector(d, n, l), x, SlaveMsg) /\ arrived' = Append(arrived, x)
    BY <1>3, <2>1 DEF MsgvAdd
  <2>3. PICK e, m, k : /\ msgv' = Vector(e, n + 1, m)
                       /\ Filled(e, n + 1, m) /\ PutIn(e, d, n, k, x) /\ RightPlace(d, n, k, x)
    BY <2>1, <2>2, AddProps
  <2>4. n \in Nat
    BY <2>1 DEF Filled
  <2>5. Sorted(e, n + 1, Append(arrived, x))
    BY <1>1, <2>1, <2>3, <2>4, AddSorted
  <2>6. Append(arrived, x) \in Seq(Message) /\ Once(Append(arrived, x))
    BY <1>1, <2>1, Arrives
  <2>7. msgv'.data = e /\ msgv'.length = n + 1 /\ msgv'.limit = m
    BY <2>3, VectorFields
  <2>8. e # NULL
    BY <2>3 DEF Filled, ArraysAreNotNull
  <2> QED
    BY <2>2, <2>3, <2>5, <2>6, <2>7, <2>8 DEF MsgvInv
<1> QED
  BY <1>2, <1>3

\* An entry is taken out, with its message.
LEMMA MsgvTakeInv ==
  ASSUME ArraysAreNotNull, MsgvInv, msgv.data # NULL, NEW k \in 0 .. msgv.length - 1,
         msgv' = Reshape(Delete(msgv, k)), arrived' = RemoveFirst(arrived, msgv.data[k])
  PROVE  MsgvInv'
<1> PICK d, n, l : d = msgv.data /\ n = msgv.length /\ l = msgv.limit
  OBVIOUS
<1>1. msgv = Vector(d, n, l) /\ Filled(d, n, l) /\ Sorted(d, n, arrived)
      /\ arrived \in Seq(Message) /\ Once(arrived) /\ n \in Nat /\ k \in 0 .. n - 1
  BY DEF MsgvInv, Filled
<1>2. PICK e : /\ Delete(Vector(d, n, l), k) = Vector(e, n - 1, l)
               /\ Filled(e, n - 1, l) /\ TakenOut(e, d, n, k)
  BY <1>1, DeleteProps
<1>3. n - 1 \in Nat
  BY <1>1
<1>4. msgv' = Vector(e, n - 1, l)
  <2>1. Reshape(Vector(e, n - 1, l)) = Vector(e, n - 1, l)
    BY <1>3, NeverReshaped
  <2>2. Delete(msgv, k) = Vector(e, n - 1, l)
    BY <1>1, <1>2, Zenon
  <2> QED
    BY <2>1, <2>2, Zenon
<1>5. Sorted(e, n - 1, RemoveFirst(arrived, d[k]))
  BY <1>1, <1>2, DeleteSorted
<1>6. RemoveFirst(arrived, d[k]) \in Seq(Message) /\ Once(RemoveFirst(arrived, d[k]))
  BY <1>1, Departs
<1>7. msgv'.data = e /\ msgv'.length = n - 1 /\ msgv'.limit = l
  BY <1>4, VectorFields
<1>8. e # NULL
  BY <1>2 DEF Filled, ArraysAreNotNull
<1> QED
  BY <1>2, <1>4, <1>5, <1>6, <1>7, <1>8 DEF MsgvInv

\* Nothing is taken out, as there is no such message.
LEMMA MsgvKeepInv ==
  ASSUME MsgvInv, NEW x, x \notin Range(arrived),
         msgv' = Reshape(msgv), arrived' = RemoveFirst(arrived, x)
  PROVE  MsgvInv'
<1>1. msgv.length \in Nat /\ msgv = Vector(msgv.data, msgv.length, msgv.limit)
  BY DEF MsgvInv, Filled
<1>2. msgv' = msgv
  BY <1>1, NeverReshaped
<1>3. arrived' = arrived
  <2>1. arrived \in Seq(Message) /\ x \notin Lists!Range(arrived)
    BY SameOperators DEF MsgvInv
  <2>2. Lists!RemoveFirst(arrived, x) = arrived
    BY <2>1, Lists!RemoveFirstPlace
  <2> QED
    BY <2>2, SameRemoval
<1> QED
  BY <1>2, <1>3 DEF MsgvInv

LEMMA MsgvNextInv ==
  ASSUME ArraysAreNotNull, MsgvInv, MsgvNext
  PROVE  MsgvInv'
<1>1. /\ msgv.length \in Nat /\ Range(arrived) \subseteq Message
      /\ Range(arrived) = {msgv.data[i] : i \in 0 .. msgv.length - 1}
      /\ msgv.data = NULL => msgv.length = 0
  <2>1. arrived \in Seq(Message) /\ msgv.length \in Nat
    BY DEF MsgvInv, Filled
  <2>2. DOMAIN arrived = 1 .. Len(arrived) /\ \A i \in 1 .. Len(arrived) : arrived[i] \in Message
    BY <2>1, LenProperties, ElementOfSeq
  <2> QED
    BY <2>1, <2>2 DEF MsgvInv, Sorted, Range
<1>2. NULL \notin Message
  BY MsgVectorConstants DEF Message
<1>3. ASSUME NEW x \in Message, MsgvDelete(x)
      PROVE  MsgvInv'
  <2> DEFINE at == {i \in 0 .. msgv.length - 1 : msgv.data[i] = x}
  <2>1. msgv' = Reshape(DeleteMsg(msgv, x)) /\ arrived' = RemoveFirst(arrived, x)
    BY <1>3 DEF MsgvDelete
  <2>2. CASE at = {}
    <3>1. Locate(msgv, x) = msgv.length + 1
      BY <1>2, <2>2 DEF Locate
    <3>2. DeleteMsg(msgv, x) = msgv
      BY <1>1, <3>1 DEF DeleteMsg
    <3>3. x \notin Range(arrived)
      BY <1>1, <2>2
    <3> QED
      BY <2>1, <3>2, <3>3, MsgvKeepInv
  <2>3. CASE at # {}
    <3>1. Locate(msgv, x) = Min(at)
      BY <1>2, <2>3 DEF Locate
    <3>2. Min(at) \in at
      BY <1>1, <2>3, LeastOfSome
    <3>3. Locate(msgv, x) \in 0 .. msgv.length - 1 /\ msgv.data[Locate(msgv, x)] = x
          /\ msgv.data # NULL
      BY <1>1, <3>1, <3>2
    <3>4. DeleteMsg(msgv, x) = Delete(msgv, Locate(msgv, x))
      BY <3>3 DEF DeleteMsg
    <3> QED
      BY <2>1, <3>3, <3>4, MsgvTakeInv
  <2> QED
    BY <2>2, <2>3
<1>4. ASSUME NEW i \in 0 .. msgv.length, MsgvDeleteAt(i)
      PROVE  MsgvInv'
  <2>1. msgv' = Reshape(DeleteAt(msgv, i)) /\ arrived' = RemoveFirst(arrived, Get(msgv, i))
    BY <1>4 DEF MsgvDeleteAt
  <2>2. CASE i \in 0 .. msgv.length - 1
    <3>1. Get(msgv, i) = msgv.data[i] /\ msgv.data # NULL
      BY <1>1, <2>2 DEF Get
    <3>2. DeleteAt(msgv, i) = Delete(msgv, i)
      BY <2>2, <3>1 DEF DeleteAt
    <3> QED
      BY <2>1, <2>2, <3>1, <3>2, MsgvTakeInv
  <2>3. CASE i \notin 0 .. msgv.length - 1
    <3>1. Get(msgv, i) = NULL /\ DeleteAt(msgv, i) = msgv
      BY <2>3 DEF Get, DeleteAt
    <3>2. NULL \notin Range(arrived)
      BY <1>1, <1>2
    <3> QED
      BY <2>1, <3>1, <3>2, MsgvKeepInv
  <2> QED
    BY <2>2, <2>3
<1> QED
  BY <1>3, <1>4, MsgvAddInv DEF MsgvNext, Message

LEMMA MsgvInitInv ==
  ASSUME MsgvInit
  PROVE  MsgvInv
<1>1. msgv = Vector(NULL, 0, 0) /\ arrived = <<>>
  BY DEF MsgvInit, Uninit
<1>2. msgv.data = NULL /\ msgv.length = 0 /\ msgv.limit = 0
  BY <1>1, VectorFields
<1>3. Range(arrived) = {} /\ arrived \in Seq(Message) /\ Once(arrived)
  BY <1>1 DEF Range, Once
<1>4. Sorted(msgv.data, 0, arrived)
  BY <1>3 DEF Sorted
<1> QED
  BY <1>1, <1>2, <1>3, <1>4 DEF MsgvInv

LEMMA MsgvInvImplies ==
  ASSUME MsgvInv
  PROVE  MastersFirst
<1>1. msgv.length \in Nat
  BY DEF MsgvInv, Filled
<1>2. \A i \in 0 .. msgv.length - 1 : Get(msgv, i) = msgv.data[i]
  BY DEF Get
<1>3. {arrived[i] : i \in DOMAIN arrived} = {Get(msgv, i) : i \in 0 .. msgv.length - 1}
  BY <1>2 DEF MsgvInv, Sorted, Range
<1>4. \A m, n : Precedes(arrived, m, n) <=> CameBefore(m, n)
  BY DEF Precedes, CameBefore
<1>5. ASSUME NEW j \in 0 .. msgv.length - 1, NEW i \in 0 .. j - 1
      PROVE  LET m == Get(msgv, i)
                 n == Get(msgv, j)
             IN  /\ m # n
                 /\ m \in SlaveMsg => n \in SlaveMsg
                 /\ (m \in SlaveMsg) = (n \in SlaveMsg) => CameBefore(m, n)
  <2>1. Get(msgv, i) = msgv.data[i] /\ Get(msgv, j) = msgv.data[j]
    BY <1>1, <1>2
  <2>2. /\ msgv.data[i] # msgv.data[j]
        /\ msgv.data[i] \in SlaveMsg => msgv.data[j] \in SlaveMsg
        /\ (msgv.data[i] \in SlaveMsg <=> msgv.data[j] \in SlaveMsg) =>
             Precedes(arrived, msgv.data[i], msgv.data[j])
    BY DEF MsgvInv, Sorted
  <2> QED
    BY <1>4, <2>1, <2>2
<1> QED
  BY <1>3, <1>5 DEF MastersFirst

\* The vector and what came, always.
LEMMA MsgvInvariant ==
  ASSUME ArraysAreNotNull
  PROVE  Spec => []MsgvInv
<1>1. Init => MsgvInv
  BY MsgvInitInv DEF Init
<1>2. MsgvInv /\ [Next]_vars => MsgvInv'
  <2>1. [Next]_vars => MsgvNext \/ UNCHANGED msgvVars
    BY DEF Next, Only, vars
  <2>2. MsgvInv /\ UNCHANGED msgvVars => MsgvInv'
    BY DEF MsgvInv, msgvVars
  <2> QED
    BY <2>1, <2>2, MsgvNextInv
<1> QED
  BY <1>1, <1>2, PTL DEF Spec

(***************************************************************************)
(* The message vector holds what came and was not deleted, the messages of *)
(* masters before those of slaves, each kind in the order in which they    *)
(* came, for any number of messages and any limit (i2c_vector_add,         *)
(* i2c_vector_delete_at, i2c_vector_delete_msg).                           *)
(***************************************************************************)
THEOREM VectorMastersFirst ==
  ASSUME ArraysAreNotNull
  PROVE  Spec => []MastersFirst
BY MsgvInvariant, MsgvInvImplies, PTL

-----------------------------------------------------------------------------
(***************************************************************************)
(* The network: what segments cost, and what the loop over them does.      *)
(***************************************************************************)

Buffer == DOMAIN Length

\* f is the function that Cost defines, for the first n segments.
CostsUpTo(s, n, f) ==
  f[0] = 0 /\ \A j \in 1 .. n : f[j] = f[j - 1] + Length[s[j]]

LEMMA LengthIsNat ==
  ASSUME NEW x \in Buffer
  PROVE  Length[x] \in Nat
BY NetworkConstants DEF Buffer

LEMMA CostsExist ==
  ASSUME NEW s \in Seq(Buffer)
  PROVE  \E f \in [0 .. Len(s) -> Nat] : CostsUpTo(s, Len(s), f)
<1> DEFINE N == {n \in Nat : n <= Len(s) => \E f \in [0 .. n -> Nat] : CostsUpTo(s, n, f)}
<1>1. Len(s) \in Nat /\ \A j \in 1 .. Len(s) : s[j] \in Buffer /\ Length[s[j]] \in Nat
  BY LenProperties, LengthIsNat
<1>2. 0 \in N
  <2> DEFINE f == [j \in 0 .. 0 |-> 0]
  <2>1. f \in [0 .. 0 -> Nat] /\ CostsUpTo(s, 0, f)
    BY DEF CostsUpTo
  <2> QED
    BY <2>1
<1>3. ASSUME NEW n \in N PROVE n + 1 \in N
  <2> SUFFICES ASSUME n + 1 <= Len(s)
               PROVE  \E f \in [0 .. n + 1 -> Nat] : CostsUpTo(s, n + 1, f)
    OBVIOUS
  <2>1. PICK f \in [0 .. n -> Nat] : CostsUpTo(s, n, f)
    BY <1>1
  <2> DEFINE g == [j \in 0 .. n + 1 |-> IF j <= n THEN f[j] ELSE f[n] + Length[s[n + 1]]]
  <2>2. Length[s[n + 1]] \in Nat
    BY <1>1
  <2>3. g \in [0 .. n + 1 -> Nat]
    BY <2>2
  <2>4. CostsUpTo(s, n + 1, g)
    BY <2>1 DEF CostsUpTo
  <2> QED
    BY <2>3, <2>4
<1>4. N = Nat
  <2> HIDE DEF N
  <2>1. N \in SUBSET Nat
    BY DEF N
  <2> QED
    BY <1>2, <1>3, <2>1, Lists!AllNaturals
<1> QED
  BY <1>1, <1>4

LEMMA CostsUnique ==
  ASSUME NEW s \in Seq(Buffer), NEW f, NEW g,
         CostsUpTo(s, Len(s), f), CostsUpTo(s, Len(s), g)
  PROVE  f[Len(s)] = g[Len(s)]
<1> DEFINE N == {n \in Nat : n <= Len(s) => f[n] = g[n]}
<1>1. Len(s) \in Nat
  BY LenProperties
<1>2. 0 \in N
  BY DEF CostsUpTo
<1>3. ASSUME NEW n \in N PROVE n + 1 \in N
  <2> SUFFICES ASSUME n + 1 <= Len(s) PROVE f[n + 1] = g[n + 1]
    OBVIOUS
  <2>1. n + 1 \in 1 .. Len(s) /\ (n + 1) - 1 = n /\ f[n] = g[n]
    BY <1>1
  <2>2. /\ f[n + 1] = f[(n + 1) - 1] + Length[s[n + 1]]
        /\ g[n + 1] = g[(n + 1) - 1] + Length[s[n + 1]]
    BY <2>1 DEF CostsUpTo
  <2> QED
    BY <2>1, <2>2
<1>4. N = Nat
  <2> HIDE DEF N
  <2>1. N \in SUBSET Nat
    BY DEF N
  <2> QED
    BY <1>2, <1>3, <2>1, Lists!AllNaturals
<1> QED
  BY <1>1, <1>4

\* To find the cost it is enough to give a function that adds up.
LEMMA CostIs ==
  ASSUME NEW s \in Seq(Buffer), NEW f, CostsUpTo(s, Len(s), f)
  PROVE  Cost(s) = f[Len(s)]
<1> DEFINE P(h) == h = [j \in 0 .. Len(s) |-> IF j = 0 THEN 0 ELSE h[j - 1] + Length[s[j]]]
           c == CHOOSE h : P(h)
<1>1. Len(s) \in Nat
  BY LenProperties
<1>2. PICK g \in [0 .. Len(s) -> Nat] : CostsUpTo(s, Len(s), g)
  BY CostsExist
<1>3. P(g)
  BY <1>1, <1>2 DEF CostsUpTo
<1>4. P(c)
  BY <1>3
<1>5. Cost(s) = c[Len(s)]
  BY Zenon DEF Cost
<1> HIDE DEF c
<1>6. CostsUpTo(s, Len(s), c)
  BY <1>1, <1>4 DEF CostsUpTo
<1> QED
  BY <1>5, <1>6, CostsUnique

LEMMA CostOfMore ==
  ASSUME NEW s \in Seq(Buffer), NEW x \in Buffer
  PROVE  Cost(s) \in Nat /\ Cost(Append(s, x)) = Cost(s) + Length[x]
<1> DEFINE a == Append(s, x)
<1>1. /\ Len(s) \in Nat /\ a \in Seq(Buffer) /\ Len(a) = Len(s) + 1 /\ a[Len(s) + 1] = x
      /\ \A j \in 1 .. Len(s) : a[j] = s[j]
  BY LenProperties, AppendProperties
<1> HIDE DEF a
<1>2. PICK f \in [0 .. Len(s) -> Nat] : CostsUpTo(s, Len(s), f)
  BY CostsExist
<1> DEFINE g == [j \in 0 .. Len(s) + 1 |-> IF j <= Len(s) THEN f[j] ELSE f[Len(s)] + Length[x]]
<1>3. /\ \A j \in 0 .. Len(s) : g[j] = f[j]
      /\ g[Len(s) + 1] = f[Len(s)] + Length[x]
  BY <1>1
<1> HIDE DEF g
<1>4. ASSUME NEW j \in 1 .. Len(s) + 1 PROVE g[j] = g[j - 1] + Length[a[j]]
  <2>1. CASE j = Len(s) + 1
    BY <1>1, <1>3, <2>1
  <2>2. CASE j # Len(s) + 1
    <3>1. j \in 1 .. Len(s) /\ j - 1 \in 0 .. Len(s) /\ j \in 0 .. Len(s)
      BY <1>1, <2>2
    <3> QED
      BY <1>1, <1>2, <1>3, <3>1 DEF CostsUpTo
  <2> QED
    BY <2>1, <2>2
<1>5. CostsUpTo(a, Len(a), g)
  BY <1>1, <1>2, <1>3, <1>4 DEF CostsUpTo
<1>6. Cost(a) = g[Len(a)] /\ Cost(s) = f[Len(s)]
  BY <1>1, <1>2, <1>5, CostIs
<1>7. f[Len(s)] \in Nat
  BY <1>1, <1>2
<1> QED
  BY <1>1, <1>3, <1>6, <1>7 DEF a

LEMMA CostIsNat ==
  ASSUME NEW s \in Seq(Buffer)
  PROVE  Cost(s) \in Nat
<1>1. PICK f \in [0 .. Len(s) -> Nat] : CostsUpTo(s, Len(s), f)
  BY CostsExist
<1>2. Cost(s) = f[Len(s)] /\ Len(s) \in 0 .. Len(s)
  BY <1>1, CostIs, LenProperties
<1> QED
  BY <1>1, <1>2

LEMMA CostOfNone == Cost(<<>>) = 0
<1> DEFINE s == <<>>
           f == [j \in 0 .. 0 |-> 0]
<1>1. s \in Seq(Buffer) /\ Len(s) = 0
  OBVIOUS
<1>2. CostsUpTo(s, Len(s), f) /\ f[0] = 0
  BY <1>1 DEF CostsUpTo
<1> HIDE DEF s, f
<1>3. Cost(s) = 0
  BY <1>1, <1>2, CostIs
<1> QED
  BY <1>3 DEF s

-----------------------------------------------------------------------------
\* A bucket: what is in it, its last entry, what was bought from it.
Bucket == [tokens : 0 .. TokenMax, last : Buffer \cup {NoPacket}, bought : Seq(Buffer)]

\* c is the bucket b after the first n of the segments s were offered.
OfferedSoFar(b, s, n, c) ==
  /\ c \in Bucket
  /\ Len(b.bought) <= Len(c.bought)
  /\ \A k \in 1 .. Len(b.bought) : c.bought[k] = b.bought[k]
  /\ \A k \in Len(b.bought) + 1 .. Len(c.bought) : \E i \in 1 .. n : c.bought[k] = s[i]
  /\ Once(c.bought)
  /\ c.tokens + Cost(c.bought) = b.tokens + Cost(b.bought)

\* f is the function that OfferAll defines, for the first n segments.
OffersUpTo(b, s, n, f) ==
  f[0] = b /\ \A j \in 1 .. n : f[j] = Offered(f[j - 1], s[j])

LEMMA OffersExist ==
  ASSUME NEW b, NEW s, Len(s) \in Nat
  PROVE  \E f : DOMAIN f = 0 .. Len(s) /\ f = [j \in DOMAIN f |-> f[j]]
                /\ OffersUpTo(b, s, Len(s), f)
<1> DEFINE N == {n \in Nat : \E f : DOMAIN f = 0 .. n /\ f = [j \in DOMAIN f |-> f[j]]
                                    /\ OffersUpTo(b, s, n, f)}
<1>1. 0 \in N
  <2> DEFINE f == [j \in 0 .. 0 |-> b]
  <2>1. DOMAIN f = 0 .. 0 /\ f = [j \in DOMAIN f |-> f[j]] /\ OffersUpTo(b, s, 0, f)
    BY DEF OffersUpTo
  <2> QED
    BY <2>1
<1>2. ASSUME NEW n \in N PROVE n + 1 \in N
  <2>1. PICK f : DOMAIN f = 0 .. n /\ OffersUpTo(b, s, n, f)
    OBVIOUS
  <2> DEFINE step == Offered(f[n], s[n + 1])
             g == [j \in 0 .. n + 1 |-> IF j <= n THEN f[j] ELSE step]
  <2>2. /\ \A j \in 0 .. n : g[j] = f[j]
        /\ g[n + 1] = Offered(f[n], s[n + 1])
        /\ DOMAIN g = 0 .. n + 1 /\ g = [j \in DOMAIN g |-> g[j]]
    OBVIOUS
  <2> HIDE DEF g
  <2>3. ASSUME NEW j \in 1 .. n + 1 PROVE g[j] = Offered(g[j - 1], s[j])
    <3>1. CASE j = n + 1
      <4>1. j - 1 = n /\ n \in 0 .. n
        BY <3>1
      <4> QED
        BY <2>2, <3>1, <4>1
    <3>2. CASE j # n + 1
      <4>1. j \in 1 .. n /\ j \in 0 .. n /\ j - 1 \in 0 .. n
        BY <3>2
      <4>2. f[j] = Offered(f[j - 1], s[j])
        BY <2>1, <4>1 DEF OffersUpTo
      <4> QED
        BY <2>2, <4>1, <4>2
    <3> QED
      BY <3>1, <3>2
  <2>4. g[0] = b
    BY <2>1, <2>2 DEF OffersUpTo
  <2>5. DOMAIN g = 0 .. n + 1 /\ g = [j \in DOMAIN g |-> g[j]] /\ OffersUpTo(b, s, n + 1, g)
    BY <2>2, <2>3, <2>4 DEF OffersUpTo
  <2> QED
    BY <2>5
<1>3. N = Nat
  <2> HIDE DEF N
  <2>1. N \in SUBSET Nat
    BY DEF N
  <2> QED
    BY <1>1, <1>2, <2>1, Lists!AllNaturals
<1> QED
  BY <1>3

LEMMA OfferAllIs ==
  ASSUME NEW b, NEW s, Len(s) \in Nat
  PROVE  \E f : OffersUpTo(b, s, Len(s), f) /\ OfferAll(b, s) = f[Len(s)]
<1> DEFINE P(h) == h = [j \in 0 .. Len(s) |-> IF j = 0 THEN b ELSE Offered(h[j - 1], s[j])]
           c == CHOOSE h : P(h)
<1>1. PICK g : DOMAIN g = 0 .. Len(s) /\ g = [j \in DOMAIN g |-> g[j]]
               /\ OffersUpTo(b, s, Len(s), g)
  BY OffersExist
<1>2. P(g)
  <2>1. ASSUME NEW j \in 0 .. Len(s)
        PROVE  g[j] = IF j = 0 THEN b ELSE Offered(g[j - 1], s[j])
    <3>1. j = 0 \/ j \in 1 .. Len(s)
      OBVIOUS
    <3> QED
      BY <1>1, <3>1 DEF OffersUpTo
  <2> QED
    BY <1>1, <2>1
<1>3. P(c)
  BY <1>2
<1>4. OfferAll(b, s) = c[Len(s)]
  BY Zenon DEF OfferAll
<1> HIDE DEF c
<1>5. OffersUpTo(b, s, Len(s), c)
  <2>1. c[0] = b
    BY <1>3
  <2>2. ASSUME NEW j \in 1 .. Len(s) PROVE c[j] = Offered(c[j - 1], s[j])
    <3>1. j \in 0 .. Len(s) /\ j # 0
      OBVIOUS
    <3> QED
      BY <1>3, <3>1
  <2> QED
    BY <2>1, <2>2 DEF OffersUpTo
<1> QED
  BY <1>4, <1>5

LEMMA SmallRemains ==
  ASSUME NEW m \in Nat, NEW x \in 0 .. m
  PROVE  x % (m + 1) = x
OBVIOUS

LEMMA RollsOver ==
  ASSUME NEW m \in Nat, NEW x \in 0 .. m, NEW n \in 1 .. m, x + n > m
  PROVE  (x + n) % (m + 1) = x + n - (m + 1)
<1>1. x + n = (m + 1) + (x + n - (m + 1)) /\ x + n - (m + 1) \in 0 .. m
  OBVIOUS
<1> QED
  BY <1>1

\* The bucket c with t tokens, after x was bought.
Paid(T, L, S, c, t, x, e) ==
  e \in [tokens : T, last : L, bought : S] /\ e.tokens = t /\ e.bought = Append(c.bought, x)

LEMMA PaidProps ==
  ASSUME NEW T, NEW L, NEW S, NEW c \in [tokens : T, last : L, bought : S], NEW t \in T,
         NEW x, Append(c.bought, x) \in S
  PROVE  Paid(T, L, S, c, t, x, [c EXCEPT !.tokens = t, !.bought = Append(@, x)])
<1>1. PICK y : y = Append(c.bought, x)
  OBVIOUS
<1>2. PICK e : e = [c EXCEPT !.tokens = t, !.bought = y]
  OBVIOUS
<1>3. e \in [tokens : T, last : L, bought : S] /\ e.tokens = t /\ e.bought = y
  BY <1>1, <1>2
<1>4. [c EXCEPT !.tokens = t, !.bought = Append(@, x)] = e
  BY <1>1, <1>2
<1> QED
  BY <1>1, <1>3, <1>4 DEF Paid

\* One segment is offered.
LEMMA OneOffered ==
  ASSUME NEW b, NEW s \in Seq(Buffer), NEW n \in 0 .. Len(s) - 1, NEW c,
         OfferedSoFar(b, s, n, c), b \in Bucket, Once(s),
         \A k \in 1 .. Len(b.bought), i \in 1 .. Len(s) : b.bought[k] # s[i]
  PROVE  OfferedSoFar(b, s, n + 1, Offered(c, s[n + 1]))
<1> DEFINE x == s[n + 1]
           a == Append(c.bought, x)
<1>1. /\ Len(s) \in Nat /\ n \in Nat /\ n + 1 \in 1 .. Len(s) /\ n \notin 1 .. n - 1
      /\ x \in Buffer /\ Length[x] \in Nat
      /\ DOMAIN s = 1 .. Len(s)
  BY LenProperties, LengthIsNat
<1>2. /\ b.bought \in Seq(Buffer) /\ c.bought \in Seq(Buffer) /\ Len(b.bought) \in Nat
      /\ Len(c.bought) \in Nat
      /\ c.tokens \in 0 .. TokenMax /\ c.last \in Buffer \cup {NoPacket}
      /\ TokenMax \in Nat
  BY LenProperties, NetworkConstants DEF OfferedSoFar, Bucket
<1>3. /\ a \in Seq(Buffer) /\ Len(a) = Len(c.bought) + 1 /\ a[Len(c.bought) + 1] = x
      /\ \A j \in 1 .. Len(c.bought) : a[j] = c.bought[j]
  BY <1>1, <1>2, AppendProperties
<1>4. Cost(c.bought) \in Nat /\ Cost(a) = Cost(c.bought) + Length[x]
  BY <1>1, <1>2, CostOfMore
<1>5. \A k \in 1 .. Len(c.bought) : c.bought[k] # x
  <2> SUFFICES ASSUME NEW k \in 1 .. Len(c.bought), c.bought[k] = x PROVE FALSE
    OBVIOUS
  <2>1. CASE k \in 1 .. Len(b.bought)
    BY <1>1, <2>1 DEF OfferedSoFar
  <2>2. CASE k \in Len(b.bought) + 1 .. Len(c.bought)
    <3>1. PICK i \in 1 .. n : c.bought[k] = s[i]
      BY <2>2 DEF OfferedSoFar
    <3>2. i \in 1 .. Len(s) /\ i # n + 1
      BY <1>1
    <3> QED
      BY <1>1, <3>1, <3>2 DEF Once
  <2> QED
    BY <1>2, <2>1, <2>2
<1>6. DOMAIN a = 1 .. Len(c.bought) + 1 /\ DOMAIN c.bought = 1 .. Len(c.bought)
  BY <1>2, <1>3, LenProperties
<1> HIDE DEF a, x
<1>7. CASE CanAfford(c.tokens, x)
  <2> DEFINE t == BuyPacket(c.tokens, x)
             e == [c EXCEPT !.tokens = t, !.bought = Append(@, x)]
  <2>1. c.tokens - Length[x] \in 0 .. TokenMax
    BY <1>1, <1>2, <1>7 DEF CanAfford
  <2>2. t = c.tokens - Length[x] /\ t \in 0 .. TokenMax
    <3>1. t = (c.tokens - Length[x]) % (TokenMax + 1)
      BY DEF BuyPacket
    <3> QED
      BY <1>2, <2>1, <3>1, SmallRemains
  <2> HIDE DEF t
  <2>3. c \in [tokens : 0 .. TokenMax, last : Buffer \cup {NoPacket}, bought : Seq(Buffer)]
    BY DEF OfferedSoFar, Bucket
  <2>4. e \in Bucket /\ e.tokens = t /\ e.bought = a
    <3>1. Append(c.bought, x) \in Seq(Buffer)
      BY <1>3 DEF a
    <3>2. Paid(0 .. TokenMax, Buffer \cup {NoPacket}, Seq(Buffer), c, t, x, e)
      BY <2>2, <2>3, <3>1, PaidProps
    <3> QED
      BY <3>2 DEF Paid, Bucket, a
  <2> HIDE DEF e
  <2>5. Once(a)
    <3>1. \A i, j \in 1 .. Len(c.bought) : c.bought[i] = c.bought[j] => i = j
      BY <1>6 DEF Once, OfferedSoFar
    <3>2. ASSUME NEW i \in 1 .. Len(c.bought) + 1, NEW j \in 1 .. Len(c.bought) + 1, a[i] = a[j]
          PROVE  i = j
      <4>1. i = Len(c.bought) + 1 \/ i \in 1 .. Len(c.bought)
        BY <1>2
      <4>2. j = Len(c.bought) + 1 \/ j \in 1 .. Len(c.bought)
        BY <1>2
      <4> QED
        BY <1>3, <1>5, <3>1, <3>2, <4>1, <4>2
    <3> QED
      BY <1>6, <3>2 DEF Once
  <2>6. ASSUME NEW k \in Len(b.bought) + 1 .. Len(a)
        PROVE  \E i \in 1 .. n + 1 : a[k] = s[i]
    <3>1. CASE k = Len(c.bought) + 1
      BY <1>1, <1>3, <3>1 DEF x
    <3>2. CASE k # Len(c.bought) + 1
      <4>1. k \in Len(b.bought) + 1 .. Len(c.bought) /\ k \in 1 .. Len(c.bought)
        BY <1>2, <1>3, <3>2
      <4>2. PICK i \in 1 .. n : c.bought[k] = s[i]
        BY <4>1 DEF OfferedSoFar
      <4>3. i \in 1 .. n + 1
        BY <1>1
      <4> QED
        BY <1>3, <4>1, <4>2, <4>3
    <3> QED
      BY <3>1, <3>2
  <2>7. Len(b.bought) <= Len(a) /\ \A k \in 1 .. Len(b.bought) : a[k] = b.bought[k]
    <3>1. Len(b.bought) <= Len(c.bought) /\ \A k \in 1 .. Len(b.bought) : c.bought[k] = b.bought[k]
      BY <1>2 DEF OfferedSoFar
    <3>2. \A k \in 1 .. Len(b.bought) : k \in 1 .. Len(c.bought)
      BY <1>3, <3>1
    <3> QED
      BY <1>3, <3>1, <3>2
  <2>8. b.tokens \in Nat /\ Cost(b.bought) \in Nat
    BY <1>1, <1>2, CostOfMore DEF Bucket
  <2>9. t + Cost(a) = b.tokens + Cost(b.bought)
    BY <1>1, <1>2, <1>4, <2>2, <2>8 DEF OfferedSoFar
  <2>10. OfferedSoFar(b, s, n + 1, e)
    BY <2>4, <2>5, <2>6, <2>7, <2>9 DEF OfferedSoFar
  <2>11. Offered(c, x) = e
    BY <1>7 DEF Offered, e, t
  <2> QED
    BY <2>10, <2>11 DEF x
<1>8. CASE ~CanAfford(c.tokens, x)
  <2> DEFINE e == [c EXCEPT !.last = x]
  <2>1. e \in Bucket /\ e.tokens = c.tokens /\ e.bought = c.bought
    BY <1>1 DEF OfferedSoFar, Bucket
  <2>2. Offered(c, x) = e
    BY <1>8 DEF Offered
  <2> HIDE DEF e
  <2>3. ASSUME NEW k \in Len(b.bought) + 1 .. Len(c.bought)
        PROVE  \E i \in 1 .. n + 1 : c.bought[k] = s[i]
    <3>1. PICK i \in 1 .. n : c.bought[k] = s[i]
      BY DEF OfferedSoFar
    <3>2. i \in 1 .. n + 1
      BY <1>1
    <3> QED
      BY <3>1, <3>2
  <2>4. OfferedSoFar(b, s, n + 1, e)
    BY <2>1, <2>3 DEF OfferedSoFar
  <2> QED
    BY <2>2, <2>4 DEF x
<1> QED
  BY <1>7, <1>8

\* All segments of a packet are offered.
LEMMA AllOffered ==
  ASSUME NEW b \in Bucket, NEW s \in Seq(Buffer), Once(s), Once(b.bought),
         \A k \in 1 .. Len(b.bought), i \in 1 .. Len(s) : b.bought[k] # s[i]
  PROVE  OfferedSoFar(b, s, Len(s), OfferAll(b, s))
<1>1. Len(s) \in Nat /\ b.bought \in Seq(Buffer) /\ Len(b.bought) \in Nat
  BY LenProperties DEF Bucket
<1>2. PICK f : OffersUpTo(b, s, Len(s), f) /\ OfferAll(b, s) = f[Len(s)]
  BY <1>1, OfferAllIs
<1> DEFINE N == {n \in Nat : n <= Len(s) => OfferedSoFar(b, s, n, f[n])}
<1>3. 0 \in N
  <2>1. f[0] = b
    BY <1>2 DEF OffersUpTo
  <2>2. OfferedSoFar(b, s, 0, b)
    BY <1>1 DEF OfferedSoFar
  <2> QED
    BY <2>1, <2>2
<1>4. ASSUME NEW n \in N PROVE n + 1 \in N
  <2> SUFFICES ASSUME n + 1 <= Len(s) PROVE OfferedSoFar(b, s, n + 1, f[n + 1])
    OBVIOUS
  <2>1. n \in 0 .. Len(s) - 1 /\ n + 1 \in 1 .. Len(s) /\ (n + 1) - 1 = n /\ n <= Len(s)
    BY <1>1
  <2>2. OfferedSoFar(b, s, n, f[n])
    BY <2>1
  <2>3. f[n + 1] = Offered(f[n], s[n + 1])
    BY <1>2, <2>1 DEF OffersUpTo
  <2>4. OfferedSoFar(b, s, n + 1, Offered(f[n], s[n + 1]))
    BY <2>1, <2>2, OneOffered
  <2> QED
    BY <2>3, <2>4
<1>5. N = Nat
  <2> HIDE DEF N
  <2>1. N \in SUBSET Nat
    BY DEF N
  <2> QED
    BY <1>3, <1>4, <2>1, Lists!AllNaturals
<1> QED
  BY <1>1, <1>2, <1>5

-----------------------------------------------------------------------------
\* The packets of the queue q that were handled.
Handled(q) == Len(came[q]) - Len(coreQueue[q])

NetEntry == [packet : Packet, sends : BOOLEAN]

NetShape ==
  /\ netdevs \in Seq(NetDev)
  /\ coreQueue \in [NetQueue -> Seq(NetEntry)]
  /\ proc \in [NetQueue -> {"off", "look", "waits", "found"}]
  /\ tokens \in [NetDev -> 0 .. TokenMax]
  /\ lastEntry \in [NetDev -> Buffer \cup {NoPacket}]
  /\ cashed \in [NetDev -> Nat]
  /\ came \in [NetQueue -> Seq(Packet)]
  /\ bought \in [NetDev -> Seq(Buffer)]

\* A core queue is the end of what came into it.
QueuesAreEnds ==
  /\ \A q \in NetQueue : proc[q] = "found" => coreQueue[q] # <<>>
  /\ \A q \in NetQueue : Len(coreQueue[q]) <= Len(came[q])
  /\ \A q \in NetQueue : \A i \in 1 .. Len(coreQueue[q]) :
       coreQueue[q][i].packet = came[q][Handled(q) + i]

CameOnce ==
  \A q, r \in NetQueue : \A i \in 1 .. Len(came[q]), j \in 1 .. Len(came[r]) :
    came[q][i] = came[r][j] => q = r /\ i = j

NoneTooLarge == \A q \in NetQueue : \A i \in 1 .. Handled(q) : ~NeedsGso(came[q][i])

\* What was bought is of packets that were handled.
OfHandled(s) ==
  \E q \in NetQueue : \E n \in 1 .. Handled(q) : \E i \in 1 .. Len(Segments[came[q][n]]) :
    s = Segments[came[q][n]][i]

AllOfHandled == \A d \in NetDev : \A k \in 1 .. Len(bought[d]) : OfHandled(bought[d][k])

BoughtOnce == \A d \in NetDev : Once(bought[d])

BoughtInOrder ==
  \A q \in NetQueue, d \in NetDev :
    \A i, j \in 1 .. Len(bought[d]), m, n \in 1 .. Len(came[q]) :
      i < j /\ bought[d][i] = came[q][m] /\ bought[d][j] = came[q][n] => m < n

AllPaid == \A d \in NetDev : tokens[d] + Cost(bought[d]) = cashed[d]

NamesDiffer == \A i, j \in 1 .. Len(netdevs) : NetName[netdevs[i]] = NetName[netdevs[j]] => i = j

NetInv ==
  /\ NetShape
  /\ QueuesAreEnds
  /\ CameOnce
  /\ NoneTooLarge
  /\ AllOfHandled
  /\ BoughtOnce
  /\ BoughtInOrder
  /\ AllPaid
  /\ NamesDiffer

LEMMA SegmentFacts ==
  ASSUME NEW p \in Packet
  PROVE  /\ Segments[p] \in Seq(Buffer) /\ Once(Segments[p])
         /\ DOMAIN Segments[p] = 1 .. Len(Segments[p]) /\ Len(Segments[p]) \in Nat
         /\ 1 \in 1 .. Len(Segments[p]) /\ Segments[p][1] = p
         /\ PacketDev[p] \in NetDev
         /\ \A r \in Packet, i \in 1 .. Len(Segments[p]) : \A j \in 1 .. Len(Segments[r]) :
              Segments[p][i] = Segments[r][j] => p = r
<1>1. \A r \in Packet : Segments[r] \in Seq(Buffer) /\ Segments[r] # <<>> /\ Segments[r][1] = r
  BY NetworkConstants DEF Buffer
<1>2. \A r \in Packet : DOMAIN Segments[r] = 1 .. Len(Segments[r]) /\ Len(Segments[r]) \in Nat
  BY <1>1, LenProperties
<1>3. Len(Segments[p]) # 0
  BY <1>1, EmptySeq
<1>4. 1 \in 1 .. Len(Segments[p])
  BY <1>2, <1>3
<1>5. PacketDev[p] \in NetDev
  BY NetworkConstants
<1>6. \A r \in Packet : \A i \in DOMAIN Segments[p], j \in DOMAIN Segments[r] :
        Segments[p][i] = Segments[r][j] => p = r /\ i = j
  BY NetworkConstants
<1>7. Once(Segments[p])
  BY <1>6 DEF Once
<1> QED
  BY <1>1, <1>2, <1>4, <1>5, <1>6, <1>7

LEMMA NetFields ==
  ASSUME NetShape
  PROVE  /\ \A q \in NetQueue :
              /\ came[q] \in Seq(Packet) /\ Len(came[q]) \in Nat
              /\ DOMAIN came[q] = 1 .. Len(came[q])
              /\ \A i \in 1 .. Len(came[q]) : came[q][i] \in Packet
              /\ coreQueue[q] \in Seq(NetEntry) /\ Len(coreQueue[q]) \in Nat
         /\ \A d \in NetDev :
              /\ bought[d] \in Seq(Buffer) /\ Len(bought[d]) \in Nat
              /\ DOMAIN bought[d] = 1 .. Len(bought[d])
BY LenProperties DEF NetShape

\* A packet that was bought was handled.
LEMMA BoughtIsHandled ==
  ASSUME NetInv, NEW d \in NetDev, NEW k \in 1 .. Len(bought[d]),
         NEW q \in NetQueue, NEW n \in 1 .. Len(came[q]), bought[d][k] = came[q][n]
  PROVE  n \in 1 .. Handled(q)
<1> PICK r \in NetQueue : \E m \in 1 .. Handled(r) : \E i \in 1 .. Len(Segments[came[r][m]]) :
      bought[d][k] = Segments[came[r][m]][i]
  BY DEF NetInv, AllOfHandled, OfHandled
<1>1. PICK m \in 1 .. Handled(r) : \E i \in 1 .. Len(Segments[came[r][m]]) :
        bought[d][k] = Segments[came[r][m]][i]
  OBVIOUS
<1>2. Len(came[r]) \in Nat /\ Len(coreQueue[r]) \in Nat
  BY NetFields DEF NetInv
<1>3. m \in 1 .. Len(came[r])
  BY <1>2 DEF Handled
<1>4. came[q][n] \in Packet /\ came[r][m] \in Packet
  BY <1>3, NetFields DEF NetInv
<1>5. PICK i \in 1 .. Len(Segments[came[r][m]]) : bought[d][k] = Segments[came[r][m]][i]
  BY <1>1
<1>6. Segments[came[q][n]][1] = Segments[came[r][m]][i] /\ 1 \in 1 .. Len(Segments[came[q][n]])
  BY <1>4, <1>5, SegmentFacts
<1>7. came[q][n] = came[r][m]
  BY <1>4, <1>6, SegmentFacts
<1>8. q = r /\ n = m
  BY <1>3, <1>7 DEF NetInv, CameOnce
<1> QED
  BY <1>8

LEMMA NetInvImplies ==
  ASSUME NetInv
  PROVE  NetTypeOK /\ PaidInOrder
<1>1. NetTypeOK
  BY DEF NetTypeOK, NetInv, NetShape
<1>2. \A d \in NetDev : IsInjective(bought[d])
  BY DEF NetInv, BoughtOnce, Once, IsInjective
<1>3. \A q \in NetQueue, d \in NetDev : \A i, j \in DOMAIN bought[d], m, n \in DOMAIN came[q] :
        i < j /\ bought[d][i] = came[q][m] /\ bought[d][j] = came[q][n] => m < n
  <2> SUFFICES ASSUME NEW q \in NetQueue, NEW d \in NetDev,
                      NEW i \in DOMAIN bought[d], NEW j \in DOMAIN bought[d],
                      NEW m \in DOMAIN came[q], NEW n \in DOMAIN came[q],
                      i < j, bought[d][i] = came[q][m], bought[d][j] = came[q][n]
               PROVE  m < n
    OBVIOUS
  <2>1. /\ i \in 1 .. Len(bought[d]) /\ j \in 1 .. Len(bought[d])
        /\ m \in 1 .. Len(came[q]) /\ n \in 1 .. Len(came[q])
    BY NetFields DEF NetInv
  <2> QED
    BY <2>1 DEF NetInv, BoughtInOrder
<1>4. ASSUME NEW q \in NetQueue, NEW i \in DOMAIN came[q], NEW j \in DOMAIN came[q],
             i < j, NeedsGso(came[q][i]), NEW d \in NetDev, Contains(bought[d], came[q][j])
      PROVE  FALSE
  <2>1. PICK k \in 1 .. Len(bought[d]) : bought[d][k] = came[q][j]
    BY <1>4 DEF Contains
  <2>2. i \in 1 .. Len(came[q]) /\ j \in 1 .. Len(came[q])
    BY NetFields DEF NetInv
  <2>3. j \in 1 .. Handled(q)
    BY <2>1, <2>2, BoughtIsHandled
  <2>4. Len(came[q]) \in Nat /\ Len(coreQueue[q]) \in Nat
    BY NetFields DEF NetInv
  <2>5. i \in 1 .. Handled(q)
    <3>1. Handled(q) \in Int
      BY <2>4 DEF Handled
    <3>2. i \in Nat \ {0} /\ i < j /\ j <= Handled(q)
      BY <1>4, <2>2, <2>3, <3>1
    <3> QED
      BY <2>3, <3>1, <3>2
  <2> QED
    BY <1>4, <2>5 DEF NetInv, NoneTooLarge
<1>5. IsInjective([i \in DOMAIN netdevs |-> NetName[netdevs[i]]])
  <2>1. DOMAIN netdevs = 1 .. Len(netdevs)
    BY LenProperties DEF NetInv, NetShape
  <2> QED
    BY <2>1 DEF NetInv, NamesDiffer, IsInjective
<1> QED
  BY <1>1, <1>2, <1>3, <1>4, <1>5 DEF NetInv, AllPaid, PaidInOrder

-----------------------------------------------------------------------------
\* A step that sells nothing.
LEMMA NothingSold ==
  ASSUME NetInv, UNCHANGED <<coreQueue, came, bought>>
  PROVE  CameOnce' /\ NoneTooLarge' /\ AllOfHandled' /\ BoughtOnce' /\ BoughtInOrder'
<1>1. CameOnce'
  BY DEF NetInv, CameOnce
<1>2. \A q \in NetQueue : Handled(q)' = Handled(q)
  BY DEF Handled
<1>3. NoneTooLarge'
  BY <1>2 DEF NetInv, NoneTooLarge
<1>4. \A s : OfHandled(s) => OfHandled(s)'
  BY <1>2 DEF OfHandled
<1>5. AllOfHandled'
  BY <1>4 DEF NetInv, AllOfHandled
<1>6. BoughtOnce'
  BY DEF NetInv, BoughtOnce
<1>7. BoughtInOrder'
  BY DEF NetInv, BoughtInOrder
<1> QED
  BY <1>1, <1>3, <1>5, <1>6, <1>7

\* Devices come onto the list.
LEMMA DeviceInv ==
  ASSUME NetInv, NEW d \in NetDev, NetifInit(d) \/ NetifInitDev(d)
  PROVE  NetInv'
<1>1. netdevs \in Seq(NetDev) /\ Len(netdevs) \in Nat /\ DOMAIN netdevs = 1 .. Len(netdevs)
  BY LenProperties DEF NetInv, NetShape
<1>2. UNCHANGED <<coreQueue, tokens, lastEntry, cashed, came, bought>>
  BY DEF NetifInit, NetifInitDev
<1>3. /\ proc' \in [NetQueue -> {"off", "look", "waits", "found"}]
      /\ \A q \in NetQueue : proc'[q] = "found" => proc[q] = "found"
  BY DEF NetifInit, NetifInitDev, NetInv, NetShape
<1>4. netdevs' \in Seq(NetDev) /\ NamesDiffer'
  <2>1. CASE NetifInit(d)
    <3>1. netdevs' = <<d>>
      BY <2>1 DEF NetifInit
    <3> QED
      BY <3>1 DEF NamesDiffer
  <2>2. CASE NetifInitDev(d)
    <3>1. netdevs' = Append(netdevs, d)
      BY <2>2 DEF NetifInitDev
    <3>2. /\ netdevs' \in Seq(NetDev) /\ Len(netdevs') = Len(netdevs) + 1
          /\ netdevs'[Len(netdevs) + 1] = d
          /\ \A i \in 1 .. Len(netdevs) : netdevs'[i] = netdevs[i]
      BY <1>1, <3>1, AppendProperties
    <3>3. \A i \in 1 .. Len(netdevs) : NetName[netdevs[i]] # NetName[d]
      BY <1>1, <2>2 DEF NetifInitDev
    <3>4. ASSUME NEW i \in 1 .. Len(netdevs) + 1, NEW j \in 1 .. Len(netdevs) + 1,
                 NetName[netdevs'[i]] = NetName[netdevs'[j]]
          PROVE  i = j
      <4>1. i = Len(netdevs) + 1 \/ i \in 1 .. Len(netdevs)
        BY <1>1
      <4>2. j = Len(netdevs) + 1 \/ j \in 1 .. Len(netdevs)
        BY <1>1
      <4> QED
        BY <3>2, <3>3, <3>4, <4>1, <4>2 DEF NetInv, NamesDiffer
    <3> QED
      BY <3>2, <3>4 DEF NamesDiffer
  <2> QED
    BY <2>1, <2>2
<1>5. NetShape'
  BY <1>2, <1>3, <1>4 DEF NetInv, NetShape
<1>6. QueuesAreEnds'
  BY <1>2, <1>3 DEF NetInv, QueuesAreEnds, Handled
<1>7. AllPaid'
  BY <1>2 DEF NetInv, AllPaid
<1> QED
  BY <1>2, <1>4, <1>5, <1>6, <1>7, NothingSold DEF NetInv

\* A step of a thread that handles nothing.
LEMMA IdleInv ==
  ASSUME NetInv, NEW q \in NetQueue, NEW x \in {"look", "waits", "found"},
         x = "found" => coreQueue[q] # <<>>,
         proc' = [proc EXCEPT ![q] = x],
         UNCHANGED <<netdevs, coreQueue, tokens, lastEntry, cashed, came, bought>>
  PROVE  NetInv'
<1>1. /\ proc' \in [NetQueue -> {"off", "look", "waits", "found"}]
      /\ \A r \in NetQueue : proc'[r] = "found" => coreQueue[r] # <<>>
  BY DEF NetInv, NetShape, QueuesAreEnds
<1>2. NetShape'
  BY <1>1 DEF NetInv, NetShape
<1>3. QueuesAreEnds'
  BY <1>1 DEF NetInv, QueuesAreEnds, Handled
<1>4. AllPaid' /\ NamesDiffer'
  BY DEF NetInv, AllPaid, NamesDiffer
<1> QED
  BY <1>2, <1>3, <1>4, NothingSold DEF NetInv

\* Tokens that would roll over are as many as there may be.
LEMMA CashInv ==
  ASSUME NetInv, NEW d \in NetDev, NEW n \in Cashes[d], CashTokens(d, n)
  PROVE  NetInv'
<1> DEFINE new == IF (tokens[d] + n) % (TokenMax + 1) < tokens[d] THEN TokenMax ELSE tokens[d] + n
<1>1. /\ tokens[d] \in 0 .. TokenMax /\ n \in 1 .. TokenMax /\ TokenMax \in Nat
      /\ cashed[d] \in Nat
  BY NetworkConstants DEF NetInv, NetShape
<1>2. new \in tokens[d] .. TokenMax
  <2>1. CASE tokens[d] + n <= TokenMax
    <3>1. tokens[d] + n \in 0 .. TokenMax
      BY <1>1, <2>1
    <3>2. (tokens[d] + n) % (TokenMax + 1) = tokens[d] + n
      BY <1>1, <3>1, SmallRemains
    <3> QED
      BY <1>1, <2>1, <3>2
  <2>2. CASE tokens[d] + n > TokenMax
    <3>1. (tokens[d] + n) % (TokenMax + 1) = tokens[d] + n - (TokenMax + 1)
      BY <1>1, <2>2, RollsOver
    <3> QED
      BY <1>1, <2>2, <3>1
  <2> QED
    BY <1>1, <2>1, <2>2
<1>3. /\ tokens' = [tokens EXCEPT ![d] = new]
      /\ cashed' = [cashed EXCEPT ![d] = @ + new - tokens[d]]
      /\ UNCHANGED <<netdevs, coreQueue, proc, lastEntry, came, bought>>
  BY DEF CashTokens
<1> HIDE DEF new
<1>4. cashed[d] + new - tokens[d] \in Nat /\ new \in 0 .. TokenMax
  BY <1>1, <1>2
<1>5. NetShape'
  BY <1>3, <1>4 DEF NetInv, NetShape
<1>6. AllPaid'
  <2> SUFFICES ASSUME NEW e \in NetDev
               PROVE  tokens'[e] + Cost(bought[e]) = cashed'[e]
    BY <1>3 DEF AllPaid
  <2>1. tokens[e] + Cost(bought[e]) = cashed[e]
    BY DEF NetInv, AllPaid
  <2>2. CASE e = d
    <3>1. tokens'[e] = new /\ cashed'[e] = cashed[d] + new - tokens[d]
      BY <1>3, <2>2 DEF NetInv, NetShape
    <3>2. Cost(bought[e]) \in Int
      <4>1. bought[e] \in Seq(Buffer)
        BY DEF NetInv, NetShape
      <4> QED
        BY <4>1, CostIsNat
    <3> QED
      BY <1>1, <1>4, <2>1, <2>2, <3>1, <3>2
  <2>3. CASE e # d
    BY <1>3, <2>1, <2>3 DEF NetInv, NetShape
  <2> QED
    BY <2>2, <2>3
<1>7. QueuesAreEnds'
  BY <1>3 DEF NetInv, QueuesAreEnds, Handled
<1>8. NamesDiffer'
  BY <1>3 DEF NetInv, NamesDiffer
<1> QED
  BY <1>3, <1>5, <1>6, <1>7, <1>8, NothingSold DEF NetInv

LEMMA Difference ==
  ASSUME NEW a \in Nat, NEW b \in Nat
  PROVE  /\ a - b \in Int /\ 1 .. a - b \subseteq 1 .. a
         /\ (a + 1) - (b + 1) = a - b /\ a - b + (b + 1) = a + 1
         /\ b <= a => \A i \in 1 .. b : a - b + i \in 1 .. a
OBVIOUS

\* A packet comes.
LEMMA EnqueueInv ==
  ASSUME NetInv, NEW q \in NetQueue, NEW p \in Packet, NEW sends \in BOOLEAN, Enqueue(q, p, sends)
  PROVE  NetInv'
<1> DEFINE e == [packet |-> p, sends |-> sends]
           n == Len(came[q])
<1>1. e \in NetEntry /\ e.packet = p
  BY DEF NetEntry
<1> HIDE DEF e
<1>2. /\ coreQueue' = [coreQueue EXCEPT ![q] = Append(@, e)]
      /\ came' = [came EXCEPT ![q] = Append(@, p)]
      /\ UNCHANGED <<netdevs, proc, tokens, lastEntry, cashed, bought>>
  BY DEF Enqueue, e
<1>3. \A r \in NetQueue : \A i \in 1 .. Len(came[r]) : came[r][i] # p
  BY DEF Enqueue, Contains
<1>4. \A r \in NetQueue : /\ came[r] \in Seq(Packet) /\ Len(came[r]) \in Nat
                          /\ coreQueue[r] \in Seq(NetEntry) /\ Len(coreQueue[r]) \in Nat
  BY NetFields DEF NetInv
<1>5. \A r \in NetQueue : r # q => came'[r] = came[r] /\ coreQueue'[r] = coreQueue[r]
  BY <1>2 DEF NetInv, NetShape
<1>6. /\ came'[q] = Append(came[q], p) /\ coreQueue'[q] = Append(coreQueue[q], e)
  BY <1>2 DEF NetInv, NetShape
<1>7. /\ came'[q] \in Seq(Packet) /\ Len(came'[q]) = n + 1 /\ came'[q][n + 1] = p
      /\ \A i \in 1 .. n : came'[q][i] = came[q][i]
  BY <1>4, <1>6, AppendProperties
<1>8. /\ coreQueue'[q] \in Seq(NetEntry) /\ Len(coreQueue'[q]) = Len(coreQueue[q]) + 1
      /\ coreQueue'[q][Len(coreQueue[q]) + 1] = e /\ coreQueue'[q] # <<>>
      /\ \A i \in 1 .. Len(coreQueue[q]) : coreQueue'[q][i] = coreQueue[q][i]
  BY <1>1, <1>4, <1>6, AppendProperties
<1>9. \A r \in NetQueue : \A i \in 1 .. Len(came[r]) :
        i \in 1 .. Len(came'[r]) /\ came'[r][i] = came[r][i]
  BY <1>4, <1>5, <1>7
<1>10. \A r \in NetQueue : Handled(r)' = Handled(r)
  <2> SUFFICES ASSUME NEW r \in NetQueue PROVE Handled(r)' = Handled(r)
    OBVIOUS
  <2>1. Len(came[r]) \in Nat /\ Len(coreQueue[r]) \in Nat
    BY <1>4
  <2>2. \/ Len(came'[r]) = Len(came[r]) /\ Len(coreQueue'[r]) = Len(coreQueue[r])
        \/ Len(came'[r]) = Len(came[r]) + 1 /\ Len(coreQueue'[r]) = Len(coreQueue[r]) + 1
    BY <1>5, <1>7, <1>8
  <2>3. (Len(came[r]) + 1) - (Len(coreQueue[r]) + 1) = Len(came[r]) - Len(coreQueue[r])
    BY <2>1, Difference
  <2>4. Len(came'[r]) - Len(coreQueue'[r]) = Len(came[r]) - Len(coreQueue[r])
    BY <2>2, <2>3
  <2> QED
    BY <2>4 DEF Handled
<1>11. \A r \in NetQueue : Handled(r) \in Int /\ Handled(r) = Len(came[r]) - Len(coreQueue[r])
                          /\ 1 .. Handled(r) \subseteq 1 .. Len(came[r])
  <2> SUFFICES ASSUME NEW r \in NetQueue
               PROVE  Handled(r) \in Int /\ Handled(r) = Len(came[r]) - Len(coreQueue[r])
                      /\ 1 .. Handled(r) \subseteq 1 .. Len(came[r])
    OBVIOUS
  <2>1. Len(came[r]) \in Nat /\ Len(coreQueue[r]) \in Nat
    BY <1>4
  <2> QED
    BY <2>1, Difference DEF Handled
<1>12. NetShape'
  <2>1. coreQueue' \in [NetQueue -> Seq(NetEntry)]
    BY <1>2, <1>6, <1>8 DEF NetInv, NetShape
  <2>2. came' \in [NetQueue -> Seq(Packet)]
    BY <1>2, <1>6, <1>7 DEF NetInv, NetShape
  <2> QED
    BY <1>2, <2>1, <2>2 DEF NetInv, NetShape
<1>13. QueuesAreEnds'
  <2>1. ASSUME NEW r \in NetQueue, proc'[r] = "found" PROVE coreQueue'[r] # <<>>
    BY <1>2, <1>5, <1>8, <2>1 DEF NetInv, QueuesAreEnds
  <2>2. ASSUME NEW r \in NetQueue PROVE Len(coreQueue'[r]) <= Len(came'[r])
    <3>1. Len(coreQueue[r]) <= Len(came[r])
      BY DEF NetInv, QueuesAreEnds
    <3>2. Len(came[r]) \in Nat /\ Len(coreQueue[r]) \in Nat
      BY <1>4
    <3>3. \/ Len(came'[r]) = Len(came[r]) /\ Len(coreQueue'[r]) = Len(coreQueue[r])
          \/ Len(came'[r]) = Len(came[r]) + 1 /\ Len(coreQueue'[r]) = Len(coreQueue[r]) + 1
      BY <1>5, <1>7, <1>8
    <3> QED
      BY <3>1, <3>2, <3>3
  <2>3. ASSUME NEW r \in NetQueue, NEW i \in 1 .. Len(coreQueue'[r])
        PROVE  coreQueue'[r][i].packet = came'[r][Handled(r)' + i]
    <3>1. Len(coreQueue[r]) <= Len(came[r]) /\ Handled(r) \in Nat
      BY <1>4 DEF NetInv, QueuesAreEnds, Handled
    <3>2. CASE i \in 1 .. Len(coreQueue[r])
      <4>1. coreQueue'[r][i] = coreQueue[r][i]
        BY <1>5, <1>8, <3>2
      <4>2. coreQueue[r][i].packet = came[r][Handled(r) + i]
        BY <3>2 DEF NetInv, QueuesAreEnds
      <4>3. Handled(r) + i \in 1 .. Len(came[r])
        <5>1. Len(came[r]) \in Nat /\ Len(coreQueue[r]) \in Nat
          BY <1>4
        <5>2. Handled(r) = Len(came[r]) - Len(coreQueue[r])
          BY <1>11
        <5> QED
          BY <3>1, <3>2, <5>1, <5>2, Difference
      <4> QED
        BY <1>9, <1>10, <4>1, <4>2, <4>3
    <3>3. CASE i \notin 1 .. Len(coreQueue[r])
      <4>1. r = q
        BY <1>5, <3>3
      <4>2. i = Len(coreQueue[q]) + 1
        BY <1>4, <1>8, <3>3, <4>1
      <4>3. Handled(q) + i = n + 1
        <5>1. Len(came[q]) \in Nat /\ Len(coreQueue[q]) \in Nat
          BY <1>4
        <5>2. Handled(q) = Len(came[q]) - Len(coreQueue[q])
          BY <1>11
        <5> QED
          BY <4>2, <5>1, <5>2, Difference
      <4> QED
        BY <1>1, <1>7, <1>8, <1>10, <4>1, <4>2, <4>3
    <3> QED
      BY <3>2, <3>3
  <2> QED
    BY <2>1, <2>2, <2>3 DEF QueuesAreEnds
<1>14. CameOnce'
  <2>1. ASSUME NEW r \in NetQueue, NEW i \in 1 .. Len(came'[r])
        PROVE  \/ i \in 1 .. Len(came[r]) /\ came'[r][i] = came[r][i] /\ came'[r][i] # p
               \/ r = q /\ i = n + 1 /\ came'[r][i] = p
    <3>1. CASE i \in 1 .. Len(came[r])
      BY <1>3, <1>9, <3>1
    <3>2. CASE i \notin 1 .. Len(came[r])
      <4>1. r = q
        BY <1>5, <3>2
      <4>2. i = n + 1
        BY <1>4, <1>7, <3>2, <4>1
      <4> QED
        BY <1>7, <4>1, <4>2
    <3> QED
      BY <3>1, <3>2
  <2>2. ASSUME NEW r \in NetQueue, NEW u \in NetQueue,
               NEW i \in 1 .. Len(came'[r]), NEW j \in 1 .. Len(came'[u]),
               came'[r][i] = came'[u][j]
        PROVE  r = u /\ i = j
    <3>1. CASE came'[r][i] = p
      BY <2>1, <2>2, <3>1
    <3>2. CASE came'[r][i] # p
      <4>1. i \in 1 .. Len(came[r]) /\ j \in 1 .. Len(came[u]) /\ came[r][i] = came[u][j]
        BY <2>1, <2>2, <3>2
      <4> QED
        BY <4>1 DEF NetInv, CameOnce
    <3> QED
      BY <3>1, <3>2
  <2> QED
    BY <2>2 DEF CameOnce
<1>15. NoneTooLarge'
  BY <1>9, <1>10, <1>11 DEF NetInv, NoneTooLarge
<1>16. AllOfHandled'
  <2>1. ASSUME NEW s, OfHandled(s) PROVE OfHandled(s)'
    <3> PICK r \in NetQueue : \E m \in 1 .. Handled(r) : \E i \in 1 .. Len(Segments[came[r][m]]) :
          s = Segments[came[r][m]][i]
      BY <2>1 DEF OfHandled
    <3>1. PICK m \in 1 .. Handled(r) : \E i \in 1 .. Len(Segments[came[r][m]]) :
            s = Segments[came[r][m]][i]
      OBVIOUS
    <3>2. m \in 1 .. Handled(r)' /\ came'[r][m] = came[r][m]
      BY <1>9, <1>10, <1>11
    <3> QED
      BY <3>1, <3>2 DEF OfHandled
  <2> QED
    BY <1>2, <2>1 DEF NetInv, AllOfHandled
<1>17. BoughtInOrder'
  <2>7. bought' = bought
    BY <1>2
  <2> SUFFICES ASSUME NEW r \in NetQueue, NEW d \in NetDev,
                      NEW i \in 1 .. Len(bought[d]), NEW j \in 1 .. Len(bought[d]),
                      NEW k \in 1 .. Len(came'[r]), NEW m \in 1 .. Len(came'[r]),
                      i < j, bought[d][i] = came'[r][k], bought[d][j] = came'[r][m]
               PROVE  k < m
    BY <2>7 DEF BoughtInOrder
  <2>1. ASSUME NEW x \in 1 .. Len(bought[d]), NEW y \in 1 .. Len(came'[r]),
               bought[d][x] = came'[r][y]
        PROVE  y \in 1 .. Len(came[r])
    <3> SUFFICES ASSUME y \notin 1 .. Len(came[r]) PROVE FALSE
      OBVIOUS
    <3>1. r = q
      BY <1>5
    <3>2. y = n + 1 /\ bought[d][x] = p
      BY <1>4, <1>7, <2>1, <3>1
    <3>3. OfHandled(p)
      BY <3>2 DEF NetInv, AllOfHandled
    <3> PICK u \in NetQueue : \E b \in 1 .. Handled(u) :
          \E c \in 1 .. Len(Segments[came[u][b]]) : p = Segments[came[u][b]][c]
      BY <3>3 DEF OfHandled
    <3>4. PICK b \in 1 .. Handled(u) :
            \E c \in 1 .. Len(Segments[came[u][b]]) : p = Segments[came[u][b]][c]
      OBVIOUS
    <3>5. b \in 1 .. Len(came[u])
      BY <1>11
    <3>6. came[u][b] \in Packet /\ came[u][b] # p
      BY <1>3, <3>5, NetFields DEF NetInv
    <3>7. PICK c \in 1 .. Len(Segments[came[u][b]]) : p = Segments[came[u][b]][c]
      BY <3>4
    <3>8. 1 \in 1 .. Len(Segments[p]) /\ Segments[p][1] = p
      BY SegmentFacts
    <3>9. Segments[p][1] = Segments[came[u][b]][c]
      BY <3>7, <3>8
    <3> QED
      BY <3>6, <3>8, <3>9, SegmentFacts
  <2>2. k \in 1 .. Len(came[r]) /\ m \in 1 .. Len(came[r])
    BY <2>1
  <2>3. bought[d][i] = came[r][k] /\ bought[d][j] = came[r][m]
    BY <1>9, <2>2
  <2> QED
    BY <2>2, <2>3 DEF NetInv, BoughtInOrder
<1>18. BoughtOnce' /\ AllPaid' /\ NamesDiffer'
  BY <1>2 DEF NetInv, BoughtOnce, AllPaid, NamesDiffer
<1> QED
  BY <1>12, <1>13, <1>14, <1>15, <1>16, <1>17, <1>18 DEF NetInv

LEMMA FirstLeft ==
  ASSUME NEW a \in Nat, NEW b \in Nat, b <= a, b # 0
  PROVE  a - b \in Nat /\ (a - b) + 1 \in 1 .. a /\ 1 \in 1 .. b
OBVIOUS

LEMMA OneMore ==
  ASSUME NEW a \in Nat, NEW b \in Nat
  PROVE  a - (b - 1) = a - b + 1
OBVIOUS

LEMMA OneLess ==
  ASSUME NEW a \in Nat, NEW b \in Nat, b <= a
  PROVE  b - 1 <= a
OBVIOUS

LEMMA Shifting ==
  ASSUME NEW a \in Nat, NEW b \in Nat, NEW i \in 1 .. b - 1
  PROVE  i + 1 \in 1 .. b /\ (a + 1) + i = a + (i + 1)
OBVIOUS

\* A packet is handled: its segments are offered to the bucket of its device.
LEMMA XmitInv ==
  ASSUME NetInv, NEW q \in NetQueue, coreQueue[q] # <<>>, StartXmit(q),
         proc' = [proc EXCEPT ![q] = "look"], UNCHANGED <<netdevs, cashed, came>>
  PROVE  NetInv'
<1> DEFINE nb == coreQueue[q][1].packet
           d == PacketDev[nb]
           b == [tokens |-> tokens[d], last |-> lastEntry[d], bought |-> bought[d]]
           c == OfferAll(b, Segments[nb])
           h == Handled(q) + 1
<1>1. CASE NeedsGso(nb)
  <2>1. UNCHANGED <<coreQueue, tokens, lastEntry, bought>>
    BY <1>1 DEF StartXmit
  <2> QED
    BY <2>1, IdleInv
<1>2. CASE ~NeedsGso(nb)
  <2>1. /\ coreQueue' = [coreQueue EXCEPT ![q] = Tail(@)]
        /\ tokens' = [tokens EXCEPT ![d] = c.tokens]
        /\ lastEntry' = [lastEntry EXCEPT ![d] = c.last]
        /\ bought' = [bought EXCEPT ![d] = c.bought]
    BY <1>2 DEF StartXmit
  <2>2. \A r \in NetQueue :
          /\ came[r] \in Seq(Packet) /\ Len(came[r]) \in Nat
          /\ coreQueue[r] \in Seq(NetEntry) /\ Len(coreQueue[r]) \in Nat
          /\ Len(coreQueue[r]) <= Len(came[r])
    BY NetFields DEF NetInv, QueuesAreEnds
  <2>3. Len(coreQueue[q]) # 0
    BY <2>2, EmptySeq
  <2>4. /\ Handled(q) \in Nat /\ h \in 1 .. Len(came[q]) /\ 1 \in 1 .. Len(coreQueue[q])
        /\ Handled(q) = Len(came[q]) - Len(coreQueue[q])
    <3>1. Len(came[q]) \in Nat /\ Len(coreQueue[q]) \in Nat /\ Len(coreQueue[q]) <= Len(came[q])
      BY <2>2
    <3> QED
      BY <2>3, <3>1, FirstLeft DEF Handled
  <2>5. nb = came[q][h] /\ nb \in Packet
    <3>1. nb = came[q][h]
      BY <2>4 DEF NetInv, QueuesAreEnds
    <3>2. came[q][h] \in Packet
      BY <2>4, NetFields DEF NetInv
    <3> QED
      BY <3>1, <3>2
  <2> HIDE DEF nb, h
  <2>6. \A r \in NetQueue : \A i \in 1 .. Len(came[r]) : came[r][i] = nb => r = q /\ i = h
    BY <2>4, <2>5 DEF NetInv, CameOnce
  <2> DEFINE s == Segments[nb]
  <2>7. /\ s \in Seq(Buffer) /\ Once(s) /\ Len(s) \in Nat /\ d \in NetDev
        /\ \A r \in Packet, i \in 1 .. Len(s) : \A j \in 1 .. Len(Segments[r]) :
             s[i] = Segments[r][j] => nb = r
    BY <2>5, SegmentFacts
  <2>8. \A r \in NetQueue : Handled(r) \in Int /\ 1 .. Handled(r) \subseteq 1 .. Len(came[r])
    <3>1. ASSUME NEW r \in NetQueue
          PROVE  Handled(r) \in Int /\ 1 .. Handled(r) \subseteq 1 .. Len(came[r])
      <4>1. Len(came[r]) \in Nat /\ Len(coreQueue[r]) \in Nat
        BY <2>2
      <4> QED
        BY <4>1, Difference DEF Handled
    <3> QED
      BY <3>1
  <2> HIDE DEF d, s
  <2>9. b \in Bucket /\ b.bought = bought[d] /\ b.tokens = tokens[d]
    BY <2>7 DEF NetInv, NetShape, Bucket
  <2>10. Once(bought[d]) /\ Len(bought[d]) \in Nat
    BY <2>7, NetFields DEF NetInv, BoughtOnce
  <2>11. ASSUME NEW k \in 1 .. Len(bought[d]), NEW i \in 1 .. Len(s) PROVE bought[d][k] # s[i]
    <3> SUFFICES ASSUME bought[d][k] = s[i] PROVE FALSE
      OBVIOUS
    <3> PICK r \in NetQueue : \E m \in 1 .. Handled(r) : \E j \in 1 .. Len(Segments[came[r][m]]) :
          bought[d][k] = Segments[came[r][m]][j]
      BY <2>7 DEF NetInv, AllOfHandled, OfHandled
    <3>1. PICK m \in 1 .. Handled(r) : \E j \in 1 .. Len(Segments[came[r][m]]) :
            bought[d][k] = Segments[came[r][m]][j]
      OBVIOUS
    <3>2. m \in 1 .. Len(came[r])
      BY <2>8
    <3>3. came[r][m] \in Packet
      BY <2>2, <3>2
    <3>4. came[r][m] = nb
      BY <2>7, <3>1, <3>3
    <3>5. r = q /\ m = h
      BY <2>6, <3>2, <3>4
    <3> QED
      BY <2>4, <3>5 DEF h
  <2>12. OfferedSoFar(b, s, Len(s), c)
    BY <2>7, <2>9, <2>10, <2>11, AllOffered DEF s
  <2> HIDE DEF b, c
  <2>13. /\ c.tokens \in 0 .. TokenMax /\ c.last \in Buffer \cup {NoPacket}
         /\ c.bought \in Seq(Buffer) /\ Len(c.bought) \in Nat
         /\ Once(c.bought)
         /\ \A k \in 1 .. Len(bought[d]) : k \in 1 .. Len(c.bought) /\ c.bought[k] = bought[d][k]
         /\ \A k \in 1 .. Len(c.bought) : k \notin 1 .. Len(bought[d]) =>
              \E i \in 1 .. Len(s) : c.bought[k] = s[i]
         /\ c.tokens + Cost(c.bought) = tokens[d] + Cost(bought[d])
    <3>1. c \in Bucket
      BY <2>12 DEF OfferedSoFar
    <3>2. Len(c.bought) \in Nat
      BY <3>1, LenProperties DEF Bucket
    <3>3. /\ Len(bought[d]) <= Len(c.bought)
          /\ \A k \in 1 .. Len(bought[d]) : c.bought[k] = bought[d][k]
          /\ \A k \in Len(bought[d]) + 1 .. Len(c.bought) :
               \E i \in 1 .. Len(s) : c.bought[k] = s[i]
          /\ Once(c.bought) /\ c.tokens + Cost(c.bought) = tokens[d] + Cost(bought[d])
      BY <2>9, <2>12 DEF OfferedSoFar
    <3>4. \A k \in 1 .. Len(c.bought) :
            k \notin 1 .. Len(bought[d]) => k \in Len(bought[d]) + 1 .. Len(c.bought)
      BY <2>10, <3>2
    <3>5. \A k \in 1 .. Len(bought[d]) : k \in 1 .. Len(c.bought)
      BY <2>10, <3>2, <3>3
    <3> QED
      BY <3>1, <3>2, <3>3, <3>4, <3>5 DEF Bucket
  <2>14. /\ bought'[d] = c.bought /\ tokens'[d] = c.tokens
         /\ \A e \in NetDev : e # d => bought'[e] = bought[e] /\ tokens'[e] = tokens[e]
    BY <2>1, <2>7 DEF NetInv, NetShape
  <2>15. /\ coreQueue'[q] = Tail(coreQueue[q])
         /\ \A r \in NetQueue : r # q => coreQueue'[r] = coreQueue[r]
    BY <2>1 DEF NetInv, NetShape
  <2>16. /\ coreQueue'[q] \in Seq(NetEntry) /\ Len(coreQueue'[q]) = Len(coreQueue[q]) - 1
         /\ \A i \in 1 .. Len(coreQueue[q]) - 1 : coreQueue'[q][i] = coreQueue[q][i + 1]
    BY <2>2, <2>15, HeadTailProperties
  <2>17. /\ Handled(q)' = h
         /\ \A r \in NetQueue : r # q => Handled(r)' = Handled(r)
    <3>1. Len(came[q]) \in Nat /\ Len(coreQueue[q]) \in Nat
      BY <2>2
    <3>2. Len(came[q]) - (Len(coreQueue[q]) - 1) = Len(came[q]) - Len(coreQueue[q]) + 1
      BY <3>1, OneMore
    <3> QED
      BY <2>4, <2>15, <2>16, <3>2 DEF Handled, h
  <2>18. \A r \in NetQueue : \A i \in 1 .. Handled(r) : i \in 1 .. Handled(r)'
    <3>1. \A i \in 1 .. Handled(q) : i \in 1 .. h
      BY <2>4 DEF h
    <3> QED
      BY <2>17, <3>1
  <2>19. NetShape'
    <3>1. coreQueue' \in [NetQueue -> Seq(NetEntry)]
      BY <2>1, <2>15, <2>16 DEF NetInv, NetShape
    <3>2. proc' \in [NetQueue -> {"off", "look", "waits", "found"}]
      BY DEF NetInv, NetShape
    <3>3. /\ tokens' \in [NetDev -> 0 .. TokenMax]
          /\ lastEntry' \in [NetDev -> Buffer \cup {NoPacket}]
      BY <2>1, <2>13 DEF NetInv, NetShape
    <3>4. bought' \in [NetDev -> Seq(Buffer)]
      BY <2>1, <2>13 DEF NetInv, NetShape
    <3> QED
      BY <3>1, <3>2, <3>3, <3>4 DEF NetInv, NetShape
  <2>20. QueuesAreEnds'
    <3>1. ASSUME NEW r \in NetQueue, proc'[r] = "found" PROVE coreQueue'[r] # <<>>
      <4>1. r # q /\ proc[r] = "found"
        BY <3>1 DEF NetInv, NetShape
      <4> QED
        BY <2>15, <4>1 DEF NetInv, QueuesAreEnds
    <3>2. ASSUME NEW r \in NetQueue PROVE Len(coreQueue'[r]) <= Len(came[r])
      <4>1. Len(coreQueue[r]) \in Nat /\ Len(came[r]) \in Nat /\ Len(coreQueue[r]) <= Len(came[r])
        BY <2>2
      <4>2. Len(coreQueue'[r]) = Len(coreQueue[r]) \/ Len(coreQueue'[r]) = Len(coreQueue[r]) - 1
        BY <2>15, <2>16
      <4> QED
        BY <4>1, <4>2, OneLess
    <3>3. ASSUME NEW r \in NetQueue, NEW i \in 1 .. Len(coreQueue'[r])
          PROVE  coreQueue'[r][i].packet = came[r][Handled(r)' + i]
      <4>1. CASE r = q
        <5>1. i \in 1 .. Len(coreQueue[q]) - 1
          BY <2>16, <4>1
        <5>2. Len(coreQueue[q]) \in Nat
          BY <2>2
        <5>3. i + 1 \in 1 .. Len(coreQueue[q]) /\ h + i = Handled(q) + (i + 1)
          BY <2>4, <5>1, <5>2, Shifting DEF h
        <5>4. coreQueue[q][i + 1].packet = came[q][Handled(q) + (i + 1)]
          BY <5>3 DEF NetInv, QueuesAreEnds
        <5> QED
          BY <2>16, <2>17, <4>1, <5>1, <5>3, <5>4
      <4>2. CASE r # q
        BY <2>15, <2>17, <4>2 DEF NetInv, QueuesAreEnds
      <4> QED
        BY <4>1, <4>2
    <3> QED
      BY <3>1, <3>2, <3>3 DEF QueuesAreEnds
  <2>21. NoneTooLarge'
    <3> SUFFICES ASSUME NEW r \in NetQueue, NEW i \in 1 .. Handled(r)'
                 PROVE  ~NeedsGso(came[r][i])
      BY DEF NoneTooLarge
    <3>1. CASE i \in 1 .. Handled(r)
      BY <3>1 DEF NetInv, NoneTooLarge
    <3>2. CASE i \notin 1 .. Handled(r)
      <4>1. r = q
        BY <2>17, <3>2
      <4>2. i = h
        BY <2>4, <2>17, <3>2, <4>1 DEF h
      <4> QED
        BY <1>2, <2>5, <4>1, <4>2
    <3> QED
      BY <3>1, <3>2
  <2>22. AllOfHandled'
    <3>1. ASSUME NEW x, OfHandled(x) PROVE OfHandled(x)'
      <4> PICK r \in NetQueue : \E m \in 1 .. Handled(r) :
            \E i \in 1 .. Len(Segments[came[r][m]]) : x = Segments[came[r][m]][i]
        BY <3>1 DEF OfHandled
      <4>1. PICK m \in 1 .. Handled(r) : \E i \in 1 .. Len(Segments[came[r][m]]) :
              x = Segments[came[r][m]][i]
        OBVIOUS
      <4>2. m \in 1 .. Handled(r)'
        BY <2>18
      <4> QED
        BY <4>1, <4>2 DEF OfHandled
    <3>2. ASSUME NEW i \in 1 .. Len(s), NEW x, x = s[i] PROVE OfHandled(x)'
      <4>1. /\ h \in 1 .. Handled(q)' /\ x = Segments[came'[q][h]][i]
            /\ i \in 1 .. Len(Segments[came'[q][h]])
        <5>1. h \in 1 .. h
          BY <2>4 DEF h
        <5> QED
          BY <2>5, <2>17, <3>2, <5>1 DEF s
      <4> QED
        BY <4>1 DEF OfHandled
    <3>3. ASSUME NEW e \in NetDev, NEW k \in 1 .. Len(bought'[e]), NEW x, x = bought'[e][k]
          PROVE  OfHandled(x)'
      <4>1. CASE e = d /\ k \notin 1 .. Len(bought[d])
        <5>1. PICK i \in 1 .. Len(s) : c.bought[k] = s[i]
          BY <2>13, <2>14, <4>1
        <5>2. x = s[i]
          BY <2>14, <3>3, <4>1, <5>1
        <5> QED
          BY <3>2, <5>2
      <4>2. CASE e # d \/ k \in 1 .. Len(bought[d])
        <5>1. k \in 1 .. Len(bought[e]) /\ bought'[e][k] = bought[e][k]
          BY <2>13, <2>14, <4>2
        <5>2. OfHandled(x)
          BY <3>3, <5>1 DEF NetInv, AllOfHandled
        <5> QED
          BY <3>1, <5>2
      <4> QED
        BY <4>1, <4>2
    <3> QED
      <4>1. ASSUME NEW e \in NetDev, NEW k \in 1 .. Len(bought'[e]),
                   ~\E r \in NetQueue : \E m \in 1 .. Handled(r)' :
                      \E i \in 1 .. Len(Segments[came'[r][m]]) :
                        bought'[e][k] = Segments[came'[r][m]][i]
            PROVE  FALSE
        <5>1. PICK x : x = bought'[e][k]
          OBVIOUS
        <5>2. OfHandled(x)'
          BY <3>3, <5>1
        <5> QED
          BY <4>1, <5>1, <5>2 DEF OfHandled
      <4> QED
        BY <4>1 DEF AllOfHandled, OfHandled
  <2>23. BoughtOnce'
    BY <2>13, <2>14 DEF NetInv, BoughtOnce
  <2>24. BoughtInOrder'
    <3> SUFFICES ASSUME NEW r \in NetQueue, NEW e \in NetDev,
                        NEW i \in 1 .. Len(bought'[e]), NEW j \in 1 .. Len(bought'[e]),
                        NEW k \in 1 .. Len(came[r]), NEW m \in 1 .. Len(came[r]),
                        i < j, bought'[e][i] = came[r][k], bought'[e][j] = came[r][m]
                 PROVE  k < m
      BY DEF BoughtInOrder
    <3>1. ASSUME NEW x \in 1 .. Len(bought'[e]), NEW y \in 1 .. Len(came[r]),
                 bought'[e][x] = came[r][y]
          PROVE  \/ /\ x \in 1 .. Len(bought[e]) /\ bought'[e][x] = bought[e][x]
                    /\ y \in 1 .. Handled(r)
                 \/ e = d /\ x \notin 1 .. Len(bought[d]) /\ r = q /\ y = h
      <4>1. CASE e = d /\ x \notin 1 .. Len(bought[d])
        <5>1. PICK z \in 1 .. Len(s) : c.bought[x] = s[z]
          BY <2>13, <2>14, <4>1
        <5>2. came[r][y] \in Packet
          BY <2>2
        <5>3. 1 \in 1 .. Len(Segments[came[r][y]]) /\ Segments[came[r][y]][1] = came[r][y]
          BY <5>2, SegmentFacts
        <5>4. s[z] = Segments[came[r][y]][1]
          BY <2>14, <3>1, <4>1, <5>1, <5>3
        <5>5. came[r][y] = nb
          BY <2>7, <5>2, <5>3, <5>4
        <5> QED
          BY <2>6, <4>1, <5>5
      <4>2. CASE e # d \/ x \in 1 .. Len(bought[d])
        <5>1. x \in 1 .. Len(bought[e]) /\ bought'[e][x] = bought[e][x]
          BY <2>13, <2>14, <4>2
        <5>2. bought[e][x] = came[r][y]
          BY <3>1, <5>1
        <5> QED
          BY <5>1, <5>2, BoughtIsHandled
      <4> QED
        BY <4>1, <4>2
    <3>2. Len(bought'[e]) \in Nat /\ Once(bought'[e]) /\ DOMAIN bought'[e] = 1 .. Len(bought'[e])
      BY <2>19, <2>23, LenProperties DEF NetShape, BoughtOnce
    <3>3. CASE j \in 1 .. Len(bought[e]) /\ bought'[e][j] = bought[e][j]
      <4>1. i \in 1 .. Len(bought[e])
        <5>1. Len(bought[e]) \in Nat
          BY NetFields DEF NetInv
        <5> QED
          BY <3>3, <5>1
      <4>2. bought'[e][i] = bought[e][i]
        BY <2>13, <2>14, <4>1
      <4>3. bought[e][i] = came[r][k] /\ bought[e][j] = came[r][m]
        BY <3>3, <4>2
      <4>4. j \in 1 .. Len(bought[e])
        BY <3>3
      <4>5. BoughtInOrder
        BY DEF NetInv
      <4> QED
        BY <4>1, <4>3, <4>4, <4>5 DEF BoughtInOrder
    <3>4. CASE e = d /\ j \notin 1 .. Len(bought[d]) /\ r = q /\ m = h
      <4>1. CASE k \in 1 .. Handled(r)
        <5>1. Handled(q) \in Nat
          BY <2>4
        <5>2. k \in 1 .. Handled(q) /\ m = Handled(q) + 1
          BY <3>4, <4>1 DEF h
        <5> QED
          BY <5>1, <5>2
      <4>2. CASE k = h
        <5>1. bought'[e][i] = bought'[e][j]
          BY <3>4, <4>2
        <5>2. i = j
          BY <3>2, <5>1 DEF Once
        <5>3. i \in Int
          OBVIOUS
        <5>4. ~(i < j)
          BY <5>2, <5>3
        <5> QED
          BY <5>4
      <4> QED
        BY <3>1, <4>1, <4>2
    <3> QED
      BY <3>1, <3>3, <3>4
  <2>25. AllPaid'
    BY <2>13, <2>14 DEF NetInv, AllPaid
  <2>26. CameOnce' /\ NamesDiffer'
    BY DEF NetInv, CameOnce, NamesDiffer
  <2> QED
    BY <2>19, <2>20, <2>21, <2>22, <2>23, <2>24, <2>25, <2>26 DEF NetInv
<1> QED
  BY <1>1, <1>2

LEMMA NetNextInv ==
  ASSUME NetInv, NetNext
  PROVE  NetInv'
<1>1. ASSUME NEW q \in NetQueue, Look(q)
      PROVE  NetInv'
  <2> DEFINE x == IF coreQueue[q] = <<>> THEN "waits" ELSE "found"
  <2>1. x \in {"look", "waits", "found"} /\ x = "found" => coreQueue[q] # <<>>
    OBVIOUS
  <2>2. /\ proc' = [proc EXCEPT ![q] = x]
        /\ UNCHANGED <<netdevs, coreQueue, tokens, lastEntry, cashed, came, bought>>
    BY <1>1 DEF Look
  <2>3. x \in {"look", "waits", "found"}
    OBVIOUS
  <2> HIDE DEF x
  <2> QED
    BY <2>1, <2>2, <2>3, IdleInv
<1>2. ASSUME NEW q \in NetQueue, Found(q)
      PROVE  NetInv'
  <2>1. coreQueue[q] # <<>>
    BY <1>2 DEF Found, NetInv, QueuesAreEnds
  <2>2. CASE coreQueue[q][1].sends
    BY <1>2, <2>1, <2>2, XmitInv DEF Found
  <2>3. CASE ~coreQueue[q][1].sends
    BY <1>2, <2>1, <2>3, IdleInv DEF Found
  <2> QED
    BY <2>2, <2>3
<1>3. ASSUME NEW q \in NetQueue, Woken(q)
      PROVE  NetInv'
  <2>1. proc' = [proc EXCEPT ![q] = "look"] /\ UNCHANGED <<netdevs, cashed, came>>
    BY <1>3 DEF Woken
  <2>2. CASE UNCHANGED <<coreQueue, tokens, lastEntry, bought>>
    BY <2>1, <2>2, IdleInv
  <2>3. CASE coreQueue[q] # <<>> /\ StartXmit(q)
    BY <2>1, <2>3, XmitInv
  <2> QED
    BY <1>3, <2>2, <2>3 DEF Woken
<1> QED
  BY <1>1, <1>2, <1>3, DeviceInv, CashInv, EnqueueInv DEF NetNext

LEMMA NetInitInv ==
  ASSUME NetInit
  PROVE  NetInv
<1>1. \A q \in NetQueue : coreQueue[q] = <<>> /\ came[q] = <<>> /\ proc[q] = "off"
  BY DEF NetInit
<1>2. \A d \in NetDev : bought[d] = <<>> /\ tokens[d] = 0 /\ cashed[d] = 0
  BY DEF NetInit
<1>3. NetShape
  <2>1. 0 \in 0 .. TokenMax
    BY NetworkConstants
  <2> QED
    BY <2>1 DEF NetInit, NetShape
<1>4. \A q \in NetQueue : Handled(q) = 0
  BY <1>1 DEF Handled
<1>5. QueuesAreEnds
  BY <1>1 DEF QueuesAreEnds
<1>6. CameOnce
  BY <1>1 DEF CameOnce
<1>7. NoneTooLarge
  BY <1>4 DEF NoneTooLarge
<1>8. AllOfHandled /\ BoughtInOrder
  BY <1>2 DEF AllOfHandled, BoughtInOrder
<1>9. BoughtOnce
  BY <1>2 DEF BoughtOnce, Once
<1>10. AllPaid
  BY <1>2, CostOfNone DEF AllPaid
<1>11. NamesDiffer
  BY DEF NetInit, NamesDiffer
<1> QED
  BY <1>3, <1>5, <1>6, <1>7, <1>8, <1>9, <1>10, <1>11 DEF NetInv

-----------------------------------------------------------------------------
(***************************************************************************)
(* The stream of the serial port: how the wire carries what was sent.      *)
(***************************************************************************)
WireByte == 0 .. 255
Char == WireByte \ {CR}

\* The wire w carries the characters s.
Carries(w, s) ==
  /\ w \in Seq(WireByte) /\ s \in Seq(Char)
  /\ Len(w) = Len(s) + Returns(w, Len(w))
  /\ \A i \in 1 .. Len(w) : w[i] # CR => \E k \in 1 .. Len(s) : k = i - Returns(w, i) /\ w[i] = s[k]
  /\ \A i \in 1 .. Len(w) : w[i] = CR <=> (i < Len(w) /\ w[i + 1] = LF)

LEMMA ReturnsIsNat ==
  ASSUME NEW w, NEW n \in Nat
  PROVE  /\ IsFiniteSet({i \in 1 .. n : w[i] = CR})
         /\ Returns(w, n) \in Nat
<1> DEFINE S == {i \in 1 .. n : w[i] = CR}
<1>1. IsFiniteSet(1 .. n)
  BY FS_Interval
<1>2. IsFiniteSet(S)
  BY <1>1, FS_Subset
<1>3. Cardinality(S) \in Nat
  BY <1>2, FS_CardinalityType
<1> QED
  BY <1>2, <1>3 DEF Returns

LEMMA ReturnsOfNone ==
  ASSUME NEW w
  PROVE  Returns(w, 0) = 0
<1>1. {i \in 1 .. 0 : w[i] = CR} = {}
  OBVIOUS
<1> QED
  BY <1>1, FS_EmptySet DEF Returns

LEMMA ReturnsSame ==
  ASSUME NEW v, NEW w, NEW n \in Nat, \A i \in 1 .. n : v[i] = w[i]
  PROVE  Returns(v, n) = Returns(w, n)
<1>1. {i \in 1 .. n : v[i] = CR} = {i \in 1 .. n : w[i] = CR}
  OBVIOUS
<1> QED
  BY <1>1 DEF Returns

LEMMA ReturnsNext ==
  ASSUME NEW w, NEW n \in Nat
  PROVE  Returns(w, n + 1) = IF w[n + 1] = CR THEN Returns(w, n) + 1 ELSE Returns(w, n)
<1> DEFINE S == {i \in 1 .. n : w[i] = CR}
<1>1. IsFiniteSet(S) /\ n + 1 \notin S
  <2>1. n + 1 \notin S
    OBVIOUS
  <2> QED
    BY <2>1, ReturnsIsNat
<1>2. \A i \in 1 .. n + 1 : i \in 1 .. n \/ i = n + 1
  OBVIOUS
<1>3. \A i \in 1 .. n : i \in 1 .. n + 1
  OBVIOUS
<1>4. n + 1 \in 1 .. n + 1
  OBVIOUS
<1>5. CASE w[n + 1] = CR
  <2>1. {i \in 1 .. n + 1 : w[i] = CR} = S \cup {n + 1}
    BY <1>2, <1>3, <1>4, <1>5
  <2>2. Cardinality(S \cup {n + 1}) = Cardinality(S) + 1
    <3> HIDE DEF S
    <3> QED
      BY <1>1, FS_AddElement
  <2> QED
    BY <1>5, <2>1, <2>2 DEF Returns
<1>6. CASE w[n + 1] # CR
  <2>1. {i \in 1 .. n + 1 : w[i] = CR} = S
    BY <1>2, <1>3, <1>6
  <2> QED
    BY <1>6, <2>1 DEF Returns
<1> QED
  BY <1>5, <1>6

\* x is w and then c.
Then(x, w, c) == Len(x) = Len(w) + 1 /\ x[Len(w) + 1] = c /\ \A i \in 1 .. Len(w) : x[i] = w[i]

LEMMA AppendThen ==
  ASSUME NEW S, NEW w \in Seq(S), NEW c \in S
  PROVE  Append(w, c) \in Seq(S) /\ Then(Append(w, c), w, c)
BY AppendProperties DEF Then

\* A character that is no line feed.
LEMMA CarryOne ==
  ASSUME NEW w, NEW s, Carries(w, s), NEW c \in Char, c # LF,
         NEW x \in Seq(WireByte), Then(x, w, c), NEW u \in Seq(Char), Then(u, s, c)
  PROVE  Carries(x, u)
<1> DEFINE n == Len(w)
           m == Len(s)
           r == Returns(w, n)
<1>1. n \in Nat /\ m \in Nat /\ r \in Nat /\ n = m + r /\ n + 1 = (m + 1) + r
  <2>1. n \in Nat /\ m \in Nat
    BY LenProperties DEF Carries
  <2>2. r \in Nat
    BY <2>1, ReturnsIsNat
  <2>3. n = m + r
    BY DEF Carries
  <2> HIDE DEF n, m, r
  <2> QED
    BY <2>1, <2>2, <2>3
<1>2. /\ Len(x) = n + 1 /\ x[n + 1] = c /\ \A i \in 1 .. n : x[i] = w[i]
      /\ Len(u) = m + 1 /\ u[m + 1] = c /\ \A i \in 1 .. m : u[i] = s[i]
  BY DEF Then
<1>3. c # CR
  BY DEF Char
<1>4. /\ Returns(x, n + 1) = r
      /\ \A i \in 1 .. n : Returns(x, i) = Returns(w, i)
  <2>1. Returns(x, n) = r
    BY <1>1, <1>2, ReturnsSame
  <2>2. Returns(x, n + 1) = r
    BY <1>1, <1>2, <1>3, <2>1, ReturnsNext
  <2>3. ASSUME NEW i \in 1 .. n PROVE Returns(x, i) = Returns(w, i)
    <3>1. i \in Nat /\ \A j \in 1 .. i : j \in 1 .. n
      BY <1>1
    <3>2. \A j \in 1 .. i : x[j] = w[j]
      BY <1>2, <3>1
    <3> QED
      BY <3>1, <3>2, ReturnsSame
  <2> QED
    BY <2>2, <2>3
<1>5. /\ \A i \in 1 .. n : w[i] # CR => \E k \in 1 .. m : k = i - Returns(w, i) /\ w[i] = s[k]
      /\ \A i \in 1 .. n : w[i] = CR <=> (i < n /\ w[i + 1] = LF)
  BY DEF Carries
<1> HIDE DEF n, m, r
<1>6. ASSUME NEW i \in 1 .. n + 1, x[i] # CR
      PROVE  \E k \in 1 .. m + 1 : k = i - Returns(x, i) /\ x[i] = u[k]
  <2>1. CASE i = n + 1
    <3>1. m + 1 \in 1 .. m + 1 /\ m + 1 = i - Returns(x, i) /\ x[i] = u[m + 1]
      BY <1>1, <1>2, <1>4, <2>1
    <3> QED
      BY <3>1
  <2>2. CASE i # n + 1
    <3>1. i \in 1 .. n
      BY <1>1, <2>2
    <3>2. PICK k \in 1 .. m : k = i - Returns(w, i) /\ w[i] = s[k]
      BY <1>2, <1>5, <1>6, <3>1
    <3>3. k \in 1 .. m + 1
      BY <1>1
    <3> QED
      BY <1>2, <1>4, <3>1, <3>2, <3>3
  <2> QED
    BY <2>1, <2>2
<1>7. ASSUME NEW i \in 1 .. n + 1
      PROVE  x[i] = CR <=> (i < n + 1 /\ x[i + 1] = LF)
  <2>1. CASE i = n + 1
    BY <1>1, <1>2, <1>3, <2>1
  <2>2. CASE i = n
    <3>1. i \in 1 .. n /\ ~(n < n)
      BY <1>1, <2>2
    <3> QED
      BY <1>2, <1>5, <2>2, <3>1
  <2>3. CASE i # n /\ i # n + 1
    <3>1. i \in 1 .. n /\ i + 1 \in 1 .. n /\ i < n /\ i < n + 1
      BY <1>1, <2>3
    <3> QED
      BY <1>2, <1>5, <3>1
  <2> QED
    BY <2>1, <2>2, <2>3
<1> QED
  BY <1>1, <1>2, <1>4, <1>6, <1>7 DEF Carries

\* A line feed, behind a carriage return.
LEMMA CarryLine ==
  ASSUME NEW w, NEW s, Carries(w, s), NEW v \in Seq(WireByte), Then(v, w, CR),
         NEW x \in Seq(WireByte), Then(x, v, LF), NEW u \in Seq(Char), Then(u, s, LF)
  PROVE  Carries(x, u)
<1> DEFINE n == Len(w)
           m == Len(s)
           r == Returns(w, n)
<1>1. n \in Nat /\ m \in Nat /\ r \in Nat /\ n = m + r /\ n + 2 = (m + 1) + (r + 1)
  <2>1. n \in Nat /\ m \in Nat
    BY LenProperties DEF Carries
  <2>2. r \in Nat
    BY <2>1, ReturnsIsNat
  <2>3. n = m + r
    BY DEF Carries
  <2> HIDE DEF n, m, r
  <2> QED
    BY <2>1, <2>2, <2>3
<1>2. /\ Len(x) = n + 2 /\ x[n + 1] = CR /\ x[n + 2] = LF /\ \A i \in 1 .. n : x[i] = w[i]
      /\ Len(u) = m + 1 /\ u[m + 1] = LF /\ \A i \in 1 .. m : u[i] = s[i]
  <2>1. /\ Len(v) = n + 1 /\ v[n + 1] = CR /\ \A i \in 1 .. n : v[i] = w[i]
        /\ Len(u) = m + 1 /\ u[m + 1] = LF /\ \A i \in 1 .. m : u[i] = s[i]
        /\ Len(x) = Len(v) + 1 /\ x[Len(v) + 1] = LF /\ \A i \in 1 .. Len(v) : x[i] = v[i]
    BY DEF Then
  <2> HIDE DEF n, m
  <2>2. /\ (n + 1) + 1 = n + 2 /\ n + 1 \in 1 .. n + 1
        /\ \A i \in 1 .. n : i \in 1 .. n + 1
    BY <1>1
  <2> QED
    BY <2>1, <2>2
<1>3. CR # LF
  BY DEF CR, LF
<1>4. /\ Returns(x, n + 2) = r + 1
      /\ \A i \in 1 .. n : Returns(x, i) = Returns(w, i)
  <2>1. Returns(x, n) = r
    BY <1>1, <1>2, ReturnsSame
  <2>2. Returns(x, n + 1) = r + 1
    BY <1>1, <1>2, <2>1, ReturnsNext
  <2>3. Returns(x, n + 2) = r + 1
    <3>1. n + 1 \in Nat /\ (n + 1) + 1 = n + 2
      BY <1>1
    <3> QED
      BY <1>2, <1>3, <2>2, <3>1, ReturnsNext
  <2>4. ASSUME NEW i \in 1 .. n PROVE Returns(x, i) = Returns(w, i)
    <3>1. i \in Nat /\ \A j \in 1 .. i : j \in 1 .. n
      BY <1>1
    <3>2. \A j \in 1 .. i : x[j] = w[j]
      BY <1>2, <3>1
    <3> QED
      BY <3>1, <3>2, ReturnsSame
  <2> QED
    BY <2>3, <2>4
<1>5. /\ \A i \in 1 .. n : w[i] # CR => \E k \in 1 .. m : k = i - Returns(w, i) /\ w[i] = s[k]
      /\ \A i \in 1 .. n : w[i] = CR <=> (i < n /\ w[i + 1] = LF)
  BY DEF Carries
<1> HIDE DEF n, m, r
<1>6. ASSUME NEW i \in 1 .. n + 2, x[i] # CR
      PROVE  \E k \in 1 .. m + 1 : k = i - Returns(x, i) /\ x[i] = u[k]
  <2>1. CASE i = n + 2
    <3>1. m + 1 \in 1 .. m + 1 /\ m + 1 = i - Returns(x, i) /\ x[i] = u[m + 1]
      BY <1>1, <1>2, <1>4, <2>1
    <3> QED
      BY <3>1
  <2>2. CASE i # n + 2
    <3>1. i \in 1 .. n \/ i = n + 1
      BY <1>1, <2>2
    <3>2. i \in 1 .. n
      BY <1>2, <1>6, <3>1
    <3>3. PICK k \in 1 .. m : k = i - Returns(w, i) /\ w[i] = s[k]
      BY <1>2, <1>5, <1>6, <3>2
    <3>4. k \in 1 .. m + 1
      BY <1>1
    <3> QED
      BY <1>2, <1>4, <3>2, <3>3, <3>4
  <2> QED
    BY <2>1, <2>2
<1>7. ASSUME NEW i \in 1 .. n + 2
      PROVE  x[i] = CR <=> (i < n + 2 /\ x[i + 1] = LF)
  <2>1. CASE i = n + 2
    BY <1>1, <1>2, <1>3, <2>1
  <2>2. CASE i = n + 1
    <3>1. i + 1 = n + 2 /\ i < n + 2
      BY <1>1, <2>2
    <3> QED
      BY <1>2, <2>2, <3>1
  <2>3. CASE i = n
    <3>1. i \in 1 .. n /\ ~(n < n)
      BY <1>1, <2>3
    <3> QED
      BY <1>2, <1>3, <1>5, <2>3, <3>1
  <2>4. CASE i # n /\ i # n + 1 /\ i # n + 2
    <3>1. i \in 1 .. n /\ i + 1 \in 1 .. n /\ i < n /\ i < n + 2
      BY <1>1, <2>4
    <3> QED
      BY <1>2, <1>5, <3>1
  <2> QED
    BY <2>1, <2>2, <2>3, <2>4
<1> QED
  BY <1>1, <1>2, <1>4, <1>6, <1>7 DEF Carries

LEMMA TwoThings ==
  ASSUME NEW a, NEW b
  PROVE  <<a>> \o <<b>> = <<a, b>>
<1>1. PICK s : s = <<a>> \o <<b>>
  OBVIOUS
<1>2. PICK t : t = <<a, b>>
  OBVIOUS
<1>3. PICK x : x = <<a>>
  OBVIOUS
<1>4. PICK y : y = <<b>>
  OBVIOUS
<1>5. /\ x \in Seq({a, b}) /\ Len(x) = 1 /\ x[1] = a
      /\ y \in Seq({a, b}) /\ Len(y) = 1 /\ y[1] = b
  BY <1>3, <1>4
<1>6. t \in Seq({a, b}) /\ Len(t) = 2 /\ t[1] = a /\ t[2] = b
  BY <1>2
<1>7. s \in Seq({a, b}) /\ Len(s) = 2 /\ s[1] = a /\ s[2] = b
  BY <1>1, <1>3, <1>4, <1>5, ConcatProperties
<1>8. \A i \in 1 .. 2 : i = 1 \/ i = 2
  OBVIOUS
<1>9. s = t
  BY <1>6, <1>7, <1>8, SeqEqual
<1> QED
  BY <1>1, <1>2, <1>9

LEMMA CarryChar ==
  ASSUME NEW w, NEW s, Carries(w, s), NEW c \in Char
  PROVE  Carries(w \o UsartWriteByte(c), Append(s, c))
<1>1. /\ w \in Seq(WireByte) /\ s \in Seq(Char) /\ c \in WireByte
      /\ CR \in WireByte /\ LF \in WireByte
  BY DEF Carries, Char, WireByte, CR, LF
<1>2. Append(s, c) \in Seq(Char) /\ Then(Append(s, c), s, c)
  BY <1>1, AppendThen
<1>3. CASE c = LF
  <2> DEFINE v == Append(w, CR)
             x == Append(v, LF)
  <2>1. v \in Seq(WireByte) /\ Then(v, w, CR)
    BY <1>1, AppendThen
  <2>2. w \o UsartWriteByte(c) = x
    <3>1. UsartWriteByte(c) = <<CR, LF>>
      BY <1>3 DEF UsartWriteByte
    <3>2. <<CR>> \o <<LF>> = <<CR, LF>>
      BY TwoThings
    <3>3. <<CR>> \in Seq(WireByte) /\ <<LF>> \in Seq(WireByte)
      BY <1>1
    <3>4. (w \o <<CR>>) \o <<LF>> = w \o (<<CR>> \o <<LF>>)
      BY <1>1, <3>3, ConcatAssociative
    <3>5. v = w \o <<CR>>
      BY <1>1, AppendIsConcat
    <3> HIDE DEF v
    <3>6. x = v \o <<LF>>
      BY <1>1, <2>1, AppendIsConcat
    <3> QED
      BY <3>1, <3>2, <3>4, <3>5, <3>6
  <2> HIDE DEF v
  <2>3. x \in Seq(WireByte) /\ Then(x, v, LF)
    BY <1>1, <2>1, AppendThen
  <2> HIDE DEF x
  <2>4. PICK u : u = Append(s, c)
    OBVIOUS
  <2>5. u \in Seq(Char) /\ Then(u, s, LF)
    BY <1>2, <1>3, <2>4
  <2>6. Carries(x, u)
    BY <2>1, <2>3, <2>5, CarryLine
  <2> QED
    BY <2>2, <2>4, <2>6
<1>4. CASE c # LF
  <2> DEFINE x == Append(w, c)
  <2>1. x \in Seq(WireByte) /\ Then(x, w, c)
    BY <1>1, AppendThen
  <2>2. w \o UsartWriteByte(c) = x
    BY <1>1, <1>4, AppendIsConcat DEF UsartWriteByte
  <2> HIDE DEF x
  <2>3. PICK u : u = Append(s, c)
    OBVIOUS
  <2>4. u \in Seq(Char) /\ Then(u, s, c)
    BY <1>2, <2>3
  <2>5. Carries(x, u)
    BY <1>4, <2>1, <2>4, CarryOne
  <2> QED
    BY <2>2, <2>3, <2>5
<1> QED
  BY <1>3, <1>4

-----------------------------------------------------------------------------
StreamFields == {"flags", "length", "wire", "rc"}

\* The stream o carries the characters s, and has counted them.
StreamCarries(o, s) ==
  DOMAIN o = StreamFields /\ Carries(o.wire, s) /\ o.length = Len(s)

\* s and then text, if the stream o lets write.
Adding(o, s, text) == IF "wr" \in o.flags THEN s \o text ELSE s

\* p is the stream o, which carries s, after text was written.
Wrote(o, s, p, text) == p.flags = o.flags /\ StreamCarries(p, Adding(o, s, text))

LEMMA ReturnsWrote ==
  ASSUME NEW o, NEW s, NEW p, NEW text, Wrote(o, s, p, text), NEW x
  PROVE  Wrote(o, s, Returning(p, x), text)
BY DEF Wrote, StreamCarries, StreamFields, Returning

LEMMA NothingWrote ==
  ASSUME NEW o, NEW s, StreamCarries(o, s)
  PROVE  Wrote(o, s, o, <<>>)
<1>1. s \in Seq(Char)
  BY DEF StreamCarries, Carries
<1>2. s \o <<>> = s
  BY <1>1, ConcatEmptySeq
<1> QED
  BY <1>2 DEF Wrote, Adding

LEMMA BothWrote ==
  ASSUME NEW o, NEW s, NEW p, NEW q, NEW a \in Seq(Char), NEW b \in Seq(Char), s \in Seq(Char),
         Wrote(o, s, p, a), Wrote(p, Adding(o, s, a), q, b)
  PROVE  Wrote(o, s, q, a \o b)
<1>1. (s \o a) \o b = s \o (a \o b)
  BY ConcatAssociative
<1>2. p.flags = o.flags /\ q.flags = o.flags
  BY DEF Wrote
<1>3. Adding(p, Adding(o, s, a), b) = Adding(o, s, a \o b)
  BY <1>1, <1>2 DEF Adding
<1> QED
  BY <1>2, <1>3 DEF Wrote

LEMMA FputcWrote ==
  ASSUME NEW o, NEW s, StreamCarries(o, s), NEW c \in Char
  PROVE  Wrote(o, s, Fputc(o, c), <<c>>)
<1>1. s \in Seq(Char) /\ Len(s) \in Nat
  BY LenProperties DEF StreamCarries, Carries
<1>2. CASE "wr" \in o.flags
  <2>1. PICK w : w = o.wire \o UsartWriteByte(c)
    OBVIOUS
  <2>2. PICK u : u = Append(s, c)
    OBVIOUS
  <2>3. Carries(w, u)
    BY <2>1, <2>2, CarryChar DEF StreamCarries
  <2>4. Len(u) = Len(s) + 1
    BY <1>1, <2>2, AppendProperties
  <2>5. PICK n : n = o.length + 1
    OBVIOUS
  <2>6. n = Len(u)
    BY <2>4, <2>5 DEF StreamCarries
  <2>7. PICK p : p = [o EXCEPT !.wire = w, !.length = n, !.rc = c]
    OBVIOUS
  <2>8. Fputc(o, c) = p
    BY <1>2, <2>1, <2>5, <2>7 DEF Fputc
  <2>9. DOMAIN o = {"flags", "length", "wire", "rc"}
    BY DEF StreamCarries, StreamFields
  <2>10. DOMAIN p = {"flags", "length", "wire", "rc"}
    BY <2>7, <2>9
  <2>11. p.wire = w
    BY <2>7, <2>9
  <2>12. p.length = n
    BY <2>7, <2>9
  <2>13. p.flags = o.flags
    BY <2>7, <2>9
  <2>14. Adding(o, s, <<c>>) = u
    BY <1>1, <1>2, <2>2, AppendIsConcat DEF Adding
  <2> QED
    BY <2>3, <2>6, <2>8, <2>10, <2>11, <2>12, <2>13, <2>14 DEF Wrote, StreamCarries, StreamFields
<1>3. CASE "wr" \notin o.flags
  <2>1. Fputc(o, c) = Returning(o, -1) /\ Adding(o, s, <<c>>) = s
    BY <1>3 DEF Fputc, Adding
  <2>2. Adding(o, s, <<>>) = s
    BY <1>3 DEF Adding
  <2>3. Wrote(o, s, Returning(o, -1), <<>>)
    BY NothingWrote, ReturnsWrote
  <2> QED
    BY <2>1, <2>2, <2>3 DEF Wrote
<1> QED
  BY <1>2, <1>3

\* f is the function that PutEach defines, for the first n characters.
PutsUpTo(o, text, n, f) ==
  f[0] = o /\ \A j \in 1 .. n : f[j] = Fputc(f[j - 1], text[j])

LEMMA PutsExist ==
  ASSUME NEW o, NEW text, Len(text) \in Nat
  PROVE  \E f : DOMAIN f = 0 .. Len(text) /\ f = [j \in DOMAIN f |-> f[j]]
                /\ PutsUpTo(o, text, Len(text), f)
<1> DEFINE N == {n \in Nat : \E f : DOMAIN f = 0 .. n /\ f = [j \in DOMAIN f |-> f[j]]
                                    /\ PutsUpTo(o, text, n, f)}
<1>1. 0 \in N
  <2> DEFINE f == [j \in 0 .. 0 |-> o]
  <2>1. DOMAIN f = 0 .. 0 /\ f = [j \in DOMAIN f |-> f[j]] /\ PutsUpTo(o, text, 0, f)
    BY DEF PutsUpTo
  <2> QED
    BY <2>1
<1>2. ASSUME NEW n \in N PROVE n + 1 \in N
  <2>1. PICK f : DOMAIN f = 0 .. n /\ PutsUpTo(o, text, n, f)
    OBVIOUS
  <2> DEFINE step == Fputc(f[n], text[n + 1])
             g == [j \in 0 .. n + 1 |-> IF j <= n THEN f[j] ELSE step]
  <2>2. /\ \A j \in 0 .. n : g[j] = f[j]
        /\ g[n + 1] = Fputc(f[n], text[n + 1])
        /\ DOMAIN g = 0 .. n + 1 /\ g = [j \in DOMAIN g |-> g[j]]
    OBVIOUS
  <2> HIDE DEF g
  <2>3. ASSUME NEW j \in 1 .. n + 1 PROVE g[j] = Fputc(g[j - 1], text[j])
    <3>1. CASE j = n + 1
      <4>1. j - 1 = n /\ n \in 0 .. n
        BY <3>1
      <4> QED
        BY <2>2, <3>1, <4>1
    <3>2. CASE j # n + 1
      <4>1. j \in 1 .. n /\ j \in 0 .. n /\ j - 1 \in 0 .. n
        BY <3>2
      <4>2. f[j] = Fputc(f[j - 1], text[j])
        BY <2>1, <4>1 DEF PutsUpTo
      <4> QED
        BY <2>2, <4>1, <4>2
    <3> QED
      BY <3>1, <3>2
  <2>4. g[0] = o
    BY <2>1, <2>2 DEF PutsUpTo
  <2>5. DOMAIN g = 0 .. n + 1 /\ g = [j \in DOMAIN g |-> g[j]] /\ PutsUpTo(o, text, n + 1, g)
    BY <2>2, <2>3, <2>4 DEF PutsUpTo
  <2> QED
    BY <2>5
<1>3. N = Nat
  <2> HIDE DEF N
  <2>1. N \in SUBSET Nat
    BY DEF N
  <2> QED
    BY <1>1, <1>2, <2>1, Lists!AllNaturals
<1> QED
  BY <1>3

LEMMA PutEachIs ==
  ASSUME NEW o, NEW text, Len(text) \in Nat
  PROVE  \E f : PutsUpTo(o, text, Len(text), f) /\ PutEach(o, text) = f[Len(text)]
<1> DEFINE P(h) == h = [j \in 0 .. Len(text) |-> IF j = 0 THEN o ELSE Putc(h[j - 1], text[j])]
           c == CHOOSE h : P(h)
<1>1. PICK g : DOMAIN g = 0 .. Len(text) /\ g = [j \in DOMAIN g |-> g[j]]
               /\ PutsUpTo(o, text, Len(text), g)
  BY PutsExist
<1>2. P(g)
  <2>1. ASSUME NEW j \in 0 .. Len(text)
        PROVE  g[j] = IF j = 0 THEN o ELSE Putc(g[j - 1], text[j])
    <3>1. j = 0 \/ j \in 1 .. Len(text)
      OBVIOUS
    <3> QED
      BY <1>1, <3>1 DEF PutsUpTo, Putc
  <2> QED
    BY <1>1, <2>1
<1>3. P(c)
  BY <1>2
<1>4. PutEach(o, text) = c[Len(text)]
  BY Zenon DEF PutEach
<1> HIDE DEF c
<1>5. PutsUpTo(o, text, Len(text), c)
  <2>1. c[0] = o
    BY <1>3
  <2>2. ASSUME NEW j \in 1 .. Len(text) PROVE c[j] = Fputc(c[j - 1], text[j])
    <3>1. j \in 0 .. Len(text) /\ j # 0
      OBVIOUS
    <3> QED
      BY <1>3, <3>1 DEF Putc
  <2> QED
    BY <2>1, <2>2 DEF PutsUpTo
<1> QED
  BY <1>4, <1>5

LEMMA PutEachWrote ==
  ASSUME NEW o, NEW s, StreamCarries(o, s), NEW text \in Seq(Char)
  PROVE  Wrote(o, s, PutEach(o, text), text)
<1>1. Len(text) \in Nat /\ \A i \in 1 .. Len(text) : text[i] \in Char
  BY LenProperties
<1>2. PICK f : PutsUpTo(o, text, Len(text), f) /\ PutEach(o, text) = f[Len(text)]
  BY <1>1, PutEachIs
<1>3. s \in Seq(Char)
  BY DEF StreamCarries, Carries
\* t is the first n characters.
<1> DEFINE Part(n, t) == t \in Seq(Char) /\ Len(t) = n /\ \A i \in 1 .. n : t[i] = text[i]
           N == {n \in Nat : n <= Len(text) => \E t : Part(n, t) /\ Wrote(o, s, f[n], t)}
<1>4. 0 \in N
  <2>1. f[0] = o
    BY <1>2 DEF PutsUpTo
  <2>2. Part(0, <<>>)
    OBVIOUS
  <2> QED
    BY <2>1, <2>2, NothingWrote
<1>5. ASSUME NEW n \in N PROVE n + 1 \in N
  <2> SUFFICES ASSUME n + 1 <= Len(text)
               PROVE  \E t : Part(n + 1, t) /\ Wrote(o, s, f[n + 1], t)
    OBVIOUS
  <2>1. n \in Nat /\ n + 1 \in 1 .. Len(text) /\ (n + 1) - 1 = n /\ n <= Len(text)
    BY <1>1
  <2>2. PICK t : Part(n, t) /\ Wrote(o, s, f[n], t)
    BY <2>1
  <2>3. PICK c \in Char : c = text[n + 1]
    BY <1>1, <2>1
  <2>4. f[n + 1] = Fputc(f[n], c)
    BY <1>2, <2>1, <2>3 DEF PutsUpTo
  <2>5. Wrote(f[n], Adding(o, s, t), Fputc(f[n], c), <<c>>)
    BY <2>2, FputcWrote DEF Wrote
  <2>6. t \in Seq(Char) /\ <<c>> \in Seq(Char)
    BY <2>2
  <2>7. Wrote(o, s, f[n + 1], t \o <<c>>)
    BY <1>3, <2>2, <2>4, <2>5, <2>6, BothWrote
  <2>8. t \o <<c>> = Append(t, c)
    BY <2>6, AppendIsConcat
  <2>9. Append(t, c) \in Seq(Char) /\ Then(Append(t, c), t, c)
    BY <2>6, AppendThen
  <2>10. PICK u : u = Append(t, c)
    OBVIOUS
  <2>11. u \in Seq(Char) /\ Len(u) = n + 1 /\ u[n + 1] = text[n + 1]
         /\ \A i \in 1 .. n : u[i] = text[i]
    BY <2>2, <2>3, <2>9, <2>10 DEF Then
  <2>12. \A i \in 1 .. n + 1 : i = n + 1 \/ i \in 1 .. n
    BY <2>1
  <2>13. Part(n + 1, u)
    BY <2>11, <2>12
  <2> QED
    BY <2>7, <2>8, <2>10, <2>13
<1>6. N = Nat
  <2> HIDE DEF N
  <2>1. N \in SUBSET Nat
    BY DEF N
  <2> QED
    BY <1>4, <1>5, <2>1, Lists!AllNaturals
<1>7. PICK t : Part(Len(text), t) /\ Wrote(o, s, f[Len(text)], t)
  BY <1>1, <1>6
<1>8. t = text
  BY <1>7, SeqEqual
<1> QED
  BY <1>2, <1>7, <1>8

-----------------------------------------------------------------------------
StdioInv == StreamCarries(out, sent)

LEMMA StdioInitInv ==
  ASSUME StdioInit
  PROVE  StdioInv
<1>1. out = [flags |-> {"rd", "wr"}, length |-> 0, wire |-> <<>>, rc |-> 0] /\ sent = <<>>
  BY DEF StdioInit
<1>2. DOMAIN out = StreamFields /\ out.wire = <<>> /\ out.length = 0
  BY <1>1 DEF StreamFields
<1>3. <<>> \in Seq(WireByte) /\ <<>> \in Seq(Char) /\ Len(<<>>) = 0
  OBVIOUS
<1>4. Carries(<<>>, <<>>)
  BY <1>3, ReturnsOfNone DEF Carries
<1> QED
  BY <1>1, <1>2, <1>3, <1>4 DEF StdioInv, StreamCarries

LEMMA StdioInvImplies ==
  ASSUME StdioInv
  PROVE  WrittenInOrder
<1>1. /\ out.wire \in Seq(WireByte)
      /\ Len(out.wire) = Len(sent) + Returns(out.wire, Len(out.wire))
      /\ \A i \in 1 .. Len(out.wire) : out.wire[i] # CR =>
           \E k \in 1 .. Len(sent) : k = i - Returns(out.wire, i) /\ out.wire[i] = sent[k]
      /\ \A i \in 1 .. Len(out.wire) :
           out.wire[i] = CR <=> (i < Len(out.wire) /\ out.wire[i + 1] = LF)
      /\ out.length = Len(sent)
  BY DEF StdioInv, StreamCarries, Carries
<1>2. DOMAIN out.wire = 1 .. Len(out.wire)
  BY <1>1, LenProperties
<1> QED
  BY <1>1, <1>2 DEF WrittenInOrder

\* A call that wrote its text.
LEMMA DoesInv ==
  ASSUME StdioInv, NEW new, NEW text, Does(new, text), Wrote(out, sent, new, text)
  PROVE  StdioInv'
<1>1. out' = new /\ sent' = Adding(out, sent, text)
  BY DEF Does, Adding
<1> QED
  BY <1>1 DEF Wrote, StdioInv

LEMMA TextChars ==
  ASSUME NEW text \in Texts
  PROVE  text \in Seq(Char) /\ text[1] \in Char
<1>1. text \in Seq(Char) /\ text # <<>>
  BY StdioConstants DEF Char, WireByte
<1>2. 1 \in 1 .. Len(text)
  BY <1>1, EmptySeq, LenProperties
<1> QED
  BY <1>1, <1>2, ElementOfSeq

LEMMA VfprintfWrote ==
  ASSUME NEW o, NEW s, StreamCarries(o, s), NEW text \in Seq(Char), NEW memory
  PROVE  Wrote(o, s, VfprintfP(o, text, memory), IF memory THEN text ELSE <<>>)
<1>1. CASE memory
  <2>1. Wrote(o, s, PutEach(o, text), text)
    BY PutEachWrote
  <2>2. Wrote(o, s, Fprintf(o, text), text)
    BY <2>1, ReturnsWrote DEF Fprintf
  <2> QED
    BY <1>1, <2>2 DEF VfprintfP
<1>2. CASE ~memory
  <2>1. Wrote(o, s, Returning(o, -1), <<>>)
    BY NothingWrote, ReturnsWrote
  <2> QED
    BY <1>2, <2>1 DEF VfprintfP
<1> QED
  BY <1>1, <1>2

LEMMA StdioNextInv ==
  ASSUME StdioInv, StdioNext
  PROVE  StdioInv'
<1>1. StreamCarries(out, sent) /\ sent \in Seq(Char)
  BY DEF StdioInv, StreamCarries, Carries
<1>2. \A x : Wrote(out, sent, Returning(out, x), <<>>)
  BY <1>1, NothingWrote, ReturnsWrote
<1>3. ASSUME NEW x, Does(Returning(out, x), <<>>)
      PROVE  StdioInv'
  BY <1>2, <1>3, DoesInv
<1>4. ASSUME NEW c \in Char, Does(Fputc(out, c), <<c>>)
      PROVE  StdioInv'
  BY <1>1, <1>4, FputcWrote, DoesInv
<1>5. ASSUME NEW h, NEW text \in Texts, Write(h, text)
      PROVE  StdioInv'
  <2>1. text \in Seq(Char)
    BY TextChars
  <2>2. Wrote(out, sent, Fwrite(out, h \in slots, text), IF h \in slots THEN text ELSE <<>>)
    <3>1. CASE h \notin slots
      BY <1>2, <3>1 DEF Fwrite
    <3>2. CASE h \in slots /\ "wr" \in out.flags
      <4>1. Wrote(out, sent, UsartWrite(out, text), text)
        BY <1>1, <2>1, PutEachWrote, ReturnsWrote DEF UsartWrite
      <4> QED
        BY <3>2, <4>1 DEF Fwrite
    <3>3. CASE h \in slots /\ "wr" \notin out.flags
      <4>1. Fwrite(out, h \in slots, text) = Returning(out, -2)
        BY <3>3 DEF Fwrite
      <4>2. Wrote(out, sent, Returning(out, -2), text)
        BY <1>2, <3>3 DEF Wrote, Adding
      <4> QED
        BY <3>3, <4>1, <4>2
    <3> QED
      BY <3>1, <3>2, <3>3
  <2> QED
    BY <1>5, <2>2, DoesInv DEF Write
<1>6. ASSUME NEW text \in Texts, Puts(text) \/ Printf(text)
      PROVE  StdioInv'
  <2>1. text \in Seq(Char)
    BY TextChars
  <2>2. Wrote(out, sent, PutEach(out, text), text)
    BY <1>1, <2>1, PutEachWrote
  <2>3. \A x : Wrote(out, sent, Returning(PutEach(out, text), x), text)
    BY <2>2, ReturnsWrote
  <2>4. CASE Puts(text)
    <3>1. Does(Returning(PutEach(out, text), 0), text)
      BY <2>4 DEF Puts, Fputs
    <3> QED
      BY <2>3, <3>1, DoesInv
  <2>5. CASE Printf(text)
    <3>1. Does(Returning(PutEach(out, text), PutEach(out, text).length), text)
      BY <2>5 DEF Printf, Fprintf
    <3> QED
      BY <2>3, <3>1, DoesInv
  <2> QED
    BY <1>6, <2>4, <2>5
<1>7. ASSUME NEW text \in Texts, NEW memory \in BOOLEAN, PrintfP(text, memory)
      PROVE  StdioInv'
  <2>1. text \in Seq(Char)
    BY TextChars
  <2>2. Wrote(out, sent, VfprintfP(out, text, memory), IF memory THEN text ELSE <<>>)
    BY <1>1, <2>1, VfprintfWrote
  <2> QED
    BY <1>7, <2>2, DoesInv DEF PrintfP
<1>8. ASSUME NEW text \in Texts, NEW first \in BOOLEAN, NEW second \in BOOLEAN,
             Log(text, first, second)
      PROVE  StdioInv'
  <2> DEFINE a == IF first THEN text ELSE <<>>
             b == IF second THEN text ELSE <<>>
             p == FprintfP(out, text, first)
             q == VfprintfP(p, text, second)
  <2>1. text \in Seq(Char) /\ a \in Seq(Char) /\ b \in Seq(Char)
    BY TextChars
  <2>2. Wrote(out, sent, p, a)
    BY <1>1, <2>1, VfprintfWrote DEF FprintfP
  <2>3. Does(q, a \o b)
    BY <1>8 DEF Log, LogmsgP
  <2> HIDE DEF p
  <2>4. StreamCarries(p, Adding(out, sent, a))
    BY <2>2 DEF Wrote
  <2>5. PICK s : s = Adding(out, sent, a)
    OBVIOUS
  <2>6. Wrote(p, s, q, b)
    BY <2>1, <2>4, <2>5, VfprintfWrote
  <2> HIDE DEF a, b, q
  <2>7. Wrote(out, sent, q, a \o b)
    BY <1>1, <2>1, <2>2, <2>5, <2>6, BothWrote
  <2> QED
    BY <2>3, <2>7, DoesInv
<1>9. ASSUME NEW h, ModeClose(h)
      PROVE  StdioInv'
  <2>1. DOMAIN out = {"flags", "length", "wire", "rc"} /\ sent' = sent
    BY <1>1, <1>9 DEF ModeClose, StreamCarries, StreamFields
  <2>2. CASE \E m \in StreamModes : out' = [out EXCEPT !.flags = m, !.rc = 0]
    <3>1. PICK m : out' = [out EXCEPT !.flags = m, !.rc = 0]
      BY <2>2
    <3>2. DOMAIN out' = DOMAIN out /\ out'.wire = out.wire /\ out'.length = out.length
      BY <2>1, <3>1
    <3> QED
      BY <2>1, <3>2 DEF StdioInv, StreamCarries
  <2>3. CASE out' = Returning(out, 0)
    <3>1. DOMAIN out' = DOMAIN out /\ out'.wire = out.wire /\ out'.length = out.length
      BY <2>1, <2>3 DEF Returning
    <3> QED
      BY <2>1, <3>1 DEF StdioInv, StreamCarries
  <2> QED
    BY <1>9, <2>2, <2>3 DEF ModeClose
<1>10. ASSUME NEW h, NEW text \in Texts,
              \/ Put(h, text[1]) \/ Fdputc(h, text[1])
              \/ \E memory \in BOOLEAN : WriteP(h, text, memory)
              \/ Getb(h, text[1]) \/ Fdgetc(h, text[1]) \/ Read(h, text)
       PROVE  StdioInv'
  <2>1. text[1] \in Char
    BY TextChars
  <2>2. CASE Put(h, text[1]) \/ Fdputc(h, text[1])
    BY <1>3, <1>4, <2>1, <2>2 DEF Put, Fdputc
  <2>3. CASE \E memory \in BOOLEAN : WriteP(h, text, memory)
    BY <1>3, <1>5, <2>3 DEF WriteP
  <2>4. CASE Getb(h, text[1]) \/ Fdgetc(h, text[1]) \/ Read(h, text)
    BY <1>3, <2>4 DEF Getb, Fdgetc, Read, Getc, Fgetc, UsartRead
  <2> QED
    BY <1>10, <2>2, <2>3, <2>4
<1>11. ASSUME NEW h, Flush(h) \/ UsartClose(h) \/ UsartSocket
       PROVE  StdioInv'
  BY <1>3, <1>11 DEF Flush, UsartClose, UsartSocket
<1> QED
  BY <1>5, <1>6, <1>7, <1>8, <1>9, <1>10, <1>11 DEF StdioNext

-----------------------------------------------------------------------------
(***************************************************************************)
(* The serial memories, whose RAM one thread uses at a time.               *)
(***************************************************************************)
LEMMA TwoBytes ==
  ASSUME NEW a \in Nat, a < 65536
  PROVE  256 * ((a \div 256) % 256) + (a % 256) = a
<1>1. 256 * (a \div 256) + (a % 256) = a
  BY SMT
<1>2. a \div 256 \in Nat /\ a \div 256 <= 255
  BY SMT
<1>3. \A x \in Nat : x <= 255 => x % 256 = x
  BY SMT
<1>4. (a \div 256) % 256 = a \div 256
  BY <1>2, <1>3
<1> QED
  BY <1>1, <1>4

\* The address comes out of the two bytes that go over the bus.
LEMMA AddressBytes ==
  ASSUME NEW a \in Address
  PROVE  256 * ((a \div 256) % 256) + (a % 256) = a
<1>1. a \in Nat /\ a < 65536
  BY SerialMemoryConstants
<1> QED
  BY <1>1, TwoBytes

\* A sequence of four bytes.
Four(s, w, x, y, z) ==
  DOMAIN s = 1 .. 4 /\ s[1] = w /\ s[2] = x /\ s[3] = y /\ s[4] = z

LEMMA FourOf ==
  ASSUME NEW w, NEW x, NEW y, NEW z
  PROVE  Four(<<w, x, y, z>>, w, x, y, z)
BY DEF Four

\* What a thread that waits for the bus wants to do, and its sequence.
Intends(t) ==
  LET c == memCall[t]
  IN  \/ c.op = "write" /\ Four(seq[t], WRDA, (c.addr \div 256) % 256, c.addr % 256, c.value)
      \/ c.op = "read" /\ Four(seq[t], RDDA, (c.addr \div 256) % 256, c.addr % 256, 255)

MemoryInv ==
  /\ memAt \in [MemThread -> {"idle", "ram", "eeSocket", "eeFlush"}]
  /\ DOMAIN memCall = MemThread /\ DOMAIN seq = MemThread
  /\ \A t \in MemThread : memAt[t] # "idle" => memCall[t] \in MemCalls
  /\ \A t \in MemThread : memAt[t] = "ram" => client = t /\ Intends(t)
  /\ \A t \in MemThread : memAt[t] \in {"eeSocket", "eeFlush"} => memCall[t].addr \in EeAddress
  /\ DOMAIN ram = Address /\ DOMAIN ee = EeAddress
  /\ ReadsBack

LEMMA MemoryInitInv ==
  ASSUME MemoryInit
  PROVE  MemoryInv
BY DEF MemoryInit, MemoryInv, ReadsBack, NoResult

\* A thread returns, which changes nothing for the others.
LEMMA MemReturnInv ==
  ASSUME MemoryInv, NEW t \in MemThread, NEW s, DOMAIN s = MemThread,
         \A u \in MemThread \ {t} : memAt[u] = "ram" => s[u] = seq[u],
         MemReturn(t, s),
         DOMAIN ram' = Address, DOMAIN ee' = EeAddress, ReadsBack'
  PROVE  MemoryInv'
<1>1. /\ memAt' = [memAt EXCEPT ![t] = "idle"]
      /\ memCall' = [memCall EXCEPT ![t] = NoCall]
      /\ seq' = [s EXCEPT ![t] = <<>>]
      /\ client' = IF \E u \in MemThread \ {t} : memAt[u] = "ram" THEN client ELSE NoOne
  BY DEF MemReturn, MemGoto
<1>2. /\ memAt' \in [MemThread -> {"idle", "ram", "eeSocket", "eeFlush"}]
      /\ DOMAIN memCall' = MemThread /\ DOMAIN seq' = MemThread
      /\ memAt'[t] = "idle"
      /\ \A u \in MemThread \ {t} : memAt'[u] = memAt[u] /\ memCall'[u] = memCall[u]
  BY <1>1 DEF MemoryInv
<1>3. \A u \in MemThread \ {t} : seq'[u] = s[u]
  BY <1>1
<1>4. ASSUME NEW u \in MemThread, memAt'[u] = "ram"
      PROVE  client' = u /\ Intends(u)'
  <2>1. u # t /\ memAt[u] = "ram"
    BY <1>2, <1>4
  <2>2. client' = client /\ client = u /\ Intends(u)
    BY <1>1, <2>1 DEF MemoryInv
  <2>3. memCall'[u] = memCall[u] /\ seq'[u] = seq[u]
    BY <1>2, <1>3, <2>1
  <2> QED
    BY <2>2, <2>3 DEF Intends
<1>5. \A u \in MemThread : memAt'[u] # "idle" =>
        /\ memCall'[u] \in MemCalls
        /\ memAt'[u] \in {"eeSocket", "eeFlush"} => memCall'[u].addr \in EeAddress
  BY <1>2 DEF MemoryInv
<1> QED
  BY <1>2, <1>4, <1>5 DEF MemoryInv

LEMMA RamCallInv ==
  ASSUME MemoryInv, ~RamShared, NEW t \in MemThread, NEW c \in MemCalls, RamCall(t, c)
  PROVE  MemoryInv'
<1>1. /\ memAt[t] = "idle" /\ \A u \in MemThread : memAt[u] # "ram"
      /\ memCall' = [memCall EXCEPT ![t] = c]
      /\ seq' = [seq EXCEPT ![t] = IF c.op = "write" THEN WriteSeq(c.addr, c.value)
                                   ELSE ReadSeq(c.addr)]
      /\ client' = t
      /\ memAt' = [memAt EXCEPT ![t] = "ram"]
      /\ got' = NoResult
      /\ UNCHANGED <<ram, ee, eeMutex, ramKept, eeKept>>
  BY DEF RamCall, MemGoto
<1>2. /\ memAt' \in [MemThread -> {"idle", "ram", "eeSocket", "eeFlush"}]
      /\ DOMAIN memCall' = MemThread /\ DOMAIN seq' = MemThread
      /\ memAt'[t] = "ram" /\ memCall'[t] = c
      /\ \A u \in MemThread \ {t} : memAt'[u] = memAt[u] /\ memCall'[u] = memCall[u]
  BY <1>1 DEF MemoryInv
<1>3. Intends(t)'
  <2>1. CASE c.op = "write"
    <3>1. seq'[t] = WriteSeq(c.addr, c.value)
      BY <1>1, <2>1 DEF MemoryInv
    <3>2. Four(seq'[t], WRDA, (c.addr \div 256) % 256, c.addr % 256, c.value)
      BY <3>1, FourOf DEF WriteSeq
    <3> QED
      BY <1>2, <2>1, <3>2 DEF Intends
  <2>2. CASE c.op # "write"
    <3>1. c.op = "read"
      BY <2>2 DEF MemCalls
    <3>2. seq'[t] = ReadSeq(c.addr)
      BY <1>1, <2>2 DEF MemoryInv
    <3>3. Four(seq'[t], RDDA, (c.addr \div 256) % 256, c.addr % 256, 255)
      BY <3>2, FourOf DEF ReadSeq
    <3> QED
      BY <1>2, <3>1, <3>3 DEF Intends
  <2> QED
    BY <2>1, <2>2
<1>4. ReadsBack' /\ DOMAIN ram' = Address /\ DOMAIN ee' = EeAddress
  BY <1>1 DEF MemoryInv, ReadsBack, NoResult
<1>5. \A u \in MemThread : memAt'[u] = "ram" => u = t
  BY <1>1, <1>2
<1>6. \A u \in MemThread : memAt'[u] # "idle" =>
        /\ memCall'[u] \in MemCalls
        /\ memAt'[u] \in {"eeSocket", "eeFlush"} => memCall'[u].addr \in EeAddress
  BY <1>2 DEF MemoryInv
<1> QED
  BY <1>1, <1>2, <1>3, <1>4, <1>5, <1>6 DEF MemoryInv

\* The chip writes where the thread wanted to, or answers with what is there.
LEMMA RamFlushInv ==
  ASSUME MemoryInv, NEW t \in MemThread, RamFlush(t)
  PROVE  MemoryInv'
<1> DEFINE c == memCall[t]
           s == seq[t]
           answered == [seq EXCEPT ![client] = Answered(seq[client])]
<1>1. memAt[t] = "ram" /\ client = t /\ Intends(t) /\ c \in MemCalls
  BY DEF RamFlush, MemoryInv
<1>2. /\ ram' = Chip(s)
      /\ ramKept' = IF c.op = "write" THEN [ramKept EXCEPT ![c.addr] = c.value] ELSE ramKept
      /\ got' = IF c.op = "write" THEN NoResult
                ELSE [value |-> answered[t][4], due |-> {ramKept[c.addr]}]
      /\ MemReturn(t, answered)
      /\ UNCHANGED <<ee, eeMutex, eeKept>>
  BY <1>1 DEF RamFlush
<1>3. DOMAIN answered = MemThread /\ answered[t] = Answered(s)
      /\ \A u \in MemThread \ {t} : answered[u] = seq[u]
  BY <1>1 DEF MemoryInv
<1>4. c.addr \in Address /\ 256 * ((c.addr \div 256) % 256) + (c.addr % 256) = c.addr
  <2>1. c.addr \in Address
    BY <1>1 DEF MemCalls
  <2> QED
    BY <2>1, AddressBytes
<1> HIDE DEF answered
<1>5. WRDA # RDDA
  BY DEF WRDA, RDDA
<1>6. CASE c.op = "write"
  <2>1. Four(s, WRDA, (c.addr \div 256) % 256, c.addr % 256, c.value)
    BY <1>1, <1>6 DEF Intends
  <2>2. Chip(s) = [ram EXCEPT ![c.addr] = c.value]
    BY <1>4, <2>1 DEF Chip, Four
  <2>3. ReadsBack' /\ DOMAIN ram' = Address /\ DOMAIN ee' = EeAddress
    BY <1>2, <1>6, <2>2 DEF ReadsBack, MemoryInv, NoResult
  <2> QED
    BY <1>2, <1>3, <2>3, MemReturnInv
<1>7. CASE c.op = "read"
  <2>1. Four(s, RDDA, (c.addr \div 256) % 256, c.addr % 256, 255)
    BY <1>1, <1>7 DEF Intends
  <2>2. Chip(s) = ram
    BY <1>5, <2>1 DEF Chip, Four
  <2>3. Answered(s) = [s EXCEPT ![4] = ram[c.addr]]
    BY <1>4, <2>1 DEF Answered, Four
  <2>4. Answered(s)[4] = ram[c.addr]
    BY <2>1, <2>3 DEF Four
  <2>5. got' = [value |-> ram[c.addr], due |-> {ramKept[c.addr]}] /\ ramKept' = ramKept
    BY <1>2, <1>3, <1>7, <2>4
  <2>6. got'.value \in got'.due
    BY <2>5 DEF MemoryInv, ReadsBack
  <2>7. ReadsBack' /\ DOMAIN ram' = Address /\ DOMAIN ee' = EeAddress
    BY <1>2, <2>2, <2>5, <2>6 DEF ReadsBack, MemoryInv
  <2> QED
    BY <1>2, <1>3, <2>7, MemReturnInv
<1> QED
  BY <1>1, <1>6, <1>7 DEF Intends

LEMMA RamTmoInv ==
  ASSUME MemoryInv, NEW t \in MemThread, RamTmo(t)
  PROVE  MemoryInv'
<1>1. memAt[t] = "ram" /\ Intends(t) /\ DOMAIN seq = MemThread
  BY DEF RamTmo, MemoryInv
<1>2. /\ got' = IF memCall[t].op = "read" THEN [value |-> seq[t][4], due |-> {255}] ELSE NoResult
      /\ MemReturn(t, seq)
      /\ UNCHANGED <<ram, ee, eeMutex, ramKept, eeKept>>
  BY DEF RamTmo
<1>3. memCall[t].op = "read" => seq[t][4] = 255
  BY <1>1 DEF Intends, Four
<1>4. got'.value \in got'.due
  BY <1>2, <1>3 DEF NoResult
<1>5. ReadsBack' /\ DOMAIN ram' = Address /\ DOMAIN ee' = EeAddress
  BY <1>2, <1>4 DEF ReadsBack, MemoryInv
<1> QED
  BY <1>1, <1>2, <1>5, MemReturnInv

LEMMA EeCallInv ==
  ASSUME MemoryInv, NEW t \in MemThread, NEW c \in MemCalls, EeCall(t, c)
  PROVE  MemoryInv'
<1>1. /\ memAt[t] = "idle" /\ c.addr \in EeAddress
      /\ memCall' = [memCall EXCEPT ![t] = c]
      /\ memAt' = [memAt EXCEPT ![t] = "eeSocket"]
      /\ got' = NoResult
      /\ UNCHANGED <<ram, ee, seq, client, eeMutex, ramKept, eeKept>>
  BY DEF EeCall, MemGoto
<1>2. /\ memAt' \in [MemThread -> {"idle", "ram", "eeSocket", "eeFlush"}]
      /\ DOMAIN memCall' = MemThread /\ DOMAIN seq' = MemThread
      /\ memAt'[t] = "eeSocket" /\ memCall'[t] = c
      /\ \A u \in MemThread \ {t} : memAt'[u] = memAt[u] /\ memCall'[u] = memCall[u]
  BY <1>1 DEF MemoryInv
<1>3. ReadsBack' /\ DOMAIN ram' = Address /\ DOMAIN ee' = EeAddress
  BY <1>1 DEF MemoryInv, ReadsBack, NoResult
<1>4. ASSUME NEW u \in MemThread, memAt'[u] = "ram"
      PROVE  client' = u /\ Intends(u)'
  <2>1. u # t /\ memAt[u] = "ram"
    BY <1>2, <1>4
  <2> QED
    BY <1>1, <1>2, <2>1 DEF MemoryInv, Intends
<1>5. \A u \in MemThread : memAt'[u] # "idle" =>
        /\ memCall'[u] \in MemCalls
        /\ memAt'[u] \in {"eeSocket", "eeFlush"} => memCall'[u].addr \in EeAddress
  BY <1>1, <1>2 DEF MemoryInv
<1> QED
  BY <1>2, <1>3, <1>4, <1>5 DEF MemoryInv

LEMMA EeSocketInv ==
  ASSUME MemoryInv, NEW t \in MemThread, EeSocket(t)
  PROVE  MemoryInv'
<1>1. /\ memAt[t] = "eeSocket"
      /\ memAt' = [memAt EXCEPT ![t] = "eeFlush"]
      /\ got' = NoResult
      /\ UNCHANGED <<ram, ee, memCall, seq, client, ramKept, eeKept>>
  BY DEF EeSocket, MemGoto
<1>2. /\ memAt' \in [MemThread -> {"idle", "ram", "eeSocket", "eeFlush"}]
      /\ memAt'[t] = "eeFlush"
      /\ \A u \in MemThread \ {t} : memAt'[u] = memAt[u]
  BY <1>1 DEF MemoryInv
<1>3. ReadsBack' /\ DOMAIN ram' = Address /\ DOMAIN ee' = EeAddress
  BY <1>1 DEF MemoryInv, ReadsBack, NoResult
<1>4. ASSUME NEW u \in MemThread, memAt'[u] = "ram"
      PROVE  client' = u /\ Intends(u)'
  <2>1. u # t /\ memAt[u] = "ram"
    BY <1>2, <1>4
  <2> QED
    BY <1>1, <2>1 DEF MemoryInv, Intends
<1>5. \A u \in MemThread : memAt'[u] # "idle" =>
        /\ memCall'[u] \in MemCalls
        /\ memAt'[u] \in {"eeSocket", "eeFlush"} => memCall'[u].addr \in EeAddress
  BY <1>1, <1>2 DEF MemoryInv
<1> QED
  BY <1>1, <1>2, <1>3, <1>4, <1>5 DEF MemoryInv

LEMMA EeReturnInv ==
  ASSUME MemoryInv, NEW t \in MemThread,
         EeSocketTmo(t) \/ \E done \in BOOLEAN : EeFlush(t, done)
  PROVE  MemoryInv'
<1>1. DOMAIN seq = MemThread
  BY DEF MemoryInv
<1>2. CASE EeSocketTmo(t)
  <2>1. /\ got' = IF memCall[t].op = "read" THEN [value |-> 255, due |-> {255}] ELSE NoResult
        /\ MemReturn(t, seq) /\ UNCHANGED <<ram, ee, eeMutex, ramKept, eeKept>>
    BY <1>2 DEF EeSocketTmo
  <2>2. got'.value \in got'.due
    BY <2>1 DEF NoResult
  <2>3. ReadsBack' /\ DOMAIN ram' = Address /\ DOMAIN ee' = EeAddress
    BY <2>1, <2>2 DEF ReadsBack, MemoryInv
  <2> QED
    BY <1>1, <2>1, <2>3, MemReturnInv
<1>3. ASSUME NEW done \in BOOLEAN, EeFlush(t, done)
      PROVE  MemoryInv'
  <2> DEFINE c == memCall[t]
             written == done /\ c.op = "write"
  <2>1. /\ memAt[t] = "eeFlush"
        /\ ee' = IF written THEN [ee EXCEPT ![c.addr] = c.value] ELSE ee
        /\ eeKept' = IF written THEN [eeKept EXCEPT ![c.addr] = c.value] ELSE eeKept
        /\ got' = IF c.op = "write" THEN NoResult
                  ELSE [value |-> IF done THEN ee[c.addr] ELSE 0, due |-> {eeKept[c.addr], 0}]
        /\ MemReturn(t, seq)
        /\ UNCHANGED <<ram, ramKept>>
    BY <1>3 DEF EeFlush
  <2>2. ee = eeKept /\ ram = ramKept /\ DOMAIN ee = EeAddress /\ DOMAIN ram = Address
    BY DEF MemoryInv, ReadsBack
  <2>3. got'.value \in got'.due
    <3>1. CASE c.op = "write"
      BY <2>1, <3>1 DEF NoResult
    <3>2. CASE c.op # "write"
      <4>1. got'.value = (IF done THEN ee[c.addr] ELSE 0) /\ got'.due = {eeKept[c.addr], 0}
        BY <2>1, <3>2
      <4> QED
        BY <2>2, <4>1
    <3> QED
      BY <3>1, <3>2
  <2>4. ee' = eeKept' /\ DOMAIN ee' = EeAddress
    BY <2>1, <2>2
  <2>5. ReadsBack' /\ DOMAIN ram' = Address
    BY <2>1, <2>2, <2>3, <2>4 DEF ReadsBack
  <2> QED
    BY <1>1, <2>1, <2>4, <2>5, MemReturnInv
<1> QED
  BY <1>2, <1>3

LEMMA MemoryNextInv ==
  ASSUME MemoryInv, ~RamShared, MemoryNext
  PROVE  MemoryInv'
BY RamCallInv, RamFlushInv, RamTmoInv, EeCallInv, EeSocketInv, EeReturnInv DEF MemoryNext

-----------------------------------------------------------------------------
(***************************************************************************)
(* The pins and timers: no two pins have the same bit of the same port.    *)
(***************************************************************************)
LEMMA OwnBit ==
  ASSUME NEW p \in BoardPin, NEW q \in BoardPin,
         BermudaPinToPort[p] = BermudaPinToPort[q], BermudaPinToMask[p] = BermudaPinToMask[q]
  PROVE  p = q
<1>1. p \in 0 .. 18 /\ q \in 0 .. 18 /\ p \in 0 .. 19 /\ q \in 0 .. 19
  BY BoardConstants
<1>2. /\ BermudaPinToPort[p] = IF p < 8 THEN "D" ELSE IF p < 14 THEN "B" ELSE "C"
      /\ BermudaPinToPort[q] = IF q < 8 THEN "D" ELSE IF q < 14 THEN "B" ELSE "C"
  BY <1>1 DEF BermudaPinToPort
<1>3. /\ BermudaPinToMask[p] = IF p < 8 THEN p ELSE IF p < 14 THEN p - 8 ELSE p - 14
      /\ BermudaPinToMask[q] = IF q < 8 THEN q ELSE IF q < 14 THEN q - 8 ELSE q - 14
  BY <1>1 DEF BermudaPinToMask
<1>4. (p < 8 <=> q < 8) /\ (p < 14 <=> q < 14)
  <2>1. "D" # "B" /\ "D" # "C" /\ "B" # "C"
    OBVIOUS
  <2>2. (p < 8 => p < 14) /\ (q < 8 => q < 14)
    BY <1>1
  <2> QED
    BY <1>2, <2>1, <2>2
<1>5. CASE p < 8
  BY <1>3, <1>4, <1>5
<1>6. CASE ~(p < 8) /\ p < 14
  <2>1. p - 8 = q - 8
    BY <1>3, <1>4, <1>6
  <2> QED
    BY <1>1, <2>1
<1>7. CASE ~(p < 8) /\ ~(p < 14)
  <2>1. p - 14 = q - 14
    BY <1>3, <1>4, <1>7
  <2> QED
    BY <1>1, <2>1
<1> QED
  BY <1>5, <1>6, <1>7

LEMMA PortOfPin ==
  ASSUME NEW p \in BoardPin
  PROVE  BermudaPinToPort[p] \in {"B", "C", "D"}
<1>1. p \in 0 .. 18
  BY BoardConstants
<1> QED
  BY <1>1 DEF BermudaPinToPort

\* Only the bit of the pin changes.
LEMMA WithBitProps ==
  ASSUME NEW reg, DOMAIN reg = {"B", "C", "D"}, NEW p \in BoardPin, NEW on \in BOOLEAN
  PROVE  /\ DOMAIN WithBit(reg, p, on) = {"B", "C", "D"}
         /\ BitOf(WithBit(reg, p, on), p) <=> on
         /\ \A q \in BoardPin \ {p} : BitOf(WithBit(reg, p, on), q) <=> BitOf(reg, q)
<1> DEFINE n == BermudaPinToPort[p]
           b == BermudaPinToMask[p]
           new == IF on THEN reg[n] \cup {b} ELSE reg[n] \ {b}
<1>1. PICK r : r = WithBit(reg, p, on)
  OBVIOUS
<1>2. n \in DOMAIN reg
  BY PortOfPin
<1>3. r = [reg EXCEPT ![n] = new]
  BY <1>1 DEF WithBit
<1>4. \A q \in BoardPin \ {p} : BermudaPinToPort[q] # n \/ BermudaPinToMask[q] # b
  BY OwnBit
<1> HIDE DEF n, b, new
<1>5. DOMAIN r = DOMAIN reg /\ r[n] = new /\ \A m \in DOMAIN reg \ {n} : r[m] = reg[m]
  BY <1>2, <1>3
<1>6. BitOf(r, p) <=> on
  BY <1>5 DEF BitOf, n, b, new
<1>7. ASSUME NEW q \in BoardPin \ {p} PROVE BitOf(r, q) <=> BitOf(reg, q)
  <2>1. BermudaPinToPort[q] \in DOMAIN reg
    BY PortOfPin
  <2>2. CASE BermudaPinToPort[q] # n
    BY <1>5, <2>1, <2>2 DEF BitOf
  <2>3. CASE BermudaPinToPort[q] = n
    BY <1>4, <1>5, <2>3 DEF BitOf, new
  <2> QED
    BY <2>2, <2>3
<1> QED
  BY <1>1, <1>5, <1>6, <1>7

-----------------------------------------------------------------------------
\* The numbers by their digits.
LEMMA Digits ==
  B(<<1, 1, 1>>) = {0, 1, 2} /\ B(<<1, 1>>) = {0, 1} /\ B(<<0>>) = {}
<1>1. B(<<1, 1, 1>>) = {0, 1, 2}
  <2>1. PICK s : s = <<1, 1, 1>>
    OBVIOUS
  <2>2. Len(s) = 3 /\ \A i \in 1 .. 3 : s[i] = 1
    BY <2>1
  <2>3. \A i \in Int : i \in Bit \cap 0 .. 3 - 1 <=> i \in {0, 1, 2}
    BY DEF Bit
  <2>4. \A i \in {0, 1, 2} : s[3 - i] = 1
    BY <2>2
  <2>5. B(s) = {i \in Bit \cap 0 .. 3 - 1 : s[3 - i] = 1}
    BY <2>2 DEF B
  <2>6. Bit \cap 0 .. 3 - 1 = {0, 1, 2}
    BY DEF Bit
  <2> QED
    BY <2>1, <2>4, <2>5, <2>6
<1>2. B(<<1, 1>>) = {0, 1}
  <2>1. PICK s : s = <<1, 1>>
    OBVIOUS
  <2>2. Len(s) = 2 /\ \A i \in 1 .. 2 : s[i] = 1
    BY <2>1
  <2>4. \A i \in {0, 1} : s[2 - i] = 1
    BY <2>2
  <2>5. B(s) = {i \in Bit \cap 0 .. 2 - 1 : s[2 - i] = 1}
    BY <2>2 DEF B
  <2>6. Bit \cap 0 .. 2 - 1 = {0, 1}
    BY DEF Bit
  <2> QED
    BY <2>1, <2>4, <2>5, <2>6
<1>3. B(<<0>>) = {}
  <2>1. PICK s : s = <<0>>
    OBVIOUS
  <2>2. Len(s) = 1 /\ s[1] = 0
    BY <2>1
  <2>5. B(s) = {i \in Bit \cap 0 .. 1 - 1 : s[1 - i] = 1}
    BY <2>2 DEF B
  <2>6. Bit \cap 0 .. 1 - 1 = {0}
    BY DEF Bit
  <2> QED
    BY <2>1, <2>2, <2>5, <2>6
<1> QED
  BY <1>1, <1>2, <1>3

\* The fields of the timer t.
TimerIs(t, a, b, m, o, p) ==
  /\ DOMAIN t = {"controlA", "controlB", "int_mask", "output_comp_a", "prescaler"}
  /\ t.controlA = a /\ t.controlB = b /\ t.int_mask = m /\ t.output_comp_a = o
  /\ t.prescaler = p

LEMMA SetCompare ==
  ASSUME NEW t, NEW a, NEW b, NEW m, NEW o, NEW p, TimerIs(t, a, b, m, o, p),
         a \in SUBSET {0, 1}
  PROVE  TimerIs(BermudaTimerSetOutputCompareMatch(t, {}), {}, b, m, o, p)
<1>1. (a \cap 4 .. 7) \cup {x + 4 : x \in {} \cap 0 .. 3} = {}
  OBVIOUS
<1>2. BermudaTimerSetOutputCompareMatch(t, {}) =
        [t EXCEPT !.controlA = (a \cap 4 .. 7) \cup {x + 4 : x \in {} \cap 0 .. 3}]
  BY DEF BermudaTimerSetOutputCompareMatch, TimerIs
<1>3. BermudaTimerSetOutputCompareMatch(t, {}) = [t EXCEPT !.controlA = {}]
  BY <1>1, <1>2
<1> QED
  BY <1>3 DEF TimerIs

LEMMA SetPrescaler ==
  ASSUME NEW t, NEW a, NEW b, NEW m, NEW o, NEW p, TimerIs(t, a, b, m, o, p), NEW pres
  PROVE  TimerIs(BermudaTimerSetPrescaler(t, pres), a,
                 (b \ {0, 1, 2}) \cup (pres \cap {0, 1, 2}), m, o, pres \cap {0, 1, 2})
<1> DEFINE x == (b \ {0, 1, 2}) \cup (pres \cap {0, 1, 2})
           y == pres \cap {0, 1, 2}
<1>1. BermudaTimerSetPrescaler(t, pres) = [t EXCEPT !.controlB = x, !.prescaler = y]
  BY Digits DEF BermudaTimerSetPrescaler, TimerIs
<1> HIDE DEF x, y
<1>2. TimerIs([t EXCEPT !.controlB = x, !.prescaler = y], a, x, m, o, y)
  BY DEF TimerIs
<1> QED
  BY <1>1, <1>2 DEF x, y

LEMMA SetWaveForm ==
  ASSUME NEW t, NEW a, NEW b, NEW m, NEW o, NEW p, TimerIs(t, a, b, m, o, p)
  PROVE  TimerIs(BermudaTimerSetWaveFormMode(t, {0, 1, 2}),
                 (a \ {0, 1}) \cup {0, 1}, (b \ {3}) \cup {3}, m, o, p)
<1> DEFINE x == (a \ {0, 1}) \cup {0, 1}
           y == (b \ {3}) \cup {3}
<1>1. {0, 1, 2} \cap {0, 1} = {0, 1} /\ 0 \in {0, 1, 2}
  OBVIOUS
<1>2. BermudaTimerSetWaveFormMode(t, {0, 1, 2}) = [t EXCEPT !.controlA = x, !.controlB = y]
  BY <1>1 DEF BermudaTimerSetWaveFormMode, TimerIs
<1> HIDE DEF x, y
<1>3. TimerIs([t EXCEPT !.controlA = x, !.controlB = y], x, y, m, o, p)
  BY DEF TimerIs
<1> QED
  BY <1>2, <1>3 DEF x, y

LEMMA FastPWMProps ==
  ASSUME NEW t, NEW a, NEW b, NEW m, NEW o, NEW p, TimerIs(t, a, b, m, o, p),
         a \in SUBSET {0, 1}, b \in SUBSET {0, 1, 3}
  PROVE  TimerIs(FastPWM(t), {0, 1}, {0, 1, 3}, m, 250, {0, 1})
<1> DEFINE t1 == BermudaTimerSetOutputCompareMatch(t, {})
           t2 == BermudaTimerSetPrescaler(t1, {0, 1})
           t3 == BermudaTimerSetWaveFormMode(t2, {0, 1, 2})
           b2 == (b \ {0, 1, 2}) \cup ({0, 1} \cap {0, 1, 2})
<1>1. FastPWM(t) = [t3 EXCEPT !.output_comp_a = 250]
  BY Digits DEF FastPWM, BermudaHardwareTimerInit
<1>2. TimerIs(t1, {}, b, m, o, p)
  BY SetCompare
<1> HIDE DEF t1
<1>3. TimerIs(t2, {}, b2, m, o, {0, 1} \cap {0, 1, 2})
  BY <1>2, SetPrescaler
<1> HIDE DEF t2, b2
<1>4. TimerIs(t3, ({} \ {0, 1}) \cup {0, 1}, (b2 \ {3}) \cup {3}, m, o, {0, 1} \cap {0, 1, 2})
  BY <1>3, SetWaveForm
<1> HIDE DEF t3
<1>5. /\ ({} \ {0, 1}) \cup {0, 1} = {0, 1} /\ {0, 1} \cap {0, 1, 2} = {0, 1}
      /\ (b2 \ {3}) \cup {3} = {0, 1, 3}
  BY DEF b2
<1>6. TimerIs(t3, {0, 1}, {0, 1, 3}, m, o, {0, 1})
  BY <1>4, <1>5
<1>7. TimerIs([t3 EXCEPT !.output_comp_a = 250], {0, 1}, {0, 1, 3}, m, 250, {0, 1})
  BY <1>6 DEF TimerIs
<1> QED
  BY <1>1, <1>7

-----------------------------------------------------------------------------
\* What was set is in the registers.
PinInv ==
  /\ DOMAIN ddr = {"B", "C", "D"} /\ DOMAIN port = {"B", "C", "D"}
  /\ pinSet \in [BoardPin -> [output : BOOLEAN, high : BOOLEAN]]
  /\ \A p \in BoardPin :
       (pinSet[p].output <=> BitOf(ddr, p)) /\ (pinSet[p].high <=> BitOf(port, p))
  /\ pinRead.high \in pinRead.due

Runs(runs, init) == (IF runs THEN {0, 1} ELSE {}) \cup (IF init THEN {3} ELSE {})

HwTimerInv ==
  /\ timer0 = BermudaInitTimer0
  /\ timerSet \in [init : BOOLEAN, runs : BOOLEAN, isrs : SUBSET {0, 1, 2}, top : 0 .. 255]
  /\ timerSet.runs => timerSet.init
  /\ TimerIs(timer2, IF timerSet.init THEN {0, 1} ELSE {}, Runs(timerSet.runs, timerSet.init),
             timerSet.isrs, timerSet.top, timer2.prescaler)
  /\ timerSet.init => timer2.prescaler = {0, 1}

BoardInv == PinInv /\ HwTimerInv

LEMMA BoardInitInv ==
  ASSUME BoardInit
  PROVE  BoardInv
<1>1. PinInv
  <2>1. ASSUME NEW p \in BoardPin PROVE ~BitOf(ddr, p) /\ ~BitOf(port, p)
    BY PortOfPin DEF BoardInit, BitOf
  <2> QED
    BY <2>1 DEF BoardInit, PinInv
<1>2. HwTimerInv
  <2>1. timer0 = BermudaInitTimer0 /\ timer2 = NewTimer
        /\ timerSet = [init |-> FALSE, runs |-> FALSE, isrs |-> {}, top |-> 0]
    BY DEF BoardInit
  <2>2. ~timerSet.init /\ ~timerSet.runs /\ timerSet.isrs = {} /\ timerSet.top = 0
    BY <2>1
  <2>3. timerSet \in [init : BOOLEAN, runs : BOOLEAN, isrs : SUBSET {0, 1, 2}, top : 0 .. 255]
    BY <2>1
  <2>4. TimerIs(timer2, {}, {}, {}, 0, timer2.prescaler)
    BY <2>1 DEF NewTimer, TimerIs
  <2> QED
    BY <2>1, <2>2, <2>3, <2>4 DEF HwTimerInv, Runs
<1> QED
  BY <1>1, <1>2 DEF BoardInv

LEMMA BoardInvImplies ==
  ASSUME BoardInv
  PROVE  PinsKept
BY Digits DEF BoardInv, PinInv, HwTimerInv, PinsKept, TimerIs, Runs

LEMMA PinNextInv ==
  ASSUME BoardInv, PinNext
  PROVE  BoardInv'
<1> PICK p \in BoardPin, on \in BOOLEAN :
      BermudaSetPinMode(p, on) \/ BermudaDigitalPinWrite(p, on) \/ BermudaDigitalPinRead(p)
  BY DEF PinNext
<1>1. HwTimerInv'
  BY DEF BoardInv, HwTimerInv, BermudaSetPinMode, BermudaDigitalPinWrite, BermudaDigitalPinRead
<1>2. CASE BermudaSetPinMode(p, on)
  <2>1. /\ ddr' = WithBit(ddr, p, on) /\ pinSet' = [pinSet EXCEPT ![p].output = on]
        /\ UNCHANGED <<port, pinRead>>
    BY <1>2 DEF BermudaSetPinMode
  <2>2. /\ pinSet' \in [BoardPin -> [output : BOOLEAN, high : BOOLEAN]]
        /\ pinSet'[p].output = on /\ pinSet'[p].high = pinSet[p].high
        /\ \A q \in BoardPin \ {p} : pinSet'[q] = pinSet[q]
    BY <2>1 DEF BoardInv, PinInv
  <2>3. PinInv'
    BY <2>1, <2>2, WithBitProps DEF BoardInv, PinInv
  <2> QED
    BY <1>1, <2>3 DEF BoardInv
<1>3. CASE BermudaDigitalPinWrite(p, on)
  <2>1. /\ port' = WithBit(port, p, on) /\ pinSet' = [pinSet EXCEPT ![p].high = on]
        /\ UNCHANGED <<ddr, pinRead>>
    BY <1>3 DEF BermudaDigitalPinWrite
  <2>2. /\ pinSet' \in [BoardPin -> [output : BOOLEAN, high : BOOLEAN]]
        /\ pinSet'[p].high = on /\ pinSet'[p].output = pinSet[p].output
        /\ \A q \in BoardPin \ {p} : pinSet'[q] = pinSet[q]
    BY <2>1 DEF BoardInv, PinInv
  <2>3. PinInv'
    BY <2>1, <2>2, WithBitProps DEF BoardInv, PinInv
  <2> QED
    BY <1>1, <2>3 DEF BoardInv
<1>4. CASE BermudaDigitalPinRead(p)
  <2>1. PICK level \in BOOLEAN :
          pinRead' = [high |-> IF BitOf(ddr, p) THEN BitOf(port, p) ELSE level,
                      due |-> IF pinSet[p].output THEN {pinSet[p].high} ELSE BOOLEAN]
    BY <1>4 DEF BermudaDigitalPinRead
  <2>2. pinRead'.high = IF BitOf(ddr, p) THEN BitOf(port, p) ELSE level
    BY <2>1
  <2>3. pinRead'.due = IF pinSet[p].output THEN {pinSet[p].high} ELSE BOOLEAN
    BY <2>1
  <2>4. pinSet[p].output \in BOOLEAN /\ pinSet[p].high \in BOOLEAN
    BY DEF BoardInv, PinInv
  <2>5. (pinSet[p].output <=> BitOf(ddr, p)) /\ (pinSet[p].high <=> BitOf(port, p))
    BY DEF BoardInv, PinInv
  <2>6. pinRead'.high \in pinRead'.due
    <3> DEFINE x == BitOf(ddr, p)
               y == BitOf(port, p)
    <3>1. x \in BOOLEAN /\ y \in BOOLEAN
      BY DEF BitOf
    <3>2. pinSet[p].output = x /\ pinSet[p].high = y
      <4>1. (pinSet[p].output <=> x) /\ (pinSet[p].high <=> y)
        BY <2>5
      <4> HIDE DEF x, y
      <4> QED
        BY <2>4, <3>1, <4>1
    <3>3. pinRead'.high = IF x THEN y ELSE level
      BY <2>2
    <3> HIDE DEF x, y
    <3>4. CASE x = TRUE
      <4>1. pinRead'.high = y
        BY <3>3, <3>4
      <4>2. pinRead'.due = {y}
        BY <2>3, <3>2, <3>4
      <4> QED
        BY <4>1, <4>2
    <3>5. CASE x = FALSE
      <4>1. pinRead'.high = level
        BY <3>3, <3>5
      <4>2. pinRead'.due = BOOLEAN
        BY <2>3, <3>2, <3>5
      <4> QED
        BY <4>1, <4>2
    <3> QED
      BY <3>1, <3>4, <3>5
  <2>7. UNCHANGED <<ddr, port, pinSet>>
    BY <1>4 DEF BermudaDigitalPinRead
  <2>8. PinInv'
    BY <2>6, <2>7 DEF BoardInv, PinInv
  <2> QED
    BY <1>1, <2>8 DEF BoardInv
<1> QED
  BY <1>2, <1>3, <1>4

LEMMA HwTimerNextInv ==
  ASSUME BoardInv, HwTimerNext
  PROVE  BoardInv'
<1>1. PinInv'
  BY DEF BoardInv, PinInv, HwTimerNext, BermudaAvrTimer2Init, Timer2Call, BitOf
<1>2. timer0' = timer0
  BY DEF HwTimerNext, BermudaAvrTimer2Init, Timer2Call
<1> DEFINE a == IF timerSet.init THEN {0, 1} ELSE {}
           b == Runs(timerSet.runs, timerSet.init)
<1>3. /\ TimerIs(timer2, a, b, timerSet.isrs, timerSet.top, timer2.prescaler)
      /\ timerSet \in [init : BOOLEAN, runs : BOOLEAN, isrs : SUBSET {0, 1, 2}, top : 0 .. 255]
      /\ timer0 = BermudaInitTimer0
      /\ timerSet.init => timer2.prescaler = {0, 1} /\ a = {0, 1}
      /\ a \in SUBSET {0, 1} /\ b \in SUBSET {0, 1, 3}
  BY DEF BoardInv, HwTimerInv, Runs
<1> DEFINE S == [init : BOOLEAN, runs : BOOLEAN, isrs : SUBSET {0, 1, 2}, top : 0 .. 255]
\* It is enough to know the fields afterwards.
<1>4. ASSUME NEW t, NEW s \in S, timer2' = t, timerSet' = s, s.init = TRUE,
             TimerIs(t, {0, 1}, Runs(s.runs, TRUE), s.isrs, s.top, {0, 1})
      PROVE  BoardInv'
  <2>1. TimerIs(timer2', {0, 1}, Runs(s.runs, TRUE), s.isrs, s.top, timer2'.prescaler)
        /\ timer2'.prescaler = {0, 1}
    BY <1>4 DEF TimerIs
  <2>2. HwTimerInv'
    BY <1>2, <1>3, <1>4, <2>1 DEF HwTimerInv
  <2> QED
    BY <1>1, <2>2 DEF BoardInv
<1>5. CASE BermudaAvrTimer2Init
  <2>1. PICK s : s = [timerSet EXCEPT !.init = TRUE, !.runs = TRUE, !.top = 250]
    OBVIOUS
  <2>2. s \in S /\ s.init = TRUE /\ s.runs = TRUE /\ s.isrs = timerSet.isrs /\ s.top = 250
    <3> PICK u : u = timerSet
      OBVIOUS
    <3>1. u \in S
      BY <1>3
    <3>2. s = [u EXCEPT !.init = TRUE, !.runs = TRUE, !.top = 250]
      BY <2>1
    <3>3. s.init = TRUE /\ s.runs = TRUE
      BY <3>1, <3>2
    <3>4. s.isrs = u.isrs /\ s.top = 250
      BY <3>1, <3>2
    <3>5. s = [init |-> s.init, runs |-> s.runs, isrs |-> s.isrs, top |-> s.top]
      BY <3>1, <3>2
    <3>6. u.isrs \in SUBSET {0, 1, 2} /\ 250 \in 0 .. 255
      BY <3>1
    <3>7. s = [init |-> TRUE, runs |-> TRUE, isrs |-> u.isrs, top |-> 250]
      BY <3>3, <3>4, <3>5
    <3>8. s \in S
      BY <3>6, <3>7
    <3> QED
      BY <3>3, <3>4, <3>8
  <2>3. timer2' = FastPWM(timer2) /\ timerSet' = s
    BY <1>5, <2>1 DEF BermudaAvrTimer2Init
  <2>4. TimerIs(FastPWM(timer2), {0, 1}, {0, 1, 3}, timerSet.isrs, 250, {0, 1})
    <3>1. PICK x : x = timer2.prescaler
      OBVIOUS
    <3> HIDE DEF a, b
    <3>2. TimerIs(timer2, a, b, timerSet.isrs, timerSet.top, x)
      BY <1>3, <3>1
    <3> QED
      BY <1>3, <3>2, FastPWMProps
  <2>5. Runs(s.runs, TRUE) = {0, 1, 3}
    BY <2>2 DEF Runs
  <2>6. TimerIs(FastPWM(timer2), {0, 1}, Runs(s.runs, TRUE), s.isrs, s.top, {0, 1})
    BY <2>2, <2>4, <2>5
  <2> QED
    BY <1>4, <2>2, <2>3, <2>6
<1>6. ASSUME timerSet.init
      PROVE  TimerIs(timer2, {0, 1}, Runs(timerSet.runs, TRUE), timerSet.isrs, timerSet.top, {0, 1})
  <2>1. timerSet.init = TRUE
    BY <1>3, <1>6
  <2> QED
    BY <1>3, <1>6, <2>1
<1>7. CASE Timer2Call(BermudaTimerEnable(timer2), [timerSet EXCEPT !.runs = TRUE])
  <2>1. PICK s : s = [timerSet EXCEPT !.runs = TRUE]
    OBVIOUS
  <2>2. timerSet.init /\ timer2' = BermudaTimerEnable(timer2) /\ timerSet' = s
    BY <1>7, <2>1 DEF Timer2Call
  <2>3. s \in S /\ s.init = TRUE /\ s.runs = TRUE /\ s.isrs = timerSet.isrs /\ s.top = timerSet.top
    BY <1>3, <2>1, <2>2
  <2>4. BermudaTimerEnable(timer2) = BermudaTimerSetPrescaler(timer2, {0, 1})
    BY <1>3, <2>2 DEF BermudaTimerEnable
  <2>5. PICK r : r = Runs(timerSet.runs, TRUE)
    OBVIOUS
  <2>6. TimerIs(BermudaTimerSetPrescaler(timer2, {0, 1}), {0, 1},
                (r \ {0, 1, 2}) \cup ({0, 1} \cap {0, 1, 2}), timerSet.isrs, timerSet.top,
                {0, 1} \cap {0, 1, 2})
    BY <1>6, <2>2, <2>5, SetPrescaler
  <2>7. /\ (r \ {0, 1, 2}) \cup ({0, 1} \cap {0, 1, 2}) = Runs(s.runs, TRUE)
        /\ {0, 1} \cap {0, 1, 2} = {0, 1}
    BY <2>3, <2>5 DEF Runs
  <2> QED
    BY <1>4, <2>2, <2>3, <2>4, <2>6, <2>7
<1>8. CASE Timer2Call(BermudaTimerDisable(timer2), [timerSet EXCEPT !.runs = FALSE])
  <2>1. PICK s : s = [timerSet EXCEPT !.runs = FALSE]
    OBVIOUS
  <2>2. timerSet.init /\ timer2' = BermudaTimerDisable(timer2) /\ timerSet' = s
    BY <1>8, <2>1 DEF Timer2Call
  <2>3. s \in S /\ s.init = TRUE /\ s.runs = FALSE /\ s.isrs = timerSet.isrs /\ s.top = timerSet.top
    BY <1>3, <2>1, <2>2
  <2>4. PICK u : u = BermudaTimerSetPrescaler(timer2, {})
    OBVIOUS
  <2>5. BermudaTimerDisable(timer2) = [u EXCEPT !.prescaler = {0, 1}]
    BY <1>3, <2>2, <2>4 DEF BermudaTimerDisable
  <2>6. PICK r : r = Runs(timerSet.runs, TRUE)
    OBVIOUS
  <2>7. TimerIs(u, {0, 1}, (r \ {0, 1, 2}) \cup ({} \cap {0, 1, 2}), timerSet.isrs, timerSet.top,
                {} \cap {0, 1, 2})
    BY <1>6, <2>2, <2>4, <2>6, SetPrescaler
  <2>8. (r \ {0, 1, 2}) \cup ({} \cap {0, 1, 2}) = Runs(s.runs, TRUE)
    BY <2>3, <2>6 DEF Runs
  <2>9. TimerIs([u EXCEPT !.prescaler = {0, 1}], {0, 1}, Runs(s.runs, TRUE), timerSet.isrs,
                timerSet.top, {0, 1})
    BY <2>7, <2>8 DEF TimerIs
  <2> QED
    BY <1>4, <2>2, <2>3, <2>5, <2>9
<1>9. ASSUME NEW i \in TIMER_ISRS,
             Timer2Call(BermudaAvrTimerSetISR(timer2, {i}), [timerSet EXCEPT !.isrs = @ \cup {i}])
      PROVE  BoardInv'
  <2>1. PICK s : s = [timerSet EXCEPT !.isrs = @ \cup {i}]
    OBVIOUS
  <2>2. timerSet.init /\ timer2' = BermudaAvrTimerSetISR(timer2, {i}) /\ timerSet' = s
    BY <1>9, <2>1 DEF Timer2Call
  <2>3. i \in {0, 1, 2} /\ {i} \cap TIMER_ISRS = {i}
    BY Digits DEF TIMER_ISRS
  <2>4. /\ s \in S /\ s.init = TRUE /\ s.runs = timerSet.runs /\ s.isrs = timerSet.isrs \cup {i}
        /\ s.top = timerSet.top
    BY <1>3, <2>1, <2>2, <2>3
  <2>5. BermudaAvrTimerSetISR(timer2, {i}) = [timer2 EXCEPT !.int_mask = @ \cup {i}]
    BY <2>3 DEF BermudaAvrTimerSetISR
  <2>6. TimerIs([timer2 EXCEPT !.int_mask = @ \cup {i}], {0, 1}, Runs(timerSet.runs, TRUE),
                timerSet.isrs \cup {i}, timerSet.top, {0, 1})
    BY <1>6, <2>2 DEF TimerIs
  <2> QED
    BY <1>4, <2>2, <2>4, <2>5, <2>6
<1>10. ASSUME NEW top \in Tops,
              Timer2Call([timer2 EXCEPT !.output_comp_a = top], [timerSet EXCEPT !.top = top])
       PROVE  BoardInv'
  <2>1. PICK s : s = [timerSet EXCEPT !.top = top]
    OBVIOUS
  <2>2. timerSet.init /\ timer2' = [timer2 EXCEPT !.output_comp_a = top] /\ timerSet' = s
    BY <1>10, <2>1 DEF Timer2Call
  <2>3. top \in 0 .. 255
    BY BoardConstants
  <2>4. /\ s \in S /\ s.init = TRUE /\ s.runs = timerSet.runs /\ s.isrs = timerSet.isrs
        /\ s.top = top
    BY <1>3, <2>1, <2>2, <2>3
  <2>5. TimerIs([timer2 EXCEPT !.output_comp_a = top], {0, 1}, Runs(timerSet.runs, TRUE),
                timerSet.isrs, top, {0, 1})
    BY <1>6, <2>2 DEF TimerIs
  <2> QED
    BY <1>4, <2>2, <2>4, <2>5
<1> QED
  BY <1>5, <1>7, <1>8, <1>9, <1>10 DEF HwTimerNext

-----------------------------------------------------------------------------
\* The queues, buckets and devices, always.
LEMMA NetInvariant ==
  Spec => []NetInv
<1>1. Init => NetInv
  BY NetInitInv DEF Init
<1>2. NetInv /\ [Next]_vars => NetInv'
  <2>1. [Next]_vars => NetNext \/ UNCHANGED netVars
    BY DEF Next, Only, vars
  <2>2. NetInv /\ UNCHANGED netVars => NetInv'
    <3> SUFFICES ASSUME NetInv, UNCHANGED netVars
                 PROVE  NetInv'
      OBVIOUS
    <3>1. /\ netdevs' = netdevs /\ coreQueue' = coreQueue /\ proc' = proc /\ tokens' = tokens
          /\ lastEntry' = lastEntry /\ cashed' = cashed /\ came' = came /\ bought' = bought
      BY DEF netVars
    <3> QED
      BY <3>1 DEF NetInv, NetShape, QueuesAreEnds, CameOnce, NoneTooLarge, AllOfHandled,
                  BoughtOnce, BoughtInOrder, AllPaid, NamesDiffer, OfHandled, Handled
  <2> QED
    BY <2>1, <2>2, NetNextInv
<1> QED
  BY <1>1, <1>2, PTL DEF Spec

(***************************************************************************)
(* The network core, for any packets, segments, devices and credits: what  *)
(* a bucket has paid and what is left in it is what was cashed; a segment  *)
(* is bought once, in the order in which its packet came, and none behind  *)
(* a packet too large for its device; no two devices have one name         *)
(* (netif_processor, __netif_start_xmit, tbucket_buy_packet, netif_init).  *)
(***************************************************************************)
THEOREM NetworkPaidInOrder ==
  Spec => []PaidInOrder
BY NetInvariant, NetInvImplies, PTL

(***************************************************************************)
(* What a driver was given is what its hardware holds, for any texts,      *)
(* memories, addresses, threads, pins and compare values, as long as one   *)
(* thread at a time uses the RAM: the wire carries what was written with   *)
(* leave, a memory reads back what was last stored, and the pins and       *)
(* timers are as each was last told (fwrite, puts, printf_P, logmsg_P;     *)
(* spiram.c, 24c02.c; arduino-io.c, 328-timer.c).                          *)
(***************************************************************************)
THEOREM DriversKeepWhatTheyGot ==
  ASSUME ~RamShared
  PROVE  Spec => []DriversKeep
<1>1. Init => StdioInv /\ MemoryInv /\ BoardInv
  BY StdioInitInv, MemoryInitInv, BoardInitInv DEF Init
<1>2. StdioInv /\ [Next]_vars => StdioInv'
  <2>1. [Next]_vars => StdioNext \/ UNCHANGED stdioVars
    BY DEF Next, Only, vars
  <2>2. StdioInv /\ UNCHANGED stdioVars => StdioInv'
    BY DEF StdioInv, stdioVars
  <2> QED
    BY <2>1, <2>2, StdioNextInv
<1>3. MemoryInv /\ [Next]_vars => MemoryInv'
  <2>1. [Next]_vars => MemoryNext \/ UNCHANGED memoryVars
    BY DEF Next, Only, vars
  <2>2. MemoryInv /\ UNCHANGED memoryVars => MemoryInv'
    BY DEF MemoryInv, memoryVars, Intends, ReadsBack
  <2> QED
    BY <2>1, <2>2, MemoryNextInv
<1>4. BoardInv /\ [Next]_vars => BoardInv'
  <2>1. [Next]_vars => PinNext \/ HwTimerNext \/ UNCHANGED boardVars
    BY DEF Next, Only, vars
  <2>2. BoardInv /\ UNCHANGED boardVars => BoardInv'
    BY DEF BoardInv, boardVars, PinInv, HwTimerInv
  <2> QED
    BY <2>1, <2>2, PinNextInv, HwTimerNextInv
<1>5. StdioInv /\ MemoryInv /\ BoardInv => DriversKeep
  BY StdioInvImplies, BoardInvImplies DEF DriversKeep, MemoryInv
<1> QED
  BY <1>1, <1>2, <1>3, <1>4, <1>5, PTL DEF Spec
=============================================================================
