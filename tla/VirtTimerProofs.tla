--------------------------- MODULE VirtTimerProofs ---------------------------
(***************************************************************************)
(* The list of virtual timers holds the allocated timers and keeps their   *)
(* deadlines, for any number of timers, any ticks and any lag: ListIsHeap  *)
(* is an invariant of VirtTimer, and VirtTimer implements TimerSpec.       *)
(*                                                                         *)
(* By itself ListIsHeap is not inductive: that a timer which is            *)
(* created or starts again is inserted at a place of the list needs the    *)
(* list to be one of timers, and that a stopped timer leaves it altogether *)
(* needs it to hold none twice.  The deadline of a timer is a sum of       *)
(* differences along the list; the laws of such sums are proved by         *)
(* induction over the list, and then one lemma for each change of the list *)
(* says that it moves no deadline but that of the timer it is about.       *)
(*                                                                         *)
(* The lemmas on lists are those of ThreadQueueProofs, whose two markers   *)
(* play no part.                                                           *)
(***************************************************************************)
EXTENDS VirtTimer, ThreadQueueProofs, FiniteSetTheorems

\* A list of timers, each once.
ListOf(l, S) == l \in Seq(Timer) /\ NoDuplicates(l) /\ Range(l) = S

TimersInv == heap \subseteq Timer /\ ListOf(list, heap)

-----------------------------------------------------------------------------
\* The length of a list without duplicates is the number of its members.
LEMMA LengthOfList ==
  ASSUME NEW S, NEW l, ListOf(l, S)
  PROVE  Len(l) = Cardinality(S)
<1>1. /\ l \in Seq(Timer) /\ Len(l) \in Nat /\ DOMAIN l = 1 .. Len(l)
      /\ \A x : x \in S <=> \E i \in 1 .. Len(l) : l[i] = x
  BY InRange, LenProperties DEF ListOf
<1>2. \A i, j \in 1 .. Len(l) : l[i] = l[j] => i = j
  BY <1>1 DEF ListOf, NoDuplicates
<1>3. l \in [1 .. Len(l) -> S]
  BY <1>1
<1>4. l \in Bijection(1 .. Len(l), S)
  BY <1>1, <1>2, <1>3 DEF Bijection, Injection, Surjection, IsInjective
<1>5. IsFiniteSet(1 .. Len(l)) /\ Cardinality(1 .. Len(l)) = Len(l)
  <2>1. Cardinality(1 .. Len(l)) = IF 1 > Len(l) THEN 0 ELSE Len(l) - 1 + 1
    BY <1>1, FS_Interval
  <2> QED
    BY <1>1, <2>1, FS_Interval
<1> QED
  BY <1>4, <1>5, FS_Bijection DEF ExistsBijection

\* The place for a timer is in the list or behind it.
LEMMA AddPlaceInList ==
  ASSUME NEW l \in Seq(Timer), NEW lf, NEW n
  PROVE  AddPlace(l, lf, n) \in 1 .. Len(l) + 1
<1> DEFINE places == {i \in 1 .. Len(l) + 1 : i <= Len(l) => n < TicksTo(l, lf, i)}
<1>1. Len(l) \in Nat
  BY LenProperties
<1>2. Len(l) + 1 \in places /\ places \in SUBSET Nat
  BY <1>1
<1>3. Min(places) \in places
  BY <1>2, LeastOf
<1> QED
  BY <1>3 DEF AddPlace

\* A timer that is not in the list joins it.
LEMMA InsertKeeps ==
  ASSUME NEW S, NEW l, ListOf(l, S), NEW t \in Timer, t \notin S, NEW p \in 1 .. Len(l) + 1
  PROVE  ListOf(InsertAt(l, p, t), S \cup {t})
<1> DEFINE n == InsertAt(l, p, t)
<1>1. l \in Seq(Timer) /\ Len(l) \in Nat /\ NoDuplicates(l)
  BY LenProperties DEF ListOf
<1>2. /\ n \in Seq(Timer) /\ Len(n) = Len(l) + 1
      /\ \A j \in 1 .. Len(l) + 1 : n[j] = IF j < p THEN l[j] ELSE IF j = p THEN t ELSE l[j - 1]
  BY <1>1, InsertAtProps, InsertAtElements
<1> HIDE DEF n
<1>3. \A x : x \in Range(n) <=> \E j \in 1 .. Len(l) + 1 : n[j] = x
  BY <1>2, InRange
<1>4. \A x : x \in S <=> \E i \in 1 .. Len(l) : l[i] = x
  BY <1>1, InRange DEF ListOf
<1>5. \A j \in 1 .. Len(l) + 1 :
        /\ j < p => n[j] = l[j] /\ j \in 1 .. Len(l)
        /\ j = p => n[j] = t
        /\ j > p => n[j] = l[j - 1] /\ j - 1 \in 1 .. Len(l)
  BY <1>1, <1>2
<1>6. ASSUME NEW x
      PROVE  x \in Range(n) <=> x \in S \cup {t}
  <2>1. ASSUME NEW i \in 1 .. Len(l)
        PROVE  l[i] \in Range(n)
    <3>1. CASE i < p
      BY <1>1, <1>3, <1>5, <3>1
    <3>2. CASE i >= p
      <4>1. i + 1 \in 1 .. Len(l) + 1 /\ i + 1 > p /\ (i + 1) - 1 = i
        BY <1>1, <3>2
      <4> QED
        BY <1>3, <1>5, <4>1
    <3> QED
      BY <3>1, <3>2
  <2>2. t \in Range(n)
    BY <1>3, <1>5
  <2>3. ASSUME NEW j \in 1 .. Len(l) + 1
        PROVE  n[j] \in S \cup {t}
    BY <1>1, <1>4, <1>5
  <2> QED
    BY <1>3, <1>4, <2>1, <2>2, <2>3
<1>7. NoDuplicates(n)
  <2>1. \A i \in 1 .. Len(l) : l[i] # t
    BY <1>4
  <2>2. \A i, j \in 1 .. Len(l) : l[i] = l[j] => i = j
    BY <1>1, LenProperties DEF NoDuplicates
  <2>3. ASSUME NEW i \in 1 .. Len(l) + 1, NEW j \in 1 .. Len(l) + 1, n[i] = n[j]
        PROVE  i = j
    <3>1. ASSUME NEW k \in 1 .. Len(l) + 1
          PROVE  n[k] = t <=> k = p
      <4>1. CASE k < p
        BY <1>5, <2>1, <4>1
      <4>2. CASE k = p
        BY <1>5, <4>2
      <4>3. CASE k > p
        BY <1>5, <2>1, <4>3
      <4> QED
        BY <1>1, <4>1, <4>2, <4>3
    <3>2. CASE i = p \/ j = p
      BY <2>3, <3>1, <3>2
    <3>3. CASE i < p /\ j < p
      BY <1>5, <2>2, <2>3, <3>3
    <3>4. CASE i > p /\ j > p
      <4>1. i - 1 = j - 1
        BY <1>5, <2>2, <2>3, <3>4
      <4> QED
        BY <4>1
    <3>5. CASE i < p /\ j > p
      <4>1. i = j - 1
        BY <1>5, <2>2, <2>3, <3>5
      <4> QED
        BY <3>5, <4>1
    <3>6. CASE i > p /\ j < p
      <4>1. i - 1 = j
        BY <1>5, <2>2, <2>3, <3>6
      <4> QED
        BY <3>6, <4>1
    <3> QED
      BY <3>2, <3>3, <3>4, <3>5, <3>6
  <2> QED
    BY <1>2, <2>3, LenProperties DEF NoDuplicates
<1> QED
  BY <1>2, <1>6, <1>7 DEF ListOf, n

LEMMA TailKeeps ==
  ASSUME NEW S, NEW l, ListOf(l, S), l # <<>>
  PROVE  ListOf(Tail(l), S \ {Head(l)}) /\ Head(l) \in S
<1>1. /\ l \in Seq(Timer) /\ NoDuplicates(l) /\ Len(l) \in Nat \ {0}
      /\ Tail(l) \in Seq(Timer) /\ Len(Tail(l)) = Len(l) - 1 /\ Head(l) = l[1]
      /\ \A i \in 1 .. Len(l) - 1 : Tail(l)[i] = l[i + 1]
  BY HeadTailProperties, EmptySeq, LenProperties DEF ListOf
<1> DEFINE r == Tail(l)
<1>2. \A i, j \in 1 .. Len(l) : l[i] = l[j] => i = j
  BY <1>1, LenProperties DEF NoDuplicates
<1>3. /\ \A x : x \in S <=> \E i \in 1 .. Len(l) : l[i] = x
      /\ \A x : x \in Range(r) <=> \E i \in 1 .. Len(l) - 1 : r[i] = x
  <2>1. Range(l) = S
    BY DEF ListOf
  <2>2. r \in Seq(Timer) /\ Len(r) = Len(l) - 1
    BY <1>1
  <2> HIDE DEF r
  <2>3. \A x : x \in Range(r) <=> \E i \in 1 .. Len(r) : r[i] = x
    BY <2>2, InRange
  <2> QED
    BY <1>1, <2>1, <2>2, <2>3, InRange
<1>4. /\ r \in Seq(Timer) /\ Len(r) = Len(l) - 1 /\ DOMAIN r = 1 .. Len(l) - 1
      /\ \A i \in 1 .. Len(l) - 1 : r[i] = l[i + 1]
  BY <1>1, LenProperties
<1> HIDE DEF r
<1>5. NoDuplicates(r)
  <2>1. ASSUME NEW i \in 1 .. Len(l) - 1, NEW j \in 1 .. Len(l) - 1, r[i] = r[j]
        PROVE  i = j
    <3>1. i + 1 \in 1 .. Len(l) /\ j + 1 \in 1 .. Len(l) /\ l[i + 1] = l[j + 1]
      BY <1>1, <1>4, <2>1
    <3>2. i + 1 = j + 1
      BY <1>2, <3>1
    <3> QED
      BY <3>2
  <2> QED
    BY <1>4, <2>1 DEF NoDuplicates
<1>6. ASSUME NEW x
      PROVE  x \in Range(r) <=> x \in S \ {Head(l)}
  <2>1. ASSUME NEW i \in 1 .. Len(l) - 1
        PROVE  r[i] \in S /\ r[i] # Head(l)
    <3>1. i + 1 \in 1 .. Len(l) /\ i + 1 # 1 /\ 1 \in 1 .. Len(l)
      BY <1>1
    <3> QED
      BY <1>1, <1>2, <1>3, <1>4, <3>1
  <2>2. ASSUME NEW i \in 1 .. Len(l), l[i] # Head(l)
        PROVE  l[i] \in Range(r)
    <3>1. i # 1 /\ i - 1 \in 1 .. Len(l) - 1 /\ (i - 1) + 1 = i
      BY <1>1, <2>2
    <3> QED
      BY <1>3, <1>4, <3>1
  <2> QED
    BY <1>3, <2>1, <2>2
<1>7. Head(l) \in S
  BY <1>1, <1>3
<1> QED
  BY <1>4, <1>5, <1>6, <1>7 DEF ListOf, r

\* TimerAdd links the timer t, and no other.
LEMMA TimerAddKeeps ==
  ASSUME NEW S, NEW l, ListOf(l, S), NEW t \in Timer, t \notin S, NEW n, NEW lf,
         TimerAdd(t, n, l, lf)
  PROVE  ListOf(list', S \cup {t})
<1>1. AddPlace(l, lf, n) \in 1 .. Len(l) + 1
  BY AddPlaceInList DEF ListOf
<1>2. list' = InsertAt(l, AddPlace(l, lf, n), t)
  BY DEF TimerAdd
<1> QED
  BY <1>1, <1>2, InsertKeeps

-----------------------------------------------------------------------------
LEMMA TimersNext ==
  ASSUME TimersInv, [Next]_timerVars
  PROVE  TimersInv'
<1>1. ASSUME NEW t \in Timer, NEW n \in Ticks, NEW periodic \in BOOLEAN, TimerCreate(t, n, periodic)
      PROVE  TimersInv'
  <2>1. /\ t \notin heap /\ heap' = heap \cup {t}
        /\ TimerAdd(t, (n + tick - last) % Wrap, list, left)
    BY <1>1 DEF TimerCreate
  <2> QED
    BY <2>1, TimerAddKeeps DEF TimersInv
<1>2. ASSUME NEW t \in Timer, TimerStop(t)
      PROVE  TimersInv'
  <2>1. CASE UNCHANGED <<list, heap>>
    BY <2>1 DEF TimersInv
  <2>2. CASE list' = RemoveFirst(list, t) /\ heap' = heap \ {t}
    BY <2>2, RemoveFirstProps DEF TimersInv, ListOf
  <2> QED
    BY <1>2, <2>1, <2>2 DEF TimerStop
<1>3. CASE Elapse
  <2> DEFINE t == Head(list)
  <2>1. /\ list # <<>>
        /\ \/ list' = Tail(list) /\ heap' = heap \ {t}
           \/ TimerAdd(t, ticks[t], Tail(list), left) /\ heap' = heap
    BY <1>3 DEF Elapse
  <2>2. ListOf(Tail(list), heap \ {t}) /\ t \in heap
    BY <2>1, TailKeeps DEF TimersInv
  <2>3. CASE list' = Tail(list) /\ heap' = heap \ {t}
    BY <2>2, <2>3 DEF TimersInv
  <2>4. CASE TimerAdd(t, ticks[t], Tail(list), left) /\ heap' = heap
    <3>1. t \in Timer /\ t \notin heap \ {t} /\ (heap \ {t}) \cup {t} = heap
      BY <2>2 DEF TimersInv
    <3>2. ListOf(list', heap)
      <4> HIDE DEF t
      <4>1. ListOf(list', (heap \ {t}) \cup {t})
        BY <2>2, <2>4, <3>1, TimerAddKeeps
      <4> QED
        BY <3>1, <4>1
    <3> QED
      BY <2>4, <3>2 DEF TimersInv
  <2> QED
    BY <2>1, <2>3, <2>4
<1>4. CASE TimerProcess \/ Distribute \/ ProcessReturns \/ SysTick \/ UNCHANGED timerVars
  <2>1. UNCHANGED <<list, heap>>
    BY <1>4 DEF TimerProcess, Distribute, ProcessReturns, SysTick, timerVars
  <2> QED
    BY <2>1 DEF TimersInv
<1> QED
  BY <1>1, <1>2, <1>3, <1>4 DEF Next, Process

(***************************************************************************)
(* The list holds every allocated timer, once, and none that was freed:    *)
(* BermudaTimerStop and BermudaTimerProcess agree on who frees a timer.    *)
(***************************************************************************)
THEOREM TimerListIsHeap == Spec => []ListIsHeap
<1>1. Init => TimersInv
  BY DEF Init, TimersInv, ListOf, NoDuplicates, Range
<1>2. TimersInv /\ [Next]_timerVars => TimersInv'
  BY TimersNext
<1>3. TimersInv => ListIsHeap
  BY LengthOfList DEF TimersInv, ListOf, ListIsHeap
<1> QED
  BY <1>1, <1>2, <1>3, PTL DEF Spec

-----------------------------------------------------------------------------
(***************************************************************************)
(* The ticks to each place of a list.                                      *)
(***************************************************************************)

\* f is the function that TicksTo defines.
Sums(l, lf, f) ==
  f = [j \in 0 .. Len(l) |-> IF j = 0 THEN 0 ELSE f[j - 1] + lf[l[j]]]

\* f is that function for the first n timers.
SumsUpTo(l, lf, n, f) ==
  f[0] = 0 /\ \A j \in 1 .. n : f[j] = f[j - 1] + lf[l[j]]

LEMMA SumsExist ==
  ASSUME NEW l \in Seq(Timer), NEW lf \in [Timer -> Int]
  PROVE  \E f \in [0 .. Len(l) -> Int] : SumsUpTo(l, lf, Len(l), f)
<1> DEFINE N == {n \in Nat : n <= Len(l) => \E f \in [0 .. n -> Int] : SumsUpTo(l, lf, n, f)}
<1>1. Len(l) \in Nat /\ \A j \in 1 .. Len(l) : l[j] \in Timer
  BY LenProperties
<1>2. 0 \in N
  <2> DEFINE f == [j \in 0 .. 0 |-> 0]
  <2>1. f \in [0 .. 0 -> Int] /\ SumsUpTo(l, lf, 0, f)
    BY DEF SumsUpTo
  <2> QED
    BY <2>1
<1>3. ASSUME NEW n \in N PROVE n + 1 \in N
  <2> SUFFICES ASSUME n + 1 <= Len(l)
               PROVE  \E f \in [0 .. n + 1 -> Int] : SumsUpTo(l, lf, n + 1, f)
    OBVIOUS
  <2>1. PICK f \in [0 .. n -> Int] : SumsUpTo(l, lf, n, f)
    BY <1>1
  <2> DEFINE g == [j \in 0 .. n + 1 |-> IF j <= n THEN f[j] ELSE f[n] + lf[l[n + 1]]]
  <2>2. l[n + 1] \in Timer
    BY <1>1
  <2>3. g \in [0 .. n + 1 -> Int]
    BY <2>2
  <2>4. SumsUpTo(l, lf, n + 1, g)
    BY <2>1 DEF SumsUpTo
  <2> QED
    BY <2>3, <2>4
<1>4. N = Nat
  <2> HIDE DEF N
  <2>1. N \in SUBSET Nat
    BY DEF N
  <2> QED
    BY <1>2, <1>3, <2>1, AllNaturals
<1> QED
  BY <1>1, <1>4

LEMMA SumsUnique ==
  ASSUME NEW l \in Seq(Timer), NEW lf, NEW f, NEW g,
         SumsUpTo(l, lf, Len(l), f), SumsUpTo(l, lf, Len(l), g)
  PROVE  \A i \in 0 .. Len(l) : f[i] = g[i]
<1> DEFINE N == {n \in Nat : n <= Len(l) => f[n] = g[n]}
<1>1. Len(l) \in Nat
  BY LenProperties
<1>2. 0 \in N
  BY DEF SumsUpTo
<1>3. ASSUME NEW n \in N PROVE n + 1 \in N
  <2> SUFFICES ASSUME n + 1 <= Len(l) PROVE f[n + 1] = g[n + 1]
    OBVIOUS
  <2>1. n + 1 \in 1 .. Len(l) /\ (n + 1) - 1 = n /\ f[n] = g[n]
    BY <1>1
  <2>2. /\ f[n + 1] = f[(n + 1) - 1] + lf[l[n + 1]]
        /\ g[n + 1] = g[(n + 1) - 1] + lf[l[n + 1]]
    BY <2>1 DEF SumsUpTo
  <2> QED
    BY <2>1, <2>2
<1>4. N = Nat
  <2> HIDE DEF N
  <2>1. N \in SUBSET Nat
    BY DEF N
  <2> QED
    BY <1>2, <1>3, <2>1, AllNaturals
<1> QED
  BY <1>1, <1>4

LEMMA TicksToIsSum ==
  ASSUME NEW l \in Seq(Timer), NEW lf \in [Timer -> Int]
  PROVE  /\ \A i \in 0 .. Len(l) : TicksTo(l, lf, i) \in Int
         /\ TicksTo(l, lf, 0) = 0
         /\ \A j \in 1 .. Len(l) : TicksTo(l, lf, j) = TicksTo(l, lf, j - 1) + lf[l[j]]
<1> DEFINE f == CHOOSE f : Sums(l, lf, f)
<1>1. Len(l) \in Nat
  BY LenProperties
<1>2. PICK g \in [0 .. Len(l) -> Int] : SumsUpTo(l, lf, Len(l), g)
  BY SumsExist
<1>3. Sums(l, lf, g)
  BY <1>1, <1>2 DEF Sums, SumsUpTo
<1>4. Sums(l, lf, f)
  BY <1>3
<1>5. \A i : TicksTo(l, lf, i) = f[i]
  BY Zenon DEF TicksTo, Sums
<1> HIDE DEF f
<1>6. SumsUpTo(l, lf, Len(l), f)
  BY <1>1, <1>4 DEF Sums, SumsUpTo
<1>7. \A i \in 0 .. Len(l) : f[i] = g[i]
  BY <1>2, <1>6, SumsUnique
<1> QED
  BY <1>1, <1>2, <1>5, <1>6, <1>7 DEF SumsUpTo

\* To find the sums it is enough to give a function that adds up.
LEMMA TicksToIs ==
  ASSUME NEW l \in Seq(Timer), NEW lf \in [Timer -> Int], NEW f, SumsUpTo(l, lf, Len(l), f)
  PROVE  \A i \in 0 .. Len(l) : TicksTo(l, lf, i) = f[i]
<1> DEFINE g == [i \in 0 .. Len(l) |-> TicksTo(l, lf, i)]
<1>1. Len(l) \in Nat
  BY LenProperties
<1>2. /\ TicksTo(l, lf, 0) = 0
      /\ \A j \in 1 .. Len(l) : TicksTo(l, lf, j) = TicksTo(l, lf, j - 1) + lf[l[j]]
  BY TicksToIsSum
<1>3. SumsUpTo(l, lf, Len(l), g)
  BY <1>1, <1>2 DEF SumsUpTo
<1>4. \A i \in 0 .. Len(l) : g[i] = TicksTo(l, lf, i)
  OBVIOUS
<1> HIDE DEF g
<1> QED
  BY <1>3, <1>4, SumsUnique

\* A timer further down the list is not nearer.
LEMMA TicksGrow ==
  ASSUME NEW l \in Seq(Timer), NEW lf \in [Timer -> Nat], NEW i \in 0 .. Len(l)
  PROVE  \A j \in i .. Len(l) : TicksTo(l, lf, i) <= TicksTo(l, lf, j)
<1> DEFINE N == {n \in Nat : i <= n /\ n <= Len(l) => TicksTo(l, lf, i) <= TicksTo(l, lf, n)}
<1>1. Len(l) \in Nat /\ \A j \in 1 .. Len(l) : l[j] \in Timer
  BY LenProperties
<1>2. /\ \A j \in 0 .. Len(l) : TicksTo(l, lf, j) \in Int
      /\ \A j \in 1 .. Len(l) : TicksTo(l, lf, j) = TicksTo(l, lf, j - 1) + lf[l[j]]
  <2>1. lf \in [Timer -> Int]
    OBVIOUS
  <2> QED
    BY <2>1, TicksToIsSum
<1>3. 0 \in N
  BY <1>1, <1>2
<1>4. ASSUME NEW n \in N PROVE n + 1 \in N
  <2> SUFFICES ASSUME i <= n + 1, n + 1 <= Len(l)
               PROVE  TicksTo(l, lf, i) <= TicksTo(l, lf, n + 1)
    OBVIOUS
  <2>1. CASE i = n + 1
    BY <1>1, <1>2, <2>1
  <2>2. CASE i <= n
    <3>1. TicksTo(l, lf, i) <= TicksTo(l, lf, n)
      BY <1>1, <2>2
    <3>2. /\ n + 1 \in 1 .. Len(l) /\ (n + 1) - 1 = n /\ n \in 0 .. Len(l)
          /\ lf[l[n + 1]] \in Nat
      BY <1>1
    <3>3. TicksTo(l, lf, n + 1) = TicksTo(l, lf, n) + lf[l[n + 1]]
      BY <1>2, <3>2
    <3> QED
      BY <1>2, <3>1, <3>2, <3>3
  <2> QED
    BY <1>1, <2>1, <2>2
<1>5. N = Nat
  <2> HIDE DEF N
  <2>1. N \in SUBSET Nat
    BY DEF N
  <2> QED
    BY <1>3, <1>4, <2>1, AllNaturals
<1> QED
  BY <1>1, <1>5

-----------------------------------------------------------------------------
(***************************************************************************)
(* The ticks to each timer, and what the operations do to them.            *)
(***************************************************************************)
Away(l, lf, t) == TicksTo(l, lf, CHOOSE i \in DOMAIN l : l[i] = t)

LEMMA AwayAt ==
  ASSUME NEW S, NEW l, ListOf(l, S), NEW lf, NEW i \in 1 .. Len(l)
  PROVE  Away(l, lf, l[i]) = TicksTo(l, lf, i)
<1>1. i \in DOMAIN l /\ \A j \in DOMAIN l : l[j] = l[i] => j = i
  BY LenProperties DEF ListOf, NoDuplicates
<1>2. (CHOOSE j \in DOMAIN l : l[j] = l[i]) = i
  BY <1>1
<1> QED
  BY <1>2 DEF Away

LEMMA PlaceInList ==
  ASSUME NEW S, NEW l, ListOf(l, S), NEW t \in S
  PROVE  \E i \in 1 .. Len(l) : l[i] = t
BY InRange DEF ListOf

\* No timer is nearer than the first.
LEMMA HeadIsNearest ==
  ASSUME NEW S, NEW l, ListOf(l, S), l # <<>>, NEW lf \in [Timer -> Nat]
  PROVE  /\ Away(l, lf, Head(l)) = lf[Head(l)]
         /\ \A t \in S : lf[Head(l)] <= Away(l, lf, t)
<1>1. l \in Seq(Timer) /\ Len(l) \in Nat \ {0} /\ Head(l) = l[1] /\ lf \in [Timer -> Int]
      /\ Head(l) \in Timer
  BY HeadTailProperties, EmptySeq, LenProperties DEF ListOf
<1>2. TicksTo(l, lf, 0) = 0 /\ TicksTo(l, lf, 1) = TicksTo(l, lf, 1 - 1) + lf[l[1]]
  BY <1>1, TicksToIsSum
<1>3. TicksTo(l, lf, 1) = lf[Head(l)]
  BY <1>1, <1>2
<1>4. Away(l, lf, Head(l)) = lf[Head(l)]
  BY <1>1, <1>3, AwayAt
<1>5. ASSUME NEW t \in S PROVE lf[Head(l)] <= Away(l, lf, t)
  <2>1. PICK i \in 1 .. Len(l) : l[i] = t
    BY PlaceInList
  <2>2. 1 \in 0 .. Len(l) /\ i \in 1 .. Len(l)
    BY <1>1
  <2>3. TicksTo(l, lf, 1) <= TicksTo(l, lf, i)
    BY <1>1, <2>2, TicksGrow
  <2> QED
    BY <1>3, <2>1, <2>3, AwayAt
<1> QED
  BY <1>4, <1>5

\* All timers are d ticks nearer.
Nearer(l, lf, d) == [lf EXCEPT ![Head(l)] = @ - d]

\* The ticks that do not reach the first timer bring all nearer.
LEMMA FirstNearer ==
  ASSUME NEW S, NEW l, ListOf(l, S), l # <<>>, NEW lf \in [Timer -> Nat],
         NEW d \in Nat, d < lf[Head(l)]
  PROVE  /\ Nearer(l, lf, d) \in [Timer -> Nat]
         /\ \A t \in S : Away(l, Nearer(l, lf, d), t) = Away(l, lf, t) - d
<1> DEFINE lf2 == Nearer(l, lf, d)
           f   == [j \in 0 .. Len(l) |-> IF j = 0 THEN 0 ELSE TicksTo(l, lf, j) - d]
<1>1. l \in Seq(Timer) /\ Len(l) \in Nat \ {0} /\ Head(l) = l[1] /\ lf \in [Timer -> Int]
      /\ Head(l) \in Timer /\ \A i \in 1 .. Len(l) : l[i] \in Timer /\ (l[i] = l[1] => i = 1)
  BY HeadTailProperties, EmptySeq, LenProperties DEF ListOf, NoDuplicates
<1>2. lf2 \in [Timer -> Nat] /\ lf2 \in [Timer -> Int]
      /\ lf2[l[1]] = lf[l[1]] - d /\ \A i \in 2 .. Len(l) : lf2[l[i]] = lf[l[i]]
  BY <1>1 DEF Nearer
<1>3. /\ \A i \in 0 .. Len(l) : TicksTo(l, lf, i) \in Int
      /\ TicksTo(l, lf, 0) = 0
      /\ \A j \in 1 .. Len(l) : TicksTo(l, lf, j) = TicksTo(l, lf, j - 1) + lf[l[j]]
  BY <1>1, TicksToIsSum
<1> HIDE DEF lf2
<1>4. SumsUpTo(l, lf2, Len(l), f)
  <2>1. f[0] = 0 /\ f[1] = f[1 - 1] + lf2[l[1]]
    <3>1. lf[l[1]] \in Nat
      BY <1>1
    <3>2. TicksTo(l, lf, 1) = lf[l[1]]
      BY <1>1, <1>3, <3>1
    <3> QED
      BY <1>1, <1>2, <3>1, <3>2
  <2>2. ASSUME NEW j \in 2 .. Len(l) PROVE f[j] = f[j - 1] + lf2[l[j]]
    <3>1. lf[l[j]] \in Nat /\ j - 1 \in 1 .. Len(l) /\ j \in 1 .. Len(l) /\ j - 1 # 0 /\ j # 0
      BY <1>1
    <3>2. TicksTo(l, lf, j - 1) \in Int /\ TicksTo(l, lf, j) = TicksTo(l, lf, j - 1) + lf[l[j]]
      BY <1>3, <3>1
    <3>3. f[j] = TicksTo(l, lf, j) - d /\ f[j - 1] = TicksTo(l, lf, j - 1) - d
      BY <3>1
    <3> QED
      BY <1>2, <3>1, <3>2, <3>3
  <2> HIDE DEF f
  <2>3. \A j \in 1 .. Len(l) : j = 1 \/ j \in 2 .. Len(l)
    BY <1>1
  <2> QED
    BY <2>1, <2>2, <2>3 DEF SumsUpTo
<1>5. \A i \in 1 .. Len(l) : TicksTo(l, lf2, i) = TicksTo(l, lf, i) - d
  <2>1. \A i \in 1 .. Len(l) : f[i] = TicksTo(l, lf, i) - d
    BY <1>1
  <2> HIDE DEF f
  <2>2. \A i \in 0 .. Len(l) : TicksTo(l, lf2, i) = f[i]
    <3>1. l \in Seq(Timer)
      BY <1>1
    <3>2. lf2 \in [Timer -> Int]
      BY <1>2
    <3> QED
      BY <1>4, <3>1, <3>2, TicksToIs
  <2>3. ASSUME NEW i \in 1 .. Len(l) PROVE TicksTo(l, lf2, i) = TicksTo(l, lf, i) - d
    <3>1. i \in 0 .. Len(l)
      BY <1>1
    <3> QED
      BY <2>1, <2>2, <3>1
  <2> QED
    BY <2>3
<1>6. ASSUME NEW t \in S PROVE Away(l, lf2, t) = Away(l, lf, t) - d
  BY <1>5, PlaceInList, AwayAt
<1> QED
  BY <1>2, <1>6 DEF lf2

\* Without the first timer, all others are nearer by its ticks.
LEMMA TailNearer ==
  ASSUME NEW S, NEW l, ListOf(l, S), l # <<>>, NEW lf \in [Timer -> Nat], NEW lf2 \in [Timer -> Nat],
         \A t \in S \ {Head(l)} : lf2[t] = lf[t]
  PROVE  \A t \in S \ {Head(l)} : Away(Tail(l), lf2, t) = Away(l, lf, t) - lf[Head(l)]
<1> DEFINE r == Tail(l)
           f == [j \in 0 .. Len(l) - 1 |-> TicksTo(l, lf, j + 1) - lf[Head(l)]]
<1>1. l \in Seq(Timer) /\ Len(l) \in Nat \ {0} /\ Head(l) = l[1] /\ lf \in [Timer -> Int]
      /\ Head(l) \in Timer /\ \A i \in 1 .. Len(l) : l[i] \in S /\ l[i] \in Timer /\ (l[i] = l[1] => i = 1)
  <2>1. \A i \in 1 .. Len(l) : l[i] \in S
    BY InRange DEF ListOf
  <2> QED
    BY <2>1, HeadTailProperties, EmptySeq, LenProperties DEF ListOf, NoDuplicates
<1>2. /\ r \in Seq(Timer) /\ Len(r) = Len(l) - 1
      /\ \A i \in 1 .. Len(l) - 1 : r[i] = l[i + 1]
  BY <1>1, HeadTailProperties
<1>7. ListOf(r, S \ {Head(l)})
  BY TailKeeps
<1>3. /\ \A i \in 0 .. Len(l) : TicksTo(l, lf, i) \in Int
      /\ TicksTo(l, lf, 0) = 0
      /\ \A j \in 1 .. Len(l) : TicksTo(l, lf, j) = TicksTo(l, lf, j - 1) + lf[l[j]]
  BY <1>1, TicksToIsSum
<1> HIDE DEF r
<1>4. SumsUpTo(r, lf2, Len(r), f)
  <2>1. f[0] = 0
    <3>1. lf[l[1]] \in Nat
      BY <1>1
    <3>2. TicksTo(l, lf, 1) = lf[l[1]]
      BY <1>1, <1>3, <3>1
    <3> QED
      BY <1>1, <3>1, <3>2
  <2>2. ASSUME NEW j \in 1 .. Len(l) - 1 PROVE f[j] = f[j - 1] + lf2[r[j]]
    <3>1. lf[Head(l)] \in Nat /\ lf[l[j + 1]] \in Nat /\ j + 1 \in 1 .. Len(l) /\ j \in 0 .. Len(l)
          /\ (j + 1) - 1 = j /\ (j - 1) + 1 = j
      BY <1>1
    <3>2. TicksTo(l, lf, j) \in Int /\ TicksTo(l, lf, j + 1) = TicksTo(l, lf, j) + lf[l[j + 1]]
      BY <1>3, <3>1
    <3>3. f[j] = TicksTo(l, lf, j + 1) - lf[Head(l)] /\ f[j - 1] = TicksTo(l, lf, j) - lf[Head(l)]
      BY <1>1, <3>1
    <3>4. lf2[r[j]] = lf[l[j + 1]]
      <4>1. r[j] = l[j + 1]
        BY <1>2
      <4>2. l[j + 1] \in S /\ j + 1 # 1 /\ Head(l) = l[1]
        BY <1>1, <3>1
      <4>3. l[j + 1] # Head(l)
        BY <1>1, <3>1, <4>2
      <4> QED
        BY <4>1, <4>2, <4>3
    <3> QED
      BY <3>1, <3>2, <3>3, <3>4
  <2> QED
    BY <1>2, <2>1, <2>2 DEF SumsUpTo
<1>5. \A i \in 1 .. Len(l) - 1 : TicksTo(r, lf2, i) = TicksTo(l, lf, i + 1) - lf[Head(l)]
  <2>1. \A i \in 1 .. Len(l) - 1 : f[i] = TicksTo(l, lf, i + 1) - lf[Head(l)]
    BY <1>1
  <2>2. lf2 \in [Timer -> Int]
    OBVIOUS
  <2> HIDE DEF f
  <2>3. \A i \in 0 .. Len(r) : TicksTo(r, lf2, i) = f[i]
    BY <1>2, <1>4, <2>2, TicksToIs
  <2>4. \A i \in 1 .. Len(l) - 1 : i \in 0 .. Len(r)
    BY <1>1, <1>2
  <2> QED
    BY <2>1, <2>3, <2>4
<1>6. ASSUME NEW t \in S \ {Head(l)} PROVE Away(r, lf2, t) = Away(l, lf, t) - lf[Head(l)]
  <2>1. PICK i \in 1 .. Len(r) : r[i] = t
    <3>1. t \in Range(r)
      BY <1>7 DEF ListOf
    <3> QED
      BY <1>2, <3>1, InRange
  <2>2. i \in 1 .. Len(l) - 1 /\ i + 1 \in 1 .. Len(l) /\ l[i + 1] = t
    <3>1. Len(l) \in Nat /\ i \in 1 .. Len(l) - 1
      BY <1>1, <1>2
    <3>2. r[i] = l[i + 1]
      BY <1>2, <3>1
    <3> QED
      BY <2>1, <3>1, <3>2
  <2>3. Away(r, lf2, t) = TicksTo(r, lf2, i)
    BY <1>7, <2>1, AwayAt
  <2>4. Away(l, lf, t) = TicksTo(l, lf, i + 1)
    BY <2>2, AwayAt
  <2> QED
    BY <1>5, <2>2, <2>3, <2>4
<1> QED
  BY <1>6 DEF r


\* The place of a timer that is n ticks away.
LEMMA AddPlaceProps ==
  ASSUME NEW l \in Seq(Timer), NEW lf \in [Timer -> Nat], NEW n \in Nat
  PROVE  /\ AddPlace(l, lf, n) \in 1 .. Len(l) + 1
         /\ TicksTo(l, lf, AddPlace(l, lf, n) - 1) <= n
         /\ AddPlace(l, lf, n) <= Len(l) => n < TicksTo(l, lf, AddPlace(l, lf, n))
<1> DEFINE places == {i \in 1 .. Len(l) + 1 : i <= Len(l) => n < TicksTo(l, lf, i)}
           p      == AddPlace(l, lf, n)
<1>1. Len(l) \in Nat /\ lf \in [Timer -> Int]
  BY LenProperties
<1>2. TicksTo(l, lf, 0) = 0 /\ \A i \in 0 .. Len(l) : TicksTo(l, lf, i) \in Int
  BY <1>1, TicksToIsSum
<1>3. Len(l) + 1 \in places /\ places \in SUBSET Nat
  BY <1>1
<1>4. Min(places) \in places /\ \A i \in places : Min(places) <= i
  BY <1>3, LeastOf
<1>5. p = Min(places)
  BY DEF AddPlace
<1> HIDE DEF p
<1>6. p \in 1 .. Len(l) + 1 /\ (p <= Len(l) => n < TicksTo(l, lf, p))
  BY <1>4, <1>5
<1>7. TicksTo(l, lf, p - 1) <= n
  <2>1. CASE p = 1
    BY <1>2, <2>1
  <2>2. CASE p > 1
    <3>1. p - 1 \in 1 .. Len(l) /\ ~(p <= p - 1)
      BY <1>1, <1>6, <2>2
    <3>2. p - 1 \notin places
      BY <1>4, <1>5, <3>1
    <3>3. ~(n < TicksTo(l, lf, p - 1)) /\ TicksTo(l, lf, p - 1) \in Int
      BY <1>1, <1>2, <3>1, <3>2
    <3> QED
      BY <3>3
  <2> QED
    BY <1>1, <1>6, <2>1, <2>2
<1> QED
  BY <1>6, <1>7 DEF p

\* TimerAdd moves no other timer.
LEMMA AddTicks ==
  ASSUME NEW S, NEW l, ListOf(l, S), NEW t \in Timer, t \notin S, NEW n \in Nat,
         NEW lf \in [Timer -> Nat], TimerAdd(t, n, l, lf)
  PROVE  /\ left' \in [Timer -> Nat]
         /\ Away(list', left', t) = n
         /\ \A u \in S : Away(list', left', u) = Away(l, lf, u)
<1> DEFINE p    == AddPlace(l, lf, n)
           rest == n - TicksTo(l, lf, p - 1)
           f    == [j \in 0 .. Len(l) + 1 |->
                      IF j < p THEN TicksTo(l, lf, j)
                      ELSE IF j = p THEN n ELSE TicksTo(l, lf, j - 1)]
<1>1. /\ l \in Seq(Timer) /\ Len(l) \in Nat /\ lf \in [Timer -> Int]
      /\ \A i \in 1 .. Len(l) : l[i] \in S /\ l[i] \in Timer
      /\ \A i, j \in 1 .. Len(l) : l[i] = l[j] => i = j
  <2>1. \A i \in 1 .. Len(l) : l[i] \in S
    BY InRange DEF ListOf
  <2> QED
    BY <2>1, LenProperties DEF ListOf, NoDuplicates
<1>2. /\ p \in 1 .. Len(l) + 1
      /\ TicksTo(l, lf, p - 1) <= n
      /\ p <= Len(l) => n < TicksTo(l, lf, p)
  BY <1>1, AddPlaceProps
<1>3. /\ \A i \in 0 .. Len(l) : TicksTo(l, lf, i) \in Int
      /\ TicksTo(l, lf, 0) = 0
      /\ \A j \in 1 .. Len(l) : TicksTo(l, lf, j) = TicksTo(l, lf, j - 1) + lf[l[j]]
  BY <1>1, TicksToIsSum
<1>4. /\ list' = InsertAt(l, p, t)
      /\ left' = [u \in Timer |-> IF u = t THEN rest
                                  ELSE IF p <= Len(l) /\ u = l[p] THEN lf[u] - rest
                                  ELSE lf[u]]
  BY DEF TimerAdd
<1>5. /\ list' \in Seq(Timer) /\ Len(list') = Len(l) + 1
      /\ \A j \in 1 .. Len(l) + 1 : list'[j] = IF j < p THEN l[j] ELSE IF j = p THEN t ELSE l[j - 1]
  <2> DEFINE ins == InsertAt(l, p, t)
  <2>1. /\ ins \in Seq(Timer) /\ Len(ins) = Len(l) + 1
        /\ \A j \in 1 .. Len(l) + 1 : ins[j] = IF j < p THEN l[j] ELSE IF j = p THEN t ELSE l[j - 1]
    <3> HIDE DEF p
    <3> QED
      BY <1>1, <1>2, InsertAtProps, InsertAtElements
  <2> QED
    BY <1>4, <2>1
<1>6. ListOf(list', S \cup {t})
  BY <1>2, <1>4, InsertKeeps
<1> HIDE DEF p
<1>7. rest \in Nat /\ (p <= Len(l) => lf[l[p]] - rest \in Nat)
  <2>1. p - 1 \in 0 .. Len(l) /\ TicksTo(l, lf, p - 1) \in Int
    BY <1>1, <1>2, <1>3
  <2>2. CASE p <= Len(l)
    <3>1. p \in 1 .. Len(l) /\ p \in 0 .. Len(l)
      BY <1>1, <1>2, <2>2
    <3>2. TicksTo(l, lf, p) = TicksTo(l, lf, p - 1) + lf[l[p]] /\ lf[l[p]] \in Nat /\ TicksTo(l, lf, p) \in Int
      BY <1>1, <1>3, <3>1
    <3> QED
      BY <1>2, <2>1, <2>2, <3>2
  <2> QED
    BY <1>2, <2>1, <2>2
<1> HIDE DEF rest
<1>8. /\ left' \in [Timer -> Nat] /\ left' \in [Timer -> Int]
      /\ left'[t] = rest
      /\ p <= Len(l) => left'[l[p]] = lf[l[p]] - rest
      /\ \A i \in 1 .. Len(l) : i # p => left'[l[i]] = lf[l[i]]
  <2>1. left' \in [Timer -> Nat]
    <3>1. ASSUME NEW u \in Timer PROVE left'[u] \in Nat
      <4>1. CASE u = t
        BY <1>4, <1>7, <4>1
      <4>2. CASE u # t /\ p <= Len(l) /\ u = l[p]
        BY <1>4, <1>7, <4>2
      <4>3. CASE u # t /\ ~(p <= Len(l) /\ u = l[p])
        BY <1>4, <4>3
      <4> QED
        BY <4>1, <4>2, <4>3
    <3>2. DOMAIN left' = Timer /\ left' = [u \in Timer |-> left'[u]]
      BY <1>4
    <3> QED
      BY <3>1, <3>2
  <2>2. left'[t] = rest
    BY <1>4
  <2>3. ASSUME p <= Len(l) PROVE left'[l[p]] = lf[l[p]] - rest
    <3>1. p \in 1 .. Len(l)
      BY <1>1, <1>2, <2>3
    <3>2. l[p] \in Timer /\ l[p] # t
      BY <1>1, <3>1
    <3> QED
      BY <1>4, <2>3, <3>2
  <2>4. ASSUME NEW i \in 1 .. Len(l), i # p PROVE left'[l[i]] = lf[l[i]]
    <3>1. l[i] \in Timer /\ l[i] # t
      BY <1>1
    <3>2. ~(p <= Len(l) /\ l[i] = l[p])
      BY <1>1, <1>2, <2>4
    <3> QED
      BY <1>4, <3>1, <3>2
  <2> QED
    BY <2>1, <2>2, <2>3, <2>4
<1>9. SumsUpTo(list', left', Len(list'), f)
  <2>1. f[0] = 0
    BY <1>1, <1>2, <1>3
  <2>2. ASSUME NEW j \in 1 .. Len(l) + 1 PROVE f[j] = f[j - 1] + left'[list'[j]]
    <3>1. CASE j < p
      <4>1. j \in 1 .. Len(l) /\ j # p /\ j - 1 < p /\ j - 1 \in 0 .. Len(l) + 1
        BY <1>1, <1>2, <3>1
      <4>2. f[j] = TicksTo(l, lf, j) /\ f[j - 1] = TicksTo(l, lf, j - 1)
        BY <3>1, <4>1
      <4>3. list'[j] = l[j] /\ left'[l[j]] = lf[l[j]]
        BY <1>5, <1>8, <3>1, <4>1
      <4> QED
        BY <1>3, <4>1, <4>2, <4>3
    <3>2. CASE j = p
      <4>1. j - 1 < p /\ j - 1 \in 0 .. Len(l) + 1 /\ j - 1 \in 0 .. Len(l) /\ ~(j < p)
        BY <1>1, <1>2, <3>2
      <4>2. f[j] = n /\ f[j - 1] = TicksTo(l, lf, p - 1)
        BY <3>2, <4>1
      <4>3. list'[j] = t
        BY <1>5, <3>2, <4>1
      <4>4. TicksTo(l, lf, p - 1) \in Int
        BY <1>3, <3>2, <4>1
      <4> QED
        BY <1>8, <4>2, <4>3, <4>4 DEF rest
    <3>3. CASE j = p + 1
      <4>1. p \in 1 .. Len(l) /\ p <= Len(l) /\ p - 1 \in 0 .. Len(l) /\ p \in 0 .. Len(l) + 1
            /\ j - 1 = p /\ ~(j < p) /\ j # p
        BY <1>1, <1>2, <3>3
      <4>2. f[j] = TicksTo(l, lf, p) /\ f[j - 1] = n
        BY <4>1
      <4>3. list'[j] = l[p]
        BY <1>5, <4>1
      <4>4. TicksTo(l, lf, p - 1) \in Int /\ lf[l[p]] \in Int
            /\ TicksTo(l, lf, p) = TicksTo(l, lf, p - 1) + lf[l[p]]
        BY <1>1, <1>3, <4>1
      <4>5. left'[l[p]] = lf[l[p]] - rest
        BY <1>8, <4>1
      <4> QED
        BY <4>2, <4>3, <4>4, <4>5 DEF rest
    <3>4. CASE j > p + 1
      <4>1. j - 1 \in 1 .. Len(l) /\ j - 1 # p /\ j - 1 > p /\ j > p /\ j - 1 \in 0 .. Len(l) + 1
        BY <1>1, <1>2, <3>4
      <4>2. f[j] = TicksTo(l, lf, j - 1) /\ f[j - 1] = TicksTo(l, lf, (j - 1) - 1)
        BY <1>2, <4>1
      <4>3. list'[j] = l[j - 1] /\ left'[l[j - 1]] = lf[l[j - 1]]
        BY <1>2, <1>5, <1>8, <4>1
      <4> QED
        BY <1>3, <4>1, <4>2, <4>3
    <3> QED
      BY <1>1, <1>2, <3>1, <3>2, <3>3, <3>4
  <2> HIDE DEF f
  <2> QED
    BY <1>5, <2>1, <2>2 DEF SumsUpTo
<1>10. \A i \in 0 .. Len(l) + 1 : TicksTo(list', left', i) = f[i]
  <2> HIDE DEF f
  <2>1. list' \in Seq(Timer)
    BY <1>5
  <2>2. left' \in [Timer -> Int]
    BY <1>8
  <2>3. \A i \in 0 .. Len(list') : TicksTo(list', left', i) = f[i]
    BY <1>9, <2>1, <2>2, TicksToIs
  <2> QED
    BY <1>5, <2>3
<1>11. Away(list', left', t) = n
  <2>1. p \in 1 .. Len(list') /\ p \in 0 .. Len(l) + 1 /\ list'[p] = t
    BY <1>1, <1>2, <1>5
  <2>2. Away(list', left', list'[p]) = TicksTo(list', left', p)
    BY <1>6, <2>1, AwayAt
  <2>3. f[p] = n
    BY <1>2, <2>1
  <2> HIDE DEF f
  <2> QED
    BY <1>10, <2>1, <2>2, <2>3
<1>12. ASSUME NEW u \in S PROVE Away(list', left', u) = Away(l, lf, u)
  <2>1. PICK i \in 1 .. Len(l) : l[i] = u
    BY PlaceInList
  <2>2. Away(l, lf, u) = TicksTo(l, lf, i)
    BY <2>1, AwayAt
  <2>3. PICK k \in 1 .. Len(l) + 1 : list'[k] = u /\ f[k] = TicksTo(l, lf, i)
    <3>1. CASE i < p
      <4>1. i \in 1 .. Len(l) + 1 /\ i \in 0 .. Len(l) + 1
        BY <1>1
      <4>2. list'[i] = u /\ f[i] = TicksTo(l, lf, i)
        BY <1>5, <2>1, <3>1, <4>1
      <4> QED
        BY <4>1, <4>2
    <3>2. CASE i >= p
      <4>1. i + 1 \in 1 .. Len(l) + 1 /\ i + 1 \in 0 .. Len(l) + 1 /\ ~(i + 1 < p) /\ i + 1 # p /\ (i + 1) - 1 = i
        BY <1>1, <1>2, <3>2
      <4>2. list'[i + 1] = u /\ f[i + 1] = TicksTo(l, lf, i)
        BY <1>5, <2>1, <4>1
      <4> QED
        BY <4>1, <4>2
    <3> HIDE DEF f
    <3>3. i < p \/ i >= p
      BY <1>1, <1>2
    <3> QED
      BY <3>1, <3>2, <3>3
  <2> HIDE DEF f
  <2>4. k \in 1 .. Len(list') /\ k \in 0 .. Len(l) + 1
    BY <1>1, <1>5
  <2>5. Away(list', left', list'[k]) = TicksTo(list', left', k)
    BY <1>6, <2>4, AwayAt
  <2> QED
    BY <1>10, <2>2, <2>3, <2>4, <2>5
<1> QED
  BY <1>8, <1>11, <1>12


\* The ticks of the timer t are given to the one behind it.
HandedOn(l, lf, t) ==
  [u \in Timer |->
     IF u = t THEN 0
     ELSE IF \E i \in 2 .. Len(l) : l[i - 1] = t /\ l[i] = u THEN lf[u] + lf[t]
     ELSE lf[u]]

\* BermudaTimerStop moves no other timer.
LEMMA RemoveTicks ==
  ASSUME NEW S, NEW l, ListOf(l, S), NEW t \in S, NEW lf \in [Timer -> Nat], NEW lf2,
         lf2 = HandedOn(l, lf, t)
  PROVE  /\ lf2 \in [Timer -> Nat]
         /\ \A u \in S \ {t} : Away(RemoveFirst(l, t), lf2, u) = Away(l, lf, u)
<1> DEFINE r == RemoveFirst(l, t)
<1>1. /\ l \in Seq(Timer) /\ Len(l) \in Nat /\ lf \in [Timer -> Int]
      /\ \A i \in 1 .. Len(l) : l[i] \in S /\ l[i] \in Timer
      /\ \A i, j \in 1 .. Len(l) : l[i] = l[j] => i = j
  <2>1. \A i \in 1 .. Len(l) : l[i] \in S
    BY InRange DEF ListOf
  <2> QED
    BY <2>1, LenProperties DEF ListOf, NoDuplicates
<1>2. PICK k \in 1 .. Len(l) : l[k] = t /\ r = RemoveAt(l, k)
  <2>1. t \in Range(l)
    BY DEF ListOf
  <2> QED
    BY <1>1, <2>1, RemoveFirstPlace
<1> DEFINE f == [j \in 0 .. Len(l) - 1 |->
                   IF j < k THEN TicksTo(l, lf, j) ELSE TicksTo(l, lf, j + 1)]
<1>3. /\ \A i \in 0 .. Len(l) : TicksTo(l, lf, i) \in Int
      /\ TicksTo(l, lf, 0) = 0
      /\ \A j \in 1 .. Len(l) : TicksTo(l, lf, j) = TicksTo(l, lf, j - 1) + lf[l[j]]
  BY <1>1, TicksToIsSum
<1>4. /\ r \in Seq(Timer) /\ Len(r) = Len(l) - 1
      /\ \A j \in 1 .. Len(l) - 1 : r[j] = IF j < k THEN l[j] ELSE l[j + 1]
  <2> DEFINE rem == RemoveAt(l, k)
  <2>1. /\ rem \in Seq(Timer) /\ Len(rem) = Len(l) - 1
        /\ \A j \in 1 .. Len(l) - 1 : rem[j] = IF j < k THEN l[j] ELSE l[j + 1]
    BY <1>1, RemoveAtProps
  <2> QED
    BY <1>2, <2>1
<1>5. ListOf(r, S \ {t})
  BY RemoveFirstProps DEF ListOf
<1>6. t \in Timer /\ lf[t] \in Nat
  BY <1>1, <1>2
<1> HIDE DEF r
<1>7. /\ lf2 \in [Timer -> Nat] /\ lf2 \in [Timer -> Int]
      /\ \A i \in 1 .. Len(l) :
           i # k => lf2[l[i]] = IF i = k + 1 THEN lf[l[i]] + lf[t] ELSE lf[l[i]]
  <2>1. ASSUME NEW u \in Timer PROVE lf2[u] \in {0, lf[u], lf[u] + lf[t]}
    BY DEF HandedOn
  <2>2. lf2 \in [Timer -> Nat]
    <3>1. ASSUME NEW u \in Timer PROVE lf2[u] \in Nat
      BY <1>6, <2>1
    <3>2. lf2 = [u \in Timer |-> lf2[u]]
      BY DEF HandedOn
    <3> QED
      BY <3>1, <3>2
  <2>3. ASSUME NEW i \in 1 .. Len(l), i # k
        PROVE  lf2[l[i]] = IF i = k + 1 THEN lf[l[i]] + lf[t] ELSE lf[l[i]]
    <3>1. l[i] \in Timer /\ l[i] # t
      BY <1>1, <1>2, <2>3
    <3>2. (\E j \in 2 .. Len(l) : l[j - 1] = t /\ l[j] = l[i]) <=> i = k + 1
      <4>1. ASSUME NEW j \in 2 .. Len(l), l[j - 1] = t, l[j] = l[i] PROVE i = k + 1
        <5>1. j - 1 \in 1 .. Len(l) /\ j \in 1 .. Len(l)
          BY <1>1
        <5>2. j - 1 = k /\ j = i
          BY <1>1, <1>2, <4>1, <5>1
        <5> QED
          BY <5>2
      <4>2. ASSUME i = k + 1 PROVE \E j \in 2 .. Len(l) : l[j - 1] = t /\ l[j] = l[i]
        <5>1. i \in 2 .. Len(l) /\ i - 1 = k
          BY <1>1, <4>2
        <5> QED
          BY <1>2, <5>1
      <4> QED
        BY <4>1, <4>2
    <3>3. CASE i = k + 1
      BY <3>1, <3>2, <3>3 DEF HandedOn
    <3>4. CASE i # k + 1
      BY <3>1, <3>2, <3>4 DEF HandedOn
    <3> QED
      BY <3>3, <3>4
  <2> QED
    BY <2>2, <2>3
<1>8. SumsUpTo(r, lf2, Len(r), f)
  <2>1. f[0] = 0
    BY <1>1, <1>2, <1>3
  <2>2. ASSUME NEW j \in 1 .. Len(l) - 1 PROVE f[j] = f[j - 1] + lf2[r[j]]
    <3>1. CASE j < k
      <4>1. j \in 1 .. Len(l) /\ j # k /\ j # k + 1 /\ j - 1 < k /\ j - 1 \in 0 .. Len(l) - 1
            /\ j \in 0 .. Len(l) - 1
        BY <1>1, <1>2, <3>1
      <4>2. f[j] = TicksTo(l, lf, j) /\ f[j - 1] = TicksTo(l, lf, j - 1)
        BY <3>1, <4>1
      <4>3. r[j] = l[j] /\ lf2[l[j]] = lf[l[j]]
        BY <1>4, <1>7, <3>1, <4>1
      <4> QED
        BY <1>3, <4>1, <4>2, <4>3
    <3>2. CASE j = k
      <4>1. k + 1 \in 1 .. Len(l) /\ k \in 1 .. Len(l) /\ k - 1 < k /\ k - 1 \in 0 .. Len(l) - 1
            /\ k - 1 \in 0 .. Len(l) /\ k \in 0 .. Len(l) - 1 /\ ~(k < k) /\ k + 1 # k /\ (k + 1) - 1 = k
        BY <1>1, <1>2, <3>2
      <4>2. f[k] = TicksTo(l, lf, k + 1) /\ f[k - 1] = TicksTo(l, lf, k - 1)
        BY <4>1
      <4>3. r[k] = l[k + 1] /\ lf2[l[k + 1]] = lf[l[k + 1]] + lf[t]
        BY <1>4, <1>7, <3>2, <4>1
      <4>4. /\ TicksTo(l, lf, k - 1) \in Int /\ lf[l[k + 1]] \in Int /\ lf[t] \in Int
            /\ TicksTo(l, lf, k) = TicksTo(l, lf, k - 1) + lf[t]
            /\ TicksTo(l, lf, k + 1) = TicksTo(l, lf, k) + lf[l[k + 1]]
        BY <1>1, <1>2, <1>3, <1>6, <4>1
      <4> QED
        BY <3>2, <4>2, <4>3, <4>4
    <3>3. CASE j > k
      <4>1. j + 1 \in 1 .. Len(l) /\ j + 1 # k /\ j + 1 # k + 1 /\ ~(j < k) /\ ~(j - 1 < k)
            /\ j - 1 \in 0 .. Len(l) - 1 /\ j \in 0 .. Len(l) - 1 /\ (j - 1) + 1 = j /\ (j + 1) - 1 = j
        BY <1>1, <1>2, <3>3
      <4>2. f[j] = TicksTo(l, lf, j + 1) /\ f[j - 1] = TicksTo(l, lf, j)
        BY <4>1
      <4>3. r[j] = l[j + 1] /\ lf2[l[j + 1]] = lf[l[j + 1]]
        BY <1>4, <1>7, <4>1
      <4> QED
        BY <1>3, <4>1, <4>2, <4>3
    <3> QED
      BY <1>1, <1>2, <3>1, <3>2, <3>3
  <2> HIDE DEF f
  <2> QED
    BY <1>4, <2>1, <2>2 DEF SumsUpTo
<1>9. \A i \in 0 .. Len(l) - 1 : TicksTo(r, lf2, i) = f[i]
  <2> HIDE DEF f
  <2>1. lf2 \in [Timer -> Int] /\ r \in Seq(Timer)
    BY <1>4, <1>7
  <2>2. \A i \in 0 .. Len(r) : TicksTo(r, lf2, i) = f[i]
    BY <1>8, <2>1, TicksToIs
  <2> QED
    BY <1>4, <2>2
<1>10. ASSUME NEW u \in S \ {t} PROVE Away(r, lf2, u) = Away(l, lf, u)
  <2>1. PICK i \in 1 .. Len(l) : l[i] = u
    BY PlaceInList
  <2>2. Away(l, lf, u) = TicksTo(l, lf, i)
    BY <2>1, AwayAt
  <2>3. PICK j \in 1 .. Len(l) - 1 : r[j] = u /\ f[j] = TicksTo(l, lf, i)
    <3>1. CASE i < k
      <4>1. i \in 1 .. Len(l) - 1 /\ i \in 0 .. Len(l) - 1
        BY <1>1, <1>2, <3>1
      <4>2. r[i] = u /\ f[i] = TicksTo(l, lf, i)
        BY <1>4, <2>1, <3>1, <4>1
      <4> QED
        BY <4>1, <4>2
    <3>2. CASE i > k
      <4>1. i - 1 \in 1 .. Len(l) - 1 /\ i - 1 \in 0 .. Len(l) - 1 /\ ~(i - 1 < k) /\ (i - 1) + 1 = i
        BY <1>1, <1>2, <3>2
      <4>2. r[i - 1] = u /\ f[i - 1] = TicksTo(l, lf, i)
        BY <1>4, <2>1, <4>1
      <4> QED
        BY <4>1, <4>2
    <3> HIDE DEF f
    <3>3. i < k \/ i > k
      BY <1>1, <1>2, <2>1
    <3> QED
      BY <3>1, <3>2, <3>3
  <2> HIDE DEF f
  <2>4. j \in 1 .. Len(r) /\ j \in 0 .. Len(l) - 1
    BY <1>1, <1>4
  <2>5. Away(r, lf2, r[j]) = TicksTo(r, lf2, j)
    BY <1>5, <2>4, AwayAt
  <2> QED
    BY <1>9, <2>2, <2>3, <2>4, <2>5
<1> QED
  BY <1>7, <1>10 DEF r


-----------------------------------------------------------------------------
(***************************************************************************)
(* The tick counter, which wraps.                                          *)
(***************************************************************************)
LEMMA Remainders ==
  ASSUME NEW w \in Nat, w > 0, NEW x \in Int
  PROVE  /\ x >= 0 /\ x < w => x % w = x
         /\ x >= -w /\ x < 0 => x % w = x + w
         /\ x = w => x % w = 0
OBVIOUS

\* The lag is the distance from last to tick, around the end of the counter.
LEMMA LagIs ==
  ASSUME tick \in 0 .. Wrap - 1, last \in 0 .. Wrap - 1
  PROVE  Lag = IF last <= tick THEN tick - last ELSE tick - last + Wrap
<1>1. Wrap \in Nat /\ Wrap > 0
  BY TimerConstants
<1>2. tick - last \in Int /\ tick - last < Wrap /\ tick - last >= -Wrap
  BY <1>1
<1> QED
  BY <1>1, <1>2, Remainders DEF Lag

(***************************************************************************)
(* What the deadlines need: the ticks of TimersInv are natural numbers,    *)
(* those of a call are distributed when it returns, and a stopped timer    *)
(* does not start again.                                                   *)
(***************************************************************************)
Counters ==
  /\ left \in [Timer -> Nat]
  /\ ticks \in [Timer -> Ticks \cup {0}]
  /\ handle \in [Timer -> BOOLEAN]
  /\ tick \in 0 .. Wrap - 1
  /\ last \in 0 .. Wrap - 1
  /\ Lag \in 0 .. MaxLag
  /\ diff \in Nat
  /\ pc \in {"thread", "process"}
  /\ pc = "thread" => diff = 0
  /\ \A t \in heap : ~handle[t] => ticks[t] = 0

DeadlineInv == TimersInv /\ Counters

\* A timer is put as far away as it was created, beyond the ticks not seen yet.
LEMMA CreatedAway ==
  ASSUME Counters, NEW n \in Ticks
  PROVE  (n + tick - last) % Wrap = n + Lag /\ n \in Nat
<1>1. n \in Nat /\ n + MaxLag < Wrap /\ Wrap \in Nat /\ Wrap > 0 /\ MaxLag \in Nat
  BY TimerConstants
<1>2. tick \in 0 .. Wrap - 1 /\ last \in 0 .. Wrap - 1 /\ Lag \in 0 .. MaxLag
  BY DEF Counters
<1>3. Lag = IF last <= tick THEN tick - last ELSE tick - last + Wrap
  BY <1>2, LagIs
<1> HIDE DEF Lag
<1>4. CASE last <= tick
  <2>1. n + tick - last = n + Lag /\ n + Lag >= 0 /\ n + Lag < Wrap /\ n + Lag \in Int
    BY <1>1, <1>2, <1>3, <1>4
  <2> QED
    BY <1>1, <2>1, Remainders
<1>5. CASE ~(last <= tick)
  <2>1. /\ n + tick - last + Wrap = n + Lag /\ n + tick - last >= -Wrap /\ n + tick - last < 0
        /\ n + tick - last \in Int
    BY <1>1, <1>2, <1>3, <1>5
  <2> QED
    BY <1>1, <2>1, Remainders
<1> QED
  BY <1>1, <1>4, <1>5

LEMMA TickLag ==
  ASSUME Counters, SysTick
  PROVE  /\ tick' \in 0 .. Wrap - 1 /\ last' = last
         /\ Lag' = Lag + 1 /\ Lag + 1 \in 0 .. MaxLag
<1>1. Wrap \in Nat /\ Wrap > 0 /\ MaxLag \in Nat /\ MaxLag < Wrap
  BY TimerConstants
<1>2. /\ tick \in 0 .. Wrap - 1 /\ last \in 0 .. Wrap - 1 /\ Lag \in 0 .. MaxLag /\ Lag < MaxLag
      /\ tick' = (tick + 1) % Wrap /\ last' = last
  BY DEF Counters, SysTick
<1>3. Lag = IF last <= tick THEN tick - last ELSE tick - last + Wrap
  BY <1>2, LagIs
<1>4. tick' = IF tick + 1 = Wrap THEN 0 ELSE tick + 1
  <2>1. tick + 1 \in Int /\ tick + 1 >= 0
    BY <1>1, <1>2
  <2>2. CASE tick + 1 = Wrap
    BY <1>1, <1>2, <2>1, <2>2, Remainders
  <2>3. CASE tick + 1 # Wrap
    <3>1. tick + 1 < Wrap
      BY <1>1, <1>2, <2>3
    <3>2. (tick + 1) % Wrap = tick + 1
      BY <1>1, <2>1, <3>1, Remainders
    <3> QED
      BY <1>2, <2>3, <3>2
  <2> QED
    BY <2>2, <2>3
<1>5. tick' \in 0 .. Wrap - 1 /\ last' \in 0 .. Wrap - 1
  BY <1>1, <1>2, <1>4
<1>6. Lag' = IF last' <= tick' THEN tick' - last' ELSE tick' - last' + Wrap
  <2>1. Lag' = (tick' - last') % Wrap
    BY DEF Lag
  <2>2. tick' - last' \in Int /\ tick' - last' < Wrap /\ tick' - last' >= -Wrap
    <3>1. ASSUME NEW x \in 0 .. Wrap - 1, NEW y \in 0 .. Wrap - 1
          PROVE  x - y \in Int /\ x - y < Wrap /\ x - y >= -Wrap
      BY <1>1
    <3> QED
      BY <1>5, <3>1
  <2> QED
    BY <1>1, <2>1, <2>2, <1>5, Remainders
<1> QED
  BY <1>1, <1>2, <1>3, <1>4, <1>5, <1>6


-----------------------------------------------------------------------------
(***************************************************************************)
(* Each step of VirtTimer is a step of TimerSpec or none.                  *)
(***************************************************************************)
Period == [t \in Timer |-> IF t \in Running THEN ticks[t] ELSE 0]

Since == IF pc = "process" THEN Lag ELSE 0

LEMMA DueIs ==
  /\ Due = [t \in Timer |-> IF t \in Running THEN Away(list, left, t) - diff - Lag ELSE 0]
  /\ Due' = [t \in Timer |-> IF t \in Running' THEN Away(list', left', t) - diff' - Lag' ELSE 0]
BY DEF Due, Away

LEMMA AwayIsTicks ==
  ASSUME DeadlineInv, NEW t \in heap
  PROVE  Away(list, left, t) \in Nat /\ t \in Timer
<1>1. left \in [Timer -> Nat] /\ left \in [Timer -> Int] /\ ListOf(list, heap) /\ list \in Seq(Timer)
      /\ t \in Timer /\ Len(list) \in Nat
  BY LenProperties DEF DeadlineInv, TimersInv, Counters, ListOf
<1>2. PICK i \in 1 .. Len(list) : list[i] = t
  BY <1>1, PlaceInList
<1>3. Away(list, left, t) = TicksTo(list, left, i)
  BY <1>1, <1>2, AwayAt
<1>4. TicksTo(list, left, 0) = 0 /\ TicksTo(list, left, i) \in Int
  BY <1>1, TicksToIsSum
<1>5. TicksTo(list, left, 0) <= TicksTo(list, left, i)
  <2>1. 0 \in 0 .. Len(list) /\ i \in 0 .. Len(list)
    BY <1>1
  <2> QED
    BY <1>1, <2>1, TicksGrow
<1> QED
  BY <1>1, <1>3, <1>4, <1>5

LEMMA CreateStarts ==
  ASSUME DeadlineInv, NEW t \in Timer, NEW n \in Ticks, NEW periodic \in BOOLEAN,
         TimerCreate(t, n, periodic)
  PROVE  /\ Counters'
         /\ Abstract!Start(t, n, IF periodic THEN n ELSE 0)
<1> DEFINE p == IF periodic THEN n ELSE 0
<1>1. /\ heap \subseteq Timer /\ ListOf(list, heap) /\ Counters
      /\ left \in [Timer -> Nat] /\ ticks \in [Timer -> Ticks \cup {0}]
      /\ handle \in [Timer -> BOOLEAN] /\ Lag \in 0 .. MaxLag
  BY DEF DeadlineInv, TimersInv, Counters
<1>2. /\ pc = "thread" /\ t \notin heap /\ heap' = heap \cup {t}
      /\ ticks' = [ticks EXCEPT ![t] = p] /\ handle' = [handle EXCEPT ![t] = TRUE]
      /\ TimerAdd(t, (n + tick - last) % Wrap, list, left)
      /\ UNCHANGED <<tick, last, diff, pc>>
  BY DEF TimerCreate
<1>3. (n + tick - last) % Wrap = n + Lag /\ n \in Nat /\ n + Lag \in Nat /\ Lag \in Int
  <2>1. (n + tick - last) % Wrap = n + Lag /\ n \in Nat
    BY <1>1, CreatedAway
  <2> HIDE DEF Lag
  <2> QED
    BY <1>1, <2>1, TimerConstants
<1>4. Lag' = Lag /\ diff = 0 /\ diff' = 0
  BY <1>1, <1>2 DEF Lag, Counters
<1> HIDE DEF Lag
<1>5. TimerAdd(t, n + Lag, list, left)
  BY <1>2, <1>3
<1>6. /\ left' \in [Timer -> Nat]
      /\ Away(list', left', t) = n + Lag
      /\ \A u \in heap : Away(list', left', u) = Away(list, left, u)
  BY <1>1, <1>2, <1>3, <1>5, AddTicks
<1>7. Counters'
  <2>1. ticks' \in [Timer -> Ticks \cup {0}] /\ handle' \in [Timer -> BOOLEAN]
    BY <1>1, <1>2
  <2>2. \A u \in heap' : ~handle'[u] => ticks'[u] = 0
    BY <1>1, <1>2 DEF Counters
  <2> QED
    BY <1>1, <1>2, <1>4, <1>6, <2>1, <2>2 DEF Counters
<1>8. Running' = Running \cup {t} /\ t \notin Running /\ Running \subseteq heap
  BY <1>1, <1>2 DEF Running
<1>9. Due' = [Due EXCEPT ![t] = n]
  <2>1. ASSUME NEW u \in Timer PROVE Due'[u] = IF u = t THEN n ELSE Due[u]
    <3>1. CASE u = t
      BY <1>3, <1>4, <1>6, <1>8, <3>1, DueIs
    <3>2. CASE u # t /\ u \in Running
      BY <1>4, <1>6, <1>8, <3>2, DueIs
    <3>3. CASE u # t /\ u \notin Running
      BY <1>8, <3>3, DueIs
    <3> QED
      BY <3>1, <3>2, <3>3
  <2> QED
    BY <2>1, DueIs
<1>10. Period' = [Period EXCEPT ![t] = p]
  <2>1. ASSUME NEW u \in Timer PROVE Period'[u] = IF u = t THEN p ELSE Period[u]
    <3>1. CASE u = t
      BY <1>1, <1>2, <1>8, <3>1 DEF Period
    <3>2. CASE u # t
      BY <1>1, <1>2, <1>8, <3>2 DEF Period
    <3> QED
      BY <3>1, <3>2
  <2> QED
    BY <2>1 DEF Period
<1>11. Since' = Since /\ pc' = pc
  BY <1>2, <1>4 DEF Since
<1>12. p \in {0, n}
  OBVIOUS
<1> HIDE DEF p
<1>13. Abstract!Start(t, n, p)
  BY <1>2, <1>8, <1>9, <1>10, <1>11, <1>12 DEF Abstract!Start, Period, Since
<1> QED
  BY <1>7, <1>13 DEF p


LEMMA StopStops ==
  ASSUME DeadlineInv, NEW t \in Timer, TimerStop(t)
  PROVE  Counters' /\ Abstract!Stop(t)
<1>1. /\ heap \subseteq Timer /\ ListOf(list, heap) /\ Counters
      /\ left \in [Timer -> Nat] /\ ticks \in [Timer -> Ticks \cup {0}]
      /\ handle \in [Timer -> BOOLEAN]
  BY DEF DeadlineInv, TimersInv, Counters
<1>2. /\ pc = "thread" /\ t \in heap /\ handle[t]
      /\ handle' = [handle EXCEPT ![t] = FALSE] /\ ticks' = [ticks EXCEPT ![t] = 0]
      /\ UNCHANGED <<tick, last, diff, pc>>
  BY DEF TimerStop
<1>3. Lag' = Lag /\ diff' = diff /\ pc' = pc
  BY <1>2 DEF Lag
<1> HIDE DEF Lag
<1>4. /\ left' \in [Timer -> Nat]
      /\ \A u \in heap \ {t} : Away(list', left', u) = Away(list, left, u)
      /\ heap' \in {heap, heap \ {t}}
  <2>1. CASE UNCHANGED <<list, left, heap>>
    BY <1>1, <2>1
  <2>2. CASE list' = RemoveFirst(list, t) /\ left' = HandedOn(list, left, t) /\ heap' = heap \ {t}
    BY <1>1, <1>2, <2>2, RemoveTicks
  <2>3. \/ UNCHANGED <<list, left, heap>>
        \/ list' = RemoveFirst(list, t) /\ left' = HandedOn(list, left, t) /\ heap' = heap \ {t}
    BY DEF TimerStop, HandedOn
  <2> QED
    BY <2>1, <2>2, <2>3
<1>5. Counters'
  <2>1. ticks' \in [Timer -> Ticks \cup {0}] /\ handle' \in [Timer -> BOOLEAN]
    BY <1>1, <1>2
  <2>2. \A u \in heap' : ~handle'[u] => ticks'[u] = 0
    BY <1>1, <1>2, <1>4 DEF Counters
  <2> QED
    BY <1>1, <1>2, <1>3, <1>4, <2>1, <2>2 DEF Counters
<1>6. Running' = Running \ {t} /\ t \in Running /\ Running \subseteq heap
  BY <1>1, <1>2, <1>4 DEF Running
<1>7. Due' = [Due EXCEPT ![t] = 0]
  <2>1. ASSUME NEW u \in Timer PROVE Due'[u] = IF u = t THEN 0 ELSE Due[u]
    <3>1. CASE u = t
      BY <1>6, <3>1, DueIs
    <3>2. CASE u # t /\ u \in Running
      BY <1>3, <1>4, <1>6, <3>2, DueIs
    <3>3. CASE u # t /\ u \notin Running
      BY <1>6, <3>3, DueIs
    <3> QED
      BY <3>1, <3>2, <3>3
  <2> QED
    BY <2>1, DueIs
<1>8. Period' = [Period EXCEPT ![t] = 0]
  <2>1. ASSUME NEW u \in Timer PROVE Period'[u] = IF u = t THEN 0 ELSE Period[u]
    <3>1. CASE u = t
      BY <1>6, <3>1 DEF Period
    <3>2. CASE u # t
      BY <1>1, <1>2, <1>6, <3>2 DEF Period
    <3> QED
      BY <3>1, <3>2
  <2> QED
    BY <2>1 DEF Period
<1>9. Since' = Since
  BY <1>3 DEF Since
<1>10. Abstract!Stop(t)
  BY <1>2, <1>3, <1>6, <1>7, <1>8, <1>9 DEF Abstract!Stop, Period, Since
<1> QED
  BY <1>5, <1>10

LEMMA CallCalls ==
  ASSUME DeadlineInv, TimerProcess
  PROVE  Counters' /\ Abstract!Call
<1>1. Counters /\ Lag \in 0 .. MaxLag /\ tick \in 0 .. Wrap - 1
  BY DEF DeadlineInv, Counters
<1>2. /\ pc = "thread" /\ diff' = Lag /\ last' = tick /\ pc' = "process" /\ diff = 0
      /\ UNCHANGED <<list, left, ticks, handle, heap, tick>>
  BY <1>1 DEF TimerProcess, Counters
<1>3. Lag' = 0
  <2>1. Wrap \in Nat /\ Wrap > 0
    BY TimerConstants
  <2>2. tick - tick = 0 /\ 0 % Wrap = 0
    BY <1>1, <2>1, Remainders
  <2> QED
    BY <1>2, <2>2 DEF Lag
<1> HIDE DEF Lag
<1>4. Counters'
  BY <1>1, <1>2, <1>3, TimerConstants DEF Counters
<1>5. Running' = Running
  BY <1>2 DEF Running
<1>6. Due' = Due
  <2>1. ASSUME NEW u \in Running PROVE Away(list, left, u) - diff' - Lag' = Away(list, left, u) - diff - Lag
    <3>1. Away(list, left, u) \in Nat
      BY AwayIsTicks DEF Running
    <3> QED
      BY <1>1, <1>2, <1>3, <3>1
  <2>2. list' = list /\ left' = left
    BY <1>2
  <2> QED
    BY <1>5, <2>1, <2>2, DueIs
<1>7. Period' = Period
  BY <1>2, <1>5 DEF Period
<1>8. Since = 0 /\ Since' = 0
  BY <1>2, <1>3 DEF Since
<1> QED
  BY <1>2, <1>4, <1>5, <1>6, <1>7, <1>8 DEF Abstract!Call, Period, Since

LEMMA DistributeStutters ==
  ASSUME DeadlineInv, Distribute
  PROVE  Counters' /\ UNCHANGED Abstract!tsvars
<1>1. /\ heap \subseteq Timer /\ ListOf(list, heap) /\ Counters
      /\ left \in [Timer -> Nat] /\ diff \in Nat /\ Lag \in 0 .. MaxLag
  BY DEF DeadlineInv, TimersInv, Counters
<1>2. /\ pc = "process" /\ list # <<>> /\ diff < left[Head(list)]
      /\ left' = [left EXCEPT ![Head(list)] = @ - diff] /\ diff' = 0
      /\ UNCHANGED <<list, ticks, handle, heap, tick, last, pc>>
  <2>1. Head(list) \in Timer
    BY <1>1, HeadTailProperties DEF Distribute, ListOf
  <2>2. left[Head(list)] > diff
    BY DEF Distribute
  <2> QED
    BY <1>1, <2>1, <2>2 DEF Distribute
<1>3. Lag' = Lag
  BY <1>2 DEF Lag
<1> HIDE DEF Lag
<1>4. /\ left' \in [Timer -> Nat]
      /\ \A u \in heap : Away(list, left', u) = Away(list, left, u) - diff
  <2>1. left' = Nearer(list, left, diff)
    BY <1>2 DEF Nearer
  <2>2. ListOf(list, heap) /\ list # <<>> /\ left \in [Timer -> Nat] /\ diff \in Nat
    BY <1>1, <1>2
  <2>3. diff < left[Head(list)]
    BY <1>2
  <2>4. /\ Nearer(list, left, diff) \in [Timer -> Nat]
        /\ \A u \in heap : Away(list, Nearer(list, left, diff), u) = Away(list, left, u) - diff
    BY <2>2, <2>3, FirstNearer
  <2> QED
    BY <2>1, <2>4
<1>5. Counters'
  BY <1>1, <1>2, <1>3, <1>4 DEF Counters
<1>6. Running' = Running /\ Running \subseteq heap
  BY <1>2 DEF Running
<1>7. Due' = Due
  <2>1. ASSUME NEW u \in Running
        PROVE  Away(list', left', u) - diff' - Lag' = Away(list, left, u) - diff - Lag
    <3>1. Away(list, left, u) \in Nat
      BY <1>6, AwayIsTicks
    <3>2. Away(list', left', u) = Away(list, left, u) - diff
      BY <1>2, <1>4, <1>6
    <3> QED
      BY <1>1, <1>2, <1>3, <3>1, <3>2
  <2> QED
    BY <1>6, <2>1, DueIs
<1>8. Period' = Period
  BY <1>2, <1>6 DEF Period
<1>9. Since' = Since /\ pc' = pc
  BY <1>2, <1>3 DEF Since
<1> QED
  BY <1>5, <1>6, <1>7, <1>8, <1>9 DEF Abstract!tsvars, Period, Since

LEMMA ReturnReturns ==
  ASSUME DeadlineInv, ProcessReturns
  PROVE  Counters' /\ Abstract!Return
<1>1. /\ heap \subseteq Timer /\ ListOf(list, heap) /\ Counters
      /\ left \in [Timer -> Nat] /\ diff \in Nat /\ Lag \in 0 .. MaxLag
  BY DEF DeadlineInv, TimersInv, Counters
<1>2. /\ pc = "process" /\ (diff = 0 \/ list = <<>>) /\ pc' = "thread" /\ diff' = 0
      /\ UNCHANGED <<list, left, ticks, handle, heap, tick, last>>
  BY DEF ProcessReturns
<1>3. Lag' = Lag
  BY <1>2 DEF Lag
<1> HIDE DEF Lag
<1>4. Counters'
  BY <1>1, <1>2, <1>3 DEF Counters
<1>5. Running' = Running /\ Running \subseteq heap
  BY <1>2 DEF Running
<1>6. Running # {} => diff = 0
  <2>1. ASSUME list = <<>> PROVE heap = {}
    <3>1. ASSUME NEW u \in heap PROVE FALSE
      <4>1. PICK i \in 1 .. Len(list) : list[i] = u
        BY <1>1, PlaceInList
      <4>2. Len(list) = 0
        BY <2>1
      <4> QED
        BY <4>1, <4>2
    <3> QED
      BY <3>1
  <2> QED
    BY <1>2, <1>5, <2>1
<1>7. Due' = Due
  BY <1>2, <1>3, <1>5, <1>6, DueIs
<1>8. Period' = Period
  BY <1>2, <1>5 DEF Period
<1>9. Since = Lag /\ Since' = 0
  BY <1>2 DEF Since
<1>10. ASSUME NEW u \in Running PROVE Due[u] + Since >= 0
  <2>1. Away(list, left, u) \in Nat /\ u \in Timer
    BY <1>5, AwayIsTicks
  <2>2. Due[u] = Away(list, left, u) - diff - Lag /\ diff = 0
    BY <1>6, <2>1, DueIs
  <2> QED
    BY <1>1, <1>9, <2>1, <2>2
<1> QED
  BY <1>2, <1>4, <1>5, <1>7, <1>8, <1>9, <1>10 DEF Abstract!Return, Period, Since

LEMMA SysTickTicks ==
  ASSUME DeadlineInv, SysTick
  PROVE  Counters' /\ Abstract!Tick
<1>1. Counters /\ diff \in Nat /\ Lag \in 0 .. MaxLag
  BY DEF DeadlineInv, TimersInv, Counters
<1>2. /\ tick' \in 0 .. Wrap - 1 /\ last' = last
      /\ Lag' = Lag + 1 /\ Lag + 1 \in 0 .. MaxLag
  BY <1>1, TickLag
<1>3. UNCHANGED <<list, left, ticks, handle, heap, last, diff, pc>>
  BY DEF SysTick
<1> HIDE DEF Lag
<1>4. Counters'
  BY <1>1, <1>2, <1>3 DEF Counters
<1>5. Running' = Running /\ Running \subseteq heap
  BY <1>3 DEF Running
<1>6. Due' = [t \in Timer |-> IF t \in Running THEN Due[t] - 1 ELSE 0]
  <2>1. ASSUME NEW u \in Timer PROVE Due'[u] = IF u \in Running THEN Due[u] - 1 ELSE 0
    <3>1. CASE u \in Running
      <4>1. Away(list, left, u) \in Nat
        BY <1>5, <3>1, AwayIsTicks
      <4>2. /\ Due[u] = Away(list, left, u) - diff - Lag
            /\ Due'[u] = Away(list, left, u) - diff - (Lag + 1)
        BY <1>2, <1>3, <1>5, <3>1, DueIs
      <4> QED
        BY <1>1, <3>1, <4>1, <4>2
    <3>2. CASE u \notin Running
      BY <1>5, <3>2, DueIs
    <3> QED
      BY <3>1, <3>2
  <2> QED
    BY <2>1, DueIs
<1>7. Period' = Period
  BY <1>3, <1>5 DEF Period
<1>8. Since' = IF pc = "process" THEN Since + 1 ELSE 0
  BY <1>2, <1>3 DEF Since
<1> QED
  BY <1>3, <1>4, <1>5, <1>6, <1>7, <1>8 DEF Abstract!Tick, Period, Since


\* The ticks reach the first timer, which starts again or is freed.
LEMMA ElapseElapses ==
  ASSUME DeadlineInv, Elapse
  PROVE  Counters' /\ (Abstract!Elapse(Head(list)) \/ UNCHANGED Abstract!tsvars) /\ Head(list) \in Timer
<1> DEFINE t == Head(list)
<1>1. /\ heap \subseteq Timer /\ ListOf(list, heap) /\ Counters
      /\ left \in [Timer -> Nat] /\ ticks \in [Timer -> Ticks \cup {0}] /\ Ticks \subseteq Nat
      /\ handle \in [Timer -> BOOLEAN] /\ diff \in Nat /\ Lag \in 0 .. MaxLag
  BY TimerConstants DEF DeadlineInv, TimersInv, Counters
<1>2. /\ pc = "process" /\ list # <<>> /\ left[t] <= diff /\ diff' = diff - left[t]
      /\ UNCHANGED <<ticks, tick, last, pc>>
  BY DEF Elapse
<1>3. /\ ListOf(Tail(list), heap \ {t}) /\ t \in heap /\ t \in Timer
      /\ left[t] \in Nat /\ diff' \in Nat /\ ticks[t] \in Nat
  <2>1. ListOf(Tail(list), heap \ {t}) /\ t \in heap
    BY <1>1, <1>2, TailKeeps
  <2> HIDE DEF t
  <2>2. t \in Timer /\ left[t] \in Nat
    BY <1>1, <2>1
  <2>3. ticks[t] \in Nat
    <3>1. \A n \in Ticks \cup {0} : n \in Nat
      BY <1>1
    <3>2. ticks[t] \in Ticks \cup {0}
      BY <1>1, <2>2
    <3> QED
      BY <3>1, <3>2
  <2>4. diff' \in Nat
    BY <1>1, <1>2, <2>2
  <2> QED
    BY <2>1, <2>2, <2>3, <2>4
<1>4. \/ /\ ticks[t] = 0
         /\ list' = Tail(list) /\ left' = [left EXCEPT ![t] = 0]
         /\ heap' = heap \ {t} /\ handle' = [handle EXCEPT ![t] = FALSE]
      \/ /\ ticks[t] > 0
         /\ TimerAdd(t, ticks[t], Tail(list), left)
         /\ heap' = heap /\ handle' = handle
  BY DEF Elapse
<1>5. Lag' = Lag
  BY <1>2 DEF Lag
<1> HIDE DEF Lag
<1>6. /\ Away(list, left, t) = left[t]
      /\ \A u \in heap : left[t] <= Away(list, left, u)
  BY <1>1, <1>2, HeadIsNearest
<1>7. ASSUME NEW lf2 \in [Timer -> Nat], \A u \in heap \ {t} : lf2[u] = left[u]
      PROVE  \A u \in heap \ {t} : Away(Tail(list), lf2, u) = Away(list, left, u) - left[t]
  <2>1. ListOf(list, heap) /\ list # <<>> /\ left \in [Timer -> Nat]
    BY <1>1, <1>2
  <2> QED
    BY <1>7, <2>1, TailNearer
<1> HIDE DEF t
<1>8. /\ left' \in [Timer -> Nat]
      /\ \A u \in heap \ {t} : Away(list', left', u) = Away(list, left, u) - left[t]
      /\ ticks[t] > 0 => Away(list', left', t) = ticks[t]
  <2>1. CASE ticks[t] = 0
    <3>1. list' = Tail(list) /\ left' = [left EXCEPT ![t] = 0]
      BY <1>4, <2>1
    <3>2. left' \in [Timer -> Nat] /\ \A u \in heap \ {t} : left'[u] = left[u]
      BY <1>1, <1>3, <3>1
    <3>3. \A u \in heap \ {t} : Away(Tail(list), left', u) = Away(list, left, u) - left[t]
      BY <1>7, <3>2
    <3>4. list' = Tail(list)
      BY <3>1
    <3> QED
      BY <2>1, <3>2, <3>3, <3>4
  <2>2. CASE ticks[t] > 0
    <3>1. TimerAdd(t, ticks[t], Tail(list), left)
      BY <1>4, <2>2
    <3>2. /\ left' \in [Timer -> Nat]
          /\ Away(list', left', t) = ticks[t]
          /\ \A u \in heap \ {t} : Away(list', left', u) = Away(Tail(list), left, u)
      <4> DEFINE S == heap \ {t}
      <4>1. ListOf(Tail(list), S) /\ t \notin S
        BY <1>3
      <4> HIDE DEF S
      <4>2. /\ left' \in [Timer -> Nat]
            /\ Away(list', left', t) = ticks[t]
            /\ \A u \in S : Away(list', left', u) = Away(Tail(list), left, u)
        BY <1>1, <1>3, <3>1, <4>1, AddTicks
      <4> QED
        BY <4>2 DEF S
    <3>3. \A u \in heap \ {t} : Away(Tail(list), left, u) = Away(list, left, u) - left[t]
      BY <1>1, <1>7
    <3> QED
      BY <3>2, <3>3
  <2> QED
    BY <1>3, <2>1, <2>2
<1>9. Counters'
  <2>1. handle' \in [Timer -> BOOLEAN]
    BY <1>1, <1>4
  <2>2. \A u \in heap' : ~handle'[u] => ticks'[u] = 0
    BY <1>1, <1>2, <1>4 DEF Counters
  <2> QED
    BY <1>1, <1>2, <1>3, <1>5, <1>8, <2>1, <2>2 DEF Counters
<1>10. /\ Running \subseteq heap
       /\ t \notin Running => ticks[t] = 0
       /\ Running' = IF ticks[t] = 0 THEN Running \ {t} ELSE Running
  <2>1. t \notin Running => ticks[t] = 0
    BY <1>1, <1>3 DEF Running, Counters
  <2>2. Running' = IF ticks[t] = 0 THEN Running \ {t} ELSE Running
    BY <1>1, <1>3, <1>4 DEF Running
  <2> QED
    BY <2>1, <2>2 DEF Running
<1>11. \A u \in Timer \ {t} : Due'[u] = Due[u]
  <2>1. ASSUME NEW u \in Timer \ {t}, u \in Running PROVE Due'[u] = Due[u]
    <3>1. Away(list, left, u) \in Nat /\ u \in heap \ {t}
      BY <1>10, <2>1, AwayIsTicks
    <3>2. /\ Due[u] = Away(list, left, u) - diff - Lag
          /\ Due'[u] = Away(list, left, u) - left[t] - (diff - left[t]) - Lag
      <4>1. u \in Running'
        BY <1>10, <2>1
      <4>2. Away(list', left', u) = Away(list, left, u) - left[t]
        BY <1>8, <3>1
      <4> QED
        BY <1>2, <1>5, <2>1, <4>1, <4>2, DueIs
    <3> QED
      BY <1>1, <1>3, <3>1, <3>2
  <2>2. ASSUME NEW u \in Timer \ {t}, u \notin Running PROVE Due'[u] = Due[u]
    <3>1. u \notin Running'
      BY <1>10, <2>2
    <3> QED
      BY <2>2, <3>1, DueIs
  <2> QED
    BY <2>1, <2>2
<1>12. Since' = Since /\ Since = Lag /\ pc' = pc
  BY <1>2, <1>5 DEF Since
<1>13. \A u \in Timer \ {t} : Period'[u] = Period[u]
  BY <1>2, <1>10 DEF Period
<1>14. CASE t \notin Running
  <2>1. Running' = Running
    BY <1>10, <1>14
  <2>2. Due'[t] = Due[t] /\ Period'[t] = Period[t]
    BY <1>3, <1>14, <2>1, DueIs DEF Period
  <2>3. Due' = Due
    BY <1>11, <2>2, DueIs
  <2>4. Period' = Period
    BY <1>13, <2>2 DEF Period
  <2> QED
    BY <1>3, <1>9, <1>12, <2>1, <2>3, <2>4 DEF Abstract!tsvars, Period, Since, t
<1>15. CASE t \in Running
  <2>1. Due[t] = left[t] - diff - Lag
    BY <1>3, <1>6, <1>15, DueIs
  <2>2. Due[t] + Since <= 0
    BY <1>1, <1>2, <1>3, <1>12, <2>1
  <2>3. ASSUME NEW u \in Running PROVE Due[t] <= Due[u]
    <3>1. Away(list, left, u) \in Nat /\ u \in Timer /\ left[t] <= Away(list, left, u)
      BY <1>6, <1>10, AwayIsTicks
    <3>2. Due[u] = Away(list, left, u) - diff - Lag
      BY <3>1, DueIs
    <3> QED
      BY <1>1, <1>3, <2>1, <3>1, <3>2
  <2>4. Period[t] = ticks[t]
    BY <1>3, <1>15 DEF Period
  <2>5. Running' = IF Period[t] = 0 THEN Running \ {t} ELSE Running
    BY <1>10, <2>4
  <2>6. Due'[t] = IF Period[t] = 0 THEN 0 ELSE Due[t] + Period[t]
    <3>1. CASE ticks[t] = 0
      BY <1>3, <2>4, <2>5, <3>1, DueIs
    <3>2. CASE ticks[t] > 0
      <4>1. t \in Running'
        BY <1>15, <2>4, <2>5, <3>2
      <4>2. Due'[t] = ticks[t] - (diff - left[t]) - Lag
        BY <1>2, <1>3, <1>5, <1>8, <3>2, <4>1, DueIs
      <4> QED
        BY <1>1, <1>3, <2>1, <2>4, <3>2, <4>2
    <3> QED
      BY <1>3, <3>1, <3>2
  <2>7. Due' = [Due EXCEPT ![t] = IF Period[t] = 0 THEN 0 ELSE @ + Period[t]]
    BY <1>11, <2>6, DueIs
  <2>8. Period' = Period
    <3>1. Period'[t] = Period[t]
      BY <1>2, <1>3, <1>15, <2>4, <2>5 DEF Period
    <3> QED
      BY <1>13, <3>1 DEF Period
  <2>9. Abstract!Elapse(t)
    BY <1>2, <1>12, <1>15, <2>2, <2>3, <2>5, <2>7, <2>8 DEF Abstract!Elapse, Period, Since
  <2> QED
    BY <1>3, <1>9, <2>9 DEF t
<1> QED
  BY <1>14, <1>15

(***************************************************************************)
(* BermudaTimerAdd, BermudaTimerStop and BermudaTimerProcess keep the      *)
(* promise of TimerSpec: whatever timers are created, stopped and elapse,  *)
(* no other deadline moves, periods do not drift, and no timer elapses     *)
(* early, out of order, or later than in the first call after its tick.    *)
(***************************************************************************)
THEOREM TimersImplement == Spec => ImplementsTimers
<1>1. Init => DeadlineInv
  <2>1. Init => TimersInv
    BY DEF Init, TimersInv, ListOf, NoDuplicates, Range
  <2>2. ASSUME Init PROVE Counters
    <3>1. Wrap \in Nat /\ Wrap > 0 /\ MaxLag \in Nat
      BY TimerConstants
    <3>2. tick = 0 /\ last = 0 /\ Lag = 0
      BY <2>2, <3>1, Remainders DEF Init, Lag
    <3> HIDE DEF Lag
    <3> QED
      BY <2>2, <3>1, <3>2 DEF Init, Counters
  <2> QED
    BY <2>1, <2>2 DEF DeadlineInv
<1>2. Init => Abstract!Init
  <2> SUFFICES ASSUME Init PROVE Abstract!Init
    OBVIOUS
  <2>1. Running = {} /\ pc = "thread"
    BY DEF Init, Running
  <2> QED
    BY <2>1 DEF Abstract!Init, Due
<1>3. DeadlineInv /\ [Next]_timerVars => DeadlineInv' /\ [Abstract!Next]_Abstract!tsvars
  <2> SUFFICES ASSUME DeadlineInv, [Next]_timerVars
               PROVE  DeadlineInv' /\ [Abstract!Next]_Abstract!tsvars
    OBVIOUS
  <2>1. TimersInv'
    BY TimersNext DEF DeadlineInv
  <2>2. ASSUME NEW t \in Timer, NEW n \in Ticks, NEW periodic \in BOOLEAN, TimerCreate(t, n, periodic)
        PROVE  Counters' /\ Abstract!Next
    <3>1. Counters' /\ Abstract!Start(t, n, IF periodic THEN n ELSE 0)
      BY <2>2, CreateStarts
    <3>2. (IF periodic THEN n ELSE 0) \in Ticks \cup {0}
      OBVIOUS
    <3> QED
      BY <3>1, <3>2 DEF Abstract!Next
  <2>3. ASSUME NEW t \in Timer, TimerStop(t)
        PROVE  Counters' /\ Abstract!Next
    BY <2>3, StopStops DEF Abstract!Next
  <2>4. CASE TimerProcess
    BY <2>1, <2>4, CallCalls DEF Abstract!Next, DeadlineInv
  <2>5. CASE Distribute
    BY <2>1, <2>5, DistributeStutters DEF DeadlineInv
  <2>6. CASE Elapse
    BY <2>1, <2>6, ElapseElapses DEF Abstract!Next, DeadlineInv
  <2>7. CASE ProcessReturns
    BY <2>1, <2>7, ReturnReturns DEF Abstract!Next, DeadlineInv
  <2>8. CASE SysTick
    BY <2>1, <2>8, SysTickTicks DEF Abstract!Next, DeadlineInv
  <2>9. CASE UNCHANGED timerVars
    <3>1. Counters'
      BY <2>9 DEF DeadlineInv, Counters, Lag, timerVars
    <3>2. UNCHANGED Abstract!tsvars
      BY <2>9 DEF timerVars, Abstract!tsvars, Running, Due, Lag
    <3> QED
      BY <2>1, <3>1, <3>2 DEF DeadlineInv
  <2> QED
    BY <2>1, <2>2, <2>3, <2>4, <2>5, <2>6, <2>7, <2>8, <2>9 DEF Next, Process, DeadlineInv
<1> QED
  BY <1>1, <1>2, <1>3, PTL DEF Spec, ImplementsTimers, Abstract!Spec
=============================================================================
