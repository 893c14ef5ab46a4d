------------------------------ MODULE I2cProofs ------------------------------
(***************************************************************************)
(* The invariants of I2cBus, for any number of masters and messages, any   *)
(* lengths and any bounds: its types hold, no message is lost, freed in    *)
(* use or sent twice, and, with fewer faults, every master that waits is   *)
(* served.                                                                 *)
(*                                                                         *)
(* None of them is inductive.  IInv says besides where the thread of each  *)
(* client is, who waits in which queue, that a message has one home, what  *)
(* the pointers of the driver point to in each state of the bus, and what  *)
(* an event, once counted, tells the thread it wakes.  ServedInv adds for  *)
(* masters that messages are done from the first to the last, and which of *)
(* them the bus and the loop around the call-backs have reached.           *)
(***************************************************************************)
EXTENDS I2cBus, FiniteSetTheorems, SequenceTheorems, TLAPS

\* Least elements and induction.
Lists == INSTANCE ThreadQueueProofs

\* NULL is neither an index, nor a message's contents, nor an array.
NullIsApart ==
  /\ NULL \notin Nat /\ NULL \notin Features
  /\ \A n \in Nat : NULL \notin [0 .. n - 1 -> Msg \cup {NULL}]

-----------------------------------------------------------------------------
(***************************************************************************)
(* The message vector.                                                     *)
(***************************************************************************)
Filled(d, n, l) ==
  /\ n \in Nat /\ l \in Nat /\ n <= l
  /\ IF d = NULL THEN n = 0 ELSE d \in [0 .. l - 1 -> Msg \cup {NULL}]
  /\ \A i \in 0 .. n - 1 : d[i] \in Msg
  /\ \A i, j \in 0 .. n - 1 : d[i] = d[j] => i = j

VectorOK(v) == v = Vector(v.data, v.length, v.limit) /\ Filled(v.data, v.length, v.limit)

Entries(v) == {v.data[i] : i \in 0 .. v.length - 1}

LEMMA VectorFields ==
  ASSUME NEW d, NEW n, NEW l
  PROVE  /\ Vector(d, n, l).data = d /\ Vector(d, n, l).length = n /\ Vector(d, n, l).limit = l
         /\ VectorOK(Vector(d, n, l)) <=> Filled(d, n, l)
BY DEF Vector, VectorOK

LEMMA EntriesAre ==
  ASSUME NEW v, VectorOK(v)
  PROVE  Range(Elements(v)) = Entries(v) /\ Entries(v) \in SUBSET Msg /\ v.length \in Nat
<1>1. v.length \in Nat /\ \A i \in 0 .. v.length - 1 : v.data[i] \in Msg
  BY DEF VectorOK, Filled
<1>2. \A x : (\E i \in 1 .. v.length : x = v.data[i - 1])
               <=> (\E i \in 0 .. v.length - 1 : x = v.data[i])
  <2>1. ASSUME NEW x, NEW i \in 1 .. v.length, x = v.data[i - 1]
        PROVE  \E j \in 0 .. v.length - 1 : x = v.data[j]
    <3>1. i - 1 \in 0 .. v.length - 1
      BY <1>1
    <3> QED
      BY <2>1, <3>1
  <2>2. ASSUME NEW x, NEW i \in 0 .. v.length - 1, x = v.data[i]
        PROVE  \E j \in 1 .. v.length : x = v.data[j - 1]
    <3>1. i + 1 \in 1 .. v.length /\ (i + 1) - 1 = i
      BY <1>1
    <3> QED
      BY <2>2, <3>1
  <2> QED
    BY <2>1, <2>2
<1> QED
  BY <1>1, <1>2 DEF Range, Elements, Entries

\* The first k with an entry in ms, or NULL.
LEMMA FirstMsgIs ==
  ASSUME NULL \notin Nat, NEW v, v.length \in Nat, NEW ms
  PROVE  /\ FirstMsg(v, ms) = NULL => \A i \in 0 .. v.length - 1 : v.data[i] \notin ms
         /\ FirstMsg(v, ms) # NULL =>
              /\ FirstMsg(v, ms) \in 0 .. v.length - 1 /\ v.data[FirstMsg(v, ms)] \in ms
              /\ \A i \in 0 .. v.length - 1 : i < FirstMsg(v, ms) => v.data[i] \notin ms
<1> DEFINE at == {i \in 0 .. v.length - 1 : v.data[i] \in ms}
<1>1. FirstMsg(v, ms) = IF at = {} THEN NULL ELSE Min(at)
  BY DEF FirstMsg
<1>2. at \in SUBSET Nat
  OBVIOUS
<1>3. at # {} => Min(at) \in at /\ \A x \in at : Min(at) <= x
  BY <1>2, Lists!LeastOf DEF Min, Lists!Min
<1>4. at # {} => Min(at) # NULL
  BY <1>2, <1>3
<1>5. \A x : x \in at <=> x \in 0 .. v.length - 1 /\ v.data[x] \in ms
  OBVIOUS
<1> HIDE DEF at
<1>6. CASE at = {}
  BY <1>1, <1>5, <1>6
<1>7. CASE at # {}
  <2>1. ASSUME NEW i \in 0 .. v.length - 1, i < Min(at) PROVE v.data[i] \notin ms
    BY <1>2, <1>3, <1>5, <1>7, <2>1
  <2> QED
    BY <1>1, <1>3, <1>4, <1>5, <1>7, <2>1
<1> QED
  BY <1>6, <1>7

\* i2c_vector_locate.
LEMMA LocateIs ==
  ASSUME NEW v, v.length \in Nat, NEW m
  PROVE  /\ Locate(v, m) \in Int
         /\ m = NULL => Locate(v, m) = -1
         /\ m # NULL => Locate(v, m) \in Nat
         /\ m # NULL /\ m \in Entries(v) =>
              Locate(v, m) \in 0 .. v.length - 1 /\ v.data[Locate(v, m)] = m
<1> DEFINE at == {i \in 0 .. v.length - 1 : v.data[i] = m}
<1>1. Locate(v, m) = IF m = NULL THEN -1 ELSE IF at = {} THEN v.length + 1 ELSE Min(at)
  BY DEF Locate
<1>2. at \in SUBSET Nat
  OBVIOUS
<1>3. at # {} => Min(at) \in at
  BY <1>2, Lists!LeastOf DEF Min, Lists!Min
<1>4. /\ \A x : x \in at <=> x \in 0 .. v.length - 1 /\ v.data[x] = m
      /\ m \in Entries(v) => at # {}
  BY DEF Entries
<1> HIDE DEF at
<1> QED
  BY <1>1, <1>2, <1>3, <1>4

LEMMA GetIs ==
  ASSUME NEW v, VectorOK(v), NEW i \in Int, NULL \notin Msg
  PROVE  /\ Get(v, i) # NULL =>
              i \in 0 .. v.length - 1 /\ Get(v, i) = v.data[i] /\ Get(v, i) \in Entries(v)
         /\ i \in 0 .. v.length - 1 => Get(v, i) = v.data[i] /\ Get(v, i) # NULL
BY DEF Get, VectorOK, Filled, Entries

\* realloc keeps the messages.
LEMMA ResizedIs ==
  ASSUME NullIsApart, NEW v, VectorOK(v), v.data # NULL, NEW n \in Nat, v.length <= n
  PROVE  /\ VectorOK(Resized(v, n)) /\ Resized(v, n).data # NULL
         /\ Resized(v, n).length = v.length /\ Resized(v, n).limit = n
         /\ \A i \in 0 .. v.length - 1 : Resized(v, n).data[i] = v.data[i]
<1> DEFINE d == [i \in 0 .. n - 1 |-> IF i < v.limit THEN v.data[i] ELSE NULL]
<1>1. /\ v.length \in Nat /\ v.limit \in Nat /\ v.length <= v.limit
      /\ v.data \in [0 .. v.limit - 1 -> Msg \cup {NULL}]
      /\ \A i \in 0 .. v.length - 1 : v.data[i] \in Msg
      /\ \A i, j \in 0 .. v.length - 1 : v.data[i] = v.data[j] => i = j
  BY DEF VectorOK, Filled
<1>2. Resized(v, n) = Vector(d, v.length, n)
  BY DEF Resized
<1>3. d \in [0 .. n - 1 -> Msg \cup {NULL}]
  <2>1. ASSUME NEW i \in 0 .. n - 1, i < v.limit PROVE v.data[i] \in Msg \cup {NULL}
    <3>1. i \in 0 .. v.limit - 1
      BY <1>1, <2>1
    <3> QED
      BY <1>1, <3>1
  <2> QED
    BY <2>1
<1>4. \A i \in 0 .. v.length - 1 : d[i] = v.data[i]
  BY <1>1
<1> HIDE DEF d
<1>5. d # NULL
  BY <1>3 DEF NullIsApart
<1>6. Filled(d, v.length, n)
  BY <1>1, <1>3, <1>4, <1>5 DEF Filled
<1> QED
  BY <1>2, <1>4, <1>5, <1>6, VectorFields

\* The vector w is v with m as its entry k.
Inserted(w, v, m, k) ==
  /\ VectorOK(w) /\ w.data # NULL /\ w.length = v.length + 1 /\ w.data[k] = m
  /\ \A i \in 0 .. k - 1 : w.data[i] = v.data[i]
  /\ \A i \in k .. v.length - 1 : w.data[i + 1] = v.data[i]

LEMMA InsertedEntries ==
  ASSUME NEW v, VectorOK(v), NEW w, NEW m, NEW k \in 0 .. v.length, Inserted(w, v, m, k)
  PROVE  Entries(w) = Entries(v) \cup {m}
<1>1. v.length \in Nat
  BY DEF VectorOK, Filled
<1>2. ASSUME NEW i \in 0 .. v.length - 1
      PROVE  \E j \in 0 .. w.length - 1 : w.data[j] = v.data[i]
  <2>1. CASE i < k
    <3>1. i \in 0 .. k - 1 /\ i \in 0 .. w.length - 1
      BY <1>1, <2>1 DEF Inserted
    <3> QED
      BY <3>1 DEF Inserted
  <2>2. CASE i >= k
    <3>1. i \in k .. v.length - 1 /\ i + 1 \in 0 .. w.length - 1
      BY <1>1, <2>2 DEF Inserted
    <3> QED
      BY <3>1 DEF Inserted
  <2> QED
    BY <2>1, <2>2
<1>3. k \in 0 .. w.length - 1 /\ w.data[k] = m
  BY <1>1 DEF Inserted
<1>4. ASSUME NEW i \in 0 .. w.length - 1
      PROVE  w.data[i] = m \/ \E j \in 0 .. v.length - 1 : w.data[i] = v.data[j]
  <2>1. CASE i < k
    <3>1. i \in 0 .. k - 1 /\ i \in 0 .. v.length - 1
      BY <1>1, <2>1
    <3> QED
      BY <3>1 DEF Inserted
  <2>2. CASE i > k
    <3>1. i - 1 \in k .. v.length - 1 /\ i - 1 \in 0 .. v.length - 1 /\ (i - 1) + 1 = i
      BY <1>1, <2>2 DEF Inserted
    <3> QED
      BY <3>1 DEF Inserted
  <2> QED
    BY <1>3, <2>1, <2>2
<1> QED
  BY <1>2, <1>3, <1>4 DEF Entries

\* What an array holds whose entries are those of v and m.
LEMMA InsertedIs ==
  ASSUME NullIsApart, NEW v, VectorOK(v), NEW m \in Msg \ Entries(v), NEW k \in 0 .. v.length,
         NEW l \in Nat, v.length + 1 <= l, NEW d \in [0 .. l - 1 -> Msg \cup {NULL}],
         d[k] = m, \A i \in 0 .. k - 1 : d[i] = v.data[i],
         \A i \in k + 1 .. v.length : d[i] = v.data[i - 1]
  PROVE  Inserted(Vector(d, v.length + 1, l), v, m, k)
<1> DEFINE n == v.length
<1>1. /\ n \in Nat /\ \A i \in 0 .. n - 1 : v.data[i] \in Msg
      /\ \A i, j \in 0 .. n - 1 : v.data[i] = v.data[j] => i = j
  BY DEF VectorOK, Filled
<1>2. \A i \in 0 .. n - 1 : v.data[i] # m
  BY DEF Entries
<1>3. d # NULL
  BY DEF NullIsApart
<1>4. ASSUME NEW i \in 0 .. n
      PROVE  \/ i = k /\ d[i] = m
             \/ i < k /\ i \in 0 .. n - 1 /\ d[i] = v.data[i]
             \/ i > k /\ i - 1 \in 0 .. n - 1 /\ d[i] = v.data[i - 1]
  <2>1. CASE i < k
    <3>1. i \in 0 .. k - 1 /\ i \in 0 .. n - 1
      BY <1>1, <2>1
    <3> QED
      BY <2>1, <3>1
  <2>2. CASE i > k
    <3>1. i \in k + 1 .. n /\ i - 1 \in 0 .. n - 1
      BY <1>1, <2>2
    <3> QED
      BY <2>2, <3>1
  <2> QED
    BY <2>1, <2>2
<1>5. \A i \in 0 .. n : d[i] \in Msg
  BY <1>1, <1>4
<1>6. ASSUME NEW i \in 0 .. n, NEW j \in 0 .. n, d[i] = d[j] PROVE i = j
  <2>1. i \in Int /\ j \in Int /\ k \in Int
    BY <1>1
  <2>2. CASE i = k
    BY <1>2, <1>4, <1>6, <2>1, <2>2
  <2>3. CASE j = k
    BY <1>2, <1>4, <1>6, <2>1, <2>3
  <2>4. CASE i < k /\ j < k
    BY <1>1, <1>4, <1>6, <2>1, <2>4
  <2>5. CASE i > k /\ j > k
    <3>1. i - 1 \in 0 .. n - 1 /\ j - 1 \in 0 .. n - 1 /\ v.data[i - 1] = v.data[j - 1]
      BY <1>4, <1>6, <2>1, <2>5
    <3>2. i - 1 = j - 1
      BY <1>1, <3>1
    <3> QED
      BY <2>1, <3>2
  <2>6. CASE i < k /\ j > k
    <3>1. i \in 0 .. n - 1 /\ j - 1 \in 0 .. n - 1 /\ v.data[i] = v.data[j - 1]
      BY <1>4, <1>6, <2>1, <2>6
    <3>2. i = j - 1
      BY <1>1, <3>1
    <3> QED
      BY <2>1, <2>6, <3>2
  <2>7. CASE i > k /\ j < k
    <3>1. i - 1 \in 0 .. n - 1 /\ j \in 0 .. n - 1 /\ v.data[i - 1] = v.data[j]
      BY <1>4, <1>6, <2>1, <2>7
    <3>2. i - 1 = j
      BY <1>1, <3>1
    <3> QED
      BY <2>1, <2>7, <3>2
  <2> QED
    BY <2>1, <2>2, <2>3, <2>4, <2>5, <2>6, <2>7
<1>7. Filled(d, n + 1, l)
  <2>1. \A i : i \in 0 .. (n + 1) - 1 <=> i \in 0 .. n
    BY <1>1
  <2> QED
    BY <1>1, <1>3, <1>5, <1>6, <2>1 DEF Filled
<1>8. ASSUME NEW i \in k .. n - 1 PROVE d[i + 1] = v.data[i]
  <2>1. i + 1 \in k + 1 .. n /\ (i + 1) - 1 = i
    BY <1>1
  <2> QED
    BY <2>1
<1> QED
  BY <1>3, <1>7, <1>8, VectorFields DEF Inserted

\* i2c_create_msg_vector.
LEMMA CreateIs ==
  ASSUME NullIsApart
  PROVE  VectorOK(Create) /\ Create.data # NULL /\ Create.length = 0
<1> DEFINE d == [i \in 0 .. DefaultLimit - 1 |-> NULL]
<1>1. DefaultLimit \in Nat \ {0}
  BY VectorConstants
<1>2. d \in [0 .. DefaultLimit - 1 -> Msg \cup {NULL}]
  OBVIOUS
<1>3. Create = Vector(d, 0, DefaultLimit)
  BY DEF Create
<1> HIDE DEF d
<1>4. d # NULL
  BY <1>1, <1>2 DEF NullIsApart
<1>5. Filled(d, 0, DefaultLimit)
  BY <1>1, <1>2, <1>4 DEF Filled
<1> QED
  BY <1>3, <1>4, <1>5, VectorFields

\* i2c_vector_add at the end.
LEMMA AddIs ==
  ASSUME NullIsApart, NEW v, VectorOK(v), v.data # NULL, NEW m \in Msg \ Entries(v),
         NEW slaves, m \in slaves \/ Entries(v) \cap slaves = {}
  PROVE  Inserted(Add(v, m, slaves), v, m, v.length)
<1> DEFINE w  == IF v.length = v.limit THEN Resized(v, v.limit + DefaultLimit) ELSE v
           at == {i \in 0 .. v.length - 1 : v.data[i] \in slaves}
           d  == [w.data EXCEPT ![v.length] = m]
<1>1. v.length \in Nat /\ v.limit \in Nat /\ v.length <= v.limit /\ DefaultLimit \in Nat \ {0}
  BY VectorConstants DEF VectorOK, Filled
<1>2. m \in slaves \/ at = {}
  BY DEF Entries
<1>3. Add(v, m, slaves) = Vector(d, v.length + 1, w.limit)
  BY <1>2 DEF Add
<1>4. /\ VectorOK(w) /\ w.data # NULL /\ w.length = v.length /\ v.length + 1 <= w.limit
      /\ \A i \in 0 .. v.length - 1 : w.data[i] = v.data[i]
  <2>1. CASE v.length = v.limit
    <3>1. v.limit + DefaultLimit \in Nat /\ v.length <= v.limit + DefaultLimit
          /\ v.length + 1 <= v.limit + DefaultLimit
      BY <1>1, <2>1
    <3> QED
      BY <2>1, <3>1, ResizedIs
  <2>2. CASE v.length # v.limit
    BY <1>1, <2>2
  <2> QED
    BY <2>1, <2>2
<1> HIDE DEF w
<1>5. w.limit \in Nat /\ w.data \in [0 .. w.limit - 1 -> Msg \cup {NULL}]
  BY <1>4 DEF VectorOK, Filled
<1>6. v.length \in 0 .. w.limit - 1
  BY <1>1, <1>4, <1>5
<1>7. d \in [0 .. w.limit - 1 -> Msg \cup {NULL}] /\ d[v.length] = m
  BY <1>5, <1>6
<1>8. \A i \in 0 .. v.length - 1 : d[i] = v.data[i]
  <2>1. ASSUME NEW i \in 0 .. v.length - 1 PROVE i # v.length /\ i \in 0 .. w.limit - 1
    BY <1>1, <1>5, <1>6
  <2> QED
    BY <1>4, <1>5, <2>1
<1>9. \A i \in v.length + 1 .. v.length : d[i] = v.data[i - 1]
  BY <1>1
<1> HIDE DEF d
<1>10. v.length \in 0 .. v.length /\ v.length + 1 <= w.limit
  BY <1>1, <1>4
<1>11. Inserted(Vector(d, v.length + 1, w.limit), v, m, v.length)
  BY <1>5, <1>7, <1>8, <1>9, <1>10, InsertedIs, Zenon
<1> QED
  BY <1>3, <1>11

\* i2c_vector_shift_right, and the entry put into the gap.
LEMMA InsertEntryIs ==
  ASSUME NullIsApart, NEW v, VectorOK(v), v.data # NULL, NEW m \in Msg \ Entries(v),
         NEW k \in 0 .. v.length
  PROVE  Inserted(InsertEntry(v, m, k), v, m, k)
<1> DEFINE w == IF v.length + 1 >= v.limit THEN Resized(v, v.limit + 1) ELSE v
           e == [j \in DOMAIN w.data |->
                   IF j > k /\ j <= v.length THEN w.data[j - 1] ELSE w.data[j]]
           d == [e EXCEPT ![k] = m]
<1>1. v.length \in Nat /\ v.limit \in Nat /\ v.length <= v.limit
  BY DEF VectorOK, Filled
<1>2. ShiftRight(v, k) = Vector(e, v.length + 1, w.limit)
  BY DEF ShiftRight
<1>3. InsertEntry(v, m, k) = Vector(d, v.length + 1, w.limit)
  <2> DEFINE u == ShiftRight(v, k)
  <2>1. u.data = e /\ u.length = v.length + 1 /\ u.limit = w.limit
    BY <1>2, VectorFields
  <2>2. InsertEntry(v, m, k) = Vector([u.data EXCEPT ![k] = m], u.length, u.limit)
    BY DEF InsertEntry
  <2> HIDE DEF e, u, w
  <2> QED
    BY <2>1, <2>2
<1>4. /\ VectorOK(w) /\ w.data # NULL /\ w.length = v.length /\ v.length + 1 <= w.limit
      /\ \A i \in 0 .. v.length - 1 : w.data[i] = v.data[i]
  <2>1. CASE v.length + 1 >= v.limit
    <3>1. v.limit + 1 \in Nat /\ v.length <= v.limit + 1 /\ v.length + 1 <= v.limit + 1
      BY <1>1
    <3> QED
      BY <2>1, <3>1, ResizedIs
  <2>2. CASE ~(v.length + 1 >= v.limit)
    BY <1>1, <2>2
  <2> QED
    BY <2>1, <2>2
<1> HIDE DEF w
<1>5. w.limit \in Nat /\ w.data \in [0 .. w.limit - 1 -> Msg \cup {NULL}]
  BY <1>4 DEF VectorOK, Filled
<1>6. /\ \A j \in 0 .. w.limit - 1 :
           e[j] = IF j > k /\ j <= v.length THEN w.data[j - 1] ELSE w.data[j]
      /\ e = [j \in 0 .. w.limit - 1 |-> e[j]]
  BY <1>5
<1> HIDE DEF e
<1>7. \A j \in 0 .. w.limit - 1 : e[j] \in Msg \cup {NULL}
  <2>1. ASSUME NEW j \in 0 .. w.limit - 1, j > k /\ j <= v.length
        PROVE  j - 1 \in 0 .. w.limit - 1
    BY <1>1, <1>5, <2>1
  <2> QED
    BY <1>5, <1>6, <2>1
<1>8. e \in [0 .. w.limit - 1 -> Msg \cup {NULL}] /\ k \in 0 .. w.limit - 1
  <2>1. k \in 0 .. w.limit - 1
    BY <1>1, <1>4, <1>5
  <2> QED
    BY <1>6, <1>7, <2>1
<1>9. d \in [0 .. w.limit - 1 -> Msg \cup {NULL}] /\ d[k] = m
  BY <1>8
<1>10. ASSUME NEW i \in 0 .. k - 1 PROVE d[i] = v.data[i]
  <2>1. i # k /\ ~(i > k) /\ i \in 0 .. w.limit - 1 /\ i \in 0 .. v.length - 1
    BY <1>1, <1>4, <1>5
  <2> QED
    BY <1>4, <1>6, <1>8, <2>1
<1>11. ASSUME NEW i \in k + 1 .. v.length PROVE d[i] = v.data[i - 1]
  <2>1. i # k /\ i > k /\ i <= v.length /\ i \in 0 .. w.limit - 1 /\ i - 1 \in 0 .. v.length - 1
    BY <1>1, <1>4, <1>5
  <2> QED
    BY <1>4, <1>6, <1>8, <2>1
<1> HIDE DEF d
<1>12. Inserted(Vector(d, v.length + 1, w.limit), v, m, k)
  BY <1>4, <1>5, <1>9, <1>10, <1>11, InsertedIs, Zenon
<1> QED
  BY <1>3, <1>12

\* i2c_vector_shift_left: the vector w is v without its entry k.
TakenOut(w, v, k) ==
  /\ VectorOK(w) /\ w.data # NULL /\ w.length = v.length - 1
  /\ \A i \in 0 .. k - 1 : w.data[i] = v.data[i]
  /\ \A i \in k .. v.length - 2 : w.data[i] = v.data[i + 1]

LEMMA DeleteIs ==
  ASSUME NullIsApart, NEW v, VectorOK(v), v.data # NULL, NEW k \in 0 .. v.length - 1
  PROVE  TakenOut(DeleteAt(v, k), v, k)
<1> DEFINE d == [j \in DOMAIN v.data |->
                   IF j < k THEN v.data[j] ELSE IF j < v.length - 1 THEN v.data[j + 1] ELSE NULL]
           n == v.length
<1>1. /\ n \in Nat /\ v.limit \in Nat /\ n <= v.limit
      /\ v.data \in [0 .. v.limit - 1 -> Msg \cup {NULL}]
      /\ \A i \in 0 .. n - 1 : v.data[i] \in Msg
      /\ \A i, j \in 0 .. n - 1 : v.data[i] = v.data[j] => i = j
  BY DEF VectorOK, Filled
<1>2. DeleteAt(v, k) = Vector(d, n - 1, v.limit)
  BY DEF DeleteAt, Delete
<1>3. \A j \in 0 .. v.limit - 1 :
         d[j] = IF j < k THEN v.data[j] ELSE IF j < n - 1 THEN v.data[j + 1] ELSE NULL
  BY <1>1
<1>4. d = [j \in 0 .. v.limit - 1 |-> d[j]]
  BY <1>1
<1> HIDE DEF d
<1>5. ASSUME NEW j \in 0 .. v.limit - 1 PROVE d[j] \in Msg \cup {NULL}
  <2>1. CASE j < k
    BY <1>1, <1>3, <2>1
  <2>2. CASE ~(j < k) /\ j < n - 1
    <3>1. j + 1 \in 0 .. n - 1
      BY <1>1, <2>2
    <3> QED
      BY <1>1, <1>3, <2>2, <3>1
  <2> QED
    BY <1>3, <2>1, <2>2
<1>6. d \in [0 .. v.limit - 1 -> Msg \cup {NULL}]
  BY <1>4, <1>5
<1>7. d # NULL
  BY <1>1, <1>6 DEF NullIsApart
<1>8. ASSUME NEW i \in 0 .. k - 1 PROVE d[i] = v.data[i]
  <2>1. i \in 0 .. v.limit - 1 /\ i < k
    BY <1>1
  <2> QED
    BY <1>3, <2>1
<1>9. ASSUME NEW i \in k .. n - 2 PROVE d[i] = v.data[i + 1]
  <2>1. i \in 0 .. v.limit - 1 /\ ~(i < k) /\ i < n - 1
    BY <1>1
  <2> QED
    BY <1>3, <2>1
<1>10. ASSUME NEW i \in 0 .. n - 2
       PROVE  \/ i < k /\ i \in 0 .. n - 1 /\ d[i] = v.data[i]
              \/ i >= k /\ i + 1 \in 0 .. n - 1 /\ d[i] = v.data[i + 1]
  <2>1. i \in 0 .. k - 1 \/ i \in k .. n - 2
    BY <1>1
  <2> QED
    BY <1>1, <1>8, <1>9, <2>1
<1>11. ASSUME NEW i \in 0 .. n - 2, NEW j \in 0 .. n - 2, d[i] = d[j] PROVE i = j
  <2>1. i \in Int /\ j \in Int /\ k \in Int
    BY <1>1
  <2>2. CASE i < k /\ j < k
    <3>1. i \in 0 .. n - 1 /\ j \in 0 .. n - 1 /\ v.data[i] = v.data[j]
      BY <1>10, <1>11, <2>1, <2>2
    <3> QED
      BY <1>1, <3>1
  <2>3. CASE i < k /\ j >= k
    <3>1. i \in 0 .. n - 1 /\ j + 1 \in 0 .. n - 1 /\ v.data[i] = v.data[j + 1]
      BY <1>10, <1>11, <2>1, <2>3
    <3>2. i = j + 1
      BY <1>1, <3>1
    <3> QED
      BY <2>1, <2>3, <3>2
  <2>4. CASE i >= k /\ j < k
    <3>1. i + 1 \in 0 .. n - 1 /\ j \in 0 .. n - 1 /\ v.data[i + 1] = v.data[j]
      BY <1>10, <1>11, <2>1, <2>4
    <3>2. i + 1 = j
      BY <1>1, <3>1
    <3> QED
      BY <2>1, <2>4, <3>2
  <2>5. CASE i >= k /\ j >= k
    <3>1. i + 1 \in 0 .. n - 1 /\ j + 1 \in 0 .. n - 1 /\ v.data[i + 1] = v.data[j + 1]
      BY <1>10, <1>11, <2>1, <2>5
    <3>2. i + 1 = j + 1
      BY <1>1, <3>1
    <3> QED
      BY <2>1, <3>2
  <2> QED
    BY <2>1, <2>2, <2>3, <2>4, <2>5
<1>12. Filled(d, n - 1, v.limit)
  <2>1. /\ n - 1 \in Nat /\ n - 1 <= v.limit
        /\ \A i : i \in 0 .. (n - 1) - 1 <=> i \in 0 .. n - 2
    BY <1>1
  <2>2. \A i \in 0 .. n - 2 : d[i] \in Msg
    BY <1>1, <1>10
  <2> QED
    BY <1>1, <1>6, <1>7, <1>11, <2>1, <2>2 DEF Filled
<1> QED
  BY <1>2, <1>7, <1>8, <1>9, <1>12, VectorFields DEF TakenOut

LEMMA TakenOutEntries ==
  ASSUME NEW v, VectorOK(v), NEW k \in 0 .. v.length - 1, NEW w, TakenOut(w, v, k)
  PROVE  Entries(w) = Entries(v) \ {v.data[k]}
<1>1. /\ v.length \in Nat /\ w.length = v.length - 1
      /\ \A i, j \in 0 .. v.length - 1 : v.data[i] = v.data[j] => i = j
      /\ \A i \in 0 .. k - 1 : w.data[i] = v.data[i]
      /\ \A i \in k .. v.length - 2 : w.data[i] = v.data[i + 1]
  BY DEF VectorOK, Filled, TakenOut
<1>2. ASSUME NEW i \in 0 .. v.length - 1, i # k
      PROVE  \E j \in 0 .. w.length - 1 : w.data[j] = v.data[i]
  <2>1. CASE i < k
    <3>1. i \in 0 .. k - 1 /\ i \in 0 .. w.length - 1
      BY <1>1, <2>1
    <3> QED
      BY <1>1, <3>1
  <2>2. CASE i > k
    <3>1. i - 1 \in k .. v.length - 2 /\ i - 1 \in 0 .. w.length - 1 /\ (i - 1) + 1 = i
      BY <1>1, <2>2
    <3> QED
      BY <1>1, <3>1
  <2> QED
    BY <1>2, <2>1, <2>2
<1>3. ASSUME NEW i \in 0 .. w.length - 1
      PROVE  \E j \in 0 .. v.length - 1 : j # k /\ w.data[i] = v.data[j]
  <2>1. CASE i < k
    <3>1. i \in 0 .. k - 1 /\ i \in 0 .. v.length - 1 /\ i # k
      BY <1>1, <2>1
    <3> QED
      BY <1>1, <3>1
  <2>2. CASE i >= k
    <3>1. i \in k .. v.length - 2 /\ i + 1 \in 0 .. v.length - 1 /\ i + 1 # k
      BY <1>1, <2>2
    <3> QED
      BY <1>1, <3>1
  <2> QED
    BY <2>1, <2>2
<1> QED
  BY <1>1, <1>2, <1>3 DEF Entries
-----------------------------------------------------------------------------
(***************************************************************************)
(* i2c_cleanup_adapter_msgs: after n steps, the last n entries of v have   *)
(* been looked at and those in gone deleted.                               *)
(***************************************************************************)
Swept(w, i, gone) == IF Get(w, i) \in gone THEN DeleteAt(w, i) ELSE w

Sweeps(v, gone, n, f) ==
  f[0] = v /\ \A j \in 1 .. n : f[j] = Swept(f[j - 1], v.length - j, gone)

\* The function in the definition of Cleanup.
Sweep(v, gone, f) ==
  f = [n \in 0 .. v.length |->
         IF n = 0 THEN v
         ELSE IF Get(f[n - 1], v.length - n) \in gone THEN DeleteAt(f[n - 1], v.length - n)
              ELSE f[n - 1]]

LEMMA SweepsExist ==
  ASSUME NEW v, v.length \in Nat, NEW gone
  PROVE  \E f : DOMAIN f = 0 .. v.length /\ Sweeps(v, gone, v.length, f)
<1> DEFINE N == {n \in Nat : \E f : DOMAIN f = 0 .. n /\ Sweeps(v, gone, n, f)}
<1>1. 0 \in N
  <2> DEFINE f == [j \in 0 .. 0 |-> v]
  <2>1. DOMAIN f = 0 .. 0 /\ Sweeps(v, gone, 0, f)
    BY DEF Sweeps
  <2> QED
    BY <2>1
<1>2. ASSUME NEW n \in N PROVE n + 1 \in N
  <2>1. PICK f : DOMAIN f = 0 .. n /\ Sweeps(v, gone, n, f)
    OBVIOUS
  <2> DEFINE last == Swept(f[n], v.length - (n + 1), gone)
             g == [j \in 0 .. n + 1 |-> IF j <= n THEN f[j] ELSE last]
  <2>2. /\ \A j \in 0 .. n : g[j] = f[j]
        /\ g[n + 1] = Swept(f[n], v.length - (n + 1), gone)
        /\ DOMAIN g = 0 .. n + 1
    OBVIOUS
  <2> HIDE DEF g
  <2>3. ASSUME NEW j \in 1 .. n + 1 PROVE g[j] = Swept(g[j - 1], v.length - j, gone)
    <3>1. CASE j = n + 1
      <4>1. j - 1 = n /\ n \in 0 .. n
        BY <3>1
      <4> QED
        BY <2>2, <3>1, <4>1
    <3>2. CASE j # n + 1
      <4>1. j \in 1 .. n /\ j \in 0 .. n /\ j - 1 \in 0 .. n
        BY <3>2
      <4>2. f[j] = Swept(f[j - 1], v.length - j, gone)
        BY <2>1, <4>1 DEF Sweeps
      <4> QED
        BY <2>2, <4>1, <4>2
    <3> QED
      BY <3>1, <3>2
  <2>4. g[0] = v
    BY <2>1, <2>2 DEF Sweeps
  <2>5. DOMAIN g = 0 .. n + 1 /\ Sweeps(v, gone, n + 1, g)
    BY <2>2, <2>3, <2>4 DEF Sweeps
  <2> QED
    BY <2>5
<1>3. N = Nat
  <2> HIDE DEF N
  <2>1. N \in SUBSET Nat
    BY DEF N
  <2> QED
    BY <1>1, <1>2, <2>1, Lists!AllNaturals
<1> QED
  BY <1>3

LEMMA SweepIs ==
  ASSUME NEW v, v.length \in Nat, NEW gone
  PROVE  Sweeps(v, gone, v.length, CHOOSE f : Sweep(v, gone, f))
<1>1. PICK g : DOMAIN g = 0 .. v.length /\ Sweeps(v, gone, v.length, g)
  BY SweepsExist
<1> DEFINE h == [n \in 0 .. v.length |-> g[n]]
<1>2. h = [n \in 0 .. v.length |-> h[n]] /\ \A n \in 0 .. v.length : h[n] = g[n]
  OBVIOUS
<1> HIDE DEF h
<1>3. \A n \in 0 .. v.length :
         h[n] = IF n = 0 THEN v
                ELSE IF Get(h[n - 1], v.length - n) \in gone THEN DeleteAt(h[n - 1], v.length - n)
                     ELSE h[n - 1]
  <2>1. ASSUME NEW n \in 0 .. v.length, n # 0
        PROVE  h[n] = Swept(h[n - 1], v.length - n, gone)
    <3>1. n \in 1 .. v.length /\ n - 1 \in 0 .. v.length
      BY <2>1
    <3> QED
      BY <1>1, <1>2, <3>1 DEF Sweeps
  <2>2. h[0] = v
    BY <1>1, <1>2 DEF Sweeps
  <2> QED
    BY <2>1, <2>2 DEF Swept
<1>4. Sweep(v, gone, h)
  BY <1>2, <1>3 DEF Sweep
<1> DEFINE f == CHOOSE f : Sweep(v, gone, f)
<1>5. Sweep(v, gone, f)
  BY <1>4
<1> HIDE DEF f
<1>6. /\ 0 \in 0 .. v.length /\ f[0] = v
      /\ \A n \in 0 .. v.length : n # 0 => f[n] = Swept(f[n - 1], v.length - n, gone)
  BY <1>5 DEF Sweep, Swept
<1>7. \A j \in 1 .. v.length : j # 0 /\ j \in 0 .. v.length
  OBVIOUS
<1>8. Sweeps(v, gone, v.length, f)
  BY <1>6, <1>7 DEF Sweeps
<1> QED
  BY <1>8 DEF f

LEMMA CleanupIsSweep ==
  ASSUME NEW v, NEW ms, NEW k
  PROVE  Cleanup(v, ms, k) = Reshape((CHOOSE f : Sweep(v, Gone(v, ms, k), f))[v.length])
BY Zenon DEF Cleanup, Sweep

\* The array is not shrunk: the condition of i2c_vector_reshape is never true.
LEMMA ReshapeIs ==
  ASSUME NEW v, v.length \in Nat
  PROVE  Reshape(v) = v
BY VectorConstants DEF Reshape

\* The vector w is v, but for the entries from p on, which are looked at.
SweptFrom(w, v, gone, p) ==
  /\ VectorOK(w) /\ p \in Nat /\ p <= w.length /\ (v.data # NULL => w.data # NULL)
  /\ \A i \in 0 .. p - 1 : w.data[i] = v.data[i]
  /\ \A i \in p .. w.length - 1 : w.data[i] \in Entries(v) \ gone
  /\ \A i \in p .. v.length - 1 : v.data[i] \notin gone => v.data[i] \in Entries(w)

LEMMA SweptStep ==
  ASSUME NullIsApart, NULL \notin Msg, NEW v, VectorOK(v), v.data # NULL, NEW gone,
         NEW i \in 0 .. v.length - 1, NEW w, SweptFrom(w, v, gone, i + 1)
  PROVE  SweptFrom(Swept(w, i, gone), v, gone, i)
<1>1. /\ v.length \in Nat /\ w.length \in Nat /\ i \in Nat /\ i < w.length /\ VectorOK(w)
      /\ w.data # NULL
  BY DEF SweptFrom, VectorOK, Filled
<1>2. i \in 0 .. w.length - 1 /\ i \in 0 .. (i + 1) - 1
  BY <1>1
<1>3. w.data[i] = v.data[i] /\ Get(w, i) = v.data[i]
  <2>1. w.data[i] = v.data[i]
    BY <1>2 DEF SweptFrom
  <2> QED
    BY <1>1, <1>2, <2>1, GetIs
<1>4. \A j \in 0 .. i - 1 : w.data[j] = v.data[j]
  <2>1. \A j \in 0 .. i - 1 : j \in 0 .. (i + 1) - 1
    BY <1>1
  <2> QED
    BY <2>1 DEF SweptFrom
<1>5. v.data[i] \in Entries(v)
  BY DEF Entries
<1>6. CASE v.data[i] \in gone
  <2> DEFINE x == DeleteAt(w, i)
  <2>1. Swept(w, i, gone) = x
    BY <1>3, <1>6 DEF Swept
  <2>2. TakenOut(x, w, i)
    BY <1>1, <1>2, DeleteIs
  <2>3. Entries(x) = Entries(w) \ {v.data[i]}
    BY <1>1, <1>2, <1>3, <2>2, TakenOutEntries
  <2> HIDE DEF x
  <2>4. VectorOK(x) /\ x.data # NULL /\ x.length = w.length - 1 /\ i <= x.length
    BY <1>1, <2>2 DEF TakenOut
  <2>5. \A j \in 0 .. i - 1 : x.data[j] = v.data[j]
    BY <1>4, <2>2 DEF TakenOut
  <2>6. ASSUME NEW j \in i .. x.length - 1 PROVE x.data[j] \in Entries(v) \ gone
    <3>1. j \in i .. w.length - 2 /\ j + 1 \in i + 1 .. w.length - 1
      BY <1>1, <2>4
    <3> QED
      BY <2>2, <3>1 DEF TakenOut, SweptFrom
  <2>7. ASSUME NEW j \in i .. v.length - 1, v.data[j] \notin gone PROVE v.data[j] \in Entries(x)
    <3>1. j # i
      BY <1>6, <2>7
    <3>2. j \in i + 1 .. v.length - 1
      BY <1>1, <3>1
    <3>3. v.data[j] \in Entries(w)
      BY <2>7, <3>2 DEF SweptFrom
    <3> QED
      BY <1>6, <2>3, <2>7, <3>3
  <2> QED
    BY <1>1, <2>1, <2>4, <2>5, <2>6, <2>7 DEF SweptFrom
<1>7. CASE v.data[i] \notin gone
  <2>1. Swept(w, i, gone) = w
    BY <1>3, <1>7 DEF Swept
  <2>2. ASSUME NEW j \in i .. w.length - 1 PROVE w.data[j] \in Entries(v) \ gone
    <3>1. j = i \/ j \in i + 1 .. w.length - 1
      BY <1>1
    <3> QED
      BY <1>3, <1>5, <1>7, <3>1 DEF SweptFrom
  <2>3. ASSUME NEW j \in i .. v.length - 1, v.data[j] \notin gone PROVE v.data[j] \in Entries(w)
    <3>1. j = i \/ j \in i + 1 .. v.length - 1
      BY <1>1
    <3>2. v.data[i] \in Entries(w)
      BY <1>2, <1>3 DEF Entries
    <3> QED
      BY <2>3, <3>1, <3>2 DEF SweptFrom
  <2> QED
    BY <1>1, <1>4, <2>1, <2>2, <2>3 DEF SweptFrom
<1> QED
  BY <1>6, <1>7

\* The vector w is v, but for the entries from p on, of which those from d on are left.
ShiftedFrom(w, v, d, p) ==
  /\ p < d => w.length = v.length - (d - p)
  /\ p >= d => w = v
  /\ p < d => \A i \in p .. w.length - 1 : w.data[i] = v.data[i + (d - p)]

\* The first d entries go, and no others.
GoesFirst(v, gone, d) ==
  \A i \in 0 .. v.length - 1 : v.data[i] \in gone <=> i < d

LEMMA ShiftedStep ==
  ASSUME NullIsApart, NULL \notin Msg, NEW v, VectorOK(v), v.data # NULL, NEW gone,
         NEW d \in 0 .. v.length, GoesFirst(v, gone, d),
         NEW i \in 0 .. v.length - 1, NEW w, SweptFrom(w, v, gone, i + 1),
         ShiftedFrom(w, v, d, i + 1)
  PROVE  ShiftedFrom(Swept(w, i, gone), v, d, i)
<1>1. /\ v.length \in Nat /\ w.length \in Nat /\ i \in Nat /\ i < w.length /\ VectorOK(w)
      /\ w.data # NULL /\ d \in Nat
  BY DEF SweptFrom, VectorOK, Filled
<1>2. i \in 0 .. w.length - 1 /\ i \in 0 .. (i + 1) - 1
  BY <1>1
<1>3. w.data[i] = v.data[i] /\ Get(w, i) = v.data[i]
  <2>1. w.data[i] = v.data[i]
    BY <1>2 DEF SweptFrom
  <2> QED
    BY <1>1, <1>2, <2>1, GetIs
<1>4. CASE i >= d
  <2>1. v.data[i] \notin gone /\ i + 1 >= d
    BY <1>1, <1>4 DEF GoesFirst
  <2>2. Swept(w, i, gone) = v
    BY <1>3, <2>1 DEF Swept, ShiftedFrom
  <2> QED
    BY <1>1, <1>4, <2>2 DEF ShiftedFrom
<1>5. CASE i < d
  <2> DEFINE x == DeleteAt(w, i)
  <2>1. v.data[i] \in gone
    BY <1>5 DEF GoesFirst
  <2>2. Swept(w, i, gone) = x
    BY <1>3, <2>1 DEF Swept
  <2>3. TakenOut(x, w, i)
    BY <1>1, <1>2, DeleteIs
  <2> HIDE DEF x
  <2>4. w.length = v.length - (d - (i + 1))
    BY <1>1, <1>5 DEF ShiftedFrom
  <2>5. x.length = v.length - (d - i)
    BY <1>1, <2>3, <2>4 DEF TakenOut
  <2>6. ASSUME NEW j \in i .. x.length - 1 PROVE x.data[j] = v.data[j + (d - i)]
    <3>1. /\ j \in i .. w.length - 2 /\ j + 1 \in i + 1 .. w.length - 1
          /\ (j + 1) + (d - (i + 1)) = j + (d - i)
      BY <1>1, <2>4, <2>5
    <3>2. x.data[j] = w.data[j + 1]
      BY <2>3, <3>1 DEF TakenOut
    <3>3. w.data[j + 1] = v.data[j + (d - i)]
      <4>1. CASE i + 1 < d
        <5>1. w.data[j + 1] = v.data[(j + 1) + (d - (i + 1))]
          BY <3>1, <4>1 DEF ShiftedFrom
        <5> QED
          BY <3>1, <5>1
      <4>2. CASE ~(i + 1 < d)
        <5>1. w = v /\ j + (d - i) = j + 1
          BY <1>1, <1>5, <4>2 DEF ShiftedFrom
        <5> QED
          BY <5>1
      <4> QED
        BY <4>1, <4>2
    <3> QED
      BY <3>2, <3>3
  <2> QED
    BY <1>1, <1>5, <2>2, <2>5, <2>6 DEF ShiftedFrom
<1> QED
  BY <1>1, <1>4, <1>5

LEMMA SweepProps ==
  ASSUME NullIsApart, NULL \notin Msg, NEW v, VectorOK(v), NEW gone, NEW d,
         NEW f, Sweeps(v, gone, v.length, f)
  PROVE  /\ SweptFrom(f[v.length], v, gone, 0)
         /\ d \in 0 .. v.length /\ GoesFirst(v, gone, d) => ShiftedFrom(f[v.length], v, d, 0)
<1> DEFINE Good(n) == /\ SweptFrom(f[n], v, gone, v.length - n)
                      /\ d \in 0 .. v.length /\ GoesFirst(v, gone, d) =>
                           ShiftedFrom(f[n], v, d, v.length - n)
           N == {n \in Nat : n <= v.length => Good(n)}
<1>1. /\ v.length \in Nat /\ (v.length > 0 => v.data # NULL)
      /\ \A i \in 0 .. v.length - 1 : v.data[i] \in Entries(v)
  BY DEF VectorOK, Filled, Entries
<1>2. 0 \in N
  <2>1. f[0] = v /\ v.length - 0 = v.length
    BY <1>1 DEF Sweeps
  <2>2. SweptFrom(v, v, gone, v.length)
    BY <1>1 DEF SweptFrom
  <2>3. d \in 0 .. v.length => ShiftedFrom(v, v, d, v.length)
    BY <1>1 DEF ShiftedFrom
  <2> QED
    BY <2>1, <2>2, <2>3
<1>3. ASSUME NEW n \in N PROVE n + 1 \in N
  <2> SUFFICES ASSUME n + 1 <= v.length PROVE Good(n + 1)
    OBVIOUS
  <2> DEFINE i == v.length - (n + 1)
  <2>1. /\ n \in Nat /\ i \in 0 .. v.length - 1 /\ v.length - n = i + 1 /\ v.data # NULL
        /\ n + 1 \in 1 .. v.length /\ (n + 1) - 1 = n
    BY <1>1
  <2>2. Good(n)
    BY <1>1, <2>1
  <2>3. f[n + 1] = Swept(f[n], i, gone)
    BY <2>1 DEF Sweeps
  <2> HIDE DEF i
  <2>4. SweptFrom(f[n], v, gone, i + 1)
    BY <2>1, <2>2
  <2>5. SweptFrom(f[n + 1], v, gone, i)
    BY <2>1, <2>3, <2>4, SweptStep
  <2>6. ASSUME d \in 0 .. v.length, GoesFirst(v, gone, d)
        PROVE  ShiftedFrom(f[n + 1], v, d, i)
    <3>1. ShiftedFrom(f[n], v, d, i + 1)
      BY <2>1, <2>2, <2>6
    <3> QED
      BY <2>1, <2>3, <2>4, <2>6, <3>1, ShiftedStep
  <2> QED
    BY <2>5, <2>6 DEF i
<1>4. N = Nat
  <2> HIDE DEF N
  <2>1. N \in SUBSET Nat
    BY DEF N
  <2> QED
    BY <1>2, <1>3, <2>1, Lists!AllNaturals
<1>5. Good(v.length)
  <2>1. v.length \in N /\ v.length <= v.length
    BY <1>1, <1>4
  <2> QED
    BY <2>1
<1>6. v.length - v.length = 0
  BY <1>1
<1> QED
  BY <1>5, <1>6

\* The vector w is v without the messages in gone.
CleanedUp(w, v, gone) ==
  /\ VectorOK(w) /\ (v.data # NULL => w.data # NULL)
  /\ Entries(w) = Entries(v) \ gone

LEMMA SweptAll ==
  ASSUME NEW v, VectorOK(v), NEW w, NEW gone, SweptFrom(w, v, gone, 0)
  PROVE  CleanedUp(w, v, gone)
<1>1. /\ \A i \in 0 .. w.length - 1 : w.data[i] \in Entries(v) \ gone
      /\ \A i \in 0 .. v.length - 1 : v.data[i] \notin gone => v.data[i] \in Entries(w)
  BY DEF SweptFrom
<1>2. Entries(w) = Entries(v) \ gone
  BY <1>1 DEF Entries
<1> QED
  BY <1>2 DEF SweptFrom, CleanedUp

LEMMA CleanupProps ==
  ASSUME NullIsApart, NULL \notin Msg, NEW v, VectorOK(v), NEW ms, NEW k
  PROVE  CleanedUp(Cleanup(v, ms, k), v, Gone(v, ms, k))
<1> DEFINE f == CHOOSE f : Sweep(v, Gone(v, ms, k), f)
<1>1. v.length \in Nat
  BY DEF VectorOK, Filled
<1>2. Cleanup(v, ms, k) = Reshape(f[v.length])
  BY CleanupIsSweep
<1>3. Sweeps(v, Gone(v, ms, k), v.length, f)
  BY <1>1, SweepIs
<1> HIDE DEF f
<1>4. SweptFrom(f[v.length], v, Gone(v, ms, k), 0)
  BY <1>3, SweepProps
<1>5. f[v.length].length \in Nat
  BY <1>4 DEF SweptFrom, VectorOK, Filled
<1>6. Cleanup(v, ms, k) = f[v.length]
  BY <1>2, <1>5, ReshapeIs
<1> QED
  BY <1>4, <1>6, SweptAll

\* When exactly the first d messages go, the others move down by d.
LEMMA CleanupShifts ==
  ASSUME NullIsApart, NULL \notin Msg, NEW v, VectorOK(v), NEW ms, NEW k,
         NEW d \in 0 .. v.length, GoesFirst(v, Gone(v, ms, k), d)
  PROVE  /\ Cleanup(v, ms, k).length = v.length - d
         /\ \A i \in 0 .. v.length - d - 1 : Cleanup(v, ms, k).data[i] = v.data[i + d]
<1> DEFINE f == CHOOSE f : Sweep(v, Gone(v, ms, k), f)
<1>1. v.length \in Nat
  BY DEF VectorOK, Filled
<1>2. Cleanup(v, ms, k) = Reshape(f[v.length])
  BY CleanupIsSweep
<1>3. Sweeps(v, Gone(v, ms, k), v.length, f)
  BY <1>1, SweepIs
<1> HIDE DEF f
<1>4. SweptFrom(f[v.length], v, Gone(v, ms, k), 0) /\ ShiftedFrom(f[v.length], v, d, 0)
  BY <1>3, SweepProps
<1>5. f[v.length].length \in Nat
  BY <1>4 DEF SweptFrom, VectorOK, Filled
<1>6. Cleanup(v, ms, k) = f[v.length]
  BY <1>2, <1>5, ReshapeIs
<1> DEFINE w == f[v.length]
<1>7. w.length = v.length - d /\ \A i \in 0 .. v.length - d - 1 : w.data[i] = v.data[i + d]
  <2>1. CASE d = 0
    <3>1. w = v
      BY <1>4, <2>1 DEF ShiftedFrom
    <3> QED
      BY <1>1, <2>1, <3>1
  <2>2. CASE 0 < d
    <3>1. w.length = v.length - (d - 0) /\ \A i \in 0 .. w.length - 1 : w.data[i] = v.data[i + (d - 0)]
      BY <1>4, <2>2 DEF ShiftedFrom
    <3> QED
      BY <1>1, <3>1
  <2> QED
    BY <1>1, <2>1, <2>2
<1> QED
  BY <1>6, <1>7

-----------------------------------------------------------------------------
(***************************************************************************)
(* The inductive invariant, for one slave and the faults that the code     *)
(* survives.                                                               *)
(***************************************************************************)
Slaves == Client \ Masters

\* A second slave would delete the messages of the first (i2c_slave_tmo).
OneSlave == \A c, d \in Slaves : c = d

\* Those under which the invariant does not hold; README.md says what happens.
Survived == Faults \cap {"race", "lateAddress", "lateTmo", "resumeTmo", "heldBus", "shared"} = {}

\* What the theorems assume of the constants.
Assumed == NullIsApart /\ OneSlave /\ Survived /\ NULL \notin Msg

\* The places of the code a client can be at.
Stages ==
  {"closed", "open", "lock", "update", "add", "started", "wait", "woken", "loop", "clean",
   "looked", "resume", "end", "release"}

Types ==
  /\ msg \in [Msg -> Features \cup {NULL}]
  /\ msgs \in [Client -> Seq(Msg)]
  /\ VectorOK(vec)
  /\ busy \in BOOLEAN
  /\ ptr \in [master : Msg \cup {NULL}, slave : Msg \cup {NULL},
              lastMaster : Msg \cup {NULL}, lastSlave : Msg \cup {NULL}]
  /\ bufferIndex \in Nat
  /\ twcr \in [sta : BOOLEAN, ea : BOOLEAN, ie : BOOLEAN]
  /\ twi \in {"idle", "slaw", "slar", "mt", "mr", "rep", "sr", "st", "heldM", "heldS"}
  /\ ec \in [Kinds -> Nat]
  /\ pc \in [Client -> Stages] /\ index \in [Client -> Int]
  /\ rc \in [Client -> {-1, 0, 1}] /\ length \in [Client -> Nat]

\* The messages in the vector.
InVector == Entries(vec)

\* A message is in the vector or in the list of one client, once.
Homes(ms, lists, v) ==
  /\ \A m \in Entries(v) : ms[m] # NULL
  /\ \A c \in Client : \A i, j \in 1 .. Len(lists[c]) : lists[c][i] = lists[c][j] => i = j
  /\ \A c, d \in Client : c # d => Range(lists[c]) \cap Range(lists[d]) = {}
  /\ \A c \in Client : Range(lists[c]) \cap Entries(v) = {}
  /\ \A m \in Msg : ms[m] # NULL => m \in Entries(v) \/ \E c \in Client : m \in Range(lists[c])

\* Where the messages are.
Placed == Homes(msg, msgs, vec)

\* The places of the core, where the thread runs and does not wait.
InCore ==
  {"update", "add", "started", "loop", "clean", "looked", "resume", "end", "release"}

\* Masters hold the adapter from their lock to its release.
Threads ==
  /\ cur \in Client \cup {NULL} /\ holder \in Masters \cup {NULL}
  /\ \A c \in Client : cur = c <=> pc[c] \in InCore
  /\ \A c \in Masters : holder = c <=> pc[c] \notin {"closed", "open", "lock"}
  /\ \A c \in Slaves : pc[c] \notin {"lock", "update"}

\* A client waits in the queue of its kind, alone.
Queues ==
  /\ DOMAIN queue = Kinds
  /\ \A k \in Kinds :
       \/ queue[k] \in {SIGNALED, <<>>}
       \/ \E c \in Client : Kind(c) = k /\ pc[c] = "wait" /\ queue[k] = <<c>>
  /\ \A c \in Client : pc[c] = "wait" => queue[Kind(c)] = <<c>>
  /\ \A k \in Kinds : ec[k] > 0 => queue[k] \notin {SIGNALED, <<>>}

\* There is a message of the kind k to be done.
PendingIn(k) == \E m \in InVector : msg[m].kind = k /\ ~msg[m].done

\* Masters and slaves use the bus in turns.
Turns ==
  /\ \A c, d \in Client : pc[c] # "closed" /\ pc[d] # "closed" => Kind(c) = Kind(d)
  /\ \A c \in Client : pc[c] # "closed" => \A m \in InVector : msg[m].kind = Kind(c)
  /\ \A m, n \in InVector : msg[m].kind = msg[n].kind
  /\ \A c \in Client : \A m \in Range(msgs[c]) :
       msg[m] # NULL /\ msg[m].kind = Kind(c) /\ ~msg[m].done
  /\ \A c \in Client : pc[c] = "closed" => msgs[c] = <<>>
  /\ \A c \in Client : pc[c] \in {"lock", "update"} => msgs[c] # <<>>
  /\ \A c \in Client : pc[c] = "add" => msgs[c] # <<>> \/ PendingIn(Kind(c))

(***************************************************************************)
(* The bus as a master.                                                    *)
(***************************************************************************)
Transfers == {"slaw", "slar", "mt", "mr"}

\* The control register and the hardware agree.
Signals ==
  /\ twi \in Transfers \cup {"heldM"} => busy /\ ~twcr.sta
  /\ twi = "rep" => twcr.sta /\ busy
  /\ twi \in {"heldM", "heldS"} <=> ~twcr.ie

\* The message to send is there, but while the next one is being added.
MReady == M # NULL /\ M \in InVector /\ msg[M].kind = "master" /\ ~msg[M].done

\* A master adds its messages, or updates the driver before it does.
Adding == \E c \in Masters : pc[c] \in {"update", "add"}

Sends == twcr.sta \/ twi \in Transfers => MReady \/ (~busy /\ Adding)

\* While the interrupt is off, the transfer has a message to go on with.
Holds == twi = "heldM" => PendingIn("master")

\* What an event tells a master that waits.
MasterQuiet == ~twcr.sta /\ ~twcr.ea /\ twi = "idle"

\* The message whose end the interrupt handler reports is still there.
LastMasterOK ==
  ptr.lastMaster # NULL =>
    /\ ptr.lastMaster \in InVector
    /\ \/ twi = "heldM"
       \/ MasterQuiet
       \/ msg[ptr.lastMaster].done /\ ~msg[ptr.lastMaster].cb

MasterTold ==
  /\ ec["master"] > 0 => LastMasterOK
  /\ \A c \in Masters : pc[c] = "woken" /\ rc[c] = 0 => LastMasterOK
  /\ \A c \in Masters : pc[c] = "woken" /\ Resumed(c) => rc[c] = 0

\* What c knows in the loop around i2c_call_client.
MasterLoops(c) ==
  /\ pc[c] \in {"loop", "clean", "looked", "resume"} => twi = "heldM" \/ MasterQuiet
  /\ pc[c] = "loop" =>
       index[c] >= 0 /\ Get(vec, index[c]) # NULL /\ msg[Get(vec, index[c])].cb
  /\ pc[c] = "clean" => index[c] > 0
  /\ pc[c] \in {"looked", "resume"} => \A m \in InVector : ~msg[m].done

\* Something brings the event c waits for.
MasterWaits(c) ==
  pc[c] \in {"started", "wait"} /\ ec["master"] = 0 =>
    PendingIn("master") /\ (twcr.sta \/ twi \in Transfers \cup {"rep"} \/ busy)

MasterInv ==
  /\ Signals /\ Sends /\ Holds /\ MasterTold
  /\ \A c \in Masters : MasterLoops(c) /\ MasterWaits(c)

(***************************************************************************)
(* The bus as a slave.                                                     *)
(***************************************************************************)
SlaveQuiet == ~twcr.sta /\ ~twcr.ea /\ twi = "idle" /\ ~busy

SThere == S \in InVector /\ msg[S].kind = "slave"

NoPending == ~PendingIn("slave")

Slots == 0 .. vec.length - 1

\* The messages of slaves are done from the first to the last.
DoneInOrder ==
  (\A m \in InVector : msg[m].kind = "slave") =>
  \A i, j \in Slots : i < j /\ msg[vec.data[j]].done => msg[vec.data[i]].done

\* Those before the slot i are done, and those behind it are not.
DoneBefore(i) ==
  \A j \in Slots : (j < i => msg[vec.data[j]].done) /\ (j > i => ~msg[vec.data[j]].done)

\* What an event tells a slave that waits: all is done, or a call-back is due.
LastSlaveOK ==
  \/ /\ SlaveQuiet
     /\ ptr.lastSlave # NULL =>
          ptr.lastSlave \in InVector /\ ~msg[ptr.lastSlave].cb /\ NoPending
  \/ /\ twi = "heldS" /\ S # NULL /\ ptr.lastSlave = S /\ S \in InVector
     /\ msg[S].cb /\ ~msg[S].done

\* The bus is busy for a reason.
SlaveBusy ==
  busy => PendingIn("master") \/ twi \in {"st", "heldS"} \/ (S # NULL /\ SThere)

\* While the interrupt is off in a slave transfer, its client is at work.
SlaveHolds ==
  twi = "heldS" =>
    \E c \in Slaves : pc[c] \in {"wait", "woken", "loop", "clean", "looked", "resume"}

\* Between two calls of the slave the bus rests.
SlaveRests ==
  (\A c \in Slaves : pc[c] \in {"closed", "open"}) /\ S # NULL => SThere /\ SlaveQuiet

\* The turn of the slave c: no master uses the bus.
SlaveTurn(c) ==
  /\ pc[c] # "closed" =>
       ~twcr.sta /\ twi \in {"idle", "sr", "st", "heldS"}
  /\ pc[c] = "add" => S = NULL \/ SlaveQuiet

\* The message the bus would use while c listens.
SlaveListens(c) ==
  /\ pc[c] \in {"started", "wait", "woken"} /\ S # NULL =>
       /\ SThere /\ (msg[S].done => ~msg[S].cb)
       /\ \A i, j \in Slots : i < j /\ vec.data[j] = S => msg[vec.data[i]].done
  /\ pc[c] \in {"started", "wait"} /\ S = NULL =>
       NoPending \/ SlaveQuiet \/ (busy /\ twi = "st")
  /\ pc[c] \in {"started", "wait", "woken"} /\ Resumed(c) =>
       /\ length[c] = vec.length
       /\ S # NULL \/ ptr.lastSlave = NULL \/ ptr.lastSlave \in InVector

\* What an event or a time-out tells c.
SlaveTold(c) ==
  /\ pc[c] = "wait" /\ twi = "heldS" => ec["slave"] > 0
  /\ pc[c] = "wait" /\ ec["slave"] > 0 => LastSlaveOK
  /\ pc[c] = "woken" => rc[c] \in {0, -1}
  /\ pc[c] = "woken" /\ rc[c] = 0 => LastSlaveOK
  /\ pc[c] = "woken" /\ rc[c] = -1 =>
       /\ twi \in {"idle", "heldS"} /\ ~busy /\ vec.length <= 1
       /\ S = NULL => NoPending \/ ~twcr.ea
       /\ twi = "heldS" => S # NULL /\ msg[S].cb

\* The loop of c is at a message that is done, and all are.
AtDone(c) ==
  /\ SlaveQuiet /\ NoPending
  /\ index[c] \in Slots /\ ~msg[vec.data[index[c]]].cb

\* What c knows in the loop around i2c_call_client.
SlaveLoops(c) ==
  /\ pc[c] = "loop" =>
       \/ AtDone(c)
       \/ /\ twi = "heldS" /\ index[c] \in Slots /\ DoneBefore(index[c])
          /\ msg[vec.data[index[c]]].cb
  /\ pc[c] = "clean" =>
       \/ AtDone(c)
       \/ /\ twi = "heldS" /\ index[c] \in Slots /\ index[c] > 0 /\ DoneBefore(index[c])
          /\ ~msg[vec.data[index[c]]].done
  /\ pc[c] \in {"looked", "resume"} =>
       \/ /\ SlaveQuiet /\ NoPending
          /\ vec.length > 0 => index[c] = 0 /\ ~msg[vec.data[0]].cb
       \/ /\ twi = "heldS" /\ vec.length > 0 /\ index[c] = 0
          /\ \A m \in InVector : ~msg[m].done

\* c leaves the bus idle behind, and does not listen with messages to go.
SlaveEnds(c) ==
  pc[c] \in {"end", "release"} =>
    twi = "idle" /\ ~busy /\ (~twcr.ea \/ (rc[c] < 0 /\ NoPending))

SlaveInv ==
  /\ DoneInOrder /\ SlaveBusy /\ SlaveHolds /\ SlaveRests
  /\ \A c \in Slaves :
       SlaveTurn(c) /\ SlaveListens(c) /\ SlaveTold(c) /\ SlaveLoops(c) /\ SlaveEnds(c)

IInv == Types /\ Placed /\ Threads /\ Queues /\ Turns /\ MasterInv /\ SlaveInv

\* First, of a vector whose messages are allocated.
LEMMA FirstIs ==
  ASSUME NullIsApart, NULL \notin Msg, NEW v, VectorOK(v), NEW ms, NEW k,
         \A m \in Entries(v) : ms[m] # NULL
  PROVE  /\ First(v, ms, k) = NULL => \A m \in Entries(v) : ms[m].kind = k => ms[m].done
         /\ First(v, ms, k) # NULL =>
              /\ First(v, ms, k) \in Entries(v) /\ ms[First(v, ms, k)].kind = k
              /\ ~ms[First(v, ms, k)].done
              /\ \A i, j \in 0 .. v.length - 1 :
                   i < j /\ v.data[j] = First(v, ms, k) /\ ms[v.data[i]].kind = k =>
                     ms[v.data[i]].done
<1> DEFINE some == {m \in {n \in Msg : ms[n] # NULL /\ ms[n].kind = k} : ~ms[m].done}
           at == FirstMsg(v, some)
<1>1. /\ v.length \in Nat /\ \A i \in 0 .. v.length - 1 : v.data[i] \in Msg /\ v.data[i] \in Entries(v)
      /\ \A i, j \in 0 .. v.length - 1 : v.data[i] = v.data[j] => i = j
  BY DEF VectorOK, Filled, Entries
<1>2. First(v, ms, k) = IF at = NULL THEN NULL ELSE v.data[at]
  BY DEF First, Pending, OfKind
<1>3. \A m \in Msg : ms[m] # NULL => (m \in some <=> ms[m].kind = k /\ ~ms[m].done)
  OBVIOUS
<1>4. /\ at = NULL => \A i \in 0 .. v.length - 1 : v.data[i] \notin some
      /\ at # NULL => /\ at \in 0 .. v.length - 1 /\ v.data[at] \in some
                      /\ \A i \in 0 .. v.length - 1 : i < at => v.data[i] \notin some
  BY <1>1, FirstMsgIs DEF NullIsApart
<1> HIDE DEF some, at
<1>5. CASE at = NULL
  <2>1. ASSUME NEW m \in Entries(v), ms[m].kind = k PROVE ms[m].done
    <3>1. PICK i \in 0 .. v.length - 1 : m = v.data[i]
      BY DEF Entries
    <3> QED
      BY <1>1, <1>3, <1>4, <1>5, <2>1, <3>1
  <2> QED
    BY <1>2, <1>5, <2>1
<1>6. CASE at # NULL
  <2>1. First(v, ms, k) = v.data[at]
    BY <1>2, <1>6
  <2>2. at \in 0 .. v.length - 1 /\ v.data[at] \in some /\ v.data[at] \in Entries(v) /\ v.data[at] \in Msg
    BY <1>1, <1>4, <1>6
  <2>3. ms[v.data[at]].kind = k /\ ~ms[v.data[at]].done
    BY <1>3, <2>2
  <2>4. v.data[at] # NULL
    BY <2>2
  <2>5. ASSUME NEW i \in 0 .. v.length - 1, NEW j \in 0 .. v.length - 1, i < j,
               v.data[j] = v.data[at], ms[v.data[i]].kind = k
        PROVE  ms[v.data[i]].done
    <3>1. j = at
      BY <1>1, <2>2, <2>5
    <3> QED
      BY <1>1, <1>3, <1>4, <1>6, <2>5, <3>1
  <2> QED
    BY <2>1, <2>2, <2>3, <2>4, <2>5
<1> QED
  BY <1>5, <1>6

\* What belongs to whom depends on which messages are allocated.
LEMMA HomesSame ==
  ASSUME NEW ms, NEW ns, NEW lists, NEW v, Homes(ms, lists, v), Entries(v) \in SUBSET Msg,
         \A m \in Msg : ns[m] = NULL <=> ms[m] = NULL
  PROVE  Homes(ns, lists, v)
BY DEF Homes

\* i2c_cleanup_adapter_msgs of the messages ms.
CleanedIn(ms, ns, v, w, k) ==
  /\ VectorOK(w) /\ (v.data # NULL => w.data # NULL)
  /\ \A m \in Entries(v) : m \in Entries(w) <=> ~(ms[m].kind = k /\ ms[m].done)
  /\ Entries(w) \in SUBSET Entries(v)
  /\ \A m \in Msg : ns[m] = IF m \in Entries(v) /\ m \notin Entries(w) THEN NULL ELSE ms[m]

LEMMA CleanUpIs ==
  ASSUME NullIsApart, NULL \notin Msg, VectorOK(vec), NEW ms, NEW k, CleanUp(ms, k)
  PROVE  CleanedIn(ms, msg', vec, vec', k)
<1> DEFINE gone == Gone(vec, ms, k)
<1>1. Range(Elements(vec)) = Entries(vec)
  BY EntriesAre
<1>2. \A m : m \in gone <=> m \in Entries(vec) /\ ms[m].kind = k /\ ms[m].done
  BY <1>1 DEF Gone
<1>3. vec' = Cleanup(vec, ms, k) /\ msg' = [m \in Msg |-> IF m \in gone THEN NULL ELSE ms[m]]
  BY DEF CleanUp, Without
<1>4. CleanedUp(vec', vec, gone)
  BY <1>3, CleanupProps
<1> HIDE DEF gone
<1> QED
  BY <1>2, <1>3, <1>4 DEF CleanedUp, CleanedIn

LEMMA HomesCleaned ==
  ASSUME NULL \notin Msg, NEW ms, NEW ns, NEW lists, NEW v, NEW w, NEW k,
         Homes(ms, lists, v), CleanedIn(ms, ns, v, w, k), Entries(v) \in SUBSET Msg
  PROVE  Homes(ns, lists, w)
<1>1. \A m \in Entries(w) : ns[m] = ms[m] /\ ms[m] # NULL /\ m \in Entries(v)
  BY DEF CleanedIn, Homes
<1>2. \A m \in Msg : ns[m] # NULL => ms[m] # NULL /\ (m \in Entries(v) => m \in Entries(w))
  BY DEF CleanedIn
<1> QED
  BY <1>1, <1>2 DEF Homes

LEMMA KindIs ==
  ASSUME NEW c \in Client
  PROVE  /\ Kind(c) = "master" <=> c \in Masters
         /\ Kind(c) = "slave" <=> c \in Slaves
         /\ c \in Masters <=> c \notin Slaves
         /\ Kind(c) \in Kinds
BY DEF Kind, Slaves, Kinds

LEMMA ClientsAre ==
  Masters \in SUBSET Client /\ Slaves \in SUBSET Client
BY BusConstants DEF Slaves

\* What is in the vector.
LEMMA VectorIs ==
  ASSUME VectorOK(vec)
  PROVE  /\ InVector \in SUBSET Msg
         /\ vec.length \in Nat
         /\ \A i \in Slots : vec.data[i] \in InVector /\ vec.data[i] \in Msg
         /\ \A m \in InVector : \E i \in Slots : vec.data[i] = m
         /\ \A i, j \in Slots : vec.data[i] = vec.data[j] => i = j
         /\ vec.length = 0 => InVector = {}
         /\ InVector = {} => vec.length = 0
<1>1. /\ vec.length \in Nat /\ \A i \in 0 .. vec.length - 1 : vec.data[i] \in Msg
      /\ \A i, j \in 0 .. vec.length - 1 : vec.data[i] = vec.data[j] => i = j
  BY DEF VectorOK, Filled
<1>2. \A i \in 0 .. vec.length - 1 : vec.data[i] \in InVector
  BY DEF InVector, Entries
<1>3. InVector = {} => vec.length = 0
  <2>1. vec.length # 0 => 0 \in 0 .. vec.length - 1
    BY <1>1
  <2> QED
    BY <1>2, <2>1
<1>4. vec.length = 0 => InVector = {}
  BY DEF InVector, Entries
<1>5. \A m \in InVector : \E i \in 0 .. vec.length - 1 : vec.data[i] = m
  BY DEF InVector, Entries
<1>6. InVector \in SUBSET Msg
  BY <1>1, <1>5
<1> QED
  BY <1>1, <1>2, <1>3, <1>4, <1>5, <1>6 DEF Slots

\* The same of the next state.
LEMMA NextVectorIs ==
  ASSUME VectorOK(vec')
  PROVE  /\ InVector' \in SUBSET Msg
         /\ vec'.length \in Nat
         /\ \A i \in Slots' : vec'.data[i] \in InVector' /\ vec'.data[i] \in Msg
         /\ \A m \in InVector' : \E i \in Slots' : vec'.data[i] = m
         /\ \A i, j \in Slots' : vec'.data[i] = vec'.data[j] => i = j
         /\ vec'.length = 0 => InVector' = {}
         /\ InVector' = {} => vec'.length = 0
<1>1. /\ vec'.length \in Nat /\ \A i \in 0 .. vec'.length - 1 : vec'.data[i] \in Msg
      /\ \A i, j \in 0 .. vec'.length - 1 : vec'.data[i] = vec'.data[j] => i = j
  BY DEF VectorOK, Filled
<1>2. \A i \in 0 .. vec'.length - 1 : vec'.data[i] \in InVector'
  BY DEF InVector, Entries
<1>3. InVector' = {} => vec'.length = 0
  <2>1. vec'.length # 0 => 0 \in 0 .. vec'.length - 1
    BY <1>1
  <2> QED
    BY <1>2, <2>1
<1>4. vec'.length = 0 => InVector' = {}
  BY DEF InVector, Entries
<1>5. \A m \in InVector' : \E i \in 0 .. vec'.length - 1 : vec'.data[i] = m
  BY DEF InVector, Entries
<1>6. InVector' \in SUBSET Msg
  BY <1>1, <1>5
<1> QED
  BY <1>1, <1>2, <1>3, <1>4, <1>5, <1>6 DEF Slots

\* While a master has its file open, no slave has; the bus is no slave's.
LEMMA MasterTurn ==
  ASSUME Assumed, IInv, NEW c \in Masters, pc[c] # "closed"
  PROVE  /\ \A d \in Slaves : pc[d] = "closed"
         /\ \A m \in InVector : msg[m].kind = "master"
         /\ S = NULL /\ twi # "heldS" /\ NoPending
<1>1. \A d \in Slaves : pc[d] = "closed"
  BY KindIs, ClientsAre DEF IInv, Turns
<1>2. \A m \in InVector : msg[m].kind = "master"
  BY KindIs, ClientsAre DEF IInv, Turns
<1>3. S = NULL
  BY <1>1, <1>2 DEF IInv, SlaveInv, SlaveRests, SThere
<1>4. twi # "heldS"
  BY <1>1 DEF IInv, SlaveInv, SlaveHolds
<1> QED
  BY <1>1, <1>2, <1>3, <1>4 DEF NoPending, PendingIn

\* While the slave has its file open, no master has.
LEMMA TheSlavesTurn ==
  ASSUME Assumed, IInv, NEW c \in Slaves, pc[c] # "closed"
  PROVE  /\ \A d \in Masters : pc[d] = "closed"
         /\ \A d \in Slaves : d = c
         /\ \A m \in InVector : msg[m].kind = "slave"
         /\ ~twcr.sta /\ twi \in {"idle", "sr", "st", "heldS"}
         /\ ~PendingIn("master") /\ holder = NULL /\ ec["master"] = 0
         /\ \A i, j \in Slots : i < j /\ msg[vec.data[j]].done => msg[vec.data[i]].done
<1>1. \A d \in Masters : pc[d] = "closed"
  BY KindIs, ClientsAre DEF IInv, Turns
<1>2. \A m \in InVector : msg[m].kind = "slave"
  BY KindIs, ClientsAre DEF IInv, Turns
<1>3. \A d \in Slaves : d = c
  BY DEF Assumed, OneSlave
<1>4. ~twcr.sta /\ twi \in {"idle", "sr", "st", "heldS"}
  BY DEF IInv, SlaveInv, SlaveTurn
<1>5. ~PendingIn("master")
  BY <1>2 DEF PendingIn
<1>6. holder = NULL
  BY <1>1 DEF IInv, Threads
<1>7. ec["master"] = 0
  <2>1. "master" \in Kinds /\ ec["master"] \in Nat
    BY DEF IInv, Types, Kinds
  <2>2. ec["master"] > 0 => \E d \in Client : Kind(d) = "master" /\ pc[d] = "wait"
    BY <2>1 DEF IInv, Queues
  <2> QED
    BY <1>1, <2>1, <2>2, KindIs
<1>8. \A i, j \in Slots : i < j /\ msg[vec.data[j]].done => msg[vec.data[i]].done
  BY <1>2 DEF IInv, SlaveInv, DoneInOrder
<1> QED
  BY <1>1, <1>2, <1>3, <1>4, <1>5, <1>6, <1>7, <1>8

\* What is left to show of a step of a master.
LEMMA MasterTurnKeeps ==
  ASSUME Types', \A d \in Slaves : pc'[d] = "closed",
         \A m \in InVector' : msg'[m].kind = "master",
         ptr'.slave = NULL, twi' # "heldS", busy' => PendingIn("master")' \/ twi' = "st"
  PROVE  SlaveInv'
<1>1. VectorOK(vec')
  BY DEF Types
<1>2. DoneInOrder'
  BY <1>1, NextVectorIs DEF DoneInOrder
<1>3. (SlaveBusy /\ SlaveHolds /\ SlaveRests)'
  BY DEF SlaveBusy, SlaveHolds, SlaveRests, S
<1>4. ASSUME NEW c \in Slaves
      PROVE  (SlaveTurn(c) /\ SlaveListens(c) /\ SlaveTold(c) /\ SlaveLoops(c) /\ SlaveEnds(c))'
  BY DEF SlaveTurn, SlaveListens, SlaveTold, SlaveLoops, SlaveEnds
<1> QED
  BY <1>2, <1>3, <1>4 DEF SlaveInv

\* And of a step of the slave.
LEMMA SlaveTurnKeeps ==
  ASSUME Types', Queues', \A d \in Masters : pc'[d] = "closed",
         ~twcr'.sta, twi' \in {"idle", "sr", "st", "heldS"}, twi' = "heldS" <=> ~twcr'.ie
  PROVE  MasterInv'
<1>1. ec'["master"] = 0
  <2>1. "master" \in Kinds /\ ec'["master"] \in Nat
    BY DEF Types, Kinds
  <2>2. ec'["master"] > 0 => \E d \in Client : Kind(d) = "master" /\ pc'[d] = "wait"
    BY <2>1 DEF Queues
  <2> QED
    BY <2>1, <2>2, KindIs
<1>2. (Signals /\ Sends /\ Holds /\ MasterTold)'
  BY <1>1 DEF Signals, Sends, Holds, MasterTold, Transfers
<1>3. ASSUME NEW c \in Masters
      PROVE  (MasterLoops(c) /\ MasterWaits(c))'
  BY DEF MasterLoops, MasterWaits
<1> QED
  BY <1>2, <1>3 DEF MasterInv

\* Of the masters with open files, only the holder is past the lock.
LEMMA OneHolder ==
  ASSUME Threads, NULL \notin Client, NEW c \in Masters, pc[c] \notin {"closed", "open", "lock"}
  PROVE  holder = c /\ \A d \in Masters : d # c => pc[d] \in {"closed", "open", "lock"}
BY DEF Threads

\* Signals of the interrupt handler.
LEMMA SignalIs ==
  ASSUME Types, Queues, NEW ks, SignalFromISR(ks), pc' = pc
  PROVE  /\ Queues' /\ ec' \in [Kinds -> Nat]
         /\ \A k \in Kinds : k \notin ks => ec'[k] = ec[k]
         /\ \A k \in Kinds : ec'[k] > 0 => ec[k] > 0 \/ k \in ks
         /\ \A c \in Client : pc[c] = "wait" /\ Kind(c) \in ks => ec'[Kind(c)] > 0
         /\ \A k \in Kinds : ec[k] > 0 => ec'[k] > 0
<1>1. /\ queue' = [k \in Kinds |-> IF k \in ks /\ queue[k] = <<>> THEN SIGNALED ELSE queue[k]]
      /\ ec' = [k \in Kinds |->
                 IF k \in ks /\ queue[k] \notin {<<>>, SIGNALED} THEN ec[k] + 1 ELSE ec[k]]
  BY DEF SignalFromISR
<1>2. ec \in [Kinds -> Nat]
  BY DEF Types
<1>3. ASSUME NEW c \in Client PROVE <<c>> # <<>> /\ <<c>> # SIGNALED
  <2>1. <<c>> \in Seq(Client)
    OBVIOUS
  <2>2. SIGNALED \notin Seq(Client)
    BY BusConstants
  <2> QED
    BY <2>1, <2>2
<1>4. \A c \in Client : pc[c] = "wait" => Kind(c) \in Kinds /\ queue[Kind(c)] = <<c>>
  BY KindIs DEF Queues
<1>5. \A k \in Kinds : k \notin ks => queue'[k] = queue[k] /\ ec'[k] = ec[k]
  BY <1>1
<1>6. \A k \in Kinds : queue[k] \notin {<<>>, SIGNALED} => queue'[k] = queue[k]
  BY <1>1
<1>7. \A k \in Kinds : ec'[k] \in Nat /\ ec'[k] >= ec[k]
  BY <1>1, <1>2
<1>8. ASSUME NEW c \in Client, pc[c] = "wait", Kind(c) \in ks
      PROVE  ec'[Kind(c)] > 0
  <2>1. queue[Kind(c)] \notin {<<>>, SIGNALED} /\ Kind(c) \in Kinds
    BY <1>3, <1>4, <1>8
  <2>2. ec'[Kind(c)] = ec[Kind(c)] + 1 /\ ec[Kind(c)] \in Nat
    BY <1>1, <1>2, <1>8, <2>1
  <2> QED
    BY <2>2
<1>9. ec' \in [Kinds -> Nat]
  BY <1>1, <1>2
<1>10. DOMAIN queue' = Kinds
  BY <1>1
<1>11. ASSUME NEW k \in Kinds
       PROVE  \/ queue'[k] \in {SIGNALED, <<>>}
              \/ \E c \in Client : Kind(c) = k /\ pc'[c] = "wait" /\ queue'[k] = <<c>>
  BY <1>1, <1>6 DEF Queues
<1>12. \A c \in Client : pc'[c] = "wait" => queue'[Kind(c)] = <<c>>
  BY <1>3, <1>4, <1>6
<1>13. ASSUME NEW k \in Kinds, ec'[k] > 0
       PROVE  queue'[k] \notin {SIGNALED, <<>>} /\ (ec[k] > 0 \/ k \in ks)
  <2>1. CASE ec[k] > 0
    BY <1>6, <2>1 DEF Queues
  <2>2. CASE ~(ec[k] > 0)
    <3>1. ec[k] = 0 /\ ec'[k] # ec[k]
      BY <1>2, <1>13, <2>2
    <3> QED
      BY <1>1, <1>6, <3>1
  <2> QED
    BY <2>1, <2>2
<1>14. Queues'
  BY <1>10, <1>11, <1>12, <1>13 DEF Queues
<1> QED
  BY <1>2, <1>5, <1>7, <1>8, <1>9, <1>13, <1>14

-----------------------------------------------------------------------------
(***************************************************************************)
(* Steps of the interrupt handler.                                         *)
(***************************************************************************)

\* The hardware raises a code.
Stirs == BusMoves /\ (twcr.sta \/ twi # "idle" \/ Listens)

\* A slave waits for its event.
Waiting == \E c \in Slaves : pc[c] = "wait"

\* Only threads that wait, and those that are not in the core, see one.
LEMMA StirsIs ==
  ASSUME Assumed, IInv, Stirs
  PROVE  /\ twcr.ie /\ twi \notin {"heldM", "heldS"} /\ ~MasterQuiet
         /\ \A c \in Masters : pc[c] \in {"closed", "open", "lock", "wait", "woken", "end", "release"}
         /\ \A c \in Slaves : pc[c] \in {"closed", "open", "wait"}
         /\ twcr.sta \/ twi \in Transfers => MReady
         /\ S # NULL => SThere /\ Waiting
         /\ ec["slave"] = 0
<1>1. twcr.ie /\ twi \notin {"heldM", "heldS"}
  BY DEF Stirs, BusMoves, IInv, MasterInv, Signals
<1>2. ~MasterQuiet
  BY DEF Stirs, Listens, MasterQuiet
<1>3. ~SlaveQuiet
  BY <1>2 DEF SlaveQuiet, MasterQuiet
<1>4. /\ "race" \notin Faults /\ "lateAddress" \notin Faults
      /\ \A c \in Client : pc[c] \in Stages /\ pc[c] \notin {"update", "add", "started"}
  <2>1. "race" \notin Faults /\ "lateAddress" \notin Faults
    BY DEF Assumed, Survived
  <2> QED
    BY <2>1 DEF Stirs, BusMoves, IInv, Types
<1>5. \A c \in Masters :
        pc[c] \in {"closed", "open", "lock", "wait", "woken", "end", "release"}
  BY <1>1, <1>2, <1>4, ClientsAre DEF IInv, MasterInv, MasterLoops, Stages
<1>6. ASSUME NEW c \in Slaves
      PROVE  pc[c] \in {"closed", "open", "wait"}
  <2>1. pc[c] \in Stages /\ pc[c] \notin {"update", "add", "started", "lock"}
    BY <1>4, ClientsAre DEF IInv, Threads
  <2>2. pc[c] \notin {"loop", "clean", "looked", "resume"}
    BY <1>1, <1>3 DEF IInv, SlaveInv, SlaveLoops, AtDone
  <2>3. ASSUME twi = "idle", pc[c] # "closed" PROVE Listens /\ twcr.ea
    BY <2>3 DEF Stirs, IInv, SlaveInv, SlaveTurn, Listens
  <2>4. ASSUME twi = "idle", pc[c] \notin {"closed", "open"} PROVE ~(rc[c] < 0)
    BY <1>4, <2>3, <2>4 DEF Listens, Slaves
  <2>5. pc[c] \notin {"end", "release"}
    BY <2>3, <2>4 DEF IInv, SlaveInv, SlaveEnds
  <2>6. pc[c] # "woken"
    BY <1>1, <1>3, <2>4 DEF IInv, SlaveInv, SlaveTold, LastSlaveOK
  <2> QED
    BY <2>1, <2>2, <2>5, <2>6 DEF Stages
<1>7. ~Adding
  BY <1>5 DEF Adding
<1>8. twcr.sta \/ twi \in Transfers => MReady
  BY <1>7 DEF IInv, MasterInv, Sends
<1>9. S # NULL => SThere /\ Waiting
  <2>1. ASSUME NEW c \in Slaves, pc[c] = "wait", S # NULL PROVE SThere
    BY <2>1 DEF IInv, SlaveInv, SlaveListens
  <2>2. S # NULL /\ ~Waiting => SlaveQuiet
    BY <1>6 DEF IInv, SlaveInv, SlaveRests, Waiting
  <2> QED
    BY <1>3, <2>1, <2>2 DEF Waiting
<1>10. ec["slave"] = 0
  <2>1. "slave" \in Kinds /\ ec["slave"] \in Nat
    BY DEF IInv, Types, Kinds
  <2>2. ASSUME ec["slave"] > 0 PROVE \E c \in Slaves : pc[c] = "wait"
    <3>1. \E c \in Client : Kind(c) = "slave" /\ pc[c] = "wait"
      BY <2>1, <2>2 DEF IInv, Queues
    <3> QED
      BY <3>1, KindIs
  <2>3. ASSUME NEW c \in Slaves, pc[c] = "wait", ec["slave"] > 0 PROVE FALSE
    BY <1>1, <1>3, <2>3 DEF IInv, SlaveInv, SlaveTold, LastSlaveOK
  <2> QED
    BY <2>1, <2>2, <2>3
<1> QED
  BY <1>1, <1>2, <1>5, <1>6, <1>8, <1>9, <1>10

\* A handler may end messages in the vector and take their call-back.
Touched ==
  /\ UNCHANGED <<vec, msgs, threadVars>>
  /\ msg' \in [Msg -> Features \cup {NULL}]
  /\ \A m \in Msg : msg'[m] = NULL <=> msg[m] = NULL
  /\ \A m \in Msg : msg[m] # NULL =>
       /\ msg'[m].kind = msg[m].kind
       /\ msg[m].done => msg'[m].done
       /\ msg'[m].cb => msg[m].cb
  /\ \A m \in Msg : m \notin InVector => msg'[m] = msg[m]

\* The types of what the interrupt handler changes.
HwTypes ==
  /\ busy \in BOOLEAN
  /\ ptr \in [master : Msg \cup {NULL}, slave : Msg \cup {NULL},
              lastMaster : Msg \cup {NULL}, lastSlave : Msg \cup {NULL}]
  /\ bufferIndex \in Nat
  /\ twcr \in [sta : BOOLEAN, ea : BOOLEAN, ie : BOOLEAN]
  /\ twi \in {"idle", "slaw", "slar", "mt", "mr", "rep", "sr", "st", "heldM", "heldS"}
  /\ ec \in [Kinds -> Nat]

LEMMA ThreadsUnchanged ==
  ASSUME Touched
  PROVE  /\ vec' = vec /\ msgs' = msgs /\ holder' = holder /\ pc' = pc /\ index' = index
         /\ rc' = rc /\ length' = length /\ cur' = cur /\ InVector' = InVector /\ Slots' = Slots
BY DEF Touched, threadVars, InVector, Slots

LEMMA TouchedKeeps ==
  ASSUME Assumed, IInv, Stirs, Touched, HwTypes'
  PROVE  Types' /\ Placed' /\ Threads' /\ Turns'
<1>1. /\ vec' = vec /\ msgs' = msgs /\ holder' = holder /\ pc' = pc /\ index' = index
      /\ rc' = rc /\ length' = length /\ cur' = cur /\ InVector' = InVector
  BY ThreadsUnchanged
<1>2. VectorOK(vec) /\ InVector \in SUBSET Msg
  BY VectorIs DEF IInv, Types
<1>3. Types'
  BY <1>1, <1>2 DEF IInv, Types, HwTypes, Touched
<1>4. Placed'
  BY <1>1, <1>2, HomesSame DEF IInv, Placed, InVector, Touched
<1>5. Threads'
  BY <1>1 DEF IInv, Threads
<1>6. \A m \in InVector : msg'[m].kind = msg[m].kind
  BY <1>2 DEF IInv, Placed, Homes, InVector, Touched
<1>7. \A c \in Client : \A m \in Range(msgs[c]) : m \in Msg /\ msg'[m] = msg[m]
  <2>1. ASSUME NEW c \in Client, NEW m \in Range(msgs[c]) PROVE m \in Msg /\ m \notin InVector
    <3>1. msgs[c] \in Seq(Msg)
      BY DEF IInv, Types
    <3>2. m \in Msg
      BY <3>1, Lists!InRange DEF Range
    <3> QED
      BY <3>2 DEF IInv, Placed, Homes, InVector
  <2> QED
    BY <2>1 DEF Touched
<1>8. \A c \in Client : pc[c] # "add"
  BY ClientsAre, StirsIs DEF Slaves
<1>9. Turns'
  BY <1>1, <1>6, <1>7, <1>8 DEF IInv, Turns
<1> QED
  BY <1>3, <1>4, <1>5, <1>9

\* What a master that waits sees of a step of the bus.
MastersSee ==
  /\ Signals /\ Holds
  /\ twcr.sta \/ twi \in Transfers => MReady

\* What keeps MasterTold in a step of the bus.
MasterToldNext ==
  \/ LastMasterOK'
  \/ ptr'.lastMaster = ptr.lastMaster /\ (ec'["master"] > 0 => ec["master"] > 0)

\* What keeps MasterWaits.
MasterServedNext ==
  (\E c \in Masters : pc[c] = "wait") /\ ec'["master"] = 0 =>
     PendingIn("master")' /\ (twcr'.sta \/ twi' \in Transfers \cup {"rep"} \/ busy')

LEMMA BusKeepsMasters ==
  ASSUME Assumed, IInv, Stirs, Touched, MastersSee', MasterToldNext, MasterServedNext
  PROVE  MasterInv'
<1>1. /\ pc' = pc /\ rc' = rc /\ length' = length /\ InVector' = InVector /\ index' = index
  BY ThreadsUnchanged
<1>2. (Signals /\ Sends /\ Holds)'
  BY DEF MastersSee, Sends
<1>3. \A c \in Masters : pc[c] \in {"closed", "open", "lock", "wait", "woken", "end", "release"}
  BY StirsIs
<1>4. ASSUME LastMasterOK, ptr'.lastMaster = ptr.lastMaster PROVE LastMasterOK'
  <2>1. CASE ptr.lastMaster = NULL
    BY <1>4, <2>1 DEF LastMasterOK
  <2>2. CASE ptr.lastMaster # NULL
    <3>1. ptr.lastMaster \in InVector /\ msg[ptr.lastMaster].done /\ ~msg[ptr.lastMaster].cb
      BY <1>4, <2>2, StirsIs DEF LastMasterOK
    <3>2. ptr.lastMaster \in Msg /\ msg[ptr.lastMaster] # NULL
      BY <3>1, VectorIs DEF IInv, Types, Placed, Homes, InVector
    <3>3. msg'[ptr.lastMaster].done /\ ~msg'[ptr.lastMaster].cb
      BY <3>1, <3>2 DEF Touched
    <3> QED
      BY <1>1, <1>4, <3>1, <3>3 DEF LastMasterOK
  <2> QED
    BY <2>1, <2>2
<1>5. MasterTold'
  <2>1. ec'["master"] > 0 => LastMasterOK'
    BY <1>4 DEF MasterToldNext, IInv, MasterInv, MasterTold
  <2>2. ASSUME NEW c \in Masters, pc[c] = "woken", rc[c] = 0 PROVE LastMasterOK'
    BY <1>4, <2>2 DEF MasterToldNext, IInv, MasterInv, MasterTold
  <2>3. ASSUME NEW c \in Masters, pc[c] = "woken", length[c] > 0 PROVE rc[c] = 0
    BY <2>3 DEF IInv, MasterInv, MasterTold, Resumed
  <2> QED
    BY <1>1, <2>1, <2>2, <2>3 DEF MasterTold, Resumed
<1>6. ASSUME NEW c \in Masters
      PROVE  (MasterLoops(c) /\ MasterWaits(c))'
  <2>1. MasterLoops(c)'
    BY <1>1, <1>3 DEF MasterLoops
  <2>2. MasterWaits(c)'
    <3>1. pc'[c] = pc[c] /\ pc[c] # "started"
      BY <1>1, <1>3
    <3> QED
      BY <3>1 DEF MasterWaits, MasterServedNext
  <2> QED
    BY <2>1, <2>2
<1> QED
  BY <1>2, <1>5, <1>6 DEF MasterInv

\* What the slave that waits sees of it.
SlaveSees ==
  /\ ~twcr.sta /\ twi \in {"idle", "sr", "st", "heldS"}
  /\ S # NULL =>
       /\ SThere /\ (msg[S].done => ~msg[S].cb)
       /\ \A i, j \in Slots : i < j /\ vec.data[j] = S => msg[vec.data[i]].done
  /\ S = NULL => NoPending \/ SlaveQuiet \/ (busy /\ twi = "st")
  /\ (\E c \in Slaves : pc[c] = "wait" /\ Resumed(c)) =>
       S # NULL \/ ptr.lastSlave = NULL \/ ptr.lastSlave \in InVector
  /\ twi = "heldS" => ec["slave"] > 0
  /\ ec["slave"] > 0 => LastSlaveOK

\* And what it must be when it comes to wait.
NobodySees ==
  /\ twi # "heldS"
  /\ S # NULL => SThere /\ SlaveQuiet
  /\ (\E c \in Slaves : pc[c] = "open") => ~twcr.sta /\ twi \in {"idle", "sr", "st"}

LEMMA BusKeepsSlave ==
  ASSUME Assumed, IInv, Stirs, Touched, DoneInOrder', SlaveBusy',
         Waiting => SlaveSees', ~Waiting => NobodySees'
  PROVE  SlaveInv'
<1>1. /\ pc' = pc /\ rc' = rc /\ length' = length /\ vec' = vec
  BY ThreadsUnchanged
<1>2. \A c \in Slaves : pc[c] \in {"closed", "open", "wait"}
  BY StirsIs
<1>4. SlaveHolds' /\ SlaveRests'
  <2>1. CASE Waiting
    BY <1>1, <2>1 DEF Waiting, SlaveHolds, SlaveRests
  <2>2. CASE ~Waiting
    BY <1>1, <2>2 DEF NobodySees, SlaveHolds, SlaveRests
  <2> QED
    BY <2>1, <2>2
<1>5. ASSUME NEW c \in Slaves
      PROVE  (SlaveTurn(c) /\ SlaveListens(c) /\ SlaveTold(c) /\ SlaveLoops(c) /\ SlaveEnds(c))'
  <2>1. pc'[c] = pc[c] /\ length'[c] = length[c]
    BY <1>1
  <2>2. CASE pc[c] = "wait"
    <3>1. SlaveSees'
      BY <2>2 DEF Waiting
    <3>2. length[c] > 0 => length[c] = vec.length
      BY <2>2 DEF IInv, SlaveInv, SlaveListens, Resumed
    <3>3. SlaveTurn(c)' /\ SlaveLoops(c)' /\ SlaveEnds(c)'
      BY <2>1, <2>2, <3>1 DEF SlaveTurn, SlaveLoops, SlaveEnds, SlaveSees
    <3>4. SlaveTold(c)'
      BY <2>1, <2>2, <3>1 DEF SlaveTold, SlaveSees
    <3>5. SlaveListens(c)'
      BY <1>1, <2>1, <2>2, <3>1, <3>2 DEF SlaveListens, SlaveSees, Resumed
    <3> QED
      BY <3>3, <3>4, <3>5
  <2>3. CASE pc[c] # "wait"
    <3>1. pc'[c] \in {"closed", "open"}
      BY <1>2, <2>1, <2>3
    <3>2. pc[c] = "open" => ~twcr'.sta /\ twi' \in {"idle", "sr", "st"}
      <4>1. CASE Waiting
        BY <2>3, <4>1 DEF Waiting, Assumed, OneSlave
      <4>2. CASE ~Waiting
        BY <1>1, <4>2 DEF NobodySees
      <4> QED
        BY <4>1, <4>2
    <3> QED
      BY <2>1, <3>1, <3>2 DEF SlaveTurn, SlaveListens, SlaveTold, SlaveLoops, SlaveEnds
  <2> QED
    BY <2>2, <2>3
<1> QED
  BY <1>4, <1>5 DEF SlaveInv

\* A message keeps its kind.
LEMMA TouchedKinds ==
  ASSUME IInv, Touched
  PROVE  /\ InVector' = InVector
         /\ \A m \in InVector : m \in Msg /\ msg[m] # NULL /\ msg'[m].kind = msg[m].kind
<1>1. InVector' = InVector /\ InVector \in SUBSET Msg
  BY ThreadsUnchanged, VectorIs DEF IInv, Types
<1>2. \A m \in InVector : msg[m] # NULL
  BY DEF IInv, Placed, Homes, InVector
<1> QED
  BY <1>1, <1>2 DEF Touched

LEMMA StepKeeps ==
  ASSUME Assumed, IInv, Stirs, Touched, HwTypes', Queues', MasterInv', SlaveInv'
  PROVE  IInv'
BY TouchedKeeps DEF IInv

\* The bus is a master's.
LEMMA MasterOnBus ==
  ASSUME Assumed, IInv, Stirs, twcr.sta \/ twi \in Transfers
  PROVE  /\ MReady /\ S = NULL /\ ~Waiting /\ NoPending /\ PendingIn("master")
         /\ \A c \in Slaves : pc[c] = "closed"
         /\ \A m \in InVector : msg[m].kind = "master"
<1>1. MReady
  BY StirsIs
<1>2. \A c \in Slaves : pc[c] = "closed"
  BY TheSlavesTurn DEF Transfers
<1>3. \A m \in InVector : msg[m].kind = "master"
  BY <1>1 DEF MReady, IInv, Turns
<1>4. S = NULL /\ ~Waiting
  BY <1>2, StirsIs DEF Waiting
<1> QED
  BY <1>1, <1>2, <1>3, <1>4 DEF NoPending, PendingIn, MReady

LEMMA MasterOnBusKeeps ==
  ASSUME Assumed, IInv, Stirs, twcr.sta \/ twi \in Transfers, Touched, HwTypes', Queues',
         MastersSee', MasterToldNext, MasterServedNext,
         ptr'.slave = NULL, twi' # "heldS", busy' => PendingIn("master")' \/ twi' = "st"
  PROVE  IInv'
<1>1. Types'
  BY TouchedKeeps
<1>2. InVector' = InVector /\ pc' = pc
  BY ThreadsUnchanged
<1>3. \A m \in InVector' : msg'[m].kind = "master"
  BY MasterOnBus, TouchedKinds
<1>4. SlaveInv'
  BY <1>1, <1>2, <1>3, MasterOnBus, MasterTurnKeeps
<1> QED
  BY <1>4, StepKeeps, BusKeepsMasters

LEMMA SameTouched ==
  ASSUME IInv, UNCHANGED <<vec, msgs, threadVars>>, msg' = msg
  PROVE  Touched
BY DEF Touched, IInv, Types

\* A message of the vector ends.
LEMMA MarkedTouched ==
  ASSUME Assumed, IInv, UNCHANGED <<vec, msgs, threadVars>>, NEW m \in InVector, msg' = Marked(msg, {m})
  PROVE  /\ Touched
         /\ msg'[m].done /\ msg'[m].cb = msg[m].cb /\ msg'[m].kind = msg[m].kind
         /\ \A n \in Msg : n # m => msg'[n] = msg[n]
<1>1. m \in Msg /\ msg[m] # NULL
  BY VectorIs DEF IInv, Types, Placed, Homes, InVector
<1>2. msg \in [Msg -> Features \cup {NULL}] /\ msg[m] \in Features
  BY <1>1 DEF IInv, Types
<1>3. msg' = [n \in Msg |-> IF n = m THEN [msg[m] EXCEPT !.done = TRUE] ELSE msg[n]]
  BY DEF Marked
<1>4. \A n \in Msg : n # m => msg'[n] = msg[n]
  BY <1>3
<1>5. msg'[m] = [msg[m] EXCEPT !.done = TRUE]
  BY <1>1, <1>3
<1>6. /\ msg'[m] \in Features /\ msg'[m].done /\ msg'[m].cb = msg[m].cb
      /\ msg'[m].kind = msg[m].kind
  BY <1>2, <1>5 DEF Features
<1>7. msg' \in [Msg -> Features \cup {NULL}]
  BY <1>2, <1>3, <1>4, <1>6
<1>8. NULL \notin Features
  BY DEF Assumed, NullIsApart
<1> QED
  BY <1>1, <1>4, <1>6, <1>7, <1>8 DEF Touched

\* The driver looks at the messages after the step.
LEMMA NextFirst ==
  ASSUME Assumed, IInv, Touched, NEW k
  PROVE  /\ First(vec, msg', k) \in Msg \cup {NULL}
         /\ First(vec, msg', k) = NULL => ~PendingIn(k)'
         /\ First(vec, msg', k) # NULL =>
              /\ First(vec, msg', k) \in InVector'
              /\ msg'[First(vec, msg', k)].kind = k /\ ~msg'[First(vec, msg', k)].done
              /\ PendingIn(k)'
              /\ \A i, j \in Slots : i < j /\ vec.data[j] = First(vec, msg', k)
                                      /\ msg'[vec.data[i]].kind = k => msg'[vec.data[i]].done
<1> DEFINE f == First(vec, msg', k)
<1>1. InVector' = InVector /\ InVector = Entries(vec) /\ InVector \in SUBSET Msg
  BY ThreadsUnchanged, VectorIs DEF InVector, IInv, Types
<1>2. \A m \in Entries(vec) : msg'[m] # NULL
  BY <1>1 DEF IInv, Placed, Homes, Touched
<1>8. VectorOK(vec) /\ NullIsApart /\ NULL \notin Msg
  BY DEF Assumed, IInv, Types
<1>3. /\ f = NULL => \A m \in Entries(vec) : msg'[m].kind = k => msg'[m].done
      /\ f # NULL =>
           /\ f \in Entries(vec) /\ msg'[f].kind = k /\ ~msg'[f].done
           /\ \A i, j \in 0 .. vec.length - 1 :
                i < j /\ vec.data[j] = f /\ msg'[vec.data[i]].kind = k => msg'[vec.data[i]].done
  BY <1>2, <1>8, FirstIs
<1> HIDE DEF f
<1>4. f = NULL => ~PendingIn(k)'
  BY <1>1, <1>3 DEF PendingIn
<1>5. f # NULL => PendingIn(k)'
  BY <1>1, <1>3 DEF PendingIn
<1>6. f \in Msg \cup {NULL} /\ (f # NULL => f \in InVector')
  BY <1>1, <1>3
<1>7. /\ f \in Msg \cup {NULL} /\ (f = NULL => ~PendingIn(k)')
      /\ f # NULL => /\ f \in InVector' /\ msg'[f].kind = k /\ ~msg'[f].done /\ PendingIn(k)'
                     /\ \A i, j \in Slots : i < j /\ vec.data[j] = f /\ msg'[vec.data[i]].kind = k
                                            => msg'[vec.data[i]].done
  BY <1>3, <1>4, <1>5, <1>6 DEF Slots
<1> QED
  BY <1>7 DEF f

\* The pointers of the driver.
PtrTypes ==
  [master : Msg \cup {NULL}, slave : Msg \cup {NULL},
   lastMaster : Msg \cup {NULL}, lastSlave : Msg \cup {NULL}]

LEMMA UpdatedIs ==
  ASSUME NEW p \in PtrTypes, NEW v, NEW ms,
         First(v, ms, "master") \in Msg \cup {NULL}, First(v, ms, "slave") \in Msg \cup {NULL}
  PROVE  /\ Updated(p, v, ms) \in PtrTypes
         /\ Updated(p, v, ms).master = First(v, ms, "master")
         /\ Updated(p, v, ms).slave = First(v, ms, "slave")
         /\ Updated(p, v, ms).lastMaster = p.lastMaster
         /\ Updated(p, v, ms).lastSlave = p.lastSlave
BY DEF Updated, PtrTypes

\* What a handler leaves alone that ends no message.
LEMMA SameMessages ==
  ASSUME IInv, UNCHANGED <<vec, msgs, threadVars>>, msg' = msg
  PROVE  /\ Touched /\ InVector' = InVector /\ Slots' = Slots
         /\ \A k : PendingIn(k)' <=> PendingIn(k)
<1>1. Touched
  BY SameTouched
<1>2. InVector' = InVector /\ Slots' = Slots
  BY <1>1, ThreadsUnchanged
<1> QED
  BY <1>1, <1>2 DEF PendingIn

LEMMA QueuesUnchanged ==
  ASSUME IInv, UNCHANGED eventVars, pc' = pc
  PROVE  Queues' /\ ec' = ec /\ ec' \in [Kinds -> Nat]
BY DEF eventVars, IInv, Queues, Types

LEMMA MasterStartKeeps ==
  ASSUME Assumed, IInv, MasterStart
  PROVE  IInv'
<1>1. Stirs /\ (twcr.sta \/ twi \in Transfers)
  BY DEF MasterStart, Stirs
<1>2. MReady /\ S = NULL /\ PendingIn("master")
  BY <1>1, MasterOnBus
<1>3. UNCHANGED <<vec, msgs, threadVars>> /\ msg' = msg /\ ptr' = ptr /\ UNCHANGED eventVars
  BY DEF MasterStart, IsrKeeps
<1>4. Touched /\ InVector' = InVector /\ PendingIn("master")'
  BY <1>2, <1>3, SameMessages
<1>5. Queues' /\ ec' = ec /\ ec' \in [Kinds -> Nat]
  BY <1>3, <1>4, ThreadsUnchanged, QueuesUnchanged
<1>6. /\ busy' = TRUE /\ twi' \in {"slar", "slaw"} /\ bufferIndex' = 0
      /\ twcr' = [twcr EXCEPT !.sta = FALSE]
  BY DEF MasterStart
<1>7. /\ twcr' \in [sta : BOOLEAN, ea : BOOLEAN, ie : BOOLEAN] /\ ~twcr'.sta /\ (twcr'.ie <=> twcr.ie)
      /\ twcr.ie
  BY <1>1, <1>6, StirsIs DEF IInv, Types
<1>8. HwTypes'
  BY <1>3, <1>5, <1>6, <1>7 DEF HwTypes, IInv, Types
<1>9. MReady'
  BY <1>2, <1>3, <1>4 DEF MReady, M
<1>10. MastersSee'
  BY <1>6, <1>7, <1>9 DEF MastersSee, Signals, Holds, Transfers
<1>11. MasterToldNext /\ MasterServedNext
  BY <1>3, <1>4, <1>5, <1>6 DEF MasterToldNext, MasterServedNext, Transfers
<1> QED
  BY <1>1, <1>2, <1>3, <1>4, <1>5, <1>6, <1>8, <1>10, <1>11, MasterOnBusKeeps DEF S

\* A byte of a master's transfer goes on.
LEMMA MasterByteKeeps ==
  ASSUME Assumed, IInv, BusMoves, twi \in {"slaw", "slar", "mt", "mr"},
         UNCHANGED <<msg, vec, busy, ptr, eventVars>>, IsrKeeps, bufferIndex' \in Nat,
         NEW ea \in BOOLEAN, NEW next \in Transfers, MasterControl(FALSE, ea, next)
  PROVE  IInv'
<1>1. Stirs /\ twi \in Transfers
  BY DEF Stirs, Transfers
<1>2. MReady /\ S = NULL /\ PendingIn("master")
  BY <1>1, MasterOnBus
<1>3. UNCHANGED <<vec, msgs, threadVars>> /\ msg' = msg /\ ptr' = ptr /\ UNCHANGED eventVars
      /\ busy' = busy
  BY DEF IsrKeeps
<1>4. Touched /\ InVector' = InVector /\ PendingIn("master")'
  BY <1>2, <1>3, SameMessages
<1>5. Queues' /\ ec' = ec /\ ec' \in [Kinds -> Nat]
  BY <1>3, <1>4, ThreadsUnchanged, QueuesUnchanged
<1>6. busy /\ ~twcr.sta
  BY <1>1 DEF IInv, MasterInv, Signals
<1>7. twi' = next /\ twcr' = [sta |-> FALSE, ea |-> ea, ie |-> TRUE]
  BY <1>6 DEF MasterControl, Control
<1>8. twcr' \in [sta : BOOLEAN, ea : BOOLEAN, ie : BOOLEAN] /\ ~twcr'.sta /\ twcr'.ie
  BY <1>7
<1>9. HwTypes'
  BY <1>3, <1>5, <1>7, <1>8 DEF HwTypes, IInv, Types, Transfers
<1>10. MReady'
  BY <1>2, <1>3, <1>4 DEF MReady, M
<1>11. MastersSee'
  BY <1>3, <1>6, <1>7, <1>8, <1>10 DEF MastersSee, Signals, Holds, Transfers
<1>12. MasterToldNext /\ MasterServedNext
  BY <1>3, <1>4, <1>5, <1>6 DEF MasterToldNext, MasterServedNext, Transfers
<1>13. twi' # "heldS"
  BY <1>7 DEF Transfers
<1> QED
  BY <1>1, <1>2, <1>3, <1>4, <1>5, <1>9, <1>11, <1>12, <1>13, MasterOnBusKeeps DEF S

\* The message of the transfer ends, and the waiting client is told.
LEMMA MasterStopKeeps ==
  ASSUME Assumed, IInv, BusMoves, twi \in Transfers, UNCHANGED <<vec, bufferIndex>>, IsrKeeps,
         msg' = Marked(msg, {M}), ptr' = Updated([ptr EXCEPT !.lastMaster = M], vec, msg'),
         busy' = FALSE, SignalFromISR({"master"}), Control(FALSE, ptr'.slave # NULL, "idle")
  PROVE  IInv'
<1>1. Stirs
  BY DEF Stirs, Transfers
<1>2. MReady /\ S = NULL /\ \A m \in InVector : msg[m].kind = "master"
  BY <1>1, MasterOnBus
<1>3. UNCHANGED <<vec, msgs, threadVars>>
  BY DEF IsrKeeps
<1>4. M \in InVector /\ M \in Msg /\ M = ptr.master
  BY <1>2, VectorIs DEF MReady, IInv, Types, M
<1>5. Touched /\ msg'[M].done
  BY <1>3, <1>4, MarkedTouched
<1>6. InVector' = InVector /\ pc' = pc
  BY <1>5, ThreadsUnchanged
<1>7. /\ Queues' /\ ec' \in [Kinds -> Nat]
      /\ \A c \in Client : pc[c] = "wait" /\ Kind(c) \in {"master"} => ec'[Kind(c)] > 0
  BY <1>6, SignalIs DEF IInv
<1>8. /\ First(vec, msg', "master") \in Msg \cup {NULL}
      /\ First(vec, msg', "slave") \in Msg \cup {NULL}
  BY <1>5, NextFirst
<1>9. [ptr EXCEPT !.lastMaster = M] \in PtrTypes /\ [ptr EXCEPT !.lastMaster = M].lastMaster = M
  BY <1>4 DEF PtrTypes, IInv, Types
<1>10. ptr' \in PtrTypes /\ ptr'.slave = First(vec, msg', "slave") /\ ptr'.lastMaster = M
  <2> DEFINE p == [ptr EXCEPT !.lastMaster = M]
  <2>1. p \in PtrTypes /\ p.lastMaster = M /\ ptr' = Updated(p, vec, msg')
    BY <1>9
  <2> HIDE DEF p
  <2> QED
    BY <1>8, <2>1, UpdatedIs
<1>11. ptr'.slave = NULL
  <2>1. \A m \in InVector' : msg'[m].kind # "slave"
    BY <1>2, <1>5, TouchedKinds
  <2> QED
    BY <1>5, <1>10, <2>1, NextFirst
<1>12. ~twcr.sta
  BY DEF IInv, MasterInv, Signals
<1>13. twi' = "idle" /\ twcr' = [sta |-> FALSE, ea |-> FALSE, ie |-> TRUE]
  BY <1>11, <1>12 DEF Control
<1>14. twcr' \in [sta : BOOLEAN, ea : BOOLEAN, ie : BOOLEAN] /\ ~twcr'.sta /\ ~twcr'.ea /\ twcr'.ie
  BY <1>13
<1>15. HwTypes'
  BY <1>7, <1>10, <1>13, <1>14 DEF HwTypes, IInv, Types, PtrTypes
<1>16. MastersSee'
  BY <1>13, <1>14 DEF MastersSee, Signals, Holds, Transfers
<1>17. MasterToldNext
  BY <1>4, <1>6, <1>10, <1>13, <1>14 DEF MasterToldNext, LastMasterOK, MasterQuiet
<1>18. MasterServedNext
  BY <1>7, KindIs, ClientsAre DEF MasterServedNext
<1> QED
  BY <1>1, <1>5, <1>7, <1>11, <1>13, <1>15, <1>16, <1>17, <1>18, MasterOnBusKeeps

\* A master's message is left to its call-back.
LEMMA MasterHeldKeeps ==
  ASSUME Assumed, IInv, BusMoves, twi \in Transfers, UNCHANGED <<msg, vec, busy, bufferIndex>>,
         IsrKeeps, ptr' = [ptr EXCEPT !.lastMaster = M], SignalFromISR({"master"}),
         twcr' = [twcr EXCEPT !.ie = FALSE], twi' = "heldM"
  PROVE  IInv'
<1>1. Stirs
  BY DEF Stirs, Transfers
<1>2. MReady /\ S = NULL /\ PendingIn("master")
  BY <1>1, MasterOnBus
<1>3. UNCHANGED <<vec, msgs, threadVars>> /\ msg' = msg
  BY DEF IsrKeeps
<1>4. Touched /\ InVector' = InVector /\ PendingIn("master")' /\ pc' = pc
  BY <1>2, <1>3, SameMessages, ThreadsUnchanged
<1>5. /\ Queues' /\ ec' \in [Kinds -> Nat]
      /\ \A c \in Client : pc[c] = "wait" /\ Kind(c) \in {"master"} => ec'[Kind(c)] > 0
  BY <1>4, SignalIs DEF IInv
<1>6. M \in InVector /\ M \in Msg
  BY <1>2, VectorIs DEF MReady, IInv, Types
<1>7. /\ ptr' \in PtrTypes /\ ptr'.slave = S /\ ptr'.lastMaster = M
  BY <1>6 DEF PtrTypes, IInv, Types, S
<1>8. /\ twcr' \in [sta : BOOLEAN, ea : BOOLEAN, ie : BOOLEAN] /\ (twcr'.sta <=> twcr.sta)
      /\ ~twcr'.ie
  BY DEF IInv, Types
<1>9. busy' /\ ~twcr.sta
  BY DEF IInv, MasterInv, Signals
<1>10. HwTypes'
  BY <1>5, <1>7, <1>8 DEF HwTypes, IInv, Types, PtrTypes
<1>11. MastersSee'
  BY <1>4, <1>8, <1>9 DEF MastersSee, Signals, Holds, Transfers
<1>12. MasterToldNext
  BY <1>4, <1>6, <1>7 DEF MasterToldNext, LastMasterOK
<1>13. MasterServedNext
  BY <1>5, KindIs, ClientsAre DEF MasterServedNext
<1> QED
  BY <1>1, <1>2, <1>4, <1>5, <1>7, <1>10, <1>11, <1>12, <1>13, MasterOnBusKeeps

\* It ends, and the next one follows with a repeated START.
LEMMA MasterNextKeeps ==
  ASSUME Assumed, IInv, BusMoves, twi \in Transfers, UNCHANGED <<vec, bufferIndex>>, IsrKeeps,
         msg' = Marked(msg, {M}), ptr' = Updated([ptr EXCEPT !.lastMaster = M], vec, msg'),
         ptr'.master # NULL, ~msg[M].cb, MasterControl(TRUE, TRUE, "rep"),
         UNCHANGED <<busy, eventVars>>
  PROVE  IInv'
<1>1. Stirs
  BY DEF Stirs, Transfers
<1>2. MReady /\ S = NULL /\ \A m \in InVector : msg[m].kind = "master"
  BY <1>1, MasterOnBus
<1>3. UNCHANGED <<vec, msgs, threadVars>> /\ UNCHANGED eventVars
  BY DEF IsrKeeps
<1>4. M \in InVector /\ M \in Msg /\ M = ptr.master
  BY <1>2, VectorIs DEF MReady, IInv, Types, M
<1>5. Touched /\ msg'[M].done /\ ~msg'[M].cb
  BY <1>3, <1>4, MarkedTouched
<1>6. InVector' = InVector /\ pc' = pc
  BY <1>5, ThreadsUnchanged
<1>7. Queues' /\ ec' = ec /\ ec' \in [Kinds -> Nat]
  BY <1>3, <1>6, QueuesUnchanged
<1>8. /\ First(vec, msg', "master") \in Msg \cup {NULL}
      /\ First(vec, msg', "slave") \in Msg \cup {NULL}
  BY <1>5, NextFirst
<1>9. /\ ptr' \in PtrTypes /\ ptr'.slave = First(vec, msg', "slave") /\ ptr'.lastMaster = M
      /\ ptr'.master = First(vec, msg', "master")
  <2> DEFINE p == [ptr EXCEPT !.lastMaster = M]
  <2>1. p \in PtrTypes /\ p.lastMaster = M /\ ptr' = Updated(p, vec, msg')
    BY <1>4 DEF PtrTypes, IInv, Types
  <2> HIDE DEF p
  <2> QED
    BY <1>8, <2>1, UpdatedIs
<1>10. ptr'.slave = NULL
  <2>1. \A m \in InVector' : msg'[m].kind # "slave"
    BY <1>2, <1>5, TouchedKinds
  <2> QED
    BY <1>5, <1>9, <2>1, NextFirst
<1>11. MReady' /\ PendingIn("master")'
  BY <1>5, <1>9, NextFirst DEF MReady, M
<1>12. busy' /\ ~twcr.sta
  BY DEF IInv, MasterInv, Signals
<1>13. twi' = "rep" /\ twcr' = [sta |-> TRUE, ea |-> TRUE, ie |-> TRUE]
  BY <1>12 DEF MasterControl, Control
<1>14. twcr' \in [sta : BOOLEAN, ea : BOOLEAN, ie : BOOLEAN] /\ twcr'.sta /\ twcr'.ie
  BY <1>13
<1>15. HwTypes'
  BY <1>7, <1>9, <1>12, <1>13, <1>14 DEF HwTypes, IInv, Types, PtrTypes
<1>16. MastersSee'
  BY <1>11, <1>12, <1>13, <1>14 DEF MastersSee, Signals, Holds, Transfers
<1>17. MasterToldNext
  BY <1>4, <1>5, <1>6, <1>9 DEF MasterToldNext, LastMasterOK
<1>18. MasterServedNext
  BY <1>11, <1>14 DEF MasterServedNext
<1> QED
  BY <1>1, <1>5, <1>7, <1>10, <1>11, <1>13, <1>15, <1>16, <1>17, <1>18, MasterOnBusKeeps

LEMMA MasterEndsKeeps ==
  ASSUME Assumed, IInv, BusMoves, twi \in Transfers, MasterEnds, UNCHANGED <<vec, bufferIndex>>,
         IsrKeeps
  PROVE  IInv'
<1>1. MReady /\ M # NULL
  BY MasterOnBus DEF Stirs, Transfers, MReady
<1> DEFINE ms == Marked(msg, {M})
           p == Updated([ptr EXCEPT !.lastMaster = M], vec, ms)
<1>2. \/ /\ ptr' = [ptr EXCEPT !.lastMaster = M] /\ SignalFromISR({"master"})
         /\ twcr' = [twcr EXCEPT !.ie = FALSE] /\ twi' = "heldM" /\ UNCHANGED <<msg, busy>>
      \/ /\ ~msg[M].cb /\ msg' = ms /\ ptr' = p
         /\ IF p.master # NULL
            THEN MasterControl(TRUE, TRUE, "rep") /\ UNCHANGED <<busy, eventVars>>
            ELSE busy' = FALSE /\ Control(FALSE, p.slave # NULL, "idle") /\ SignalFromISR({"master"})
  BY <1>1 DEF MasterEnds
<1> HIDE DEF ms
<1>3. CASE /\ ptr' = [ptr EXCEPT !.lastMaster = M] /\ SignalFromISR({"master"})
           /\ twcr' = [twcr EXCEPT !.ie = FALSE] /\ twi' = "heldM" /\ UNCHANGED <<msg, busy>>
  BY <1>3, MasterHeldKeeps
<1>4. CASE /\ ~msg[M].cb /\ msg' = ms /\ ptr' = p /\ ptr'.master # NULL
           /\ MasterControl(TRUE, TRUE, "rep") /\ UNCHANGED <<busy, eventVars>>
  BY <1>4, MasterNextKeeps DEF ms
<1>5. CASE /\ msg' = ms /\ ptr' = p /\ busy' = FALSE /\ Control(FALSE, ptr'.slave # NULL, "idle")
           /\ SignalFromISR({"master"})
  BY <1>5, MasterStopKeeps DEF ms
<1> QED
  BY <1>2, <1>3, <1>4, <1>5

LEMMA MasterSentKeeps ==
  ASSUME Assumed, IInv, MasterSent
  PROVE  IInv'
<1>1. CASE /\ bufferIndex' = bufferIndex + 1 /\ MasterControl(FALSE, TRUE, "mt")
           /\ UNCHANGED <<msg, busy, ptr, eventVars>>
  <2>1. BusMoves /\ twi \in {"slaw", "slar", "mt", "mr"} /\ IsrKeeps /\ vec' = vec
    BY DEF MasterSent
  <2>2. bufferIndex' \in Nat
    BY <1>1 DEF IInv, Types
  <2>3. "mt" \in Transfers
    BY DEF Transfers
  <2> QED
    BY <1>1, <2>1, <2>2, <2>3, MasterByteKeeps
<1>2. CASE MasterEnds /\ UNCHANGED bufferIndex
  BY <1>2, MasterEndsKeeps DEF MasterSent, Transfers
<1> QED
  BY <1>1, <1>2 DEF MasterSent

LEMMA MasterRefusedKeeps ==
  ASSUME Assumed, IInv, MasterRefused
  PROVE  IInv'
<1>1. twi \in Transfers /\ BusMoves
  BY DEF MasterRefused, Transfers
<1>2. MReady /\ M # NULL
  BY <1>1, MasterOnBus DEF Stirs, Transfers, MReady
<1>3. msg' = Marked(msg, {M}) /\ ptr' = Updated([ptr EXCEPT !.lastMaster = M], vec, msg')
  BY <1>2 DEF MasterRefused
<1>4. /\ busy' = FALSE /\ SignalFromISR({"master"}) /\ Control(FALSE, ptr'.slave # NULL, "idle")
      /\ IsrKeeps /\ UNCHANGED <<vec, bufferIndex>>
  BY DEF MasterRefused
<1> QED
  BY <1>1, <1>3, <1>4, MasterStopKeeps

LEMMA MasterReceivesKeeps ==
  ASSUME Assumed, IInv, MasterReceives
  PROVE  IInv'
<1> DEFINE n == IF twi = "mr" /\ M # NULL /\ bufferIndex < msg[M].len
                THEN bufferIndex + 1 ELSE bufferIndex
           more == M # NULL /\ n + 1 < msg[M].len
<1>1. /\ BusMoves /\ twi \in {"slar", "mr"} /\ bufferIndex' = n
      /\ MasterControl(FALSE, more, "mr") /\ IsrKeeps
      /\ UNCHANGED <<msg, vec, busy, ptr, eventVars>>
  BY DEF MasterReceives
<1>2. n \in Nat
  BY DEF IInv, Types
<1>3. more \in BOOLEAN
  OBVIOUS
<1> HIDE DEF n, more
<1> QED
  BY <1>1, <1>2, <1>3, MasterByteKeeps DEF Transfers

LEMMA MasterReceivedKeeps ==
  ASSUME Assumed, IInv, MasterReceived
  PROVE  IInv'
BY MasterEndsKeeps DEF MasterReceived, Transfers

LEMMA ArbitrationLostKeeps ==
  ASSUME Assumed, IInv, ArbitrationLost
  PROVE  IInv'
<1>1. twi \in Transfers /\ Stirs
  BY DEF ArbitrationLost, Transfers, Stirs
<1>2. MReady /\ S = NULL /\ PendingIn("master")
  BY <1>1, MasterOnBus
<1>3. UNCHANGED <<vec, msgs, threadVars>> /\ msg' = msg /\ ptr' = ptr /\ UNCHANGED eventVars
      /\ bufferIndex' = bufferIndex
  BY DEF ArbitrationLost, IsrKeeps
<1>4. Touched /\ InVector' = InVector /\ PendingIn("master")'
  BY <1>2, <1>3, SameMessages
<1>5. Queues' /\ ec' = ec /\ ec' \in [Kinds -> Nat]
  BY <1>3, <1>4, ThreadsUnchanged, QueuesUnchanged
<1>6. busy' = FALSE /\ twi' = "idle" /\ twcr' = [twcr EXCEPT !.sta = TRUE]
  BY DEF ArbitrationLost
<1>7. /\ twcr' \in [sta : BOOLEAN, ea : BOOLEAN, ie : BOOLEAN] /\ twcr'.sta /\ (twcr'.ie <=> twcr.ie)
      /\ twcr.ie
  BY <1>1, <1>6, StirsIs DEF IInv, Types
<1>8. HwTypes'
  BY <1>3, <1>5, <1>6, <1>7 DEF HwTypes, IInv, Types
<1>9. MReady'
  BY <1>2, <1>3, <1>4 DEF MReady, M
<1>10. MastersSee'
  BY <1>6, <1>7, <1>9 DEF MastersSee, Signals, Holds, Transfers
<1>11. MasterToldNext /\ MasterServedNext
  BY <1>3, <1>4, <1>5, <1>7 DEF MasterToldNext, MasterServedNext
<1> QED
  BY <1>1, <1>2, <1>3, <1>4, <1>5, <1>6, <1>8, <1>10, <1>11, MasterOnBusKeeps DEF S

\* A byte of the slave's transfer, or its address: no message is done.
LEMMA SlaveByteKeeps ==
  ASSUME Assumed, IInv, Stirs, UNCHANGED <<vec, ptr, eventVars>>, IsrKeeps, Touched,
         \A m \in InVector : (msg'[m].done <=> msg[m].done) /\ (msg'[m].cb <=> msg[m].cb),
         bufferIndex' \in Nat, busy' \in BOOLEAN, NEW ea, ea \in BOOLEAN, NEW next,
         Control(FALSE, ea, next), next \in {"idle", "sr", "st"}, twi = "st" => next = "st",
         busy => busy', busy' => busy \/ next = "st" \/ S # NULL
  PROVE  IInv'
<1>1. /\ pc' = pc /\ rc' = rc /\ length' = length /\ vec' = vec /\ InVector' = InVector
      /\ Slots' = Slots /\ ptr' = ptr /\ UNCHANGED eventVars
  BY ThreadsUnchanged
<1>2. Queues' /\ ec' = ec /\ ec' \in [Kinds -> Nat]
  BY <1>1, QueuesUnchanged
<1>3. \A m \in InVector : msg'[m].kind = msg[m].kind
  BY TouchedKinds
<1>4. \A k : PendingIn(k)' <=> PendingIn(k)
  BY <1>1, <1>3 DEF PendingIn
<1>5. \A i \in Slots : vec.data[i] \in InVector
  BY VectorIs DEF IInv, Types
<1>6. twi' = next /\ twcr' = [sta |-> twcr.sta, ea |-> ea, ie |-> TRUE]
  BY DEF Control, IInv, Types
<1>7. /\ twcr' \in [sta : BOOLEAN, ea : BOOLEAN, ie : BOOLEAN] /\ (twcr'.sta <=> twcr.sta)
      /\ twcr'.ie
  BY <1>6 DEF IInv, Types
<1>8. HwTypes'
  BY <1>1, <1>2, <1>6, <1>7 DEF HwTypes, IInv, Types
<1>9. MReady => MReady'
  BY <1>1, <1>3 DEF MReady, M
<1>10. MastersSee'
  BY <1>6, <1>7, <1>9, StirsIs DEF MastersSee, Signals, Holds, Transfers
<1>11. MasterToldNext
  BY <1>1, <1>2 DEF MasterToldNext
<1>12. MasterServedNext
  <2>1. ASSUME NEW c \in Masters, pc[c] = "wait", ec["master"] = 0
        PROVE  PendingIn("master")' /\ (twcr'.sta \/ busy')
    <3>1. PendingIn("master") /\ (twcr.sta \/ twi \in Transfers \cup {"rep"} \/ busy)
      BY <2>1 DEF IInv, MasterInv, MasterWaits
    <3>2. twi \in Transfers \cup {"rep"} => busy
      BY DEF IInv, MasterInv, Signals
    <3> QED
      BY <1>4, <1>7, <3>1, <3>2
  <2> QED
    BY <1>2, <2>1 DEF MasterServedNext
<1>13. MasterInv'
  BY <1>10, <1>11, <1>12, BusKeepsMasters
<1>14. DoneInOrder'
  <2>1. DoneInOrder
    BY DEF IInv, SlaveInv
  <2> QED
    BY <1>1, <1>3, <1>5, <2>1 DEF DoneInOrder
<1>15. S' = S /\ (S # NULL => SThere /\ SThere' /\ Waiting)
  BY <1>1, <1>3, StirsIs DEF S, SThere
<1>16. SlaveBusy'
  <2>1. busy => PendingIn("master") \/ twi = "st" \/ S # NULL
    BY StirsIs DEF IInv, SlaveInv, SlaveBusy
  <2> QED
    BY <1>4, <1>6, <1>15, <2>1 DEF SlaveBusy
<1>17. ASSUME Waiting PROVE SlaveSees'
  <2>1. PICK c \in Slaves : pc[c] = "wait"
    BY <1>17 DEF Waiting
  <2>2. ~twcr.sta
    BY <2>1, TheSlavesTurn
  <2>3. ASSUME S # NULL
        PROVE  /\ SThere' /\ (msg'[S].done => ~msg'[S].cb)
               /\ \A i, j \in Slots : i < j /\ vec.data[j] = S => msg'[vec.data[i]].done
    <3>1. /\ S \in InVector /\ (msg[S].done => ~msg[S].cb)
          /\ \A i, j \in Slots : i < j /\ vec.data[j] = S => msg[vec.data[i]].done
      BY <2>1, <2>3 DEF IInv, SlaveInv, SlaveListens, SThere
    <3> QED
      BY <1>5, <1>15, <2>3, <3>1
  <2>4. ASSUME S = NULL PROVE NoPending' \/ (busy' /\ twi' = "st")
    <3>1. NoPending \/ (busy /\ twi = "st")
      BY <2>1, <2>4, StirsIs DEF IInv, SlaveInv, SlaveListens, SlaveQuiet, MasterQuiet
    <3> QED
      BY <1>4, <1>6, <3>1 DEF NoPending
  <2>5. (\E d \in Slaves : pc[d] = "wait" /\ Resumed(d)) =>
           S # NULL \/ ptr.lastSlave = NULL \/ ptr.lastSlave \in InVector
    BY DEF IInv, SlaveInv, SlaveListens
  <2>6. (\E d \in Slaves : pc[d] = "wait" /\ Resumed(d))'
           => (\E d \in Slaves : pc[d] = "wait" /\ Resumed(d))
    BY <1>1 DEF Resumed
  <2>7. ~(ec'["slave"] > 0)
    BY <1>2, StirsIs
  <2>8. ~twcr'.sta /\ twi' \in {"idle", "sr", "st"} /\ twi' # "heldS"
    BY <1>6, <1>7, <2>2
  <2> QED
    BY <1>1, <1>15, <2>3, <2>4, <2>5, <2>6, <2>7, <2>8 DEF SlaveSees
<1>18. ASSUME ~Waiting PROVE NobodySees'
  <2>1. S' = NULL
    BY <1>15, <1>18
  <2>2. (\E c \in Slaves : pc'[c] = "open") => ~twcr'.sta
    BY <1>1, <1>7, TheSlavesTurn
  <2> QED
    BY <1>6, <2>1, <2>2 DEF NobodySees
<1> QED
  BY <1>2, <1>8, <1>13, <1>14, <1>16, <1>17, <1>18, BusKeepsSlave, StepKeeps

LEMMA SlaveReceivesKeeps ==
  ASSUME Assumed, IInv, SlaveReceives
  PROVE  IInv'
<1> DEFINE more == S # NULL /\ msg[S].len > 0
<1>1. /\ Stirs /\ twi # "st" /\ UNCHANGED <<vec, ptr, eventVars>> /\ IsrKeeps
      /\ bufferIndex' = 0 /\ busy' = (busy \/ more) /\ Control(FALSE, more, "sr") /\ msg' = msg
  BY DEF SlaveReceives, Addressed, Stirs, Listens
<1>2. Touched
  BY <1>1, SameTouched DEF IsrKeeps
<1>3. busy' \in BOOLEAN /\ more \in BOOLEAN /\ bufferIndex' \in Nat
  BY <1>1 DEF IInv, Types
<1>4. (busy => busy') /\ (busy' => busy \/ S # NULL)
  BY <1>1
<1> HIDE DEF more
<1> QED
  BY <1>1, <1>2, <1>3, <1>4, SlaveByteKeeps

LEMMA SlaveSendsKeeps ==
  ASSUME Assumed, IInv, SlaveSends
  PROVE  IInv'
<1> DEFINE ea == S # NULL /\ 0 < msg[S].len /\ 0 + 1 < msg[S].len
<1>1. /\ Stirs /\ UNCHANGED <<vec, ptr, eventVars>> /\ IsrKeeps
      /\ busy' = TRUE /\ bufferIndex' \in {0, 0 + 1} /\ msg' = msg
  BY DEF SlaveSends, Addressed, Stirs, SendByte
<1>2. Control(FALSE, ea, "st")
  BY DEF SlaveSends, SendByte, Control
<1>3. Touched
  BY <1>1, SameTouched DEF IsrKeeps
<1>4. ea \in BOOLEAN /\ busy' \in BOOLEAN /\ bufferIndex' \in Nat
  BY <1>1
<1> HIDE DEF ea
<1> QED
  BY <1>1, <1>2, <1>3, <1>4, SlaveByteKeeps

LEMMA SlaveSentByteKeeps ==
  ASSUME Assumed, IInv, SlaveSentByte
  PROVE  IInv'
<1> DEFINE ea == S # NULL /\ bufferIndex < msg[S].len /\ bufferIndex + 1 < msg[S].len
<1>1. /\ Stirs /\ twi = "st" /\ UNCHANGED <<vec, ptr, eventVars>> /\ IsrKeeps
      /\ busy' = busy /\ bufferIndex' \in {bufferIndex, bufferIndex + 1} /\ msg' = msg
  BY DEF SlaveSentByte, Stirs, SendByte
<1>2. Control(FALSE, ea, "st")
  BY DEF SlaveSentByte, SendByte, Control
<1>3. Touched
  BY <1>1, SameTouched DEF IsrKeeps
<1>4. ea \in BOOLEAN /\ busy' \in BOOLEAN /\ bufferIndex' \in Nat
  BY <1>1 DEF IInv, Types
<1> HIDE DEF ea
<1> QED
  BY <1>1, <1>2, <1>3, <1>4, SlaveByteKeeps

LEMMA SlaveRefusedByteKeeps ==
  ASSUME Assumed, IInv, SlaveRefusedByte
  PROVE  IInv'
<1>1. /\ Stirs /\ twi = "sr" /\ UNCHANGED <<vec, ptr, eventVars>> /\ IsrKeeps
      /\ busy' = busy /\ bufferIndex' = bufferIndex /\ msg' = msg /\ Control(FALSE, FALSE, "idle")
  BY DEF SlaveRefusedByte, Stirs
<1>2. Touched
  BY <1>1, SameTouched DEF IsrKeeps
<1>3. FALSE \in BOOLEAN /\ busy' \in BOOLEAN /\ bufferIndex' \in Nat
  BY <1>1 DEF IInv, Types
<1> QED
  BY <1>1, <1>2, <1>3, SlaveByteKeeps

\* A byte too many: the message keeps all but its length.
LEMMA OverrunTouched ==
  ASSUME Assumed, IInv, UNCHANGED <<vec, msgs, threadVars>>, NEW m \in InVector,
         msg' = [msg EXCEPT ![m].len = 0]
  PROVE  /\ Touched
         /\ \A n \in InVector : (msg'[n].done <=> msg[n].done) /\ (msg'[n].cb <=> msg[n].cb)
<1>1. InVector \in SUBSET Msg /\ \A n \in InVector : msg[n] # NULL
  BY VectorIs DEF IInv, Types, Placed, Homes, InVector
<1>2. msg \in [Msg -> Features \cup {NULL}] /\ msg[m] \in Features /\ m \in Msg
  BY <1>1 DEF IInv, Types
<1>3. msg'[m] = [msg[m] EXCEPT !.len = 0] /\ \A n \in Msg : n # m => msg'[n] = msg[n]
  BY <1>2
<1>4. /\ msg'[m] \in Features /\ msg'[m].done = msg[m].done /\ msg'[m].cb = msg[m].cb
      /\ msg'[m].kind = msg[m].kind
  BY <1>2, <1>3 DEF Features
<1>5. msg' \in [Msg -> Features \cup {NULL}]
  BY <1>2, <1>3, <1>4
<1>6. NULL \notin Features
  BY DEF Assumed, NullIsApart
<1> QED
  BY <1>1, <1>2, <1>3, <1>4, <1>5, <1>6 DEF Touched

LEMMA SlaveReceivedByteKeeps ==
  ASSUME Assumed, IInv, SlaveReceivedByte
  PROVE  IInv'
<1>1. /\ Stirs /\ twi = "sr" /\ UNCHANGED <<vec, ptr, eventVars>> /\ IsrKeeps /\ busy' = busy
      /\ UNCHANGED <<vec, msgs, threadVars>>
  BY DEF SlaveReceivedByte, Stirs, IsrKeeps
<1>2. busy' \in BOOLEAN /\ TRUE \in BOOLEAN /\ FALSE \in BOOLEAN
  BY <1>1 DEF IInv, Types
<1>3. CASE msg' = msg
  <2>1. Touched
    BY <1>1, <1>3, SameTouched
  <2>2. PICK ea \in BOOLEAN : Control(FALSE, ea, "sr")
    BY <1>2 DEF SlaveReceivedByte
  <2>3. bufferIndex' \in Nat
    <3>1. bufferIndex' \in {bufferIndex, bufferIndex + 1}
      BY DEF SlaveReceivedByte
    <3>2. bufferIndex \in Nat
      BY DEF IInv, Types
    <3> QED
      BY <3>1, <3>2
  <2> QED
    BY <1>1, <1>2, <1>3, <2>1, <2>2, <2>3, SlaveByteKeeps
<1>4. CASE /\ S # NULL /\ msg' = [msg EXCEPT ![S].len = 0] /\ Control(FALSE, FALSE, "sr")
           /\ UNCHANGED bufferIndex
  <2>1. S \in InVector
    BY <1>1, <1>4, StirsIs DEF SThere
  <2>2. /\ Touched
        /\ \A n \in InVector : (msg'[n].done <=> msg[n].done) /\ (msg'[n].cb <=> msg[n].cb)
    BY <1>1, <1>4, <2>1, OverrunTouched
  <2>3. bufferIndex' \in Nat
    BY <1>4 DEF IInv, Types
  <2> QED
    BY <1>1, <1>2, <1>4, <2>2, <2>3, SlaveByteKeeps
<1> QED
  BY <1>3, <1>4 DEF SlaveReceivedByte

LEMMA BusErrorKeeps ==
  ASSUME Assumed, IInv, BusError
  PROVE  IInv'
<1>1. Stirs
  BY DEF BusError, Stirs
<1>2. UNCHANGED <<vec, msgs, threadVars>> /\ msg' = msg
  BY DEF BusError, IsrKeeps
<1>3. /\ Touched /\ InVector' = InVector /\ Slots' = Slots /\ pc' = pc /\ vec' = vec
      /\ \A k : PendingIn(k)' <=> PendingIn(k)
  BY <1>2, SameMessages, ThreadsUnchanged
<1>4. /\ Queues' /\ ec' \in [Kinds -> Nat]
      /\ \A c \in Client : pc[c] = "wait" /\ Kind(c) \in Kinds => ec'[Kind(c)] > 0
  BY <1>3, SignalIs DEF IInv, BusError
<1>5. ptr' = [ptr EXCEPT !.lastMaster = NULL, !.lastSlave = NULL]
  BY DEF BusError
<1>6. /\ ptr' \in PtrTypes /\ ptr'.master = ptr.master /\ ptr'.slave = ptr.slave
      /\ ptr'.lastMaster = NULL /\ ptr'.lastSlave = NULL
  BY <1>5 DEF PtrTypes, IInv, Types
<1>7. twi' = "idle" /\ busy' = FALSE /\ twcr' = [sta |-> twcr.sta, ea |-> FALSE, ie |-> TRUE]
  BY DEF BusError, Control, IInv, Types
<1>8. /\ twcr' \in [sta : BOOLEAN, ea : BOOLEAN, ie : BOOLEAN] /\ (twcr'.sta <=> twcr.sta)
      /\ ~twcr'.ea /\ twcr'.ie
  BY <1>7 DEF IInv, Types
<1>9. HwTypes'
  BY <1>4, <1>6, <1>7, <1>8 DEF HwTypes, IInv, Types, PtrTypes, BusError
<1>10. twcr'.sta => MReady'
  BY <1>1, <1>2, <1>3, <1>6, <1>8, StirsIs DEF MReady, M
<1>11. MastersSee'
  BY <1>7, <1>8, <1>10 DEF MastersSee, Signals, Holds, Transfers
<1>12. MasterToldNext
  BY <1>6 DEF MasterToldNext, LastMasterOK
<1>13. MasterServedNext
  BY <1>4, KindIs, ClientsAre DEF MasterServedNext
<1>14. MasterInv'
  BY <1>1, <1>3, <1>11, <1>12, <1>13, BusKeepsMasters
<1>15. DoneInOrder'
  <2>1. DoneInOrder
    BY DEF IInv, SlaveInv
  <2> QED
    BY <1>2, <1>3, <2>1 DEF DoneInOrder
<1>16. SlaveBusy'
  BY <1>7 DEF SlaveBusy
<1>17. ASSUME Waiting PROVE SlaveSees'
  <2>1. PICK c \in Slaves : pc[c] = "wait"
    BY <1>17 DEF Waiting
  <2>2. ~twcr.sta
    BY <2>1, TheSlavesTurn
  <2>3. SlaveQuiet'
    BY <1>7, <1>8, <2>2 DEF SlaveQuiet
  <2>4. S # NULL =>
          /\ SThere /\ (msg[S].done => ~msg[S].cb)
          /\ \A i, j \in Slots : i < j /\ vec.data[j] = S => msg[vec.data[i]].done
    BY <2>1 DEF IInv, SlaveInv, SlaveListens
  <2>5. S' = S /\ (SThere' <=> SThere)
    BY <1>2, <1>3, <1>6 DEF S, SThere
  <2>6. LastSlaveOK'
    BY <1>6, <2>3 DEF LastSlaveOK
  <2> QED
    BY <1>2, <1>3, <1>6, <1>7, <1>8, <2>2, <2>3, <2>4, <2>5, <2>6 DEF SlaveSees
<1>18. ASSUME ~Waiting PROVE NobodySees'
  <2>1. S' = NULL
    BY <1>1, <1>6, <1>18, StirsIs DEF S
  <2>2. (\E c \in Slaves : pc'[c] = "open") => ~twcr'.sta
    BY <1>3, <1>8, TheSlavesTurn
  <2> QED
    BY <1>7, <2>1, <2>2 DEF NobodySees
<1> QED
  BY <1>1, <1>3, <1>4, <1>9, <1>14, <1>15, <1>16, <1>17, <1>18, BusKeepsSlave, StepKeeps

\* The bus is the slave's, who waits.
LEMMA SlaveOnBus ==
  ASSUME Assumed, IInv, Stirs, S # NULL
  PROVE  /\ Waiting /\ S \in InVector /\ msg[S].kind = "slave" /\ (msg[S].done => ~msg[S].cb)
         /\ \A d \in Masters : pc[d] = "closed"
         /\ \A m \in InVector : msg[m].kind = "slave"
         /\ ~twcr.sta
         /\ \A i, j \in Slots : i < j /\ vec.data[j] = S => msg[vec.data[i]].done
         /\ \A i, j \in Slots : i < j /\ msg[vec.data[j]].done => msg[vec.data[i]].done
         /\ \A c \in Client : pc[c] = "wait" => c \in Slaves
<1>1. Waiting /\ SThere
  BY StirsIs
<1>2. PICK c \in Slaves : pc[c] = "wait"
  BY <1>1 DEF Waiting
<1>3. /\ \A d \in Masters : pc[d] = "closed"
      /\ \A m \in InVector : msg[m].kind = "slave"
      /\ ~twcr.sta
      /\ \A i, j \in Slots : i < j /\ msg[vec.data[j]].done => msg[vec.data[i]].done
  BY <1>2, TheSlavesTurn
<1>4. /\ msg[S].done => ~msg[S].cb
      /\ \A i, j \in Slots : i < j /\ vec.data[j] = S => msg[vec.data[i]].done
  BY <1>2 DEF IInv, SlaveInv, SlaveListens
<1>5. \A d \in Client : pc[d] = "wait" => d \in Slaves
  BY <1>3 DEF Slaves
<1> QED
  BY <1>1, <1>3, <1>4, <1>5 DEF SThere

LEMMA SlaveOnBusKeeps ==
  ASSUME Assumed, IInv, Stirs, S # NULL, Touched, HwTypes', Queues',
         twi' = "heldS" <=> ~twcr'.ie, DoneInOrder', SlaveBusy', SlaveSees'
  PROVE  IInv'
<1>1. Types' /\ pc' = pc
  BY TouchedKeeps, ThreadsUnchanged
<1>2. MasterInv'
  BY <1>1, SlaveOnBus, SlaveTurnKeeps DEF SlaveSees
<1> QED
  BY <1>2, SlaveOnBus, BusKeepsSlave, StepKeeps

\* The slave's message is left to its call-back.
LEMMA SlaveHeldKeeps ==
  ASSUME Assumed, IInv, BusMoves, twi \in {"sr", "st"}, UNCHANGED <<msg, vec, busy, bufferIndex>>,
         IsrKeeps, S # NULL, msg[S].cb, ptr' = [ptr EXCEPT !.lastSlave = S],
         SignalFromISR({"slave"}), twcr' = [twcr EXCEPT !.ie = FALSE], twi' = "heldS"
  PROVE  IInv'
<1>1. Stirs
  BY DEF Stirs
<1>2. UNCHANGED <<vec, msgs, threadVars>> /\ msg' = msg
  BY DEF IsrKeeps
<1>3. /\ Touched /\ InVector' = InVector /\ Slots' = Slots /\ pc' = pc /\ vec' = vec
  BY <1>2, SameMessages, ThreadsUnchanged
<1>4. /\ Queues' /\ ec' \in [Kinds -> Nat]
      /\ \A c \in Client : pc[c] = "wait" /\ Kind(c) \in {"slave"} => ec'[Kind(c)] > 0
  BY <1>3, SignalIs DEF IInv
<1>5. /\ Waiting /\ S \in InVector /\ S \in Msg /\ msg[S].kind = "slave" /\ ~msg[S].done
      /\ ~twcr.sta
      /\ \A i, j \in Slots : i < j /\ vec.data[j] = S => msg[vec.data[i]].done
  BY <1>1, SlaveOnBus, VectorIs DEF IInv, Types
<1>6. /\ ptr' \in PtrTypes /\ ptr'.slave = S /\ ptr'.lastSlave = S
  BY <1>5 DEF PtrTypes, IInv, Types, S
<1>7. S' = S
  BY <1>6 DEF S
<1>8. /\ twcr' \in [sta : BOOLEAN, ea : BOOLEAN, ie : BOOLEAN] /\ (twcr'.sta <=> twcr.sta)
      /\ ~twcr'.ie
  BY DEF IInv, Types
<1>9. HwTypes'
  BY <1>4, <1>6, <1>8 DEF HwTypes, IInv, Types, PtrTypes
<1>10. DoneInOrder'
  BY <1>2, <1>3 DEF IInv, SlaveInv, DoneInOrder
<1>11. SlaveBusy'
  BY DEF SlaveBusy
<1>12. ec'["slave"] > 0
  BY <1>4, <1>5, KindIs, ClientsAre DEF Waiting
<1>13. LastSlaveOK'
  BY <1>2, <1>3, <1>5, <1>6, <1>7 DEF LastSlaveOK
<1>14. SlaveSees'
  BY <1>2, <1>3, <1>5, <1>7, <1>8, <1>12, <1>13 DEF SlaveSees, SThere
<1> QED
  BY <1>1, <1>3, <1>4, <1>8, <1>9, <1>10, <1>11, <1>14, SlaveOnBusKeeps

\* The slave's message ends.
LEMMA SlaveMarked ==
  ASSUME Assumed, IInv, Stirs, S # NULL, UNCHANGED <<vec, msgs, threadVars>>, ~msg[S].cb,
         msg' = Marked(msg, {S}), ptr' = Updated([ptr EXCEPT !.lastSlave = S], vec, msg')
  PROVE  /\ Touched /\ S \in InVector /\ ~msg'[S].cb
         /\ ptr' \in PtrTypes /\ ptr'.master = NULL /\ ptr'.slave = First(vec, msg', "slave")
         /\ ptr'.lastSlave = S
         /\ DoneInOrder' /\ \A m \in InVector : msg'[m].kind = "slave"
<1>1. /\ S \in InVector /\ \A m \in InVector : msg[m].kind = "slave"
      /\ \A i, j \in Slots : i < j /\ vec.data[j] = S => msg[vec.data[i]].done
      /\ \A i, j \in Slots : i < j /\ msg[vec.data[j]].done => msg[vec.data[i]].done
  BY SlaveOnBus
<1>2. S \in Msg /\ \A i \in Slots : vec.data[i] \in InVector /\ vec.data[i] \in Msg
  BY <1>1, VectorIs DEF IInv, Types
<1>3. /\ Touched /\ msg'[S].done /\ ~msg'[S].cb
      /\ \A n \in Msg : n # S => msg'[n] = msg[n]
  BY <1>1, MarkedTouched
<1>4. InVector' = InVector /\ Slots' = Slots /\ vec' = vec
  BY <1>3, ThreadsUnchanged
<1>5. \A m \in InVector : msg'[m].kind = "slave"
  BY <1>1, <1>3, TouchedKinds
<1>6. /\ First(vec, msg', "master") = NULL /\ First(vec, msg', "slave") \in Msg \cup {NULL}
  BY <1>3, <1>4, <1>5, NextFirst
<1>7. /\ ptr' \in PtrTypes /\ ptr'.slave = First(vec, msg', "slave") /\ ptr'.lastSlave = S
      /\ ptr'.master = First(vec, msg', "master")
  <2> DEFINE p == [ptr EXCEPT !.lastSlave = S]
  <2>1. p \in PtrTypes /\ p.lastSlave = S /\ ptr' = Updated(p, vec, msg')
    BY <1>2 DEF PtrTypes, IInv, Types
  <2> HIDE DEF p
  <2> QED
    BY <1>6, <2>1, UpdatedIs
<1>8. DoneInOrder'
  <2>1. ASSUME NEW i \in Slots, NEW j \in Slots, i < j, msg'[vec.data[j]].done
        PROVE  msg'[vec.data[i]].done
    <3>1. CASE vec.data[i] = S
      BY <1>3, <3>1
    <3>2. CASE vec.data[i] # S
      <4>1. msg[vec.data[i]].done
        BY <1>1, <1>2, <1>3, <2>1
      <4> QED
        BY <1>2, <1>3, <3>2, <4>1
    <3> QED
      BY <3>1, <3>2
  <2> QED
    BY <1>4, <2>1 DEF DoneInOrder
<1> QED
  BY <1>1, <1>3, <1>5, <1>6, <1>7, <1>8

LEMMA SlaveNextKeeps ==
  ASSUME Assumed, IInv, BusMoves, twi \in {"sr", "st"}, UNCHANGED <<vec, bufferIndex>>,
         IsrKeeps, S # NULL, ~msg[S].cb,
         msg' = Marked(msg, {S}), ptr' = Updated([ptr EXCEPT !.lastSlave = S], vec, msg'),
         ptr'.slave # NULL, Control(FALSE, TRUE, "idle"), UNCHANGED <<busy, eventVars>>
  PROVE  IInv'
<1>1. Stirs
  BY DEF Stirs
<1>2. UNCHANGED <<vec, msgs, threadVars>> /\ UNCHANGED eventVars
  BY DEF IsrKeeps
<1>3. /\ Touched /\ S \in InVector /\ ~msg'[S].cb
      /\ ptr' \in PtrTypes /\ ptr'.slave = First(vec, msg', "slave") /\ ptr'.lastSlave = S
      /\ DoneInOrder' /\ \A m \in InVector : msg'[m].kind = "slave"
  BY <1>1, <1>2, SlaveMarked
<1>4. InVector' = InVector /\ Slots' = Slots /\ vec' = vec /\ pc' = pc
  BY <1>3, ThreadsUnchanged
<1>5. Queues' /\ ec' = ec /\ ec' \in [Kinds -> Nat]
  BY <1>2, <1>4, QueuesUnchanged
<1>6. ~twcr.sta /\ Waiting
  BY <1>1, SlaveOnBus
<1>7. twi' = "idle" /\ twcr' = [sta |-> FALSE, ea |-> TRUE, ie |-> TRUE]
  BY <1>6 DEF Control
<1>8. /\ twcr' \in [sta : BOOLEAN, ea : BOOLEAN, ie : BOOLEAN] /\ ~twcr'.sta /\ twcr'.ie
  BY <1>7
<1>9. HwTypes'
  BY <1>3, <1>5, <1>7, <1>8 DEF HwTypes, IInv, Types, PtrTypes
<1>10. /\ S' # NULL /\ SThere' /\ ~msg'[S'].done
       /\ \A i, j \in Slots : i < j /\ vec.data[j] = S' => msg'[vec.data[i]].done
  <2>1. S' = First(vec, msg', "slave") /\ S' # NULL
    BY <1>3 DEF S
  <2>2. \A i \in Slots : vec.data[i] \in InVector
    BY VectorIs DEF IInv, Types
  <2> QED
    BY <1>3, <2>1, <2>2, NextFirst DEF SThere
<1>11. SlaveBusy'
  BY <1>10 DEF SlaveBusy
<1>12. ec'["slave"] = 0
  BY <1>1, <1>5, StirsIs
<1>13. SlaveSees'
  <2>1. ~twcr'.sta /\ twi' = "idle"
    BY <1>7
  <2>2. ~(ec'["slave"] > 0)
    BY <1>12
  <2>3. \A i, j \in Slots' : i < j /\ vec'.data[j] = S' => msg'[vec'.data[i]].done
    BY <1>4, <1>10
  <2> QED
    BY <1>10, <2>1, <2>2, <2>3 DEF SlaveSees
<1>14. twi' # "heldS" /\ twcr'.ie
  BY <1>7, <1>8
<1> QED
  BY <1>1, <1>3, <1>5, <1>9, <1>11, <1>13, <1>14, SlaveOnBusKeeps

LEMMA SlaveEndsKeeps ==
  ASSUME Assumed, IInv, BusMoves, twi \in {"sr", "st"}, UNCHANGED <<vec, bufferIndex>>,
         IsrKeeps, S # NULL, ~msg[S].cb,
         msg' = Marked(msg, {S}), ptr' = Updated([ptr EXCEPT !.lastSlave = S], vec, msg'),
         ptr'.slave = NULL, busy' = FALSE, SignalFromISR({"slave"}),
         Control(ptr'.master # NULL, S # NULL /\ ptr'.master # NULL, "idle")
  PROVE  IInv'
<1>1. Stirs
  BY DEF Stirs
<1>2. UNCHANGED <<vec, msgs, threadVars>>
  BY DEF IsrKeeps
<1>3. /\ Touched /\ S \in InVector /\ ~msg'[S].cb
      /\ ptr' \in PtrTypes /\ ptr'.slave = First(vec, msg', "slave") /\ ptr'.lastSlave = S
      /\ ptr'.master = NULL
      /\ DoneInOrder' /\ \A m \in InVector : msg'[m].kind = "slave"
  BY <1>1, <1>2, SlaveMarked
<1>4. InVector' = InVector /\ Slots' = Slots /\ vec' = vec /\ pc' = pc
  BY <1>3, ThreadsUnchanged
<1>5. /\ Queues' /\ ec' \in [Kinds -> Nat]
      /\ \A c \in Client : pc[c] = "wait" /\ Kind(c) \in {"slave"} => ec'[Kind(c)] > 0
  BY <1>4, SignalIs DEF IInv
<1>6. ~twcr.sta /\ Waiting
  BY <1>1, SlaveOnBus
<1>7. twi' = "idle" /\ twcr' = [sta |-> FALSE, ea |-> FALSE, ie |-> TRUE]
  BY <1>3, <1>6 DEF Control
<1>8. /\ twcr' \in [sta : BOOLEAN, ea : BOOLEAN, ie : BOOLEAN] /\ ~twcr'.sta /\ ~twcr'.ea
      /\ twcr'.ie
  BY <1>7
<1>9. HwTypes'
  BY <1>3, <1>5, <1>7, <1>8 DEF HwTypes, IInv, Types, PtrTypes
<1>10. S' = NULL /\ NoPending'
  BY <1>3, NextFirst DEF S, NoPending
<1>11. SlaveBusy'
  BY DEF SlaveBusy
<1>12. SlaveQuiet'
  BY <1>7, <1>8 DEF SlaveQuiet
<1>13. LastSlaveOK'
  BY <1>3, <1>4, <1>10, <1>12 DEF LastSlaveOK
<1>14. SlaveSees'
  BY <1>3, <1>4, <1>7, <1>8, <1>10, <1>13 DEF SlaveSees
<1>15. twi' # "heldS" /\ twcr'.ie
  BY <1>7, <1>8
<1> QED
  BY <1>1, <1>3, <1>5, <1>9, <1>11, <1>14, <1>15, SlaveOnBusKeeps

\* The driver looks at the messages before the step.
LEMMA NowFirst ==
  ASSUME Assumed, IInv, NEW k
  PROVE  /\ First(vec, msg, k) \in Msg \cup {NULL}
         /\ First(vec, msg, k) = NULL => ~PendingIn(k)
         /\ First(vec, msg, k) # NULL =>
              /\ First(vec, msg, k) \in InVector
              /\ msg[First(vec, msg, k)].kind = k /\ ~msg[First(vec, msg, k)].done
              /\ PendingIn(k)
              /\ \A i, j \in Slots : i < j /\ vec.data[j] = First(vec, msg, k)
                                      /\ msg[vec.data[i]].kind = k => msg[vec.data[i]].done
<1> DEFINE f == First(vec, msg, k)
<1>1. InVector = Entries(vec) /\ InVector \in SUBSET Msg
  BY VectorIs DEF InVector, IInv, Types
<1>2. /\ \A m \in Entries(vec) : msg[m] # NULL
      /\ VectorOK(vec) /\ NullIsApart /\ NULL \notin Msg
  BY DEF IInv, Placed, Homes, Types, Assumed
<1>3. /\ f = NULL => \A m \in Entries(vec) : msg[m].kind = k => msg[m].done
      /\ f # NULL =>
           /\ f \in Entries(vec) /\ msg[f].kind = k /\ ~msg[f].done
           /\ \A i, j \in 0 .. vec.length - 1 :
                i < j /\ vec.data[j] = f /\ msg[vec.data[i]].kind = k => msg[vec.data[i]].done
  BY <1>2, FirstIs
<1> HIDE DEF f
<1>4. f = NULL => ~PendingIn(k)
  BY <1>1, <1>3 DEF PendingIn
<1>5. f # NULL => PendingIn(k)
  BY <1>1, <1>3 DEF PendingIn
<1>6. f \in Msg \cup {NULL} /\ (f # NULL => f \in InVector)
  BY <1>1, <1>3
<1>7. /\ f \in Msg \cup {NULL} /\ (f = NULL => ~PendingIn(k))
      /\ f # NULL => /\ f \in InVector /\ msg[f].kind = k /\ ~msg[f].done /\ PendingIn(k)
                     /\ \A i, j \in Slots : i < j /\ vec.data[j] = f /\ msg[vec.data[i]].kind = k
                                            => msg[vec.data[i]].done
  BY <1>3, <1>4, <1>5, <1>6 DEF Slots
<1> QED
  BY <1>7 DEF f

\* The driver looks again, and nobody is the last slave.
LEMMA LooksAgain ==
  ASSUME Assumed, IInv, ptr' = Updated([ptr EXCEPT !.lastSlave = NULL], vec, msg)
  PROVE  /\ ptr' \in PtrTypes /\ ptr'.master = First(vec, msg, "master")
         /\ ptr'.slave = First(vec, msg, "slave")
         /\ ptr'.lastMaster = ptr.lastMaster /\ ptr'.lastSlave = NULL
<1> DEFINE p == [ptr EXCEPT !.lastSlave = NULL]
<1>1. /\ p \in PtrTypes /\ p.lastSlave = NULL /\ p.lastMaster = ptr.lastMaster
      /\ ptr' = Updated(p, vec, msg)
  BY DEF PtrTypes, IInv, Types
<1>2. First(vec, msg, "master") \in Msg \cup {NULL} /\ First(vec, msg, "slave") \in Msg \cup {NULL}
  BY NowFirst
<1> HIDE DEF p
<1> QED
  BY <1>1, <1>2, UpdatedIs

\* A message of the bus's kind is pending: no START of the other.
LEMMA KindsApart ==
  ASSUME Assumed, IInv, Stirs
  PROVE  /\ twcr.sta => PendingIn("master")
         /\ PendingIn("slave") => ~PendingIn("master") /\ \A c \in Masters : pc[c] = "closed"
         /\ \A c \in Slaves : pc[c] # "closed" => ~PendingIn("master")
<1>1. twcr.sta => PendingIn("master")
  BY StirsIs DEF MReady, PendingIn
<1>2. PendingIn("slave") => ~PendingIn("master")
  BY DEF PendingIn, IInv, Turns
<1>3. PendingIn("slave") => \A c \in Masters : pc[c] = "closed"
  BY KindIs, ClientsAre DEF PendingIn, IInv, Turns
<1>4. \A c \in Slaves : pc[c] # "closed" => ~PendingIn("master")
  BY TheSlavesTurn
<1> QED
  BY <1>1, <1>2, <1>3, <1>4

\* The bus ends a slave's transfer without a message.
LEMMA BusRests ==
  ASSUME Assumed, IInv, BusMoves, twi \in {"sr", "st"}, S = NULL, msg' = msg,
         UNCHANGED <<vec, bufferIndex>>, IsrKeeps, busy' = FALSE,
         ptr' = Updated([ptr EXCEPT !.lastSlave = NULL], vec, msg),
         Control(ptr'.master # NULL, FALSE, "idle"),
         UNCHANGED eventVars \/ SignalFromISR({"slave"})
  PROVE  IInv'
<1>1. Stirs
  BY DEF Stirs
<1>2. UNCHANGED <<vec, msgs, threadVars>>
  BY DEF IsrKeeps
<1>3. /\ Touched /\ InVector' = InVector /\ Slots' = Slots /\ pc' = pc /\ vec' = vec
      /\ \A k : PendingIn(k)' <=> PendingIn(k)
  BY <1>2, SameMessages, ThreadsUnchanged
<1>4. /\ Queues' /\ ec' \in [Kinds -> Nat] /\ ec'["master"] = ec["master"]
  <2>1. CASE UNCHANGED eventVars
    BY <1>3, <2>1, QueuesUnchanged
  <2>2. CASE SignalFromISR({"slave"})
    <3>1. "master" \in Kinds /\ "master" \notin {"slave"}
      BY DEF Kinds
    <3> QED
      BY <1>3, <2>2, <3>1, SignalIs DEF IInv
  <2> QED
    BY <2>1, <2>2
<1>5. /\ ptr' \in PtrTypes /\ ptr'.master = First(vec, msg, "master")
      /\ ptr'.slave = First(vec, msg, "slave")
      /\ ptr'.lastMaster = ptr.lastMaster /\ ptr'.lastSlave = NULL
  BY LooksAgain
<1>6. twi' = "idle" /\ twcr' = [sta |-> ptr'.master # NULL \/ twcr.sta, ea |-> FALSE, ie |-> TRUE]
  BY DEF Control
<1>7. /\ ptr'.master # NULL <=> PendingIn("master")
      /\ ptr'.slave # NULL <=> PendingIn("slave")
      /\ twcr.sta => PendingIn("master")
  BY <1>1, <1>5, NowFirst, KindsApart
<1>8. twcr.sta \in BOOLEAN
  BY DEF IInv, Types
<1>9. /\ twcr' \in [sta : BOOLEAN, ea : BOOLEAN, ie : BOOLEAN]
      /\ (twcr'.sta <=> PendingIn("master")) /\ ~twcr'.ea /\ twcr'.ie
  BY <1>6, <1>7, <1>8
<1>10. HwTypes'
  BY <1>4, <1>5, <1>6, <1>9 DEF HwTypes, IInv, Types, PtrTypes
<1>11. ptr'.master # NULL => MReady'
  BY <1>3, <1>5, NowFirst DEF MReady, M
<1>12. MastersSee'
  BY <1>6, <1>7, <1>9, <1>11 DEF MastersSee, Signals, Holds, Transfers
<1>13. MasterToldNext
  BY <1>4, <1>5 DEF MasterToldNext
<1>14. MasterServedNext
  <2>1. ASSUME NEW c \in Masters, pc[c] = "wait", ec["master"] = 0 PROVE PendingIn("master")
    BY <2>1 DEF IInv, MasterInv, MasterWaits
  <2> QED
    BY <1>3, <1>4, <1>9, <2>1 DEF MasterServedNext
<1>15. MasterInv'
  BY <1>1, <1>3, <1>12, <1>13, <1>14, BusKeepsMasters
<1>16. DoneInOrder'
  BY <1>3 DEF IInv, SlaveInv, DoneInOrder
<1>17. SlaveBusy'
  BY DEF SlaveBusy
<1>18. PendingIn("slave") => SlaveQuiet'
  BY <1>1, <1>6, <1>9, KindsApart DEF SlaveQuiet
<1>19. S' # NULL =>
         /\ SThere' /\ ~msg'[S'].done /\ PendingIn("slave")
         /\ \A i, j \in Slots : i < j /\ vec.data[j] = S' /\ msg[vec.data[i]].kind = "slave"
                                => msg[vec.data[i]].done
  BY <1>3, <1>5, NowFirst DEF SThere, S
<1>20. \A c \in Slaves : pc[c] # "closed" => ~twcr'.sta
  BY <1>1, <1>9, KindsApart
<1>21. ASSUME Waiting PROVE SlaveSees'
  <2>1. PICK c \in Slaves : pc[c] = "wait"
    BY <1>21 DEF Waiting
  <2>2. ~twcr'.sta
    BY <1>20, <2>1
  <2>3. SlaveQuiet'
    BY <1>6, <1>9, <2>2 DEF SlaveQuiet
  <2>4. \A i \in Slots : vec.data[i] \in InVector
    BY VectorIs DEF IInv, Types
  <2>5. \A i \in Slots : msg[vec.data[i]].kind = "slave"
    BY <2>1, <2>4, TheSlavesTurn
  <2>6. LastSlaveOK'
    BY <1>5, <2>3 DEF LastSlaveOK
  <2> QED
    BY <1>3, <1>5, <1>6, <1>19, <2>2, <2>3, <2>5, <2>6 DEF SlaveSees
<1>22. NobodySees'
  BY <1>3, <1>6, <1>18, <1>19, <1>20 DEF NobodySees
<1> QED
  BY <1>1, <1>3, <1>4, <1>10, <1>15, <1>16, <1>17, <1>21, <1>22, BusKeepsSlave, StepKeeps

\* What nobody waits for is done, the first message of a slave.
LEMMA SlaveDropKeeps ==
  ASSUME Assumed, IInv, BusMoves, twi = "sr", ~Waiting,
         UNCHANGED <<vec, bufferIndex>>, IsrKeeps, busy' = FALSE, UNCHANGED eventVars,
         ptr' = Updated([ptr EXCEPT !.lastSlave = NULL], vec, msg),
         ptr'.slave # NULL, msg' = Marked(msg, {ptr'.slave}),
         Control(ptr'.master # NULL, FALSE, "idle")
  PROVE  IInv'
<1>1. Stirs
  BY DEF Stirs
<1>2. UNCHANGED <<vec, msgs, threadVars>>
  BY DEF IsrKeeps
<1> DEFINE f == ptr'.slave
<1>3. /\ ptr' \in PtrTypes /\ ptr'.master = First(vec, msg, "master")
      /\ f = First(vec, msg, "slave")
      /\ ptr'.lastMaster = ptr.lastMaster /\ ptr'.lastSlave = NULL
  BY LooksAgain
<1> HIDE DEF f
<1>4. /\ f \in InVector /\ msg[f].kind = "slave" /\ PendingIn("slave")
      /\ \A i, j \in Slots : i < j /\ vec.data[j] = f /\ msg[vec.data[i]].kind = "slave"
                             => msg[vec.data[i]].done
  BY <1>3, NowFirst DEF f
<1>5. /\ ~PendingIn("master") /\ ~twcr.sta /\ \A c \in Masters : pc[c] = "closed"
      /\ ptr'.master = NULL
  BY <1>1, <1>3, <1>4, KindsApart, NowFirst
<1>6. /\ Touched /\ msg'[f].done /\ msg'[f].kind = "slave"
      /\ \A n \in Msg : n # f => msg'[n] = msg[n]
  BY <1>2, <1>4, MarkedTouched DEF f
<1>7. InVector' = InVector /\ Slots' = Slots /\ vec' = vec /\ pc' = pc
  BY <1>6, ThreadsUnchanged
<1>8. /\ Queues' /\ ec' = ec /\ ec' \in [Kinds -> Nat]
  BY <1>7, QueuesUnchanged
<1>9. twi' = "idle" /\ twcr' = [sta |-> FALSE, ea |-> FALSE, ie |-> TRUE]
  BY <1>5 DEF Control
<1>10. /\ twcr' \in [sta : BOOLEAN, ea : BOOLEAN, ie : BOOLEAN]
       /\ ~twcr'.sta /\ ~twcr'.ea /\ twcr'.ie
  BY <1>9
<1>11. HwTypes'
  BY <1>3, <1>8, <1>9, <1>10 DEF HwTypes, IInv, Types, PtrTypes
<1>12. MasterInv'
  <2>1. Types'
    BY <1>1, <1>6, <1>11, TouchedKeeps
  <2> QED
    BY <1>5, <1>7, <1>8, <1>9, <1>10, <2>1, SlaveTurnKeeps
<1>13. /\ \A m \in InVector : msg[m].kind = "slave"
       /\ \A i \in Slots : vec.data[i] \in InVector /\ vec.data[i] \in Msg
       /\ \A i, j \in Slots : i < j /\ msg[vec.data[j]].done => msg[vec.data[i]].done
  <2>1. \A m \in InVector : msg[m].kind = "slave"
    BY <1>4 DEF IInv, Turns
  <2>2. \A i \in Slots : vec.data[i] \in InVector /\ vec.data[i] \in Msg
    BY VectorIs DEF IInv, Types
  <2> QED
    BY <2>1, <2>2 DEF IInv, SlaveInv, DoneInOrder
<1>14. DoneInOrder'
  <2>1. ASSUME NEW i \in Slots, NEW j \in Slots, i < j, msg'[vec.data[j]].done
        PROVE  msg'[vec.data[i]].done
    <3>1. CASE vec.data[i] = f
      BY <1>6, <3>1
    <3>2. CASE vec.data[i] # f
      <4>1. msg[vec.data[i]].done
        BY <1>4, <1>6, <1>13, <2>1
      <4> QED
        BY <1>6, <1>13, <3>2, <4>1
    <3> QED
      BY <3>1, <3>2
  <2> QED
    BY <1>7, <2>1 DEF DoneInOrder
<1>15. SlaveBusy'
  BY DEF SlaveBusy
<1>16. NobodySees'
  BY <1>4, <1>6, <1>7, <1>9, <1>10 DEF NobodySees, SThere, S, SlaveQuiet, f
<1> QED
  BY <1>1, <1>6, <1>8, <1>11, <1>12, <1>14, <1>15, <1>16, BusKeepsSlave, StepKeeps

LEMMA SlaveBuffEndKeeps ==
  ASSUME Assumed, IInv, BusMoves, twi \in {"sr", "st"}, SlaveBuffEnd,
         UNCHANGED <<vec, bufferIndex>>, IsrKeeps
  PROVE  IInv'
<1>1. CASE S = NULL
  <2>1. /\ msg' = msg /\ ptr' = Updated([ptr EXCEPT !.lastSlave = NULL], vec, msg)
        /\ busy' = FALSE /\ SignalFromISR({"slave"}) /\ Control(ptr'.master # NULL, FALSE, "idle")
    BY <1>1 DEF SlaveBuffEnd, Control
  <2> QED
    BY <1>1, <2>1, BusRests
<1>2. CASE S # NULL
  <2> DEFINE ms == Marked(msg, {S})
             p == Updated([ptr EXCEPT !.lastSlave = S], vec, ms)
  <2>1. \/ /\ msg[S].cb /\ ptr' = [ptr EXCEPT !.lastSlave = S] /\ SignalFromISR({"slave"})
           /\ twcr' = [twcr EXCEPT !.ie = FALSE] /\ twi' = "heldS" /\ UNCHANGED <<msg, busy>>
        \/ /\ ~msg[S].cb /\ msg' = ms /\ ptr' = p
           /\ IF p.slave # NULL
              THEN Control(FALSE, TRUE, "idle") /\ UNCHANGED <<busy, eventVars>>
              ELSE /\ busy' = FALSE /\ Control(p.master # NULL, S # NULL /\ p.master # NULL, "idle")
                   /\ SignalFromISR({"slave"})
    BY <1>2 DEF SlaveBuffEnd
  <2> HIDE DEF ms
  <2>2. CASE /\ msg[S].cb /\ ptr' = [ptr EXCEPT !.lastSlave = S] /\ SignalFromISR({"slave"})
             /\ twcr' = [twcr EXCEPT !.ie = FALSE] /\ twi' = "heldS" /\ UNCHANGED <<msg, busy>>
    BY <1>2, <2>2, SlaveHeldKeeps
  <2>3. CASE /\ ~msg[S].cb /\ msg' = ms /\ ptr' = p /\ ptr'.slave # NULL
             /\ Control(FALSE, TRUE, "idle") /\ UNCHANGED <<busy, eventVars>>
    BY <1>2, <2>3, SlaveNextKeeps DEF ms
  <2>4. CASE /\ ~msg[S].cb /\ msg' = ms /\ ptr' = p /\ ptr'.slave = NULL /\ busy' = FALSE
             /\ Control(ptr'.master # NULL, S # NULL /\ ptr'.master # NULL, "idle")
             /\ SignalFromISR({"slave"})
    BY <1>2, <2>4, SlaveEndsKeeps DEF ms
  <2> QED
    BY <2>1, <2>2, <2>3, <2>4
<1> QED
  BY <1>1, <1>2

LEMMA SlaveStopKeeps ==
  ASSUME Assumed, IInv, SlaveStop
  PROVE  IInv'
<1>1. BusMoves /\ twi = "sr" /\ IsrKeeps /\ UNCHANGED <<vec, bufferIndex>>
  BY DEF SlaveStop
<1>2. CASE queue["slave"] \in {<<>>, SIGNALED}
  <2>1. ~Waiting
    <3>1. ASSUME NEW c \in Slaves, pc[c] = "wait" PROVE FALSE
      <4>1. c \in Client /\ Kind(c) = "slave"
        BY KindIs, ClientsAre
      <4>2. queue["slave"] = <<c>>
        BY <3>1, <4>1 DEF IInv, Queues
      <4>3. <<c>> \in Seq(Client) /\ <<c>> # <<>>
        BY <4>1
      <4> QED
        BY <1>2, <4>2, <4>3, BusConstants
    <3> QED
      BY <3>1 DEF Waiting
  <2>2. S = NULL
    BY <1>1, <2>1, StirsIs DEF Stirs
  <2>3. /\ ptr' = Updated([ptr EXCEPT !.lastSlave = NULL], vec, msg)
        /\ Control(ptr'.master # NULL, FALSE, "idle")
        /\ msg' = IF ptr'.slave = NULL THEN msg ELSE Marked(msg, {ptr'.slave})
        /\ busy' = FALSE /\ UNCHANGED eventVars
    <3> DEFINE ms == IF S = NULL THEN msg ELSE [msg EXCEPT ![S].cb = FALSE]
               p == Updated([ptr EXCEPT !.lastSlave = NULL], vec, ms)
    <3>1. /\ Control(p.master # NULL, FALSE, "idle") /\ ptr' = p
          /\ msg' = IF p.slave = NULL THEN ms ELSE Marked(ms, {p.slave})
          /\ busy' = FALSE /\ UNCHANGED eventVars
      BY <1>2 DEF SlaveStop
    <3>2. ms = msg
      BY <2>2
    <3> HIDE DEF ms
    <3> QED
      BY <3>1, <3>2
  <2>4. CASE ptr'.slave = NULL
    BY <1>1, <2>2, <2>3, <2>4, BusRests
  <2>5. CASE ptr'.slave # NULL
    BY <1>1, <2>1, <2>3, <2>5, SlaveDropKeeps
  <2> QED
    BY <2>4, <2>5
<1>3. CASE queue["slave"] \notin {<<>>, SIGNALED}
  BY <1>1, <1>3, SlaveBuffEndKeeps DEF SlaveStop
<1> QED
  BY <1>2, <1>3

LEMMA SlaveSentKeeps ==
  ASSUME Assumed, IInv, SlaveSent
  PROVE  IInv'
BY SlaveBuffEndKeeps DEF SlaveSent

\* Every step of the interrupt handler.
LEMMA BusKeeps ==
  ASSUME Assumed, IInv, Bus
  PROVE  IInv'
<1>1. MasterBus => IInv'
  BY MasterSentKeeps, MasterRefusedKeeps, MasterReceivesKeeps, MasterReceivedKeeps DEF MasterBus
<1>2. SlaveBus => IInv'
  BY SlaveReceivedByteKeeps, SlaveRefusedByteKeeps, SlaveStopKeeps, SlaveSentByteKeeps,
     SlaveSentKeeps DEF SlaveBus
<1>3. OtherMaster => IInv'
  BY SlaveReceivesKeeps, SlaveSendsKeeps DEF OtherMaster
<1> QED
  BY <1>1, <1>2, <1>3, MasterStartKeeps, ArbitrationLostKeeps, BusErrorKeeps DEF Bus

-----------------------------------------------------------------------------
(***************************************************************************)
(* Steps of the threads.                                                   *)
(***************************************************************************)

LEMMA ThreadsMove ==
  ASSUME Assumed, IInv, NEW c \in Client, NEW q \in Stages, pc' = [pc EXCEPT ![c] = q],
         cur \in {c, NULL}, cur' = IF q \in InCore THEN c ELSE NULL,
         c \in Slaves => holder' = holder /\ q \notin {"lock", "update"},
         c \in Masters =>
           IF q \in {"closed", "open", "lock"}
           THEN holder' = IF holder = c THEN NULL ELSE holder
           ELSE holder' = c /\ holder \in {c, NULL}
  PROVE  Threads'
<1>1. /\ pc'[c] = q /\ \A d \in Client : d # c => pc'[d] = pc[d]
  BY DEF IInv, Types
<1>2. NULL \notin Client
  BY BusConstants
<1>3. Masters \in SUBSET Client /\ Slaves \in SUBSET Client /\ (c \in Masters <=> c \notin Slaves)
  BY KindIs, ClientsAre
<1>4. cur' \in Client \cup {NULL} /\ \A d \in Client : cur' = d <=> pc'[d] \in InCore
  BY <1>1, <1>2 DEF IInv, Threads
<1>5. /\ holder' \in Masters \cup {NULL}
      /\ \A d \in Masters : holder' = d <=> pc'[d] \notin {"closed", "open", "lock"}
  <2>1. CASE c \in Slaves
    BY <1>1, <1>3, <2>1 DEF IInv, Threads
  <2>2. CASE c \in Masters
    <3>1. CASE q \in {"closed", "open", "lock"}
      BY <1>1, <1>2, <1>3, <2>2, <3>1 DEF IInv, Threads
    <3>2. CASE q \notin {"closed", "open", "lock"}
      BY <1>1, <1>2, <1>3, <2>2, <3>2 DEF IInv, Threads
    <3> QED
      BY <3>1, <3>2
  <2> QED
    BY <1>3, <2>1, <2>2
<1>6. \A d \in Slaves : pc'[d] \notin {"lock", "update"}
  BY <1>1, <1>3 DEF IInv, Threads
<1> QED
  BY <1>4, <1>5, <1>6 DEF Threads

LEMMA QueuesMove ==
  ASSUME IInv, UNCHANGED eventVars, NEW c \in Client, NEW q, pc' = [pc EXCEPT ![c] = q],
         pc[c] # "wait", q # "wait"
  PROVE  Queues' /\ ec' = ec
<1>1. /\ pc'[c] = q /\ (\A d \in Client : d # c => pc'[d] = pc[d]) /\ queue' = queue /\ ec' = ec
  BY DEF IInv, Types, eventVars
<1> QED
  BY <1>1 DEF IInv, Queues

\* An event is counted for somebody who waits.
LEMMA NoEvent ==
  ASSUME IInv, NEW k \in Kinds, \A d \in Client : Kind(d) = k => pc[d] # "wait"
  PROVE  ec[k] = 0
<1>1. ec[k] \in Nat
  BY DEF IInv, Types
<1>2. ec[k] > 0 => \E d \in Client : Kind(d) = k /\ pc[d] = "wait"
  BY DEF IInv, Queues
<1> QED
  BY <1>1, <1>2

LEMMA TurnsMove ==
  ASSUME Assumed, IInv, NEW c \in Client, NEW q, pc' = [pc EXCEPT ![c] = q],
         cur \in {c, NULL}, pc[c] # "closed",
         \A m \in InVector' : msg'[m].kind = Kind(c),
         \A d \in Client : \A m \in Range(msgs'[d]) :
           msg'[m] # NULL /\ msg'[m].kind = Kind(d) /\ ~msg'[m].done,
         \A d \in Client : d # c => msgs'[d] = msgs[d],
         q = "closed" => msgs'[c] = <<>>,
         q \in {"lock", "update"} => msgs'[c] # <<>>,
         q = "add" => msgs'[c] # <<>> \/ PendingIn(Kind(c))'
  PROVE  Turns'
<1>1. /\ pc'[c] = q /\ \A d \in Client : d # c => pc'[d] = pc[d]
  BY DEF IInv, Types
<1>2. \A d \in Client : d # c => pc[d] # "add"
  BY BusConstants DEF IInv, Threads, InCore
<1>3. \A d \in Client : pc'[d] # "closed" => Kind(d) = Kind(c)
  BY <1>1 DEF IInv, Turns
<1>4. \A d, e \in Client : pc'[d] # "closed" /\ pc'[e] # "closed" => Kind(d) = Kind(e)
  BY <1>3
<1>5. \A d \in Client : pc'[d] # "closed" => \A m \in InVector' : msg'[m].kind = Kind(d)
  BY <1>3
<1>6. /\ \A d \in Client : pc'[d] = "closed" => msgs'[d] = <<>>
      /\ \A d \in Client : pc'[d] \in {"lock", "update"} => msgs'[d] # <<>>
  BY <1>1 DEF IInv, Turns
<1>7. \A d \in Client : pc'[d] = "add" => msgs'[d] # <<>> \/ PendingIn(Kind(d))'
  BY <1>1, <1>2
<1>8. \A m, n \in InVector' : msg'[m].kind = msg'[n].kind
  OBVIOUS
<1> QED
  BY <1>4, <1>5, <1>6, <1>7, <1>8 DEF Turns

\* A step of the one master past the lock.
LEMMA MasterMoves ==
  ASSUME Assumed, IInv, NEW c \in Masters, NEW q, pc' = [pc EXCEPT ![c] = q], pc[c] # "closed",
         \A d \in Masters : d # c => pc[d] \in {"closed", "open", "lock"},
         Types', Placed', Threads', Queues', Turns',
         \A m \in InVector' : msg'[m].kind = "master",
         ptr'.slave = NULL, twi' # "heldS", busy' => PendingIn("master")' \/ twi' = "st",
         (Signals /\ Sends /\ Holds)',
         ec'["master"] > 0 => LastMasterOK',
         q = "woken" => (rc'[c] = 0 => LastMasterOK') /\ (Resumed(c)' => rc'[c] = 0),
         MasterLoops(c)', MasterWaits(c)'
  PROVE  IInv'
<1>1. /\ pc'[c] = q /\ \A d \in Client : d # c => pc'[d] = pc[d]
  BY DEF IInv, Types
<1>2. \A d \in Slaves : pc'[d] = "closed"
  BY <1>1, MasterTurn, ClientsAre DEF Slaves
<1>3. SlaveInv'
  BY <1>2, MasterTurnKeeps
<1>4. \A d \in Masters : d # c => pc'[d] \in {"closed", "open", "lock"}
  BY <1>1, ClientsAre
<1>5. MasterTold'
  BY <1>1, <1>4 DEF MasterTold
<1>6. \A d \in Masters : (MasterLoops(d) /\ MasterWaits(d))'
  BY <1>4 DEF MasterLoops, MasterWaits
<1>7. MasterInv'
  BY <1>5, <1>6 DEF MasterInv
<1> QED
  BY <1>3, <1>7 DEF IInv

\* A step of the slave.
LEMMA SlaveMoves ==
  ASSUME Assumed, IInv, NEW c \in Slaves, NEW q, pc' = [pc EXCEPT ![c] = q], pc[c] # "closed",
         Types', Placed', Threads', Queues', Turns',
         ~twcr'.sta, twi' \in {"idle", "sr", "st", "heldS"}, twi' = "heldS" <=> ~twcr'.ie,
         (DoneInOrder /\ SlaveBusy)',
         twi' = "heldS" => q \in {"wait", "woken", "loop", "clean", "looked", "resume"},
         q \in {"closed", "open"} /\ S' # NULL => (SThere /\ SlaveQuiet)',
         q = "add" => S' = NULL \/ SlaveQuiet',
         (SlaveListens(c) /\ SlaveTold(c) /\ SlaveLoops(c) /\ SlaveEnds(c))'
  PROVE  IInv'
<1>1. /\ pc'[c] = q /\ \A d \in Client : d # c => pc'[d] = pc[d]
  BY ClientsAre DEF IInv, Types
<1>2. \A d \in Masters : pc'[d] = "closed"
  BY <1>1, TheSlavesTurn, ClientsAre DEF Slaves
<1>3. MasterInv'
  BY <1>2, SlaveTurnKeeps
<1>4. \A d \in Slaves : d = c
  BY DEF Assumed, OneSlave
<1>5. (SlaveHolds /\ SlaveRests)'
  BY <1>1 DEF SlaveHolds, SlaveRests
<1>6. SlaveTurn(c)'
  BY <1>1 DEF SlaveTurn
<1>7. SlaveInv'
  BY <1>4, <1>5, <1>6 DEF SlaveInv
<1> QED
  BY <1>3, <1>7 DEF IInv

\* The messages that a client has written.
LEMMA ListsAre ==
  ASSUME IInv, NEW c \in Client
  PROVE  /\ msgs[c] \in Seq(Msg)
         /\ Range(msgs[c]) = {msgs[c][i] : i \in 1 .. Len(msgs[c])}
         /\ Range(msgs[c]) \in SUBSET Msg
         /\ \A m \in Range(msgs[c]) :
              m \in Msg /\ m \notin InVector /\ msg[m] # NULL /\ msg[m].kind = Kind(c) /\ ~msg[m].done
<1>1. msgs[c] \in Seq(Msg)
  BY DEF IInv, Types
<1>2. DOMAIN msgs[c] = 1 .. Len(msgs[c]) /\ \A i \in 1 .. Len(msgs[c]) : msgs[c][i] \in Msg
  BY <1>1
<1>3. Range(msgs[c]) = {msgs[c][i] : i \in 1 .. Len(msgs[c])}
  BY <1>2 DEF Range
<1>4. Range(msgs[c]) \in SUBSET Msg
  BY <1>2, <1>3
<1>5. \A m \in Range(msgs[c]) : m \notin InVector
  BY DEF IInv, Placed, Homes, InVector
<1>6. \A m \in Range(msgs[c]) : msg[m] # NULL /\ msg[m].kind = Kind(c) /\ ~msg[m].done
  BY DEF IInv, Turns
<1> QED
  BY <1>1, <1>3, <1>4, <1>5, <1>6

\* A message that was not allocated is appended.
LEMMA HomesNew ==
  ASSUME NEW ms, NEW ns, NEW lists \in [Client -> Seq(Msg)], NEW v, Homes(ms, lists, v),
         NEW c \in Client, NEW m \in Msg, ms[m] = NULL, ns[m] # NULL,
         \A n \in Msg : n # m => ns[n] = ms[n], Entries(v) \in SUBSET Msg,
         \A d \in Client : \A n \in Range(lists[d]) : ms[n] # NULL
  PROVE  Homes(ns, [lists EXCEPT ![c] = Append(@, m)], v)
<1> DEFINE new == [lists EXCEPT ![c] = Append(@, m)]
<1>1. new[c] = Append(lists[c], m) /\ \A d \in Client : d # c => new[d] = lists[d]
  OBVIOUS
<1>2. lists[c] \in Seq(Msg)
  OBVIOUS
<1>3. /\ Len(new[c]) = Len(lists[c]) + 1 /\ Len(lists[c]) \in Nat
      /\ \A i \in 1 .. Len(lists[c]) : new[c][i] = lists[c][i]
      /\ new[c][Len(lists[c]) + 1] = m
      /\ DOMAIN new[c] = 1 .. Len(lists[c]) + 1 /\ DOMAIN lists[c] = 1 .. Len(lists[c])
  BY <1>1, <1>2
<1> HIDE DEF new
<1>4. Range(new[c]) = Range(lists[c]) \cup {m}
  <2>1. \A x : x \in Range(new[c]) <=> \E i \in 1 .. Len(lists[c]) + 1 : new[c][i] = x
    BY <1>3 DEF Range
  <2>2. \A x : x \in Range(lists[c]) <=> \E i \in 1 .. Len(lists[c]) : lists[c][i] = x
    BY <1>3 DEF Range
  <2>3. \A i \in 1 .. Len(lists[c]) + 1 : i \in 1 .. Len(lists[c]) \/ i = Len(lists[c]) + 1
    BY <1>3
  <2>4. \A i \in 1 .. Len(lists[c]) : i \in 1 .. Len(lists[c]) + 1
    BY <1>3
  <2>5. Len(lists[c]) + 1 \in 1 .. Len(lists[c]) + 1
    BY <1>3
  <2>6. ASSUME NEW x \in Range(new[c]) PROVE x \in Range(lists[c]) \cup {m}
    BY <1>3, <2>1, <2>2, <2>3
  <2>7. ASSUME NEW x \in Range(lists[c]) \cup {m} PROVE x \in Range(new[c])
    BY <1>3, <2>1, <2>2, <2>4, <2>5
  <2> QED
    BY <2>6, <2>7
<1>5. /\ m \notin Entries(v) /\ \A d \in Client : m \notin Range(lists[d])
  BY DEF Homes
<1>6. \A i \in 1 .. Len(lists[c]) : lists[c][i] # m
  BY <1>3, <1>5 DEF Range
<1>7. ASSUME NEW i \in 1 .. Len(new[c]), NEW j \in 1 .. Len(new[c]), new[c][i] = new[c][j]
      PROVE  i = j
  <2>1. /\ i \in 1 .. Len(lists[c]) \/ i = Len(lists[c]) + 1
        /\ j \in 1 .. Len(lists[c]) \/ j = Len(lists[c]) + 1
    BY <1>3
  <2>2. \A k, l \in 1 .. Len(lists[c]) : lists[c][k] = lists[c][l] => k = l
    BY DEF Homes
  <2> QED
    BY <1>3, <1>6, <1>7, <2>1, <2>2
<1>8. \A d \in Client : \A i, j \in 1 .. Len(new[d]) : new[d][i] = new[d][j] => i = j
  BY <1>1, <1>7 DEF Homes
<1>9. \A d \in Client : Range(new[d]) = IF d = c THEN Range(lists[c]) \cup {m} ELSE Range(lists[d])
  BY <1>1, <1>4
<1>10. \A d, e \in Client : d # e => Range(new[d]) \cap Range(new[e]) = {}
  BY <1>5, <1>9 DEF Homes
<1>11. \A d \in Client : Range(new[d]) \cap Entries(v) = {}
  BY <1>5, <1>9 DEF Homes
<1>12. \A n \in Entries(v) : ns[n] # NULL
  BY <1>5 DEF Homes
<1>13. \A n \in Msg : ns[n] # NULL => n \in Entries(v) \/ \E d \in Client : n \in Range(new[d])
  BY <1>9 DEF Homes
<1>14. Homes(ns, new, v)
  BY <1>8, <1>10, <1>11, <1>12, <1>13 DEF Homes
<1> QED
  BY <1>14 DEF new

\* The messages of one list are freed.
LEMMA HomesDropped ==
  ASSUME NEW ms, NEW ns, NEW lists \in [Client -> Seq(Msg)], NEW v, Homes(ms, lists, v),
         NEW c \in Client, Entries(v) \in SUBSET Msg,
         \A n \in Msg : ns[n] = IF n \in Range(lists[c]) THEN NULL ELSE ms[n]
  PROVE  Homes(ns, [lists EXCEPT ![c] = <<>>], v)
<1> DEFINE new == [lists EXCEPT ![c] = <<>>]
<1>1. new[c] = <<>> /\ \A d \in Client : d # c => new[d] = lists[d]
  OBVIOUS
<1> HIDE DEF new
<1>2. Range(new[c]) = {} /\ Len(new[c]) = 0
  BY <1>1 DEF Range
<1>3. \A d \in Client : Range(new[d]) = IF d = c THEN {} ELSE Range(lists[d])
  BY <1>1, <1>2
<1>4. \A d \in Client : \A i, j \in 1 .. Len(new[d]) : new[d][i] = new[d][j] => i = j
  BY <1>1, <1>2 DEF Homes
<1>5. \A n \in Entries(v) : ns[n] # NULL
  BY DEF Homes
<1>6. \A n \in Msg : ns[n] # NULL => n \in Entries(v) \/ \E d \in Client : n \in Range(new[d])
  BY <1>3 DEF Homes
<1>7. /\ \A d, e \in Client : d # e => Range(new[d]) \cap Range(new[e]) = {}
      /\ \A d \in Client : Range(new[d]) \cap Entries(v) = {}
  BY <1>3 DEF Homes
<1>8. Homes(ns, new, v)
  BY <1>4, <1>5, <1>6, <1>7 DEF Homes
<1> QED
  BY <1>8 DEF new

\* A step outside the core that leaves the messages of the vector alone.
LEMMA AsideKeeps ==
  ASSUME Assumed, IInv, NEW c \in Client, NEW q, pc' = [pc EXCEPT ![c] = q],
         pc[c] \in {"closed", "open", "lock"}, q \in {"closed", "open", "lock"},
         UNCHANGED <<vec, hwVars, eventVars>>,
         \A d \in Client : d # c => rc'[d] = rc[d] /\ index'[d] = index[d] /\ length'[d] = length[d],
         \A m \in InVector : msg'[m] = msg[m],
         c \in Slaves =>
           /\ \A d \in Masters : pc[d] = "closed"
           /\ q = "open" => ~twcr.sta /\ twi \in {"idle", "sr", "st", "heldS"}
           /\ q # "lock",
         c \in Masters => \A d \in Slaves : pc[d] = "closed",
         Types', Placed', Threads', Queues', Turns'
  PROVE  IInv'
<1>1. /\ pc'[c] = q /\ \A d \in Client : d # c => pc'[d] = pc[d]
  BY DEF IInv, Types
<1>2. /\ vec' = vec /\ busy' = busy /\ ptr' = ptr /\ twcr' = twcr /\ twi' = twi /\ ec' = ec
      /\ InVector' = InVector /\ Slots' = Slots
  BY DEF hwVars, eventVars, InVector, Slots
<1>3. \A k : PendingIn(k)' <=> PendingIn(k)
  BY <1>2 DEF PendingIn
<1>4. /\ MReady' <=> MReady
      /\ SThere' <=> SThere
      /\ LastMasterOK' <=> LastMasterOK
      /\ SlaveQuiet' <=> SlaveQuiet
      /\ MasterQuiet' <=> MasterQuiet
  BY <1>2 DEF MReady, SThere, LastMasterOK, SlaveQuiet, MasterQuiet, M, S
<1>5. \A i \in Slots : vec.data[i] \in InVector
  BY VectorIs DEF IInv, Types
<1>6. (DoneInOrder /\ SlaveBusy)'
  BY <1>2, <1>3, <1>4, <1>5 DEF IInv, SlaveInv, DoneInOrder, SlaveBusy, S
<1>7. (Signals /\ Holds)'
  BY <1>2, <1>3 DEF IInv, MasterInv, Signals, Holds
<1>8. Adding' <=> Adding
  BY <1>1, ClientsAre DEF Adding
<1>9. Sends'
  BY <1>2, <1>4, <1>8 DEF IInv, MasterInv, Sends
<1>10. CASE c \in Slaves
  <2>1. \A d \in Masters : pc'[d] = "closed"
    BY <1>1, <1>10, ClientsAre DEF Slaves
  <2>2. \A d \in Slaves : d = c
    BY <1>10 DEF Assumed, OneSlave
  <2>3. MasterTold'
    BY <1>2, <1>4, <2>1 DEF IInv, MasterInv, MasterTold
  <2>4. \A d \in Masters : (MasterLoops(d) /\ MasterWaits(d))'
    BY <2>1 DEF MasterLoops, MasterWaits
  <2>5. q \in {"closed", "open"} /\ pc[c] \in {"closed", "open"}
    BY <1>10 DEF IInv, Threads
  <2>6. (SlaveHolds /\ SlaveRests)'
    BY <1>2, <1>4, <2>2, <2>5 DEF IInv, SlaveInv, SlaveHolds, SlaveRests, S
  <2>7. (SlaveTurn(c) /\ SlaveListens(c) /\ SlaveTold(c) /\ SlaveLoops(c) /\ SlaveEnds(c))'
    BY <1>1, <1>2, <1>10, <2>5 DEF SlaveTurn, SlaveListens, SlaveTold, SlaveLoops, SlaveEnds
  <2> QED
    BY <1>6, <1>7, <1>9, <2>2, <2>3, <2>4, <2>6, <2>7 DEF IInv, MasterInv, SlaveInv
<1>11. CASE c \in Masters
  <2>1. \A d \in Slaves : pc[d] = "closed" /\ pc'[d] = "closed"
    BY <1>1, <1>11, ClientsAre DEF Slaves
  <2>2. (SlaveHolds /\ SlaveRests)'
    BY <1>2, <1>4, <2>1 DEF IInv, SlaveInv, SlaveHolds, SlaveRests, S
  <2>3. \A d \in Slaves :
          (SlaveTurn(d) /\ SlaveListens(d) /\ SlaveTold(d) /\ SlaveLoops(d) /\ SlaveEnds(d))'
    BY <2>1 DEF SlaveTurn, SlaveListens, SlaveTold, SlaveLoops, SlaveEnds
  <2>4. MasterTold'
    BY <1>1, <1>2, <1>4, ClientsAre DEF IInv, MasterInv, MasterTold, Resumed
  <2>5. ASSUME NEW d \in Masters PROVE (MasterLoops(d) /\ MasterWaits(d))'
    <3>1. CASE d = c
      BY <1>1, <3>1 DEF MasterLoops, MasterWaits
    <3>2. CASE d # c
      <4>1. pc'[d] = pc[d] /\ index'[d] = index[d] /\ d \in Client
        BY <1>1, <3>2, ClientsAre
      <4>2. MasterLoops(d) /\ MasterWaits(d)
        BY DEF IInv, MasterInv
      <4>3. Get(vec, index[d]) # NULL => Get(vec, index[d]) \in InVector
        <5>1. index[d] \in Int /\ VectorOK(vec) /\ NULL \notin Msg
          BY <4>1 DEF IInv, Types, Assumed
        <5> QED
          BY <5>1, GetIs DEF InVector
      <4>4. MasterLoops(d)'
        BY <1>2, <1>4, <4>1, <4>2, <4>3 DEF MasterLoops
      <4>5. MasterWaits(d)'
        BY <1>2, <1>3, <4>1, <4>2 DEF MasterWaits
      <4> QED
        BY <4>4, <4>5
    <3> QED
      BY <3>1, <3>2
  <2> QED
    BY <1>6, <1>7, <1>9, <2>2, <2>3, <2>4, <2>5 DEF IInv, MasterInv, SlaveInv
<1> QED
  BY <1>10, <1>11 DEF Slaves

\* One that does not open or close a file either.
LEMMA AsideTurns ==
  ASSUME Assumed, IInv, NEW c \in Client, pc[c] # "closed"
  PROVE  /\ c \in Slaves =>
              /\ \A d \in Masters : pc[d] = "closed"
              /\ ~twcr.sta /\ twi \in {"idle", "sr", "st", "heldS"}
         /\ c \in Masters => \A d \in Slaves : pc[d] = "closed"
         /\ \A m \in InVector : msg[m].kind = Kind(c)
BY MasterTurn, TheSlavesTurn DEF IInv, Turns

LEMMA SocketKeeps ==
  ASSUME Assumed, IInv, NEW c \in Client, Socket(c)
  PROVE  IInv'
<1>1. /\ cur = NULL /\ cur' = cur /\ pc[c] = "closed" /\ pc' = [pc EXCEPT ![c] = "open"]
      /\ \A d \in Client : Kind(d) # Kind(c) => pc[d] = "closed"
      /\ \A m \in InVector : msg[m].kind = Kind(c)
  <2>1. Range(Elements(vec)) = InVector
    BY EntriesAre DEF IInv, Types, InVector
  <2>2. "shared" \notin Faults
    BY DEF Assumed, Survived
  <2> QED
    BY <2>1, <2>2 DEF Socket
<1>2. /\ UNCHANGED <<vec, hwVars, eventVars>> /\ msg' = msg /\ msgs' = msgs /\ holder' = holder
      /\ rc' = rc /\ index' = index /\ length' = length /\ InVector' = InVector
  BY DEF Socket, InVector
<1>3. /\ pc'[c] = "open" /\ \A d \in Client : d # c => pc'[d] = pc[d]
  BY <1>1 DEF IInv, Types
<1>4. Types'
  <2>1. pc' \in [Client -> Stages]
    BY <1>1 DEF IInv, Types, Stages
  <2> QED
    BY <1>2, <2>1 DEF IInv, Types, hwVars, eventVars
<1>5. Placed'
  BY <1>2 DEF IInv, Placed
<1>6. Threads'
  <2>1. "open" \in Stages /\ "open" \notin InCore
    BY DEF Stages, InCore
  <2>2. c \in Masters => holder # c
    BY <1>1 DEF IInv, Threads
  <2> QED
    BY <1>1, <1>2, <2>1, <2>2, KindIs, ThreadsMove
<1>7. Queues'
  BY <1>1, <1>2, QueuesMove
<1>8. Turns'
  <2>1. \A d \in Client : pc'[d] # "closed" => Kind(d) = Kind(c)
    BY <1>1, <1>3
  <2>2. \A d, e \in Client : pc'[d] # "closed" /\ pc'[e] # "closed" => Kind(d) = Kind(e)
    BY <2>1
  <2>3. \A d \in Client : pc'[d] # "closed" => \A m \in InVector : msg[m].kind = Kind(d)
    BY <1>1, <2>1
  <2>4. \A d \in Client : pc'[d] \in {"closed", "lock", "update", "add"} => pc'[d] = pc[d]
    BY <1>3
  <2>5. \A k : PendingIn(k)' <=> PendingIn(k)
    BY <1>2 DEF PendingIn
  <2> QED
    BY <1>2, <2>2, <2>3, <2>4, <2>5 DEF IInv, Turns
<1>9. c \in Slaves => ~twcr.sta /\ twi \in {"idle", "sr", "st", "heldS"}
  <2>1. SUFFICES ASSUME c \in Slaves PROVE ~twcr.sta /\ twi \in {"idle", "sr", "st", "heldS"}
    OBVIOUS
  <2>2. \A m \in InVector : msg[m].kind # "master"
    BY <1>1, <2>1, KindIs
  <2>3. ~MReady /\ ~PendingIn("master")
    BY <2>2 DEF MReady, PendingIn
  <2>4. ~Adding
    BY <1>1, <2>1, KindIs, ClientsAre DEF Adding
  <2> QED
    BY <2>3, <2>4 DEF IInv, Types, MasterInv, Sends, Holds, Signals, Transfers
<1>10. /\ c \in Slaves => \A d \in Masters : pc[d] = "closed"
       /\ c \in Masters => \A d \in Slaves : pc[d] = "closed"
  BY <1>1, KindIs, ClientsAre
<1> QED
  BY <1>1, <1>2, <1>4, <1>5, <1>6, <1>7, <1>8, <1>9, <1>10, AsideKeeps

LEMMA LockTimeoutKeeps ==
  ASSUME Assumed, IInv, NEW c \in Client, LockTimeout(c)
  PROVE  IInv'
<1>1. /\ cur = NULL /\ cur' = cur /\ pc[c] = "lock" /\ pc' = [pc EXCEPT ![c] = "open"]
      /\ rc' = [rc EXCEPT ![c] = 0] /\ index' = [index EXCEPT ![c] = 0]
      /\ length' = [length EXCEPT ![c] = 0]
  BY DEF LockTimeout, Returns, Goto
<1>2. /\ UNCHANGED <<vec, hwVars, eventVars>> /\ msg' = msg /\ msgs' = msgs /\ holder' = holder
      /\ InVector' = InVector
  BY DEF LockTimeout, InVector
<1>3. Types'
  <2>1. pc' \in [Client -> Stages]
    BY <1>1 DEF IInv, Types, Stages
  <2>2. /\ rc' \in [Client -> {-1, 0, 1}] /\ index' \in [Client -> Int] /\ length' \in [Client -> Nat]
    BY <1>1 DEF IInv, Types
  <2> QED
    BY <1>2, <2>1, <2>2 DEF IInv, Types, hwVars, eventVars
<1>4. Placed'
  BY <1>2 DEF IInv, Placed
<1>5. c \in Masters /\ c \notin Slaves
  BY <1>1, KindIs DEF IInv, Threads
<1>6. Threads'
  <2>1. "open" \in Stages /\ "open" \notin InCore
    BY DEF Stages, InCore
  <2>2. holder # c
    BY <1>1, <1>5 DEF IInv, Threads
  <2> QED
    BY <1>1, <1>2, <1>5, <2>1, <2>2, ThreadsMove
<1>7. Queues'
  BY <1>1, <1>2, QueuesMove
<1>8. \A d \in Client : \A m \in Range(msgs[d]) :
        msg[m] # NULL /\ msg[m].kind = Kind(d) /\ ~msg[m].done
  BY ListsAre
<1>9. Turns'
  BY <1>1, <1>2, <1>8, AsideTurns, TurnsMove
<1>10. \A d \in Client : d # c => rc'[d] = rc[d] /\ index'[d] = index[d] /\ length'[d] = length[d]
  BY <1>1 DEF IInv, Types
<1> QED
  BY <1>1, <1>2, <1>3, <1>4, <1>5, <1>6, <1>7, <1>9, <1>10, AsideTurns, AsideKeeps

LEMMA NewMessageIs ==
  ASSUME NEW c \in Client, NEW tx \in BOOLEAN, NEW cb \in BOOLEAN, NEW n \in Lengths \cup {0}
  PROVE  /\ NewMessage(c, tx, cb, n) \in Features
         /\ NewMessage(c, tx, cb, n).kind = Kind(c) /\ ~NewMessage(c, tx, cb, n).done
         /\ NewMessage(c, tx, cb, n).cb = cb
<1>1. Kind(c) \in Kinds
  BY KindIs
<1>2. (tx \/ c \notin Masters) \in BOOLEAN
  OBVIOUS
<1> QED
  BY <1>1, <1>2 DEF NewMessage, Features

\* A client writes a message, and its list grows.
WrittenIs(ms, lists, c, m) ==
  /\ ms \in [Msg -> Features \cup {NULL}] /\ lists \in [Client -> Seq(Msg)]
  /\ Homes(ms, lists, vec) /\ lists[c] # <<>>
  /\ m \notin InVector
  /\ \A n \in Msg : n # m => ms[n] = msg[n]
  /\ \A d \in Client : d # c => lists[d] = msgs[d]
  /\ \A d \in Client : \A n \in Range(lists[d]) :
       ms[n] # NULL /\ ms[n].kind = Kind(d) /\ ~ms[n].done

LEMMA Written ==
  ASSUME Assumed, IInv, NEW c \in Client, NEW m \in Msg, NEW x \in Features,
         msg[m] = NULL, x.kind = Kind(c), ~x.done, NEW ms, ms = [msg EXCEPT ![m] = x],
         NEW lists, lists = [msgs EXCEPT ![c] = Append(@, m)]
  PROVE  WrittenIs(ms, lists, c, m)
<1>1. /\ msg \in [Msg -> Features \cup {NULL}] /\ msgs \in [Client -> Seq(Msg)]
      /\ Homes(msg, msgs, vec) /\ Entries(vec) \in SUBSET Msg /\ NULL \notin Features
  BY VectorIs DEF IInv, Types, Placed, InVector, Assumed, NullIsApart
<1>2. ms[m] = x /\ ms[m] # NULL /\ \A n \in Msg : n # m => ms[n] = msg[n]
  BY <1>1
<1>3. ms \in [Msg -> Features \cup {NULL}] /\ lists \in [Client -> Seq(Msg)]
  BY <1>1
<1>4. \A d \in Client : \A n \in Range(msgs[d]) :
        n \in Msg /\ msg[n] # NULL /\ msg[n].kind = Kind(d) /\ ~msg[n].done
  BY ListsAre
<1>5. Homes(ms, lists, vec)
  <2>1. \A d \in Client : \A n \in Range(msgs[d]) : msg[n] # NULL
    BY <1>4
  <2>2. Homes(ms, [msgs EXCEPT ![c] = Append(@, m)], vec)
    BY <1>1, <1>2, <2>1, HomesNew
  <2> QED
    BY <2>2
<1>6. lists[c] = Append(msgs[c], m) /\ msgs[c] \in Seq(Msg)
      /\ \A d \in Client : d # c => lists[d] = msgs[d]
  BY <1>1
<1>7. lists[c] # <<>>
  BY <1>6
<1>8. \A n \in Range(lists[c]) : n = m \/ n \in Range(msgs[c])
  <2>1. /\ DOMAIN lists[c] = 1 .. Len(msgs[c]) + 1 /\ DOMAIN msgs[c] = 1 .. Len(msgs[c])
        /\ \A i \in 1 .. Len(msgs[c]) : lists[c][i] = msgs[c][i]
        /\ lists[c][Len(msgs[c]) + 1] = m
    BY <1>6
  <2>2. Len(msgs[c]) \in Nat
    BY <1>6
  <2>3. \A i \in 1 .. Len(msgs[c]) + 1 : i \in 1 .. Len(msgs[c]) \/ i = Len(msgs[c]) + 1
    BY <2>2
  <2> QED
    BY <2>1, <2>3 DEF Range
<1>9. \A d \in Client : \A n \in Range(lists[d]) :
        ms[n] # NULL /\ ms[n].kind = Kind(d) /\ ~ms[n].done
  <2>1. ASSUME NEW d \in Client, NEW n \in Range(lists[d])
        PROVE  ms[n] # NULL /\ ms[n].kind = Kind(d) /\ ~ms[n].done
    <3>1. CASE n = m /\ d = c
      BY <1>2, <3>1
    <3>2. CASE n \in Range(msgs[d])
      <4>1. n \in Msg /\ msg[n] # NULL /\ msg[n].kind = Kind(d) /\ ~msg[n].done
        BY <1>4, <3>2
      <4> QED
        BY <1>2, <4>1
    <3> QED
      BY <1>6, <1>8, <2>1, <3>1, <3>2
  <2> QED
    BY <2>1
<1>10. m \notin InVector
  BY <1>1 DEF Homes, InVector
<1> QED
  BY <1>2, <1>3, <1>5, <1>6, <1>7, <1>9, <1>10 DEF WrittenIs

LEMMA PcSame ==
  ASSUME IInv, NEW c \in Client, pc' = pc
  PROVE  pc' = [pc EXCEPT ![c] = pc[c]]
BY DEF IInv, Types

LEMMA WriteClientKeeps ==
  ASSUME Assumed, IInv, NEW c \in Client, NEW m \in Msg, NEW tx \in BOOLEAN, NEW cb \in BOOLEAN,
         NEW n \in Lengths, WriteClient(c, m, tx, cb, n)
  PROVE  IInv'
<1> DEFINE x == NewMessage(c, tx, cb, n)
<1>1. /\ cur = NULL /\ pc[c] = "open" /\ msg[m] = NULL /\ msg' = [msg EXCEPT ![m] = x]
      /\ msgs' = [msgs EXCEPT ![c] = Append(@, m)] /\ UNCHANGED <<vec, hwVars, eventVars>>
      /\ pc' = pc /\ index' = index /\ rc' = rc /\ length' = length /\ cur' = cur
      /\ holder' = holder
  BY DEF WriteClient, MayAdd, AddEntry, threadVars
<1>2. x \in Features /\ x.kind = Kind(c) /\ ~x.done
  BY NewMessageIs
<1> HIDE DEF x
<1>3. /\ msg' \in [Msg -> Features \cup {NULL}] /\ msgs' \in [Client -> Seq(Msg)]
      /\ Homes(msg', msgs', vec) /\ msgs'[c] # <<>>
      /\ m \notin InVector
      /\ \A k \in Msg : k # m => msg'[k] = msg[k]
      /\ \A d \in Client : d # c => msgs'[d] = msgs[d]
      /\ \A d \in Client : \A k \in Range(msgs'[d]) :
           msg'[k] # NULL /\ msg'[k].kind = Kind(d) /\ ~msg'[k].done
  <2>1. msg[m] = NULL /\ msg' = [msg EXCEPT ![m] = x] /\ msgs' = [msgs EXCEPT ![c] = Append(@, m)]
    BY <1>1
  <2>2. WrittenIs(msg', msgs', c, m)
    BY <1>2, <2>1, Written
  <2> QED
    BY <2>2 DEF WrittenIs
<1>4. /\ InVector' = InVector /\ InVector \in SUBSET Msg
      /\ \A k \in InVector : msg'[k] = msg[k]
  BY <1>1, <1>3, VectorIs DEF InVector, IInv, Types
<1>5. Types'
  BY <1>1, <1>3 DEF IInv, Types, hwVars, eventVars
<1>6. Placed'
  BY <1>1, <1>3 DEF Placed
<1>7. pc' = [pc EXCEPT ![c] = "open"]
  BY <1>1, PcSame
<1>8. Threads'
  BY <1>1 DEF IInv, Threads
<1>9. Queues'
  BY <1>1, <1>7, QueuesMove
<1>10. Turns'
  <2>1. \A k \in InVector' : msg'[k].kind = Kind(c)
    BY <1>1, <1>4, AsideTurns
  <2>2. cur \in {c, NULL} /\ pc[c] # "closed"
    BY <1>1
  <2>3. /\ \A d \in Client : d # c => msgs'[d] = msgs[d]
        /\ \A d \in Client : \A k \in Range(msgs'[d]) :
             msg'[k] # NULL /\ msg'[k].kind = Kind(d) /\ ~msg'[k].done
    BY <1>3
  <2> QED
    BY <1>7, <2>1, <2>2, <2>3, TurnsMove
<1> QED
  BY <1>1, <1>4, <1>5, <1>6, <1>7, <1>8, <1>9, <1>10, AsideTurns, AsideKeeps

\* The list of a client is freed.
LEMMA DropMessagesIs ==
  ASSUME Assumed, IInv, NEW c \in Client, DropMessages(c), vec' = vec
  PROVE  /\ msg' \in [Msg -> Features \cup {NULL}] /\ msgs' \in [Client -> Seq(Msg)]
         /\ Placed' /\ msgs'[c] = <<>>
         /\ InVector' = InVector /\ \A m \in InVector : msg'[m] = msg[m]
         /\ \A d \in Client : d # c => msgs'[d] = msgs[d]
         /\ \A d \in Client : \A n \in Range(msgs'[d]) :
              msg'[n] # NULL /\ msg'[n].kind = Kind(d) /\ ~msg'[n].done
<1>1. /\ msg' = [m \in Msg |-> IF m \in Range(msgs[c]) THEN NULL ELSE msg[m]]
      /\ msgs' = [msgs EXCEPT ![c] = <<>>]
  BY DEF DropMessages, Without
<1>2. /\ msg \in [Msg -> Features \cup {NULL}] /\ msgs \in [Client -> Seq(Msg)]
      /\ Homes(msg, msgs, vec) /\ Entries(vec) \in SUBSET Msg /\ InVector \in SUBSET Msg
  BY VectorIs DEF IInv, Types, Placed, InVector
<1>3. \A m \in Msg : msg'[m] = IF m \in Range(msgs[c]) THEN NULL ELSE msg[m]
  BY <1>1
<1>4. msgs'[c] = <<>> /\ \A d \in Client : d # c => msgs'[d] = msgs[d]
  BY <1>1, <1>2
<1>5. msg' \in [Msg -> Features \cup {NULL}] /\ msgs' \in [Client -> Seq(Msg)]
  <2>1. <<>> \in Seq(Msg)
    OBVIOUS
  <2> QED
    BY <1>1, <1>2, <2>1
<1>6. Placed'
  BY <1>1, <1>2, <1>3, HomesDropped DEF Placed
<1>7. InVector' = InVector /\ \A m \in InVector : msg'[m] = msg[m]
  BY <1>2, <1>3, ListsAre DEF InVector
<1>8. ASSUME NEW d \in Client, NEW n \in Range(msgs'[d])
      PROVE  msg'[n] # NULL /\ msg'[n].kind = Kind(d) /\ ~msg'[n].done
  <2>1. d # c
    BY <1>4, <1>8 DEF Range
  <2>2. n \in Range(msgs[d]) /\ n \in Msg /\ msg[n] # NULL /\ msg[n].kind = Kind(d) /\ ~msg[n].done
    BY <1>4, <1>8, <2>1, ListsAre
  <2>3. n \notin Range(msgs[c])
    BY <1>2, <2>1, <2>2 DEF Homes
  <2> QED
    BY <1>3, <2>2, <2>3
<1> QED
  BY <1>4, <1>5, <1>6, <1>7, <1>8

\* i2cdev_close and i2cdev_error.
LEMMA DroppedKeeps ==
  ASSUME Assumed, IInv, NEW c \in Client, cur = NULL, pc[c] = "open", DropMessages(c),
         NEW q \in {"closed", "open"}, pc' = [pc EXCEPT ![c] = q],
         UNCHANGED <<vec, hwVars, eventVars, holder, index, rc, length, cur>>
  PROVE  IInv'
<1>1. /\ msg' \in [Msg -> Features \cup {NULL}] /\ msgs' \in [Client -> Seq(Msg)]
      /\ Placed' /\ msgs'[c] = <<>>
      /\ InVector' = InVector /\ \A m \in InVector : msg'[m] = msg[m]
      /\ \A d \in Client : d # c => msgs'[d] = msgs[d]
      /\ \A d \in Client : \A n \in Range(msgs'[d]) :
           msg'[n] # NULL /\ msg'[n].kind = Kind(d) /\ ~msg'[n].done
  BY DropMessagesIs
<1>2. Types'
  <2>1. pc' \in [Client -> Stages]
    BY DEF IInv, Types, Stages
  <2> QED
    BY <1>1, <2>1 DEF IInv, Types, hwVars, eventVars
<1>3. Threads'
  <2>1. q \in Stages /\ q \notin InCore
    BY DEF Stages, InCore
  <2>2. c \in Masters => holder # c
    BY DEF IInv, Threads
  <2> QED
    BY <2>1, <2>2, KindIs, ThreadsMove
<1>4. Queues'
  BY QueuesMove
<1>5. Turns'
  BY <1>1, AsideTurns, TurnsMove
<1> QED
  BY <1>1, <1>2, <1>3, <1>4, <1>5, AsideTurns, AsideKeeps

LEMMA CloseKeeps ==
  ASSUME Assumed, IInv, NEW c \in Client, Close(c)
  PROVE  IInv'
<1>1. /\ cur = NULL /\ pc[c] = "open" /\ DropMessages(c) /\ pc' = [pc EXCEPT ![c] = "closed"]
      /\ UNCHANGED <<vec, hwVars, eventVars, holder, index, rc, length, cur>>
  BY DEF Close
<1> QED
  BY <1>1, DroppedKeeps

LEMMA ErrorKeeps ==
  ASSUME Assumed, IInv, NEW c \in Client, Error(c)
  PROVE  IInv'
<1>1. /\ cur = NULL /\ pc[c] = "open" /\ DropMessages(c) /\ pc' = pc
      /\ UNCHANGED <<vec, hwVars, eventVars, holder, index, rc, length, cur>>
  BY DEF Error, threadVars
<1>2. pc' = [pc EXCEPT ![c] = "open"]
  BY <1>1, PcSame
<1> QED
  BY <1>1, <1>2, DroppedKeeps

LEMMA FlushKeepsMaster ==
  ASSUME Assumed, IInv, NEW c \in Masters, Flush(c)
  PROVE  IInv'
<1>1. /\ cur = NULL /\ cur' = cur /\ pc[c] = "open" /\ msgs[c] # <<>>
      /\ pc' = [pc EXCEPT ![c] = "lock"] /\ UNCHANGED <<msg, msgs, vec>>
      /\ rc' = [rc EXCEPT ![c] = 0] /\ index' = [index EXCEPT ![c] = vec.length]
      /\ UNCHANGED <<hwVars, eventVars, holder, length>> /\ c \in Client /\ c \notin Slaves
      /\ InVector' = InVector
  BY KindIs, ClientsAre DEF Flush, Starting, InVector
<1>2. Types'
  <2>1. pc' \in [Client -> Stages]
    BY <1>1 DEF IInv, Types, Stages
  <2>2. vec.length \in Int
    BY VectorIs DEF IInv, Types
  <2>3. /\ rc' \in [Client -> {-1, 0, 1}] /\ index' \in [Client -> Int]
    BY <1>1, <2>2 DEF IInv, Types
  <2> QED
    BY <1>1, <2>1, <2>3 DEF IInv, Types, hwVars, eventVars
<1>3. Placed'
  BY <1>1 DEF IInv, Placed
<1>4. Threads'
  <2>1. "lock" \in Stages /\ "lock" \notin InCore
    BY DEF Stages, InCore
  <2>2. holder # c
    BY <1>1 DEF IInv, Threads
  <2> QED
    BY <1>1, <2>1, <2>2, ThreadsMove
<1>5. Queues'
  BY <1>1, QueuesMove
<1>6. \A d \in Client : \A m \in Range(msgs[d]) :
        msg[m] # NULL /\ msg[m].kind = Kind(d) /\ ~msg[m].done
  BY ListsAre
<1>7. Turns'
  BY <1>1, <1>6, AsideTurns, TurnsMove
<1>8. \A d \in Client : d # c => rc'[d] = rc[d] /\ index'[d] = index[d] /\ length'[d] = length[d]
  BY <1>1 DEF IInv, Types
<1> QED
  BY <1>1, <1>2, <1>3, <1>4, <1>5, <1>7, <1>8, AsideTurns, AsideKeeps

\* A master that has its file open, and the bus.
LEMMA MasterIs ==
  ASSUME Assumed, IInv, NEW c \in Masters, pc[c] # "closed"
  PROVE  /\ c \in Client /\ c \notin Slaves /\ Kind(c) = "master" /\ "master" \in Kinds
         /\ ptr.slave = NULL /\ twi # "heldS"
         /\ \A m \in InVector : msg[m].kind = "master"
         /\ busy => PendingIn("master") \/ twi = "st"
         /\ First(vec, msg, "slave") = NULL
         /\ \A d \in Slaves : pc[d] = "closed"
<1>1. /\ \A m \in InVector : msg[m].kind = "master"
      /\ S = NULL /\ twi # "heldS" /\ NoPending
      /\ \A d \in Slaves : pc[d] = "closed"
  BY MasterTurn
<1>2. c \in Client /\ c \notin Slaves /\ Kind(c) = "master" /\ "master" \in Kinds
  BY KindIs, ClientsAre DEF Kinds
<1>3. busy => PendingIn("master") \/ twi = "st"
  BY <1>1 DEF IInv, SlaveInv, SlaveBusy
<1>4. First(vec, msg, "slave") = NULL
  BY <1>1, NowFirst DEF NoPending
<1> QED
  BY <1>1, <1>2, <1>3, <1>4 DEF S

\* One that holds the adapter.
LEMMA HolderIs ==
  ASSUME Assumed, IInv, NEW c \in Masters, pc[c] \notin {"closed", "open", "lock"}
  PROVE  /\ holder = c /\ \A d \in Masters : d # c => pc[d] \in {"closed", "open", "lock"}
         /\ pc[c] # "wait" => ec["master"] = 0
         /\ pc[c] \notin {"update", "add"} => (twcr.sta \/ twi \in Transfers => MReady)
<1>1. holder = c /\ \A d \in Masters : d # c => pc[d] \in {"closed", "open", "lock"}
  BY BusConstants, OneHolder DEF IInv
<1>2. pc[c] # "wait" => ec["master"] = 0
  <2>1. pc[c] # "wait" => \A d \in Client : Kind(d) = "master" => pc[d] # "wait"
    BY <1>1, KindIs
  <2>2. "master" \in Kinds
    BY DEF Kinds
  <2> QED
    BY <2>1, <2>2, NoEvent
<1>3. pc[c] \notin {"update", "add"} => ~Adding
  BY <1>1 DEF Adding
<1> QED
  BY <1>1, <1>2, <1>3 DEF IInv, MasterInv, Sends

\* All the messages of the vector are those of masters: all that are left go.
LEMMA MastersLeftIs ==
  ASSUME Assumed, IInv, \A m \in InVector : msg[m].kind = "master"
  PROVE  /\ \A m \in InVector : msg[m].done \/ m \in MastersLeft
         /\ MastersLeft \in SUBSET InVector
<1> DEFINE i == Pending(vec, msg, "master")
           some == {m \in OfKind(msg, "master") : ~msg[m].done}
<1>1. i = FirstMsg(vec, some)
  BY DEF Pending
<1>2. /\ InVector \in SUBSET Msg /\ vec.length \in Nat
      /\ \A j \in 0 .. vec.length - 1 : vec.data[j] \in InVector
      /\ \A m \in InVector : \E j \in 0 .. vec.length - 1 : vec.data[j] = m
  BY VectorIs DEF IInv, Types, Slots
<1>3. \A m \in InVector : m \in some <=> ~msg[m].done
  BY <1>2 DEF OfKind, IInv, Placed, Homes, InVector
<1> HIDE DEF some
<1>4. /\ i = NULL => \A j \in 0 .. vec.length - 1 : vec.data[j] \notin some
      /\ i # NULL => /\ i \in 0 .. vec.length - 1
                     /\ \A j \in 0 .. vec.length - 1 : j < i => vec.data[j] \notin some
  BY <1>1, <1>2, FirstMsgIs DEF Assumed, NullIsApart
<1>5. CASE i = NULL
  BY <1>2, <1>3, <1>4, <1>5 DEF MastersLeft
<1>6. CASE i # NULL
  <2>1. MastersLeft = {vec.data[j] : j \in {j \in i .. vec.length - 1 :
                                   \A n \in i .. j : msg[vec.data[n]].kind = "master"}}
    BY <1>6 DEF MastersLeft
  <2>2. i \in Nat
    BY <1>2, <1>4, <1>6
  <2> HIDE DEF i
  <2>3. ASSUME NEW j \in 0 .. vec.length - 1, ~msg[vec.data[j]].done
        PROVE  vec.data[j] \in MastersLeft
    <3>1. ~(j < i)
      BY <1>2, <1>3, <1>4, <1>6, <2>3
    <3>2. j \in i .. vec.length - 1
      BY <1>2, <2>2, <3>1
    <3>3. \A n \in i .. j : n \in 0 .. vec.length - 1
      BY <1>2, <2>2, <3>2
    <3>4. \A n \in i .. j : msg[vec.data[n]].kind = "master"
      BY <1>2, <3>3
    <3> QED
      BY <2>1, <3>2, <3>4
  <2>4. \A j \in i .. vec.length - 1 : vec.data[j] \in InVector
    BY <1>2, <2>2
  <2> QED
    BY <1>2, <2>1, <2>3, <2>4
<1> QED
  BY <1>5, <1>6

\* The cleaning of all the messages of the vector.
LEMMA EmptiedFrom ==
  ASSUME Assumed, IInv, NEW base \in [Msg -> Features \cup {NULL}], NEW lists,
         Homes(base, lists, vec), NEW gone, NEW k, CleanUp(Marked(base, gone), k),
         \A m \in InVector : base[m].kind = k /\ (base[m].done \/ m \in gone),
         gone \in SUBSET InVector
  PROVE  /\ VectorOK(vec') /\ InVector' = {} /\ vec'.length = 0
         /\ msg' \in [Msg -> Features \cup {NULL}]
         /\ \A m \in Msg : m \notin InVector => msg'[m] = base[m]
         /\ Homes(msg', lists, vec')
<1> DEFINE ms == Marked(base, gone)
<1>1. /\ InVector \in SUBSET Msg /\ InVector = Entries(vec) /\ VectorOK(vec)
      /\ base \in [Msg -> Features \cup {NULL}] /\ \A m \in InVector : base[m] \in Features
      /\ NULL \notin Msg /\ NullIsApart /\ NULL \notin Features
  BY VectorIs DEF IInv, Types, InVector, Homes, Assumed, NullIsApart
<1>2. ms = [m \in Msg |-> IF m \in gone THEN [base[m] EXCEPT !.done = TRUE] ELSE base[m]]
  BY DEF Marked
<1>3. \A m \in Msg : m \notin gone => ms[m] = base[m]
  BY <1>2
<1>4. \A m \in gone : ms[m] = [base[m] EXCEPT !.done = TRUE]
  BY <1>1, <1>2
<1>5. ASSUME NEW m \in gone PROVE ms[m].done /\ ms[m].kind = base[m].kind /\ ms[m] # NULL
  <2>1. base[m] \in Features
    BY <1>1
  <2>2. [base[m] EXCEPT !.done = TRUE] \in Features /\ [base[m] EXCEPT !.done = TRUE].done
        /\ [base[m] EXCEPT !.done = TRUE].kind = base[m].kind
    BY <2>1 DEF Features
  <2> QED
    BY <1>1, <1>4, <2>2
<1> HIDE DEF ms
<1>6. \A m \in InVector : ms[m].kind = k /\ ms[m].done
  BY <1>1, <1>3, <1>5
<1>7. CleanedIn(ms, msg', vec, vec', k)
  BY <1>1, CleanUpIs DEF ms
<1>8. /\ VectorOK(vec') /\ InVector' = {}
      /\ \A m \in Msg : msg'[m] = IF m \in InVector THEN NULL ELSE ms[m]
  BY <1>1, <1>6, <1>7 DEF CleanedIn, InVector
<1>9. vec'.length = 0
  BY <1>8, NextVectorIs
<1>10. \A m \in Msg : m \notin InVector => msg'[m] = base[m]
  BY <1>3, <1>8
<1>11. msg' \in [Msg -> Features \cup {NULL}]
  <2>1. msg' = Without(ms, Gone(vec, ms, k))
    BY DEF CleanUp, ms
  <2>2. msg' = [m \in Msg |-> msg'[m]]
    BY <2>1 DEF Without
  <2>3. \A m \in Msg : msg'[m] \in Features \cup {NULL}
    BY <1>1, <1>8, <1>10
  <2> QED
    BY <2>2, <2>3
<1>12. Homes(ms, lists, vec)
  <2>1. \A m \in Msg : ms[m] = NULL <=> base[m] = NULL
    BY <1>1, <1>3, <1>5
  <2> QED
    BY <1>1, <2>1, HomesSame
<1>13. Homes(msg', lists, vec')
  BY <1>1, <1>7, <1>12, HomesCleaned
<1> QED
  BY <1>8, <1>9, <1>10, <1>11, <1>13

LEMMA EmptiedIs ==
  ASSUME Assumed, IInv, NEW gone, NEW k, CleanUp(Marked(msg, gone), k),
         \A m \in InVector : msg[m].kind = k /\ (msg[m].done \/ m \in gone),
         gone \in SUBSET InVector
  PROVE  /\ VectorOK(vec') /\ InVector' = {} /\ vec'.length = 0
         /\ msg' \in [Msg -> Features \cup {NULL}]
         /\ \A m \in Msg : m \notin InVector => msg'[m] = msg[m]
         /\ Homes(msg', msgs, vec')
<1>1. msg \in [Msg -> Features \cup {NULL}] /\ Homes(msg, msgs, vec)
  BY DEF IInv, Types, Placed
<1> QED
  BY <1>1, EmptiedFrom

LEMMA UpdateIs ==
  ASSUME Assumed, IInv, Update
  PROVE  /\ ptr' \in PtrTypes /\ ptr'.lastMaster = ptr.lastMaster /\ ptr'.lastSlave = ptr.lastSlave
         /\ busy => ptr' = ptr
         /\ ~busy => /\ ptr'.master = First(vec, msg, "master")
                     /\ ptr'.slave = First(vec, msg, "slave")
<1>1. ptr \in PtrTypes /\ ptr' = IF busy THEN ptr ELSE Updated(ptr, vec, msg)
  BY DEF PtrTypes, IInv, Types, Update
<1>2. First(vec, msg, "master") \in Msg \cup {NULL} /\ First(vec, msg, "slave") \in Msg \cup {NULL}
  BY NowFirst
<1>3. /\ Updated(ptr, vec, msg) \in PtrTypes
      /\ Updated(ptr, vec, msg).master = First(vec, msg, "master")
      /\ Updated(ptr, vec, msg).slave = First(vec, msg, "slave")
      /\ Updated(ptr, vec, msg).lastMaster = ptr.lastMaster
      /\ Updated(ptr, vec, msg).lastSlave = ptr.lastSlave
  BY <1>1, <1>2, UpdatedIs
<1> QED
  BY <1>1, <1>3

LEMMA LockKeeps ==
  ASSUME Assumed, IInv, NEW c \in Client, Lock(c)
  PROVE  IInv'
<1>1. /\ cur = NULL /\ pc[c] = "lock" /\ holder = NULL /\ holder' = c /\ cur' = c
      /\ index' = [index EXCEPT ![c] = vec'.length] /\ msgs' = msgs
      /\ UNCHANGED <<hwVars, eventVars, rc, length>>
      /\ \/ ~busy /\ CleanUp(Marked(msg, MastersLeft), "master") /\ pc' = [pc EXCEPT ![c] = "update"]
         \/ busy /\ pc' = [pc EXCEPT ![c] = "add"] /\ UNCHANGED <<msg, vec>>
  BY DEF Lock, Goto
<1>2. c \in Masters
  BY <1>1, KindIs DEF IInv, Threads
<1>3. /\ c \notin Slaves /\ Kind(c) = "master" /\ "master" \in Kinds
      /\ ptr.slave = NULL /\ twi # "heldS"
      /\ \A m \in InVector : msg[m].kind = "master"
      /\ busy => PendingIn("master") \/ twi = "st"
  BY <1>1, <1>2, MasterIs
<1>4. \A d \in Masters : pc[d] \in {"closed", "open", "lock"}
  BY <1>1, <1>2, BusConstants, ClientsAre DEF IInv, Threads
<1>5. ec["master"] = 0
  BY <1>3, <1>4, KindIs, NoEvent
<1>6. /\ busy' = busy /\ ptr' = ptr /\ bufferIndex' = bufferIndex /\ twcr' = twcr /\ twi' = twi
      /\ ec' = ec /\ UNCHANGED eventVars
  BY <1>1 DEF hwVars, eventVars
<1>7. /\ \A d \in Client : \A m \in Range(msgs[d]) :
           m \in Msg /\ m \notin InVector /\ msg[m] # NULL /\ msg[m].kind = Kind(d) /\ ~msg[m].done
      /\ msgs[c] # <<>>
  BY <1>1, ListsAre DEF IInv, Turns
<1>8. CASE ~busy /\ CleanUp(Marked(msg, MastersLeft), "master") /\ pc' = [pc EXCEPT ![c] = "update"]
  <2>1. /\ VectorOK(vec') /\ InVector' = {} /\ vec'.length = 0
        /\ msg' \in [Msg -> Features \cup {NULL}]
        /\ \A m \in Msg : m \notin InVector => msg'[m] = msg[m]
        /\ Homes(msg', msgs, vec')
    BY <1>3, <1>8, MastersLeftIs, EmptiedIs
  <2>2. Types'
    <3>1. pc' \in [Client -> Stages]
      BY <1>8 DEF IInv, Types, Stages
    <3>2. index' \in [Client -> Int]
      BY <1>1, <2>1 DEF IInv, Types
    <3> QED
      BY <1>1, <1>6, <2>1, <3>1, <3>2 DEF IInv, Types
  <2>3. Placed'
    BY <1>1, <2>1 DEF Placed
  <2>4. Threads'
    <3>1. "update" \in Stages /\ "update" \in InCore
      BY DEF Stages, InCore
    <3> QED
      BY <1>1, <1>3, <1>8, <3>1, ThreadsMove
  <2>5. Queues'
    BY <1>1, <1>6, <1>8, QueuesMove
  <2>6. Turns'
    <3>1. \A d \in Client : \A m \in Range(msgs'[d]) :
            msg'[m] # NULL /\ msg'[m].kind = Kind(d) /\ ~msg'[m].done
      BY <1>1, <1>7, <2>1
    <3>2. \A m \in InVector' : msg'[m].kind = Kind(c)
      BY <2>1
    <3> QED
      BY <1>1, <1>7, <1>8, <3>1, <3>2, TurnsMove
  <2>7. pc'[c] = "update"
    BY <1>1, <1>8 DEF IInv, Types
  <2>8. (Signals /\ Sends /\ Holds)'
    <3>1. Signals'
      BY <1>6 DEF IInv, MasterInv, Signals
    <3>2. Adding'
      BY <1>2, <2>7 DEF Adding
    <3>3. Sends'
      BY <1>6, <1>8, <3>2 DEF Sends
    <3>4. Holds'
      BY <1>6, <1>8 DEF IInv, MasterInv, Signals, Holds, Transfers
    <3> QED
      BY <3>1, <3>3, <3>4
  <2>9. (MasterLoops(c) /\ MasterWaits(c))'
    BY <2>7 DEF MasterLoops, MasterWaits
  <2>10. /\ pc' = [pc EXCEPT ![c] = "update"] /\ pc[c] # "closed"
         /\ \A d \in Masters : d # c => pc[d] \in {"closed", "open", "lock"}
         /\ \A m \in InVector' : msg'[m].kind = "master"
         /\ ptr'.slave = NULL /\ twi' # "heldS" /\ ~busy' /\ ~(ec'["master"] > 0)
    BY <1>1, <1>3, <1>4, <1>5, <1>6, <1>8, <2>1
  <2> QED
    BY <1>2, <2>2, <2>3, <2>4, <2>5, <2>6, <2>8, <2>9, <2>10, MasterMoves
<1>9. CASE busy /\ pc' = [pc EXCEPT ![c] = "add"] /\ UNCHANGED <<msg, vec>>
  <2>1. InVector' = InVector /\ \A k : PendingIn(k)' <=> PendingIn(k)
    BY <1>9 DEF InVector, PendingIn
  <2>2. Types'
    <3>1. pc' \in [Client -> Stages]
      BY <1>9 DEF IInv, Types, Stages
    <3>2. vec.length \in Int
      BY VectorIs DEF IInv, Types
    <3>3. index' \in [Client -> Int]
      BY <1>1, <1>9, <3>2 DEF IInv, Types
    <3> QED
      BY <1>1, <1>6, <1>9, <3>1, <3>3 DEF IInv, Types
  <2>3. Placed'
    BY <1>1, <1>9 DEF IInv, Placed
  <2>4. Threads'
    <3>1. "add" \in Stages /\ "add" \in InCore
      BY DEF Stages, InCore
    <3> QED
      BY <1>1, <1>3, <1>9, <3>1, ThreadsMove
  <2>5. Queues'
    BY <1>1, <1>6, <1>9, QueuesMove
  <2>6. Turns'
    <3>1. \A d \in Client : \A m \in Range(msgs'[d]) :
            msg'[m] # NULL /\ msg'[m].kind = Kind(d) /\ ~msg'[m].done
      BY <1>1, <1>7, <1>9
    <3>2. \A m \in InVector' : msg'[m].kind = Kind(c)
      BY <1>3, <1>9, <2>1
    <3> QED
      BY <1>1, <1>7, <1>9, <3>1, <3>2, TurnsMove
  <2>7. pc'[c] = "add"
    BY <1>1, <1>9 DEF IInv, Types
  <2>8. ~Adding
    BY <1>4 DEF Adding
  <2>9. MReady' <=> MReady
    BY <1>6, <1>9, <2>1 DEF MReady, M
  <2>10. (Signals /\ Sends /\ Holds)'
    BY <1>6, <2>1, <2>8, <2>9 DEF IInv, MasterInv, Signals, Sends, Holds
  <2>11. (MasterLoops(c) /\ MasterWaits(c))'
    BY <2>7 DEF MasterLoops, MasterWaits
  <2>12. /\ pc' = [pc EXCEPT ![c] = "add"] /\ pc[c] # "closed"
         /\ \A d \in Masters : d # c => pc[d] \in {"closed", "open", "lock"}
         /\ \A m \in InVector' : msg'[m].kind = "master"
         /\ ptr'.slave = NULL /\ twi' # "heldS" /\ (busy' => PendingIn("master")' \/ twi' = "st")
         /\ ~(ec'["master"] > 0)
    BY <1>1, <1>3, <1>4, <1>5, <1>6, <1>9, <2>1
  <2> QED
    BY <1>2, <2>2, <2>3, <2>4, <2>5, <2>6, <2>10, <2>11, <2>12, MasterMoves
<1> QED
  BY <1>1, <1>8, <1>9

LEMMA MasterTmoUpdateKeeps ==
  ASSUME Assumed, IInv, NEW c \in Client, MasterTmoUpdate(c)
  PROVE  IInv'
<1>1. /\ cur = c /\ pc[c] = "update" /\ Update /\ pc' = [pc EXCEPT ![c] = "add"]
      /\ UNCHANGED <<msg, msgs, vec, busy, bufferIndex, twcr, twi, eventVars, holder, index, rc,
                     length, cur>>
  BY DEF MasterTmoUpdate, Goto
<1>2. c \in Masters
  BY <1>1, KindIs DEF IInv, Threads
<1>3. /\ c \notin Slaves /\ Kind(c) = "master"
      /\ ptr.slave = NULL /\ twi # "heldS"
      /\ \A m \in InVector : msg[m].kind = "master"
      /\ busy => PendingIn("master") \/ twi = "st"
      /\ First(vec, msg, "slave") = NULL
  BY <1>1, <1>2, MasterIs
<1>4. /\ holder = c /\ \A d \in Masters : d # c => pc[d] \in {"closed", "open", "lock"}
      /\ ec["master"] = 0
  BY <1>1, <1>2, HolderIs
<1>5. /\ ptr' \in PtrTypes /\ ptr'.lastMaster = ptr.lastMaster /\ (busy => ptr' = ptr)
      /\ ptr'.slave = NULL
  BY <1>1, <1>3, UpdateIs
<1>6. InVector' = InVector /\ \A k : PendingIn(k)' <=> PendingIn(k)
  BY <1>1 DEF InVector, PendingIn
<1>7. msgs[c] # <<>>
  BY <1>1 DEF IInv, Turns
<1>8. Types'
  <2>1. pc' \in [Client -> Stages]
    BY <1>1 DEF IInv, Types, Stages
  <2> QED
    BY <1>1, <1>5, <2>1 DEF IInv, Types, eventVars, PtrTypes
<1>9. Placed'
  BY <1>1 DEF IInv, Placed
<1>10. Threads'
  <2>1. "add" \in Stages /\ "add" \in InCore
    BY DEF Stages, InCore
  <2> QED
    BY <1>1, <1>3, <1>4, <2>1, ThreadsMove
<1>11. Queues' /\ ec' = ec
  BY <1>1, QueuesMove
<1>12. Turns'
  <2>1. \A d \in Client : \A m \in Range(msgs'[d]) :
          msg'[m] # NULL /\ msg'[m].kind = Kind(d) /\ ~msg'[m].done
    BY <1>1, ListsAre
  <2>2. \A m \in InVector' : msg'[m].kind = Kind(c)
    BY <1>1, <1>3, <1>6
  <2> QED
    BY <1>1, <1>7, <2>1, <2>2, TurnsMove
<1>13. pc'[c] = "add"
  BY <1>1 DEF IInv, Types
<1>14. (Signals /\ Sends /\ Holds)'
  <2>1. Adding'
    BY <1>2, <1>13 DEF Adding
  <2>2. ASSUME busy, twcr.sta \/ twi \in Transfers PROVE MReady'
    <3>1. MReady
      BY <2>2 DEF IInv, MasterInv, Sends
    <3> QED
      BY <1>1, <1>5, <1>6, <2>2, <3>1 DEF MReady, M
  <2>3. Sends'
    BY <1>1, <2>1, <2>2 DEF Sends, IInv, Types
  <2> QED
    BY <1>1, <1>6, <2>3 DEF IInv, MasterInv, Signals, Holds
<1>15. (MasterLoops(c) /\ MasterWaits(c))'
  BY <1>13 DEF MasterLoops, MasterWaits
<1>16. /\ pc' = [pc EXCEPT ![c] = "add"] /\ pc[c] # "closed"
       /\ \A m \in InVector' : msg'[m].kind = "master"
       /\ twi' # "heldS" /\ (busy' => PendingIn("master")' \/ twi' = "st")
       /\ ~(ec'["master"] > 0)
  BY <1>1, <1>3, <1>4, <1>6, <1>11
<1> QED
  BY <1>2, <1>4, <1>5, <1>8, <1>9, <1>10, <1>11, <1>12, <1>14, <1>15, <1>16, MasterMoves

\* A step of the holder that leaves the messages and the bus alone.
LEMMA MasterStays ==
  ASSUME Assumed, IInv, NEW c \in Masters, pc[c] \notin {"closed", "open", "lock", "update", "add"},
         NEW q \in Stages, q \notin {"closed", "open", "lock", "update", "add"},
         pc' = [pc EXCEPT ![c] = q], UNCHANGED <<msg, msgs, vec, hwVars, holder>>,
         cur \in {c, NULL}, cur' = IF q \in InCore THEN c ELSE NULL,
         rc' \in [Client -> {-1, 0, 1}], index' \in [Client -> Int], length' \in [Client -> Nat],
         ec' \in [Kinds -> Nat], Queues',
         ec'["master"] > 0 => LastMasterOK,
         q = "woken" => (rc'[c] = 0 => LastMasterOK) /\ (length'[c] > 0 => rc'[c] = 0),
         MasterLoops(c)', MasterWaits(c)'
  PROVE  IInv'
<1>1. /\ msg' = msg /\ msgs' = msgs /\ vec' = vec /\ holder' = holder
      /\ busy' = busy /\ ptr' = ptr /\ bufferIndex' = bufferIndex /\ twcr' = twcr /\ twi' = twi
  BY DEF hwVars
<1>2. InVector' = InVector /\ \A k : PendingIn(k)' <=> PendingIn(k)
  BY <1>1 DEF InVector, PendingIn
<1>3. /\ c \in Client /\ c \notin Slaves /\ Kind(c) = "master"
      /\ ptr.slave = NULL /\ twi # "heldS"
      /\ \A m \in InVector : msg[m].kind = "master"
      /\ busy => PendingIn("master") \/ twi = "st"
  BY MasterIs
<1>4. /\ holder = c /\ \A d \in Masters : d # c => pc[d] \in {"closed", "open", "lock"}
      /\ twcr.sta \/ twi \in Transfers => MReady
  BY HolderIs
<1>5. Types'
  <2>1. pc' \in [Client -> Stages]
    BY DEF IInv, Types
  <2> QED
    BY <1>1, <2>1 DEF IInv, Types
<1>6. Placed'
  BY <1>1 DEF IInv, Placed
<1>7. Threads'
  BY <1>1, <1>3, <1>4, ThreadsMove
<1>8. Turns'
  <2>1. \A d \in Client : \A m \in Range(msgs'[d]) :
          msg'[m] # NULL /\ msg'[m].kind = Kind(d) /\ ~msg'[m].done
    BY <1>1, ListsAre
  <2>2. \A m \in InVector' : msg'[m].kind = Kind(c)
    BY <1>1, <1>2, <1>3
  <2>3. \A d \in Client : msgs'[d] = msgs[d]
    BY <1>1
  <2> QED
    BY <1>3, <2>1, <2>2, <2>3, TurnsMove
<1>9. (Signals /\ Sends /\ Holds)'
  <2>1. MReady' <=> MReady
    BY <1>1, <1>2 DEF MReady, M
  <2> QED
    BY <1>1, <1>2, <1>4, <2>1 DEF IInv, MasterInv, Signals, Sends, Holds
<1>10. LastMasterOK' <=> LastMasterOK
  BY <1>1, <1>2 DEF LastMasterOK, MasterQuiet
<1>11. q = "woken" => (rc'[c] = 0 => LastMasterOK') /\ (Resumed(c)' => rc'[c] = 0)
  BY <1>10 DEF Resumed
<1>12. /\ pc[c] # "closed"
       /\ \A m \in InVector' : msg'[m].kind = "master"
       /\ ptr'.slave = NULL /\ twi' # "heldS" /\ (busy' => PendingIn("master")' \/ twi' = "st")
  BY <1>1, <1>2, <1>3
<1> QED
  BY <1>4, <1>5, <1>6, <1>7, <1>8, <1>9, <1>10, <1>11, <1>12, MasterMoves

\* The one that waits in a queue leaves it empty.
LEMMA RemoveOnly ==
  ASSUME NEW c \in Client
  PROVE  RemoveFirst(<<c>>, c) = <<>>
<1> DEFINE s == <<c>>
           I == {i \in 1 .. Len(s) : s[i] = c}
<1>1. s \in Seq(Client) /\ Len(s) = 1 /\ s[1] = c
  OBVIOUS
<1> HIDE DEF s
<1>2. I = {1}
  BY <1>1
<1>3. Min(I) = 1
  BY <1>2, Lists!LeastOf DEF Min, Lists!Min
<1>4. SelectInSeq(s, LAMBDA v : v = c) = Min(I)
  BY <1>2 DEF SelectInSeq
<1>5. \E i \in 1 .. Len(s) : s[i] = c
  BY <1>1
<1>6. RemoveFirst(s, c) = RemoveAt(s, 1)
  BY <1>3, <1>4, <1>5 DEF RemoveFirst
<1>7. RemoveAt(s, 1) = <<>>
  BY <1>1 DEF RemoveAt
<1> QED
  BY <1>6, <1>7 DEF s

\* It leaves the queue for the number n of events.
LEMMA LeaveIs ==
  ASSUME IInv, NEW c \in Client, pc[c] = "wait", NEW n, Leave(Kind(c), c, n),
         pc' = [pc EXCEPT ![c] = "woken"]
  PROVE  /\ Queues' /\ ec' \in [Kinds -> Nat] /\ ec'[Kind(c)] = 0
         /\ \A k \in Kinds : k # Kind(c) => ec'[k] = ec[k]
<1> DEFINE k == Kind(c)
<1>1. /\ k \in Kinds /\ queue[k] = <<c>> /\ DOMAIN queue = Kinds /\ ec \in [Kinds -> Nat]
  BY KindIs DEF IInv, Queues, Types
<1>2. RemoveFirst(queue[k], c) = <<>>
  BY <1>1, RemoveOnly
<1>3. /\ queue' = [queue EXCEPT ![k] = IF n > 0 THEN SIGNALED ELSE <<>>]
      /\ ec' = [ec EXCEPT ![k] = 0]
  BY <1>2 DEF Leave
<1>4. /\ pc'[c] = "woken" /\ \A d \in Client : d # c => pc'[d] = pc[d]
  BY DEF IInv, Types
<1>5. /\ DOMAIN queue' = Kinds /\ queue'[k] \in {SIGNALED, <<>>}
      /\ \A j \in Kinds : j # k => queue'[j] = queue[j]
      /\ ec' \in [Kinds -> Nat] /\ ec'[k] = 0 /\ \A j \in Kinds : j # k => ec'[j] = ec[j]
  BY <1>1, <1>3
<1>6. ASSUME NEW d \in Client, pc[d] = "wait", d # c PROVE Kind(d) # k
  <2>1. Kind(d) = k => queue[k] = <<d>>
    BY <1>6 DEF IInv, Queues
  <2> QED
    BY <1>1, <1>6, <2>1
<1>7. ASSUME NEW j \in Kinds
      PROVE  \/ queue'[j] \in {SIGNALED, <<>>}
             \/ \E d \in Client : Kind(d) = j /\ pc'[d] = "wait" /\ queue'[j] = <<d>>
  <2>1. CASE j = k
    BY <1>5, <2>1
  <2>2. CASE j # k
    <3>1. \/ queue[j] \in {SIGNALED, <<>>}
          \/ \E d \in Client : Kind(d) = j /\ pc[d] = "wait" /\ queue[j] = <<d>>
      BY DEF IInv, Queues
    <3> QED
      BY <1>4, <1>5, <2>2, <3>1
  <2> QED
    BY <2>1, <2>2
<1>8. \A d \in Client : pc'[d] = "wait" => queue'[Kind(d)] = <<d>>
  <2>1. ASSUME NEW d \in Client, pc'[d] = "wait" PROVE queue'[Kind(d)] = <<d>>
    <3>1. d # c /\ pc[d] = "wait"
      BY <1>4, <2>1
    <3>2. Kind(d) \in Kinds /\ Kind(d) # k /\ queue[Kind(d)] = <<d>>
      BY <1>6, <3>1, KindIs DEF IInv, Queues
    <3> QED
      BY <1>5, <3>2
  <2> QED
    BY <2>1
<1>9. \A j \in Kinds : ec'[j] > 0 => queue'[j] \notin {SIGNALED, <<>>}
  BY <1>1, <1>5 DEF IInv, Queues
<1>10. Queues'
  BY <1>5, <1>7, <1>8, <1>9 DEF Queues
<1> QED
  BY <1>5, <1>10

\* It joins the queue, where nobody waits.
LEMMA WaitIs ==
  ASSUME IInv, NEW c \in Client, pc[c] # "wait", \A d \in Client : Kind(d) = Kind(c) => pc[d] # "wait",
         queue' = [queue EXCEPT ![Kind(c)] = IF @ = SIGNALED THEN <<c>> ELSE Append(@, c)],
         ec' = ec, pc' = [pc EXCEPT ![c] = "wait"]
  PROVE  Queues'
<1> DEFINE k == Kind(c)
<1>1. /\ k \in Kinds /\ DOMAIN queue = Kinds /\ queue[k] \in {SIGNALED, <<>>} /\ ec[k] = 0
  BY KindIs, NoEvent DEF IInv, Queues
<1>2. queue' = [queue EXCEPT ![k] = IF queue[k] = SIGNALED THEN <<c>> ELSE Append(queue[k], c)]
  BY <1>1
<1>3. Append(<<>>, c) = <<c>>
  OBVIOUS
<1>4. queue'[k] = <<c>> /\ DOMAIN queue' = Kinds /\ \A j \in Kinds : j # k => queue'[j] = queue[j]
  BY <1>1, <1>2, <1>3
<1>5. /\ pc'[c] = "wait" /\ \A d \in Client : d # c => pc'[d] = pc[d]
  BY DEF IInv, Types
<1>6. ASSUME NEW j \in Kinds
      PROVE  \/ queue'[j] \in {SIGNALED, <<>>}
             \/ \E d \in Client : Kind(d) = j /\ pc'[d] = "wait" /\ queue'[j] = <<d>>
  <2>1. CASE j = k
    BY <1>4, <1>5, <2>1
  <2>2. CASE j # k
    <3>1. \/ queue[j] \in {SIGNALED, <<>>}
          \/ \E d \in Client : Kind(d) = j /\ pc[d] = "wait" /\ queue[j] = <<d>>
      BY DEF IInv, Queues
    <3> QED
      BY <1>4, <1>5, <2>2, <3>1
  <2> QED
    BY <2>1, <2>2
<1>7. \A d \in Client : pc'[d] = "wait" => queue'[Kind(d)] = <<d>>
  <2>1. ASSUME NEW d \in Client, pc'[d] = "wait", d # c PROVE queue'[Kind(d)] = <<d>>
    <3>1. pc[d] = "wait" /\ Kind(d) \in Kinds /\ Kind(d) # k /\ queue[Kind(d)] = <<d>>
      BY <1>5, <2>1, KindIs DEF IInv, Queues
    <3> QED
      BY <1>4, <3>1
  <2> QED
    BY <1>4, <2>1
<1>8. \A j \in Kinds : ec'[j] > 0 => queue'[j] \notin {SIGNALED, <<>>}
  <2>1. \A j \in Kinds : ec'[j] > 0 => j # k
    BY <1>1
  <2> QED
    BY <1>4, <2>1 DEF IInv, Queues
<1> QED
  BY <1>4, <1>6, <1>7, <1>8 DEF Queues

\* The threads' variables of a step that keeps them.
LEMMA ThreadTypes ==
  ASSUME IInv
  PROVE  /\ rc \in [Client -> {-1, 0, 1}] /\ index \in [Client -> Int] /\ length \in [Client -> Nat]
         /\ ec \in [Kinds -> Nat]
BY DEF IInv, Types

LEMMA WaitNextKeepsMaster ==
  ASSUME Assumed, IInv, NEW c \in Masters, WaitNext(c)
  PROVE  IInv'
<1>1. /\ cur = c /\ pc[c] = "started" /\ cur' = NULL /\ pc' = [pc EXCEPT ![c] = "wait"]
      /\ queue' = [queue EXCEPT ![Kind(c)] = IF @ = SIGNALED THEN <<c>> ELSE Append(@, c)]
      /\ UNCHANGED <<msg, msgs, vec, hwVars, ec, holder, index, rc, length>>
  BY DEF WaitNext, Goto
<1>2. c \in Client /\ Kind(c) = "master"
  BY <1>1, MasterIs
<1>3. /\ \A d \in Masters : d # c => pc[d] \in {"closed", "open", "lock"}
      /\ ec["master"] = 0
  BY <1>1, HolderIs
<1>4. Queues'
  <2>1. \A d \in Client : Kind(d) = Kind(c) => pc[d] # "wait"
    BY <1>1, <1>2, <1>3, KindIs
  <2> QED
    BY <1>1, <1>2, <2>1, WaitIs
<1>5. /\ rc' \in [Client -> {-1, 0, 1}] /\ index' \in [Client -> Int] /\ length' \in [Client -> Nat]
      /\ ec' \in [Kinds -> Nat] /\ ~(ec'["master"] > 0)
  BY <1>1, <1>3, ThreadTypes
<1>6. pc'[c] = "wait"
  BY <1>1, <1>2 DEF IInv, Types
<1>7. MasterLoops(c)'
  BY <1>6 DEF MasterLoops
<1>8. MasterWaits(c)'
  <2>1. PendingIn("master") /\ (twcr.sta \/ twi \in Transfers \cup {"rep"} \/ busy)
    BY <1>1, <1>3 DEF IInv, MasterInv, MasterWaits
  <2> QED
    BY <1>1, <2>1 DEF MasterWaits, PendingIn, InVector, hwVars
<1>9. "wait" \in Stages /\ "wait" \notin InCore
  BY DEF Stages, InCore
<1> QED
  BY <1>1, <1>4, <1>5, <1>7, <1>8, <1>9, MasterStays

LEMMA PostEventKeepsMaster ==
  ASSUME Assumed, IInv, NEW c \in Masters, cur = NULL, ec["master"] > 0, pc[c] = "wait",
         Leave("master", c, ec["master"] - 1), pc' = [pc EXCEPT ![c] = "woken"],
         rc' = [rc EXCEPT ![c] = 0], UNCHANGED <<msg, msgs, vec, hwVars, holder, index, length, cur>>
  PROVE  IInv'
<1>1. c \in Client /\ Kind(c) = "master"
  BY MasterIs
<1>2. Queues' /\ ec' \in [Kinds -> Nat] /\ ec'["master"] = 0
  BY <1>1, LeaveIs
<1>3. LastMasterOK
  BY DEF IInv, MasterInv, MasterTold
<1>4. /\ rc' \in [Client -> {-1, 0, 1}] /\ index' \in [Client -> Int] /\ length' \in [Client -> Nat]
      /\ rc'[c] = 0
  BY <1>1, ThreadTypes
<1>5. pc'[c] = "woken"
  BY <1>1 DEF IInv, Types
<1>6. (MasterLoops(c) /\ MasterWaits(c))'
  BY <1>5 DEF MasterLoops, MasterWaits
<1>7. "woken" \in Stages /\ "woken" \notin InCore
  BY DEF Stages, InCore
<1> QED
  BY <1>2, <1>3, <1>4, <1>6, <1>7, MasterStays

LEMMA EventTMOKeepsMaster ==
  ASSUME Assumed, IInv, NEW c \in Masters, EventTMO(c)
  PROVE  IInv'
<1>1. c \in Client /\ Kind(c) = "master" /\ pc[c] = "wait"
  <2>1. pc[c] = "wait"
    BY DEF EventTMO
  <2> QED
    BY <2>1, MasterIs
<1>2. /\ cur = NULL /\ cur' = cur /\ pc' = [pc EXCEPT ![c] = "woken"] /\ rc' = [rc EXCEPT ![c] = -1]
      /\ Leave("master", c, ec["master"])
      /\ (IF length[c] > 0 THEN "resumeTmo" ELSE "masterTmo") \in Faults
      /\ UNCHANGED <<msg, msgs, vec, hwVars, holder, index, length>>
  BY <1>1 DEF EventTMO
<1>3. ~(length[c] > 0) /\ length' = length
  BY <1>2 DEF Assumed, Survived
<1>4. Queues' /\ ec' \in [Kinds -> Nat] /\ ec'["master"] = 0
  BY <1>1, <1>2, LeaveIs
<1>5. /\ rc' \in [Client -> {-1, 0, 1}] /\ index' \in [Client -> Int] /\ length' \in [Client -> Nat]
      /\ rc'[c] = -1
  BY <1>1, <1>2, ThreadTypes
<1>6. pc'[c] = "woken"
  BY <1>1, <1>2 DEF IInv, Types
<1>7. (MasterLoops(c) /\ MasterWaits(c))'
  BY <1>6 DEF MasterLoops, MasterWaits
<1>8. "woken" \in Stages /\ "woken" \notin InCore
  BY DEF Stages, InCore
<1>9. ~(ec'["master"] > 0) /\ ~(length'[c] > 0) /\ ~(rc'[c] = 0) /\ cur \in {c, NULL} /\ cur' = NULL
  BY <1>2, <1>3, <1>4, <1>5
<1> QED
  BY <1>1, <1>2, <1>4, <1>5, <1>7, <1>8, <1>9, MasterStays

\* A master is back in the core with the result r and the index i.
LEMMA MasterReturns ==
  ASSUME Assumed, IInv, NEW c \in Masters, cur = NULL, pc[c] = "woken",
         NEW r \in {-1, 0, 1}, NEW i \in Int, Returned(c, r, i),
         UNCHANGED <<msg, msgs, vec, hwVars, eventVars, holder, length>>,
         r = 0 => LastMasterOK /\ ptr.lastMaster # NULL /\ msg[ptr.lastMaster].cb
                  /\ i = Locate(vec, ptr.lastMaster)
  PROVE  IInv'
<1> DEFINE q == IF r = 0 /\ i # -1 /\ (Resumed(c) => i < length[c]) THEN "loop" ELSE "end"
<1>1. /\ rc' = [rc EXCEPT ![c] = r] /\ index' = [index EXCEPT ![c] = i] /\ cur' = c
      /\ pc' = [pc EXCEPT ![c] = q]
  BY DEF Returned, Goto
<1>2. c \in Client /\ ec["master"] = 0
  BY MasterIs, HolderIs
<1>3. /\ q \in {"loop", "end"} /\ (q = "loop" => r = 0)
  OBVIOUS
<1> HIDE DEF q
<1>4. /\ rc' \in [Client -> {-1, 0, 1}] /\ index' \in [Client -> Int] /\ length' \in [Client -> Nat]
      /\ ec' \in [Kinds -> Nat] /\ ec' = ec /\ index'[c] = i
  BY <1>1, <1>2, ThreadTypes DEF eventVars
<1>5. Queues'
  BY <1>1, <1>2, <1>3, QueuesMove
<1>6. q \in Stages /\ q \in InCore
  BY <1>3 DEF Stages, InCore
<1>7. pc'[c] = q
  BY <1>1, <1>2 DEF IInv, Types
<1>8. MasterLoops(c)'
  <2>1. CASE q = "end"
    BY <1>7, <2>1 DEF MasterLoops
  <2>2. CASE q = "loop"
    <3>1. /\ ptr.lastMaster \in InVector /\ msg[ptr.lastMaster].cb /\ i = Locate(vec, ptr.lastMaster)
          /\ twi = "heldM" \/ MasterQuiet
      BY <1>3, <2>2 DEF LastMasterOK
    <3>2. /\ vec.length \in Nat /\ VectorOK(vec) /\ ptr.lastMaster # NULL /\ NULL \notin Msg
          /\ ptr.lastMaster \in Entries(vec)
      BY <3>1, VectorIs DEF IInv, Types, Assumed, InVector
    <3>3. i \in 0 .. vec.length - 1 /\ vec.data[i] = ptr.lastMaster
      BY <3>1, <3>2, LocateIs
    <3>4. Get(vec, i) = ptr.lastMaster
      BY <3>2, <3>3, GetIs
    <3>5. i >= 0
      BY <3>2, <3>3
    <3>6. /\ vec' = vec /\ msg' = msg /\ twi' = twi /\ (MasterQuiet' <=> MasterQuiet)
      BY DEF hwVars, MasterQuiet
    <3> QED
      BY <1>4, <1>7, <2>2, <3>1, <3>2, <3>4, <3>5, <3>6 DEF MasterLoops
  <2> QED
    BY <1>3, <2>1, <2>2
<1>9. MasterWaits(c)'
  BY <1>3, <1>7 DEF MasterWaits
<1>10. /\ pc[c] \notin {"closed", "open", "lock", "update", "add"}
       /\ q \notin {"closed", "open", "lock", "update", "add"}
       /\ cur \in {c, NULL} /\ cur' = IF q \in InCore THEN c ELSE NULL
       /\ pc' = [pc EXCEPT ![c] = q] /\ UNCHANGED <<msg, msgs, vec, hwVars, holder>>
       /\ ~(ec'["master"] > 0) /\ q # "woken"
  BY <1>1, <1>2, <1>3, <1>4, <1>6
<1> QED
  BY <1>4, <1>5, <1>6, <1>8, <1>9, <1>10, MasterStays

LEMMA MasterWokenKeeps ==
  ASSUME Assumed, IInv, NEW c \in Client, MasterWoken(c)
  PROVE  IInv'
<1> DEFINE m == ptr.lastMaster
<1>1. /\ cur = NULL /\ pc[c] = "woken" /\ c \in Masters
      /\ UNCHANGED <<msg, msgs, vec, hwVars, eventVars, holder, length>>
      /\ IF rc[c] = 0 /\ m # NULL
         THEN Returned(c, IF msg[m].cb THEN 0 ELSE 1, Locate(vec, m))
         ELSE Returned(c, -1, index[c])
  BY DEF MasterWoken
<1>2. CASE ~(rc[c] = 0 /\ m # NULL)
  <2> DEFINE r == -1
             i == index[c]
  <2>1. i \in Int
    BY DEF IInv, Types
  <2>2. r \in {-1, 0, 1} /\ r # 0
    OBVIOUS
  <2>3. /\ cur = NULL /\ pc[c] = "woken" /\ c \in Masters /\ Returned(c, r, i)
        /\ UNCHANGED <<msg, msgs, vec, hwVars, eventVars, holder, length>>
    BY <1>1, <1>2
  <2> HIDE DEF r, i
  <2> QED
    BY <2>1, <2>2, <2>3, MasterReturns
<1>3. CASE rc[c] = 0 /\ m # NULL
  <2> DEFINE r == IF msg[m].cb THEN 0 ELSE 1
             i == Locate(vec, m)
  <2>1. LastMasterOK
    BY <1>1, <1>3 DEF IInv, MasterInv, MasterTold
  <2>2. i \in Int
    BY VectorIs, LocateIs DEF IInv, Types
  <2>3. /\ r \in {-1, 0, 1} /\ (r = 0 => msg[m].cb) /\ Returned(c, r, i)
    BY <1>1, <1>3
  <2> HIDE DEF r
  <2> QED
    BY <1>1, <1>3, <2>1, <2>2, <2>3, MasterReturns
<1> QED
  BY <1>2, <1>3

LEMMA MasterResumedKeeps ==
  ASSUME Assumed, IInv, NEW c \in Client, MasterResumed(c)
  PROVE  IInv'
<1> DEFINE m == ptr.lastMaster
<1>1. cur = NULL /\ pc[c] = "woken" /\ c \in Masters /\ Resumed(c)
  BY DEF MasterResumed
<1>2. rc[c] = 0 /\ LastMasterOK
  BY <1>1 DEF IInv, MasterInv, MasterTold
<1>3. /\ ptr' = [ptr EXCEPT !.lastMaster = m] /\ UNCHANGED <<busy, twcr, twi, msg>>
      /\ UNCHANGED <<msgs, vec, bufferIndex, eventVars, holder, length>>
      /\ Returned(c, IF m = NULL THEN -1 ELSE IF msg[m].cb THEN rc[c] ELSE 1, Locate(vec, m))
  BY <1>2 DEF MasterResumed
<1>4. ptr' = ptr
  BY <1>3 DEF IInv, Types
<1> DEFINE r == IF m = NULL THEN -1 ELSE IF msg[m].cb THEN rc[c] ELSE 1
           i == Locate(vec, m)
<1>5. i \in Int
  BY VectorIs, LocateIs DEF IInv, Types
<1>6. r \in {-1, 0, 1} /\ (r = 0 => m # NULL /\ msg[m].cb) /\ Returned(c, r, i)
  BY <1>2, <1>3
<1>7. UNCHANGED <<msg, msgs, vec, hwVars, eventVars, holder, length>>
  BY <1>3, <1>4 DEF hwVars
<1> HIDE DEF r
<1> QED
  BY <1>1, <1>2, <1>5, <1>6, <1>7, MasterReturns

\* The loop is left.
LEMMA MasterLeavesLoop ==
  ASSUME Assumed, IInv, NEW c \in Masters, cur = c, pc[c] \in {"loop", "resume"},
         pc' = [pc EXCEPT ![c] = "end"],
         UNCHANGED <<msg, msgs, vec, hwVars, eventVars, holder, index, rc, length, cur>>
  PROVE  IInv'
<1>1. c \in Client /\ ec["master"] = 0
  BY MasterIs, HolderIs
<1>2. /\ rc' \in [Client -> {-1, 0, 1}] /\ index' \in [Client -> Int] /\ length' \in [Client -> Nat]
      /\ ec' \in [Kinds -> Nat] /\ ec' = ec /\ ~(ec'["master"] > 0)
  BY <1>1, ThreadTypes DEF eventVars
<1>3. Queues'
  BY <1>1, QueuesMove
<1>4. pc'[c] = "end"
  BY <1>1 DEF IInv, Types
<1>5. (MasterLoops(c) /\ MasterWaits(c))'
  BY <1>4 DEF MasterLoops, MasterWaits
<1>6. "end" \in Stages /\ "end" \in InCore
  BY DEF Stages, InCore
<1> QED
  BY <1>1, <1>2, <1>3, <1>5, <1>6, MasterStays

\* The first message of a list goes.
LEMMA TailIs ==
  ASSUME NEW s \in Seq(Msg), s # <<>>, \A i, j \in 1 .. Len(s) : s[i] = s[j] => i = j
  PROVE  /\ Head(s) \in Range(s) /\ Tail(s) \in Seq(Msg)
         /\ Range(Tail(s)) = Range(s) \ {Head(s)}
         /\ \A i, j \in 1 .. Len(Tail(s)) : Tail(s)[i] = Tail(s)[j] => i = j
<1>1. /\ Len(s) \in Nat /\ Len(s) >= 1 /\ Head(s) = s[1] /\ Tail(s) \in Seq(Msg)
      /\ Len(Tail(s)) = Len(s) - 1 /\ \A i \in 1 .. Len(s) - 1 : Tail(s)[i] = s[i + 1]
  OBVIOUS
<1>2. /\ Range(s) = {s[i] : i \in 1 .. Len(s)}
      /\ Range(Tail(s)) = {Tail(s)[i] : i \in 1 .. Len(Tail(s))}
  <2>1. DOMAIN s = 1 .. Len(s) /\ DOMAIN Tail(s) = 1 .. Len(Tail(s))
    BY <1>1
  <2> QED
    BY <2>1 DEF Range
<1> DEFINE n == Len(s)
           t == Tail(s)
<1>3. /\ n \in Nat /\ n >= 1 /\ Len(t) = n - 1 /\ \A i \in 1 .. n - 1 : t[i] = s[i + 1]
      /\ \A i, j \in 1 .. n : s[i] = s[j] => i = j
  BY <1>1
<1> HIDE DEF n, t
<1>4. \A i \in 1 .. n - 1 : i + 1 \in 1 .. n /\ i + 1 # 1
  BY <1>3
<1>5. \A i \in 1 .. n : i # 1 => i - 1 \in 1 .. n - 1 /\ (i - 1) + 1 = i
  BY <1>3
<1>6. 1 \in 1 .. n
  BY <1>3
<1>7. \A i, j \in 1 .. Len(t) : t[i] = t[j] => i = j
  <2>1. ASSUME NEW i \in 1 .. n - 1, NEW j \in 1 .. n - 1, t[i] = t[j]
        PROVE  i = j
    <3>1. i + 1 = j + 1
      BY <1>3, <1>4, <2>1
    <3> QED
      BY <1>3, <3>1
  <2> QED
    BY <1>3, <2>1
<1>8. \A x : (\E i \in 1 .. n - 1 : x = t[i]) <=> (\E i \in 1 .. n : x = s[i]) /\ x # s[1]
  <2>1. ASSUME NEW i \in 1 .. n - 1 PROVE (\E j \in 1 .. n : t[i] = s[j]) /\ t[i] # s[1]
    BY <1>3, <1>4, <1>6
  <2>2. ASSUME NEW i \in 1 .. n, s[i] # s[1] PROVE \E j \in 1 .. n - 1 : s[i] = t[j]
    BY <1>3, <1>5, <2>2
  <2> QED
    BY <2>1, <2>2
<1>9. Range(t) = {t[i] : i \in 1 .. n - 1} /\ Range(s) = {s[i] : i \in 1 .. n}
  BY <1>2, <1>3 DEF n, t
<1>10. Range(t) = Range(s) \ {s[1]}
  BY <1>8, <1>9
<1> QED
  BY <1>1, <1>6, <1>7, <1>9, <1>10 DEF t

LEMMA HomesMoved ==
  ASSUME NEW ms, NEW ns, NEW lists \in [Client -> Seq(Msg)], NEW v, NEW w, Homes(ms, lists, v),
         NEW c \in Client, lists[c] # <<>>, Entries(v) \in SUBSET Msg,
         NEW m, m = Head(lists[c]), Entries(w) = Entries(v) \cup {m}, ms[m] # NULL,
         \A n \in Msg : ns[n] = NULL <=> ms[n] = NULL,
         NEW rest, rest = [lists EXCEPT ![c] = Tail(@)]
  PROVE  Homes(ns, rest, w)
<1>1. \A i, j \in 1 .. Len(lists[c]) : lists[c][i] = lists[c][j] => i = j
  BY DEF Homes
<1>2. /\ m \in Range(lists[c]) /\ Range(Tail(lists[c])) = Range(lists[c]) \ {m}
      /\ \A i, j \in 1 .. Len(Tail(lists[c])) : Tail(lists[c])[i] = Tail(lists[c])[j] => i = j
  BY <1>1, TailIs
<1>3. /\ rest[c] = Tail(lists[c]) /\ \A d \in Client : d # c => rest[d] = lists[d]
      /\ m \in Msg
  OBVIOUS
<1>4. \A d \in Client : Range(rest[d]) = Range(lists[d]) \ {m}
  <2>1. \A d \in Client : d # c => m \notin Range(lists[d])
    BY <1>2 DEF Homes
  <2> QED
    BY <1>2, <1>3, <2>1
<1>5. \A n \in Entries(w) : ns[n] # NULL
  BY <1>3 DEF Homes
<1>6. \A d \in Client : \A i, j \in 1 .. Len(rest[d]) : rest[d][i] = rest[d][j] => i = j
  BY <1>2, <1>3 DEF Homes
<1>7. /\ \A d, e \in Client : d # e => Range(rest[d]) \cap Range(rest[e]) = {}
      /\ \A d \in Client : Range(rest[d]) \cap Entries(w) = {}
  BY <1>4 DEF Homes
<1>8. ASSUME NEW n \in Msg, ns[n] # NULL
      PROVE  n \in Entries(w) \/ \E d \in Client : n \in Range(rest[d])
  BY <1>4, <1>8 DEF Homes
<1> QED
  BY <1>5, <1>6, <1>7, <1>8 DEF Homes

\* A step of a client in the core.
LEMMA CoreMoves ==
  ASSUME Assumed, IInv, NEW c \in Client, cur = c, NEW q \in InCore, q # "update",
         pc' = [pc EXCEPT ![c] = q], UNCHANGED <<eventVars, holder, cur>>,
         \A m \in InVector' : msg'[m].kind = Kind(c),
         \A d \in Client : \A m \in Range(msgs'[d]) :
           msg'[m] # NULL /\ msg'[m].kind = Kind(d) /\ ~msg'[m].done,
         \A d \in Client : d # c => msgs'[d] = msgs[d],
         q = "add" => msgs'[c] # <<>> \/ PendingIn(Kind(c))'
  PROVE  /\ Threads' /\ Queues' /\ Turns'
         /\ pc' \in [Client -> Stages] /\ pc'[c] = q
         /\ ec' = ec /\ ec' \in [Kinds -> Nat]
<1>1. pc[c] \in InCore /\ q \in Stages /\ q \notin {"closed", "open", "lock", "update", "wait"}
      /\ pc[c] \notin {"closed", "open", "lock", "wait"}
  BY DEF IInv, Threads, InCore, Stages
<1>2. cur \in {c, NULL} /\ cur' = IF q \in InCore THEN c ELSE NULL
  OBVIOUS
<1>3. /\ c \in Masters => holder' = c /\ holder \in {c, NULL}
      /\ c \in Slaves => holder' = holder
  BY <1>1, HolderIs
<1>4. Threads'
  BY <1>1, <1>2, <1>3, ThreadsMove
<1>5. Queues' /\ ec' = ec
  BY <1>1, QueuesMove
<1>6. q \notin {"closed", "lock", "update"} /\ pc[c] # "closed"
  BY <1>1
<1>7. Turns'
  BY <1>2, <1>6, TurnsMove
<1> QED
  BY <1>1, <1>4, <1>5, <1>7 DEF IInv, Types

\* The client c moves the message m to the vector, behind all others.
AddedIs(c, m) ==
  /\ m \in Msg /\ m \notin InVector /\ msg[m] # NULL /\ msg[m].kind = Kind(c) /\ ~msg[m].done
  /\ Inserted(vec', vec, m, vec.length) /\ vec.length \in Nat
  /\ InVector' = InVector \cup {m}
  /\ msg' \in [Msg -> Features \cup {NULL}] /\ msgs' \in [Client -> Seq(Msg)]
  /\ \A n \in Msg : (msg'[n] = NULL <=> msg[n] = NULL) /\ (n # m => msg'[n] = msg[n])
  /\ msg'[m].kind = Kind(c) /\ ~msg'[m].done
  /\ Placed'
  /\ \A d \in Client : d # c => msgs'[d] = msgs[d]
  /\ \A d \in Client : Range(msgs'[d]) \in SUBSET Range(msgs[d])

LEMMA Added ==
  ASSUME Assumed, IInv, NEW c \in Client, AddMessage(c)
  PROVE  AddedIs(c, Head(msgs[c]))
<1> DEFINE m == Head(msgs[c])
           u == IF vec.data = NULL THEN AfterError(vec) ELSE vec
           slaves == OfKind(msg, "slave")
<1>1. /\ cur = c /\ pc[c] = "add" /\ msgs[c] # <<>>
      /\ msg' = [msg EXCEPT ![m].cb = @ /\ c \in HasCallback]
      /\ vec' = Add(u, m, slaves) /\ msgs' = [msgs EXCEPT ![c] = Tail(@)]
  BY DEF AddMessage
<1>2. /\ VectorOK(vec) /\ NullIsApart /\ NULL \notin Msg /\ vec.length \in Nat
      /\ InVector = Entries(vec) /\ InVector \in SUBSET Msg
      /\ msg \in [Msg -> Features \cup {NULL}] /\ NULL \notin Features
      /\ msgs \in [Client -> Seq(Msg)] /\ Homes(msg, msgs, vec)
  BY VectorIs DEF IInv, Types, Assumed, NullIsApart, InVector, Placed
<1>3. /\ \A i, j \in 1 .. Len(msgs[c]) : msgs[c][i] = msgs[c][j] => i = j
      /\ msgs[c] \in Seq(Msg)
  BY <1>2 DEF Homes
<1>4. m \in Range(msgs[c]) /\ Range(Tail(msgs[c])) = Range(msgs[c]) \ {m}
  BY <1>1, <1>3, TailIs
<1>5. m \in Msg /\ m \notin InVector /\ msg[m] # NULL /\ msg[m].kind = Kind(c) /\ ~msg[m].done
  BY <1>4, ListsAre
<1>6. \A n \in InVector : msg[n] # NULL /\ msg[n].kind = Kind(c)
  BY <1>1, <1>2, AsideTurns DEF Homes
<1> HIDE DEF m
<1>7. msg[m] \in Features
  BY <1>2, <1>5
<1> DEFINE x == [msg[m] EXCEPT !.cb = @ /\ c \in HasCallback]
<1>8. x \in Features /\ x.kind = msg[m].kind /\ x.done = msg[m].done
  BY <1>7 DEF Features
<1>9. msg' = [msg EXCEPT ![m] = x]
  BY <1>1
<1> HIDE DEF x
<1>10. /\ msg' \in [Msg -> Features \cup {NULL}] /\ msg'[m] = x
       /\ \A n \in Msg : n # m => msg'[n] = msg[n]
  BY <1>2, <1>5, <1>8, <1>9
<1>11. VectorOK(u) /\ u.data # NULL /\ u.length = vec.length /\ Entries(u) = InVector
       /\ (vec.data # NULL => u = vec) /\ (vec.data = NULL => vec.length = 0)
  <2>1. CASE vec.data # NULL
    BY <1>2, <2>1
  <2>2. CASE vec.data = NULL
    <3>1. u = Create
      BY <2>2 DEF AfterError
    <3>2. vec.length = 0
      BY <1>2, <2>2 DEF VectorOK, Filled
    <3>3. VectorOK(Create) /\ Create.data # NULL /\ Create.length = 0
      BY <1>2, CreateIs
    <3>4. Entries(Create) = {} /\ Entries(vec) = {}
      BY <3>2, <3>3 DEF Entries
    <3> QED
      BY <1>2, <2>2, <3>1, <3>2, <3>3, <3>4
  <2> QED
    BY <2>1, <2>2
<1> HIDE DEF u
<1>12. m \in slaves \/ Entries(u) \cap slaves = {}
  <2>1. \A n \in Msg : n \in slaves <=> msg[n] # NULL /\ msg[n].kind = "slave"
    BY DEF OfKind
  <2>2. Kind(c) \in {"master", "slave"}
    BY KindIs DEF Kinds
  <2> QED
    BY <1>2, <1>5, <1>6, <1>11, <2>1, <2>2
<1> HIDE DEF slaves
<1>13. Inserted(vec', u, m, u.length)
  BY <1>1, <1>2, <1>5, <1>11, <1>12, AddIs
<1>14. Inserted(vec', vec, m, vec.length)
  <2>1. CASE vec.data # NULL
    BY <1>11, <1>13, <2>1
  <2>2. CASE vec.data = NULL
    <3>1. vec.length = 0 /\ u.length = 0
      BY <1>11, <2>2
    <3> QED
      BY <1>13, <3>1 DEF Inserted
  <2> QED
    BY <2>1, <2>2
<1>15. InVector' = InVector \cup {m}
  <2>1. vec.length \in 0 .. vec.length
    BY <1>2
  <2>2. Entries(vec') = Entries(vec) \cup {m}
    BY <1>2, <1>14, <2>1, InsertedEntries
  <2> QED
    BY <1>2, <2>2 DEF InVector
<1>16. msg'[m] # NULL /\ msg'[m].kind = Kind(c) /\ ~msg'[m].done
       /\ \A n \in Msg : msg'[n] = NULL <=> msg[n] = NULL
  BY <1>2, <1>5, <1>8, <1>10
<1>17. Placed'
  <2>1. Entries(vec') = Entries(vec) \cup {m} /\ m = Head(msgs[c])
    BY <1>2, <1>15 DEF InVector, m
  <2>2. /\ msgs \in [Client -> Seq(Msg)] /\ Homes(msg, msgs, vec) /\ msgs[c] # <<>>
        /\ Entries(vec) \in SUBSET Msg /\ msg[m] # NULL
        /\ \A n \in Msg : msg'[n] = NULL <=> msg[n] = NULL
    BY <1>1, <1>2, <1>5, <1>16
  <2> DEFINE ns == msg'
             w == vec'
             rest == msgs'
  <2>3. /\ Entries(w) = Entries(vec) \cup {m} /\ \A n \in Msg : ns[n] = NULL <=> msg[n] = NULL
        /\ rest = [msgs EXCEPT ![c] = Tail(@)] /\ m = Head(msgs[c])
    BY <1>1, <2>1, <2>2
  <2> HIDE DEF ns, w, rest
  <2>4. Homes(ns, rest, w)
    BY <2>2, <2>3, HomesMoved
  <2> QED
    BY <2>4 DEF Placed, ns, w, rest
<1>18. msgs'[c] = Tail(msgs[c]) /\ msgs' \in [Client -> Seq(Msg)]
       /\ \A d \in Client : d # c => msgs'[d] = msgs[d]
  BY <1>1, <1>2, <1>3
<1> QED
  BY <1>2, <1>4, <1>5, <1>10, <1>14, <1>15, <1>16, <1>17, <1>18 DEF AddedIs, m

LEMMA AddMessageMoves ==
  ASSUME Assumed, IInv, NEW c \in Client, AddMessage(c)
  PROVE  /\ Types' /\ Placed' /\ Threads' /\ Queues' /\ Turns'
         /\ pc[c] = "add" /\ pc' = [pc EXCEPT ![c] = "add"] /\ pc'[c] = "add"
         /\ UNCHANGED <<hwVars, eventVars, threadVars>>
         /\ PendingIn(Kind(c))'
<1> DEFINE m == Head(msgs[c])
<1>1. cur = c /\ pc[c] = "add" /\ UNCHANGED <<hwVars, eventVars, threadVars>>
  BY DEF AddMessage
<1>2. AddedIs(c, m)
  BY Added
<1> HIDE DEF m
<1>3. pc' = pc /\ holder' = holder /\ cur' = cur /\ UNCHANGED eventVars
  BY <1>1 DEF threadVars
<1>4. pc' = [pc EXCEPT ![c] = "add"]
  BY <1>1, <1>3, PcSame
<1>5. PendingIn(Kind(c))'
  BY <1>2 DEF AddedIs, PendingIn, Kind
<1>6. \A n \in InVector' : msg'[n].kind = Kind(c)
  <2>1. \A n \in InVector : n \in Msg /\ msg[n].kind = Kind(c)
    BY <1>1, AsideTurns, VectorIs DEF IInv, Types
  <2> QED
    BY <1>2, <2>1 DEF AddedIs
<1>7. \A d \in Client : \A n \in Range(msgs'[d]) :
        msg'[n] # NULL /\ msg'[n].kind = Kind(d) /\ ~msg'[n].done
  <2>1. ASSUME NEW d \in Client, NEW n \in Range(msgs'[d])
        PROVE  msg'[n] # NULL /\ msg'[n].kind = Kind(d) /\ ~msg'[n].done
    <3>1. n \in Range(msgs[d])
      BY <1>2 DEF AddedIs
    <3>2. n \in Msg /\ msg[n] # NULL /\ msg[n].kind = Kind(d) /\ ~msg[n].done
      BY <3>1, ListsAre
    <3> QED
      BY <1>2, <3>2 DEF AddedIs
  <2> QED
    BY <2>1
<1>8. \A d \in Client : d # c => msgs'[d] = msgs[d]
  BY <1>2 DEF AddedIs
<1>9. "add" \in InCore /\ "add" # "update"
  BY DEF InCore
<1>10. /\ Threads' /\ Queues' /\ Turns'
       /\ pc' \in [Client -> Stages] /\ pc'[c] = "add"
  BY <1>1, <1>3, <1>4, <1>5, <1>6, <1>7, <1>8, <1>9, CoreMoves
<1>11. Types' /\ Placed'
  <2>1. VectorOK(vec') /\ msg' \in [Msg -> Features \cup {NULL}] /\ msgs' \in [Client -> Seq(Msg)]
        /\ Placed'
    BY <1>2 DEF AddedIs, Inserted
  <2> QED
    BY <1>1, <2>1 DEF IInv, Types, hwVars, eventVars, threadVars
<1> QED
  BY <1>1, <1>4, <1>5, <1>10, <1>11

LEMMA AddMessageKeepsMaster ==
  ASSUME Assumed, IInv, NEW c \in Masters, AddMessage(c)
  PROVE  IInv'
<1>1. c \in Client
  BY ClientsAre
<1>2. /\ Types' /\ Placed' /\ Threads' /\ Queues' /\ Turns'
      /\ pc[c] = "add" /\ pc' = [pc EXCEPT ![c] = "add"] /\ pc'[c] = "add"
      /\ UNCHANGED <<hwVars, eventVars, threadVars>>
      /\ PendingIn(Kind(c))'
  BY <1>1, AddMessageMoves
<1>3. /\ c \notin Slaves /\ Kind(c) = "master" /\ ptr.slave = NULL /\ twi # "heldS"
      /\ \A m \in InVector : msg[m].kind = "master"
      /\ ec["master"] = 0
      /\ \A d \in Masters : d # c => pc[d] \in {"closed", "open", "lock"}
  BY <1>2, MasterIs, HolderIs
<1>4. /\ busy' = busy /\ ptr' = ptr /\ twcr' = twcr /\ twi' = twi /\ ec' = ec
  BY <1>2 DEF hwVars, eventVars
<1> DEFINE m == Head(msgs[c])
<1>5. AddedIs(c, m)
  BY <1>1, Added
<1> HIDE DEF m
<1>6. \A n \in InVector : n \in InVector' /\ msg'[n] = msg[n]
  BY <1>5, VectorIs DEF AddedIs, IInv, Types
<1>7. \A n \in InVector' : msg'[n].kind = "master"
  BY <1>3, <1>5, <1>6 DEF AddedIs
<1>8. MReady => MReady'
  BY <1>4, <1>6 DEF MReady, M
<1>9. (Signals /\ Sends /\ Holds)'
  <2>1. Adding'
    BY <1>2 DEF Adding
  <2>2. Sends'
    BY <1>4, <1>8, <2>1 DEF IInv, MasterInv, Sends
  <2> QED
    BY <1>2, <1>3, <1>4, <2>2 DEF IInv, MasterInv, Signals, Holds
<1>10. (MasterLoops(c) /\ MasterWaits(c))'
  BY <1>2 DEF MasterLoops, MasterWaits
<1>11. /\ pc[c] # "closed" /\ ptr'.slave = NULL /\ twi' # "heldS" /\ PendingIn("master")'
       /\ ~(ec'["master"] > 0)
  BY <1>2, <1>3, <1>4
<1> QED
  BY <1>2, <1>3, <1>7, <1>9, <1>10, <1>11, MasterMoves

\* The transfer starts, or waits for the bus.
LEMMA XferMoves ==
  ASSUME Assumed, IInv, NEW c \in Client, Xfer(c)
  PROVE  /\ Placed' /\ Threads' /\ Queues' /\ Turns'
         /\ pc[c] = "add" /\ pc' = [pc EXCEPT ![c] = "started"] /\ pc'[c] = "started"
         /\ UNCHANGED <<msg, msgs, vec, busy, bufferIndex, eventVars, holder, rc, cur>>
         /\ InVector' = InVector /\ Slots' = Slots /\ \A k : PendingIn(k)' <=> PendingIn(k)
         /\ PendingIn(Kind(c)) /\ length'[c] = 0
         /\ \A m \in InVector : msg[m].kind = Kind(c)
         /\ twcr' \in [sta : BOOLEAN, ea : BOOLEAN, ie : BOOLEAN] /\ ptr' \in PtrTypes /\ twi' = twi => Types'
<1>1. /\ cur = c /\ pc[c] = "add" /\ msgs[c] = <<>>
      /\ index' = [index EXCEPT ![c] = IF @ = 0 THEN 0 ELSE @ - 1]
      /\ length' = [length EXCEPT ![c] = 0]
      /\ pc' = [pc EXCEPT ![c] = "started"]
      /\ UNCHANGED <<msg, msgs, vec, busy, bufferIndex, eventVars, holder, rc, cur>>
  BY DEF Xfer, Goto
<1>2. InVector' = InVector /\ Slots' = Slots /\ \A k : PendingIn(k)' <=> PendingIn(k)
  BY <1>1 DEF InVector, Slots, PendingIn
<1>3. PendingIn(Kind(c))
  BY <1>1 DEF IInv, Turns
<1>4. \A m \in InVector : msg[m].kind = Kind(c)
  BY <1>1, AsideTurns
<1>5. /\ \A m \in InVector' : msg'[m].kind = Kind(c)
      /\ \A d \in Client : \A m \in Range(msgs'[d]) :
           msg'[m] # NULL /\ msg'[m].kind = Kind(d) /\ ~msg'[m].done
      /\ \A d \in Client : d # c => msgs'[d] = msgs[d]
  BY <1>1, <1>2, <1>4, ListsAre
<1>6. "started" \in InCore /\ "started" # "update" /\ "started" # "add"
  BY DEF InCore
<1>7. /\ Threads' /\ Queues' /\ Turns'
      /\ pc' \in [Client -> Stages] /\ pc'[c] = "started"
  BY <1>1, <1>5, <1>6, CoreMoves
<1>8. /\ index' \in [Client -> Int] /\ length' \in [Client -> Nat] /\ length'[c] = 0
  <2>1. index \in [Client -> Int] /\ length \in [Client -> Nat]
    BY ThreadTypes
  <2>2. (IF index[c] = 0 THEN 0 ELSE index[c] - 1) \in Int
    BY <2>1
  <2> QED
    BY <1>1, <2>1, <2>2
<1>9. Placed'
  BY <1>1 DEF IInv, Placed
<1>10. twcr' \in [sta : BOOLEAN, ea : BOOLEAN, ie : BOOLEAN] /\ ptr' \in PtrTypes /\ twi' = twi => Types'
  BY <1>1, <1>7, <1>8 DEF IInv, Types, eventVars, PtrTypes
<1> QED
  BY <1>1, <1>2, <1>3, <1>4, <1>7, <1>8, <1>9, <1>10

LEMMA XferKeepsMaster ==
  ASSUME Assumed, IInv, NEW c \in Masters, Xfer(c)
  PROVE  IInv'
<1>1. c \in Client
  BY ClientsAre
<1>2. /\ Placed' /\ Threads' /\ Queues' /\ Turns'
      /\ pc[c] = "add" /\ pc' = [pc EXCEPT ![c] = "started"] /\ pc'[c] = "started"
      /\ UNCHANGED <<msg, msgs, vec, busy, bufferIndex, eventVars, holder, rc, cur>>
      /\ InVector' = InVector /\ \A k : PendingIn(k)' <=> PendingIn(k)
      /\ PendingIn(Kind(c)) /\ length'[c] = 0
      /\ twcr' \in [sta : BOOLEAN, ea : BOOLEAN, ie : BOOLEAN] /\ ptr' \in PtrTypes /\ twi' = twi => Types'
  BY <1>1, XferMoves
<1>3. /\ c \notin Slaves /\ Kind(c) = "master" /\ ptr.slave = NULL /\ twi # "heldS"
      /\ \A m \in InVector : msg[m].kind = "master"
      /\ First(vec, msg, "slave") = NULL
      /\ ec["master"] = 0 /\ ec' = ec
      /\ \A d \in Masters : d # c => pc[d] \in {"closed", "open", "lock"}
  BY <1>2, MasterIs, HolderIs DEF eventVars
<1>4. PendingIn("master") /\ PendingIn("master")' /\ busy' = busy
  BY <1>2, <1>3
<1>5. Signals /\ Sends /\ Holds
  BY DEF IInv, MasterInv
<1>6. (\A m \in InVector' : msg'[m].kind = "master") /\ pc[c] # "closed" /\ ~(ec'["master"] > 0)
  BY <1>2, <1>3
<1>7. MasterLoops(c)'
  BY <1>2 DEF MasterLoops
<1>8. ptr \in PtrTypes /\ twcr \in [sta : BOOLEAN, ea : BOOLEAN, ie : BOOLEAN] /\ busy \in BOOLEAN
  BY DEF IInv, Types, PtrTypes
<1>9. CASE ~busy /\ twi \notin {"heldM", "heldS"}
  <2>1. Update /\ Control(TRUE, ptr'.slave # NULL, twi)
    BY <1>9 DEF Xfer
  <2>2. /\ ptr' \in PtrTypes /\ ptr'.master = First(vec, msg, "master") /\ ptr'.slave = NULL
    BY <1>3, <1>9, <2>1, UpdateIs
  <2>3. /\ twcr' = [sta |-> TRUE, ea |-> FALSE, ie |-> TRUE] /\ twi' = twi
    BY <1>8, <2>1, <2>2 DEF Control
  <2>4. Types'
    <3>1. twcr' \in [sta : BOOLEAN, ea : BOOLEAN, ie : BOOLEAN]
      BY <2>3
    <3> QED
      BY <1>2, <2>2, <2>3, <3>1
  <2>5. /\ ptr'.master # NULL /\ ptr'.master \in InVector
        /\ msg[ptr'.master].kind = "master" /\ ~msg[ptr'.master].done
    BY <1>4, <2>2, NowFirst
  <2>6. MReady'
    BY <1>2, <2>5 DEF MReady, M
  <2>7. (Signals /\ Sends /\ Holds)'
    <3>1. twi' \notin {"heldM", "heldS", "rep"} /\ twi' \notin Transfers
      BY <1>5, <1>9, <2>3 DEF Signals
    <3>2. twcr'.ie /\ twcr'.sta
      BY <2>3
    <3> QED
      BY <2>6, <3>1, <3>2 DEF Signals, Sends, Holds
  <2>8. MasterWaits(c)'
    BY <1>4, <2>3 DEF MasterWaits
  <2>9. twi' # "heldS" /\ (busy' => PendingIn("master")' \/ twi' = "st")
    BY <1>4, <1>9, <2>3
  <2> QED
    BY <1>2, <1>3, <1>6, <1>7, <2>2, <2>4, <2>7, <2>8, <2>9, MasterMoves
<1>10. CASE ~(~busy /\ twi \notin {"heldM", "heldS"})
  <2>1. UNCHANGED <<ptr, twcr, twi>>
    BY <1>10 DEF Xfer
  <2>2. busy
    BY <1>3, <1>5, <1>10 DEF Signals
  <2>3. Types'
    BY <1>2, <1>8, <2>1
  <2>4. MReady' <=> MReady
    BY <1>2, <2>1 DEF MReady, M
  <2>5. (Signals /\ Sends /\ Holds)'
    BY <1>4, <1>5, <2>1, <2>2, <2>4 DEF Signals, Sends, Holds
  <2>6. MasterWaits(c)'
    BY <1>4, <2>2 DEF MasterWaits
  <2>7. ptr'.slave = NULL /\ twi' # "heldS" /\ (busy' => PendingIn("master")' \/ twi' = "st")
    BY <1>3, <1>4, <2>1
  <2> QED
    BY <1>2, <1>3, <1>6, <1>7, <2>3, <2>5, <2>6, <2>7, MasterMoves
<1> QED
  BY <1>9, <1>10

\* A master leaves the loop with no answer, or at the end of it.
LEMMA NoAnswerKeepsMaster ==
  ASSUME Assumed, IInv, NEW c \in Masters, NoAnswer(c)
  PROVE  IInv'
BY MasterLeavesLoop DEF NoAnswer, Goto

LEMMA LoopEndsKeepsMaster ==
  ASSUME Assumed, IInv, NEW c \in Masters, LoopEnds(c)
  PROVE  IInv'
BY MasterLeavesLoop DEF LoopEnds, Goto

LEMMA NoCallBackKeepsMaster ==
  ASSUME Assumed, IInv, NEW c \in Masters, NoCallBack(c)
  PROVE  IInv'
BY DEF NoCallBack, IInv, MasterInv, MasterLoops

\* The driver looks again, in the loop and at its end.
LEMMA LoopUpdateKeepsMaster ==
  ASSUME Assumed, IInv, NEW c \in Masters, LoopUpdate(c)
  PROVE  IInv'
<1>1. /\ cur = c /\ pc[c] = "looked" /\ Update /\ pc' = [pc EXCEPT ![c] = "resume"]
      /\ UNCHANGED <<msg, msgs, vec, busy, bufferIndex, twcr, twi, eventVars, holder, index, rc,
                     length, cur>>
  BY DEF LoopUpdate, Goto
<1>2. /\ c \in Client /\ c \notin Slaves /\ Kind(c) = "master" /\ ptr.slave = NULL /\ twi # "heldS"
      /\ \A m \in InVector : msg[m].kind = "master"
      /\ busy => PendingIn("master") \/ twi = "st"
      /\ First(vec, msg, "slave") = NULL
      /\ ec["master"] = 0
      /\ \A d \in Masters : d # c => pc[d] \in {"closed", "open", "lock"}
      /\ twcr.sta \/ twi \in Transfers => MReady
  BY <1>1, MasterIs, HolderIs
<1>3. InVector' = InVector /\ \A k : PendingIn(k)' <=> PendingIn(k)
  BY <1>1 DEF InVector, PendingIn
<1>4. /\ \A m \in InVector' : msg'[m].kind = Kind(c)
      /\ \A d \in Client : \A m \in Range(msgs'[d]) :
           msg'[m] # NULL /\ msg'[m].kind = Kind(d) /\ ~msg'[m].done
      /\ \A d \in Client : d # c => msgs'[d] = msgs[d]
  BY <1>1, <1>2, <1>3, ListsAre
<1>5. "resume" \in InCore /\ "resume" # "update" /\ "resume" # "add"
  BY DEF InCore
<1>6. /\ Threads' /\ Queues' /\ Turns'
      /\ pc' \in [Client -> Stages] /\ pc'[c] = "resume" /\ ec' = ec
  BY <1>1, <1>2, <1>4, <1>5, CoreMoves
<1>7. /\ ptr' \in PtrTypes /\ (busy => ptr' = ptr) /\ ptr'.slave = NULL
      /\ ~busy => ptr'.master = First(vec, msg, "master")
  BY <1>1, <1>2, UpdateIs
<1>8. Types' /\ Placed'
  <2>1. Placed'
    BY <1>1 DEF IInv, Placed
  <2>2. ptr' \in [master : Msg \cup {NULL}, slave : Msg \cup {NULL},
                  lastMaster : Msg \cup {NULL}, lastSlave : Msg \cup {NULL}]
    BY <1>7 DEF PtrTypes
  <2> QED
    BY <1>1, <1>6, <2>1, <2>2 DEF IInv, Types
<1>9. Signals /\ Sends /\ Holds /\ MasterLoops(c)
  BY DEF IInv, MasterInv
<1>10. twcr.sta \/ twi \in Transfers => MReady'
  <2>1. CASE busy
    <3>1. ptr' = ptr /\ InVector' = InVector /\ msg' = msg /\ (twcr.sta \/ twi \in Transfers => MReady)
      BY <1>1, <1>2, <1>3, <1>7, <2>1
    <3> QED
      BY <3>1 DEF MReady, M
  <2>2. CASE ~busy
    <3>1. ASSUME twcr.sta \/ twi \in Transfers
          PROVE  MReady'
      <4>1. PendingIn("master")
        BY <1>2, <3>1 DEF MReady, PendingIn
      <4>2. /\ ptr'.master # NULL /\ ptr'.master \in InVector
            /\ msg[ptr'.master].kind = "master" /\ ~msg[ptr'.master].done
        <5>1. ptr'.master = First(vec, msg, "master")
          BY <1>7, <2>2
        <5> QED
          BY <4>1, <5>1, NowFirst
      <4> QED
        BY <1>1, <1>3, <4>2 DEF MReady, M
    <3> QED
      BY <3>1
  <2> QED
    BY <2>1, <2>2
<1>11. (Signals /\ Sends /\ Holds)'
  BY <1>1, <1>3, <1>9, <1>10 DEF Signals, Sends, Holds
<1>12. (MasterLoops(c) /\ MasterWaits(c))'
  BY <1>1, <1>3, <1>6, <1>9 DEF MasterLoops, MasterWaits, MasterQuiet
<1>13. /\ pc[c] # "closed" /\ twi' # "heldS" /\ (busy' => PendingIn("master")' \/ twi' = "st")
       /\ ~(ec'["master"] > 0) /\ \A m \in InVector' : msg'[m].kind = "master"
  BY <1>1, <1>2, <1>3, <1>4, <1>6
<1>14. /\ pc' = [pc EXCEPT ![c] = "resume"] /\ ptr'.slave = NULL
       /\ \A d \in Masters : d # c => pc[d] \in {"closed", "open", "lock"}
  BY <1>1, <1>2, <1>7
<1> QED
  BY <1>6, <1>8, <1>11, <1>12, <1>13, <1>14, MasterMoves

\* The messages of the client c that are done are freed.
CleanedOf ==
  /\ VectorOK(vec') /\ msg' \in [Msg -> Features \cup {NULL}] /\ Placed'
  /\ InVector' \in SUBSET InVector
  /\ \A m \in InVector : m \in InVector' <=> ~msg[m].done
  /\ \A m \in Msg : m \notin InVector \/ m \in InVector' => msg'[m] = msg[m]
  /\ \A k : PendingIn(k)' <=> PendingIn(k)

LEMMA DoneOnesGo ==
  ASSUME Assumed, IInv, NEW c \in Client, pc[c] # "closed", CleanUp(msg, Kind(c)), msgs' = msgs
  PROVE  CleanedOf
<1>1. /\ VectorOK(vec) /\ NullIsApart /\ NULL \notin Msg
      /\ InVector = Entries(vec) /\ InVector \in SUBSET Msg
      /\ msg \in [Msg -> Features \cup {NULL}] /\ Homes(msg, msgs, vec)
  BY VectorIs DEF IInv, Types, Assumed, InVector, Placed
<1>2. \A m \in InVector : msg[m].kind = Kind(c)
  BY AsideTurns
<1>3. CleanedIn(msg, msg', vec, vec', Kind(c))
  BY <1>1, CleanUpIs
<1>4. /\ VectorOK(vec') /\ InVector' \in SUBSET InVector
      /\ \A m \in InVector : m \in InVector' <=> ~msg[m].done
      /\ \A m \in Msg : msg'[m] = IF m \in InVector /\ m \notin InVector' THEN NULL ELSE msg[m]
  BY <1>1, <1>2, <1>3 DEF CleanedIn, InVector
<1>5. \A m \in Msg : m \notin InVector \/ m \in InVector' => msg'[m] = msg[m]
  BY <1>4
<1>6. msg' \in [Msg -> Features \cup {NULL}]
  <2>1. msg' = [m \in Msg |-> msg'[m]]
    BY DEF CleanUp, Without
  <2>2. \A m \in Msg : msg'[m] \in Features \cup {NULL}
    BY <1>1, <1>4
  <2> QED
    BY <2>1, <2>2
<1>7. Placed'
  <2> DEFINE ns == msg'
             w == vec'
             k == Kind(c)
  <2>1. CleanedIn(msg, ns, vec, w, k)
    BY <1>3
  <2> HIDE DEF ns, w, k
  <2>2. Homes(ns, msgs, w)
    BY <1>1, <2>1, HomesCleaned
  <2> QED
    BY <2>2 DEF Placed, ns, w
<1>8. ASSUME NEW k PROVE PendingIn(k)' <=> PendingIn(k)
  <2>1. ASSUME PendingIn(k) PROVE PendingIn(k)'
    <3>1. PICK m \in InVector : msg[m].kind = k /\ ~msg[m].done
      BY <2>1 DEF PendingIn
    <3>2. m \in InVector' /\ m \in Msg
      BY <1>1, <1>4, <3>1
    <3> QED
      BY <1>5, <3>1, <3>2 DEF PendingIn
  <2>2. ASSUME PendingIn(k)' PROVE PendingIn(k)
    <3>1. PICK m \in InVector' : msg'[m].kind = k /\ ~msg'[m].done
      BY <2>2 DEF PendingIn
    <3>2. m \in InVector /\ m \in Msg
      BY <1>1, <1>4, <3>1
    <3> QED
      BY <1>5, <3>1, <3>2 DEF PendingIn
  <2> QED
    BY <2>1, <2>2
<1> QED
  BY <1>4, <1>5, <1>6, <1>7, <1>8 DEF CleanedOf

\* A client in the core cleans up.
LEMMA CleanMoves ==
  ASSUME Assumed, IInv, NEW c \in Client, cur = c, NEW q \in InCore, q \notin {"update", "add"},
         pc' = [pc EXCEPT ![c] = q], CleanUp(msg, Kind(c)), index' \in [Client -> Int],
         UNCHANGED <<msgs, hwVars, eventVars, holder, rc, length, cur>>
  PROVE  /\ CleanedOf /\ Types' /\ Placed' /\ Threads' /\ Queues' /\ Turns' /\ pc'[c] = q
         /\ ec' = ec /\ \A m \in InVector' : msg'[m].kind = Kind(c)
<1>1. msgs' = msgs /\ pc[c] # "closed"
  BY DEF IInv, Threads, InCore
<1>2. CleanedOf
  BY <1>1, DoneOnesGo
<1>3. \A m \in InVector' : msg'[m].kind = Kind(c)
  <2>1. \A m \in InVector : m \in Msg /\ msg[m].kind = Kind(c)
    BY <1>1, AsideTurns, VectorIs DEF IInv, Types
  <2> QED
    BY <1>2, <2>1 DEF CleanedOf
<1>4. /\ \A d \in Client : \A m \in Range(msgs'[d]) :
           msg'[m] # NULL /\ msg'[m].kind = Kind(d) /\ ~msg'[m].done
      /\ \A d \in Client : d # c => msgs'[d] = msgs[d]
  <2>1. ASSUME NEW d \in Client, NEW m \in Range(msgs'[d])
        PROVE  msg'[m] # NULL /\ msg'[m].kind = Kind(d) /\ ~msg'[m].done
    <3>1. m \in Msg /\ m \notin InVector /\ msg[m] # NULL /\ msg[m].kind = Kind(d) /\ ~msg[m].done
      BY <1>1, ListsAre
    <3> QED
      BY <1>2, <3>1 DEF CleanedOf
  <2> QED
    BY <1>1, <2>1
<1>5. q # "update" /\ q # "add" /\ UNCHANGED <<eventVars, holder, cur>>
  OBVIOUS
<1>6. /\ Threads' /\ Queues' /\ Turns'
      /\ pc' \in [Client -> Stages] /\ pc'[c] = q /\ ec' = ec
  BY <1>3, <1>4, <1>5, CoreMoves
<1>7. Types' /\ Placed'
  BY <1>2, <1>6 DEF CleanedOf, IInv, Types, hwVars, eventVars
<1> QED
  BY <1>2, <1>3, <1>6, <1>7

LEMMA MasterCleans ==
  ASSUME Assumed, IInv, NEW c \in Masters, cur = c, pc[c] \in {"clean", "end"}, NEW q,
         q = IF pc[c] = "clean" THEN "looked" ELSE "release",
         pc' = [pc EXCEPT ![c] = q], CleanUp(msg, Kind(c)), index' \in [Client -> Int],
         UNCHANGED <<msgs, hwVars, eventVars, holder, rc, length, cur>>
  PROVE  IInv'
<1>1. q \in {"looked", "release"} /\ q \in InCore /\ q \notin {"update", "add"}
  BY DEF InCore
<1>2. /\ c \in Client /\ c \notin Slaves /\ Kind(c) = "master" /\ ptr.slave = NULL /\ twi # "heldS"
      /\ busy => PendingIn("master") \/ twi = "st"
      /\ ec["master"] = 0
      /\ \A d \in Masters : d # c => pc[d] \in {"closed", "open", "lock"}
      /\ twcr.sta \/ twi \in Transfers => MReady
  BY MasterIs, HolderIs
<1>3. /\ CleanedOf /\ Types' /\ Placed' /\ Threads' /\ Queues' /\ Turns' /\ pc'[c] = q
      /\ ec' = ec /\ \A m \in InVector' : msg'[m].kind = "master"
  BY <1>1, <1>2, CleanMoves
<1>4. /\ busy' = busy /\ ptr' = ptr /\ twcr' = twcr /\ twi' = twi
      /\ \A k : PendingIn(k)' <=> PendingIn(k)
  BY <1>3 DEF hwVars, CleanedOf
<1>5. MReady => MReady'
  <2>1. MReady => M \in InVector' /\ M \in Msg
    BY <1>3, VectorIs DEF MReady, CleanedOf, IInv, Types
  <2> QED
    BY <1>3, <1>4, <2>1 DEF MReady, M, CleanedOf
<1>6. Signals /\ Sends /\ Holds /\ MasterLoops(c)
  BY DEF IInv, MasterInv
<1>7. (Signals /\ Sends /\ Holds)'
  BY <1>2, <1>4, <1>5, <1>6 DEF Signals, Sends, Holds
<1>8. (MasterLoops(c) /\ MasterWaits(c))'
  <2>1. \A m \in InVector' : ~msg'[m].done
    <3>1. \A m \in InVector' : m \in InVector /\ m \in Msg
      BY <1>3, VectorIs DEF CleanedOf, IInv, Types
    <3> QED
      BY <1>3, <3>1 DEF CleanedOf
  <2>2. q = "looked" => twi = "heldM" \/ MasterQuiet
    BY <1>6 DEF MasterLoops
  <2>3. MasterQuiet' <=> MasterQuiet
    BY <1>4 DEF MasterQuiet
  <2> QED
    BY <1>1, <1>3, <1>4, <2>1, <2>2, <2>3 DEF MasterLoops, MasterWaits
<1>9. /\ pc[c] # "closed" /\ ptr'.slave = NULL /\ twi' # "heldS"
      /\ (busy' => PendingIn("master")' \/ twi' = "st") /\ ~(ec'["master"] > 0) /\ q # "woken"
  BY <1>1, <1>2, <1>3, <1>4
<1> QED
  BY <1>2, <1>3, <1>7, <1>8, <1>9, MasterMoves

LEMMA LoopCleanUpKeepsMaster ==
  ASSUME Assumed, IInv, NEW c \in Masters, LoopCleanUp(c)
  PROVE  IInv'
<1>1. cur = c /\ pc[c] = "clean" /\ c \in Client
  BY ClientsAre DEF LoopCleanUp
<1>2. index[c] > 0 /\ index[c] \in Int /\ index \in [Client -> Int] /\ VectorOK(vec)
  BY <1>1 DEF IInv, MasterInv, MasterLoops, Types
<1>3. /\ CleanUp(msg, Kind(c)) /\ pc' = [pc EXCEPT ![c] = "looked"]
      /\ index' = [index EXCEPT ![c] = @ - (vec.length - vec'.length)]
      /\ UNCHANGED <<msgs, hwVars, eventVars, holder, rc, length, cur>>
  BY <1>2 DEF LoopCleanUp, Goto
<1>4. index' \in [Client -> Int]
  <2>1. CleanedOf
    BY <1>1, <1>3, DoneOnesGo
  <2>2. vec.length \in Nat /\ vec'.length \in Nat
    BY <1>2, <2>1 DEF CleanedOf, VectorOK, Filled
  <2>3. index[c] - (vec.length - vec'.length) \in Int
    BY <1>2, <2>2
  <2> QED
    BY <1>2, <1>3, <2>3
<1> QED
  BY <1>1, <1>3, <1>4, MasterCleans

LEMMA EndCleanUpKeepsMaster ==
  ASSUME Assumed, IInv, NEW c \in Masters, EndCleanUp(c)
  PROVE  IInv'
<1>1. /\ cur = c /\ pc[c] = "end" /\ CleanUp(msg, Kind(c)) /\ pc' = [pc EXCEPT ![c] = "release"]
      /\ UNCHANGED <<msgs, hwVars, eventVars, holder, index, rc, length, cur>>
  BY DEF EndCleanUp, Goto
<1>2. index' \in [Client -> Int]
  BY <1>1 DEF IInv, Types
<1> QED
  BY <1>1, <1>2, MasterCleans

\* A message that is ready is so when the driver looks again.
LEMMA UpdateReady ==
  ASSUME Assumed, IInv, Update, msg' = msg, vec' = vec, MReady
  PROVE  MReady'
<1>1. InVector' = InVector
  BY DEF InVector
<1>2. CASE busy
  <2>1. ptr' = ptr
    BY <1>2, UpdateIs
  <2> QED
    BY <1>1, <2>1 DEF MReady, M
<1>3. CASE ~busy
  <2>1. ptr'.master = First(vec, msg, "master")
    BY <1>3, UpdateIs
  <2>2. PendingIn("master")
    BY DEF MReady, PendingIn
  <2>3. /\ ptr'.master # NULL /\ ptr'.master \in InVector
        /\ msg[ptr'.master].kind = "master" /\ ~msg[ptr'.master].done
    BY <2>1, <2>2, NowFirst
  <2> QED
    BY <1>1, <2>3 DEF MReady, M
<1> QED
  BY <1>2, <1>3

\* A client returns with its adapter released.
LEMMA ReturnMoves ==
  ASSUME Assumed, IInv, NEW c \in Client, EndUpdate(c)
  PROVE  /\ pc[c] = "release" /\ pc' = [pc EXCEPT ![c] = "open"] /\ pc'[c] = "open"
         /\ Types' /\ Placed' /\ Threads' /\ Queues' /\ Turns'
         /\ UNCHANGED <<msg, msgs, vec, busy, bufferIndex, twcr, twi, eventVars>> /\ ec' = ec
         /\ Update /\ InVector' = InVector /\ Slots' = Slots /\ \A k : PendingIn(k)' <=> PendingIn(k)
<1>1. /\ cur = c /\ pc[c] = "release" /\ Update /\ pc' = [pc EXCEPT ![c] = "open"]
      /\ holder' = IF holder = c THEN NULL ELSE holder
      /\ cur' = NULL
      /\ rc' = [rc EXCEPT ![c] = 0] /\ index' = [index EXCEPT ![c] = 0]
      /\ length' = [length EXCEPT ![c] = 0]
      /\ UNCHANGED <<msg, msgs, vec, busy, bufferIndex, twcr, twi, eventVars>>
  BY DEF EndUpdate, Returns, Goto
<1>2. InVector' = InVector /\ Slots' = Slots /\ \A k : PendingIn(k)' <=> PendingIn(k)
  BY <1>1 DEF InVector, Slots, PendingIn
<1>3. "open" \in Stages /\ "open" \notin InCore
  BY DEF Stages, InCore
<1>4. Threads'
  <2>1. c \in Slaves => holder' = holder
    BY <1>1, BusConstants DEF IInv, Threads, Slaves
  <2> QED
    BY <1>1, <1>3, <2>1, ThreadsMove
<1>5. Queues' /\ ec' = ec
  BY <1>1, QueuesMove
<1>6. Turns'
  <2>1. \A d \in Client : \A m \in Range(msgs'[d]) :
          msg'[m] # NULL /\ msg'[m].kind = Kind(d) /\ ~msg'[m].done
    BY <1>1, ListsAre
  <2>2. \A m \in InVector' : msg'[m].kind = Kind(c)
    BY <1>1, <1>2, AsideTurns
  <2>3. \A d \in Client : d # c => msgs'[d] = msgs[d]
    BY <1>1
  <2> QED
    BY <1>1, <2>1, <2>2, <2>3, TurnsMove
<1>7. Types'
  <2>1. ptr' \in PtrTypes
    BY <1>1, UpdateIs
  <2>2. pc' \in [Client -> Stages]
    BY <1>1, <1>3 DEF IInv, Types
  <2>3. rc' \in [Client -> {-1, 0, 1}] /\ index' \in [Client -> Int] /\ length' \in [Client -> Nat]
    BY <1>1, ThreadTypes
  <2> QED
    BY <1>1, <2>1, <2>2, <2>3 DEF IInv, Types, eventVars, PtrTypes
<1>8. Placed' /\ pc'[c] = "open"
  BY <1>1 DEF IInv, Placed, Types
<1> QED
  BY <1>1, <1>2, <1>4, <1>5, <1>6, <1>7, <1>8

LEMMA EndUpdateKeepsMaster ==
  ASSUME Assumed, IInv, NEW c \in Masters, EndUpdate(c)
  PROVE  IInv'
<1>1. /\ pc[c] = "release" /\ pc' = [pc EXCEPT ![c] = "open"] /\ pc'[c] = "open"
      /\ Types' /\ Placed' /\ Threads' /\ Queues' /\ Turns'
      /\ UNCHANGED <<msg, msgs, vec, busy, bufferIndex, twcr, twi, eventVars>> /\ ec' = ec
      /\ Update /\ InVector' = InVector /\ \A k : PendingIn(k)' <=> PendingIn(k)
  BY ReturnMoves, ClientsAre
<1>2. /\ ptr.slave = NULL /\ twi # "heldS"
      /\ \A m \in InVector : msg[m].kind = "master"
      /\ busy => PendingIn("master") \/ twi = "st"
      /\ First(vec, msg, "slave") = NULL
      /\ ec["master"] = 0
      /\ \A d \in Masters : d # c => pc[d] \in {"closed", "open", "lock"}
      /\ twcr.sta \/ twi \in Transfers => MReady
  BY <1>1, MasterIs, HolderIs
<1>3. ptr'.slave = NULL
  BY <1>1, <1>2, UpdateIs
<1>4. MReady => MReady'
  BY <1>1, UpdateReady
<1>5. (Signals /\ Sends /\ Holds)'
  BY <1>1, <1>2, <1>4 DEF IInv, MasterInv, Signals, Sends, Holds
<1>6. (MasterLoops(c) /\ MasterWaits(c))'
  BY <1>1 DEF MasterLoops, MasterWaits
<1>7. /\ pc[c] # "closed" /\ twi' # "heldS"
      /\ (busy' => PendingIn("master")' \/ twi' = "st") /\ ~(ec'["master"] > 0)
      /\ \A m \in InVector' : msg'[m].kind = "master"
  BY <1>1, <1>2
<1> QED
  BY <1>1, <1>2, <1>3, <1>5, <1>6, <1>7, MasterMoves

\* The message at the index is resumed.
LEMMA ResumeMoves ==
  ASSUME Assumed, IInv, NEW c \in Client, Resume(c)
  PROVE  /\ pc[c] = "resume" /\ pc' = [pc EXCEPT ![c] = "started"] /\ pc'[c] = "started"
         /\ index[c] \in Slots /\ Get(vec, index[c]) = vec.data[index[c]]
         /\ Get(vec, index[c]) \in InVector /\ Get(vec, index[c]) \in Msg
         /\ Get(vec, index[c]) # NULL
         /\ length'[c] = vec.length
         /\ Placed' /\ Threads' /\ Queues' /\ Turns' /\ ec' = ec
         /\ UNCHANGED <<msg, msgs, vec, busy, bufferIndex, eventVars, holder, index, rc, cur>>
         /\ InVector' = InVector /\ Slots' = Slots /\ \A k : PendingIn(k)' <=> PendingIn(k)
         /\ ptr' \in PtrTypes /\ twcr' \in [sta : BOOLEAN, ea : BOOLEAN, ie : BOOLEAN]
            /\ twi' \in {"idle", "slaw", "slar", "mt", "mr", "rep", "sr", "st", "heldM", "heldS"}
            => Types'
<1>1. /\ cur = c /\ pc[c] = "resume" /\ Get(vec, index[c]) # NULL
      /\ length' = [length EXCEPT ![c] = vec.length]
      /\ pc' = [pc EXCEPT ![c] = "started"]
      /\ UNCHANGED <<msg, msgs, vec, busy, bufferIndex, eventVars, holder, index, rc, cur>>
  BY DEF Resume, Goto
<1>2. InVector' = InVector /\ Slots' = Slots /\ \A k : PendingIn(k)' <=> PendingIn(k)
  BY <1>1 DEF InVector, Slots, PendingIn
<1>3. VectorOK(vec) /\ index[c] \in Int /\ NULL \notin Msg /\ vec.length \in Nat
      /\ InVector \in SUBSET Msg
  BY VectorIs DEF IInv, Types, Assumed
<1>4. /\ index[c] \in Slots /\ Get(vec, index[c]) = vec.data[index[c]]
      /\ Get(vec, index[c]) \in InVector
  BY <1>1, <1>3, GetIs DEF InVector, Slots
<1>5. /\ \A m \in InVector' : msg'[m].kind = Kind(c)
      /\ \A d \in Client : \A m \in Range(msgs'[d]) :
           msg'[m] # NULL /\ msg'[m].kind = Kind(d) /\ ~msg'[m].done
      /\ \A d \in Client : d # c => msgs'[d] = msgs[d]
  BY <1>1, <1>2, AsideTurns, ListsAre
<1>6. "started" \in InCore /\ "started" # "update" /\ "started" # "add"
  BY DEF InCore
<1>7. /\ Threads' /\ Queues' /\ Turns'
      /\ pc' \in [Client -> Stages] /\ pc'[c] = "started" /\ ec' = ec
  BY <1>1, <1>5, <1>6, CoreMoves
<1>8. length' \in [Client -> Nat] /\ length'[c] = vec.length
  BY <1>1, <1>3, ThreadTypes
<1>9. Placed'
  BY <1>1 DEF IInv, Placed
<1>10. ptr' \in PtrTypes /\ twcr' \in [sta : BOOLEAN, ea : BOOLEAN, ie : BOOLEAN]
       /\ twi' \in {"idle", "slaw", "slar", "mt", "mr", "rep", "sr", "st", "heldM", "heldS"}
       => Types'
  BY <1>1, <1>7, <1>8 DEF IInv, Types, eventVars, PtrTypes
<1> QED
  BY <1>1, <1>2, <1>3, <1>4, <1>7, <1>8, <1>9, <1>10

LEMMA ResumeKeepsMaster ==
  ASSUME Assumed, IInv, NEW c \in Masters, Resume(c)
  PROVE  IInv'
<1> DEFINE m == Get(vec, index[c])
<1>1. /\ pc[c] = "resume" /\ pc' = [pc EXCEPT ![c] = "started"] /\ pc'[c] = "started"
      /\ m \in InVector /\ m \in Msg /\ m # NULL
      /\ Placed' /\ Threads' /\ Queues' /\ Turns' /\ ec' = ec
      /\ UNCHANGED <<msg, msgs, vec, busy, bufferIndex, eventVars, holder, index, rc, cur>>
      /\ InVector' = InVector /\ \A k : PendingIn(k)' <=> PendingIn(k)
      /\ ptr' \in PtrTypes /\ twcr' \in [sta : BOOLEAN, ea : BOOLEAN, ie : BOOLEAN]
         /\ twi' \in {"idle", "slaw", "slar", "mt", "mr", "rep", "sr", "st", "heldM", "heldS"}
         => Types'
  BY ResumeMoves, ClientsAre
<1>2. /\ ptr.slave = NULL /\ twi # "heldS"
      /\ \A n \in InVector : msg[n].kind = "master"
      /\ busy => PendingIn("master") \/ twi = "st"
      /\ ec["master"] = 0
      /\ \A d \in Masters : d # c => pc[d] \in {"closed", "open", "lock"}
  BY <1>1, MasterIs, HolderIs
<1>3. ~msg[m].done /\ (twi = "heldM" \/ twi = "idle") /\ (twi = "heldM" => busy)
      /\ Released = IF twi = "heldM" THEN "mt" ELSE "idle"
  BY <1>1, <1>2 DEF IInv, MasterInv, MasterLoops, MasterQuiet, Signals, Released
<1>4. /\ ptr' = [ptr EXCEPT !.master = m]
      /\ Control(TRUE, FALSE, IF twi = "heldM" THEN "rep" ELSE Released)
  BY <1>1, <1>2 DEF Resume
<1> HIDE DEF m
<1>5. /\ twcr' = [sta |-> TRUE, ea |-> FALSE, ie |-> TRUE]
      /\ twi' = IF twi = "heldM" THEN "rep" ELSE "idle"
  BY <1>3, <1>4 DEF Control
<1>6. ptr' \in PtrTypes /\ ptr'.master = m /\ ptr'.slave = NULL
  BY <1>1, <1>2, <1>4 DEF IInv, Types, PtrTypes
<1>7. Types'
  <2>1. twcr' \in [sta : BOOLEAN, ea : BOOLEAN, ie : BOOLEAN]
        /\ twi' \in {"idle", "slaw", "slar", "mt", "mr", "rep", "sr", "st", "heldM", "heldS"}
    BY <1>5
  <2> QED
    BY <1>1, <1>6, <2>1
<1>8. MReady' /\ PendingIn("master")'
  BY <1>1, <1>2, <1>3, <1>6 DEF MReady, M, PendingIn
<1>9. twcr'.sta /\ twcr'.ie /\ twi' \in {"rep", "idle"} /\ (twi' = "rep" => busy')
  BY <1>1, <1>3, <1>5
<1>10. (Signals /\ Sends /\ Holds)'
  BY <1>8, <1>9 DEF Signals, Sends, Holds, Transfers
<1>11. (MasterLoops(c) /\ MasterWaits(c))'
  BY <1>1, <1>8, <1>9 DEF MasterLoops, MasterWaits
<1>12. /\ pc[c] # "closed" /\ twi' # "heldS" /\ ~(ec'["master"] > 0)
       /\ \A n \in InVector' : msg'[n].kind = "master"
  BY <1>1, <1>2, <1>9
<1> QED
  BY <1>1, <1>2, <1>6, <1>7, <1>8, <1>10, <1>11, <1>12, MasterMoves

\* The answer of a call-back gets into the vector.
LEMMA HomesAnswer ==
  ASSUME NEW ms, NEW ns, NEW lists \in [Client -> Seq(Msg)], NEW v, NEW w, Homes(ms, lists, v),
         NEW n \in Msg, ms[n] = NULL, ns[n] # NULL, Entries(v) \in SUBSET Msg,
         \A x \in Msg : x # n => (ns[x] = NULL <=> ms[x] = NULL),
         Entries(w) = Entries(v) \cup {n},
         \A d \in Client : \A x \in Range(lists[d]) : ms[x] # NULL
  PROVE  Homes(ns, lists, w)
<1>1. \A x \in Entries(w) : ns[x] # NULL
  BY DEF Homes
<1>2. \A d \in Client : Range(lists[d]) \cap Entries(w) = {}
  BY DEF Homes
<1>3. \A x \in Msg : ns[x] # NULL => x \in Entries(w) \/ \E d \in Client : x \in Range(lists[d])
  BY DEF Homes
<1> QED
  BY <1>1, <1>2, <1>3 DEF Homes

\* The message m of the client c called back, and the answer n is behind it.
AnsweredIs(c, m, n, i) ==
  /\ i \in Slots /\ m = vec.data[i] /\ m \in InVector /\ m \in Msg /\ msg[m] # NULL
  /\ n \in Msg /\ n \notin InVector /\ msg[n] = NULL
  /\ Inserted(vec', vec, n, i + 1) /\ vec.length \in Nat
  /\ InVector' = InVector \cup {n}
  /\ msg' \in [Msg -> Features \cup {NULL}]
  /\ msg'[m].done /\ msg'[m].kind = msg[m].kind /\ msg'[m].cb = msg[m].cb
  /\ msg'[n].kind = Kind(c) /\ ~msg'[n].done
  /\ \A x \in Msg : x # m /\ x # n => msg'[x] = msg[x]
  /\ \A x \in Msg : x # n => (msg'[x] = NULL <=> msg[x] = NULL)
  /\ Placed'

LEMMA Answered ==
  ASSUME Assumed, IInv, NEW c \in Client, NEW n \in Msg, NEW tx \in BOOLEAN, NEW cb \in BOOLEAN,
         NEW len \in AnswerLengths(c), CallBack(c, n, tx, cb, len)
  PROVE  AnsweredIs(c, Get(vec, index[c]), n, index[c])
<1> DEFINE i == index[c]
           m == Get(vec, i)
           x == NewMessage(c, tx, cb, len)
<1>1. /\ m # NULL /\ msg[n] = NULL /\ msgs' = msgs
      /\ msg' = [msg EXCEPT ![m].done = TRUE, ![n] = x]
      /\ vec' = InsertEntry(vec, n, i + 1)
  BY DEF CallBack
<1>2. /\ VectorOK(vec) /\ NullIsApart /\ NULL \notin Msg /\ vec.length \in Nat
      /\ InVector = Entries(vec) /\ InVector \in SUBSET Msg
      /\ msg \in [Msg -> Features \cup {NULL}] /\ NULL \notin Features
      /\ msgs \in [Client -> Seq(Msg)] /\ Homes(msg, msgs, vec) /\ i \in Int
  BY VectorIs DEF IInv, Types, Assumed, NullIsApart, InVector, Placed
<1>3. i \in 0 .. vec.length - 1 /\ m = vec.data[i] /\ m \in Entries(vec)
  BY <1>1, <1>2, GetIs
<1>4. x \in Features /\ x.kind = Kind(c) /\ ~x.done
  <2>1. len \in Lengths \cup {0}
    BY DEF AnswerLengths
  <2> QED
    BY <2>1, NewMessageIs
<1> HIDE DEF x, m, i
<1>5. m \in Msg /\ m \in InVector /\ msg[m] # NULL /\ msg[m] \in Features /\ n \notin InVector
  BY <1>1, <1>2, <1>3 DEF Homes
<1>6. m # n
  BY <1>1, <1>5
<1> DEFINE y == [msg[m] EXCEPT !.done = TRUE]
<1>7. y \in Features /\ y.done /\ y.kind = msg[m].kind /\ y.cb = msg[m].cb
  BY <1>5 DEF Features
<1>8. msg' = [[msg EXCEPT ![m] = y] EXCEPT ![n] = x]
  BY <1>1
<1> HIDE DEF y
<1>9. /\ msg' \in [Msg -> Features \cup {NULL}] /\ msg'[m] = y /\ msg'[n] = x
      /\ \A z \in Msg : z # m /\ z # n => msg'[z] = msg[z]
  BY <1>2, <1>4, <1>5, <1>6, <1>7, <1>8
<1>10. \A z \in Msg : z # n => (msg'[z] = NULL <=> msg[z] = NULL)
  BY <1>2, <1>5, <1>7, <1>9
<1>11. vec.data # NULL /\ i + 1 \in 0 .. vec.length /\ i \in Int
  BY <1>2, <1>3 DEF VectorOK, Filled
<1> DEFINE p == i + 1
<1>12. vec' = InsertEntry(vec, n, p) /\ p \in 0 .. vec.length /\ n \in Msg \ Entries(vec)
  BY <1>1, <1>2, <1>5, <1>11
<1> HIDE DEF p
<1>13. Inserted(vec', vec, n, p)
  BY <1>2, <1>11, <1>12, InsertEntryIs
<1>14. Entries(vec') = Entries(vec) \cup {n}
  BY <1>2, <1>12, <1>13, InsertedEntries
<1>15. Placed'
  <2> DEFINE ns == msg'
             w == vec'
  <2>1. /\ Entries(w) = Entries(vec) \cup {n} /\ ns[n] # NULL /\ msg[n] = NULL
        /\ \A z \in Msg : z # n => (ns[z] = NULL <=> msg[z] = NULL)
        /\ Entries(vec) \in SUBSET Msg
    BY <1>1, <1>2, <1>4, <1>9, <1>10, <1>14
  <2>2. \A d \in Client : \A z \in Range(msgs[d]) : msg[z] # NULL
    BY ListsAre
  <2> HIDE DEF ns, w
  <2>3. Homes(ns, msgs, w)
    BY <1>2, <2>1, <2>2, HomesAnswer
  <2> QED
    BY <1>1, <2>3 DEF Placed, ns, w
<1>16. InVector' = InVector \cup {n}
  BY <1>2, <1>14 DEF InVector
<1>17. AnsweredIs(c, m, n, i)
  <2>1. i \in Slots /\ m = vec.data[i] /\ Inserted(vec', vec, n, i + 1)
    BY <1>3, <1>13 DEF Slots, p
  <2>2. /\ msg'[m].done /\ msg'[m].kind = msg[m].kind /\ msg'[m].cb = msg[m].cb
        /\ msg'[n].kind = Kind(c) /\ ~msg'[n].done
    BY <1>4, <1>7, <1>9
  <2> QED
    BY <1>1, <1>2, <1>5, <1>9, <1>10, <1>15, <1>16, <2>1, <2>2 DEF AnsweredIs
<1> QED
  BY <1>17 DEF m, i

LEMMA AnswerMoves ==
  ASSUME Assumed, IInv, NEW c \in Client, NEW n \in Msg, NEW tx \in BOOLEAN, NEW cb \in BOOLEAN,
         NEW len \in AnswerLengths(c), CallBack(c, n, tx, cb, len)
  PROVE  /\ pc[c] = "loop" /\ pc' = [pc EXCEPT ![c] = "clean"] /\ pc'[c] = "clean"
         /\ msg[Get(vec, index[c])].cb /\ index'[c] = index[c] + 1
         /\ Types' /\ Placed' /\ Threads' /\ Queues' /\ Turns' /\ ec' = ec
         /\ UNCHANGED <<msgs, hwVars, eventVars, holder, rc, length, cur>>
         /\ PendingIn(Kind(c))' /\ \A m \in InVector' : msg'[m].kind = Kind(c)
<1> DEFINE i == index[c]
           m == Get(vec, i)
<1>1. /\ cur = c /\ pc[c] = "loop" /\ msg[m].cb
      /\ index' = [index EXCEPT ![c] = @ + 1] /\ pc' = [pc EXCEPT ![c] = "clean"]
      /\ UNCHANGED <<msgs, hwVars, eventVars, holder, rc, length, cur>>
  BY DEF CallBack, Goto
<1>2. AnsweredIs(c, m, n, i)
  BY Answered
<1> HIDE DEF m, i
<1>3. PendingIn(Kind(c))'
  BY <1>2 DEF AnsweredIs, PendingIn, Kind
<1>4. \A x \in InVector' : msg'[x].kind = Kind(c)
  <2>1. \A x \in InVector : x \in Msg /\ msg[x].kind = Kind(c)
    BY <1>1, AsideTurns, VectorIs DEF IInv, Types
  <2> QED
    BY <1>2, <2>1 DEF AnsweredIs
<1>5. /\ \A d \in Client : \A x \in Range(msgs'[d]) :
           msg'[x] # NULL /\ msg'[x].kind = Kind(d) /\ ~msg'[x].done
      /\ \A d \in Client : d # c => msgs'[d] = msgs[d]
  <2>1. ASSUME NEW d \in Client, NEW x \in Range(msgs'[d])
        PROVE  msg'[x] # NULL /\ msg'[x].kind = Kind(d) /\ ~msg'[x].done
    <3>1. x \in Msg /\ x \notin InVector /\ msg[x] # NULL /\ msg[x].kind = Kind(d) /\ ~msg[x].done
      BY <1>1, <2>1, ListsAre
    <3> QED
      BY <1>2, <3>1 DEF AnsweredIs
  <2> QED
    BY <1>1, <2>1
<1>6. "clean" \in InCore /\ "clean" # "update" /\ "clean" # "add"
  BY DEF InCore
<1>7. /\ Threads' /\ Queues' /\ Turns'
      /\ pc' \in [Client -> Stages] /\ pc'[c] = "clean" /\ ec' = ec
  BY <1>1, <1>4, <1>5, <1>6, CoreMoves
<1>8. index' \in [Client -> Int] /\ index'[c] = i + 1
  <2>1. index \in [Client -> Int] /\ index[c] + 1 \in Int
    BY ThreadTypes
  <2> QED
    BY <1>1, <2>1 DEF i
<1>9. Types' /\ Placed'
  BY <1>1, <1>2, <1>7, <1>8 DEF AnsweredIs, Inserted, IInv, Types, hwVars, eventVars
<1> QED
  BY <1>1, <1>3, <1>4, <1>7, <1>8, <1>9 DEF m, i

LEMMA CallBackKeepsMaster ==
  ASSUME Assumed, IInv, NEW c \in Masters, NEW n \in Msg, NEW tx \in BOOLEAN, NEW cb \in BOOLEAN,
         NEW len \in AnswerLengths(c), CallBack(c, n, tx, cb, len)
  PROVE  IInv'
<1>1. /\ pc[c] = "loop" /\ pc' = [pc EXCEPT ![c] = "clean"] /\ pc'[c] = "clean"
      /\ index'[c] = index[c] + 1
      /\ Types' /\ Placed' /\ Threads' /\ Queues' /\ Turns' /\ ec' = ec
      /\ UNCHANGED <<msgs, hwVars, eventVars, holder, rc, length, cur>>
      /\ PendingIn(Kind(c))' /\ \A m \in InVector' : msg'[m].kind = Kind(c)
  BY AnswerMoves, ClientsAre
<1>2. /\ Kind(c) = "master" /\ ptr.slave = NULL /\ twi # "heldS"
      /\ ec["master"] = 0
      /\ \A d \in Masters : d # c => pc[d] \in {"closed", "open", "lock"}
  BY <1>1, MasterIs, HolderIs
<1>3. busy' = busy /\ ptr' = ptr /\ twcr' = twcr /\ twi' = twi
  BY <1>1 DEF hwVars
<1>4. /\ Signals /\ index[c] >= 0 /\ index[c] \in Int /\ (twi = "heldM" \/ MasterQuiet)
  BY <1>1, ClientsAre DEF IInv, MasterInv, MasterLoops, Types
<1>5. ~twcr.sta /\ twi \notin Transfers
  BY <1>4 DEF Signals, MasterQuiet, Transfers
<1>6. (Signals /\ Sends /\ Holds)'
  BY <1>1, <1>2, <1>3, <1>4, <1>5 DEF Signals, Sends, Holds
<1>7. (MasterLoops(c) /\ MasterWaits(c))'
  <2>1. index'[c] > 0
    BY <1>1, <1>4
  <2>2. MasterQuiet' <=> MasterQuiet
    BY <1>3 DEF MasterQuiet
  <2> QED
    BY <1>1, <1>3, <1>4, <2>1, <2>2 DEF MasterLoops, MasterWaits
<1>8. /\ pc[c] # "closed" /\ ptr'.slave = NULL /\ twi' # "heldS" /\ PendingIn("master")'
      /\ ~(ec'["master"] > 0) /\ \A m \in InVector' : msg'[m].kind = "master"
  BY <1>1, <1>2, <1>3
<1> QED
  BY <1>1, <1>2, <1>6, <1>7, <1>8, MasterMoves

\* A slave that has its file open, and the bus.
LEMMA SlaveIs ==
  ASSUME Assumed, IInv, NEW c \in Slaves, pc[c] # "closed"
  PROVE  /\ c \in Client /\ c \notin Masters /\ Kind(c) = "slave" /\ "slave" \in Kinds
         /\ \A m \in InVector : m \in Msg /\ msg[m].kind = "slave"
         /\ ~twcr.sta /\ twi \in {"idle", "sr", "st", "heldS"} /\ (twi = "heldS" <=> ~twcr.ie)
         /\ \A i, j \in Slots : i < j /\ msg[vec.data[j]].done => msg[vec.data[i]].done
         /\ First(vec, msg, "master") = NULL
         /\ busy => twi \in {"st", "heldS"} \/ (S # NULL /\ SThere)
         /\ twi = "heldS" => pc[c] \in {"wait", "woken", "loop", "clean", "looked", "resume"}
         /\ pc[c] # "wait" => ec["slave"] = 0
         /\ pc[c] \in {"closed", "open"} /\ S # NULL => SThere /\ SlaveQuiet
         /\ SlaveTurn(c) /\ SlaveListens(c) /\ SlaveTold(c) /\ SlaveLoops(c) /\ SlaveEnds(c)
<1>1. /\ \A d \in Slaves : d = c
      /\ \A m \in InVector : msg[m].kind = "slave"
      /\ ~twcr.sta /\ twi \in {"idle", "sr", "st", "heldS"}
      /\ ~PendingIn("master")
      /\ \A i, j \in Slots : i < j /\ msg[vec.data[j]].done => msg[vec.data[i]].done
  BY TheSlavesTurn
<1>2. c \in Client /\ c \notin Masters /\ Kind(c) = "slave" /\ "slave" \in Kinds
  BY KindIs, ClientsAre DEF Kinds
<1>3. \A m \in InVector : m \in Msg
  BY VectorIs DEF IInv, Types
<1>4. twi = "heldS" <=> ~twcr.ie
  BY <1>1 DEF IInv, MasterInv, Signals
<1>5. First(vec, msg, "master") = NULL
  BY <1>1, NowFirst
<1>6. /\ busy => twi \in {"st", "heldS"} \/ (S # NULL /\ SThere)
      /\ twi = "heldS" => pc[c] \in {"wait", "woken", "loop", "clean", "looked", "resume"}
      /\ pc[c] \in {"closed", "open"} /\ S # NULL => SThere /\ SlaveQuiet
      /\ SlaveTurn(c) /\ SlaveListens(c) /\ SlaveTold(c) /\ SlaveLoops(c) /\ SlaveEnds(c)
  BY <1>1 DEF IInv, SlaveInv, SlaveBusy, SlaveHolds, SlaveRests
<1>7. pc[c] # "wait" => ec["slave"] = 0
  <2>1. \A d \in Client : Kind(d) = "slave" => d = c
    BY <1>1, KindIs
  <2> QED
    BY <1>2, <2>1, NoEvent
<1> QED
  BY <1>1, <1>2, <1>3, <1>4, <1>5, <1>6, <1>7

\* i2c_slave_tmo: the vector is left as it is, or empty.
TidiedUp(base, lists) ==
  /\ VectorOK(vec') /\ vec'.length \in Nat /\ msg' \in [Msg -> Features \cup {NULL}]
  /\ Homes(msg', lists, vec')
  /\ \A m \in Msg : m \notin InVector => msg'[m] = base[m]
  /\ \/ InVector' = {} /\ vec'.length = 0
     \/ vec' = vec /\ InVector' = InVector /\ \A m \in InVector : msg'[m] = msg[m]

LEMMA SlaveTmoIs ==
  ASSUME Assumed, IInv, NEW c \in Slaves, pc[c] # "closed",
         NEW base \in [Msg -> Features \cup {NULL}], NEW lists, Homes(base, lists, vec),
         \A m \in InVector : base[m] = msg[m], SlaveTmo(base)
  PROVE  TidiedUp(base, lists)
<1> DEFINE i == Pending(vec, base, "slave")
           some == {m \in OfKind(base, "slave") : ~base[m].done}
           gone == {vec.data[j] : j \in i .. vec.length - 1}
<1>1. i = FirstMsg(vec, some)
  BY DEF Pending
<1>2. /\ InVector \in SUBSET Msg /\ vec.length \in Nat /\ VectorOK(vec)
      /\ \A j \in 0 .. vec.length - 1 : vec.data[j] \in InVector
      /\ \A m \in InVector : \E j \in 0 .. vec.length - 1 : vec.data[j] = m
  BY VectorIs DEF IInv, Types, Slots
<1>3. \A m \in InVector : base[m].kind = "slave"
  BY SlaveIs
<1>4. \A m \in InVector : m \in some <=> ~base[m].done
  BY <1>2, <1>3 DEF OfKind, Homes, InVector
<1> HIDE DEF some
<1>5. i # NULL => /\ i \in 0 .. vec.length - 1
                  /\ \A j \in 0 .. vec.length - 1 : j < i => vec.data[j] \notin some
  BY <1>1, <1>2, FirstMsgIs DEF Assumed, NullIsApart
<1>6. IF i = NULL THEN msg' = base /\ vec' = vec ELSE CleanUp(Marked(base, gone), "slave")
  BY DEF SlaveTmo
<1>7. CASE i = NULL
  <2>1. msg' = base /\ vec' = vec /\ InVector' = InVector
    BY <1>6, <1>7 DEF InVector
  <2> QED
    BY <1>2, <2>1 DEF TidiedUp
<1>8. CASE i # NULL
  <2>1. i \in Nat /\ CleanUp(Marked(base, gone), "slave")
    BY <1>2, <1>5, <1>6, <1>8
  <2>2. gone = {vec.data[j] : j \in i .. vec.length - 1}
    OBVIOUS
  <2> HIDE DEF i, gone
  <2>3. \A j \in i .. vec.length - 1 : vec.data[j] \in InVector
    BY <1>2, <2>1
  <2>4. gone \in SUBSET InVector
    BY <2>2, <2>3
  <2>5. \A m \in InVector : base[m].done \/ m \in gone
    <3>1. ASSUME NEW j \in 0 .. vec.length - 1, ~base[vec.data[j]].done
          PROVE  vec.data[j] \in gone
      <4>1. ~(j < i)
        BY <1>2, <1>4, <1>5, <1>8, <3>1
      <4>2. j \in i .. vec.length - 1
        BY <1>2, <2>1, <4>1
      <4> QED
        BY <2>2, <4>2
    <3> QED
      BY <1>2, <3>1
  <2>6. /\ VectorOK(vec') /\ InVector' = {} /\ vec'.length = 0
        /\ msg' \in [Msg -> Features \cup {NULL}]
        /\ \A m \in Msg : m \notin InVector => msg'[m] = base[m]
        /\ Homes(msg', lists, vec')
    <3>1. \A m \in InVector : base[m].kind = "slave" /\ (base[m].done \/ m \in gone)
      BY <1>3, <2>5
    <3> DEFINE k == "slave"
    <3>2. CleanUp(Marked(base, gone), k) /\ \A m \in InVector : base[m].kind = k /\ (base[m].done \/ m \in gone)
      BY <2>1, <3>1
    <3> HIDE DEF k
    <3> QED
      BY <2>4, <3>2, EmptiedFrom
  <2> QED
    BY <2>6 DEF TidiedUp
<1> QED
  BY <1>7, <1>8

\* A slave starts with the messages and lists it has written.
LEMMA StartSlaveKeeps ==
  ASSUME Assumed, IInv, NEW c \in Slaves, cur = NULL, pc[c] = "open",
         NEW base \in [Msg -> Features \cup {NULL}], msgs' \in [Client -> Seq(Msg)],
         Homes(base, msgs', vec), \A m \in InVector : base[m] = msg[m],
         msgs'[c] # <<>>, \A d \in Client : d # c => msgs'[d] = msgs[d],
         \A d \in Client : \A n \in Range(msgs'[d]) :
           n \in Msg /\ n \notin InVector /\ base[n] # NULL /\ base[n].kind = Kind(d) /\ ~base[n].done,
         StartSlave(c, base), Starting(c)
  PROVE  IInv'
<1>1. /\ SlaveTmo(base) /\ pc' = [pc EXCEPT ![c] = "add"] /\ cur' = c
      /\ rc' = [rc EXCEPT ![c] = 0] /\ index' = [index EXCEPT ![c] = vec'.length]
      /\ UNCHANGED <<hwVars, eventVars, holder, length>>
  BY DEF StartSlave, Starting
<1>2. /\ c \in Client /\ c \notin Masters /\ Kind(c) = "slave"
      /\ \A m \in InVector : m \in Msg /\ msg[m].kind = "slave"
      /\ ~twcr.sta /\ twi \in {"idle", "sr", "st", "heldS"} /\ (twi = "heldS" <=> ~twcr.ie)
      /\ \A i, j \in Slots : i < j /\ msg[vec.data[j]].done => msg[vec.data[i]].done
      /\ busy => twi \in {"st", "heldS"} \/ (S # NULL /\ SThere)
      /\ twi # "heldS" /\ (S # NULL => SThere /\ SlaveQuiet)
  BY SlaveIs
<1>3. TidiedUp(base, msgs')
  <2> DEFINE lists == msgs'
  <2>1. Homes(base, lists, vec)
    OBVIOUS
  <2> HIDE DEF lists
  <2>2. TidiedUp(base, lists)
    BY <1>1, <2>1, SlaveTmoIs
  <2> QED
    BY <2>2 DEF lists
<1>4. busy' = busy /\ ptr' = ptr /\ bufferIndex' = bufferIndex /\ twcr' = twcr /\ twi' = twi
      /\ UNCHANGED eventVars /\ ec' = ec
  BY <1>1 DEF hwVars, eventVars
<1>5. Threads'
  <2>1. "add" \in Stages /\ "add" \in InCore
    BY DEF Stages, InCore
  <2> QED
    BY <1>1, <1>2, <2>1, ThreadsMove
<1>6. Queues'
  BY <1>1, <1>2, <1>4, QueuesMove
<1>7. Turns'
  <2>1. \A d \in Client : \A m \in Range(msgs'[d]) :
          msg'[m] # NULL /\ msg'[m].kind = Kind(d) /\ ~msg'[m].done
    BY <1>3 DEF TidiedUp
  <2>2. \A m \in InVector' : msg'[m].kind = Kind(c)
    BY <1>2, <1>3 DEF TidiedUp
  <2> QED
    BY <1>1, <1>2, <2>1, <2>2, TurnsMove
<1>8. Types'
  <2>1. pc' \in [Client -> Stages]
    BY <1>1 DEF IInv, Types, Stages
  <2>2. vec'.length \in Int /\ VectorOK(vec') /\ msg' \in [Msg -> Features \cup {NULL}]
    BY <1>3 DEF TidiedUp
  <2>3. /\ rc' \in [Client -> {-1, 0, 1}] /\ index' \in [Client -> Int] /\ length' \in [Client -> Nat]
    BY <1>1, <2>2, ThreadTypes
  <2> QED
    BY <1>4, <2>1, <2>2, <2>3 DEF IInv, Types
<1>9. Placed'
  BY <1>3 DEF TidiedUp, Placed
<1>10. DoneInOrder'
  <2>1. CASE vec'.length = 0
    BY <2>1 DEF DoneInOrder, Slots
  <2>2. CASE vec' = vec /\ InVector' = InVector /\ \A m \in InVector : msg'[m] = msg[m]
    <3>1. Slots' = Slots /\ \A i \in Slots : vec.data[i] \in InVector
      BY <2>2, VectorIs DEF IInv, Types, Slots
    <3> QED
      BY <1>2, <2>2, <3>1 DEF DoneInOrder
  <2> QED
    BY <1>3, <2>1, <2>2 DEF TidiedUp
<1>11. SlaveQuiet' <=> SlaveQuiet
  BY <1>4 DEF SlaveQuiet
<1>12. SlaveBusy'
  BY <1>2, <1>4 DEF SlaveBusy, SlaveQuiet
<1>13. pc'[c] = "add" /\ (S' = NULL \/ SlaveQuiet') /\ pc[c] # "closed"
  BY <1>1, <1>2, <1>4, <1>11 DEF S, IInv, Types
<1>14. (SlaveListens(c) /\ SlaveTold(c) /\ SlaveLoops(c) /\ SlaveEnds(c))'
  BY <1>13 DEF SlaveListens, SlaveTold, SlaveLoops, SlaveEnds
<1>15. /\ ~twcr'.sta /\ twi' \in {"idle", "sr", "st", "heldS"} /\ (twi' = "heldS" <=> ~twcr'.ie)
       /\ twi' # "heldS" /\ pc' = [pc EXCEPT ![c] = "add"]
  BY <1>1, <1>2, <1>4
<1> QED
  BY <1>5, <1>6, <1>7, <1>8, <1>9, <1>10, <1>12, <1>13, <1>14, <1>15, SlaveMoves

LEMMA FlushKeepsSlave ==
  ASSUME Assumed, IInv, NEW c \in Slaves, Flush(c)
  PROVE  IInv'
<1>1. c \in Client /\ c \notin Masters
  BY KindIs, ClientsAre
<1>2. /\ cur = NULL /\ pc[c] = "open" /\ msgs[c] # <<>> /\ StartSlave(c, msg) /\ Starting(c)
      /\ msgs' = msgs
  BY <1>1 DEF Flush
<1>3. /\ msg \in [Msg -> Features \cup {NULL}] /\ msgs' \in [Client -> Seq(Msg)]
      /\ Homes(msg, msgs', vec)
  BY <1>2 DEF IInv, Types, Placed
<1>4. \A d \in Client : \A n \in Range(msgs'[d]) :
        n \in Msg /\ n \notin InVector /\ msg[n] # NULL /\ msg[n].kind = Kind(d) /\ ~msg[n].done
  BY <1>2, ListsAre
<1>5. msgs'[c] # <<>> /\ \A d \in Client : d # c => msgs'[d] = msgs[d]
  BY <1>2
<1> DEFINE base == msg
<1>6. /\ base \in [Msg -> Features \cup {NULL}] /\ Homes(base, msgs', vec)
      /\ \A m \in InVector : base[m] = msg[m]
      /\ \A d \in Client : \A n \in Range(msgs'[d]) :
           n \in Msg /\ n \notin InVector /\ base[n] # NULL /\ base[n].kind = Kind(d) /\ ~base[n].done
      /\ StartSlave(c, base)
  BY <1>2, <1>3, <1>4
<1> HIDE DEF base
<1> QED
  BY <1>2, <1>3, <1>5, <1>6, StartSlaveKeeps

LEMMA ListenKeepsSlave ==
  ASSUME Assumed, IInv, NEW c \in Slaves, NEW m \in Msg, NEW n \in Lengths, Listen(c, m, n)
  PROVE  IInv'
<1> DEFINE x == NewMessage(c, FALSE, c \in HasCallback, n)
           base == [msg EXCEPT ![m] = x]
           lists == [msgs EXCEPT ![c] = Append(@, m)]
<1>1. c \in Client /\ c \notin Masters
  BY KindIs, ClientsAre
<1>2. /\ cur = NULL /\ pc[c] = "open" /\ msg[m] = NULL /\ msgs' = lists
      /\ StartSlave(c, base) /\ Starting(c)
  BY DEF Listen, MayAdd, AddEntry
<1>3. x \in Features /\ x.kind = Kind(c) /\ ~x.done
  <2>1. n \in Lengths \cup {0} /\ FALSE \in BOOLEAN /\ (c \in HasCallback) \in BOOLEAN
    OBVIOUS
  <2> DEFINE cb == c \in HasCallback
             tx == FALSE
  <2>2. tx \in BOOLEAN /\ cb \in BOOLEAN /\ x = NewMessage(c, tx, cb, n)
    OBVIOUS
  <2> HIDE DEF cb, tx, x
  <2> QED
    BY <1>1, <2>1, <2>2, NewMessageIs
<1>4. msg \in [Msg -> Features \cup {NULL}] /\ msgs \in [Client -> Seq(Msg)]
  BY DEF IInv, Types
<1> HIDE DEF x
<1>5. base = [msg EXCEPT ![m] = x] /\ lists = [msgs EXCEPT ![c] = Append(@, m)]
  OBVIOUS
<1> HIDE DEF base, lists
<1>6. WrittenIs(base, lists, c, m)
  BY <1>1, <1>2, <1>3, <1>5, Written
<1>7. /\ base \in [Msg -> Features \cup {NULL}] /\ msgs' \in [Client -> Seq(Msg)]
      /\ Homes(base, msgs', vec) /\ msgs'[c] # <<>>
      /\ \A k \in Msg : k # m => base[k] = msg[k]
      /\ \A d \in Client : d # c => msgs'[d] = msgs[d]
      /\ \A d \in Client : \A k \in Range(msgs'[d]) :
           base[k] # NULL /\ base[k].kind = Kind(d) /\ ~base[k].done
      /\ m \notin InVector
  BY <1>2, <1>6 DEF WrittenIs
<1>8. \A k \in InVector : base[k] = msg[k]
  BY <1>7, VectorIs DEF IInv, Types
<1>9. \A d \in Client : \A k \in Range(msgs'[d]) : k \in Msg /\ k \notin InVector
  <2>1. ASSUME NEW d \in Client, NEW k \in Range(msgs'[d]) PROVE k \in Msg /\ k \notin InVector
    <3>1. msgs'[d] \in Seq(Msg) /\ DOMAIN msgs'[d] = 1 .. Len(msgs'[d])
      BY <1>7
    <3>2. k \in Msg
      BY <3>1 DEF Range
    <3>3. k \notin InVector
      BY <1>7 DEF Homes, InVector
    <3> QED
      BY <3>2, <3>3
  <2> QED
    BY <2>1
<1>10. \A d \in Client : \A k \in Range(msgs'[d]) :
         k \in Msg /\ k \notin InVector /\ base[k] # NULL /\ base[k].kind = Kind(d) /\ ~base[k].done
  BY <1>7, <1>9
<1>11. /\ base \in [Msg -> Features \cup {NULL}] /\ msgs' \in [Client -> Seq(Msg)]
       /\ Homes(base, msgs', vec) /\ msgs'[c] # <<>>
       /\ \A d \in Client : d # c => msgs'[d] = msgs[d]
  BY <1>7
<1> QED
  BY <1>2, <1>8, <1>10, <1>11, StartSlaveKeeps

\* The vector gets one more entry, for a slave that starts.
LEMMA AddMessageKeepsSlave ==
  ASSUME Assumed, IInv, NEW c \in Slaves, AddMessage(c)
  PROVE  IInv'
<1>1. c \in Client
  BY ClientsAre
<1>2. /\ Types' /\ Placed' /\ Threads' /\ Queues' /\ Turns'
      /\ pc[c] = "add" /\ pc' = [pc EXCEPT ![c] = "add"] /\ pc'[c] = "add"
      /\ UNCHANGED <<hwVars, eventVars, threadVars>>
  BY <1>1, AddMessageMoves
<1>3. /\ ~twcr.sta /\ twi \in {"idle", "sr", "st", "heldS"} /\ (twi = "heldS" <=> ~twcr.ie)
      /\ \A i, j \in Slots : i < j /\ msg[vec.data[j]].done => msg[vec.data[i]].done
      /\ busy => twi \in {"st", "heldS"} \/ (S # NULL /\ SThere)
      /\ twi # "heldS" /\ (S = NULL \/ SlaveQuiet)
  BY <1>2, SlaveIs DEF SlaveTurn
<1>4. /\ busy' = busy /\ ptr' = ptr /\ twcr' = twcr /\ twi' = twi /\ S' = S
      /\ (SlaveQuiet' <=> SlaveQuiet)
  BY <1>2 DEF hwVars, S, SlaveQuiet
<1> DEFINE m == Head(msgs[c])
<1>5. AddedIs(c, m)
  BY <1>1, Added
<1> HIDE DEF m
<1>6. /\ vec.length \in Nat /\ vec'.length = vec.length + 1
      /\ vec'.data[vec.length] = m
      /\ \A i \in 0 .. vec.length - 1 : vec'.data[i] = vec.data[i] /\ msg'[vec.data[i]] = msg[vec.data[i]]
      /\ ~msg'[m].done
  <2>1. \A i \in 0 .. vec.length - 1 : vec.data[i] \in InVector /\ vec.data[i] \in Msg
    BY VectorIs DEF IInv, Types, Slots
  <2> QED
    BY <1>5, <2>1 DEF AddedIs, Inserted
<1>7. DoneInOrder'
  <2>1. ASSUME NEW i \in 0 .. vec'.length - 1, NEW j \in 0 .. vec'.length - 1, i < j,
               msg'[vec'.data[j]].done
        PROVE  msg'[vec'.data[i]].done
    <3>1. j # vec.length
      BY <1>6, <2>1
    <3>2. j \in 0 .. vec.length - 1 /\ i \in 0 .. vec.length - 1
      BY <1>6, <2>1, <3>1
    <3> QED
      BY <1>3, <1>6, <2>1, <3>2 DEF Slots
  <2> QED
    BY <2>1 DEF DoneInOrder, Slots
<1>8. SlaveBusy'
  BY <1>3, <1>4 DEF SlaveBusy, SlaveQuiet
<1>9. (SlaveListens(c) /\ SlaveTold(c) /\ SlaveLoops(c) /\ SlaveEnds(c))'
  BY <1>2 DEF SlaveListens, SlaveTold, SlaveLoops, SlaveEnds
<1>10. /\ ~twcr'.sta /\ twi' \in {"idle", "sr", "st", "heldS"} /\ (twi' = "heldS" <=> ~twcr'.ie)
       /\ twi' # "heldS" /\ pc[c] # "closed" /\ (S' = NULL \/ SlaveQuiet')
  BY <1>2, <1>3, <1>4
<1> QED
  BY <1>2, <1>7, <1>8, <1>9, <1>10, SlaveMoves

LEMMA XferKeepsSlave ==
  ASSUME Assumed, IInv, NEW c \in Slaves, Xfer(c)
  PROVE  IInv'
<1>1. c \in Client /\ c \notin Masters
  BY KindIs, ClientsAre
<1>2. /\ Placed' /\ Threads' /\ Queues' /\ Turns'
      /\ pc[c] = "add" /\ pc' = [pc EXCEPT ![c] = "started"] /\ pc'[c] = "started"
      /\ UNCHANGED <<msg, msgs, vec, busy, bufferIndex, eventVars, holder, rc, cur>>
      /\ InVector' = InVector /\ Slots' = Slots /\ \A k : PendingIn(k)' <=> PendingIn(k)
      /\ PendingIn(Kind(c)) /\ length'[c] = 0
      /\ twcr' \in [sta : BOOLEAN, ea : BOOLEAN, ie : BOOLEAN] /\ ptr' \in PtrTypes /\ twi' = twi => Types'
  BY <1>1, XferMoves
<1>3. /\ Kind(c) = "slave" /\ \A m \in InVector : m \in Msg /\ msg[m].kind = "slave"
      /\ ~twcr.sta /\ twi \in {"idle", "sr", "st", "heldS"} /\ (twi = "heldS" <=> ~twcr.ie)
      /\ \A i, j \in Slots : i < j /\ msg[vec.data[j]].done => msg[vec.data[i]].done
      /\ First(vec, msg, "master") = NULL
      /\ busy => twi \in {"st", "heldS"} \/ (S # NULL /\ SThere)
      /\ twi # "heldS" /\ (S = NULL \/ SlaveQuiet)
  BY <1>2, SlaveIs DEF SlaveTurn
<1>4. DoneInOrder'
  BY <1>2, <1>3 DEF DoneInOrder
<1>5. (SlaveTold(c) /\ SlaveLoops(c) /\ SlaveEnds(c))' /\ ~Resumed(c)'
  BY <1>2 DEF SlaveTold, SlaveLoops, SlaveEnds, Resumed
<1>6. ptr \in PtrTypes /\ twcr \in [sta : BOOLEAN, ea : BOOLEAN, ie : BOOLEAN] /\ pc[c] # "closed"
  BY <1>2 DEF IInv, Types, PtrTypes
<1>7. CASE ~busy
  <2>1. Update /\ Control(ptr'.master # NULL, TRUE, twi)
    BY <1>1, <1>3, <1>7 DEF Xfer
  <2>2. /\ ptr' \in PtrTypes /\ ptr'.master = First(vec, msg, "master")
        /\ ptr'.slave = First(vec, msg, "slave")
    BY <1>7, <2>1, UpdateIs
  <2>3. twcr' = [sta |-> FALSE, ea |-> TRUE, ie |-> TRUE] /\ twi' = twi
    BY <1>3, <1>6, <2>1, <2>2 DEF Control
  <2>4. Types'
    <3>1. twcr' \in [sta : BOOLEAN, ea : BOOLEAN, ie : BOOLEAN]
      BY <2>3
    <3> QED
      BY <1>2, <2>2, <2>3, <3>1
  <2>5. PendingIn("slave")
    BY <1>2, <1>3
  <2>6. /\ S' # NULL /\ S' \in InVector /\ msg[S'].kind = "slave" /\ ~msg[S'].done
        /\ \A i, j \in Slots : i < j /\ vec.data[j] = S' /\ msg[vec.data[i]].kind = "slave"
                                => msg[vec.data[i]].done
    BY <2>2, <2>5, NowFirst DEF S
  <2>7. SlaveListens(c)'
    <3>1. \A i \in Slots : msg[vec.data[i]].kind = "slave"
      BY <1>3, VectorIs DEF IInv, Types
    <3>2. SThere'
      BY <1>2, <2>6 DEF SThere
    <3> QED
      BY <1>2, <1>5, <2>6, <3>1, <3>2 DEF SlaveListens
  <2>8. SlaveBusy'
    BY <1>2, <1>7 DEF SlaveBusy
  <2>9. /\ ~twcr'.sta /\ twi' \in {"idle", "sr", "st", "heldS"} /\ (twi' = "heldS" <=> ~twcr'.ie)
        /\ twi' # "heldS"
    BY <1>3, <2>3
  <2> QED
    BY <1>2, <1>4, <1>5, <1>6, <2>4, <2>7, <2>8, <2>9, SlaveMoves
<1>8. CASE busy
  <2>1. UNCHANGED <<ptr, twcr, twi>>
    BY <1>8 DEF Xfer
  <2>2. S = NULL /\ S' = S /\ twi = "st"
    BY <1>3, <1>8, <2>1 DEF SlaveQuiet, S
  <2>3. SlaveListens(c)' /\ SlaveBusy'
    BY <1>2, <1>5, <1>8, <2>1, <2>2 DEF SlaveListens, SlaveBusy
  <2>4. Types'
    BY <1>2, <1>6, <2>1
  <2>5. /\ ~twcr'.sta /\ twi' \in {"idle", "sr", "st", "heldS"} /\ (twi' = "heldS" <=> ~twcr'.ie)
        /\ twi' # "heldS"
    BY <1>3, <2>1
  <2> QED
    BY <1>2, <1>4, <1>5, <1>6, <2>3, <2>4, <2>5, SlaveMoves
<1> QED
  BY <1>7, <1>8

\* A step of the slave that leaves the messages and the bus alone.
LEMMA SlaveStays ==
  ASSUME Assumed, IInv, NEW c \in Slaves, pc[c] \notin {"closed", "open", "add"},
         NEW q \in Stages, q \notin {"closed", "open", "lock", "update", "add"},
         pc' = [pc EXCEPT ![c] = q], UNCHANGED <<msg, msgs, vec, hwVars, holder>>,
         cur \in {c, NULL}, cur' = IF q \in InCore THEN c ELSE NULL,
         rc' \in [Client -> {-1, 0, 1}], index' \in [Client -> Int], length' \in [Client -> Nat],
         ec' \in [Kinds -> Nat], Queues',
         twi = "heldS" => q \in {"wait", "woken", "loop", "clean", "looked", "resume"},
         (SlaveListens(c) /\ SlaveTold(c) /\ SlaveLoops(c) /\ SlaveEnds(c))'
  PROVE  IInv'
<1>1. /\ msg' = msg /\ msgs' = msgs /\ vec' = vec /\ holder' = holder
      /\ busy' = busy /\ ptr' = ptr /\ bufferIndex' = bufferIndex /\ twcr' = twcr /\ twi' = twi
  BY DEF hwVars
<1>2. InVector' = InVector /\ Slots' = Slots /\ \A k : PendingIn(k)' <=> PendingIn(k)
  BY <1>1 DEF InVector, Slots, PendingIn
<1>3. /\ c \in Client /\ c \notin Masters /\ Kind(c) = "slave"
      /\ \A m \in InVector : m \in Msg /\ msg[m].kind = "slave"
      /\ ~twcr.sta /\ twi \in {"idle", "sr", "st", "heldS"} /\ (twi = "heldS" <=> ~twcr.ie)
  BY SlaveIs
<1>4. Types'
  <2>1. pc' \in [Client -> Stages]
    BY DEF IInv, Types
  <2> QED
    BY <1>1, <2>1 DEF IInv, Types
<1>5. Placed'
  BY <1>1 DEF IInv, Placed
<1>6. Threads'
  BY <1>1, <1>3, ThreadsMove
<1>7. Turns'
  <2>1. \A d \in Client : \A m \in Range(msgs'[d]) :
          msg'[m] # NULL /\ msg'[m].kind = Kind(d) /\ ~msg'[m].done
    BY <1>1, ListsAre
  <2>2. \A m \in InVector' : msg'[m].kind = Kind(c)
    BY <1>1, <1>2, <1>3
  <2>3. \A d \in Client : msgs'[d] = msgs[d]
    BY <1>1
  <2> QED
    BY <1>3, <2>1, <2>2, <2>3, TurnsMove
<1>8. (DoneInOrder /\ SlaveBusy)'
  BY <1>1, <1>2 DEF IInv, SlaveInv, DoneInOrder, SlaveBusy, SThere, S
<1>9. /\ ~twcr'.sta /\ twi' \in {"idle", "sr", "st", "heldS"} /\ (twi' = "heldS" <=> ~twcr'.ie)
      /\ pc[c] # "closed" /\ twi' = twi
  BY <1>1, <1>3
<1> QED
  BY <1>4, <1>5, <1>6, <1>7, <1>8, <1>9, SlaveMoves

LEMMA SlaveSame ==
  ASSUME UNCHANGED <<msg, vec, hwVars>>
  PROVE  /\ InVector' = InVector /\ Slots' = Slots /\ S' = S /\ twi' = twi /\ busy' = busy
         /\ ptr' = ptr /\ twcr' = twcr /\ msg' = msg /\ vec' = vec
         /\ (SThere' <=> SThere) /\ (NoPending' <=> NoPending) /\ (SlaveQuiet' <=> SlaveQuiet)
         /\ (LastSlaveOK' <=> LastSlaveOK)
<1>1. /\ twi' = twi /\ busy' = busy /\ ptr' = ptr /\ twcr' = twcr /\ msg' = msg /\ vec' = vec
  BY DEF hwVars
<1>2. InVector' = InVector /\ Slots' = Slots /\ S' = S
  BY <1>1 DEF InVector, Slots, S
<1>3. (SThere' <=> SThere) /\ (NoPending' <=> NoPending) /\ (SlaveQuiet' <=> SlaveQuiet)
  BY <1>1, <1>2 DEF SThere, NoPending, PendingIn, SlaveQuiet
<1>4. LastSlaveOK' <=> LastSlaveOK
  BY <1>1, <1>2, <1>3 DEF LastSlaveOK
<1> QED
  BY <1>1, <1>2, <1>3, <1>4

\* The slave goes on waiting, or wakes up.
LEMMA ListensOn ==
  ASSUME NEW c \in Slaves, UNCHANGED <<msg, vec, hwVars>>, SlaveListens(c), length' = length,
         \/ pc[c] = "started" /\ pc'[c] = "wait"
         \/ pc[c] = "wait" /\ pc'[c] = "woken"
  PROVE  SlaveListens(c)'
<1>1. /\ Slots' = Slots /\ S' = S /\ twi' = twi /\ busy' = busy
      /\ ptr' = ptr /\ msg' = msg /\ vec' = vec /\ InVector' = InVector
      /\ (SThere' <=> SThere) /\ (NoPending' <=> NoPending) /\ (SlaveQuiet' <=> SlaveQuiet)
  BY SlaveSame
<1>2. Resumed(c)' <=> Resumed(c)
  BY DEF Resumed
<1> QED
  BY <1>1, <1>2 DEF SlaveListens

LEMMA WaitNextKeepsSlave ==
  ASSUME Assumed, IInv, NEW c \in Slaves, WaitNext(c)
  PROVE  IInv'
<1>1. /\ cur = c /\ pc[c] = "started" /\ cur' = NULL /\ pc' = [pc EXCEPT ![c] = "wait"]
      /\ queue' = [queue EXCEPT ![Kind(c)] = IF @ = SIGNALED THEN <<c>> ELSE Append(@, c)]
      /\ UNCHANGED <<msg, msgs, vec, hwVars, ec, holder, index, rc, length>>
  BY DEF WaitNext, Goto
<1>2. /\ c \in Client /\ Kind(c) = "slave" /\ twi # "heldS" /\ ec["slave"] = 0
      /\ SlaveListens(c)
  BY <1>1, SlaveIs
<1>3. Queues'
  <2>1. \A d \in Client : Kind(d) = Kind(c) => pc[d] # "wait"
    BY <1>1, <1>2, KindIs, TheSlavesTurn
  <2> QED
    BY <1>1, <1>2, <2>1, WaitIs
<1>4. /\ rc' \in [Client -> {-1, 0, 1}] /\ index' \in [Client -> Int] /\ length' \in [Client -> Nat]
      /\ ec' \in [Kinds -> Nat] /\ ~(ec'["slave"] > 0)
  BY <1>1, <1>2, ThreadTypes
<1>5. pc'[c] = "wait"
  BY <1>1, <1>2 DEF IInv, Types
<1>6. SlaveListens(c)'
  BY <1>1, <1>2, <1>5, ListensOn
<1>7. (SlaveTold(c) /\ SlaveLoops(c) /\ SlaveEnds(c))'
  BY <1>1, <1>2, <1>4, <1>5 DEF SlaveTold, SlaveLoops, SlaveEnds, hwVars
<1>8. "wait" \in Stages /\ "wait" \notin InCore
  BY DEF Stages, InCore
<1>9. UNCHANGED <<msg, msgs, vec, hwVars, holder>> /\ pc[c] \notin {"closed", "open", "add"}
  BY <1>1
<1> QED
  BY <1>1, <1>3, <1>4, <1>6, <1>7, <1>8, <1>9, SlaveStays

LEMMA PostEventKeepsSlave ==
  ASSUME Assumed, IInv, NEW c \in Slaves, cur = NULL, ec["slave"] > 0, pc[c] = "wait",
         Leave("slave", c, ec["slave"] - 1), pc' = [pc EXCEPT ![c] = "woken"],
         rc' = [rc EXCEPT ![c] = 0], UNCHANGED <<msg, msgs, vec, hwVars, holder, index, length, cur>>
  PROVE  IInv'
<1>1. c \in Client /\ Kind(c) = "slave" /\ SlaveListens(c) /\ LastSlaveOK
  BY SlaveIs DEF SlaveTold
<1>2. Queues' /\ ec' \in [Kinds -> Nat] /\ ec'["slave"] = 0
  BY <1>1, LeaveIs
<1>3. /\ rc' \in [Client -> {-1, 0, 1}] /\ index' \in [Client -> Int] /\ length' \in [Client -> Nat]
      /\ rc'[c] = 0
  BY <1>1, ThreadTypes
<1>4. pc'[c] = "woken"
  BY <1>1 DEF IInv, Types
<1>5. SlaveListens(c)' /\ LastSlaveOK'
  BY <1>1, <1>4, ListensOn, SlaveSame
<1>6. (SlaveTold(c) /\ SlaveLoops(c) /\ SlaveEnds(c))'
  BY <1>3, <1>4, <1>5 DEF SlaveTold, SlaveLoops, SlaveEnds
<1>7. "woken" \in Stages /\ "woken" \notin InCore
  BY DEF Stages, InCore
<1>8. UNCHANGED <<msg, msgs, vec, hwVars, holder>> /\ cur \in {c, NULL} /\ cur' = NULL
  OBVIOUS
<1> QED
  BY <1>2, <1>3, <1>5, <1>6, <1>7, <1>8, SlaveStays

LEMMA EventTMOKeepsSlave ==
  ASSUME Assumed, IInv, NEW c \in Slaves, EventTMO(c)
  PROVE  IInv'
<1>1. pc[c] = "wait" /\ cur = NULL
  BY DEF EventTMO
<1>2. /\ c \in Client /\ Kind(c) = "slave" /\ "slave" # "master"
      /\ SlaveListens(c) /\ SlaveTold(c) /\ twi \in {"idle", "sr", "st", "heldS"}
  BY <1>1, SlaveIs
<1>3. /\ Leave(Kind(c), c, ec[Kind(c)])
      /\ pc' = [pc EXCEPT ![c] = "woken"] /\ rc' = [rc EXCEPT ![c] = -1]
      /\ UNCHANGED <<msg, msgs, vec, hwVars, holder, index, length, cur>>
  BY DEF EventTMO
<1>4. ~busy /\ twi \in {"idle", "heldS"} /\ ~(vec.length > 1)
  <2>1. "lateTmo" \notin Faults
    BY DEF Assumed, Survived
  <2>2. ~(busy \/ twi \in {"sr", "st"} \/ vec.length > 1)
    BY <1>2, <2>1 DEF EventTMO
  <2> QED
    BY <1>2, <2>2
<1>5. vec.length <= 1
  BY <1>4, VectorIs DEF IInv, Types
<1>6. /\ S = NULL => NoPending \/ ~twcr.ea
      /\ twi = "heldS" => S # NULL /\ msg[S].cb
  BY <1>1, <1>2, <1>4 DEF SlaveListens, SlaveTold, LastSlaveOK, SlaveQuiet
<1>7. Queues' /\ ec' \in [Kinds -> Nat]
  <2> DEFINE n == ec[Kind(c)]
  <2>1. Leave(Kind(c), c, n)
    BY <1>3
  <2> HIDE DEF n
  <2> QED
    BY <1>1, <1>2, <1>3, <2>1, LeaveIs
<1>8. /\ rc' \in [Client -> {-1, 0, 1}] /\ index' \in [Client -> Int] /\ length' \in [Client -> Nat]
      /\ rc'[c] = -1
  BY <1>2, <1>3, ThreadTypes
<1>9. pc'[c] = "woken"
  BY <1>2, <1>3 DEF IInv, Types
<1>10. SlaveListens(c)'
  BY <1>1, <1>2, <1>3, <1>9, ListensOn
<1>11. SlaveTold(c)'
  <2>1. /\ S' = S /\ twi' = twi /\ busy' = busy /\ twcr' = twcr /\ msg' = msg /\ vec' = vec
        /\ (NoPending' <=> NoPending)
    BY <1>3, SlaveSame
  <2>2. rc'[c] \in {0, -1} /\ ~(rc'[c] = 0)
    BY <1>8
  <2> QED
    BY <1>4, <1>5, <1>6, <1>9, <2>1, <2>2 DEF SlaveTold
<1>12. (SlaveLoops(c) /\ SlaveEnds(c))'
  BY <1>9 DEF SlaveLoops, SlaveEnds
<1>13. "woken" \in Stages /\ "woken" \notin InCore
  BY DEF Stages, InCore
<1>14. /\ UNCHANGED <<msg, msgs, vec, hwVars, holder>> /\ cur \in {c, NULL} /\ cur' = NULL
       /\ pc[c] \notin {"closed", "open", "add"}
  BY <1>1, <1>3
<1> QED
  BY <1>3, <1>7, <1>8, <1>10, <1>11, <1>12, <1>13, <1>14, SlaveStays

\* What the slave finds when it is told.
LEMMA LastSlaveFound ==
  ASSUME Assumed, IInv, NEW c \in Slaves, pc[c] = "woken", LastSlaveOK, ptr.lastSlave # NULL,
         NEW i, i = Locate(vec, ptr.lastSlave)
  PROVE  /\ i \in Slots /\ i # -1 /\ (Resumed(c) => length[c] = vec.length)
         /\ \/ SlaveQuiet /\ NoPending /\ ~msg[vec.data[i]].cb
            \/ twi = "heldS" /\ DoneBefore(i) /\ msg[vec.data[i]].cb
<1> DEFINE m == ptr.lastSlave
<1>1. m \in InVector /\ m # NULL /\ InVector = Entries(vec) /\ vec.length \in Nat
      /\ \A k, j \in Slots : vec.data[k] = vec.data[j] => k = j
  BY VectorIs DEF LastSlaveOK, IInv, Types, InVector
<1> HIDE DEF m
<1>2. i = Locate(vec, m)
  BY DEF m
<1>3. i \in 0 .. vec.length - 1 /\ vec.data[i] = m
  BY <1>1, <1>2, LocateIs
<1>4. i \in Slots /\ i # -1 /\ i \in Int
  BY <1>1, <1>3 DEF Slots
<1>5. SlaveListens(c) /\ \A k, j \in Slots : k < j /\ msg[vec.data[j]].done => msg[vec.data[k]].done
  BY SlaveIs
<1>6. Resumed(c) => length[c] = vec.length
  BY <1>5 DEF SlaveListens
<1>7. CASE SlaveQuiet /\ NoPending /\ ~msg[m].cb
  BY <1>3, <1>4, <1>6, <1>7
<1>8. CASE twi = "heldS" /\ S # NULL /\ m = S /\ msg[S].cb /\ ~msg[S].done
  <2>1. \A k, j \in Slots : k < j /\ vec.data[j] = S => msg[vec.data[k]].done
    BY <1>5, <1>8 DEF SlaveListens
  <2>2. DoneBefore(i)
    BY <1>3, <1>4, <1>5, <1>8, <2>1 DEF DoneBefore
  <2> QED
    BY <1>3, <1>4, <1>6, <1>8, <2>2
<1> QED
  BY <1>1, <1>7, <1>8 DEF LastSlaveOK, m

LEMMA SlaveReturns ==
  ASSUME Assumed, IInv, NEW c \in Slaves, cur = NULL, pc[c] = "woken", LastSlaveOK,
         NEW r, r = IF ptr.lastSlave = NULL THEN -1 ELSE 0, NEW i \in Int,
         ptr.lastSlave # NULL => i = Locate(vec, ptr.lastSlave), Returned(c, r, i),
         UNCHANGED <<msg, msgs, vec, hwVars, eventVars, holder, length>>
  PROVE  IInv'
<1> DEFINE q == IF r = 0 /\ i # -1 /\ (Resumed(c) => i < length[c]) THEN "loop" ELSE "end"
<1>1. /\ rc' = [rc EXCEPT ![c] = r] /\ index' = [index EXCEPT ![c] = i] /\ cur' = c
      /\ pc' = [pc EXCEPT ![c] = q]
  BY DEF Returned, Goto
<1>2. c \in Client /\ r \in {-1, 0, 1}
  BY ClientsAre
<1>3. ptr.lastSlave # NULL =>
        /\ q = "loop" /\ i \in Slots
        /\ \/ SlaveQuiet /\ NoPending /\ ~msg[vec.data[i]].cb
           \/ twi = "heldS" /\ DoneBefore(i) /\ msg[vec.data[i]].cb
  <2>1. SUFFICES ASSUME ptr.lastSlave # NULL
                 PROVE /\ q = "loop" /\ i \in Slots
                       /\ \/ SlaveQuiet /\ NoPending /\ ~msg[vec.data[i]].cb
                          \/ twi = "heldS" /\ DoneBefore(i) /\ msg[vec.data[i]].cb
    OBVIOUS
  <2>2. /\ i \in Slots /\ i # -1 /\ (Resumed(c) => length[c] = vec.length)
        /\ \/ SlaveQuiet /\ NoPending /\ ~msg[vec.data[i]].cb
           \/ twi = "heldS" /\ DoneBefore(i) /\ msg[vec.data[i]].cb
    BY <2>1, LastSlaveFound
  <2>3. vec.length \in Nat
    BY VectorIs DEF IInv, Types
  <2>4. i < vec.length
    BY <2>2, <2>3 DEF Slots
  <2>5. q = "loop"
    BY <2>1, <2>2, <2>4
  <2> QED
    BY <2>2, <2>5
<1>4. ptr.lastSlave = NULL => q = "end" /\ SlaveQuiet
  BY DEF LastSlaveOK
<1> HIDE DEF q
<1>5. q \in {"loop", "end"}
  BY <1>3, <1>4
<1>6. /\ rc' \in [Client -> {-1, 0, 1}] /\ index' \in [Client -> Int] /\ length' \in [Client -> Nat]
      /\ ec' \in [Kinds -> Nat] /\ index'[c] = i
  BY <1>1, <1>2, ThreadTypes DEF eventVars
<1>7. Queues'
  BY <1>1, <1>2, <1>5, QueuesMove
<1>8. q \in Stages /\ q \in InCore /\ cur' = IF q \in InCore THEN c ELSE NULL
  BY <1>1, <1>5 DEF Stages, InCore
<1>9. pc'[c] = q
  BY <1>1, <1>2 DEF IInv, Types
<1>10. /\ Slots' = Slots /\ twi' = twi /\ busy' = busy /\ twcr' = twcr /\ msg' = msg /\ vec' = vec
       /\ (NoPending' <=> NoPending) /\ (SlaveQuiet' <=> SlaveQuiet)
  BY SlaveSame
<1>11. SlaveLoops(c)'
  <2>1. CASE q = "end"
    BY <1>9, <2>1 DEF SlaveLoops
  <2>2. CASE q = "loop"
    <3>1. i \in Slots /\ \/ SlaveQuiet /\ NoPending /\ ~msg[vec.data[i]].cb
                         \/ twi = "heldS" /\ DoneBefore(i) /\ msg[vec.data[i]].cb
      BY <1>3, <1>4, <2>2
    <3>2. CASE SlaveQuiet /\ NoPending /\ ~msg[vec.data[i]].cb
      <4>1. AtDone(c)'
        BY <1>6, <1>10, <3>1, <3>2 DEF AtDone
      <4> QED
        BY <1>9, <2>2, <4>1 DEF SlaveLoops
    <3>3. CASE twi = "heldS" /\ DoneBefore(i) /\ msg[vec.data[i]].cb
      <4>1. DoneBefore(index[c])'
        BY <1>6, <1>10, <3>3 DEF DoneBefore
      <4> QED
        BY <1>6, <1>9, <1>10, <2>2, <3>1, <3>3, <4>1 DEF SlaveLoops
    <3> QED
      BY <3>1, <3>2, <3>3
  <2> QED
    BY <1>5, <2>1, <2>2
<1>12. (SlaveListens(c) /\ SlaveTold(c) /\ SlaveEnds(c))'
  <2>1. q = "end" => SlaveQuiet
    BY <1>3, <1>4
  <2> QED
    BY <1>5, <1>9, <1>10, <2>1 DEF SlaveListens, SlaveTold, SlaveEnds, SlaveQuiet
<1>13. twi = "heldS" => q \in {"wait", "woken", "loop", "clean", "looked", "resume"}
  BY <1>3, <1>4 DEF SlaveQuiet
<1>14. /\ pc[c] \notin {"closed", "open", "add"} /\ q \notin {"closed", "open", "lock", "update", "add"}
       /\ UNCHANGED <<msg, msgs, vec, hwVars, holder>> /\ cur \in {c, NULL}
  BY <1>5
<1> QED
  BY <1>1, <1>6, <1>7, <1>8, <1>11, <1>12, <1>13, <1>14, SlaveStays

\* A message of the vector is given up by a thread.
LEMMA GivenUpIs ==
  ASSUME Assumed, IInv, NEW m \in InVector, msg' = Marked(msg, {m}), vec' = vec, msgs' = msgs
  PROVE  /\ msg' \in [Msg -> Features \cup {NULL}] /\ Placed'
         /\ InVector' = InVector /\ Slots' = Slots
         /\ msg'[m].done /\ \A n \in Msg : n # m => msg'[n] = msg[n]
         /\ msg'[m].kind = msg[m].kind /\ msg'[m].cb = msg[m].cb
<1>1. m \in Msg /\ msg[m] # NULL /\ InVector \in SUBSET Msg
  BY VectorIs DEF IInv, Types, Placed, Homes, InVector
<1>2. msg \in [Msg -> Features \cup {NULL}] /\ msg[m] \in Features /\ NULL \notin Features
  BY <1>1 DEF IInv, Types, Assumed, NullIsApart
<1>3. msg' = [n \in Msg |-> IF n = m THEN [msg[m] EXCEPT !.done = TRUE] ELSE msg[n]]
  BY DEF Marked
<1>4. msg'[m] = [msg[m] EXCEPT !.done = TRUE] /\ \A n \in Msg : n # m => msg'[n] = msg[n]
  BY <1>1, <1>3
<1>5. /\ msg'[m] \in Features /\ msg'[m].done /\ msg'[m].cb = msg[m].cb
      /\ msg'[m].kind = msg[m].kind
  BY <1>2, <1>4 DEF Features
<1>6. msg' \in [Msg -> Features \cup {NULL}]
  BY <1>2, <1>3, <1>4, <1>5
<1>7. \A n \in Msg : msg'[n] = NULL <=> msg[n] = NULL
  BY <1>1, <1>2, <1>4, <1>5
<1>8. Placed'
  <2> DEFINE ns == msg'
  <2>1. /\ Homes(msg, msgs, vec) /\ Entries(vec) \in SUBSET Msg
        /\ \A n \in Msg : ns[n] = NULL <=> msg[n] = NULL
    BY <1>1, <1>7 DEF IInv, Placed, InVector
  <2> HIDE DEF ns
  <2>2. Homes(ns, msgs, vec)
    BY <2>1, HomesSame
  <2> QED
    BY <2>2 DEF Placed, ns
<1>9. InVector' = InVector /\ Slots' = Slots
  BY DEF InVector, Slots
<1> QED
  BY <1>4, <1>5, <1>6, <1>8, <1>9

\* The slave's wait timed out.
LEMMA SlaveGivesUp ==
  ASSUME Assumed, IInv, NEW c \in Slaves, SlaveWoken(c), rc[c] = -1
  PROVE  IInv'
<1> DEFINE m == IF S # NULL THEN S ELSE ptr.lastSlave
           late == m # NULL /\ (Resumed(c) \/ S # NULL)
           i == IF m = NULL /\ ~Resumed(c) THEN index[c] ELSE Locate(vec, m)
<1>1. /\ cur = NULL /\ pc[c] = "woken"
      /\ ptr' = [ptr EXCEPT !.lastSlave = m]
      /\ msg' = IF late THEN Marked(msg, {m}) ELSE msg
      /\ IF late /\ msg[m].cb
         THEN busy' = FALSE /\ Control(FALSE, TRUE, Released)
         ELSE UNCHANGED <<busy, twcr, twi>>
      /\ Returned(c, -1, i)
      /\ UNCHANGED <<msgs, vec, bufferIndex, eventVars, holder, length>>
  <2> DEFINE n == IF rc[c] < 0 /\ ptr.slave # NULL THEN ptr.slave ELSE ptr.lastSlave
             tmo == rc[c] < 0 /\ n # NULL /\ (Resumed(c) \/ ptr.slave # NULL)
             r == IF n = NULL THEN -1 ELSE rc[c]
             j == IF n = NULL /\ ~Resumed(c) THEN index[c] ELSE Locate(vec, n)
  <2>1. n = m /\ tmo = late /\ r = -1 /\ j = i
    BY DEF S
  <2>2. /\ cur = NULL /\ pc[c] = "woken"
        /\ ptr' = [ptr EXCEPT !.lastSlave = n]
        /\ msg' = IF tmo THEN Marked(msg, {n}) ELSE msg
        /\ IF tmo /\ msg[n].cb
           THEN busy' = FALSE /\ Control(FALSE, TRUE, Released)
           ELSE UNCHANGED <<busy, twcr, twi>>
        /\ Returned(c, r, j)
        /\ UNCHANGED <<msgs, vec, bufferIndex, eventVars, holder, length>>
    BY DEF SlaveWoken
  <2> HIDE DEF n, m, tmo, late, r, i, j
  <2> QED
    BY <2>1, <2>2
<1>2. /\ c \in Client /\ c \notin Masters /\ Kind(c) = "slave"
      /\ \A n \in InVector : n \in Msg /\ msg[n].kind = "slave"
      /\ ~twcr.sta /\ (twi = "heldS" <=> ~twcr.ie)
      /\ SlaveListens(c) /\ SlaveTold(c)
  BY <1>1, SlaveIs
<1>3. /\ twi \in {"idle", "heldS"} /\ ~busy /\ vec.length <= 1
      /\ S = NULL => NoPending \/ ~twcr.ea
      /\ twi = "heldS" => S # NULL /\ msg[S].cb
  BY <1>1, <1>2 DEF SlaveTold
<1>4. late => m \in InVector
  BY <1>1, <1>2 DEF SlaveListens, SThere
<1>5. i \in Int
  <2>1. index[c] \in Int /\ vec.length \in Nat
    BY <1>2, VectorIs DEF IInv, Types
  <2>2. Locate(vec, m) \in Int
    <3> HIDE DEF m
    <3> QED
      BY <2>1, LocateIs
  <2> QED
    BY <2>1, <2>2
<1>6. m \in Msg \cup {NULL}
  BY DEF IInv, Types, S
<1>7. ~late => S = NULL
  OBVIOUS
<1>8. twi = "heldS" => late /\ msg[m].cb
  BY <1>3
<1> HIDE DEF m, late, i
<1>9. ptr' \in PtrTypes /\ ptr'.slave = ptr.slave
  BY <1>1, <1>6 DEF IInv, Types, PtrTypes
<1>10. /\ msg' \in [Msg -> Features \cup {NULL}] /\ Placed'
       /\ InVector' = InVector /\ Slots' = Slots
       /\ \A n \in InVector : msg'[n].kind = "slave"
       /\ \A n \in Msg : n \notin InVector => msg'[n] = msg[n]
       /\ late => \A n \in InVector : msg'[n].done
  <2>1. CASE late
    <3>1. m \in InVector /\ msg' = Marked(msg, {m}) /\ vec' = vec /\ msgs' = msgs
      BY <1>1, <1>4, <2>1
    <3>2. /\ msg' \in [Msg -> Features \cup {NULL}] /\ Placed'
          /\ InVector' = InVector /\ Slots' = Slots
          /\ msg'[m].done /\ \A n \in Msg : n # m => msg'[n] = msg[n]
          /\ msg'[m].kind = msg[m].kind
      BY <3>1, GivenUpIs
    <3>3. \A n \in InVector : n = m
      <4>1. /\ vec.length \in Nat /\ \A n \in InVector : \E j \in 0 .. vec.length - 1 : vec.data[j] = n
        BY VectorIs DEF IInv, Types, Slots
      <4>2. \A j \in 0 .. vec.length - 1 : j = 0
        BY <1>3, <4>1
      <4> QED
        BY <3>1, <4>1, <4>2
    <3> QED
      BY <1>2, <3>1, <3>2, <3>3
  <2>2. CASE ~late
    <3>1. msg' = msg /\ InVector' = InVector /\ Slots' = Slots
      BY <1>1, <2>2 DEF InVector, Slots
    <3>2. msg \in [Msg -> Features \cup {NULL}] /\ Placed'
      BY <1>1, <3>1 DEF IInv, Types, Placed
    <3> QED
      BY <1>2, <2>2, <3>1, <3>2
  <2> QED
    BY <2>1, <2>2
<1>11. late => NoPending'
  BY <1>10 DEF NoPending, PendingIn
<1>12. ~late => msg' = msg /\ (NoPending' <=> NoPending)
  BY <1>1, <1>10 DEF NoPending, PendingIn
<1>13. /\ ~busy' /\ twi' = "idle" /\ ~twcr'.sta /\ twcr'.ie
       /\ twcr' \in [sta : BOOLEAN, ea : BOOLEAN, ie : BOOLEAN]
       /\ ~late => twcr' = twcr
  <2>0. twcr \in [sta : BOOLEAN, ea : BOOLEAN, ie : BOOLEAN]
    BY DEF IInv, Types
  <2>1. CASE late /\ msg[m].cb
    <3>1. Released = "idle"
      BY <1>3 DEF Released
    <3>2. ~busy' /\ twcr' = [sta |-> FALSE, ea |-> TRUE, ie |-> TRUE] /\ twi' = "idle"
      BY <1>1, <1>2, <2>0, <2>1, <3>1 DEF Control
    <3> QED
      BY <2>1, <3>2
  <2>2. CASE ~(late /\ msg[m].cb)
    BY <1>1, <1>2, <1>3, <1>8, <2>0, <2>2
  <2> QED
    BY <2>1, <2>2
<1>14. /\ rc' = [rc EXCEPT ![c] = -1] /\ index' = [index EXCEPT ![c] = i] /\ cur' = c
       /\ pc' = [pc EXCEPT ![c] = "end"]
  BY <1>1 DEF Returned, Goto
<1>15. /\ rc' \in [Client -> {-1, 0, 1}] /\ index' \in [Client -> Int] /\ length' \in [Client -> Nat]
       /\ ec' \in [Kinds -> Nat] /\ rc'[c] = -1
  BY <1>1, <1>2, <1>5, <1>14, ThreadTypes DEF eventVars
<1>16. "end" \in Stages /\ "end" \in InCore
  BY DEF Stages, InCore
<1>17. Queues'
  BY <1>1, <1>2, <1>14, QueuesMove
<1>18. pc' \in [Client -> Stages] /\ pc'[c] = "end"
  BY <1>2, <1>14, <1>16 DEF IInv, Types
<1>19. Threads'
  BY <1>1, <1>2, <1>14, <1>16, ThreadsMove
<1>20. Turns'
  <2>1. ASSUME NEW d \in Client, NEW n \in Range(msgs'[d])
        PROVE  msg'[n] # NULL /\ msg'[n].kind = Kind(d) /\ ~msg'[n].done
    <3>1. n \in Msg /\ n \notin InVector /\ msg[n] # NULL /\ msg[n].kind = Kind(d) /\ ~msg[n].done
      BY <1>1, <2>1, ListsAre
    <3> QED
      BY <1>10, <3>1
  <2>2. /\ \A n \in InVector' : msg'[n].kind = Kind(c)
        /\ \A d \in Client : d # c => msgs'[d] = msgs[d]
    BY <1>1, <1>2, <1>10
  <2> QED
    BY <1>1, <1>2, <1>14, <2>1, <2>2, TurnsMove
<1>21. Types'
  BY <1>1, <1>9, <1>10, <1>13, <1>15, <1>18 DEF IInv, Types, PtrTypes, eventVars
<1>22. DoneInOrder' /\ SlaveBusy'
  <2>1. vec.length \in Nat /\ vec' = vec
    BY <1>1, VectorIs DEF IInv, Types
  <2>2. \A k, j \in Slots' : ~(k < j)
    BY <1>3, <2>1 DEF Slots
  <2> QED
    BY <1>13, <2>2 DEF DoneInOrder, SlaveBusy
<1>23. (SlaveListens(c) /\ SlaveTold(c) /\ SlaveLoops(c))'
  BY <1>18 DEF SlaveListens, SlaveTold, SlaveLoops
<1>24. SlaveEnds(c)'
  <2>1. ~twcr'.ea \/ NoPending'
    BY <1>3, <1>7, <1>11, <1>12, <1>13
  <2> QED
    BY <1>13, <1>15, <2>1 DEF SlaveEnds
<1>25. /\ twi' \in {"idle", "sr", "st", "heldS"} /\ (twi' = "heldS" <=> ~twcr'.ie) /\ twi' # "heldS"
       /\ pc[c] # "closed" /\ ~twcr'.sta
  BY <1>1, <1>13
<1> QED
  BY <1>10, <1>14, <1>17, <1>19, <1>20, <1>21, <1>22, <1>23, <1>24, <1>25, SlaveMoves

LEMMA SlaveWokenKeeps ==
  ASSUME Assumed, IInv, NEW c \in Client, SlaveWoken(c)
  PROVE  IInv'
<1>1. cur = NULL /\ pc[c] = "woken" /\ c \in Slaves
  BY DEF SlaveWoken, Slaves
<1>2. rc[c] \in {0, -1} /\ (rc[c] = 0 => LastSlaveOK)
  BY <1>1, SlaveIs DEF SlaveTold
<1>3. CASE rc[c] = 0
  <2> DEFINE m == ptr.lastSlave
             r == IF m = NULL THEN -1 ELSE 0
             i == IF m = NULL /\ ~Resumed(c) THEN index[c] ELSE Locate(vec, m)
  <2>1. /\ ptr' = [ptr EXCEPT !.lastSlave = m] /\ msg' = msg /\ UNCHANGED <<busy, twcr, twi>>
        /\ Returned(c, r, i)
        /\ UNCHANGED <<msgs, vec, bufferIndex, eventVars, holder, length>>
    BY <1>3 DEF SlaveWoken
  <2>2. ptr' = ptr
    BY <2>1 DEF IInv, Types
  <2>3. UNCHANGED <<msg, msgs, vec, hwVars, eventVars, holder, length>>
    BY <2>1, <2>2 DEF hwVars
  <2>4. i \in Int
    <3>1. index[c] \in Int /\ vec.length \in Nat
      BY VectorIs DEF IInv, Types
    <3>2. Locate(vec, m) \in Int
      <4> HIDE DEF m
      <4> QED
        BY <3>1, LocateIs
    <3> QED
      BY <3>1, <3>2
  <2>5. ptr.lastSlave # NULL => i = Locate(vec, ptr.lastSlave)
    OBVIOUS
  <2>6. r = IF ptr.lastSlave = NULL THEN -1 ELSE 0
    OBVIOUS
  <2> HIDE DEF r, i
  <2> QED
    BY <1>1, <1>2, <1>3, <2>1, <2>3, <2>4, <2>5, <2>6, SlaveReturns
<1>4. CASE rc[c] = -1
  BY <1>1, <1>4, SlaveGivesUp
<1> QED
  BY <1>2, <1>3, <1>4

LEMMA NoAnswerKeepsSlave ==
  ASSUME Assumed, IInv, NEW c \in Slaves, NoAnswer(c)
  PROVE  IInv'
<1>1. /\ pc[c] = "loop" /\ Get(vec, index[c]) # NULL /\ msg[Get(vec, index[c])].cb
      /\ ~twcr.ie => "heldBus" \in Faults
  BY DEF NoAnswer, Slaves
<1>2. VectorOK(vec) /\ index[c] \in Int /\ NULL \notin Msg /\ SlaveLoops(c)
  BY <1>1, SlaveIs DEF IInv, Types, Assumed
<1>3. index[c] \in Slots => Get(vec, index[c]) = vec.data[index[c]]
  BY <1>2, GetIs DEF Slots
<1>4. twi = "heldS"
  BY <1>1, <1>2, <1>3 DEF SlaveLoops, AtDone
<1> QED
  BY <1>1, <1>4 DEF IInv, MasterInv, Signals, Assumed, Survived

LEMMA NoCallBackKeepsSlave ==
  ASSUME Assumed, IInv, NEW c \in Slaves, NoCallBack(c)
  PROVE  IInv'
<1>1. /\ cur = c /\ pc[c] = "loop" /\ pc' = [pc EXCEPT ![c] = "clean"]
      /\ ~(Get(vec, index[c]) # NULL /\ msg[Get(vec, index[c])].cb)
      /\ UNCHANGED <<msg, msgs, vec, hwVars, eventVars, holder, index, rc, length, cur>>
  BY DEF NoCallBack, Goto
<1>2. c \in Client /\ SlaveLoops(c)
  BY <1>1, SlaveIs
<1>3. AtDone(c)
  <2>1. VectorOK(vec) /\ index[c] \in Int /\ NULL \notin Msg
    BY <1>2 DEF IInv, Types, Assumed
  <2>2. index[c] \in Slots => Get(vec, index[c]) = vec.data[index[c]] /\ Get(vec, index[c]) # NULL
    BY <2>1, GetIs DEF Slots
  <2> QED
    BY <1>1, <1>2, <2>2 DEF SlaveLoops
<1>4. /\ rc' \in [Client -> {-1, 0, 1}] /\ index' \in [Client -> Int] /\ length' \in [Client -> Nat]
      /\ ec' \in [Kinds -> Nat]
  BY <1>1, ThreadTypes DEF eventVars
<1>5. Queues'
  BY <1>1, <1>2, QueuesMove
<1>6. pc'[c] = "clean"
  BY <1>1, <1>2 DEF IInv, Types
<1>7. /\ Slots' = Slots /\ msg' = msg /\ vec' = vec
      /\ (NoPending' <=> NoPending) /\ (SlaveQuiet' <=> SlaveQuiet)
  BY <1>1, SlaveSame
<1>8. AtDone(c)'
  BY <1>1, <1>3, <1>7 DEF AtDone
<1>9. (SlaveListens(c) /\ SlaveTold(c) /\ SlaveLoops(c) /\ SlaveEnds(c))'
  BY <1>6, <1>8 DEF SlaveListens, SlaveTold, SlaveLoops, SlaveEnds
<1>10. "clean" \in Stages /\ "clean" \in InCore
  BY DEF Stages, InCore
<1>11. /\ UNCHANGED <<msg, msgs, vec, hwVars, holder>> /\ cur \in {c, NULL} /\ cur' = c
       /\ pc[c] \notin {"closed", "open", "add"}
  BY <1>1
<1> QED
  BY <1>1, <1>4, <1>5, <1>9, <1>10, <1>11, SlaveStays

\* The answer is behind the message that called back, and before the others.
LEMMA CallBackKeepsSlave ==
  ASSUME Assumed, IInv, NEW c \in Slaves, NEW n \in Msg, NEW tx \in BOOLEAN, NEW cb \in BOOLEAN,
         NEW len \in AnswerLengths(c), CallBack(c, n, tx, cb, len)
  PROVE  IInv'
<1>1. /\ pc[c] = "loop" /\ pc' = [pc EXCEPT ![c] = "clean"] /\ pc'[c] = "clean"
      /\ msg[Get(vec, index[c])].cb /\ index'[c] = index[c] + 1
      /\ Types' /\ Placed' /\ Threads' /\ Queues' /\ Turns' /\ ec' = ec
      /\ UNCHANGED <<msgs, hwVars, eventVars, holder, rc, length, cur>>
      /\ \A m \in InVector' : msg'[m].kind = Kind(c)
  BY AnswerMoves, ClientsAre
<1>2. /\ c \in Client /\ ~twcr.sta /\ (twi = "heldS" <=> ~twcr.ie) /\ SlaveLoops(c)
      /\ busy => twi \in {"st", "heldS"} \/ (S # NULL /\ SThere)
  BY <1>1, SlaveIs
<1>3. PICK i, m : /\ i = index[c] /\ m = Get(vec, index[c]) /\ AnsweredIs(c, m, n, i)
                  /\ msg[m].cb /\ index'[c] = i + 1
  BY <1>1, <1>2, Answered
<1>5. twi = "heldS" /\ DoneBefore(i)
  BY <1>1, <1>2, <1>3 DEF SlaveLoops, AtDone, AnsweredIs
<1>6. busy' = busy /\ twi' = twi /\ twcr' = twcr
  BY <1>1 DEF hwVars
<1>7. /\ vec.length \in Nat /\ i \in Slots /\ i \in Nat /\ vec'.length = vec.length + 1
      /\ vec.data[i] = m
      /\ vec'.data[i + 1] = n /\ ~msg'[n].done /\ msg'[m].done
      /\ \A j \in 0 .. i : vec'.data[j] = vec.data[j]
      /\ \A j \in i + 1 .. vec.length - 1 : vec'.data[j + 1] = vec.data[j]
  <2>1. vec.length \in Nat /\ i \in Slots
    BY <1>3 DEF AnsweredIs
  <2>2. i \in Nat /\ i <= (i + 1) - 1
    BY <2>1 DEF Slots
  <2>3. /\ vec'.length = vec.length + 1 /\ vec'.data[i + 1] = n
        /\ \A j \in 0 .. (i + 1) - 1 : vec'.data[j] = vec.data[j]
        /\ \A j \in i + 1 .. vec.length - 1 : vec'.data[j + 1] = vec.data[j]
        /\ ~msg'[n].done /\ msg'[m].done /\ vec.data[i] = m
    BY <1>3 DEF AnsweredIs, Inserted
  <2>4. (i + 1) - 1 = i
    BY <2>2
  <2> QED
    BY <2>1, <2>2, <2>3, <2>4
<1>8. \A j \in Slots : vec.data[j] \in Msg /\ vec.data[j] # n /\ (vec.data[j] = m => j = i)
  <2>1. \A j \in Slots : vec.data[j] \in InVector /\ vec.data[j] \in Msg
    BY VectorIs DEF IInv, Types
  <2>2. \A j, k \in Slots : vec.data[j] = vec.data[k] => j = k
    BY VectorIs DEF IInv, Types
  <2>3. n \notin InVector
    BY <1>3 DEF AnsweredIs
  <2> QED
    BY <1>7, <2>1, <2>2, <2>3
<1>9. \A j \in Slots : j # i => msg'[vec.data[j]] = msg[vec.data[j]]
  BY <1>3, <1>8 DEF AnsweredIs
<1>10. DoneBefore(i + 1)'
  <2>1. ASSUME NEW j \in 0 .. vec'.length - 1, j < i + 1 PROVE msg'[vec'.data[j]].done
    <3>1. j \in 0 .. i /\ j \in Slots /\ (j = i \/ j < i)
      BY <1>7, <2>1 DEF Slots
    <3>2. vec'.data[j] = vec.data[j]
      BY <1>7, <3>1
    <3>3. CASE j = i
      BY <1>7, <3>2, <3>3
    <3>4. CASE j < i
      <4>1. j # i
        BY <1>7, <3>1, <3>4
      <4> QED
        BY <1>5, <1>9, <3>1, <3>2, <3>4, <4>1 DEF DoneBefore
    <3> QED
      BY <3>1, <3>3, <3>4
  <2>2. ASSUME NEW j \in 0 .. vec'.length - 1, j > i + 1 PROVE ~msg'[vec'.data[j]].done
    <3> DEFINE k == j - 1
    <3>1. k \in i + 1 .. vec.length - 1 /\ j = k + 1 /\ k \in Slots /\ k > i /\ k # i
      BY <1>7, <2>2 DEF Slots
    <3> HIDE DEF k
    <3>2. vec'.data[j] = vec.data[k]
      BY <1>7, <3>1
    <3>3. ~msg[vec.data[k]].done
      BY <1>5, <3>1 DEF DoneBefore
    <3> QED
      BY <1>9, <3>1, <3>2, <3>3
  <2> QED
    BY <2>1, <2>2 DEF DoneBefore, Slots
<1>12. i + 1 \in Slots' /\ i + 1 > 0 /\ ~msg'[vec'.data[i + 1]].done
  BY <1>7 DEF Slots
<1>11. DoneInOrder'
  <2>1. ASSUME NEW j \in Slots', NEW k \in Slots', j < k, msg'[vec'.data[k]].done
        PROVE  msg'[vec'.data[j]].done
    <3>1. j \in Int /\ k \in Int
      BY DEF Slots
    <3>2. k # i + 1 /\ ~(k > i + 1)
      BY <1>10, <1>12, <2>1 DEF DoneBefore
    <3>3. j < i + 1
      BY <1>7, <2>1, <3>1, <3>2
    <3> QED
      BY <1>10, <2>1, <3>3 DEF DoneBefore
  <2> QED
    BY <2>1 DEF DoneInOrder
<1>13. SlaveLoops(c)'
  <2>1. index'[c] \in Slots' /\ index'[c] > 0 /\ DoneBefore(index[c])' /\ ~msg'[vec'.data[index'[c]]].done
    BY <1>3, <1>10, <1>12 DEF DoneBefore
  <2> QED
    BY <1>1, <1>5, <1>6, <2>1 DEF SlaveLoops
<1>14. (SlaveListens(c) /\ SlaveTold(c) /\ SlaveEnds(c))'
  BY <1>1 DEF SlaveListens, SlaveTold, SlaveEnds
<1>15. SlaveBusy'
  BY <1>5, <1>6 DEF SlaveBusy
<1>16. /\ ~twcr'.sta /\ twi' \in {"idle", "sr", "st", "heldS"} /\ (twi' = "heldS" <=> ~twcr'.ie)
       /\ pc[c] # "closed"
  BY <1>1, <1>2, <1>5, <1>6
<1> QED
  BY <1>1, <1>11, <1>13, <1>14, <1>15, <1>16, SlaveMoves

\* The messages behind those that are done move to the front.
LEMMA DoneMove ==
  ASSUME Assumed, IInv, NEW c \in Slaves, pc[c] # "closed", CleanUp(msg, Kind(c)),
         NEW d \in Slots, DoneBefore(d), ~msg[vec.data[d]].done
  PROVE  vec'.length = vec.length - d
<1>1. /\ VectorOK(vec) /\ NullIsApart /\ NULL \notin Msg /\ vec.length \in Nat
      /\ \A j \in 0 .. vec.length - 1 : vec.data[j] \in InVector
      /\ InVector = Entries(vec) /\ Range(Elements(vec)) = Entries(vec)
  BY VectorIs, EntriesAre DEF IInv, Types, Assumed, InVector, Slots
<1>2. Kind(c) = "slave" /\ \A m \in InVector : msg[m].kind = "slave"
  BY SlaveIs
<1> DEFINE k == Kind(c)
           gone == Gone(vec, msg, k)
<1>3. \A m \in InVector : m \in gone <=> msg[m].done
  BY <1>1, <1>2 DEF Gone
<1>4. vec' = Cleanup(vec, msg, k)
  BY DEF CleanUp
<1>5. d \in Int /\ d \in 0 .. vec.length /\ d \in 0 .. vec.length - 1
  BY <1>1 DEF Slots
<1>6. GoesFirst(vec, gone, d)
  <2>1. ASSUME NEW j \in 0 .. vec.length - 1 PROVE vec.data[j] \in gone <=> j < d
    <3>1. j \in Slots /\ vec.data[j] \in InVector
      BY <1>1 DEF Slots
    <3>2. j < d \/ j = d \/ j > d
      BY <1>5
    <3>3. (j < d => msg[vec.data[j]].done) /\ (j > d => ~msg[vec.data[j]].done)
      BY <3>1 DEF DoneBefore
    <3>4. msg[vec.data[j]].done <=> j < d
      BY <1>5, <3>2, <3>3
    <3> QED
      BY <1>3, <3>1, <3>4
  <2> QED
    BY <2>1 DEF GoesFirst
<1>7. GoesFirst(vec, Gone(vec, msg, k), d)
  BY <1>6
<1> HIDE DEF k, gone
<1>8. Cleanup(vec, msg, k).length = vec.length - d
  BY <1>1, <1>5, <1>7, CleanupShifts
<1> QED
  BY <1>4, <1>8

LEMMA SlaveCleans ==
  ASSUME Assumed, IInv, NEW c \in Slaves, cur = c, pc[c] \in {"clean", "end"}, NEW q,
         q = IF pc[c] = "clean" THEN "looked" ELSE "release",
         pc' = [pc EXCEPT ![c] = q], CleanUp(msg, Kind(c)), index' \in [Client -> Int],
         q = "looked" /\ twi = "heldS" => vec'.length > 0 /\ index'[c] = 0,
         UNCHANGED <<msgs, hwVars, eventVars, holder, rc, length, cur>>
  PROVE  IInv'
<1>1. q \in {"looked", "release"} /\ q \in InCore /\ q \notin {"update", "add"}
  BY DEF InCore
<1>2. /\ c \in Client /\ Kind(c) = "slave" /\ ~twcr.sta /\ (twi = "heldS" <=> ~twcr.ie)
      /\ \A m \in InVector : m \in Msg /\ msg[m].kind = "slave"
      /\ SlaveLoops(c) /\ SlaveEnds(c)
  BY SlaveIs
<1>3. /\ CleanedOf /\ Types' /\ Placed' /\ Threads' /\ Queues' /\ Turns' /\ pc'[c] = q
      /\ ec' = ec /\ \A m \in InVector' : msg'[m].kind = "slave"
  BY <1>1, <1>2, CleanMoves
<1>4. /\ busy' = busy /\ ptr' = ptr /\ twcr' = twcr /\ twi' = twi /\ rc' = rc
      /\ (NoPending' <=> NoPending) /\ (SlaveQuiet' <=> SlaveQuiet)
  BY <1>3 DEF hwVars, CleanedOf, NoPending, SlaveQuiet
<1>5. \A m \in InVector' : ~msg'[m].done
  <2>1. \A m \in InVector' : m \in InVector /\ m \in Msg
    BY <1>2, <1>3 DEF CleanedOf
  <2> QED
    BY <1>3, <2>1 DEF CleanedOf
<1>6. DoneInOrder'
  <2>1. \A j \in Slots' : vec'.data[j] \in InVector'
    BY <1>3, NextVectorIs DEF Types
  <2> QED
    BY <1>5, <2>1 DEF DoneInOrder
<1>7. NoPending => vec'.length = 0
  <2>1. ASSUME NoPending PROVE InVector' = {}
    BY <1>2, <1>3, <2>1 DEF CleanedOf, NoPending, PendingIn
  <2> QED
    BY <1>3, <2>1, NextVectorIs DEF Types
<1>8. /\ q = "looked" => (SlaveQuiet /\ NoPending) \/ twi = "heldS"
      /\ q = "release" => twi = "idle" /\ ~busy /\ (~twcr.ea \/ (rc[c] < 0 /\ NoPending))
  BY <1>2 DEF SlaveLoops, AtDone, SlaveEnds
<1>9. SlaveBusy'
  BY <1>1, <1>4, <1>8 DEF SlaveBusy, SlaveQuiet
<1>10. SlaveLoops(c)'
  BY <1>1, <1>3, <1>4, <1>5, <1>7, <1>8 DEF SlaveLoops
<1>11. (SlaveListens(c) /\ SlaveTold(c) /\ SlaveEnds(c))'
  BY <1>1, <1>3, <1>4, <1>8 DEF SlaveListens, SlaveTold, SlaveEnds
<1>12. /\ ~twcr'.sta /\ twi' \in {"idle", "sr", "st", "heldS"} /\ (twi' = "heldS" <=> ~twcr'.ie)
       /\ pc[c] # "closed" /\ q \notin {"closed", "open", "add"}
       /\ twi' = "heldS" => q \in {"wait", "woken", "loop", "clean", "looked", "resume"}
  BY <1>1, <1>2, <1>4, <1>8 DEF SlaveQuiet
<1> QED
  BY <1>3, <1>6, <1>9, <1>10, <1>11, <1>12, SlaveMoves

LEMMA EndCleanUpKeepsSlave ==
  ASSUME Assumed, IInv, NEW c \in Slaves, EndCleanUp(c)
  PROVE  IInv'
<1>1. /\ cur = c /\ pc[c] = "end" /\ CleanUp(msg, Kind(c)) /\ pc' = [pc EXCEPT ![c] = "release"]
      /\ UNCHANGED <<msgs, hwVars, eventVars, holder, index, rc, length, cur>>
  BY DEF EndCleanUp, Goto
<1>2. index' \in [Client -> Int]
  BY <1>1 DEF IInv, Types
<1> QED
  BY <1>1, <1>2, SlaveCleans

LEMMA LoopCleanUpKeepsSlave ==
  ASSUME Assumed, IInv, NEW c \in Slaves, LoopCleanUp(c)
  PROVE  IInv'
<1>1. cur = c /\ pc[c] = "clean" /\ c \in Client
      /\ UNCHANGED <<msgs, hwVars, eventVars, holder, rc, length, cur>>
  BY ClientsAre DEF LoopCleanUp
<1>2. SlaveLoops(c) /\ index \in [Client -> Int] /\ index[c] \in Int /\ VectorOK(vec)
      /\ vec.length \in Nat
  BY <1>1, SlaveIs, VectorIs DEF IInv, Types
<1>3. CASE index[c] > 0
  <2>1. /\ CleanUp(msg, Kind(c)) /\ pc' = [pc EXCEPT ![c] = "looked"]
        /\ index' = [index EXCEPT ![c] = @ - (vec.length - vec'.length)]
    <3>1. ~(index[c] <= 0)
      BY <1>2, <1>3
    <3> QED
      BY <3>1 DEF LoopCleanUp, Goto
  <2>2. CleanedOf
    BY <1>1, <2>1, DoneOnesGo
  <2>3. vec'.length \in Nat
    BY <2>2 DEF CleanedOf, VectorOK, Filled
  <2>4. index' \in [Client -> Int] /\ index'[c] = index[c] - (vec.length - vec'.length)
    <3>1. index[c] - (vec.length - vec'.length) \in Int
      BY <1>2, <2>3
    <3> QED
      BY <1>1, <1>2, <2>1, <3>1
  <2>5. twi = "heldS" => vec'.length > 0 /\ index'[c] = 0
    <3>1. ASSUME twi = "heldS" PROVE vec'.length > 0 /\ index'[c] = 0
      <4> DEFINE d == index[c]
      <4>1. d \in Slots /\ DoneBefore(d) /\ ~msg[vec.data[d]].done
        BY <1>1, <1>2, <3>1 DEF SlaveLoops, AtDone, SlaveQuiet
      <4>2. index'[c] = d - (vec.length - vec'.length) /\ d \in Int
        BY <1>2, <2>4
      <4> HIDE DEF d
      <4>3. vec'.length = vec.length - d
        BY <1>1, <2>1, <4>1, DoneMove
      <4>4. d < vec.length
        BY <1>2, <4>1, <4>2 DEF Slots
      <4> QED
        BY <1>2, <4>2, <4>3, <4>4
    <3> QED
      BY <3>1
  <2> QED
    BY <1>1, <2>1, <2>4, <2>5, SlaveCleans
<1>4. CASE index[c] <= 0
  <2>1. pc' = [pc EXCEPT ![c] = "resume"] /\ UNCHANGED <<msg, vec, index>>
    BY <1>2, <1>4 DEF LoopCleanUp, Goto
  <2>2. AtDone(c) /\ index[c] = 0
    <3>1. ~(index[c] > 0)
      BY <1>2, <1>4
    <3>2. AtDone(c)
      BY <1>1, <1>2, <3>1 DEF SlaveLoops
    <3> QED
      BY <1>2, <1>4, <3>2 DEF AtDone, Slots
  <2>3. UNCHANGED <<msg, vec, hwVars>> /\ index' = index
    BY <1>1, <2>1
  <2>4. /\ msg' = msg /\ vec' = vec
        /\ (NoPending' <=> NoPending) /\ (SlaveQuiet' <=> SlaveQuiet)
    BY <2>3, SlaveSame
  <2>5. pc'[c] = "resume"
    BY <1>1, <2>1 DEF IInv, Types
  <2>6. SlaveLoops(c)'
    BY <2>2, <2>3, <2>4, <2>5 DEF SlaveLoops, AtDone
  <2>7. (SlaveListens(c) /\ SlaveTold(c) /\ SlaveEnds(c))'
    BY <2>5 DEF SlaveListens, SlaveTold, SlaveEnds
  <2>8. /\ rc' \in [Client -> {-1, 0, 1}] /\ index' \in [Client -> Int] /\ length' \in [Client -> Nat]
        /\ ec' \in [Kinds -> Nat]
    BY <1>1, <2>3, ThreadTypes DEF eventVars
  <2>9. Queues'
    BY <1>1, <2>1, QueuesMove
  <2>10. "resume" \in Stages /\ "resume" \in InCore
    BY DEF Stages, InCore
  <2>11. /\ UNCHANGED <<msg, msgs, vec, hwVars, holder>> /\ cur \in {c, NULL} /\ cur' = c
         /\ pc[c] \notin {"closed", "open", "add"}
    BY <1>1, <2>1
  <2> QED
    BY <2>1, <2>6, <2>7, <2>8, <2>9, <2>10, <2>11, SlaveStays
<1> QED
  BY <1>2, <1>3, <1>4

LEMMA LoopUpdateKeepsSlave ==
  ASSUME Assumed, IInv, NEW c \in Slaves, LoopUpdate(c)
  PROVE  IInv'
<1>1. /\ cur = c /\ pc[c] = "looked" /\ Update /\ pc' = [pc EXCEPT ![c] = "resume"]
      /\ UNCHANGED <<msg, msgs, vec, busy, bufferIndex, twcr, twi, eventVars, holder, index, rc,
                     length, cur>>
  BY DEF LoopUpdate, Goto
<1>2. /\ c \in Client /\ Kind(c) = "slave" /\ ~twcr.sta /\ (twi = "heldS" <=> ~twcr.ie)
      /\ \A m \in InVector : m \in Msg /\ msg[m].kind = "slave"
      /\ SlaveLoops(c)
      /\ \A i, j \in Slots : i < j /\ msg[vec.data[j]].done => msg[vec.data[i]].done
  BY <1>1, SlaveIs
<1>3. InVector' = InVector /\ Slots' = Slots /\ (NoPending' <=> NoPending)
      /\ (SlaveQuiet' <=> SlaveQuiet)
  BY <1>1 DEF InVector, Slots, PendingIn, NoPending, SlaveQuiet
<1>4. /\ \A m \in InVector' : msg'[m].kind = Kind(c)
      /\ \A d \in Client : \A m \in Range(msgs'[d]) :
           msg'[m] # NULL /\ msg'[m].kind = Kind(d) /\ ~msg'[m].done
      /\ \A d \in Client : d # c => msgs'[d] = msgs[d]
  BY <1>1, <1>2, <1>3, ListsAre
<1>5. "resume" \in InCore /\ "resume" # "update" /\ "resume" # "add"
  BY DEF InCore
<1>6. /\ Threads' /\ Queues' /\ Turns'
      /\ pc' \in [Client -> Stages] /\ pc'[c] = "resume" /\ ec' = ec
  BY <1>1, <1>2, <1>4, <1>5, CoreMoves
<1>7. ptr' \in PtrTypes
  BY <1>1, UpdateIs
<1>8. Types' /\ Placed'
  <2>1. Placed'
    BY <1>1 DEF IInv, Placed
  <2> QED
    BY <1>1, <1>6, <1>7, <2>1 DEF IInv, Types, PtrTypes
<1>9. (SlaveQuiet /\ NoPending) \/ twi = "heldS"
  BY <1>1, <1>2 DEF SlaveLoops
<1>10. SlaveLoops(c)'
  BY <1>1, <1>2, <1>3, <1>6 DEF SlaveLoops
<1>11. (SlaveListens(c) /\ SlaveTold(c) /\ SlaveEnds(c))'
  BY <1>6 DEF SlaveListens, SlaveTold, SlaveEnds
<1>12. DoneInOrder' /\ SlaveBusy'
  BY <1>1, <1>2, <1>3, <1>9 DEF DoneInOrder, SlaveBusy, SlaveQuiet
<1>13. /\ ~twcr'.sta /\ twi' \in {"idle", "sr", "st", "heldS"} /\ (twi' = "heldS" <=> ~twcr'.ie)
       /\ pc[c] # "closed"
  BY <1>1, <1>2, <1>9 DEF SlaveQuiet
<1> QED
  BY <1>1, <1>6, <1>8, <1>10, <1>11, <1>12, <1>13, SlaveMoves

LEMMA LoopEndsKeepsSlave ==
  ASSUME Assumed, IInv, NEW c \in Slaves, LoopEnds(c)
  PROVE  IInv'
<1>1. /\ cur = c /\ pc[c] = "resume" /\ pc' = [pc EXCEPT ![c] = "end"]
      /\ Get(vec, index[c]) = NULL
      /\ UNCHANGED <<msg, msgs, vec, hwVars, eventVars, holder, index, rc, length, cur>>
  BY DEF LoopEnds, Goto
<1>2. c \in Client /\ SlaveLoops(c)
  BY <1>1, SlaveIs
<1>3. SlaveQuiet
  <2>1. VectorOK(vec) /\ index[c] \in Int /\ NULL \notin Msg /\ vec.length \in Nat
    BY <1>2, VectorIs DEF IInv, Types, Assumed
  <2>2. index[c] \notin 0 .. vec.length - 1
    BY <1>1, <2>1, GetIs
  <2>3. ~(vec.length > 0 /\ index[c] = 0)
    BY <2>1, <2>2
  <2> QED
    BY <1>1, <1>2, <2>3 DEF SlaveLoops
<1>4. /\ rc' \in [Client -> {-1, 0, 1}] /\ index' \in [Client -> Int] /\ length' \in [Client -> Nat]
      /\ ec' \in [Kinds -> Nat]
  BY <1>1, ThreadTypes DEF eventVars
<1>5. Queues'
  BY <1>1, <1>2, QueuesMove
<1>6. pc'[c] = "end"
  BY <1>1, <1>2 DEF IInv, Types
<1>7. SlaveQuiet'
  BY <1>1, <1>3, SlaveSame
<1>8. (SlaveListens(c) /\ SlaveTold(c) /\ SlaveLoops(c) /\ SlaveEnds(c))'
  BY <1>6, <1>7 DEF SlaveListens, SlaveTold, SlaveLoops, SlaveEnds, SlaveQuiet
<1>9. "end" \in Stages /\ "end" \in InCore
  BY DEF Stages, InCore
<1>10. /\ UNCHANGED <<msg, msgs, vec, hwVars, holder>> /\ cur \in {c, NULL} /\ cur' = c
       /\ pc[c] \notin {"closed", "open", "add"} /\ twi # "heldS"
  BY <1>1, <1>3 DEF SlaveQuiet
<1> QED
  BY <1>1, <1>4, <1>5, <1>8, <1>9, <1>10, SlaveStays

LEMMA ResumeKeepsSlave ==
  ASSUME Assumed, IInv, NEW c \in Slaves, Resume(c)
  PROVE  IInv'
<1> DEFINE m == Get(vec, index[c])
<1>1. /\ pc[c] = "resume" /\ pc' = [pc EXCEPT ![c] = "started"] /\ pc'[c] = "started"
      /\ index[c] \in Slots /\ m = vec.data[index[c]]
      /\ m \in InVector /\ m \in Msg /\ m # NULL /\ length'[c] = vec.length
      /\ Placed' /\ Threads' /\ Queues' /\ Turns' /\ ec' = ec
      /\ UNCHANGED <<msg, msgs, vec, busy, bufferIndex, eventVars, holder, index, rc, cur>>
      /\ InVector' = InVector /\ Slots' = Slots
      /\ ptr' \in PtrTypes /\ twcr' \in [sta : BOOLEAN, ea : BOOLEAN, ie : BOOLEAN]
         /\ twi' \in {"idle", "slaw", "slar", "mt", "mr", "rep", "sr", "st", "heldM", "heldS"}
         => Types'
  BY ResumeMoves, ClientsAre
<1>2. /\ c \in Client /\ ~twcr.sta /\ (twi = "heldS" <=> ~twcr.ie) /\ SlaveLoops(c)
      /\ \A n \in InVector : n \in Msg /\ msg[n].kind = "slave"
      /\ \A i, j \in Slots : i < j /\ msg[vec.data[j]].done => msg[vec.data[i]].done
  BY <1>1, SlaveIs
<1>3. ptr' = [ptr EXCEPT !.slave = m] /\ Control(FALSE, TRUE, Released)
  BY <1>1, <1>2 DEF Resume
<1> HIDE DEF m
<1>4. index[c] = 0 /\ (msg[m].done => ~msg[m].cb) /\ twi \in {"idle", "heldS"}
  <2>1. vec.length \in Nat /\ vec.length > 0
    BY <1>1, VectorIs DEF IInv, Types, Slots
  <2>2. \/ SlaveQuiet /\ index[c] = 0 /\ ~msg[vec.data[0]].cb
        \/ twi = "heldS" /\ index[c] = 0 /\ \A n \in InVector : ~msg[n].done
    BY <1>1, <1>2, <2>1 DEF SlaveLoops
  <2> QED
    BY <1>1, <2>2 DEF SlaveQuiet
<1>5. Released = "idle"
  BY <1>4 DEF Released
<1>6. twcr' = [sta |-> FALSE, ea |-> TRUE, ie |-> TRUE] /\ twi' = "idle"
  BY <1>2, <1>3, <1>5 DEF Control
<1>7. ptr' \in PtrTypes /\ S' = m /\ S' # NULL
  BY <1>1, <1>3 DEF IInv, Types, PtrTypes, S
<1>8. Types'
  <2>1. twcr' \in [sta : BOOLEAN, ea : BOOLEAN, ie : BOOLEAN]
        /\ twi' \in {"idle", "slaw", "slar", "mt", "mr", "rep", "sr", "st", "heldM", "heldS"}
    BY <1>6
  <2> QED
    BY <1>1, <1>7, <2>1
<1>9. SThere'
  BY <1>1, <1>2, <1>7 DEF SThere
<1>10. SlaveListens(c)'
  <2>1. msg'[S'].done => ~msg'[S'].cb
    BY <1>1, <1>4, <1>7
  <2>2. ASSUME NEW i \in Slots, NEW j \in Slots, i < j, vec.data[j] = m PROVE FALSE
    <3>1. j = 0
      BY <1>1, <1>4, <2>2, VectorIs DEF IInv, Types
    <3> QED
      BY <2>2, <3>1 DEF Slots
  <2>3. \A i, j \in Slots' : i < j /\ vec'.data[j] = S' => msg'[vec'.data[i]].done
    BY <1>1, <1>7, <2>2
  <2> QED
    BY <1>1, <1>7, <1>9, <2>1, <2>3 DEF SlaveListens
<1>11. (SlaveTold(c) /\ SlaveLoops(c) /\ SlaveEnds(c))'
  BY <1>1 DEF SlaveTold, SlaveLoops, SlaveEnds
<1>12. DoneInOrder' /\ SlaveBusy'
  BY <1>1, <1>2, <1>7, <1>9 DEF DoneInOrder, SlaveBusy
<1>13. /\ ~twcr'.sta /\ twi' \in {"idle", "sr", "st", "heldS"} /\ (twi' = "heldS" <=> ~twcr'.ie)
       /\ pc[c] # "closed" /\ twi' # "heldS"
  BY <1>1, <1>6
<1> QED
  BY <1>1, <1>8, <1>10, <1>11, <1>12, <1>13, SlaveMoves

LEMMA EndUpdateKeepsSlave ==
  ASSUME Assumed, IInv, NEW c \in Slaves, EndUpdate(c)
  PROVE  IInv'
<1>1. /\ pc[c] = "release" /\ pc' = [pc EXCEPT ![c] = "open"] /\ pc'[c] = "open"
      /\ Types' /\ Placed' /\ Threads' /\ Queues' /\ Turns'
      /\ UNCHANGED <<msg, msgs, vec, busy, bufferIndex, twcr, twi, eventVars>> /\ ec' = ec
      /\ Update /\ InVector' = InVector /\ Slots' = Slots
  BY ReturnMoves, ClientsAre
<1>2. /\ c \in Client /\ ~twcr.sta /\ (twi = "heldS" <=> ~twcr.ie) /\ SlaveEnds(c)
      /\ \A n \in InVector : n \in Msg /\ msg[n].kind = "slave"
      /\ \A i, j \in Slots : i < j /\ msg[vec.data[j]].done => msg[vec.data[i]].done
  BY <1>1, SlaveIs
<1>3. twi = "idle" /\ ~busy /\ (~twcr.ea \/ NoPending)
  BY <1>1, <1>2 DEF SlaveEnds
<1>4. S' = First(vec, msg, "slave")
  BY <1>1, <1>3, UpdateIs DEF S
<1>5. S' # NULL => (SThere /\ SlaveQuiet)'
  <2>1. S' # NULL => S' \in InVector /\ msg[S'].kind = "slave" /\ PendingIn("slave")
    BY <1>4, NowFirst
  <2> QED
    BY <1>1, <1>2, <1>3, <2>1 DEF SThere, SlaveQuiet, NoPending
<1>6. DoneInOrder' /\ SlaveBusy'
  BY <1>1, <1>2, <1>3 DEF DoneInOrder, SlaveBusy
<1>7. (SlaveListens(c) /\ SlaveTold(c) /\ SlaveLoops(c) /\ SlaveEnds(c))'
  BY <1>1 DEF SlaveListens, SlaveTold, SlaveLoops, SlaveEnds
<1>8. /\ ~twcr'.sta /\ twi' \in {"idle", "sr", "st", "heldS"} /\ (twi' = "heldS" <=> ~twcr'.ie)
      /\ pc[c] # "closed" /\ twi' # "heldS"
  BY <1>1, <1>2, <1>3
<1> QED
  BY <1>1, <1>5, <1>6, <1>7, <1>8, SlaveMoves

-----------------------------------------------------------------------------
(***************************************************************************)
(* The invariant holds.                                                    *)
(***************************************************************************)

LEMMA InitHolds ==
  ASSUME Assumed, Init
  PROVE  IInv
<1>1. /\ msg = [m \in Msg |-> NULL] /\ msgs = [c \in Client |-> <<>>]
      /\ pc = [c \in Client |-> "closed"] /\ vec = Uninit /\ busy = FALSE
      /\ ptr.slave = NULL /\ ptr.master = NULL /\ ptr.lastMaster = NULL
      /\ twcr = [sta |-> FALSE, ea |-> FALSE, ie |-> TRUE] /\ twi = "idle"
      /\ queue = [k \in Kinds |-> SIGNALED] /\ ec = [k \in Kinds |-> 0]
      /\ holder = NULL /\ cur = NULL
  BY DEF Init, AdapterInit, ClientsInit
<1>2. vec.length = 0 /\ vec.data = NULL /\ vec.limit = 0
  BY <1>1 DEF Uninit, Vector
<1>3. Types
  <2>1. VectorOK(vec)
    BY <1>1, <1>2 DEF VectorOK, Filled, Uninit
  <2>2. ptr \in [master : Msg \cup {NULL}, slave : Msg \cup {NULL},
                 lastMaster : Msg \cup {NULL}, lastSlave : Msg \cup {NULL}]
    BY DEF Init
  <2>3. msg \in [Msg -> Features \cup {NULL}] /\ msgs \in [Client -> Seq(Msg)]
    BY <1>1
  <2>4. bufferIndex \in Nat /\ index \in [Client -> Int] /\ rc \in [Client -> {-1, 0, 1}]
        /\ length \in [Client -> Nat] /\ ec \in [Kinds -> Nat]
    BY DEF Init
  <2>5. twcr \in [sta : BOOLEAN, ea : BOOLEAN, ie : BOOLEAN] /\ pc \in [Client -> Stages]
    BY <1>1 DEF Stages
  <2> QED
    BY <1>1, <2>1, <2>2, <2>3, <2>4, <2>5 DEF Types
<1>4. InVector = {} /\ Entries(vec) = {}
  BY <1>2 DEF InVector, Entries
<1>5. \A c \in Client : Range(msgs[c]) = {} /\ Len(msgs[c]) = 0 /\ msgs[c] = <<>> /\ pc[c] = "closed"
  <2>1. Range(<<>>) = {} /\ Len(<<>>) = 0
    BY DEF Range
  <2> QED
    BY <1>1, <2>1
<1>6. Placed
  BY <1>1, <1>4, <1>5 DEF Placed, Homes
<1>7. Threads
  BY <1>1, <1>5, ClientsAre, BusConstants DEF Threads, InCore
<1>8. Queues
  BY <1>1, <1>5 DEF Queues
<1>9. Turns
  BY <1>4, <1>5 DEF Turns
<1>10. MasterInv
  <2>1. \A c \in Masters : pc[c] = "closed"
    BY <1>5, ClientsAre
  <2>2. "master" \in Kinds /\ "slave" \in Kinds
    BY DEF Kinds
  <2> QED
    BY <1>1, <2>1, <2>2 DEF MasterInv, Signals, Sends, Holds, MasterTold, MasterLoops, MasterWaits, Transfers
<1>11. SlaveInv
  <2>1. \A c \in Slaves : pc[c] = "closed"
    BY <1>5, ClientsAre
  <2>2. DoneInOrder /\ SlaveBusy /\ SlaveHolds /\ SlaveRests
    BY <1>1, <1>2 DEF DoneInOrder, SlaveBusy, SlaveHolds, SlaveRests, Slots, S
  <2>3. ASSUME NEW c \in Slaves
        PROVE  SlaveTurn(c) /\ SlaveListens(c) /\ SlaveTold(c) /\ SlaveLoops(c) /\ SlaveEnds(c)
    BY <2>1 DEF SlaveTurn, SlaveListens, SlaveTold, SlaveLoops, SlaveEnds
  <2> QED
    BY <2>2, <2>3 DEF SlaveInv
<1> QED
  BY <1>3, <1>6, <1>7, <1>8, <1>9, <1>10, <1>11 DEF IInv

LEMMA StutterKeeps ==
  ASSUME IInv, UNCHANGED i2cVars
  PROVE  IInv'
<1>1. /\ msg' = msg /\ msgs' = msgs /\ vec' = vec /\ busy' = busy /\ ptr' = ptr
      /\ bufferIndex' = bufferIndex /\ twcr' = twcr /\ twi' = twi /\ queue' = queue /\ ec' = ec
      /\ holder' = holder /\ pc' = pc /\ index' = index /\ rc' = rc /\ length' = length /\ cur' = cur
  BY DEF i2cVars, hwVars, eventVars, threadVars
<1>2. InVector' = InVector /\ Slots' = Slots /\ \A k : PendingIn(k)' <=> PendingIn(k)
  BY <1>1 DEF InVector, Slots, PendingIn
<1>3. Types' /\ Placed' /\ Threads' /\ Queues'
  BY <1>1 DEF IInv, Types, Placed, Threads, Queues
<1>4. Turns'
  BY <1>1, <1>2 DEF IInv, Turns
<1>5. MasterInv'
  <2>1. (MReady' <=> MReady) /\ (MasterQuiet' <=> MasterQuiet) /\ (Adding' <=> Adding)
        /\ \A c \in Masters : Resumed(c)' <=> Resumed(c)
    BY <1>1, <1>2 DEF MReady, M, MasterQuiet, Adding, Resumed
  <2>2. LastMasterOK' <=> LastMasterOK
    BY <1>1, <1>2, <2>1 DEF LastMasterOK
  <2>3. (Signals /\ Sends /\ Holds /\ MasterTold)'
    BY <1>1, <1>2, <2>1, <2>2 DEF IInv, MasterInv, Signals, Sends, Holds, MasterTold
  <2>4. \A c \in Masters : (MasterLoops(c) /\ MasterWaits(c))'
    BY <1>1, <1>2, <2>1 DEF IInv, MasterInv, MasterLoops, MasterWaits
  <2> QED
    BY <2>3, <2>4 DEF MasterInv
<1>6. SlaveInv'
  <2>1. /\ S' = S /\ (SThere' <=> SThere) /\ (NoPending' <=> NoPending) /\ (SlaveQuiet' <=> SlaveQuiet)
        /\ (LastSlaveOK' <=> LastSlaveOK)
    BY <1>1, SlaveSame DEF hwVars
  <2>2. (DoneInOrder /\ SlaveBusy /\ SlaveHolds /\ SlaveRests)'
    BY <1>1, <1>2, <2>1 DEF IInv, SlaveInv, DoneInOrder, SlaveBusy, SlaveHolds, SlaveRests
  <2>3. ASSUME NEW c \in Slaves
        PROVE  (SlaveTurn(c) /\ SlaveListens(c) /\ SlaveTold(c) /\ SlaveLoops(c) /\ SlaveEnds(c))'
    <3>1. SlaveTurn(c) /\ SlaveListens(c) /\ SlaveTold(c) /\ SlaveLoops(c) /\ SlaveEnds(c)
      BY DEF IInv, SlaveInv
    <3>2. /\ (Resumed(c)' <=> Resumed(c)) /\ (AtDone(c)' <=> AtDone(c))
          /\ (DoneBefore(index[c])' <=> DoneBefore(index[c]))
      BY <1>1, <1>2, <2>1 DEF Resumed, AtDone, DoneBefore
    <3>3. (SlaveTurn(c) /\ SlaveTold(c) /\ SlaveEnds(c))'
      BY <1>1, <1>2, <2>1, <3>1 DEF SlaveTurn, SlaveTold, SlaveEnds
    <3>4. SlaveListens(c)'
      BY <1>1, <1>2, <2>1, <3>1, <3>2 DEF SlaveListens
    <3>5. SlaveLoops(c)'
      BY <1>1, <1>2, <2>1, <3>1, <3>2 DEF SlaveLoops
    <3> QED
      BY <3>3, <3>4, <3>5
  <2> QED
    BY <2>2, <2>3 DEF SlaveInv
<1> QED
  BY <1>3, <1>4, <1>5, <1>6 DEF IInv

LEMMA ApplicationKeeps ==
  ASSUME Assumed, IInv, NEW c \in Client, Application(c)
  PROVE  IInv'
<1>1. c \in Masters \/ c \in Slaves
  BY DEF Slaves
<1>2. CASE Socket(c) \/ Close(c) \/ Error(c)
  BY <1>2, SocketKeeps, CloseKeeps, ErrorKeeps
<1>3. CASE Flush(c)
  BY <1>1, <1>3, FlushKeepsMaster, FlushKeepsSlave
<1>4. ASSUME NEW m \in Msg, NEW n \in Lengths, Listen(c, m, n)
      PROVE  IInv'
  <2>1. c \in Slaves
    BY <1>1, <1>4 DEF Listen
  <2> QED
    BY <1>4, <2>1, ListenKeepsSlave
<1>5. ASSUME NEW m \in Msg, NEW n \in Lengths, NEW tx \in BOOLEAN, NEW cb \in BOOLEAN,
             WriteClient(c, m, tx, cb, n)
      PROVE  IInv'
  BY <1>5, WriteClientKeeps
<1> QED
  BY <1>2, <1>3, <1>4, <1>5 DEF Application

LEMMA CoreKeepsMaster ==
  ASSUME Assumed, IInv, NEW c \in Masters, c \in Client, Core(c)
  PROVE  IInv'
<1>1. CASE Lock(c) \/ MasterTmoUpdate(c) \/ MasterWoken(c) \/ MasterResumed(c) \/ SlaveWoken(c)
  BY <1>1, LockKeeps, MasterTmoUpdateKeeps, MasterWokenKeeps, MasterResumedKeeps, SlaveWokenKeeps
<1>2. CASE AddMessage(c) \/ Xfer(c) \/ WaitNext(c)
  BY <1>2, AddMessageKeepsMaster, XferKeepsMaster, WaitNextKeepsMaster
<1>3. ASSUME NEW n \in Msg, NEW tx \in BOOLEAN, NEW cb \in BOOLEAN, NEW len \in AnswerLengths(c),
             CallBack(c, n, tx, cb, len)
      PROVE  IInv'
  BY <1>3, CallBackKeepsMaster
<1>4. CASE NoAnswer(c) \/ NoCallBack(c)
  BY <1>4, NoAnswerKeepsMaster, NoCallBackKeepsMaster
<1>5. CASE LoopCleanUp(c) \/ LoopUpdate(c) \/ Resume(c) \/ LoopEnds(c)
  BY <1>5, LoopCleanUpKeepsMaster, LoopUpdateKeepsMaster, ResumeKeepsMaster, LoopEndsKeepsMaster
<1>6. CASE EndCleanUp(c) \/ EndUpdate(c)
  BY <1>6, EndCleanUpKeepsMaster, EndUpdateKeepsMaster
<1> QED
  BY <1>1, <1>2, <1>3, <1>4, <1>5, <1>6 DEF Core

LEMMA CoreKeepsSlave ==
  ASSUME Assumed, IInv, NEW c \in Slaves, c \in Client, Core(c)
  PROVE  IInv'
<1>1. CASE Lock(c) \/ MasterTmoUpdate(c) \/ MasterWoken(c) \/ MasterResumed(c) \/ SlaveWoken(c)
  BY <1>1, LockKeeps, MasterTmoUpdateKeeps, MasterWokenKeeps, MasterResumedKeeps, SlaveWokenKeeps
<1>2. CASE AddMessage(c) \/ Xfer(c) \/ WaitNext(c)
  BY <1>2, AddMessageKeepsSlave, XferKeepsSlave, WaitNextKeepsSlave
<1>3. ASSUME NEW n \in Msg, NEW tx \in BOOLEAN, NEW cb \in BOOLEAN, NEW len \in AnswerLengths(c),
             CallBack(c, n, tx, cb, len)
      PROVE  IInv'
  BY <1>3, CallBackKeepsSlave
<1>4. CASE NoAnswer(c) \/ NoCallBack(c)
  BY <1>4, NoAnswerKeepsSlave, NoCallBackKeepsSlave
<1>5. CASE LoopCleanUp(c) \/ LoopUpdate(c) \/ Resume(c) \/ LoopEnds(c)
  BY <1>5, LoopCleanUpKeepsSlave, LoopUpdateKeepsSlave, ResumeKeepsSlave, LoopEndsKeepsSlave
<1>6. CASE EndCleanUp(c) \/ EndUpdate(c)
  BY <1>6, EndCleanUpKeepsSlave, EndUpdateKeepsSlave
<1> QED
  BY <1>1, <1>2, <1>3, <1>4, <1>5, <1>6 DEF Core

LEMMA SchedulerKeeps ==
  ASSUME Assumed, IInv, NEW k \in Kinds, PostEvent(k)
  PROVE  IInv'
<1>1. PICK c \in Client : Kind(c) = k /\ pc[c] = "wait" /\ queue[k] = <<c>>
  <2>1. queue[k] \notin {SIGNALED, <<>>}
    BY DEF PostEvent, IInv, Queues
  <2> QED
    BY <2>1 DEF IInv, Queues
<1>2. Head(queue[k]) = c
  BY <1>1
<1>3. /\ cur = NULL /\ ec[k] > 0 /\ Leave(k, c, ec[k] - 1)
      /\ pc' = [pc EXCEPT ![c] = "woken"] /\ rc' = [rc EXCEPT ![c] = 0]
      /\ UNCHANGED <<msg, msgs, vec, hwVars, holder, index, length, cur>>
  BY <1>2 DEF PostEvent
<1>4. CASE c \in Masters
  <2>1. k = "master"
    BY <1>1, <1>4 DEF Kind
  <2> QED
    BY <1>1, <1>3, <1>4, <2>1, PostEventKeepsMaster
<1>5. CASE c \notin Masters
  <2>1. k = "slave" /\ c \in Slaves
    BY <1>1, <1>5 DEF Kind, Slaves
  <2> QED
    BY <1>1, <1>3, <2>1, PostEventKeepsSlave
<1> QED
  BY <1>4, <1>5

LEMMA TimeOutKeeps ==
  ASSUME Assumed, IInv, NEW c \in Client, EventTMO(c) \/ LockTimeout(c)
  PROVE  IInv'
<1>1. c \in Masters \/ c \in Slaves
  BY DEF Slaves
<1> QED
  BY <1>1, EventTMOKeepsMaster, EventTMOKeepsSlave, LockTimeoutKeeps

LEMMA NextKeeps ==
  ASSUME Assumed, IInv, [Next]_i2cVars
  PROVE  IInv'
<1>1. ASSUME NEW c \in Client, Application(c) \/ Core(c)
      PROVE  IInv'
  <2>1. c \in Masters \/ c \in Slaves
    BY DEF Slaves
  <2> QED
    BY <1>1, <2>1, ApplicationKeeps, CoreKeepsMaster, CoreKeepsSlave
<1>2. CASE Scheduler
  BY <1>2, SchedulerKeeps DEF Scheduler
<1>3. CASE TimeOuts
  BY <1>3, TimeOutKeeps DEF TimeOuts
<1>4. CASE Bus
  BY <1>4, BusKeeps
<1>5. CASE UNCHANGED i2cVars
  BY <1>5, StutterKeeps
<1> QED
  BY <1>1, <1>2, <1>3, <1>4, <1>5 DEF Next

(***************************************************************************)
(* The inductive invariant holds: threads in i2c-core.c and the interrupt  *)
(* handler of atmega-i2c.c agree on the vector, the pointers and the bus,  *)
(* wherever the one interrupts the other.                                  *)
(***************************************************************************)
THEOREM I2cInvariant ==
  ASSUME Assumed
  PROVE  Spec => []IInv
<1>1. Init => IInv
  BY InitHolds
<1>2. IInv /\ [Next]_i2cVars => IInv'
  BY NextKeeps
<1> QED
  BY <1>1, <1>2, PTL DEF Spec

-----------------------------------------------------------------------------
(***************************************************************************)
(* What follows from it.                                                   *)
(***************************************************************************)

LEMMA TypesFollow ==
  ASSUME Assumed, IInv
  PROVE  I2cTypeOK
<1>1. Types /\ Threads /\ Queues
  BY DEF IInv
<1>2. vec.length \in 0 .. vec.limit
  BY <1>1 DEF Types, VectorOK, Filled
<1>3. vec.data # NULL => vec.data \in [0 .. vec.limit - 1 -> Msg \cup {NULL}]
  BY <1>1 DEF Types, VectorOK, Filled
<1>4. \A k \in Kinds : queue[k] = SIGNALED \/ queue[k] \in Seq(Client)
  <2>1. ASSUME NEW k \in Kinds PROVE queue[k] = SIGNALED \/ queue[k] \in Seq(Client)
    <3>1. \/ queue[k] = SIGNALED \/ queue[k] = <<>>
          \/ \E c \in Client : queue[k] = <<c>>
      BY <1>1 DEF Queues
    <3>2. <<>> \in Seq(Client) /\ \A c \in Client : <<c>> \in Seq(Client)
      OBVIOUS
    <3> QED
      BY <3>1, <3>2
  <2> QED
    BY <2>1
<1>5. holder \in Client \cup {NULL}
  BY <1>1, ClientsAre DEF Threads
<1> QED
  BY <1>1, <1>2, <1>3, <1>4, <1>5 DEF Types, Threads, I2cTypeOK

LEMMA InUseFollows ==
  ASSUME Assumed, IInv
  PROVE  InUse
<1>1. SUFFICES ASSUME BusMoves
               PROVE  /\ twcr.sta \/ twi \in Transfers => M # NULL /\ Live(M)
                      /\ Listens \/ twi \in {"sr", "st"} => Live(S)
  BY DEF InUse, Transfers
<1>2. \A m \in InVector : msg[m] # NULL
  BY DEF IInv, Placed, Homes, InVector
<1>3. ASSUME twcr.sta \/ twi \in Transfers PROVE M # NULL /\ Live(M)
  <2>1. Stirs
    BY <1>1, <1>3 DEF Stirs, Transfers
  <2>2. MReady
    BY <1>3, <2>1, StirsIs
  <2> QED
    BY <1>2, <2>2 DEF MReady, Live
<1>4. ASSUME Listens \/ twi \in {"sr", "st"} PROVE Live(S)
  <2>1. Stirs
    BY <1>1, <1>4 DEF Stirs
  <2>2. S # NULL => SThere
    BY <2>1, StirsIs
  <2> QED
    BY <1>2, <2>2 DEF SThere, Live
<1> QED
  BY <1>3, <1>4

LEMMA SentOnceFollows ==
  ASSUME IInv
  PROVE  SentOnce
BY DEF SentOnce, IInv, MasterInv, Signals, Sends, MReady, Transfers

\* A list without repetitions is not longer than the number of messages.
LEMMA ListFits ==
  ASSUME NEW list \in Seq(Msg), IsFiniteSet(Msg),
         \A i, j \in 1 .. Len(list) : list[i] = list[j] => i = j
  PROVE  Len(list) <= Cardinality(Msg) /\ Cardinality(Msg) \in Nat
<1> DEFINE D == 1 .. Len(list)
<1>1. Len(list) \in Nat /\ list \in [D -> Msg] /\ DOMAIN list = D
  OBVIOUS
<1>2. list \in Injection(D, Msg)
  BY <1>1 DEF Injection, IsInjective
<1>3. Cardinality(D) <= Cardinality(Msg)
  BY <1>2, FS_Injection
<1>4. Len(list) \in Int /\ 1 \in Int
  BY <1>1
<1>5. Cardinality(D) = IF 1 > Len(list) THEN 0 ELSE Len(list) - 1 + 1
  BY <1>4, FS_Interval
<1>6. Cardinality(Msg) \in Nat
  BY FS_CardinalityType
<1> HIDE DEF D
<1> QED
  BY <1>1, <1>3, <1>5, <1>6

\* The places of a message in lists.
InLists(m) ==
  {p \in Client \X (1 .. Cardinality(Msg)) : p[2] <= Len(msgs[p[1]]) /\ msgs[p[1]][p[2]] = m}

LEMMA InListsIs ==
  ASSUME Types, Placed, IsFiniteSet(Msg), NEW m \in Msg
  PROVE  /\ \A p \in InLists(m) : m \in Range(msgs[p[1]])
         /\ \A c \in Client : m \in Range(msgs[c]) => \E p : InLists(m) = {p}
<1>1. \A c \in Client :
        /\ msgs[c] \in Seq(Msg) /\ Len(msgs[c]) \in Nat
        /\ \A i, j \in 1 .. Len(msgs[c]) : msgs[c][i] = msgs[c][j] => i = j
  BY DEF Types, Placed, Homes
<1>2. \A c \in Client : Len(msgs[c]) <= Cardinality(Msg) /\ Cardinality(Msg) \in Nat
  <2>1. ASSUME NEW c \in Client PROVE Len(msgs[c]) <= Cardinality(Msg) /\ Cardinality(Msg) \in Nat
    <3> DEFINE list == msgs[c]
    <3>1. list \in Seq(Msg) /\ \A i, j \in 1 .. Len(list) : list[i] = list[j] => i = j
      BY <1>1
    <3> HIDE DEF list
    <3>2. Len(list) <= Cardinality(Msg) /\ Cardinality(Msg) \in Nat
      BY <3>1, ListFits
    <3> QED
      BY <3>2 DEF list
  <2> QED
    BY <2>1
<1>3. ASSUME NEW p \in InLists(m)
      PROVE  /\ p[1] \in Client /\ p[2] \in 1 .. Len(msgs[p[1]]) /\ msgs[p[1]][p[2]] = m
             /\ p = <<p[1], p[2]>>
  <2>1. p \in Client \X (1 .. Cardinality(Msg)) /\ p[2] <= Len(msgs[p[1]]) /\ msgs[p[1]][p[2]] = m
    BY DEF InLists
  <2>2. p = <<p[1], p[2]>> /\ p[1] \in Client /\ p[2] \in 1 .. Cardinality(Msg)
    BY <2>1
  <2>3. Len(msgs[p[1]]) \in Nat /\ Cardinality(Msg) \in Nat
    BY <1>1, <1>2, <2>2
  <2>4. p[2] \in 1 .. Len(msgs[p[1]])
    BY <2>1, <2>2, <2>3
  <2> QED
    BY <2>1, <2>2, <2>4
<1>4. \A c \in Client : DOMAIN msgs[c] = 1 .. Len(msgs[c])
  BY <1>1
<1>5. ASSUME NEW p \in InLists(m) PROVE m \in Range(msgs[p[1]])
  BY <1>3, <1>4 DEF Range
<1>6. ASSUME NEW c \in Client, m \in Range(msgs[c]) PROVE \E p : InLists(m) = {p}
  <2>1. PICK i \in 1 .. Len(msgs[c]) : msgs[c][i] = m
    BY <1>4, <1>6 DEF Range
  <2>2. i \in 1 .. Cardinality(Msg) /\ i <= Len(msgs[c])
    BY <1>1, <1>2
  <2>3. <<c, i>> \in InLists(m)
    BY <2>1, <2>2 DEF InLists
  <2>4. ASSUME NEW p \in InLists(m) PROVE p = <<c, i>>
    <3>1. p[1] \in Client /\ m \in Range(msgs[p[1]])
      BY <1>3, <1>5
    <3>2. p[1] = c
      BY <1>6, <3>1 DEF Placed, Homes
    <3>3. p[2] = i
      BY <1>1, <1>3, <2>1, <3>2
    <3> QED
      BY <1>3, <3>2, <3>3
  <2> QED
    BY <2>3, <2>4
<1> QED
  BY <1>5, <1>6

\* The places of a message in the vector.
InSlots(m) == {i \in 0 .. vec.length - 1 : vec.data[i] = m}

LEMMA InSlotsIs ==
  ASSUME Types, NEW m
  PROVE  /\ m \notin InVector => InSlots(m) = {}
         /\ m \in InVector => \E i : InSlots(m) = {i}
<1>1. \A i, j \in 0 .. vec.length - 1 : vec.data[i] = vec.data[j] => i = j
  BY DEF Types, VectorOK, Filled
<1>2. m \notin InVector => InSlots(m) = {}
  BY DEF InSlots, InVector, Entries
<1>3. ASSUME m \in InVector PROVE \E i : InSlots(m) = {i}
  <2>1. PICK i \in 0 .. vec.length - 1 : m = vec.data[i]
    BY <1>3 DEF InVector, Entries
  <2>2. i \in InSlots(m) /\ \A j \in InSlots(m) : j = i
    BY <1>1, <2>1 DEF InSlots
  <2> QED
    BY <2>2
<1> QED
  BY <1>2, <1>3

LEMMA OnePlaceFollows ==
  ASSUME Assumed, IsFiniteSet(Msg), IInv
  PROVE  OnePlace
<1>1. Types /\ Placed
  BY DEF IInv
<1>2. SUFFICES ASSUME NEW m \in Msg PROVE Places(m) = IF msg[m] = NULL THEN 0 ELSE 1
  BY DEF OnePlace
<1>3. Places(m) = Cardinality(InLists(m)) + Cardinality(InSlots(m))
  BY DEF Places, InLists, InSlots
<1>4. \A p \in InLists(m) : p[1] \in Client /\ m \in Range(msgs[p[1]])
  BY <1>1, InListsIs DEF InLists
<1>5. Cardinality({}) = 0 /\ \A x : Cardinality({x}) = 1
  BY FS_EmptySet, FS_Singleton
<1>6. msg[m] # NULL => m \in InVector \/ \E c \in Client : m \in Range(msgs[c])
  BY <1>1 DEF Placed, Homes, InVector
<1>7. \A c \in Client : m \in Range(msgs[c]) => m \notin InVector
  BY <1>1 DEF Placed, Homes, InVector
<1>8. m \in InVector => msg[m] # NULL
  BY <1>1 DEF Placed, Homes, InVector
<1>9. \A c \in Client : m \in Range(msgs[c]) => msg[m] # NULL
  BY DEF IInv, Turns
<1>10. CASE msg[m] = NULL
  <2>1. InLists(m) = {} /\ InSlots(m) = {}
    BY <1>1, <1>4, <1>8, <1>9, <1>10, InSlotsIs
  <2> QED
    BY <1>3, <1>5, <1>10, <2>1
<1>11. CASE msg[m] # NULL /\ m \in InVector
  <2>1. InLists(m) = {}
    BY <1>4, <1>7, <1>11
  <2>2. \E i : InSlots(m) = {i}
    BY <1>1, <1>11, InSlotsIs
  <2>3. Cardinality(InLists(m)) = 0 /\ Cardinality(InSlots(m)) = 1
    BY <1>5, <2>1, <2>2
  <2> QED
    BY <1>3, <1>11, <2>3
<1>12. CASE msg[m] # NULL /\ \E c \in Client : m \in Range(msgs[c])
  <2>1. InSlots(m) = {}
    BY <1>1, <1>7, <1>12, InSlotsIs
  <2>2. \E p : InLists(m) = {p}
    BY <1>1, <1>12, InListsIs
  <2>3. Cardinality(InSlots(m)) = 0 /\ Cardinality(InLists(m)) = 1
    BY <1>5, <2>1, <2>2
  <2> QED
    BY <1>3, <1>12, <2>3
<1> QED
  BY <1>6, <1>10, <1>11, <1>12

-----------------------------------------------------------------------------
(***************************************************************************)
(* Why a master that waits is served.  With the faults of Unserved the bus *)
(* stays held or busy for good; README.md says how.                        *)
(***************************************************************************)
Unserved == {"refusal", "lateCallBack", "noAnswer"}

\* The messages of the vector v are done from the first to the last.
Ordered(v, ms) ==
  \A i, j \in 0 .. v.length - 1 : i < j /\ ms[v.data[j]].done => ms[v.data[i]].done

\* Those before the slot i are done, and those behind it are not.
Splits(v, ms, i) ==
  \A j \in 0 .. v.length - 1 : (j < i => ms[v.data[j]].done) /\ (j > i => ~ms[v.data[j]].done)

\* So is it with the slot of the message m.
Reaches(v, ms, m) == \A i \in 0 .. v.length - 1 : v.data[i] = m => Splits(v, ms, i)

\* The first message that is not done is reached.
LEMMA FirstReached ==
  ASSUME NullIsApart, NULL \notin Msg, NEW v, VectorOK(v), NEW ms, NEW k, Ordered(v, ms),
         \A m \in Entries(v) : ms[m] # NULL, \A m, n \in Entries(v) : ms[m].kind = ms[n].kind
  PROVE  Reaches(v, ms, First(v, ms, k))
<1> DEFINE f == First(v, ms, k)
<1>1. /\ v.length \in Nat
      /\ \A i \in 0 .. v.length - 1 : v.data[i] \in Msg /\ v.data[i] \in Entries(v)
  BY DEF VectorOK, Filled, Entries
<1>2. f # NULL =>
        /\ f \in Entries(v) /\ ms[f].kind = k /\ ~ms[f].done
        /\ \A i, j \in 0 .. v.length - 1 :
             i < j /\ v.data[j] = f /\ ms[v.data[i]].kind = k => ms[v.data[i]].done
  BY FirstIs
<1> HIDE DEF f
<1>3. ASSUME NEW i \in 0 .. v.length - 1, v.data[i] = f, NEW j \in 0 .. v.length - 1
      PROVE  (j < i => ms[v.data[j]].done) /\ (j > i => ~ms[v.data[j]].done)
  <2>1. f # NULL /\ ms[v.data[j]].kind = ms[f].kind
    BY <1>1, <1>2, <1>3
  <2>2. j > i => i < j
    BY <1>1
  <2> QED
    BY <1>2, <1>3, <2>1, <2>2 DEF Ordered
<1> QED
  BY <1>3 DEF Reaches, Splits, f

\* The order depends on what is done alone.
LEMMA SameOrder ==
  ASSUME NEW v, NEW ms, NEW ns, \A m \in Entries(v) : ns[m].done <=> ms[m].done
  PROVE  /\ Ordered(v, ns) <=> Ordered(v, ms)
         /\ \A i : Splits(v, ns, i) <=> Splits(v, ms, i)
         /\ \A m : Reaches(v, ns, m) <=> Reaches(v, ms, m)
<1>1. \A i \in 0 .. v.length - 1 : ns[v.data[i]].done <=> ms[v.data[i]].done
  BY DEF Entries
<1>2. \A i : Splits(v, ns, i) <=> Splits(v, ms, i)
  BY <1>1 DEF Splits
<1> QED
  BY <1>1, <1>2 DEF Ordered, Reaches

\* The message that is reached ends.
LEMMA MarkedOrder ==
  ASSUME NEW v, VectorOK(v), NEW ms, NEW ns, NEW m \in Entries(v), Ordered(v, ms), Reaches(v, ms, m),
         ns[m].done, \A n \in Entries(v) : n # m => (ns[n].done <=> ms[n].done)
  PROVE  Ordered(v, ns) /\ Reaches(v, ns, m)
<1>1. /\ v.length \in Nat /\ \A i \in 0 .. v.length - 1 : v.data[i] \in Entries(v)
      /\ \A i, j \in 0 .. v.length - 1 : v.data[i] = v.data[j] => i = j
  BY DEF VectorOK, Filled, Entries
<1>2. ASSUME NEW i \in 0 .. v.length - 1, NEW j \in 0 .. v.length - 1, i < j, ns[v.data[j]].done
      PROVE  ns[v.data[i]].done
  <2>1. ms[v.data[i]].done
    <3>1. CASE v.data[j] = m
      BY <1>2, <3>1 DEF Reaches, Splits
    <3>2. CASE v.data[j] # m
      BY <1>1, <1>2, <3>2 DEF Ordered
    <3> QED
      BY <3>1, <3>2
  <2> QED
    BY <1>1, <2>1
<1>3. ASSUME NEW i \in 0 .. v.length - 1, v.data[i] = m, NEW j \in 0 .. v.length - 1
      PROVE  (j < i => ns[v.data[j]].done) /\ (j > i => ~ns[v.data[j]].done)
  <2>1. (j < i => ms[v.data[j]].done) /\ (j > i => ~ms[v.data[j]].done)
    BY <1>3 DEF Reaches, Splits
  <2>2. j < i \/ j > i => v.data[j] # m
    BY <1>1, <1>3
  <2> QED
    BY <1>1, <2>1, <2>2
<1> QED
  BY <1>2, <1>3 DEF Ordered, Reaches, Splits

\* A message that is not done is added at the end.
LEMMA AddedOrder ==
  ASSUME NEW v, VectorOK(v), NEW ms, NEW ns, NEW w, NEW m, Inserted(w, v, m, v.length), Ordered(v, ms),
         m \notin Entries(v), ~ns[m].done, \A n \in Entries(v) : ns[n].done <=> ms[n].done
  PROVE  Ordered(w, ns) /\ \A n \in Entries(v) : Reaches(v, ms, n) => Reaches(w, ns, n)
<1>1. /\ v.length \in Nat /\ w.length = v.length + 1 /\ w.data[v.length] = m
      /\ \A i \in 0 .. v.length - 1 : w.data[i] = v.data[i] /\ v.data[i] \in Entries(v)
  BY DEF VectorOK, Filled, Entries, Inserted
<1>2. \A i \in 0 .. w.length - 1 : i \in 0 .. v.length - 1 \/ i = v.length
  BY <1>1
<1>3. \A i \in 0 .. v.length - 1 : ns[w.data[i]].done <=> ms[v.data[i]].done
  BY <1>1
<1>4. ASSUME NEW i \in 0 .. w.length - 1, NEW j \in 0 .. w.length - 1, i < j, ns[w.data[j]].done
      PROVE  ns[w.data[i]].done
  <2>1. j \in 0 .. v.length - 1
    BY <1>1, <1>2, <1>4
  <2>2. i \in 0 .. v.length - 1
    BY <1>1, <1>4, <2>1
  <2> QED
    BY <1>3, <1>4, <2>1, <2>2 DEF Ordered
<1>5. ASSUME NEW n \in Entries(v), Reaches(v, ms, n), NEW i \in 0 .. w.length - 1, w.data[i] = n,
             NEW j \in 0 .. w.length - 1
      PROVE  (j < i => ns[w.data[j]].done) /\ (j > i => ~ns[w.data[j]].done)
  <2>1. i \in 0 .. v.length - 1 /\ v.data[i] = n
    BY <1>1, <1>2, <1>5
  <2>2. CASE j \in 0 .. v.length - 1
    BY <1>3, <1>5, <2>1, <2>2 DEF Reaches, Splits
  <2>3. CASE j = v.length
    BY <1>1, <2>1, <2>3
  <2> QED
    BY <1>2, <2>2, <2>3
<1> QED
  BY <1>4, <1>5 DEF Ordered, Reaches, Splits

\* The message n answers that of the slot i, which is done then.
LEMMA AnsweredOrder ==
  ASSUME NEW v, VectorOK(v), NEW ms, NEW ns, NEW w, NEW n, NEW i \in 0 .. v.length - 1,
         Inserted(w, v, n, i + 1), Splits(v, ms, i), ns[v.data[i]].done, ~ns[n].done,
         \A j \in 0 .. v.length - 1 : j # i => (ns[v.data[j]].done <=> ms[v.data[j]].done)
  PROVE  /\ Ordered(w, ns) /\ Splits(w, ns, i + 1)
         /\ i + 1 \in 0 .. w.length - 1 /\ w.data[i + 1] = n
<1>1. /\ v.length \in Nat /\ w.length = v.length + 1 /\ w.data[i + 1] = n /\ i \in Nat
      /\ \A j \in 0 .. i : w.data[j] = v.data[j]
      /\ \A j \in i + 1 .. v.length - 1 : w.data[j + 1] = v.data[j]
  <2>1. v.length \in Nat /\ i \in Nat
    BY DEF VectorOK, Filled
  <2>2. \A j : j \in 0 .. i => j \in 0 .. (i + 1) - 1
    BY <2>1
  <2> QED
    BY <2>1, <2>2 DEF Inserted
<1>2. i + 1 \in 0 .. w.length - 1
  BY <1>1
<1>3. ASSUME NEW j \in 0 .. w.length - 1, j <= i
      PROVE  ns[w.data[j]].done
  <2>1. j \in 0 .. i /\ j \in 0 .. v.length - 1 /\ (j = i \/ j < i)
    BY <1>1, <1>3
  <2>2. w.data[j] = v.data[j]
    BY <1>1, <2>1
  <2> QED
    BY <2>1, <2>2 DEF Splits
<1>4. ASSUME NEW j \in 0 .. w.length - 1, j > i
      PROVE  ~ns[w.data[j]].done
  <2>1. CASE j = i + 1
    BY <1>1, <2>1
  <2>2. CASE j # i + 1
    <3> DEFINE h == j - 1
    <3>1. h \in i + 1 .. v.length - 1 /\ h \in 0 .. v.length - 1 /\ h > i /\ h # i /\ h + 1 = j
      BY <1>1, <1>4, <2>2
    <3> HIDE DEF h
    <3>2. w.data[j] = v.data[h]
      BY <1>1, <3>1
    <3> QED
      BY <3>1, <3>2 DEF Splits
  <2> QED
    BY <2>1, <2>2
<1>5. \A j, h \in 0 .. w.length - 1 : j < h /\ h <= i => j <= i
  BY <1>1
<1>6. \A j \in 0 .. w.length - 1 : j <= i \/ j > i
  BY <1>1
<1>7. Ordered(w, ns)
  BY <1>3, <1>4, <1>5, <1>6 DEF Ordered
<1>8. \A j \in 0 .. w.length - 1 : (j < i + 1 => j <= i) /\ (j > i + 1 => j > i)
  BY <1>1
<1> QED
  BY <1>1, <1>2, <1>3, <1>4, <1>7, <1>8 DEF Splits

\* Where nothing is done, the first message is reached.
LEMMA NothingDone ==
  ASSUME NEW v, VectorOK(v), NEW ms, \A m \in Entries(v) : ~ms[m].done
  PROVE  Ordered(v, ms) /\ Splits(v, ms, 0) /\ (v.length > 0 => Reaches(v, ms, v.data[0]))
<1>1. /\ v.length \in Nat /\ \A i \in 0 .. v.length - 1 : v.data[i] \in Entries(v)
      /\ \A i, j \in 0 .. v.length - 1 : v.data[i] = v.data[j] => i = j
  BY DEF VectorOK, Filled, Entries
<1>2. \A i \in 0 .. v.length - 1 : ~ms[v.data[i]].done /\ ~(i < 0)
  BY <1>1
<1>3. Ordered(v, ms) /\ Splits(v, ms, 0)
  BY <1>2 DEF Ordered, Splits
<1>4. v.length > 0 => 0 \in 0 .. v.length - 1
  BY <1>1
<1> QED
  BY <1>1, <1>3, <1>4 DEF Reaches

\* The messages of the vector are served in order, and the bus ends what it has begun.
CallsBack == ptr.lastMaster # NULL /\ msg[ptr.lastMaster].cb

InLoop(c) == pc[c] \in {"loop", "clean", "looked", "resume"}

\* The handler has told c of the message that ended.
Told(c) == ec["master"] > 0 \/ (pc[c] = "woken" /\ rc[c] = 0)

\* The bus sends.
Sending == twcr.sta \/ twi \in Transfers

\* What the holder c of the adapter finds.
ServedBy(c) ==
  /\ Sending /\ (busy \/ pc[c] \notin {"update", "add"}) => Reaches(vec, msg, M)
  /\ Told(c) /\ CallsBack => Reaches(vec, msg, ptr.lastMaster)
  /\ twi = "heldM" => (Told(c) /\ CallsBack) \/ InLoop(c)
  /\ pc[c] \in {"loop", "clean"} => index[c] \in Slots /\ Splits(vec, msg, index[c])
  /\ pc[c] = "clean" => ~msg[vec.data[index[c]]].done
  /\ pc[c] \in {"looked", "resume"} => vec.length > 0 /\ index[c] = 0
  /\ pc[c] \in {"started", "wait", "woken"} /\ Resumed(c) => length[c] = vec.length

Past(c) == pc[c] \notin {"closed", "open", "lock"}

\* A busy bus is on its way, or asks for a START.
BusyEnds == busy /\ twi = "idle" => twcr.sta

SlavesRest == \A c \in Slaves : pc[c] = "closed"

\* And what it is while nobody holds the adapter.
Unheld == holder = NULL => twi # "heldM" /\ (Sending => Reaches(vec, msg, M))

ServedInv ==
  SlavesRest =>
    /\ Ordered(vec, msg) /\ BusyEnds /\ Unheld
    /\ \A c \in Masters : Past(c) => ServedBy(c)

\* A master has its file open.
LEMMA MastersServed ==
  ASSUME Assumed, IInv, ServedInv, NEW c \in Masters, pc[c] # "closed"
  PROVE  /\ SlavesRest /\ Ordered(vec, msg) /\ BusyEnds /\ Unheld
         /\ \A d \in Masters : Past(d) => ServedBy(d)
<1>1. SlavesRest
  BY MasterTurn DEF SlavesRest
<1> QED
  BY <1>1 DEF ServedInv

\* A step of the one that holds the adapter, and still does.
LEMMA HolderServed ==
  ASSUME Threads', NEW c \in Masters, Past(c)', (Ordered(vec, msg) /\ BusyEnds /\ ServedBy(c))'
  PROVE  ServedInv'
<1>1. holder' = c /\ \A d \in Masters : d # c => ~Past(d)'
  BY DEF Threads, Past
<1>2. holder' # NULL
  BY <1>1, BusConstants
<1>3. \A d \in Masters : Past(d)' => ServedBy(d)'
  BY <1>1
<1> QED
  BY <1>2, <1>3 DEF ServedInv, Unheld

\* What was found before a step that leaves the bus and the vector alone.
LEMMA SameServed ==
  ASSUME IInv, UNCHANGED <<vec, hwVars>>, \A m \in InVector : msg'[m] = msg[m]
  PROVE  /\ InVector' = InVector /\ Slots' = Slots /\ (Sending' <=> Sending) /\ (BusyEnds' <=> BusyEnds)
         /\ vec' = vec /\ busy' = busy /\ ptr' = ptr /\ twcr' = twcr /\ twi' = twi
         /\ Ordered(vec', msg') <=> Ordered(vec, msg)
         /\ \A m : Reaches(vec', msg', m) <=> Reaches(vec, msg, m)
         /\ \A i : Splits(vec', msg', i) <=> Splits(vec, msg, i)
<1>1. /\ vec' = vec /\ busy' = busy /\ ptr' = ptr /\ twcr' = twcr /\ twi' = twi
  BY DEF hwVars
<1> DEFINE ns == msg'
<1>2. \A m \in Entries(vec) : ns[m].done <=> msg[m].done
  BY DEF InVector
<1> HIDE DEF ns
<1>3. /\ Ordered(vec, ns) <=> Ordered(vec, msg)
      /\ \A i : Splits(vec, ns, i) <=> Splits(vec, msg, i)
      /\ \A m : Reaches(vec, ns, m) <=> Reaches(vec, msg, m)
  BY <1>2, SameOrder
<1>4. InVector' = InVector /\ Slots' = Slots
  BY <1>1 DEF InVector, Slots
<1>5. (Sending' <=> Sending) /\ (BusyEnds' <=> BusyEnds)
  BY <1>1 DEF Sending, BusyEnds
<1> QED
  BY <1>1, <1>3, <1>4, <1>5 DEF ns

\* Told, the holder has the message that ended.
LEMMA ToldIs ==
  ASSUME IInv, NEW c \in Masters, Told(c)
  PROVE  LastMasterOK
BY DEF Told, IInv, MasterInv, MasterTold

\* A client opens or closes its file, writes to it or wants the lock.
LEMMA AsideServes ==
  ASSUME Assumed, IInv, ServedInv, NEW c \in Masters, UNCHANGED <<vec, hwVars, holder>>, ec' = ec,
         pc[c] \in {"closed", "open", "lock"}, pc'[c] \in {"closed", "open", "lock"}, SlavesRest,
         \A d \in Masters : d # c => pc'[d] = pc[d] /\ rc'[d] = rc[d] /\ index'[d] = index[d]
                                    /\ length'[d] = length[d],
         \A m \in InVector : msg'[m] = msg[m]
  PROVE  ServedInv'
<1>1. /\ InVector' = InVector /\ Slots' = Slots /\ (Sending' <=> Sending) /\ (BusyEnds' <=> BusyEnds)
      /\ vec' = vec /\ busy' = busy /\ ptr' = ptr /\ twcr' = twcr /\ twi' = twi
      /\ Ordered(vec', msg') <=> Ordered(vec, msg)
      /\ \A m : Reaches(vec', msg', m) <=> Reaches(vec, msg, m)
      /\ \A i : Splits(vec', msg', i) <=> Splits(vec, msg, i)
  BY SameServed
<1>2. /\ Ordered(vec, msg) /\ BusyEnds /\ Unheld
      /\ \A d \in Masters : Past(d) => ServedBy(d)
  BY DEF ServedInv
<1>3. ASSUME NEW d \in Masters, Past(d)'
      PROVE  ServedBy(d)'
  <2>1. /\ d # c /\ pc'[d] = pc[d] /\ rc'[d] = rc[d] /\ index'[d] = index[d] /\ length'[d] = length[d]
    BY <1>3 DEF Past
  <2>2. Past(d) /\ ServedBy(d)
    BY <1>2, <1>3, <2>1 DEF Past
  <2>3. (Told(d)' <=> Told(d)) /\ (InLoop(d)' <=> InLoop(d)) /\ (Resumed(d)' <=> Resumed(d))
    BY <2>1 DEF Told, InLoop, Resumed
  <2>4. Told(d) => (CallsBack' <=> CallsBack)
    <3>1. Told(d) => LastMasterOK
      BY ToldIs
    <3> QED
      BY <1>1, <3>1 DEF CallsBack, LastMasterOK
  <2>5. pc[d] = "clean" => vec.data[index[d]] \in InVector
    BY <2>2, VectorIs DEF ServedBy, IInv, Types
  <2> QED
    BY <1>1, <2>1, <2>2, <2>3, <2>4, <2>5 DEF ServedBy, M
<1>4. Unheld'
  BY <1>1, <1>2 DEF Unheld, M
<1> QED
  BY <1>1, <1>2, <1>3, <1>4 DEF ServedInv

\* Some master is told.
SomeTold == \E c \in Masters : Past(c) /\ Told(c)

\* A step of the bus while no slave has its file open.
LEMMA BusServes ==
  ASSUME Assumed, IInv, ServedInv, Stirs, Touched, SlavesRest,
         Ordered(vec', msg'), Sending' => Reaches(vec', msg', ptr'.master), BusyEnds',
         SomeTold' /\ CallsBack' => Reaches(vec', msg', ptr'.lastMaster),
         twi' = "heldM" => holder # NULL /\ ec'["master"] > 0 /\ CallsBack'
  PROVE  ServedInv'
<1>1. /\ vec' = vec /\ holder' = holder /\ pc' = pc /\ rc' = rc /\ length' = length
  BY ThreadsUnchanged
<1>2. \A c \in Masters : Past(c) => ServedBy(c)
  BY DEF ServedInv
<1>3. \A c \in Masters : pc[c] \in {"closed", "open", "lock", "wait", "woken", "end", "release"}
  BY StirsIs
<1>4. ASSUME NEW c \in Masters, Past(c)'
      PROVE  ServedBy(c)'
  <2>1. /\ pc'[c] \in {"wait", "woken", "end", "release"} /\ pc'[c] = pc[c]
        /\ length'[c] = length[c] /\ (Resumed(c)' <=> Resumed(c)) /\ Past(c)
    BY <1>1, <1>3, <1>4 DEF Past, Resumed
  <2>2. Told(c)' => SomeTold'
    BY <1>4 DEF SomeTold
  <2>3. ec'["master"] > 0 => Told(c)'
    BY DEF Told
  <2>4. pc'[c] \in {"started", "wait", "woken"} /\ Resumed(c)' => length'[c] = vec'.length
    BY <1>1, <1>2, <2>1 DEF ServedBy
  <2> QED
    BY <2>1, <2>2, <2>3, <2>4 DEF ServedBy, M
<1>5. Unheld'
  BY <1>1 DEF Unheld, M
<1> QED
  BY <1>4, <1>5 DEF ServedInv

\* Before a step of the bus.
LEMMA BusServed ==
  ASSUME Assumed, IInv, ServedInv, Stirs, SlavesRest
  PROVE  /\ Ordered(vec, msg) /\ BusyEnds /\ S = NULL /\ twi # "heldM"
         /\ Sending => Reaches(vec, msg, M) /\ MReady
         /\ SomeTold /\ CallsBack => Reaches(vec, msg, ptr.lastMaster)
         /\ SomeTold => LastMasterOK /\ \A m \in InVector : msg[m].kind = "master"
         /\ queue["slave"] \in {<<>>, SIGNALED}
<1>1. /\ Ordered(vec, msg) /\ BusyEnds /\ Unheld
      /\ \A c \in Masters : Past(c) => ServedBy(c)
  BY DEF ServedInv
<1>2. /\ twi # "heldM" /\ (S # NULL => Waiting) /\ (Sending => MReady)
      /\ \A c \in Masters : pc[c] \in {"closed", "open", "lock", "wait", "woken", "end", "release"}
  BY StirsIs DEF Sending
<1>3. S = NULL
  BY <1>2 DEF Waiting, SlavesRest
<1>4. Sending => Reaches(vec, msg, M)
  <2>1. CASE holder = NULL
    BY <1>1, <2>1 DEF Unheld
  <2>2. CASE holder # NULL
    <3>1. holder \in Masters /\ Past(holder)
      BY <2>2 DEF IInv, Threads, Past
    <3>2. pc[holder] \notin {"update", "add"}
      BY <1>2, <3>1
    <3> QED
      BY <1>1, <3>1, <3>2 DEF ServedBy
  <2> QED
    BY <2>1, <2>2
<1>5. ASSUME SomeTold
      PROVE  /\ CallsBack => Reaches(vec, msg, ptr.lastMaster)
             /\ LastMasterOK /\ \A m \in InVector : msg[m].kind = "master"
  <2>1. PICK c \in Masters : Past(c) /\ Told(c)
    BY <1>5 DEF SomeTold
  <2>2. pc[c] # "closed"
    BY <2>1 DEF Past
  <2> QED
    BY <1>1, <2>1, <2>2, ToldIs, MasterTurn DEF ServedBy
<1>6. queue["slave"] \in {<<>>, SIGNALED}
  <2>1. "slave" \in Kinds
    BY DEF Kinds
  <2>2. \A c \in Client : Kind(c) = "slave" => pc[c] # "wait"
    BY KindIs DEF SlavesRest
  <2> QED
    BY <2>1, <2>2 DEF IInv, Queues
<1> QED
  BY <1>1, <1>2, <1>3, <1>4, <1>5, <1>6

\* The handler leaves the messages alone, and its pointers.
LEMMA SameBus ==
  ASSUME Assumed, IInv, ServedInv, Stirs, SlavesRest,
         UNCHANGED <<vec, msgs, msg, ptr, threadVars>>, Sending' => Sending, BusyEnds',
         ec' = ec, twi' # "heldM"
  PROVE  ServedInv'
<1>1. Touched /\ pc' = pc /\ rc' = rc /\ vec' = vec /\ msg' = msg
  BY SameMessages, ThreadsUnchanged
<1>2. /\ Ordered(vec, msg) /\ (Sending => Reaches(vec, msg, M))
      /\ SomeTold /\ CallsBack => Reaches(vec, msg, ptr.lastMaster)
  BY BusServed
<1>3. (SomeTold' <=> SomeTold) /\ (CallsBack' <=> CallsBack)
  BY <1>1 DEF SomeTold, Told, Past, CallsBack
<1> QED
  BY <1>1, <1>2, <1>3, BusServes DEF M

\* The driver looks at the messages, now and after a step of the handler.
LEMMA NowReached ==
  ASSUME Assumed, IInv, Ordered(vec, msg), NEW k
  PROVE  Reaches(vec, msg, First(vec, msg, k))
<1>1. /\ NullIsApart /\ NULL \notin Msg /\ VectorOK(vec)
      /\ \A m \in Entries(vec) : msg[m] # NULL
      /\ \A m, n \in Entries(vec) : msg[m].kind = msg[n].kind
  BY DEF Assumed, IInv, Types, Placed, Homes, Turns, InVector
<1> QED
  BY <1>1, FirstReached

LEMMA NextReached ==
  ASSUME Assumed, IInv, Touched, Ordered(vec, msg'), NEW k
  PROVE  Reaches(vec, msg', First(vec, msg', k))
<1> DEFINE ns == msg'
<1>1. /\ NullIsApart /\ NULL \notin Msg /\ VectorOK(vec) /\ InVector = Entries(vec)
  BY DEF Assumed, IInv, Types, InVector
<1>2. /\ \A m \in InVector : m \in Msg /\ msg[m] # NULL /\ ns[m].kind = msg[m].kind
      /\ \A m, n \in InVector : msg[m].kind = msg[n].kind
  BY TouchedKinds DEF IInv, Turns
<1>3. /\ \A m \in Entries(vec) : ns[m] # NULL
      /\ \A m, n \in Entries(vec) : ns[m].kind = ns[n].kind
  BY <1>1, <1>2 DEF Touched
<1>4. Ordered(vec, ns)
  OBVIOUS
<1> HIDE DEF ns
<1>5. Reaches(vec, ns, First(vec, ns, k))
  BY <1>1, <1>3, <1>4, FirstReached
<1> QED
  BY <1>5 DEF ns

\* The message that was sent ends, and the driver looks again.
LEMMA EndedServes ==
  ASSUME Assumed, IInv, ServedInv, Stirs, SlavesRest, Sending, UNCHANGED <<vec, msgs, threadVars>>,
         msg' = Marked(msg, {M}), ptr' = Updated([ptr EXCEPT !.lastMaster = M], vec, msg'),
         BusyEnds', twi' # "heldM"
  PROVE  ServedInv'
<1>1. /\ Ordered(vec, msg) /\ Reaches(vec, msg, M) /\ M \in InVector /\ M \in Msg /\ VectorOK(vec)
      /\ InVector = Entries(vec)
  BY BusServed, VectorIs DEF MReady, IInv, Types, InVector
<1>2. Touched /\ msg'[M].done /\ \A n \in Msg : n # M => msg'[n] = msg[n]
  BY <1>1, MarkedTouched
<1> DEFINE ns == msg'
           m == M
<1>3. /\ ns[m].done /\ \A n \in Entries(vec) : n # m => (ns[n].done <=> msg[n].done)
      /\ m \in Entries(vec) /\ Reaches(vec, msg, m)
  BY <1>1, <1>2, VectorIs DEF IInv, Types
<1> HIDE DEF ns, m
<1>4. Ordered(vec, ns) /\ Reaches(vec, ns, m)
  BY <1>1, <1>3, MarkedOrder
<1>5. /\ ptr'.master = First(vec, msg', "master") /\ ptr'.lastMaster = m
  <2> DEFINE p == [ptr EXCEPT !.lastMaster = M]
  <2>1. p \in PtrTypes /\ p.lastMaster = M /\ ptr' = Updated(p, vec, msg')
    BY <1>1 DEF PtrTypes, IInv, Types
  <2>2. /\ First(vec, msg', "master") \in Msg \cup {NULL}
        /\ First(vec, msg', "slave") \in Msg \cup {NULL}
    BY <1>2, NextFirst
  <2> HIDE DEF p
  <2> QED
    BY <2>1, <2>2, UpdatedIs DEF m
<1>6. Ordered(vec', msg') /\ vec' = vec
  BY <1>4 DEF ns
<1>7. Reaches(vec', msg', ptr'.master) /\ Reaches(vec', msg', ptr'.lastMaster)
  BY <1>2, <1>4, <1>5, <1>6, NextReached DEF ns
<1> QED
  BY <1>2, <1>6, <1>7, BusServes

LEMMA MasterEndsServes ==
  ASSUME Assumed, IInv, ServedInv, Faults \cap Unserved = {}, BusMoves, twi \in Transfers, MasterEnds,
         UNCHANGED vec, IsrKeeps, SlavesRest
  PROVE  ServedInv'
<1>1. Stirs /\ Sending /\ ~twcr.sta
  BY DEF Stirs, Sending, Transfers, IInv, MasterInv, Signals
<1>2. /\ MReady /\ M # NULL /\ Reaches(vec, msg, M) /\ Ordered(vec, msg)
  BY <1>1, BusServed DEF MReady
<1>3. UNCHANGED <<vec, msgs, threadVars>>
  BY DEF IsrKeeps
<1> DEFINE ms == Marked(msg, {M})
           p == Updated([ptr EXCEPT !.lastMaster = M], vec, ms)
<1>4. \/ /\ queue["master"] \notin {<<>>, SIGNALED} /\ ptr' = [ptr EXCEPT !.lastMaster = M]
         /\ SignalFromISR({"master"}) /\ msg[M].cb
         /\ twcr' = [twcr EXCEPT !.ie = FALSE] /\ twi' = "heldM" /\ UNCHANGED <<msg, busy>>
      \/ /\ msg' = ms /\ ptr' = p
         /\ IF p.master # NULL
            THEN MasterControl(TRUE, TRUE, "rep")
            ELSE busy' = FALSE /\ Control(FALSE, p.slave # NULL, "idle")
  BY <1>2 DEF MasterEnds, Unserved
<1> HIDE DEF ms, p
<1>5. CASE /\ queue["master"] \notin {<<>>, SIGNALED} /\ ptr' = [ptr EXCEPT !.lastMaster = M]
           /\ SignalFromISR({"master"}) /\ msg[M].cb
           /\ twcr' = [twcr EXCEPT !.ie = FALSE] /\ twi' = "heldM" /\ UNCHANGED <<msg, busy>>
  <2>1. Touched /\ pc' = pc /\ msg' = msg /\ vec' = vec
    BY <1>3, <1>5, SameMessages, ThreadsUnchanged
  <2>2. PICK c \in Client : Kind(c) = "master" /\ pc[c] = "wait"
    <3>1. "master" \in Kinds
      BY DEF Kinds
    <3> QED
      BY <1>5, <3>1 DEF IInv, Queues
  <2>3. c \in Masters /\ holder = c /\ holder # NULL
    BY <2>2, KindIs, BusConstants DEF IInv, Threads
  <2>4. ec'["master"] > 0
    BY <1>5, <2>1, <2>2, SignalIs DEF IInv
  <2>5. ptr'.lastMaster = M /\ (twcr'.sta <=> twcr.sta)
    BY <1>5 DEF IInv, Types
  <2>6. CallsBack' /\ Reaches(vec', msg', ptr'.lastMaster) /\ Ordered(vec', msg')
    BY <1>2, <1>5, <2>1, <2>5 DEF CallsBack
  <2>7. ~Sending' /\ BusyEnds'
    BY <1>1, <1>5, <2>5 DEF Sending, Transfers, BusyEnds
  <2> QED
    BY <1>1, <2>1, <2>3, <2>4, <2>6, <2>7, BusServes
<1>6. CASE /\ msg' = ms /\ ptr' = p
           /\ IF p.master # NULL
              THEN MasterControl(TRUE, TRUE, "rep")
              ELSE busy' = FALSE /\ Control(FALSE, p.slave # NULL, "idle")
  <2>1. twi' # "heldM" /\ BusyEnds'
    BY <1>6 DEF MasterControl, Control, BusyEnds
  <2> QED
    BY <1>1, <1>3, <1>6, <2>1, EndedServes DEF ms, p
<1> QED
  BY <1>4, <1>5, <1>6

\* The handler of a master transfer.
LEMMA MasterBusServes ==
  ASSUME Assumed, IInv, ServedInv, Faults \cap Unserved = {}, SlavesRest,
         MasterBus \/ MasterStart \/ ArbitrationLost
  PROVE  ServedInv'
<1>1. CASE MasterStart
  <2>1. Stirs /\ Sending
    BY <1>1 DEF MasterStart, Stirs, Sending
  <2>2. UNCHANGED <<vec, msgs, msg, ptr, threadVars>> /\ ec' = ec /\ twi' \in {"slar", "slaw"}
    BY <1>1 DEF MasterStart, IsrKeeps, eventVars
  <2> QED
    BY <2>1, <2>2, SameBus DEF BusyEnds
<1>2. CASE ArbitrationLost
  <2>1. Stirs /\ Sending
    BY <1>2 DEF ArbitrationLost, Stirs, Sending, Transfers
  <2>2. UNCHANGED <<vec, msgs, msg, ptr, threadVars>> /\ ec' = ec /\ twi' = "idle" /\ busy' = FALSE
    BY <1>2 DEF ArbitrationLost, IsrKeeps, eventVars
  <2> QED
    BY <2>1, <2>2, SameBus DEF BusyEnds
<1>3. ASSUME NEW sta, NEW ea, NEW next \in {"mt", "mr"}, MasterControl(sta, ea, next), BusMoves,
             twi \in Transfers, IsrKeeps, UNCHANGED <<msg, vec, ptr, eventVars>>
      PROVE  ServedInv'
  <2>1. Stirs /\ Sending
    BY <1>3 DEF Stirs, Sending, Transfers
  <2>2. /\ UNCHANGED <<vec, msgs, msg, ptr, threadVars>> /\ ec' = ec
        /\ twi' \in {"mt", "mr", "rep"}
    BY <1>3 DEF IsrKeeps, eventVars, MasterControl, Control
  <2> QED
    BY <2>1, <2>2, SameBus DEF BusyEnds
<1>4. CASE MasterSent
  <2>1. BusMoves /\ twi \in Transfers /\ IsrKeeps /\ UNCHANGED vec
    BY <1>4 DEF MasterSent, Transfers
  <2>2. \/ MasterControl(FALSE, TRUE, "mt") /\ UNCHANGED <<msg, vec, ptr, eventVars>>
        \/ MasterEnds
    BY <1>4 DEF MasterSent
  <2> QED
    BY <1>3, <2>1, <2>2, MasterEndsServes
<1>5. CASE MasterReceives
  <2>1. BusMoves /\ twi \in Transfers /\ IsrKeeps
    BY <1>5 DEF MasterReceives, Transfers
  <2>2. /\ \E ea : MasterControl(FALSE, ea, "mr")
        /\ UNCHANGED <<msg, vec, ptr, eventVars>>
    BY <1>5 DEF MasterReceives
  <2> QED
    BY <1>3, <2>1, <2>2
<1>6. CASE MasterReceived
  BY <1>6, MasterEndsServes DEF MasterReceived, Transfers
<1>7. CASE MasterRefused
  <2>1. BusMoves /\ twi \in Transfers /\ Stirs /\ Sending
    BY <1>7 DEF MasterRefused, Transfers, Stirs, Sending
  <2>2. M # NULL
    BY <2>1, BusServed DEF MReady
  <2>3. /\ msg' = Marked(msg, {M}) /\ ptr' = Updated([ptr EXCEPT !.lastMaster = M], vec, msg')
        /\ busy' = FALSE /\ UNCHANGED <<vec, msgs, threadVars>>
        /\ Control(FALSE, ptr'.slave # NULL, "idle")
    BY <1>7, <2>2 DEF MasterRefused, IsrKeeps
  <2>4. BusyEnds' /\ twi' # "heldM"
    BY <2>3 DEF Control, BusyEnds
  <2> QED
    BY <2>1, <2>3, <2>4, EndedServes
<1> QED
  BY <1>1, <1>2, <1>4, <1>5, <1>6, <1>7 DEF MasterBus

\* Nobody was addressed: the driver looks again, and a master may start.
LEMMA RestServes ==
  ASSUME Assumed, IInv, ServedInv, Stirs, SlavesRest, UNCHANGED <<vec, msgs, msg, threadVars>>,
         ptr' = Updated([ptr EXCEPT !.lastSlave = NULL], vec, msg), ~busy', twi' = "idle",
         ec'["master"] = ec["master"]
  PROVE  ServedInv'
<1>1. /\ ptr'.master = First(vec, msg, "master") /\ ptr'.lastMaster = ptr.lastMaster
  BY LooksAgain
<1>2. Touched /\ pc' = pc /\ rc' = rc /\ vec' = vec /\ msg' = msg
  BY SameMessages, ThreadsUnchanged
<1>3. /\ Ordered(vec, msg)
      /\ SomeTold /\ CallsBack => Reaches(vec, msg, ptr.lastMaster)
  BY BusServed
<1>4. Reaches(vec, msg, ptr'.master)
  BY <1>1, <1>3, NowReached
<1>5. (SomeTold' <=> SomeTold) /\ (CallsBack' <=> CallsBack)
  BY <1>1, <1>2 DEF SomeTold, Told, Past, CallsBack
<1>6. BusyEnds'
  BY DEF BusyEnds
<1>7. Ordered(vec', msg') /\ Reaches(vec', msg', ptr'.master)
  BY <1>2, <1>3, <1>4
<1>8. SomeTold' /\ CallsBack' => Reaches(vec', msg', ptr'.lastMaster)
  BY <1>1, <1>2, <1>3, <1>5
<1> QED
  BY <1>2, <1>6, <1>7, <1>8, BusServes

\* A message of a slave that is gone is dropped.
LEMMA DropServes ==
  ASSUME Assumed, IInv, ServedInv, IInv', Stirs, SlavesRest, UNCHANGED <<vec, msgs, threadVars>>,
         ptr' = Updated([ptr EXCEPT !.lastSlave = NULL], vec, msg), ~busy', twi' = "idle",
         ptr'.slave # NULL, msg' = Marked(msg, {ptr'.slave}), twcr'.sta => ptr'.master # NULL \/ twcr.sta,
         UNCHANGED eventVars
  PROVE  ServedInv'
<1>1. /\ ptr'.master = First(vec, msg, "master") /\ ptr'.slave = First(vec, msg, "slave")
  BY LooksAgain
<1>2. PendingIn("slave") /\ ptr'.slave \in InVector /\ msg[ptr'.slave].kind = "slave"
  BY <1>1, NowFirst
<1>3. \A m \in InVector : msg[m].kind = "slave"
  BY <1>2 DEF IInv, Turns
<1>4. /\ Touched /\ InVector' = InVector /\ pc' = pc /\ rc' = rc /\ vec' = vec
      /\ \A m \in InVector : msg'[m].kind = "slave"
  BY <1>2, <1>3, MarkedTouched, ThreadsUnchanged, TouchedKinds
<1>5. Ordered(vec', msg')
  BY <1>4 DEF IInv, SlaveInv, DoneInOrder, Ordered, Slots
<1>6. ~PendingIn("master") /\ ~MReady
  BY <1>3 DEF PendingIn, MReady
<1>7. ptr'.master = NULL /\ ~Sending'
  BY <1>1, <1>6, NowFirst, BusServed DEF Sending, Transfers
<1>8. ~SomeTold'
  <2>1. ~SomeTold
    BY <1>2, <1>3, BusServed
  <2> QED
    BY <1>4, <2>1 DEF SomeTold, Told, Past, eventVars
<1>9. BusyEnds'
  BY DEF BusyEnds
<1> QED
  BY <1>4, <1>5, <1>7, <1>8, <1>9, BusServes

\* The handler of a slave transfer, and of an error.
LEMMA SlaveBusServes ==
  ASSUME Assumed, IInv, ServedInv, IInv', Faults \cap Unserved = {}, SlavesRest,
         SlaveBus \/ OtherMaster \/ BusError
  PROVE  ServedInv'
<1>1. ASSUME NEW ea, NEW next \in {"sr", "st", "idle"}, Control(FALSE, ea, next), Stirs, IsrKeeps,
             UNCHANGED <<msg, vec, ptr, eventVars>>, next = "idle" => ~busy'
      PROVE  ServedInv'
  <2>1. /\ UNCHANGED <<vec, msgs, msg, ptr, threadVars>> /\ ec' = ec
        /\ twi' = next /\ (twcr'.sta <=> twcr.sta)
    BY <1>1 DEF IsrKeeps, eventVars, Control, IInv, Types
  <2> QED
    BY <1>1, <2>1, SameBus DEF BusyEnds, Sending, Transfers
<1>2. CASE SlaveReceives
  <2>1. Stirs
    BY <1>2 DEF SlaveReceives, Addressed, Stirs
  <2> QED
    BY <1>1, <1>2, <2>1 DEF SlaveReceives
<1>3. CASE SlaveReceivedByte
  <2>1. Stirs
    BY <1>3 DEF SlaveReceivedByte, Stirs
  <2>2. S = NULL
    BY <2>1, BusServed
  <2> QED
    BY <1>1, <1>3, <2>1, <2>2 DEF SlaveReceivedByte
<1>4. CASE SlaveRefusedByte
  <2>1. Stirs
    BY <1>4 DEF SlaveRefusedByte, Stirs
  <2>2. ~busy'
    BY <1>4 DEF SlaveRefusedByte, Unserved
  <2> QED
    BY <1>1, <1>4, <2>1, <2>2 DEF SlaveRefusedByte
<1>5. CASE SlaveSends
  <2>1. Stirs
    BY <1>5 DEF SlaveSends, Addressed, Stirs
  <2> QED
    BY <1>1, <1>5, <2>1 DEF SlaveSends, SendByte
<1>6. CASE SlaveSentByte
  <2>1. Stirs
    BY <1>6 DEF SlaveSentByte, Stirs
  <2> QED
    BY <1>1, <1>6, <2>1 DEF SlaveSentByte, SendByte
<1>7. CASE SlaveSent
  <2>1. Stirs /\ UNCHANGED <<vec, msgs, threadVars>>
    BY <1>7 DEF SlaveSent, Stirs, IsrKeeps
  <2>2. S = NULL
    BY <2>1, BusServed
  <2>3. /\ msg' = msg /\ ptr' = Updated([ptr EXCEPT !.lastSlave = NULL], vec, msg)
        /\ ~busy' /\ twi' = "idle" /\ SignalFromISR({"slave"})
    BY <1>7, <2>2 DEF SlaveSent, SlaveBuffEnd, Control
  <2>4. ec'["master"] = ec["master"]
    <3>1. "master" \in Kinds
      BY DEF Kinds
    <3> QED
      BY <2>3, <3>1 DEF SignalFromISR
  <2> QED
    BY <2>1, <2>3, <2>4, RestServes
<1>8. CASE SlaveStop
  <2>1. Stirs /\ UNCHANGED <<vec, msgs, threadVars>>
    BY <1>8 DEF SlaveStop, Stirs, IsrKeeps
  <2>2. S = NULL /\ queue["slave"] \in {<<>>, SIGNALED}
    BY <2>1, BusServed
  <2>3. /\ ptr' = Updated([ptr EXCEPT !.lastSlave = NULL], vec, msg)
        /\ Control(ptr'.master # NULL, FALSE, "idle")
        /\ msg' = IF ptr'.slave = NULL THEN msg ELSE Marked(msg, {ptr'.slave})
        /\ busy' = FALSE /\ UNCHANGED eventVars
    <3> DEFINE ms == IF S = NULL THEN msg ELSE [msg EXCEPT ![S].cb = FALSE]
               p == Updated([ptr EXCEPT !.lastSlave = NULL], vec, ms)
    <3>1. /\ Control(p.master # NULL, FALSE, "idle") /\ ptr' = p
          /\ msg' = IF p.slave = NULL THEN ms ELSE Marked(ms, {p.slave})
          /\ busy' = FALSE /\ UNCHANGED eventVars
      BY <1>8, <2>2 DEF SlaveStop
    <3>2. ms = msg
      BY <2>2
    <3> HIDE DEF ms
    <3> QED
      BY <3>1, <3>2
  <2>4. twi' = "idle" /\ (twcr'.sta => ptr'.master # NULL \/ twcr.sta)
    BY <2>3 DEF Control
  <2>5. CASE ptr'.slave = NULL
    <3>1. msg' = msg /\ ec'["master"] = ec["master"]
      BY <2>3, <2>5 DEF eventVars
    <3> QED
      BY <2>1, <2>3, <2>4, <3>1, RestServes
  <2>6. CASE ptr'.slave # NULL
    BY <2>1, <2>3, <2>4, <2>6, DropServes
  <2> QED
    BY <2>5, <2>6
<1>9. CASE BusError
  <2>1. /\ Stirs /\ UNCHANGED <<vec, msgs, threadVars>> /\ msg' = msg /\ ~busy'
        /\ ptr' = [ptr EXCEPT !.lastMaster = NULL, !.lastSlave = NULL]
        /\ Control(FALSE, FALSE, "idle")
    BY <1>9 DEF BusError, Stirs, IsrKeeps
  <2>2. Touched /\ vec' = vec
    BY <2>1, SameMessages, ThreadsUnchanged
  <2>3. ptr'.master = ptr.master /\ ptr'.lastMaster = NULL
    BY <2>1 DEF IInv, Types
  <2>4. twi' = "idle" /\ (twcr'.sta <=> twcr.sta)
    BY <2>1 DEF Control, IInv, Types
  <2>5. Sending' => Sending
    BY <2>4 DEF Sending, Transfers
  <2>6. /\ Ordered(vec, msg) /\ (Sending => Reaches(vec, msg, M))
    BY <2>1, BusServed
  <2>7. ~CallsBack' /\ BusyEnds'
    BY <2>1, <2>3 DEF CallsBack, BusyEnds
  <2> QED
    BY <2>1, <2>2, <2>3, <2>4, <2>5, <2>6, <2>7, BusServes DEF M
<1> QED
  BY <1>2, <1>3, <1>4, <1>5, <1>6, <1>7, <1>8, <1>9 DEF SlaveBus, OtherMaster

LEMMA BusServesAll ==
  ASSUME Assumed, IInv, ServedInv, IInv', Faults \cap Unserved = {}, Bus
  PROVE  ServedInv'
<1>1. pc' = pc
  BY DEF Bus, MasterBus, SlaveBus, OtherMaster, MasterStart, MasterSent, MasterRefused, MasterReceives,
         MasterReceived, SlaveReceivedByte, SlaveRefusedByte, SlaveStop, SlaveSentByte, SlaveSent,
         SlaveReceives, SlaveSends, ArbitrationLost, BusError, IsrKeeps, threadVars
<1>2. CASE SlavesRest
  BY <1>2, MasterBusServes, SlaveBusServes DEF Bus
<1>3. CASE ~SlavesRest
  BY <1>1, <1>3 DEF ServedInv, SlavesRest
<1> QED
  BY <1>2, <1>3

\* While a slave has its file open nothing is asked.
LEMMA OpenSlaveServes ==
  ASSUME NEW c \in Slaves, pc'[c] # "closed"
  PROVE  ServedInv'
BY DEF ServedInv, SlavesRest

\* The files of masters.
LEMMA SocketServes ==
  ASSUME Assumed, IInv, ServedInv, NEW c \in Masters, Socket(c)
  PROVE  ServedInv'
<1>1. /\ pc[c] = "closed" /\ pc' = [pc EXCEPT ![c] = "open"] /\ c \in Client /\ Kind(c) = "master"
      /\ \A d \in Client : Kind(d) # Kind(c) => pc[d] = "closed"
      /\ UNCHANGED <<msg, msgs, vec, hwVars, eventVars, holder, index, rc, length, cur>>
  BY KindIs, ClientsAre DEF Socket, Assumed, Survived
<1>2. SlavesRest
  BY <1>1, KindIs, ClientsAre DEF SlavesRest
<1>3. pc'[c] = "open" /\ \A d \in Masters : d # c => pc'[d] = pc[d]
  BY <1>1, ClientsAre DEF IInv, Types
<1>4. UNCHANGED <<vec, hwVars, holder>> /\ ec' = ec /\ msg' = msg /\ index' = index /\ rc' = rc /\ length' = length
  BY <1>1 DEF eventVars
<1> QED
  BY <1>1, <1>2, <1>3, <1>4, AsideServes

\* A step of an open file.
LEMMA FileServes ==
  ASSUME Assumed, IInv, ServedInv, NEW c \in Masters, pc[c] \in {"open", "lock"},
         NEW q \in {"closed", "open", "lock"}, pc' = [pc EXCEPT ![c] = q],
         UNCHANGED <<vec, hwVars, eventVars, holder>>, \A m \in InVector : msg'[m] = msg[m],
         \A d \in Client : d # c => rc'[d] = rc[d] /\ index'[d] = index[d] /\ length'[d] = length[d]
  PROVE  ServedInv'
<1>1. SlavesRest
  BY MastersServed
<1>2. pc'[c] = q /\ \A d \in Masters : d # c => pc'[d] = pc[d]
  BY ClientsAre DEF IInv, Types
<1>3. UNCHANGED <<vec, hwVars, holder>> /\ ec' = ec
  BY DEF eventVars
<1> QED
  BY <1>1, <1>2, <1>3, ClientsAre, AsideServes

LEMMA FilesServe ==
  ASSUME Assumed, IInv, ServedInv, NEW c \in Masters,
         \/ Close(c) \/ Error(c) \/ Flush(c) \/ LockTimeout(c)
         \/ \E m \in Msg, tx, cb \in BOOLEAN, n \in Lengths : WriteClient(c, m, tx, cb, n)
  PROVE  ServedInv'
<1>1. c \in Client
  BY ClientsAre
<1>2. CASE Close(c)
  <2>1. /\ pc[c] = "open" /\ DropMessages(c) /\ pc' = [pc EXCEPT ![c] = "closed"]
        /\ UNCHANGED <<vec, hwVars, eventVars, holder, index, rc, length, cur>>
    BY <1>2 DEF Close
  <2>2. \A m \in InVector : msg'[m] = msg[m]
    BY <1>1, <2>1, DropMessagesIs
  <2> QED
    BY <2>1, <2>2, FileServes
<1>3. CASE Error(c)
  <2>1. /\ pc[c] = "open" /\ DropMessages(c)
        /\ UNCHANGED <<vec, hwVars, eventVars, threadVars>>
    BY <1>3 DEF Error
  <2>2. \A m \in InVector : msg'[m] = msg[m]
    BY <1>1, <2>1, DropMessagesIs
  <2>3. /\ pc' = pc /\ index' = index /\ rc' = rc /\ length' = length /\ holder' = holder
    BY <2>1 DEF threadVars
  <2>4. pc' = [pc EXCEPT ![c] = "open"]
    BY <1>1, <2>1, <2>3, PcSame
  <2> QED
    BY <2>1, <2>2, <2>3, <2>4, FileServes
<1>4. CASE Flush(c)
  <2>1. /\ pc[c] = "open" /\ pc' = [pc EXCEPT ![c] = "lock"] /\ UNCHANGED <<msg, msgs, vec>>
        /\ rc' = [rc EXCEPT ![c] = 0] /\ index' = [index EXCEPT ![c] = vec'.length]
        /\ UNCHANGED <<hwVars, eventVars, holder, length>>
    BY <1>4 DEF Flush, Starting
  <2>2. \A d \in Client : d # c => rc'[d] = rc[d] /\ index'[d] = index[d] /\ length'[d] = length[d]
    BY <2>1 DEF IInv, Types
  <2> QED
    BY <2>1, <2>2, FileServes
<1>5. CASE LockTimeout(c)
  <2>1. /\ pc[c] = "lock" /\ pc' = [pc EXCEPT ![c] = "open"]
        /\ rc' = [rc EXCEPT ![c] = 0] /\ index' = [index EXCEPT ![c] = 0]
        /\ length' = [length EXCEPT ![c] = 0]
        /\ UNCHANGED <<msg, msgs, vec, hwVars, eventVars, holder, cur>>
    BY <1>5 DEF LockTimeout, Returns, Goto
  <2>2. \A d \in Client : d # c => rc'[d] = rc[d] /\ index'[d] = index[d] /\ length'[d] = length[d]
    BY <2>1 DEF IInv, Types
  <2> QED
    BY <2>1, <2>2, FileServes
<1>6. CASE \E m \in Msg, tx, cb \in BOOLEAN, n \in Lengths : WriteClient(c, m, tx, cb, n)
  <2>1. PICK m \in Msg, tx \in BOOLEAN, cb \in BOOLEAN, n \in Lengths : WriteClient(c, m, tx, cb, n)
    BY <1>6
  <2> DEFINE x == NewMessage(c, tx, cb, n)
  <2>2. /\ pc[c] = "open" /\ msg[m] = NULL /\ msg' = [msg EXCEPT ![m] = x]
        /\ UNCHANGED <<vec, hwVars, eventVars, threadVars>>
    BY <2>1 DEF WriteClient, MayAdd
  <2> HIDE DEF x
  <2>3. \A k \in InVector : msg'[k] = msg[k]
    <3>1. \A k \in InVector : k \in Msg /\ msg[k] # NULL
      BY VectorIs DEF IInv, Types, Placed, Homes, InVector
    <3> QED
      BY <2>2, <3>1 DEF IInv, Types
  <2>4. /\ pc' = pc /\ index' = index /\ rc' = rc /\ length' = length /\ holder' = holder
    BY <2>2 DEF threadVars
  <2>5. pc' = [pc EXCEPT ![c] = "open"]
    BY <1>1, <2>2, <2>4, PcSame
  <2> QED
    BY <2>2, <2>3, <2>4, <2>5, FileServes
<1> QED
  BY <1>2, <1>3, <1>4, <1>5, <1>6

\* The slave closes its file.
LEMMA CloseServes ==
  ASSUME Assumed, IInv, IInv', NEW c \in Slaves, Close(c)
  PROVE  ServedInv'
<1>1. /\ c \in Client /\ pc[c] = "open" /\ pc' = [pc EXCEPT ![c] = "closed"] /\ DropMessages(c)
      /\ UNCHANGED <<vec, hwVars, eventVars, holder, index, rc, length, cur>>
  BY ClientsAre DEF Close
<1>2. /\ \A d \in Masters : pc[d] = "closed"
      /\ \A d \in Slaves : d = c
      /\ \A m \in InVector : msg[m].kind = "slave"
      /\ ~twcr.sta /\ twi \in {"idle", "sr", "st", "heldS"}
      /\ \A i, j \in Slots : i < j /\ msg[vec.data[j]].done => msg[vec.data[i]].done
      /\ ~PendingIn("master")
  BY <1>1, TheSlavesTurn
<1>3. InVector' = InVector /\ \A m \in InVector : msg'[m] = msg[m]
  BY <1>1, DropMessagesIs
<1>4. /\ vec' = vec /\ twcr' = twcr /\ twi' = twi /\ busy' = busy /\ Slots' = Slots
  BY <1>1 DEF hwVars, Slots
<1>5. Ordered(vec', msg')
  <2>1. \A i \in Slots : vec.data[i] \in InVector
    BY VectorIs DEF IInv, Types
  <2> QED
    BY <1>2, <1>3, <1>4, <2>1 DEF Ordered, Slots
<1>6. ~Sending' /\ twi' # "heldM"
  BY <1>2, <1>4 DEF Sending, Transfers
<1>7. \A d \in Masters : ~Past(d)'
  BY <1>1, <1>2, ClientsAre DEF Past, IInv, Types, Slaves
<1>8. BusyEnds'
  <2>1. busy /\ twi = "idle" => S # NULL /\ ~PendingIn("master")
    BY <1>2 DEF IInv, SlaveInv, SlaveBusy
  <2>2. S # NULL => SlaveQuiet
    BY <1>1, <1>2 DEF IInv, SlaveInv, SlaveRests
  <2> QED
    BY <1>4, <2>1, <2>2 DEF BusyEnds, SlaveQuiet
<1>9. Unheld'
  BY <1>6 DEF Unheld
<1> QED
  BY <1>5, <1>7, <1>8, <1>9 DEF ServedInv

\* What the holder c knows before its step.
LEMMA HolderKnows ==
  ASSUME Assumed, IInv, ServedInv, NEW c \in Masters, Past(c)
  PROVE  /\ c \in Client /\ Ordered(vec, msg) /\ BusyEnds /\ ServedBy(c)
         /\ pc[c] # "wait" => ec["master"] = 0
         /\ pc[c] \notin {"update", "add"} /\ Sending => MReady
         /\ index[c] \in Int /\ length[c] \in Nat /\ VectorOK(vec) /\ vec.length \in Nat
         /\ \A m \in InVector : msg[m].kind = "master"
<1>1. pc[c] \notin {"closed", "open", "lock"}
  BY DEF Past
<1>2. Ordered(vec, msg) /\ BusyEnds /\ ServedBy(c)
  BY <1>1, MastersServed
<1>3. /\ pc[c] # "wait" => ec["master"] = 0
      /\ pc[c] \notin {"update", "add"} => (twcr.sta \/ twi \in Transfers => MReady)
  BY <1>1, HolderIs
<1>4. /\ index[c] \in Int /\ length[c] \in Nat /\ VectorOK(vec) /\ vec.length \in Nat /\ c \in Client
  BY ClientsAre, VectorIs DEF IInv, Types
<1>5. \A m \in InVector : msg[m].kind = "master"
  BY <1>1, MasterTurn
<1> QED
  BY <1>2, <1>3, <1>4, <1>5 DEF Sending

\* A step of the holder that leaves the messages and the bus alone.
LEMMA StayServes ==
  ASSUME Assumed, IInv, ServedInv, IInv', NEW c \in Masters, NEW q \in Stages,
         pc' = [pc EXCEPT ![c] = q], UNCHANGED <<msg, vec, hwVars>>,
         pc[c] \notin {"closed", "open"}, q \notin {"closed", "open", "lock"},
         Sending /\ (busy \/ q \notin {"update", "add"}) => Reaches(vec, msg, M),
         Told(c)' /\ CallsBack => Reaches(vec, msg, ptr.lastMaster),
         twi = "heldM" => (Told(c)' /\ CallsBack) \/ q \in {"loop", "clean", "looked", "resume"},
         q \in {"loop", "clean"} => index'[c] \in Slots /\ Splits(vec, msg, index'[c]),
         q = "clean" => ~msg[vec.data[index'[c]]].done,
         q \in {"looked", "resume"} => vec.length > 0 /\ index'[c] = 0,
         q \in {"started", "wait", "woken"} /\ length'[c] > 0 => length'[c] = vec.length
  PROVE  ServedInv'
<1>1. /\ Ordered(vec, msg) /\ BusyEnds
  BY MastersServed
<1>2. pc'[c] = q
  BY ClientsAre DEF IInv, Types
<1>3. /\ Slots' = Slots /\ (Sending' <=> Sending) /\ (BusyEnds' <=> BusyEnds)
      /\ vec' = vec /\ busy' = busy /\ ptr' = ptr /\ twcr' = twcr /\ twi' = twi /\ msg' = msg
  BY SameServed
<1>4. Past(c)' /\ Threads'
  BY <1>2 DEF Past, IInv
<1>5. (CallsBack' <=> CallsBack) /\ (InLoop(c)' <=> q \in {"loop", "clean", "looked", "resume"})
      /\ (Resumed(c)' <=> length'[c] > 0)
  BY <1>2, <1>3 DEF CallsBack, InLoop, Resumed
<1>6. ServedBy(c)'
  BY <1>2, <1>3, <1>5 DEF ServedBy, M
<1>7. (Ordered(vec, msg) /\ BusyEnds /\ ServedBy(c))'
  BY <1>1, <1>3, <1>6
<1> QED
  BY <1>4, <1>7, HolderServed

LEMMA LockServes ==
  ASSUME Assumed, IInv, ServedInv, IInv', NEW c \in Client, Lock(c)
  PROVE  ServedInv'
<1>1. /\ cur = NULL /\ pc[c] = "lock" /\ holder = NULL /\ holder' = c /\ cur' = c
      /\ index' = [index EXCEPT ![c] = vec'.length] /\ msgs' = msgs
      /\ UNCHANGED <<hwVars, eventVars, rc, length>>
      /\ \/ ~busy /\ CleanUp(Marked(msg, MastersLeft), "master") /\ pc' = [pc EXCEPT ![c] = "update"]
         \/ busy /\ pc' = [pc EXCEPT ![c] = "add"] /\ UNCHANGED <<msg, vec>>
  BY DEF Lock, Goto
<1>2. c \in Masters
  BY <1>1, KindIs DEF IInv, Threads
<1>3. twi # "heldM" /\ (Sending => Reaches(vec, msg, M)) /\ BusyEnds
  BY <1>1, <1>2, MastersServed DEF Unheld
<1>4. ec["master"] = 0
  <2>1. \A d \in Masters : pc[d] \in {"closed", "open", "lock"}
    BY <1>1, <1>2, BusConstants, ClientsAre DEF IInv, Threads
  <2>2. "master" \in Kinds
    BY DEF Kinds
  <2> QED
    BY <2>1, <2>2, KindIs, NoEvent
<1>5. ~Told(c)'
  <2>1. pc'[c] # "woken"
    BY <1>1 DEF IInv, Types
  <2> QED
    BY <1>1, <1>4, <2>1 DEF Told, eventVars
<1>6. CASE busy /\ pc' = [pc EXCEPT ![c] = "add"] /\ UNCHANGED <<msg, vec>>
  <2>1. "add" \in Stages
    BY DEF Stages
  <2> QED
    BY <1>1, <1>2, <1>3, <1>5, <1>6, <2>1, StayServes
<1>7. CASE ~busy /\ CleanUp(Marked(msg, MastersLeft), "master") /\ pc' = [pc EXCEPT ![c] = "update"]
  <2>1. vec'.length = 0
    BY <1>1, <1>2, <1>7, MasterIs, MastersLeftIs, EmptiedIs
  <2>2. Ordered(vec', msg')
    BY <2>1 DEF Ordered
  <2>3. pc'[c] = "update" /\ ~busy' /\ twi' = twi
    BY <1>1, <1>7 DEF IInv, Types, hwVars
  <2>4. ServedBy(c)'
    BY <1>3, <1>5, <2>3 DEF ServedBy
  <2>5. BusyEnds' /\ Past(c)' /\ Threads'
    BY <2>3 DEF BusyEnds, Past, IInv
  <2> QED
    BY <1>2, <2>2, <2>4, <2>5, HolderServed
<1> QED
  BY <1>1, <1>6, <1>7

LEMMA WaitNextServes ==
  ASSUME Assumed, IInv, ServedInv, IInv', NEW c \in Masters, WaitNext(c)
  PROVE  ServedInv'
<1>1. /\ pc[c] = "started" /\ pc' = [pc EXCEPT ![c] = "wait"]
      /\ UNCHANGED <<msg, msgs, vec, hwVars, ec, holder, index, rc, length>>
  BY DEF WaitNext, Goto
<1>2. Past(c)
  BY <1>1 DEF Past
<1>3. ServedBy(c) /\ ec["master"] = 0 /\ c \in Client
  BY <1>1, <1>2, HolderKnows
<1>4. pc'[c] = "wait"
  BY <1>1, <1>3 DEF IInv, Types
<1>5. ~Told(c) /\ ~Told(c)' /\ ~InLoop(c)
  BY <1>1, <1>3, <1>4 DEF Told, InLoop
<1>6. "wait" \in Stages
  BY DEF Stages
<1>7. /\ Sending => Reaches(vec, msg, M)
      /\ twi # "heldM" /\ (length'[c] > 0 => length'[c] = vec.length)
  BY <1>1, <1>3, <1>5 DEF ServedBy, Resumed
<1> QED
  BY <1>1, <1>5, <1>6, <1>7, StayServes

\* The waiting master leaves its queue.
LEMMA WokenServes ==
  ASSUME Assumed, IInv, ServedInv, IInv', NEW c \in Masters, pc[c] = "wait",
         pc' = [pc EXCEPT ![c] = "woken"], UNCHANGED <<msg, vec, hwVars, length>>, ec'["master"] = 0,
         \/ rc'[c] = 0 /\ ec["master"] > 0
         \/ rc'[c] = -1 /\ twi # "heldM"
  PROVE  ServedInv'
<1>1. Past(c)
  BY DEF Past
<1>2. ServedBy(c) /\ c \in Client
  BY <1>1, HolderKnows
<1>3. pc'[c] = "woken"
  BY <1>2 DEF IInv, Types
<1>4. ~InLoop(c) /\ (Told(c) <=> ec["master"] > 0) /\ (Told(c)' <=> rc'[c] = 0)
  BY <1>3 DEF Told, InLoop
<1>5. "woken" \in Stages
  BY DEF Stages
<1>6. /\ Sending => Reaches(vec, msg, M)
      /\ Told(c)' /\ CallsBack => Reaches(vec, msg, ptr.lastMaster)
      /\ twi = "heldM" => Told(c)' /\ CallsBack
      /\ length'[c] > 0 => length'[c] = vec.length
  BY <1>2, <1>4 DEF ServedBy, Resumed
<1> QED
  BY <1>5, <1>6, StayServes

LEMMA PostEventServes ==
  ASSUME Assumed, IInv, ServedInv, IInv', PostEvent("master")
  PROVE  ServedInv'
<1>1. ec["master"] > 0 /\ "master" \in Kinds
  BY DEF PostEvent, Kinds
<1>2. PICK c \in Client : Kind(c) = "master" /\ pc[c] = "wait" /\ queue["master"] = <<c>>
  BY <1>1 DEF IInv, Queues
<1>3. c \in Masters /\ Head(queue["master"]) = c
  BY <1>2, KindIs
<1>4. /\ pc' = [pc EXCEPT ![c] = "woken"] /\ rc' = [rc EXCEPT ![c] = 0]
      /\ UNCHANGED <<msg, msgs, vec, hwVars, holder, index, length, cur>>
      /\ Leave("master", c, ec["master"] - 1)
  BY <1>3 DEF PostEvent
<1>5. ec'["master"] = 0 /\ rc'[c] = 0
  <2>1. ec'["master"] = 0
    BY <1>2, <1>4, LeaveIs
  <2>2. rc'[c] = 0
    BY <1>2, <1>4, ThreadTypes
  <2> QED
    BY <2>1, <2>2
<1> QED
  BY <1>1, <1>2, <1>3, <1>4, <1>5, WokenServes

LEMMA EventTMOServes ==
  ASSUME Assumed, IInv, ServedInv, IInv', Faults \cap Unserved = {}, NEW c \in Masters, EventTMO(c)
  PROVE  ServedInv'
<1>1. c \in Client /\ Kind(c) = "master" /\ pc[c] = "wait"
  <2>1. pc[c] = "wait"
    BY DEF EventTMO
  <2> QED
    BY <2>1, MasterIs
<1>2. /\ pc' = [pc EXCEPT ![c] = "woken"] /\ rc' = [rc EXCEPT ![c] = -1]
      /\ Leave("master", c, ec["master"]) /\ (twi = "heldM" => "lateCallBack" \in Faults)
      /\ UNCHANGED <<msg, msgs, vec, hwVars, holder, index, length>>
  BY <1>1 DEF EventTMO
<1>3. twi # "heldM"
  BY <1>2 DEF Unserved
<1>4. ec'["master"] = 0 /\ rc'[c] = -1
  <2>1. ec'["master"] = 0
    BY <1>1, <1>2, LeaveIs
  <2>2. rc'[c] = -1
    BY <1>1, <1>2, ThreadTypes
  <2> QED
    BY <2>1, <2>2
<1> QED
  BY <1>1, <1>2, <1>3, <1>4, WokenServes

\* A master is back in the core with the result r and the index i.
LEMMA ReturnedServes ==
  ASSUME Assumed, IInv, ServedInv, IInv', NEW c \in Masters, pc[c] = "woken",
         NEW r \in {-1, 0, 1}, NEW i \in Int, Returned(c, r, i),
         UNCHANGED <<msg, msgs, vec, hwVars, eventVars, holder, length>>,
         r = 0 => rc[c] = 0 /\ ptr.lastMaster # NULL /\ msg[ptr.lastMaster].cb
                  /\ i = Locate(vec, ptr.lastMaster),
         Told(c) /\ CallsBack => r = 0
  PROVE  ServedInv'
<1> DEFINE q == IF r = 0 /\ i # -1 /\ (Resumed(c) => i < length[c]) THEN "loop" ELSE "end"
<1>1. /\ rc' = [rc EXCEPT ![c] = r] /\ index' = [index EXCEPT ![c] = i]
      /\ pc' = [pc EXCEPT ![c] = q]
  BY DEF Returned, Goto
<1>2. Past(c)
  BY DEF Past
<1>3. /\ ServedBy(c) /\ c \in Client /\ ec["master"] = 0
      /\ index[c] \in Int /\ length[c] \in Nat /\ VectorOK(vec) /\ vec.length \in Nat
  BY <1>2, HolderKnows
<1>4. /\ Sending => Reaches(vec, msg, M)
      /\ Told(c) /\ CallsBack => Reaches(vec, msg, ptr.lastMaster)
      /\ twi = "heldM" => Told(c) /\ CallsBack
      /\ length[c] > 0 => length[c] = vec.length
  BY <1>3 DEF ServedBy, InLoop, Resumed
<1>5. r = 0 =>
        /\ i \in Slots /\ Splits(vec, msg, i) /\ q = "loop"
  <2>1. SUFFICES ASSUME r = 0 PROVE i \in Slots /\ Splits(vec, msg, i) /\ q = "loop"
    OBVIOUS
  <2>2. Told(c) /\ CallsBack /\ i = Locate(vec, ptr.lastMaster) /\ ptr.lastMaster # NULL
    BY <2>1 DEF Told, CallsBack
  <2>3. ptr.lastMaster \in Entries(vec)
    BY <2>2, ToldIs DEF LastMasterOK, InVector
  <2>4. i \in Slots /\ vec.data[i] = ptr.lastMaster
    BY <1>3, <2>2, <2>3, LocateIs DEF Slots
  <2>5. Splits(vec, msg, i)
    BY <1>4, <2>2, <2>4 DEF Reaches, Slots
  <2>6. i # -1 /\ (length[c] > 0 => i < length[c])
    BY <1>3, <1>4, <2>4 DEF Slots
  <2> QED
    BY <2>1, <2>4, <2>5, <2>6 DEF Resumed
<1>6. q \in {"loop", "end"} /\ (q = "loop" => r = 0) /\ q \in Stages
  BY DEF Stages
<1> HIDE DEF q
<1>7. pc'[c] = q /\ index'[c] = i
  BY <1>1, <1>3 DEF IInv, Types
<1>8. ~Told(c)'
  BY <1>3, <1>6, <1>7 DEF Told, eventVars
<1>9. twi = "heldM" => q = "loop"
  BY <1>4, <1>5
<1> QED
  BY <1>1, <1>4, <1>5, <1>6, <1>7, <1>8, <1>9, StayServes

LEMMA MasterWokenServes ==
  ASSUME Assumed, IInv, ServedInv, IInv', NEW c \in Client, MasterWoken(c)
  PROVE  ServedInv'
<1> DEFINE m == ptr.lastMaster
<1>1. /\ cur = NULL /\ pc[c] = "woken" /\ c \in Masters
      /\ UNCHANGED <<msg, msgs, vec, hwVars, eventVars, holder, length>>
      /\ IF rc[c] = 0 /\ m # NULL
         THEN Returned(c, IF msg[m].cb THEN 0 ELSE 1, Locate(vec, m))
         ELSE Returned(c, -1, index[c])
  BY DEF MasterWoken
<1>2. Told(c) => rc[c] = 0
  <2>1. Past(c)
    BY <1>1 DEF Past
  <2> QED
    BY <1>1, <2>1, HolderKnows DEF Told
<1>3. CASE ~(rc[c] = 0 /\ m # NULL)
  <2> DEFINE r == -1
             i == index[c]
  <2>1. i \in Int
    BY DEF IInv, Types
  <2>2. r \in {-1, 0, 1} /\ r # 0
    OBVIOUS
  <2>3. Returned(c, r, i) /\ ~(Told(c) /\ CallsBack)
    BY <1>1, <1>2, <1>3 DEF CallsBack
  <2> HIDE DEF r, i
  <2> QED
    BY <1>1, <2>1, <2>2, <2>3, ReturnedServes
<1>4. CASE rc[c] = 0 /\ m # NULL
  <2> DEFINE r == IF msg[m].cb THEN 0 ELSE 1
             i == Locate(vec, m)
  <2>1. i \in Int
    BY VectorIs, LocateIs DEF IInv, Types
  <2>2. /\ r \in {-1, 0, 1} /\ (r = 0 => msg[m].cb) /\ Returned(c, r, i)
        /\ (CallsBack => r = 0)
    BY <1>1, <1>4 DEF CallsBack
  <2> HIDE DEF r
  <2> QED
    BY <1>1, <1>4, <2>1, <2>2, ReturnedServes
<1> QED
  BY <1>3, <1>4

LEMMA MasterResumedServes ==
  ASSUME Assumed, IInv, ServedInv, IInv', NEW c \in Client, MasterResumed(c)
  PROVE  ServedInv'
<1> DEFINE m == ptr.lastMaster
<1>1. cur = NULL /\ pc[c] = "woken" /\ c \in Masters /\ Resumed(c)
  BY DEF MasterResumed
<1>2. rc[c] = 0
  BY <1>1 DEF IInv, MasterInv, MasterTold
<1> DEFINE r == IF m = NULL THEN -1 ELSE IF msg[m].cb THEN rc[c] ELSE 1
           i == Locate(vec, m)
<1>3. /\ ptr' = [ptr EXCEPT !.lastMaster = m] /\ UNCHANGED <<busy, twcr, twi, msg>>
      /\ UNCHANGED <<msgs, vec, bufferIndex, eventVars, holder, length>>
      /\ Returned(c, r, i)
  BY <1>2 DEF MasterResumed
<1>4. ptr' = ptr
  BY <1>3 DEF IInv, Types
<1>5. i \in Int
  BY VectorIs, LocateIs DEF IInv, Types
<1>6. r \in {-1, 0, 1} /\ (r = 0 => m # NULL /\ msg[m].cb) /\ (CallsBack => r = 0)
  BY <1>2 DEF CallsBack
<1>7. UNCHANGED <<msg, msgs, vec, hwVars, eventVars, holder, length>>
  BY <1>3, <1>4 DEF hwVars
<1> HIDE DEF r
<1> QED
  BY <1>1, <1>2, <1>3, <1>5, <1>6, <1>7, ReturnedServes

LEMMA NoAnswerServes ==
  ASSUME Assumed, IInv, ServedInv, IInv', Faults \cap Unserved = {}, NEW c \in Masters,
         NoAnswer(c) \/ NoCallBack(c)
  PROVE  ServedInv'
<1>1. pc[c] = "loop"
  BY DEF NoAnswer, NoCallBack
<1>2. Past(c)
  BY <1>1 DEF Past
<1>3. ServedBy(c) /\ c \in Client /\ ec["master"] = 0
  BY <1>1, <1>2, HolderKnows
<1>4. ~NoCallBack(c)
  BY <1>1 DEF NoCallBack, IInv, MasterInv, MasterLoops
<1>5. /\ pc' = [pc EXCEPT ![c] = "end"] /\ (~twcr.ie => "noAnswer" \in Faults)
      /\ UNCHANGED <<msg, msgs, vec, hwVars, eventVars, holder, index, rc, length, cur>>
  BY <1>4 DEF NoAnswer, Goto
<1>6. twi # "heldM"
  BY <1>5 DEF Unserved, IInv, MasterInv, Signals
<1>7. pc'[c] = "end" /\ "end" \in Stages
  BY <1>3, <1>5 DEF IInv, Types, Stages
<1>8. ~Told(c)' /\ (Sending => Reaches(vec, msg, M))
  BY <1>1, <1>3, <1>5, <1>7 DEF Told, eventVars, ServedBy
<1> QED
  BY <1>1, <1>5, <1>6, <1>7, <1>8, StayServes

\* The holder asks the driver to look again.
LEMMA UpdateServes ==
  ASSUME Assumed, IInv, ServedInv, IInv', NEW c \in Masters, MasterTmoUpdate(c) \/ LoopUpdate(c)
  PROVE  ServedInv'
<1>1. /\ Update /\ UNCHANGED <<msg, msgs, vec, busy, twcr, twi, eventVars, index, rc, length>>
      /\ \/ pc[c] = "update" /\ pc' = [pc EXCEPT ![c] = "add"]
         \/ pc[c] = "looked" /\ pc' = [pc EXCEPT ![c] = "resume"]
  BY DEF MasterTmoUpdate, LoopUpdate, Goto
<1>2. Past(c)
  BY <1>1 DEF Past
<1>3. ServedBy(c) /\ ec["master"] = 0 /\ c \in Client /\ Ordered(vec, msg) /\ BusyEnds
  BY <1>1, <1>2, HolderKnows
<1>4. \/ pc[c] = "update" /\ pc'[c] = "add"
      \/ pc[c] = "looked" /\ pc'[c] = "resume"
  BY <1>1, <1>3 DEF IInv, Types
<1>5. ~Told(c)' /\ ~Told(c)
  BY <1>1, <1>3, <1>4 DEF Told, eventVars
<1>6. busy => ptr' = ptr
  BY <1>1, UpdateIs
<1>7. pc[c] = "looked" => ~Sending
  <2>1. pc[c] = "looked" => twi = "heldM" \/ MasterQuiet
    BY DEF IInv, MasterInv, MasterLoops
  <2> QED
    BY <2>1 DEF IInv, MasterInv, Signals, MasterQuiet, Sending, Transfers
<1>8. /\ msg' = msg /\ vec' = vec /\ busy' = busy /\ twcr' = twcr /\ twi' = twi
      /\ index' = index /\ (Sending' <=> Sending)
  BY <1>1 DEF Sending
<1>9. /\ Sending /\ busy => Reaches(vec, msg, M)
      /\ twi = "heldM" => pc[c] = "looked"
      /\ pc[c] = "looked" => vec.length > 0 /\ index[c] = 0
  BY <1>3, <1>4, <1>5 DEF ServedBy, InLoop
<1>10. ServedBy(c)'
  BY <1>4, <1>5, <1>6, <1>7, <1>8, <1>9 DEF ServedBy, InLoop, M
<1>11. /\ Ordered(vec', msg') /\ BusyEnds' /\ Past(c)' /\ Threads'
  BY <1>3, <1>4, <1>8 DEF BusyEnds, Past, IInv
<1> QED
  BY <1>10, <1>11, HolderServed

LEMMA AddMessageServes ==
  ASSUME Assumed, IInv, ServedInv, IInv', NEW c \in Masters, AddMessage(c)
  PROVE  ServedInv'
<1> DEFINE m == Head(msgs[c])
           ns == msg'
           w == vec'
<1>1. pc[c] = "add" /\ pc'[c] = "add" /\ UNCHANGED <<hwVars, eventVars, threadVars>>
  BY AddMessageMoves, ClientsAre
<1>2. Past(c) /\ Past(c)'
  BY <1>1 DEF Past
<1>3. ServedBy(c) /\ ec["master"] = 0 /\ c \in Client /\ Ordered(vec, msg) /\ BusyEnds /\ VectorOK(vec)
  BY <1>1, <1>2, HolderKnows
<1>4. /\ busy' = busy /\ ptr' = ptr /\ twcr' = twcr /\ twi' = twi /\ ec' = ec
  BY <1>1 DEF hwVars, eventVars
<1>5. ~Told(c)' /\ ~Told(c) /\ ~InLoop(c)
  BY <1>1, <1>3, <1>4 DEF Told, InLoop
<1>6. AddedIs(c, m)
  BY <1>3, Added
<1> HIDE DEF m
<1>7. /\ Inserted(w, vec, m, vec.length) /\ m \notin Entries(vec) /\ ~ns[m].done
      /\ \A n \in Entries(vec) : ns[n].done <=> msg[n].done
  <2>1. \A n \in InVector : n \in Msg /\ n # m
    BY <1>6, VectorIs DEF AddedIs, IInv, Types
  <2> QED
    BY <1>6, <2>1 DEF AddedIs, InVector
<1> HIDE DEF ns, w
<1>8. Ordered(w, ns) /\ \A n \in Entries(vec) : Reaches(vec, msg, n) => Reaches(w, ns, n)
  BY <1>3, <1>7, AddedOrder
<1>9. Sending /\ busy => Reaches(w, ns, M)
  <2>1. Sending /\ busy => M \in Entries(vec)
    BY DEF IInv, MasterInv, Sends, Sending, MReady, InVector
  <2> QED
    BY <1>3, <1>8, <2>1 DEF ServedBy
<1>10. twi # "heldM"
  BY <1>3, <1>5 DEF ServedBy
<1>11. ServedBy(c)'
  BY <1>1, <1>4, <1>5, <1>9, <1>10 DEF ServedBy, Sending, M, ns, w
<1>12. Ordered(vec', msg') /\ BusyEnds' /\ Threads'
  BY <1>3, <1>4, <1>8 DEF BusyEnds, IInv, ns, w
<1> QED
  BY <1>2, <1>11, <1>12, HolderServed

LEMMA XferServes ==
  ASSUME Assumed, IInv, ServedInv, IInv', NEW c \in Masters, Xfer(c)
  PROVE  ServedInv'
<1>1. /\ pc[c] = "add" /\ pc' = [pc EXCEPT ![c] = "started"] /\ pc'[c] = "started"
      /\ UNCHANGED <<msg, msgs, vec, busy, bufferIndex, eventVars, holder, rc, cur>> /\ length'[c] = 0
  BY XferMoves, ClientsAre
<1>2. Past(c) /\ Past(c)'
  BY <1>1 DEF Past
<1>3. ServedBy(c) /\ ec["master"] = 0 /\ Ordered(vec, msg) /\ BusyEnds
  BY <1>1, <1>2, HolderKnows
<1>4. ~Told(c)' /\ ~Told(c) /\ ~InLoop(c)
  BY <1>1, <1>3 DEF Told, InLoop, eventVars
<1>5. twi # "heldM" /\ twi # "heldS"
  BY <1>1, <1>3, <1>4, MasterIs DEF ServedBy
<1>6. CASE ~busy
  <2>1. Update /\ Control(TRUE, ptr'.slave # NULL, twi)
    BY <1>5, <1>6 DEF Xfer
  <2>2. ptr'.master = First(vec, msg, "master") /\ twi' = twi /\ twcr'.sta
    BY <1>6, <2>1, UpdateIs DEF Control
  <2>3. Reaches(vec, msg, ptr'.master)
    BY <1>3, <2>2, NowReached
  <2>4. vec' = vec /\ msg' = msg /\ busy' = busy
    BY <1>1
  <2>5. ServedBy(c)'
    BY <1>1, <1>4, <1>5, <2>2, <2>3, <2>4 DEF ServedBy, M, Resumed
  <2>6. Ordered(vec', msg') /\ BusyEnds' /\ Threads'
    BY <1>3, <2>2, <2>4 DEF BusyEnds, IInv
  <2> QED
    BY <1>2, <2>5, <2>6, HolderServed
<1>7. CASE busy
  <2>1. UNCHANGED <<msg, vec, hwVars>>
    BY <1>1, <1>7 DEF Xfer, hwVars
  <2>2. "started" \in Stages
    BY DEF Stages
  <2>3. Sending => Reaches(vec, msg, M)
    BY <1>3, <1>7 DEF ServedBy
  <2>4. /\ pc[c] \notin {"closed", "open"} /\ ~(length'[c] > 0) /\ twi # "heldM"
        /\ pc' = [pc EXCEPT ![c] = "started"] /\ ~Told(c)'
    BY <1>1, <1>4, <1>5
  <2> DEFINE q == "started"
  <2>5. q \in Stages /\ q \notin {"closed", "open", "lock", "loop", "clean", "looked", "resume"}
    BY <2>2
  <2>6. pc' = [pc EXCEPT ![c] = q]
    BY <2>4
  <2> HIDE DEF q
  <2> QED
    BY <2>1, <2>3, <2>4, <2>5, <2>6, StayServes
<1> QED
  BY <1>6, <1>7

\* In the loop the bus does not send.
LEMMA LoopRests ==
  ASSUME IInv, NEW c \in Masters, InLoop(c)
  PROVE  ~Sending
<1>1. twi = "heldM" \/ MasterQuiet
  BY DEF IInv, MasterInv, MasterLoops, InLoop
<1> QED
  BY <1>1 DEF IInv, MasterInv, Signals, MasterQuiet, Sending, Transfers

LEMMA CallBackServes ==
  ASSUME Assumed, IInv, ServedInv, IInv', NEW c \in Masters, NEW n \in Msg, NEW tx \in BOOLEAN,
         NEW cb \in BOOLEAN, NEW len \in AnswerLengths(c), CallBack(c, n, tx, cb, len)
  PROVE  ServedInv'
<1> DEFINE i == index[c]
           m == Get(vec, i)
           ns == msg'
           w == vec'
<1>1. /\ pc[c] = "loop" /\ pc'[c] = "clean" /\ index'[c] = i + 1 /\ ec' = ec
      /\ UNCHANGED <<msgs, hwVars, eventVars, holder, rc, length, cur>>
  BY AnswerMoves, ClientsAre
<1>2. Past(c) /\ Past(c)' /\ InLoop(c) /\ InLoop(c)'
  BY <1>1 DEF Past, InLoop
<1>3. ServedBy(c) /\ ec["master"] = 0 /\ c \in Client /\ BusyEnds /\ VectorOK(vec)
  BY <1>1, <1>2, HolderKnows
<1>4. AnsweredIs(c, m, n, i)
  BY <1>3, Answered
<1>5. i \in Slots /\ Splits(vec, msg, i)
  BY <1>1, <1>3 DEF ServedBy
<1> HIDE DEF i, m
<1>6. /\ Inserted(w, vec, n, i + 1) /\ ns[vec.data[i]].done /\ ~ns[n].done
      /\ \A j \in 0 .. vec.length - 1 : j # i => (ns[vec.data[j]].done <=> msg[vec.data[j]].done)
  <2>1. \A j \in Slots : vec.data[j] \in InVector /\ vec.data[j] \in Msg
    BY VectorIs DEF IInv, Types
  <2>2. \A j \in Slots : j # i => vec.data[j] # vec.data[i]
    BY <1>3, <1>5, VectorIs
  <2>3. \A j \in Slots : j # i => vec.data[j] # m /\ vec.data[j] # n
    BY <1>4, <2>1, <2>2 DEF AnsweredIs
  <2> QED
    BY <1>4, <2>1, <2>3 DEF AnsweredIs, Slots
<1>7. i \in 0 .. vec.length - 1
  BY <1>5 DEF Slots
<1> HIDE DEF ns, w
<1>8. VectorOK(vec) /\ Splits(vec, msg, i)
  BY <1>3, <1>5
<1>9. /\ Ordered(w, ns) /\ Splits(w, ns, i + 1)
      /\ i + 1 \in 0 .. w.length - 1 /\ w.data[i + 1] = n
  BY <1>6, <1>7, <1>8, AnsweredOrder
<1>10. /\ busy' = busy /\ ptr' = ptr /\ twcr' = twcr /\ twi' = twi
  BY <1>1 DEF hwVars
<1>11. ~Sending' /\ ~Told(c)'
  BY <1>1, <1>2, <1>3, <1>10, LoopRests DEF Sending, Told
<1>12. ServedBy(c)'
  BY <1>1, <1>2, <1>6, <1>9, <1>11 DEF ServedBy, Slots, ns, w
<1>13. Ordered(vec', msg') /\ BusyEnds' /\ Threads'
  BY <1>3, <1>9, <1>10 DEF BusyEnds, IInv, ns, w
<1> QED
  BY <1>2, <1>12, <1>13, HolderServed

\* The messages behind those that are done move to the front.
LEMMA DoneShift ==
  ASSUME Assumed, IInv, NEW c \in Client, pc[c] # "closed", CleanUp(msg, Kind(c)),
         NEW d \in Slots, Splits(vec, msg, d), ~msg[vec.data[d]].done
  PROVE  vec'.length = vec.length - d /\ vec'.length > 0 /\ vec'.data[0] = vec.data[d]
<1>1. /\ VectorOK(vec) /\ NullIsApart /\ NULL \notin Msg /\ vec.length \in Nat
      /\ \A j \in 0 .. vec.length - 1 : vec.data[j] \in InVector
      /\ InVector = Entries(vec) /\ Range(Elements(vec)) = Entries(vec)
  BY VectorIs, EntriesAre DEF IInv, Types, Assumed, InVector, Slots
<1>2. \A m \in InVector : msg[m].kind = Kind(c)
  BY AsideTurns
<1> DEFINE k == Kind(c)
           gone == Gone(vec, msg, k)
<1>3. \A m \in InVector : m \in gone <=> msg[m].done
  BY <1>1, <1>2 DEF Gone
<1>4. vec' = Cleanup(vec, msg, k)
  BY DEF CleanUp
<1>5. d \in Int /\ d \in 0 .. vec.length /\ d \in 0 .. vec.length - 1
  BY <1>1 DEF Slots
<1>6. GoesFirst(vec, gone, d)
  <2>1. ASSUME NEW j \in 0 .. vec.length - 1 PROVE vec.data[j] \in gone <=> j < d
    <3>1. vec.data[j] \in InVector
      BY <1>1
    <3>2. j < d \/ j = d \/ j > d
      BY <1>5
    <3>3. (j < d => msg[vec.data[j]].done) /\ (j > d => ~msg[vec.data[j]].done)
      BY DEF Splits
    <3>4. msg[vec.data[j]].done <=> j < d
      BY <1>5, <3>2, <3>3
    <3> QED
      BY <1>3, <3>1, <3>4
  <2> QED
    BY <2>1 DEF GoesFirst
<1>7. GoesFirst(vec, Gone(vec, msg, k), d)
  BY <1>6
<1> HIDE DEF k, gone
<1>8. /\ Cleanup(vec, msg, k).length = vec.length - d
      /\ \A i \in 0 .. vec.length - d - 1 : Cleanup(vec, msg, k).data[i] = vec.data[i + d]
  BY <1>1, <1>5, <1>7, CleanupShifts
<1>9. 0 \in 0 .. vec.length - d - 1 /\ 0 + d = d /\ vec.length - d > 0
  BY <1>1, <1>5
<1> QED
  BY <1>4, <1>8, <1>9

\* When those that were done are freed, none is.
LEMMA CleanedOrder ==
  ASSUME Assumed, IInv, NEW c \in Client, pc[c] # "closed", CleanUp(msg, Kind(c)), msgs' = msgs
  PROVE  Ordered(vec', msg') /\ (vec'.length > 0 => Reaches(vec', msg', vec'.data[0]))
<1> DEFINE ns == msg'
           w == vec'
<1>1. CleanedOf
  BY DoneOnesGo
<1>2. VectorOK(w) /\ \A m \in Entries(w) : ~ns[m].done
  <2>1. \A m \in InVector' : m \in InVector /\ m \in Msg
    BY <1>1, VectorIs DEF CleanedOf, IInv, Types
  <2> QED
    BY <1>1, <2>1 DEF CleanedOf, InVector
<1> HIDE DEF ns, w
<1>3. Ordered(w, ns) /\ (w.length > 0 => Reaches(w, ns, w.data[0]))
  BY <1>2, NothingDone
<1> QED
  BY <1>3 DEF ns, w

LEMMA LoopCleanUpServes ==
  ASSUME Assumed, IInv, ServedInv, IInv', NEW c \in Masters, LoopCleanUp(c)
  PROVE  ServedInv'
<1>1. pc[c] = "clean"
  BY DEF LoopCleanUp
<1>2. Past(c) /\ InLoop(c)
  BY <1>1 DEF Past, InLoop
<1>3. /\ ServedBy(c) /\ ec["master"] = 0 /\ c \in Client /\ BusyEnds
      /\ index[c] \in Int /\ vec.length \in Nat
  BY <1>1, <1>2, HolderKnows
<1>4. index[c] > 0 /\ index \in [Client -> Int]
  BY <1>1 DEF IInv, MasterInv, MasterLoops, Types
<1>5. /\ CleanUp(msg, Kind(c)) /\ pc' = [pc EXCEPT ![c] = "looked"]
      /\ index' = [index EXCEPT ![c] = @ - (vec.length - vec'.length)]
      /\ UNCHANGED <<msgs, hwVars, eventVars, holder, rc, length, cur>>
  BY <1>3, <1>4 DEF LoopCleanUp, Goto
<1>6. /\ index[c] \in Slots /\ Splits(vec, msg, index[c]) /\ ~msg[vec.data[index[c]]].done
  BY <1>1, <1>3 DEF ServedBy
<1>7. vec'.length = vec.length - index[c] /\ vec'.length > 0
  BY <1>1, <1>3, <1>5, <1>6, DoneShift
<1>8. index'[c] = 0
  <2>1. index'[c] = index[c] - (vec.length - vec'.length)
    BY <1>3, <1>4, <1>5
  <2> QED
    BY <1>3, <1>7, <2>1
<1>9. Ordered(vec', msg')
  BY <1>1, <1>3, <1>5, CleanedOrder
<1>10. pc'[c] = "looked"
  BY <1>3, <1>5 DEF IInv, Types
<1>11. /\ busy' = busy /\ ptr' = ptr /\ twcr' = twcr /\ twi' = twi /\ ec' = ec
  BY <1>5 DEF hwVars, eventVars
<1>12. ~Sending' /\ ~Told(c)' /\ InLoop(c)'
  BY <1>2, <1>3, <1>10, <1>11, LoopRests DEF Sending, Told, InLoop
<1>13. ServedBy(c)'
  BY <1>7, <1>8, <1>10, <1>12 DEF ServedBy
<1>14. Past(c)' /\ BusyEnds' /\ Threads'
  BY <1>3, <1>10, <1>11 DEF Past, BusyEnds, IInv
<1> QED
  BY <1>9, <1>13, <1>14, HolderServed

LEMMA ResumeServes ==
  ASSUME Assumed, IInv, ServedInv, IInv', NEW c \in Masters, Resume(c) \/ LoopEnds(c)
  PROVE  ServedInv'
<1> DEFINE m == Get(vec, index[c])
<1>1. pc[c] = "resume"
  BY DEF Resume, LoopEnds
<1>2. Past(c)
  BY <1>1 DEF Past
<1>3. /\ ServedBy(c) /\ ec["master"] = 0 /\ c \in Client /\ Ordered(vec, msg)
      /\ VectorOK(vec) /\ vec.length \in Nat /\ \A x \in InVector : msg[x].kind = "master"
  BY <1>1, <1>2, HolderKnows
<1>4. vec.length > 0 /\ index[c] = 0
  BY <1>1, <1>3 DEF ServedBy
<1>5. 0 \in 0 .. vec.length - 1 /\ 0 \in Int
  BY <1>3, <1>4
<1>6. m = vec.data[0] /\ m # NULL /\ m \in InVector
  <2>1. Get(vec, 0) = vec.data[0] /\ Get(vec, 0) # NULL
    BY <1>3, <1>5, GetIs DEF Assumed
  <2>2. vec.data[0] \in InVector
    BY <1>3, <1>5, VectorIs DEF Slots
  <2> QED
    BY <1>4, <2>1, <2>2
<1>7. Resume(c)
  BY <1>6 DEF LoopEnds
<1>8. Reaches(vec, msg, m)
  <2>1. \A x \in Entries(vec) : ~msg[x].done
    BY <1>1 DEF IInv, MasterInv, MasterLoops, InVector
  <2> QED
    BY <1>3, <1>4, <1>6, <2>1, NothingDone
<1>9. /\ ptr' = [ptr EXCEPT !.master = m]
      /\ Control(TRUE, FALSE, IF twi = "heldM" THEN "rep" ELSE Released)
  BY <1>3, <1>6, <1>7 DEF Resume
<1> HIDE DEF m
<1>10. /\ pc'[c] = "started" /\ length'[c] = vec.length /\ ec' = ec
       /\ UNCHANGED <<msg, msgs, vec, busy>>
  BY <1>3, <1>7, ResumeMoves
<1>11. ptr'.master = m /\ twcr'.sta /\ twi' # "heldM"
  <2>1. ptr'.master = m
    BY <1>9 DEF IInv, Types
  <2>2. twcr'.sta
    BY <1>9 DEF Control
  <2>3. twi' # "heldM"
    BY <1>9 DEF Control, Released
  <2> QED
    BY <2>1, <2>2, <2>3
<1>12. ~Told(c)'
  BY <1>1, <1>3, <1>10 DEF Told
<1>13. ServedBy(c)'
  BY <1>8, <1>10, <1>11, <1>12 DEF ServedBy, M
<1>14. Ordered(vec', msg') /\ Past(c)' /\ BusyEnds' /\ Threads'
  BY <1>3, <1>10, <1>11 DEF Past, BusyEnds, IInv
<1> QED
  BY <1>13, <1>14, HolderServed

LEMMA EndCleanUpServes ==
  ASSUME Assumed, IInv, ServedInv, IInv', NEW c \in Masters, EndCleanUp(c)
  PROVE  ServedInv'
<1>1. /\ pc[c] = "end" /\ CleanUp(msg, Kind(c)) /\ pc' = [pc EXCEPT ![c] = "release"]
      /\ UNCHANGED <<msgs, hwVars, eventVars, holder, index, rc, length, cur>>
  BY DEF EndCleanUp, Goto
<1>2. Past(c) /\ ~InLoop(c)
  BY <1>1 DEF Past, InLoop
<1>3. ServedBy(c) /\ ec["master"] = 0 /\ c \in Client /\ BusyEnds /\ (Sending => MReady)
  BY <1>1, <1>2, HolderKnows
<1>4. pc'[c] = "release"
  BY <1>1, <1>3 DEF IInv, Types
<1>5. /\ busy' = busy /\ ptr' = ptr /\ twcr' = twcr /\ twi' = twi /\ ec' = ec
  BY <1>1 DEF hwVars, eventVars
<1>6. ~Told(c) /\ ~Told(c)'
  BY <1>1, <1>3, <1>4, <1>5 DEF Told
<1>7. twi # "heldM" /\ (Sending => Reaches(vec, msg, M))
  BY <1>1, <1>2, <1>3, <1>6 DEF ServedBy
<1>8. Ordered(vec', msg') /\ (vec'.length > 0 => Reaches(vec', msg', vec'.data[0]))
  BY <1>1, <1>3, CleanedOrder
<1>9. ASSUME Sending PROVE Reaches(vec', msg', M)
  <2>1. PICK d \in Slots : vec.data[d] = M
    BY <1>3, <1>9, VectorIs DEF MReady, IInv, Types
  <2>2. Splits(vec, msg, d) /\ ~msg[vec.data[d]].done
    BY <1>3, <1>7, <1>9, <2>1 DEF Reaches, Slots, MReady
  <2>3. vec'.length > 0 /\ vec'.data[0] = M
    BY <1>1, <1>3, <2>1, <2>2, DoneShift
  <2> QED
    BY <1>8, <2>3
<1>10. ServedBy(c)'
  BY <1>4, <1>5, <1>6, <1>7, <1>9 DEF ServedBy, Sending, M
<1>11. Past(c)' /\ BusyEnds' /\ Threads'
  BY <1>3, <1>4, <1>5 DEF Past, BusyEnds, IInv
<1> QED
  BY <1>8, <1>10, <1>11, HolderServed

LEMMA EndUpdateServes ==
  ASSUME Assumed, IInv, ServedInv, IInv', NEW c \in Masters, EndUpdate(c)
  PROVE  ServedInv'
<1>1. /\ pc[c] = "release" /\ pc' = [pc EXCEPT ![c] = "open"] /\ pc'[c] = "open" /\ Update
      /\ UNCHANGED <<msg, msgs, vec, busy, bufferIndex, twcr, twi, eventVars>>
  BY ReturnMoves, ClientsAre
<1>2. Past(c) /\ ~InLoop(c)
  BY <1>1 DEF Past, InLoop
<1>3. ServedBy(c) /\ ec["master"] = 0 /\ Ordered(vec, msg) /\ BusyEnds
  BY <1>1, <1>2, HolderKnows
<1>4. ~Told(c)
  BY <1>1, <1>3 DEF Told
<1>5. twi # "heldM" /\ (Sending => Reaches(vec, msg, M))
  BY <1>1, <1>2, <1>3, <1>4 DEF ServedBy
<1>6. Sending => Reaches(vec, msg, ptr'.master)
  <2>1. CASE busy
    BY <1>1, <1>5, <2>1, UpdateIs DEF M
  <2>2. CASE ~busy
    BY <1>1, <1>3, <2>2, UpdateIs, NowReached
  <2> QED
    BY <2>1, <2>2
<1>7. \A d \in Masters : ~Past(d)'
  <2>1. \A d \in Masters : d # c => pc[d] \in {"closed", "open", "lock"}
    BY <1>1, HolderIs
  <2>2. \A d \in Masters : d # c => pc'[d] = pc[d]
    BY <1>1, ClientsAre DEF IInv, Types
  <2> QED
    BY <1>1, <2>1, <2>2 DEF Past
<1>8. Ordered(vec', msg') /\ BusyEnds' /\ Unheld'
  BY <1>1, <1>3, <1>5, <1>6 DEF BusyEnds, Unheld, Sending, M
<1> QED
  BY <1>7, <1>8 DEF ServedInv

\* While a slave has its file open, no master waits.
LEMMA SlaveCoreServes ==
  ASSUME IInv, NEW c \in Slaves, Core(c)
  PROVE  ServedInv'
<1>1. c \in Client /\ pc \in [Client -> Stages]
  BY DEF Slaves, IInv, Types
<1>2. CASE \E q \in {"update", "add", "started", "wait", "loop", "clean", "looked", "resume", "end",
                     "release", "open"} : pc' = [pc EXCEPT ![c] = q]
  <2>1. pc'[c] # "closed"
    BY <1>1, <1>2
  <2> QED
    BY <2>1, OpenSlaveServes
<1>3. CASE Lock(c) \/ MasterTmoUpdate(c) \/ Xfer(c) \/ WaitNext(c)
  <2>1. \E q \in {"update", "add", "started", "wait"} : pc' = [pc EXCEPT ![c] = q]
    BY <1>3 DEF Lock, MasterTmoUpdate, Xfer, WaitNext, Goto
  <2> QED
    BY <1>2, <2>1
<1>4. CASE AddMessage(c)
  <2>1. pc[c] = "add" /\ pc' = pc
    BY <1>4 DEF AddMessage, threadVars
  <2> QED
    BY <2>1, OpenSlaveServes
<1>5. CASE MasterWoken(c) \/ MasterResumed(c) \/ SlaveWoken(c)
  <2>1. ASSUME NEW r, NEW i, Returned(c, r, i)
        PROVE  \E q \in {"loop", "end"} : pc' = [pc EXCEPT ![c] = q]
    BY <2>1 DEF Returned, Goto
  <2>2. \E r, i : Returned(c, r, i)
    BY <1>5 DEF MasterWoken, MasterResumed, SlaveWoken
  <2> QED
    BY <1>2, <2>1, <2>2
<1>6. ASSUME NEW n \in Msg, NEW tx \in BOOLEAN, NEW cb \in BOOLEAN, NEW len \in AnswerLengths(c),
             CallBack(c, n, tx, cb, len)
      PROVE  ServedInv'
  <2>1. pc' = [pc EXCEPT ![c] = "clean"]
    BY <1>6 DEF CallBack, Goto
  <2> QED
    BY <1>2, <2>1
<1>7. CASE NoAnswer(c) \/ NoCallBack(c) \/ LoopCleanUp(c) \/ LoopUpdate(c)
  <2>1. \E q \in {"end", "clean", "looked", "resume"} : pc' = [pc EXCEPT ![c] = q]
    BY <1>7 DEF NoAnswer, NoCallBack, LoopCleanUp, LoopUpdate, Goto
  <2> QED
    BY <1>2, <2>1
<1>8. CASE Resume(c) \/ LoopEnds(c) \/ EndCleanUp(c) \/ EndUpdate(c)
  <2>1. \E q \in {"started", "end", "release", "open"} : pc' = [pc EXCEPT ![c] = q]
    BY <1>8 DEF Resume, LoopEnds, EndCleanUp, EndUpdate, Returns, Goto
  <2> QED
    BY <1>2, <2>1
<1> QED
  BY <1>3, <1>4, <1>5, <1>6, <1>7, <1>8 DEF Core

LEMMA ApplicationServes ==
  ASSUME Assumed, IInv, ServedInv, IInv', NEW c \in Client, Application(c)
  PROVE  ServedInv'
<1>1. c \in Masters \/ c \in Slaves
  BY DEF Slaves
<1>2. CASE c \in Masters
  <2>1. CASE Socket(c)
    BY <1>2, <2>1, SocketServes
  <2>2. ASSUME NEW m \in Msg, NEW n \in Lengths, Listen(c, m, n) PROVE FALSE
    BY <1>2, <2>2 DEF Listen
  <2>3. CASE \/ Close(c) \/ Error(c) \/ Flush(c) \/ LockTimeout(c)
             \/ \E m \in Msg, tx, cb \in BOOLEAN, n \in Lengths : WriteClient(c, m, tx, cb, n)
    BY <1>2, <2>3, FilesServe
  <2> QED
    BY <2>1, <2>2, <2>3 DEF Application
<1>3. CASE c \in Slaves
  <2>1. c \in Client /\ pc \in [Client -> Stages] /\ c \notin Masters
    BY <1>3 DEF Slaves, IInv, Types
  <2>2. CASE Close(c)
    BY <1>3, <2>2, CloseServes
  <2>3. CASE Socket(c) \/ Flush(c)
    <3>1. \E q \in {"open", "add"} : pc' = [pc EXCEPT ![c] = q]
      BY <2>1, <2>3 DEF Socket, Flush, StartSlave
    <3>2. pc'[c] # "closed"
      BY <2>1, <3>1
    <3> QED
      BY <1>3, <3>2, OpenSlaveServes
  <2>4. ASSUME NEW m \in Msg, NEW n \in Lengths, Listen(c, m, n) PROVE ServedInv'
    <3>1. pc'[c] # "closed"
      BY <2>1, <2>4 DEF Listen, StartSlave
    <3> QED
      BY <1>3, <3>1, OpenSlaveServes
  <2>5. CASE Error(c) \/ \E m \in Msg, tx, cb \in BOOLEAN, n \in Lengths : WriteClient(c, m, tx, cb, n)
    <3>1. pc[c] = "open" /\ pc' = pc
      BY <2>5 DEF Error, WriteClient, MayAdd, threadVars
    <3> QED
      BY <1>3, <3>1, OpenSlaveServes
  <2> QED
    BY <2>2, <2>3, <2>4, <2>5 DEF Application
<1> QED
  BY <1>1, <1>2, <1>3

LEMMA MasterCoreServes ==
  ASSUME Assumed, IInv, ServedInv, IInv', Faults \cap Unserved = {}, NEW c \in Masters, c \in Client,
         Core(c)
  PROVE  ServedInv'
<1>1. ~SlaveWoken(c)
  BY DEF SlaveWoken
<1>2. CASE Lock(c) \/ MasterTmoUpdate(c) \/ MasterWoken(c) \/ MasterResumed(c)
  BY <1>2, LockServes, UpdateServes, MasterWokenServes, MasterResumedServes
<1>3. CASE AddMessage(c) \/ Xfer(c) \/ WaitNext(c)
  BY <1>3, AddMessageServes, XferServes, WaitNextServes
<1>4. ASSUME NEW n \in Msg, NEW tx \in BOOLEAN, NEW cb \in BOOLEAN, NEW len \in AnswerLengths(c),
             CallBack(c, n, tx, cb, len)
      PROVE  ServedInv'
  BY <1>4, CallBackServes
<1>5. CASE NoAnswer(c) \/ NoCallBack(c)
  BY <1>5, NoAnswerServes
<1>6. CASE LoopCleanUp(c) \/ LoopUpdate(c) \/ Resume(c) \/ LoopEnds(c)
  BY <1>6, LoopCleanUpServes, UpdateServes, ResumeServes
<1>7. CASE EndCleanUp(c) \/ EndUpdate(c)
  BY <1>7, EndCleanUpServes, EndUpdateServes
<1> QED
  BY <1>1, <1>2, <1>3, <1>4, <1>5, <1>6, <1>7 DEF Core

LEMMA SchedulerServes ==
  ASSUME Assumed, IInv, ServedInv, IInv', NEW k \in Kinds, PostEvent(k)
  PROVE  ServedInv'
<1>1. CASE k = "master"
  BY <1>1, PostEventServes
<1>2. CASE k # "master"
  <2>1. PICK c \in Client : Kind(c) = k /\ pc[c] = "wait" /\ queue[k] = <<c>>
    <3>1. queue[k] \notin {SIGNALED, <<>>}
      BY DEF PostEvent, IInv, Queues
    <3> QED
      BY <3>1 DEF IInv, Queues
  <2>2. c \in Slaves
    BY <1>2, <2>1 DEF Kind, Slaves
  <2>3. Head(queue[k]) = c
    BY <2>1
  <2>4. pc' = [pc EXCEPT ![c] = "woken"]
    BY <2>3 DEF PostEvent
  <2>5. pc'[c] # "closed"
    BY <2>1, <2>4 DEF IInv, Types
  <2> QED
    BY <2>2, <2>5, OpenSlaveServes
<1> QED
  BY <1>1, <1>2

LEMMA TimeOutServes ==
  ASSUME Assumed, IInv, ServedInv, IInv', Faults \cap Unserved = {}, NEW c \in Client,
         EventTMO(c) \/ LockTimeout(c)
  PROVE  ServedInv'
<1>1. c \in Masters \/ c \in Slaves
  BY DEF Slaves
<1>2. CASE c \in Masters
  BY <1>2, EventTMOServes, FilesServe
<1>3. CASE c \in Slaves
  <2>1. \E q \in {"woken", "open"} : pc' = [pc EXCEPT ![c] = q]
    BY DEF EventTMO, LockTimeout, Returns, Goto
  <2>2. pc'[c] # "closed"
    BY <2>1 DEF IInv, Types
  <2> QED
    BY <1>3, <2>2, OpenSlaveServes
<1> QED
  BY <1>1, <1>2, <1>3

LEMMA StutterServes ==
  ASSUME IInv, ServedInv, UNCHANGED i2cVars
  PROVE  ServedInv'
<1>1. /\ msg' = msg /\ vec' = vec /\ busy' = busy /\ ptr' = ptr /\ twcr' = twcr /\ twi' = twi
      /\ ec' = ec /\ holder' = holder /\ pc' = pc /\ index' = index /\ rc' = rc /\ length' = length
  BY DEF i2cVars, hwVars, eventVars, threadVars
<1>2. Slots' = Slots /\ (Sending' <=> Sending) /\ (CallsBack' <=> CallsBack) /\ M' = M
  BY <1>1 DEF Slots, Sending, CallsBack, M
<1>3. \A c \in Masters : /\ Past(c)' <=> Past(c)
                         /\ Told(c)' <=> Told(c)
                         /\ InLoop(c)' <=> InLoop(c)
                         /\ Resumed(c)' <=> Resumed(c)
  BY <1>1 DEF Past, Told, InLoop, Resumed
<1>4. \A c \in Masters : ServedBy(c)' <=> ServedBy(c)
  BY <1>1, <1>2, <1>3 DEF ServedBy
<1> QED
  BY <1>1, <1>2, <1>3, <1>4 DEF ServedInv, SlavesRest, BusyEnds, Unheld

LEMMA ServedNext ==
  ASSUME Assumed, IInv, ServedInv, Faults \cap Unserved = {}, [Next]_i2cVars
  PROVE  ServedInv'
<1>1. IInv'
  BY NextKeeps
<1>2. ASSUME NEW c \in Client, Application(c) \/ Core(c)
      PROVE  ServedInv'
  <2>1. c \in Masters \/ c \in Slaves
    BY DEF Slaves
  <2> QED
    BY <1>1, <1>2, <2>1, ApplicationServes, MasterCoreServes, SlaveCoreServes
<1>3. CASE Scheduler
  BY <1>1, <1>3, SchedulerServes DEF Scheduler
<1>4. CASE TimeOuts
  BY <1>1, <1>4, TimeOutServes DEF TimeOuts
<1>5. CASE Bus
  BY <1>1, <1>5, BusServesAll
<1>6. CASE UNCHANGED i2cVars
  BY <1>6, StutterServes
<1> QED
  BY <1>2, <1>3, <1>4, <1>5, <1>6 DEF Next

LEMMA ServedInit ==
  ASSUME Assumed, Init
  PROVE  ServedInv
<1>1. /\ pc = [c \in Client |-> "closed"] /\ vec = Uninit /\ busy = FALSE
      /\ twcr = [sta |-> FALSE, ea |-> FALSE, ie |-> TRUE] /\ twi = "idle"
  BY DEF Init, AdapterInit, ClientsInit
<1>2. vec.length = 0
  BY <1>1 DEF Uninit, Vector
<1>3. Ordered(vec, msg) /\ BusyEnds
  BY <1>1, <1>2 DEF Ordered, BusyEnds
<1>4. Unheld
  BY <1>1 DEF Unheld, Sending, Transfers
<1>5. \A c \in Masters : ~Past(c)
  BY <1>1, ClientsAre DEF Past
<1> QED
  BY <1>3, <1>4, <1>5 DEF ServedInv

LEMMA ServedFollows ==
  ASSUME Assumed, IInv, ServedInv
  PROVE  MasterServed
<1> SUFFICES ASSUME NEW c \in Masters, pc[c] = "wait", ec["master"] = 0
             PROVE  /\ twcr.ie
                    /\ \/ twcr.sta
                       \/ twi \in {"slaw", "slar", "mt", "mr"}
                       \/ twi \in {"sr", "st"} /\ First(vec, msg, "master") # NULL
  BY DEF MasterServed
<1>1. Past(c) /\ ~Told(c) /\ ~InLoop(c)
  BY DEF Past, Told, InLoop
<1>2. ServedBy(c) /\ BusyEnds
  BY <1>1, HolderKnows
<1>3. twi # "heldM" /\ twi # "heldS"
  BY <1>1, <1>2, MasterTurn DEF ServedBy
<1>4. twcr.ie
  BY <1>3 DEF IInv, MasterInv, Signals, Types
<1>5. PendingIn("master") /\ (twcr.sta \/ twi \in Transfers \cup {"rep"} \/ busy)
  BY DEF IInv, MasterInv, MasterWaits
<1>6. First(vec, msg, "master") # NULL
  BY <1>5, NowFirst
<1>7. twi = "rep" => twcr.sta
  BY DEF IInv, MasterInv, Signals
<1>8. twi \in {"idle", "slaw", "slar", "mt", "mr", "rep", "sr", "st", "heldM", "heldS"}
  BY DEF IInv, Types
<1> QED
  BY <1>2, <1>3, <1>4, <1>5, <1>6, <1>7, <1>8 DEF BusyEnds, Transfers

-----------------------------------------------------------------------------
(***************************************************************************)
(* The invariants that the run checks.                                     *)
(***************************************************************************)

(***************************************************************************)
(* The state of clients, messages, adapter and hardware keeps its types,   *)
(* whatever the interrupt handler and the threads do (i2c-dev.c,           *)
(* i2c-core.c, atmega-i2c.c).                                              *)
(***************************************************************************)
THEOREM I2cTypes ==
  ASSUME Assumed
  PROVE  Spec => []I2cTypeOK
<1>1. IInv => I2cTypeOK
  BY TypesFollow
<1> QED
  BY <1>1, I2cInvariant, PTL

(***************************************************************************)
(* A message that is allocated is in the vector of the adapter or in the   *)
(* list of one client, once; one that is free is in neither: what the core *)
(* moves, cleans and gives back (i2c-core.c) is neither lost nor freed     *)
(* while something still lists it.                                         *)
(***************************************************************************)
THEOREM I2cOnePlace ==
  ASSUME Assumed, IsFiniteSet(Msg)
  PROVE  Spec => []OnePlace
<1>1. IInv => OnePlace
  BY OnePlaceFollows
<1> QED
  BY <1>1, I2cInvariant, PTL

(***************************************************************************)
(* The interrupt handler (ISR(TWI_vect) of atmega-i2c.c) never uses a      *)
(* message that was freed.                                                 *)
(***************************************************************************)
THEOREM I2cInUse ==
  ASSUME Assumed
  PROVE  Spec => []InUse
<1>1. IInv => InUse
  BY InUseFollows
<1> QED
  BY <1>1, I2cInvariant, PTL

(***************************************************************************)
(* A master that waits is served: its event is counted, or its START is    *)
(* requested, or the bus is in a transfer at whose end the interrupt       *)
(* handler finds a message to start (ISR(TWI_vect) of atmega-i2c.c and the *)
(* waits of i2c-core.c).  Beyond what the other theorems assume, no byte   *)
(* of another master is refused on a busy bus, and a held bus gets its     *)
(* answer: a call-back finds its master waiting, no wait of a master times *)
(* out under it, and it has a message to answer with.                      *)
(***************************************************************************)
THEOREM I2cMasterServed ==
  ASSUME Assumed, Faults \cap Unserved = {}
  PROVE  Spec => []MasterServed
<1>1. Init => IInv /\ ServedInv
  BY InitHolds, ServedInit
<1>2. IInv /\ ServedInv /\ [Next]_i2cVars => IInv' /\ ServedInv'
  BY NextKeeps, ServedNext
<1>3. IInv /\ ServedInv => MasterServed
  BY ServedFollows
<1> QED
  BY <1>1, <1>2, <1>3, PTL DEF Spec

(***************************************************************************)
(* No message of a master that is done is sent again (atmega_i2c_update,   *)
(* i2c_resume_transfer).                                                   *)
(***************************************************************************)
THEOREM I2cSentOnce ==
  ASSUME Assumed
  PROVE  Spec => []SentOnce
<1>1. IInv => SentOnce
  BY SentOnceFollows
<1> QED
  BY <1>1, I2cInvariant, PTL
==============================================================================
