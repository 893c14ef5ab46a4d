-------------------------- MODULE ThreadQueueProofs --------------------------
(***************************************************************************)
(* What the operators of ThreadQueue do to the members, the order and the  *)
(* head of a list, for lists of any length.                                *)
(***************************************************************************)
EXTENDS ThreadQueue, SequenceTheorems, WellFoundedInduction, TLAPS

-----------------------------------------------------------------------------
(***************************************************************************)
(* Indices and members of sequences.                                       *)
(***************************************************************************)

\* A set of naturals has a least element, and Min is it.
LEMMA LeastOf ==
  ASSUME NEW S \in SUBSET Nat, S # {}
  PROVE  Min(S) \in S /\ \A x \in S : Min(S) <= x
<1> DEFINE Less == {ss \in Nat \X Nat : ss[1] < ss[2]}
<1>1. IsWellFoundedOn(Less, Nat)
  BY NatLessThanWellFounded DEF OpToRel
<1>2. PICK x \in S : \A y \in S : <<y, x>> \notin Less
  BY <1>1, WFMin, Zenon
<1>3. \A y, z \in Nat : <<y, z>> \in Less <=> y < z
  OBVIOUS
<1> HIDE DEF Less
<1>4. ASSUME NEW y \in S PROVE x <= y
  <2>1. x \in Nat /\ y \in Nat OBVIOUS
  <2>2. ~ (y < x) BY <1>2, <1>3, <2>1
  <2>3. QED BY <2>1, <2>2
<1>5. QED BY <1>4 DEF Min

\* Induction over the natural numbers.
LEMMA AllNaturals ==
  ASSUME NEW S \in SUBSET Nat, 0 \in S, \A n \in S : n + 1 \in S
  PROVE  S = Nat
<1> SUFFICES ASSUME Nat \ S # {} PROVE FALSE
  OBVIOUS
<1> DEFINE m == Min(Nat \ S)
<1>1. m \in Nat \ S /\ \A n \in Nat \ S : m <= n
  BY LeastOf
<1> HIDE DEF m
<1>2. m # 0 /\ m - 1 \in Nat /\ (m - 1) + 1 = m /\ ~(m <= m - 1)
  BY <1>1
<1>3. m - 1 \in S
  BY <1>1, <1>2
<1> QED
  BY <1>1, <1>2, <1>3

\* A value is in the range of a sequence iff it has an index.
LEMMA InRange ==
  ASSUME NEW T, NEW s \in Seq(T), NEW x
  PROVE  x \in Range(s) <=> \E i \in 1 .. Len(s) : s[i] = x
BY RangeEquality

\* The head of a list is one of its members.
LEMMA HeadInRange ==
  ASSUME NEW T, NEW s \in Seq(T), s # <<>>
  PROVE  Head(s) \in Range(s) /\ Head(s) = s[1] /\ Len(s) >= 1
<1>1. Len(s) >= 1 /\ Head(s) = s[1] BY EmptySeq
<1>2. QED BY <1>1, InRange

LEMMA MemberIsNotEmpty ==
  ASSUME NEW T, NEW s \in Seq(T), NEW x \in Range(s)
  PROVE  s # <<>>
BY InRange, EmptySeq

\* RemoveAt and InsertAt, element by element.
LEMMA RemoveAtProps ==
  ASSUME NEW T, NEW s \in Seq(T), NEW i \in 1 .. Len(s)
  PROVE  /\ RemoveAt(s, i) \in Seq(T)
         /\ Len(RemoveAt(s, i)) = Len(s) - 1
         /\ \A j \in 1 .. Len(s) - 1 :
              RemoveAt(s, i)[j] = IF j < i THEN s[j] ELSE s[j + 1]
<1> DEFINE a == SubSeq(s, 1, i - 1)
           b == SubSeq(s, i + 1, Len(s))
<1>1. Len(s) \in Nat BY LenProperties
<1>2. /\ a \in Seq(T) /\ Len(a) = i - 1
      /\ \A j \in 1 .. i - 1 : a[j] = s[j]
  BY <1>1, SubSeqProperties
<1>3. /\ b \in Seq(T) /\ Len(b) = Len(s) - i
      /\ \A j \in 1 .. Len(s) - i : b[j] = s[i + j]
  BY <1>1, SubSeqProperties
<1>4. /\ a \o b \in Seq(T)
      /\ Len(a \o b) = Len(a) + Len(b)
      /\ \A j \in 1 .. Len(a) + Len(b) :
           (a \o b)[j] = IF j <= Len(a) THEN a[j] ELSE b[j - Len(a)]
  BY <1>2, <1>3, ConcatProperties
<1> HIDE DEF a, b
<1>5. \A j \in 1 .. Len(s) - 1 : (a \o b)[j] = IF j < i THEN s[j] ELSE s[j + 1]
  BY <1>1, <1>2, <1>3, <1>4
<1>6. RemoveAt(s, i) = a \o b BY DEF RemoveAt, a, b
<1>7. Len(a \o b) = Len(s) - 1
  BY <1>1, <1>2, <1>3, <1>4
<1>8. QED BY <1>4, <1>5, <1>6, <1>7

LEMMA InsertAtProps ==
  ASSUME NEW T, NEW s \in Seq(T), NEW i \in 1 .. Len(s) + 1, NEW t \in T
  PROVE  /\ InsertAt(s, i, t) \in Seq(T)
         /\ Len(InsertAt(s, i, t)) = Len(s) + 1
         /\ \A j \in 1 .. i - 1 : InsertAt(s, i, t)[j] = s[j]
         /\ InsertAt(s, i, t)[i] = t
         /\ \A j \in i + 1 .. Len(s) + 1 : InsertAt(s, i, t)[j] = s[j - 1]
<1> DEFINE a == SubSeq(s, 1, i - 1)
           b == SubSeq(s, i, Len(s))
<1>1. Len(s) \in Nat BY LenProperties
<1>2. /\ a \in Seq(T) /\ Len(a) = i - 1
      /\ \A j \in 1 .. i - 1 : a[j] = s[j]
  BY <1>1, SubSeqProperties
<1>3. /\ b \in Seq(T) /\ Len(b) = Len(s) - i + 1
      /\ \A j \in 1 .. Len(s) - i + 1 : b[j] = s[i + j - 1]
  BY <1>1, SubSeqProperties
<1>4. <<t>> \in Seq(T) /\ Len(<<t>>) = 1 /\ <<t>>[1] = t
  OBVIOUS
<1> DEFINE c == <<t>>
<1>5. /\ a \o c \in Seq(T)
      /\ Len(a \o c) = i
      /\ \A j \in 1 .. i : (a \o c)[j] = IF j < i THEN s[j] ELSE t
  <2> HIDE DEF a, c
  <2>1. /\ a \o c \in Seq(T)
        /\ Len(a \o c) = Len(a) + Len(c)
        /\ \A j \in 1 .. Len(a) + Len(c) :
             (a \o c)[j] = IF j <= Len(a) THEN a[j] ELSE c[j - Len(a)]
    BY <1>2, <1>4, ConcatProperties DEF c
  <2>2. QED BY <2>1, <1>1, <1>2, <1>4 DEF c
<1> DEFINE d == a \o c
<1>6. /\ d \o b \in Seq(T)
      /\ Len(d \o b) = Len(d) + Len(b)
      /\ \A j \in 1 .. Len(d) + Len(b) :
           (d \o b)[j] = IF j <= Len(d) THEN d[j] ELSE b[j - Len(d)]
  <2>1. d \in Seq(T) BY <1>5
  <2> HIDE DEF d, b
  <2>2. QED BY <1>3, <2>1, ConcatProperties, Zenon
<1>7. InsertAt(s, i, t) = d \o b BY Zenon DEF InsertAt
<1> HIDE DEF b, d
<1>8. Len(d) = i /\ \A j \in 1 .. i : d[j] = IF j < i THEN s[j] ELSE t
  BY <1>5 DEF d
<1>9. QED BY <1>1, <1>3, <1>6, <1>7, <1>8
-----------------------------------------------------------------------------
(***************************************************************************)
(* BermudaThreadPrioQueueAdd.                                              *)
(***************************************************************************)

\* The place of t: behind all that are as important, in front of one that is
\* less important.
LEMMA PrioPlaceProps ==
  ASSUME NEW T, NEW s \in Seq(T), NEW t \in T, NEW prio \in [T -> Nat]
  PROVE  /\ PrioPlace(s, t, prio) \in 1 .. Len(s) + 1
         /\ \A j \in 1 .. Len(s) : j < PrioPlace(s, t, prio) => prio[s[j]] <= prio[t]
         /\ PrioPlace(s, t, prio) <= Len(s) => prio[s[PrioPlace(s, t, prio)]] > prio[t]
<1> DEFINE P == {i \in 1 .. Len(s) + 1 : i <= Len(s) => prio[s[i]] > prio[t]}
<1>1. Len(s) \in Nat BY LenProperties
<1>2. P \in SUBSET Nat /\ Len(s) + 1 \in P BY <1>1
<1>3. Min(P) \in P /\ \A x \in P : Min(P) <= x
  BY <1>2, LeastOf, Zenon
<1>4. PrioPlace(s, t, prio) = Min(P) BY DEF PrioPlace
<1> DEFINE m == Min(P)
<1>5. m \in 1 .. Len(s) + 1 /\ (m <= Len(s) => prio[s[m]] > prio[t])
  BY <1>3
<1>6. ASSUME NEW j \in 1 .. Len(s), j < m PROVE prio[s[j]] <= prio[t]
  <2>1. j \notin P BY <1>3, <1>5, <1>6, <1>1
  <2>2. ~ (prio[s[j]] > prio[t]) BY <2>1, <1>1
  <2>3. s[j] \in T BY ElementOfSeq
  <2>4. QED BY <2>2, <2>3
<1>7. QED BY <1>4, <1>5, <1>6

\* The list with t at place p, element by element.
LEMMA InsertAtElements ==
  ASSUME NEW T, NEW s \in Seq(T), NEW p \in 1 .. Len(s) + 1, NEW t \in T
  PROVE  \A j \in 1 .. Len(s) + 1 :
           InsertAt(s, p, t)[j] =
             IF j < p THEN s[j] ELSE IF j = p THEN t ELSE s[j - 1]
<1>1. /\ \A j \in 1 .. p - 1 : InsertAt(s, p, t)[j] = s[j]
      /\ InsertAt(s, p, t)[p] = t
      /\ \A j \in p + 1 .. Len(s) + 1 : InsertAt(s, p, t)[j] = s[j - 1]
  BY InsertAtProps, SMT
<1>2. Len(s) \in Nat BY LenProperties
<1> DEFINE n == InsertAt(s, p, t)
<1> HIDE DEF n
<1>3. ASSUME NEW j \in 1 .. Len(s) + 1
      PROVE  n[j] = IF j < p THEN s[j] ELSE IF j = p THEN t ELSE s[j - 1]
  <2>1. CASE j < p BY <1>1, <1>2, <2>1 DEF n
  <2>2. CASE j = p BY <1>1, <1>2, <2>2 DEF n
  <2>3. CASE j > p BY <1>1, <1>2, <2>3 DEF n
  <2>4. QED BY <1>2, <2>1, <2>2, <2>3
<1>4. QED BY <1>3 DEF n

LEMMA PrioInsertProps ==
  ASSUME NEW T, NEW s \in Seq(T), NEW t \in T, NEW prio \in [T -> Nat]
  PROVE  /\ PrioInsert(s, t, prio) \in Seq(T)
         /\ Len(PrioInsert(s, t, prio)) = Len(s) + 1
         /\ PrioPlace(s, t, prio) \in 1 .. Len(s) + 1
         /\ \A j \in 1 .. Len(s) + 1 :
              PrioInsert(s, t, prio)[j] =
                IF j < PrioPlace(s, t, prio) THEN s[j]
                ELSE IF j = PrioPlace(s, t, prio) THEN t ELSE s[j - 1]
         /\ Len(s) \in Nat
<1>1. PICK p \in 1 .. Len(s) + 1 : p = PrioPlace(s, t, prio) BY PrioPlaceProps
<1>2. PrioInsert(s, t, prio) = InsertAt(s, p, t) BY <1>1 DEF PrioInsert
<1>3. InsertAt(s, p, t) \in Seq(T) /\ Len(InsertAt(s, p, t)) = Len(s) + 1
  BY InsertAtProps, SMT
<1>4. Len(s) \in Nat BY LenProperties
<1>5. \A j \in 1 .. Len(s) + 1 :
        InsertAt(s, p, t)[j] = IF j < p THEN s[j] ELSE IF j = p THEN t ELSE s[j - 1]
  BY InsertAtElements, SMT
<1>6. QED BY <1>1, <1>2, <1>3, <1>4, <1>5, Zenon

\* The same by the three parts of the list: in front of t, t, behind t.
LEMMA PrioInsertParts ==
  ASSUME NEW T, NEW s \in Seq(T), NEW t \in T, NEW prio \in [T -> Nat]
  PROVE  /\ PrioInsert(s, t, prio) \in Seq(T)
         /\ Len(PrioInsert(s, t, prio)) = Len(s) + 1
         /\ PrioPlace(s, t, prio) \in 1 .. Len(s) + 1
         /\ \A k \in 1 .. Len(s) + 1 : k < PrioPlace(s, t, prio) =>
              k \in 1 .. Len(s) /\ PrioInsert(s, t, prio)[k] = s[k]
         /\ PrioInsert(s, t, prio)[PrioPlace(s, t, prio)] = t
         /\ \A k \in 1 .. Len(s) + 1 : k > PrioPlace(s, t, prio) =>
              k - 1 \in 1 .. Len(s) /\ PrioInsert(s, t, prio)[k] = s[k - 1]
         /\ Len(s) \in Nat
<1> DEFINE n == PrioInsert(s, t, prio)
           p == PrioPlace(s, t, prio)
<1>1. /\ n \in Seq(T)
      /\ Len(n) = Len(s) + 1
      /\ p \in 1 .. Len(s) + 1
      /\ \A j \in 1 .. Len(s) + 1 :
           n[j] = IF j < p THEN s[j] ELSE IF j = p THEN t ELSE s[j - 1]
      /\ Len(s) \in Nat
  BY PrioInsertProps, Zenon
<1> HIDE DEF n, p
<1>3. ASSUME NEW k \in 1 .. Len(s) + 1, k < p PROVE k \in 1 .. Len(s) /\ n[k] = s[k]
  <2>1. n[k] = IF k < p THEN s[k] ELSE IF k = p THEN t ELSE s[k - 1] BY <1>1, Zenon
  <2>2. p \in 1 .. Len(s) + 1 /\ Len(s) \in Nat BY <1>1, Zenon
  <2>3. QED BY <2>1, <2>2, <1>3
<1>4. n[p] = t
  <2>1. n[p] = IF p < p THEN s[p] ELSE IF p = p THEN t ELSE s[p - 1] BY <1>1, Zenon
  <2>2. p \in 1 .. Len(s) + 1 /\ Len(s) \in Nat BY <1>1, Zenon
  <2>3. QED BY <2>1, <2>2
<1>5. ASSUME NEW k \in 1 .. Len(s) + 1, k > p
      PROVE  k - 1 \in 1 .. Len(s) /\ n[k] = s[k - 1]
  <2>1. n[k] = IF k < p THEN s[k] ELSE IF k = p THEN t ELSE s[k - 1] BY <1>1, Zenon
  <2>2. p \in 1 .. Len(s) + 1 /\ Len(s) \in Nat BY <1>1, Zenon
  <2>3. QED BY <2>1, <2>2, <1>5
<1>6. QED BY <1>1, <1>3, <1>4, <1>5, Zenon DEF n, p

\* t joins the members.
LEMMA PrioInsertRange ==
  ASSUME NEW T, NEW s \in Seq(T), NEW t \in T, NEW prio \in [T -> Nat]
  PROVE  Range(PrioInsert(s, t, prio)) = Range(s) \cup {t}
<1> DEFINE n == PrioInsert(s, t, prio)
           p == PrioPlace(s, t, prio)
<1>1. /\ n \in Seq(T)
      /\ Len(n) = Len(s) + 1
      /\ p \in 1 .. Len(s) + 1
      /\ \A k \in 1 .. Len(s) + 1 : k < p => k \in 1 .. Len(s) /\ n[k] = s[k]
      /\ n[p] = t
      /\ \A k \in 1 .. Len(s) + 1 : k > p => k - 1 \in 1 .. Len(s) /\ n[k] = s[k - 1]
      /\ Len(s) \in Nat
  BY PrioInsertParts, Zenon
<1> HIDE DEF n, p
<1>3. ASSUME NEW x \in Range(n) PROVE x \in Range(s) \cup {t}
  <2>0. n \in Seq(T) /\ Len(n) = Len(s) + 1 BY <1>1, Zenon
  <2>1. PICK j \in 1 .. Len(s) + 1 : n[j] = x BY <2>0, InRange
  <2>2. CASE j < p
    <3>1. j \in 1 .. Len(s) /\ s[j] = x BY <2>1, <2>2, <1>1
    <3>2. QED BY <3>1, InRange
  <2>3. CASE j = p BY <2>1, <2>3, <1>1
  <2>4. CASE j > p
    <3>1. j - 1 \in 1 .. Len(s) /\ s[j - 1] = x BY <2>1, <2>4, <1>1
    <3>2. QED BY <3>1, InRange
  <2>5. QED BY <2>2, <2>3, <2>4, <1>1
<1>4. ASSUME NEW x \in Range(s) PROVE x \in Range(n)
  <2>1. PICK j \in 1 .. Len(s) : s[j] = x BY InRange
  <2>2. CASE j < p
    <3>1. j \in 1 .. Len(n) /\ n[j] = x BY <2>1, <2>2, <1>1
    <3>2. QED BY <3>1, <1>1, InRange
  <2>3. CASE j >= p
    <3>1. j + 1 \in 1 .. Len(s) + 1 /\ j + 1 > p BY <2>3, <1>1
    <3>2. n[j + 1] = s[(j + 1) - 1] BY <3>1, <1>1
    <3>3. j + 1 \in 1 .. Len(n) /\ n[j + 1] = x BY <3>1, <3>2, <2>1, <1>1
    <3>4. QED BY <3>3, <1>1, InRange
  <2>4. QED BY <2>2, <2>3, <1>1
<1>2. t \in Range(n) BY <1>1, InRange
<1>5. QED BY <1>3, <1>4, <1>2 DEF n

\* No thread is in the list twice afterwards if t was not in it.
LEMMA PrioInsertOnce ==
  ASSUME NEW T, NEW s \in Seq(T), NEW t \in T, NEW prio \in [T -> Nat],
         NoDuplicates(s), t \notin Range(s)
  PROVE  NoDuplicates(PrioInsert(s, t, prio))
<1> DEFINE n == PrioInsert(s, t, prio)
           p == PrioPlace(s, t, prio)
<1>1. /\ n \in Seq(T)
      /\ Len(n) = Len(s) + 1
      /\ p \in 1 .. Len(s) + 1
      /\ \A k \in 1 .. Len(s) + 1 : k < p => k \in 1 .. Len(s) /\ n[k] = s[k]
      /\ n[p] = t
      /\ \A k \in 1 .. Len(s) + 1 : k > p => k - 1 \in 1 .. Len(s) /\ n[k] = s[k - 1]
      /\ Len(s) \in Nat
  BY PrioInsertParts, Zenon
<1>2. \A i \in 1 .. Len(s) : s[i] # t BY InRange
<1>3. \A i, j \in 1 .. Len(s) : s[i] = s[j] => i = j
  BY LenProperties DEF NoDuplicates
<1>4. DOMAIN n = 1 .. Len(s) + 1 BY <1>1, LenProperties
<1> HIDE DEF n, p
<1>5. ASSUME NEW i \in 1 .. Len(s) + 1, NEW j \in 1 .. Len(s) + 1, n[i] = n[j]
      PROVE  i = j
  <2>1. \A k \in 1 .. Len(s) + 1 : k < p => k \in 1 .. Len(s) /\ n[k] = s[k]
    BY <1>1
  <2>2. \A k \in 1 .. Len(s) + 1 : k > p => k - 1 \in 1 .. Len(s) /\ n[k] = s[k - 1]
    BY <1>1
  <2>3. n[p] = t BY <1>1
  <2>a. ASSUME NEW k \in 1 .. Len(s) + 1, n[k] = t PROVE k = p
    <3>1. ~ (k < p) BY <2>1, <2>a, <1>2
    <3>2. ~ (k > p) BY <2>2, <2>a, <1>2
    <3>3. QED BY <3>1, <3>2, <1>1
  <2>4. CASE i = p \/ j = p BY <2>a, <2>3, <2>4, <1>5
  <2>5. CASE i < p /\ j < p BY <2>1, <2>5, <1>3, <1>5
  <2>6. CASE i > p /\ j > p
    <3>1. i - 1 = j - 1 BY <2>2, <2>6, <1>3, <1>5
    <3>2. QED BY <3>1
  <2>7. CASE i < p /\ j > p
    <3>1. i = j - 1 BY <2>1, <2>2, <2>7, <1>3, <1>5
    <3>2. QED BY <3>1, <2>7, <1>1
  <2>8. CASE i > p /\ j < p
    <3>1. i - 1 = j BY <2>1, <2>2, <2>8, <1>3, <1>5
    <3>2. QED BY <3>1, <2>8, <1>1
  <2>9. QED BY <2>4, <2>5, <2>6, <2>7, <2>8, <1>1
<1>6. QED BY <1>4, <1>5 DEF NoDuplicates, n

\* t becomes the head, or the head stays.
LEMMA PrioInsertHead ==
  ASSUME NEW T, NEW s \in Seq(T), NEW t \in T, NEW prio \in [T -> Nat]
  PROVE  /\ PrioInsert(s, t, prio) # <<>>
         /\ Head(PrioInsert(s, t, prio)) =
              IF PrioPlace(s, t, prio) = 1 THEN t ELSE Head(s)
<1> DEFINE n == PrioInsert(s, t, prio)
           p == PrioPlace(s, t, prio)
<1>1. /\ n \in Seq(T)
      /\ Len(n) = Len(s) + 1
      /\ p \in 1 .. Len(s) + 1
      /\ \A j \in 1 .. Len(s) + 1 :
           n[j] = IF j < p THEN s[j] ELSE IF j = p THEN t ELSE s[j - 1]
      /\ Len(s) \in Nat
  BY PrioInsertProps, Zenon
<1> HIDE DEF n, p
<1>2. n # <<>> /\ Head(n) = n[1] BY <1>1, HeadInRange, EmptySeq
<1>a. 1 \in 1 .. Len(s) + 1 BY <1>1
<1>3. n[1] = IF p = 1 THEN t ELSE s[1]
  <2>1. CASE p = 1 BY <2>1, <1>a, <1>1
  <2>2. CASE 1 < p BY <2>2, <1>a, <1>1
  <2>3. QED BY <2>1, <2>2, <1>1
<1>4. p # 1 => s # <<>> BY <1>1, EmptySeq
<1>5. p # 1 => Head(s) = s[1] BY <1>4, HeadInRange
<1>6. QED BY <1>2, <1>3, <1>5 DEF n, p

\* The list stays in order of importance.
LEMMA PrioInsertInOrder ==
  ASSUME NEW T, NEW s \in Seq(T), NEW t \in T, NEW prio \in [T -> Nat],
         InPrioOrder(s, prio)
  PROVE  InPrioOrder(PrioInsert(s, t, prio), prio)
<1> DEFINE n == PrioInsert(s, t, prio)
           p == PrioPlace(s, t, prio)
<1>1. /\ n \in Seq(T)
      /\ Len(n) = Len(s) + 1
      /\ p \in 1 .. Len(s) + 1
      /\ \A k \in 1 .. Len(s) + 1 : k < p => k \in 1 .. Len(s) /\ n[k] = s[k]
      /\ n[p] = t
      /\ \A k \in 1 .. Len(s) + 1 : k > p => k - 1 \in 1 .. Len(s) /\ n[k] = s[k - 1]
      /\ Len(s) \in Nat
  BY PrioInsertParts, Zenon
<1>2. /\ \A j \in 1 .. Len(s) : j < p => prio[s[j]] <= prio[t]
      /\ p <= Len(s) => prio[s[p]] > prio[t]
  BY PrioPlaceProps
<1>3. \A i, j \in 1 .. Len(s) : i < j => prio[s[i]] <= prio[s[j]]
  BY LenProperties DEF InPrioOrder
<1>4. \A i \in 1 .. Len(s) : prio[s[i]] \in Nat
  BY ElementOfSeq
<1>5. DOMAIN n = 1 .. Len(s) + 1 BY <1>1, LenProperties
<1> HIDE DEF n, p
<1>6. ASSUME NEW j \in 1 .. Len(s), j >= p PROVE prio[s[j]] > prio[t]
  <2>1. prio[s[p]] > prio[t] /\ p \in 1 .. Len(s) BY <1>1, <1>2, <1>6
  <2>2. prio[s[p]] <= prio[s[j]] BY <1>3, <1>4, <1>6, <2>1
  <2>3. QED BY <2>1, <2>2, <1>4
<1>7. ASSUME NEW i \in 1 .. Len(s) + 1, NEW j \in 1 .. Len(s) + 1, i < j
      PROVE  prio[n[i]] <= prio[n[j]]
  <2>1. CASE j < p
    <3>1. n[j] = s[j] /\ j \in 1 .. Len(s) BY <2>1, <1>1
    <3>a. n[i] = s[i] /\ i \in 1 .. Len(s) BY <2>1, <1>1, <1>7
    <3>2. QED BY <3>1, <3>a, <1>3, <1>7
  <2>2. CASE j = p
    <3>1. n[i] = s[i] /\ n[j] = t /\ i \in 1 .. Len(s) BY <2>2, <1>1, <1>7
    <3>2. QED BY <3>1, <2>2, <1>2, <1>7
  <2>3. CASE j > p /\ i < p
    <3>1. n[i] = s[i] /\ n[j] = s[j - 1] /\ i \in 1 .. Len(s) /\ j - 1 \in 1 .. Len(s)
      BY <2>3, <1>1, <1>7
    <3>2. CASE i < j - 1 BY <3>1, <3>2, <1>3
    <3>3. CASE i = j - 1 BY <3>1, <3>3, <1>4
    <3>4. QED BY <3>2, <3>3, <1>7
  <2>4. CASE j > p /\ i = p
    <3>1. n[i] = t /\ n[j] = s[j - 1] /\ j - 1 \in 1 .. Len(s) /\ j - 1 >= p
      BY <2>4, <1>1, <1>7
    <3>2. QED BY <3>1, <1>4, <1>6
  <2>5. CASE j > p /\ i > p
    <3>1. /\ n[i] = s[i - 1] /\ n[j] = s[j - 1]
          /\ i - 1 \in 1 .. Len(s) /\ j - 1 \in 1 .. Len(s)
      BY <2>5, <1>1, <1>7
    <3>2. QED BY <3>1, <1>3, <1>7
  <2>6. QED BY <2>1, <2>2, <2>3, <2>4, <2>5, <1>1
<1>8. QED BY <1>5, <1>7 DEF InPrioOrder, n
-----------------------------------------------------------------------------
(***************************************************************************)
(* BermudaThreadQueueRemove, and the neighbour of a thread.                *)
(***************************************************************************)

\* RemoveFirst takes one element out, or none.
LEMMA RemoveFirstPlace ==
  ASSUME NEW T, NEW s \in Seq(T), NEW x
  PROVE  /\ x \notin Range(s) => RemoveFirst(s, x) = s
         /\ x \in Range(s) =>
              \E i \in 1 .. Len(s) : s[i] = x /\ RemoveFirst(s, x) = RemoveAt(s, i)
<1>1. CASE x \notin Range(s)
  <2>1. ~ \E i \in 1 .. Len(s) : s[i] = x BY <1>1, InRange
  <2>2. QED BY <1>1, <2>1 DEF RemoveFirst
<1>2. CASE x \in Range(s)
  <2> DEFINE I == {i \in 1 .. Len(s) : s[i] = x}
  <2>1. I # {} BY <1>2, InRange
  <2>2. I \in SUBSET Nat OBVIOUS
  <2>3. Min(I) \in I BY <2>1, <2>2, LeastOf, Zenon
  <2>4. SelectInSeq(s, LAMBDA v : v = x) = Min(I) BY <2>1 DEF SelectInSeq
  <2>5. RemoveFirst(s, x) = RemoveAt(s, Min(I)) BY <2>1, <2>4 DEF RemoveFirst
  <2>6. QED BY <1>2, <2>3, <2>5
<1>3. QED BY <1>1, <1>2

\* x, and nothing else, is gone.
LEMMA RemoveFirstProps ==
  ASSUME NEW T, NEW s \in Seq(T), NEW x, NoDuplicates(s)
  PROVE  /\ RemoveFirst(s, x) \in Seq(T)
         /\ NoDuplicates(RemoveFirst(s, x))
         /\ Range(RemoveFirst(s, x)) = Range(s) \ {x}
<1>1. CASE x \notin Range(s)
  BY <1>1, RemoveFirstPlace
<1>2. CASE x \in Range(s)
  <2>1. PICK i \in 1 .. Len(s) : s[i] = x /\ RemoveFirst(s, x) = RemoveAt(s, i)
    BY <1>2, RemoveFirstPlace
  <2> DEFINE r == RemoveAt(s, i)
  <2>2. /\ r \in Seq(T)
        /\ Len(r) = Len(s) - 1
        /\ \A j \in 1 .. Len(s) - 1 : r[j] = IF j < i THEN s[j] ELSE s[j + 1]
    BY RemoveAtProps
  <2>3. Len(s) \in Nat BY LenProperties
  <2>4. \A k, j \in 1 .. Len(s) : s[k] = s[j] => k = j
    BY LenProperties DEF NoDuplicates
  <2>5. DOMAIN r = 1 .. Len(s) - 1 BY <2>2, LenProperties
  <2> HIDE DEF r
  <2>6. \A j \in 1 .. Len(s) - 1 : j < i => j \in 1 .. Len(s) /\ r[j] = s[j]
    BY <2>2, <2>3
  <2>7. \A j \in 1 .. Len(s) - 1 : j >= i => j + 1 \in 1 .. Len(s) /\ r[j] = s[j + 1]
    BY <2>2, <2>3
  <2>8. ASSUME NEW k \in 1 .. Len(s) - 1, NEW j \in 1 .. Len(s) - 1, r[k] = r[j]
        PROVE  k = j
    <3>1. CASE k < i /\ j < i BY <3>1, <2>4, <2>6, <2>8
    <3>2. CASE k < i /\ j >= i
      <4>1. k = j + 1 BY <3>2, <2>4, <2>6, <2>7, <2>8
      <4>2. QED BY <4>1, <3>2
    <3>3. CASE k >= i /\ j < i
      <4>1. j = k + 1 BY <3>3, <2>4, <2>6, <2>7, <2>8
      <4>2. QED BY <4>1, <3>3
    <3>4. CASE k >= i /\ j >= i
      <4>1. k + 1 = j + 1 BY <3>4, <2>4, <2>7, <2>8
      <4>2. QED BY <4>1
    <3>5. QED BY <3>1, <3>2, <3>3, <3>4
  <2>9. ASSUME NEW y \in Range(r) PROVE y \in Range(s) \ {x}
    <3>1. PICK j \in 1 .. Len(s) - 1 : r[j] = y BY <2>2, InRange
    <3>2. CASE j < i
      <4>1. j \in 1 .. Len(s) /\ s[j] = y /\ j # i BY <3>1, <3>2, <2>6
      <4>2. QED BY <4>1, <2>1, <2>4, InRange
    <3>3. CASE j >= i
      <4>1. j + 1 \in 1 .. Len(s) /\ s[j + 1] = y /\ j + 1 # i BY <3>1, <3>3, <2>7
      <4>2. QED BY <4>1, <2>1, <2>4, InRange
    <3>4. QED BY <3>2, <3>3
  <2>10. ASSUME NEW y \in Range(s) \ {x} PROVE y \in Range(r)
    <3>1. PICK j \in 1 .. Len(s) : s[j] = y BY InRange
    <3>2. j # i BY <3>1, <2>1
    <3>3. CASE j < i
      <4>1. j \in 1 .. Len(r) /\ r[j] = y BY <3>1, <3>3, <2>2, <2>3, <2>6
      <4>2. QED BY <4>1, <2>2, InRange
    <3>4. CASE j > i
      <4>1. j - 1 \in 1 .. Len(r) /\ r[j - 1] = y BY <3>1, <3>4, <2>2, <2>3, <2>7
      <4>2. QED BY <4>1, <2>2, InRange
    <3>5. QED BY <3>2, <3>3, <3>4
  <2>11. NoDuplicates(r) BY <2>5, <2>8 DEF NoDuplicates
  <2>12. QED BY <2>1, <2>2, <2>9, <2>10, <2>11 DEF r
<1>3. QED BY <1>1, <1>2

\* The neighbour of a thread in a list.
LEMMA SuccessorProps ==
  ASSUME NEW T, NEW s \in Seq(T), NEW x, NoDuplicates(s)
  PROVE  /\ x \notin Range(s) => Successor(s, x) = NULL
         /\ \A i \in 1 .. Len(s) :
              s[i] = x => Successor(s, x) = IF i < Len(s) THEN s[i + 1] ELSE NULL
<1> DEFINE after == {i \in 2 .. Len(s) : s[i - 1] = x}
<1>1. Len(s) \in Nat BY LenProperties
<1>2. \A k, j \in 1 .. Len(s) : s[k] = s[j] => k = j
  BY LenProperties DEF NoDuplicates
<1>3. Successor(s, x) = IF after = {} THEN NULL ELSE s[Min(after)]
  BY DEF Successor
<1>4. CASE x \notin Range(s)
  <2>1. \A j \in 1 .. Len(s) : s[j] # x BY <1>4, InRange
  <2>2. after = {} BY <2>1, <1>1
  <2>3. QED BY <1>3, <2>1, <2>2
<1>5. ASSUME NEW i \in 1 .. Len(s), s[i] = x
      PROVE  /\ x \in Range(s)
             /\ Successor(s, x) = IF i < Len(s) THEN s[i + 1] ELSE NULL
  <2>1. x \in Range(s) BY <1>5, InRange
  <2>2. \A j \in after : j = i + 1
    <3>1. ASSUME NEW j \in after PROVE j = i + 1
      <4>1. j - 1 \in 1 .. Len(s) /\ s[j - 1] = x BY <1>1
      <4>2. j - 1 = i BY <4>1, <1>2, <1>5
      <4>3. QED BY <4>2
    <3>2. QED BY <3>1
  <2>3. CASE i < Len(s)
    <3>1. i + 1 \in after BY <2>3, <1>1, <1>5
    <3>2. after \in SUBSET Nat BY <1>1
    <3>3. Min(after) \in after BY <3>1, <3>2, LeastOf, Zenon
    <3>4. QED BY <1>3, <2>1, <2>2, <2>3, <3>1, <3>3
  <2>4. CASE i >= Len(s)
    <3>1. after = {} BY <2>2, <2>4, <1>1
    <3>2. QED BY <1>3, <2>1, <2>4, <3>1, <1>1
  <2>5. QED BY <2>3, <2>4, <1>1
<1>6. QED BY <1>4, <1>5
\* The head that remains when a thread leaves.
LEMMA RemoveFirstHead ==
  ASSUME NEW T, NEW s \in Seq(T), NEW x \in Range(s), NoDuplicates(s)
  PROVE  /\ x # Head(s) => /\ RemoveFirst(s, x) # <<>>
                           /\ Head(RemoveFirst(s, x)) = Head(s)
         /\ x = Head(s) /\ Successor(s, x) = NULL => Range(s) = {x} \/ NULL \in Range(s)
         /\ x = Head(s) /\ RemoveFirst(s, x) = <<>> => Successor(s, x) = NULL
         /\ x = Head(s) /\ RemoveFirst(s, x) # <<>> =>
              Successor(s, x) = Head(RemoveFirst(s, x))
<1>1. PICK i \in 1 .. Len(s) : s[i] = x /\ RemoveFirst(s, x) = RemoveAt(s, i)
  BY RemoveFirstPlace
<1> DEFINE r == RemoveAt(s, i)
<1>2. /\ r \in Seq(T)
      /\ Len(r) = Len(s) - 1
      /\ \A j \in 1 .. Len(s) - 1 : r[j] = IF j < i THEN s[j] ELSE s[j + 1]
  BY RemoveAtProps
<1>3. Len(s) \in Nat /\ s # <<>> /\ Head(s) = s[1] /\ Len(s) >= 1
  BY <1>1, LenProperties, MemberIsNotEmpty, HeadInRange
<1>4. \A k, j \in 1 .. Len(s) : s[k] = s[j] => k = j
  BY LenProperties DEF NoDuplicates
<1>5. Successor(s, x) = IF i < Len(s) THEN s[i + 1] ELSE NULL
  BY <1>1, SuccessorProps
<1> HIDE DEF r
<1>6. r # <<>> <=> Len(s) > 1
  BY <1>2, <1>3, EmptySeq
<1>7. r # <<>> => Head(r) = r[1]
  BY <1>2, HeadInRange
<1>8. CASE i # 1
  <2>1. x # Head(s) BY <1>1, <1>3, <1>4, <1>8
  <2>2. Len(s) > 1 BY <1>1, <1>3, <1>8
  <2>3. r[1] = s[1]
    <3>1. 1 \in 1 .. Len(s) - 1 /\ 1 < i BY <2>2, <1>1, <1>3, <1>8
    <3>2. QED BY <3>1, <1>2
  <2>4. QED BY <1>1, <1>3, <1>6, <1>7, <2>1, <2>2, <2>3 DEF r
<1>9. CASE i = 1
  <2>1. x = Head(s) BY <1>1, <1>3, <1>9
  <2>2. CASE Len(s) = 1
    <3>1. r = <<>> BY <1>6, <2>2
    <3>2. Range(s) = {x} BY <1>1, <1>9, <2>2, InRange
    <3>3. Successor(s, x) = NULL BY <1>5, <1>9, <2>2
    <3>4. QED BY <1>1, <2>1, <3>1, <3>2, <3>3 DEF r
  <2>3. CASE Len(s) > 1
    <3>1. r # <<>> BY <1>6, <2>3
    <3>2. r[1] = s[2]
      <4>1. 1 \in 1 .. Len(s) - 1 /\ ~ (1 < i) BY <2>3, <1>3, <1>9
      <4>2. QED BY <4>1, <1>2
    <3>3. Successor(s, x) = s[2] BY <1>5, <1>9, <2>3
    <3>4. 2 \in 1 .. Len(s) BY <2>3, <1>3
    <3>5. s[2] \in Range(s) BY <3>4, InRange
    <3>6. QED BY <1>1, <1>7, <2>1, <3>1, <3>2, <3>3, <3>5 DEF r
  <2>4. \A k \in Nat : k >= 1 => k = 1 \/ k > 1 OBVIOUS
  <2>5. QED BY <2>2, <2>3, <2>4, <1>3, Zenon
<1>10. QED BY <1>8, <1>9

\* The thread behind another one is in the list.
LEMMA SuccessorInList ==
  ASSUME NEW T, NEW s \in Seq(T), NEW x, NoDuplicates(s), Successor(s, x) # NULL
  PROVE  x \in Range(s) /\ Successor(s, x) \in Range(s) \ {x}
<1>1. x \in Range(s) BY SuccessorProps
<1>2. PICK i \in 1 .. Len(s) : s[i] = x BY <1>1, InRange
<1>3. Successor(s, x) = IF i < Len(s) THEN s[i + 1] ELSE NULL BY <1>2, SuccessorProps
<1>4. Len(s) \in Nat BY LenProperties
<1>5. i < Len(s) /\ Successor(s, x) = s[i + 1] BY <1>3
<1>6. i + 1 \in 1 .. Len(s) /\ i + 1 # i BY <1>4, <1>5
<1>7. s[i + 1] # x BY <1>2, <1>6, LenProperties DEF NoDuplicates
<1>8. QED BY <1>1, <1>5, <1>6, <1>7, InRange
-----------------------------------------------------------------------------
(***************************************************************************)
(* Lists and event counts together.                                        *)
(***************************************************************************)

\* A thread without events leaves a list: no count changes.
LEMMA RemovedProps ==
  ASSUME NEW T, SIGNALED \notin Seq(T),
         NEW l \in Seq(T), NoDuplicates(l),
         NEW x \in T, NEW e \in [T -> Nat], e[x] = 0
  PROVE  /\ Removed(l, x) \in Seq(T)
         /\ NoDuplicates(Removed(l, x))
         /\ Range(Removed(l, x)) = Range(l) \ {x}
         /\ RemovedEc(l, x, e) = e
<1>1. Removed(l, x) = RemoveFirst(l, x) BY DEF Removed
<1>2. PassOn(e, x, Successor(l, x)) = e
  <2>1. PassOn(e, x, Successor(l, x)) =
          [u \in T |-> IF u = x THEN 0
                       ELSE IF u = Successor(l, x) /\ e[x] > 0 THEN e[x] ELSE e[u]]
    BY DEF PassOn
  <2>2. QED BY <2>1
<1>3. RemovedEc(l, x, e) = e BY <1>2 DEF RemovedEc
<1>4. QED BY <1>1, <1>3, RemoveFirstProps

\* x has joined l, and no count has changed but its own.
Joined(T, l, x, prio, e) ==
  /\ Added(l, x, prio) \in Seq(T)
  /\ NoDuplicates(Added(l, x, prio))
  /\ Range(Added(l, x, prio)) = Range(l) \cup {x}
  /\ AddedEc(l, x, prio, e) = [e EXCEPT ![x] = 0]

\* A thread joins a list of threads without events: no count changes but its
\* own.
LEMMA AddedProps ==
  ASSUME NEW T, SIGNALED \notin Seq(T), NULL \notin T,
         NEW l \in Seq(T), NoDuplicates(l),
         NEW x \in T, x \notin Range(l),
         NEW prio \in [T -> Nat], NEW e \in [T -> Nat],
         \A u \in Range(l) : e[u] = 0
  PROVE  Joined(T, l, x, prio, e)
<1> DEFINE n == PrioInsert(l, x, prio)
           next == Successor(n, x)
<1>1. Added(l, x, prio) = n /\ AddedEc(l, x, prio, e) = TakeOver(e, x, next)
  BY DEF Added, AddedEc
<1>2. n \in Seq(T) BY PrioInsertProps
<1>3. Range(n) = Range(l) \cup {x} BY PrioInsertRange
<1>4. NoDuplicates(n) BY PrioInsertOnce
<1> HIDE DEF n
<1>5. next # NULL => next \in Range(n) \ {x} BY <1>2, <1>4, SuccessorInList
<1>6. next # NULL => next # x /\ next \in T /\ e[next] = 0
  BY <1>3, <1>5, RangeOfSeq
<1> HIDE DEF next
<1>7. TakeOver(e, x, next) = [e EXCEPT ![x] = 0]
  <2>1. TakeOver(e, x, next) =
          [u \in T |-> IF u = x THEN IF next = NULL THEN 0 ELSE e[next]
                       ELSE IF u = next THEN 0 ELSE e[u]]
    BY DEF TakeOver
  <2>2. ASSUME NEW u \in T
        PROVE  TakeOver(e, x, next)[u] = [e EXCEPT ![x] = 0][u]
    <3>1. CASE u = x BY <3>1, <2>1, <1>6
    <3>2. CASE u # x /\ u = next BY <3>2, <2>1, <1>6
    <3>3. CASE u # x /\ u # next BY <3>3, <2>1
    <3>4. QED BY <3>1, <3>2, <3>3
  <2>3. TakeOver(e, x, next) \in [T -> {e[u] : u \in T} \cup {0}]
    BY <2>1, <1>6
  <2>4. QED BY <2>2, <2>3
<1>8. QED BY <1>1, <1>2, <1>3, <1>4, <1>7 DEF n, Joined

\* A thread joins an event queue: all events stay with the first thread.
LEMMA WaiterAdded ==
  ASSUME NEW T, NULL \notin T,
         NEW l \in Seq(T), NoDuplicates(l),
         NEW x \in T, x \notin Range(l),
         NEW prio \in [T -> Nat], NEW m \in Nat, NEW e \in [T -> 0 .. m],
         \A u \in Range(l) : e[u] > 0 => u = Head(l)
  PROVE  LET n  == PrioInsert(l, x, prio)
             e2 == TakeOver(e, x, Successor(n, x))
         IN  /\ e2 \in [T -> 0 .. m]
             /\ \A u \in T : e2[u] > 0 =>
                  \/ u \in Range(n) /\ u = Head(n)
                  \/ u \notin Range(n) /\ e[u] > 0
<1> DEFINE n == PrioInsert(l, x, prio)
           next == Successor(n, x)
           p == PrioPlace(l, x, prio)
<1>1. /\ n \in Seq(T)
      /\ Len(n) = Len(l) + 1
      /\ p \in 1 .. Len(l) + 1
      /\ \A j \in 1 .. Len(l) + 1 :
           n[j] = IF j < p THEN l[j] ELSE IF j = p THEN x ELSE l[j - 1]
      /\ Len(l) \in Nat
  BY PrioInsertProps, Zenon
<1>2. Range(n) = Range(l) \cup {x} BY PrioInsertRange
<1>3. NoDuplicates(n) BY PrioInsertOnce
<1>4. n # <<>> /\ Head(n) = IF p = 1 THEN x ELSE Head(l) BY PrioInsertHead
<1> HIDE DEF n, p
<1>5. next # NULL => next \in Range(n) \ {x}
  BY <1>1, <1>3, SuccessorInList
<1>6. next # NULL => next # x /\ next \in T /\ next \in Range(l)
  BY <1>2, <1>5, RangeOfSeq
<1>7. next # NULL /\ p # 1 => next # Head(l)
  <2> SUFFICES ASSUME next # NULL, p # 1 PROVE next # Head(l)
    OBVIOUS
  <2>1. Head(l) = l[1] /\ Len(l) >= 1 BY <1>6, MemberIsNotEmpty, HeadInRange
  <2>2. n[p] = x BY <1>1
  <2>3. p \in 1 .. Len(n) BY <1>1
  <2>4. next = IF p < Len(n) THEN n[p + 1] ELSE NULL
    BY <1>1, <1>3, <2>2, <2>3, SuccessorProps
  <2>5. p < Len(n) /\ next = n[p + 1] BY <2>4
  <2>6. p + 1 \in 1 .. Len(l) + 1 /\ ~ (p + 1 < p) /\ p + 1 # p /\ (p + 1) - 1 = p
    BY <2>5, <1>1
  <2>7. n[p + 1] = l[p] BY <1>1, <2>6
  <2>8. p \in 1 .. Len(l) /\ 1 \in 1 .. Len(l) BY <2>6, <1>1
  <2>9. \A k, j \in 1 .. Len(l) : l[k] = l[j] => k = j
    BY LenProperties DEF NoDuplicates
  <2>10. QED BY <2>1, <2>5, <2>7, <2>8, <2>9
<1> HIDE DEF next
<1> DEFINE e2 == TakeOver(e, x, next)
<1>8. e2 = [u \in T |-> IF u = x THEN IF next = NULL THEN 0 ELSE e[next]
                        ELSE IF u = next THEN 0 ELSE e[u]]
  BY DEF TakeOver
<1> HIDE DEF e2
<1>9. e2 \in [T -> 0 .. m]
  <2>1. ASSUME NEW u \in T PROVE e2[u] \in 0 .. m
    <3>1. CASE u = x BY <3>1, <1>6, <1>8
    <3>2. CASE u # x /\ u = next BY <3>2, <1>8
    <3>3. CASE u # x /\ u # next BY <3>3, <1>8
    <3>4. QED BY <3>1, <3>2, <3>3
  <2>2. QED BY <2>1, <1>8
<1>10. ASSUME NEW u \in T, e2[u] > 0
       PROVE  \/ u \in Range(n) /\ u = Head(n)
              \/ u \notin Range(n) /\ e[u] > 0
  <2>1. CASE u = x
    <3>1. next # NULL /\ e[next] > 0 BY <2>1, <1>8, <1>10
    <3>2. next = Head(l) BY <3>1, <1>6
    <3>3. p = 1 BY <3>1, <3>2, <1>7
    <3>4. QED BY <2>1, <3>3, <1>2, <1>4
  <2>2. CASE u # x
    <3>1. u # next /\ e[u] > 0 BY <2>2, <1>8, <1>10
    <3>2. CASE u \in Range(l)
      <4>1. u = Head(l) BY <3>1, <3>2
      <4>2. p # 1
        <5>1. SUFFICES ASSUME p = 1 PROVE FALSE
          OBVIOUS
        <5>2. 1 \in 1 .. Len(n) /\ n[1] = x BY <5>1, <1>1
        <5>3. next = IF 1 < Len(n) THEN n[1 + 1] ELSE NULL
          BY <1>1, <1>3, <5>2, SuccessorProps DEF next
        <5>4. Head(l) = l[1] /\ Len(l) >= 1 BY <3>2, MemberIsNotEmpty, HeadInRange
        <5>5. 2 \in 1 .. Len(l) + 1 /\ ~ (2 < p) /\ 2 # p /\ 2 - 1 = 1
          BY <5>1, <5>4, <1>1
        <5>6. n[2] = l[1] BY <1>1, <5>5
        <5>7. 1 < Len(n) BY <5>4, <1>1
        <5>8. QED BY <3>1, <4>1, <5>3, <5>4, <5>6, <5>7
      <4>3. QED BY <3>2, <4>1, <4>2, <1>2, <1>4
    <3>3. CASE u \notin Range(l) BY <2>2, <3>1, <3>3, <1>2
    <3>4. QED BY <3>2, <3>3
  <2>3. QED BY <2>1, <2>2
<1>11. QED BY <1>9, <1>10 DEF e2, next, n

\* A thread leaves an event queue: its events pass to the first thread left,
\* or the queue keeps one of them as a stored event.
LEMMA WaiterReleased ==
  ASSUME NEW T, NULL \notin T, SIGNALED \notin Seq(T),
         NEW l \in Seq(T), NoDuplicates(l), NEW x \in Range(l),
         NEW m \in Nat, NEW e \in [T -> 0 .. m],
         \A u \in Range(l) : e[u] > 0 => u = Head(l)
  PROVE  LET r  == Released(l, x, e)
             e2 == PassOn(e, x, Successor(l, x))
         IN  /\ r = SIGNALED => Range(l) = {x}
             /\ r # SIGNALED => /\ r \in Seq(T) /\ NoDuplicates(r)
                                /\ Range(r) = Range(l) \ {x}
             /\ e2 \in [T -> 0 .. m] /\ e2[x] = 0
             /\ \A u \in T : e2[u] > 0 =>
                  \/ r # SIGNALED /\ u \in Range(r) /\ u = Head(r)
                  \/ u \notin Range(l) /\ e[u] > 0
<1> DEFINE f == RemoveFirst(l, x)
           r == Released(l, x, e)
           next == Successor(l, x)
           e2 == PassOn(e, x, next)
<1>1. f \in Seq(T) /\ NoDuplicates(f) /\ Range(f) = Range(l) \ {x}
  BY RemoveFirstProps
<1>2. /\ x # Head(l) => f # <<>> /\ Head(f) = Head(l)
      /\ x = Head(l) /\ next = NULL => Range(l) = {x} \/ NULL \in Range(l)
      /\ x = Head(l) /\ f = <<>> => next = NULL
      /\ x = Head(l) /\ f # <<>> => next = Head(f)
  BY RemoveFirstHead
<1>3. x \in T /\ Range(l) \subseteq T BY RangeOfSeq
<1>4. next # NULL => next \in Range(l) \ {x} BY SuccessorInList
<1>5. r = IF e[x] > 0 /\ next = NULL THEN SIGNALED ELSE f
  BY DEF Released
<1>6. f # SIGNALED BY <1>1
<1>7. e2 = [u \in T |-> IF u = x THEN 0
                        ELSE IF u = next /\ e[x] > 0 THEN e[x] ELSE e[u]]
  BY DEF PassOn
<1> HIDE DEF f, r, next, e2
<1>8. r = SIGNALED => Range(l) = {x}
  BY <1>2, <1>3, <1>5, <1>6
<1>9. r # SIGNALED => r = f
  BY <1>5
<1>10. e2 \in [T -> 0 .. m] /\ e2[x] = 0
  <2>1. ASSUME NEW u \in T PROVE e2[u] \in 0 .. m
    <3>1. CASE u = x BY <3>1, <1>7
    <3>2. CASE u # x /\ u = next /\ e[x] > 0 BY <3>2, <1>3, <1>7
    <3>3. CASE u # x /\ ~ (u = next /\ e[x] > 0) BY <3>3, <1>7
    <3>4. QED BY <3>1, <3>2, <3>3
  <2>2. QED BY <2>1, <1>3, <1>7
<1>11. ASSUME NEW u \in T, e2[u] > 0
       PROVE  \/ r # SIGNALED /\ u \in Range(r) /\ u = Head(r)
              \/ u \notin Range(l) /\ e[u] > 0
  <2>1. u # x BY <1>10, <1>11
  <2>2. CASE u = next /\ e[x] > 0
    <3>1. x = Head(l) BY <2>2
    <3>2. next # NULL BY <2>2, <1>3
    <3>3. u \in Range(l) \ {x} BY <2>2, <3>2, <1>4
    <3>4. f # <<>> /\ u = Head(f) BY <2>2, <3>1, <3>2, <1>2
    <3>5. r = f BY <3>2, <1>5
    <3>6. QED BY <3>3, <3>4, <3>5, <1>1, <1>6
  <2>3. CASE ~ (u = next /\ e[x] > 0)
    <3>1. e[u] > 0 BY <2>1, <2>3, <1>7, <1>11
    <3>2. CASE u \in Range(l)
      <4>1. u = Head(l) BY <3>1, <3>2
      <4>2. x # Head(l) /\ e[x] = 0 BY <2>1, <4>1, <1>3
      <4>3. r = f /\ u = Head(f) BY <4>1, <4>2, <1>2, <1>5
      <4>4. QED BY <2>1, <3>2, <4>3, <1>1, <1>6
    <3>3. CASE u \notin Range(l) BY <3>1, <3>3
    <3>4. QED BY <3>2, <3>3
  <2>4. QED BY <2>2, <2>3
<1>12. QED BY <1>1, <1>8, <1>9, <1>10, <1>11 DEF e2, next, r
=============================================================================
