------------------------------ MODULE ListProofs ------------------------------
(***************************************************************************)
(* The linked lists of Devices implement ListSpec, for any finite sets of  *)
(* nodes: the epl list, the list of exclusive ors, the registry of devices *)
(* and the list of lib/list.c, as long as it deletes only its first node.  *)
(* With them and DriverProofs, every part of Devices has its types.        *)
(*                                                                         *)
(* Each list has an invariant that says how the pointers link the nodes of *)
(* its walk (Chain).  That the walk follows such pointers to their end,    *)
(* and visits these nodes and no others, is proved by induction (WalkIs);  *)
(* then an operation is a change of a sequence.                            *)
(***************************************************************************)
EXTENDS DriverProofs

-----------------------------------------------------------------------------
\* A sequence without repetition.
EachOnce(s) == \A i, j \in 1 .. Len(s) : s[i] = s[j] => i = j

\* A sequence without repetition is not longer than its set is large.
LEMMA OnceFits ==
  ASSUME NEW S, IsFiniteSet(S), NEW s \in Seq(S), EachOnce(s)
  PROVE  Len(s) <= Cardinality(S) /\ Cardinality(S) \in Nat
<1> DEFINE R == {s[i] : i \in 1 .. Len(s)}
<1>1. Len(s) \in Nat /\ s \in [1 .. Len(s) -> S]
  BY LenProperties
<1>2. s \in [1 .. Len(s) -> R] /\ R \in SUBSET S
  BY <1>1
<1>3. s \in Bijection(1 .. Len(s), R)
  BY <1>1, <1>2 DEF Bijection, Injection, Surjection, IsInjective, EachOnce
<1>4. IsFiniteSet(1 .. Len(s)) /\ Cardinality(1 .. Len(s)) = Len(s)
  <2>1. /\ IsFiniteSet(1 .. Len(s))
        /\ Cardinality(1 .. Len(s)) = IF 1 > Len(s) THEN 0 ELSE Len(s) - 1 + 1
    BY <1>1, FS_Interval
  <2>2. (IF 1 > Len(s) THEN 0 ELSE Len(s) - 1 + 1) = Len(s)
    BY <1>1
  <2> QED
    BY <2>1, <2>2
<1>5. Cardinality(R) = Len(s)
  BY <1>3, <1>4, FS_Bijection DEF ExistsBijection
<1>6. Cardinality(R) <= Cardinality(S)
  BY <1>2, FS_Subset
<1> QED
  BY <1>5, <1>6, FS_CardinalityType

(***************************************************************************)
(* The pointers links link the nodes of s in their order, from first on.   *)
(***************************************************************************)
Chain(first, links, s) ==
  /\ s \in Seq(DOMAIN links) /\ EachOnce(s)
  /\ Len(s) = 0 => first \notin DOMAIN links
  /\ Len(s) > 0 => first = s[1] /\ links[s[Len(s)]] \notin DOMAIN links
  /\ \A i \in 1 .. Len(s) - 1 : links[s[i]] = s[i + 1]

\* The places of a walk, as WalkFrom computes them.
Places(first, links, f) ==
  f = [k \in 0 .. Cardinality(DOMAIN links) |->
         IF k = 0 THEN first
         ELSE IF f[k - 1] \in DOMAIN links THEN links[f[k - 1]] ELSE f[k - 1]]

Chosen(first, links, f) == f = CHOOSE g : Places(first, links, g)

\* The walk w goes along the places f.
Along(links, f, w) ==
  w = [i \in {k \in 1 .. Cardinality(DOMAIN links) : f[k - 1] \in DOMAIN links} |-> f[i - 1]]

LEMMA WalkIsAlong ==
  ASSUME NEW first, NEW links
  PROVE  \E f : Chosen(first, links, f) /\ Along(links, f, WalkFrom(first, links))
<1> DEFINE f == CHOOSE g : Places(first, links, g)
<1>1. Along(links, f, WalkFrom(first, links))
  BY Zenon DEF WalkFrom, Places, Along
<1> QED
  BY <1>1 DEF Chosen

\* A walk along a chain visits its nodes.
LEMMA WalkIs ==
  ASSUME NEW first, NEW links, IsFiniteSet(DOMAIN links), NEW s, Chain(first, links, s)
  PROVE  WalkFrom(first, links) = s
<1> DEFINE N == Cardinality(DOMAIN links)
           end == IF Len(s) = 0 THEN first ELSE links[s[Len(s)]]
           h == [k \in 0 .. N |-> IF k < Len(s) THEN s[k + 1] ELSE end]
<1>1. /\ Len(s) \in Nat /\ N \in Nat /\ Len(s) <= N
      /\ \A i \in 1 .. Len(s) : s[i] \in DOMAIN links
      /\ DOMAIN s = 1 .. Len(s) /\ s = [i \in 1 .. Len(s) |-> s[i]]
  BY OnceFits, LenProperties DEF Chain
<1> HIDE DEF N
<1>2. end \notin DOMAIN links
  BY <1>1 DEF Chain
<1>3. /\ Len(s) > 0 => first = s[1]
      /\ Len(s) = 0 => first = end
      /\ Len(s) > 0 => links[s[Len(s)]] = end
      /\ \A i \in 1 .. Len(s) - 1 : links[s[i]] = s[i + 1]
  BY <1>1 DEF Chain
<1> HIDE DEF end
<1>4. h[0] = first
  BY <1>1, <1>3
<1>5. ASSUME NEW k \in 1 .. N
      PROVE  h[k] = IF h[k - 1] \in DOMAIN links THEN links[h[k - 1]] ELSE h[k - 1]
  <2>1. CASE k < Len(s)
    <3>1. h[k] = s[k + 1] /\ h[k - 1] = s[k] /\ k \in 1 .. Len(s) /\ k \in 1 .. Len(s) - 1
      BY <1>1, <2>1
    <3> QED
      BY <1>1, <1>3, <3>1
  <2>2. CASE k = Len(s)
    <3>1. h[k] = end /\ h[k - 1] = s[k] /\ k \in 1 .. Len(s)
      BY <1>1, <2>2
    <3> QED
      BY <1>1, <1>3, <2>2, <3>1
  <2>3. CASE k > Len(s)
    <3>1. h[k] = end /\ h[k - 1] = end
      BY <1>1, <2>3
    <3> QED
      BY <1>2, <3>1
  <2> QED
    BY <1>1, <2>1, <2>2, <2>3
<1> HIDE DEF h
<1>6. Places(first, links, h)
  <2>1. h = [k \in 0 .. N |-> h[k]]
    BY DEF h
  <2>2. \A k \in 0 .. N : k = 0 \/ k \in 1 .. N
    BY <1>1
  <2>3. \A k \in 0 .. N :
           h[k] = IF k = 0 THEN first
                  ELSE IF h[k - 1] \in DOMAIN links THEN links[h[k - 1]] ELSE h[k - 1]
    BY <1>4, <1>5, <2>2
  <2> QED
    BY <2>1, <2>3 DEF Places, N
<1>7. PICK f : Chosen(first, links, f) /\ Along(links, f, WalkFrom(first, links))
  BY WalkIsAlong
<1>8. Places(first, links, f)
  BY <1>6, <1>7 DEF Chosen
<1>9. \A k \in 0 .. N : f[k] = h[k]
  <2> DEFINE K == {k \in Nat : k \in 0 .. N => f[k] = h[k]}
  <2>1. /\ f[0] = first
        /\ \A k \in 1 .. N : f[k] = IF f[k - 1] \in DOMAIN links THEN links[f[k - 1]] ELSE f[k - 1]
    BY <1>1, <1>8 DEF Places, N
  <2>2. 0 \in K
    BY <1>4, <2>1
  <2>3. ASSUME NEW k \in K PROVE k + 1 \in K
    <3>1. k \in Nat /\ (k + 1) - 1 = k
      OBVIOUS
    <3>2. ASSUME k + 1 \in 0 .. N PROVE f[k + 1] = h[k + 1]
      <4>1. k + 1 \in 1 .. N /\ k \in 0 .. N
        BY <1>1, <3>1, <3>2
      <4>2. f[k] = h[k]
        BY <4>1
      <4> QED
        BY <1>5, <2>1, <3>1, <4>1, <4>2
    <3> QED
      BY <3>1, <3>2
  <2>4. K = Nat
    <3> HIDE DEF K
    <3>1. K \in SUBSET Nat
      BY DEF K
    <3> QED
      BY <2>2, <2>3, <3>1, Lists!AllNaturals
  <2> QED
    BY <1>1, <2>4
<1>10. \A k \in 1 .. N : f[k - 1] \in DOMAIN links <=> k <= Len(s)
  <2> SUFFICES ASSUME NEW k \in 1 .. N PROVE f[k - 1] \in DOMAIN links <=> k <= Len(s)
    OBVIOUS
  <2>1. k - 1 \in 0 .. N /\ f[k - 1] = h[k - 1]
    BY <1>1, <1>9
  <2>2. CASE k <= Len(s)
    <3>1. k \in 1 .. Len(s) /\ h[k - 1] = s[k]
      BY <1>1, <2>1, <2>2 DEF h
    <3> QED
      BY <1>1, <2>1, <2>2, <3>1
  <2>3. CASE k > Len(s)
    <3>1. h[k - 1] = end
      BY <1>1, <2>1, <2>3 DEF h
    <3> QED
      BY <1>1, <1>2, <2>1, <2>3, <3>1
  <2> QED
    BY <1>1, <2>2, <2>3
<1>11. {k \in 1 .. Cardinality(DOMAIN links) : f[k - 1] \in DOMAIN links} = 1 .. Len(s)
  BY <1>1, <1>10 DEF N
<1>12. \A i \in 1 .. Len(s) : f[i - 1] = s[i]
  <2> SUFFICES ASSUME NEW i \in 1 .. Len(s) PROVE f[i - 1] = s[i]
    OBVIOUS
  <2>1. i - 1 \in 0 .. N /\ i - 1 < Len(s) /\ (i - 1) + 1 = i
    BY <1>1
  <2>2. h[i - 1] = s[i]
    BY <2>1 DEF h
  <2> QED
    BY <1>9, <2>1, <2>2
<1>13. [i \in 1 .. Len(s) |-> f[i - 1]] = s
  BY <1>1, <1>12
<1> QED
  BY <1>7, <1>11, <1>13 DEF Along
-----------------------------------------------------------------------------
(***************************************************************************)
(* Chains that change.  mended is what an operation leaves of links.       *)
(***************************************************************************)

\* Nodes that are not in s.
Outside(n, s) == \A i \in 1 .. Len(s) : s[i] # n

Mended(links, mended) == DOMAIN mended = DOMAIN links

LEMMA ChainFacts ==
  ASSUME NEW first, NEW links, NEW s, Chain(first, links, s)
  PROVE  /\ Len(s) \in Nat /\ s \in Seq(DOMAIN links)
         /\ \A i \in 1 .. Len(s) : s[i] \in DOMAIN links
         /\ Len(s) > 0 => first \in DOMAIN links
         /\ Len(s) = 0 <=> s = <<>>
BY LenProperties, EmptySeq DEF Chain

LEMMA ChainOne ==
  ASSUME NEW links, NEW n \in DOMAIN links, links[n] \notin DOMAIN links
  PROVE  Chain(n, links, <<n>>)
<1>1. <<n>> \in Seq(DOMAIN links) /\ Len(<<n>>) = 1 /\ <<n>>[1] = n
  OBVIOUS
<1> QED
  BY <1>1 DEF Chain, EachOnce

\* The sequence l is n in front of s.
InFront(l, n, s) ==
  /\ Len(l) = Len(s) + 1 /\ l[1] = n
  /\ \A i \in 2 .. Len(s) + 1 : l[i] = s[i - 1]

LEMMA Fronted ==
  ASSUME NEW S, NEW s \in Seq(S), NEW n \in S
  PROVE  <<n>> \o s \in Seq(S) /\ InFront(<<n>> \o s, n, s)
<1>1. <<n>> \in Seq(S) /\ Len(<<n>>) = 1 /\ <<n>>[1] = n
  OBVIOUS
<1>2. Len(s) \in Nat
  BY LenProperties
<1>3. /\ <<n>> \o s \in Seq(S)
      /\ Len(<<n>> \o s) = 1 + Len(s)
      /\ \A i \in 1 .. 1 + Len(s) : (<<n>> \o s)[i] = IF i <= 1 THEN <<n>>[i] ELSE s[i - 1]
  BY <1>1, ConcatProperties
<1> QED
  BY <1>1, <1>2, <1>3 DEF InFront

\* A node off the chain is linked in front of it.
LEMMA ChainFirst ==
  ASSUME NEW first, NEW links, NEW s, Chain(first, links, s),
         NEW mended, Mended(links, mended), NEW n \in DOMAIN links, Outside(n, s),
         mended[n] = first, \A i \in 1 .. Len(s) : mended[s[i]] = links[s[i]]
  PROVE  Chain(n, mended, <<n>> \o s)
<1> DEFINE l == <<n>> \o s
<1>1. Len(s) \in Nat /\ s \in Seq(DOMAIN links)
  BY ChainFacts
<1>2. l \in Seq(DOMAIN links) /\ InFront(l, n, s)
  BY <1>1, Fronted
<1> HIDE DEF l
<1>3. /\ Len(l) = Len(s) + 1 /\ l[1] = n
      /\ \A i \in 2 .. Len(s) + 1 : l[i] = s[i - 1] /\ i - 1 \in 1 .. Len(s)
  BY <1>1, <1>2 DEF InFront
<1>4. EachOnce(l)
  BY <1>1, <1>3 DEF EachOnce, Chain, Outside
<1>5. mended[l[Len(l)]] \notin DOMAIN mended
  <2>1. CASE Len(s) = 0
    BY <1>3, <2>1 DEF Chain, Mended
  <2>2. CASE Len(s) > 0
    <3>1. Len(s) \in 1 .. Len(s) /\ l[Len(l)] = s[Len(s)]
      BY <1>1, <1>3, <2>2
    <3> QED
      BY <2>2, <3>1 DEF Chain, Mended
  <2> QED
    BY <1>1, <2>1, <2>2
<1>6. ASSUME NEW i \in 1 .. Len(l) - 1 PROVE mended[l[i]] = l[i + 1]
  <2>1. CASE i = 1
    <3>1. Len(s) > 0 /\ l[2] = s[1]
      BY <1>1, <1>3, <2>1
    <3> QED
      BY <1>3, <2>1, <3>1 DEF Chain
  <2>2. CASE i > 1
    <3>1. l[i] = s[i - 1] /\ l[i + 1] = s[i] /\ i - 1 \in 1 .. Len(s) - 1 /\ (i - 1) + 1 = i
          /\ i - 1 \in 1 .. Len(s)
      BY <1>1, <1>3, <2>2
    <3> QED
      BY <3>1 DEF Chain
  <2> QED
    BY <1>1, <1>3, <2>1, <2>2
<1>7. Chain(n, mended, l)
  BY <1>1, <1>2, <1>3, <1>4, <1>5, <1>6 DEF Chain, Mended
<1> QED
  BY <1>7 DEF l

\* A node off the chain is linked behind its last.
LEMMA ChainLast ==
  ASSUME NEW first, NEW links, NEW s, Chain(first, links, s), Len(s) > 0,
         NEW mended, Mended(links, mended), NEW n \in DOMAIN links, Outside(n, s),
         mended[s[Len(s)]] = n, mended[n] \notin DOMAIN links,
         \A i \in 1 .. Len(s) - 1 : mended[s[i]] = links[s[i]]
  PROVE  Chain(first, mended, Append(s, n))
<1> DEFINE l == Append(s, n)
<1>1. Len(s) \in Nat /\ s \in Seq(DOMAIN links)
  BY ChainFacts
<1>2. /\ l \in Seq(DOMAIN links) /\ Len(l) = Len(s) + 1 /\ l[Len(s) + 1] = n
      /\ \A i \in 1 .. Len(s) : l[i] = s[i]
  BY <1>1
<1> HIDE DEF l
<1>3. EachOnce(l)
  BY <1>1, <1>2 DEF EachOnce, Chain, Outside
<1>4. first = l[1]
  BY <1>1, <1>2 DEF Chain
<1>5. ASSUME NEW i \in 1 .. Len(l) - 1 PROVE mended[l[i]] = l[i + 1]
  <2>1. CASE i = Len(s)
    <3>1. l[i] = s[Len(s)] /\ l[i + 1] = n
      BY <1>1, <1>2, <2>1
    <3> QED
      BY <3>1
  <2>2. CASE i < Len(s)
    <3>1. l[i] = s[i] /\ l[i + 1] = s[i + 1] /\ i \in 1 .. Len(s) - 1
      BY <1>1, <1>2, <2>2
    <3> QED
      BY <3>1 DEF Chain
  <2> QED
    BY <1>1, <1>2, <2>1, <2>2
<1>6. Chain(first, mended, l)
  BY <1>1, <1>2, <1>3, <1>4, <1>5 DEF Chain, Mended
<1> QED
  BY <1>6 DEF l

\* Pointers of nodes off the chain play no part.
LEMMA ChainStays ==
  ASSUME NEW first, NEW links, NEW s, Chain(first, links, s),
         NEW mended, Mended(links, mended), \A i \in 1 .. Len(s) : mended[s[i]] = links[s[i]]
  PROVE  Chain(first, mended, s)
<1>1. Len(s) \in Nat
  BY ChainFacts
<1>2. Len(s) > 0 => Len(s) \in 1 .. Len(s)
  BY <1>1
<1>3. \A i \in 1 .. Len(s) - 1 : i \in 1 .. Len(s)
  BY <1>1
<1> QED
  BY <1>1, <1>2, <1>3 DEF Chain, Mended

\* The sequence l is s without its place p, as ListSpec says it.
Without(s, p) == SubSeq(s, 1, p - 1) \o SubSeq(s, p + 1, Len(s))

LEMMA WithoutProps ==
  ASSUME NEW S, NEW s \in Seq(S), NEW p \in 1 .. Len(s)
  PROVE  /\ Without(s, p) \in Seq(S) /\ Len(Without(s, p)) = Len(s) - 1
         /\ \A i \in 1 .. p - 1 : Without(s, p)[i] = s[i]
         /\ \A i \in p .. Len(s) - 1 : Without(s, p)[i] = s[i + 1]
<1> DEFINE a == SubSeq(s, 1, p - 1)
           b == SubSeq(s, p + 1, Len(s))
<1>1. Len(s) \in Nat /\ \A i \in 1 .. Len(s) : s[i] \in S
  BY LenProperties
<1>2. a \in Seq(S) /\ Len(a) = p - 1 /\ \A i \in 1 .. p - 1 : a[i] = s[i]
  <2>1. 1 \in Int /\ p - 1 \in Int /\ \A i \in 1 .. p - 1 : s[i] \in S
    BY <1>1
  <2>2. /\ a \in Seq(S) /\ Len(a) = IF 1 <= p - 1 THEN p - 1 - 1 + 1 ELSE 0
        /\ \A i \in 1 .. p - 1 - 1 + 1 : a[i] = s[1 + i - 1]
    BY <2>1, SubSeqProperties
  <2> QED
    BY <1>1, <2>2
<1>3. b \in Seq(S) /\ Len(b) = Len(s) - p /\ \A i \in 1 .. Len(s) - p : b[i] = s[p + i]
  <2>1. p + 1 \in Int /\ Len(s) \in Int /\ \A i \in p + 1 .. Len(s) : s[i] \in S
    BY <1>1
  <2>2. /\ b \in Seq(S) /\ Len(b) = IF p + 1 <= Len(s) THEN Len(s) - (p + 1) + 1 ELSE 0
        /\ \A i \in 1 .. Len(s) - (p + 1) + 1 : b[i] = s[(p + 1) + i - 1]
    BY <2>1, SubSeqProperties
  <2> QED
    BY <1>1, <2>2
<1> HIDE DEF a, b
<1>4. /\ a \o b \in Seq(S) /\ Len(a \o b) = Len(a) + Len(b)
      /\ \A i \in 1 .. Len(a) + Len(b) : (a \o b)[i] = IF i <= Len(a) THEN a[i] ELSE b[i - Len(a)]
  BY <1>2, <1>3, ConcatProperties
<1> DEFINE l == a \o b
<1> HIDE DEF l
<1>5. /\ l \in Seq(S) /\ Len(l) = Len(s) - 1
      /\ \A i \in 1 .. Len(s) - 1 : l[i] = IF i <= p - 1 THEN a[i] ELSE b[i - (p - 1)]
  BY <1>1, <1>2, <1>3, <1>4 DEF l
<1>6. ASSUME NEW i \in 1 .. p - 1 PROVE l[i] = s[i]
  <2>1. i \in 1 .. Len(s) - 1 /\ i <= p - 1
    BY <1>1
  <2> QED
    BY <1>2, <1>5, <2>1
<1>7. ASSUME NEW i \in p .. Len(s) - 1 PROVE l[i] = s[i + 1]
  <2>1. i - (p - 1) \in 1 .. Len(s) - p /\ p + (i - (p - 1)) = i + 1 /\ ~(i <= p - 1) /\ i \in 1 .. Len(s) - 1
    BY <1>1
  <2> QED
    BY <1>3, <1>5, <2>1
<1> QED
  BY <1>5, <1>6, <1>7 DEF Without, l, a, b

LEMMA WithoutOnce ==
  ASSUME NEW S, NEW s \in Seq(S), EachOnce(s), NEW p \in 1 .. Len(s)
  PROVE  /\ EachOnce(Without(s, p))
         /\ \A i \in 1 .. Len(s) - 1 : \E j \in 1 .. Len(s) : j # p /\ Without(s, p)[i] = s[j]
<1> DEFINE l == Without(s, p)
<1>1. /\ Len(s) \in Nat /\ Len(l) = Len(s) - 1
      /\ \A i \in 1 .. p - 1 : l[i] = s[i]
      /\ \A i \in p .. Len(s) - 1 : l[i] = s[i + 1]
  BY WithoutProps, LenProperties
<1> HIDE DEF l
<1>2. ASSUME NEW i \in 1 .. Len(l)
      PROVE  \E j \in 1 .. Len(s) : j # p /\ l[i] = s[j] /\ j = IF i < p THEN i ELSE i + 1
  <2>1. CASE i < p
    BY <1>1, <2>1
  <2>2. CASE i >= p
    <3>1. i \in p .. Len(s) - 1 /\ i + 1 \in 1 .. Len(s) /\ i + 1 # p
      BY <1>1, <2>2
    <3> QED
      BY <1>1, <2>2, <3>1
  <2> QED
    BY <1>1, <2>1, <2>2
<1>3. EachOnce(l)
  <2> SUFFICES ASSUME NEW i \in 1 .. Len(l), NEW k \in 1 .. Len(l), l[i] = l[k] PROVE i = k
    BY DEF EachOnce
  <2>1. PICK j \in 1 .. Len(s) : l[i] = s[j] /\ j = IF i < p THEN i ELSE i + 1
    BY <1>2
  <2>2. PICK m \in 1 .. Len(s) : l[k] = s[m] /\ m = IF k < p THEN k ELSE k + 1
    BY <1>2
  <2>3. j = m
    BY <2>1, <2>2 DEF EachOnce
  <2> QED
    BY <1>1, <2>1, <2>2, <2>3
<1> QED
  BY <1>1, <1>2, <1>3 DEF l


\* The node at p is taken out of the chain.
LEMMA ChainWithout ==
  ASSUME NEW first, NEW links, NEW s, Chain(first, links, s), NEW p \in 1 .. Len(s),
         NEW mended, Mended(links, mended),
         p > 1 => mended[s[p - 1]] = links[s[p]],
         \A i \in 1 .. Len(s) : i # p /\ i # p - 1 => mended[s[i]] = links[s[i]]
  PROVE  /\ p = 1 => Chain(links[first], mended, Without(s, p))
         /\ p > 1 => Chain(first, mended, Without(s, p))
<1> DEFINE l == Without(s, p)
           start == IF p = 1 THEN links[first] ELSE first
<1>1. Len(s) \in Nat /\ s \in Seq(DOMAIN links)
  BY ChainFacts
<1>2. /\ l \in Seq(DOMAIN links) /\ Len(l) = Len(s) - 1
      /\ \A i \in 1 .. p - 1 : l[i] = s[i]
      /\ \A i \in p .. Len(s) - 1 : l[i] = s[i + 1]
  BY <1>1, WithoutProps
<1>3. EachOnce(l)
  BY <1>1, WithoutOnce DEF Chain
<1>4. /\ first = s[1] /\ links[s[Len(s)]] \notin DOMAIN links
      /\ \A i \in 1 .. Len(s) - 1 : links[s[i]] = s[i + 1]
  BY <1>1 DEF Chain
<1> HIDE DEF l
<1>5. ASSUME Len(l) = 0 PROVE start \notin DOMAIN links
  <2>1. Len(s) - 1 = 0
    BY <1>2, <1>5
  <2>2. \A m \in Nat : m - 1 = 0 => m = 1
    OBVIOUS
  <2>3. Len(s) = 1
    BY <1>1, <2>1, <2>2, Zenon
  <2>4. p = 1
    BY <2>3
  <2> QED
    BY <1>4, <2>3, <2>4
<1>6. ASSUME Len(l) > 0 PROVE start = l[1] /\ mended[l[Len(l)]] \notin DOMAIN links
  <2>1. Len(s) > 1 /\ Len(l) \in Nat
    BY <1>1, <1>2, <1>6
  <2>2. start = l[1]
    <3>1. CASE p = 1
      <4>1. l[1] = s[2] /\ 1 \in 1 .. Len(s) - 1 /\ links[s[1]] = s[2]
        BY <1>1, <1>2, <1>4, <2>1, <3>1
      <4> QED
        BY <1>4, <3>1, <4>1
    <3>2. CASE p > 1
      <4>1. l[1] = s[1]
        BY <1>2, <3>2
      <4> QED
        BY <1>4, <3>2, <4>1
    <3> QED
      BY <1>1, <3>1, <3>2
  <2>3. mended[l[Len(l)]] \notin DOMAIN links
    <3>1. CASE p = Len(s)
      <4>1. l[Len(l)] = s[p - 1] /\ p > 1
        BY <1>1, <1>2, <2>1, <3>1
      <4> QED
        BY <1>4, <3>1, <4>1
    <3>2. CASE p < Len(s)
      <4>1. l[Len(l)] = s[Len(s)] /\ Len(s) \in 1 .. Len(s) /\ Len(s) # p /\ Len(s) # p - 1
        BY <1>1, <1>2, <2>1, <3>2
      <4>2. mended[s[Len(s)]] = links[s[Len(s)]]
        BY <4>1
      <4> QED
        BY <1>4, <4>1, <4>2
    <3> QED
      BY <1>1, <3>1, <3>2
  <2> QED
    BY <2>2, <2>3
<1>7. ASSUME NEW i \in 1 .. Len(l) - 1 PROVE mended[l[i]] = l[i + 1]
  <2>1. CASE i < p - 1
    <3>1. l[i] = s[i] /\ l[i + 1] = s[i + 1] /\ i \in 1 .. Len(s) - 1 /\ i \in 1 .. Len(s)
          /\ i # p /\ i # p - 1
      BY <1>1, <1>2, <2>1
    <3> QED
      BY <1>4, <3>1
  <2>2. CASE i = p - 1
    <3>1. l[i] = s[p - 1] /\ l[i + 1] = s[p + 1] /\ p \in 1 .. Len(s) - 1 /\ p > 1
      BY <1>1, <1>2, <2>2
    <3> QED
      BY <1>4, <3>1
  <2>3. CASE i > p - 1
    <3>1. /\ i + 1 \in 1 .. Len(s) - 1 /\ i + 1 \in 1 .. Len(s) /\ i + 1 # p /\ i + 1 # p - 1
          /\ i \in p .. Len(s) - 1 /\ i + 1 \in p .. Len(s) - 1
      BY <1>1, <1>2, <2>3
    <3>2. l[i] = s[i + 1] /\ l[i + 1] = s[(i + 1) + 1]
      BY <1>2, <3>1
    <3>3. mended[s[i + 1]] = links[s[i + 1]]
      BY <3>1
    <3> QED
      BY <1>4, <3>1, <3>2, <3>3
  <2> QED
    BY <1>1, <1>2, <2>1, <2>2, <2>3
<1>8. Chain(start, mended, l)
  <2> HIDE DEF start
  <2> QED
    BY <1>2, <1>3, <1>5, <1>6, <1>7 DEF Chain, Mended
<1> QED
  BY <1>8 DEF l

\* The first node is taken out.
LEMMA ChainFirstOut ==
  ASSUME NEW first, NEW links, NEW s, Chain(first, links, s), Len(s) > 0,
         NEW mended, Mended(links, mended),
         \A i \in 1 .. Len(s) : i # 1 => mended[s[i]] = links[s[i]]
  PROVE  Chain(links[first], mended, Without(s, 1))
<1>1. Len(s) \in Nat
  BY ChainFacts
<1>2. PICK p \in 1 .. Len(s) : p = 1
  BY <1>1
<1>3. p > 1 => mended[s[p - 1]] = links[s[p]]
  BY <1>2
<1>4. \A i \in 1 .. Len(s) : i # p /\ i # p - 1 => mended[s[i]] = links[s[i]]
  BY <1>2
<1>5. Chain(links[first], mended, Without(s, p))
  BY <1>2, <1>3, <1>4, ChainWithout
<1> QED
  BY <1>2, <1>5
-----------------------------------------------------------------------------
(***************************************************************************)
(* An operation of ListSpec, or none, turns the list old of nodes of S     *)
(* into new.                                                               *)
(***************************************************************************)
Turned(S, old, new) ==
  \/ new = old
  \/ \E n \in S :
       /\ Outside(n, old)
       /\ \/ new = Append(old, n)
          \/ new = <<n>> \o old
          \/ \E i \in 1 .. Len(old) :
               new = SubSeq(old, 1, i) \o <<n>> \o SubSeq(old, i + 1, Len(old))
  \/ \E p \in 1 .. Len(old) : new = Without(old, p)
  \/ old # <<>> /\ new = <<old[1]>>

-----------------------------------------------------------------------------
(***************************************************************************)
(* lib/list.c.                                                             *)
(***************************************************************************)
LinkInv == ListTypeOK /\ Chain(listHead, listNext, ListWalk)

LEMMA LinkFacts ==
  ASSUME LinkInv
  PROVE  /\ Len(ListWalk) \in Nat /\ DOMAIN ListWalk = 1 .. Len(ListWalk)
         /\ ListWalk \in Seq(ListNode)
         /\ DOMAIN listNext = ListNode
         /\ \A i \in 1 .. Len(ListWalk) : ListWalk[i] \in ListNode /\ ListWalk[i] \in inUse
<1>1. DOMAIN listNext = ListNode /\ Chain(listHead, listNext, ListWalk)
  BY DEF LinkInv, ListTypeOK
<1>2. Len(ListWalk) \in Nat /\ ListWalk \in Seq(ListNode)
      /\ \A i \in 1 .. Len(ListWalk) : ListWalk[i] \in ListNode
  BY <1>1, ChainFacts
<1>3. DOMAIN ListWalk = 1 .. Len(ListWalk)
  BY <1>2, LenProperties
<1> QED
  BY <1>1, <1>2, <1>3 DEF LinkInv, ListTypeOK

\* What follows once the pointers of the next state link the nodes of s.
LEMMA LinkMoves ==
  ASSUME LinkInv, IsFiniteSet(ListNode), NEW s, Chain(listHead', listNext', s),
         Turned(ListNode, ListWalk, s),
         listHead' \in ListNode \cup {NoListNode},
         listNext' \in [ListNode -> ListNode \cup {NoListNode}],
         \A i \in 1 .. Len(s) : s[i] \in inUse'
  PROVE  LinkInv' /\ [LinkList!Next]_<<ListWalk, Len(ListWalk)>>
<1>1. ListWalk' = s
  <2>1. IsFiniteSet(DOMAIN listNext')
    OBVIOUS
  <2>2. WalkFrom(listHead', listNext') = s
    BY <2>1, WalkIs
  <2> QED
    BY <2>2 DEF ListWalk
<1>2. DOMAIN s = 1 .. Len(s)
  BY LenProperties DEF Chain
<1>3. LinkInv'
  <2>1. ListTypeOK'
    BY <1>1, <1>2 DEF ListTypeOK
  <2> QED
    BY <1>1, <2>1 DEF LinkInv
<1>4. DOMAIN ListWalk = 1 .. Len(ListWalk)
  BY LinkFacts
<1>5. ASSUME s # ListWalk PROVE LinkList!Next
  <2>1. ASSUME NEW n \in ListNode, Outside(n, ListWalk) PROVE n \notin LinkList!Members
    BY <1>4, <2>1 DEF LinkList!Members, Outside
  <2>2. LinkList!Is(s)
    BY <1>1 DEF LinkList!Is
  <2>3. CASE \E n \in ListNode :
               /\ Outside(n, ListWalk)
               /\ \/ s = Append(ListWalk, n)
                  \/ s = <<n>> \o ListWalk
                  \/ \E i \in 1 .. Len(ListWalk) :
                       s = SubSeq(ListWalk, 1, i) \o <<n>> \o SubSeq(ListWalk, i + 1, Len(ListWalk))
    BY <1>1, <1>4, <1>5, <2>1, <2>2, <2>3, Zenon
       DEF LinkList!Next, LinkList!Append_, LinkList!Prepend, LinkList!AddBehind
  <2>4. CASE \E p \in 1 .. Len(ListWalk) : s = Without(ListWalk, p)
    BY <1>1, <1>4, <1>5, <2>2, <2>4, Zenon DEF LinkList!Next, LinkList!Remove, Without
  <2>5. CASE ListWalk # <<>> /\ s = <<ListWalk[1]>>
    BY <1>1, <1>5, <2>2, <2>5, Zenon DEF LinkList!Next, LinkList!Cut
  <2> QED
    BY <1>5, <2>3, <2>4, <2>5 DEF Turned
<1>6. ASSUME s = ListWalk PROVE UNCHANGED <<ListWalk, Len(ListWalk)>>
  BY <1>1, <1>6
<1> QED
  BY <1>3, <1>5, <1>6


\* LinkLast links a node that is off the list behind its last.
LEMMA LinkLastMoves ==
  ASSUME LinkInv, IsFiniteSet(ListNode), NoListNode \notin ListNode,
         NEW n \in ListNode, Outside(n, ListWalk), LinkLast(n), inUse' = inUse \cup {n}
  PROVE  LinkInv' /\ [LinkList!Next]_<<ListWalk, Len(ListWalk)>>
<1> DEFINE s == Append(ListWalk, n)
<1>1. ListTypeOK /\ Chain(listHead, listNext, ListWalk)
  BY DEF LinkInv
<1>2. /\ s \in Seq(ListNode) /\ Len(s) = Len(ListWalk) + 1 /\ s[Len(ListWalk) + 1] = n
      /\ \A i \in 1 .. Len(ListWalk) : s[i] = ListWalk[i]
  BY LinkFacts
<1> HIDE DEF s
<1>3. \A i \in 1 .. Len(s) : s[i] \in inUse'
  <2> SUFFICES ASSUME NEW i \in 1 .. Len(s) PROVE s[i] \in inUse'
    OBVIOUS
  <2>1. i = Len(ListWalk) + 1 \/ i \in 1 .. Len(ListWalk)
    BY <1>2, LinkFacts
  <2> QED
    BY <1>2, <2>1, LinkFacts
<1>4. Turned(ListNode, ListWalk, s)
  BY DEF Turned, s
<1>5. CASE listHead = NoListNode
  <2>1. ListWalk = <<>> /\ DOMAIN listNext = ListNode
    BY <1>1, <1>5, LinkFacts, ChainFacts
  <2>2. s = <<n>>
    BY <2>1 DEF s
  <2>3. listHead' = n /\ listNext' = [listNext EXCEPT ![n] = NoListNode]
    BY <1>5 DEF LinkLast
  <2>4. Chain(listHead', listNext', s)
    <3>1. DOMAIN listNext' = ListNode /\ listNext'[n] = NoListNode
      BY <2>1, <2>3
    <3> QED
      BY <2>2, <2>3, <3>1, ChainOne
  <2> QED
    BY <1>1, <1>3, <1>4, <2>3, <2>4, LinkMoves DEF ListTypeOK
<1>6. CASE listHead # NoListNode
  <2> DEFINE m == Len(ListWalk)
  <2>1. listHead' = listHead
        /\ listNext' = [listNext EXCEPT ![ListWalk[m]] = n, ![n] = NoListNode]
    BY <1>6 DEF LinkLast
  <2>2. m > 0 /\ m \in 1 .. m /\ m \in Nat
    <3>1. listHead \in ListNode
      BY <1>1, <1>6 DEF ListTypeOK
    <3> QED
      BY <1>1, <3>1, LinkFacts DEF Chain
  <2>3. Chain(listHead', listNext', s)
    <3>1. Mended(listNext, listNext') /\ listNext'[n] = NoListNode
      BY <1>1, <2>1 DEF Mended, ListTypeOK
    <3>2. listNext'[ListWalk[m]] = n
      BY <1>1, <2>1, <2>2, LinkFacts DEF ListTypeOK, Outside
    <3>3. ASSUME NEW i \in 1 .. m - 1 PROVE listNext'[ListWalk[i]] = listNext[ListWalk[i]]
      <4>1. i \in 1 .. m /\ i # m
        BY <2>2
      <4>2. ListWalk[i] # n /\ ListWalk[i] \in ListNode
        BY <4>1, LinkFacts DEF Outside
      <4>3. EachOnce(ListWalk)
        BY <1>1 DEF Chain
      <4>4. ListWalk[i] # ListWalk[m]
        BY <2>2, <4>1, <4>3 DEF EachOnce
      <4> QED
        BY <1>1, <2>1, <4>2, <4>4 DEF ListTypeOK
    <3>4. Chain(listHead, listNext', Append(ListWalk, n))
      BY <1>1, <2>2, <3>1, <3>2, <3>3, LinkFacts, ChainLast
    <3> QED
      BY <2>1, <3>4 DEF s
  <2>4. listNext' \in [ListNode -> ListNode \cup {NoListNode}]
    BY <1>1, <2>1 DEF ListTypeOK
  <2> QED
    BY <1>1, <1>3, <1>4, <2>1, <2>3, <2>4, LinkMoves DEF ListTypeOK
<1> QED
  BY <1>5, <1>6

\* The first node is taken out.
LEMMA LinkFirstOut ==
  ASSUME LinkInv, IsFiniteSet(ListNode), NoListNode \notin ListNode, listHead # NoListNode,
         listHead' = listNext[listHead], listNext' = [listNext EXCEPT ![listHead] = NoListNode],
         inUse' = inUse
  PROVE  LinkInv' /\ [LinkList!Next]_<<ListWalk, Len(ListWalk)>>
<1> DEFINE s == Without(ListWalk, 1)
<1>1. ListTypeOK /\ Chain(listHead, listNext, ListWalk) /\ listHead \in ListNode
  BY DEF LinkInv, ListTypeOK
<1>2. /\ Len(ListWalk) \in Nat /\ Len(ListWalk) > 0 /\ 1 \in 1 .. Len(ListWalk)
      /\ listHead = ListWalk[1]
  BY <1>1, LinkFacts DEF Chain
<1>3. Mended(listNext, listNext')
  BY DEF Mended
<1>4. ASSUME NEW i \in 1 .. Len(ListWalk), i # 1
      PROVE  listNext'[ListWalk[i]] = listNext[ListWalk[i]]
  <2>1. ListWalk[i] # listHead
    BY <1>1, <1>2, <1>4 DEF Chain, EachOnce
  <2> QED
    BY <1>1, <2>1, LinkFacts DEF ListTypeOK
<1>5. Chain(listHead', listNext', s)
  <2>1. \A i \in 1 .. Len(ListWalk) : i # 1 => listNext'[ListWalk[i]] = listNext[ListWalk[i]]
    BY <1>4
  <2>2. Chain(listNext[listHead], listNext', Without(ListWalk, 1))
    BY <1>1, <1>2, <1>3, <2>1, ChainFirstOut
  <2> QED
    BY <2>2
<1>6. Turned(ListNode, ListWalk, s)
  BY <1>2 DEF Turned
<1>7. \A i \in 1 .. Len(s) : s[i] \in inUse'
  <2>1. ListWalk \in Seq(ListNode) /\ EachOnce(ListWalk)
    BY <1>1, LinkFacts DEF Chain
  <2>2. Len(s) = Len(ListWalk) - 1
    BY <1>2, <2>1, WithoutProps
  <2>3. \A i \in 1 .. Len(ListWalk) - 1 :
           \E j \in 1 .. Len(ListWalk) : j # 1 /\ s[i] = ListWalk[j]
    BY <1>2, <2>1, WithoutOnce
  <2> QED
    BY <2>2, <2>3, LinkFacts
<1>8. /\ listHead' \in ListNode \cup {NoListNode}
      /\ listNext' \in [ListNode -> ListNode \cup {NoListNode}]
  BY <1>1 DEF ListTypeOK
<1> HIDE DEF s
<1> QED
  BY <1>5, <1>6, <1>7, <1>8, LinkMoves


LEMMA LinkStep ==
  ASSUME LinkInv, IsFiniteSet(ListNode), NoListNode \notin ListNode, ListMiddle = FALSE,
         ListNext \/ UNCHANGED listVars
  PROVE  LinkInv' /\ [LinkList!Next]_<<ListWalk, Len(ListWalk)>>
<1>1. ListTypeOK /\ Chain(listHead, listNext, ListWalk)
  BY DEF LinkInv
<1>2. Turned(ListNode, ListWalk, ListWalk)
  BY DEF Turned
<1>3. ASSUME NEW n \in ListNode, ~Linked(n) PROVE Outside(n, ListWalk)
  BY <1>3, LinkFacts DEF Linked, Outside
\* The pointer of a node off the list changes.
<1>4. ASSUME NEW n \in ListNode, Outside(n, ListWalk), NEW x \in ListNode \cup {NoListNode},
             listNext' = [listNext EXCEPT ![n] = x], listHead' = listHead,
             \A i \in 1 .. Len(ListWalk) : ListWalk[i] \in inUse'
      PROVE  LinkInv' /\ [LinkList!Next]_<<ListWalk, Len(ListWalk)>>
  <2>1. \A i \in 1 .. Len(ListWalk) : listNext'[ListWalk[i]] = listNext[ListWalk[i]]
    BY <1>1, <1>4, LinkFacts DEF Outside, ListTypeOK
  <2>2. Mended(listNext, listNext')
    BY <1>4 DEF Mended
  <2>3. Chain(listHead, listNext', ListWalk)
    BY <1>1, <2>1, <2>2, ChainStays
  <2>4. Chain(listHead', listNext', ListWalk)
    BY <1>4, <2>3
  <2>5. /\ listHead' \in ListNode \cup {NoListNode}
        /\ listNext' \in [ListNode -> ListNode \cup {NoListNode}]
    BY <1>1, <1>4 DEF ListTypeOK
  <2> QED
    BY <1>2, <1>4, <2>4, <2>5, LinkMoves
<1>5. ASSUME NEW n \in ListNode, ListAlloc(n)
      PROVE  LinkInv' /\ [LinkList!Next]_<<ListWalk, Len(ListWalk)>>
  <2>1. Outside(n, ListWalk)
    BY <1>5, LinkFacts DEF ListAlloc, Outside
  <2>2. \A i \in 1 .. Len(ListWalk) : ListWalk[i] \in inUse'
    BY <1>5, LinkFacts DEF ListAlloc
  <2> QED
    BY <1>4, <1>5, <2>1, <2>2 DEF ListAlloc
<1>6. ASSUME NEW n \in ListNode, AddHead(n)
      PROVE  LinkInv' /\ [LinkList!Next]_<<ListWalk, Len(ListWalk)>>
  <2>1. Outside(n, ListWalk) /\ listHead \in ListNode \cup {NoListNode}
    BY <1>1, <1>3, <1>6 DEF AddHead, ListTypeOK
  <2>2. \A i \in 1 .. Len(ListWalk) : ListWalk[i] \in inUse'
    BY <1>6, LinkFacts DEF AddHead
  <2> QED
    BY <1>4, <1>6, <2>1, <2>2 DEF AddHead
<1>7. ASSUME NEW n \in ListNode, AddTail(n) \/ CreateNode(n)
      PROVE  LinkInv' /\ [LinkList!Next]_<<ListWalk, Len(ListWalk)>>
  <2>1. Outside(n, ListWalk)
    BY <1>3, <1>7, LinkFacts DEF AddTail, CreateNode, Outside
  <2>2. LinkLast(n) /\ inUse' = inUse \cup {n}
    BY <1>7 DEF AddTail, CreateNode
  <2> QED
    BY <2>1, <2>2, LinkLastMoves
<1>8. ASSUME NEW n \in ListNode, DeleteNode(n)
      PROVE  LinkInv' /\ [LinkList!Next]_<<ListWalk, Len(ListWalk)>>
  BY <1>8, LinkFirstOut DEF DeleteNode
<1>9. ASSUME NEW n \in ListNode, ListFree(n)
      PROVE  LinkInv' /\ [LinkList!Next]_<<ListWalk, Len(ListWalk)>>
  <2>1. \A i \in 1 .. Len(ListWalk) : ListWalk[i] \in inUse'
    BY <1>3, <1>9, LinkFacts DEF ListFree, Outside
  <2>2. Chain(listHead', listNext', ListWalk)
    BY <1>1, <1>9 DEF ListFree
  <2>3. /\ listHead' \in ListNode \cup {NoListNode}
        /\ listNext' \in [ListNode -> ListNode \cup {NoListNode}]
    BY <1>1, <1>9 DEF ListTypeOK, ListFree
  <2> QED
    BY <1>2, <2>1, <2>2, <2>3, LinkMoves
<1>10. ASSUME NEW i \in 0 .. 1, DeleteNodeAt(i)
       PROVE  LinkInv' /\ [LinkList!Next]_<<ListWalk, Len(ListWalk)>>
  BY <1>10, LinkFirstOut DEF DeleteNodeAt
<1>11. CASE UNCHANGED listVars
  <2>1. ListWalk' = ListWalk
    BY <1>11 DEF listVars, ListWalk
  <2> QED
    BY <1>1, <1>11, <2>1 DEF listVars, LinkInv, ListTypeOK
<1> QED
  BY <1>5, <1>6, <1>7, <1>8, <1>9, <1>10, <1>11 DEF ListNext

LEMMA LinkStarts ==
  ASSUME ListInit, IsFiniteSet(ListNode), NoListNode \notin ListNode
  PROVE  LinkInv /\ LinkList!Init
<1>1. Chain(listHead, listNext, <<>>)
  BY DEF ListInit, Chain, EachOnce
<1>2. ListWalk = <<>>
  <2>1. IsFiniteSet(DOMAIN listNext)
    BY DEF ListInit
  <2> QED
    BY <1>1, <2>1, WalkIs DEF ListWalk
<1> QED
  BY <1>1, <1>2 DEF ListInit, LinkInv, ListTypeOK, LinkList!Init
-----------------------------------------------------------------------------
(***************************************************************************)
(* dev/devreg.c.                                                           *)
(***************************************************************************)
RegInv == RegTypeOK /\ Chain(deviceRoot, devNext, DeviceWalk)

LEMMA RegFacts ==
  ASSUME RegInv
  PROVE  /\ Len(DeviceWalk) \in Nat /\ DOMAIN DeviceWalk = 1 .. Len(DeviceWalk)
         /\ DeviceWalk \in Seq(RegDevice)
         /\ DOMAIN devNext = RegDevice
         /\ \A i \in 1 .. Len(DeviceWalk) : DeviceWalk[i] \in RegDevice
<1>1. DOMAIN devNext = RegDevice /\ Chain(deviceRoot, devNext, DeviceWalk)
  BY DEF RegInv, RegTypeOK
<1>2. Len(DeviceWalk) \in Nat /\ DeviceWalk \in Seq(RegDevice)
      /\ \A i \in 1 .. Len(DeviceWalk) : DeviceWalk[i] \in RegDevice
  BY <1>1, ChainFacts
<1>3. DOMAIN DeviceWalk = 1 .. Len(DeviceWalk)
  BY <1>2, LenProperties
<1> QED
  BY <1>1, <1>2, <1>3

\* What follows once the pointers of the next state link the devices of s.
LEMMA RegMoves ==
  ASSUME RegInv, IsFiniteSet(RegDevice), NEW s, Chain(deviceRoot', devNext', s),
         Turned(RegDevice, DeviceWalk, s), RegTypeOK'
  PROVE  RegInv' /\ [RegList!Next]_<<DeviceWalk, Len(DeviceWalk)>>
<1>1. DeviceWalk' = s
  <2>1. IsFiniteSet(DOMAIN devNext')
    BY DEF RegTypeOK
  <2>2. WalkFrom(deviceRoot', devNext') = s
    BY <2>1, WalkIs
  <2> QED
    BY <2>2 DEF DeviceWalk
<1>2. RegInv'
  BY <1>1 DEF RegInv
<1>3. DOMAIN DeviceWalk = 1 .. Len(DeviceWalk)
  BY RegFacts
<1>4. ASSUME s # DeviceWalk PROVE RegList!Next
  <2>1. ASSUME NEW n \in RegDevice, Outside(n, DeviceWalk) PROVE n \notin RegList!Members
    BY <1>3, <2>1 DEF RegList!Members, Outside
  <2>2. RegList!Is(s)
    BY <1>1 DEF RegList!Is
  <2>3. CASE \E n \in RegDevice :
               /\ Outside(n, DeviceWalk)
               /\ \/ s = Append(DeviceWalk, n)
                  \/ s = <<n>> \o DeviceWalk
                  \/ \E i \in 1 .. Len(DeviceWalk) :
                       s = SubSeq(DeviceWalk, 1, i) \o <<n>> \o SubSeq(DeviceWalk, i + 1, Len(DeviceWalk))
    BY <1>1, <1>3, <1>4, <2>1, <2>2, <2>3, Zenon
       DEF RegList!Next, RegList!Append_, RegList!Prepend, RegList!AddBehind
  <2>4. CASE \E p \in 1 .. Len(DeviceWalk) : s = Without(DeviceWalk, p)
    BY <1>1, <1>3, <1>4, <2>2, <2>4, Zenon DEF RegList!Next, RegList!Remove, Without
  <2>5. CASE DeviceWalk # <<>> /\ s = <<DeviceWalk[1]>>
    BY <1>1, <1>4, <2>2, <2>5, Zenon DEF RegList!Next, RegList!Cut
  <2> QED
    BY <1>4, <2>3, <2>4, <2>5 DEF Turned
<1>5. ASSUME s = DeviceWalk PROVE UNCHANGED <<DeviceWalk, Len(DeviceWalk)>>
  BY <1>1, <1>5
<1> QED
  BY <1>2, <1>4, <1>5

\* A device whose name is not found is not on the list.
LEMMA NotFound ==
  ASSUME RegInv, NoDevice \notin RegDevice, NEW d \in RegDevice, Lookup(RegName[d]) = NoDevice
  PROVE  Outside(d, DeviceWalk)
<1> DEFINE found == {i \in DOMAIN DeviceWalk : RegName[DeviceWalk[i]] = RegName[d]}
<1>1. found = {} \/ DeviceWalk[Min(found)] = NoDevice
  BY DEF Lookup
<1>2. ASSUME found # {} PROVE FALSE
  <2>1. found \in SUBSET Nat
    BY RegFacts
  <2>2. Min(found) \in found
    <3> HIDE DEF found
    <3> QED
      BY <1>2, <2>1, Lists!LeastOf DEF Min, Lists!Min
  <2>3. DeviceWalk[Min(found)] \in RegDevice
    BY <2>2, RegFacts
  <2> QED
    BY <1>1, <1>2, <2>3
<1> QED
  BY <1>2, RegFacts DEF Outside

LEMMA RegStep ==
  ASSUME RegInv, IsFiniteSet(RegDevice), NoDevice \notin RegDevice,
         RegNext \/ UNCHANGED regVars
  PROVE  RegInv' /\ [RegList!Next]_<<DeviceWalk, Len(DeviceWalk)>>
<1>1. RegTypeOK /\ Chain(deviceRoot, devNext, DeviceWalk)
  BY DEF RegInv
<1>2. ASSUME NEW d \in RegDevice, DeviceRegister(d)
      PROVE  RegInv' /\ [RegList!Next]_<<DeviceWalk, Len(DeviceWalk)>>
  <2> DEFINE s == <<d>> \o DeviceWalk
  <2>1. Outside(d, DeviceWalk)
    BY <1>2, NotFound DEF DeviceRegister
  <2>2. deviceRoot' = d /\ devNext' = [devNext EXCEPT ![d] = deviceRoot]
    BY <1>2 DEF DeviceRegister
  <2>3. RegTypeOK' /\ Mended(devNext, devNext') /\ devNext'[d] = deviceRoot
    BY <1>1, <2>2 DEF RegTypeOK, Mended
  <2>4. \A i \in 1 .. Len(DeviceWalk) : devNext'[DeviceWalk[i]] = devNext[DeviceWalk[i]]
    BY <1>1, <2>1, <2>2, RegFacts DEF Outside, RegTypeOK
  <2>5. Chain(d, devNext', s)
    BY <1>1, <2>1, <2>3, <2>4, RegFacts, ChainFirst
  <2>6. Chain(deviceRoot', devNext', s)
    BY <2>2, <2>5
  <2>7. Turned(RegDevice, DeviceWalk, s)
    BY <2>1 DEF Turned
  <2> HIDE DEF s
  <2> QED
    BY <2>3, <2>6, <2>7, RegMoves
<1>3. ASSUME NEW d \in RegDevice, DeviceUnregister(d)
      PROVE  RegInv' /\ [RegList!Next]_<<DeviceWalk, Len(DeviceWalk)>>
  <2>1. CASE deviceRoot = d
    <3> DEFINE s == Without(DeviceWalk, 1)
    <3>1. deviceRoot' = devNext[d] /\ devNext' = devNext
      BY <1>3, <2>1 DEF DeviceUnregister
    <3>2. Len(DeviceWalk) > 0 /\ 1 \in 1 .. Len(DeviceWalk)
      BY <1>1, <2>1, RegFacts DEF Chain
    <3>3. Mended(devNext, devNext')
      BY <3>1 DEF Mended
    <3>4. \A i \in 1 .. Len(DeviceWalk) : i # 1 => devNext'[DeviceWalk[i]] = devNext[DeviceWalk[i]]
      BY <3>1
    <3>5. Chain(devNext[deviceRoot], devNext', s)
      BY <1>1, <3>2, <3>3, <3>4, ChainFirstOut
    <3>6. Chain(deviceRoot', devNext', s)
      BY <2>1, <3>1, <3>5
    <3>7. Turned(RegDevice, DeviceWalk, s)
      BY <3>2 DEF Turned
    <3>8. RegTypeOK'
      BY <1>1, <2>1, <3>1 DEF RegTypeOK
    <3> HIDE DEF s
    <3> QED
      BY <3>6, <3>7, <3>8, RegMoves
  <2>2. CASE deviceRoot # d
    <3> DEFINE p == CHOOSE i \in DOMAIN DeviceWalk : DeviceWalk[i] = d
               s == Without(DeviceWalk, p)
    <3>1. \E i \in DOMAIN DeviceWalk : DeviceWalk[i] = d
      BY <1>3 DEF DeviceUnregister
    <3>2. p \in DOMAIN DeviceWalk /\ DeviceWalk[p] = d
      BY <3>1
    <3>3. deviceRoot' = deviceRoot /\ devNext' = [devNext EXCEPT ![DeviceWalk[p - 1]] = devNext[d]]
      BY <1>3, <2>2 DEF DeviceUnregister
    <3> HIDE DEF p
    <3>4. p \in 1 .. Len(DeviceWalk) /\ Len(DeviceWalk) > 0
      BY <3>2, RegFacts
    <3>5. p > 1
      BY <1>1, <2>2, <3>2, <3>4 DEF Chain
    <3>6. p - 1 \in 1 .. Len(DeviceWalk) /\ DeviceWalk[p - 1] \in RegDevice
      BY <3>4, <3>5, RegFacts
    <3>7. Mended(devNext, devNext') /\ devNext'[DeviceWalk[p - 1]] = devNext[DeviceWalk[p]] /\ RegTypeOK'
      BY <1>1, <3>2, <3>3, <3>6 DEF Mended, RegTypeOK
    <3>8. \A i \in 1 .. Len(DeviceWalk) :
             i # p /\ i # p - 1 => devNext'[DeviceWalk[i]] = devNext[DeviceWalk[i]]
      <4>1. EachOnce(DeviceWalk)
        BY <1>1 DEF Chain
      <4>2. \A i \in 1 .. Len(DeviceWalk) : i # p - 1 => DeviceWalk[i] # DeviceWalk[p - 1]
        BY <3>6, <4>1 DEF EachOnce
      <4> QED
        BY <1>1, <3>3, <3>6, <4>2, RegFacts DEF RegTypeOK
    <3>9. Chain(deviceRoot', devNext', s)
      <4>1. Chain(deviceRoot, devNext', Without(DeviceWalk, p))
        BY <1>1, <3>4, <3>5, <3>7, <3>8, ChainWithout
      <4> QED
        BY <3>3, <4>1
    <3>10. Turned(RegDevice, DeviceWalk, s)
      BY <3>4 DEF Turned
    <3> HIDE DEF s
    <3> QED
      BY <3>7, <3>9, <3>10, RegMoves
  <2> QED
    BY <2>1, <2>2
<1>4. CASE UNCHANGED regVars
  <2>1. DeviceWalk' = DeviceWalk
    BY <1>4 DEF regVars, DeviceWalk
  <2> QED
    BY <1>1, <1>4, <2>1 DEF regVars, RegInv, RegTypeOK
<1> QED
  BY <1>2, <1>3, <1>4 DEF RegNext

LEMMA RegStarts ==
  ASSUME RegInit, IsFiniteSet(RegDevice), NoDevice \notin RegDevice
  PROVE  RegInv /\ RegList!Init
<1>1. Chain(deviceRoot, devNext, <<>>)
  BY DEF RegInit, Chain, EachOnce
<1>2. DeviceWalk = <<>>
  <2>1. IsFiniteSet(DOMAIN devNext)
    BY DEF RegInit
  <2> QED
    BY <1>1, <2>1, WalkIs DEF DeviceWalk
<1> QED
  BY <1>1, <1>2 DEF RegInit, RegInv, RegTypeOK, RegList!Init
-----------------------------------------------------------------------------
(***************************************************************************)
(* sys/epl.c: a node is its own successor exactly if it is the head of a   *)
(* circular list.                                                          *)
(***************************************************************************)
EplLoops == \A n \in EplNode : next[n] = n <=> circular /\ n = nodes

EplInv ==
  /\ EplTypeOK /\ Chain(nodes, Ends, Walk) /\ EplLoops
  /\ circular => Len(Walk) = 1
  /\ ~circular => entries = Len(Walk)

LEMMA EplFacts ==
  ASSUME EplInv, IsFiniteSet(EplNode)
  PROVE  /\ Len(Walk) \in Nat /\ DOMAIN Walk = 1 .. Len(Walk) /\ Walk \in Seq(EplNode)
         /\ DOMAIN Ends = EplNode
         /\ \A i \in 1 .. Len(Walk) : Walk[i] \in EplNode
         /\ Len(Walk) <= Cardinality(EplNode) /\ Cardinality(EplNode) \in Nat
         /\ \A n \in EplNode : ~OnList(n) => Outside(n, Walk)
<1>1. DOMAIN Ends = EplNode /\ Chain(nodes, Ends, Walk)
  BY DEF EplInv, Ends
<1>2. Len(Walk) \in Nat /\ Walk \in Seq(EplNode) /\ \A i \in 1 .. Len(Walk) : Walk[i] \in EplNode
  BY <1>1, ChainFacts
<1>3. DOMAIN Walk = 1 .. Len(Walk)
  BY <1>2, LenProperties
<1>4. Len(Walk) <= Cardinality(EplNode) /\ Cardinality(EplNode) \in Nat
  BY <1>1, <1>2, OnceFits DEF Chain
<1> QED
  BY <1>1, <1>2, <1>3, <1>4 DEF OnList, Outside

\* Where no node is its own successor the pointers are followed as they are.
LEMMA EplEnds ==
  ASSUME EplTypeOK, NoNode \notin EplNode
  PROVE  /\ DOMAIN Ends = EplNode
         /\ \A n \in EplNode : Ends[n] = IF next[n] = n THEN NoNode ELSE next[n]
BY DEF Ends

\* What follows once the pointers of the next state link the nodes of s.
LEMMA EplMoves ==
  ASSUME EplInv, IsFiniteSet(EplNode), NEW s, Chain(nodes', Ends', s),
         Turned(EplNode, Walk, s), EplTypeOK', EplLoops',
         circular' => Len(s) = 1, ~circular' => entries' = Len(s)
  PROVE  EplInv' /\ [EplList!Next]_<<Walk, IF circular THEN Len(Walk) ELSE entries>>
<1> DEFINE count == IF circular THEN Len(Walk) ELSE entries
<1>1. Walk' = s
  <2>1. DOMAIN Ends' = EplNode
    BY DEF Ends
  <2>2. IsFiniteSet(DOMAIN Ends')
    BY <2>1
  <2>3. WalkFrom(nodes', Ends') = s
    BY <2>2, WalkIs
  <2> QED
    BY <2>3 DEF Walk
<1>2. EplInv'
  BY <1>1 DEF EplInv
<1>3. DOMAIN Walk = 1 .. Len(Walk)
  BY EplFacts
<1>4. count = Len(Walk) /\ count' = Len(s)
  BY <1>1 DEF EplInv
<1>5. ASSUME s # Walk PROVE EplList!Next
  <2>1. ASSUME NEW n \in EplNode, Outside(n, Walk) PROVE n \notin EplList!Members
    BY <1>3, <2>1 DEF EplList!Members, Outside
  <2>2. EplList!Is(s)
    BY <1>1, <1>4 DEF EplList!Is
  <2>3. CASE \E n \in EplNode :
               /\ Outside(n, Walk)
               /\ \/ s = Append(Walk, n)
                  \/ s = <<n>> \o Walk
                  \/ \E i \in 1 .. Len(Walk) :
                       s = SubSeq(Walk, 1, i) \o <<n>> \o SubSeq(Walk, i + 1, Len(Walk))
    BY <1>1, <1>3, <1>5, <2>1, <2>2, <2>3, Zenon
       DEF EplList!Next, EplList!Append_, EplList!Prepend, EplList!AddBehind
  <2>4. CASE \E p \in 1 .. Len(Walk) : s = Without(Walk, p)
    BY <1>1, <1>3, <1>5, <2>2, <2>4, Zenon DEF EplList!Next, EplList!Remove, Without
  <2>5. CASE Walk # <<>> /\ s = <<Walk[1]>>
    BY <1>1, <1>5, <2>2, <2>5, Zenon DEF EplList!Next, EplList!Cut
  <2> QED
    BY <1>5, <2>3, <2>4, <2>5 DEF Turned
<1>6. ASSUME s = Walk PROVE UNCHANGED <<Walk, count>>
  BY <1>1, <1>4, <1>6
<1> QED
  BY <1>2, <1>5, <1>6


LEMMA EplAppendStep ==
  ASSUME EplInv, IsFiniteSet(EplNode), NoNode \notin EplNode, NEW n \in EplNode, EplAppend(n)
  PROVE  EplInv' /\ [EplList!Next]_<<Walk, IF circular THEN Len(Walk) ELSE entries>>
<1> DEFINE s == Append(Walk, n)
           m == Len(Walk)
<1>1. /\ EplTypeOK /\ Chain(nodes, Ends, Walk) /\ EplLoops /\ ~circular /\ entries = m
      /\ entries' = entries + 1 /\ ~circular' /\ Outside(n, Walk)
  BY EplFacts DEF EplInv, EplAppend
<1>2. /\ s \in Seq(EplNode) /\ Len(s) = m + 1 /\ m \in Nat
      /\ m <= Cardinality(EplNode) /\ Cardinality(EplNode) \in Nat
  BY EplFacts
<1>3. entries' = Len(s) /\ entries' \in 0 .. Cardinality(EplNode) + 1
  BY <1>1, <1>2
<1>4. Turned(EplNode, Walk, s)
  BY <1>1 DEF Turned
<1>5. \A x \in EplNode : next[x] # x /\ Ends[x] = next[x]
  BY <1>1, EplEnds DEF EplLoops
<1>6. CASE nodes = NoNode
  <2>1. Walk = <<>>
    BY <1>1, <1>6, EplEnds, ChainFacts DEF Chain
  <2>2. s = <<n>>
    BY <2>1
  <2>3. nodes' = n /\ next' = [next EXCEPT ![n] = NoNode]
    BY <1>6 DEF EplAppend
  <2>4. EplTypeOK'
    BY <1>1, <1>3, <2>3 DEF EplTypeOK
  <2>5. EplLoops'
    BY <1>1, <1>5, <2>3 DEF EplLoops, EplTypeOK
  <2>6. Ends'[n] = NoNode /\ DOMAIN Ends' = EplNode
    BY <1>1, <2>3 DEF Ends, EplTypeOK
  <2>7. Chain(nodes', Ends', s)
    BY <2>2, <2>3, <2>6, ChainOne
  <2> HIDE DEF s
  <2> QED
    BY <1>1, <1>3, <1>4, <2>4, <2>5, <2>7, EplMoves
<1>7. CASE nodes # NoNode
  <2>1. nodes' = nodes /\ next' = [next EXCEPT ![Walk[m]] = n, ![n] = NoNode]
    BY <1>7 DEF EplAppend
  <2>2. m > 0 /\ m \in 1 .. m
    <3>1. nodes \in EplNode
      BY <1>1, <1>7 DEF EplTypeOK
    <3> QED
      BY <1>1, <1>2, <3>1, EplEnds DEF Chain
  <2>3. Walk[m] \in EplNode /\ Walk[m] # n
    BY <1>1, <2>2, EplFacts DEF Outside
  <2>4. EplTypeOK'
    BY <1>1, <1>3, <2>1 DEF EplTypeOK
  <2>5. \A x \in EplNode : next'[x] = IF x = n THEN NoNode ELSE IF x = Walk[m] THEN n ELSE next[x]
    BY <1>1, <2>1, <2>3 DEF EplTypeOK
  <2>6. \A x \in EplNode : next'[x] # x
    BY <1>5, <2>3, <2>5
  <2>7. EplLoops'
    BY <1>1, <2>6 DEF EplLoops
  <2>8. DOMAIN Ends' = EplNode /\ \A x \in EplNode : Ends'[x] = next'[x]
    BY <2>6 DEF Ends
  <2>9. Chain(nodes', Ends', s)
    <3>1. Mended(Ends, Ends')
      BY <1>1, <2>8, EplEnds DEF Mended
    <3>2. Ends'[Walk[m]] = n
      BY <2>3, <2>5, <2>8
    <3>3. Ends'[n] \notin DOMAIN Ends
      BY <1>1, <2>5, <2>8, EplEnds
    <3>4. ASSUME NEW i \in 1 .. m - 1 PROVE Ends'[Walk[i]] = Ends[Walk[i]]
      <4>1. i \in 1 .. m /\ i # m
        BY <1>2
      <4>2. Walk[i] # n /\ Walk[i] \in EplNode
        BY <1>1, <4>1, EplFacts DEF Outside
      <4>3. EachOnce(Walk)
        BY <1>1 DEF Chain
      <4>4. Walk[i] # Walk[m]
        BY <2>2, <4>1, <4>3 DEF EachOnce
      <4> QED
        BY <1>5, <2>5, <2>8, <4>2, <4>4
    <3>5. n \in DOMAIN Ends
      BY EplFacts
    <3>6. Chain(nodes, Ends', Append(Walk, n))
      BY <1>1, <2>2, <3>1, <3>2, <3>3, <3>4, <3>5, ChainLast
    <3> QED
      BY <2>1, <3>6
  <2> HIDE DEF s
  <2> QED
    BY <1>1, <1>3, <1>4, <2>4, <2>7, <2>9, EplMoves
<1> QED
  BY <1>6, <1>7

LEMMA EplInFrontStep ==
  ASSUME EplInv, IsFiniteSet(EplNode), NoNode \notin EplNode, NEW n \in EplNode, EplInFront(n)
  PROVE  EplInv' /\ [EplList!Next]_<<Walk, IF circular THEN Len(Walk) ELSE entries>>
<1>1. /\ EplTypeOK /\ Chain(nodes, Ends, Walk) /\ EplLoops /\ ~circular /\ entries = Len(Walk)
      /\ entries' = entries + 1 /\ nodes' = n /\ next' = [next EXCEPT ![n] = nodes]
      /\ circular' = (n = nodes)
  BY DEF EplInv, EplInFront
<1>2. /\ Len(Walk) \in Nat
      /\ Len(Walk) <= Cardinality(EplNode) /\ Cardinality(EplNode) \in Nat
  BY EplFacts
<1>3. \A x \in EplNode : next[x] # x /\ Ends[x] = next[x]
  BY <1>1, EplEnds DEF EplLoops
<1>4. EplTypeOK'
  <2>1. entries' \in 0 .. Cardinality(EplNode) + 1
    BY <1>1, <1>2
  <2> QED
    BY <1>1, <2>1 DEF EplTypeOK
<1>5. \A x \in EplNode : next'[x] = IF x = n THEN nodes ELSE next[x]
  BY <1>1 DEF EplTypeOK
<1>6. EplLoops'
  <2>1. circular' <=> n = nodes
    BY <1>1, Zenon
  <2>2. next'[n] = n <=> circular'
    BY <1>5, <2>1
  <2>3. \A x \in EplNode : x # n => next'[x] # x
    BY <1>3, <1>5
  <2> QED
    BY <1>1, <2>2, <2>3, Zenon DEF EplLoops
<1>7. DOMAIN Ends' = EplNode
      /\ \A x \in EplNode : Ends'[x] = IF next'[x] = x THEN NoNode ELSE next'[x]
  BY DEF Ends
<1>8. CASE n = nodes
  <2> DEFINE s == <<n>>
  <2>1. Ends'[n] = NoNode
    BY <1>5, <1>7, <1>8
  <2>2. Chain(nodes', Ends', s)
    BY <1>1, <1>7, <2>1, ChainOne
  <2>3. Len(s) = 1 /\ circular'
    BY <1>1, <1>8
  <2>4. n = Walk[1] /\ Walk # <<>>
    BY <1>1, <1>8, EplEnds, ChainFacts DEF Chain
  <2>5. Turned(EplNode, Walk, s)
    BY <2>4 DEF Turned
  <2> HIDE DEF s
  <2> QED
    BY <1>4, <1>6, <2>2, <2>3, <2>5, EplMoves
<1>9. CASE n # nodes
  <2> DEFINE s == <<n>> \o Walk
  <2>1. ~circular' /\ Outside(n, Walk)
    BY <1>1, <1>9, EplFacts DEF EplInFront
  <2>2. \A x \in EplNode : Ends'[x] = next'[x]
    BY <1>3, <1>5, <1>7, <1>9
  <2>3. Mended(Ends, Ends') /\ n \in DOMAIN Ends
    BY <1>7, EplFacts DEF Mended
  <2>4. Ends'[n] = nodes
    BY <1>5, <2>2
  <2>5. \A i \in 1 .. Len(Walk) : Ends'[Walk[i]] = Ends[Walk[i]]
    BY <1>3, <1>5, <2>1, <2>2, EplFacts DEF Outside
  <2>6. Chain(n, Ends', s)
    BY <1>1, <2>1, <2>3, <2>4, <2>5, ChainFirst
  <2>7. Chain(nodes', Ends', s)
    BY <1>1, <2>6
  <2>8. entries' = Len(s)
    <3>1. Walk \in Seq(EplNode)
      BY EplFacts
    <3>2. InFront(s, n, Walk)
      BY <3>1, Fronted
    <3>3. Len(s) = Len(Walk) + 1
      BY <3>2 DEF InFront
    <3> QED
      BY <1>1, <3>3
  <2>9. Turned(EplNode, Walk, s)
    BY <2>1 DEF Turned
  <2> HIDE DEF s
  <2> QED
    BY <1>4, <1>6, <2>1, <2>7, <2>8, <2>9, EplMoves
<1> QED
  BY <1>8, <1>9


LEMMA EplDeleteStep ==
  ASSUME EplInv, IsFiniteSet(EplNode), NoNode \notin EplNode, NEW n \in EplNode, EplDelete(n)
  PROVE  EplInv' /\ [EplList!Next]_<<Walk, IF circular THEN Len(Walk) ELSE entries>>
<1>1. /\ EplTypeOK /\ Chain(nodes, Ends, Walk) /\ EplLoops /\ ~circular /\ entries = Len(Walk)
      /\ entries' = entries - 1 /\ ~circular' /\ EachOnce(Walk) /\ OnList(n)
  BY DEF EplInv, EplDelete, Chain
<1>2. /\ Len(Walk) \in Nat /\ Walk \in Seq(EplNode) /\ DOMAIN Walk = 1 .. Len(Walk)
      /\ Len(Walk) <= Cardinality(EplNode) /\ Cardinality(EplNode) \in Nat
  BY EplFacts
<1>3. \A x \in EplNode : next[x] # x /\ Ends[x] = next[x]
  BY <1>1, EplEnds DEF EplLoops
<1>4. ASSUME NEW p \in 1 .. Len(Walk), Chain(nodes', Ends', Without(Walk, p)),
             nodes' \in EplNode \cup {NoNode}, next' \in [EplNode -> EplNode \cup {NoNode}],
             EplLoops'
      PROVE  EplInv' /\ [EplList!Next]_<<Walk, IF circular THEN Len(Walk) ELSE entries>>
  <2> DEFINE s == Without(Walk, p)
  <2>1. Len(s) = Len(Walk) - 1
    <3>1. Walk \in Seq(EplNode)
      BY <1>2
    <3> QED
      BY <3>1, WithoutProps
  <2>2. entries' = Len(s) /\ entries' \in 0 .. Cardinality(EplNode) + 1
    BY <1>1, <1>2, <2>1
  <2>3. EplTypeOK'
    BY <1>4, <2>2 DEF EplTypeOK
  <2>4. Turned(EplNode, Walk, s)
    BY DEF Turned
  <2>5. Chain(nodes', Ends', s)
    BY <1>4
  <2> HIDE DEF s
  <2> QED
    BY <1>1, <1>4, <2>2, <2>3, <2>4, <2>5, EplMoves
<1>5. next[n] \in EplNode \cup {NoNode}
  BY <1>1 DEF EplTypeOK
<1>6. CASE n = nodes
  <2>1. nodes' = next[n] /\ next' = [next EXCEPT ![n] = NoNode]
    BY <1>6 DEF EplDelete
  <2>2. next' \in [EplNode -> EplNode \cup {NoNode}]
        /\ \A x \in EplNode : next'[x] = IF x = n THEN NoNode ELSE next[x]
    BY <1>1, <2>1 DEF EplTypeOK
  <2>3. \A x \in EplNode : next'[x] # x
    BY <1>3, <2>2
  <2>4. EplLoops'
    BY <1>1, <2>3 DEF EplLoops
  <2>5. DOMAIN Ends' = EplNode /\ \A x \in EplNode : Ends'[x] = next'[x]
    BY <2>3 DEF Ends
  <2>6. Len(Walk) > 0 /\ 1 \in 1 .. Len(Walk) /\ n = Walk[1]
    BY <1>1, <1>2, <1>6, EplFacts DEF Chain
  <2>7. \A i \in 1 .. Len(Walk) : i # 1 => Ends'[Walk[i]] = Ends[Walk[i]]
    <3> SUFFICES ASSUME NEW i \in 1 .. Len(Walk), i # 1 PROVE Ends'[Walk[i]] = Ends[Walk[i]]
      OBVIOUS
    <3>1. Walk[i] # n /\ Walk[i] \in EplNode
      BY <1>1, <2>6, EplFacts DEF EachOnce
    <3> QED
      BY <1>3, <2>2, <2>5, <3>1
  <2>8. Mended(Ends, Ends')
    BY <2>5, EplFacts DEF Mended
  <2>9. Chain(Ends[nodes], Ends', Without(Walk, 1))
    BY <1>1, <2>6, <2>7, <2>8, ChainFirstOut
  <2>10. Ends[nodes] = nodes'
    BY <1>3, <1>6, <2>1
  <2>11. Chain(nodes', Ends', Without(Walk, 1))
    BY <2>9, <2>10
  <2> QED
    BY <1>4, <1>5, <2>1, <2>2, <2>4, <2>6, <2>11
<1>7. CASE n # nodes
  <2> DEFINE b == CHOOSE i \in DOMAIN Walk : i < Len(Walk) /\ Walk[i + 1] = n
  <2>1. \E i \in DOMAIN Walk : i < Len(Walk) /\ Walk[i + 1] = n
    <3>1. PICK p \in 1 .. Len(Walk) : Walk[p] = n
      BY <1>1, <1>2 DEF OnList
    <3>2. p # 1
      BY <1>1, <1>7, <3>1 DEF Chain
    <3>3. p - 1 \in DOMAIN Walk /\ p - 1 < Len(Walk) /\ (p - 1) + 1 = p
      BY <1>2, <3>2
    <3> QED
      BY <3>1, <3>3
  <2>2. b \in DOMAIN Walk /\ b < Len(Walk) /\ Walk[b + 1] = n
    BY <2>1
  <2>3. nodes' = nodes /\ next' = [next EXCEPT ![Walk[b]] = next[n], ![n] = NoNode]
    BY <1>7 DEF EplDelete
  <2> HIDE DEF b
  <2> DEFINE p == b + 1
  <2>4. p \in 1 .. Len(Walk) /\ p > 1 /\ p - 1 = b /\ b \in 1 .. Len(Walk) /\ Walk[p] = n /\ p # b
    BY <1>2, <2>2
  <2> HIDE DEF p
  <2>5. Walk[b] \in EplNode /\ Walk[b] # n
    BY <1>1, <2>4, EplFacts DEF EachOnce
  <2>6. next' \in [EplNode -> EplNode \cup {NoNode}]
        /\ \A x \in EplNode :
             next'[x] = IF x = n THEN NoNode ELSE IF x = Walk[b] THEN next[n] ELSE next[x]
    BY <1>1, <1>5, <2>3, <2>5 DEF EplTypeOK
  <2>7. next[n] # Walk[b]
    <3>1. CASE p = Len(Walk)
      <4>1. Ends[Walk[p]] \notin EplNode
        BY <1>1, <1>2, <2>4, <3>1, EplEnds DEF Chain
      <4> QED
        BY <1>3, <2>4, <2>5, <4>1
    <3>2. CASE p # Len(Walk)
      <4>1. p \in 1 .. Len(Walk) - 1 /\ p + 1 \in 1 .. Len(Walk) /\ p + 1 # b
        <5>1. Len(Walk) \in Nat
          BY <1>2
        <5>2. p \in 1 .. Len(Walk) /\ p - 1 = b
          BY <2>4
        <5> QED
          BY <3>2, <5>1, <5>2
      <4>2. Ends[Walk[p]] = Walk[p + 1]
        BY <1>1, <4>1 DEF Chain
      <4>3. Walk[p + 1] # Walk[b]
        BY <1>1, <2>4, <4>1 DEF EachOnce
      <4> QED
        BY <1>3, <2>4, <4>2, <4>3
    <3> QED
      BY <3>1, <3>2
  <2>8. \A x \in EplNode : next'[x] # x
    BY <1>3, <2>6, <2>7
  <2>9. EplLoops'
    BY <1>1, <2>8 DEF EplLoops
  <2>10. DOMAIN Ends' = EplNode /\ \A x \in EplNode : Ends'[x] = next'[x]
    BY <2>8 DEF Ends
  <2>11. \A i \in 1 .. Len(Walk) : i # p /\ i # p - 1 => Ends'[Walk[i]] = Ends[Walk[i]]
    <3> SUFFICES ASSUME NEW i \in 1 .. Len(Walk), i # p, i # p - 1
                 PROVE  Ends'[Walk[i]] = Ends[Walk[i]]
      OBVIOUS
    <3>1. Walk[i] # n /\ Walk[i] \in EplNode
      BY <1>1, <2>4, EplFacts DEF EachOnce
    <3>2. Walk[i] # Walk[b]
      BY <1>1, <2>4 DEF EachOnce
    <3> QED
      BY <1>3, <2>6, <2>10, <3>1, <3>2
  <2>12. Mended(Ends, Ends')
    BY <2>10, EplFacts DEF Mended
  <2>13. Ends'[Walk[p - 1]] = Ends[Walk[p]]
    BY <1>3, <2>4, <2>5, <2>6, <2>10
  <2>14. Chain(nodes, Ends', Without(Walk, p))
    BY <1>1, <2>4, <2>11, <2>12, <2>13, ChainWithout
  <2>15. Chain(nodes', Ends', Without(Walk, p)) /\ nodes' \in EplNode \cup {NoNode}
    BY <1>1, <2>3, <2>14 DEF EplTypeOK
  <2> QED
    BY <1>4, <2>4, <2>6, <2>9, <2>15
<1> QED
  BY <1>6, <1>7

LEMMA EplFixStep ==
  ASSUME EplInv, IsFiniteSet(EplNode), NoNode \notin EplNode, EplFix
  PROVE  EplInv' /\ [EplList!Next]_<<Walk, IF circular THEN Len(Walk) ELSE entries>>
<1>1. /\ EplTypeOK /\ Chain(nodes, Ends, Walk) /\ EplLoops /\ circular /\ Len(Walk) = 1
      /\ entries' = 1 /\ ~circular' /\ nodes' = nodes
      /\ next' = [next EXCEPT ![Walk[1]] = NoNode]
  BY DEF EplInv, EplFix
<1>2. Walk[1] = nodes /\ nodes \in EplNode
  BY <1>1, EplFacts DEF Chain
<1>3. next' \in [EplNode -> EplNode \cup {NoNode}]
      /\ \A x \in EplNode : next'[x] = IF x = nodes THEN NoNode ELSE next[x]
  BY <1>1, <1>2 DEF EplTypeOK
<1>4. EplTypeOK'
  <2>1. 1 \in 0 .. Cardinality(EplNode) + 1
    BY EplFacts
  <2> QED
    BY <1>1, <1>3, <2>1 DEF EplTypeOK
<1>5. \A x \in EplNode : next'[x] # x
  BY <1>1, <1>3 DEF EplLoops
<1>6. EplLoops'
  BY <1>1, <1>5 DEF EplLoops
<1>7. DOMAIN Ends' = EplNode /\ \A x \in EplNode : Ends'[x] = next'[x]
  BY <1>5 DEF Ends
<1>8. \A x \in EplNode : Ends'[x] = Ends[x]
  BY <1>1, <1>3, <1>7, EplEnds DEF EplLoops
<1>9. Chain(nodes', Ends', Walk)
  <2>1. Mended(Ends, Ends')
    BY <1>7, EplFacts DEF Mended
  <2>2. \A i \in 1 .. Len(Walk) : Ends'[Walk[i]] = Ends[Walk[i]]
    BY <1>8, EplFacts
  <2>3. Chain(nodes, Ends', Walk)
    BY <1>1, <2>1, <2>2, ChainStays
  <2> QED
    BY <1>1, <2>3
<1>10. Turned(EplNode, Walk, Walk)
  BY DEF Turned
<1> QED
  BY <1>1, <1>4, <1>6, <1>9, <1>10, EplMoves

LEMMA EplStep ==
  ASSUME EplInv, IsFiniteSet(EplNode), NoNode \notin EplNode, EplNext \/ UNCHANGED eplVars
  PROVE  EplInv' /\ [EplList!Next]_<<Walk, IF circular THEN Len(Walk) ELSE entries>>
<1>1. ASSUME NEW i \in 0 .. Cardinality(EplNode), EplDeleteAt(i)
      PROVE  EplInv' /\ [EplList!Next]_<<Walk, IF circular THEN Len(Walk) ELSE entries>>
  <2> DEFINE n == NodeAt(i)
  <2>1. EplDelete(n)
    BY <1>1 DEF EplDeleteAt
  <2> HIDE DEF n
  <2>2. n \in EplNode
    BY <2>1, EplFacts DEF EplDelete, OnList
  <2> QED
    BY <2>1, <2>2, EplDeleteStep
<1>2. CASE UNCHANGED eplVars
  <2>1. Ends' = Ends
    BY <1>2 DEF eplVars, Ends
  <2>2. Walk' = Walk
    BY <1>2, <2>1 DEF eplVars, Walk
  <2> QED
    BY <1>2, <2>1, <2>2 DEF eplVars, EplInv, EplTypeOK, EplLoops
<1> QED
  BY <1>1, <1>2, EplAppendStep, EplInFrontStep, EplDeleteStep, EplFixStep DEF EplNext

LEMMA EplStarts ==
  ASSUME EplInit, IsFiniteSet(EplNode), NoNode \notin EplNode
  PROVE  EplInv /\ EplList!Init
<1>1. DOMAIN Ends = EplNode
  BY DEF Ends
<1>2. Chain(nodes, Ends, <<>>)
  BY <1>1 DEF EplInit, Chain, EachOnce
<1>3. Walk = <<>>
  BY <1>1, <1>2, WalkIs DEF Walk
<1>4. EplTypeOK
  <2>1. Cardinality(EplNode) \in Nat
    BY FS_CardinalityType
  <2>2. 0 \in 0 .. Cardinality(EplNode) + 1
    BY <2>1
  <2> QED
    BY <2>2 DEF EplInit, EplTypeOK
<1>5. EplLoops
  BY DEF EplInit, EplLoops
<1> QED
  BY <1>2, <1>3, <1>4, <1>5 DEF EplInit, EplInv, EplList!Init
-----------------------------------------------------------------------------
(***************************************************************************)
(* lib/xorlist.c.                                                          *)
(***************************************************************************)

\* The address of the node at place i of s, NULL outside of it.
Nth(s, i) == IF i \in 1 .. Len(s) THEN {s[i]} ELSE {}

\* Every node of s has the exclusive or of its neighbours in pp, others NULL.
XorLinks(front, pp, s) ==
  /\ s \in Seq(XorNode) /\ EachOnce(s) /\ front = Nth(s, 1)
  /\ \A i \in 1 .. Len(s) : pp[s[i]] = Xor(Nth(s, i - 1), Nth(s, i + 1))
  /\ \A n \in XorNode : Outside(n, s) => pp[n] = {}

\* The exclusive or takes out what it put in.
LEMMA XorBack ==
  ASSUME NEW a, NEW b
  PROVE  /\ Xor(Xor(a, b), b) = a /\ Xor(b, Xor(b, a)) = a /\ Xor(Xor(b, a), b) = a
         /\ Xor(a, {}) = a /\ Xor({}, a) = a /\ Xor(a, b) = Xor(b, a)
BY DEF Xor

\* PointerOf and GetNext, given the pointers.
PointerIn(pp, a) == IF a = {} THEN {} ELSE pp[CHOOSE n \in a : TRUE]
NextIn(pp, prev, this) == IF this = {} THEN {} ELSE Xor(prev, PointerIn(pp, this))

LEMMA ChooseOne ==
  ASSUME NEW x
  PROVE  (CHOOSE n \in {x} : TRUE) = x
OBVIOUS

\* The addresses of the nodes, as XorWalk computes them.
XorPlaces(front, pp, f) ==
  f = [k \in 0 .. Cardinality(XorNode) |->
         IF k = 0 THEN {} ELSE IF k = 1 THEN front ELSE NextIn(pp, f[k - 2], f[k - 1])]

XorChosen(front, pp, f) == f = CHOOSE g : XorPlaces(front, pp, g)

XorAlong(f, w) ==
  w = [i \in {k \in 1 .. Cardinality(XorNode) : \A j \in 1 .. k : Cardinality(f[j]) = 1} |->
         CHOOSE n \in f[i] : TRUE]

LEMMA XorWalkIsAlong ==
  /\ \E f : XorChosen(xhead, pointer, f) /\ XorAlong(f, XorWalk)
  /\ \E f : XorChosen(xhead', pointer', f) /\ XorAlong(f, XorWalk')
<1> DEFINE f == CHOOSE g : XorPlaces(xhead, pointer, g)
           h == CHOOSE g : XorPlaces(xhead', pointer', g)
<1>1. XorAlong(f, XorWalk)
  BY Zenon DEF XorWalk, XorPlaces, XorAlong, GetNext, PointerOf, NextIn, PointerIn
<1>2. XorAlong(h, XorWalk')
  BY Zenon DEF XorWalk, XorPlaces, XorAlong, GetNext, PointerOf, NextIn, PointerIn
<1> QED
  BY <1>1, <1>2 DEF XorChosen


LEMMA OneNode ==
  Cardinality({}) = 0 /\ \A x : Cardinality({x}) = 1
BY FS_EmptySet, FS_Singleton

\* A walk along such pointers visits the nodes of s.
LEMMA XorWalkIs ==
  ASSUME IsFiniteSet(XorNode), NEW front, NEW pp, NEW s, XorLinks(front, pp, s),
         NEW f, XorChosen(front, pp, f), NEW w, XorAlong(f, w)
  PROVE  w = s
<1> DEFINE N == Cardinality(XorNode)
           h == [k \in 0 .. N |-> Nth(s, k)]
<1>1. /\ Len(s) \in Nat /\ N \in Nat /\ Len(s) <= N
      /\ s = [i \in 1 .. Len(s) |-> s[i]]
  <2>1. s \in Seq(XorNode) /\ EachOnce(s)
    BY DEF XorLinks
  <2> QED
    BY <2>1, OnceFits, LenProperties
<1> HIDE DEF N
<1>2. ASSUME NEW k \in 2 .. N
      PROVE  Nth(s, k) = NextIn(pp, Nth(s, k - 2), Nth(s, k - 1))
  <2>1. CASE k - 1 > Len(s)
    <3>1. Nth(s, k) = {} /\ Nth(s, k - 1) = {}
      BY <1>1, <2>1 DEF Nth
    <3> QED
      BY <3>1 DEF NextIn
  <2>2. CASE k - 1 <= Len(s)
    <3>1. k - 1 \in 1 .. Len(s) /\ (k - 1) - 1 = k - 2 /\ (k - 1) + 1 = k
      BY <1>1, <2>2
    <3>2. Nth(s, k - 1) = {s[k - 1]}
      BY <3>1 DEF Nth
    <3>3. pp[s[k - 1]] = Xor(Nth(s, k - 2), Nth(s, k))
      BY <3>1 DEF XorLinks
    <3>4. PointerIn(pp, {s[k - 1]}) = pp[s[k - 1]]
      BY ChooseOne, Zenon DEF PointerIn
    <3>5. NextIn(pp, Nth(s, k - 2), {s[k - 1]}) = Xor(Nth(s, k - 2), pp[s[k - 1]])
      BY <3>4 DEF NextIn
    <3>6. Xor(Nth(s, k - 2), Xor(Nth(s, k - 2), Nth(s, k))) = Nth(s, k)
      BY XorBack, Zenon
    <3>7. NextIn(pp, Nth(s, k - 2), {s[k - 1]}) = Nth(s, k)
      BY <3>3, <3>5, <3>6, Zenon
    <3> QED
      BY <3>2, <3>7, Zenon
  <2> QED
    BY <1>1, <2>1, <2>2
<1>3. Nth(s, 0) = {} /\ Nth(s, 1) = front
  BY DEF Nth, XorLinks
<1>4. XorPlaces(front, pp, h)
  <2>1. \A k \in 0 .. N :
           h[k] = IF k = 0 THEN {} ELSE IF k = 1 THEN front ELSE NextIn(pp, h[k - 2], h[k - 1])
    <3> SUFFICES ASSUME NEW k \in 0 .. N
                 PROVE  h[k] = IF k = 0 THEN {} ELSE IF k = 1 THEN front
                               ELSE NextIn(pp, h[k - 2], h[k - 1])
      OBVIOUS
    <3>1. h[k] = Nth(s, k)
      OBVIOUS
    <3>2. CASE k = 0
      BY <1>3, <3>1, <3>2
    <3>3. CASE k = 1
      BY <1>3, <3>1, <3>3
    <3>4. CASE k # 0 /\ k # 1
      <4>1. k \in 2 .. N /\ k - 2 \in 0 .. N /\ k - 1 \in 0 .. N
        BY <1>1, <3>4
      <4>2. h[k - 2] = Nth(s, k - 2) /\ h[k - 1] = Nth(s, k - 1)
        BY <4>1
      <4> HIDE DEF h
      <4> QED
        BY <1>2, <3>1, <3>4, <4>1, <4>2
    <3> QED
      BY <3>2, <3>3, <3>4
  <2>2. h = [k \in 0 .. N |-> h[k]]
    OBVIOUS
  <2> HIDE DEF h
  <2> QED
    BY <2>1, <2>2 DEF XorPlaces, N
<1>5. XorPlaces(front, pp, f)
  <2> HIDE DEF h
  <2> QED
    BY <1>4 DEF XorChosen
<1>6. \A k \in 0 .. N : f[k] = Nth(s, k)
  <2> DEFINE K == {k \in Nat : \A j \in 0 .. k : j \in 0 .. N => f[j] = Nth(s, j)}
  <2>1. \A k \in 0 .. N :
           f[k] = IF k = 0 THEN {} ELSE IF k = 1 THEN front ELSE NextIn(pp, f[k - 2], f[k - 1])
    BY <1>5 DEF XorPlaces, N
  <2>2. 0 \in K
    BY <1>1, <1>3, <2>1
  <2>3. ASSUME NEW k \in K PROVE k + 1 \in K
    <3>1. k \in Nat /\ \A j \in 0 .. k : j \in 0 .. N => f[j] = Nth(s, j)
      OBVIOUS
    <3>2. ASSUME k + 1 \in 0 .. N PROVE f[k + 1] = Nth(s, k + 1)
      <4>1. CASE k = 0
        <5>1. k + 1 = 1 /\ 1 \in 0 .. N /\ 1 # 0
          BY <3>2, <4>1
        <5> QED
          BY <1>3, <2>1, <5>1
      <4>2. CASE k # 0
        <5>1. /\ k + 1 \in 2 .. N /\ (k + 1) - 2 = k - 1 /\ (k + 1) - 1 = k
              /\ k - 1 \in 0 .. k /\ k \in 0 .. k /\ k - 1 \in 0 .. N /\ k \in 0 .. N
              /\ k + 1 # 0 /\ k + 1 # 1
          BY <1>1, <3>1, <3>2, <4>2
        <5>2. f[k - 1] = Nth(s, k - 1) /\ f[k] = Nth(s, k)
          BY <3>1, <5>1
        <5>3. f[k + 1] = NextIn(pp, f[k - 1], f[k])
          BY <2>1, <3>2, <5>1
        <5>4. Nth(s, k + 1) = NextIn(pp, Nth(s, k - 1), Nth(s, k))
          BY <1>2, <5>1
        <5> QED
          BY <5>2, <5>3, <5>4
      <4> QED
        BY <4>1, <4>2
    <3>3. \A j \in 0 .. k + 1 : j \in 0 .. k \/ j = k + 1
      BY <3>1
    <3> QED
      BY <3>1, <3>2, <3>3
  <2>4. K = Nat
    <3> HIDE DEF K
    <3>1. K \in SUBSET Nat
      BY DEF K
    <3> QED
      BY <2>2, <2>3, <3>1, Lists!AllNaturals
  <2>5. \A k \in 0 .. N : k \in Nat /\ k \in 0 .. k
    BY <1>1
  <2> QED
    BY <2>4, <2>5
<1>7. \A k \in 1 .. N : Cardinality(f[k]) = 1 <=> k <= Len(s)
  <2> SUFFICES ASSUME NEW k \in 1 .. N PROVE Cardinality(f[k]) = 1 <=> k <= Len(s)
    OBVIOUS
  <2>1. k \in 0 .. N /\ k \in Nat /\ k >= 1
    BY <1>1
  <2>2. f[k] = Nth(s, k)
    BY <1>6, <2>1
  <2>3. CASE k <= Len(s)
    <3>1. k \in 1 .. Len(s)
      BY <1>1, <2>1, <2>3
    <3>2. f[k] = {s[k]}
      BY <2>2, <3>1 DEF Nth
    <3>3. Cardinality(f[k]) = 1
      BY <3>2, OneNode, Zenon
    <3> QED
      BY <2>3, <3>3
  <2>4. CASE ~(k <= Len(s))
    <3>1. k \notin 1 .. Len(s)
      BY <1>1, <2>1, <2>4
    <3>2. f[k] = {}
      BY <2>2, <3>1 DEF Nth
    <3>3. Cardinality(f[k]) = 0
      BY <3>2, OneNode, Zenon
    <3> QED
      BY <2>4, <3>3
  <2> QED
    BY <2>3, <2>4
<1>8. \A k \in 1 .. N : (\A j \in 1 .. k : Cardinality(f[j]) = 1) <=> k <= Len(s)
  <2> SUFFICES ASSUME NEW k \in 1 .. N
               PROVE  (\A j \in 1 .. k : Cardinality(f[j]) = 1) <=> k <= Len(s)
    OBVIOUS
  <2>1. k \in 1 .. k /\ \A j \in 1 .. k : j \in 1 .. N /\ (k <= Len(s) => j <= Len(s))
    BY <1>1
  <2> QED
    BY <1>7, <2>1
<1>9. {k \in 1 .. Cardinality(XorNode) : \A j \in 1 .. k : Cardinality(f[j]) = 1} = 1 .. Len(s)
  BY <1>1, <1>8 DEF N
<1>10. \A i \in 1 .. Len(s) : (CHOOSE n \in f[i] : TRUE) = s[i]
  <2> SUFFICES ASSUME NEW i \in 1 .. Len(s) PROVE (CHOOSE n \in f[i] : TRUE) = s[i]
    OBVIOUS
  <2>1. i \in 0 .. N
    BY <1>1
  <2>2. f[i] = {s[i]}
    BY <1>6, <2>1 DEF Nth
  <2> QED
    BY <2>2, ChooseOne, Zenon
<1>11. w = [i \in 1 .. Len(s) |-> CHOOSE n \in f[i] : TRUE]
  BY <1>9, Zenon DEF XorAlong
<1>12. [i \in 1 .. Len(s) |-> CHOOSE n \in f[i] : TRUE] = [i \in 1 .. Len(s) |-> s[i]]
  BY <1>10, Zenon
<1> QED
  BY <1>1, <1>11, <1>12


\* n is put behind place i of s, as ListSpec says it.
Inserted(s, i, n) == SubSeq(s, 1, i) \o <<n>> \o SubSeq(s, i + 1, Len(s))

LEMMA InsertedProps ==
  ASSUME NEW S, NEW s \in Seq(S), NEW n \in S, NEW i \in 1 .. Len(s)
  PROVE  /\ Inserted(s, i, n) \in Seq(S) /\ Len(Inserted(s, i, n)) = Len(s) + 1
         /\ \A j \in 1 .. i : Inserted(s, i, n)[j] = s[j]
         /\ Inserted(s, i, n)[i + 1] = n
         /\ \A j \in i + 2 .. Len(s) + 1 : Inserted(s, i, n)[j] = s[j - 1]
<1>1. Len(s) \in Nat
  BY LenProperties
<1>2. PICK k \in 1 .. Len(s) + 1 : k = i + 1 /\ k - 1 = i
  <2>1. i + 1 \in 1 .. Len(s) + 1 /\ (i + 1) - 1 = i
    BY <1>1
  <2> QED
    BY <2>1
<1>3. Inserted(s, i, n) = Lists!InsertAt(s, k, n)
  BY <1>2 DEF Inserted, Lists!InsertAt
<1>4. \A j \in i + 2 .. Len(s) + 1 : j \in k + 1 .. Len(s) + 1
  BY <1>1, <1>2
<1>5. /\ Lists!InsertAt(s, k, n) \in Seq(S) /\ Len(Lists!InsertAt(s, k, n)) = Len(s) + 1
      /\ \A j \in 1 .. k - 1 : Lists!InsertAt(s, k, n)[j] = s[j]
      /\ Lists!InsertAt(s, k, n)[k] = n
      /\ \A j \in k + 1 .. Len(s) + 1 : Lists!InsertAt(s, k, n)[j] = s[j - 1]
  BY Lists!InsertAtProps
<1>6. \A j \in i + 2 .. Len(s) + 1 : Inserted(s, i, n)[j] = s[j - 1]
  BY <1>3, <1>4, <1>5
<1>7. Inserted(s, i, n)[i + 1] = n
  BY <1>2, <1>3, <1>5
<1> QED
  BY <1>2, <1>3, <1>5, <1>6, <1>7

LEMMA InsertedOnce ==
  ASSUME NEW S, NEW s \in Seq(S), EachOnce(s), NEW n \in S, Outside(n, s), NEW i \in 1 .. Len(s)
  PROVE  EachOnce(Inserted(s, i, n))
<1> DEFINE l == Inserted(s, i, n)
<1>1. /\ Len(s) \in Nat /\ Len(l) = Len(s) + 1
      /\ \A j \in 1 .. i : l[j] = s[j]
      /\ l[i + 1] = n
      /\ \A j \in i + 2 .. Len(s) + 1 : l[j] = s[j - 1]
  BY InsertedProps, LenProperties
<1> HIDE DEF l
<1>2. ASSUME NEW j \in 1 .. Len(l), j # i + 1
      PROVE  \E m \in 1 .. Len(s) : l[j] = s[m] /\ m = IF j <= i THEN j ELSE j - 1
  <2>1. CASE j <= i
    <3>1. j \in 1 .. i /\ j \in 1 .. Len(s)
      BY <1>1, <2>1
    <3> QED
      BY <1>1, <2>1, <3>1
  <2>2. CASE ~(j <= i)
    <3>1. j \in i + 2 .. Len(s) + 1 /\ j - 1 \in 1 .. Len(s)
      BY <1>1, <1>2, <2>2
    <3> QED
      BY <1>1, <2>2, <3>1
  <2> QED
    BY <2>1, <2>2
<1>3. EachOnce(l)
  <2> SUFFICES ASSUME NEW j \in 1 .. Len(l), NEW k \in 1 .. Len(l), l[j] = l[k] PROVE j = k
    BY DEF EachOnce
  <2>1. CASE j = i + 1 \/ k = i + 1
    BY <1>1, <1>2, <2>1 DEF Outside
  <2>2. CASE j # i + 1 /\ k # i + 1
    <3>1. PICK m \in 1 .. Len(s) : l[j] = s[m] /\ m = IF j <= i THEN j ELSE j - 1
      BY <1>2, <2>2
    <3>2. PICK q \in 1 .. Len(s) : l[k] = s[q] /\ q = IF k <= i THEN k ELSE k - 1
      BY <1>2, <2>2
    <3>3. m = q
      BY <3>1, <3>2 DEF EachOnce
    <3> QED
      BY <1>1, <2>2, <3>1, <3>2, <3>3
  <2> QED
    BY <2>1, <2>2
<1> QED
  BY <1>3 DEF l

LEMMA PlaceInserted ==
  ASSUME NEW S, NEW s \in Seq(S), NEW n \in S, NEW i \in 1 .. Len(s), NEW j \in Nat
  PROVE  Nth(Inserted(s, i, n), j)
           = IF j <= i THEN Nth(s, j) ELSE IF j = i + 1 THEN {n} ELSE Nth(s, j - 1)
<1> DEFINE l == Inserted(s, i, n)
<1>1. /\ Len(s) \in Nat /\ Len(l) = Len(s) + 1
      /\ \A k \in 1 .. i : l[k] = s[k]
      /\ l[i + 1] = n
      /\ \A k \in i + 2 .. Len(s) + 1 : l[k] = s[k - 1]
  <2>1. Len(s) \in Nat
    BY LenProperties
  <2> QED
    BY <2>1, InsertedProps, SMTT(30)
<1> HIDE DEF l
<1>2. CASE j <= i
  <2>1. j \in 1 .. Len(l) <=> j \in 1 .. Len(s)
    BY <1>1, <1>2
  <2>2. j \in 1 .. Len(s) => j \in 1 .. i
    BY <1>2
  <2>3. Nth(l, j) = Nth(s, j)
    BY <1>1, <2>1, <2>2 DEF Nth
  <2> QED
    BY <1>2, <2>3 DEF l
<1>3. CASE j = i + 1
  <2>1. j \in 1 .. Len(l) /\ l[j] = n
    BY <1>1, <1>3
  <2>2. Nth(l, j) = {n}
    BY <2>1 DEF Nth
  <2>3. ~(j <= i)
    BY <1>3
  <2> QED
    BY <1>3, <2>2, <2>3 DEF l
<1>4. CASE j > i + 1
  <2>1. j \in 1 .. Len(l) <=> j - 1 \in 1 .. Len(s)
    BY <1>1, <1>4
  <2>2. j \in 1 .. Len(l) => j \in i + 2 .. Len(s) + 1
    BY <1>1, <1>4
  <2>3. Nth(l, j) = Nth(s, j - 1)
    BY <1>1, <2>1, <2>2 DEF Nth
  <2>4. ~(j <= i) /\ j # i + 1
    BY <1>4
  <2> QED
    BY <2>3, <2>4 DEF l
<1> QED
  BY <1>2, <1>3, <1>4

LEMMA PlaceWithout ==
  ASSUME NEW S, NEW s \in Seq(S), NEW p \in 1 .. Len(s), NEW j \in Nat
  PROVE  Nth(Without(s, p), j) = IF j < p THEN Nth(s, j) ELSE Nth(s, j + 1)
<1> DEFINE l == Without(s, p)
<1>1. /\ Len(s) \in Nat /\ Len(l) = Len(s) - 1
      /\ \A i \in 1 .. p - 1 : l[i] = s[i]
      /\ \A i \in p .. Len(s) - 1 : l[i] = s[i + 1]
  BY WithoutProps, LenProperties
<1> HIDE DEF l
<1>2. CASE j < p
  <2>1. j \in 1 .. Len(l) <=> j \in 1 .. Len(s)
    BY <1>1, <1>2
  <2>2. j \in 1 .. Len(s) => j \in 1 .. p - 1
    BY <1>2
  <2>3. Nth(l, j) = Nth(s, j)
    BY <1>1, <2>1, <2>2 DEF Nth
  <2> QED
    BY <1>2, <2>3 DEF l
<1>3. CASE ~(j < p)
  <2>1. j \in 1 .. Len(l) <=> j + 1 \in 1 .. Len(s)
    BY <1>1, <1>3
  <2>2. j \in 1 .. Len(l) => j \in p .. Len(s) - 1
    BY <1>1, <1>3
  <2>3. Nth(l, j) = Nth(s, j + 1)
    BY <1>1, <2>1, <2>2 DEF Nth
  <2> QED
    BY <1>3, <2>3 DEF l
<1> QED
  BY <1>2, <1>3


\* n is put behind place i: three pointers change.
LEMMA XorInserted ==
  ASSUME NEW front, NEW pp, NEW s, XorLinks(front, pp, s),
         NEW n \in XorNode, Outside(n, s), NEW i \in 1 .. Len(s), NEW qq,
         qq[n] = Xor(Nth(s, i), Nth(s, i + 1)),
         qq[s[i]] = Xor(Nth(s, i - 1), {n}),
         \A x \in Nth(s, i + 1) : qq[x] = Xor({n}, Nth(s, i + 2)),
         \A x \in XorNode : x # n /\ x # s[i] /\ x \notin Nth(s, i + 1) => qq[x] = pp[x]
  PROVE  XorLinks(front, qq, Inserted(s, i, n))
<1> DEFINE l == Inserted(s, i, n)
<1>1. s \in Seq(XorNode) /\ EachOnce(s)
  BY DEF XorLinks
<1>2. Len(s) \in Nat /\ \A j \in 1 .. Len(s) : s[j] \in XorNode /\ s[j] # n
  BY <1>1, LenProperties DEF Outside
<1>3. /\ l \in Seq(XorNode) /\ Len(l) = Len(s) + 1
      /\ \A j \in 1 .. i : l[j] = s[j]
      /\ l[i + 1] = n
      /\ \A j \in i + 2 .. Len(s) + 1 : l[j] = s[j - 1]
  BY <1>1, InsertedProps
<1>4. EachOnce(l)
  BY <1>1, InsertedOnce
<1>5. \A j \in Nat : Nth(l, j) = IF j <= i THEN Nth(s, j)
                                   ELSE IF j = i + 1 THEN {n} ELSE Nth(s, j - 1)
  BY <1>1, PlaceInserted
<1> HIDE DEF l
<1>6. front = Nth(l, 1)
  BY <1>5 DEF XorLinks
<1>7. ASSUME NEW j \in 1 .. Len(s), j # i, j # i + 1
      PROVE  qq[s[j]] = Xor(Nth(s, j - 1), Nth(s, j + 1))
  <2>1. s[j] # s[i] /\ s[j] \in XorNode /\ s[j] # n
    BY <1>1, <1>2, <1>7 DEF EachOnce
  <2>2. s[j] \notin Nth(s, i + 1)
    <3>1. i + 1 \in 1 .. Len(s) => s[j] # s[i + 1]
      BY <1>1, <1>7 DEF EachOnce
    <3> QED
      BY <3>1 DEF Nth
  <2>3. qq[s[j]] = pp[s[j]]
    BY <2>1, <2>2
  <2> QED
    BY <2>3 DEF XorLinks
<1>8. ASSUME NEW j \in 1 .. Len(l) PROVE qq[l[j]] = Xor(Nth(l, j - 1), Nth(l, j + 1))
  <2>1. j \in Nat /\ j - 1 \in Nat /\ j + 1 \in Nat /\ i \in Nat /\ i >= 1
    BY <1>2, <1>3
  <2>2. CASE j < i
    <3>1. Nth(l, j - 1) = Nth(s, j - 1) /\ Nth(l, j + 1) = Nth(s, j + 1)
      BY <1>5, <2>1, <2>2
    <3>2. l[j] = s[j] /\ j \in 1 .. Len(s) /\ j # i /\ j # i + 1
      BY <1>2, <1>3, <2>1, <2>2
    <3> QED
      BY <1>7, <3>1, <3>2
  <2>3. CASE j = i
    <3>1. Nth(l, i - 1) = Nth(s, i - 1) /\ Nth(l, i + 1) = {n}
      BY <1>5, <2>1, <2>3
    <3>2. l[i] = s[i]
      BY <1>3, <2>1
    <3> QED
      BY <2>3, <3>1, <3>2
  <2>4. CASE j = i + 1
    <3>1. Nth(l, i) = Nth(s, i) /\ Nth(l, (i + 1) + 1) = Nth(s, i + 1)
          /\ j - 1 = i /\ j + 1 = (i + 1) + 1
      <4>1. i \in Nat /\ (i + 1) + 1 \in Nat /\ ~((i + 1) + 1 <= i) /\ (i + 1) + 1 # i + 1
            /\ ((i + 1) + 1) - 1 = i + 1
        BY <2>1
      <4> QED
        BY <1>5, <2>4, <4>1
    <3> QED
      BY <1>3, <2>4, <3>1
  <2>5. CASE j = i + 2
    <3>1. i + 1 \in 1 .. Len(s) /\ j \in i + 2 .. Len(s) + 1 /\ j - 1 = i + 1
          /\ (j + 1) - 1 = i + 2 /\ ~(j - 1 <= i) /\ ~(j + 1 <= i) /\ j + 1 # i + 1
      BY <1>2, <1>3, <2>1, <2>5
    <3>2. Nth(l, j - 1) = {n} /\ Nth(l, j + 1) = Nth(s, i + 2)
      BY <1>5, <2>1, <3>1
    <3>3. l[j] = s[i + 1]
      BY <1>3, <3>1
    <3>4. s[i + 1] \in Nth(s, i + 1)
      BY <3>1 DEF Nth
    <3> QED
      BY <3>2, <3>3, <3>4
  <2>6. CASE j > i + 2
    <3>1. j - 1 \in 1 .. Len(s) /\ j \in i + 2 .. Len(s) + 1 /\ j - 1 # i /\ j - 1 # i + 1
          /\ ~(j - 1 <= i) /\ ~(j + 1 <= i) /\ j + 1 # i + 1 /\ (j - 1) + 1 = (j + 1) - 1
      BY <1>2, <1>3, <2>1, <2>6
    <3>2. Nth(l, j - 1) = Nth(s, (j - 1) - 1) /\ Nth(l, j + 1) = Nth(s, (j - 1) + 1)
      BY <1>5, <2>1, <3>1
    <3>3. l[j] = s[j - 1]
      BY <1>3, <3>1
    <3>4. qq[s[j - 1]] = Xor(Nth(s, (j - 1) - 1), Nth(s, (j - 1) + 1))
      BY <1>7, <3>1
    <3> QED
      BY <3>2, <3>3, <3>4
  <2>7. j < i \/ j = i \/ j = i + 1 \/ j = i + 2 \/ j > i + 2
    BY <2>1
  <2> QED
    BY <2>2, <2>3, <2>4, <2>5, <2>6, <2>7
<1>9. ASSUME NEW x \in XorNode, Outside(x, l) PROVE qq[x] = {}
  <2>1. x # n
    <3>1. i + 1 \in 1 .. Len(l)
      BY <1>2, <1>3
    <3> QED
      BY <1>3, <1>9, <3>1 DEF Outside
  <2>2. Outside(x, s)
    <3> SUFFICES ASSUME NEW j \in 1 .. Len(s) PROVE s[j] # x
      BY DEF Outside
    <3>1. CASE j <= i
      <4>1. j \in 1 .. i /\ j \in 1 .. Len(l)
        BY <1>2, <1>3, <3>1
      <4>2. l[j] # x
        BY <1>9, <4>1 DEF Outside
      <4>3. l[j] = s[j]
        BY <1>3, <4>1
      <4> QED
        BY <4>2, <4>3
    <3>2. CASE ~(j <= i)
      <4>1. j + 1 \in i + 2 .. Len(s) + 1 /\ j + 1 \in 1 .. Len(l) /\ (j + 1) - 1 = j
        BY <1>2, <1>3, <3>2
      <4>2. l[j + 1] # x
        BY <1>9, <4>1 DEF Outside
      <4>3. l[j + 1] = s[j]
        BY <1>3, <4>1
      <4> QED
        BY <4>2, <4>3
    <3> QED
      BY <3>1, <3>2
  <2>3. x # s[i] /\ x \notin Nth(s, i + 1)
    BY <2>2 DEF Outside, Nth
  <2>4. qq[x] = pp[x]
    BY <2>1, <2>3
  <2> QED
    BY <2>2, <2>4 DEF XorLinks
<1>10. XorLinks(front, qq, l)
  BY <1>3, <1>4, <1>6, <1>8, <1>9 DEF XorLinks
<1> QED
  BY <1>10 DEF l

\* The node at p is taken out: its neighbours' pointers change.
LEMMA XorTakenOut ==
  ASSUME NEW front, NEW pp, NEW s, XorLinks(front, pp, s), NEW p \in 1 .. Len(s), NEW qq,
         qq[s[p]] = {},
         \A x \in Nth(s, p - 1) : qq[x] = Xor(Nth(s, p - 2), Nth(s, p + 1)),
         \A x \in Nth(s, p + 1) : qq[x] = Xor(Nth(s, p - 1), Nth(s, p + 2)),
         \A x \in XorNode :
           x # s[p] /\ x \notin Nth(s, p - 1) /\ x \notin Nth(s, p + 1) => qq[x] = pp[x],
         NEW start, start = IF p = 1 THEN Nth(s, 2) ELSE front
  PROVE  XorLinks(start, qq, Without(s, p))
<1> DEFINE l == Without(s, p)
<1>1. s \in Seq(XorNode) /\ EachOnce(s)
  BY DEF XorLinks
<1>2. Len(s) \in Nat /\ \A j \in 1 .. Len(s) : s[j] \in XorNode
  BY <1>1, LenProperties
<1>3. /\ l \in Seq(XorNode) /\ Len(l) = Len(s) - 1
      /\ \A i \in 1 .. p - 1 : l[i] = s[i]
      /\ \A i \in p .. Len(s) - 1 : l[i] = s[i + 1]
  BY <1>1, WithoutProps
<1>4. EachOnce(l) /\ \A i \in 1 .. Len(s) - 1 : \E j \in 1 .. Len(s) : j # p /\ l[i] = s[j]
  BY <1>1, WithoutOnce, SMTT(30)
<1>5. \A j \in Nat : Nth(l, j) = IF j < p THEN Nth(s, j) ELSE Nth(s, j + 1)
  BY <1>1, PlaceWithout
<1> HIDE DEF l
<1>6. start = Nth(l, 1)
  <2>1. CASE p = 1
    <3>1. Nth(l, 1) = Nth(s, 1 + 1)
      BY <1>5, <2>1
    <3> QED
      BY <2>1, <3>1
  <2>2. CASE p # 1
    <3>1. 1 < p
      BY <2>2
    <3>2. Nth(l, 1) = Nth(s, 1)
      BY <1>5, <3>1
    <3> QED
      BY <2>2, <3>2 DEF XorLinks
  <2> QED
    BY <2>1, <2>2
<1>7. ASSUME NEW j \in 1 .. Len(s), j # p, j # p - 1, j # p + 1
      PROVE  qq[s[j]] = Xor(Nth(s, j - 1), Nth(s, j + 1))
  <2>1. s[j] # s[p] /\ s[j] \in XorNode
    BY <1>1, <1>2, <1>7 DEF EachOnce
  <2>2. s[j] \notin Nth(s, p + 1) /\ s[j] \notin Nth(s, p - 1)
    <3>1. p + 1 \in 1 .. Len(s) => s[j] # s[p + 1]
      BY <1>1, <1>7 DEF EachOnce
    <3>2. p - 1 \in 1 .. Len(s) => s[j] # s[p - 1]
      BY <1>1, <1>7 DEF EachOnce
    <3> QED
      BY <3>1, <3>2 DEF Nth
  <2>3. qq[s[j]] = pp[s[j]]
    BY <2>1, <2>2
  <2> QED
    BY <2>3 DEF XorLinks
<1>8. ASSUME NEW j \in 1 .. Len(l) PROVE qq[l[j]] = Xor(Nth(l, j - 1), Nth(l, j + 1))
  <2>1. j \in Nat /\ j - 1 \in Nat /\ j + 1 \in Nat /\ p \in Nat /\ p >= 1 /\ j <= Len(s) - 1 /\ j >= 1
    BY <1>2, <1>3
  <2>2. CASE j < p - 1
    <3>1. Nth(l, j - 1) = Nth(s, j - 1) /\ Nth(l, j + 1) = Nth(s, j + 1)
      BY <1>5, <2>1, <2>2
    <3>2. l[j] = s[j] /\ j \in 1 .. Len(s) /\ j # p /\ j # p - 1 /\ j # p + 1
      BY <1>2, <1>3, <2>1, <2>2
    <3> QED
      BY <1>7, <3>1, <3>2
  <2>3. CASE j = p - 1
    <3>1. j \in 1 .. p - 1 /\ j \in 1 .. Len(s) /\ j - 1 < p /\ ~(j + 1 < p) /\ j - 1 = p - 2
          /\ (j + 1) + 1 = p + 1 /\ p - 1 \in 1 .. Len(s)
      BY <1>2, <2>1, <2>3
    <3>2. Nth(l, j - 1) = Nth(s, p - 2) /\ Nth(l, j + 1) = Nth(s, p + 1)
      BY <1>5, <2>1, <3>1
    <3>3. l[j] = s[p - 1] /\ s[p - 1] \in Nth(s, p - 1)
      BY <1>3, <2>3, <3>1 DEF Nth
    <3> QED
      BY <3>2, <3>3
  <2>4. CASE j = p
    <3>1. j \in p .. Len(s) - 1 /\ j - 1 < p /\ ~(j + 1 < p) /\ p + 1 \in 1 .. Len(s)
          /\ (j + 1) + 1 = p + 2
      BY <1>2, <2>1, <2>4
    <3>2. Nth(l, j - 1) = Nth(s, p - 1) /\ Nth(l, j + 1) = Nth(s, p + 2)
      BY <1>5, <2>1, <2>4, <3>1
    <3>3. l[j] = s[p + 1] /\ s[p + 1] \in Nth(s, p + 1)
      BY <1>3, <2>4, <3>1 DEF Nth
    <3> QED
      BY <3>2, <3>3
  <2>5. CASE j > p
    <3>1. j + 1 \in 1 .. Len(s) /\ j \in p .. Len(s) - 1 /\ j + 1 # p /\ j + 1 # p - 1 /\ j + 1 # p + 1
          /\ ~(j - 1 < p) /\ ~(j + 1 < p) /\ (j - 1) + 1 = (j + 1) - 1
      BY <1>2, <2>1, <2>5
    <3>2. Nth(l, j - 1) = Nth(s, (j + 1) - 1) /\ Nth(l, j + 1) = Nth(s, (j + 1) + 1)
      BY <1>5, <2>1, <3>1
    <3>3. l[j] = s[j + 1]
      BY <1>3, <3>1
    <3>4. qq[s[j + 1]] = Xor(Nth(s, (j + 1) - 1), Nth(s, (j + 1) + 1))
      BY <1>7, <3>1
    <3> QED
      BY <3>2, <3>3, <3>4
  <2>6. j < p - 1 \/ j = p - 1 \/ j = p \/ j > p
    BY <2>1
  <2> QED
    BY <2>2, <2>3, <2>4, <2>5, <2>6
<1>9. ASSUME NEW x \in XorNode, Outside(x, l) PROVE qq[x] = {}
  <2>1. CASE x = s[p]
    BY <2>1
  <2>2. CASE x # s[p]
    <3>1. Outside(x, s)
      <4> SUFFICES ASSUME NEW j \in 1 .. Len(s), j # p PROVE s[j] # x
        BY <2>2 DEF Outside
      <4>1. CASE j < p
        <5>1. j \in 1 .. p - 1 /\ j \in 1 .. Len(l)
          BY <1>2, <1>3, <4>1
        <5>2. l[j] # x
          BY <1>9, <5>1 DEF Outside
        <5>3. l[j] = s[j]
          BY <1>3, <5>1
        <5> QED
          BY <5>2, <5>3
      <4>2. CASE ~(j < p)
        <5>1. j - 1 \in p .. Len(s) - 1 /\ j - 1 \in 1 .. Len(l) /\ (j - 1) + 1 = j
          BY <1>2, <1>3, <4>2
        <5>2. l[j - 1] # x
          BY <1>9, <5>1 DEF Outside
        <5>3. l[j - 1] = s[j]
          BY <1>3, <5>1
        <5> QED
          BY <5>2, <5>3
      <4> QED
        BY <4>1, <4>2
    <3>2. x \notin Nth(s, p - 1) /\ x \notin Nth(s, p + 1)
      BY <3>1 DEF Outside, Nth
    <3>3. qq[x] = pp[x]
      BY <2>2, <3>2
    <3> QED
      BY <3>1, <3>3 DEF XorLinks
  <2> QED
    BY <2>1, <2>2
<1>10. XorLinks(start, qq, l)
  BY <1>3, <1>4, <1>6, <1>8, <1>9 DEF XorLinks
<1> QED
  BY <1>10 DEF l


XorInv == DOMAIN pointer = XorNode /\ XorLinks(xhead, pointer, XorWalk)

LEMMA XorFacts ==
  ASSUME XorInv
  PROVE  /\ Len(XorWalk) \in Nat /\ DOMAIN XorWalk = 1 .. Len(XorWalk)
         /\ XorWalk \in Seq(XorNode) /\ EachOnce(XorWalk)
         /\ \A i \in 1 .. Len(XorWalk) : XorWalk[i] \in XorNode
         /\ \A i : At(i) = Nth(XorWalk, i)
         /\ \A n : Unlinked(n) <=> Outside(n, XorWalk)
<1>1. XorWalk \in Seq(XorNode) /\ EachOnce(XorWalk)
  BY DEF XorInv, XorLinks
<1>2. /\ Len(XorWalk) \in Nat /\ DOMAIN XorWalk = 1 .. Len(XorWalk)
      /\ \A i \in 1 .. Len(XorWalk) : XorWalk[i] \in XorNode
  BY <1>1, LenProperties
<1>3. \A i : At(i) = Nth(XorWalk, i)
  BY <1>2, Zenon DEF At, Nth
<1>4. \A n : Unlinked(n) <=> Outside(n, XorWalk)
  BY <1>2, Zenon DEF Unlinked, Outside
<1> QED
  BY <1>1, <1>2, <1>3, <1>4

\* What follows once the pointers of the next state link the nodes of s.
LEMMA XorMoves ==
  ASSUME XorInv, IsFiniteSet(XorNode), NEW s, XorLinks(xhead', pointer', s),
         Turned(XorNode, XorWalk, s), DOMAIN pointer' = XorNode
  PROVE  XorInv' /\ [XList!Next]_<<XorWalk, Len(XorWalk)>>
<1>1. XorWalk' = s
  <2>1. PICK f : XorChosen(xhead', pointer', f) /\ XorAlong(f, XorWalk')
    BY XorWalkIsAlong
  <2> QED
    BY <2>1, XorWalkIs
<1>2. XorInv'
  BY <1>1 DEF XorInv
<1>3. DOMAIN XorWalk = 1 .. Len(XorWalk)
  BY XorFacts
<1>4. ASSUME s # XorWalk PROVE XList!Next
  <2>1. ASSUME NEW n \in XorNode, Outside(n, XorWalk) PROVE n \notin XList!Members
    BY <1>3, <2>1 DEF XList!Members, Outside
  <2>2. XList!Is(s)
    BY <1>1 DEF XList!Is
  <2>3. CASE \E n \in XorNode :
               /\ Outside(n, XorWalk)
               /\ \/ s = Append(XorWalk, n)
                  \/ s = <<n>> \o XorWalk
                  \/ \E i \in 1 .. Len(XorWalk) :
                       s = SubSeq(XorWalk, 1, i) \o <<n>> \o SubSeq(XorWalk, i + 1, Len(XorWalk))
    BY <1>1, <1>3, <1>4, <2>1, <2>2, <2>3, Zenon
       DEF XList!Next, XList!Append_, XList!Prepend, XList!AddBehind
  <2>4. CASE \E p \in 1 .. Len(XorWalk) : s = Without(XorWalk, p)
    BY <1>1, <1>3, <1>4, <2>2, <2>4, Zenon DEF XList!Next, XList!Remove, Without
  <2>5. CASE XorWalk # <<>> /\ s = <<XorWalk[1]>>
    BY <1>1, <1>4, <2>2, <2>5, Zenon DEF XList!Next, XList!Cut
  <2> QED
    BY <1>4, <2>3, <2>4, <2>5 DEF Turned
<1>5. ASSUME s = XorWalk PROVE UNCHANGED <<XorWalk, Len(XorWalk)>>
  BY <1>1, <1>5
<1> QED
  BY <1>2, <1>4, <1>5

\* What Stores leaves.
LEMMA StoresProps ==
  ASSUME NEW pp, NEW a, NEW v
  PROVE  /\ DOMAIN Stores(pp, a, v) = XorNode
         /\ \A x \in XorNode : Stores(pp, a, v)[x] = IF x \in a THEN v ELSE pp[x]
BY DEF Stores

\* The pointers of the nodes of the list, as the code reads them.
LEMMA XorReads ==
  ASSUME XorInv, NEW i \in 1 .. Len(XorWalk)
  PROVE  /\ At(i) = {XorWalk[i]}
         /\ PointerOf(At(i)) = Xor(At(i - 1), At(i + 1))
         /\ GetNext(At(i - 1), At(i)) = At(i + 1)
         /\ GetPrev(At(i), At(i + 1)) = At(i - 1)
<1>1. At(i) = {XorWalk[i]}
  BY XorFacts DEF Nth
<1>2. pointer[XorWalk[i]] = Xor(At(i - 1), At(i + 1))
  <2>1. pointer[XorWalk[i]] = Xor(Nth(XorWalk, i - 1), Nth(XorWalk, i + 1))
    BY DEF XorInv, XorLinks
  <2> QED
    BY <2>1, XorFacts
<1>3. PointerOf({XorWalk[i]}) = pointer[XorWalk[i]]
  BY ChooseOne, Zenon DEF PointerOf
<1>4. PointerOf(At(i)) = Xor(At(i - 1), At(i + 1)) /\ At(i) # {}
  BY <1>1, <1>2, <1>3
<1>5. GetNext(At(i - 1), At(i)) = Xor(At(i - 1), Xor(At(i - 1), At(i + 1)))
  BY <1>4, Zenon DEF GetNext
<1>6. GetPrev(At(i), At(i + 1)) = Xor(Xor(At(i - 1), At(i + 1)), At(i + 1))
  BY <1>4, Zenon DEF GetPrev
<1> QED
  BY <1>1, <1>4, <1>5, <1>6, XorBack

LEMMA XorInsertStep ==
  ASSUME XorInv, IsFiniteSet(XorNode), NEW n \in XorNode, Unlinked(n),
         NEW i \in 1 .. Len(XorWalk),
         pointer' = Insert(At(i - 1), At(i), {n}), xhead' = xhead
  PROVE  XorInv' /\ [XList!Next]_<<XorWalk, Len(XorWalk)>>
<1> DEFINE w == XorWalk
           behind == At(i + 1)
           one == Stores(pointer, At(i), Xor(At(i - 1), {n}))
           two == Stores(one, {n}, Xor(At(i), behind))
           three == Stores(two, behind, Xor({n}, Xor(PointerOf(behind), At(i))))
           s == Inserted(w, i, n)
<1>1. pointer' = three
  BY XorReads, Zenon DEF Insert
<1>2. /\ At(i) = {w[i]} /\ w[i] \in XorNode /\ w[i] # n /\ Outside(n, w) /\ EachOnce(w)
      /\ Len(w) \in Nat /\ XorLinks(xhead, pointer, w)
      /\ At(i - 1) = Nth(w, i - 1) /\ At(i) = Nth(w, i) /\ At(i + 1) = Nth(w, i + 1)
      /\ At(i + 2) = Nth(w, i + 2)
  <2>1. Outside(n, w)
    BY XorFacts
  <2>2. w[i] # n
    BY <2>1 DEF Outside
  <2> QED
    BY <2>1, <2>2, XorReads, XorFacts DEF XorInv
<1>3. n \notin behind /\ w[i] \notin behind /\ \A x \in behind : x \in XorNode
  <2>1. i + 1 \in 1 .. Len(w) => w[i + 1] # n /\ w[i + 1] # w[i] /\ w[i + 1] \in XorNode
    BY <1>2, XorFacts DEF Outside, EachOnce
  <2> QED
    BY <1>2, <2>1 DEF Nth
<1>4. ASSUME NEW x \in behind PROVE Xor(PointerOf(behind), At(i)) = At(i + 2)
  <2>1. i + 1 \in 1 .. Len(w)
    BY <1>2, <1>4 DEF Nth
  <2>2. PointerOf(At(i + 1)) = Xor(At((i + 1) - 1), At((i + 1) + 1))
    BY <2>1, XorReads
  <2>3. (i + 1) - 1 = i /\ (i + 1) + 1 = i + 2
    OBVIOUS
  <2> HIDE DEF behind
  <2>4. PointerOf(behind) = Xor(At(i), At(i + 2))
    BY <2>2, <2>3 DEF behind
  <2> QED
    BY <2>4, XorBack
<1> HIDE DEF w, behind
<1>5. /\ DOMAIN three = XorNode
      /\ \A x \in XorNode : three[x] = IF x \in behind THEN Xor({n}, Xor(PointerOf(behind), At(i)))
                                       ELSE two[x]
      /\ \A x \in XorNode : two[x] = IF x \in {n} THEN Xor(At(i), behind) ELSE one[x]
      /\ \A x \in XorNode : one[x] = IF x \in At(i) THEN Xor(At(i - 1), {n}) ELSE pointer[x]
  <2>1. \A x \in XorNode : one[x] = IF x \in At(i) THEN Xor(At(i - 1), {n}) ELSE pointer[x]
    BY StoresProps
  <2> HIDE DEF one
  <2>2. \A x \in XorNode : two[x] = IF x \in {n} THEN Xor(At(i), behind) ELSE one[x]
    BY StoresProps
  <2> HIDE DEF two
  <2>3. /\ DOMAIN three = XorNode
        /\ \A x \in XorNode : three[x] = IF x \in behind THEN Xor({n}, Xor(PointerOf(behind), At(i)))
                                         ELSE two[x]
    BY StoresProps
  <2> HIDE DEF three
  <2> QED
    BY <2>1, <2>2, <2>3
<1> HIDE DEF one, two, three
<1>6. pointer'[n] = Xor(At(i), behind)
  BY <1>1, <1>3, <1>5
<1>7. pointer'[w[i]] = Xor(At(i - 1), {n})
  BY <1>1, <1>2, <1>3, <1>5
<1>8. \A x \in behind : pointer'[x] = Xor({n}, At(i + 2))
  BY <1>1, <1>3, <1>4, <1>5
<1>9. \A x \in XorNode : x # n /\ x # w[i] /\ x \notin behind => pointer'[x] = pointer[x]
  BY <1>1, <1>2, <1>5
<1>10. XorLinks(xhead, pointer', s)
  <2>1. pointer'[n] = Xor(Nth(w, i), Nth(w, i + 1))
    BY <1>2, <1>6 DEF behind
  <2>2. pointer'[w[i]] = Xor(Nth(w, i - 1), {n})
    BY <1>2, <1>7
  <2>3. \A x \in Nth(w, i + 1) : pointer'[x] = Xor({n}, Nth(w, i + 2))
    BY <1>2, <1>8 DEF behind
  <2>4. \A x \in XorNode : x # n /\ x # w[i] /\ x \notin Nth(w, i + 1) => pointer'[x] = pointer[x]
    BY <1>2, <1>9 DEF behind
  <2>5. i \in 1 .. Len(w)
    BY DEF w
  <2> HIDE DEF s
  <2>6. XorLinks(xhead, pointer, w) /\ Outside(n, w)
    BY <1>2
  <2>7. XorLinks(xhead, pointer', Inserted(w, i, n))
    BY <2>1, <2>2, <2>3, <2>4, <2>5, <2>6, XorInserted
  <2> QED
    BY <2>7 DEF s
<1>11. Turned(XorNode, XorWalk, s)
  BY <1>2 DEF Turned, Inserted, w
<1> HIDE DEF s
<1> QED
  BY <1>1, <1>5, <1>10, <1>11, XorMoves


LEMMA XorRemoveStep ==
  ASSUME XorInv, IsFiniteSet(XorNode), NEW i \in 1 .. Len(XorWalk), XorRemove(i)
  PROVE  XorInv' /\ [XList!Next]_<<XorWalk, Len(XorWalk)>>
<1> DEFINE w == XorWalk
           this == At(i)
           prev == At(i - 1)
           behind == At(i + 1)
           a == Xor(GetPrev(prev, this), behind)
           b == Xor(Xor(PointerOf(behind), this), prev)
           one == Stores(pointer, prev, a)
           two == Stores(one, behind, b)
           three == Stores(two, this, {})
           s == Without(w, i)
<1>1. /\ pointer' = three
      /\ xhead' = IF i = 1 THEN behind ELSE xhead
  <2>1. GetNext(prev, this) = behind
    BY XorReads
  <2> QED
    BY <2>1, Zenon DEF XorRemove
<1>2. /\ this = {w[i]} /\ w[i] \in XorNode /\ EachOnce(w) /\ Len(w) \in Nat /\ i \in 1 .. Len(w)
      /\ XorLinks(xhead, pointer, w)
      /\ At(i - 2) = Nth(w, i - 2) /\ prev = Nth(w, i - 1)
      /\ behind = Nth(w, i + 1) /\ At(i + 2) = Nth(w, i + 2)
  BY XorReads, XorFacts DEF XorInv
<1>3. /\ w[i] \notin behind /\ w[i] \notin prev
      /\ \A x \in behind : x \in XorNode /\ x \notin prev
      /\ \A x \in prev : x \in XorNode
  <2>1. i + 1 \in 1 .. Len(w) => w[i + 1] # w[i] /\ w[i + 1] \in XorNode
    BY <1>2, XorFacts DEF EachOnce
  <2>2. i - 1 \in 1 .. Len(w) => w[i - 1] # w[i] /\ w[i - 1] \in XorNode
    BY <1>2, XorFacts DEF EachOnce
  <2>3. i - 1 \in 1 .. Len(w) /\ i + 1 \in 1 .. Len(w) => w[i - 1] # w[i + 1]
    BY <1>2 DEF EachOnce
  <2> QED
    BY <1>2, <2>1, <2>2, <2>3 DEF Nth
<1>4. ASSUME NEW x \in behind PROVE b = Xor(prev, At(i + 2))
  <2>1. i + 1 \in 1 .. Len(w)
    BY <1>2, <1>4 DEF Nth
  <2>2. PointerOf(At(i + 1)) = Xor(At((i + 1) - 1), At((i + 1) + 1))
    BY <2>1, XorReads
  <2>3. (i + 1) - 1 = i /\ (i + 1) + 1 = i + 2
    OBVIOUS
  <2>4. PointerOf(behind) = Xor(this, At(i + 2))
    BY <2>2, <2>3
  <2> HIDE DEF behind, this, prev
  <2>5. Xor(PointerOf(behind), this) = At(i + 2)
    BY <2>4, XorBack
  <2> QED
    BY <2>5, XorBack
<1>5. ASSUME NEW x \in prev PROVE a = Xor(At(i - 2), behind)
  <2>1. i - 1 \in 1 .. Len(w)
    BY <1>2, <1>5 DEF Nth
  <2>2. GetPrev(At(i - 1), At((i - 1) + 1)) = At((i - 1) - 1)
    BY <2>1, XorReads
  <2>3. (i - 1) + 1 = i /\ (i - 1) - 1 = i - 2
    OBVIOUS
  <2>4. GetPrev(prev, this) = At(i - 2)
    BY <2>2, <2>3
  <2> HIDE DEF behind, this, prev
  <2> QED
    BY <2>4
<1> HIDE DEF w, this, prev, behind, a, b
<1>6. /\ DOMAIN three = XorNode
      /\ \A x \in XorNode : three[x] = IF x \in this THEN {} ELSE two[x]
      /\ \A x \in XorNode : two[x] = IF x \in behind THEN b ELSE one[x]
      /\ \A x \in XorNode : one[x] = IF x \in prev THEN a ELSE pointer[x]
  <2>1. \A x \in XorNode : one[x] = IF x \in prev THEN a ELSE pointer[x]
    BY StoresProps
  <2> HIDE DEF one
  <2>2. \A x \in XorNode : two[x] = IF x \in behind THEN b ELSE one[x]
    BY StoresProps
  <2> HIDE DEF two
  <2>3. /\ DOMAIN three = XorNode
        /\ \A x \in XorNode : three[x] = IF x \in this THEN {} ELSE two[x]
    BY StoresProps
  <2> HIDE DEF three
  <2> QED
    BY <2>1, <2>2, <2>3
<1> HIDE DEF one, two, three
<1>7. pointer'[w[i]] = {}
  BY <1>1, <1>2, <1>6
<1>8. \A x \in prev : pointer'[x] = Xor(At(i - 2), behind)
  BY <1>1, <1>2, <1>3, <1>5, <1>6
<1>9. \A x \in behind : pointer'[x] = Xor(prev, At(i + 2))
  BY <1>1, <1>2, <1>3, <1>4, <1>6
<1>10. \A x \in XorNode : x # w[i] /\ x \notin prev /\ x \notin behind => pointer'[x] = pointer[x]
  BY <1>1, <1>2, <1>6
<1>11. XorLinks(xhead', pointer', s)
  <2>1. \A x \in Nth(w, i - 1) : pointer'[x] = Xor(Nth(w, i - 2), Nth(w, i + 1))
    BY <1>2, <1>8
  <2>2. \A x \in Nth(w, i + 1) : pointer'[x] = Xor(Nth(w, i - 1), Nth(w, i + 2))
    BY <1>2, <1>9
  <2>3. \A x \in XorNode : x # w[i] /\ x \notin Nth(w, i - 1) /\ x \notin Nth(w, i + 1)
                             => pointer'[x] = pointer[x]
    BY <1>2, <1>10
  <2>4. xhead' = IF i = 1 THEN Nth(w, 2) ELSE xhead
    <3>1. i = 1 => i + 1 = 2
      OBVIOUS
    <3> QED
      BY <1>1, <1>2, <3>1
  <2>5. XorLinks(xhead, pointer, w) /\ i \in 1 .. Len(w)
    BY <1>2
  <2> HIDE DEF s
  <2>6. XorLinks(xhead', pointer', Without(w, i))
    BY <1>7, <2>1, <2>2, <2>3, <2>4, <2>5, XorTakenOut
  <2> QED
    BY <2>6 DEF s
<1>12. Turned(XorNode, XorWalk, s)
  BY <1>2 DEF Turned, w
<1> HIDE DEF s
<1> QED
  BY <1>1, <1>6, <1>11, <1>12, XorMoves

LEMMA XorStartStep ==
  ASSUME XorInv, IsFiniteSet(XorNode), NEW n \in XorNode, XorStart(n)
  PROVE  XorInv' /\ [XList!Next]_<<XorWalk, Len(XorWalk)>>
<1> DEFINE s == <<n>>
<1>1. xhead = {} /\ xhead' = {n} /\ pointer' = [pointer EXCEPT ![n] = {}]
  BY DEF XorStart
<1>2. /\ DOMAIN pointer = XorNode /\ XorWalk \in Seq(XorNode) /\ Len(XorWalk) \in Nat
      /\ xhead = Nth(XorWalk, 1)
      /\ \A x \in XorNode : Outside(x, XorWalk) => pointer[x] = {}
  BY XorFacts DEF XorInv, XorLinks
<1>3. Len(XorWalk) = 0
  <2>1. Nth(XorWalk, 1) = {} /\ Len(XorWalk) \in Nat
    BY <1>1, <1>2
  <2>2. 1 \notin 1 .. Len(XorWalk)
    BY <2>1 DEF Nth
  <2>3. \A m \in Nat : 1 \notin 1 .. m => m = 0
    OBVIOUS
  <2> QED
    BY <2>1, <2>2, <2>3, Zenon
<1>4. XorWalk = <<>>
  BY <1>2, <1>3, EmptySeq
<1>5. \A x \in XorNode : pointer[x] = {} /\ pointer'[x] = {}
  BY <1>1, <1>2, <1>3 DEF Outside
<1>6. s \in Seq(XorNode) /\ Len(s) = 1 /\ s[1] = n
  OBVIOUS
<1>7. Turned(XorNode, XorWalk, s)
  <2>1. Append(XorWalk, n) = s /\ Outside(n, XorWalk)
    BY <1>3, <1>4 DEF Outside
  <2> QED
    BY <2>1 DEF Turned
<1> HIDE DEF s
<1>8. XorLinks(xhead', pointer', s)
  <2>1. Nth(s, 1) = {n} /\ Nth(s, 0) = {} /\ Nth(s, 2) = {}
    BY <1>6 DEF Nth
  <2>2. \A i \in 1 .. Len(s) : pointer'[s[i]] = Xor(Nth(s, i - 1), Nth(s, i + 1))
    <3> SUFFICES ASSUME NEW i \in 1 .. Len(s)
                 PROVE  pointer'[s[i]] = Xor(Nth(s, i - 1), Nth(s, i + 1))
      OBVIOUS
    <3>1. i = 1 /\ i - 1 = 0 /\ i + 1 = 2
      BY <1>6
    <3>2. pointer'[s[i]] = {}
      BY <1>5, <1>6, <3>1
    <3>3. Nth(s, i - 1) = {} /\ Nth(s, i + 1) = {}
      BY <2>1, <3>1
    <3> QED
      BY <3>2, <3>3, XorBack
  <2>3. EachOnce(s)
    BY <1>6 DEF EachOnce
  <2> QED
    BY <1>1, <1>5, <1>6, <2>1, <2>2, <2>3 DEF XorLinks
<1>9. DOMAIN pointer' = XorNode
  BY <1>1, <1>2
<1> QED
  BY <1>7, <1>8, <1>9, XorMoves

LEMMA XorStep ==
  ASSUME XorInv, IsFiniteSet(XorNode), XorNext \/ UNCHANGED xorVars
  PROVE  XorInv' /\ [XList!Next]_<<XorWalk, Len(XorWalk)>>
<1>1. ASSUME NEW n \in XorNode, NEW i \in DOMAIN XorWalk, XorAdd(i, n)
      PROVE  XorInv' /\ [XList!Next]_<<XorWalk, Len(XorWalk)>>
  <2>1. i \in 1 .. Len(XorWalk)
    BY XorFacts
  <2> QED
    BY <1>1, <2>1, XorInsertStep DEF XorAdd
\* Its predecessor is found backwards, from the end.
<1>2. ASSUME NEW n \in XorNode, XorAddLast(n)
      PROVE  XorInv' /\ [XList!Next]_<<XorWalk, Len(XorWalk)>>
  <2> DEFINE m == Len(XorWalk)
  <2>1. /\ Unlinked(n) /\ xhead # {} /\ xhead' = xhead
        /\ pointer' = Insert(GetPrev(At(m), {}), At(m), {n})
    BY <1>2 DEF XorAddLast
  <2>2. xhead = Nth(XorWalk, 1) /\ m \in Nat
    BY XorFacts DEF XorInv, XorLinks
  <2>3. m \in 1 .. Len(XorWalk)
    BY <2>1, <2>2 DEF Nth
  <2>4. At(m + 1) = {}
    <3>1. m + 1 \notin 1 .. Len(XorWalk)
      BY <2>2
    <3> QED
      BY <3>1, XorFacts DEF Nth
  <2>5. GetPrev(At(m), {}) = At(m - 1)
    <3>1. GetPrev(At(m), At(m + 1)) = At(m - 1)
      BY <2>3, XorReads
    <3> QED
      BY <2>4, <3>1
  <2>6. pointer' = Insert(At(m - 1), At(m), {n})
    BY <2>1, <2>5
  <2> HIDE DEF m
  <2> QED
    BY <2>1, <2>3, <2>6, XorInsertStep
<1>3. ASSUME NEW i \in DOMAIN XorWalk, XorRemove(i)
      PROVE  XorInv' /\ [XList!Next]_<<XorWalk, Len(XorWalk)>>
  <2>1. i \in 1 .. Len(XorWalk)
    BY XorFacts
  <2> QED
    BY <1>3, <2>1, XorRemoveStep
<1>4. CASE UNCHANGED xorVars
  <2>1. XorLinks(xhead', pointer', XorWalk) /\ DOMAIN pointer' = XorNode
    BY <1>4 DEF xorVars, XorInv
  <2>2. Turned(XorNode, XorWalk, XorWalk)
    BY DEF Turned
  <2> QED
    BY <2>1, <2>2, XorMoves
<1> QED
  BY <1>1, <1>2, <1>3, <1>4, XorStartStep DEF XorNext

LEMMA XorStarts ==
  ASSUME XorInit, IsFiniteSet(XorNode)
  PROVE  XorInv /\ XList!Init
<1>1. XorLinks(xhead, pointer, <<>>)
  BY DEF XorInit, XorLinks, Nth, EachOnce
<1>2. XorWalk = <<>>
  <2>1. PICK f : XorChosen(xhead, pointer, f) /\ XorAlong(f, XorWalk)
    BY XorWalkIsAlong
  <2> QED
    BY <1>1, <2>1, XorWalkIs
<1> QED
  BY <1>1, <1>2 DEF XorInit, XorInv, XList!Init
-----------------------------------------------------------------------------
(***************************************************************************)
(* All of them, as parts of Devices.                                       *)
(***************************************************************************)
FiniteNodes ==
  IsFiniteSet(EplNode) /\ IsFiniteSet(XorNode) /\ IsFiniteSet(RegDevice) /\ IsFiniteSet(ListNode)

ListsInv == EplInv /\ XorInv /\ RegInv /\ LinkInv

LEMMA ListSteps ==
  ASSUME [Next]_vars
  PROVE  /\ EplNext \/ UNCHANGED eplVars
         /\ XorNext \/ UNCHANGED xorVars
         /\ RegNext \/ UNCHANGED regVars
         /\ ListNext \/ UNCHANGED listVars
BY DEF Next, vars, Only

LEMMA ListsStart ==
  ASSUME FiniteNodes, Init
  PROVE  ListsInv /\ EplList!Init /\ XList!Init /\ RegList!Init /\ LinkList!Init
<1>1. NoNode \notin EplNode /\ NoDevice \notin RegDevice /\ NoListNode \notin ListNode
  BY EplConstants, RegistryConstants, LinkedListConstants
<1> QED
  BY <1>1, EplStarts, XorStarts, RegStarts, LinkStarts DEF FiniteNodes, Init, ListsInv

LEMMA ListsGoOn ==
  ASSUME FiniteNodes, ListMiddle = FALSE, ListsInv, [Next]_vars
  PROVE  /\ ListsInv'
         /\ [EplList!Next]_<<Walk, IF circular THEN Len(Walk) ELSE entries>>
         /\ [XList!Next]_<<XorWalk, Len(XorWalk)>>
         /\ [RegList!Next]_<<DeviceWalk, Len(DeviceWalk)>>
         /\ [LinkList!Next]_<<ListWalk, Len(ListWalk)>>
<1>1. NoNode \notin EplNode /\ NoDevice \notin RegDevice /\ NoListNode \notin ListNode
  BY EplConstants, RegistryConstants, LinkedListConstants
<1>2. /\ IsFiniteSet(EplNode) /\ IsFiniteSet(XorNode)
      /\ IsFiniteSet(RegDevice) /\ IsFiniteSet(ListNode)
      /\ EplInv /\ XorInv /\ RegInv /\ LinkInv
  BY DEF FiniteNodes, ListsInv
<1>3. EplInv' /\ [EplList!Next]_<<Walk, IF circular THEN Len(Walk) ELSE entries>>
  BY <1>1, <1>2, ListSteps, EplStep
<1>4. XorInv' /\ [XList!Next]_<<XorWalk, Len(XorWalk)>>
  BY <1>2, ListSteps, XorStep
<1>5. RegInv' /\ [RegList!Next]_<<DeviceWalk, Len(DeviceWalk)>>
  BY <1>1, <1>2, ListSteps, RegStep
<1>6. LinkInv' /\ [LinkList!Next]_<<ListWalk, Len(ListWalk)>>
  BY <1>1, <1>2, ListSteps, LinkStep
<1> QED
  BY <1>3, <1>4, <1>5, <1>6 DEF ListsInv

\* The lists and their counts, always.
LEMMA ListsInvariant ==
  ASSUME FiniteNodes, ListMiddle = FALSE
  PROVE  Spec => []ListsInv
BY ListsStart, ListsGoOn, PTL DEF Spec

(***************************************************************************)
(* sys/epl.c, lib/xorlist.c, dev/devreg.c, lib/list.c: whatever is added   *)
(* and taken out in whatever order, for any number of nodes, what is       *)
(* linked is a list, no node of which is lost or linked twice, and its     *)
(* count is right; lib/list.c as long as it deletes only its first node.   *)
(***************************************************************************)
THEOREM DevicesListsImplement ==
  ASSUME FiniteNodes, ListMiddle = FALSE
  PROVE  Spec => ListsImplement
BY ListsStart, ListsGoOn, PTL
   DEF Spec, ListsImplement, EplList!Spec, XList!Spec, RegList!Spec, LinkList!Spec
-----------------------------------------------------------------------------
(***************************************************************************)
(* The converter, also after a time-out: where each thread is, and that no *)
(* more events are counted than there are threads.                         *)
(***************************************************************************)
AdcPlaced ==
  /\ adcPc \in [AdcThread -> AdcPlaces]
  /\ adcCur \in AdcThread \cup {NoPin}
  /\ \A t \in AdcThread : adcPc[t] = "mutex" <=> t \in Members(adcMutex)
  /\ \A t \in AdcThread : adcPc[t] = "converting" <=> t \in Members(adcQueue)
  /\ \A t \in AdcThread : adcPc[t] = "started" <=> adcCur = t

AdcQueued ==
  QueueOf(AdcThread, adcMutex) /\ QueueOf(AdcThread, adcQueue) /\ adcMutex.pend \in 0 .. 1

AdcValues ==
  /\ adcPin \in [AdcThread -> Pin \cup {NoPin}]
  /\ aden \in BOOLEAN /\ adcLate \in BOOLEAN
  /\ adsc \in Pin \cup {NoPin} /\ adcData \in Pin \cup {NoPin}

\* A conversion that runs, and a thread that has started one.
AdcRuns == IF adsc = NoPin THEN 0 ELSE 1
AdcStarts == IF adcCur = NoPin THEN 0 ELSE 1

\* Each event that is counted or to come is for a thread that waits or will.
AdcCounted ==
  Waiting(adcQueue) => adcQueue.pend + AdcRuns <= Len(adcQueue.waiters) + AdcStarts

AdcTyped == AdcPlaced /\ AdcQueued /\ AdcValues /\ AdcCounted

\* The thread t goes to l.
LEMMA AdcOneMoves ==
  ASSUME AdcPlaced, NEW t \in AdcThread, NEW l \in AdcPlaces, AdcGoto(t, l),
         adcCur' \in AdcThread \cup {NoPin},
         \A u \in AdcThread : u # t =>
           /\ adcCur' = u <=> adcCur = u
           /\ u \in Members(adcMutex)' <=> u \in Members(adcMutex)
           /\ u \in Members(adcQueue)' <=> u \in Members(adcQueue),
         l = "started" <=> adcCur' = t,
         l = "mutex" <=> t \in Members(adcMutex)',
         l = "converting" <=> t \in Members(adcQueue)'
  PROVE  AdcPlaced'
<1>1. /\ adcPc' \in [AdcThread -> AdcPlaces] /\ adcPc'[t] = l
      /\ \A u \in AdcThread : u # t => adcPc'[u] = adcPc[u]
  BY DEF AdcPlaced, AdcGoto
<1> QED
  BY <1>1 DEF AdcPlaced

LEMMA AdcNumbers ==
  /\ AdcRuns \in {0, 1} /\ AdcStarts \in {0, 1}
BY DEF AdcRuns, AdcStarts

LEMMA AdcCallTyped ==
  ASSUME AdcTyped, NEW t \in AdcThread, NEW p \in Pin, AdcCall(t, p)
  PROVE  AdcTyped'
<1>1. /\ adcCur = NoPin /\ adcPc[t] = "idle" /\ adcMutex' = Wait(adcMutex, t)
      /\ adcPin' = [adcPin EXCEPT ![t] = p]
      /\ AdcGoto(t, IF Takes(adcMutex) THEN "locked" ELSE "mutex")
      /\ UNCHANGED <<adcQueue, aden, adsc, adcData, adcCur, adcLate>>
  BY DEF AdcCall
<1>2. t \notin Members(adcMutex) /\ QueueOf(AdcThread, adcMutex) /\ t \notin Members(adcQueue)
  BY <1>1 DEF AdcTyped, AdcPlaced, AdcQueued
<1>3. /\ QueueOf(AdcThread, adcMutex')
      /\ Takes(adcMutex) => /\ Members(adcMutex) = {} /\ Members(adcMutex') = {}
                            /\ adcMutex'.pend = 0
      /\ ~Takes(adcMutex) => /\ Members(adcMutex') = Members(adcMutex) \cup {t}
                             /\ adcMutex'.pend = adcMutex.pend
  BY <1>1, <1>2, WaitProps
<1>4. AdcQueued'
  BY <1>1, <1>3 DEF AdcTyped, AdcQueued, QueueOf
<1>5. AdcValues' /\ AdcCounted'
  BY <1>1 DEF AdcTyped, AdcValues, AdcCounted, AdcRuns, AdcStarts, Waiting
<1>6. AdcPlaced'
  <2>1. PICK l \in AdcPlaces : /\ l = IF Takes(adcMutex) THEN "locked" ELSE "mutex"
                               /\ AdcGoto(t, l)
    BY <1>1 DEF AdcPlaces
  <2>2. \A u \in AdcThread : u # t =>
           /\ u \in Members(adcMutex)' <=> u \in Members(adcMutex)
           /\ u \in Members(adcQueue)' <=> u \in Members(adcQueue)
    BY <1>1, <1>3 DEF Members
  <2>3. /\ l = "mutex" <=> t \in Members(adcMutex)'
        /\ l # "converting" /\ t \notin Members(adcQueue)'
        /\ l # "started" /\ adcCur' # t
    BY <1>1, <1>2, <1>3, <2>1, AdcConstants DEF Members
  <2>4. AdcPlaced /\ adcCur' = adcCur /\ adcCur \in AdcThread \cup {NoPin}
    BY <1>1 DEF AdcTyped, AdcPlaced
  <2> QED
    BY <2>1, <2>2, <2>3, <2>4, AdcOneMoves
<1> QED
  BY <1>4, <1>5, <1>6 DEF AdcTyped

LEMMA AdcMutexTmoTyped ==
  ASSUME AdcTyped, NEW t \in AdcThread, AdcMutexTmo(t)
  PROVE  AdcTyped'
<1>1. /\ adcCur = NoPin /\ adcPc[t] = "mutex" /\ adcMutex' = TimedOut(adcMutex, t)
      /\ AdcGoto(t, "locked") /\ adcLate' = TRUE
      /\ UNCHANGED <<adcQueue, aden, adsc, adcData, adcCur, adcPin>>
  BY DEF AdcMutexTmo
<1>2. QueueOf(AdcThread, adcMutex) /\ adcMutex.pend <= 1 /\ t \notin Members(adcQueue)
  BY <1>1 DEF AdcTyped, AdcPlaced, AdcQueued
<1>3. /\ QueueOf(AdcThread, adcMutex') /\ Members(adcMutex') = Members(adcMutex) \ {t}
      /\ adcMutex'.pend = adcMutex.pend
  BY <1>1, <1>2, TimedOutProps
<1>4. AdcQueued'
  BY <1>1, <1>3 DEF AdcTyped, AdcQueued, QueueOf
<1>5. AdcValues' /\ AdcCounted'
  BY <1>1 DEF AdcTyped, AdcValues, AdcCounted, AdcRuns, AdcStarts, Waiting
<1>6. AdcPlaced'
  <2>1. \A u \in AdcThread : u # t =>
           /\ u \in Members(adcMutex)' <=> u \in Members(adcMutex)
           /\ u \in Members(adcQueue)' <=> u \in Members(adcQueue)
    BY <1>1, <1>3 DEF Members
  <2>2. t \notin Members(adcMutex)' /\ t \notin Members(adcQueue)' /\ adcCur' # t
    BY <1>1, <1>2, <1>3, AdcConstants DEF Members
  <2>3. AdcPlaced /\ adcCur' = adcCur /\ adcCur \in AdcThread \cup {NoPin} /\ "locked" \in AdcPlaces
    BY <1>1 DEF AdcTyped, AdcPlaced, AdcPlaces
  <2> QED
    BY <1>1, <2>1, <2>2, <2>3, AdcOneMoves
<1> QED
  BY <1>4, <1>5, <1>6 DEF AdcTyped

\* AdcOff and AdcStart.
LEMMA AdcLockedTyped ==
  ASSUME AdcTyped, NEW t \in AdcThread, AdcOff(t) \/ AdcStart(t)
  PROVE  AdcTyped'
<1>1. /\ adcCur = NoPin /\ adcPc[t] = "locked"
      /\ UNCHANGED <<adcMutex, adcQueue, aden, adcData, adcPin, adcLate>>
      /\ \/ adsc' = adsc /\ adcCur' = adcCur /\ AdcGoto(t, "idle")
         \/ /\ adsc' = (IF adsc = NoPin THEN adcPin[t] ELSE adsc) /\ adcCur' = t
            /\ AdcGoto(t, "started")
  BY DEF AdcOff, AdcStart
<1>2. AdcQueued'
  BY <1>1 DEF AdcTyped, AdcQueued, QueueOf
<1>3. AdcValues'
  BY <1>1 DEF AdcTyped, AdcValues
<1>4. AdcCounted'
  <2>1. AdcStarts = 0 /\ AdcRuns \in {0, 1}
    BY <1>1, AdcNumbers DEF AdcStarts
  <2>2. /\ AdcRuns' \in {0, 1}
        /\ AdcStarts' = 1 \/ (AdcStarts' = 0 /\ AdcRuns' = AdcRuns)
    BY <1>1, AdcConstants DEF AdcRuns, AdcStarts
  <2>3. adcQueue.pend \in Nat /\ Len(adcQueue.waiters) \in Nat
    BY DEF AdcTyped, AdcQueued, QueueOf
  <2>4. adcQueue' = adcQueue /\ (Waiting(adcQueue)' <=> Waiting(adcQueue))
    BY <1>1 DEF Waiting
  <2>5. Waiting(adcQueue) => adcQueue.pend + AdcRuns <= Len(adcQueue.waiters) + AdcStarts
    BY DEF AdcTyped, AdcCounted
  <2>6. Waiting(adcQueue) => adcQueue.pend + AdcRuns' <= Len(adcQueue.waiters) + AdcStarts'
    BY <2>1, <2>2, <2>3, <2>5
  <2> QED
    BY <2>4, <2>6 DEF AdcCounted
<1>5. AdcPlaced'
  <2>1. \A u \in AdcThread :
           /\ u \in Members(adcMutex)' <=> u \in Members(adcMutex)
           /\ u \in Members(adcQueue)' <=> u \in Members(adcQueue)
    BY <1>1 DEF Members
  <2>2. t \notin Members(adcMutex)' /\ t \notin Members(adcQueue)'
    BY <1>1, <2>1 DEF AdcTyped, AdcPlaced
  <2>3. PICK l \in {"idle", "started"} : AdcGoto(t, l) /\ (l = "started" <=> adcCur' = t)
                                         /\ adcCur' \in {t, NoPin}
    BY <1>1, AdcConstants
  <2>4. AdcPlaced /\ \A u \in AdcThread : u # t => (adcCur' = u <=> adcCur = u)
    BY <1>1, <2>3, AdcConstants DEF AdcTyped
  <2>5. l \in AdcPlaces /\ l # "mutex" /\ l # "converting" /\ adcCur' \in AdcThread \cup {NoPin}
    BY <2>3 DEF AdcPlaces
  <2> QED
    BY <2>1, <2>2, <2>3, <2>4, <2>5, AdcOneMoves
<1> QED
  BY <1>2, <1>3, <1>4, <1>5 DEF AdcTyped

LEMMA AdcWaitTyped ==
  ASSUME AdcTyped, NEW t \in AdcThread, AdcWait(t)
  PROVE  AdcTyped'
<1>1. /\ adcCur = t /\ adcPc[t] = "started" /\ adcQueue' = WaitNext(adcQueue, t)
      /\ adcCur' = NoPin /\ AdcGoto(t, "converting")
      /\ UNCHANGED <<adcMutex, aden, adsc, adcData, adcPin, adcLate>>
  BY DEF AdcWait
<1>2. t \notin Members(adcQueue) /\ t \notin Members(adcMutex) /\ QueueOf(AdcThread, adcQueue)
  BY <1>1 DEF AdcTyped, AdcPlaced, AdcQueued
<1>3. /\ QueueOf(AdcThread, adcQueue') /\ Members(adcQueue') = Members(adcQueue) \cup {t}
      /\ adcQueue'.pend = IF adcQueue.waiters = <<>> THEN 0 ELSE adcQueue.pend
  BY <1>1, <1>2, WaitNextProps
<1>4. AdcQueued'
  BY <1>1, <1>3 DEF AdcTyped, AdcQueued
<1>5. AdcValues'
  BY <1>1 DEF AdcTyped, AdcValues
<1>6. AdcCounted'
  <2>1. AdcStarts = 1 /\ AdcStarts' = 0 /\ AdcRuns' = AdcRuns /\ AdcRuns \in {0, 1}
    BY <1>1, AdcConstants, AdcNumbers DEF AdcStarts, AdcRuns
  <2>2. adcQueue.pend \in Nat /\ Len(adcQueue.waiters) \in Nat /\ Len(adcQueue'.waiters) \in Nat
    BY <1>2, <1>3 DEF QueueOf
  <2>3. Waiting(adcQueue) => adcQueue.pend + AdcRuns <= Len(adcQueue.waiters) + AdcStarts
    BY DEF AdcTyped, AdcCounted
  <2>4. CASE Waiting(adcQueue)
    <3>1. adcQueue' = [adcQueue EXCEPT !.waiters = Append(@, t)] /\ adcQueue'.pend = adcQueue.pend
      BY <1>1, <1>3, <2>4 DEF WaitNext, Takes, Waiting
    <3>2. Len(adcQueue'.waiters) = Len(adcQueue.waiters) + 1
      BY <1>2, <3>1 DEF QueueOf
    <3>3. adcQueue'.pend + AdcRuns' <= Len(adcQueue'.waiters) + AdcStarts'
      BY <2>1, <2>2, <2>3, <2>4, <3>1, <3>2
    <3> QED
      BY <3>3 DEF AdcCounted
  <2>5. CASE ~Waiting(adcQueue)
    <3>1. adcQueue'.pend = 0
      BY <1>3, <2>5 DEF Waiting
    <3>2. Waiting(adcQueue)' => Len(adcQueue'.waiters) # 0
      BY <1>3 DEF Waiting, QueueOf
    <3>3. Waiting(adcQueue)' => adcQueue'.pend + AdcRuns' <= Len(adcQueue'.waiters) + AdcStarts'
      BY <2>1, <2>2, <3>1, <3>2
    <3> QED
      BY <3>3 DEF AdcCounted
  <2> QED
    BY <2>4, <2>5
<1>7. AdcPlaced'
  <2>1. \A u \in AdcThread : u # t =>
           /\ adcCur' = u <=> adcCur = u
           /\ u \in Members(adcMutex)' <=> u \in Members(adcMutex)
           /\ u \in Members(adcQueue)' <=> u \in Members(adcQueue)
    BY <1>1, <1>3, AdcConstants DEF Members
  <2>2. t \notin Members(adcMutex)' /\ t \in Members(adcQueue)' /\ adcCur' # t
    BY <1>1, <1>2, <1>3, AdcConstants DEF Members
  <2>3. AdcPlaced /\ adcCur' \in AdcThread \cup {NoPin} /\ "converting" \in AdcPlaces
    BY <1>1 DEF AdcTyped, AdcPlaces
  <2> QED
    BY <1>1, <2>1, <2>2, <2>3, AdcOneMoves
<1> QED
  BY <1>4, <1>5, <1>6, <1>7 DEF AdcTyped

LEMMA AdcCompleteTyped ==
  ASSUME AdcTyped, AdcComplete
  PROVE  AdcTyped'
<1>1. /\ adsc # NoPin /\ adcData' = adsc /\ adsc' = NoPin /\ adcQueue' = SignalFromISR(adcQueue)
      /\ UNCHANGED <<adcMutex, aden, adcPc, adcPin, adcCur, adcLate>>
  BY DEF AdcComplete
<1>2. QueueOf(AdcThread, adcQueue)
  BY DEF AdcTyped, AdcQueued
<1>3. /\ QueueOf(AdcThread, adcQueue') /\ Members(adcQueue') = Members(adcQueue)
      /\ adcQueue'.waiters = adcQueue.waiters
      /\ adcQueue'.pend = IF Waiting(adcQueue) THEN adcQueue.pend + 1 ELSE 1
  BY <1>1, <1>2, IsrProps
<1>4. AdcQueued' /\ AdcValues'
  BY <1>1, <1>3 DEF AdcTyped, AdcQueued, AdcValues
<1>5. AdcPlaced'
  <2>1. Members(adcMutex)' = Members(adcMutex) /\ Members(adcQueue)' = Members(adcQueue)
    BY <1>1, <1>3 DEF Members
  <2> QED
    BY <1>1, <2>1 DEF AdcTyped, AdcPlaced
<1>6. AdcCounted'
  <2>1. AdcRuns = 1 /\ AdcRuns' = 0 /\ AdcStarts' = AdcStarts /\ AdcStarts \in {0, 1}
    BY <1>1, AdcNumbers DEF AdcRuns, AdcStarts
  <2>2. adcQueue.pend \in Nat /\ Len(adcQueue.waiters) \in Nat
    BY <1>2 DEF QueueOf
  <2>3. Waiting(adcQueue) => adcQueue.pend + AdcRuns <= Len(adcQueue.waiters) + AdcStarts
    BY DEF AdcTyped, AdcCounted
  <2>4. Waiting(adcQueue)' <=> Waiting(adcQueue)
    BY <1>3 DEF Waiting
  <2>5. Waiting(adcQueue) => adcQueue.pend + 1 + AdcRuns' <= Len(adcQueue.waiters) + AdcStarts'
    BY <2>1, <2>2, <2>3
  <2> QED
    BY <1>3, <2>1, <2>2, <2>4, <2>5 DEF AdcCounted
<1> QED
  BY <1>4, <1>5, <1>6 DEF AdcTyped

\* AdcEvent and AdcConvTmo.
LEMMA AdcConvertedTyped ==
  ASSUME AdcTyped, NEW t \in AdcThread, AdcEvent(t) \/ AdcConvTmo(t)
  PROVE  AdcTyped'
<1>1. /\ adcCur = NoPin /\ AdcGoto(t, "converted")
      /\ UNCHANGED <<adcMutex, aden, adsc, adcData, adcPin, adcCur>>
      /\ adcLate' \in {adcLate, TRUE}
      /\ \/ Delivers(adcQueue, t) /\ adcQueue' = Delivered(adcQueue)
         \/ adcPc[t] = "converting" /\ AdcPosted /\ adcQueue' = TimedOut(adcQueue, t)
  BY DEF AdcEvent, AdcConvTmo
<1>2. /\ QueueOf(AdcThread, adcQueue) /\ adcQueue.pend \in Nat
      /\ adcQueue.waiters \in Seq(AdcThread) /\ Once(adcQueue.waiters)
  BY DEF AdcTyped, AdcQueued, QueueOf
<1>3. AdcStarts = 0 /\ AdcStarts' = 0 /\ AdcRuns' = AdcRuns /\ AdcRuns \in {0, 1}
  BY <1>1, AdcNumbers DEF AdcStarts, AdcRuns
<1>4. Waiting(adcQueue) => adcQueue.pend + AdcRuns <= Len(adcQueue.waiters)
  <2>1. Len(adcQueue.waiters) + 0 = Len(adcQueue.waiters)
    BY <1>2
  <2> QED
    BY <1>3, <2>1 DEF AdcTyped, AdcCounted
<1>5. /\ QueueOf(AdcThread, adcQueue') /\ Members(adcQueue') = Members(adcQueue) \ {t}
      /\ t \in Members(adcQueue)
      /\ Waiting(adcQueue)' => adcQueue'.pend + AdcRuns <= Len(adcQueue'.waiters)
  <2>1. CASE Delivers(adcQueue, t) /\ adcQueue' = Delivered(adcQueue)
    <3>1. /\ QueueOf(AdcThread, adcQueue') /\ Members(adcQueue') = Members(adcQueue) \ {t}
          /\ t \in Members(adcQueue) /\ adcQueue.pend > 0 /\ Waiting(adcQueue)
      BY <1>2, <2>1, DeliveredProps DEF Delivers
    <3> DEFINE w == Tail(adcQueue.waiters)
               n == adcQueue.pend - 1
    <3>2. /\ w \in Seq(AdcThread) /\ Once(w) /\ n \in Nat /\ adcQueue' = Rest(w, n)
          /\ Len(w) = Len(adcQueue.waiters) - 1
      BY <1>2, <2>1, <3>1, Behead, HeadTailProperties DEF Delivered, Waiting
    <3> HIDE DEF w, n
    <3>3. adcQueue'.waiters = w /\ (w # <<>> => adcQueue'.pend = n)
      BY <3>2, RestIsQueue
    <3>4. adcQueue.pend + AdcRuns <= Len(adcQueue.waiters) /\ Len(adcQueue.waiters) \in Nat
      BY <1>2, <1>4, <3>1
    <3>5. n + AdcRuns <= Len(w)
      BY <1>2, <1>3, <3>2, <3>4 DEF n
    <3> QED
      BY <3>1, <3>3, <3>5 DEF Waiting
  <2>2. CASE adcPc[t] = "converting" /\ AdcPosted /\ adcQueue' = TimedOut(adcQueue, t)
    <3>1. t \in Members(adcQueue)
      BY <2>2 DEF AdcTyped, AdcPlaced
    <3>2. adcQueue.pend = 0
      BY <1>2, <2>2, <3>1, NoWaiters DEF AdcPosted
    <3>3. /\ QueueOf(AdcThread, adcQueue') /\ Members(adcQueue') = Members(adcQueue) \ {t}
          /\ adcQueue'.pend = 0
      BY <1>2, <2>2, <3>2, TimedOutProps
    <3>4. Len(adcQueue'.waiters) \in Nat /\ (Waiting(adcQueue)' => Len(adcQueue'.waiters) # 0)
      BY <3>3 DEF Waiting, QueueOf
    <3>5. Waiting(adcQueue)' => adcQueue'.pend + AdcRuns <= Len(adcQueue'.waiters)
      BY <1>3, <3>3, <3>4
    <3> QED
      BY <3>1, <3>3, <3>5
  <2> QED
    BY <1>1, <2>1, <2>2
<1>6. AdcQueued' /\ AdcValues'
  BY <1>1, <1>5 DEF AdcTyped, AdcQueued, AdcValues
<1>7. AdcCounted'
  <2>1. Len(adcQueue'.waiters) + 0 = Len(adcQueue'.waiters)
    BY <1>5 DEF QueueOf
  <2> QED
    BY <1>3, <1>5, <2>1 DEF AdcCounted
<1>8. AdcPlaced'
  <2>1. \A u \in AdcThread : u # t =>
           /\ adcCur' = u <=> adcCur = u
           /\ u \in Members(adcMutex)' <=> u \in Members(adcMutex)
           /\ u \in Members(adcQueue)' <=> u \in Members(adcQueue)
    BY <1>1, <1>5 DEF Members
  <2>2. t \notin Members(adcMutex)' /\ t \notin Members(adcQueue)' /\ adcCur' # t
    BY <1>1, <1>5, AdcConstants DEF AdcTyped, AdcPlaced, Members
  <2>3. AdcPlaced /\ adcCur' \in AdcThread \cup {NoPin} /\ "converted" \in AdcPlaces
    BY <1>1 DEF AdcTyped, AdcPlaces
  <2> QED
    BY <1>1, <2>1, <2>2, <2>3, AdcOneMoves
<1> QED
  BY <1>6, <1>7, <1>8 DEF AdcTyped

LEMMA AdcReadTyped ==
  ASSUME AdcTyped, NEW t \in AdcThread, AdcRead(t)
  PROVE  AdcTyped'
<1> DEFINE h == Head(adcMutex.waiters)
<1>1. /\ adcCur = NoPin /\ adcPc[t] = "converted" /\ adcMutex' = Signal(adcMutex)
      /\ adcPc' = [u \in AdcThread |-> IF u = t THEN "idle"
                                       ELSE IF Waiting(adcMutex) /\ u = h THEN "locked"
                                       ELSE adcPc[u]]
      /\ UNCHANGED <<adcQueue, aden, adsc, adcData, adcPin, adcCur, adcLate>>
  BY DEF AdcRead
<1>2. QueueOf(AdcThread, adcMutex) /\ adcMutex.pend \in 0 .. 1 /\ adcMutex.pend <= 1
  BY DEF AdcTyped, AdcQueued
<1>3. /\ QueueOf(AdcThread, adcMutex')
      /\ Waiting(adcMutex) => /\ h \in Members(adcMutex) /\ h \in AdcThread
                              /\ Members(adcMutex') = Members(adcMutex) \ {h}
                              /\ adcMutex'.pend = adcMutex.pend
      /\ ~Waiting(adcMutex) => Members(adcMutex) = {} /\ Members(adcMutex') = {}
                               /\ adcMutex'.pend = 1
  BY <1>1, <1>2, SignalProps
<1> HIDE DEF h
<1>4. AdcQueued'
  BY <1>1, <1>2, <1>3 DEF AdcTyped, AdcQueued
<1>5. AdcValues' /\ AdcCounted'
  BY <1>1 DEF AdcTyped, AdcValues, AdcCounted, AdcRuns, AdcStarts, Waiting
<1>6. AdcPlaced'
  <2>1. /\ adcPc' \in [AdcThread -> AdcPlaces] /\ adcCur' \in AdcThread \cup {NoPin}
        /\ \A u \in AdcThread : adcPc[u] # "started"
    BY <1>1, AdcConstants DEF AdcTyped, AdcPlaced, AdcPlaces
  <2>2. \A u \in AdcThread : u \in Members(adcQueue)' <=> u \in Members(adcQueue)
    BY <1>1 DEF Members
  <2>3. t \notin Members(adcMutex) /\ t \notin Members(adcQueue)
    BY <1>1 DEF AdcTyped, AdcPlaced
  <2>4. \A u \in AdcThread : adcPc'[u] = "mutex" <=> u \in Members(adcMutex')
    BY <1>1, <1>3, <2>3 DEF AdcTyped, AdcPlaced
  <2>5. Waiting(adcMutex) => h \notin Members(adcQueue)
    BY <1>3 DEF AdcTyped, AdcPlaced
  <2>6. \A u \in AdcThread : adcPc'[u] = "converting" <=> u \in Members(adcQueue)'
    BY <1>1, <2>2, <2>3, <2>5 DEF AdcTyped, AdcPlaced
  <2>7. \A u \in AdcThread : adcPc'[u] # "started" /\ adcCur' # u
    BY <1>1, <2>1, AdcConstants
  <2> QED
    BY <2>1, <2>4, <2>6, <2>7 DEF AdcPlaced, Members
<1> QED
  BY <1>4, <1>5, <1>6 DEF AdcTyped

LEMMA AdcNextTyped ==
  ASSUME AdcTyped, AdcNext
  PROVE  AdcTyped'
<1>1. ASSUME AdcDisable
      PROVE  AdcTyped'
  BY <1>1 DEF AdcDisable, AdcTyped, AdcPlaced, AdcQueued, AdcValues, AdcCounted, AdcRuns, AdcStarts,
              Members, Waiting, QueueOf
<1> QED
  BY <1>1, AdcCallTyped, AdcMutexTmoTyped, AdcLockedTyped, AdcWaitTyped, AdcCompleteTyped,
     AdcConvertedTyped, AdcReadTyped DEF AdcNext, AdcStep

LEMMA AdcInitTyped ==
  ASSUME AdcInit
  PROVE  AdcTyped
<1>1. /\ QueueOf(AdcThread, Stored) /\ Members(Stored) = {} /\ Stored.pend = 1
      /\ ~Waiting(Stored) /\ adcMutex = Stored /\ adcQueue = Stored
  BY EmptyQueues DEF AdcInit, Stored, Waiting
<1>2. AdcPlaced
  BY <1>1, AdcConstants DEF AdcInit, AdcPlaced, AdcPlaces
<1>3. AdcQueued /\ AdcCounted
  BY <1>1 DEF AdcQueued, AdcCounted
<1>4. AdcValues
  BY DEF AdcInit, AdcValues
<1> QED
  BY <1>2, <1>3, <1>4 DEF AdcTyped

LEMMA AdcTypedImplies ==
  ASSUME AdcTyped
  PROVE  AdcTypeOK
<1> DEFINE w == adcQueue.waiters
           n == adcQueue.pend
           c == Cardinality(AdcThread)
<1>1. /\ w \in Seq(AdcThread) /\ Once(w) /\ n \in Nat /\ (w = <<>> => n \in 0 .. 1)
      /\ Len(w) \in Nat
  BY DEF AdcTyped, AdcQueued, QueueOf
<1>2. EachOnce(w)
  BY <1>1 DEF Once, EachOnce
<1>3. Len(w) <= c /\ c \in Nat
  BY <1>1, <1>2, AdcConstants, OnceFits
<1>4. c >= 1
  BY <1>3, AdcConstants, FS_EmptySet
<1>5. w # <<>> => n + AdcRuns <= Len(w) + AdcStarts
  BY DEF AdcTyped, AdcCounted, Waiting
<1>6. AdcStarts = 1 => Len(w) + 1 <= c
  <2> SUFFICES ASSUME AdcStarts = 1
               PROVE  Len(w) + 1 <= c
    OBVIOUS
  <2>1. adcCur \in AdcThread /\ adcPc[adcCur] = "started"
    BY DEF AdcStarts, AdcTyped, AdcPlaced
  <2>2. adcCur \notin Range(w)
    BY <2>1 DEF AdcTyped, AdcPlaced, Members
  <2> DEFINE T == AdcThread \ {adcCur}
  <2>3. \A i \in 1 .. Len(w) : w[i] \in T
    <3>1. \A i \in 1 .. Len(w) : w[i] \in AdcThread /\ w[i] \in Range(w)
      BY <1>1, MemberAt
    <3> QED
      BY <2>2, <3>1
  <2>4. w \in Seq(T)
    <3>1. w = [i \in 1 .. Len(w) |-> w[i]]
      BY <1>1
    <3> QED
      BY <1>1, <2>3, <3>1
  <2>5. IsFiniteSet(T) /\ Cardinality(T) = c - 1
    BY <2>1, AdcConstants, FS_RemoveElement
  <2> HIDE DEF T
  <2>6. Len(w) <= Cardinality(T)
    BY <1>2, <2>4, <2>5, OnceFits
  <2> QED
    BY <1>1, <1>3, <2>5, <2>6
<1> HIDE DEF w, n, c
<1>7. n \in 0 .. c
  <2>1. CASE w = <<>>
    BY <1>1, <1>3, <1>4, <2>1
  <2>2. CASE w # <<>>
    BY <1>1, <1>3, <1>5, <1>6, <2>2, AdcNumbers
  <2> QED
    BY <2>1, <2>2
<1>8. adcMutex.pend \in 0 .. c
  BY <1>3, <1>4 DEF AdcTyped, AdcQueued
<1> QED
  BY <1>7, <1>8 DEF AdcTypeOK, AdcTyped, AdcPlaced, AdcQueued, AdcValues, AdcPlaces, Members, n, c

-----------------------------------------------------------------------------
(***************************************************************************)
(* The files and the SPI bus.                                              *)
(***************************************************************************)
FilesTyped ==
  /\ iob \in [Slots -> Stream \cup {NoFile}]
  /\ fd \in [Stream -> Slots \cup {-1}]
  /\ handle \in [Task -> Slots \cup {-1}]
  /\ opened \in [Task -> Stream \cup {NoFile}]
  /\ \A t \in Task : handle[t] = -1 <=> opened[t] = NoFile
  /\ vfs \subseteq Named /\ live \subseteq Task

SpiTyped ==
  spiBuff \in [Task -> BOOLEAN] /\ spiRate \in {4, 16, 64, 128}

LEMMA FilesInitTyped ==
  ASSUME FilesInit, SpiInit
  PROVE  FilesTyped /\ SpiTyped
<1>1. PICK none : none = -1
  OBVIOUS
<1>2. /\ iob = [i \in Slots |-> NoFile] /\ fd = [s \in Stream |-> none]
      /\ handle = [t \in Task |-> none] /\ opened = [t \in Task |-> NoFile]
      /\ vfs = Named /\ live = {}
  BY <1>1 DEF FilesInit, Stream
<1>3. FilesTyped
  BY <1>1, <1>2 DEF FilesTyped
<1>4. SpiTyped
  BY DEF SpiInit, SpiTyped
<1> QED
  BY <1>3, <1>4

LEMMA FilesHeld ==
  ASSUME FilesTyped, NEW t \in Task, NEW i \in Slots, NEW s \in Stream, Holds(t, i, s)
  PROVE  /\ handle' \in [Task -> Slots \cup {-1}]
         /\ opened' \in [Task -> Stream \cup {NoFile}]
         /\ \A u \in Task : handle'[u] = -1 <=> opened'[u] = NoFile
<1>1. i # -1 /\ s # NoFile
  BY SlotNumbers
<1> QED
  BY <1>1 DEF FilesTyped, Holds

LEMMA FilesCallTyped ==
  ASSUME FilesTyped, NEW t \in Task, FileCall(t)
  PROVE  FilesTyped'
<1>1. ASSUME NEW m \in Modes, Socket(t, m)
      PROVE  FilesTyped'
  <2>1. PICK i : i = Min(FreeSlots)
    OBVIOUS
  <2>2. FreeSlots # {} /\ FreeSlots \subseteq Slots /\ FreeSlots \in SUBSET Nat
    BY <1>1, SlotNumbers DEF Socket, FreeSlots
  <2>3. i \in Slots
    BY <2>1, <2>2, LeastOfSome
  <2>4. t \in Stream
    BY DEF Stream
  <2>5. /\ iob' = [iob EXCEPT ![i] = t] /\ fd' = [fd EXCEPT ![t] = i] /\ Holds(t, i, t)
        /\ live' = live \cup {t} /\ vfs' = vfs
    BY <1>1, <2>1 DEF Socket
  <2>6. iob' \in [Slots -> Stream \cup {NoFile}] /\ fd' \in [Stream -> Slots \cup {-1}]
    BY <2>3, <2>4, <2>5 DEF FilesTyped
  <2> QED
    BY <2>3, <2>4, <2>5, <2>6, FilesHeld DEF FilesTyped
<1>2. ASSUME NEW m \in Modes, NEW f \in Named, Open(t, f, m)
      PROVE  FilesTyped'
  <2>1. PICK i : i = Min(Openable(f))
    OBVIOUS
  <2>2. Openable(f) # {} /\ Openable(f) \subseteq Slots /\ Openable(f) \in SUBSET Nat
    BY <1>2, SlotNumbers DEF Open, Openable
  <2>3. i \in Slots
    BY <2>1, <2>2, LeastOfSome
  <2>4. f \in Stream
    BY DEF Stream
  <2>5. /\ iob' = [iob EXCEPT ![i] = f] /\ fd' \in {fd, [fd EXCEPT ![f] = i]} /\ Holds(t, i, f)
        /\ live' = live /\ vfs' = vfs
    BY <1>2, <2>1 DEF Open
  <2>6. iob' \in [Slots -> Stream \cup {NoFile}] /\ fd' \in [Stream -> Slots \cup {-1}]
    BY <2>3, <2>4, <2>5 DEF FilesTyped
  <2> QED
    BY <2>3, <2>4, <2>5, <2>6, FilesHeld DEF FilesTyped
<1>3. ASSUME Close(t)
      PROVE  FilesTyped'
  <2>1. PICK none : none = -1
    OBVIOUS
  <2>2. /\ handle' = [handle EXCEPT ![t] = none] /\ opened' = [opened EXCEPT ![t] = NoFile]
        /\ vfs' = vfs /\ handle[t] # -1
    BY <1>3, <2>1 DEF Close, Holds
  <2>3. /\ handle' \in [Task -> Slots \cup {-1}] /\ opened' \in [Task -> Stream \cup {NoFile}]
        /\ \A u \in Task : handle'[u] = -1 <=> opened'[u] = NoFile
    BY <2>1, <2>2 DEF FilesTyped
  <2>4. CASE UNCHANGED <<iob, fd, live>>
    BY <2>2, <2>3, <2>4 DEF FilesTyped
  <2>5. CASE ~UNCHANGED <<iob, fd, live>>
    <3>1. PICK h \in Slots, s \in Stream :
            /\ iob' = [iob EXCEPT ![h] = NoFile] /\ fd' = [fd EXCEPT ![s] = none]
            /\ live' = live \ {s}
      <4>1. handle[t] \in Slots /\ iob[handle[t]] \in Stream \cup {NoFile}
        BY <2>2 DEF FilesTyped
      <4>2. /\ iob[handle[t]] # NoFile
            /\ iob' = [iob EXCEPT ![handle[t]] = NoFile]
            /\ fd' = [fd EXCEPT ![iob[handle[t]]] = none]
            /\ live' = live \ {iob[handle[t]]}
        BY <1>3, <2>1, <2>5 DEF Close
      <4> QED
        BY <4>1, <4>2
    <3>2. iob' \in [Slots -> Stream \cup {NoFile}] /\ fd' \in [Stream -> Slots \cup {-1}]
      BY <2>1, <3>1 DEF FilesTyped
    <3> QED
      BY <2>2, <2>3, <3>1, <3>2 DEF FilesTyped
  <2> QED
    BY <2>4, <2>5
<1>4. ASSUME NEW m \in Modes, Mode(t, m)
      PROVE  FilesTyped'
  BY <1>4 DEF Mode, FilesTyped
<1> QED
  BY <1>1, <1>2, <1>3, <1>4 DEF FileCall

LEMMA SpiNextTyped ==
  ASSUME FilesTyped, SpiTyped, SpiNext
  PROVE  FilesTyped' /\ SpiTyped'
<1>1. ASSUME NEW t \in Task, SpiStep(t) \/ SpiWrite(t) \/ SpiRead(t) \/ SpiFlush(t) \/ SpiAlloc(t)
      PROVE  FilesTyped' /\ SpiTyped'
  <2>1. /\ UNCHANGED filesVars
        /\ spiBuff' \in {spiBuff, [spiBuff EXCEPT ![t] = TRUE]}
        /\ spiRate' \in {spiRate, Divider(Freq[t])}
    BY <1>1 DEF SpiStep, SpiLockTmo, SpiAllocTmo, SpiXfer, SpiRelease, SpiWrite, SpiRead,
                SpiSetBuff, SpiFlush, SpiAlloc
  <2>2. Divider(Freq[t]) \in {4, 16, 64, 128}
    BY DEF Divider
  <2> QED
    BY <2>1, <2>2 DEF SpiTyped, FilesTyped, filesVars
<1>2. ASSUME NEW t \in Task, FileCall(t)
      PROVE  FilesTyped' /\ SpiTyped'
  <2>1. UNCHANGED spiVars
    BY <1>2 DEF FileCall
  <2> QED
    BY <1>2, <2>1, FilesCallTyped DEF SpiTyped, spiVars
<1>3. ASSUME NEW f \in Named, VfsAdd(f) \/ VfsDelete(f), UNCHANGED spiVars
      PROVE  FilesTyped' /\ SpiTyped'
  BY <1>3 DEF VfsAdd, VfsDelete, FilesTyped, SpiTyped, spiVars
<1> QED
  BY <1>1, <1>2, <1>3 DEF SpiNext

LEMMA SpiTypedImplies ==
  ASSUME FilesTyped, SpiTyped, SpiInv
  PROVE  SpiTypeOK
<1>1. FilesTypeOK
  BY DEF FilesTyped, FilesTypeOK, Stream
<1>2. ToSet(spiMutex.waiters) = Members(spiMutex)
  BY DEF ToSet, Members, Range
<1> QED
  BY <1>1, <1>2 DEF SpiInv, SpiPlaces, SpiTyped, SpiTypeOK

-----------------------------------------------------------------------------
(***************************************************************************)
(* The serial port: its buffer and the bytes that are left to read.        *)
(***************************************************************************)
SerTyped ==
  /\ rxOn \in BOOLEAN /\ rxLen \in 0 .. 1 /\ rx \in Reader \cup {Nobody}
  /\ rxFifo \in Seq(Numbers) /\ Len(rxFifo) <= 2 /\ (rxFifo # <<>> => rxOn)
  /\ serPc \in [Reader -> {"idle", "next", "enabled", "waiting", "woken"}]
  /\ serLeft \in [Reader -> Nat]
  /\ \A t \in Reader : serPc[t] = "idle" <=> serLeft[t] = 0

LEMMA SerInitTyped ==
  ASSUME SerInit
  PROVE  SerTyped
<1>1. rxFifo = <<>> /\ <<>> \in Seq(Numbers) /\ Len(<<>>) = 0
  BY DEF SerInit
<1>2. /\ rxOn = FALSE /\ rxLen = 0 /\ rx = Nobody
      /\ serPc = [t \in Reader |-> "idle"] /\ serLeft = [t \in Reader |-> 0]
  BY DEF SerInit
<1>3. rxFifo \in Seq(Numbers) /\ Len(rxFifo) <= 2
  BY <1>1
<1>4. /\ serPc \in [Reader -> {"idle", "next", "enabled", "waiting", "woken"}]
      /\ serLeft \in [Reader -> Nat]
      /\ \A t \in Reader : serPc[t] = "idle" <=> serLeft[t] = 0
  BY <1>2
<1>5. rxLen \in 0 .. 1 /\ rx \in Reader \cup {Nobody}
  BY <1>2
<1>6. rxOn \in BOOLEAN
  BY <1>2, Zenon
<1> QED
  BY <1>1, <1>3, <1>4, <1>5, <1>6 DEF SerTyped

LEMMA SerNextTyped ==
  ASSUME SerTyped, SerInv, SerNext
  PROVE  SerTyped'
<1>1. ASSUME NEW t \in Reader, NEW n \in ReadSizes, SerRead(t, n)
      PROVE  SerTyped'
  <2>1. n \in Nat /\ n # 0
    BY SerialConstants
  <2> QED
    BY <1>1, <2>1 DEF SerRead, SerGoto, SerTyped
<1>2. ASSUME NEW t \in Reader, SerReadByte(t)
      PROVE  SerTyped'
  <2>1. rxOn' = TRUE /\ rxFifo' = rxFifo
    BY <1>2 DEF SerReadByte, UsartIoCtl
  <2> QED
    BY <1>2, <2>1 DEF SerReadByte, SerGoto, SerTyped
<1>3. ASSUME NEW t \in Reader, SerWait(t)
      PROVE  SerTyped'
  BY <1>3 DEF SerWait, SerGoto, SerTyped
<1>4. ASSUME NEW t \in Reader, SerEvent(t)
      PROVE  SerTyped'
  <2>1. t \in Members(rxQueue)
    BY <1>4, DeliveredProps DEF SerEvent, SerInv, SerTypes
  <2>2. serPc[t] # "idle"
    BY <2>1 DEF SerInv, Resting, Reads, Alone, Off, Enabled, Waits, Roused
  <2> QED
    BY <1>4, <2>2 DEF SerEvent, SerGoto, SerTyped
<1>5. ASSUME NEW t \in Reader, SerStop(t)
      PROVE  SerTyped'
  <2>1. rxOn' = FALSE /\ rxFifo' = <<>> /\ <<>> \in Seq(Numbers) /\ Len(<<>>) <= 2
    BY <1>5 DEF SerStop, UsartIoCtl
  <2>2. serPc[t] = "woken" /\ serLeft[t] \in Nat /\ serLeft[t] # 0
    BY <1>5 DEF SerStop, SerTyped
  <2>3. PICK l \in {"next", "idle"} : l = (IF serLeft[t] > 1 THEN "next" ELSE "idle") /\ SerGoto(t, l)
    BY <1>5 DEF SerStop
  <2>4. PICK n : n = serLeft[t] - 1
    OBVIOUS
  <2>5. n \in Nat /\ (n = 0 <=> l = "idle")
    BY <2>2, <2>3, <2>4
  <2>6. serLeft' = [serLeft EXCEPT ![t] = n]
    BY <1>5, <2>4 DEF SerStop
  <2>7. UNCHANGED <<rxLen, rx>>
    BY <1>5 DEF SerStop
  <2>8. /\ serPc' \in [Reader -> {"idle", "next", "enabled", "waiting", "woken"}]
        /\ serLeft' \in [Reader -> Nat]
        /\ \A u \in Reader : serPc'[u] = "idle" <=> serLeft'[u] = 0
    BY <2>3, <2>5, <2>6 DEF SerGoto, SerTyped
  <2> QED
    BY <2>1, <2>7, <2>8 DEF SerTyped
<1>6. ASSUME SerReceive
      PROVE  SerTyped'
  <2>1. rxNext \in Numbers
    BY DEF SerInv, SerTypes
  <2>2. rxFifo' \in Seq(Numbers) /\ Len(rxFifo') <= 2 /\ (rxFifo' # <<>> => rxOn)
    BY <1>6, <2>1 DEF SerReceive, SerTyped
  <2> QED
    BY <1>6, <2>2 DEF SerReceive, SerTyped
<1>7. ASSUME SerInterrupt
      PROVE  SerTyped'
  <2>1. rxFifo' = Tail(rxFifo) /\ rxFifo # <<>> /\ rxOn /\ rxFifo \in Seq(Numbers) /\ Len(rxFifo) <= 2
    BY <1>7 DEF SerInterrupt, SerTyped
  <2>2. rxFifo' \in Seq(Numbers) /\ Len(rxFifo') <= 2
    BY <2>1, HeadTailProperties, LenProperties
  <2> QED
    BY <1>7, <2>1, <2>2 DEF SerInterrupt, SerTyped
<1> QED
  BY <1>1, <1>2, <1>3, <1>4, <1>5, <1>6, <1>7 DEF SerNext, SerStep

LEMMA SerTypedImplies ==
  ASSUME SerTyped, SerInv
  PROVE  SerTypeOK
<1>1. \A t \in Reader : serPc[t] = "waiting" <=> t \in Members(rxQueue)
  BY DEF SerInv, Resting, Reads, Alone, Off, Enabled, Waits, Roused
<1>2. rxQueue.pend \in 0 .. 1
  <2>1. Members(rxQueue) = {} \/ rxQueue.pend \in {0, 1}
    BY DEF SerInv, Resting, Reads, Off, Enabled, Waits, Roused, Untaken, Taken
  <2>2. Members(rxQueue) = {} => rxQueue.pend \in {0, 1}
    BY NoWaiters DEF SerInv, SerTypes
  <2> QED
    BY <2>1, <2>2
<1>3. rxNext \in 0 .. Bytes - 1
  BY DEF SerInv, SerTypes, Numbers
<1> QED
  BY <1>1, <1>2, <1>3 DEF SerTyped, SerTypeOK, Members

-----------------------------------------------------------------------------
(***************************************************************************)
(* The types of the other parts follow from their invariants.              *)
(***************************************************************************)
LEMMA CtxTyped ==
  ASSUME CtxInv
  PROVE  CtxTypeOK
<1>1. Range(runQ) \cup Range(killQ) \subseteq CtxThread
  BY ElementOfSeq DEF CtxInv, CtxTypes, Range
<1>2. DOMAIN regs = Register /\ sreg \in BOOLEAN
  BY DEF CtxInv, CtxTypes, CtxRuns
<1> QED
  BY <1>1, <1>2 DEF CtxInv, CtxTypes, CtxTypeOK

LEMMA MsgvTyped ==
  ASSUME MsgvInv
  PROVE  MsgvTypeOK
BY DEF MsgvInv, Filled, Array, MsgvTypeOK

LEMMA XorTyped ==
  ASSUME XorInv, IsFiniteSet(XorNode)
  PROVE  XorTypeOK
<1>1. XorWalk \in Seq(XorNode) /\ xhead = Nth(XorWalk, 1)
  BY DEF XorInv, XorLinks
<1>2. ASSUME NEW i
      PROVE  /\ Nth(XorWalk, i) \subseteq XorNode /\ IsFiniteSet(Nth(XorWalk, i))
             /\ Cardinality(Nth(XorWalk, i)) \in {0, 1}
  <2>1. CASE i \in 1 .. Len(XorWalk)
    <3>1. Nth(XorWalk, i) = {XorWalk[i]} /\ XorWalk[i] \in XorNode
      BY <1>1, <2>1, ElementOfSeq DEF Nth
    <3> QED
      BY <3>1, FS_Singleton
  <2>2. CASE i \notin 1 .. Len(XorWalk)
    <3>1. Nth(XorWalk, i) = {}
      BY <2>2 DEF Nth
    <3> QED
      BY <3>1, FS_EmptySet
  <2> QED
    BY <2>1, <2>2
<1>3. ASSUME NEW a, NEW b, a \subseteq XorNode, b \subseteq XorNode,
             IsFiniteSet(a), IsFiniteSet(b),
             Cardinality(a) \in {0, 1}, Cardinality(b) \in {0, 1}
      PROVE  Xor(a, b) \subseteq XorNode /\ Cardinality(Xor(a, b)) <= 2
  <2>1. /\ IsFiniteSet(a \cup b) /\ Cardinality(a \cup b) \in Nat
        /\ IsFiniteSet(a \cap b) /\ Cardinality(a \cap b) \in Nat
        /\ Cardinality(a \cup b) = Cardinality(a) + Cardinality(b) - Cardinality(a \cap b)
    <3>1. IsFiniteSet(a \cup b) /\ IsFiniteSet(a \cap b)
          /\ Cardinality(a \cup b) = Cardinality(a) + Cardinality(b) - Cardinality(a \cap b)
      BY <1>3, FS_Union, FS_Intersection
    <3> QED
      BY <3>1, FS_CardinalityType
  <2>2. Xor(a, b) \subseteq a \cup b
    BY DEF Xor
  <2>3. Cardinality(Xor(a, b)) <= Cardinality(a \cup b) /\ Cardinality(Xor(a, b)) \in Nat
    BY <2>1, <2>2, FS_Subset, FS_CardinalityType
  <2>4. Cardinality(a \cup b) <= 2
    BY <1>3, <2>1
  <2>5. Xor(a, b) \subseteq XorNode
    BY <1>3, <2>2
  <2> QED
    BY <2>1, <2>3, <2>4, <2>5
<1>4. xhead \subseteq XorNode /\ Cardinality(xhead) <= 1
  BY <1>1, <1>2
<1>5. ASSUME NEW n \in XorNode
      PROVE  pointer[n] \subseteq XorNode /\ Cardinality(pointer[n]) <= 2
  <2>1. CASE Outside(n, XorWalk)
    <3>1. pointer[n] = {}
      BY <2>1 DEF XorInv, XorLinks
    <3> QED
      BY <3>1, FS_EmptySet
  <2>2. CASE ~Outside(n, XorWalk)
    <3>1. PICK i \in 1 .. Len(XorWalk) : XorWalk[i] = n
      BY <2>2 DEF Outside
    <3>2. pointer[n] = Xor(Nth(XorWalk, i - 1), Nth(XorWalk, i + 1))
      BY <3>1 DEF XorInv, XorLinks
    <3> QED
      BY <1>2, <1>3, <3>2
  <2> QED
    BY <2>1, <2>2
<1> QED
  BY <1>4, <1>5 DEF XorTypeOK

LEMMA TypedStart ==
  ASSUME Init
  PROVE  AdcTyped /\ FilesTyped /\ SpiTyped /\ SerTyped
BY AdcInitTyped, FilesInitTyped, SerInitTyped DEF Init

LEMMA TypedGoOn ==
  ASSUME [Next]_vars, AdcTyped, FilesTyped, SpiTyped, SerTyped, SerInv
  PROVE  AdcTyped' /\ FilesTyped' /\ SpiTyped' /\ SerTyped'
<1>1. /\ AdcNext \/ UNCHANGED adcVars
      /\ SpiNext \/ UNCHANGED <<filesVars, spiVars>>
      /\ SerNext \/ UNCHANGED serVars
  BY DEF Next, Only, vars
<1>2. UNCHANGED adcVars => AdcTyped'
  BY DEF adcVars, AdcTyped, AdcPlaced, AdcQueued, AdcValues, AdcCounted, AdcRuns, AdcStarts,
         Members, QueueOf, Waiting
<1>3. UNCHANGED <<filesVars, spiVars>> => FilesTyped' /\ SpiTyped'
  BY DEF filesVars, spiVars, FilesTyped, SpiTyped
<1>4. UNCHANGED serVars => SerTyped'
  BY DEF serVars, SerTyped
<1> QED
  BY <1>1, <1>2, <1>3, <1>4, AdcNextTyped, SpiNextTyped, SerNextTyped

(***************************************************************************)
(* Every part stays in its states, for any number of threads, files, pins, *)
(* nodes and messages, whatever times out: a thread waits in a queue       *)
(* exactly while it is blocked, no more events are counted than there are  *)
(* threads, the serial buffer is not overrun, no descriptor is out of      *)
(* range, and the count of a list or vector stays within its memory        *)
(* (BermudaADCConvert, usart_read, spi_flush_client, iob_add, epl.c,       *)
(* xorlist.c, i2c_vector_add, devreg.c, BermudaSwitchTask).                *)
(***************************************************************************)
THEOREM DevicesTyped ==
  ASSUME FiniteNodes, ListMiddle = FALSE, ~SerFast, ~SerShared, ArraysAreNotNull
  PROVE  Spec => []DevicesTypeOK
<1>1. ASSUME AdcTyped, FilesTyped, SpiTyped, SerTyped, SpiInv, SerInv,
             ListsInv, MsgvInv, NetInv, CtxInv
      PROVE  DevicesTypeOK
  <2>1. AdcTypeOK
    BY <1>1, AdcTypedImplies
  <2>2. SerTypeOK /\ SpiTypeOK
    BY <1>1, SerTypedImplies, SpiTypedImplies
  <2>3. EplTypeOK /\ RegTypeOK /\ ListTypeOK
    BY <1>1 DEF ListsInv, EplInv, RegInv, LinkInv
  <2>4. XorTypeOK
    BY <1>1, XorTyped DEF ListsInv, FiniteNodes
  <2>5. MsgvTypeOK /\ CtxTypeOK /\ NetTypeOK
    BY <1>1, MsgvTyped, CtxTyped, NetInvImplies
  <2> QED
    BY <2>1, <2>2, <2>3, <2>4, <2>5 DEF DevicesTypeOK
<1> QED
  BY <1>1, TypedStart, TypedGoOn, SpiInvariant, SerInvariant, ListsInvariant, MsgvInvariant,
     NetInvariant, CtxInvariant, PTL DEF Spec
=============================================================================
