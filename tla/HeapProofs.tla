------------------------------ MODULE HeapProofs ------------------------------
(***************************************************************************)
(* Proofs about Heap: for a heap of any length, headers of any length and  *)
(* any sizes, the blocks tile the heap, the list is in order, neighbours   *)
(* are merged, and the callers see the regions of HeapSpec.                *)
(***************************************************************************)
EXTENDS Heap, TLAPS

(***************************************************************************)
(* Where the three loops are.                                              *)
(***************************************************************************)
Searching ==
  pc = "search" =>
    /\ c \in Listed \cup {NULL}
    /\ old \in Held \cup {NULL}
    /\ prev = NULL => c = head
    /\ prev # NULL => prev \in Listed /\ next[prev] = c

Copied == pc = "copied" => old \in Held

Placing ==
  pc = "place" =>
    /\ node \in out
    /\ magic[node] = "free"
    /\ c = head
    /\ prev = NULL => head = NULL
    /\ prev # NULL => prev \in Listed /\ (node < head \/ prev < node)

Merging ==
  pc = "merge" =>
    /\ c \in Listed \cup {NULL}
    /\ node \in Blocks
    /\ c # NULL /\ magic[node] = "free" => node \in Listed

(***************************************************************************)
(* The only free neighbours are node and the blocks c has not reached yet. *)
(***************************************************************************)
Unmerged ==
  \A a, b \in Listed :
    BlockEnd(a) = b =>
      /\ pc = "merge"
      /\ c # NULL
      /\ (a = node /\ c <= b) \/ (b = node /\ c <= a)

IInv ==
  /\ HeapTypeOK /\ Tiled /\ ListInOrder
  /\ Searching /\ Copied /\ Placing /\ Merging
  /\ Unmerged
-----------------------------------------------------------------------------
(***************************************************************************)
(* Lists of addresses in order: h is the first element, and nx[a] the one  *)
(* behind a.                                                               *)
(***************************************************************************)
Above(S, n, x) ==
  /\ n = NULL \/ (n \in S /\ n > x)
  /\ \A a \in S : a > x => n # NULL /\ n <= a

Sorted(S, h, nx) ==
  /\ Above(S, h, NULL)
  /\ \A a \in S : Above(S, nx[a], a)

LEMMA OrderIsSorted == ListInOrder <=> Sorted(Listed, head, next)
BY DEF ListInOrder, FirstAbove, Sorted, Above

LEMMA DropFirst ==
  ASSUME NEW S, \A a \in S : a \in Int /\ a > 0, NEW k \in S, NEW nx, NEW ny,
         Sorted(S, k, nx), \A a \in S \ {k} : ny[a] = nx[a]
  PROVE  Sorted(S \ {k}, nx[k], ny)
<1>1. \A a \in S \ {k} : k < a
  BY DEF Sorted, Above, NULL
<1>2. Above(S \ {k}, nx[k], NULL)
  <2>1. Above(S, nx[k], k)
    BY DEF Sorted
  <2> QED
    BY <1>1, <2>1 DEF Above, NULL
<1>3. ASSUME NEW a \in S \ {k} PROVE Above(S \ {k}, ny[a], a)
  <2>1. Above(S, nx[a], a) /\ ny[a] = nx[a]
    BY DEF Sorted
  <2> QED
    BY <1>1, <2>1 DEF Above, NULL
<1> QED
  BY <1>2, <1>3 DEF Sorted

LEMMA DropBehind ==
  ASSUME NEW S, \A a \in S : a \in Int /\ a > 0, NEW h, NEW k \in S, NEW p \in S, NEW nx, NEW ny,
         Sorted(S, h, nx), nx[p] = k,
         ny[p] = nx[k], \A a \in S \ {k, p} : ny[a] = nx[a]
  PROVE  Sorted(S \ {k}, h, ny)
<1>1. p < k /\ h <= p /\ h # NULL /\ h # k
  BY DEF Sorted, Above, NULL
<1>2. Above(S \ {k}, h, NULL)
  BY <1>1 DEF Sorted, Above, NULL
<1>3. Above(S, nx[k], k) /\ Above(S, k, p)
  BY DEF Sorted
<1>4. ASSUME NEW a \in S \ {k} PROVE Above(S \ {k}, ny[a], a)
  <2>1. CASE a = p
    BY <1>1, <1>3, <2>1 DEF Above, NULL
  <2>2. CASE a # p
    <3>1. Above(S, nx[a], a) /\ ny[a] = nx[a]
      BY <2>2 DEF Sorted
    <3>2. nx[a] # k
      BY <1>1, <1>3, <2>2, <3>1 DEF Above, NULL
    <3> QED
      BY <3>1, <3>2 DEF Above, NULL
  <2> QED
    BY <2>1, <2>2
<1> QED
  BY <1>2, <1>4 DEF Sorted

LEMMA AddFirst ==
  ASSUME NEW S, \A a \in S : a \in Int /\ a > 0, NEW h, NEW n \in Int, n > 0, NEW nx, NEW ny,
         Sorted(S, h, nx), n < h, h # NULL,
         ny[n] = h, \A a \in S : ny[a] = nx[a]
  PROVE  Sorted(S \cup {n}, n, ny)
<1>1. Above(S, h, NULL)
  BY DEF Sorted
<1>2. h \in S /\ \A a \in S : n < a
  BY <1>1 DEF Above, NULL
<1>3. Above(S \cup {n}, n, NULL)
  BY <1>2 DEF Above, NULL
<1>4. ASSUME NEW a \in S \cup {n} PROVE Above(S \cup {n}, ny[a], a)
  <2>1. CASE a = n
    BY <1>1, <1>2, <2>1 DEF Above, NULL
  <2>2. CASE a # n
    <3>1. Above(S, nx[a], a) /\ ny[a] = nx[a] /\ n < a
      BY <1>2, <2>2 DEF Sorted
    <3> QED
      BY <2>2, <3>1 DEF Above, NULL
  <2> QED
    BY <2>1, <2>2
<1> QED
  BY <1>3, <1>4 DEF Sorted

LEMMA AddBehind ==
  ASSUME NEW S, \A a \in S : a \in Int /\ a > 0, NEW h, NEW n \in Int, n > 0, NEW p \in S,
         NEW nx, NEW ny,
         Sorted(S, h, nx), n \notin S, p < n, nx[p] = NULL \/ n < nx[p],
         ny[n] = nx[p], ny[p] = n, \A a \in S \ {p} : ny[a] = nx[a]
  PROVE  Sorted(S \cup {n}, h, ny)
<1>1. Above(S, h, NULL) /\ Above(S, nx[p], p)
  BY DEF Sorted
<1>2. h \in S /\ h <= p
  BY <1>1 DEF Above, NULL
<1>3. Above(S \cup {n}, h, NULL)
  BY <1>1, <1>2 DEF Above, NULL
<1>4. \A a \in S : a > p => a > n
  BY <1>1 DEF Above, NULL
<1>5. ASSUME NEW a \in S \cup {n} PROVE Above(S \cup {n}, ny[a], a)
  <2>1. CASE a = n
    BY <1>1, <2>1 DEF Above, NULL
  <2>2. CASE a = p
    BY <1>1, <1>4, <2>2 DEF Above, NULL
  <2>3. CASE a \in S \ {p}
    <3>1. Above(S, nx[a], a) /\ ny[a] = nx[a]
      BY <2>3 DEF Sorted
    <3>2. n > a => p > a
      BY <1>4, <2>3
    <3> QED
      BY <2>3, <3>1, <3>2 DEF Above, NULL
  <2> QED
    BY <2>1, <2>2, <2>3
<1> QED
  BY <1>3, <1>5 DEF Sorted
-----------------------------------------------------------------------------
(***************************************************************************)
(* The heap starts as one free block.                                      *)
(***************************************************************************)
LEMMA InitIInv == Init => IInv
<1> SUFFICES ASSUME Init PROVE IInv
  OBVIOUS
<1> USE HeapConstants DEF Init, Addr, NULL, Link
<1>a. Start \in Addr
  OBVIOUS
<1>b. /\ \A a : a \in Listed <=> a = Start
      /\ \A a : a \in Blocks <=> a = Start
  BY <1>a DEF Listed, Blocks
<1>c. BlockEnd(Start) = End
  BY <1>a DEF BlockEnd
<1>1. /\ Start \in Addr
      /\ Listed = {Start} /\ Blocks = {Start}
      /\ BlockEnd(Start) = End
  BY <1>a, <1>b, <1>c
<1>2. HeapTypeOK
  BY <1>1 DEF HeapTypeOK
<1>3. Tiled
  BY <1>1 DEF Tiled
<1>4. ListInOrder
  BY <1>1 DEF ListInOrder, FirstAbove
<1>5. Unmerged
  BY <1>1 DEF Unmerged
<1> QED
  BY <1>2, <1>3, <1>4, <1>5 DEF IInv, Searching, Copied, Placing, Merging

(***************************************************************************)
(* A step that leaves the memory alone leaves the blocks and the list.     *)
(***************************************************************************)
LEMMA SameMemory ==
  ASSUME IInv, UNCHANGED memory
  PROVE  /\ Blocks' = Blocks /\ Listed' = Listed /\ Held' = Held
         /\ \A a : BlockEnd(a)' = BlockEnd(a)
         /\ Tiled' /\ ListInOrder'
<1>1. /\ Blocks' = Blocks /\ Listed' = Listed /\ Held' = Held
      /\ \A a : BlockEnd(a)' = BlockEnd(a)
  BY DEF memory, Blocks, Listed, Held, BlockEnd
<1>2. Tiled'
  BY <1>1 DEF IInv, Tiled
<1>3. ListInOrder'
  BY <1>1 DEF IInv, ListInOrder, FirstAbove, memory
<1> QED
  BY <1>1, <1>2, <1>3

(***************************************************************************)
(* Addresses are numbers, and blocks end inside the heap.                  *)
(***************************************************************************)
LEMMA Numbers ==
  ASSUME HeapTypeOK, Tiled
  PROVE  /\ \A a \in Addr : a \in Int /\ a > 0 /\ a < End
         /\ \A a \in Addr : size[a] \in Int /\ 0 <= size[a] /\ size[a] <= End
         /\ \A a \in Blocks : a \in Addr /\ BlockEnd(a) <= End
         /\ \A a \in Listed \cup Held : a \in Blocks
         /\ Header \in Int /\ Header > 0 /\ Rest \in Int /\ Rest > 0 /\ End \in Int
         /\ want \in Int /\ want >= 0
<1>1. \A a \in Addr : a \in Int /\ a > 0 /\ a < End
  BY HeapConstants DEF Addr
<1>2. \A a \in Addr : size[a] \in 0 .. End
  BY DEF HeapTypeOK
<1>3. ASSUME NEW a \in Blocks PROVE a \in Addr /\ BlockEnd(a) <= End
  <2>1. BlockEnd(a) \in Addr \cup {End}
    BY DEF Tiled, Blocks
  <2> QED
    BY <1>1, <2>1, HeapConstants DEF Blocks
<1>4. \A a \in Listed \cup Held : a \in Blocks
  BY DEF Blocks, Listed, Held
<1> QED
  BY <1>1, <1>2, <1>3, <1>4, HeapConstants DEF HeapTypeOK

(***************************************************************************)
(* What the links of the list lead to.                                     *)
(***************************************************************************)
LEMMA Links ==
  ASSUME ListInOrder
  PROVE  /\ head \in Listed \cup {NULL}
         /\ \A a \in Listed : head # NULL /\ head <= a
         /\ \A a \in Listed : next[a] \in Listed \cup {NULL}
         /\ \A a \in Listed : next[a] # NULL => next[a] > a
         /\ \A a, b \in Listed : b > a => next[a] # NULL /\ next[a] <= b
<1>1. \A a \in Listed : a > NULL
  BY HeapConstants DEF Listed, Addr, NULL
<1> QED
  BY <1>1 DEF ListInOrder, FirstAbove

LEMMA SearchStep ==
  ASSUME IInv, NEW n \in Sizes, NEW a \in Held \cup {NULL}, Search(n, a)
  PROVE  IInv'
<1>1. UNCHANGED memory
  BY DEF Search
<1>m. /\ Blocks' = Blocks /\ Listed' = Listed /\ Held' = Held
      /\ \A x : BlockEnd(x)' = BlockEnd(x)
      /\ Tiled' /\ ListInOrder'
  BY <1>1, SameMemory
<1>2. HeapTypeOK'
  BY DEF IInv, HeapTypeOK, Search, memory, Blocks, Held, Link, NULL
<1>3. Searching'
  BY <1>m, Links DEF IInv, Searching, Search, memory
<1>4. Unmerged'
  BY <1>1, <1>m DEF IInv, Unmerged, Search
<1> QED
  BY <1>1, <1>2, <1>3, <1>4, <1>m
     DEF IInv, Search, Copied, Placing, Merging

LEMMA SearchNextStep == IInv /\ SearchNext => IInv'
<1> SUFFICES ASSUME IInv, SearchNext PROVE IInv'
  OBVIOUS
<1>1. UNCHANGED memory
  BY DEF SearchNext
<1>m. /\ Blocks' = Blocks /\ Listed' = Listed /\ Held' = Held
      /\ \A x : BlockEnd(x)' = BlockEnd(x)
      /\ Tiled' /\ ListInOrder'
  BY <1>1, SameMemory
<1>2. c \in Listed
  BY DEF IInv, Searching, SearchNext
<1>3. HeapTypeOK'
  BY <1>2 DEF IInv, HeapTypeOK, SearchNext, memory, Blocks, Listed, Link
<1>4. Searching'
  BY <1>2, <1>m, Links DEF IInv, Searching, SearchNext, memory
<1>5. Unmerged'
  BY <1>1, <1>m DEF IInv, Unmerged, SearchNext
<1> QED
  BY <1>1, <1>3, <1>4, <1>5, <1>m
     DEF IInv, SearchNext, Copied, Placing, Merging

LEMMA OutOfMemoryStep == IInv /\ OutOfMemory => IInv'
<1> SUFFICES ASSUME IInv, OutOfMemory PROVE IInv'
  OBVIOUS
<1>1. UNCHANGED memory
  BY DEF OutOfMemory
<1>m. /\ Blocks' = Blocks /\ Listed' = Listed /\ Held' = Held
      /\ \A x : BlockEnd(x)' = BlockEnd(x)
      /\ Tiled' /\ ListInOrder'
  BY <1>1, SameMemory
<1>2. HeapTypeOK'
  BY DEF IInv, HeapTypeOK, OutOfMemory, memory, Blocks
<1>3. Unmerged'
  BY <1>1, <1>m DEF IInv, Unmerged, OutOfMemory
<1> QED
  BY <1>1, <1>2, <1>3, <1>m
     DEF IInv, OutOfMemory, Searching, Copied, Placing, Merging

LEMMA PlaceNextStep == IInv /\ PlaceNext => IInv'
<1> SUFFICES ASSUME IInv, PlaceNext PROVE IInv'
  OBVIOUS
<1>1. UNCHANGED memory
  BY DEF PlaceNext
<1>m. /\ Blocks' = Blocks /\ Listed' = Listed /\ Held' = Held
      /\ \A x : BlockEnd(x)' = BlockEnd(x)
      /\ Tiled' /\ ListInOrder'
  BY <1>1, SameMemory
<1>2. prev \in Listed /\ next[prev] \in Listed /\ node \notin Listed
  BY Links DEF IInv, Placing, PlaceNext, PlaceHere, Listed
<1>3. node \in Int /\ next[prev] \in Int
  BY <1>2, HeapConstants DEF IInv, HeapTypeOK, Link, Addr, NULL, Listed
<1>4. next[prev] < node
  BY <1>2, <1>3 DEF IInv, Placing, PlaceNext, PlaceHere
<1>5. HeapTypeOK'
  BY <1>2 DEF IInv, HeapTypeOK, PlaceNext, memory, Blocks, Listed, Link
<1>6. Placing'
  BY <1>m, <1>2, <1>4, HeapConstants
     DEF IInv, Placing, PlaceNext, memory, NULL, Listed, Addr
<1>7. Unmerged'
  BY <1>1, <1>m DEF IInv, Unmerged, PlaceNext
<1> QED
  BY <1>m, <1>5, <1>6, <1>7
     DEF IInv, PlaceNext, Searching, Copied, Merging

LEMMA PlaceNowhereStep == IInv /\ PlaceNowhere => IInv'
<1> SUFFICES ASSUME IInv, PlaceNowhere PROVE IInv'
  OBVIOUS
<1>1. UNCHANGED memory
  BY DEF PlaceNowhere
<1>m. /\ Blocks' = Blocks /\ Listed' = Listed /\ Held' = Held
      /\ \A x : BlockEnd(x)' = BlockEnd(x)
      /\ Tiled' /\ ListInOrder'
  BY <1>1, SameMemory
<1>2. HeapTypeOK'
  BY DEF IInv, HeapTypeOK, PlaceNowhere, memory, Blocks
<1>3. Merging'
  BY <1>m DEF IInv, HeapTypeOK, Placing, Merging, PlaceNowhere, memory
<1>4. Unmerged'
  BY <1>1, <1>m DEF IInv, Unmerged, PlaceNowhere
<1> QED
  BY <1>m, <1>2, <1>3, <1>4
     DEF IInv, PlaceNowhere, Searching, Copied, Placing

LEMMA MergeNextStep == IInv /\ MergeNext => IInv'
<1> SUFFICES ASSUME IInv, MergeNext PROVE IInv'
  OBVIOUS
<1>1. UNCHANGED memory
  BY DEF MergeNext
<1>m. /\ Blocks' = Blocks /\ Listed' = Listed /\ Held' = Held
      /\ \A x : BlockEnd(x)' = BlockEnd(x)
      /\ Tiled' /\ ListInOrder'
  BY <1>1, SameMemory
<1>2. c \in Listed /\ next[c] \in Listed \cup {NULL}
  BY Links DEF IInv, Merging, MergeNext
<1>3. HeapTypeOK'
  BY <1>2 DEF IInv, HeapTypeOK, MergeNext, memory, Blocks, Listed, Link
<1>4. Merging'
  BY <1>m, <1>2 DEF IInv, Merging, MergeNext, memory
<1>5. Unmerged'
  <2> SUFFICES ASSUME NEW a \in Listed, NEW b \in Listed, BlockEnd(a) = b
               PROVE  /\ next[c] # NULL
                      /\ (a = node /\ next[c] <= b) \/ (b = node /\ next[c] <= a)
    BY <1>m DEF Unmerged, MergeNext
  <2>1. (a = node /\ c <= b) \/ (b = node /\ c <= a)
    BY DEF IInv, Unmerged
  <2>2. ~Neighbours
    BY DEF MergeNext
  <2>3. {a, b, c} \subseteq Int
    BY <1>2, HeapConstants DEF Listed, Addr
  <2>4. (a = node /\ c < b) \/ (b = node /\ c < a)
    BY <2>1, <2>2, <2>3 DEF Neighbours
  <2> QED
    BY <1>2, <2>3, <2>4, Links DEF IInv
<1> QED
  BY <1>m, <1>3, <1>4, <1>5
     DEF IInv, MergeNext, Searching, Copied, Placing

LEMMA FreeReturnsStep == IInv /\ FreeReturns => IInv'
<1> SUFFICES ASSUME IInv, FreeReturns PROVE IInv'
  OBVIOUS
<1>1. UNCHANGED memory
  BY DEF FreeReturns
<1>m. /\ Blocks' = Blocks /\ Listed' = Listed /\ Held' = Held
      /\ \A x : BlockEnd(x)' = BlockEnd(x)
      /\ Tiled' /\ ListInOrder'
  BY <1>1, SameMemory
<1>2. HeapTypeOK'
  BY DEF IInv, HeapTypeOK, FreeReturns, memory, Blocks, Link
<1>3. Unmerged'
  BY <1>m DEF IInv, Unmerged, Merging, FreeReturns, Listed
<1> QED
  BY <1>m, <1>2, <1>3
     DEF IInv, FreeReturns, Searching, Copied, Placing, Merging

LEMMA UseWholeStep == IInv /\ UseWhole => IInv'
<1> SUFFICES ASSUME IInv, UseWhole PROVE IInv'
  OBVIOUS
<1>1. c \in Listed /\ c \notin out
  BY DEF IInv, Searching, UseWhole, Listed
<1>2. /\ Blocks' = Blocks
      /\ Listed' = Listed \ {c}
      /\ Held' = Held \cup {c}
      /\ \A x : BlockEnd(x)' = BlockEnd(x)
  BY <1>1 DEF IInv, HeapTypeOK, UseWhole, AllocReturns, Blocks, Listed, Held, BlockEnd
<1>3. HeapTypeOK'
  <2>1. next[c] \in Link
    BY <1>1 DEF IInv, HeapTypeOK, Listed
  <2>2. head' \in Link /\ next' \in [Addr -> Link]
    BY <2>1 DEF IInv, HeapTypeOK, UseWhole, Unlink, Link
  <2>3. magic' \in [Addr -> {"free", "alloc", "none"}]
    BY DEF IInv, HeapTypeOK, UseWhole
  <2> QED
    BY <1>2, <2>2, <2>3 DEF IInv, HeapTypeOK, UseWhole, AllocReturns, Link
<1>4. Tiled'
  BY <1>2 DEF IInv, Tiled
<1>5. ListInOrder'
  <2>1. /\ \A a \in Listed : a \in Addr /\ a \in Int /\ a > 0
        /\ next \in [Addr -> Link]
    BY HeapConstants DEF IInv, HeapTypeOK, Listed, Addr
  <2>2. Sorted(Listed, head, next)
    BY OrderIsSorted DEF IInv
  <2> SUFFICES Sorted(Listed', head', next')
    BY DEF ListInOrder, FirstAbove, Sorted, Above
  <2>3. CASE prev = NULL
    <3>1. /\ head = c /\ head' = next[c]
          /\ \A a \in Listed \ {c} : next'[a] = next[a]
      BY <1>1, <2>1, <2>3 DEF IInv, Searching, UseWhole, Unlink
    <3> QED
      BY <1>1, <1>2, <2>1, <2>2, <3>1, DropFirst
  <2>4. CASE prev # NULL
    <3>1. /\ prev \in Listed /\ next[prev] = c
          /\ head' = head /\ next'[prev] = next[c]
          /\ \A a \in Listed \ {c, prev} : next'[a] = next[a]
      BY <1>1, <2>1, <2>4 DEF IInv, Searching, UseWhole, Unlink
    <3> QED
      BY <1>1, <1>2, <2>1, <2>2, <3>1, DropBehind
  <2> QED
    BY <2>3, <2>4
<1>6. Unmerged'
  BY <1>2 DEF IInv, Unmerged, UseWhole
<1> QED
  BY <1>2, <1>3, <1>4, <1>5, <1>6
     DEF IInv, UseWhole, AllocReturns, Searching, Copied, Placing, Merging

LEMMA SplitStep == IInv /\ Split => IInv'
<1> SUFFICES ASSUME IInv, Split PROVE IInv'
  OBVIOUS
<1> DEFINE rest == c + Header + want
<1> PICK e : e = BlockEnd(c)
  OBVIOUS
<1>1. c \in Listed /\ c \in Blocks /\ c \in Addr /\ c \notin out
  BY Numbers DEF IInv, Searching, Split, Listed
<1>n. /\ \A a \in Addr : a \in Int /\ a > 0 /\ a < End
      /\ Header \in Int /\ Header > 0 /\ Rest \in Int /\ Rest > 0 /\ End \in Int
      /\ want \in Int /\ want >= 0
      /\ size[c] \in Int /\ size[c] <= End /\ e <= End
      /\ e \in Int /\ e = c + Header + size[c]
  BY <1>1, Numbers DEF IInv, BlockEnd
<1>s. size[c] >= want + Header + Rest /\ RestSize = size[c] - want - Header
  BY DEF Split, Splits, RestSize
<1>2. /\ rest \in Int /\ c < rest /\ rest < e
      /\ RestSize \in Int /\ RestSize > 0 /\ rest + Header + RestSize = e
  <2>1. c \in Int /\ c > 0
    BY <1>1, <1>n
  <2> QED
    BY <2>1, <1>n, <1>s
<1>3. rest \in Addr /\ rest # c
  BY <1>1, <1>2, <1>n, HeapConstants DEF Addr
<1>4. rest \notin Blocks /\ rest \notin Listed /\ rest \notin out
  <2>1. rest \notin Blocks
    <3> SUFFICES ASSUME rest \in Blocks PROVE e <= rest
      BY <1>2, <1>n
    <3> QED
      BY <1>1, <1>2 DEF IInv, Tiled
  <2> QED
    BY <2>1 DEF IInv, HeapTypeOK, Blocks, Listed
<1>5. /\ magic' = [magic EXCEPT ![c] = "alloc", ![rest] = "free"]
      /\ size' = [size EXCEPT ![c] = want, ![rest] = RestSize]
      /\ out' = out
  BY DEF Split, AllocReturns
<1> HIDE DEF rest
<1>6. /\ Blocks' = Blocks \cup {rest}
      /\ Listed' = (Listed \ {c}) \cup {rest}
      /\ Held' = Held \cup {c}
  BY <1>1, <1>3, <1>4, <1>5 DEF IInv, HeapTypeOK, Blocks, Listed, Held
<1>7. \A x \in Addr : BlockEnd(x)' = IF x = c THEN rest ELSE IF x = rest THEN e ELSE BlockEnd(x)
  <2> SUFFICES ASSUME NEW x \in Addr
               PROVE  x + Header + size'[x] =
                        IF x = c THEN rest ELSE IF x = rest THEN e ELSE x + Header + size[x]
    BY DEF BlockEnd
  <2>1. size'[x] = IF x = c THEN want ELSE IF x = rest THEN RestSize ELSE size[x]
    BY <1>1, <1>3, <1>5 DEF IInv, HeapTypeOK
  <2>2. rest = c + Header + want
    BY DEF rest
  <2> QED
    BY <1>2, <1>3, <1>n, <2>1, <2>2
<1>8. HeapTypeOK'
  <2>1. next[c] \in Link /\ rest \in Link
    BY <1>1, <1>3 DEF IInv, HeapTypeOK, Link
  <2>2. head' \in Link /\ next' \in [Addr -> Link]
    BY <2>1 DEF IInv, HeapTypeOK, Split, Unlink, Link, rest
  <2>3. want \in 0 .. End /\ RestSize \in 0 .. End
    BY <1>1, <1>2, <1>3, <1>n, <1>s
  <2>4. /\ magic' \in [Addr -> {"free", "alloc", "none"}]
        /\ size' \in [Addr -> 0 .. End]
    BY <1>5, <2>3 DEF IInv, HeapTypeOK
  <2> QED
    BY <1>6, <2>2, <2>4 DEF IInv, HeapTypeOK, Split, AllocReturns, Link
<1>9. Tiled'
  <2>1. \A a \in Blocks : a \in Addr /\ BlockEnd(a) \in Blocks \cup {End}
    BY DEF IInv, Tiled, Blocks
  <2>2. e \in Blocks \cup {End}
    BY <1>1, <2>1
  <2>3. \A a \in Blocks' : BlockEnd(a)' \in Blocks' \cup {End}
    BY <1>3, <1>6, <1>7, <2>1, <2>2
  <2>4. ASSUME NEW a \in Blocks', NEW b \in Blocks', a < b PROVE BlockEnd(a)' <= b
    <3>1. \A x, y \in Blocks : x < y => BlockEnd(x) <= y
      BY DEF IInv, Tiled
    <3>n. \A x \in Blocks' : x \in Int
      BY <1>3, <1>6, <1>n, <2>1
    <3>2. CASE a = c
      <4>1. CASE b = rest
        BY <1>1, <1>3, <1>7, <3>2, <4>1, <1>2
      <4>2. CASE b \in Blocks
        <5>1. e <= b /\ BlockEnd(a)' = rest
          BY <1>1, <1>7, <2>4, <3>1, <3>2, <4>2
        <5> QED
          BY <1>2, <1>n, <3>n, <5>1
      <4> QED
        BY <1>6, <4>1, <4>2
    <3>3. CASE a = rest
      <4>1. b \in Blocks
        BY <1>2, <1>6, <2>4, <3>3
      <4>2. c < b
        BY <1>1, <1>2, <1>n, <2>4, <3>3, <3>n
      <4>3. BlockEnd(a)' = e /\ e <= b
        BY <1>1, <1>2, <1>3, <1>7, <3>1, <3>3, <4>1, <4>2
      <4> QED
        BY <4>3
    <3>4. CASE a \in Blocks \ {c} /\ b = rest
      <4>1. BlockEnd(a)' = BlockEnd(a) /\ a \in Int
        BY <1>4, <1>7, <2>1, <3>4, <3>n
      <4>2. CASE a < c
        <5>1. BlockEnd(a) <= c /\ BlockEnd(a) \in Int
          BY <1>1, <1>n, <2>1, <3>1, <3>4, <4>2
        <5> QED
          BY <1>1, <1>2, <1>n, <3>4, <4>1, <5>1
      <4>3. CASE c < a
        <5>1. e <= a
          BY <1>1, <3>1, <3>4, <4>3
        <5> QED
          BY <1>2, <1>n, <2>4, <3>4, <4>1, <5>1
      <4> QED
        BY <1>1, <1>n, <3>4, <4>1, <4>2, <4>3
    <3>5. CASE a \in Blocks \ {c} /\ b \in Blocks
      BY <1>4, <1>7, <2>1, <2>4, <3>1, <3>5
    <3> QED
      BY <1>6, <3>2, <3>3, <3>4, <3>5
  <2> QED
    BY <1>6, <2>3, <2>4 DEF IInv, Tiled
<1>10. ListInOrder'
  <2> SUFFICES Sorted(Listed', head', next')
    BY DEF ListInOrder, FirstAbove, Sorted, Above
  <2>1. /\ \A a \in Listed : a \in Addr /\ a \in Int /\ a > 0
        /\ next \in [Addr -> Link]
    BY <1>n DEF IInv, HeapTypeOK, Listed
  <2>2. Sorted(Listed, head, next)
    BY OrderIsSorted DEF IInv
  <2> DEFINE S == Listed \cup {rest}
             nx == [next EXCEPT ![rest] = next[c], ![c] = rest]
  <2>3. nx[rest] = next[c] /\ nx[c] = rest /\ \A a \in Listed \ {c} : nx[a] = next[a]
    BY <1>1, <1>3, <1>4, <2>1
  <2>4. Above(Listed, next[c], c)
    BY <1>1, <2>2 DEF Sorted
  <2>5. next[c] = NULL \/ rest < next[c]
    <3> SUFFICES ASSUME next[c] # NULL PROVE rest < next[c]
      OBVIOUS
    <3>1. next[c] \in Listed /\ c < next[c] /\ next[c] \in Blocks
      BY <1>1, <2>1, <2>4, Numbers DEF Above, IInv
    <3>2. e <= next[c]
      BY <1>1, <3>1 DEF IInv, Tiled
    <3> QED
      BY <1>2, <1>n, <2>1, <3>1, <3>2
  <2> HIDE DEF nx
  <2>6. Sorted(Listed \cup {rest}, head, nx)
    BY <1>1, <1>2, <1>3, <1>4, <1>n, <2>1, <2>2, <2>3, <2>5, AddBehind
  <2>7. /\ \A a \in S : a \in Int /\ a > 0 /\ a \in Addr
        /\ c \in S /\ Listed' = S \ {c}
    BY <1>1, <1>3, <1>6, <1>n, <2>1
  <2> HIDE DEF S
  <2>8. CASE prev = NULL
    <3>1. head = c /\ head' = nx[c]
      BY <2>3, <2>8 DEF IInv, Searching, Split, Unlink, rest
    <3>2. \A a \in S \ {c} : next'[a] = nx[a]
      BY <1>1, <1>3, <2>1, <2>7, <2>8 DEF Split, Unlink, rest, nx
    <3> QED
      BY <2>6, <2>7, <3>1, <3>2, DropFirst DEF S
  <2>9. CASE prev # NULL
    <3>1. prev \in Listed /\ next[prev] = c /\ head' = head
      BY <2>9 DEF IInv, Searching, Split, Unlink
    <3>2. prev # c /\ prev # rest /\ prev \in S
      BY <1>1, <1>4, <2>1, <3>1, Links DEF IInv, NULL, S
    <3>3. nx[prev] = c /\ next'[prev] = nx[c]
      BY <1>1, <1>3, <2>1, <2>3, <2>9, <3>1, <3>2 DEF Split, Unlink, rest
    <3>4. \A a \in S \ {c, prev} : next'[a] = nx[a]
      BY <1>1, <1>3, <2>1, <2>7, <2>9 DEF Split, Unlink, rest, nx
    <3> QED
      BY <2>6, <2>7, <3>1, <3>2, <3>3, <3>4, DropBehind DEF S
  <2> QED
    BY <2>8, <2>9
<1>11. Unmerged'
  <2> SUFFICES ASSUME NEW a \in Listed', NEW b \in Listed', BlockEnd(a)' = b
               PROVE  FALSE
    BY DEF Unmerged
  <2>1. \A x, y \in Listed : BlockEnd(x) # y
    BY DEF IInv, Unmerged, Split
  <2>2. \A x \in Listed : x \in Blocks /\ x \in Addr /\ BlockEnd(x) # rest
    BY <1>2, <1>4, <1>n, Numbers DEF IInv, Tiled
  <2>3. e # rest
    BY <1>2, <1>n
  <2> QED
    BY <1>1, <1>3, <1>6, <1>7, <2>1, <2>2, <2>3
<1> QED
  BY <1>6, <1>8, <1>9, <1>10, <1>11
     DEF IInv, Split, AllocReturns, Searching, Copied, Placing, Merging

LEMMA HeapFreeStep ==
  ASSUME IInv, pc \in {"idle", "copied"}, NEW a \in Held, HeapFree(a)
  PROVE  IInv'
<1>1. a \in Blocks /\ a \in Addr /\ a \notin Listed
  BY Numbers DEF IInv, Held, Listed
<1>2. /\ Blocks' = Blocks
      /\ Listed' = Listed
      /\ \A x : BlockEnd(x)' = BlockEnd(x)
  BY <1>1 DEF IInv, HeapTypeOK, HeapFree, Blocks, Listed, Held, BlockEnd
<1>3. HeapTypeOK'
  <2>1. magic' \in [Addr -> {"free", "alloc", "none"}]
    BY DEF IInv, HeapTypeOK, HeapFree
  <2> QED
    BY <1>1, <1>2, <2>1 DEF IInv, HeapTypeOK, HeapFree, Link
<1>4. Tiled'
  BY <1>2 DEF IInv, Tiled
<1>5. ListInOrder'
  BY <1>2 DEF IInv, ListInOrder, FirstAbove, HeapFree
<1>6. Unmerged'
  BY <1>2 DEF IInv, Unmerged
<1>7. head \in Listed \cup {NULL}
  BY Links DEF IInv
<1>8. CASE size[a] = 0
  <2>1. Merging'
    BY <1>1, <1>2, <1>7, <1>8 DEF Merging, HeapFree, Held
  <2> QED
    BY <1>3, <1>4, <1>5, <1>6, <1>8, <2>1
       DEF IInv, HeapFree, Searching, Copied, Placing
<1>9. CASE size[a] # 0
  <2>1. magic'[a] = "free"
    BY <1>1, <1>9 DEF IInv, HeapTypeOK, HeapFree
  <2>2. head # a /\ (head # NULL => head \in Int /\ head \in Listed)
    BY <1>1, <1>7, Numbers DEF IInv, NULL
  <2>3. a \in Int
    BY <1>1, Numbers DEF IInv
  <2>4. Placing'
    BY <1>2, <1>9, <2>1, <2>2, <2>3 DEF Placing, HeapFree
  <2> QED
    BY <1>3, <1>4, <1>5, <1>6, <1>9, <2>4
       DEF IInv, HeapFree, Searching, Copied, Merging
<1> QED
  BY <1>8, <1>9

(***************************************************************************)
(* What both ways of linking a block have in common.                       *)
(***************************************************************************)
LEMMA PlacedMemory ==
  ASSUME IInv, pc = "place", Placed
  PROVE  /\ node \in Blocks /\ node \in Addr /\ node \notin Listed
         /\ Blocks' = Blocks /\ Listed' = Listed \cup {node} /\ Held' = Held
         /\ \A x : BlockEnd(x)' = BlockEnd(x)
         /\ Tiled'
<1>1. node \in Blocks /\ node \in Addr /\ node \notin Listed
  BY Numbers DEF IInv, HeapTypeOK, Placing, Listed
<1>2. /\ Blocks' = Blocks /\ Listed' = Listed \cup {node} /\ Held' = Held
      /\ \A x : BlockEnd(x)' = BlockEnd(x)
  BY <1>1 DEF IInv, Placed, Placing, Blocks, Listed, Held, BlockEnd
<1>3. Tiled'
  BY <1>2 DEF IInv, Tiled
<1> QED
  BY <1>1, <1>2, <1>3

(***************************************************************************)
(* The walk that merges starts at or below both neighbours of node.        *)
(***************************************************************************)
LEMMA WalkStarts ==
  ASSUME IInv, pc = "place", Placed, head # NULL
  PROVE  Unmerged'
<1>1. /\ Listed' = Listed \cup {node} /\ node \in Addr
      /\ \A x : BlockEnd(x)' = BlockEnd(x)
  BY PlacedMemory
<1>2. c = head /\ \A x \in Listed : head <= x
  BY Links DEF IInv, Placing
<1>3. \A x, y \in Listed : BlockEnd(x) # y
  BY DEF IInv, Unmerged
<1>4. BlockEnd(node) # node
  BY <1>1, Numbers DEF IInv, BlockEnd
<1> QED
  BY <1>1, <1>2, <1>3, <1>4 DEF Unmerged, Placed

LEMMA PlaceFirstStep == IInv /\ PlaceFirst => IInv'
<1> SUFFICES ASSUME IInv, PlaceFirst PROVE IInv'
  OBVIOUS
<1>1. /\ node \in Blocks /\ node \in Addr /\ node \notin Listed
      /\ Blocks' = Blocks /\ Listed' = Listed \cup {node} /\ Held' = Held
      /\ \A x : BlockEnd(x)' = BlockEnd(x)
      /\ Tiled'
  BY PlacedMemory DEF PlaceFirst
<1>2. /\ \A a \in Listed \cup {node} : a \in Addr /\ a \in Int /\ a > 0
      /\ next \in [Addr -> Link]
  BY <1>1, Numbers DEF IInv, HeapTypeOK, Listed
<1>3. head \in Listed /\ head # NULL
  BY <1>1, <1>2, Links DEF IInv, PlaceFirst, NULL
<1>4. HeapTypeOK'
  <2>1. next' \in [Addr -> Link]
    BY <1>2, <1>3 DEF PlaceFirst, Link
  <2> QED
    BY <1>1, <2>1 DEF IInv, HeapTypeOK, PlaceFirst, Placed, Link
<1>5. ListInOrder'
  <2> SUFFICES Sorted(Listed', head', next')
    BY DEF ListInOrder, FirstAbove, Sorted, Above
  <2>1. Sorted(Listed, head, next)
    BY OrderIsSorted DEF IInv
  <2>2. next'[node] = head /\ \A a \in Listed : next'[a] = next[a]
    BY <1>1, <1>2 DEF PlaceFirst
  <2> QED
    BY <1>1, <1>2, <1>3, <2>1, <2>2, AddFirst DEF PlaceFirst
<1>6. Unmerged'
  BY <1>3, WalkStarts DEF PlaceFirst
<1>7. Merging'
  BY <1>1, <1>3 DEF IInv, Placing, Merging, PlaceFirst, Placed
<1> QED
  BY <1>1, <1>4, <1>5, <1>6, <1>7
     DEF IInv, PlaceFirst, Placed, Searching, Copied, Placing

LEMMA PlaceBehindStep == IInv /\ PlaceBehind => IInv'
<1> SUFFICES ASSUME IInv, PlaceBehind PROVE IInv'
  OBVIOUS
<1>1. /\ node \in Blocks /\ node \in Addr /\ node \notin Listed
      /\ Blocks' = Blocks /\ Listed' = Listed \cup {node} /\ Held' = Held
      /\ \A x : BlockEnd(x)' = BlockEnd(x)
      /\ Tiled'
  BY PlacedMemory DEF PlaceBehind
<1>2. /\ \A a \in Listed \cup {node} : a \in Addr /\ a \in Int /\ a > 0
      /\ next \in [Addr -> Link]
  BY <1>1, Numbers DEF IInv, HeapTypeOK, Listed
<1>3. prev \in Listed /\ prev < node /\ head \in Listed /\ head # NULL
  BY Links DEF IInv, Placing, PlaceBehind
<1>4. next[prev] = NULL \/ node < next[prev]
  BY DEF PlaceBehind, PlaceHere
<1>5. HeapTypeOK'
  <2>1. next' \in [Addr -> Link]
    BY <1>1, <1>2, <1>3 DEF PlaceBehind, LinkBehind, Link
  <2> QED
    BY <1>1, <2>1 DEF IInv, HeapTypeOK, PlaceBehind, Placed, Link
<1>6. ListInOrder'
  <2> SUFFICES Sorted(Listed', head', next')
    BY DEF ListInOrder, FirstAbove, Sorted, Above
  <2>1. Sorted(Listed, head, next)
    BY OrderIsSorted DEF IInv
  <2>2. /\ next'[node] = next[prev] /\ next'[prev] = node
        /\ \A a \in Listed \ {prev} : next'[a] = next[a]
    BY <1>1, <1>2, <1>3 DEF PlaceBehind, LinkBehind
  <2> QED
    BY <1>1, <1>2, <1>3, <1>4, <2>1, <2>2, AddBehind DEF PlaceBehind
<1>7. Unmerged'
  BY <1>3, WalkStarts DEF PlaceBehind
<1>8. Merging'
  BY <1>1, <1>3 DEF IInv, Placing, Merging, PlaceBehind, Placed
<1> QED
  BY <1>1, <1>5, <1>6, <1>7, <1>8
     DEF IInv, PlaceBehind, Placed, Searching, Copied, Placing

LEMMA MergeNodeStep == IInv /\ MergeNode => IInv'
<1> SUFFICES ASSUME IInv, MergeNode PROVE IInv'
  OBVIOUS
<1> PICK alpha, beta : /\ alpha = IF BlockEnd(node) = c THEN node ELSE c
                       /\ beta  = IF BlockEnd(node) = c THEN c ELSE node
  OBVIOUS
<1> PICK e : e = BlockEnd(beta)
  OBVIOUS
<1>1. /\ magic' = [magic EXCEPT ![beta] = "none"]
      /\ size' = [size EXCEPT ![alpha] = @ + size[beta] + Header, ![beta] = 0]
      /\ next' = [next EXCEPT ![alpha] = next[beta], ![beta] = NULL]
      /\ node' = alpha /\ c' = next[beta]
      /\ UNCHANGED <<head, out, pc, want, old, prev>>
      /\ pc = "merge" /\ c # NULL
  BY DEF MergeNode
<1>2. {c, node} \subseteq Listed
  BY DEF IInv, Merging, MergeNode
<1>3. /\ {alpha, beta} \subseteq Listed /\ BlockEnd(alpha) = beta
      /\ {alpha, beta} = {c, node}
  BY <1>2 DEF MergeNode, Neighbours
<1>n. /\ \A a \in Addr : a \in Int /\ a > 0 /\ a < End
      /\ \A a \in Blocks : a \in Addr /\ BlockEnd(a) <= End
      /\ \A a \in Listed \cup Held : a \in Blocks
      /\ alpha \in Addr /\ beta \in Addr
      /\ Header \in Int /\ Header > 0 /\ End \in Int
      /\ size[alpha] \in Int /\ size[alpha] >= 0
      /\ size[beta] \in Int /\ size[beta] >= 0
      /\ beta = alpha + Header + size[alpha]
      /\ e = beta + Header + size[beta]
  BY <1>3, Numbers DEF IInv, BlockEnd
<1>4. alpha < beta /\ beta < e /\ e <= End /\ e \in Int
  BY <1>3, <1>n
<1>5. /\ Blocks' = Blocks \ {beta}
      /\ Listed' = Listed \ {beta}
      /\ Held' = Held
  BY <1>1, <1>3, <1>n DEF IInv, HeapTypeOK, Blocks, Listed, Held
<1>6. /\ \A x \in Addr \ {alpha, beta} : BlockEnd(x)' = BlockEnd(x)
      /\ BlockEnd(alpha)' = e
  <2>1. \A x \in Addr \ {alpha, beta} : size'[x] = size[x]
    BY <1>1, <1>n DEF IInv, HeapTypeOK
  <2>2. size'[alpha] = size[alpha] + size[beta] + Header
    BY <1>1, <1>4, <1>n DEF IInv, HeapTypeOK
  <2> QED
    BY <1>n, <2>1, <2>2 DEF BlockEnd
<1>7. HeapTypeOK'
  <2>1. next[beta] \in Link /\ alpha \in Link
    BY <1>n DEF IInv, HeapTypeOK, Link
  <2>2. next' \in [Addr -> Link]
    BY <1>1, <2>1 DEF IInv, HeapTypeOK, Link
  <2>3. size[alpha] + size[beta] + Header \in 0 .. End
    BY <1>4, <1>n
  <2>4. /\ magic' \in [Addr -> {"free", "alloc", "none"}]
        /\ size' \in [Addr -> 0 .. End]
    BY <1>1, <1>n, <2>3 DEF IInv, HeapTypeOK
  <2>5. out' \subseteq Blocks'
    BY <1>1, <1>3, <1>5 DEF IInv, HeapTypeOK, Listed
  <2> QED
    BY <1>1, <2>1, <2>2, <2>4, <2>5 DEF IInv, HeapTypeOK
<1>8. Tiled'
  <2>1. \A a \in Blocks : BlockEnd(a) \in Blocks \cup {End}
    BY DEF IInv, Tiled
  <2>2. \A a, b \in Blocks : a < b => BlockEnd(a) <= b
    BY DEF IInv, Tiled
  <2>3. Start \in Blocks'
    <3>1. Start <= alpha
      BY <1>n, HeapConstants DEF Addr
    <3> QED
      BY <1>4, <1>5, <1>n, <3>1, HeapConstants DEF IInv, Tiled
  <2>4. ASSUME NEW a \in Blocks' PROVE BlockEnd(a)' \in Blocks' \cup {End}
    <3>1. CASE a = alpha
      BY <1>3, <1>4, <1>5, <1>6, <1>n, <2>1, <3>1
    <3>2. CASE a # alpha
      <4>1. a \in Blocks /\ BlockEnd(a)' = BlockEnd(a)
        BY <1>5, <1>6, <1>n, <3>2
      <4>2. BlockEnd(a) # beta
        <5>1. CASE a < alpha
          <6>1. BlockEnd(a) <= alpha
            BY <1>3, <1>n, <2>2, <4>1, <5>1
          <6> QED
            BY <1>4, <1>n, <6>1
        <5>2. CASE alpha < a
          <6>1. beta <= a /\ a # beta
            BY <1>3, <1>5, <1>n, <2>2, <4>1, <5>2
          <6>2. a \in Int /\ size[a] \in Int /\ size[a] >= 0
            BY <1>n, <4>1, Numbers DEF IInv
          <6>3. beta < a + Header + size[a]
            BY <1>n, <6>1, <6>2
          <6> QED
            BY <1>n, <6>3 DEF BlockEnd
        <5>3. a \in Int /\ alpha \in Int
          BY <1>n, <4>1
        <5> QED
          BY <3>2, <5>1, <5>2, <5>3
      <4> QED
        BY <1>5, <2>1, <4>1, <4>2
    <3> QED
      BY <3>1, <3>2
  <2>5. ASSUME NEW a \in Blocks', NEW b \in Blocks', a < b PROVE BlockEnd(a)' <= b
    <3>1. a \in Blocks \ {beta} /\ b \in Blocks \ {beta} /\ a \in Addr /\ b \in Int
      BY <1>5, <1>n
    <3>2. CASE a = alpha
      <4>1. beta <= b
        BY <1>3, <2>2, <2>5, <3>1, <3>2
      <4>2. beta < b
        BY <1>n, <3>1, <4>1
      <4>3. e <= b
        BY <1>3, <1>n, <2>2, <3>1, <4>2
      <4> QED
        BY <1>6, <3>2, <4>3
    <3>3. CASE a # alpha
      BY <1>6, <2>2, <2>5, <3>1, <3>3
    <3> QED
      BY <3>2, <3>3
  <2> QED
    BY <2>3, <2>4, <2>5 DEF Tiled
<1>9. Sorted(Listed, head, next)
  BY OrderIsSorted DEF IInv
<1>10. next[alpha] = beta
  <2>1. Above(Listed, next[alpha], alpha)
    BY <1>3, <1>9 DEF Sorted
  <2>2. next[alpha] \in Listed /\ alpha < next[alpha] /\ next[alpha] <= beta
    BY <1>3, <1>4, <1>n, <2>1 DEF Above, NULL
  <2>3. next[alpha] \in Int /\ beta <= next[alpha]
    <3>1. next[alpha] \in Blocks /\ alpha \in Blocks
      BY <1>3, <1>n, <2>2
    <3>2. \A x, y \in Blocks : x < y => BlockEnd(x) <= y
      BY DEF IInv, Tiled
    <3>3. BlockEnd(alpha) <= next[alpha]
      BY <2>2, <3>1, <3>2
    <3> QED
      BY <1>3, <1>n, <3>1, <3>3
  <2> QED
    BY <1>n, <2>2, <2>3
<1>11. ListInOrder'
  <2> SUFFICES Sorted(Listed', head', next')
    BY DEF ListInOrder, FirstAbove, Sorted, Above
  <2>0. alpha \in Listed /\ beta \in Listed /\ alpha # beta
    BY <1>3, <1>4, <1>n
  <2>2. \A a \in Listed : a \in Addr /\ a \in Int /\ a > 0
    BY <1>n
  <2>3. next \in [Addr -> Link]
    BY DEF IInv, HeapTypeOK
  <2>1. next'[alpha] = next[beta] /\ \A a \in Listed \ {alpha, beta} : next'[a] = next[a]
    BY <1>1, <2>0, <2>2, <2>3
  <2>4. Sorted(Listed \ {beta}, head, next')
    BY <1>9, <1>10, <2>0, <2>1, <2>2, DropBehind
  <2>5. head' = head
    BY <1>1
  <2> QED
    BY <1>5, <2>4, <2>5
<1>12. Above(Listed, next[beta], beta)
  BY <1>3, <1>9 DEF Sorted
<1>13. Merging'
  <2>1. next[beta] \in Listed' \cup {NULL}
    BY <1>4, <1>5, <1>12, <1>n DEF Above
  <2>2. alpha \in Listed' /\ alpha \in Blocks'
    BY <1>3, <1>4, <1>5, <1>n
  <2> QED
    BY <1>1, <2>1, <2>2 DEF Merging
<1>14. Unmerged'
  <2> SUFFICES ASSUME NEW a \in Listed', NEW b \in Listed', BlockEnd(a)' = b
               PROVE  next[beta] # NULL /\ a = alpha /\ next[beta] <= b
    BY <1>1 DEF Unmerged
  <2>1. /\ a \in Listed \ {beta} /\ b \in Listed \ {beta} /\ a \in Blocks /\ b \in Blocks
        /\ a \in Addr /\ a \in Int /\ b \in Int
    BY <1>5, <1>n
  <2>2. CASE a = alpha
    <3>1. b = e /\ b > beta
      BY <1>4, <1>6, <2>2
    <3>2. \A x \in Listed : x > beta => next[beta] # NULL /\ next[beta] <= x
      BY <1>12 DEF Above
    <3>3. b \in Listed /\ b > beta
      BY <2>1, <3>1
    <3>4. next[beta] # NULL /\ next[beta] <= b
      BY <3>2, <3>3
    <3> QED
      BY <2>2, <3>4
  <2>3. CASE a # alpha
    <3>1. BlockEnd(a) = b
      BY <1>6, <2>1, <2>3
    <3>2. (a = node /\ c <= b) \/ (b = node /\ c <= a)
      BY <2>1, <3>1 DEF IInv, Unmerged
    <3>3. a < b
      BY <2>1, <3>1, <1>n, Numbers DEF IInv, BlockEnd
    <3>4. b = alpha /\ node = alpha /\ c = beta /\ beta <= a
      BY <1>3, <1>n, <2>1, <2>3, <3>2
    <3>5. alpha \in Int /\ beta \in Int /\ alpha < beta
      BY <1>4, <1>n
    <3> QED
      BY <2>1, <3>3, <3>4, <3>5
  <2> QED
    BY <2>2, <2>3
<1> QED
  BY <1>1, <1>7, <1>8, <1>11, <1>13, <1>14
     DEF IInv, Searching, Copied, Placing

LEMMA NextIInv == IInv /\ [Next]_heapVars => IInv'
<1> SUFFICES ASSUME IInv, [Next]_heapVars PROVE IInv'
  OBVIOUS
<1>1. ASSUME NEW n \in Sizes, HeapAlloc(n) PROVE IInv'
  BY <1>1, SearchStep DEF HeapAlloc
<1>2. ASSUME NEW a \in Addr, NEW n \in Sizes, Realloc(a, n) PROVE IInv'
  BY <1>2, SearchStep DEF Realloc
<1>3. ASSUME NEW a \in Addr, Free(a) PROVE IInv'
  BY <1>3, HeapFreeStep DEF Free
<1>4. CASE AllocStep
  BY <1>4, SearchNextStep, UseWholeStep, SplitStep, OutOfMemoryStep DEF AllocStep
<1>5. CASE ReallocFrees
  BY <1>5, HeapFreeStep DEF IInv, ReallocFrees, Copied
<1>6. CASE PlaceFirst \/ PlaceBehind \/ PlaceNext \/ PlaceNowhere
  BY <1>6, PlaceFirstStep, PlaceBehindStep, PlaceNextStep, PlaceNowhereStep
<1>7. CASE MergeNext \/ MergeNode \/ FreeReturns
  BY <1>7, MergeNextStep, MergeNodeStep, FreeReturnsStep
<1>8. CASE UNCHANGED heapVars
  <2>1. UNCHANGED memory
    BY <1>8 DEF heapVars, memory
  <2>2. /\ Blocks' = Blocks /\ Listed' = Listed /\ Held' = Held
        /\ \A x : BlockEnd(x)' = BlockEnd(x)
        /\ Tiled' /\ ListInOrder'
    BY <2>1, SameMemory
  <2>3. HeapTypeOK' /\ Unmerged'
    BY <1>8, <2>2 DEF IInv, heapVars, HeapTypeOK, Unmerged
  <2> QED
    BY <1>8, <2>2, <2>3 DEF IInv, heapVars, Searching, Copied, Placing, Merging
<1> QED
  BY <1>1, <1>2, <1>3, <1>4, <1>5, <1>6, <1>7, <1>8 DEF Next, FreeStep

(***************************************************************************)
(* The inductive invariant of the heap.                                    *)
(***************************************************************************)
THEOREM HeapInvariant == Spec => []IInv
<1>1. Init => IInv
  BY InitIInv
<1>2. IInv /\ [Next]_heapVars => IInv'
  BY NextIInv
<1> QED
  BY <1>1, <1>2, PTL DEF Spec

(***************************************************************************)
(* Type correctness: no size becomes negative, and no link leaves the      *)
(* heap.                                                                   *)
(***************************************************************************)
THEOREM HeapTypes == Spec => []HeapTypeOK
<1>1. IInv => HeapTypeOK
  BY DEF IInv
<1> QED
  BY <1>1, HeapInvariant, PTL

(***************************************************************************)
(* Whatever is allocated and freed, BermudaHeapSplitNode and               *)
(* BermudaHeapMergeNode keep the heap tiled by its blocks.                 *)
(***************************************************************************)
THEOREM HeapTiled == Spec => []Tiled
<1>1. IInv => Tiled
  BY DEF IInv
<1> QED
  BY <1>1, HeapInvariant, PTL

(***************************************************************************)
(* BermudaHeapNodeReturn and BermudaHeapUseBlock keep the free blocks in   *)
(* the list in the order of their addresses.                               *)
(***************************************************************************)
THEOREM HeapListInOrder == Spec => []ListInOrder
<1>1. IInv => ListInOrder
  BY DEF IInv
<1> QED
  BY <1>1, HeapInvariant, PTL

(***************************************************************************)
(* The walk of BermudaHeapFree leaves no free neighbours behind.           *)
(***************************************************************************)
THEOREM HeapCoalesced == Spec => []Coalesced
<1>1. IInv => Coalesced
  BY DEF IInv, Unmerged, Coalesced
<1> QED
  BY <1>1, HeapInvariant, PTL
-----------------------------------------------------------------------------
(***************************************************************************)
(* The refinement of HeapSpec.                                             *)
(***************************************************************************)
LEMMA InitAbstract == Init => Abstract!Init
<1> SUFFICES ASSUME Init PROVE Abstract!Init
  OBVIOUS
<1>1. Held = {}
  BY DEF Init, Held
<1>2. Used = {} /\ Wanted = -1
  BY <1>1 DEF Used, Wanted, Init
<1> QED
  BY <1>2 DEF Abstract!Init, Abstract!None

LEMMA SameRegions ==
  ASSUME Held' = Held, \A a \in Held : size'[a] = size[a]
  PROVE  Used' = Used
BY DEF Used, Region

\* A block that is taken out of the list serves the request.
LEMMA RegionServed ==
  ASSUME IInv, IInv', pc = "search", pc' \in {"idle", "copied"},
         c \in Addr, Held' = Held \cup {c}, \A a \in Held : size'[a] = size[a],
         c \notin Held, size'[c] >= want, size'[c] < want + Header + Rest
  PROVE  \E r \in Abstract!Region : Abstract!Serve(r)
<1> PICK n, k : n = size'[c] /\ k = c
  OBVIOUS
<1> PICK r : r = [start |-> k + Header, len |-> n]
  OBVIOUS
<1>1. /\ k \in Int /\ k > 0 /\ n \in Int /\ n >= 0 /\ n <= End
      /\ want \in Int /\ want >= 0
      /\ Header \in Int /\ Header > 0 /\ Rest \in Int /\ Rest > 0 /\ End \in Int
      /\ Start \in Int /\ Start > 0 /\ Start <= k
  BY Numbers, HeapConstants DEF IInv, HeapTypeOK, Addr
<1>2. /\ \A a \in Held' : a \in Blocks' /\ a \in Int /\ a > 0
      /\ k \in Held'
  BY HeapConstants DEF Held, Blocks, Addr
<1>3. k + Header + n <= End
  <2>1. k + Header + n \in Addr \cup {End}
    BY <1>2 DEF IInv, Tiled, BlockEnd, Blocks
  <2> QED
    BY <1>1, <2>1, HeapConstants DEF Addr
<1>4. \A a \in Held : size[a] \in Int /\ a \in Int
  BY Numbers DEF IInv, Held
<1>5. ASSUME NEW a \in Held PROVE Abstract!Apart(r, Region(a))
  <2>1. /\ a \in Held' /\ a # k
        /\ k < a => k + Header + n <= a
        /\ a < k => a + Header + size[a] <= k
    BY <1>2 DEF IInv, Tiled, BlockEnd
  <2>2. /\ r.start = k + Header /\ r.len = n
        /\ Region(a).start = a + Header /\ Region(a).len = size[a]
    BY DEF Region
  <2> QED
    BY <1>1, <1>4, <2>1, <2>2 DEF Abstract!Apart
<1>6. r \in Abstract!Region
  BY <1>1, <1>3 DEF Abstract!Region
<1>7. Used' = Used \cup {r}
  BY <1>2 DEF Used, Region
<1>8. Wanted = want /\ Wanted' = -1
  BY DEF Wanted
<1>9. Abstract!Serve(r)
  <2>1. r.start = k + Header /\ r.len = n
    OBVIOUS
  <2>2. \A s \in Used : Abstract!Apart(r, s)
    BY <1>5 DEF Used
  <2>3. r.len - Wanted \in 0 .. (Header + Rest) - 1
    BY <1>1, <1>8, <2>1
  <2>4. Start + Header <= r.start /\ r.start + r.len <= End
    BY <1>1, <1>3, <2>1
  <2>5. Wanted # -1
    BY <1>1, <1>8
  <2> QED
    BY <1>7, <1>8, <2>2, <2>3, <2>4, <2>5 DEF Abstract!Serve, Abstract!None
<1> QED
  BY <1>6, <1>9

\* A block that is freed gives its region back.
LEMMA RegionGivenBack ==
  ASSUME IInv, pc \in {"idle", "copied"}, NEW a \in Held, HeapFree(a)
  PROVE  \E r \in Used : Abstract!GiveBack(r)
<1>1. Held' = Held \ {a} /\ size' = size
  BY DEF IInv, HeapTypeOK, HeapFree, Held
<1>2. \A b \in Held : b \in Int
  BY Numbers DEF IInv, Held
<1>3. \A b \in Held : Region(b) = Region(a) => b = a
  <2> SUFFICES ASSUME NEW b \in Held, Region(b) = Region(a) PROVE b = a
    OBVIOUS
  <2>1. b + Header = a + Header
    BY DEF Region
  <2> QED
    BY <1>2, <2>1, HeapConstants
<1>4. Used' = Used \ {Region(a)}
  BY <1>1, <1>3 DEF Used, Region
<1>5. Wanted = -1 /\ Wanted' = -1
  BY DEF Wanted, HeapFree
<1>6. Region(a) \in Used
  BY DEF Used
<1> QED
  BY <1>4, <1>5, <1>6 DEF Abstract!GiveBack, Abstract!None

LEMMA SearchRequests ==
  ASSUME IInv, NEW n \in Sizes, NEW a, Search(n, a)
  PROVE  Abstract!Request(n)
<1>1. Used' = Used
  BY SameRegions DEF Search, memory, Held
<1>2. Wanted = -1 /\ Wanted' = n
  BY DEF Search, Wanted
<1> QED
  BY <1>1, <1>2 DEF Abstract!Request, Abstract!None

LEMMA NextAbstract == IInv /\ IInv' /\ [Next]_heapVars => [Abstract!Next]_(Abstract!hsvars)
<1> SUFFICES ASSUME IInv, IInv', [Next]_heapVars
             PROVE  Abstract!Next \/ (Used' = Used /\ Wanted' = Wanted)
  BY DEF Abstract!hsvars
<1>1. ASSUME NEW n \in Sizes, HeapAlloc(n) PROVE Abstract!Next
  BY <1>1, SearchRequests DEF HeapAlloc, Abstract!Next
<1>2. ASSUME NEW a \in Addr, NEW n \in Sizes, Realloc(a, n) PROVE Abstract!Next
  BY <1>2, SearchRequests DEF Realloc, Abstract!Next
<1>3. ASSUME NEW a \in Addr, Free(a) PROVE Abstract!Next
  BY <1>3, RegionGivenBack DEF Free, Abstract!Next
<1>4. CASE ReallocFrees
  BY <1>4, RegionGivenBack DEF IInv, ReallocFrees, Copied, Abstract!Next
<1>5. CASE UseWhole
  <2>1. c \in Listed /\ c \in Addr /\ c \notin Held /\ c \notin out
    BY <1>5 DEF IInv, Searching, UseWhole, Listed, Held
  <2>2. Held' = Held \cup {c} /\ size' = size
    BY <1>5, <2>1 DEF IInv, HeapTypeOK, UseWhole, AllocReturns, Held
  <2>3. /\ size[c] \in Int /\ want \in Int /\ Header \in Int /\ Rest \in Int
        /\ size[c] >= want /\ ~(size[c] >= want + Header + Rest)
    BY <1>5, <2>1, Numbers DEF IInv, UseWhole, Fits, Splits
  <2>4. size'[c] >= want /\ size'[c] < want + Header + Rest
    BY <2>2, <2>3
  <2> QED
    BY <1>5, <2>1, <2>2, <2>4, RegionServed DEF UseWhole, AllocReturns, Abstract!Next
<1>6. CASE Split
  <2>1. c \in Listed /\ c \in Addr /\ c \notin Held /\ c \notin out
    BY <1>6 DEF IInv, Searching, Split, Listed, Held
  <2> PICK rest : rest = c + Header + want
    OBVIOUS
  <2>2. /\ magic' = [magic EXCEPT ![c] = "alloc", ![rest] = "free"]
        /\ size' = [size EXCEPT ![c] = want, ![rest] = RestSize]
        /\ out' = out
    BY <1>6 DEF Split, AllocReturns
  <2>3. /\ want \in Int /\ want >= 0 /\ Header \in Int /\ Header > 0
        /\ Rest \in Int /\ Rest > 0 /\ c \in Int /\ size[c] \in Int
        /\ size[c] >= want + Header + Rest
    BY <1>6, <2>1, Numbers DEF IInv, Split, Splits
  <2>4. c < rest /\ rest < c + Header + size[c] /\ rest \in Int
    BY <2>3
  <2>5. rest \notin Blocks
    <3> SUFFICES ASSUME rest \in Blocks PROVE c + Header + size[c] <= rest
      BY <2>3, <2>4
    <3> QED
      BY <2>1, <2>4, Numbers DEF IInv, Tiled, BlockEnd
  <2>6. rest \notin Held /\ rest # c
    BY <2>3, <2>4, <2>5, Numbers DEF IInv
  <2>7. Held' = Held \cup {c}
    BY <2>1, <2>2, <2>5, <2>6 DEF IInv, HeapTypeOK, Held, Blocks
  <2>8. size'[c] = want /\ \A a \in Held : size'[a] = size[a]
    BY <2>1, <2>2, <2>6 DEF IInv, HeapTypeOK, Held
  <2>9. size'[c] >= want /\ size'[c] < want + Header + Rest
    BY <2>3, <2>8
  <2> QED
    BY <1>6, <2>1, <2>7, <2>8, <2>9, RegionServed DEF Split, AllocReturns, Abstract!Next
<1>7. CASE MergeNode
  <2>1. {c, node} \subseteq Listed
    BY <1>7 DEF IInv, Merging, MergeNode
  <2> PICK alpha, beta : /\ alpha = IF BlockEnd(node) = c THEN node ELSE c
                         /\ beta  = IF BlockEnd(node) = c THEN c ELSE node
    OBVIOUS
  <2>2. /\ {alpha, beta} \subseteq Listed
        /\ magic' = [magic EXCEPT ![beta] = "none"]
        /\ size' = [size EXCEPT ![alpha] = @ + size[beta] + Header, ![beta] = 0]
        /\ out' = out
    BY <1>7, <2>1 DEF MergeNode
  <2>3. Held' = Held
    BY <2>2 DEF IInv, HeapTypeOK, Held, Listed
  <2>4. \A a \in Held : size'[a] = size[a]
    BY <2>2 DEF IInv, HeapTypeOK, Held, Listed
  <2> QED
    BY <1>7, <2>3, <2>4, SameRegions DEF MergeNode, Wanted
<1>8. CASE PlaceFirst \/ PlaceBehind
  <2>1. Held' = Held /\ size' = size /\ Wanted' = Wanted
    BY <1>8, PlacedMemory DEF PlaceFirst, PlaceBehind, Placed, Wanted
  <2> QED
    BY <2>1, SameRegions
<1>9. CASE \/ SearchNext \/ OutOfMemory \/ PlaceNext \/ PlaceNowhere
           \/ MergeNext \/ FreeReturns \/ UNCHANGED heapVars
  <2>1. UNCHANGED memory
    BY <1>9 DEF SearchNext, OutOfMemory, PlaceNext, PlaceNowhere, MergeNext, FreeReturns,
                heapVars, memory
  <2>2. Used' = Used
    BY <2>1, SameRegions DEF memory, Held
  <2>3. Wanted' = Wanted
    BY <1>9 DEF SearchNext, OutOfMemory, PlaceNext, PlaceNowhere, MergeNext, FreeReturns,
                heapVars, Wanted
  <2> QED
    BY <2>2, <2>3
<1> QED
  BY <1>1, <1>2, <1>3, <1>4, <1>5, <1>6, <1>7, <1>8, <1>9
     DEF Next, AllocStep, FreeStep

(***************************************************************************)
(* Callers of the heap see disjoint regions of the lengths they asked for, *)
(* each until they give it back.                                           *)
(***************************************************************************)
THEOREM HeapImplements == Spec => ImplementsHeap
<1>1. Init => Abstract!Init
  BY InitAbstract
<1>2. IInv /\ IInv' /\ [Next]_heapVars => [Abstract!Next]_(Abstract!hsvars)
  BY NextAbstract
<1> QED
  BY <1>1, <1>2, HeapInvariant, PTL DEF Spec, ImplementsHeap, Abstract!Spec
=============================================================================
