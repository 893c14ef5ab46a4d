--------------------------------- MODULE Heap ---------------------------------
(***************************************************************************)
(* The heap (sys/mem.c): blocks with a header each, and a list of the free *)
(* ones.  The three loops over the list are stepwise, so that what they    *)
(* read and write on the way is part of the model.  mem_lock excludes      *)
(* nobody (BermudaMutexEnter waits for a bit that is never set), and no    *)
(* interrupt handler uses the heap: one call is served at a time.          *)
(***************************************************************************)
EXTENDS Integers

CONSTANTS
  Start, End,   \* the memory of the heap: the addresses Start .. End - 1
  Header,       \* sizeof(HEAPNODE)
  Rest,         \* the least size of the remainder of a block: 4
  Sizes         \* the sizes that are asked for

ASSUME HeapConstants ==
  /\ Start \in Nat \ {0}
  /\ Header \in Nat \ {0}
  /\ Rest \in Nat \ {0}
  /\ End \in Nat
  /\ Start + Header < End
  /\ Sizes \subseteq Nat

NULL == 0
Addr == Start .. End - 1

VARIABLES
  head,    \* BermudaHeapHead
  magic,   \* node->magic: "free" or "alloc"; "none" where no block starts
  size,    \* node->size
  next,    \* node->next
  out,     \* the blocks that were given back and are not in the list
  pc,      \* the loop that is running, "idle" between two calls
  want,    \* size of BermudaHeapAlloc
  old,     \* ptr of realloc; NULL outside
  prev,    \* prev of BermudaHeapAlloc, node of BermudaHeapNodeReturn
  c,       \* c of BermudaHeapAlloc and BermudaHeapFree
  node     \* node of BermudaHeapFree

memory   == <<head, magic, size, next, out>>
heapVars == <<head, magic, size, next, out, pc, want, old, prev, c, node>>

\* BermudaHeapInitBlock: one free block.
Init ==
  /\ head = Start
  /\ magic = [a \in Addr |-> IF a = Start THEN "free" ELSE "none"]
  /\ size = [a \in Addr |-> IF a = Start THEN End - Start - Header ELSE 0]
  /\ next = [a \in Addr |-> NULL]
  /\ out = {}
  /\ pc = "idle"
  /\ want = 0
  /\ old = NULL
  /\ prev = NULL
  /\ c = NULL
  /\ node = NULL

\* Where the block a ends.
BlockEnd(a) == a + Header + size[a]

\* The blocks that callers hold, and that they give back once.
Held == {a \in Addr : magic[a] = "alloc"} \ out

(***************************************************************************)
(* BermudaHeapAlloc and realloc.  As in ThreadQueue, a FAULT is a slip in  *)
(* the definition behind it.                                               *)
(***************************************************************************)
Search(n, a) ==
  /\ pc = "idle"
  /\ pc' = "search"
  /\ want' = n
  /\ old' = a
  /\ c' = head
  /\ prev' = NULL
  /\ UNCHANGED <<memory, node>>

HeapAlloc(n) == Search(n, NULL)

\* realloc of 0 bytes is BermudaHeapFree, and of no block BermudaHeapAlloc.
Realloc(a, n) ==
  /\ a \in Held
  /\ n # 0
  /\ Search(n, a)

\* FAULT: takes the header for room.
FitsWithHeader == want <= size[c] + Header

Fits == want <= size[c]

\* FAULT: splits whatever is too large.
TooLarge == want < size[c]

\* What is left can hold a block.
Splits == size[c] >= want + Header + Rest

\* FAULT: the remainder has no header.
RestNoHeader == size[c] - want

RestSize == size[c] - want - Header

SearchNext ==
  /\ pc = "search"
  /\ c # NULL
  /\ ~Fits
  /\ prev' = c
  /\ c' = next[c]
  /\ UNCHANGED <<memory, pc, want, old, node>>

\* BermudaHeapUseBlock: after follows the predecessor of c in the list nx.
\* The link of a block outside the list is dead, and NULL here.
Unlink(nx, after) ==
  \/ /\ prev = NULL
     /\ head' = after
     /\ next' = [nx EXCEPT ![c] = NULL]
  \/ /\ prev # NULL
     /\ next' = [nx EXCEPT ![c] = NULL, ![prev] = after]
     /\ UNCHANGED head

AllocReturns ==
  /\ pc' = IF old = NULL THEN "idle" ELSE "copied"
  /\ want' = 0
  /\ prev' = NULL
  /\ c' = NULL
  /\ UNCHANGED <<out, old, node>>

\* The block is too small to be split.
UseWhole ==
  /\ pc = "search"
  /\ c # NULL
  /\ Fits
  /\ ~Splits
  /\ magic' = [magic EXCEPT ![c] = "alloc"]
  /\ Unlink(next, next[c])
  /\ UNCHANGED size
  /\ AllocReturns

Split ==
  LET rest == c + Header + want
  IN  /\ pc = "search"
      /\ c # NULL
      /\ Fits
      /\ Splits
      /\ magic' = [magic EXCEPT ![c] = "alloc", ![rest] = "free"]
      /\ size' = [size EXCEPT ![c] = want, ![rest] = RestSize]
      /\ Unlink([next EXCEPT ![rest] = next[c]], rest)
      /\ AllocReturns

\* No block is large enough: _exit.
OutOfMemory ==
  /\ pc = "search"
  /\ c = NULL
  /\ pc' = "halt"
  /\ UNCHANGED <<memory, want, old, prev, c, node>>

(***************************************************************************)
(* BermudaHeapFree                                                         *)
(***************************************************************************)

\* A block of no size is refused by BermudaHeapNodeReturn.
HeapFree(a) ==
  /\ node' = a
  /\ c' = head
  /\ out' = out \cup {a}
  /\ old' = NULL
  /\ \/ /\ size[a] = 0
        /\ pc' = "merge"
        /\ UNCHANGED <<magic, prev>>
     \/ /\ size[a] # 0
        /\ pc' = "place"
        /\ magic' = [magic EXCEPT ![a] = "free"]
        /\ prev' = head
  /\ UNCHANGED <<head, size, next, want>>

Free(a) ==
  /\ pc = "idle"
  /\ a \in Held
  /\ HeapFree(a)

\* realloc has copied the contents to the new block.
ReallocFrees ==
  /\ pc = "copied"
  /\ HeapFree(old)

Placed ==
  /\ out' = out \ {node}
  /\ pc' = "merge"
  /\ prev' = NULL
  /\ UNCHANGED <<magic, size, want, old, c, node>>

PlaceFirst ==
  /\ pc = "place"
  /\ node < head
  /\ next' = [next EXCEPT ![node] = head]
  /\ head' = node
  /\ Placed

\* FAULT: takes the first block that is lower.
PlaceTooEarly == node > prev

PlaceHere ==
  \/ node > prev /\ node < next[prev]
  \/ next[prev] = NULL

\* FAULT: the new block is linked before its own link is set.
LinkSwapped == next' = [next EXCEPT ![node] = node, ![prev] = node]

LinkBehind == next' = [next EXCEPT ![node] = next[prev], ![prev] = node]

PlaceBehind ==
  /\ pc = "place"
  /\ ~(node < head)
  /\ prev # NULL
  /\ PlaceHere
  /\ LinkBehind
  /\ UNCHANGED head
  /\ Placed

PlaceNext ==
  /\ pc = "place"
  /\ ~(node < head)
  /\ prev # NULL
  /\ ~PlaceHere
  /\ prev' = next[prev]
  /\ UNCHANGED <<memory, pc, want, old, c, node>>

\* The list is empty, and stays so.
PlaceNowhere ==
  /\ pc = "place"
  /\ ~(node < head)
  /\ prev = NULL
  /\ pc' = "merge"
  /\ UNCHANGED <<memory, want, old, prev, c, node>>

\* FAULT: finds the lower neighbour only.
LowerNeighbour == BlockEnd(c) = node

Neighbours == BlockEnd(c) = node \/ BlockEnd(node) = c

MergeNext ==
  /\ pc = "merge"
  /\ c # NULL
  /\ ~Neighbours
  /\ c' = next[c]
  /\ UNCHANGED <<memory, pc, want, old, prev, node>>

\* The header of the upper block becomes part of the lower one.
MergeNode ==
  LET alpha == IF BlockEnd(node) = c THEN node ELSE c
      beta  == IF BlockEnd(node) = c THEN c ELSE node
  IN  /\ pc = "merge"
      /\ c # NULL
      /\ Neighbours
      /\ magic[c] = "free" /\ magic[node] = "free"
      /\ magic' = [magic EXCEPT ![beta] = "none"]
      /\ size' = [size EXCEPT ![alpha] = @ + size[beta] + Header, ![beta] = 0]
      /\ next' = [next EXCEPT ![alpha] = next[beta], ![beta] = NULL]
      /\ node' = alpha
      /\ c' = next[beta]
      /\ UNCHANGED <<head, out, pc, want, old, prev>>

FreeReturns ==
  /\ pc = "merge"
  /\ c # NULL => Neighbours /\ ~(magic[c] = "free" /\ magic[node] = "free")
  /\ pc' = "idle"
  /\ c' = NULL
  /\ prev' = NULL
  /\ node' = NULL
  /\ UNCHANGED <<memory, want, old>>

AllocStep == SearchNext \/ UseWhole \/ Split \/ OutOfMemory

FreeStep ==
  \/ ReallocFrees
  \/ PlaceFirst \/ PlaceBehind \/ PlaceNext \/ PlaceNowhere
  \/ MergeNext \/ MergeNode \/ FreeReturns

Next ==
  \/ \E n \in Sizes : HeapAlloc(n)
  \/ \E a \in Addr, n \in Sizes : Realloc(a, n)
  \/ \E a \in Addr : Free(a)
  \/ AllocStep
  \/ FreeStep

Spec == Init /\ [][Next]_heapVars

\* A call that runs goes on.
FairSpec == Spec /\ WF_heapVars(AllocStep \/ FreeStep)
-----------------------------------------------------------------------------
Blocks == {a \in Addr : magic[a] # "none"}
Listed == {a \in Addr : magic[a] = "free"} \ out
Link   == Addr \cup {NULL}

HeapTypeOK ==
  /\ head \in Link
  /\ magic \in [Addr -> {"free", "alloc", "none"}]
  /\ size \in [Addr -> 0 .. End]
  /\ next \in [Addr -> Link]
  /\ out \subseteq Blocks
  /\ pc \in {"idle", "search", "copied", "place", "merge", "halt"}
  /\ want \in Sizes \cup {0}
  /\ {old, prev, c, node} \subseteq Link

(***************************************************************************)
(* The blocks tile the heap: splitting and merging neither lose nor invent *)
(* memory, and no block reaches into another one.                          *)
(***************************************************************************)
Tiled ==
  /\ Start \in Blocks
  /\ \A a \in Blocks : BlockEnd(a) \in Blocks \cup {End}
  /\ \A a, b \in Blocks : a < b => BlockEnd(a) <= b

\* n is the first block of the list above the address x.
FirstAbove(n, x) ==
  /\ n = NULL \/ (n \in Listed /\ n > x)
  /\ \A a \in Listed : a > x => n # NULL /\ n <= a

(***************************************************************************)
(* The list holds the free blocks in the order of their addresses.         *)
(***************************************************************************)
ListInOrder ==
  /\ FirstAbove(head, NULL)
  /\ \A a \in Listed : FirstAbove(next[a], a)

(***************************************************************************)
(* Between two calls no block of the list ends where another one starts:   *)
(* the one walk of BermudaHeapFree finds both neighbours of the block.     *)
(***************************************************************************)
Coalesced == pc = "idle" => \A a \in Listed : BlockEnd(a) \notin Listed

(***************************************************************************)
(* Callers see the regions of HeapSpec.                                    *)
(***************************************************************************)
Region(a) == [start |-> a + Header, len |-> size[a]]
Used      == {Region(a) : a \in Held}
Wanted    == IF pc \in {"search", "halt"} THEN want ELSE -1

Abstract == INSTANCE HeapSpec WITH
              Waste <- Header + Rest,
              used  <- Used,
              want  <- Wanted

ImplementsHeap == Abstract!Spec

(***************************************************************************)
(* Every call comes to an end: no list the loops walk has a cycle.         *)
(***************************************************************************)
CallsEnd == pc \notin {"idle", "halt"} ~> pc \in {"idle", "halt"}

(***************************************************************************)
(* mem.c:261, of BermudaHeapNodeReturn: "This will put the given block     *)
(* back in the linked heap list."                                          *)
(***************************************************************************)
PutBack == pc = "idle" => out = {}
=============================================================================
