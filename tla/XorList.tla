-------------------------------- MODULE XorList --------------------------------
(***************************************************************************)
(* The list of lib/xorlist.c, whose nodes keep the exclusive or of the     *)
(* addresses of their two neighbours.  An address is the set of one node,  *)
(* NULL the empty set, and the exclusive or of addresses the symmetric     *)
(* difference of the sets.  The head and the calls are the application's,  *)
(* external: no source of the system uses the list.                        *)
(***************************************************************************)
EXTENDS Integers, Sequences, FiniteSetsExt

CONSTANT XorNode

VARIABLES
  xhead,     \* the head that the application keeps: an address
  pointer    \* this->pointer

xorVars == <<xhead, pointer>>

Xor(a, b) == (a \ b) \cup (b \ a)

\* The pointer of the node at an address.
PointerOf(a) == IF a = {} THEN {} ELSE pointer[CHOOSE n \in a : TRUE]

\* pp, with the pointer of the node at address a set to v, if there is one.
Stores(pp, a, v) == [n \in XorNode |-> IF n \in a THEN v ELSE pp[n]]

\* BermudaXorllGetNext and BermudaXorllGetPrev.
GetNext(prev, this) == IF this = {} THEN {} ELSE Xor(prev, PointerOf(this))
GetPrev(this, nxt) == IF this = {} THEN {} ELSE Xor(PointerOf(this), nxt)

XorInit == xhead = {} /\ pointer = [n \in XorNode |-> {}]

\* The nodes from the head on, as BermudaXorllIterateList visits them.
XorWalk ==
  LET at[k \in 0 .. Cardinality(XorNode)] ==
        IF k = 0 THEN {} ELSE IF k = 1 THEN xhead ELSE GetNext(at[k - 2], at[k - 1])
  IN  [i \in {k \in 1 .. Cardinality(XorNode) : \A j \in 1 .. k : Cardinality(at[j]) = 1} |->
         CHOOSE n \in at[i] : TRUE]

\* The address of the node at place i, NULL outside of the list.
At(i) == IF i \in DOMAIN XorWalk THEN {XorWalk[i]} ELSE {}

Unlinked(n) == \A i \in DOMAIN XorWalk : XorWalk[i] # n

\* The application's first node.
XorStart(n) == xhead = {} /\ xhead' = {n} /\ pointer' = [pointer EXCEPT ![n] = {}]

\* FAULT: the neighbour behind is left alone.
InsertHalf(prev, this, new) ==
  LET behind == GetNext(prev, this) IN
    Stores(Stores(pointer, this, Xor(prev, new)), new, Xor(this, behind))

\* BermudaXorllInsert
Insert(prev, this, new) ==
  LET behind == GetNext(prev, this) IN
    Stores(Stores(Stores(pointer, this, Xor(prev, new)),
                  new, Xor(this, behind)),
           behind, Xor(new, Xor(PointerOf(behind), this)))

\* BermudaXorllAddNode of new behind the node at place i: nothing is added to
\* an empty list.
XorAdd(i, n) ==
  /\ Unlinked(n)
  /\ pointer' = Insert(At(i - 1), At(i), {n})
  /\ UNCHANGED xhead

\* The same without a node to add behind: the last one, whose predecessor is
\* found backwards.
XorAddLast(n) ==
  /\ Unlinked(n) /\ xhead # {}
  /\ LET last == At(Len(XorWalk)) IN pointer' = Insert(GetPrev(last, {}), last, {n})
  /\ UNCHANGED xhead

\* BermudaXorllRemoveNode; the application moves its head off the node first.
XorRemove(i) ==
  LET this   == At(i)
      prev   == At(i - 1)
      behind == GetNext(prev, this)
      linked == Stores(pointer, prev, Xor(GetPrev(prev, this), behind))
  IN  /\ pointer' = Stores(Stores(linked, behind, Xor(Xor(PointerOf(behind), this), prev)),
                           this, {})
      /\ xhead' = IF i = 1 THEN behind ELSE xhead

XorNext ==
  \/ \E n \in XorNode : XorStart(n) \/ XorAddLast(n) \/ \E i \in DOMAIN XorWalk : XorAdd(i, n)
  \/ \E i \in DOMAIN XorWalk : XorRemove(i)

-----------------------------------------------------------------------------
XorTypeOK ==
  /\ Cardinality(xhead) <= 1 /\ xhead \subseteq XorNode
  /\ \A n \in XorNode : pointer[n] \subseteq XorNode /\ Cardinality(pointer[n]) <= 2

XList == INSTANCE ListSpec WITH Node <- XorNode, list <- XorWalk, size <- Len(XorWalk)
=============================================================================
