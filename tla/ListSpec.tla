------------------------------- MODULE ListSpec -------------------------------
(***************************************************************************)
(* What the linked lists promise: a sequence without repetition, its size, *)
(* and the operations that add a node at either end or behind another, or  *)
(* take one out.                                                           *)
(***************************************************************************)
EXTENDS Sequences, Integers

CONSTANT Node

VARIABLES list, size

Members == {list[i] : i \in DOMAIN list}

Is(s) == list' = s /\ size' = Len(s)

Init == list = <<>> /\ size = 0

Append_(n) == n \notin Members /\ Is(Append(list, n))
Prepend(n) == n \notin Members /\ Is(<<n>> \o list)

\* n is added behind the node at i.
AddBehind(i, n) ==
  n \notin Members /\ Is(SubSeq(list, 1, i) \o <<n>> \o SubSeq(list, i + 1, Len(list)))

\* The node at i is taken out.
Remove(i) == Is(SubSeq(list, 1, i - 1) \o SubSeq(list, i + 1, Len(list)))

\* A list in a circle is cut behind its first node.
Cut == list # <<>> /\ Is(<<list[1]>>)

Next ==
  /\ list' # list
  /\ \/ \E n \in Node : Append_(n) \/ Prepend(n) \/ \E i \in DOMAIN list : AddBehind(i, n)
     \/ \E i \in DOMAIN list : Remove(i)
     \/ Cut

Spec == Init /\ [][Next]_<<list, size>>
=============================================================================
