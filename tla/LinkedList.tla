------------------------------ MODULE LinkedList ------------------------------
(***************************************************************************)
(* The linked list of lib/list.c: nodes linked by next, and a head that    *)
(* the application keeps.  The data of the nodes is left out, and the      *)
(* calls are the application's, external.                                  *)
(***************************************************************************)
EXTENDS Pointers

CONSTANTS
  ListNode,      \* the nodes
  NoListNode,    \* NULL
  ListMiddle     \* TRUE: nodes other than the first are deleted

ASSUME LinkedListConstants == NoListNode \notin ListNode /\ ListMiddle \in BOOLEAN

VARIABLES
  listHead,     \* *headpp
  listNext,     \* the field next of each node
  inUse         \* the nodes that are allocated

listVars == <<listHead, listNext, inUse>>

ListInit ==
  /\ listHead = NoListNode
  /\ listNext = [n \in ListNode |-> NoListNode]
  /\ inUse = {}

\* The nodes from the head on (foreach).
ListWalk == WalkFrom(listHead, listNext)

\* linkedlist_alloc
ListAlloc(n) ==
  /\ n \notin inUse
  /\ inUse' = inUse \cup {n}
  /\ listNext' = [listNext EXCEPT ![n] = NoListNode]
  /\ UNCHANGED listHead

Linked(n) == \E i \in DOMAIN ListWalk : ListWalk[i] = n

\* linkedlist_add_node, LINKEDLIST_HEAD: the head is not moved to the node,
\* which leads into the list and is not on it.
AddHead(n) ==
  /\ n \in inUse /\ ~Linked(n)
  /\ listNext' = [listNext EXCEPT ![n] = listHead]
  /\ UNCHANGED <<listHead, inUse>>

\* FAULT: the walk stops behind the first node.
LinkBehindFirst(n) ==
  IF listHead = NoListNode
  THEN listHead' = n /\ listNext' = [listNext EXCEPT ![n] = NoListNode]
  ELSE listHead' = listHead /\ listNext' = [listNext EXCEPT ![listHead] = n, ![n] = NoListNode]

\* linkedlist_add_node, LINKEDLIST_TAIL.
LinkLast(n) ==
  IF listHead = NoListNode
  THEN listHead' = n /\ listNext' = [listNext EXCEPT ![n] = NoListNode]
  ELSE /\ listHead' = listHead
       /\ listNext' = [listNext EXCEPT ![ListWalk[Len(ListWalk)]] = n, ![n] = NoListNode]

AddTail(n) == n \in inUse /\ ~Linked(n) /\ LinkLast(n) /\ UNCHANGED inUse

\* linkedlist_create_node at the tail; at the head it is ListAlloc and AddHead.
CreateNode(n) == n \notin inUse /\ LinkLast(n) /\ inUse' = inUse \cup {n}

(***************************************************************************)
(* linkedlist_delete_node: the head moves behind the node, over all nodes  *)
(* in front of it.  It returns -1 for the node it deletes.                 *)
(***************************************************************************)
DeleteNode(n) ==
  /\ Linked(n) /\ (ListMiddle \/ n = listHead)
  /\ listHead' = listNext[n]
  /\ listNext' = [listNext EXCEPT ![n] = NoListNode]
  /\ UNCHANGED inUse

\* linkedlist_delete_node_at: the index of the loop stays 0, so that only the
\* first node is ever deleted.
DeleteNodeAt(index) ==
  /\ listHead # NoListNode /\ index = 0
  /\ listHead' = listNext[listHead]
  /\ listNext' = [listNext EXCEPT ![listHead] = NoListNode]
  /\ UNCHANGED inUse

\* The application frees a node that is on no list.
ListFree(n) ==
  /\ n \in inUse /\ ~Linked(n)
  /\ inUse' = inUse \ {n}
  /\ UNCHANGED <<listHead, listNext>>

ListNext ==
  \/ \E n \in ListNode : ListAlloc(n) \/ AddHead(n) \/ AddTail(n) \/ CreateNode(n)
                         \/ DeleteNode(n) \/ ListFree(n)
  \/ \E i \in 0 .. 1 : DeleteNodeAt(i)

-----------------------------------------------------------------------------
ListTypeOK ==
  /\ listHead \in ListNode \cup {NoListNode}
  /\ listNext \in [ListNode -> ListNode \cup {NoListNode}]
  /\ \A i \in DOMAIN ListWalk : ListWalk[i] \in inUse

LinkList == INSTANCE ListSpec WITH Node <- ListNode, list <- ListWalk, size <- Len(ListWalk)
=============================================================================
