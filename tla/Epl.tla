--------------------------------- MODULE Epl ---------------------------------
(***************************************************************************)
(* The event protected list (sys/epl.c): nodes linked by next, a head and  *)
(* a count of entries.  Its lock and unlock do nothing (the calls of the   *)
(* event queue are commented out), so that an operation has to be one      *)
(* step: threads do not preempt each other, and interrupts stay away.      *)
(***************************************************************************)
EXTENDS Pointers

CONSTANTS EplNode, NoNode   \* the nodes, and NULL

ASSUME EplConstants == NoNode \notin EplNode

VARIABLES
  nodes,      \* list->nodes, the head
  next,       \* the field next of each node
  entries,    \* list->list_entries
  circular    \* history: the head was put in front of itself

eplVars == <<nodes, next, entries, circular>>

\* epl_alloc, DEF_EPL
EplInit ==
  /\ nodes = NoNode
  /\ next = [n \in EplNode |-> NoNode]
  /\ entries = 0
  /\ circular = FALSE

\* for_each_epl_node: up to the end, or a node that is its own successor.
Ends == [n \in EplNode |-> IF next[n] = n THEN NoNode ELSE next[n]]

Walk == WalkFrom(nodes, Ends)

OnList(n) == \E i \in DOMAIN Walk : Walk[i] = n

\* epl_add_node, EPL_APPEND.
EplAppend(n) ==
  /\ ~OnList(n) /\ ~circular
  /\ entries' = entries + 1
  /\ IF nodes = NoNode
     THEN nodes' = n /\ next' = [next EXCEPT ![n] = NoNode]
     ELSE nodes' = nodes /\ next' = [next EXCEPT ![Walk[Len(Walk)]] = n, ![n] = NoNode]
  /\ UNCHANGED circular

\* epl_add_node, EPL_IN_FRONT; the head itself makes the list circular.
EplInFront(n) ==
  /\ ~circular /\ (~OnList(n) \/ n = nodes)
  /\ entries' = entries + 1
  /\ nodes' = n
  /\ next' = [next EXCEPT ![n] = nodes]
  /\ circular' = (n = nodes)

\* FAULT: the predecessor is taken to be the head.
EplDeleteBehindHead(n) ==
  /\ OnList(n) /\ ~circular
  /\ IF n = nodes
     THEN nodes' = next[n] /\ next' = [next EXCEPT ![n] = NoNode]
     ELSE nodes' = nodes /\ next' = [next EXCEPT ![nodes] = next[n], ![n] = NoNode]
  /\ entries' = entries - 1
  /\ UNCHANGED circular

\* epl_delete_node; a node that is not on the list is refused.
EplDelete(n) ==
  /\ OnList(n) /\ ~circular
  /\ IF n = nodes
     THEN nodes' = next[n] /\ next' = [next EXCEPT ![n] = NoNode]
     ELSE LET before == CHOOSE i \in DOMAIN Walk : i < Len(Walk) /\ Walk[i + 1] = n
          IN  nodes' = nodes /\ next' = [next EXCEPT ![Walk[before]] = next[n], ![n] = NoNode]
  /\ entries' = entries - 1
  /\ UNCHANGED circular

\* epl_node_at: NULL past the end.
NodeAt(i) == IF i < Len(Walk) THEN Walk[i + 1] ELSE NoNode

\* epl_delete_node_at
EplDeleteAt(i) == nodes # NoNode /\ NodeAt(i) # NoNode /\ EplDelete(NodeAt(i))

\* epl_fix of a circular list: the rest of it is lost.
EplFix ==
  /\ circular
  /\ next' = [next EXCEPT ![Walk[Len(Walk)]] = NoNode]
  /\ entries' = Len(Walk)
  /\ circular' = FALSE
  /\ UNCHANGED nodes

EplNext ==
  \/ \E n \in EplNode : EplAppend(n) \/ EplInFront(n) \/ EplDelete(n)
  \/ \E i \in 0 .. Cardinality(EplNode) : EplDeleteAt(i)
  \/ EplFix

-----------------------------------------------------------------------------
EplTypeOK ==
  /\ nodes \in EplNode \cup {NoNode}
  /\ next \in [EplNode -> EplNode \cup {NoNode}]
  /\ entries \in 0 .. Cardinality(EplNode) + 1

\* While the list is circular it stands for its nodes before: see EplFix.
EplList == INSTANCE ListSpec
  WITH Node <- EplNode, list <- Walk, size <- IF circular THEN Len(Walk) ELSE entries
=============================================================================
