------------------------------- MODULE Pointers -------------------------------
(***************************************************************************)
(* Nodes that are linked by pointers, and the walk along them that the     *)
(* linked lists of the system have in common (for_each_epl_node of         *)
(* sys/epl.h, foreach of lib/list/list.h, the loops of dev/devreg.c).      *)
(***************************************************************************)
EXTENDS Integers, Sequences, FiniteSetsExt

(***************************************************************************)
(* The nodes from first on, where next holds the pointer of each node, and *)
(* a pointer that is no node ends the walk, as does having passed as many  *)
(* nodes as there are.                                                     *)
(***************************************************************************)
WalkFrom(first, next) ==
  LET place[k \in 0 .. Cardinality(DOMAIN next)] ==
        IF k = 0 THEN first
        ELSE LET before == place[k - 1]
             IN  IF before \in DOMAIN next THEN next[before] ELSE before
  IN  [i \in {k \in 1 .. Cardinality(DOMAIN next) : place[k - 1] \in DOMAIN next} |->
         place[i - 1]]
=============================================================================
