-------------------------------- MODULE MCHeap --------------------------------
(***************************************************************************)
(* Instances of Heap for TLC: headers of two cells, and remainders of one  *)
(* cell at least.                                                          *)
(***************************************************************************)
EXTENDS Heap

SmallSizes == 0 .. 3
RealSizes  == 1 .. 3
=============================================================================
