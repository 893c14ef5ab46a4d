------------------------------- MODULE MCKernel -------------------------------
(***************************************************************************)
(* Instances of Kernel for TLC: the idle thread and two or three others.   *)
(***************************************************************************)
EXTENDS KernelEvents, TLC

CONSTANTS idle, t1, t2, t3, q1, q2

\* Two equally important threads, and a more important one.
TwoThreads   == {idle, t1, t2}
ThreeThreads == {idle, t1, t2, t3}

Equal2 == (idle :> 255) @@ (t1 :> 150) @@ (t2 :> 150)
Mixed3 == (idle :> 255) @@ (t1 :> 150) @@ (t2 :> 150) @@ (t3 :> 100)

\* Threads that nothing but their names tells apart.
Alike == Permutations({t1, t2})

OneQueue  == {q1}
TwoQueues == {q1, q2}

NoPrios  == {}
Lower    == {200}
TwoPrios == {100, 150}
=============================================================================
