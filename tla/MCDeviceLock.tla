---------------------------- MODULE MCDeviceLock ----------------------------
(***************************************************************************)
(* Instances of DeviceLock for TLC.                                        *)
(***************************************************************************)
EXTENDS DeviceLock

CONSTANTS idle, t1, t2, t3, d1, q1

TwoThreads   == {idle, t1, t2}
ThreeThreads == {idle, t1, t2, t3}

Equal2 == (idle :> 255) @@ (t1 :> 150) @@ (t2 :> 150)
Equal3 == (idle :> 255) @@ (t1 :> 150) @@ (t2 :> 150) @@ (t3 :> 150)
Mixed3 == (idle :> 255) @@ (t1 :> 150) @@ (t2 :> 150) @@ (t3 :> 100)

OneDevice   == {d1}
DeviceEvent == {d1, q1}
EventOnly   == {q1}
Nothing     == {}
=============================================================================
