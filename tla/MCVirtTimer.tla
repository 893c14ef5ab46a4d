----------------------------- MODULE MCVirtTimer -----------------------------
(***************************************************************************)
(* Instances of VirtTimer for TLC: three timers of no or two ticks, and   *)
(* a system tick that wraps every five.                                    *)
(***************************************************************************)
EXTENDS VirtTimer, TLC

CONSTANTS m1, m2, m3

Timers   == {m1, m2, m3}
FewTicks == {0, 2}
=============================================================================
