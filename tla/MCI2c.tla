-------------------------------- MODULE MCI2c --------------------------------
(***************************************************************************)
(* An instance of I2cBus for TLC: two masters and a slave on one bus.      *)
(***************************************************************************)
EXTENDS I2cBus, TLC

CONSTANTS mc, md, sc, x1, x2, x3

Clients    == {mc, md, sc}
TwoMasters == {mc, md}
Messages   == {x1, x2, x3}
TwoBytes   == {2}
Queued     == [c \in Client |-> 2]
SomeFaults == {"arbitration", "lockTmo", "busError", "masterTmo", "winner"}
Refusals   == {"arbitration", "winner", "refusal"}

\* Messages that nothing but their addresses tells apart.
Alike == Permutations(Messages) \cup Permutations(TwoMasters)
=============================================================================
