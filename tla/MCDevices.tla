------------------------------- MODULE MCDevices -------------------------------
(***************************************************************************)
(* An instance of Devices for TLC.                                         *)
(***************************************************************************)
EXTENDS Devices

CONSTANTS t1, t2, t3, ti, tm, ta, tb, n1, n2, n3, d1, d2, p1, p2, p3, s1

\* Three frequencies about the thresholds of a clock of 256 Hz.
Frequencies == [t \in {t1, t2, t3} |-> CASE t = t1 -> 2 [] t = t2 -> 3 [] OTHER -> 17]

ReadOnly == {"rd"}
ReadWrite == {"rd", "wr"}
BothModes == {ReadOnly, ReadWrite}

\* ta is more important than MAIN and tb, which are equals.
Priorities ==
  [t \in {ti, tm, ta, tb} |-> CASE t = ti -> 255 [] t = ta -> 100 [] OTHER -> 150]

\* n1 and n3 have one name.
DeviceNames == [d \in {n1, n2, n3} |-> IF d = n2 THEN "b" ELSE "a"]

\* p1 has two segments, and p3, of the device d2, is too large for it.
NetNames == [d \in {d1, d2} |-> IF d = d1 THEN "eth0" ELSE "eth1"]
Mtus == [d \in {d1, d2} |-> 2]
DevOfPacket == [p \in {p1, p2, p3} |-> IF p = p3 THEN d2 ELSE d1]
Chains == [p \in {p1, p2, p3} |-> IF p = p1 THEN <<p1, s1>> ELSE <<p>>]
Lengths == [s \in {p1, p2, p3, s1} |-> CASE s = p3 -> 3 [] s = s1 -> 2 [] OTHER -> 1]
Amounts == [d \in {d1, d2} |-> IF d = d1 THEN {2} ELSE {}]

\* Two texts, one with a line feed.
PrintedTexts == {<<97>>, <<98, 10>>}
AllModes == {ReadOnly, {"wr"}, ReadWrite}
=============================================================================
