------------------------------- MODULE Registry -------------------------------
(***************************************************************************)
(* The list of devices (dev/devreg.c), linked by next from the root.  The  *)
(* locks of the devices are in DeviceLock; BermudaDeviceOpen is a look-up  *)
(* here and an allocation there.                                           *)
(***************************************************************************)
EXTENDS Pointers

CONSTANTS RegDevice, RegName, NoDevice   \* the devices, their names, and NULL

ASSUME RegistryConstants == DOMAIN RegName = RegDevice /\ NoDevice \notin RegDevice

VARIABLES
  deviceRoot,   \* BermudaDeviceRoot
  devNext       \* the field next of each device

regVars == <<deviceRoot, devNext>>

RegInit == deviceRoot = NoDevice /\ devNext = [d \in RegDevice |-> NoDevice]

\* The devices from the root on.
DeviceWalk == WalkFrom(deviceRoot, devNext)

\* FAULT: the first device of the list is not compared.
LookupBehindRoot(name) ==
  LET found == {i \in DOMAIN DeviceWalk : i > 1 /\ RegName[DeviceWalk[i]] = name}
  IN  IF found = {} THEN NoDevice ELSE DeviceWalk[Min(found)]

\* BermudaDeviceLoopup: the first device with the name.
Lookup(name) ==
  LET found == {i \in DOMAIN DeviceWalk : RegName[DeviceWalk[i]] = name}
  IN  IF found = {} THEN NoDevice ELSE DeviceWalk[Min(found)]

\* BermudaDeviceRegister: in front, unless the name is taken.
DeviceRegister(d) ==
  /\ Lookup(RegName[d]) = NoDevice
  /\ devNext' = [devNext EXCEPT ![d] = deviceRoot]
  /\ deviceRoot' = d

(***************************************************************************)
(* BermudaDeviceUnregister.  It first looks up a name, but in the place of *)
(* the name it passes the device: the bytes of the structure may be taken  *)
(* for the name of a device or, as a rule, not, and then nothing is done.  *)
(* So the step may happen.                                                 *)
(***************************************************************************)
DeviceUnregister(d) ==
  /\ \E i \in DOMAIN DeviceWalk : DeviceWalk[i] = d
  /\ IF deviceRoot = d
     THEN deviceRoot' = devNext[d] /\ UNCHANGED devNext
     ELSE LET i == CHOOSE i \in DOMAIN DeviceWalk : DeviceWalk[i] = d
          IN  /\ devNext' = [devNext EXCEPT ![DeviceWalk[i - 1]] = devNext[d]]
              /\ UNCHANGED deviceRoot

RegNext == \E d \in RegDevice : DeviceRegister(d) \/ DeviceUnregister(d)

-----------------------------------------------------------------------------
RegTypeOK ==
  /\ deviceRoot \in RegDevice \cup {NoDevice}
  /\ devNext \in [RegDevice -> RegDevice \cup {NoDevice}]

RegList == INSTANCE ListSpec WITH Node <- RegDevice, list <- DeviceWalk, size <- Len(DeviceWalk)
=============================================================================
