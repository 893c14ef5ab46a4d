------------------------------- MODULE Devices -------------------------------
(***************************************************************************)
(* The drivers, the lists, the switch of threads and the library beside    *)
(* the kernel and the I2C bus, as one system.  They share no state: a      *)
(* behaviour exercises one of them, part, and the others stay as they were *)
(* initialised.                                                            *)
(***************************************************************************)
EXTENDS Adc, Serial, Spi, Epl, XorList, MsgVector, Registry, LinkedList,
        Network, Context, Library, Stdio, SerialMemory, Board

VARIABLE part

Parts == {"adc", "serial", "spi", "epl", "xorlist", "vector", "registry", "list",
          "network", "context", "library", "stdio", "memory", "pins", "timers"}

vars ==
  <<adcVars, serVars, filesVars, spiVars, eplVars, xorVars, msgvVars, regVars, listVars,
    netVars, ctxVars, libCall, stdioVars, memoryVars, boardVars, part>>

Init ==
  /\ AdcInit /\ SerInit /\ FilesInit /\ SpiInit /\ EplInit /\ XorInit /\ MsgvInit
  /\ RegInit /\ ListInit /\ NetInit /\ CtxInit /\ LibInit
  /\ StdioInit /\ MemoryInit /\ BoardInit
  /\ part \in Parts

\* A step of the part p leaves the other parts alone.
Only(p) ==
  /\ part = p /\ part' = p
  /\ p # "adc"     => UNCHANGED adcVars
  /\ p # "serial"  => UNCHANGED serVars
  /\ p # "spi"     => UNCHANGED <<filesVars, spiVars>>
  /\ p # "epl"     => UNCHANGED eplVars
  /\ p # "xorlist" => UNCHANGED xorVars
  /\ p # "vector"  => UNCHANGED msgvVars
  /\ p # "registry" => UNCHANGED regVars
  /\ p # "list"    => UNCHANGED listVars
  /\ p # "network" => UNCHANGED netVars
  /\ p # "context" => UNCHANGED ctxVars
  /\ p # "library" => UNCHANGED libCall
  /\ p # "stdio"   => UNCHANGED stdioVars
  /\ p # "memory"  => UNCHANGED memoryVars
  /\ p \notin {"pins", "timers"} => UNCHANGED boardVars

Next ==
  \/ Only("adc") /\ AdcNext
  \/ Only("serial") /\ SerNext
  \/ Only("spi") /\ SpiNext
  \/ Only("epl") /\ EplNext
  \/ Only("xorlist") /\ XorNext
  \/ Only("vector") /\ MsgvNext
  \/ Only("registry") /\ RegNext
  \/ Only("list") /\ ListNext
  \/ Only("network") /\ NetNext
  \/ Only("context") /\ CtxNext
  \/ Only("library") /\ LibNext
  \/ Only("stdio") /\ StdioNext
  \/ Only("memory") /\ MemoryNext
  \/ Only("pins") /\ PinNext
  \/ Only("timers") /\ HwTimerNext

Spec == Init /\ [][Next]_vars /\ AdcFairness /\ SerFairness

-----------------------------------------------------------------------------
(***************************************************************************)
(* Every part stays in its states: among others, a thread waits in a queue *)
(* exactly while it is blocked, the count of a list or vector stays within *)
(* its memory, and no descriptor is out of range.                          *)
(***************************************************************************)
DevicesTypeOK ==
  /\ AdcTypeOK /\ SerTypeOK /\ SpiTypeOK
  /\ EplTypeOK /\ XorTypeOK /\ MsgvTypeOK
  /\ RegTypeOK /\ ListTypeOK /\ NetTypeOK /\ CtxTypeOK

(***************************************************************************)
(* sys/epl.c, lib/xorlist.c, lib/list.c, dev/devreg.c: what is linked from *)
(* the head is a list, and every operation is one of the list's or changes *)
(* nothing: no node is lost or linked twice, and the count of a list stays *)
(* right.  This holds over a head that is added again to an epl list and   *)
(* epl_fix, over the up to three pointers that an operation of the list of *)
(* exclusive ors computes, and as long as lib/list.c deletes only the      *)
(* first node.                                                             *)
(***************************************************************************)
ListsImplement == EplList!Spec /\ XList!Spec /\ RegList!Spec /\ LinkList!Spec

(***************************************************************************)
(* lib/c/stdio, spiram.c, 24c02.c, arduino-io.c, 328-timer.c: what a       *)
(* driver was given is what its hardware holds.  The wire carries the      *)
(* characters of every call that had leave to write, in order; a memory    *)
(* holds what was last written, also with other threads at the same bus;   *)
(* and the pins and timers keep what each was last told, whatever else     *)
(* shares their registers.                                                 *)
(***************************************************************************)
DriversKeep == WrittenInOrder /\ ReadsBack /\ PinsKept
=============================================================================
