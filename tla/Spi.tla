--------------------------------- MODULE Spi ---------------------------------
(***************************************************************************)
(* The SPI bus (dev/spi/spi-core.c, spi-dev.c, busses/atmega-spi.c) and    *)
(* its sockets.  Each task has a client of its own; its socket's write and *)
(* read give the client a buffer, and flush locks the adapter, transfers   *)
(* the buffer byte by byte without yielding, and unlocks it.  Tasks may    *)
(* also take the adapter's device for themselves (dev->alloc).             *)
(***************************************************************************)
EXTENDS Files, EventQueue, SequencesExt

CONSTANTS
  FCpu,        \* F_CPU
  Freq         \* the clock frequency of each task's client

ASSUME SpiConstants == FCpu \in Nat /\ Freq \in [Task -> Nat]

VARIABLES
  spiMutex,    \* adapter->dev->mutex
  spiPc,       \* where each task is
  spiBuff,     \* whether the task's client has a buffer and a length
  spiRate      \* the divider that SPCR selects

spiVars == <<spiMutex, spiPc, spiBuff, spiRate>>

\* spi_init_adapter, atmega_spi_init.
SpiInit ==
  /\ spiMutex = Stored
  /\ spiPc = [t \in Task |-> "idle"]
  /\ spiBuff = [t \in Task |-> FALSE]
  /\ spiRate = 4

SpiGoto(t, l) == spiPc' = [spiPc EXCEPT ![t] = l]

\* BermudaEventSignal: the first task that waits owns the adapter.
SpiUnlock(t) ==
  /\ spiMutex' = Signal(spiMutex)
  /\ spiPc' = [u \in Task |->
                 IF u = t THEN "idle"
                 ELSE IF Waiting(spiMutex) /\ u = Head(spiMutex.waiters)
                      THEN IF spiPc[u] = "locking" THEN "locked" ELSE "owner"
                 ELSE spiPc[u]]

\* atmega_spi_calc_freq: the slowest clock that is not below hz.
Divider(hz) ==
  IF hz <= FCpu \div 128 THEN 128
  ELSE IF hz <= FCpu \div 64 THEN 64
  ELSE IF hz <= FCpu \div 16 THEN 16 ELSE 4

-----------------------------------------------------------------------------
\* The task calls its own socket, which has not been closed.
OwnSocket(t) == spiPc[t] = "idle" /\ opened[t] = t

\* spidev_write and spidev_read of a size other than 0 give the client its
\* buffer; write refuses a stream without __SWR, read asks for no flag.
SpiSetBuff(t) ==
  /\ OwnSocket(t) /\ ~spiBuff[t]
  /\ spiBuff' = [spiBuff EXCEPT ![t] = TRUE]
  /\ UNCHANGED <<spiMutex, spiPc, spiRate, filesVars>>

SpiWrite(t) == Writable(t) /\ SpiSetBuff(t)

SpiRead(t) == SpiSetBuff(t)

\* spi_flush_client: locks the adapter.
SpiFlush(t) ==
  /\ OwnSocket(t) /\ spiBuff[t]
  /\ spiMutex' = Wait(spiMutex, t)
  /\ SpiGoto(t, IF Takes(spiMutex) THEN "locked" ELSE "locking")
  /\ UNCHANGED <<spiBuff, spiRate, filesVars>>

\* FAULT: the transfer is made without the lock.
SpiLockTmoIgnored(t) ==
  /\ spiPc[t] = "locking"
  /\ spiMutex' = TimedOut(spiMutex, t)
  /\ SpiGoto(t, "locked")
  /\ UNCHANGED <<spiBuff, spiRate, filesVars>>

\* Without the lock within 500 ms the flush returns -1.
SpiLockTmo(t) ==
  /\ spiPc[t] = "locking"
  /\ spiMutex' = TimedOut(spiMutex, t)
  /\ SpiGoto(t, "idle")
  /\ UNCHANGED <<spiBuff, spiRate, filesVars>>

\* atmega_spi_transfer, and the adapter is unlocked.
SpiXfer(t) ==
  /\ spiPc[t] = "locked"
  /\ SpiUnlock(t)
  /\ spiRate' = Divider(Freq[t])
  /\ UNCHANGED <<spiBuff, filesVars>>

\* dev->alloc and dev->release by a task that wants the bus for itself.
SpiAlloc(t) ==
  /\ spiPc[t] = "idle"
  /\ spiMutex' = Wait(spiMutex, t)
  /\ SpiGoto(t, IF Takes(spiMutex) THEN "owner" ELSE "allocating")
  /\ UNCHANGED <<spiBuff, spiRate, filesVars>>

SpiAllocTmo(t) ==
  /\ spiPc[t] = "allocating"
  /\ spiMutex' = TimedOut(spiMutex, t)
  /\ SpiGoto(t, "idle")
  /\ UNCHANGED <<spiBuff, spiRate, filesVars>>

SpiRelease(t) ==
  /\ spiPc[t] = "owner"
  /\ SpiUnlock(t)
  /\ UNCHANGED <<spiBuff, spiRate, filesVars>>

\* The calls of a task on its files, between its calls of the bus.
\* spidev_socket, spidev_close: the client keeps its buffer.
FileCall(t) ==
  /\ spiPc[t] = "idle"
  /\ \/ \E m \in Modes : Socket(t, m) \/ Mode(t, m)
     \/ \E m \in Modes, f \in Named : Open(t, f, m)
     \/ Close(t)
  /\ UNCHANGED spiVars

-----------------------------------------------------------------------------
SpiStep(t) == SpiLockTmo(t) \/ SpiAllocTmo(t) \/ SpiXfer(t) \/ SpiRelease(t)

SpiNext ==
  \/ \E t \in Task : SpiStep(t) \/ SpiWrite(t) \/ SpiRead(t) \/ SpiFlush(t) \/ SpiAlloc(t) \/ FileCall(t)
  \/ \E f \in Named : (VfsAdd(f) \/ VfsDelete(f)) /\ UNCHANGED spiVars

-----------------------------------------------------------------------------
\* States of the bus and of the files.
SpiTypeOK ==
  /\ FilesTypeOK
  /\ spiPc \in [Task -> {"idle", "locking", "locked", "allocating", "owner"}]
  /\ \A t \in Task : spiPc[t] \in {"locking", "allocating"} <=> t \in ToSet(spiMutex.waiters)
  /\ spiBuff \in [Task -> BOOLEAN] /\ spiRate \in {4, 16, 64, 128}

(***************************************************************************)
(* spi_flush_client, dev->alloc: at most one task has the bus, and it is   *)
(* free when none has: a flush that times out neither transfers nor        *)
(* unlocks, and the lock reaches the first that waits.                     *)
(***************************************************************************)
OneOwner ==
  Cardinality({t \in Task : spiPc[t] \in {"locked", "owner"}}) + spiMutex.pend = 1
=============================================================================
