-------------------------------- MODULE Serial --------------------------------
(***************************************************************************)
(* Reads from the serial port (dev/usart/busses/atmega-usart.c): a read    *)
(* takes its bytes one by one; for each it points the driver at its own    *)
(* variable, turns the receiver on, waits for the interrupt and turns the  *)
(* receiver off.  Bytes that arrive are numbered, modulo Bytes.            *)
(***************************************************************************)
EXTENDS EventQueue

CONSTANTS
  Reader,      \* the threads that read from the port
  Nobody, NoByte,
  Bytes,       \* bytes are numbered 0..Bytes - 1
  ReadSizes,   \* the sizes that reads ask for
  SerFast,     \* TRUE: a byte may arrive before its reader waits for it
  SerShared    \* TRUE: threads may read at the same time

ASSUME SerialConstants ==
  /\ Bytes \in Nat /\ Bytes >= 4
  /\ NoByte \notin 0 .. Bytes - 1 /\ Nobody \notin Reader
  /\ ReadSizes \subseteq Nat \ {0}
  /\ {SerFast, SerShared} \subseteq BOOLEAN

VARIABLES
  rxOn,        \* RXEN0 and RXCIE0: the receiver and its interrupt are enabled
  rxFifo,      \* external: the receive buffer of the hardware, of two bytes
  rxNext,      \* the number of the next byte that arrives
  rxLen, rx,   \* bus->rx_len and the thread whose c bus->rx points to
  rxQueue,
  serPc,
  serLeft,     \* the bytes that a read still has to take
  serByte,     \* c of BermudaUsartReadByte
  serFirst,    \* history: the first byte that arrives after RX_ENABLE
  serCur       \* the thread between RX_ENABLE and its wait, or Nobody

serVars == <<rxOn, rxFifo, rxNext, rxLen, rx, rxQueue, serPc, serLeft, serByte, serFirst, serCur>>

\* BermudaUsart0Init.
SerInit ==
  /\ rxOn = FALSE /\ rxFifo = <<>> /\ rxNext = 0
  /\ rxLen = 0 /\ rx = Nobody
  /\ rxQueue = Stored
  /\ serPc = [t \in Reader |-> "idle"]
  /\ serLeft = [t \in Reader |-> 0]
  /\ serByte = [t \in Reader |-> NoByte]
  /\ serFirst = [t \in Reader |-> NoByte]
  /\ serCur = Nobody

SerGoto(t, l) == serPc' = [serPc EXCEPT ![t] = l]

-----------------------------------------------------------------------------
\* BermudaUsartIoCtl for the receiver: USART_TX_STOP goes on as
\* USART_RX_ENABLE; the receiver loses its buffer when it stops.
UsartIoCtl(mode) ==
  \/ mode \in {"RX_ENABLE", "TX_STOP"} /\ rxOn' = TRUE /\ UNCHANGED rxFifo
  \/ mode = "RX_STOP" /\ rxOn' = FALSE /\ rxFifo' = <<>>

\* usart_read: a read of n bytes.
SerRead(t, n) ==
  /\ serCur = Nobody /\ serPc[t] = "idle"
  /\ SerShared \/ \A u \in Reader : serPc[u] = "idle"
  /\ serLeft' = [serLeft EXCEPT ![t] = n]
  /\ SerGoto(t, "next")
  /\ UNCHANGED <<rxOn, rxFifo, rxNext, rxLen, rx, rxQueue, serByte, serFirst, serCur>>

\* BermudaUsartReadByte up to its wait.
SerReadByte(t) ==
  /\ serCur = Nobody /\ serPc[t] = "next"
  /\ rxLen' = 1 /\ rx' = t
  /\ UsartIoCtl("RX_ENABLE")
  /\ serByte' = [serByte EXCEPT ![t] = NoByte]
  /\ serFirst' = [serFirst EXCEPT ![t] = rxNext]
  /\ serCur' = t
  /\ SerGoto(t, "enabled")
  /\ UNCHANGED <<rxNext, rxQueue, serLeft>>

SerWait(t) ==
  /\ serCur = t /\ serPc[t] = "enabled"
  /\ rxQueue' = WaitNext(rxQueue, t)
  /\ serCur' = Nobody
  /\ SerGoto(t, "waiting")
  /\ UNCHANGED <<rxOn, rxFifo, rxNext, rxLen, rx, serLeft, serByte, serFirst>>

SerEvent(t) ==
  /\ serCur = Nobody
  /\ Delivers(rxQueue, t)
  /\ rxQueue' = Delivered(rxQueue)
  /\ SerGoto(t, "woken")
  /\ UNCHANGED <<rxOn, rxFifo, rxNext, rxLen, rx, serLeft, serByte, serFirst, serCur>>

\* FAULT: the receiver is left on.
SerStopNot(t) ==
  /\ serCur = Nobody /\ serPc[t] = "woken"
  /\ serLeft' = [serLeft EXCEPT ![t] = @ - 1]
  /\ SerGoto(t, IF serLeft[t] > 1 THEN "next" ELSE "idle")
  /\ UNCHANGED <<rxOn, rxFifo, rxNext, rxLen, rx, rxQueue, serByte, serFirst, serCur>>

\* The receiver stops and the byte is returned.
SerStop(t) ==
  /\ serCur = Nobody /\ serPc[t] = "woken"
  /\ UsartIoCtl("RX_STOP")
  /\ serLeft' = [serLeft EXCEPT ![t] = @ - 1]
  /\ SerGoto(t, IF serLeft[t] > 1 THEN "next" ELSE "idle")
  /\ UNCHANGED <<rxNext, rxLen, rx, rxQueue, serByte, serFirst, serCur>>

-----------------------------------------------------------------------------
\* A byte arrives: it is lost when the receiver is off or the buffer is full.
SerReceive ==
  /\ SerFast \/ serCur = Nobody
  /\ rxNext' = (rxNext + 1) % Bytes
  /\ rxFifo' = IF rxOn /\ Len(rxFifo) < 2 THEN Append(rxFifo, rxNext) ELSE rxFifo
  /\ UNCHANGED <<rxOn, rxLen, rx, rxQueue, serPc, serLeft, serByte, serFirst, serCur>>

\* FAULT: the read stays the current one.
SerInterruptAgain ==
  /\ rxOn /\ rxFifo # <<>> /\ rxLen # 0
  /\ serByte' = [serByte EXCEPT ![rx] = Head(rxFifo)]
  /\ rxFifo' = Tail(rxFifo)
  /\ rxLen' = rxLen
  /\ rxQueue' = SignalFromISR(rxQueue)
  /\ UNCHANGED <<rxOn, rxNext, rx, serPc, serLeft, serFirst, serCur>>

\* BermudaUsartISR: without a read it leaves the byte in the buffer, and is
\* called again until the buffer is emptied.
SerInterrupt ==
  /\ rxOn /\ rxFifo # <<>> /\ rxLen # 0
  /\ serByte' = [serByte EXCEPT ![rx] = Head(rxFifo)]
  /\ rxFifo' = Tail(rxFifo)
  /\ rxLen' = 0
  /\ rxQueue' = SignalFromISR(rxQueue)
  /\ UNCHANGED <<rxOn, rxNext, rx, serPc, serLeft, serFirst, serCur>>

-----------------------------------------------------------------------------
SerStep(t) == SerReadByte(t) \/ SerWait(t) \/ SerEvent(t) \/ SerStop(t)

SerNext ==
  \/ \E t \in Reader : SerStep(t) \/ \E n \in ReadSizes : SerRead(t, n)
  \/ SerReceive
  \/ SerInterrupt

\* The scheduler runs threads that are ready; while the receiver is on bytes
\* keep arriving.
SerFairness ==
  /\ WF_serVars(rxOn /\ SerReceive) /\ WF_serVars(SerInterrupt)
  /\ \A t \in Reader : WF_serVars(SerStep(t))

-----------------------------------------------------------------------------
\* States of the driver.
SerTypeOK ==
  /\ rxOn \in BOOLEAN /\ rxNext \in 0 .. Bytes - 1
  /\ Len(rxFifo) <= 2 /\ (rxFifo # <<>> => rxOn)
  /\ rxLen \in 0..1 /\ rx \in Reader \cup {Nobody}
  /\ serPc \in [Reader -> {"idle", "next", "enabled", "waiting", "woken"}]
  /\ \A t \in Reader :
       /\ serPc[t] = "waiting" <=> t \in Range(rxQueue.waiters)
       /\ serPc[t] = "idle" <=> serLeft[t] = 0
  /\ rxQueue.pend \in 0..1

(***************************************************************************)
(* usart_read: each byte of a read is the first that arrived after the     *)
(* receiver was turned on for it: none from before, none made up, and none *)
(* overwritten by a byte that arrives while the reader has yet to run.     *)
(***************************************************************************)
ReadsFirst == \A t \in Reader : serPc[t] = "woken" => serByte[t] = serFirst[t]

(***************************************************************************)
(* A read returns as long as bytes arrive, although the driver drops those *)
(* that arrive between two of its bytes.                                   *)
(***************************************************************************)
ReadReturns == \A t \in Reader : serPc[t] # "idle" ~> serPc[t] = "idle"
=============================================================================
