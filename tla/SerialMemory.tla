------------------------------ MODULE SerialMemory ------------------------------
(***************************************************************************)
(* Bytes in serial memories: a RAM on the SPI bus (lib/spiram.c) and an    *)
(* EEPROM on the I2C bus (lib/24c02.c), with threads that wait for the bus *)
(* while others call.  The two drivers keep one client each: the threads   *)
(* that use the EEPROM exclude each other by the lock of its client, while *)
(* nothing keeps apart those that use the RAM.  The transfers themselves   *)
(* are modelled in Spi and I2cBus.                                         *)
(***************************************************************************)
EXTENDS Integers, Sequences

CONSTANTS
  MemThread,
  NoOne,       \* no thread
  Address,     \* the addresses that are used, of 16 bits
  MemByte,       \* the bytes that are written
  RamShared    \* TRUE: a thread may use the RAM while another does

ASSUME SerialMemoryConstants ==
  /\ NoOne \notin MemThread
  /\ Address \subseteq Nat /\ \A a \in Address : a < 65536
  /\ MemByte \subseteq 0 .. 255
  /\ RamShared \in BOOLEAN

\* The opcodes of the RAM.
WRDA == 2
RDDA == 3

EeAddress == {a \in Address : a < 256}

VARIABLES
  ram, ee,     \* external: the two memories
  memAt,       \* where each thread is
  memCall,     \* its call: "write" or "read", address, value
  seq,         \* write_seq or read_seq, on the stack of each thread
  client,      \* the thread whose sequence client->buff points to
  eeMutex,     \* the thread that holds the lock of the EEPROM's client
  ramKept, eeKept, \* history: what the writes that succeeded wrote
  got          \* history: what a read that just ended returned, and what it had to

memoryVars ==
  <<ram, ee, memAt, memCall, seq, client, eeMutex, ramKept, eeKept, got>>

NoCall == [op |-> "none", addr |-> 0, value |-> 0]
NoResult == [value |-> 0, due |-> {0}]

\* spiram_init and Bermuda24c02Init.
MemoryInit ==
  /\ ram = [a \in Address |-> 0] /\ ee = [a \in EeAddress |-> 0]
  /\ memAt = [t \in MemThread |-> "idle"]
  /\ memCall = [t \in MemThread |-> NoCall]
  /\ seq = [t \in MemThread |-> <<>>]
  /\ client = NoOne /\ eeMutex = NoOne
  /\ ramKept = ram /\ eeKept = ee
  /\ got = NoResult

MemGoto(t, l) == memAt' = [memAt EXCEPT ![t] = l]

\* A thread returns; what client->buff still points to counts only while
\* another uses it.
MemReturn(t, newSeq) ==
  /\ MemGoto(t, "idle")
  /\ memCall' = [memCall EXCEPT ![t] = NoCall]
  /\ seq' = [newSeq EXCEPT ![t] = <<>>]
  /\ client' = IF \E u \in MemThread \ {t} : memAt[u] = "ram" THEN client ELSE NoOne

MemCalls == [op : {"write"}, addr : Address, value : MemByte]
         \cup [op : {"read"}, addr : Address, value : {0}]

-----------------------------------------------------------------------------
\* FAULT: the address is shifted by 4.
WriteSeqNibble(a, v) == <<WRDA, (a \div 16) % 256, a % 256, v>>

\* The sequences of spiram_write_byte and spiram_read_byte.
WriteSeq(a, v) == <<WRDA, (a \div 256) % 256, a % 256, v>>
ReadSeq(a) == <<RDDA, (a \div 256) % 256, a % 256, 255>>

\* Both calls up to the lock of the bus: a socket, and write or read on it.
RamCall(t, c) ==
  /\ memAt[t] = "idle"
  /\ RamShared \/ \A u \in MemThread : memAt[u] # "ram"
  /\ memCall' = [memCall EXCEPT ![t] = c]
  /\ seq' = [seq EXCEPT ![t] = IF c.op = "write" THEN WriteSeq(c.addr, c.value)
                               ELSE ReadSeq(c.addr)]
  /\ client' = t
  /\ MemGoto(t, "ram")
  /\ got' = NoResult
  /\ UNCHANGED <<ram, ee, eeMutex, ramKept, eeKept>>

\* External: the chip at the end of a sequence, whose last byte it may set.
Chip(s) == IF s[1] = WRDA THEN [ram EXCEPT ![256 * s[2] + s[3]] = s[4]] ELSE ram
Answered(s) == IF s[1] = RDDA THEN [s EXCEPT ![4] = ram[256 * s[2] + s[3]]] ELSE s

\* The flush with the lock, and the return.
RamFlush(t) ==
  LET c == memCall[t]
      answered == [seq EXCEPT ![client] = Answered(seq[client])]
  IN  /\ memAt[t] = "ram"
      /\ ram' = Chip(seq[client])
      /\ ramKept' = IF c.op = "write" THEN [ramKept EXCEPT ![c.addr] = c.value] ELSE ramKept
      /\ got' = IF c.op = "write" THEN NoResult
                ELSE [value |-> answered[t][4], due |-> {ramKept[c.addr]}]
      /\ MemReturn(t, answered)
      /\ UNCHANGED <<ee, eeMutex, eeKept>>

\* The wait for the lock times out, or no socket was free: -1, and the byte
\* 0xFF of read_seq.
RamTmo(t) ==
  /\ memAt[t] = "ram"
  /\ got' = IF memCall[t].op = "read" THEN [value |-> seq[t][4], due |-> {255}] ELSE NoResult
  /\ MemReturn(t, seq)
  /\ UNCHANGED <<ram, ee, eeMutex, ramKept, eeKept>>

-----------------------------------------------------------------------------
\* Bermuda24c02WriteByte, Bermuda24c02ReadByte: i2cdev_socket waits for the
\* lock of the client.
EeCall(t, c) ==
  /\ memAt[t] = "idle" /\ c.addr \in EeAddress
  /\ memCall' = [memCall EXCEPT ![t] = c]
  /\ MemGoto(t, "eeSocket")
  /\ got' = NoResult
  /\ UNCHANGED <<ram, ee, seq, client, eeMutex, ramKept, eeKept>>

EeSocket(t) ==
  /\ memAt[t] = "eeSocket" /\ eeMutex = NoOne
  /\ eeMutex' = t
  /\ MemGoto(t, "eeFlush")
  /\ got' = NoResult
  /\ UNCHANGED <<ram, ee, memCall, seq, client, ramKept, eeKept>>

\* The wait times out, or no descriptor or memory is left: -1 or 0xFF.
EeSocketTmo(t) ==
  /\ memAt[t] = "eeSocket"
  /\ got' = IF memCall[t].op = "read" THEN [value |-> 255, due |-> {255}] ELSE NoResult
  /\ MemReturn(t, seq)
  /\ UNCHANGED <<ram, ee, eeMutex, ramKept, eeKept>>

(***************************************************************************)
(* The flush and the return: the bus carries out the message of a write,   *)
(* or the two of a read, the address and, after a repeated start, the      *)
(* byte, or fails before the end.  A read that fails returns 0.            *)
(***************************************************************************)
EeFlush(t, done) ==
  LET c == memCall[t]
      written == done /\ c.op = "write"
  IN  /\ memAt[t] = "eeFlush"
      /\ ee' = IF written THEN [ee EXCEPT ![c.addr] = c.value] ELSE ee
      /\ eeKept' = IF written THEN [eeKept EXCEPT ![c.addr] = c.value] ELSE eeKept
      /\ got' = IF c.op = "write" THEN NoResult
                ELSE [value |-> IF done THEN ee[c.addr] ELSE 0, due |-> {eeKept[c.addr], 0}]
      /\ eeMutex' = NoOne
      /\ MemReturn(t, seq)
      /\ UNCHANGED <<ram, ramKept>>

MemoryNext ==
  \/ \E t \in MemThread :
       \/ \E c \in MemCalls : RamCall(t, c) \/ EeCall(t, c)
       \/ RamFlush(t) \/ RamTmo(t)
       \/ EeSocket(t) \/ EeSocketTmo(t) \/ \E done \in BOOLEAN : EeFlush(t, done)

-----------------------------------------------------------------------------
(***************************************************************************)
(* spiram.c, 24c02.c: a write that returns 0 is in the memory, at its      *)
(* address and nowhere else, a write that fails changes nothing, and a     *)
(* read gets what the last write of its address wrote, or the byte of its  *)
(* failure, whatever threads wait for the buses meanwhile.                 *)
(***************************************************************************)
ReadsBack == ram = ramKept /\ ee = eeKept /\ got.value \in got.due
=============================================================================
