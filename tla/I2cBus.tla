-------------------------------- MODULE I2cBus --------------------------------
(***************************************************************************)
(* I2C transfers: the files of clients (dev/i2c/i2c-dev.c), the core that  *)
(* moves their messages to the adapter and runs call-backs                 *)
(* (dev/i2c/i2c-core.c), and the bus driver with its interrupt handler     *)
(* (dev/i2c/busses/atmega-i2c.c), over the TWI hardware.                   *)
(*                                                                         *)
(* Threads interleave where they wait (cur is the one that runs); the      *)
(* interrupt handler runs between any two steps of a thread.  Bytes,       *)
(* addresses and the transmission layout are left out, for the bus driver  *)
(* does not look at them; a message keeps its length.  The error field of  *)
(* the adapter is written and never read, and is left out.                 *)
(***************************************************************************)
EXTENDS I2cVector, SequencesExt

CONSTANTS
  Msg,          \* the messages the heap can hold
  Client,       \* the clients, each used by a thread of its own
  Masters,      \* those whose file has the flag I2C_MASTER
  HasCallback,  \* those with a shared_callback
  Lengths,      \* the lengths of messages
  MaxQueued,    \* bound: the messages each client writes before it flushes
  MaxEvents,    \* bound: the events that are counted and not delivered
  SIGNALED,
  Faults        \* what may go wrong: a subset of FaultKinds

FaultKinds ==
  {"race",         \* the bus moves on while a thread adds messages and starts
   "lateAddress",  \* a master addresses the node while a slave client tidies up
   "lateTmo",      \* the wait of a slave client times out in a transfer, or
                   \* with more than one message to go
   "masterTmo",    \* the first wait of a master client times out
   "lockTmo",      \* and its wait for the adapter
   "resumeTmo",    \* so does the wait for the answer to its call-back
   "overrun",      \* a master writes more than the buffer of the slave holds
   "arbitration",  \* another master wins the bus
   "winner",       \* and addresses the node
   "busError",     \* the bus reports an error
   "refusal",      \* a byte that another master writes is refused on a busy bus
   "emptyAnswer",  \* a call-back of a slave fails
   "lateCallBack", \* a message of a master calls back when the wait for it
                   \* has timed out, or times out then
   "noAnswer",     \* a master on a held bus gets no message for its answer
   "heldBus",      \* nor does a slave
   "shared"}       \* masters and slaves do not use the bus in turns

ASSUME BusConstants ==
  /\ NULL \notin Msg \cup Client
  /\ SIGNALED \notin Seq(Client)
  /\ Masters \subseteq Client
  /\ HasCallback \subseteq Client
  /\ Lengths \subseteq Nat
  /\ MaxQueued \in [Client -> Nat]
  /\ MaxEvents \in Nat \ {0}
  /\ Faults \subseteq FaultKinds

VARIABLES
  msg,       \* the contents of each message, or NULL when it is not allocated
  msgs,      \* sh_info->msgs of each client
  vec,       \* adapter->msg_vector
  busy,      \* adapter->busy
  ptr,       \* master_msg, slave_msg, last_master_msg and last_slave_msg
  bufferIndex,
  twcr,      \* the bits STA, EA and IE of the control register
  twi,       \* what the hardware does; "held": it waits for TWINT to be cleared
  queue,     \* *adapter->master_queue and *adapter->slave_queue; <<>> for NULL
  ec,        \* the events the interrupt handler counted for their first waiter
  holder,    \* the client that has locked the adapter, or NULL
  pc, index, rc, length,    \* of each client, in __i2c_start_xfer
  cur        \* the client whose thread runs in the core, or NULL

hwVars     == <<busy, ptr, bufferIndex, twcr, twi>>
eventVars  == <<queue, ec>>
threadVars == <<holder, pc, index, rc, length, cur>>
i2cVars    == <<msg, msgs, vec, hwVars, eventVars, threadVars>>

Kinds == {"master", "slave"}
Kind(c) == IF c \in Masters THEN "master" ELSE "slave"

AdapterInit == vec = Uninit /\ busy = FALSE

ClientsInit ==
  /\ msgs = [c \in Client |-> <<>>]
  /\ pc = [c \in Client |-> "closed"]

Init ==
  /\ msg = [m \in Msg |-> NULL]
  /\ AdapterInit /\ ClientsInit
  /\ ptr = [master |-> NULL, slave |-> NULL, lastMaster |-> NULL, lastSlave |-> NULL]
  /\ bufferIndex = 0
  /\ twcr = [sta |-> FALSE, ea |-> FALSE, ie |-> TRUE]
  /\ twi = "idle"
  /\ queue = [k \in Kinds |-> SIGNALED]
  /\ ec = [k \in Kinds |-> 0]
  /\ holder = NULL
  /\ index = [c \in Client |-> 0]
  /\ rc = [c \in Client |-> 0]
  /\ length = [c \in Client |-> 0]
  /\ cur = NULL

-----------------------------------------------------------------------------
(***************************************************************************)
(* Messages and the vector.  As in ThreadQueue, a FAULT is a slip in the   *)
(* definition behind it.                                                   *)
(***************************************************************************)

OfKind(ms, k) == {m \in Msg : ms[m] # NULL /\ ms[m].kind = k}

\* The index of the first message of the kind k that is not done, or NULL.
Pending(v, ms, k) == FirstMsg(v, {m \in OfKind(ms, k) : ~ms[m].done})

\* The first message of the kind k that is not done, or NULL.
First(v, ms, k) ==
  LET i == Pending(v, ms, k) IN IF i = NULL THEN NULL ELSE v.data[i]

\* The messages that i2c_cleanup_adapter_msgs deletes, from the last to the
\* first.  On an empty vector its index wraps, and all it sees is out of bounds.
Gone(v, ms, k) == {m \in Range(Elements(v)) : ms[m].kind = k /\ ms[m].done}

\* FAULT: walks from the first message to the last, past those that move down.
CleanupUpwards(v, ms, k) ==
  Reshape(FoldLeft(LAMBDA w, i : IF Get(w, i - 1) \in Gone(v, ms, k) THEN DeleteAt(w, i - 1) ELSE w,
                   v, [i \in 1 .. v.length |-> i]))

\* left[n] is the vector when its last n entries have been looked at.
Cleanup(v, ms, k) ==
  LET left[n \in 0 .. v.length] ==
        IF n = 0 THEN v
        ELSE LET w == left[n - 1]
                 i == v.length - n
             IN  IF Get(w, i) \in Gone(v, ms, k) THEN DeleteAt(w, i) ELSE w
  IN  Reshape(left[v.length])

Marked(ms, marked) == [m \in Msg |-> IF m \in marked THEN [ms[m] EXCEPT !.done = TRUE] ELSE ms[m]]

Without(ms, gone) == [m \in Msg |-> IF m \in gone THEN NULL ELSE ms[m]]

\* The cleaning of the kind k, with the messages ms.
CleanUp(ms, k) ==
  /\ vec' = Cleanup(vec, ms, k)
  /\ msg' = Without(ms, Gone(vec, ms, k))

\* FAULT: takes the first message, even one that is done.
UpdatedDone(p, v, ms) ==
  [p EXCEPT !.master = LET i == FirstMsg(v, OfKind(ms, "master"))
                       IN IF i = NULL THEN NULL ELSE v.data[i],
            !.slave = First(v, ms, "slave")]

\* atmega_i2c_update_from_isr, and atmega_i2c_update of a bus that is not busy.
Updated(p, v, ms) == [p EXCEPT !.master = First(v, ms, "master"), !.slave = First(v, ms, "slave")]

-----------------------------------------------------------------------------
(***************************************************************************)
(* Event queues (sys/events/event.c), as EventSpec describes them, with    *)
(* the count at the first waiter.  ISRs signal; the scheduler delivers.    *)
(***************************************************************************)

\* BermudaEventSignalFromISR for each of the queues ks.
SignalFromISR(ks) ==
  /\ queue' = [k \in Kinds |-> IF k \in ks /\ queue[k] = <<>> THEN SIGNALED ELSE queue[k]]
  /\ ec' = [k \in Kinds |-> IF k \in ks /\ queue[k] \notin {<<>>, SIGNALED} THEN ec[k] + 1 ELSE ec[k]]

\* The queue k when its waiter c leaves it with n events left.
Leave(k, c, n) ==
  LET rest == RemoveFirst(queue[k], c)
  IN  /\ queue' = [queue EXCEPT ![k] = IF n > 0 /\ rest = <<>> THEN SIGNALED ELSE rest]
      /\ ec' = [ec EXCEPT ![k] = IF rest = <<>> THEN 0 ELSE n]

PostEvent(k) ==
  /\ cur = NULL
  /\ ec[k] > 0
  /\ Leave(k, Head(queue[k]), ec[k] - 1)
  /\ pc' = [pc EXCEPT ![Head(queue[k])] = "woken"]
  /\ rc' = [rc EXCEPT ![Head(queue[k])] = 0]
  /\ UNCHANGED <<msg, msgs, vec, hwVars, holder, index, length, cur>>

\* The wait of a client times out.  The bus of a master that calls back stays held.
EventTMO(c) ==
  LET k == Kind(c)
  IN  /\ cur = NULL
      /\ pc[c] = "wait"
      /\ k = "master" => (IF length[c] > 0 THEN "resumeTmo" ELSE "masterTmo") \in Faults
      /\ k = "master" /\ twi = "heldM" => "lateCallBack" \in Faults
      /\ (k = "slave" /\ (busy \/ twi \in {"sr", "st"} \/ vec.length > 1)) => "lateTmo" \in Faults
      /\ Leave(k, c, ec[k])
      /\ pc' = [pc EXCEPT ![c] = "woken"]
      /\ rc' = [rc EXCEPT ![c] = -1]
      /\ UNCHANGED <<msg, msgs, vec, hwVars, holder, index, length, cur>>

-----------------------------------------------------------------------------
(***************************************************************************)
(* The files of the clients (i2c-dev.c).  The mutex of a client keeps its  *)
(* one thread waiting for nobody.                                          *)
(***************************************************************************)

Socket(c) ==
  /\ cur = NULL
  /\ pc[c] = "closed"
  /\ \/ "shared" \in Faults
     \/ /\ \A d \in Client : Kind(d) # Kind(c) => pc[d] = "closed"
        /\ \A m \in Range(Elements(vec)) : msg[m].kind = Kind(c)
  /\ pc' = [pc EXCEPT ![c] = "open"]
  /\ UNCHANGED <<msg, msgs, vec, hwVars, eventVars, holder, index, rc, length, cur>>

\* i2c_write_client.  Nobody looks at the direction of a slave's message: the
\* other master chooses it.
NewMessage(c, tx, cb, n) ==
  [kind |-> Kind(c), tx |-> tx \/ c \notin Masters, cb |-> cb, done |-> FALSE, len |-> n]

\* The client c may add the message m.  Bound: Msg has room for the answer of
\* a call-back.
MayAdd(c, m) ==
  /\ cur = NULL
  /\ pc[c] = "open"
  /\ Len(msgs[c]) < MaxQueued[c]
  /\ msg[m] = NULL /\ \E free \in Msg \ {m} : msg[free] = NULL

AddEntry(c, m) == msgs' = [msgs EXCEPT ![c] = Append(@, m)]

\* i2cdev_write and i2cdev_read.
WriteClient(c, m, tx, cb, n) ==
  /\ MayAdd(c, m)
  /\ msg' = [msg EXCEPT ![m] = NewMessage(c, tx, cb, n)]
  /\ AddEntry(c, m)
  /\ UNCHANGED <<vec, hwVars, eventVars, threadVars>>

\* A slave client deletes all slave messages of the adapter, without the lock.
SlaveTmo(ms) ==
  LET i == Pending(vec, ms, "slave")
  IN  IF i = NULL THEN msg' = ms /\ vec' = vec
      ELSE CleanUp(Marked(ms, {vec.data[j] : j \in i .. vec.length - 1}), "slave")

\* i2c_start_xfer of a slave with the messages ms.
StartSlave(c, ms) ==
  /\ SlaveTmo(ms)
  /\ pc' = [pc EXCEPT ![c] = "add"]
  /\ cur' = c

\* __i2c_start_xfer starts with these.
Starting(c) ==
  /\ rc' = [rc EXCEPT ![c] = 0]
  /\ index' = [index EXCEPT ![c] = vec'.length]
  /\ UNCHANGED <<hwVars, eventVars, holder, length>>

\* i2cdev_flush, which returns when there is no message.
Flush(c) ==
  /\ cur = NULL
  /\ pc[c] = "open"
  /\ msgs[c] # <<>>
  /\ \/ /\ c \in Masters
        /\ pc' = [pc EXCEPT ![c] = "lock"]
        /\ UNCHANGED <<msg, vec, cur>>
     \/ c \notin Masters /\ StartSlave(c, msg)
  /\ Starting(c)
  /\ UNCHANGED msgs

\* i2cdev_listen: a buffer to receive, and a flush.
Listen(c, m, n) ==
  /\ MayAdd(c, m)
  /\ c \notin Masters
  /\ AddEntry(c, m)
  /\ StartSlave(c, [msg EXCEPT ![m] = NewMessage(c, FALSE, c \in HasCallback, n)])
  /\ Starting(c)

\* i2c_cleanup_client_msgs
DropMessages(c) ==
  /\ msg' = Without(msg, Range(msgs[c]))
  /\ msgs' = [msgs EXCEPT ![c] = <<>>]

\* i2cdev_close
Close(c) ==
  /\ cur = NULL
  /\ pc[c] = "open"
  /\ DropMessages(c)
  /\ pc' = [pc EXCEPT ![c] = "closed"]
  /\ UNCHANGED <<vec, hwVars, eventVars, holder, index, rc, length, cur>>

\* i2cdev_error
Error(c) ==
  /\ cur = NULL
  /\ pc[c] = "open"
  /\ msgs[c] # <<>>
  /\ DropMessages(c)
  /\ UNCHANGED <<vec, hwVars, eventVars, threadVars>>

-----------------------------------------------------------------------------
(***************************************************************************)
(* The core (i2c-core.c): __i2c_start_xfer of the client c.                *)
(***************************************************************************)

Goto(c, l) == pc' = [pc EXCEPT ![c] = l]

\* i2cdev_flush is over, and its variables with it.
Returns(c) ==
  /\ Goto(c, "open")
  /\ rc' = [rc EXCEPT ![c] = 0]
  /\ index' = [index EXCEPT ![c] = 0]
  /\ length' = [length EXCEPT ![c] = 0]

\* From the first message that is not done up to the first one of a slave.
MastersLeft ==
  LET i == Pending(vec, msg, "master")
  IN  IF i = NULL THEN {}
      ELSE {vec.data[j] : j \in {j \in i .. vec.length - 1 :
                                   \A n \in i .. j : msg[vec.data[n]].kind = "master"}}

\* i2c_lock_adapter: only masters lock.  The messages of masters that were
\* not sent are deleted (i2c_master_tmo), and the driver looks again.
Lock(c) ==
  /\ cur = NULL
  /\ pc[c] = "lock"
  /\ holder = NULL
  /\ holder' = c
  /\ cur' = c
  /\ \/ /\ ~busy
        /\ CleanUp(Marked(msg, MastersLeft), "master")
        /\ Goto(c, "update")
     \/ /\ busy
        /\ Goto(c, "add")
        /\ UNCHANGED <<msg, vec>>
  /\ index' = [index EXCEPT ![c] = vec'.length]
  /\ UNCHANGED <<msgs, hwVars, eventVars, rc, length>>

\* adapter->alloc(I2C_MASTER_TMO) gives up.
LockTimeout(c) ==
  /\ cur = NULL
  /\ pc[c] = "lock"
  /\ holder # NULL
  /\ "lockTmo" \in Faults
  /\ Returns(c)
  /\ UNCHANGED <<msg, msgs, vec, hwVars, eventVars, holder, cur>>

\* adapter->update: atmega_i2c_update leaves a bus that is busy alone.
Update == ptr' = IF busy THEN ptr ELSE Updated(ptr, vec, msg)

MasterTmoUpdate(c) ==
  /\ cur = c
  /\ pc[c] = "update"
  /\ Update
  /\ Goto(c, "add")
  /\ UNCHANGED <<msg, msgs, vec, busy, bufferIndex, twcr, twi, eventVars, holder, index, rc, length, cur>>

\* The next message of the list goes to the vector, which is created for the
\* first one (i2c_vector_error).  Nobody calls back a client without a
\* call-back.
AddMessage(c) ==
  LET m == Head(msgs[c])
      v == IF vec.data = NULL THEN AfterError(vec) ELSE vec
  IN  /\ cur = c
      /\ pc[c] = "add"
      /\ msgs[c] # <<>>
      /\ msg' = [msg EXCEPT ![m].cb = @ /\ c \in HasCallback]
      /\ vec' = Add(v, m, OfKind(msg, "slave"))
      /\ msgs' = [msgs EXCEPT ![c] = Tail(@)]
      /\ UNCHANGED <<hwVars, eventVars, threadVars>>

\* atmega_i2c_ioctl: TWINT is cleared and interrupts are on; STA stays when it
\* was set.
Control(sta, ea, next) ==
  /\ twcr' = [sta |-> sta \/ twcr.sta, ea |-> ea, ie |-> TRUE]
  /\ twi' = next

\* The same at the end of a byte of a master transfer, where STA asks for a
\* repeated START.
MasterControl(sta, ea, next) == Control(sta, ea, IF sta \/ twcr.sta THEN "rep" ELSE next)

\* adapter->xfer: i2c_master_transfer and atmega_i2c_slave_listen start the
\* transfer when the bus is free; otherwise the interrupt handler will.
Xfer(c) ==
  /\ cur = c
  /\ pc[c] = "add"
  /\ msgs[c] = <<>>
  /\ index' = [index EXCEPT ![c] = IF @ = 0 THEN 0 ELSE @ - 1]
  /\ length' = [length EXCEPT ![c] = 0]
  /\ Goto(c, "started")
  /\ IF ~busy /\ twi \notin {"heldM", "heldS"}
     THEN /\ Update
          /\ IF c \in Masters
             THEN Control(TRUE, ptr'.slave # NULL, twi)
             ELSE Control(ptr'.master # NULL, TRUE, twi)
     ELSE UNCHANGED <<ptr, twcr, twi>>
  /\ UNCHANGED <<msg, msgs, vec, busy, bufferIndex, eventVars, holder, rc, cur>>

\* BermudaEventWaitNext drops an event that is stored.
WaitNext(c) ==
  LET k == Kind(c)
  IN  /\ cur = c
      /\ pc[c] = "started"
      /\ queue' = [queue EXCEPT ![k] = IF @ = SIGNALED THEN <<c>> ELSE Append(@, c)]
      /\ cur' = NULL
      /\ Goto(c, "wait")
      /\ UNCHANGED <<msg, msgs, vec, hwVars, ec, holder, index, rc, length>>

\* Whether c waits in i2c_resume_transfer, and not in the first transfer.
Resumed(c) == length[c] > 0

\* Back in the core with the result r and the index i: on with the loop, or out.
Returned(c, r, i) ==
  /\ rc' = [rc EXCEPT ![c] = r]
  /\ index' = [index EXCEPT ![c] = i]
  /\ Goto(c, IF r = 0 /\ i # -1 /\ (Resumed(c) => i < length[c]) THEN "loop" ELSE "end")
  /\ cur' = c

\* Clearing TWINT releases a bus that is held.
Released ==
  IF twi = "heldS" THEN "idle" ELSE IF twi = "heldM" THEN "mt" ELSE twi

\* FAULT: a message without call-back is resumed as well.
MasterWokenAny(c) ==
  /\ cur = NULL
  /\ pc[c] = "woken" /\ c \in Masters /\ ~Resumed(c)
  /\ IF rc[c] = 0 /\ ptr.lastMaster # NULL
     THEN Returned(c, 0, Locate(vec, ptr.lastMaster))
     ELSE Returned(c, -1, index[c])
  /\ UNCHANGED <<msg, msgs, vec, hwVars, eventVars, holder, length>>

\* The rest of i2c_init_transfer: only a message with call-back goes on.
MasterWoken(c) ==
  LET m == ptr.lastMaster
  IN  /\ cur = NULL
      /\ pc[c] = "woken" /\ c \in Masters /\ ~Resumed(c)
      /\ IF rc[c] = 0 /\ m # NULL
         THEN Returned(c, IF msg[m].cb THEN 0 ELSE 1, Locate(vec, m))
         ELSE Returned(c, -1, index[c])
      /\ UNCHANGED <<msg, msgs, vec, hwVars, eventVars, holder, length>>

\* The rest of i2c_resume_transfer for a master.
MasterResumed(c) ==
  LET m == IF rc[c] < 0 /\ ptr.master # NULL THEN ptr.master ELSE ptr.lastMaster
      gaveUp == rc[c] < 0 /\ m # NULL /\ msg[m].cb
  IN  /\ cur = NULL
      /\ pc[c] = "woken" /\ c \in Masters /\ Resumed(c)
      /\ ptr' = [ptr EXCEPT !.lastMaster = m]
      /\ IF gaveUp
         THEN /\ busy' = FALSE
              /\ Control(FALSE, TRUE, Released)
              /\ msg' = Marked(msg, {m})
         ELSE UNCHANGED <<busy, twcr, twi, msg>>
      /\ Returned(c, IF m = NULL THEN -1 ELSE IF msg[m].cb THEN rc[c] ELSE 1, Locate(vec, m))
      /\ UNCHANGED <<msgs, vec, bufferIndex, eventVars, holder, length>>

\* The rest of atmega_i2c_slave_listen, and of i2c_resume_transfer for a slave.
SlaveWoken(c) ==
  LET m == IF rc[c] < 0 /\ ptr.slave # NULL THEN ptr.slave ELSE ptr.lastSlave
      late == rc[c] < 0 /\ m # NULL /\ (Resumed(c) \/ ptr.slave # NULL)
  IN  /\ cur = NULL
      /\ pc[c] = "woken" /\ c \notin Masters
      /\ ptr' = [ptr EXCEPT !.lastSlave = m]
      /\ msg' = IF late THEN Marked(msg, {m}) ELSE msg
      /\ IF late /\ msg[m].cb
         THEN busy' = FALSE /\ Control(FALSE, TRUE, Released)
         ELSE UNCHANGED <<busy, twcr, twi>>
      /\ Returned(c, IF m = NULL THEN -1 ELSE rc[c],
                  IF m = NULL /\ ~Resumed(c) THEN index[c] ELSE Locate(vec, m))
      /\ UNCHANGED <<msgs, vec, bufferIndex, eventVars, holder, length>>

\* A call-back that fails leaves its answer empty.
AnswerLengths(c) ==
  Lengths \cup (IF c \in Masters \/ "emptyAnswer" \in Faults THEN {0} ELSE {})

\* shared_callback answers with the message n, which goes behind the message
\* that called back; that one is done.
CallBack(c, n, tx, cb, len) ==
  LET m == Get(vec, index[c])
  IN  /\ cur = c
      /\ pc[c] = "loop"
      /\ m # NULL /\ msg[m].cb
      /\ msg[n] = NULL
      /\ msg' = [msg EXCEPT ![m].done = TRUE,
                            ![n] = NewMessage(c, tx, cb, len)]
      /\ vec' = InsertEntry(vec, n, index[c] + 1)
      /\ index' = [index EXCEPT ![c] = @ + 1]
      /\ Goto(c, "clean")
      /\ UNCHANGED <<msgs, hwVars, eventVars, holder, rc, length, cur>>

\* There is no memory for the answer, or its features do not fit: the loop is
\* left, and nobody resumes the transfer.  With the interrupt off the bus
\* stays held.
NoAnswer(c) ==
  LET m == Get(vec, index[c])
  IN  /\ cur = c
      /\ pc[c] = "loop"
      /\ ~twcr.ie => (IF c \in Masters THEN "noAnswer" ELSE "heldBus") \in Faults
      /\ m # NULL /\ msg[m].cb
      /\ Goto(c, "end")
      /\ UNCHANGED <<msg, msgs, vec, hwVars, eventVars, holder, index, rc, length, cur>>

NoCallBack(c) ==
  LET m == Get(vec, index[c])
  IN  /\ cur = c
      /\ pc[c] = "loop"
      /\ ~(m # NULL /\ msg[m].cb)
      /\ Goto(c, "clean")
      /\ UNCHANGED <<msg, msgs, vec, hwVars, eventVars, holder, index, rc, length, cur>>

\* i2c_update, unless the index is 0: the messages that are done are freed
\* first, and then the driver looks again.
LoopCleanUp(c) ==
  /\ cur = c
  /\ pc[c] = "clean"
  /\ \/ /\ index[c] > 0
        /\ CleanUp(msg, Kind(c))
        /\ index' = [index EXCEPT ![c] = @ - (vec.length - vec'.length)]
        /\ Goto(c, "looked")
     \/ /\ index[c] <= 0
        /\ Goto(c, "resume")
        /\ UNCHANGED <<msg, vec, index>>
  /\ UNCHANGED <<msgs, hwVars, eventVars, holder, rc, length, cur>>

LoopUpdate(c) ==
  /\ cur = c
  /\ pc[c] = "looked"
  /\ Update
  /\ Goto(c, "resume")
  /\ UNCHANGED <<msg, msgs, vec, busy, bufferIndex, twcr, twi, eventVars, holder, index, rc, length, cur>>

\* i2c_resume_transfer of the message at the index, whatever message that is.
Resume(c) ==
  LET m == Get(vec, index[c])
  IN  /\ cur = c
      /\ pc[c] = "resume"
      /\ m # NULL
      /\ IF msg[m].kind = "master"
         THEN /\ ptr' = [ptr EXCEPT !.master = m]
              /\ Control(TRUE, FALSE, IF twi = "heldM" THEN "rep" ELSE Released)
         ELSE ptr' = [ptr EXCEPT !.slave = m] /\ Control(FALSE, TRUE, Released)
      /\ length' = [length EXCEPT ![c] = vec.length]
      /\ Goto(c, "started")
      /\ UNCHANGED <<msg, msgs, vec, busy, bufferIndex, eventVars, holder, index, rc, cur>>

LoopEnds(c) ==
  /\ cur = c
  /\ pc[c] = "resume"
  /\ Get(vec, index[c]) = NULL
  /\ Goto(c, "end")
  /\ UNCHANGED <<msg, msgs, vec, hwVars, eventVars, holder, index, rc, length, cur>>

EndCleanUp(c) ==
  /\ cur = c
  /\ pc[c] = "end"
  /\ CleanUp(msg, Kind(c))
  /\ Goto(c, "release")
  /\ UNCHANGED <<msgs, hwVars, eventVars, holder, index, rc, length, cur>>

\* The driver looks again; i2c_release_adapter; i2cdev_flush returns.
EndUpdate(c) ==
  /\ cur = c
  /\ pc[c] = "release"
  /\ Update
  /\ holder' = IF holder = c THEN NULL ELSE holder
  /\ cur' = NULL
  /\ Returns(c)
  /\ UNCHANGED <<msg, msgs, vec, busy, bufferIndex, twcr, twi, eventVars>>

-----------------------------------------------------------------------------
(***************************************************************************)
(* The interrupt handler SIGNAL(TWI_STC_vect), one action per group of     *)
(* status codes.  The hardware raises a code where the state of the bus    *)
(* allows it, and waits until TWINT is cleared.                            *)
(***************************************************************************)

\* The hardware moves on: interrupts are on, and no thread has only a few
\* instructions to go from cleaning up and adding its messages to its wait.
BusMoves ==
  /\ twcr.ie
  /\ \A k \in Kinds : ec[k] < MaxEvents
  /\ "race" \in Faults \/ \A c \in Client : pc[c] \notin {"update", "add", "started"}

IsrKeeps == UNCHANGED <<msgs, threadVars>>

\* A message of the current transfer.
M == ptr.master
S == ptr.slave

\* I2C_MASTER_START and I2C_MASTER_REP_START: the address is sent.
MasterStart ==
  /\ BusMoves
  /\ twcr.sta /\ twi \in {"idle", "rep"}
  /\ bufferIndex' = 0
  /\ busy' = TRUE
  /\ twcr' = [twcr EXCEPT !.sta = FALSE]
  /\ twi' = IF M # NULL /\ ~msg[M].tx THEN "slar" ELSE "slaw"
  /\ IsrKeeps /\ UNCHANGED <<msg, vec, ptr, eventVars>>

\* A message of a master ends: done, or left to its call-back, for which the
\* bus is held.
MasterEnds ==
  LET ms == IF M = NULL THEN msg ELSE Marked(msg, {M})
      p  == Updated([ptr EXCEPT !.lastMaster = M], vec, ms)
  IN  \/ /\ M # NULL /\ msg[M].cb
         /\ queue["master"] \in {<<>>, SIGNALED} => "lateCallBack" \in Faults
         /\ ptr' = [ptr EXCEPT !.lastMaster = M]
         /\ SignalFromISR({"master"})
         /\ twcr' = [twcr EXCEPT !.ie = FALSE]
         /\ twi' = "heldM"
         /\ UNCHANGED <<msg, busy>>
      \/ /\ ~(M # NULL /\ msg[M].cb)
         /\ msg' = ms
         /\ ptr' = p
         /\ IF p.master # NULL
            THEN MasterControl(TRUE, TRUE, "rep") /\ UNCHANGED <<busy, eventVars>>
            ELSE /\ busy' = FALSE
                 /\ Control(FALSE, p.slave # NULL, "idle")
                 /\ SignalFromISR({"master"})

\* I2C_MT_SLA_ACK and I2C_MT_DATA_ACK.
MasterSent ==
  /\ BusMoves
  /\ twi \in {"slaw", "mt"}
  /\ \/ /\ M # NULL /\ bufferIndex < msg[M].len
        /\ bufferIndex' = bufferIndex + 1
        /\ MasterControl(FALSE, TRUE, "mt")
        /\ UNCHANGED <<msg, busy, ptr, eventVars>>
     \/ /\ ~(M # NULL /\ bufferIndex < msg[M].len)
        /\ MasterEnds
        /\ UNCHANGED bufferIndex
  /\ IsrKeeps /\ UNCHANGED vec

\* I2C_MT_SLA_NACK, I2C_MT_DATA_NACK and I2C_MR_SLA_NACK: the message is given up.
MasterRefused ==
  LET ms == IF M = NULL THEN msg ELSE Marked(msg, {M})
  IN  /\ BusMoves
      /\ twi \in {"slaw", "slar", "mt"}
      /\ msg' = ms
      /\ ptr' = Updated([ptr EXCEPT !.lastMaster = M], vec, ms)
      /\ busy' = FALSE
      /\ SignalFromISR({"master"})
      /\ Control(FALSE, ptr'.slave # NULL, "idle")
      /\ IsrKeeps /\ UNCHANGED <<vec, bufferIndex>>

\* I2C_MASTER_ARB_LOST: the transfer starts again when the bus is free.
ArbitrationLost ==
  /\ "arbitration" \in Faults
  /\ BusMoves
  /\ twi \in {"slaw", "slar", "mt", "mr"}
  /\ busy' = FALSE
  /\ twcr' = [twcr EXCEPT !.sta = TRUE]
  /\ twi' = "idle"
  /\ IsrKeeps /\ UNCHANGED <<msg, vec, ptr, bufferIndex, eventVars>>

\* I2C_MR_SLA_ACK, and I2C_MR_DATA_ACK with its byte: the last byte is not
\* acknowledged.
MasterReceives ==
  LET n == IF twi = "mr" /\ M # NULL /\ bufferIndex < msg[M].len
           THEN bufferIndex + 1 ELSE bufferIndex
  IN  /\ BusMoves
      /\ twi = "slar" \/ (twi = "mr" /\ twcr.ea)
      /\ bufferIndex' = n
      /\ MasterControl(FALSE, M # NULL /\ n + 1 < msg[M].len, "mr")
      /\ IsrKeeps /\ UNCHANGED <<msg, vec, busy, ptr, eventVars>>

\* I2C_MR_DATA_NACK.
MasterReceived ==
  /\ BusMoves
  /\ twi = "mr" /\ ~twcr.ea
  /\ MasterEnds
  /\ IsrKeeps /\ UNCHANGED <<vec, bufferIndex>>

\* Another master may address the node, on a free bus or when it wins.
Listens ==
  /\ twcr.ea
  /\ \/ twi = "idle"
     \/ twi \in {"slaw", "slar"} /\ "winner" \in Faults
  /\ \/ "lateAddress" \in Faults
     \/ \A c \in Client \ Masters : rc[c] < 0 => pc[c] \in {"closed", "open"}

Addressed == BusMoves /\ Listens

\* I2C_SR_SLAW_ACK, I2C_SR_SLAW_ARB_LOST and the general calls.
SlaveReceives ==
  /\ Addressed
  /\ bufferIndex' = 0
  /\ Control(FALSE, S # NULL /\ msg[S].len > 0, "sr")
  /\ busy' = (busy \/ (S # NULL /\ msg[S].len > 0))
  /\ IsrKeeps /\ UNCHANGED <<msg, vec, ptr, eventVars>>

\* I2C_SR_SLAW_DATA_ACK and I2C_SR_GC_DATA_ACK.  A byte too many makes the
\* length of the message 0.
SlaveReceivedByte ==
  /\ BusMoves
  /\ twi = "sr" /\ twcr.ea
  /\ \/ /\ S = NULL
        /\ Control(FALSE, FALSE, "sr")
        /\ UNCHANGED <<bufferIndex, msg>>
     \/ /\ S # NULL /\ bufferIndex < msg[S].len
        /\ bufferIndex' = bufferIndex + 1
        /\ Control(FALSE, TRUE, "sr")
        /\ UNCHANGED msg
     \/ /\ S # NULL /\ bufferIndex >= msg[S].len
        /\ "overrun" \in Faults
        /\ msg' = [msg EXCEPT ![S].len = 0]
        /\ Control(FALSE, FALSE, "sr")
        /\ UNCHANGED bufferIndex
  /\ IsrKeeps /\ UNCHANGED <<vec, busy, ptr, eventVars>>

\* I2C_SR_SLAW_DATA_NACK and I2C_SR_GC_DATA_NACK: the node is no longer
\* addressed, and sees no STOP.  A bus that is busy stays so.
SlaveRefusedByte ==
  /\ BusMoves
  /\ twi = "sr" /\ ~twcr.ea
  /\ busy => "refusal" \in Faults
  /\ Control(FALSE, FALSE, "idle")
  /\ IsrKeeps /\ UNCHANGED <<msg, vec, busy, ptr, bufferIndex, eventVars>>

\* atmega_i2c_slave_buff_end.
SlaveBuffEnd ==
  LET ms == IF S = NULL THEN msg ELSE Marked(msg, {S})
      p  == Updated([ptr EXCEPT !.lastSlave = S], vec, ms)
  IN  \/ /\ S # NULL /\ msg[S].cb
         /\ ptr' = [ptr EXCEPT !.lastSlave = S]
         /\ SignalFromISR({"slave"})
         /\ twcr' = [twcr EXCEPT !.ie = FALSE]
         /\ twi' = "heldS"
         /\ UNCHANGED <<msg, busy>>
      \/ /\ ~(S # NULL /\ msg[S].cb)
         /\ msg' = ms
         /\ ptr' = p
         /\ IF S # NULL /\ p.slave # NULL
            THEN Control(FALSE, TRUE, "idle") /\ UNCHANGED <<busy, eventVars>>
            ELSE /\ busy' = FALSE
                 /\ Control(p.master # NULL, S # NULL /\ p.master # NULL, "idle")
                 /\ SignalFromISR({"slave"})

\* FAULT: does not start the master that waits for the end of the transfer.
SlaveStopForgets ==
  /\ BusMoves
  /\ twi = "sr"
  /\ \/ /\ queue["slave"] \in {<<>>, SIGNALED}
        /\ LET ms == IF S = NULL THEN msg ELSE [msg EXCEPT ![S].cb = FALSE]
               p  == Updated([ptr EXCEPT !.lastSlave = NULL], vec, ms)
           IN  /\ Control(FALSE, FALSE, "idle")
               /\ ptr' = p
               /\ msg' = IF p.slave = NULL THEN ms ELSE Marked(ms, {p.slave})
        /\ busy' = FALSE
        /\ UNCHANGED eventVars
     \/ /\ queue["slave"] \notin {<<>>, SIGNALED}
        /\ SlaveBuffEnd
  /\ IsrKeeps /\ UNCHANGED <<vec, bufferIndex>>

\* I2C_SR_STOP.  What nobody waits for is done without call-back; but it is
\* the first message of a slave after the driver has looked again.
SlaveStop ==
  /\ BusMoves
  /\ twi = "sr"
  /\ \/ /\ queue["slave"] \in {<<>>, SIGNALED}
        /\ LET ms == IF S = NULL THEN msg ELSE [msg EXCEPT ![S].cb = FALSE]
               p  == Updated([ptr EXCEPT !.lastSlave = NULL], vec, ms)
           IN  /\ Control(p.master # NULL, FALSE, "idle")
               /\ ptr' = p
               /\ msg' = IF p.slave = NULL THEN ms ELSE Marked(ms, {p.slave})
        /\ busy' = FALSE
        /\ UNCHANGED eventVars
     \/ /\ queue["slave"] \notin {<<>>, SIGNALED}
        /\ SlaveBuffEnd
  /\ IsrKeeps /\ UNCHANGED <<vec, bufferIndex>>

\* The byte that ST_SLAR_ACK and ST_DATA_ACK put into TWDR: the message's
\* n-th or 0; the last one asks for no acknowledgement.
SendByte(n) ==
  LET more == S # NULL /\ n < msg[S].len
  IN  /\ bufferIndex' = IF more THEN n + 1 ELSE n
      /\ Control(FALSE, more /\ n + 1 < msg[S].len, "st")

\* I2C_ST_SLAR_ACK and I2C_ST_ARB_LOST.
SlaveSends ==
  /\ Addressed
  /\ busy' = TRUE
  /\ SendByte(0)
  /\ IsrKeeps /\ UNCHANGED <<msg, vec, ptr, eventVars>>

\* I2C_ST_DATA_ACK.
SlaveSentByte ==
  /\ BusMoves
  /\ twi = "st" /\ twcr.ea
  /\ SendByte(bufferIndex)
  /\ IsrKeeps /\ UNCHANGED <<msg, vec, busy, ptr, eventVars>>

\* I2C_ST_DATA_NACK and I2C_ST_LAST_DATA_ACK.
SlaveSent ==
  /\ BusMoves
  /\ twi = "st"
  /\ SlaveBuffEnd
  /\ IsrKeeps /\ UNCHANGED <<vec, bufferIndex>>

\* Any other status.
BusError ==
  /\ "busError" \in Faults
  /\ BusMoves
  /\ twi # "idle"
  /\ Control(FALSE, FALSE, "idle")
  /\ ptr' = [ptr EXCEPT !.lastMaster = NULL, !.lastSlave = NULL]
  /\ SignalFromISR(Kinds)
  /\ busy' = FALSE
  /\ IsrKeeps /\ UNCHANGED <<msg, vec, bufferIndex>>

-----------------------------------------------------------------------------
Application(c) ==
  \/ Socket(c) \/ Flush(c) \/ Close(c) \/ Error(c)
  \/ \E m \in Msg, n \in Lengths :
       Listen(c, m, n) \/ \E tx, cb \in BOOLEAN : WriteClient(c, m, tx, cb, n)

\* What __i2c_start_xfer does between its waits.
Core(c) ==
  \/ Lock(c) \/ MasterTmoUpdate(c) \/ AddMessage(c) \/ Xfer(c) \/ WaitNext(c)
  \/ MasterWoken(c) \/ MasterResumed(c) \/ SlaveWoken(c)
  \/ \E n \in Msg, tx, cb \in BOOLEAN, len \in AnswerLengths(c) : CallBack(c, n, tx, cb, len)
  \/ NoAnswer(c) \/ NoCallBack(c) \/ LoopCleanUp(c) \/ LoopUpdate(c) \/ Resume(c) \/ LoopEnds(c)
  \/ EndCleanUp(c) \/ EndUpdate(c)

Scheduler == \E k \in Kinds : PostEvent(k)

TimeOuts == \E c \in Client : EventTMO(c) \/ LockTimeout(c)

MasterBus == MasterSent \/ MasterRefused \/ MasterReceives \/ MasterReceived

SlaveBus ==
  \/ SlaveReceivedByte \/ SlaveRefusedByte \/ SlaveStop
  \/ SlaveSentByte \/ SlaveSent

OtherMaster == SlaveReceives \/ SlaveSends

Bus == MasterStart \/ MasterBus \/ SlaveBus \/ OtherMaster \/ ArbitrationLost \/ BusError

Next ==
  \/ \E c \in Client : Application(c) \/ Core(c)
  \/ Scheduler
  \/ TimeOuts
  \/ Bus

Spec == Init /\ [][Next]_i2cVars

-----------------------------------------------------------------------------
Features == [kind : Kinds, tx : BOOLEAN, cb : BOOLEAN, done : BOOLEAN, len : Lengths \cup {0}]

I2cTypeOK ==
  /\ msg \in [Msg -> Features \cup {NULL}]
  /\ msgs \in [Client -> Seq(Msg)]
  /\ vec.length \in 0 .. vec.limit
  /\ vec.data # NULL => vec.data \in [0 .. vec.limit - 1 -> Msg \cup {NULL}]
  /\ busy \in BOOLEAN
  /\ ptr \in [master : Msg \cup {NULL}, slave : Msg \cup {NULL},
              lastMaster : Msg \cup {NULL}, lastSlave : Msg \cup {NULL}]
  /\ bufferIndex \in Nat
  /\ twcr \in [sta : BOOLEAN, ea : BOOLEAN, ie : BOOLEAN]
  /\ twi \in {"idle", "slaw", "slar", "mt", "mr", "rep", "sr", "st", "heldM", "heldS"}
  /\ \A k \in Kinds : queue[k] = SIGNALED \/ queue[k] \in Seq(Client)
  /\ ec \in [Kinds -> Nat]
  /\ holder \in Client \cup {NULL}
  /\ cur \in Client \cup {NULL}

(***************************************************************************)
(* Every message that is allocated is in one place: the list of one client *)
(* or the vector, once.  Nothing is freed that can still be found there,   *)
(* and nothing is lost (i2c-core.c: i2c_add_entry, i2c_cleanup_adapter_msgs*)
(* and the call-backs; i2c-msg.c).                                         *)
(***************************************************************************)
Places(m) ==
  Cardinality({p \in Client \X (1 .. Cardinality(Msg)) :
                 p[2] <= Len(msgs[p[1]]) /\ msgs[p[1]][p[2]] = m})
  + Cardinality({i \in 0 .. vec.length - 1 : vec.data[i] = m})

OnePlace == \A m \in Msg : Places(m) = IF msg[m] = NULL THEN 0 ELSE 1

(***************************************************************************)
(* The interrupt handler finds the message of the transfer: what it uses   *)
(* in a master transfer, as an addressed slave, or when it may be          *)
(* addressed, is not freed.                                                *)
(***************************************************************************)
Live(m) == m # NULL => msg[m] # NULL

InUse ==
  BusMoves =>
    /\ twcr.sta \/ twi \in {"slaw", "slar", "mt", "mr"} => M # NULL /\ Live(M)
    /\ Listens \/ twi \in {"sr", "st"} => Live(S)

(***************************************************************************)
(* The transfer of a master client that waits has not stopped: its event   *)
(* is counted; or interrupts are on, and either its START is requested, or *)
(* the node is the master of a transfer, or another master writes to the   *)
(* node or reads from it, and the end of that finds a message to start     *)
(* (I2C_SR_STOP, atmega_i2c_slave_buff_end).  With the faults refusal,     *)
(* lateCallBack and noAnswer it does not hold.                             *)
(***************************************************************************)
MasterServed ==
  \A c \in Masters :
    pc[c] = "wait" /\ ec["master"] = 0 =>
      /\ twcr.ie
      /\ \/ twcr.sta
         \/ twi \in {"slaw", "slar", "mt", "mr"}
         \/ twi \in {"sr", "st"} /\ First(vec, msg, "master") # NULL

(***************************************************************************)
(* Of a master that finds the bus busy i2c_master_transfer says            *)
(* (atmega-i2c.c:380) that the driver "will be called by the ISR": once    *)
(* the hardware rests, its START is requested.  It does not hold with the  *)
(* fault refusal (atmega-i2c.c:799-802).                                   *)
(***************************************************************************)
BusyIsStarted ==
  \A c \in Masters :
    pc[c] = "wait" /\ ec["master"] = 0 /\ busy /\ twi = "idle" => twcr.sta

(***************************************************************************)
(* No message of a master is sent twice: the one a START or a repeated     *)
(* START sends is not done, whatever was refused, lost, resumed by a       *)
(* call-back or given up before (atmega_i2c_update, i2c_resume_transfer).  *)
(***************************************************************************)
SentOnce == twi \in {"slaw", "slar"} => ~(M # NULL /\ msg[M].done)
=============================================================================
