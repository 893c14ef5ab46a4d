# BermudaOS in TLA+

BermudaOS is a small cooperative operating system for the ATmega328
(Arduino).  This directory holds a formal model of it: TLA+ modules translated
from the C source, TLC configurations that model-check them on small instances,
and TLAPS proofs for instances of any size.  `PROJECT.json` lists the runs, the
source lines of every definition, a known-bad variant of the code for every
property, the divergences that were found and the hazards the properties are
aimed at.  The repository has no test-suite; its documentation is the comments
in the source.

Run the checks from this directory, e.g. `tlc -config MCKernel.cfg MCKernel`
and `tlapm KernelProofs.tla`.  Paths below are relative to the repository.

## 1. Inventory

### 1.1 Parts of the system

| Part | State | Operations | Talks to |
|---|---|---|---|
| Thread lists (`src/sys/sched.c` 161-244) | chain of `THREAD` through `next`, `ec` and `queue` of each thread | `BermudaThreadPrioQueueAdd`, `...QueueRemove` | used for the run queue and all event queues |
| Scheduler (`src/sys/sched.c`) | `BermudaRunQueue`, `BermudaCurrentThread` | `BermudaSchedulerInit`, `...Exec`, idle thread | posts events, runs timers |
| Context switch (`src/arch/avr/stack.c`, `task_switch.S`) | registers, the stack of each thread, the field `sp` | `BermudaSwitchTask`, `BermudaStackInit`, `...Save` | scheduler |
| Threads (`src/sys/thread.c`) | `state`, `prio`, `th_timer`, the list `BermudaThreadHead`, the kill queue | create, yield, sleep, wait, notify, set priority, exit, free, find by name | scheduler, timers, heap |
| Events (`src/sys/events/event.c`) | queue heads: `NULL`, `SIGNALED` or waiting threads | wait, wait-next, signal, signal from an interrupt, time-out | scheduler, timers, interrupt handlers |
| Virtual timers (`src/sys/virt_timer.c`) | list of timers with tick differences | create, stop, add, process | callbacks into threads and events |
| Heap (`src/sys/mem.c`) | free list ordered by address | alloc, realloc, free | everybody |
| Devices (`src/dev/devreg.c`) | list of devices, a lock (event queue) each | register, unregister, look up, alloc, release, open | drivers |
| Files (`src/fs/vfs.c`, `src/lib/c/stdio/open.c`) | table `__iob` of open files, list of named files | open, close, sockets, mode, add, delete | drivers |
| Streams (`src/lib/c/stdio`) | flags and length of a stream | fputc, fwrite, printf, read and their variants | files, USART |
| ADC (`src/arch/avr/adc.c`) | lock, completion queue, registers | convert, interrupt | events |
| USART (`src/dev/usart`) | `rx`, `rx_len`, receive queue | read, write, interrupt, set-up | events, streams |
| SPI (`src/dev/spi`) | adapter lock, buffers of the clients, clock divider | socket, write, read, flush, transfer | device lock, files |
| I2C files and core (`src/dev/i2c/i2c-*.c`) | message vector, messages of each client, lock of the adapter | write, read, listen, flush, close, call-backs, clean-up | bus driver, events |
| I2C bus (`src/dev/i2c/busses/atmega-i2c.c`) | the transfer of the TWI interrupt handler | master and slave transfer, time-outs, interrupt | I2C core, events |
| Serial memories (`src/lib/spiram.c`, `24c02.c`) | one client each, the bytes of a call | read and write a byte | SPI, I2C |
| Network core (`src/net`) | device list, packet queues, token buckets | register a device, process a queue, transmit, VLAN tags | two threads of its own |
| Lists (`src/sys/epl.c`, `src/lib/list.c`, `xorlist.c`) | nodes, heads, counts | add, delete, find, fix | heap |
| C library (`src/lib/c`, `src/lib/out.cpp`, `byte_order.c`) | none: functions | conversions, formats, memory, strings, byte orders | streams |
| Board I/O, hardware timers (`arduino-io.c`, `328-timer.c`) | port and timer registers | pin mode, write, read; timer init, enable, disable, ISR, top | tick interrupt |
| Boot, PWM, sensors, C++ support | none worth modelling (section 7) | | |

### 1.2 How the parts interact, and what is hard

* **One processor, cooperative threads.** The processor changes hands only in
  `BermudaSwitchTask`, which `BermudaSchedulerExec` and `BermudaThreadSetPrio`
  call.  No thread is preempted by another thread.
* **Interrupt handlers** preempt the running thread at any instruction outside a
  critical section.  In the kernel they touch event queues only, through
  `BermudaEventSignalFromISR`: they store `SIGNALED` in an empty queue or count
  the event in `ec` of the first waiting thread.  They never link or unlink a
  thread.  The kernel reads a queue in one critical section and changes it in
  another, so what a thread has read may be out of date when it acts.
* **Deferred delivery.** The events counted in `ec` are delivered by the next
  `BermudaSchedulerExec`, whichever thread calls it.  The counts must travel
  with the head of the queue when threads join, leave and time out.
* **Timers** run inside `BermudaSchedulerExec`, between the delivery of events
  and the switch.  An event and the time-out of the same wait race.
* **One link field.** `t->next` serves the run queue and the event queues, so
  that a thread in two lists at once corrupts both.
* **Blocking without a switch.** The thread that blocks runs the scheduler
  itself and may find itself ready again before the switch.
* **Start, then wait.** The drivers start the hardware and then call
  `BermudaEventWaitNext`, which drops an event that is stored: whatever completes
  in between is missed (ADC, USART, I2C).
* **The handler of the TWI does the work.** It walks the message vector of the
  adapter, marks messages as done and starts the next one, while threads add
  messages, move them, give up on time-outs and free what is done.  What a thread
  frees may still be what the handler writes into.
* **Calls that go on after a time-out.** The ADC ignores that the wait for its
  mutex failed; I2C calls tidy up messages that the bus may still use.
* **Static clients and buffers.** A memory driver keeps one client for all its
  callers, and a USART read keeps its own variable in the bus: two callers at a
  time meet in them.

### 1.3 What makes each part correct

* Lists: order of importance, first come, first served among equals, a thread in
  one list only, event counts at the head.
* Scheduler: the most important ready thread runs, equally important threads
  take turns, the run queue is never empty.
* Switch: a thread finds its registers, its stack and its interrupt flag as it
  left them; no freed thread runs again.
* Threads: a thread off the run queue can always get back.
* Events: no event lost, duplicated or given to the wrong thread; a wait fails
  only when its own time-out elapsed; posted events wake somebody.
* Device locks: mutual exclusion, and the one event of a lock is never lost.
* Timers: a timer elapses at its tick, whatever is added or stopped.
* Heap: the blocks tile the heap, neighbours are merged, nothing is lost.
* Files: a descriptor leads to the stream it was opened for.
* ADC, USART: an answer belongs to the call that gets it, and each call returns.
* SPI: one owner of the bus, who gives it on.
* I2C: a message is in one place and sent once, what the bus uses is not freed,
  and a master that waits is served.
* Memories, streams, pins: what was written is what the hardware holds.
* Network: segments are bought once, in order, and within the token budget.

The `hazards` of `PROJECT.json` name, at its source line, everything found in
these parts that is hard to test.

## 2. Plan of the project

| Part | Modules | Abstract specification | Proofs |
|---|---|---|---|
| Kernel | `ThreadQueue`, `Kernel`, `KernelEvents` | `EventSpec`: event queues that lose nothing | `ThreadQueueProofs`, `KernelProofs` |
| Device lock, over the kernel | `DeviceLock` | the one event of a mutex | `DeviceLockProofs` |
| Timers | `VirtTimer` | `TimerSpec`: absolute deadlines | `VirtTimerProofs` |
| Heap | `Heap` | `HeapSpec`: disjoint regions | `HeapProofs` |
| I2C: files, core, vector and bus | `I2cBus` over `I2cVector` | | `I2cProofs` |
| Drivers over event queues | `EventQueue`, `Adc`, `Serial`, `Spi` over `Files` | | `DriverProofs` |
| Lists | `Epl`, `XorList`, `LinkedList`, `Registry` over `Pointers`, `MsgVector` | `ListSpec`: a sequence without repetition | `ListProofs`, `DriverProofs` (`MsgVector`) |
| The rest | `Context`, `Network`, `Library`, `Stdio`, `SerialMemory`, `Board` | | `DriverProofs` (all but `Library`), types in `ListProofs` |
| Composition | `Devices`: all parts of the last three rows | | |

The kernel comes first because everything else waits, sleeps and locks through
it.  `DeviceLock` composes the lock with the whole kernel.  The drivers use event
queues as values (`EventQueue`), which is `EventSpec` seen from one caller: what
the kernel is shown to implement.  Each instance for TLC is a module `MC...`.

## 3. The modules

**`ThreadQueue`** - the lists as sequences of threads and the operators for
what the two list functions return: the place of a thread (`PrioPlace`), the
list with it (`Added`) or without it (`Removed`, `Released`), and what happens
to the event counts (`TakeOver`, `PassOn`).  The `next` pointers are abstracted
to the order of the sequence; `SIGNALED` is the marker `(THREAD*)-1`.

**`Kernel`** - `sched.c`, `thread.c` and `event.c` together.  Variables are the
globals and the fields of `THREAD`; `pc` is the place of the running thread in
kernel code, `wq`, `tmo`, `up` and `scan` are the locals that survive from one
critical section to the next, and `cont` is what a thread that was switched out
does when `BermudaSwitchTask` returns.  An action reaches from one critical
section *on data that interrupt handlers share* to the next: steps on the run
queue alone need no place of their own, because nobody else can see them.

| Code | Actions |
|---|---|
| `BermudaEventWait`, `...WaitNext` | `EventWait`, `EventWaitNext`, `WaitRead`, `ConsumeEvent`, `BlockFirst`, `BlockBehind`, `LinkWaiter`, `CallReturn` |
| `BermudaEventSignal`, `...SignalRaw` | `EventSignal`, `SignalRead`, `SignalPop`, `SignalStore` |
| `BermudaEventSignalFromISR` | `SignalFromISR` |
| `BermudaThreadYield`, `Sleep`, `Wait`, `Notify`, `SetPrio`, `Create` | `CallYield`/`ThreadYield`, `ThreadSleep`, `ThreadWait`, `ThreadNotify`, `ThreadSetPrio`, `ThreadCreate` |
| `BermudaSchedulerExec` | `ScanThread`, `PostEvent`, `ThreadTimeout`, `EventTMO`, `SwitchTask` |

Two situations the environment creates are constants: `Prios`, the priorities
threads ask for, and `NotifySleepers`, whether `BermudaThreadNotify` is called
on threads that sleep or wait for an event.  The second corrupts the lists
(section 5), so all other runs and the theorems take it to be `FALSE`, i.e.
they notify only threads that called `BermudaThreadWait` (or are ready).
Threads ask for priorities above that of the idle thread only (`KernelConstants`):
`BermudaThreadSetPrio(BERMUDA_LOWEST_PRIO)` does not set a priority but calls
`BermudaThreadExit`.

**`EventSpec`** - what an event queue promises: `Post`, `Take`, `Join`, `Wake`,
`Deliver`, `Expire`, with no critical sections, run queue or scheduler.
**`KernelEvents`** - the refinement mapping from `Kernel` to `EventSpec`: the
pending events of a queue are the marker, or the count at its head plus the one
the scheduler has taken off and not delivered yet (`InFlight`).

**`DeviceLock`** - `BermudaDeviceAlloc` and `BermudaDeviceRelease` on top of
`Kernel`: which thread wants and which holds each device.  SPI, I2C, ADC and
USART all lock in this way.

**`VirtTimer`** - `virt_timer.c`: the list of timers with the differences of
their deadlines (`left`), the tick counter that the interrupt handler advances at
any time and that wraps at `Wrap`, and `BermudaTimerProcess` as one step per turn
of its loop, so that ticks arrive while it works.

| Code | Actions |
|---|---|
| `BermudaTimerCreate` with `BermudaTimerAdd` | `TimerCreate`, `TimerAdd` |
| `BermudaTimerStop` | `TimerStop` |
| `BermudaTimerProcess` | `TimerProcess` (the ticks since the last call), `Distribute`, `Elapse`, `ProcessReturns` |
| tick interrupt of `arch/avr/328/328-timer.c` | `SysTick` |

The call-backs of the repository link a thread and leave the timers alone; what
they do to the thread is in `Kernel` (`ThreadTimeout`, `EventTMO`), and the
pointer to a one-shot is forgotten when it elapses.  So a timer is
stopped only before it elapses, by the thread that created it.

**`TimerSpec`** - what timers promise: each has a deadline of its own, and a
call elapses them in the order of their deadlines, none early, and all whose
deadline was over before the tick of the call.  The refinement mapping is at the
end of `VirtTimer`: the deadline of a timer is the sum of the differences up to
it, less the ticks that are not distributed yet.

**`Heap`** - `mem.c` at the level of addresses and `next` pointers.  Its three
loops are stepwise; `c`, `prev` and `node` are their cursors.

| Code | Actions |
|---|---|
| `BermudaHeapAlloc`, `...UseBlock`, `...SplitNode` | `HeapAlloc`, `SearchNext`, `UseWhole`, `Split`, `OutOfMemory` |
| `realloc` | `Realloc`, the search, `ReallocFrees` |
| `BermudaHeapFree`, `...NodeReturn` | `Free`, `PlaceFirst`, `PlaceNext`, `PlaceBehind`, `PlaceNowhere` |
| `BermudaHeapFree`, `...MergeNode` | `MergeNext`, `MergeNode`, `FreeReturns` |

`magic` is `"none"` where no block starts; the header that a merge swallows
becomes part of the block.  `next` of a block outside the list is never read and
is `NULL` here.  `out` is a history variable: the blocks that `BermudaHeapFree`
was given and that are in no list (yet).  `BermudaMutexEnter` never sets its bit
(`src/arch/avr/io.c:41-44`), so `mem_lock` excludes nobody and a `realloc` that
calls `malloc` does not block itself; the heap is safe because threads are
cooperative and no interrupt handler uses it.  For this reason one call at a time
is the whole of the concurrency.

**`HeapSpec`** - what callers are promised: regions apart from one another and
from all headers, inside the heap, at least as long as asked for.

**`I2cVector`** - `i2c-msg.c`: the vector of messages of an adapter as a record of
array, length and limit, with the operators that grow, shift, insert and delete.
**`MsgVector`** drives it alone, with messages of both roles as they come and
deletions anywhere.

**`I2cBus`** - `i2c-dev.c`, `i2c-core.c` and `atmega-i2c.c` over the TWI hardware.
`pc` is the place of each client in `__i2c_start_xfer`, `cur` the client whose
thread runs there; the interrupt handler runs between any two of its steps.
`twi` is what the hardware does, `twcr` the bits of the control register.

| Code | Actions |
|---|---|
| `i2cdev_socket`, `write`, `read`, `listen`, `flush`, `close`, `error` | `Socket`, `WriteClient`, `Listen`, `Flush`, `Close`, `Error` |
| `i2c_lock_adapter`, `i2c_master_tmo`, `i2c_slave_tmo` | `Lock`, `LockTimeout`, `MasterTmoUpdate`, `SlaveTmo` in `Flush` and `Listen` |
| `__i2c_start_xfer`: adding, starting, waiting | `AddMessage`, `Xfer`, `WaitNext` |
| back from the wait: `i2c_init_transfer`, `i2c_resume_transfer`, `atmega_i2c_slave_listen` | `MasterWoken`, `MasterResumed`, `SlaveWoken` |
| `i2c_call_client`, and the loop around it | `CallBack`, `NoAnswer`, `NoCallBack`, `LoopCleanUp`, `LoopUpdate`, `Resume`, `LoopEnds` |
| `i2c_cleanup_adapter_msgs`, `i2c_release_adapter` | `EndCleanUp`, `EndUpdate` |
| event queues and time-outs of the two roles | `PostEvent`, `EventTMO` |
| `SIGNAL(TWI_STC_vect)` by status | `MasterStart`, `MasterSent`, `MasterRefused`, `MasterReceives`, `MasterReceived`, `ArbitrationLost`, `SlaveReceives`, `SlaveReceivedByte`, `SlaveRefusedByte`, `SlaveStop`, `SlaveSends`, `SlaveSentByte`, `SlaveSent`, `BusError` |

The code does not survive everything that can happen on the bus.  What may go wrong
is the constant `Faults`, so that the run shows exactly under which faults the
properties hold (section 4).

**`EventQueue`** - event queues as values: the waiting threads of one priority and
the events stored or counted, with the operations of `event.c`.

**`Adc`**, **`Serial`** - conversion and reading against their interrupts.

| Code | Actions |
|---|---|
| `BermudaADCConvert` | `AdcCall`, `AdcOff`, `AdcStart`, `AdcWait`, `AdcRead`, with the time-outs `AdcMutexTmo`, `AdcConvTmo` |
| `SIGNAL(ADC_CC_vect)`, `BermudaAdcDisable` | `AdcComplete`, `AdcDisable` |
| `usart_read`, `BermudaUsartReadByte` | `SerRead`, `SerReadByte`, `SerWait`, `SerStop` |
| `BermudaUsartISR`, the line | `SerInterrupt`, `SerReceive` |
| the scheduler delivers an event | `AdcEvent`, `SerEvent` |

**`Files`** - the table of open files, the list of named files and sockets:
`Open`, `Socket`, `Close`, `Mode`, `VfsAdd`, `VfsDelete`.
**`Spi`** - the SPI bus used through such sockets and through `dev->alloc`: each task
writes or reads (`SpiWrite`, `SpiRead` give its client a buffer), flushes
(`SpiFlush`, `SpiXfer`, `SpiLockTmo`), or takes the bus for itself (`SpiAlloc`,
`SpiRelease`, `SpiAllocTmo`).

**`ListSpec`** - what every linked list promises.  **`Epl`** (`epl.c`), **`XorList`**
(`xorlist.c`), **`LinkedList`** (`list.c`) and **`Registry`** (`devreg.c`) compute on heads
and pointers as the code does, and each is shown to implement `ListSpec` with its
walk from the head (`WalkFrom` of **`Pointers`**) as the mapping.  In `XorList` an address is a set of one node
and the exclusive or the symmetric difference.

**`Context`** - the switch of threads at the level of registers and cells of the
stacks: `StackInit`, `SwitchTask` with the frame that `task_switch.S` pushes and
pops, `Resume`, and the end of threads (`ThreadExit`, the kill queue, `Freed`).
Which thread is ready is `Kernel`'s business; here threads block and are made
ready at any time.

**`Network`** - `dev.c` and `tokenbucket.c`: `NetifInit`, `NetifInitDev`, the two
processors (`Look`, `Found`, `Woken`) with `StartXmit`, and `CashTokens`.
Packets come from outside (`Enqueue`).

**`Library`** - pure functions, each called with bounded inputs (`Call`) and compared
in `Computed` with what it is for: numbers to digits and back, fixed-point output,
format strings, `memcpy` over overlapping and unaligned regions, string searches and
comparisons, byte orders, VLAN tags, the baud rate, the TWI prescaler and bit rate.
**`Stdio`** - the calls that write and read through the stream of the serial port,
with their flags, counts and results.
**`SerialMemory`** - `spiram.c` and `24c02.c` down to the bytes of their sequences, with
threads that wait for the bus in between.
**`Board`** - pins and timers as the bits of their registers.

**`Devices`** - the parts without a run of their own as one system, for one run and
for the proofs.  They share no state, so that interleaving them would add nothing but
states: the variable `part` says which of them a behaviour exercises, and the others
keep their initial values.  (`pins` and `timers` are two parts of `Board`, whose
registers are apart.)  The parts that do share state are modelled together: the whole
kernel in `Kernel`, the lock over it in `DeviceLock`, files and SPI in `Spi`, files,
core and bus driver in `I2cBus`, both clients of the memories in `SerialMemory`.

**`ThreadQueueProofs`, `KernelProofs`, `DeviceLockProofs`, `VirtTimerProofs`,
`HeapProofs`, `I2cProofs`, `DriverProofs`, `ListProofs`** - the theorems.
**`MCKernel`, `MCDeviceLock`, `MCVirtTimer`, `MCHeap`, `MCI2c`, `MCDevices`** - the
instances for TLC.

Definitions marked `FAULT` are deliberately wrong variants of the definition
behind them; no specification uses them.

### Abstractions

* `BermudaSwitchTask` is atomic in `Kernel`, where `cont` alone stands for stacks and
  registers; `Context` models these.
* Time: in `Kernel`, an armed timer may elapse in any call of
  `BermudaTimerProcess`.  This allows more behaviours than the tick counts do,
  which `VirtTimer` models.  The waits of the drivers time out at any time.
* Heap: the contents of blocks, the sum `BermudaHeapAvailable`, and requests
  larger than all memory (`NULL` at once) are left out.  Blocks are freed once, by
  their holder.  One call of `BermudaHeapInitBlock` makes the heap
  (`src/arch/avr/arduino/init.c:69`).
* Memory: allocation succeeds.  `BermudaHeapAlloc` does not return otherwise
  (`src/sys/mem.c:71-76` calls `_exit`), so the branch of `BermudaThreadSleep`
  without a timer is dead.  `Stdio` and `SerialMemory` keep the branches for `NULL`.
* `ec` has the width `EcMax` and wraps.  The runs bound the interrupts by
  `MaxIsr` below `EcMax`, so no run loses 256 events at once; see the hazards.
* Data: bytes on the I2C bus, addresses and layouts of transmissions are left out, as
  the bus driver does not look at them; bytes of the serial port are numbered; a
  sample of the converter is known by its pin.
* Threads of the drivers have one priority and interleave where they wait: between two
  waits, only interrupt handlers run.

## 4. Runs

| Run | Instance | Question | Properties |
|---|---|---|---|
| `kernel` | 3 threads (two equal, one more important) + idle, 1 queue, 2 interrupts, 1 lower priority | do lists, timers, event counts stay consistent? | `TypeOK`, `OneList`, `EventsAtHead`, `CanResume`, `IdleLast`, `ListsInOrder`, `FirstComeFirstServed` |
| `kernel_events` | 2 threads + idle, 2 queues, 2 interrupts, 2 priorities | does the kernel implement `EventSpec`? | `ImplementsEvents` |
| `kernel_live` | 2 equal threads + idle, 1 queue, 2 interrupts | do events wake, do waits end, does everybody run? | `PostedEventWakes`, `TimedWaitEnds`, `ReadyRuns` |
| `device_lock` | 2 equal threads + idle, 1 device, 1 other queue, 1 interrupt | is the one event of the lock always in one place, is the lock obtained? | `OneEvent`, `AllocSucceeds` |
| `timers` | 3 timers of 0 or 2 ticks, one-shot or periodic, a tick counter that wraps at 5, calls at most 2 ticks late | do the differences keep every deadline? | `ListIsHeap`, `ImplementsTimers`, `OneShotElapses` |
| `timer_zero` | as `timers` | does a timer elapse when its ticks reach 0? | `ElapsesAtZero` (violated) |
| `heap` | 14 cells, header 2, least remainder 1, sizes 0 to 3 | is memory conserved, merged, and kept apart? | `HeapTypeOK`, `Tiled`, `ListInOrder`, `Coalesced`, `ImplementsHeap`, `CallsEnd` |
| `heap_lost` | as `heap`, sizes 1 to 3 | is every freed block put back? | `PutBack` (violated) |
| `notify` | as `kernel_events`, `NotifySleepers` | may a thread that waits for an event be notified? | `OneList` (violated) |
| `i2c` | 2 masters, 1 slave, 3 messages of 2 bytes, 2 queued by each client, call-backs, a vector that starts with 2 entries, five faults | is no message lost, freed in use or sent twice, does the transfer of a waiting master never stop? | `I2cTypeOK`, `OnePlace`, `InUse`, `MasterServed`, `SentOnce` |
| `i2c_stuck` | as `i2c`, with the faults `arbitration`, `winner`, `refusal` | does the interrupt handler start a master that found the bus busy? | `BusyIsStarted` (violated) |
| `devices` | 2-4 threads, 2 pins, 2 descriptors, 3-4 nodes, 3 packets, ... for each part (below) | do the drivers, the switch, the lists and the library do what they promise? | `DevicesTypeOK`, `ResumesOwn`, `Computed`, `PaidInOrder`, `OwnSample`, `ReadsFirst`, `OwnStream`, `OneOwner`, `MastersFirst`, `DriversKeep`, `ListsImplement`, `ConvertReturns`, `ReadReturns` |

**Bounds of the kernel.** Two waiters and a thread that signals are the smallest
number for which joining in front, in the middle and behind, and leaving from head and
tail, all happen; three threads of two priorities give both orders among equals
and across priorities.  Two interrupts suffice for an event counted while
another one is being delivered, which is the most any critical section of the
kernel can be caught between; `EcMax` is then never reached.  Two queues show
that a thread which leaves one queue takes nothing into another.  Nothing else
is bounded: threads call the kernel for ever.  The threads of equal priority are
interchangeable (`SYMMETRY`) in the runs without liveness.

**Timers and heap.** Three timers are the smallest list with a first, a middle and a
last one; ticks of 0 and 2 with calls up to `MaxLag` = 2 late give equal deadlines,
timers with nothing left in the list, periods that are over twice in one call, and
insertion before, between and behind; the counter wraps every few ticks.  The 14 cells
of the heap hold up to four blocks of one cell or more (seven of none), so that
a block is freed between two free neighbours, beside one and beside none, at
every place of the list, and a request meets a block that fits exactly, is too
small to split by one cell, and can just be split.  `CHECK_DEADLOCK FALSE` is set for
the heap only: `OutOfMemory` stops the system (`_exit`), and it really does.

**I2C.** Three messages are the fewest for which a client has one on the bus, one that
waits and the answer of a call-back; with a limit of 2 the vector grows and shifts.
Messages of 2 bytes have a first and a last byte.  Two masters contend for the lock
and lose arbitration to a third party; the slave and the masters use the bus in turns.
Messages, and the masters, are interchangeable.  The run has the faults `arbitration`
(the bus is lost and the transfer starts again), `winner` (and the node is addressed),
`busError`, `lockTmo` and `masterTmo` (waits time out).  The other faults are those the
code does not survive; adding one to `SomeFaults` of `MCI2c` shows it:

| Fault | What goes wrong |
|---|---|
| `race`: the bus moves between the start of a transfer and the wait for it | `MasterServed`: the event is dropped and the master waits for ever |
| `refusal`: a byte that another master writes is refused on a busy bus | `MasterServed`: the hardware is idle, `adapter->busy` stays set, and no START is requested (section 5) |
| `lateCallBack`: a message of a master calls back when its wait has timed out, or the wait times out before the call-back runs | `MasterServed`: the interrupt stays off and the bus held, as nobody answers; the next master finds the adapter busy and does not start |
| `noAnswer`: a master finds no memory for the answer to a call-back on a held bus | `MasterServed`: the same |
| `lateAddress`, `lateTmo`: a slave is addressed while it tidies up, or times out in a transfer | `InUse`: the handler writes into a freed message |
| `resumeTmo`: the wait for the answer to a call-back times out | `InUse`: the message of a START that is still requested is freed |
| `shared`: masters and slaves do not take turns | `InUse` |
| `overrun`: a master writes more than the buffer holds | deadlock: the node no longer answers to its address, and the slave waits for ever |
| `emptyAnswer`, `heldBus`: a call-back of a slave fails, or gets no memory | deadlock: the node no longer answers, or the interrupt stays off |

`MasterServed` says what the wait of a master rests on: an event that is counted; or,
with the interrupt on, a START that is requested, a master transfer on the bus, or a
transfer in which another master addresses the node, while the vector holds a message of
a master, which the handler starts when that transfer ends (`I2C_SR_STOP`,
`atmega_i2c_slave_buff_end`).  A busy adapter alone is not enough: with
`refusal`, `lateCallBack` and `noAnswer` it stays busy with nothing to end it, and a
master leaves its wait only by its time-out.  `I2cTypeOK`, `OnePlace`, `InUse` and
`SentOnce` hold with these three as well; the theorems say so, and the run, which checks
all five with one set of faults, does not.

Nor does it survive a second slave client: it starts with `i2c_slave_tmo`, which deletes
the messages of all slaves, and `InUse` fails when the bus is using one of them.

**Devices.** Two threads at the converter, with two pins, are one that converts and
one in the queue of the mutex (`OwnSample` is proved for any number); two readers take one or two bytes each, numbered modulo
4 as the receive buffer holds 2; three tasks with two descriptors besides the standard
ones meet a full table, and three clock rates lie about the thresholds of the
divider.  Lists have 3 or 4 nodes, so that an operation in the middle has neighbours on both
sides; the vector gets three messages of each role.  Three packets, one in two
segments and one too large, are paid from a bucket that rolls over at 4.  Four threads
of three priorities switch, end and are freed with two values in each register.
The functions of the library are called over words of 7 bits, arguments of 4 bits, a
memory of 13 bytes, which has room for unaligned heads and tails on both sides of a
word, and the baud and bit rates of the serial and TWI ports.  The memory has the
addresses 1 and 256, whose bytes differ in both halves.
Constants that are `FALSE` in the run name what the code does not prevent; each
breaks the property named when it is set to `TRUE`: `AdcFast` (a conversion ends before its
thread waits: `ConvertReturns`), `SerFast` (a byte arrives before its reader waits:
`ReadReturns`), `SerShared` (two readers: `ReadsFirst`), `FileShared` (a named file is
opened twice: `OwnStream`), `ListMiddle` (a node other than the first is deleted from
the list of `list.c`: `ListsImplement`), `RamShared` (two threads use the static client of
the RAM: `DriversKeep`).  `OwnSample` and `ConvertReturns` are stated up to the first
time-out, after which the ADC driver goes on without its mutex.

**Fairness.**  `FairSpec` of `Kernel`: weak fairness of `KernelStep`: the code of the
running thread goes on.  Weak fairness of `AppCall`: a cooperative kernel relies
on every thread to call it again.  Strong fairness of each timer: the processor
passes `BermudaTimerProcess` again and again and the tick count grows, so that a
timer which stays armed reaches zero; no one step is ever continuously enabled
there, which is why weak fairness would not do.  Nothing is assumed of interrupt
handlers.  For the timers: the tick interrupt
comes again and again, and the threads call the scheduler again and again; for the
heap: the loop that runs goes on.  `ReadyRuns` is stated for equally important threads, as a more important
one may keep the processor for ever by design.  `LockFairness` adds that whoever
got a device releases it sooner or later; `AllocSucceeds` further assumes
(`HoldersGoOn`) that a holder does not wait for ever for something else.
`AdcFairness` and `SerFairness` of `Devices`: the scheduler runs each thread that is
ready, a conversion ends, the receive interrupt is served, and bytes keep arriving
while the receiver is on; time-outs need not happen.

## 5. What the runs found

* `timer_zero`: `src/include/sys/virt_timer.h` documents `ticks_left` as the
  ticks until the handle is called.  The loop of `BermudaTimerProcess` ends when the
  ticks are used up, although the next timer has nothing left either; it elapses
  with the next tick.  `TimerSpec` therefore promises only that timers whose
  deadline was *before* the tick of the call have elapsed.
* `heap_lost`: `src/sys/mem.c:261` says the block is put back in the list.
  When the list is empty, `BermudaHeapNodeReturn` finds no place, and the block, which
  is already marked free, cannot be freed again: it is lost for good.
* `notify`: `src/sys/thread.c:239` says `BermudaThreadNotify` may be called on
  threads that wait for an event.  The code links such a thread into the run queue
  while it is still in the event queue and its timer is armed.
* `i2c_stuck`: `src/src/dev/i2c/busses/atmega-i2c.c:380` says that the driver looks for
  its messages from the interrupt handler when a master finds the bus busy.  A master
  that loses arbitration to one that addresses the node clears its request for a START.
  With no slave message the handler refuses the bytes (`:775-777`), and when one is refused
  (`:799-802`) the hardware leaves the transfer: no STOP is reported, `adapter->busy` stays
  `TRUE` and nothing requests the START again.  The master times out, and so does
  every later one, which finds the adapter busy (`:378`).

Besides what the fault constants of section 4 show, the following differences between
the code and what it says, or plainly means, came up while modelling and have no run of
their own.  The models follow the code.

* Scheduler: a thread that is woken by the very `BermudaSchedulerExec` that blocks it is
  still `BermudaCurrentThread`, no switch takes place (`src/sys/sched.c:302`), and it goes on
  in the state `THREAD_READY`, not in `THREAD_RUNNING` (`src/include/sys/thread.h:112`).
* Heap: `src/sys/mem.c:43` promises `NULL` when no block fits, and the code calls
  `_exit`; a block of size 0, which `malloc(0)` hands out, is never taken back (`:265`).
* Devices: `BermudaDeviceUnregister` looks up the device itself in the place of its name
  (`src/dev/devreg.c:75`).
* SPI: `SPI_1MHZ` is 10000000 (`src/include/dev/spi/spi.h:55`); the name of a socket is
  not initialised (`src/dev/spi/spi-dev.c:47-53`).
* I2C: the bits of the prescaler are swapped (`busses/atmega-i2c.c:247`); the vector is
  shrunk on a condition that never holds (`i2c-msg.c:359`).
* USART: the documented 500 ms are a wait without limit (`busses/atmega-usart.c:247`);
  products of 16 bits wrap in the computation of the baud rate (`:279`); the name of an
  empty slot is compared (`:195`).
* C library: a lone `%` at the end of a format (`vfprintf.c:41`); `printf` returns the
  length of the stream since the start, not of the text.
* Timers of the hardware: the compare modes clear the other half of the register
  (`328-timer.c:193`), `WGM02` is taken from bit 0 (`:213`), the top of 250 gives 996 Hz
  (`:69`), timer 2 without memory is written at address 0 (`:95`).
* Interrupts: `BermudaIntsRestore` has no effect (`328/io.h:88`), `BermudaSetPinMode`
  always enables interrupts (`arduino-io.c:54`, `:61`), and the table of ports has no
  entry for pin 19 (`:32`).
* Lists: `list.c:130-133` does not move the head to a node added in front, `:192`
  unlinks every node from the head.
* Network: a packet larger than the MTU stays at the head of its queue for ever; a
  segment without tokens replaces the packet of the last entry (`dev.c:381-383`); the
  type of an entry is read when there is none (`:195-200`).
* EEPROM: a read that fails on the bus returns 0, as one that succeeds may
  (`24c02.c`).

## 6. Proofs

`ThreadQueueProofs` proves about the operators, for all lists: where
`PrioInsert` puts a thread, that it keeps the order (`PrioInsertInOrder`), which
threads a list has after each operation, and that a thread which joins
(`WaiterAdded`) or leaves (`WaiterReleased`) an event queue leaves every count
at the first thread of that queue.

`KernelProofs` proves, for any finite or infinite set of threads and queues, any
`EcMax`, `MaxIsr` and priorities,

    NotifySleepers = FALSE => (Spec => []TypeOK /\ []OneList /\ []EventsAtHead)

(theorems `KernelTypes`, `KernelOneList`, `KernelEventsAtHead`, all from
`KernelInvariant`).  Assumptions: `KernelConstants`, i.e. the markers are
different from threads and queues, the idle thread is the least important, and
`EcMax > 0`.

*The inductive invariant.*  None of the three is inductive alone: moving a thread
between lists keeps `OneList` only if the thread was in the list it leaves and in
no other, and that depends on the place of the running thread in the code.
`IInv` adds five facts:
* `Idle` is in the run queue, so that there is always somebody to switch to;
* `Running`: the running thread is in the run queue wherever the code can be
  interrupted by no switch, and in none while `pc` is `link`;
* `Located`: what the running thread has learnt about the queue it works on is still
  true when it uses it: a queue about to be popped still has a waiter, since
  interrupt handlers remove none, and the thread whose event the scan has seen is still
  the first one of its queue;
* `OffLists`, `WaitingHasNoTimer`: a sleeping or waiting thread is in no list, so
  that its timer or its notification may link it;
* `Created`: threads that are not created yet are in no list and have no timer.

`TypeOK` alone is not inductive either: `PostEvent` lowers the count `ec` and uses
`t->queue` without a test; both are in range only because `EventsAtHead` holds.

`KernelProofs` further proves `CanResume` and three properties of the order of the
lists, under the same assumption:

    Spec => []CanResume
    Spec => []ListsInOrder /\ []IdleLast /\ FirstComeFirstServed

`ListsInOrder` holds because a step only adds to a list, takes from it, or starts
it anew (`RunShape`, `QueueShape`), and because the one thread whose priority
changes is in the run queue and is moved there; with `IdleLeast`, no priority
reaches that of the idle thread, and `IdleLast` follows.  `FirstComeFirstServed`, a
property of steps, rests on `Moved`: a step adds one thread to an event queue at its
place, or takes one out that is the first or whose wait has timed out, and neither
swaps two others.  `CanResume` is said of
each thread by itself (`Resumable`), through `t->queue`, and needs that the timer
of the running thread is gone while it is in its own code (`TimerGone`) and that a
thread whose wait may time out looks at its timer when it resumes.

*The argument.*  One lemma per action (`...Step`) for `IInv`, each split into the conjuncts
of `IInv` which the action disturbs, over the lemmas of `ThreadQueueProofs`;
`NextIInv` collects them and PTL concludes.

`KernelProofs` proves last that the kernel implements `EventSpec` (`KernelEvents`), again
without notified sleepers, in two forms:

    Spec /\ []CountsFit => ImplementsEvents
    MaxIsr < EcMax => (Spec => ImplementsEvents)

`EventSpec` counts events with the naturals and the code with an unsigned char, so that
the refinement needs that no count is at its limit (`CountsFit`); a handler that posts
the 256th event before the scheduler runs does lose it (see the hazards).  The second
theorem derives this from the constants by one more invariant, `Bounded`: no count exceeds the
number of events the interrupt handlers have posted, because a thread that starts to wait
takes over at most the event posted since it looked at the queue.  *The argument.*  Each
action has a lemma that names the step of `EventSpec` it maps to: a signal without waiters
and an interrupt to `Post`, taking the first waiter off to `Wake` or `Deliver`, blocking to
`Join`, a stored event to `Take`, a time-out to `Expire`; everything else is a stutter,
because the waiters of a queue, in their order, and its pending events stay what they were.  `Counted` (an event that the scan has seen is
still counted when it is taken off) is the only invariant needed beyond `IInv`.

`DeviceLockProofs` proves, for any threads, devices and other event queues, with
`DeviceConstants` (no interrupt handler posts to the mutex of a device),

    NotifySleepers = FALSE => (LockSpec => []OneEvent /\ []MutualExclusion /\ []LockTypeOK)

*The inductive invariant.*  Every step of `LockSpec` is a step of `Kernel`
(`LockNextIsNext`), so that `IInv` and `Resume` hold.  `Locks` adds: `Held`, which is
`OneEvent` with the owners named by the fields of each thread (`Has`, `OwnersHave`);
`Allocates`, how far each allocation has got; `Calls`, e.g. that the scheduler never
posts to a device and that the thread about to block on one has not seen `SIGNALED`;
`Waits` and `NoEvents`, that the threads in the queue of a device allocate it and have
no event counted; and `Fresh`, that a thread has forgotten how its last wait ended.
A time-out races with a release in `GiveUpStep` and `SignalDeviceStep`: the first takes
a thread without the event, the second one that has it from then on.

`HeapProofs` proves, for a heap of any place and size, any header, remainder and
sizes of requests (`HeapConstants`: the heap holds a header and a cell, and address
0 is not part of it),

    Spec => []HeapTypeOK /\ []Tiled /\ []ListInOrder /\ []Coalesced
    Spec => ImplementsHeap

*The inductive invariant.*  `Tiled` and `ListInOrder` need to know what the
cursors are: `Searching` (`prev` is the predecessor of `c`), `Placing` (`prev` is
in the list and below the block), `Merging` (`node` is a block, `c` is in the
list or at its end) and `Copied` (the old block of a `realloc` is still held).
`Coalesced` holds between calls only; `Unmerged` is what it becomes inside of
them: all neighbouring free blocks are pairs of the block that was freed and one
the walk has not passed.  This is where the walk, which replaces `c` and `node` by
the merged block and goes on from its `next`, could be wrong.

*The argument.*  Lemmas about sorted lists in any set of addresses
(`DropFirst`, `DropBehind`, `AddFirst`, `AddBehind`), one lemma per action that
rewrites the list, split into the conjuncts of `IInv`.  For `HeapImplements`, a
search that succeeds maps to `Serve`, giving back to `GiveBack`, and every
other step to a stutter; `Tiled` makes the served region apart from the others.

`VirtTimerProofs` proves, for any timers, any ticks and any lag below the width of the tick
counter (`TimerConstants`),

    Spec => []ListIsHeap
    Spec => ImplementsTimers

*The inductive invariants.*  `TimersInv`: `list` is a list of timers, each once,
and exactly of those in `heap`.  The cardinality in `ListIsHeap` follows from the
bijection between places and timers.  For the refinement, `DeadlineInv` adds `Counters`:
all differences are natural numbers, and the two tick counters, which wrap, differ by
the lag (`LagIs`).

*The argument.*  The deadline of a timer is the current tick, less the lag, plus `Away`, the
sum of the differences up to it.  What such sums do is proved by induction over the
list: they exist and are unique (`SumsExist`, `SumsUnique`), a function that adds up is the
sum (`TicksToIs`), and they grow along the list (`TicksGrow`).  Then one lemma for each
change of the list says that it moves no other timer: inserting one and taking the rest
off its successor (`AddTicks`), removing one and handing its ticks on (`RemoveTicks`),
taking elapsed ticks off the first (`FirstNearer`), dropping the first when it elapses
(`TailNearer`).  The first timer is the nearest (`HeadIsNearest`), hence one that elapses
is due, and when the loop ends every other one has its deadline ahead or at this tick.

`I2cProofs` proves about `I2cBus`, for any masters and one slave, any number of messages
of any lengths, any call-backs and any bounds,

    Assumed |- Spec => []I2cTypeOK /\ []InUse /\ []SentOnce
    Assumed, IsFiniteSet(Msg) |- Spec => []OnePlace
    Assumed, Faults \cap Unserved = {} |- Spec => []MasterServed

`Assumed` says that there is one slave client at most (`OneSlave`), that none of the faults
`race`, `lateAddress`, `lateTmo`, `resumeTmo`, `heldBus` and `shared` happens (`Survived`;
so that `overrun` and `emptyAnswer`, which end in a deadlock that the run would report,
are covered), and that `NULL` is no number, array or message.  `Unserved` has the three
faults `refusal`, `lateCallBack` and `noAnswer`, with which `MasterServed` does not hold.  `OnePlace` is about
cardinalities, hence the finite set.

*The inductive invariant.*  `IInv` relates the threads, which stop between any two steps in
`i2c-core.c`, to the interrupt handler, which goes on:
* `Placed`: an allocated message is in the vector or in one list, once; `Threads` and
  `Queues`: who runs in the core, who has the adapter, who waits where; `Turns`: masters
  and slaves do not share the bus, and what a client has queued is of its kind and not done;
* `Sends`: when a START is requested or a master transfer is on the bus, the driver's
  `master_msg` is in the vector and not done, but while a master adds messages to an
  adapter that is not busy, whose handler nothing stirs until it looks again;
  `MasterTold`, `MasterLoops`: the event that wakes a master says that the handler has
  come to rest (`MasterQuiet`), holds the bus for a call-back, or is past the message that
  it reported, so that the message the thread works on stays where it is; `MasterWaits`: a
  master without an event has a message to be done and something that brings it on the bus;
* `SlaveListens`: while the slave may be addressed, `slave_msg` is in the vector and all
  before it are done; `DoneInOrder`, `DoneBefore`: the messages of a slave are done from the
  first to the last, so that cleaning from the end leaves no message behind that the loop
  has passed; `SlaveTold`, `SlaveLoops`, `SlaveEnds`: what event and time-out tell it.

None of the five is inductive: `InUse` needs that `i2c_cleanup_adapter_msgs` deletes
only what is done and that the driver's pointers are never to such a message, which only
the place of the thread and what it was told say.

`MasterServed` needs more: that a bus held for a call-back is let go, i.e. that the
thread which was told of it finds the message and has one to go on with.  `ServedInv` says
so for the time in which no slave has its file open: messages are done from the first to
the last (`Ordered`); the message of a START or a transfer, or the one that calls back, is
the first that is not done (`Reaches`), and so is the one at the index of the loop
(`Splits`), which therefore ends at index 0 with a message to resume; the bus is held only
while its master has been told of a call-back or is in the loop that answers it; and an
adapter that is busy while the hardware is idle has its START requested (`BusyEnds`).
`ServedNext` proves it inductive relative to `IInv`, with one lemma per action (`...Serves`);
a step of a slave has nothing to show but its close, after which the bus rests
(`CloseServes`).

*The argument.*  First the vector: what growing, shifting, inserting, searching and, by
induction over the entries, cleaning leave of it (`VectorOK`, `Entries`, `CleanUpIs`).
A step of the interrupt handler leaves the vector and the threads alone (`StepKeeps`,
`BusKeepsMasters`, `BusKeepsSlave`), one of a thread leaves the bus alone except where it
starts or resumes a transfer (`MasterMoves`, `SlaveMoves`); one lemma per action fills in
what it changes.

`DriverProofs` proves about `Devices`, for any threads, tasks, files, descriptors and
pins,

    Spec => []OneOwner
    ~FileShared => (Spec => []OwnStream)
    ~SerFast /\ ~SerShared => (Spec => []ReadsFirst)
    ~AdcFast => (Spec => []OwnSample)
    Spec => []ResumesOwn
    ArraysAreNotNull => (Spec => []MastersFirst)
    Spec => []PaidInOrder
    ~RamShared => (Spec => []DriversKeep)

*The inductive invariants.*  `SpiInv`: a task is in the queue of the mutex exactly
while it waits there, at most one has the bus, and a stored event means neither waiters
nor an owner.  `FilesInv`: the slots, the descriptors of streams and those of tasks
agree in both directions, and no two tasks have one stream.  `SerInv`: a read is in one
of four stages (`Off`, `Enabled`, `Waits`, `Roused`), each of which says where the first
byte is: still on the line, in the buffer, or in the variable of the reader with its
event counted.  `AdcInv`, until the first time-out: `AdcLocks` for the mutex, as for
SPI, and `AdcStages`, which follows the pin from the call through the running
conversion and the data register to the sample.  `CtxInv`: the stack of every live thread that does not run
holds, above its stack pointer and in the order in which `task_switch.S` pops them, the
registers the thread had and either its entry point or the place and the interrupt
flags of a switch (`Holding`), so that they are off until it returns; no list holds a freed thread.  `MsgvInv`: the array of the message
vector is filled up to its length and sorted, i.e. no message occurs twice, no slave's is
before a master's, and each kind is in the order of arrival (`Sorted`).  Growing copies
the array and inserting shifts it (`Filled` before and after); `ArraysAreNotNull` says that
an array is not the pointer `NULL`.  `NetInv`: a core queue is what came to it without its
first entries (`QueuesAreEnds`), only segments of handled packets are bought
(`AllOfHandled`), each once and in order (`BoughtOnce`, `BoughtInOrder`), and no packet that
was handled is too large for its device (`NoneTooLarge`).  The loop over the segments is proved by
induction over their number (`OfferedSoFar`: what was bought before is a beginning of what
is bought after, and tokens and `Cost` add up to the same).  `StdioInv`: the wire `Carries`
what was sent, a carriage return exactly in front of each line feed and character `i` of the wire
is that of the text less the returns before it; by induction over the characters of a text.
`MemoryInv`: a thread between the two halves of a RAM call has in the shared client what it intends
(`Intends`), so that the flush writes or reads its own byte at its own address.
`BoardInv`: a pin is one bit of one port and no two pins have the same (`OwnBit`).
A step of another part of `Devices` leaves the variables of these alone.

`ListProofs` proves about `Devices`, with `FiniteNodes` (the sets of nodes are finite),

    FiniteNodes, ListMiddle = FALSE |- Spec => ListsImplement
    FiniteNodes, ListMiddle = FALSE, ~SerFast, ~SerShared, ArraysAreNotNull
        |- Spec => []DevicesTypeOK

so the assumption on `list.c` is the one under which it works (section 5).

*The inductive invariants.*  `Chain(first, links, s)`: from `first` on, the pointers
link the nodes of the sequence `s`, each once, and then end.  The invariant of each
list says that its pointers are such a chain of its walk: `EplInv` also that the count is
right and that a circular list, which `epl.c` makes of one node only, has that node as its
own successor (`EplLoops`); `XorInv` that every node holds the exclusive or of its two neighbours and every other node nothing.

`DevicesTypeOK` follows for the lists, the message vector, the network and the switch from
these and the invariants of `DriverProofs`; the converter, the files, the SPI bus and the
serial port have a typed part of their own, inductive with `SpiInv` and `SerInv`.  That of
the converter (`AdcTyped`) holds whatever times out and also when conversions end at once.
Its hard part is that the events counted for `adc0_queue` never exceed the number of
threads: while threads wait there, the events counted and the conversion that runs are no
more than the waiters and the thread that has started one (`AdcCounted`).  A wait that times
out leaves its conversion running, and the event of that conversion is for a waiter who
was not meant.

*The argument.*  That a walk along a chain visits the nodes of the chain, and stops, is
proved by induction over its places (`WalkIs`; `XorWalkIs` where the next place depends on
the previous one).  An operation is then a change of a sequence: `Chain...` and `Xor...` lemmas
say what adding in front, behind a node or at the end, and taking out the first or
another node, does to a chain, and one lemma per action applies them to the assignments of
the code and finds the step of `ListSpec`.

*Induction.*  The library's induction theorems take an operator as a parameter, which the
provers cannot instantiate.  `AllNaturals` of `ThreadQueueProofs` states induction for a
set: a set of naturals with 0 and the successors of its members is `Nat`.  It follows from
the well-foundedness of `<`, by a least element (`LeastOf`).

*Form of the definitions.*  Definitions that a proof expands select among more than two
cases by nested `IF`s, not by `CASE`: the SMT translation of `CASE` confuses two
expressions with equally many arms.

*Only model-checked*: of `Devices` the comparison of the library functions with what they
are for over small widths (`Computed`).
*Out of the prover's reach*: liveness under fairness (`CallsEnd`, `ReadyRuns`,
`AllocSucceeds`, `ConvertReturns` and the others) and `ENABLED`.  No module uses
`RECURSIVE`.

## 7. Not modelled

The map covers 31 % of the implementation's lines.  What is left:

* `src/include/lib/binary.h`, register names, prescaler tables and all other
  definitions of constants: there is nothing to model.
* Straight-line initialisation, the boot sequence and the setting up of structures of
  function pointers: their result is the initial state of the modules.  Busy-wait
  delays.
* The PWM, sensor and routing stubs, the C++ support and the C++ list, and other code
  that nothing calls or that is not compiled: `BermudaSpiRamSetMode`,
  `i2cdbg_test_queue_processor`, `i2c_print_vector`, `atmega_i2c_dbg`,
  `__netif_tx_queue`, `src/arch/avr/out.c`, the headers `spibus.h`, `twif.h` and
  `twireg.h` of an earlier design.
* Build files, example applications and tests of boards.
* The end of a thread that gets a successor in the kill queue: the code would take part
  of that queue into the run queue (a guard of `ThreadExit` in `Context`).
* Bytes and addresses on the I2C bus, chip-select timing, and the output of the serial
  port, which busy-waits for the data register.
* Threads of different priorities in the queues of the drivers: how a queue orders them
  is `Kernel`'s.
