------------------------------ MODULE DeviceLock ------------------------------
(***************************************************************************)
(* The lock of a device (dev/devreg.c): BermudaDeviceAlloc waits for an    *)
(* event in dev->mutex, which starts out SIGNALED, and                     *)
(* BermudaDeviceRelease signals it.  SPI clients, the ADC, the bus locks   *)
(* and the shared information of I2C clients use an event queue in the     *)
(* same way.  A device is identified with its mutex.                       *)
(***************************************************************************)
EXTENDS Kernel

CONSTANT Device     \* the devices

ASSUME DeviceConstants ==
  /\ Device \subseteq Queue
  /\ Device \cap IsrQueue = {}

VARIABLES
  want,    \* the device each thread is allocating, or NULL
  holds    \* the devices each thread has been given

lockVars == <<want, holds>>

LockInit ==
  /\ Init
  /\ \A d \in Device : queue[d] = SIGNALED
  /\ want = [t \in Thread |-> NULL]
  /\ holds = [t \in Thread |-> {}]

\* FAULT: waits for the next event, dropping the one that is stored.
DeviceAllocNext(d, w) ==
  /\ d \notin holds[cur]
  /\ EventWaitNext(d, w)
  /\ want' = [want EXCEPT ![cur] = d]
  /\ UNCHANGED holds

\* A thread does not allocate a device that it has.
DeviceAlloc(d, w) ==
  /\ d \notin holds[cur]
  /\ EventWait(d, w)
  /\ want' = [want EXCEPT ![cur] = d]
  /\ UNCHANGED holds

\* FAULT: any call that returns 0 counts as an allocation.
AllocReturnAny ==
  /\ CallReturn
  /\ want' = [want EXCEPT ![cur] = NULL]
  /\ holds' = [holds EXCEPT ![cur] = @ \cup {want[cur]}]

\* BermudaDeviceAlloc returns what BermudaEventWait returned.
AllocReturn ==
  LET rc == IF cont[cur] = "blocked" /\ timer[cur] = SIGNALED THEN -1 ELSE 0
  IN  /\ CallReturn
      /\ want[cur] # NULL
      /\ want' = [want EXCEPT ![cur] = NULL]
      /\ holds' = [holds EXCEPT ![cur] = IF rc = 0 THEN @ \cup {want[cur]} ELSE @]

\* FAULT: the device is given back without an event.
DeviceReleaseSilent(d) ==
  /\ d \in holds[cur]
  /\ CallYield
  /\ holds' = [holds EXCEPT ![cur] = @ \ {d}]
  /\ UNCHANGED want

\* Only a thread that was given the device releases it.
DeviceRelease(d) ==
  /\ d \in holds[cur]
  /\ EventSignal(d)
  /\ holds' = [holds EXCEPT ![cur] = @ \ {d}]
  /\ UNCHANGED want

\* All other calls leave the mutexes of devices alone.
OtherCall ==
  /\ \/ \E q \in Queue \ Device, w \in BOOLEAN : EventWait(q, w) \/ EventWaitNext(q, w)
     \/ \E q \in Queue \ Device : EventSignal(q)
     \/ \E t \in Thread : Notifiable(t) /\ ThreadNotify(t)
     \/ \E p \in Prios : ThreadSetPrio(p)
     \/ \E t \in Thread : ThreadCreate(t)
     \/ CallYield \/ ThreadSleep \/ ThreadWait
  /\ UNCHANGED lockVars

InKernel ==
  /\ \/ WaitRead \/ ConsumeEvent \/ BlockFirst \/ BlockBehind \/ LinkWaiter
     \/ SignalRead \/ SignalPop \/ SignalStore
     \/ ThreadYield \/ ScanThread \/ PostEvent \/ SwitchTask
     \/ want[cur] = NULL /\ CallReturn
     \/ TimerElapses
     \/ Interrupt
  /\ UNCHANGED lockVars

LockNext ==
  \/ \E d \in Device, w \in BOOLEAN : DeviceAlloc(d, w)
  \/ \E d \in Device : DeviceRelease(d)
  \/ AllocReturn
  \/ OtherCall
  \/ InKernel

LockSpec == LockInit /\ [][LockNext]_<<vars, lockVars>>

(***************************************************************************)
(* As in Kernel; moreover a thread releases a device after using it.       *)
(***************************************************************************)
LockFairness ==
  /\ WF_vars(KernelStep /\ UNCHANGED lockVars)
  /\ WF_<<vars, lockVars>>(AllocReturn)
  /\ WF_vars(CallYield /\ UNCHANGED lockVars)
  /\ \A t \in Thread :
       /\ SF_<<vars, lockVars>>(cur = t /\ \E d \in Device : DeviceRelease(d))
       /\ SF_vars(ThreadTimeout(t) /\ UNCHANGED lockVars)
       /\ SF_vars(EventTMO(t) /\ UNCHANGED lockVars)

FairLockSpec == LockSpec /\ LockFairness
-----------------------------------------------------------------------------
LockTypeOK ==
  /\ TypeOK
  /\ want \in [Thread -> Device \cup {NULL}]
  /\ holds \in [Thread -> SUBSET Device]

(***************************************************************************)
(* devreg.c:123 "The device will be locked for other threads": no two      *)
(* threads hold a device at the same time.                                 *)
(***************************************************************************)
MutualExclusion ==
  \A d \in Device : \A t, u \in Thread : d \in holds[t] /\ d \in holds[u] => t = u

(***************************************************************************)
(* The event of a mutex, from the moment it leaves the queue until it is   *)
(* back: with the thread that holds the device, with a thread that was     *)
(* given it and has not run since, or with the release in progress.        *)
(***************************************************************************)
Owners(d) ==
  {t \in Thread :
     \/ d \in holds[t]
     \/ want[t] = d /\ cont[t] = "granted"
     \/ want[t] = d /\ cont[t] = "blocked" /\ t \notin Waiters(d) /\ timer[t] # SIGNALED}

Releasing(d) == pc \in {"sigPop", "sigSet"} /\ up = "yield" /\ wq = d

(***************************************************************************)
(* The event is in exactly one place, so that a device is never locked     *)
(* without an owner who will release it, whatever waits were given up.     *)
(***************************************************************************)
OneEvent ==
  \A d \in Device :
    /\ \A t, u \in Owners(d) : t = u
    /\ queue[d] = SIGNALED => Owners(d) = {} /\ ~Releasing(d)
    /\ Releasing(d) => Owners(d) = {}
    /\ queue[d] # SIGNALED => Owners(d) # {} \/ Releasing(d)

(***************************************************************************)
(* Among equally important threads that release what they allocate and     *)
(* wait for nothing else in between, unless with a time-out, an allocation *)
(* without time-out succeeds: no wake-up is lost between the check of the  *)
(* mutex, the timers of other waits and the release.                       *)
(***************************************************************************)
HoldersGoOn ==
  \A t \in Thread :
    holds[t] # {} => t \in Range(runq) \/ timer[t] # NULL \/ pc = "link"

AllocSucceeds ==
  []HoldersGoOn =>
    \A t \in Thread, d \in Device :
      want[t] = d /\ cont[t] = "blocked" /\ timer[t] = NULL ~> d \in holds[t]
=============================================================================
