--------------------------------- MODULE Adc ---------------------------------
(***************************************************************************)
(* The analog to digital converter (arch/avr/adc.c): threads that convert, *)
(* one at a time with a mutex, and wait for the interrupt at the end of    *)
(* the conversion.  Threads interleave where they wait; the hardware moves *)
(* between any two steps.  A sample is known by the pin it was taken from. *)
(***************************************************************************)
EXTENDS EventQueue

CONSTANTS
  AdcThread, Pin,
  NoPin,
  AdcFast      \* TRUE: a conversion may end before its thread waits for it

\* The threads are finitely many, and at least one converts.
ASSUME AdcConstants ==
  /\ NoPin \notin Pin \cup AdcThread /\ AdcFast \in BOOLEAN
  /\ IsFiniteSet(AdcThread) /\ AdcThread # {}

VARIABLES
  adcMutex, adcQueue,   \* adc0_mutex and adc0_queue
  aden,        \* the converter is enabled
  adsc,        \* the channel of the conversion that runs, or NoPin
  adcData,     \* the pin of the sample in ADCL and ADCH
  adcPc,
  adcPin,      \* the parameter pin of each thread
  adcSample,   \* the pin of the sample that its last call returned
  adcCur,      \* the thread that runs in BermudaADCConvert, or NoPin
  adcLate      \* history: a wait has timed out

adcVars ==
  <<adcMutex, adcQueue, aden, adsc, adcData, adcPc, adcPin, adcSample, adcCur, adcLate>>

\* BermudaAdc0Init.
AdcInit ==
  /\ adcMutex = Stored
  /\ adcQueue = Stored
  /\ aden = TRUE
  /\ adsc = NoPin
  /\ adcData = NoPin
  /\ adcPc = [t \in AdcThread |-> "idle"]
  /\ adcPin = [t \in AdcThread |-> NoPin]
  /\ adcSample = [t \in AdcThread |-> NoPin]
  /\ adcCur = NoPin
  /\ adcLate = FALSE

\* The scheduler posts the events that were counted before it handles timers.
AdcPosted == ~Waiting(adcQueue) \/ adcQueue.pend = 0

AdcGoto(t, l) == adcPc' = [adcPc EXCEPT ![t] = l]

-----------------------------------------------------------------------------
\* FAULT: goes on without the event.
AdcCallAnyway(t, p) ==
  /\ adcCur = NoPin /\ adcPc[t] = "idle"
  /\ adcPin' = [adcPin EXCEPT ![t] = p]
  /\ adcSample' = [adcSample EXCEPT ![t] = NoPin]
  /\ adcMutex' = IF Takes(adcMutex) THEN Nothing ELSE adcMutex
  /\ AdcGoto(t, "locked")
  /\ UNCHANGED <<adcQueue, aden, adsc, adcData, adcCur, adcLate>>

\* BermudaADCConvert waits for the mutex.
AdcCall(t, p) ==
  /\ adcCur = NoPin /\ adcPc[t] = "idle"
  /\ adcPin' = [adcPin EXCEPT ![t] = p]
  /\ adcSample' = [adcSample EXCEPT ![t] = NoPin]
  /\ adcMutex' = Wait(adcMutex, t)
  /\ AdcGoto(t, IF Takes(adcMutex) THEN "locked" ELSE "mutex")
  /\ UNCHANGED <<adcQueue, aden, adsc, adcData, adcCur, adcLate>>

\* The result of that wait is not looked at.
AdcMutexTmo(t) ==
  /\ adcCur = NoPin /\ adcPc[t] = "mutex" /\ AdcPosted
  /\ adcMutex' = TimedOut(adcMutex, t)
  /\ AdcGoto(t, "locked")
  /\ adcLate' = TRUE
  /\ UNCHANGED <<adcQueue, aden, adsc, adcData, adcPin, adcSample, adcCur>>

\* With the converter off the call returns 0, and the mutex stays taken.
AdcOff(t) ==
  /\ adcCur = NoPin /\ adcPc[t] = "locked"
  /\ ~aden
  /\ AdcGoto(t, "idle")
  /\ UNCHANGED <<adcMutex, adcQueue, aden, adsc, adcData, adcPin, adcSample, adcCur, adcLate>>

\* The channel is selected and a conversion of it started; one that runs goes
\* on with its own channel.
AdcStart(t) ==
  /\ adcCur = NoPin /\ adcPc[t] = "locked"
  /\ aden
  /\ adsc' = IF adsc = NoPin THEN adcPin[t] ELSE adsc
  /\ adcCur' = t
  /\ AdcGoto(t, "started")
  /\ UNCHANGED <<adcMutex, adcQueue, aden, adcData, adcPin, adcSample, adcLate>>

AdcWait(t) ==
  /\ adcCur = t /\ adcPc[t] = "started"
  /\ adcQueue' = WaitNext(adcQueue, t)
  /\ adcCur' = NoPin
  /\ AdcGoto(t, "converting")
  /\ UNCHANGED <<adcMutex, aden, adsc, adcData, adcPin, adcSample, adcLate>>

\* The conversion ends and interrupts: SIGNAL(ADC_CC_vect).
AdcComplete ==
  /\ adsc # NoPin
  /\ AdcFast \/ \A t \in AdcThread : adcPc[t] # "started"
  /\ adcData' = adsc
  /\ adsc' = NoPin
  /\ adcQueue' = SignalFromISR(adcQueue)
  /\ UNCHANGED <<adcMutex, aden, adcPc, adcPin, adcSample, adcCur, adcLate>>

AdcEvent(t) ==
  /\ adcCur = NoPin
  /\ Delivers(adcQueue, t)
  /\ adcQueue' = Delivered(adcQueue)
  /\ AdcGoto(t, "converted")
  /\ UNCHANGED <<adcMutex, aden, adsc, adcData, adcPin, adcSample, adcCur, adcLate>>

AdcConvTmo(t) ==
  /\ adcCur = NoPin /\ adcPc[t] = "converting" /\ AdcPosted
  /\ adcQueue' = TimedOut(adcQueue, t)
  /\ AdcGoto(t, "converted")
  /\ adcLate' = TRUE
  /\ UNCHANGED <<adcMutex, aden, adsc, adcData, adcPin, adcSample, adcCur>>

\* FAULT: the mutex is not released.
AdcReadKeeps(t) ==
  /\ adcCur = NoPin /\ adcPc[t] = "converted"
  /\ adcSample' = [adcSample EXCEPT ![t] = adcData]
  /\ AdcGoto(t, "idle")
  /\ UNCHANGED <<adcMutex, adcQueue, aden, adsc, adcData, adcPin, adcCur, adcLate>>

\* The sample is read, and the mutex is signaled: to its first waiter, if any.
AdcRead(t) ==
  /\ adcCur = NoPin /\ adcPc[t] = "converted"
  /\ adcSample' = [adcSample EXCEPT ![t] = adcData]
  /\ adcMutex' = Signal(adcMutex)
  /\ adcPc' = [u \in AdcThread |->
                 IF u = t THEN "idle"
                 ELSE IF Waiting(adcMutex) /\ u = Head(adcMutex.waiters) THEN "locked"
                 ELSE adcPc[u]]
  /\ UNCHANGED <<adcQueue, aden, adsc, adcData, adcPin, adcCur, adcLate>>

AdcDisable ==
  /\ adcCur = NoPin /\ aden
  /\ aden' = FALSE
  /\ UNCHANGED <<adcMutex, adcQueue, adsc, adcData, adcPc, adcPin, adcSample, adcCur, adcLate>>

-----------------------------------------------------------------------------
AdcStep(t) ==
  \/ AdcOff(t) \/ AdcStart(t) \/ AdcWait(t) \/ AdcEvent(t) \/ AdcRead(t)

AdcNext ==
  \/ \E t \in AdcThread : AdcStep(t) \/ AdcMutexTmo(t) \/ AdcConvTmo(t)
  \/ \E t \in AdcThread, p \in Pin : AdcCall(t, p)
  \/ AdcComplete
  \/ AdcDisable

\* The scheduler runs threads that are ready, and a conversion ends.  Callers
\* may wait without a limit: a time-out need not happen.
AdcFairness == WF_adcVars(AdcComplete) /\ \A t \in AdcThread : WF_adcVars(AdcStep(t))

-----------------------------------------------------------------------------
\* States of the driver.
AdcTypeOK ==
  /\ {adcMutex.pend, adcQueue.pend} \subseteq 0..Cardinality(AdcThread)
  /\ adcPc \in [AdcThread -> {"idle", "mutex", "locked", "started", "converting", "converted"}]
  /\ \A t \in AdcThread :
       /\ adcPc[t] = "mutex" <=> t \in Range(adcMutex.waiters)
       /\ adcPc[t] = "converting" <=> t \in Range(adcQueue.waiters)
  /\ aden \in BOOLEAN /\ adcLate \in BOOLEAN
  /\ {adsc, adcData} \subseteq Pin \cup {NoPin}

(***************************************************************************)
(* adc.c: "starts the analog to digital conversion and returns the result":*)
(* the sample a call returns was taken from the pin it asked for, whatever *)
(* other threads convert meanwhile.  Only until the first time-out: its    *)
(* thread goes on as if it had the mutex, or a sample.                     *)
(***************************************************************************)
OwnSample ==
  ~adcLate => \A t \in AdcThread : adcSample[t] # NoPin => adcSample[t] = adcPin[t]

(***************************************************************************)
(* Every conversion returns, neither the mutex nor the end of a conversion *)
(* is missed: while the converter is on, for the call that finds it off    *)
(* keeps the mutex, and no wait has timed out.                             *)
(***************************************************************************)
ConvertReturns ==
  \A t \in AdcThread :
    [](aden /\ ~adcLate) => (adcPc[t] # "idle" ~> adcPc[t] = "idle")
=============================================================================
