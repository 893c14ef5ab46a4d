--------------------------------- MODULE Board ---------------------------------
(***************************************************************************)
(* The pins of the board (arch/avr/arduino/arduino-io.c) and the hardware  *)
(* timers (arch/avr/328/328-timer.c), by their registers: a register of 8  *)
(* bits is the set of its bits that are 1.  The timers find memory: there  *)
(* is no timer 0 without it, and the code of timer 2 writes to address 0.  *)
(***************************************************************************)
EXTENDS Integers, Sequences

CONSTANTS
  BoardPin,  \* the pins that are used; the table of ports has none for 19
  Tops       \* the values that are given to BermudaAvrTimerSetTop

ASSUME BoardConstants == BoardPin \subseteq 0 .. 18 /\ Tops \subseteq 0 .. 255

VARIABLES
  ddr, port,   \* the registers DDRx and PORTx of each port
  pinRead,     \* history: what BermudaDigitalPinRead last returned, and what it had to
  timer0, timer2,
  ints,        \* the bit I of SREG
  pinSet,      \* history: the mode and the level that each pin was given
  timerSet     \* history: the calls for timer 2 that count

boardVars == <<ddr, port, pinRead, timer0, timer2, ints, pinSet, timerSet>>

Bit == 0 .. 7

\* The constants of lib/binary.h, by their digits.
B(digits) == {i \in Bit \cap 0 .. Len(digits) - 1 : digits[Len(digits) - i] = 1}

\* The interrupts that BermudaAvrTimerSetISR looks at, up to TIMER_ISRS.
TIMER_ISRS == B(<<1, 1, 1>>)

-----------------------------------------------------------------------------
BermudaPinToPort ==
  [p \in 0 .. 18 |-> IF p < 8 THEN "D" ELSE IF p < 14 THEN "B" ELSE "C"]

BermudaPinToMask ==
  [p \in 0 .. 19 |-> IF p < 8 THEN p ELSE IF p < 14 THEN p - 8 ELSE p - 14]

BermudaBoardAnalogPinAdjust(pin) == pin - 14

WithBit(reg, pin, on) ==
  LET b == BermudaPinToMask[pin]
  IN  [reg EXCEPT ![BermudaPinToPort[pin]] = IF on THEN @ \cup {b} ELSE @ \ {b}]

BitOf(reg, pin) == BermudaPinToMask[pin] \in reg[BermudaPinToPort[pin]]

BermudaTimerSetPrescaler(t, pres) ==
  [t EXCEPT !.controlB = (@ \ B(<<1, 1, 1>>)) \cup (pres \cap B(<<1, 1, 1>>)),
            !.prescaler = pres \cap B(<<1, 1, 1>>)]

\* It keeps the compare modes that are set and clears the waveform.
BermudaTimerSetOutputCompareMatch(t, ocm) ==
  [t EXCEPT !.controlA = (@ \cap 4 .. 7) \cup {b + 4 : b \in ocm \cap 0 .. 3}]

\* WGM02 gets the bit WGM00 of the mode.
BermudaTimerSetWaveFormMode(t, mode) ==
  [t EXCEPT !.controlA = (@ \ {0, 1}) \cup (mode \cap {0, 1}),
            !.controlB = (@ \ {3}) \cup (IF 0 \in mode THEN {3} ELSE {})]

BermudaHardwareTimerInit(t, waveform, prescaler, ocm) ==
  BermudaTimerSetWaveFormMode(
    BermudaTimerSetPrescaler(BermudaTimerSetOutputCompareMatch(t, ocm), prescaler), waveform)

\* A timer after reset.
NewTimer == [controlA |-> {}, controlB |-> {}, int_mask |-> {}, output_comp_a |-> 0,
             prescaler |-> {}]

\* BermudaTimer0InitRegs and BermudaTimer2InitRegs find the registers: they
\* keep what they hold, unlike the structure, whose prescaler is set below.
FastPWM(t) ==
  [BermudaHardwareTimerInit(t, B(<<1, 1, 1>>), B(<<1, 1>>), B(<<0>>)) EXCEPT !.output_comp_a = 250]

\* Its overflow interrupt is the tick of the system.
BermudaInitTimer0 == [FastPWM(NewTimer) EXCEPT !.int_mask = @ \cup {0}]

BermudaAvrTimerSetISR(t, isr) == [t EXCEPT !.int_mask = @ \cup (isr \cap TIMER_ISRS)]

\* FAULT: forgets the prescaler.
BermudaTimerDisableForgets(t) == BermudaTimerSetPrescaler(t, {})

BermudaTimerDisable(t) == [BermudaTimerSetPrescaler(t, {}) EXCEPT !.prescaler = t.prescaler]

BermudaTimerEnable(t) == BermudaTimerSetPrescaler(t, t.prescaler)

\* BermudaInit of init.c enables interrupts behind the timer.
BoardInit ==
  /\ ddr = [p \in {"B", "C", "D"} |-> {}] /\ port = ddr
  /\ pinRead = [high |-> FALSE, due |-> {FALSE}]
  /\ timer0 = BermudaInitTimer0 /\ timer2 = NewTimer
  /\ ints = TRUE
  /\ pinSet = [p \in BoardPin |-> [output |-> FALSE, high |-> FALSE]]
  /\ timerSet = [init |-> FALSE, runs |-> FALSE, isrs |-> {}, top |-> 0]

-----------------------------------------------------------------------------
\* Interrupts are on afterwards, whatever they were.
BermudaSetPinMode(pin, output) ==
  /\ ddr' = WithBit(ddr, pin, output)
  /\ ints' = TRUE
  /\ pinSet' = [pinSet EXCEPT ![pin].output = output]
  /\ UNCHANGED <<port, pinRead, timer0, timer2, timerSet>>

BermudaDigitalPinWrite(pin, high) ==
  /\ port' = WithBit(port, pin, high)
  /\ pinSet' = [pinSet EXCEPT ![pin].high = high]
  /\ UNCHANGED <<ddr, pinRead, timer0, timer2, ints, timerSet>>

\* An input has the level that comes from outside, an output its own.
BermudaDigitalPinRead(pin) ==
  /\ \E level \in BOOLEAN :
       pinRead' = [high |-> IF BitOf(ddr, pin) THEN BitOf(port, pin) ELSE level,
                   due |-> IF pinSet[pin].output THEN {pinSet[pin].high} ELSE BOOLEAN]
  /\ UNCHANGED <<ddr, port, timer0, timer2, ints, pinSet, timerSet>>

\* BermudaIntsRestore is an expression without effect: interrupts stay off.
BermudaAvrTimer2Init ==
  /\ timer2' = FastPWM(timer2)
  /\ ints' = FALSE
  /\ timerSet' = [timerSet EXCEPT !.init = TRUE, !.runs = TRUE, !.top = 250]
  /\ UNCHANGED <<ddr, port, pinRead, timer0, pinSet>>

Timer2Call(new, set) ==
  /\ timerSet.init
  /\ timer2' = new
  /\ timerSet' = set
  /\ UNCHANGED <<ddr, port, pinRead, timer0, ints, pinSet>>

PinNext ==
  \E p \in BoardPin, on \in BOOLEAN :
    BermudaSetPinMode(p, on) \/ BermudaDigitalPinWrite(p, on) \/ BermudaDigitalPinRead(p)

HwTimerNext ==
  \/ BermudaAvrTimer2Init
  \/ Timer2Call(BermudaTimerEnable(timer2), [timerSet EXCEPT !.runs = TRUE])
  \/ Timer2Call(BermudaTimerDisable(timer2), [timerSet EXCEPT !.runs = FALSE])
  \/ \E i \in TIMER_ISRS :
       Timer2Call(BermudaAvrTimerSetISR(timer2, {i}), [timerSet EXCEPT !.isrs = @ \cup {i}])
  \/ \E top \in Tops :
       Timer2Call([timer2 EXCEPT !.output_comp_a = top], [timerSet EXCEPT !.top = top])

-----------------------------------------------------------------------------
(***************************************************************************)
(* arduino-io.c, 328-timer.c: whatever was called for others that share    *)
(* its registers, each pin has the mode and the level it was last given,   *)
(* an output reads as it was set, and a timer counts, in the same mode and *)
(* with its own prescaler, exactly when it was last enabled.               *)
(***************************************************************************)
PinsKept ==
  /\ \A p \in BoardPin :
       (pinSet[p].output <=> BitOf(ddr, p)) /\ (pinSet[p].high <=> BitOf(port, p))
  /\ pinRead.high \in pinRead.due
  /\ timer2.controlA = IF timerSet.init THEN {0, 1} ELSE {}
  /\ timer2.controlB = (IF timerSet.runs THEN B(<<1, 1>>) ELSE {})
                       \cup (IF timerSet.init THEN {3} ELSE {})
  /\ timer0 = BermudaInitTimer0
  /\ timer2.int_mask = timerSet.isrs /\ timer2.output_comp_a = timerSet.top
=============================================================================
