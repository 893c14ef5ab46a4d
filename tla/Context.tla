-------------------------------- MODULE Context --------------------------------
(***************************************************************************)
(* What a switch of threads carries over (arch/avr/stack.c, task_switch.S) *)
(* and the end of a thread (sys/thread.c): registers, stacks, and the      *)
(* lists that lead to a thread.  A stack is the sequence of its live       *)
(* cells; the word that the processor pushes for a call is one cell.       *)
(* Kernel models when threads block and who is ready; here they may block  *)
(* and be made ready at any time.                                          *)
(***************************************************************************)
EXTENDS Integers, Sequences, SequencesExt, FiniteSetsExt

CONSTANTS
  CtxThread,
  Idle, Main,   \* the threads of IDLE and of MAIN
  Boot,         \* the stack of BermudaInit
  CtxPrio,      \* the priorities
  NoThread,     \* NULL
  Zero          \* the byte 0

ASSUME ContextConstants ==
  /\ {Idle, Main} \subseteq CtxThread /\ Idle # Main
  /\ Boot \notin CtxThread /\ NoThread \notin CtxThread \cup {Boot}
  /\ CtxPrio \in [CtxThread -> 0 .. 255]
  /\ \A t \in CtxThread \ {Idle} : CtxPrio[t] < CtxPrio[Idle]

Q == INSTANCE ThreadQueue WITH NULL <- NoThread, SIGNALED <- Boot

Register == 0 .. 31

(***************************************************************************)
(* A register holds Zero, a byte of the parameter of t, written as t, or   *)
(* <<t, r, k>>, the result k that t computed in the register r.            *)
(***************************************************************************)

VARIABLES
  current,     \* BermudaCurrentThread
  runQ, killQ, \* BermudaRunQueue, BermudaKillQueue
  head, qnext, \* BermudaThreadHead and the field q_next of each thread
  life,        \* "new", "live", or "freed"
  regs, sreg,  \* the registers; SREG, as its interrupt flag
  stack,       \* whose stack the processor uses
  mem,         \* the live cells of each stack
  sp,          \* the field sp of each thread: a stack and its height
  place,       \* where the processor is: "boot", "app", "switched"
  kept         \* history: the registers each thread must find

ctxVars ==
  <<current, runQ, killQ, head, qnext, life, regs, sreg, stack, mem, sp, place, kept>>

\* FAULT: the parameter is written one cell too low.
StackInitShifted(t, flag) ==
  <<"handle", Zero, flag>> \o [i \in 1 .. 31 |-> IF i \in {25, 26} THEN t ELSE Zero]

(***************************************************************************)
(* BermudaStackInit: the frame of a thread that has not run: the handle as *)
(* return address, R0, SREG, R1 to R31.  sp[8] and sp[7], counted from the *)
(* free cell below R31, are R24 and R25: the parameter.                    *)
(***************************************************************************)
StackInit(t, flag) ==
  <<"handle", Zero, flag>> \o [i \in 1 .. 31 |-> IF i \in {24, 25} THEN t ELSE Zero]

\* The registers with which the handle of t starts.
FreshRegisters(t) == [r \in Register |-> IF r \in {24, 25} THEN t ELSE Zero]

\* BermudaInit up to BermudaSchedulerStart: interrupts are on, IDLE exists.
CtxInit ==
  /\ current = Idle
  /\ runQ = <<Idle>> /\ killQ = <<>>
  /\ head = Idle
  /\ qnext = [t \in CtxThread |-> NoThread]
  /\ life = [t \in CtxThread |-> IF t = Idle THEN "live" ELSE "new"]
  /\ regs = [r \in Register |-> Zero] /\ sreg = TRUE
  /\ stack = Boot
  /\ mem = [s \in CtxThread \cup {Boot} |-> IF s = Idle THEN StackInit(Idle, TRUE) ELSE <<>>]
  /\ sp = [t \in CtxThread |-> IF t = Idle THEN <<t, 34>> ELSE <<Boot, 0>>]
  /\ place = "boot"
  /\ kept = [t \in CtxThread |-> FreshRegisters(t)]

-----------------------------------------------------------------------------
\* The cells that BermudaSwitchTask pushes behind its return address.
Frame(flag) == <<regs[0], flag>> \o [i \in 1 .. 31 |-> regs[i]]

\* BermudaStackSave: sp += 2 drops the argument that was pushed last.
StackSave(s) == <<stack, Len(s) - 2>>

(***************************************************************************)
(* BermudaSwitchTask(dest), with interrupts off since the EnterCritical    *)
(* around it, which has pushed SREG: saves the registers below the return  *)
(* address, takes dest, itself saved as argument, and loads what is there. *)
(***************************************************************************)
SwitchTask(calls, t) ==
  LET dest == sp[t]
      full == mem[stack] \o calls \o <<sreg, "switched">> \o Frame(FALSE) \o <<dest, dest>>
      new  == SubSeq(IF dest[1] = stack THEN full ELSE mem[dest[1]], 1, dest[2])
      at(i) == new[Len(new) - 31 + i]   \* the cell of R1 is Len(new) - 30
  IN  /\ sp' = [sp EXCEPT ![current] = StackSave(full)]
      /\ current' = t
      /\ regs' = [r \in Register |-> IF r = 0 THEN new[Len(new) - 32] ELSE at(r)]
      /\ sreg' = new[Len(new) - 31]
      /\ place' = IF new[Len(new) - 33] = "handle" THEN "app" ELSE "switched"
      /\ stack' = dest[1]
      /\ mem' = [mem EXCEPT ![stack] = SubSeq(full, 1, Len(full) - 2),
                            ![dest[1]] = SubSeq(new, 1, Len(new) - 34)]

\* BermudaSchedulerStart; its caller never runs again.
SchedulerStart ==
  /\ place = "boot"
  /\ SwitchTask(<<>>, runQ[1])
  /\ UNCHANGED <<runQ, killQ, head, qnext, life, kept>>

\* BermudaThreadFree: the threads of the kill queue and their stacks.
Freed(q) == [t \in CtxThread |-> IF t \in {q[i] : i \in DOMAIN q} THEN "freed" ELSE life[t]]

(***************************************************************************)
(* BermudaSchedulerExec with the queues rq and kq: it switches when the    *)
(* current thread is not the first; once it runs, it frees the dead ones.  *)
(***************************************************************************)
SchedulerExec(rq, kq) ==
  /\ runQ' = rq
  /\ IF rq[1] # current
     THEN /\ SwitchTask(<<"exec">>, rq[1])
          /\ killQ' = kq /\ UNCHANGED life
     ELSE /\ killQ' = <<>> /\ life' = Freed(kq)
          /\ UNCHANGED <<current, regs, sreg, stack, mem, sp, place>>

\* Back from BermudaSwitchTask: ExitCritical, BermudaThreadFree, return.
Resume ==
  /\ place = "switched"
  /\ sreg' = mem[stack][Len(mem[stack])]
  /\ mem' = [mem EXCEPT ![stack] = SubSeq(@, 1, Len(@) - 2)]
  /\ place' = "app"
  /\ life' = Freed(killQ) /\ killQ' = <<>>
  /\ UNCHANGED <<current, runQ, head, qnext, regs, stack, sp, kept>>

-----------------------------------------------------------------------------
\* The thread computes: one of two values of its own in every register.
Compute(k) ==
  /\ place = "app"
  /\ regs' = [r \in Register |-> <<current, r, k>>]
  /\ kept' = [kept EXCEPT ![current] = regs']
  /\ UNCHANGED <<current, runQ, killQ, head, qnext, life, sreg, stack, mem, sp, place>>

\* BermudaThreadCreate: the idle thread creates MAIN, the others the rest.
ThreadCreate(t) ==
  /\ place = "app" /\ life[t] = "new"
  /\ (current = Idle) = (t = Main)
  /\ mem' = [mem EXCEPT ![t] = StackInit(t, sreg)]
  /\ sp' = [sp EXCEPT ![t] = <<t, 34>>]
  /\ life' = [life EXCEPT ![t] = "live"]
  /\ qnext' = [qnext EXCEPT ![t] = head]
  /\ head' = t
  /\ runQ' = Q!PrioInsert(runQ, t, CtxPrio)
  /\ kept' = [kept EXCEPT ![t] = FreshRegisters(t)]
  /\ UNCHANGED <<current, killQ, regs, sreg, stack, place>>

\* BermudaThreadYield; the idle thread, last of the run queue, stays there.
ThreadYield ==
  /\ place = "app"
  /\ SchedulerExec(IF Q!Successor(runQ, current) = NoThread THEN runQ
                   ELSE Q!PrioInsert(RemoveFirst(runQ, current), current, CtxPrio), killQ)
  /\ UNCHANGED <<head, qnext, kept>>

\* BermudaThreadSleep, BermudaThreadWait, and a wait for an event.
ThreadWait ==
  /\ place = "app" /\ current # Idle
  /\ SchedulerExec(RemoveFirst(runQ, current), killQ)
  /\ UNCHANGED <<head, qnext, kept>>

\* A time-out, an event or a notification makes t ready.
MakeReady(t) ==
  /\ place = "app"
  /\ life[t] = "live" /\ ~Contains(runQ, t) /\ ~Contains(killQ, t)
  /\ runQ' = Q!PrioInsert(runQ, t, CtxPrio)
  /\ UNCHANGED <<current, killQ, head, qnext, life, regs, sreg, stack, mem, sp, place, kept>>

\* BermudaThreadGetByName("MAIN"): a walk from the head along q_next.
MainIsFound ==
  LET walk[t \in CtxThread \cup {NoThread}, k \in 0 .. Cardinality(CtxThread)] ==
        t # NoThread /\ (t = Main \/ (k > 0 /\ walk[qnext[t], k - 1]))
  IN  walk[head, Cardinality(CtxThread)]

(***************************************************************************)
(* BermudaThreadExit.  To take the thread off the list of all threads it   *)
(* calls BermudaThreadQueueRemove, which follows next: it finds the thread *)
(* only at the head, and ends the list there, as its next is NULL by then. *)
(* A thread that gets a successor in the kill queue would take part of it  *)
(* into the run queue (BermudaThreadYield): the second conjunct leaves     *)
(* that case out.                                                          *)
(***************************************************************************)
ThreadExit ==
  /\ place = "app" /\ current # Idle
  /\ Q!Successor(Q!PrioInsert(killQ, current, CtxPrio), current) = NoThread
  /\ current = Main => ~MainIsFound
  /\ head' = IF head = current THEN NoThread ELSE head
  /\ SchedulerExec(RemoveFirst(runQ, current), Append(killQ, current))
  /\ UNCHANGED <<qnext, kept>>

CtxNext ==
  \/ SchedulerStart \/ Resume
  \/ \E k \in 0 .. 1 : Compute(k)
  \/ \E t \in CtxThread : ThreadCreate(t) \/ MakeReady(t)
  \/ ThreadYield \/ ThreadWait \/ ThreadExit

-----------------------------------------------------------------------------
CtxTypeOK ==
  /\ current \in CtxThread /\ Range(runQ) \cup Range(killQ) \subseteq CtxThread
  /\ \A t \in CtxThread : life[t] \in {"new", "live", "freed"}
  /\ place \in {"boot", "app", "switched"}
  /\ DOMAIN regs = Register /\ sreg \in BOOLEAN

(***************************************************************************)
(* BermudaSwitchTask, BermudaStackInit, BermudaStackSave: the thread that  *)
(* runs is not freed, is on its own stack, finds in all its registers what *)
(* it left in them or, at its start, its parameter, and is back with       *)
(* interrupts on and nothing of the switch left on its stack.  No freed    *)
(* thread is ready to run.                                                 *)
(***************************************************************************)
ResumesOwn ==
  /\ \A t \in Range(runQ) \cup {current} : life[t] = "live"
  /\ place # "boot" => stack = current /\ regs = kept[current]
  /\ place = "app" => sreg = TRUE /\ mem[stack] = <<>>
=============================================================================
