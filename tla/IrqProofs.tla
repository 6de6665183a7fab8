------------------------------ MODULE IrqProofs ------------------------------
(***************************************************************************)
(* What interrupt handlers share with the tasks they interrupt. First the   *)
(* flag, the frames, the controllers and the tick counter, for any number   *)
(* of tasks and devices on the second controller, any width of the counter  *)
(* and any period of timer_print. Then the keyboard buffer, for every ring  *)
(* size and every set of characters, and that it implements the bounded     *)
(* FIFO.                                                                    *)
(***************************************************************************)
EXTENDS Interrupts, KeyboardBuffer, SequenceTheorems, TLAPS

InterruptsTypeOK ==
    /\ IF_ \in BOOLEAN /\ irq_if \in BOOLEAN /\ acked \in BOOLEAN
    /\ cpu \in {"task", "handler", "dead"}
    /\ current \in Tasks
    /\ task \in [Tasks -> BootPoints \cup Points]
    /\ eflags_if \in [Tasks -> BOOLEAN]
    /\ irq \in Lines
    /\ ticks \in 0 .. WORD - 1 /\ last_printed_ticks \in 0 .. WORD - 1
    /\ since \in 0 .. PRINT_PERIOD

\* Task 0 is the loop of kmain and no other task is; nothing else runs before it
\* has enabled interrupts.
KernelLoop ==
    /\ task[0] \in BootPoints
    /\ \A t \in Tasks \ {0} : task[t] \in Points
    /\ task[0] = "boot" =>
          ~IF_ /\ cpu = "task" /\ current = 0 /\ \A t \in Tasks \ {0} : task[t] = "unused"

\* A system call returns with interrupts on.
FramesOn == \A t \in Tasks : task[t] = "syscall" => eflags_if[t]

\* Ticks the code counts since the last print are no more than there were, but
\* between the read that prints and the one that is stored; a print that is due
\* stays due.
TicksCounted ==
    /\ task[0] # "store" /\ since < PRINT_PERIOD =>
          (ticks - last_printed_ticks) % WORD <= since
    /\ task[0] = "print" => since = PRINT_PERIOD

InterruptsInv ==
    /\ InterruptsTypeOK /\ KernelLoop /\ FramesOn
    /\ InterruptsOn /\ ServiceMatches /\ TicksCounted

-----------------------------------------------------------------------------
\* Task 0 exists; lines are naturals and the cascade is not a device's.
LEMMA Constants ==
    /\ 0 \in Tasks
    /\ Lines \subseteq Nat
    /\ WORD \in Nat /\ PRINT_PERIOD \in Nat /\ PRINT_PERIOD >= 1 /\ WORD > PRINT_PERIOD
BY InterruptsAssumption DEF Tasks, Lines, Timer, Keyboard

\* A system call leaves interrupts as they are, an interrupt turns them off.
LEMMA Gates == IsTrap("syscall") /\ ~IsTrap("irq")
<1>1. 239 % 16 = 15 /\ 142 % 16 = 14
    OBVIOUS
<1> QED BY <1>1 DEF IsTrap, idt

\* The least of a single line.
LEMMA LeastOne == ASSUME NEW l \in Nat PROVE Least({l}) = l
BY DEF Least

\* The end of the only interrupt in service leaves none.
LEMMA EoiClears ==
    ASSUME NEW l \in Lines, isr = {l} \cup {d \in {Cascade} : l >= 8}
    PROVE  pic_send_eoi(l) = {}
<1>1. l \in Nat
    BY Constants
<1>2. CASE l < 8
  <2>1. isr = {l} /\ Master(isr) = {l}
      BY <1>1, <1>2 DEF Master, Cascade
  <2> QED BY <1>1, <2>1, LeastOne DEF pic_send_eoi
<1>3. CASE l >= 8
  <2>1. isr = {l, Cascade}
      BY <1>3
  <2>2. Master(isr) = {Cascade} /\ Slave(isr) = {l}
      BY <1>1, <1>3, <2>1 DEF Master, Slave, Cascade
  <2>3. Least({Cascade}) = Cascade /\ Least({l}) = l
      BY <1>1, LeastOne DEF Cascade
  <2> QED BY <1>3, <2>1, <2>2, <2>3 DEF pic_send_eoi
<1> QED BY <1>1, <1>2, <1>3

\* One more tick is at most one more tick since the last print.
LEMMA OneMoreTick ==
    ASSUME NEW t \in 0 .. WORD - 1, NEW p \in 0 .. WORD - 1
    PROVE  /\ (t + 1) % WORD \in 0 .. WORD - 1
           /\ (((t + 1) % WORD) - p) % WORD <= ((t - p) % WORD) + 1
<1>1. (t + 1) % WORD = IF t + 1 = WORD THEN 0 ELSE t + 1
    BY Constants
<1>2. ASSUME NEW d \in Int, -WORD < d, d < WORD
      PROVE  d % WORD = IF d >= 0 THEN d ELSE d + WORD
    BY <1>2, Constants
<1>3. CASE t + 1 = WORD
  <2>1. (0 - p) % WORD = IF p = 0 THEN 0 ELSE WORD - p
      BY <1>2, Constants
  <2>2. (t - p) % WORD = t - p
      BY <1>2, <1>3, Constants
  <2> QED BY <1>1, <1>3, <2>1, <2>2, Constants
<1>4. CASE t + 1 # WORD
  <2>1. (t + 1 - p) % WORD = IF t + 1 >= p THEN t + 1 - p ELSE t + 1 - p + WORD
      BY <1>2, <1>4, Constants
  <2>2. (t - p) % WORD = IF t >= p THEN t - p ELSE t - p + WORD
      BY <1>2, <1>4, Constants
  <2> QED BY <1>1, <1>4, <2>1, <2>2, Constants
<1> QED BY <1>3, <1>4

-----------------------------------------------------------------------------
(* The invariant *)

\* The machine at boot satisfies it.
LEMMA InterruptsInitInv == InterruptsInit => InterruptsInv
<1> SUFFICES ASSUME InterruptsInit PROVE InterruptsInv
    OBVIOUS
<1>1. (0 - 0) % WORD = 0
    BY Constants
<1>2. InterruptsTypeOK
  <2>1. task \in [Tasks -> BootPoints \cup Points] /\ eflags_if \in [Tasks -> BOOLEAN]
      BY DEF InterruptsInit, BootPoints, Points
  <2>2. ticks \in 0 .. WORD - 1 /\ last_printed_ticks \in 0 .. WORD - 1 /\ since \in 0 .. PRINT_PERIOD
      BY Constants DEF InterruptsInit
  <2> QED BY <2>1, <2>2, Constants DEF InterruptsInit, InterruptsTypeOK, Lines
<1>3. KernelLoop /\ FramesOn
    BY Constants DEF InterruptsInit, KernelLoop, FramesOn, BootPoints, Points
<1>4. InterruptsOn /\ ServiceMatches /\ TicksCounted
    BY <1>1, Constants DEF InterruptsInit, InterruptsOn, ServiceMatches, TicksCounted
<1> QED BY <1>2, <1>3, <1>4 DEF InterruptsInv

\* A device raises its line.
LEMMA RaiseInv == InterruptsInv /\ Raise => InterruptsInv'
BY DEF Raise, cpuVars, irqVars, timerVars, InterruptsInv, InterruptsTypeOK, KernelLoop,
       FramesOn, InterruptsOn, ServiceMatches, TicksCounted

\* The processor takes an interrupt.
LEMMA DeliverInv == ASSUME InterruptsInv, NEW l \in Lines, Deliver(l) PROVE InterruptsInv'
<1>0. /\ IF_ /\ cpu = "task" /\ task[0] # "boot" /\ isr = {}
    BY DEF Deliver, InterruptsInv, KernelLoop, ServiceMatches
<1>1. /\ isr' = isr \cup {l} \cup (IF l >= 8 THEN {Cascade} ELSE {})
      /\ cpu' = "handler" /\ irq' = l /\ acked' = FALSE
      /\ irq_if' = TRUE /\ IF_' = FALSE
      /\ UNCHANGED <<current, eflags_if, ticks, last_printed_ticks, since>>
    BY <1>0, Gates DEF Deliver, timerVars
<1>2. \/ UNCHANGED task
      \/ current = 0 /\ task[0] = "halted" /\ task' = [task EXCEPT ![0] = "poll"]
  <2>1. task[current] = "halted" => current = 0
      BY DEF InterruptsInv, InterruptsTypeOK, KernelLoop, Points
  <2> QED BY <2>1 DEF Deliver
<1>3. InterruptsTypeOK'
    BY <1>0, <1>1, <1>2, Constants DEF InterruptsInv, InterruptsTypeOK, BootPoints
<1>4. KernelLoop' /\ FramesOn'
    BY <1>0, <1>1, <1>2, Constants
    DEF InterruptsInv, InterruptsTypeOK, KernelLoop, FramesOn, BootPoints
<1>5. InterruptsOn'
    BY <1>0, <1>1 DEF InterruptsOn
<1>6. ServiceMatches'
    BY <1>0, <1>1 DEF ServiceMatches
<1>7. TicksCounted'
    BY <1>0, <1>1, <1>2, Constants DEF InterruptsInv, InterruptsTypeOK, TicksCounted
<1> QED BY <1>3, <1>4, <1>5, <1>6, <1>7 DEF InterruptsInv

\* The handler does its work and acknowledges.
LEMMA HandlerInv == ASSUME InterruptsInv, irq_handler PROVE InterruptsInv'
<1>1. /\ cpu = "handler" /\ ~acked /\ acked' = TRUE /\ isr' = pic_send_eoi(irq)
      /\ UNCHANGED <<IF_, cpu, current, task, eflags_if, irq, irq_if>>
    BY DEF irq_handler, cpuVars
<1>2. isr' = {}
    BY <1>1, EoiClears DEF InterruptsInv, InterruptsTypeOK, ServiceMatches
<1>3. \/ UNCHANGED <<ticks, last_printed_ticks, since>>
      \/ /\ ticks' = (ticks + 1) % WORD
         /\ since' = IF since = PRINT_PERIOD THEN since ELSE since + 1
         /\ last_printed_ticks' = last_printed_ticks
    BY DEF irq_handler, timerVars
<1>4. /\ (ticks + 1) % WORD \in 0 .. WORD - 1
      /\ (((ticks + 1) % WORD) - last_printed_ticks) % WORD
            <= ((ticks - last_printed_ticks) % WORD) + 1
      /\ (ticks - last_printed_ticks) % WORD \in Int
      /\ (((ticks + 1) % WORD) - last_printed_ticks) % WORD \in Int
    BY OneMoreTick, Constants DEF InterruptsInv, InterruptsTypeOK
<1>5. InterruptsTypeOK'
    BY <1>1, <1>3, <1>4, Constants DEF InterruptsInv, InterruptsTypeOK
<1>6. KernelLoop' /\ FramesOn' /\ InterruptsOn' /\ ServiceMatches'
    BY <1>1, <1>2 DEF InterruptsInv, KernelLoop, FramesOn, InterruptsOn, ServiceMatches
<1>7. TicksCounted'
    BY <1>1, <1>3, <1>4, Constants DEF InterruptsInv, InterruptsTypeOK, TicksCounted
<1> QED BY <1>5, <1>6, <1>7 DEF InterruptsInv

\* Back to the task that was interrupted.
LEMMA IretInv == ASSUME InterruptsInv, iret PROVE InterruptsInv'
<1>1. /\ cpu = "handler" /\ acked /\ cpu' = "task" /\ IF_' = irq_if /\ irq_if
      /\ irq' = Timer /\ irq_if' = FALSE
      /\ UNCHANGED <<current, task, eflags_if, acked, isr, ticks, last_printed_ticks, since>>
    BY DEF iret, picVars, timerVars, InterruptsInv, InterruptsOn
<1>2. InterruptsTypeOK'
    BY <1>1 DEF InterruptsInv, InterruptsTypeOK, Lines
<1>3. KernelLoop' /\ FramesOn'
    BY <1>1 DEF InterruptsInv, KernelLoop, FramesOn
<1>4. InterruptsOn' /\ ServiceMatches' /\ TicksCounted'
    BY <1>1 DEF InterruptsInv, InterruptsOn, ServiceMatches, TicksCounted
<1> QED BY <1>2, <1>3, <1>4 DEF InterruptsInv

\* What a step keeps that changes neither the tick counter nor what is served.
LEMMA TaskStep ==
    ASSUME InterruptsInv, cpu = "task", cpu' = "task",
           UNCHANGED <<irqVars, isr, timerVars>>,
           task[0] = "store" => task'[0] = "store",
           task'[0] = "print" => task[0] = "print" \/ since = PRINT_PERIOD
    PROVE  ServiceMatches' /\ TicksCounted'
BY DEF InterruptsInv, ServiceMatches, TicksCounted, irqVars, timerVars

\* Enabling interrupts, at the end of the boot.
LEMMA KmainInv == ASSUME InterruptsInv, kmain PROVE InterruptsInv'
<1>1. /\ cpu = "task" /\ current = 0 /\ task[0] = "boot" /\ IF_' = TRUE
      /\ \A t \in Tasks \ {0} : task[t] = "unused"
      /\ UNCHANGED <<cpu, current, eflags_if, irqVars, isr, timerVars>>
    BY DEF kmain, Runs, InterruptsInv, KernelLoop
<1>2. \/ task' = [task EXCEPT ![0] = "halted"]
      \/ 1 \in Tasks /\ task' = [task EXCEPT ![0] = "init", ![1] = "start"]
    BY DEF kmain
<1>3. task \in [Tasks -> BootPoints \cup Points]
    BY DEF InterruptsInv, InterruptsTypeOK
<1>4. task' \in [Tasks -> BootPoints \cup Points]
    BY <1>2, <1>3 DEF BootPoints, Points
<1>5. InterruptsTypeOK'
    BY <1>1, <1>4 DEF InterruptsInv, InterruptsTypeOK, irqVars, timerVars
<1>6. KernelLoop' /\ FramesOn'
    BY <1>1, <1>2, <1>3, Constants DEF KernelLoop, FramesOn, BootPoints, Points
<1>7. ServiceMatches' /\ TicksCounted'
    BY <1>1, <1>2, <1>3, Constants, TaskStep
<1>8. InterruptsOn'
    BY <1>1 DEF InterruptsOn
<1> QED BY <1>5, <1>6, <1>7, <1>8 DEF InterruptsInv

\* A switch to another task, by a task that is still able to run or has become
\* a zombie.
LEMMA YieldInv ==
    ASSUME InterruptsInv, cpu = "task", task[0] # "boot",
           NEW from \in [Tasks -> BootPoints \cup Points],
           from[0] = task[0],
           \A t \in Tasks \ {0} : from[t] \in Points /\ (from[t] = "syscall" => task[t] = "syscall"),
           sched_yield(from)
    PROVE  InterruptsInv'
<1>1. /\ UNCHANGED <<IF_, cpu, irqVars, picVars, timerVars>>
      /\ current' \in Tasks
      /\ task' = [t \in Tasks |->
                     IF from[t] = "zombie" /\ t # current THEN "unused" ELSE from[t]]
      /\ eflags_if' = [t \in Tasks |-> from[t] = "syscall" /\ eflags_if[t]]
    BY DEF sched_yield, InterruptsInv, InterruptsTypeOK
<1>2. task' \in [Tasks -> BootPoints \cup Points] /\ task'[0] = task[0]
    BY <1>1, Constants DEF Points, BootPoints, InterruptsInv, KernelLoop
<1>3. eflags_if' \in [Tasks -> BOOLEAN]
    BY <1>1 DEF InterruptsInv, InterruptsTypeOK
<1>4. InterruptsTypeOK'
    BY <1>1, <1>2, <1>3 DEF InterruptsInv, InterruptsTypeOK, irqVars, timerVars
<1>5. KernelLoop'
    BY <1>1, <1>2, Constants DEF InterruptsInv, KernelLoop, Points
<1>6. FramesOn'
  <2>1. \A t \in Tasks : from[t] = "syscall" => eflags_if[t]
      BY Constants DEF InterruptsInv, KernelLoop, FramesOn, BootPoints
  <2>2. \A t \in Tasks : task'[t] = "syscall" => from[t] = "syscall"
      BY <1>1
  <2> QED BY <1>1, <2>1, <2>2 DEF FramesOn
<1>7. ServiceMatches' /\ TicksCounted'
    BY <1>1, <1>2, TaskStep DEF picVars
<1>8. InterruptsOn'
    BY <1>1, <1>2 DEF InterruptsInv, InterruptsOn, irqVars
<1> QED BY <1>4, <1>5, <1>6, <1>7, <1>8 DEF InterruptsInv

\* A running task, or one that is started, goes on to another point; it is no
\* system call that begins.
LEMMA GoesInv ==
    ASSUME InterruptsInv, cpu = "task", task[0] # "boot",
           NEW t \in Tasks, NEW point \in BootPoints \cup Points,
           Goes(t, point), UNCHANGED picVars, IF_' = TRUE \/ UNCHANGED IF_,
           point \notin {"boot", "syscall"},
           IF t = 0 THEN point \in BootPoints ELSE point \in Points,
           \/ UNCHANGED timerVars /\ task[t] # "store" /\ (point = "print" => since = PRINT_PERIOD)
           \/ t = 0 /\ point = "store" /\ since' = 0 /\ UNCHANGED <<ticks, last_printed_ticks>>
           \/ t = 0 /\ point = "halted" /\ last_printed_ticks' = ticks
              /\ UNCHANGED <<ticks, since>>
    PROVE  InterruptsInv'
<1>1. /\ task' = [task EXCEPT ![t] = point] /\ task \in [Tasks -> BootPoints \cup Points]
      /\ UNCHANGED <<cpu, current, eflags_if, irqVars, isr>>
    BY DEF Goes, InterruptsInv, InterruptsTypeOK, picVars
<1>2. InterruptsTypeOK'
  <2>1. task' \in [Tasks -> BootPoints \cup Points]
      BY <1>1
  <2>2. IF_' \in BOOLEAN
      BY DEF InterruptsInv, InterruptsTypeOK
  <2>3. /\ ticks' \in 0 .. WORD - 1 /\ last_printed_ticks' \in 0 .. WORD - 1
        /\ since' \in 0 .. PRINT_PERIOD
      BY Constants DEF InterruptsInv, InterruptsTypeOK, timerVars
  <2> QED BY <1>1, <2>1, <2>2, <2>3 DEF InterruptsInv, InterruptsTypeOK, irqVars
<1>3. KernelLoop'
    BY <1>1, Constants DEF InterruptsInv, KernelLoop
<1>4. FramesOn'
    BY <1>1 DEF InterruptsInv, FramesOn
<1>5. ServiceMatches'
    BY <1>1 DEF InterruptsInv, ServiceMatches, irqVars
<1>6. InterruptsOn'
    BY <1>1 DEF InterruptsInv, InterruptsOn
<1>7. TicksCounted'
  <2>1. (ticks - ticks) % WORD = 0
      BY Constants DEF InterruptsInv, InterruptsTypeOK
  <2>2. task'[0] = (IF t = 0 THEN point ELSE task[0])
      BY <1>1, Constants
  <2> QED BY <2>1, <2>2, Constants
          DEF InterruptsInv, InterruptsTypeOK, KernelLoop, TicksCounted, timerVars, Points
<1> QED BY <1>2, <1>3, <1>4, <1>5, <1>6, <1>7 DEF InterruptsInv

\* user_init waits for init, or goes on.
LEMMA UserInitInv == ASSUME InterruptsInv, user_init PROVE InterruptsInv'
<1>1. /\ cpu = "task" /\ task[0] = "init" /\ task \in [Tasks -> BootPoints \cup Points]
      /\ \A t \in Tasks \ {0} : task[t] \in Points
    BY DEF user_init, Runs, InterruptsInv, InterruptsTypeOK, KernelLoop
<1>2. CASE sched_yield(task)
    BY <1>1, <1>2, YieldInv
<1>3. CASE Goes(0, "halted") /\ UNCHANGED <<IF_, picVars, timerVars>>
    BY <1>1, <1>3, GoesInv, Constants DEF BootPoints
<1> QED BY <1>2, <1>3 DEF user_init

\* The kernel shell's turn in kmain's loop.
LEMMA PollInv == ASSUME InterruptsInv, kshell_poll PROVE InterruptsInv'
<1>1. /\ cpu = "task" /\ task[0] = "poll" /\ task \in [Tasks -> BootPoints \cup Points]
      /\ \A t \in Tasks \ {0} : task[t] \in Points
    BY DEF kshell_poll, Runs, InterruptsInv, InterruptsTypeOK, KernelLoop
<1>2. CASE sched_yield(task)
    BY <1>1, <1>2, YieldInv
<1>3. CASE Goes(0, "test") /\ UNCHANGED <<IF_, picVars, timerVars>>
    BY <1>1, <1>3, GoesInv, Constants DEF BootPoints
<1>4. ASSUME NEW t \in Tasks, task[t] = "unused", Goes(t, "start"),
             UNCHANGED <<IF_, picVars, timerVars>>
      PROVE  InterruptsInv'
    BY <1>1, <1>4, GoesInv, Constants DEF Points
<1> QED BY <1>2, <1>3, <1>4 DEF kshell_poll

\* The three accesses of timer_print.
LEMMA PrintInv == ASSUME InterruptsInv, timer_print PROVE InterruptsInv'
<1>1. cpu = "task" /\ task[0] \in {"test", "print", "store"} /\ UNCHANGED <<IF_, picVars>>
    BY DEF timer_print, Runs
<1>2. CASE Runs(0, "test") /\ Goes(0, IF PrintDue THEN "print" ELSE "halted")
           /\ UNCHANGED timerVars
  <2>1. PrintDue => since = PRINT_PERIOD
    <3>1. task[0] # "store" /\ (ticks - last_printed_ticks) % WORD \in Int
        BY <1>2, Constants DEF Runs, InterruptsInv, InterruptsTypeOK
    <3> QED BY <3>1, Constants DEF PrintDue, InterruptsInv, InterruptsTypeOK, TicksCounted
  <2>2. CASE PrintDue
      BY <1>1, <1>2, <2>1, <2>2, GoesInv, Constants DEF BootPoints, Runs
  <2>3. CASE ~PrintDue
      BY <1>1, <1>2, <2>3, GoesInv, Constants DEF BootPoints, Runs
  <2> QED BY <2>2, <2>3
<1>3. CASE Runs(0, "print") /\ Goes(0, "store")
           /\ since' = 0 /\ UNCHANGED <<ticks, last_printed_ticks>>
    BY <1>1, <1>3, GoesInv, Constants DEF BootPoints
<1>4. CASE Runs(0, "store") /\ Goes(0, "halted")
           /\ last_printed_ticks' = ticks /\ UNCHANGED <<ticks, since>>
    BY <1>1, <1>4, GoesInv, Constants DEF BootPoints
<1> QED BY <1>2, <1>3, <1>4 DEF timer_print

\* The task that runs is not task 0 unless it is at a point of kmain's loop.
LEMMA NotTheLoop ==
    ASSUME InterruptsInv, NEW t \in Tasks, NEW point \in Points, Runs(t, point)
    PROVE  /\ t # 0 /\ task[0] # "boot" /\ cpu = "task" /\ task[t] = point
           /\ task \in [Tasks -> BootPoints \cup Points]
           /\ point # "unused" => IF_
<1>1. /\ cpu = "task" /\ task[t] = point /\ current = t
      /\ task \in [Tasks -> BootPoints \cup Points]
    BY DEF Runs, InterruptsInv, InterruptsTypeOK
<1>2. BootPoints \cap Points = {}
    BY DEF BootPoints, Points
<1>3. t # 0
    BY <1>1, <1>2 DEF InterruptsInv, KernelLoop
<1>4. task[0] # "boot"
    BY <1>1, <1>3 DEF InterruptsInv, KernelLoop
<1> QED BY <1>1, <1>3, <1>4 DEF InterruptsInv, InterruptsOn

\* A task that ends becomes a zombie and switches away.
LEMMA ExitInv ==
    ASSUME InterruptsInv, NEW t \in Tasks, NEW point \in Points, Runs(t, point),
           sched_yield([task EXCEPT ![t] = "zombie"])
    PROVE  InterruptsInv'
<1> DEFINE from == [task EXCEPT ![t] = "zombie"]
<1>1. /\ t # 0 /\ task[0] # "boot" /\ cpu = "task"
      /\ task \in [Tasks -> BootPoints \cup Points]
    BY NotTheLoop
<1>2. /\ from \in [Tasks -> BootPoints \cup Points] /\ from[0] = task[0]
      /\ \A u \in Tasks \ {0} : from[u] \in Points /\ (from[u] = "syscall" => task[u] = "syscall")
    BY <1>1, Constants DEF InterruptsInv, KernelLoop, Points
<1> HIDE DEF from
<1>3. sched_yield(from)
    BY DEF from
<1> QED BY <1>1, <1>2, <1>3, YieldInv

\* A thread enters user mode or ends.
LEMMA ExecInv == ASSUME InterruptsInv, user_exec_task PROVE InterruptsInv'
<1>1. PICK t \in Tasks :
         /\ Runs(t, "start")
         /\ \/ Goes(t, "user") /\ IF_' = TRUE /\ UNCHANGED <<picVars, timerVars>>
            \/ sched_yield([task EXCEPT ![t] = "zombie"])
    BY DEF user_exec_task
<1>2. t # 0 /\ task[0] # "boot" /\ cpu = "task" /\ task[t] = "start"
    BY <1>1, NotTheLoop DEF Points
<1>3. CASE Goes(t, "user") /\ IF_' = TRUE /\ UNCHANGED <<picVars, timerVars>>
    BY <1>2, <1>3, GoesInv DEF Points
<1>4. CASE sched_yield([task EXCEPT ![t] = "zombie"])
    BY <1>1, <1>4, ExitInv DEF Points
<1> QED BY <1>1, <1>3, <1>4

\* A system call begins or returns: its frame carries the flag.
LEMMA FrameInv ==
    ASSUME InterruptsInv, NEW t \in Tasks, NEW point \in {"user", "syscall"}, Runs(t, point),
           IF_' = TRUE,
           \/ task' = [task EXCEPT ![t] = "syscall"] /\ eflags_if' = [eflags_if EXCEPT ![t] = TRUE]
           \/ task' = [task EXCEPT ![t] = "user"] /\ eflags_if' = [eflags_if EXCEPT ![t] = FALSE],
           UNCHANGED <<cpu, current, irqVars, picVars, timerVars>>
    PROVE  InterruptsInv'
<1>1. /\ t # 0 /\ task[0] # "boot" /\ cpu = "task"
      /\ task \in [Tasks -> BootPoints \cup Points]
    BY NotTheLoop DEF Points
<1>2. /\ eflags_if \in [Tasks -> BOOLEAN]
      /\ \A u \in Tasks : task[u] = "syscall" => eflags_if[u]
    BY DEF InterruptsInv, InterruptsTypeOK, FramesOn
<1>3. task' \in [Tasks -> BootPoints \cup Points] /\ task'[0] = task[0]
    BY <1>1, Constants DEF Points
<1>4. eflags_if' \in [Tasks -> BOOLEAN]
    BY <1>2
<1>5. InterruptsTypeOK'
    BY <1>3, <1>4 DEF InterruptsInv, InterruptsTypeOK, irqVars, timerVars
<1>6. KernelLoop'
    BY <1>1, <1>3 DEF InterruptsInv, KernelLoop, Points
<1>7. FramesOn'
    BY <1>1, <1>2 DEF FramesOn
<1>8. ServiceMatches' /\ TicksCounted'
    BY <1>1, <1>3, TaskStep DEF picVars
<1>9. InterruptsOn'
    BY <1>1 DEF InterruptsOn
<1> QED BY <1>5, <1>6, <1>7, <1>8, <1>9 DEF InterruptsInv

\* int $0x80.
LEMMA SyscallInv == ASSUME InterruptsInv, syscall_stub PROVE InterruptsInv'
<1>1. PICK t \in Tasks :
         /\ Runs(t, "user")
         /\ task' = [task EXCEPT ![t] = "syscall"]
         /\ eflags_if' = [eflags_if EXCEPT ![t] = IF_]
         /\ IF_' = (IF_ /\ IsTrap("syscall"))
         /\ UNCHANGED <<cpu, current, irqVars, picVars, timerVars>>
    BY DEF syscall_stub
<1>2. IF_ = TRUE
    BY <1>1, NotTheLoop DEF Points, InterruptsInv, InterruptsTypeOK
<1>3. IF_' = TRUE /\ eflags_if' = [eflags_if EXCEPT ![t] = TRUE]
    BY <1>1, <1>2, Gates
<1> QED BY <1>1, <1>3, FrameInv

\* What a system call does.
LEMMA DispatchInv == ASSUME InterruptsInv, syscall_dispatch PROVE InterruptsInv'
<1>1. PICK t \in Tasks :
         /\ Runs(t, "syscall")
         /\ \/ sched_yield(task)
            \/ \E u \in Tasks : /\ task[u] = "unused"
                                /\ Goes(u, "start") /\ UNCHANGED <<IF_, picVars, timerVars>>
            \/ sched_yield([task EXCEPT ![t] = "zombie"])
            \/ /\ task' = [task EXCEPT ![t] = "user"]
               /\ IF_' = eflags_if[t] /\ eflags_if' = [eflags_if EXCEPT ![t] = FALSE]
               /\ UNCHANGED <<cpu, current, irqVars, picVars, timerVars>>
    BY DEF syscall_dispatch
<1>2. /\ t # 0 /\ task[0] # "boot" /\ cpu = "task" /\ task[t] = "syscall"
      /\ task \in [Tasks -> BootPoints \cup Points]
    BY <1>1, NotTheLoop DEF Points
<1>3. \A u \in Tasks \ {0} : task[u] \in Points
    BY DEF InterruptsInv, KernelLoop
<1>4. CASE sched_yield(task)
    BY <1>2, <1>3, <1>4, YieldInv
<1>5. ASSUME NEW u \in Tasks, task[u] = "unused", Goes(u, "start"),
             UNCHANGED <<IF_, picVars, timerVars>>
      PROVE  InterruptsInv'
  <2>1. u # 0
      BY <1>5 DEF InterruptsInv, KernelLoop, BootPoints
  <2> QED BY <1>2, <1>5, <2>1, GoesInv DEF Points
<1>6. CASE sched_yield([task EXCEPT ![t] = "zombie"])
    BY <1>1, <1>6, ExitInv DEF Points
<1>7. CASE /\ task' = [task EXCEPT ![t] = "user"]
           /\ IF_' = eflags_if[t] /\ eflags_if' = [eflags_if EXCEPT ![t] = FALSE]
           /\ UNCHANGED <<cpu, current, irqVars, picVars, timerVars>>
  <2>1. eflags_if[t] = TRUE
      BY <1>2 DEF InterruptsInv, InterruptsTypeOK, FramesOn
  <2> QED BY <1>1, <1>7, <2>1, FrameInv
<1> QED BY <1>1, <1>4, <1>5, <1>6, <1>7

\* The end of the machine.
LEMMA ExceptionInv == ASSUME InterruptsInv, ex_handler PROVE InterruptsInv'
<1>1. PICK t \in Tasks : Runs(t, "user")
    BY DEF ex_handler
<1>2. task[0] # "boot" /\ cpu = "task"
    BY <1>1, NotTheLoop DEF Points
<1> QED BY <1>2 DEF ex_handler, irqVars, picVars, timerVars, InterruptsInv, InterruptsTypeOK,
             KernelLoop, FramesOn, InterruptsOn, ServiceMatches, TicksCounted

\* Every step keeps the invariant.
LEMMA InterruptsStepInv == InterruptsInv /\ [InterruptsNext]_interruptVars => InterruptsInv'
<1> SUFFICES ASSUME InterruptsInv, [InterruptsNext]_interruptVars PROVE InterruptsInv'
    OBVIOUS
<1>1. CASE UNCHANGED interruptVars
    BY <1>1 DEF interruptVars, cpuVars, irqVars, picVars, timerVars, InterruptsInv,
                InterruptsTypeOK, KernelLoop, FramesOn, InterruptsOn, ServiceMatches, TicksCounted
<1>2. CASE Execute
    BY <1>2, HandlerInv, IretInv, KmainInv, UserInitInv, PollInv, PrintInv, ExecInv,
       SyscallInv, DispatchInv DEF Execute
<1>3. CASE Raise \/ ex_handler \/ \E l \in Lines : Deliver(l)
    BY <1>3, RaiseInv, ExceptionInv, DeliverInv
<1> QED BY <1>1, <1>2, <1>3 DEF InterruptsNext

-----------------------------------------------------------------------------
(* Theorems *)

\* The safety part of the specification: fairness is not needed below.
InterruptsSafety == InterruptsInit /\ [][InterruptsNext]_interruptVars

\* The invariant holds in every reachable state.
THEOREM InterruptsInvariant == InterruptsSafety => []InterruptsInv
BY InterruptsInitInv, InterruptsStepInv, PTL DEF InterruptsSafety

\* Whatever runs after irq_enable runs with interrupts on, handlers with them
\* off: the saved flags of any number of tasks stay consistent across gates,
\* irets and switches.
THEOREM TasksRunWithInterruptsOn == InterruptsSafety => []InterruptsOn
BY InterruptsInvariant, PTL DEF InterruptsInv

\* The controllers serve what the kernel handles, for any devices behind the
\* second one: no acknowledgement is lost or goes to another line.
THEOREM ControllersAgree == InterruptsSafety => []ServiceMatches
BY InterruptsInvariant, PTL DEF InterruptsInv

\* timer_print's prints are at least a period apart, for every width of the tick
\* counter and every period below it.
THEOREM PrintsApart == InterruptsSafety => TicksApart
<1>1. InterruptsInv /\ [InterruptsNext]_interruptVars =>
         [Runs(0, "print") /\ task'[0] = "store" => since = PRINT_PERIOD]_interruptVars
    BY DEF InterruptsInv, TicksCounted, Runs
<1> QED BY <1>1, InterruptsInvariant, PTL DEF InterruptsSafety, TicksApart

-----------------------------------------------------------------------------
(* The keyboard buffer *)

N == KEYBOARD_BUFFER_SIZE

\* Every slot from the reader's to before the writer's holds a character.
KeysHeld ==
    \A i \in 0 .. Distance(read_index, write_index) - 1 :
       buffer[(read_index + i) % N] \in Chars

KeyboardInv == KeyboardTypeOK /\ PopUndisturbed /\ ClearForward /\ KeysHeld

-----------------------------------------------------------------------------
(* Arithmetic of the ring *)

\* The size of the ring is a number of slots, at least two.
LEMMA RingSize == N \in Nat /\ N >= 2
BY KeyboardAssumption DEF N

\* The remainder of a number below twice the size.
LEMMA WrapsOnce ==
    ASSUME NEW x \in 0 .. 2 * N - 1
    PROVE  x % N = IF x < N THEN x ELSE x - N
BY RingSize

\* An index advances by one and wraps at the end.
LEMMA FollowingIs ==
    ASSUME NEW i \in Indices
    PROVE  Following(i) \in Indices /\ Following(i) = IF i = N - 1 THEN 0 ELSE i + 1
BY RingSize, WrapsOnce DEF Following, Indices, N

\* The way from one slot to another, without the remainder.
LEMMA DistanceIs ==
    ASSUME NEW a \in Indices, NEW b \in Indices
    PROVE  /\ Distance(a, b) \in 0 .. N - 1
           /\ Distance(a, b) = IF a <= b THEN b - a ELSE b - a + N
BY RingSize, WrapsOnce DEF Distance, Indices, N

\* The slot k places after a.
LEMMA SlotIs ==
    ASSUME NEW a \in Indices, NEW k \in 0 .. N
    PROVE  /\ (a + k) % N \in Indices
           /\ (a + k) % N = IF a + k < N THEN a + k ELSE a + k - N
BY RingSize, WrapsOnce DEF Indices, N

\* A key that is typed fills the slot after those that are held, which is not
\* the reader's.
LEMMA PushDistance ==
    ASSUME NEW a \in Indices, NEW b \in Indices, Following(b) # a
    PROVE  /\ Distance(a, Following(b)) = Distance(a, b) + 1
           /\ (a + Distance(a, b)) % N = b
           /\ \A k \in 0 .. Distance(a, b) - 1 : (a + k) % N # b
<1>1. /\ Following(b) \in Indices /\ Following(b) = IF b = N - 1 THEN 0 ELSE b + 1
      /\ Distance(a, b) \in 0 .. N - 1
      /\ Distance(a, b) = IF a <= b THEN b - a ELSE b - a + N
    BY FollowingIs, DistanceIs
<1>2. Distance(a, Following(b)) = IF a <= Following(b) THEN Following(b) - a ELSE Following(b) - a + N
    BY <1>1, DistanceIs
<1>3. \A k \in 0 .. N - 1 : (a + k) % N = IF a + k < N THEN a + k ELSE a + k - N
    BY SlotIs, RingSize
<1>4. Distance(a, Following(b)) = Distance(a, b) + 1
    BY <1>1, <1>2, RingSize DEF Indices, N
<1> QED BY <1>1, <1>3, <1>4, RingSize DEF Indices, N

\* Moving the reader m slots on, and no further than the writer, shortens what is
\* held by m, and every slot keeps its place.
LEMMA AdvanceDistance ==
    ASSUME NEW a \in Indices, NEW b \in Indices, NEW m \in 0 .. Distance(a, b)
    PROVE  /\ (a + m) % N \in Indices
           /\ Distance((a + m) % N, b) = Distance(a, b) - m
           /\ \A k \in 0 .. Distance(a, b) - m - 1 :
                 (((a + m) % N) + k) % N = (a + (m + k)) % N
<1> DEFINE r == (a + m) % N
<1>1. /\ Distance(a, b) \in 0 .. N - 1
      /\ Distance(a, b) = IF a <= b THEN b - a ELSE b - a + N
    BY DistanceIs
<1>2. r \in Indices /\ r = IF a + m < N THEN a + m ELSE a + m - N
    BY <1>1, SlotIs, RingSize
<1>3. Distance(r, b) = IF r <= b THEN b - r ELSE b - r + N
    BY <1>2, DistanceIs
<1>4. Distance(r, b) = Distance(a, b) - m
    BY <1>1, <1>2, <1>3, RingSize DEF Indices, N
<1>5. ASSUME NEW k \in 0 .. Distance(a, b) - m - 1
      PROVE  (r + k) % N = (a + (m + k)) % N
  <2>0. k \in 0 .. N
      BY <1>1, RingSize
  <2>1. (r + k) % N = IF r + k < N THEN r + k ELSE r + k - N
    <3> HIDE DEF r
    <3> QED BY <1>2, <2>0, SlotIs
  <2>2. (a + (m + k)) % N = IF a + (m + k) < N THEN a + (m + k) ELSE a + (m + k) - N
      BY <1>1, SlotIs, RingSize
  <2> QED BY <1>1, <1>2, <2>1, <2>2, RingSize DEF Indices, N
<1> QED BY <1>2, <1>4, <1>5

-----------------------------------------------------------------------------
(* The invariant *)

\* The empty ring satisfies it.
LEMMA KeyboardInitInv == KeyboardInit => KeyboardInv
<1> SUFFICES ASSUME KeyboardInit PROVE KeyboardInv
    OBVIOUS
<1>1. 0 \in Indices
    BY RingSize DEF Indices, N
<1>2. Distance(0, 0) = 0
    BY <1>1, DistanceIs, RingSize
<1> QED BY <1>1, <1>2
        DEF KeyboardInit, KeyboardInv, KeyboardTypeOK, PopUndisturbed, ClearForward, KeysHeld

\* A key typed at any point of a pop or a clear.
LEMMA PushInv ==
    ASSUME KeyboardInv, NEW key \in Chars, keyboard_buffer_push(key)
    PROVE  KeyboardInv'
<1>1. /\ read_index \in Indices /\ write_index \in Indices /\ loaded \in Indices
      /\ buffer \in [Indices -> Chars \cup {NUL}]
    BY DEF KeyboardInv, KeyboardTypeOK
<1>2. /\ read_index' = read_index /\ loaded' = loaded /\ at' = at /\ c' = c
      /\ write_index' = Following(write_index)
      /\ buffer' = [buffer EXCEPT ![write_index] = key]
      /\ Following(write_index) # read_index
    BY DEF keyboard_buffer_push, HasRoom
<1>3. /\ Distance(read_index, write_index)' = Distance(read_index, write_index) + 1
      /\ Distance(read_index, write_index) \in 0 .. N - 1
      /\ Distance(read_index, loaded)' = Distance(read_index, loaded)
      /\ Distance(read_index, loaded) \in 0 .. N - 1
    BY <1>1, <1>2, PushDistance, DistanceIs DEF Distance
<1>4. /\ (read_index + Distance(read_index, write_index)) % N = write_index
      /\ \A k \in 0 .. Distance(read_index, write_index) - 1 :
            (read_index + k) % N # write_index
    BY <1>1, <1>2, PushDistance
<1>5. KeyboardTypeOK'
    BY <1>1, FollowingIs DEF KeyboardInv, KeyboardTypeOK, keyboard_buffer_push
<1>6. KeysHeld'
  <2> SUFFICES ASSUME NEW i \in 0 .. Distance(read_index, write_index)
               PROVE  buffer'[(read_index + i) % N] \in Chars
      BY <1>2, <1>3, RingSize DEF KeysHeld, N
  <2>1. (read_index + i) % N \in Indices
      BY <1>1, <1>3, SlotIs, RingSize
  <2>2. CASE i = Distance(read_index, write_index)
      BY <1>1, <1>2, <1>4, <2>2
  <2>3. CASE i # Distance(read_index, write_index)
    <3>1. i \in 0 .. Distance(read_index, write_index) - 1
        BY <1>3, <2>3, RingSize
    <3> QED BY <1>1, <1>2, <1>4, <2>1, <3>1 DEF KeyboardInv, KeysHeld
  <2> QED BY <2>2, <2>3
<1>7. PopUndisturbed'
  <2>1. Following(write_index) \in Indices
      BY <1>1, FollowingIs
  <2> QED BY <1>1, <1>2, <2>1 DEF KeyboardInv, PopUndisturbed
<1>8. ClearForward'
    BY <1>2, <1>3, RingSize DEF KeyboardInv, ClearForward
<1> QED BY <1>5, <1>6, <1>7, <1>8 DEF KeyboardInv

\* A reader that moves forward over m of the keys that are held leaves the rest.
LEMMA AdvanceKeepsHeld ==
    ASSUME KeyboardInv, NEW m \in 0 .. Distance(read_index, write_index),
           read_index' = (read_index + m) % N,
           UNCHANGED <<buffer, write_index>>
    PROVE  KeysHeld' /\ read_index' \in Indices
<1>1. read_index \in Indices /\ write_index \in Indices
    BY DEF KeyboardInv, KeyboardTypeOK
<1>2. /\ Distance(read_index, write_index) \in 0 .. N - 1
      /\ Distance(read_index', write_index) = Distance(read_index, write_index) - m
      /\ \A k \in 0 .. Distance(read_index, write_index) - m - 1 :
            (read_index' + k) % N = (read_index + (m + k)) % N
      /\ read_index' \in Indices
    BY <1>1, AdvanceDistance, DistanceIs
<1>3. ASSUME NEW k \in 0 .. Distance(read_index', write_index) - 1
      PROVE  buffer[(read_index' + k) % N] \in Chars
  <2>1. m + k \in 0 .. Distance(read_index, write_index) - 1
      BY <1>2, <1>3, RingSize
  <2>2. k \in 0 .. Distance(read_index, write_index) - m - 1
      BY <1>2
  <2> QED BY <1>2, <2>1, <2>2 DEF KeyboardInv, KeysHeld
<1>4. Distance(read_index, write_index)' = Distance(read_index', write_index)
    BY DEF Distance
<1> QED BY <1>2, <1>3, <1>4 DEF KeysHeld, N

\* Each access of a pop or a clear.
LEMMA ReaderInv ==
    ASSUME KeyboardInv,
           PopEmpty \/ PopTest \/ PopLoad \/ PopAdvance \/ ClearLoad \/ ClearStore
    PROVE  KeyboardInv'
<1>1. /\ read_index \in Indices /\ write_index \in Indices /\ loaded \in Indices
      /\ buffer \in [Indices -> Chars \cup {NUL}]
    BY DEF KeyboardInv, KeyboardTypeOK
<1>2. 0 \in Indices
    BY RingSize DEF Indices, N
<1>3. /\ Distance(read_index, write_index) \in 0 .. N - 1
      /\ Distance(read_index, write_index)
            = IF read_index <= write_index THEN write_index - read_index
              ELSE write_index - read_index + N
      /\ Distance(read_index, loaded) \in 0 .. N - 1
      /\ Distance(read_index, loaded)
            = IF read_index <= loaded THEN loaded - read_index ELSE loaded - read_index + N
    BY <1>1, DistanceIs
<1>4. CASE PopEmpty
  <2>1. KeysHeld'
      BY <1>4 DEF KeyboardInv, KeysHeld, PopEmpty, Distance, N
  <2> QED BY <1>4, <2>1
          DEF PopEmpty, KeyboardInv, KeyboardTypeOK, PopUndisturbed, ClearForward
<1>5. CASE PopTest
  <2>1. KeysHeld'
      BY <1>5 DEF KeyboardInv, KeysHeld, PopTest, Distance, N
  <2>2. 0 \in 0 .. Distance(read_index, write_index) - 1
      BY <1>1, <1>3, <1>5, RingSize DEF PopTest, Indices, N
  <2>3. (read_index + 0) % N = read_index
      BY <1>1, RingSize DEF Indices, N
  <2>4. buffer[read_index] \in Chars
      BY <2>2, <2>3 DEF KeyboardInv, KeysHeld
  <2> QED BY <1>5, <2>1, <2>4, KeyboardAssumption
          DEF PopTest, KeyboardInv, KeyboardTypeOK, PopUndisturbed, ClearForward
<1>6. CASE PopLoad
  <2>1. KeysHeld'
      BY <1>6 DEF KeyboardInv, KeysHeld, PopLoad, Distance, N
  <2> QED BY <1>1, <1>6, <2>1
          DEF PopLoad, KeyboardInv, KeyboardTypeOK, PopUndisturbed, ClearForward
<1>7. CASE PopAdvance
  <2>1. 1 \in 0 .. Distance(read_index, write_index)
      BY <1>1, <1>3, <1>7, RingSize
      DEF PopAdvance, KeyboardInv, PopUndisturbed, Indices, N
  <2>2. KeysHeld' /\ read_index' \in Indices
      BY <1>7, <2>1, AdvanceKeepsHeld DEF PopAdvance, Following, N
  <2> QED BY <1>2, <1>7, <2>2
          DEF PopAdvance, KeyboardInv, KeyboardTypeOK, PopUndisturbed, ClearForward
<1>8. CASE ClearLoad
  <2>1. KeysHeld'
      BY <1>8 DEF KeyboardInv, KeysHeld, ClearLoad, Distance, N
  <2>2. ClearForward'
      BY <1>1, <1>3, <1>8, RingSize DEF ClearLoad, ClearForward, Distance
  <2> QED BY <1>1, <1>8, <2>1, <2>2
          DEF ClearLoad, KeyboardInv, KeyboardTypeOK, PopUndisturbed
<1>9. CASE ClearStore
  <2>1. Distance(read_index, loaded) \in 0 .. Distance(read_index, write_index)
      BY <1>3, <1>9, RingSize DEF ClearStore, KeyboardInv, ClearForward
  <2>2. (read_index + Distance(read_index, loaded)) % N = loaded
    <3>1. read_index + Distance(read_index, loaded) \in {loaded, loaded + N}
        BY <1>1, <1>3, RingSize DEF Indices, N
    <3> QED BY <1>1, <3>1, RingSize DEF Indices, N
  <2>3. KeysHeld' /\ read_index' \in Indices
      BY <1>9, <2>1, <2>2, AdvanceKeepsHeld DEF ClearStore
  <2> QED BY <1>2, <1>9, <2>3
          DEF ClearStore, KeyboardInv, KeyboardTypeOK, PopUndisturbed, ClearForward
<1> QED BY <1>4, <1>5, <1>6, <1>7, <1>8, <1>9

\* Every step keeps the invariant.
LEMMA KeyboardStepInv == KeyboardInv /\ [KeyboardNext]_keyVars => KeyboardInv'
<1>1. ASSUME KeyboardInv, UNCHANGED keyVars PROVE KeyboardInv'
    BY <1>1 DEF keyVars, KeyboardInv, KeyboardTypeOK, PopUndisturbed, ClearForward,
                KeysHeld, Distance
<1> QED BY <1>1, PushInv, ReaderInv DEF KeyboardNext

\* The ring's invariant holds in every reachable state.
THEOREM KeyboardInvariant == KeyboardSpec => []KeyboardInv
BY KeyboardInitInv, KeyboardStepInv, PTL DEF KeyboardSpec

\* Both indices stay inside the ring.
THEOREM TypeCorrect == KeyboardSpec => []KeyboardTypeOK
BY KeyboardInvariant, PTL DEF KeyboardInv

\* keyboard_buffer_pop reads a slot that stays full and unchanged until it moves
\* read_index, whatever is typed meanwhile.
THEOREM PopNotDisturbed == KeyboardSpec => []PopUndisturbed
BY KeyboardInvariant, PTL DEF KeyboardInv

\* keyboard_buffer_clear only moves the reader forward, towards the writer.
THEOREM ClearMovesForward == KeyboardSpec => []ClearForward
BY KeyboardInvariant, PTL DEF KeyboardInv

-----------------------------------------------------------------------------
(* The refinement *)

\* The abstract queue: what is held, in the order it was typed.
Held == [i \in 1 .. Distance(read_index, write_index) |->
            buffer[(read_index + i - 1) % KEYBOARD_BUFFER_SIZE]]

Dropping == IF at = "clear_store" THEN Distance(read_index, loaded) ELSE -1

HeldIsQueue ==
    /\ Held \in Seq(Chars)
    /\ Len(Held) = Distance(read_index, write_index)
    /\ Len(Held) \in 0 .. N - 1
    /\ \A i \in 1 .. Len(Held) : Held[i] = buffer[(read_index + (i - 1)) % N]

\* It is a sequence of characters, as long as the reader is behind the writer.
LEMMA HeldSeq == KeyboardInv => HeldIsQueue
<1> SUFFICES ASSUME KeyboardInv PROVE HeldIsQueue
    OBVIOUS
<1>1. Distance(read_index, write_index) \in 0 .. N - 1
    BY DistanceIs DEF KeyboardInv, KeyboardTypeOK
<1>2. ASSUME NEW i \in 1 .. Distance(read_index, write_index)
      PROVE  Held[i] \in Chars /\ Held[i] = buffer[(read_index + (i - 1)) % N]
  <2>1. read_index + i - 1 = read_index + (i - 1)
      BY <1>1, RingSize DEF KeyboardInv, KeyboardTypeOK, Indices, N
  <2>2. i - 1 \in 0 .. Distance(read_index, write_index) - 1
      BY <1>1, RingSize
  <2> QED BY <2>1, <2>2 DEF Held, KeyboardInv, KeysHeld, N
<1>3. Held \in [1 .. Distance(read_index, write_index) -> Chars]
    BY <1>2 DEF Held
<1>4. Distance(read_index, write_index) \in Nat
    BY <1>1, RingSize
<1>5. Held \in Seq(Chars) /\ Len(Held) = Distance(read_index, write_index)
    BY <1>3, <1>4
<1> QED BY <1>1, <1>2, <1>5 DEF HeldIsQueue

\* The same after a step.
LEMMA HeldSeqNext == KeyboardInv' => HeldIsQueue'
BY HeldSeq, PTL

\* The initial ring is the empty queue.
LEMMA InitRefines == KeyboardInit => Fifo!FifoInit
<1> SUFFICES ASSUME KeyboardInit PROVE Fifo!FifoInit
    OBVIOUS
<1>1. Held \in Seq(Chars) /\ Len(Held) = Distance(read_index, write_index)
    BY KeyboardInitInv, HeldSeq DEF HeldIsQueue
<1>2. Distance(0, 0) = 0
    BY RingSize, DistanceIs DEF Indices, N
<1>3. Held = <<>>
    BY <1>1, <1>2 DEF KeyboardInit
<1> QED BY <1>3 DEF Fifo!FifoInit, Fifo!NUL, Fifo!NoClear, NUL, KeyboardInit, Held, Dropping

\* A push appends.
LEMMA PushRefines ==
    ASSUME KeyboardInv, KeyboardInv', NEW key \in Chars, keyboard_buffer_push(key)
    PROVE  Fifo!Type(key)
<1>1. /\ read_index \in Indices /\ write_index \in Indices /\ loaded \in Indices
      /\ buffer \in [Indices -> Chars \cup {NUL}]
    BY DEF KeyboardInv, KeyboardTypeOK
<1>2. /\ read_index' = read_index /\ loaded' = loaded /\ at' = at /\ result' = result
      /\ write_index' = Following(write_index)
      /\ buffer' = [buffer EXCEPT ![write_index] = key]
      /\ Following(write_index) # read_index
    BY DEF keyboard_buffer_push, HasRoom
<1>3. /\ Distance(read_index, write_index)' = Distance(read_index, write_index) + 1
      /\ (read_index + Distance(read_index, write_index)) % N = write_index
      /\ \A k \in 0 .. Distance(read_index, write_index) - 1 :
            (read_index + k) % N # write_index
    BY <1>1, <1>2, PushDistance DEF Distance
<1>4. /\ Held \in Seq(Chars) /\ Len(Held) = Distance(read_index, write_index)
      /\ Len(Held) \in 0 .. N - 1
      /\ \A i \in 1 .. Len(Held) : Held[i] = buffer[(read_index + (i - 1)) % N]
    BY HeldSeq DEF HeldIsQueue
<1>5. /\ Held' \in Seq(Chars) /\ Len(Held') = Len(Held) + 1
      /\ Len(Held') \in 0 .. N - 1
      /\ \A i \in 1 .. Len(Held') : Held'[i] = buffer'[(read_index + (i - 1)) % N]
    BY <1>2, <1>3, <1>4, HeldSeqNext DEF HeldIsQueue, N
<1>6. ASSUME NEW i \in 1 .. Len(Held) PROVE Held'[i] = Held[i]
  <2>1. (read_index + (i - 1)) % N \in Indices /\ i - 1 \in 0 .. Len(Held) - 1
      BY <1>1, <1>4, SlotIs, RingSize
  <2>2. (read_index + (i - 1)) % N # write_index
      BY <1>3, <1>4, <2>1
  <2>3. i \in 1 .. Len(Held')
      BY <1>4, <1>5, RingSize
  <2> QED BY <1>1, <1>2, <1>4, <1>5, <2>1, <2>2, <2>3
<1>7. Held'[Len(Held) + 1] = key
  <2>1. Len(Held) + 1 \in 1 .. Len(Held') /\ (Len(Held) + 1) - 1 = Len(Held)
      BY <1>4, <1>5, RingSize
  <2> QED BY <1>1, <1>2, <1>3, <1>4, <1>5, <2>1
<1>8. Held' = Append(Held, key)
    BY <1>4, <1>5, <1>6, <1>7, AppendProperties, SeqEqual
<1>9. Len(Held) < N - 1
    BY <1>4, <1>5, RingSize
<1>10. Dropping' = Dropping
    BY <1>2 DEF Dropping, Distance
<1> QED BY <1>2, <1>8, <1>9, <1>10 DEF Fifo!Type, Held, Dropping, N

\* Moving the reader over m keys drops the first m of the queue.
LEMMA AdvanceRefines ==
    ASSUME KeyboardInv, KeyboardInv', NEW m \in 0 .. Distance(read_index, write_index),
           read_index' = (read_index + m) % N,
           UNCHANGED <<buffer, write_index>>
    PROVE  Held' = SubSeq(Held, m + 1, Len(Held))
<1> DEFINE rest == SubSeq(Held, m + 1, Len(Held))
<1>1. read_index \in Indices /\ write_index \in Indices
    BY DEF KeyboardInv, KeyboardTypeOK
<1>2. /\ Held \in Seq(Chars) /\ Len(Held) = Distance(read_index, write_index)
      /\ Len(Held) \in 0 .. N - 1
      /\ \A i \in 1 .. Len(Held) : Held[i] = buffer[(read_index + (i - 1)) % N]
    BY HeldSeq DEF HeldIsQueue
<1>3. /\ Held' \in Seq(Chars) /\ Len(Held') = Distance(read_index', write_index')
      /\ \A i \in 1 .. Len(Held') : Held'[i] = buffer[(read_index' + (i - 1)) % N]
    BY HeldSeqNext DEF HeldIsQueue, N, Distance
<1>4. /\ Distance(read_index', write_index') = Len(Held) - m
      /\ \A k \in 0 .. Len(Held) - m - 1 :
            (read_index' + k) % N = (read_index + (m + k)) % N
    BY <1>1, <1>2, AdvanceDistance
<1>5. /\ rest \in Seq(Chars) /\ Len(rest) = Len(Held) - m
      /\ \A i \in 1 .. Len(Held) - m : rest[i] = Held[m + i]
  <2>1. m + 1 \in Int /\ Len(Held) \in Int /\ Len(Held) - (m + 1) + 1 = Len(Held) - m
      BY <1>2, RingSize
  <2>2. \A i \in m + 1 .. Len(Held) : Held[i] \in Chars
      BY <1>2, RingSize
  <2>3. /\ rest \in Seq(Chars)
        /\ Len(rest) = IF m + 1 <= Len(Held) THEN Len(Held) - (m + 1) + 1 ELSE 0
        /\ \A i \in 1 .. Len(Held) - (m + 1) + 1 : rest[i] = Held[(m + 1) + i - 1]
      BY <2>1, <2>2, SubSeqProperties
  <2>4. Len(rest) = Len(Held) - m
    <3> HIDE DEF rest
    <3> QED BY <1>2, <2>1, <2>3
  <2>5. ASSUME NEW i \in 1 .. Len(Held) - m
        PROVE  rest[i] = Held[m + i]
    <3>1. (m + 1) + i - 1 = m + i
        BY <1>2, RingSize
    <3> HIDE DEF rest
    <3> QED BY <2>1, <2>3, <3>1
  <2> QED BY <2>3, <2>4, <2>5
<1>6. ASSUME NEW i \in 1 .. Len(Held) - m
      PROVE  Held'[i] = rest[i]
  <2>1. i - 1 \in 0 .. Len(Held) - m - 1 /\ m + i \in 1 .. Len(Held) /\ m + (i - 1) = (m + i) - 1
      BY <1>2, RingSize
  <2>2. Held'[i] = buffer[(read_index + (m + (i - 1))) % N]
      BY <1>3, <1>4, <2>1
  <2> HIDE DEF rest
  <2> QED BY <1>2, <1>5, <2>1, <2>2
<1> HIDE DEF rest
<1>7. Held' = rest
    BY <1>3, <1>4, <1>5, <1>6, SeqEqual
<1> QED BY <1>7 DEF rest

\* Every access of a pop or a clear is a step of the queue, or none.
LEMMA ReaderRefines ==
    ASSUME KeyboardInv, KeyboardInv',
           PopEmpty \/ PopTest \/ PopLoad \/ PopAdvance \/ ClearLoad \/ ClearStore
    PROVE  [Fifo!FifoNext]_Fifo!fifoVars
<1>1. /\ read_index \in Indices /\ write_index \in Indices /\ loaded \in Indices
      /\ buffer \in [Indices -> Chars \cup {NUL}]
    BY DEF KeyboardInv, KeyboardTypeOK
<1>2. /\ Distance(read_index, write_index) \in 0 .. N - 1
      /\ Distance(read_index, write_index)
            = IF read_index <= write_index THEN write_index - read_index
              ELSE write_index - read_index + N
      /\ Distance(read_index, loaded) \in 0 .. N - 1
      /\ Distance(read_index, loaded)
            = IF read_index <= loaded THEN loaded - read_index ELSE loaded - read_index + N
    BY <1>1, DistanceIs
<1>3. /\ Held \in Seq(Chars) /\ Len(Held) = Distance(read_index, write_index)
      /\ \A i \in 1 .. Len(Held) : Held[i] = buffer[(read_index + (i - 1)) % N]
    BY HeldSeq DEF HeldIsQueue
<1>4. CASE PopEmpty
  <2>1. Held = <<>>
      BY <1>1, <1>2, <1>3, <1>4 DEF PopEmpty, Indices
  <2>2. Held' = Held /\ Dropping' = Dropping /\ Dropping = -1 /\ result' = NUL
      BY <1>4 DEF PopEmpty, Held, Dropping, Distance
  <2>3. Fifo!Read
      BY <2>1, <2>2 DEF Fifo!Read, Fifo!NUL, Fifo!NoClear, Held, Dropping, NUL
  <2> QED BY <2>3 DEF Fifo!FifoNext
<1>5. CASE PopTest
  <2>1. Held' = Held /\ Dropping' = Dropping /\ result' = result
      BY <1>5 DEF PopTest, Held, Dropping, Distance
  <2> QED BY <2>1 DEF Fifo!fifoVars, Held, Dropping
<1>6. CASE PopLoad
  <2>1. Held' = Held /\ Dropping' = Dropping /\ result' = result
      BY <1>6 DEF PopLoad, Held, Dropping, Distance
  <2> QED BY <2>1 DEF Fifo!fifoVars, Held, Dropping
<1>7. CASE PopAdvance
  <2>1. 1 \in 0 .. Distance(read_index, write_index)
      BY <1>1, <1>2, <1>7, RingSize
      DEF PopAdvance, KeyboardInv, PopUndisturbed, Indices, N
  <2>2. Held' = SubSeq(Held, 1 + 1, Len(Held))
      BY <1>7, <2>1, AdvanceRefines DEF PopAdvance, Following, N
  <2>3. Held # <<>> /\ Held' = Tail(Held)
      BY <1>2, <1>3, <2>1, <2>2, RingSize
  <2>4. Head(Held) = buffer[read_index]
    <3>1. 1 \in 1 .. Len(Held)
        BY <1>2, <1>3, <2>1, RingSize
    <3>2. (read_index + (1 - 1)) % N = read_index
        BY <1>1, RingSize DEF Indices, N
    <3> QED BY <1>3, <2>3, <3>1, <3>2
  <2>5. result' = Head(Held) /\ Dropping = -1 /\ Dropping' = -1
      BY <1>7, <2>4 DEF PopAdvance, KeyboardInv, PopUndisturbed, Dropping
  <2>6. Fifo!Read
      BY <2>3, <2>5 DEF Fifo!Read, Fifo!NoClear, Held, Dropping
  <2> QED BY <2>6 DEF Fifo!FifoNext
<1>8. CASE ClearLoad
  <2>1. Held' = Held /\ result' = result /\ Dropping = -1
        /\ Dropping' = Distance(read_index, write_index)
      BY <1>8 DEF ClearLoad, Held, Dropping, Distance
  <2>2. Fifo!BeginClear
      BY <1>3, <2>1 DEF Fifo!BeginClear, Fifo!NoClear, Held, Dropping
  <2> QED BY <2>2 DEF Fifo!FifoNext
<1>9. CASE ClearStore
  <2>1. Distance(read_index, loaded) \in 0 .. Distance(read_index, write_index)
      BY <1>2, <1>9, RingSize DEF ClearStore, KeyboardInv, ClearForward
  <2>2. (read_index + Distance(read_index, loaded)) % N = loaded
    <3>1. read_index + Distance(read_index, loaded) \in {loaded, loaded + N}
        BY <1>1, <1>2, RingSize DEF Indices, N
    <3> QED BY <1>1, <3>1, RingSize DEF Indices, N
  <2>3. Held' = SubSeq(Held, Distance(read_index, loaded) + 1, Len(Held))
      BY <1>9, <2>1, <2>2, AdvanceRefines DEF ClearStore
  <2>4. Dropping = Distance(read_index, loaded) /\ Dropping # -1
        /\ Dropping' = -1 /\ result' = result
      BY <1>2, <1>9, RingSize DEF ClearStore, Dropping
  <2>5. Fifo!EndClear
      BY <2>3, <2>4 DEF Fifo!EndClear, Fifo!NoClear, Held, Dropping
  <2> QED BY <2>5 DEF Fifo!FifoNext
<1> QED BY <1>4, <1>5, <1>6, <1>7, <1>8, <1>9

\* Every step of the ring is a step of the queue, or none.
LEMMA StepRefines ==
    KeyboardInv /\ KeyboardInv' /\ [KeyboardNext]_keyVars => [Fifo!FifoNext]_Fifo!fifoVars
<1> SUFFICES ASSUME KeyboardInv, KeyboardInv', [KeyboardNext]_keyVars
             PROVE  [Fifo!FifoNext]_Fifo!fifoVars
    OBVIOUS
<1>1. CASE UNCHANGED keyVars
    BY <1>1 DEF keyVars, Fifo!fifoVars, Distance
<1>2. CASE \E key \in Chars : keyboard_buffer_push(key)
    BY <1>2, PushRefines DEF Fifo!FifoNext
<1>3. CASE PopEmpty \/ PopTest \/ PopLoad \/ PopAdvance \/ ClearLoad \/ ClearStore
    BY <1>3, ReaderRefines
<1> QED BY <1>1, <1>2, <1>3 DEF KeyboardNext

\* The ring of kernel/keyboard.c, with the interrupt's pushes between any two
\* accesses of a pop or a clear, implements a FIFO of one place less than its
\* size: keys are read in the order typed, each at most once, and are lost only
\* when typed at a full ring or dropped by a clear that began after them.
THEOREM RingImplementsFifo == KeyboardSpec => ImplementsFifo
<1>1. KeyboardInit => Fifo!FifoInit
    BY InitRefines
<1>2. KeyboardInv /\ KeyboardInv' /\ [KeyboardNext]_keyVars => [Fifo!FifoNext]_Fifo!fifoVars
    BY StepRefines
<1> QED BY <1>1, <1>2, KeyboardInvariant, PTL DEF KeyboardSpec, ImplementsFifo, Fifo!FifoSpec
=============================================================================
