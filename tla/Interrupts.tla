----------------------------- MODULE Interrupts ------------------------------
(***************************************************************************)
(* How interrupts reach the kernel and tasks live with them: the gates of   *)
(* arch/i386/idt.c, the interrupt controller of arch/i386/pic.c, the stubs  *)
(* of isr_stub.S, the interrupt flag that system calls, iret and context    *)
(* switches carry from task to task, irq_handler, and the tick counter of   *)
(* kernel/timer.c.                                                          *)
(*                                                                         *)
(* What a handler does for a key is in KeyboardBuffer and KShell, which     *)
(* task a yield chooses is in Sched: here it is any that can run.           *)
(***************************************************************************)
EXTENDS Integers, FiniteSets

CONSTANTS
    NTasks,        \* tasks 1 .. NTasks run processes
    DeviceLines,   \* the other lines with a device on them
    WORD,          \* 2^32
    PRINT_PERIOD   \* ticks between two lines of timer_print (100)

ASSUME InterruptsAssumption ==
    /\ NTasks \in Nat
    /\ DeviceLines \subseteq 3 .. 15
    /\ WORD \in Nat /\ PRINT_PERIOD \in 1 .. WORD - 1

VARIABLES
    IF_,        \* the interrupt flag
    cpu,        \* task, handler, or dead (the cli; hlt loop of an exception)
    current,    \* the running task
    task,       \* where each task is
    eflags_if,  \* per task, the flag in the frame of its system call
    irq,        \* the interrupt being handled
    irq_if,     \* the flag in its frame
    acked,      \* irq_ack was called for it
    irr, isr,   \* the controllers' requested and in-service lines
    mask,       \* masked lines
    ticks, last_printed_ticks,
    since       \* ticks counted since the last one printed, up to PRINT_PERIOD

cpuVars == <<IF_, cpu, current, task, eflags_if>>
irqVars == <<irq, irq_if, acked>>
picVars == <<irr, isr, mask>>
timerVars == <<ticks, last_printed_ticks, since>>
interruptVars == <<cpuVars, irqVars, picVars, timerVars>>

Tasks == 0 .. NTasks
Timer == 0
Keyboard == 1
Cascade == 2
Lines == {Timer, Keyboard} \cup DeviceLines

\* Task 0 boots, waits for init, then is in the loop of kmain: halt, poll the
\* shell, and the three accesses of timer_print. The others run a process.
BootPoints == {"boot", "init", "halted", "poll", "test", "print", "store"}
Points == {"unused", "start", "user", "syscall", "zombie"}

InterruptsInit ==
    /\ IF_ = FALSE /\ cpu = "task" /\ current = 0
    /\ task = [t \in Tasks |-> IF t = 0 THEN "boot" ELSE "unused"]
    /\ eflags_if = [t \in Tasks |-> FALSE]
    /\ irq = Timer /\ irq_if = FALSE /\ acked = TRUE
    /\ irr = {} /\ isr = {}
    /\ \E left \in SUBSET DeviceLines : mask = (Lines \cup {Cascade}) \ left
    /\ ticks = 0 /\ last_printed_ticks = 0 /\ since = 0

-----------------------------------------------------------------------------
(* Gates *)

\* Mutant: the system call has an interrupt gate, of type 0xE.
idt_InterruptGate(vector) == IF vector = "syscall" THEN 238 ELSE 142

\* The flags idt_init gives: 0xEF for the system call, 0x8E for all others.
idt(vector) == IF vector = "syscall" THEN 239 ELSE 142

\* A gate of type 0xF, a trap gate, leaves the flag alone; one of type 0xE
\* clears it. User mode may name the gates of privilege level 3.
IsTrap(vector) == idt(vector) % 16 = 15
UserMay(vector) == (idt(vector) \div 32) % 4 = 3

-----------------------------------------------------------------------------
(* The interrupt controllers: lines 8 and up reach the first through line 2 *)

Slave(S) == {l \in S : l >= 8}
Master(S) == {l \in S : l < 8}

\* The lines a controller may present: not masked, and above all it is serving.
Presents(requests, serving) ==
    {l \in requests \ mask : \A s \in serving : l < s}

Least(S) == CHOOSE x \in S : \A y \in S : x <= y

SlaveRequests == Presents(Slave(irr), Slave(isr))
MasterRequests ==
    Presents(Master(irr) \cup {l \in {Cascade} : SlaveRequests # {}}, Master(isr))

\* The line the processor is given.
Presented ==
    IF Least(MasterRequests) = Cascade THEN Least(SlaveRequests) ELSE Least(MasterRequests)

\* A device raises its line, also while its last interrupt is being handled
\* (keyboard_read comes before irq_ack). Only the timer's period is longer than
\* its handler.
Raise ==
    /\ \E l \in Lines \ irr :
          /\ l = Timer => ~(cpu = "handler" /\ irq = Timer)
          /\ irr' = irr \cup {l}
    /\ UNCHANGED <<cpuVars, irqVars, timerVars, isr, mask>>

\* Mutant: the second controller is not told.
pic_send_eoi_First(line) == isr \ {Least(Master(isr))}

\* The end of an interrupt clears the highest line in service of a controller.
pic_send_eoi(line) ==
    isr \ ({Least(Master(isr))}
           \cup (IF line >= 8 /\ Slave(isr) # {} THEN {Least(Slave(isr))} ELSE {}))

-----------------------------------------------------------------------------
(* Interrupts *)

\* The processor takes line l, between two instructions or out of hlt.
Deliver(l) ==
    /\ IF_ /\ cpu = "task" /\ MasterRequests # {} /\ Presented = l
    /\ irr' = irr \ {l}
    /\ isr' = isr \cup {l} \cup (IF l >= 8 THEN {Cascade} ELSE {})
    /\ cpu' = "handler" /\ irq' = l /\ acked' = FALSE
    /\ irq_if' = IF_
    /\ IF_' = (IF_ /\ IsTrap("irq"))
    /\ task' = IF task[current] = "halted" THEN [task EXCEPT ![current] = "poll"] ELSE task
    /\ UNCHANGED <<current, eflags_if, mask, timerVars>>

\* Counts a tick, or takes a key, then acknowledges the interrupt.
irq_handler ==
    /\ cpu = "handler" /\ ~acked
    /\ IF irq = Timer
       THEN /\ ticks' = (ticks + 1) % WORD
            /\ since' = IF since = PRINT_PERIOD THEN since ELSE since + 1
            /\ UNCHANGED last_printed_ticks
       ELSE UNCHANGED timerVars
    /\ isr' = pic_send_eoi(irq)
    /\ acked' = TRUE
    /\ UNCHANGED <<cpuVars, irq, irq_if, irr, mask>>

\* The end of the stub; the frame is gone.
iret ==
    /\ cpu = "handler" /\ acked
    /\ cpu' = "task"
    /\ IF_' = irq_if
    /\ irq' = Timer /\ irq_if' = FALSE
    /\ UNCHANGED <<current, task, eflags_if, acked, picVars, timerVars>>

-----------------------------------------------------------------------------
(* Tasks *)

Runs(t, point) == cpu = "task" /\ current = t /\ task[t] = point

Goes(t, point) ==
    /\ task' = [task EXCEPT ![t] = point]
    /\ UNCHANGED <<cpu, current, eflags_if, irqVars>>

\* The masks after it: those it found are put back.
pic_remap == mask

pic_clear_mask(masked, line) == masked \ {line}

\* Mutant: the line of the keyboard stays masked.
arch_init_NoKeyboard == pic_clear_mask(pic_clear_mask(pic_remap, Timer), Cascade)

\* The lines that are masked from then on.
arch_init ==
    pic_clear_mask(pic_clear_mask(pic_clear_mask(pic_remap, Timer), Keyboard), Cascade)

\* arch_init, irq_enable, and user_init's first process, if there is one.
kmain ==
    /\ Runs(0, "boot")
    /\ mask' = arch_init
    /\ IF_' = TRUE
    /\ \/ task' = [task EXCEPT ![0] = "halted"]
       \/ 1 \in Tasks /\ task' = [task EXCEPT ![0] = "init", ![1] = "start"]
    /\ UNCHANGED <<cpu, current, eflags_if, irqVars, irr, isr, timerVars>>

\* A switch saves no flags: the next task goes on with the flag as it is. When
\* no other can run the caller goes on; zombies are reaped on the way.
sched_yield(from) ==
    LET able == {t \in Tasks \ {current} : from[t] \notin {"unused", "zombie"}}
    IN  /\ IF able = {} THEN current' = current ELSE current' \in able
        /\ task' = [t \in Tasks |->
                       IF from[t] = "zombie" /\ t # current THEN "unused" ELSE from[t]]
        /\ eflags_if' = [t \in Tasks |-> from[t] = "syscall" /\ eflags_if[t]]
        /\ UNCHANGED <<IF_, cpu, irqVars, picVars, timerVars>>

\* user_init's loop, until init is gone.
user_init ==
    /\ Runs(0, "init")
    /\ \/ sched_yield(task)
       \/ /\ task[1] \in {"unused", "zombie"}
          /\ Goes(0, "halted")
          /\ UNCHANGED <<IF_, picVars, timerVars>>

\* The shell may have no command, start a process, or yield.
kshell_poll ==
    /\ Runs(0, "poll")
    /\ \/ Goes(0, "test") /\ UNCHANGED <<IF_, picVars, timerVars>>
       \/ \E t \in Tasks : /\ task[t] = "unused"
                           /\ Goes(t, "start") /\ UNCHANGED <<IF_, picVars, timerVars>>
       \/ sched_yield(task)

\* Mutant: sums that wrap are compared.
PrintDue_Sum == ticks >= (last_printed_ticks + PRINT_PERIOD) % WORD

PrintDue == (ticks - last_printed_ticks) % WORD >= PRINT_PERIOD

\* timer_print reads the counter three times; it may move in between.
timer_print ==
    /\ \/ Runs(0, "test") /\ Goes(0, IF PrintDue THEN "print" ELSE "halted")
          /\ UNCHANGED timerVars
       \/ Runs(0, "print") /\ Goes(0, "store")
          /\ since' = 0 /\ UNCHANGED <<ticks, last_printed_ticks>>
       \/ Runs(0, "store") /\ Goes(0, "halted")
          /\ last_printed_ticks' = ticks /\ UNCHANGED <<ticks, since>>
    /\ UNCHANGED <<IF_, picVars>>

\* A new thread enters user mode, with interrupts on, or ends.
user_exec_task ==
    \E t \in Tasks :
       /\ Runs(t, "start")
       /\ \/ Goes(t, "user") /\ IF_' = TRUE /\ UNCHANGED <<picVars, timerVars>>
          \/ sched_yield([task EXCEPT ![t] = "zombie"])

\* int $0x80 through its gate: the flag is saved in the frame.
syscall_stub ==
    \E t \in Tasks :
       /\ Runs(t, "user") /\ UserMay("syscall")
       /\ task' = [task EXCEPT ![t] = "syscall"]
       /\ eflags_if' = [eflags_if EXCEPT ![t] = IF_]
       /\ IF_' = (IF_ /\ IsTrap("syscall"))
       /\ UNCHANGED <<cpu, current, irqVars, picVars, timerVars>>

\* Inside: it yields (to wait, for a key, or because it was asked to), starts a
\* process, ends its own, or returns, which brings the saved flag back.
syscall_dispatch ==
    \E t \in Tasks :
       /\ Runs(t, "syscall")
       /\ \/ sched_yield(task)
          \/ \E u \in Tasks : /\ task[u] = "unused"
                              /\ Goes(u, "start") /\ UNCHANGED <<IF_, picVars, timerVars>>
          \/ sched_yield([task EXCEPT ![t] = "zombie"])
          \/ /\ task' = [task EXCEPT ![t] = "user"]
             /\ IF_' = eflags_if[t] /\ eflags_if' = [eflags_if EXCEPT ![t] = FALSE]
             /\ UNCHANGED <<cpu, current, irqVars, picVars, timerVars>>

\* A fault in user mode, or an int to a gate it may not name, ends in ex_handler.
ex_handler ==
    /\ \E t \in Tasks : Runs(t, "user")
    /\ cpu' = "dead" /\ IF_' = FALSE
    /\ UNCHANGED <<current, task, eflags_if, irqVars, picVars, timerVars>>

\* The processor goes on with what it is doing.
Execute ==
    \/ irq_handler \/ iret \/ kmain \/ user_init \/ kshell_poll \/ timer_print
    \/ user_exec_task \/ syscall_stub \/ syscall_dispatch

InterruptsNext == Raise \/ (\E l \in Lines : Deliver(l)) \/ Execute \/ ex_handler

\* The processor executes, and takes an interrupt that is presented to it over
\* and over before it runs for ever past it.
InterruptsSpec ==
    /\ InterruptsInit /\ [][InterruptsNext]_interruptVars
    /\ WF_interruptVars(Execute)
    /\ \A l \in Lines : SF_interruptVars(Deliver(l))

-----------------------------------------------------------------------------
\* Once irq_enable was called, whatever task runs, in user mode, in a system
\* call, in a thread another task's system call switched to, or halted waiting
\* for an interrupt, runs with interrupts on; a handler runs with them off, so
\* that handlers never nest.
InterruptsOn ==
    /\ cpu = "task" /\ task[0] # "boot" => IF_
    /\ cpu = "handler" => ~IF_ /\ irq_if

\* The controllers and the kernel agree on what is being served: nothing while a
\* task runs, so that no line is blocked for good, and exactly the handler's line
\* until it is acknowledged, with the cascade's for a line of the second.
ServiceMatches ==
    isr = IF cpu = "handler" /\ ~acked
          THEN {irq} \cup {c \in {Cascade} : irq >= 8} ELSE {}

\* timer_print prints no two ticks closer than its period, however late it reads
\* the counter again and also when the counter wraps.
TicksApart == [][Runs(0, "print") /\ task'[0] = "store" => since = PRINT_PERIOD]_interruptVars

\* A timer or keyboard interrupt that was raised is served, unless the machine
\* has been stopped by an exception: no mix of system calls, yields, halts and
\* other interrupts leaves it pending.
PendingServed ==
    \A l \in {Timer, Keyboard} : l \in irr ~> (l \notin irr \/ cpu = "dead")
=============================================================================
