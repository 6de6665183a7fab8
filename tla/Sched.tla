-------------------------------- MODULE Sched --------------------------------
(***************************************************************************)
(* The cooperative scheduler of kernel/sched.c with its i386 half          *)
(* (arch/i386/sched.c, context_switch.S, tss_set_kernel_stack).            *)
(*                                                                         *)
(* Tasks give up the CPU only in sched_yield and kthread_exit, so what a   *)
(* task does between two of those is one step. Interrupt handlers run at   *)
(* any time but never switch tasks and write none of this state.           *)
(*                                                                         *)
(* The operators named after the code take the task table and the memory   *)
(* as they are at that point of the caller, so that a caller which changed *)
(* them earlier in the same step can use them; Process does.               *)
(***************************************************************************)
EXTENDS Memory

CONSTANTS
    MAX_TASKS,
    Entries,      \* the functions kthread_create is given
    MaxTaskId     \* bound on next_task_id, for model checking

ASSUME SchedAssumption ==
    /\ MAX_TASKS \in Nat \ {0, 1}
    /\ MaxTaskId \in Nat
    /\ "none" \notin Entries

VARIABLES
    tasks, current_task, next_task_id,
    mem,
    cr3,        \* the loaded page directory
    esp0,       \* tss.esp0 as the stack it is the top of; NULL: stack_top
    panicked    \* panic() was called: the machine has halted

schedVars == <<tasks, current_task, next_task_id, mem, cr3, esp0, panicked>>

Slots == 0 .. MAX_TASKS - 1

TASK_UNUSED == "unused"
TASK_RUNNABLE == "runnable"
TASK_RUNNING == "running"
TASK_ZOMBIE == "zombie"
TaskStates == {TASK_UNUSED, TASK_RUNNABLE, TASK_RUNNING, TASK_ZOMBIE}

\* stack_pointer: never stored, prepared by sched_prepare_kthread_stack to
\* return into the trampoline, or stored by sched_context_switch.
StackPointers == {"none", "trampoline", "saved"}

Task ==
    [id            : Nat,
     state         : TaskStates,
     address_space : Directories \cup {NULL},
     stack_pointer : StackPointers,
     stack         : Blocks \cup {NULL},
     entry         : Entries \cup {"none"}]

UnusedTask ==
    [id |-> 0, state |-> TASK_UNUSED, address_space |-> NULL,
     stack_pointer |-> "none", stack |-> NULL, entry |-> "none"]

\* The kernel's own context becomes task 0; its stack pointer is stored on the
\* first switch away from it.
BootTask ==
    [UnusedTask EXCEPT !.state = TASK_RUNNING,
                       !.address_space = kernel_page_directory]

\* sched_prepare_kthread_stack makes the first switch return to the trampoline.
NewTask(stack, entry) ==
    [id |-> next_task_id, state |-> TASK_RUNNABLE,
     address_space |-> kernel_page_directory,
     stack_pointer |-> "trampoline", stack |-> stack, entry |-> entry]

sched_init ==
    /\ tasks = [i \in Slots |-> IF i = 0 THEN BootTask ELSE UnusedTask]
    /\ current_task = 0
    /\ next_task_id = 1
    /\ mem = BootMemory
    /\ cr3 = kernel_page_directory
    /\ esp0 = NULL
    /\ panicked = FALSE

-----------------------------------------------------------------------------
\* Mutant: the stack is not freed.
task_cleanup_KeepStack(t, m, dead) ==
    [tasks |-> [i \in Slots |-> IF i \in dead THEN UnusedTask ELSE t[i]],
     mem   |-> DestroySpaces(m, {t[i].address_space : i \in dead})]

\* Clears the slots and gives back their address spaces and stacks.
task_cleanup(t, m, dead) ==
    [tasks |-> [i \in Slots |-> IF i \in dead THEN UnusedTask ELSE t[i]],
     mem   |-> kfree(DestroySpaces(m, {t[i].address_space : i \in dead}),
                     {t[i].stack : i \in dead})]

\* Mutant: the loop stops one slot early.
Reapable_OffByOne(t) ==
    {i \in 1 .. MAX_TASKS - 2 : i # current_task /\ t[i].state = TASK_ZOMBIE}

\* Every zombie but the one that is still running on its own stack.
Reapable(t) ==
    {i \in Slots \ {0} : i # current_task /\ t[i].state = TASK_ZOMBIE}

reap_zombies(t, m) == task_cleanup(t, m, Reapable(t))

\* Mutant: the search does not wrap around the table.
NextTask_NoWrap(t) ==
    LET ahead == {i \in Slots : i > current_task /\ t[i].state = TASK_RUNNABLE}
    IN  IF ahead = {} THEN current_task ELSE Lowest(ahead)

\* Mutant: the search starts at slot 0 instead of after the current one.
NextTask_FromZero(t) ==
    LET runnable == {i \in Slots : t[i].state = TASK_RUNNABLE}
    IN  IF runnable = {} THEN current_task ELSE Lowest(runnable)

\* The first runnable slot after the current one, around the table; the current
\* one when there is none.
NextTask(t) ==
    LET ahead == {k \in 1 .. MAX_TASKS :
                     t[(current_task + k) % MAX_TASKS].state = TASK_RUNNABLE}
    IN  IF ahead = {} THEN current_task
        ELSE (current_task + Lowest(ahead)) % MAX_TASKS

\* The table after a switch to idx. A zombie that switches away stays a zombie.
SwitchTo(t, idx) ==
    [t EXCEPT ![current_task].state =
                  IF @ = TASK_RUNNING THEN TASK_RUNNABLE ELSE @,
              ![current_task].stack_pointer = "saved",
              ![idx].state = TASK_RUNNING]

\* Mutant: tss.esp0 is never updated.
KernelStackFor_Never(task) == esp0

\* tss.esp0 for the task switched to. Task 0 has no allocated stack: tss.esp0
\* keeps the last task's value.
KernelStackFor(task) == IF task.stack # NULL THEN task.stack ELSE esp0

sched_yield(t, m) ==
    LET z   == reap_zombies(t, m)
        idx == NextTask(z.tasks)
    IN  /\ mem' = z.mem
        /\ current_task' = idx
        /\ \/ /\ idx = current_task
              /\ tasks' = z.tasks
              /\ UNCHANGED <<cr3, esp0>>
           \/ /\ idx # current_task
              /\ tasks' = SwitchTo(z.tasks, idx)
              /\ cr3' = z.tasks[idx].address_space
              /\ esp0' = KernelStackFor(z.tasks[idx])

\* Panics in task 0, and when control comes back.
kthread_exit(t, m) ==
    IF current_task = 0
    THEN /\ panicked' = TRUE
         /\ tasks' = t /\ mem' = m
         /\ UNCHANGED <<current_task, cr3, esp0>>
    ELSE /\ sched_yield([t EXCEPT ![current_task].state = TASK_ZOMBIE], m)
         /\ panicked' = (current_task' = current_task)

\* The outcomes of kthread_create: the table, the memory, the slot taken and
\* the returned id (-1: no free slot or no stack).
kthread_create(t, m, entry) ==
    LET z      == reap_zombies(t, m)
        unused == {i \in Slots \ {0} : z.tasks[i].state = TASK_UNUSED}
        slot   == Lowest(unused)
        Failed(mm) == [tasks |-> z.tasks, mem |-> mm, slot |-> 0, ret |-> -1]
        Created(k) == [tasks |-> [z.tasks EXCEPT
                                     ![slot] = NewTask(k.ret, entry)],
                       mem |-> k.mem, slot |-> slot, ret |-> next_task_id]
    IN  IF unused = {} THEN {Failed(z.mem)}
        ELSE {IF k.ret = NULL THEN Failed(k.mem) ELSE Created(k) :
                 k \in kmalloc(z.mem)}

\* next_task_id++ is part of a successful kthread_create.
CountTask(r) ==
    next_task_id' = IF r.ret = -1 THEN next_task_id ELSE next_task_id + 1

\* sched_set_current_address_space returns -1: for task 0, and for a null
\* directory.
SpaceRefused(space) == current_task = 0 \/ space = NULL

sched_set_current_address_space(t, space) ==
    IF SpaceRefused(space) THEN t
    ELSE [t EXCEPT ![current_task].address_space = space]

\* Mutant: the directory is recorded and not loaded.
LoadedDirectory_Stale(space) == cr3

\* paging_load_directory, when the call above is not refused.
LoadedDirectory(space) == IF SpaceRefused(space) THEN cr3 ELSE space

-----------------------------------------------------------------------------
(***************************************************************************)
(* The scheduler by itself: the running thread makes any of the calls the  *)
(* kernel's threads make.                                                  *)
(***************************************************************************)
CreateThread ==
    /\ next_task_id < MaxTaskId
    /\ \E e \in Entries : \E r \in kthread_create(tasks, mem, e) :
          /\ tasks' = r.tasks
          /\ mem' = r.mem
          /\ CountTask(r)
    /\ UNCHANGED <<current_task, cr3, esp0, panicked>>

Yield ==
    /\ sched_yield(tasks, mem)
    /\ UNCHANGED <<next_task_id, panicked>>

\* kthread_trampoline calls kthread_exit when the thread's function returns, and
\* sys_exit calls it inside that function: in both a function was started.
ExitThread ==
    /\ tasks[current_task].entry # "none"
    /\ kthread_exit(tasks, mem)
    /\ UNCHANGED next_task_id

\* What user_exec_task does with the directory its spawner created.
AdoptSpace ==
    /\ tasks[current_task].address_space = kernel_page_directory
    /\ LET r == vmm_create_address_space(mem)
       IN  /\ tasks' = sched_set_current_address_space(tasks, r.ret)
           /\ cr3' = LoadedDirectory(r.ret)
           /\ mem' = IF current_task = 0
                     THEN vmm_destroy_address_space(r.mem, r.ret) ELSE r.mem
    /\ UNCHANGED <<current_task, next_task_id, esp0, panicked>>

SchedNext ==
    /\ ~panicked
    /\ \/ CreateThread
       \/ Yield
       \/ ExitThread
       \/ AdoptSpace

\* Cooperative threads: whoever has the CPU yields or exits in the end.
GiveUpCpu == ~panicked /\ (Yield \/ ExitThread)

SchedSafety == sched_init /\ [][SchedNext]_schedVars

\* Where GiveUpCpu changes something.
CpuWanted ==
    ~panicked /\ \E i \in Slots : i # current_task /\ tasks[i].state # TASK_UNUSED

\* Weak fairness of GiveUpCpu, with ENABLED spelt out.
GiveUpFairness == []<>~CpuWanted \/ []<><<GiveUpCpu>>_schedVars

SchedSpec == SchedSafety /\ GiveUpFairness

-----------------------------------------------------------------------------
\* Type invariant of the task table, the memory and the registers a switch loads.
SchedTypeOK ==
    /\ tasks \in [Slots -> Task]
    /\ current_task \in Slots
    /\ next_task_id \in Nat
    /\ mem \in MemoryType
    /\ cr3 \in Directories
    /\ esp0 \in Blocks \cup {NULL}
    /\ panicked \in BOOLEAN

InUse == {i \in Slots : tasks[i].state # TASK_UNUSED}

\* Exactly the current task is marked running, whatever create, yield and exit
\* do to the table; kthread_create and sched_yield both pick tasks by state.
OneRunning ==
    \A i \in Slots : tasks[i].state = TASK_RUNNING <=> i = current_task

\* Neither panic of kthread_exit is reached. "task 0 exited": whoever runs a
\* thread's function is not task 0, which kthread_create gives none. "zombie
\* task resumed": a thread that exits always finds somebody to switch to, since
\* task 0 never ends.
NoPanic == ~panicked

\* Each task but task 0 owns one live kmalloc block, no block has two owners
\* and no block is lost: reap_zombies frees a stack exactly once, never the one
\* the CPU is on.
StacksOwned ==
    /\ tasks[0].stack = NULL
    /\ \A i, j \in InUse \ {0} :
          /\ tasks[i].stack \in mem.stacks
          /\ tasks[i].stack = tasks[j].stack => i = j
    /\ mem.stacks \subseteq {tasks[i].stack : i \in InUse}

\* The loaded directory is the current task's, and no task in the table, not
\* even a zombie, has a directory that was given back or that another owns.
SpacesLive ==
    /\ cr3 = tasks[current_task].address_space
    /\ \A i, j \in InUse :
          tasks[i].address_space # kernel_page_directory =>
             /\ tasks[i].address_space \in mem.used
             /\ tasks[i].address_space = tasks[j].address_space => i = j

\* sched_context_switch only loads stack pointers that were stored before, and
\* an interrupt from user mode lands on the running task's own kernel stack.
ContextReady ==
    /\ \A i \in Slots :
          tasks[i].state = TASK_RUNNABLE => tasks[i].stack_pointer # "none"
    /\ current_task # 0 => esp0 = tasks[current_task].stack

\* The safety invariants made inductive. What they lack by themselves: task 0 is
\* never a zombie, has no function to return from and keeps the kernel's
\* directory, a task in use has a directory, and no page table is in use (the
\* calls above map nothing).
SchedInv ==
    /\ SchedTypeOK
    /\ OneRunning
    /\ NoPanic
    /\ StacksOwned
    /\ SpacesLive
    /\ ContextReady
    /\ tasks[0].state \in {TASK_RUNNING, TASK_RUNNABLE}
    /\ tasks[0].entry = "none"
    /\ tasks[0].address_space = kernel_page_directory
    /\ \A i \in InUse : tasks[i].address_space # NULL
    /\ \A d \in Directories : mem.pde[d] = ABSENT

\* A step that leaves the stack and the directory it runs on allocated.
KeepsFooting ==
    /\ current_task # 0 => tasks[current_task].stack \in mem'.stacks
    /\ cr3 # kernel_page_directory => cr3 \in mem'.used

\* Until a step ends the CPU is on the stack and in the directory it began with,
\* so neither is given back in it: a thread that exits leaves its own to others.
RunsOnLiveMemory == [][KeepsFooting]_schedVars

\* Round robin starves nobody: a runnable task gets the CPU.
RunnableRuns ==
    \A i \in Slots : tasks[i].state = TASK_RUNNABLE ~> current_task = i

\* What a thread leaves behind when it exits is given back.
ZombieReaped ==
    \A i \in Slots : tasks[i].state = TASK_ZOMBIE ~> tasks[i].state # TASK_ZOMBIE
=============================================================================
