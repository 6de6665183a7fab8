------------------------------- MODULE Process -------------------------------
(***************************************************************************)
(* User processes (kernel/user.c) and the system calls (kernel/syscall.c)  *)
(* over the scheduler, with the parts of kmain and of kernel/kshell.c that *)
(* create tasks or give up the CPU.                                        *)
(*                                                                         *)
(* A step is what the running task does from one point where it gives up   *)
(* the CPU, or enters user mode, to the next. pc says where each task is   *)
(* between its steps; user programs are arbitrary: they make any system    *)
(* call at any time. Exit statuses are not kept: they are only carried.    *)
(* keys is the keyboard buffer, as the FIFO that KeyboardBuffer shows it   *)
(* to be; a key is represented by the value of next_pid when it was typed. *)
(***************************************************************************)
EXTENDS Sched, Sequences

CONSTANTS
    USER_PROCESS_MAX,
    KEYBOARD_BUFFER_SIZE,
    MaxPid                 \* bound on next_pid, for model checking

ASSUME ProcessAssumption ==
    /\ USER_PROCESS_MAX \in Nat \ {0}
    /\ KEYBOARD_BUFFER_SIZE \in Nat \ {0}
    /\ MaxPid \in Nat
    /\ {"user_exec_task", "zero_test"} \subseteq Entries

VARIABLES
    processes, next_pid, userland_active,
    keys,
    pc     \* per task slot: where it is and the pid it waits for there

processVars == <<processes, next_pid, userland_active, keys, pc>>
vars == <<schedVars, processVars>>

Records == 1 .. USER_PROCESS_MAX

USER_PROCESS_FREE == "free"
USER_PROCESS_CREATED == "created"
USER_PROCESS_RUNNING == "running"
USER_PROCESS_EXITED == "exited"
USER_PROCESS_NO_PARENT == 0

UserPages == {CODE, STACK}

\* The programs of the initramfs, by what load_emxf makes of their image. A
\* path initramfs_find refuses changes nothing and is left out.
Paths == {"good", "bad"}

UserProcess ==
    [state         : {USER_PROCESS_FREE, USER_PROCESS_CREATED,
                      USER_PROCESS_RUNNING, USER_PROCESS_EXITED},
     pid           : Nat,
     task_id       : Nat,
     parent_pid    : Nat,
     address_space : Pages \cup {NULL},
     path          : Paths \cup {""},
     pages         : [UserPages -> Pages \cup {NULL}]]

\* A record filled with zeros.
FreeRecord ==
    [state |-> USER_PROCESS_FREE, pid |-> 0, task_id |-> 0,
     parent_pid |-> USER_PROCESS_NO_PARENT, address_space |-> NULL,
     path |-> "", pages |-> [v \in UserPages |-> NULL]]

\* boot: task 0 before user_init;  kshell: task 0 polling for commands;
\* init: user_init's loop;  vmmtest: cmd_vmmtest after its sched_yield;
\* start: a thread that has not run;  user: in user mode;  wait: user_wait's
\* loop;  none: no task, or a zombie.
Points == {"none", "boot", "kshell", "init", "vmmtest", "start", "user", "wait"}

At(point) == [at |-> point, pid |-> 0]
AtWith(point, pid) == [at |-> point, pid |-> pid]

ProcessInit ==
    /\ sched_init
    /\ processes = [i \in Records |-> FreeRecord]
    /\ next_pid = 1
    /\ userland_active = FALSE
    /\ keys = <<>>
    /\ pc = [i \in Slots |-> At(IF i = 0 THEN "boot" ELSE "none")]

-----------------------------------------------------------------------------
(* The process table *)

user_process_find_by_pid(ps, pid) ==
    First({i \in Records : ps[i].state # USER_PROCESS_FREE /\ ps[i].pid = pid})

user_process_find_by_task_id(ps, id) ==
    First({i \in Records : ps[i].state # USER_PROCESS_FREE /\ ps[i].task_id = id})

\* The running task's record.
Caller == user_process_find_by_task_id(processes, tasks[current_task].id)

user_process_release(ps, i) == IF i = NULL THEN ps ELSE [ps EXCEPT ![i] = FreeRecord]

\* Mutant: children that still run keep the pid of the parent that exits.
user_process_orphan_children_Keep(ps, i) ==
    [j \in Records |->
        IF ps[j].state = USER_PROCESS_EXITED /\ ps[j].parent_pid = ps[i].pid
        THEN FreeRecord ELSE ps[j]]

\* Children lose their parent; those that already exited are released.
user_process_orphan_children(ps, i) ==
    [j \in Records |->
        IF ps[j].state = USER_PROCESS_FREE \/ ps[j].parent_pid # ps[i].pid
        THEN ps[j]
        ELSE IF ps[j].state = USER_PROCESS_EXITED THEN FreeRecord
        ELSE [ps[j] EXCEPT !.parent_pid = USER_PROCESS_NO_PARENT]]

\* Mutant: the pages are freed and stay mapped.
user_process_free_pages_StillMapped(m, p) ==
    [mem |-> [m EXCEPT !.used = @ \ {p.pages[v] : v \in UserPages}],
     proc |-> [p EXCEPT !.pages = [v \in UserPages |-> NULL]]]

user_process_free_pages(m, p) ==
    LET table  == IF p.address_space = NULL THEN ABSENT ELSE m.pde[p.address_space]
        mapped == {v \in UserPages : p.pages[v] # NULL}
    IN  [mem |-> [m EXCEPT !.used = @ \ {p.pages[v] : v \in mapped},
                           !.pte = IF table = ABSENT THEN @
                                   ELSE [@ EXCEPT ![table] =
                                          [v \in VirtualPages |->
                                             IF v \in mapped THEN ABSENT
                                             ELSE m.pte[table][v]]]],
         proc |-> [p EXCEPT !.pages = [v \in UserPages |-> NULL]]]

\* The page is taken before the page table it is mapped in.
map_copied_user_page(m, p, v) ==
    LET page == direct_map_page(m)
        r    == vmm_map_page_in(SetUsed(m, page), p.address_space, v, page)
    IN  IF page = NULL THEN [mem |-> m, proc |-> p, ret |-> -1]
        ELSE IF r.ret # 0
        THEN [mem |-> pmm_free_page(r.mem, page), proc |-> p, ret |-> -1]
        ELSE [mem |-> r.mem, proc |-> [p EXCEPT !.pages[v] = page], ret |-> 0]

\* load_emxf checks the image before it maps anything.
load_emxf(m, p) ==
    IF p.path # "good" THEN [mem |-> m, proc |-> p, ret |-> -1]
    ELSE map_copied_user_page(m, p, CODE)

\* Mutant: what was mapped before the failure is not given back.
user_prepare_exec_Leak(m, p) ==
    LET code  == load_emxf(m, p)
        stack == map_copied_user_page(code.mem, code.proc, STACK)
    IN  IF code.ret # 0 THEN code ELSE stack

user_prepare_exec(m, p) ==
    LET code  == load_emxf(m, p)
        stack == map_copied_user_page(code.mem, code.proc, STACK)
        Fail(r) == LET f == user_process_free_pages(r.mem, r.proc)
                   IN  [mem |-> f.mem, proc |-> f.proc, ret |-> -1]
    IN  IF code.ret # 0 THEN Fail(code)
        ELSE IF stack.ret # 0 THEN Fail(stack) ELSE stack

\* The outcomes of user_spawn. A pid is used up even when the spawn fails after
\* a record was found, and zombies are reaped on the way by kthread_create.
user_spawn(path) ==
    LET free  == First({i \in Records : processes[i].state = USER_PROCESS_FREE})
        space == vmm_create_address_space(mem)
        process(task_id) ==
            [FreeRecord EXCEPT
                !.state = USER_PROCESS_CREATED,
                !.pid = next_pid,
                !.task_id = task_id,
                !.parent_pid = IF Caller = NULL THEN USER_PROCESS_NO_PARENT
                               ELSE processes[Caller].pid,
                !.address_space = space.ret,
                !.path = path]
        Failed(t, m, n) == [processes |-> processes, tasks |-> t, mem |-> m,
                            slot |-> 0, task |-> -1, ret |-> -1, next_pid |-> n]
        Outcome(k) ==
            IF k.ret = -1
            THEN Failed(k.tasks, vmm_destroy_address_space(k.mem, space.ret),
                        next_pid + 1)
            ELSE [processes |-> [processes EXCEPT ![free] = process(k.ret)],
                  tasks |-> k.tasks, mem |-> k.mem, slot |-> k.slot,
                  task |-> k.ret, ret |-> next_pid, next_pid |-> next_pid + 1]
    IN  IF free = NULL THEN {Failed(tasks, mem, next_pid)}
        ELSE IF space.ret = NULL THEN {Failed(tasks, mem, next_pid + 1)}
        ELSE {Outcome(k) : k \in kthread_create(tasks, space.mem, "user_exec_task")}

\* Mutant: keys typed before the spawn are kept for the new process.
ClearedKeys_Keep(r) == keys

ClearedKeys(r) == IF r.ret = -1 THEN keys ELSE <<>>

\* The parts of a spawn that do not depend on what its caller does next.
Spawned(r) ==
    /\ keys' = ClearedKeys(r)
    /\ processes' = r.processes
    /\ next_pid' = r.next_pid
    /\ next_task_id' = IF r.task = -1 THEN next_task_id ELSE next_task_id + 1

\* pc once the thread in slot, if one was created, is ready to start.
Started(slot) == IF slot = 0 THEN pc ELSE [pc EXCEPT ![slot] = At("start")]

CanSpawn == next_pid <= MaxPid /\ next_task_id <= MaxTaskId

-----------------------------------------------------------------------------
(* Task 0: kmain and the kernel shell *)

\* user_init up to its first sched_yield: at boot, and as cmd_userland.
UserInit ==
    /\ current_task = 0 /\ pc[0].at \in {"boot", "kshell"} /\ CanSpawn
    /\ \E r \in user_spawn("good") :
          /\ Spawned(r)
          /\ \/ /\ r.ret = -1
                /\ tasks' = r.tasks /\ mem' = r.mem
                /\ pc' = [pc EXCEPT ![0] = At("kshell")]
                /\ UNCHANGED <<userland_active, current_task, cr3, esp0>>
             \/ /\ r.ret # -1
                /\ userland_active' = TRUE
                /\ pc' = [Started(r.slot) EXCEPT ![0] = AtWith("init", r.ret)]
                /\ sched_yield(r.tasks, r.mem)
    /\ UNCHANGED panicked

\* Mutant: userland_active is not reset.
EndUserland_Keep == UNCHANGED userland_active

EndUserland == userland_active' = FALSE

\* One round of user_init's loop, once control is back.
InitLoop ==
    /\ current_task = 0 /\ pc[0].at = "init"
    /\ \/ /\ user_process_find_by_pid(processes, pc[0].pid) # NULL
          /\ sched_yield(tasks, mem)
          /\ UNCHANGED <<userland_active, pc>>
       \/ /\ user_process_find_by_pid(processes, pc[0].pid) = NULL
          /\ EndUserland
          /\ pc' = [pc EXCEPT ![0] = At("kshell")]
          /\ UNCHANGED <<tasks, mem, current_task, cr3, esp0>>
    /\ UNCHANGED <<processes, next_pid, keys, next_task_id, panicked>>

cmd_userspawn(path) ==
    /\ current_task = 0 /\ pc[0].at = "kshell" /\ CanSpawn
    /\ \E r \in user_spawn(path) :
          Spawned(r) /\ tasks' = r.tasks /\ mem' = r.mem /\ pc' = Started(r.slot)
    /\ UNCHANGED <<current_task, cr3, esp0, panicked, userland_active>>

cmd_yield ==
    /\ current_task = 0 /\ pc[0].at = "kshell"
    /\ keys' = <<>>
    /\ sched_yield(tasks, mem)
    /\ UNCHANGED <<next_task_id, panicked, processes, next_pid, userland_active, pc>>

\* What cmd_vmmtest does to memory after its thread ran: maps, and unmaps, a
\* page in a scratch address space, then page 0 at a low address of its own.
VmmtestMemory(m) ==
    LET space  == vmm_create_address_space(m)
        page   == pmm_alloc_page(space.mem)
        first  == vmm_map_page_in(SetUsed(space.mem, page), space.ret, CODE, page)
        second == vmm_map_page_in(first.mem, space.ret, CODE, page)
        user   == vmm_destroy_address_space(
                     pmm_free_page(vmm_unmap_page_in(second.mem, space.ret, CODE), page),
                     space.ret)
    IN  vmm_unmap_page_in(vmm_map_page(user, LOW, NULL).mem, kernel_page_directory, LOW)

cmd_vmmtest ==
    /\ current_task = 0 /\ pc[0].at = "kshell" /\ next_task_id <= MaxTaskId
    /\ \E k \in kthread_create(tasks, mem, "zero_test") :
          /\ CountTask(k)
          /\ \/ /\ k.ret = -1
                /\ tasks' = k.tasks /\ mem' = VmmtestMemory(k.mem)
                /\ UNCHANGED <<pc, current_task, cr3, esp0>>
             \/ /\ k.ret # -1
                /\ pc' = [Started(k.slot) EXCEPT ![0] = At("vmmtest")]
                /\ sched_yield(k.tasks, k.mem)
    /\ UNCHANGED <<processes, next_pid, keys, userland_active, panicked>>

VmmtestResumed ==
    /\ current_task = 0 /\ pc[0].at = "vmmtest"
    /\ mem' = VmmtestMemory(mem)
    /\ pc' = [pc EXCEPT ![0] = At("kshell")]
    /\ UNCHANGED <<tasks, current_task, next_task_id, cr3, esp0, panicked>>
    /\ UNCHANGED <<processes, next_pid, keys, userland_active>>

-----------------------------------------------------------------------------
(* Threads: kthread_trampoline, user_exec_task and the system calls *)

\* The thread's function returned, or sys_exit was called.
ThreadEnds(t, m) ==
    /\ pc' = [pc EXCEPT ![current_task] = At("none")]
    /\ kthread_exit(t, m)

\* sched_set_current_address_space(0) is refused, whatever the thread.
sched_zero_address_space_test ==
    /\ pc[current_task].at = "start" /\ tasks[current_task].entry = "zero_test"
    /\ ThreadEnds(sched_set_current_address_space(tasks, NULL), mem)
    /\ UNCHANGED <<next_task_id, processes, next_pid, keys, userland_active>>

\* Mutant: the record of a program that did not load is kept.
UndoSpawn_Keep(r) ==
    /\ UNCHANGED processes
    /\ ThreadEnds(tasks, vmm_destroy_address_space(r.mem, r.proc.address_space))

\* user_exec_task's fail label, and the thread's end.
UndoSpawn(r) ==
    /\ processes' = user_process_release(processes, Caller)
    /\ ThreadEnds(tasks, vmm_destroy_address_space(r.mem, r.proc.address_space))

\* What a load r comes to: when its directory cannot be adopted its pages are
\* freed again.
Adopted(r) ==
    LET Refused(freed) == [mem |-> freed.mem, proc |-> freed.proc, ret |-> -1]
    IN  IF r.ret = 0 /\ SpaceRefused(r.proc.address_space)
        THEN Refused(user_process_free_pages(r.mem, r.proc)) ELSE r

\* The program of the running thread's record, loaded.
LoadedProgram ==
    Adopted(IF Caller = NULL THEN [mem |-> mem, proc |-> FreeRecord, ret |-> -1]
            ELSE user_prepare_exec(mem, processes[Caller]))

\* Loads the program and enters user mode, or undoes the spawn.
user_exec_task ==
    /\ pc[current_task].at = "start" /\ tasks[current_task].entry = "user_exec_task"
    /\ LET r == LoadedProgram
           space == r.proc.address_space
       IN  \/ r.ret # 0 /\ UndoSpawn(r)
           \/ /\ r.ret = 0
              /\ processes' = [processes EXCEPT ![Caller] =
                                  [r.proc EXCEPT !.state = USER_PROCESS_RUNNING]]
              /\ tasks' = sched_set_current_address_space(tasks, space)
              /\ cr3' = LoadedDirectory(space)
              /\ mem' = r.mem
              /\ pc' = [pc EXCEPT ![current_task] = At("user")]
              /\ UNCHANGED <<current_task, esp0, panicked>>
    /\ UNCHANGED <<next_task_id, next_pid, keys, userland_active>>

sys_yield ==
    /\ pc[current_task].at = "user"
    /\ sched_yield(tasks, mem)
    /\ UNCHANGED <<next_task_id, panicked, processVars>>

sys_spawn(path) ==
    /\ pc[current_task].at = "user" /\ CanSpawn
    /\ \E r \in user_spawn(path) :
          Spawned(r) /\ tasks' = r.tasks /\ mem' = r.mem /\ pc' = Started(r.slot)
    /\ UNCHANGED <<current_task, cr3, esp0, panicked, userland_active>>

\* Mutant: the directory is destroyed although the scheduler still has it.
user_exit_current_Destroy ==
    LET freed == user_process_free_pages(mem, processes[Caller])
    IN  [processes |-> user_process_release(processes, Caller),
         mem |-> vmm_destroy_address_space(freed.mem, processes[Caller].address_space)]

\* The table and memory user_exit_current leaves. The record is kept only for
\* a parent that can still wait for it.
user_exit_current ==
    LET freed == user_process_free_pages(mem, processes[Caller])
        self  == [freed.proc EXCEPT !.state = USER_PROCESS_EXITED,
                                    !.address_space = NULL]
        ps    == user_process_orphan_children([processes EXCEPT ![Caller] = self], Caller)
    IN  [processes |-> IF user_process_find_by_pid(ps, self.parent_pid) = NULL
                       THEN user_process_release(ps, Caller) ELSE ps,
         mem |-> freed.mem]

sys_exit ==
    /\ pc[current_task].at = "user"
    /\ LET x == IF Caller = NULL THEN [processes |-> processes, mem |-> mem]
                ELSE user_exit_current
       IN  processes' = x.processes /\ ThreadEnds(tasks, x.mem)
    /\ UNCHANGED <<next_task_id, next_pid, keys, userland_active>>

\* Mutant: any process may wait for any other.
IsChildOfCaller_Any(child) == Caller # NULL /\ child # NULL

IsChildOfCaller(child) ==
    /\ Caller # NULL /\ child # NULL
    /\ processes[child].parent_pid = processes[Caller].pid

\* One round of user_wait's loop: on entry from user mode and after each yield.
user_wait(pid) ==
    LET child == user_process_find_by_pid(processes, pid)
        mine  == IsChildOfCaller(child)
        Return == /\ pc' = [pc EXCEPT ![current_task] = At("user")]
                  /\ UNCHANGED <<tasks, mem, current_task, cr3, esp0>>
    IN  \/ /\ ~mine
          /\ Return
          /\ UNCHANGED processes
       \/ /\ mine
          /\ processes[child].state = USER_PROCESS_EXITED
          /\ processes' = user_process_release(processes, child)
          /\ Return
       \/ /\ mine
          /\ processes[child].state # USER_PROCESS_EXITED
          /\ pc' = [pc EXCEPT ![current_task] = AtWith("wait", pid)]
          /\ sched_yield(tasks, mem)
          /\ UNCHANGED processes

sys_wait ==
    /\ \/ /\ pc[current_task].at = "user"
          /\ \E pid \in 1 .. MaxPid : user_wait(pid)
       \/ /\ pc[current_task].at = "wait"
          /\ user_wait(pc[current_task].pid)
    /\ UNCHANGED <<next_task_id, next_pid, keys, userland_active, panicked>>

\* SYS_GETC: the key popped goes to the program.
SysGetc ==
    /\ pc[current_task].at = "user" /\ keys # <<>>
    /\ keys' = Tail(keys)
    /\ UNCHANGED <<schedVars, processes, next_pid, userland_active, pc>>

-----------------------------------------------------------------------------
(* The keyboard interrupt *)

user_has_input_focus ==
    \/ userland_active
    \/ Caller # NULL /\ processes[Caller].state = USER_PROCESS_RUNNING

\* irq_handler's keyboard half. Without focus the key goes to the kernel shell;
\* in a full buffer it is dropped.
KeyboardIrq ==
    /\ user_has_input_focus
    /\ Len(keys) < KEYBOARD_BUFFER_SIZE - 1
    /\ keys' = Append(keys, next_pid)
    /\ UNCHANGED <<schedVars, processes, next_pid, userland_active, pc>>

-----------------------------------------------------------------------------
TaskZero ==
    \/ UserInit \/ InitLoop \/ cmd_yield \/ cmd_vmmtest \/ VmmtestResumed
    \/ \E path \in Paths : cmd_userspawn(path)

Thread ==
    \/ user_exec_task \/ sched_zero_address_space_test
    \/ sys_yield \/ sys_exit \/ sys_wait \/ SysGetc
    \/ \E path \in Paths : sys_spawn(path)

ProcessNext == ~panicked /\ (TaskZero \/ Thread \/ KeyboardIrq)

ProcessSafety == ProcessInit /\ [][ProcessNext]_vars

\* The kernel's loops run on whenever they have the CPU, and a user program
\* makes the next system call that gives the CPU up. Nothing makes the operator
\* type a command, so task 0 may stay at the kernel shell's prompt for ever.
CpuGivenUp ==
    /\ ~panicked
    /\ \/ InitLoop \/ VmmtestResumed
       \/ user_exec_task \/ sched_zero_address_space_test
       \/ sys_yield \/ sys_exit \/ sys_wait

\* Where CpuGivenUp is enabled: task 0 is always there to switch to, and init's
\* thread while user_init loops.
CpuHeld == ~panicked /\ pc[current_task].at \notin {"boot", "kshell"}

\* Weak fairness of CpuGivenUp, with ENABLED spelt out.
CpuFairness == []<>~CpuHeld \/ []<><<CpuGivenUp>>_vars

ProcessSpec == ProcessSafety /\ CpuFairness

-----------------------------------------------------------------------------
\* Type invariant of the process table, the keyboard buffer and the task positions.
ProcessTypeOK ==
    /\ SchedTypeOK
    /\ processes \in [Records -> UserProcess]
    /\ next_pid \in Nat \ {0}
    /\ userland_active \in BOOLEAN
    /\ keys \in Seq(Nat) /\ Len(keys) < KEYBOARD_BUFFER_SIZE
    /\ pc \in [Slots -> [at : Points, pid : Nat]]

Live == {i \in Records : processes[i].state # USER_PROCESS_FREE}
InState(s) == {i \in Records : processes[i].state = s}

\* Directories in use besides the kernel's: a created process's own, and those
\* adopted by tasks, zombies not yet reaped included.
UserDirectories ==
    ({processes[i].address_space : i \in Live}
        \cup {tasks[i].address_space : i \in InUse}) \ {NULL, kernel_page_directory}

PageTables ==
    {mem.pde[d] : d \in UserDirectories \cup {kernel_page_directory}} \ {ABSENT}

ProgramPages ==
    (UNION {{processes[i].pages[v] : v \in UserPages} : i \in Live}) \ {NULL}

\* Every allocated page has exactly one owner, and an owner for every page: no
\* failure path of spawn, exec, exit, wait or vmmtest leaks a page, gives one
\* back that is still in use, or lets two owners have the same one.
PagesAccounted ==
    LET mappings == {x \in Live \X UserPages : processes[x[1]].pages[x[2]] # NULL}
        rooted   == {d \in UserDirectories \cup {kernel_page_directory} :
                        mem.pde[d] # ABSENT}
    IN  /\ mem.used = mem.heap \cup UserDirectories \cup PageTables \cup ProgramPages
        /\ Cardinality(mem.used) =
              Cardinality(mem.heap) + Cardinality(UserDirectories)
              + Cardinality(rooted) + Cardinality(mappings)

\* A running process sees its two pages and no other, and what user mode sees
\* when it runs is its own directory; nobody else's directory maps anything.
Isolation ==
    /\ \A i \in InState(USER_PROCESS_RUNNING) : \A v \in UserPages :
          /\ processes[i].pages[v] # NULL
          /\ mem.pde[processes[i].address_space] # ABSENT
          /\ mem.pte[mem.pde[processes[i].address_space]][v] = processes[i].pages[v]
    /\ \A d \in UserDirectories \cup {kernel_page_directory} :
          (\E v \in VirtualPages : mem.pde[d] # ABSENT
                                     /\ mem.pte[mem.pde[d]][v] # ABSENT)
          => \E i \in InState(USER_PROCESS_RUNNING) : processes[i].address_space = d
    /\ pc[current_task].at = "user" =>
          Caller # NULL /\ processes[Caller].address_space = cr3

\* The tables of tasks and of processes agree: a created process's thread has
\* not run, a running one's is in user mode or waiting, an exited one's is a
\* zombie or gone, and no living user thread is without its record, so the
\* lookups by task id in user_exec_task, user_wait and user_exit_current find
\* the caller itself. Task ids and pids name at most one task or record.
ProcessesMatchTasks ==
    /\ \A i \in Live :
          LET slots == {k \in InUse : tasks[k].id = processes[i].task_id}
              point == [k \in slots |-> pc[k].at]
          IN  CASE processes[i].state = USER_PROCESS_CREATED ->
                     \E k \in slots : point[k] = "start"
                [] processes[i].state = USER_PROCESS_RUNNING ->
                     \E k \in slots : point[k] \in {"user", "wait"}
                                      /\ tasks[k].address_space = processes[i].address_space
                [] OTHER -> \A k \in slots : tasks[k].state = TASK_ZOMBIE
    /\ \A k \in InUse : tasks[k].entry = "user_exec_task" /\ pc[k].at # "none" =>
          \E i \in Live : /\ processes[i].task_id = tasks[k].id
                          /\ processes[i].state # USER_PROCESS_EXITED
    /\ \A k, l \in InUse : tasks[k].id = tasks[l].id => k = l
    /\ \A i, j \in Live :
          \/ processes[i].task_id = processes[j].task_id
          \/ processes[i].pid = processes[j].pid
          => i = j

\* A parent is a process that can still wait: it has not exited. So an exited
\* record is always one somebody can collect or release, and user_exit_current
\* never keeps a record for a parent that is gone.
ParentsCanWait ==
    /\ \A i \in Live : processes[i].parent_pid # USER_PROCESS_NO_PARENT =>
          \E j \in InState(USER_PROCESS_RUNNING) :
             processes[j].pid = processes[i].parent_pid
    /\ \A i \in InState(USER_PROCESS_EXITED) :
          processes[i].parent_pid # USER_PROCESS_NO_PARENT

\* No process reads a key that was typed before it was spawned, whoever else had
\* the keyboard then: user_spawn clears the buffer.
NoTypeAhead ==
    \A k \in 1 .. Len(keys) : \A i \in Live : processes[i].pid < keys[k]

\* An exited child's record is kept until its own parent takes it, by wait or
\* by exiting: no other task, and no other process of its parent, loses it.
StatusKept ==
    [][\A i \in InState(USER_PROCESS_EXITED) :
          processes'[i] # processes[i] =>
             Caller # NULL /\ processes[Caller].pid = processes[i].parent_pid]_vars

\* A wait returns once its child exited, or could not be loaded, so that its
\* record went while its parent was waiting; unless the session ends and task 0
\* keeps the CPU at the kernel shell's prompt.
WaitReturns ==
    \A i \in Slots :
       (/\ pc[i].at = "wait"
        /\ \A j \in Live \ InState(USER_PROCESS_EXITED) : processes[j].pid # pc[i].pid)
       ~> (pc[i].at # "wait" \/ pc[0].at = "kshell")

\* When init's record is gone userland ends and the kernel shell gets the
\* keyboard back, whatever processes init left running.
UserlandEnds ==
    (pc[0].at = "init" /\ user_process_find_by_pid(processes, pc[0].pid) = NULL)
    ~> ~userland_active
=============================================================================
