---------------------------- MODULE ProcessProofs ----------------------------
(***************************************************************************)
(* The table of processes against the table of tasks, and both against      *)
(* memory, for every size of the three, whatever programs call and however  *)
(* allocations fail.                                                        *)
(*                                                                         *)
(* The first half is about the two tables. Nothing there depends on the     *)
(* memory: the services return a page or NULL, and that is all the tables   *)
(* see of them. The second half says who owns each page, directory and      *)
(* stack, and follows the owners through every step.                        *)
(***************************************************************************)
EXTENDS Process, SchedProofs, SequenceTheorems, FiniteSetTheorems

(***************************************************************************)
(* The invariant, of the tables at any point of a step: t the tasks, ps the *)
(* processes, p the positions, n the next task id, q the next pid.          *)
(***************************************************************************)
Alive(t, k) == t[k].state \in {TASK_RUNNING, TASK_RUNNABLE}

ThreadPoints == {"start", "user", "wait"}

Positions == [Slots -> [at : Points, pid : Nat]]

\* Task 0 lives for ever in kmain, a living thread is somewhere in its code, and
\* ids name one task; only threads of user_exec_task get to user mode.
ThreadsOK(t, p, n) ==
    /\ t \in [Slots -> Task] /\ p \in Positions /\ n \in Nat \ {0}
    /\ t[0].id = 0 /\ Alive(t, 0) /\ t[0].entry # "user_exec_task"
    /\ p[0].at \in {"boot", "kshell", "init", "vmmtest"}
    /\ \A k \in Slots \ {0} :
          IF Alive(t, k) THEN p[k].at \in ThreadPoints ELSE p[k].at = "none"
    /\ \A k \in Slots : t[k].state # TASK_UNUSED => t[k].id < n
    /\ \A k, l \in Slots :
          t[k].state # TASK_UNUSED /\ t[l].state # TASK_UNUSED /\ t[k].id = t[l].id => k = l
    /\ \A k \in Slots : p[k].at \in {"user", "wait"} => t[k].entry = "user_exec_task"

LiveIn(ps) == {i \in Records : ps[i].state # USER_PROCESS_FREE}

\* Pids and task ids of records in use were handed out and name one record.
RecordsOK(ps, n, q) ==
    /\ ps \in [Records -> UserProcess] /\ q \in Nat \ {0}
    /\ \A i \in LiveIn(ps) :
          /\ 0 < ps[i].pid /\ ps[i].pid < q
          /\ 0 < ps[i].task_id /\ ps[i].task_id < n
          /\ ps[i].parent_pid < ps[i].pid
    /\ \A i \in Records : ps[i].state = USER_PROCESS_CREATED => ps[i].address_space \in Pages
    /\ \A i, j \in LiveIn(ps) : ps[i].pid = ps[j].pid => i = j
    /\ \A i, j \in LiveIn(ps) : ps[i].task_id = ps[j].task_id => i = j

\* The thread of a process that has not exited, where its state says it is.
Runs(t, p, k, r) ==
    /\ Alive(t, k) /\ t[k].id = r.task_id /\ t[k].entry = "user_exec_task"
    /\ r.state = USER_PROCESS_CREATED => p[k].at = "start"
    /\ r.state = USER_PROCESS_RUNNING =>
          p[k].at \in {"user", "wait"} /\ t[k].address_space = r.address_space

\* Records that have not exited and living user threads are one to one.
MatchOK(t, ps, p) ==
    /\ \A i \in LiveIn(ps) : ps[i].state # USER_PROCESS_EXITED =>
          \E k \in Slots : Runs(t, p, k, ps[i])
    /\ \A i \in LiveIn(ps) : ps[i].state = USER_PROCESS_EXITED =>
          \A k \in Slots : Alive(t, k) => t[k].id # ps[i].task_id
    /\ \A k \in Slots : Alive(t, k) /\ t[k].entry = "user_exec_task" =>
          \E i \in LiveIn(ps) : ps[i].task_id = t[k].id /\ ps[i].state # USER_PROCESS_EXITED

\* A parent has not exited, and an exited record has one.
ParentsOK(ps) ==
    /\ \A i \in LiveIn(ps) : ps[i].parent_pid # USER_PROCESS_NO_PARENT =>
          \E j \in Records : ps[j].state = USER_PROCESS_RUNNING /\ ps[j].pid = ps[i].parent_pid
    /\ \A i \in Records : ps[i].state = USER_PROCESS_EXITED =>
          ps[i].parent_pid # USER_PROCESS_NO_PARENT

TablesOK(t, ps, p, n, q) ==
    /\ ThreadsOK(t, p, n)
    /\ RecordsOK(ps, n, q)
    /\ MatchOK(t, ps, p)
    /\ ParentsOK(ps)

KeysOK ==
    /\ keys \in Seq(Nat) /\ Len(keys) < KEYBOARD_BUFFER_SIZE
    /\ userland_active \in BOOLEAN
    /\ NoTypeAhead

ProcessInv ==
    /\ TablesOK(tasks, processes, pc, next_task_id, next_pid)
    /\ KeysOK
    /\ current_task \in Slots
    /\ OneRunning
    /\ NoPanic

-----------------------------------------------------------------------------
(* What the scheduler does to the table of tasks *)

\* s has the living tasks of t, except in the slots K; its zombies were t's.
SameBut(t, s, K) ==
    \A k \in Slots \ K :
       /\ Alive(s, k) <=> Alive(t, k)
       /\ s[k].state # TASK_UNUSED =>
             /\ t[k].state # TASK_UNUSED
             /\ s[k].id = t[k].id /\ s[k].entry = t[k].entry
             /\ s[k].address_space = t[k].address_space

\* The table a task leaves when it gives up the CPU.
Leaving(t) ==
    /\ t \in [Slots -> Task] /\ current_task \in Slots
    /\ t[current_task].state \in {TASK_RUNNING, TASK_ZOMBIE}
    /\ \A i \in Slots : t[i].state = TASK_RUNNING => i = current_task

\* Reaping clears the other zombies and nothing else.
LEMMA Reaped ==
    ASSUME NEW t \in [Slots -> Task], NEW m
    PROVE  LET z == reap_zombies(t, m).tasks
           IN  /\ z \in [Slots -> Task]
               /\ \A i \in Slots : z[i] = IF i \in Reapable(t) THEN UnusedTask ELSE t[i]
               /\ SameBut(t, z, {})
<1> DEFINE z == [i \in Slots |-> IF i \in Reapable(t) THEN UnusedTask ELSE t[i]]
<1>1. reap_zombies(t, m).tasks = z
    BY DEF reap_zombies, task_cleanup
<1>2. z \in [Slots -> Task]
    BY UnusedIsTask
<1>3. \A i \in Slots : z[i] = IF i \in Reapable(t) THEN UnusedTask ELSE t[i]
    OBVIOUS
<1> HIDE DEF z
<1>4. SameBut(t, z, {})
    BY <1>3, UnusedIsTask
       DEF SameBut, Alive, Reapable, TASK_UNUSED, TASK_ZOMBIE, TASK_RUNNING, TASK_RUNNABLE
<1> QED BY <1>1, <1>2, <1>3, <1>4

\* Giving up the CPU changes no thread: who lives, lives on, and one runs. A
\* zombie does not get the CPU back while another task lives.
LEMMA Yielded ==
    ASSUME NEW t, NEW m, Leaving(t), sched_yield(t, m)
    PROVE  /\ tasks' \in [Slots -> Task] /\ SameBut(t, tasks', {})
           /\ current_task' \in Slots
           /\ (t[current_task].state = TASK_RUNNING \/ \E i \in Slots : Alive(t, i)) =>
                 OneRunning'
           /\ t[current_task].state = TASK_ZOMBIE /\ (\E i \in Slots : Alive(t, i)) =>
                 current_task' # current_task
<1> DEFINE z == reap_zombies(t, m).tasks
           idx == NextTask(z)
<1>1. /\ z \in [Slots -> Task] /\ SameBut(t, z, {})
      /\ \A i \in Slots : z[i] = IF i \in Reapable(t) THEN UnusedTask ELSE t[i]
    BY Reaped DEF Leaving
<1>2. /\ current_task' = idx
      /\ \/ idx = current_task /\ tasks' = z
         \/ idx # current_task /\ tasks' = SwitchTo(z, idx)
    BY DEF sched_yield
<1> HIDE DEF z
<1>3. /\ idx \in Slots
      /\ z[idx].state = TASK_RUNNABLE \/ idx = current_task
      /\ (\E i \in Slots : z[i].state = TASK_RUNNABLE) => z[idx].state = TASK_RUNNABLE
    BY NextTaskRuns DEF Leaving
<1> HIDE DEF idx
<1>4. z[current_task] = t[current_task] /\ current_task \in Slots
    BY <1>1 DEF Leaving, Reapable
<1>5. \A i \in Slots : z[i].state = TASK_RUNNING => i = current_task
    BY <1>1, UnusedIsTask DEF Leaving, TASK_UNUSED, TASK_RUNNING
<1>6. t[current_task].state = TASK_ZOMBIE /\ (\E i \in Slots : Alive(t, i)) =>
         idx # current_task
  <2> SUFFICES ASSUME t[current_task].state = TASK_ZOMBIE, NEW i \in Slots, Alive(t, i)
               PROVE  idx # current_task
    OBVIOUS
  <2>1. i # current_task /\ Alive(z, i)
    BY <1>1 DEF Alive, SameBut, TASK_ZOMBIE, TASK_RUNNING, TASK_RUNNABLE
  <2>2. z[i].state = TASK_RUNNABLE
    BY <1>5, <2>1 DEF Alive
  <2> QED BY <1>3, <1>4, <2>2 DEF TASK_ZOMBIE, TASK_RUNNABLE
<1>7. CASE idx = current_task /\ tasks' = z
  <2>1. \A i \in Slots : t[current_task].state = TASK_RUNNING \/ Alive(t, i) =>
           t[current_task].state = TASK_RUNNING
    BY <1>6, <1>7 DEF Leaving
  <2> QED BY <1>1, <1>2, <1>3, <1>4, <1>5, <1>6, <1>7, <2>1 DEF OneRunning
<1>8. CASE idx # current_task /\ tasks' = SwitchTo(z, idx)
  <2> DEFINE state == IF z[current_task].state = TASK_RUNNING THEN TASK_RUNNABLE
                      ELSE z[current_task].state
             old == [z[current_task] EXCEPT !.state = state, !.stack_pointer = "saved"]
             new == [z[idx] EXCEPT !.state = TASK_RUNNING]
  <2>1. z[current_task] \in Task /\ z[idx] \in Task
    BY <1>1, <1>3, <1>4
  <2>2. tasks' = [z EXCEPT ![current_task] = old, ![idx] = new]
    BY <1>1, <1>8, <2>1 DEF SwitchTo
  <2>3. state \in {TASK_RUNNABLE, TASK_ZOMBIE}
        /\ (state = TASK_RUNNABLE <=> z[current_task].state = TASK_RUNNING)
    BY <1>4 DEF Leaving, TASK_RUNNABLE, TASK_ZOMBIE, TASK_RUNNING
  <2> HIDE DEF state
  <2>4. /\ old \in Task /\ old.state = state /\ old.id = z[current_task].id
        /\ old.entry = z[current_task].entry
        /\ old.address_space = z[current_task].address_space
    BY <2>1, <2>3 DEF Task, StackPointers, TaskStates
  <2>5. /\ new \in Task /\ new.state = TASK_RUNNING /\ new.id = z[idx].id
        /\ new.entry = z[idx].entry /\ new.address_space = z[idx].address_space
    BY <2>1 DEF Task, TaskStates
  <2> HIDE DEF old, new
  <2>6. /\ tasks' \in [Slots -> Task] /\ tasks'[current_task] = old /\ tasks'[idx] = new
        /\ \A i \in Slots \ {idx, current_task} : tasks'[i] = z[i]
    BY <1>1, <1>3, <1>4, <1>8, <2>2, <2>4, <2>5
  <2>7. SameBut(z, tasks', {})
    BY <1>3, <1>4, <1>8, <2>3, <2>4, <2>5, <2>6
       DEF SameBut, Alive, Leaving, TASK_RUNNING, TASK_RUNNABLE, TASK_ZOMBIE, TASK_UNUSED
  <2>8. SameBut(t, tasks', {})
    BY <1>1, <2>7 DEF SameBut
  <2>9. OneRunning'
    BY <1>2, <1>5, <1>8, <2>3, <2>4, <2>5, <2>6
       DEF OneRunning, TASK_RUNNING, TASK_RUNNABLE, TASK_ZOMBIE
  <2> QED BY <1>2, <1>3, <1>8, <2>6, <2>8, <2>9
<1> QED BY <1>2, <1>7, <1>8

\* A block kmalloc returns is a block, in whatever state the heap is.
LEMMA SomeBlock ==
    ASSUME NEW m, NEW k \in kmalloc(m), k.ret # NULL
    PROVE  k.ret \in Blocks
<1> DEFINE b == Lowest(Blocks \ m.stacks)
<1>1. ~(Blocks \subseteq m.stacks) /\ k.ret = b
    BY DEF kmalloc
<1>2. Blocks \ m.stacks # {} /\ Blocks \ m.stacks \in SUBSET Nat
    BY <1>1, PagesNat
<1>3. b \in Blocks \ m.stacks
    BY <1>2, LowestIn
<1> HIDE DEF b
<1> QED BY <1>1, <1>3

\* kthread_create changes no thread but the one it makes, in a slot no task has.
LEMMA Created ==
    ASSUME NEW t, NEW m, Leaving(t), next_task_id \in Nat,
           NEW e \in Entries, NEW r \in kthread_create(t, m, e)
    PROVE  /\ Leaving(r.tasks) /\ r.tasks[current_task] = t[current_task]
           /\ \/ r.ret = -1 /\ r.slot = 0 /\ SameBut(t, r.tasks, {})
              \/ /\ r.ret = next_task_id /\ r.slot \in Slots \ {0, current_task}
                 /\ ~Alive(t, r.slot)
                 /\ r.tasks[r.slot].state = TASK_RUNNABLE
                 /\ r.tasks[r.slot].id = next_task_id
                 /\ r.tasks[r.slot].entry = e
                 /\ SameBut(t, r.tasks, {r.slot})
<1> DEFINE y == reap_zombies(t, m)
           z == y.tasks
           unused == {i \in Slots \ {0} : z[i].state = TASK_UNUSED}
           slot == Lowest(unused)
           Failed(mm) == [tasks |-> z, mem |-> mm, slot |-> 0, ret |-> -1]
           Made(k) == [tasks |-> [z EXCEPT ![slot] = NewTask(k.ret, e)],
                       mem |-> k.mem, slot |-> slot, ret |-> next_task_id]
           Outcome(k) == IF k.ret = NULL THEN Failed(k.mem) ELSE Made(k)
<1>1. /\ z \in [Slots -> Task] /\ SameBut(t, z, {})
      /\ \A i \in Slots : z[i] = IF i \in Reapable(t) THEN UnusedTask ELSE t[i]
    BY Reaped DEF Leaving
<1>2. \/ \E mm : r = Failed(mm)
      \/ unused # {} /\ \E k \in kmalloc(y.mem) : k.ret # NULL /\ r = Made(k)
  <2>1. CASE unused = {}
    BY <2>1, Zenon DEF kthread_create
  <2>2. CASE unused # {}
    <3>1. r \in {Outcome(k) : k \in kmalloc(y.mem)}
      BY <2>2, Zenon DEF kthread_create
    <3>2. PICK k \in kmalloc(y.mem) : r = Outcome(k)
      BY <3>1
    <3> QED BY <2>2, <3>2, Zenon
  <2> QED BY <2>1, <2>2
<1> HIDE DEF y, z
<1>3. z[current_task] = t[current_task] /\ Leaving(z)
    BY <1>1, UnusedIsTask DEF Leaving, Reapable, TASK_UNUSED, TASK_RUNNING
<1>4. CASE \E mm : r = Failed(mm)
  <2>1. r.tasks = z /\ r.slot = 0 /\ r.ret = -1
    BY <1>4
  <2> QED BY <1>1, <1>3, <2>1
<1>5. CASE unused # {} /\ \E k \in kmalloc(y.mem) : k.ret # NULL /\ r = Made(k)
  <2>1. slot \in Slots \ {0} /\ z[slot].state = TASK_UNUSED
    BY <1>5, LowestIn, SlotsNat
  <2> HIDE DEF slot, unused
  <2>2. PICK k \in kmalloc(y.mem) : k.ret # NULL /\ r = Made(k)
    BY <1>5
  <2>3. k.ret \in Blocks
    BY <2>2, SomeBlock
  <2> DEFINE new == NewTask(k.ret, e)
  <2>4. /\ new \in Task /\ new.state = TASK_RUNNABLE
        /\ new.id = next_task_id /\ new.entry = e
    BY <2>3 DEF NewTask, Task, TaskStates, StackPointers, Directories
  <2>5. r.tasks = [z EXCEPT ![slot] = new] /\ r.slot = slot /\ r.ret = next_task_id
    BY <2>2
  <2> HIDE DEF new
  <2>6. slot # current_task
    BY <1>3, <2>1 DEF Leaving, TASK_UNUSED, TASK_RUNNING, TASK_ZOMBIE
  <2>7. /\ r.tasks \in [Slots -> Task] /\ r.tasks[slot] = new
        /\ \A i \in Slots \ {slot} : r.tasks[i] = z[i]
    BY <1>1, <2>1, <2>4, <2>5
  <2>8. Leaving(r.tasks) /\ r.tasks[current_task] = t[current_task]
    BY <1>3, <2>1, <2>4, <2>6, <2>7 DEF Leaving, TASK_RUNNING, TASK_RUNNABLE
  <2>9. ~Alive(t, slot) /\ SameBut(t, r.tasks, {slot})
    BY <1>1, <2>1, <2>7 DEF SameBut, Alive, TASK_UNUSED, TASK_RUNNING, TASK_RUNNABLE
  <2> QED BY <2>1, <2>4, <2>5, <2>6, <2>7, <2>8, <2>9
<1> QED BY <1>2, <1>4, <1>5

-----------------------------------------------------------------------------
(* The two tables side by side *)

\* A step of the scheduler that changes no thread leaves the tables matched.
LEMMA SameTables ==
    ASSUME NEW t, NEW s \in [Slots -> Task], NEW ps, NEW p, NEW n, NEW q,
           TablesOK(t, ps, p, n, q), SameBut(t, s, {})
    PROVE  TablesOK(s, ps, p, n, q)
<1>0. 0 \in Slots
    BY SlotsNat
<1>1. \A k \in Slots : Alive(s, k) =>
         s[k].id = t[k].id /\ s[k].entry = t[k].entry /\ s[k].address_space = t[k].address_space
    BY DEF SameBut, Alive, TASK_UNUSED, TASK_RUNNING, TASK_RUNNABLE
<1>2. ThreadsOK(s, p, n)
  <2>1. \A k \in Slots : p[k].at \in {"user", "wait"} => s[k].entry = "user_exec_task"
    BY <1>1 DEF TablesOK, ThreadsOK, SameBut
  <2> QED BY <1>0, <1>1, <2>1 DEF TablesOK, ThreadsOK, SameBut
<1>3. MatchOK(s, ps, p)
    BY <1>1 DEF TablesOK, MatchOK, Runs, SameBut
<1> QED BY <1>2, <1>3 DEF TablesOK

\* The record of a task, if one is in use, and its search: the tables are
\* matched, so a living thread of user_exec_task finds its own, in the state its
\* position says, and any other task finds none.
LEMMA CallerFound ==
    ASSUME NEW k \in Slots, TablesOK(tasks, processes, pc, next_task_id, next_pid),
           Alive(tasks, k)
    PROVE  LET c == user_process_find_by_task_id(processes, tasks[k].id)
           IN  /\ tasks[k].entry # "user_exec_task" =>
                     c = NULL /\ \A i \in LiveIn(processes) : processes[i].task_id # tasks[k].id
               /\ tasks[k].entry = "user_exec_task" =>
                     /\ c \in Records /\ c # NULL
                     /\ processes[c].task_id = tasks[k].id
                     /\ pc[k].at = "start" => processes[c].state = USER_PROCESS_CREATED
                     /\ pc[k].at # "start" => processes[c].state = USER_PROCESS_RUNNING
                     /\ Runs(tasks, pc, k, processes[c])
<1> DEFINE S == {i \in Records : /\ processes[i].state # USER_PROCESS_FREE
                                 /\ processes[i].task_id = tasks[k].id}
           c == user_process_find_by_task_id(processes, tasks[k].id)
<1>1. Records \in SUBSET Nat /\ NULL \notin Records
    BY ProcessAssumption DEF Records, NULL
<1>2. S \in SUBSET Nat /\ c = First(S)
    BY <1>1 DEF user_process_find_by_task_id
<1>3. (S = {} /\ c = NULL) \/ c \in S
    BY <1>2, FirstIn
<1> HIDE DEF c
<1>4. ASSUME NEW i \in S
      PROVE  /\ tasks[k].entry = "user_exec_task"
             /\ Runs(tasks, pc, k, processes[i])
             /\ processes[i].state \in {USER_PROCESS_CREATED, USER_PROCESS_RUNNING}
  <2>1. i \in LiveIn(processes) /\ processes[i].state # USER_PROCESS_EXITED
    BY DEF TablesOK, MatchOK, LiveIn
  <2>2. PICK l \in Slots : Runs(tasks, pc, l, processes[i])
    BY <2>1 DEF TablesOK, MatchOK
  <2>3. l = k
    BY <2>2 DEF Runs, Alive, TablesOK, ThreadsOK, TASK_UNUSED, TASK_RUNNING, TASK_RUNNABLE
  <2>4. processes[i].state \in {USER_PROCESS_CREATED, USER_PROCESS_RUNNING}
    BY <2>1 DEF TablesOK, RecordsOK, UserProcess, LiveIn
  <2> QED BY <2>2, <2>3, <2>4 DEF Runs
<1>5. tasks[k].entry = "user_exec_task" => S # {}
    BY DEF TablesOK, MatchOK, LiveIn
<1>6. CASE tasks[k].entry # "user_exec_task"
    BY <1>3, <1>4, <1>6 DEF c, LiveIn
<1>7. CASE tasks[k].entry = "user_exec_task"
  <2>1. c \in S
    BY <1>3, <1>5, <1>7
  <2>2. Runs(tasks, pc, k, processes[c])
        /\ processes[c].state \in {USER_PROCESS_CREATED, USER_PROCESS_RUNNING}
    BY <1>4, <2>1
  <2> QED BY <1>1, <1>7, <2>1, <2>2
     DEF c, Runs, USER_PROCESS_CREATED, USER_PROCESS_RUNNING
<1> QED BY <1>6, <1>7

\* A thread made in a slot of its own, with an id nobody has.
LEMMA ThreadAdded ==
    ASSUME NEW t, NEW s \in [Slots -> Task], NEW p, NEW n, NEW slot \in Slots \ {0},
           ThreadsOK(t, p, n), ~Alive(t, slot), SameBut(t, s, {slot}),
           s[slot].state = TASK_RUNNABLE, s[slot].id = n
    PROVE  LET started == [p EXCEPT ![slot] = At("start")]
           IN  /\ ThreadsOK(s, started, n + 1)
               /\ \A k \in Slots \ {slot} : started[k] = p[k]
               /\ started[slot].at = "start"
<1> DEFINE started == [p EXCEPT ![slot] = At("start")]
<1>0. 0 \in Slots /\ n \in Nat
    BY SlotsNat DEF ThreadsOK
<1>1. At("start") \in [at : Points, pid : Nat] /\ At("start").at = "start"
    BY DEF At, Points
<1>2. /\ started \in Positions /\ started[slot] = At("start")
      /\ \A k \in Slots \ {slot} : started[k] = p[k]
    BY <1>1 DEF ThreadsOK, Positions
<1> HIDE DEF started
<1>3. Alive(s, slot) /\ s[slot].state # TASK_UNUSED
    BY DEF Alive, TASK_RUNNABLE, TASK_UNUSED
<1>4. \A k \in Slots \ {slot} : s[k].state # TASK_UNUSED => s[k].id < n /\ s[k].id \in Nat
    BY DEF ThreadsOK, SameBut, Task
<1>5. \A k, l \in Slots :
         s[k].state # TASK_UNUSED /\ s[l].state # TASK_UNUSED /\ s[k].id = s[l].id => k = l
    BY <1>0, <1>4 DEF ThreadsOK, SameBut
<1>6. \A k \in Slots : s[k].state # TASK_UNUSED => s[k].id < n + 1
    BY <1>0, <1>4
<1>7. s[0].id = 0 /\ Alive(s, 0) /\ s[0].entry # "user_exec_task"
    BY <1>0 DEF ThreadsOK, SameBut, Alive, TASK_RUNNING, TASK_RUNNABLE, TASK_UNUSED
<1>8. \A k \in Slots \ {0} :
         IF Alive(s, k) THEN started[k].at \in ThreadPoints ELSE started[k].at = "none"
    BY <1>1, <1>2, <1>3 DEF ThreadsOK, SameBut, ThreadPoints
<1>9. \A k \in Slots : started[k].at \in {"user", "wait"} => s[k].entry = "user_exec_task"
  <2> SUFFICES ASSUME NEW k \in Slots, started[k].at \in {"user", "wait"}
               PROVE  s[k].entry = "user_exec_task"
    OBVIOUS
  <2>1. k # slot /\ p[k].at \in {"user", "wait"} /\ t[k].entry = "user_exec_task" /\ Alive(t, k)
    BY <1>1, <1>2 DEF ThreadsOK
  <2> QED BY <2>1 DEF SameBut, Alive, TASK_RUNNING, TASK_RUNNABLE, TASK_UNUSED
<1>10. ThreadsOK(s, started, n + 1)
    BY <1>0, <1>2, <1>5, <1>6, <1>7, <1>8, <1>9 DEF ThreadsOK
<1> QED BY <1>1, <1>2, <1>10 DEF started

\* Ids and pids may be used up without a record.
LEMMA MoreIds ==
    ASSUME NEW ps, NEW n \in Nat, NEW q, NEW n2 \in Nat, NEW q2 \in Nat, RecordsOK(ps, n, q), n <= n2, q <= q2
    PROVE  RecordsOK(ps, n2, q2)
<1>1. \A i \in LiveIn(ps) : ps[i].pid \in Nat /\ ps[i].task_id \in Nat
    BY DEF RecordsOK, UserProcess, LiveIn
<1> QED BY <1>1 DEF RecordsOK

\* A kernel thread is added: the records do not change.
LEMMA KernelThreadAdded ==
    ASSUME NEW t, NEW s \in [Slots -> Task], NEW ps, NEW p, NEW n, NEW q,
           NEW slot \in Slots \ {0},
           TablesOK(t, ps, p, n, q), ~Alive(t, slot), SameBut(t, s, {slot}),
           s[slot].state = TASK_RUNNABLE, s[slot].id = n, s[slot].entry # "user_exec_task"
    PROVE  TablesOK(s, ps, [p EXCEPT ![slot] = At("start")], n + 1, q)
<1> DEFINE started == [p EXCEPT ![slot] = At("start")]
<1>1. /\ ThreadsOK(s, started, n + 1)
      /\ \A k \in Slots \ {slot} : started[k] = p[k]
    BY ThreadAdded DEF TablesOK
<1> HIDE DEF started
<1>2. n \in Nat /\ n + 1 \in Nat /\ q \in Nat
    BY DEF TablesOK, ThreadsOK, RecordsOK
<1>3. RecordsOK(ps, n + 1, q)
    BY <1>2, MoreIds DEF TablesOK
<1>4. \A k \in Slots \ {slot} : Alive(s, k) <=> Alive(t, k)
    BY DEF SameBut
<1>5. \A k \in Slots \ {slot} : Alive(s, k) =>
         s[k].id = t[k].id /\ s[k].entry = t[k].entry /\ s[k].address_space = t[k].address_space
    BY DEF SameBut, Alive, TASK_UNUSED, TASK_RUNNING, TASK_RUNNABLE
<1>6. MatchOK(s, ps, started)
  <2>1. \A i \in LiveIn(ps) : ps[i].task_id < n /\ ps[i].task_id \in Nat
    BY DEF TablesOK, RecordsOK, LiveIn, UserProcess
  <2>2. ASSUME NEW i \in LiveIn(ps), ps[i].state # USER_PROCESS_EXITED
        PROVE  \E k \in Slots : Runs(s, started, k, ps[i])
    <3>1. PICK k \in Slots : Runs(t, p, k, ps[i])
      BY <2>2 DEF TablesOK, MatchOK
    <3>2. k # slot
      BY <3>1 DEF Runs
    <3> QED BY <1>1, <1>4, <1>5, <3>1, <3>2 DEF Runs
  <2>3. ASSUME NEW i \in LiveIn(ps), ps[i].state = USER_PROCESS_EXITED,
               NEW k \in Slots, Alive(s, k)
        PROVE  s[k].id # ps[i].task_id
    BY <1>2, <1>4, <1>5, <2>1, <2>3 DEF TablesOK, MatchOK
  <2>4. ASSUME NEW k \in Slots, Alive(s, k), s[k].entry = "user_exec_task"
        PROVE  \E i \in LiveIn(ps) : ps[i].task_id = s[k].id /\ ps[i].state # USER_PROCESS_EXITED
    BY <1>4, <1>5, <2>4 DEF TablesOK, MatchOK
  <2> QED BY <2>2, <2>3, <2>4 DEF MatchOK
<1> QED BY <1>1, <1>3, <1>6 DEF TablesOK, started

\* A process is added: a record nobody has and a thread for it.
LEMMA ProcessAdded ==
    ASSUME NEW t, NEW s \in [Slots -> Task], NEW ps, NEW p, NEW n, NEW q,
           NEW slot \in Slots \ {0}, NEW free \in Records, NEW new \in UserProcess,
           TablesOK(t, ps, p, n, q), ~Alive(t, slot), SameBut(t, s, {slot}),
           s[slot].state = TASK_RUNNABLE, s[slot].id = n, s[slot].entry = "user_exec_task",
           ps[free].state = USER_PROCESS_FREE,
           new.state = USER_PROCESS_CREATED, new.pid = q, new.task_id = n,
           new.address_space \in Pages,
           \/ new.parent_pid = USER_PROCESS_NO_PARENT
           \/ \E j \in Records : ps[j].state = USER_PROCESS_RUNNING /\ ps[j].pid = new.parent_pid
    PROVE  TablesOK(s, [ps EXCEPT ![free] = new], [p EXCEPT ![slot] = At("start")], n + 1, q + 1)
<1> DEFINE started == [p EXCEPT ![slot] = At("start")]
           added == [ps EXCEPT ![free] = new]
<1>1. /\ ThreadsOK(s, started, n + 1)
      /\ \A k \in Slots \ {slot} : started[k] = p[k]
      /\ started[slot].at = "start"
    BY ThreadAdded DEF TablesOK
<1> HIDE DEF started
<1>2. n \in Nat \ {0} /\ q \in Nat \ {0}
    BY DEF TablesOK, ThreadsOK, RecordsOK
<1>3. /\ added \in [Records -> UserProcess] /\ added[free] = new
      /\ \A i \in Records \ {free} : added[i] = ps[i]
    BY DEF TablesOK, RecordsOK
<1> HIDE DEF added
<1>4. LiveIn(added) = LiveIn(ps) \cup {free} /\ free \notin LiveIn(ps) /\ LiveIn(ps) \subseteq Records
    BY <1>3 DEF LiveIn, USER_PROCESS_FREE, USER_PROCESS_CREATED
<1>5. \A i \in LiveIn(ps) : /\ added[i] = ps[i]
                            /\ ps[i].pid \in Nat /\ ps[i].pid < q /\ 0 < ps[i].pid
                            /\ ps[i].task_id \in Nat /\ ps[i].task_id < n /\ 0 < ps[i].task_id
                            /\ ps[i].parent_pid < ps[i].pid
    BY <1>3, <1>4 DEF TablesOK, RecordsOK, UserProcess
<1>6. new.parent_pid < q
  <2>1. \A j \in Records : ps[j].state = USER_PROCESS_RUNNING => ps[j].pid < q
    BY <1>5 DEF LiveIn, USER_PROCESS_RUNNING, USER_PROCESS_FREE
  <2> QED BY <1>2, <2>1 DEF USER_PROCESS_NO_PARENT
<1>7. RecordsOK(added, n + 1, q + 1)
  <2>1. \A i \in LiveIn(added) :
          /\ 0 < added[i].pid /\ added[i].pid < q + 1
          /\ 0 < added[i].task_id /\ added[i].task_id < n + 1
          /\ added[i].parent_pid < added[i].pid
    BY <1>2, <1>3, <1>4, <1>5, <1>6
  <2>2. \A i \in Records : added[i].state = USER_PROCESS_CREATED => added[i].address_space \in Pages
    BY <1>3 DEF TablesOK, RecordsOK
  <2>3. \A i, j \in LiveIn(added) : added[i].pid = added[j].pid => i = j
    BY <1>2, <1>3, <1>4, <1>5 DEF TablesOK, RecordsOK
  <2>4. \A i, j \in LiveIn(added) : added[i].task_id = added[j].task_id => i = j
    BY <1>2, <1>3, <1>4, <1>5 DEF TablesOK, RecordsOK
  <2> QED BY <1>2, <1>3, <2>1, <2>2, <2>3, <2>4 DEF RecordsOK
<1>8. \A k \in Slots \ {slot} : Alive(s, k) <=> Alive(t, k)
    BY DEF SameBut
<1>9. \A k \in Slots \ {slot} : Alive(s, k) =>
         s[k].id = t[k].id /\ s[k].entry = t[k].entry /\ s[k].address_space = t[k].address_space
    BY DEF SameBut, Alive, TASK_UNUSED, TASK_RUNNING, TASK_RUNNABLE
<1>10. Alive(s, slot)
    BY DEF Alive
<1>11. MatchOK(s, added, started)
  <2>1. ASSUME NEW i \in LiveIn(added), added[i].state # USER_PROCESS_EXITED
        PROVE  \E k \in Slots : Runs(s, started, k, added[i])
    <3>1. CASE i = free
      BY <1>1, <1>3, <1>10, <3>1 DEF Runs, USER_PROCESS_CREATED, USER_PROCESS_RUNNING
    <3>2. CASE i # free
      <4>1. i \in LiveIn(ps) /\ added[i] = ps[i]
        BY <1>4, <1>5, <3>2
      <4>2. PICK k \in Slots : Runs(t, p, k, ps[i])
        BY <2>1, <4>1 DEF TablesOK, MatchOK
      <4>3. k # slot
        BY <4>2 DEF Runs
      <4> QED BY <1>1, <1>8, <1>9, <4>1, <4>2, <4>3 DEF Runs
    <3> QED BY <3>1, <3>2
  <2>2. ASSUME NEW i \in LiveIn(added), added[i].state = USER_PROCESS_EXITED,
               NEW k \in Slots, Alive(s, k)
        PROVE  s[k].id # added[i].task_id
    <3>1. i # free /\ i \in LiveIn(ps) /\ added[i] = ps[i]
      BY <1>3, <1>4, <1>5, <2>2 DEF USER_PROCESS_CREATED, USER_PROCESS_EXITED
    <3> QED BY <1>2, <1>5, <1>8, <1>9, <2>2, <3>1 DEF TablesOK, MatchOK
  <2>3. ASSUME NEW k \in Slots, Alive(s, k), s[k].entry = "user_exec_task"
        PROVE  \E i \in LiveIn(added) :
                  added[i].task_id = s[k].id /\ added[i].state # USER_PROCESS_EXITED
    <3>1. CASE k = slot
      BY <1>3, <1>4, <3>1 DEF USER_PROCESS_CREATED, USER_PROCESS_EXITED
    <3>2. CASE k # slot
      BY <1>4, <1>5, <1>8, <1>9, <2>3, <3>2 DEF TablesOK, MatchOK
    <3> QED BY <3>1, <3>2
  <2> QED BY <2>1, <2>2, <2>3 DEF MatchOK
<1>12. ParentsOK(added)
  <2>1. \A j \in Records : ps[j].state = USER_PROCESS_RUNNING => j # free /\ added[j] = ps[j]
    BY <1>3 DEF USER_PROCESS_RUNNING, USER_PROCESS_FREE
  <2>2. \A i \in Records : added[i].state = USER_PROCESS_EXITED => i # free /\ added[i] = ps[i]
    BY <1>3 DEF USER_PROCESS_EXITED, USER_PROCESS_CREATED
  <2> QED BY <1>3, <1>4, <1>5, <2>1, <2>2 DEF TablesOK, ParentsOK
<1> QED BY <1>1, <1>7, <1>11, <1>12 DEF TablesOK, started, added

\* What a thread's end does to the records: those of other threads stay, and
\* the one of task id, if it stays, has exited.
RecordsWithout(ps, gone, id) ==
    /\ \A i \in LiveIn(gone) :
          /\ i \in LiveIn(ps) /\ gone[i].task_id = ps[i].task_id
          /\ gone[i].state # USER_PROCESS_EXITED =>
                /\ gone[i].task_id # id
                /\ gone[i].state = ps[i].state
                /\ gone[i].address_space = ps[i].address_space
          /\ gone[i].state = USER_PROCESS_EXITED =>
                gone[i].task_id = id \/ ps[i].state = USER_PROCESS_EXITED
    /\ \A i \in LiveIn(ps) : ps[i].state # USER_PROCESS_EXITED /\ ps[i].task_id # id =>
          i \in LiveIn(gone) /\ gone[i].state # USER_PROCESS_EXITED

\* A thread becomes a zombie, in no place of its code any more.
LEMMA ThreadEnded ==
    ASSUME NEW t, NEW ps, NEW gone, NEW p, NEW n, NEW q, NEW k \in Slots \ {0},
           TablesOK(t, ps, p, n, q), Alive(t, k),
           RecordsOK(gone, n, q), ParentsOK(gone), RecordsWithout(ps, gone, t[k].id)
    PROVE  LET s == [t EXCEPT ![k].state = TASK_ZOMBIE]
           IN  /\ TablesOK(s, gone, [p EXCEPT ![k] = At("none")], n, q)
               /\ s \in [Slots -> Task] /\ s[k].state = TASK_ZOMBIE
               /\ \A l \in Slots \ {k} : s[l] = t[l]
<1> DEFINE s == [t EXCEPT ![k].state = TASK_ZOMBIE]
           dead == [t[k] EXCEPT !.state = TASK_ZOMBIE]
           ended == [p EXCEPT ![k] = At("none")]
<1>0. 0 \in Slots /\ t \in [Slots -> Task] /\ p \in Positions
    BY SlotsNat DEF TablesOK, ThreadsOK
<1>1. s = [t EXCEPT ![k] = dead]
    BY <1>0
<1>2. dead \in Task /\ dead.state = TASK_ZOMBIE /\ dead.id = t[k].id /\ dead.entry = t[k].entry
    BY <1>0 DEF Task, TaskStates
<1> HIDE DEF dead, s
<1>3. s \in [Slots -> Task] /\ s[k] = dead /\ \A l \in Slots \ {k} : s[l] = t[l]
    BY <1>0, <1>1, <1>2
<1>4. At("none") \in [at : Points, pid : Nat] /\ At("none").at = "none"
    BY DEF At, Points
<1>5. ended \in Positions /\ ended[k] = At("none") /\ \A l \in Slots \ {k} : ended[l] = p[l]
    BY <1>0, <1>4 DEF Positions
<1> HIDE DEF ended
<1>6. ~Alive(s, k) /\ \A l \in Slots \ {k} : Alive(s, l) <=> Alive(t, l)
    BY <1>2, <1>3 DEF Alive, TASK_ZOMBIE, TASK_RUNNING, TASK_RUNNABLE
<1>7. \A l \in Slots : s[l].id = t[l].id /\ s[l].entry = t[l].entry
                       /\ (s[l].state # TASK_UNUSED => t[l].state # TASK_UNUSED)
    BY <1>2, <1>3 DEF Alive, TASK_UNUSED, TASK_RUNNING, TASK_RUNNABLE
<1>8. ThreadsOK(s, ended, n)
  <2>1. \A l \in Slots : ended[l].at \in {"user", "wait"} => s[l].entry = "user_exec_task"
    BY <1>4, <1>5, <1>7 DEF TablesOK, ThreadsOK
  <2>2. \A l \in Slots \ {0} :
           IF Alive(s, l) THEN ended[l].at \in ThreadPoints ELSE ended[l].at = "none"
    BY <1>4, <1>5, <1>6 DEF TablesOK, ThreadsOK
  <2> QED BY <1>0, <1>3, <1>5, <1>6, <1>7, <2>1, <2>2 DEF TablesOK, ThreadsOK
<1>9. MatchOK(s, gone, ended)
  <2>1. ASSUME NEW i \in LiveIn(gone), gone[i].state # USER_PROCESS_EXITED
        PROVE  \E l \in Slots : Runs(s, ended, l, gone[i])
    <3>1. /\ i \in LiveIn(ps) /\ ps[i].state # USER_PROCESS_EXITED
          /\ gone[i].task_id = ps[i].task_id /\ gone[i].task_id # t[k].id
          /\ gone[i].state = ps[i].state /\ gone[i].address_space = ps[i].address_space
      BY <2>1 DEF RecordsWithout
    <3>2. PICK l \in Slots : Runs(t, p, l, ps[i])
      BY <3>1 DEF TablesOK, MatchOK
    <3>3. l # k
      BY <3>1, <3>2 DEF Runs
    <3> QED BY <1>3, <1>5, <1>6, <3>1, <3>2, <3>3 DEF Runs
  <2>2. ASSUME NEW i \in LiveIn(gone), gone[i].state = USER_PROCESS_EXITED,
               NEW l \in Slots, Alive(s, l)
        PROVE  s[l].id # gone[i].task_id
    <3>1. l # k /\ Alive(t, l) /\ t[l].id # t[k].id
      BY <1>6, <2>2 DEF TablesOK, ThreadsOK, Alive, TASK_UNUSED, TASK_RUNNING, TASK_RUNNABLE
    <3> QED BY <1>7, <2>2, <3>1 DEF RecordsWithout, TablesOK, MatchOK
  <2>3. ASSUME NEW l \in Slots, Alive(s, l), s[l].entry = "user_exec_task"
        PROVE  \E i \in LiveIn(gone) :
                  gone[i].task_id = s[l].id /\ gone[i].state # USER_PROCESS_EXITED
    <3>1. l # k /\ Alive(t, l) /\ t[l].id # t[k].id /\ t[l].entry = "user_exec_task"
      BY <1>6, <1>7, <2>3
         DEF TablesOK, ThreadsOK, Alive, TASK_UNUSED, TASK_RUNNING, TASK_RUNNABLE
    <3>2. PICK i \in LiveIn(ps) : ps[i].task_id = t[l].id /\ ps[i].state # USER_PROCESS_EXITED
      BY <3>1 DEF TablesOK, MatchOK
    <3> QED BY <1>7, <3>1, <3>2 DEF RecordsWithout
  <2> QED BY <2>1, <2>2, <2>3 DEF MatchOK
<1> QED BY <1>2, <1>3, <1>8, <1>9 DEF TablesOK, s, ended

\* A record filled with zeros is a record that is not in use.
LEMMA FreeIsRecord == FreeRecord \in UserProcess /\ FreeRecord.state = USER_PROCESS_FREE
BY DEF FreeRecord, UserProcess, USER_PROCESS_FREE, USER_PROCESS_NO_PARENT, NULL

\* Releasing a record that is nobody's parent keeps the table in order.
LEMMA Released ==
    ASSUME NEW ps, NEW gone \in [Records -> UserProcess], NEW n, NEW q, NEW i \in Records,
           RecordsOK(ps, n, q), ParentsOK(ps), ps[i].state # USER_PROCESS_RUNNING,
           gone[i] = FreeRecord, \A j \in Records \ {i} : gone[j] = ps[j]
    PROVE  RecordsOK(gone, n, q) /\ ParentsOK(gone) /\ LiveIn(gone) = LiveIn(ps) \ {i}
<1>1. LiveIn(gone) = LiveIn(ps) \ {i} /\ LiveIn(ps) \subseteq Records
    BY FreeIsRecord DEF LiveIn
<1>2. RecordsOK(gone, n, q)
    BY <1>1, FreeIsRecord DEF RecordsOK, USER_PROCESS_FREE, USER_PROCESS_CREATED
<1>3. ParentsOK(gone)
    BY <1>1, FreeIsRecord
       DEF ParentsOK, USER_PROCESS_FREE, USER_PROCESS_RUNNING, USER_PROCESS_EXITED
<1> QED BY <1>1, <1>2, <1>3

\* A search by pid finds nothing, or a record in use.
LEMMA FoundByPid ==
    ASSUME NEW ps, NEW pid
    PROVE  LET i == user_process_find_by_pid(ps, pid)
           IN  /\ i = NULL => \A j \in LiveIn(ps) : ps[j].pid # pid
               /\ i # NULL => i \in LiveIn(ps) /\ ps[i].pid = pid
<1> DEFINE S == {i \in Records : ps[i].state # USER_PROCESS_FREE /\ ps[i].pid = pid}
<1>1. Records \in SUBSET Nat /\ NULL \notin Records
    BY ProcessAssumption DEF Records, NULL
<1>2. user_process_find_by_pid(ps, pid) = First(S) /\ S \in SUBSET Nat
    BY <1>1 DEF user_process_find_by_pid
<1>3. (S = {} /\ First(S) = NULL) \/ First(S) \in S
    BY <1>2, FirstIn
<1> QED BY <1>1, <1>2, <1>3 DEF LiveIn

\* The record a process leaves when it exits.
ExitedRecord(r) ==
    [r EXCEPT !.pages = [v \in UserPages |-> NULL], !.state = USER_PROCESS_EXITED,
              !.address_space = NULL]

\* It is a record, with the ids the process had.
LEMMA ExitedIsRecord ==
    ASSUME NEW r \in UserProcess
    PROVE  LET e == ExitedRecord(r)
           IN  /\ e \in UserProcess /\ e.state = USER_PROCESS_EXITED
               /\ e.pid = r.pid /\ e.task_id = r.task_id /\ e.parent_pid = r.parent_pid
<1> DEFINE none == [v \in UserPages |-> NULL]
<1>1. none \in [UserPages -> Pages \cup {NULL}]
    OBVIOUS
<1> HIDE DEF none
<1>2. LET e == [r EXCEPT !.pages = none, !.state = USER_PROCESS_EXITED, !.address_space = NULL]
      IN  /\ e \in UserProcess /\ e.state = USER_PROCESS_EXITED
          /\ e.pid = r.pid /\ e.task_id = r.task_id /\ e.parent_pid = r.parent_pid
    BY <1>1 DEF UserProcess
<1> QED BY <1>2 DEF ExitedRecord, none

\* The record of a process whose parent exits.
Orphaned(r) == [r EXCEPT !.parent_pid = USER_PROCESS_NO_PARENT]

\* Only the parent changes.
LEMMA OrphanedIsRecord ==
    ASSUME NEW r \in UserProcess
    PROVE  LET o == Orphaned(r)
           IN  /\ o \in UserProcess /\ o.state = r.state /\ o.pid = r.pid
               /\ o.task_id = r.task_id /\ o.address_space = r.address_space
               /\ o.parent_pid = USER_PROCESS_NO_PARENT
BY DEF Orphaned, UserProcess, USER_PROCESS_NO_PARENT

\* user_exit_current, record by record: its own is kept for a parent that can
\* wait, exited children are released and the others lose their parent.
LEMMA ExitOutcome ==
    ASSUME NEW n, NEW q, RecordsOK(processes, n, q), ParentsOK(processes),
           Caller \in Records, processes[Caller].state = USER_PROCESS_RUNNING
    PROVE  LET gone == user_exit_current.processes
               self == processes[Caller]
           IN  /\ gone[Caller] = IF self.parent_pid = USER_PROCESS_NO_PARENT
                                 THEN FreeRecord ELSE ExitedRecord(self)
               /\ \A j \in Records \ {Caller} :
                     gone[j] = IF \/ processes[j].state = USER_PROCESS_FREE
                                  \/ processes[j].parent_pid # self.pid
                               THEN processes[j]
                               ELSE IF processes[j].state = USER_PROCESS_EXITED THEN FreeRecord
                               ELSE Orphaned(processes[j])
               /\ gone \in [Records -> UserProcess]
<1> DEFINE c == Caller
           me == processes[c]
           self == ExitedRecord(me)
           base == [processes EXCEPT ![c] = self]
           ps == user_process_orphan_children(base, c)
           found == user_process_find_by_pid(ps, self.parent_pid)
           gone == IF found = NULL THEN user_process_release(ps, c) ELSE ps
<1>0. c \in Records /\ processes \in [Records -> UserProcess] /\ me \in UserProcess
    BY DEF RecordsOK
<1>1. user_exit_current.processes = gone
  <2> DEFINE freed == user_process_free_pages(mem, me)
             left == [freed.proc EXCEPT !.state = USER_PROCESS_EXITED, !.address_space = NULL]
             ps2 == user_process_orphan_children([processes EXCEPT ![c] = left], c)
  <2>1. freed.proc = [me EXCEPT !.pages = [v \in UserPages |-> NULL]]
    BY DEF user_process_free_pages
  <2>2. left = self
    BY <2>1 DEF ExitedRecord
  <2>3. user_exit_current.processes =
           IF user_process_find_by_pid(ps2, left.parent_pid) = NULL
           THEN user_process_release(ps2, c) ELSE ps2
    BY Zenon DEF user_exit_current
  <2> HIDE DEF left, self, c
  <2> QED BY <2>2, <2>3
<1>2. /\ self \in UserProcess /\ self.state = USER_PROCESS_EXITED
      /\ self.pid = me.pid /\ self.task_id = me.task_id /\ self.parent_pid = me.parent_pid
    BY <1>0, ExitedIsRecord
<1> HIDE DEF self
<1>3. base[c] = self /\ \A j \in Records \ {c} : base[j] = processes[j]
    BY <1>0
<1> HIDE DEF base
<1>4. ps = [j \in Records |->
              IF base[j].state = USER_PROCESS_FREE \/ base[j].parent_pid # base[c].pid
              THEN base[j]
              ELSE IF base[j].state = USER_PROCESS_EXITED THEN FreeRecord
              ELSE Orphaned(base[j])]
    BY DEF user_process_orphan_children, Orphaned
<1> HIDE DEF ps
<1>5. me.pid \in Nat /\ me.parent_pid \in Nat /\ me.parent_pid # me.pid /\ me.pid > 0
  <2>1. c \in LiveIn(processes)
    BY <1>0 DEF LiveIn, USER_PROCESS_RUNNING, USER_PROCESS_FREE
  <2>2. me.pid \in Nat /\ me.parent_pid \in Nat
    BY <1>0 DEF UserProcess
  <2>3. 0 < me.pid /\ me.parent_pid < me.pid
    BY <2>1 DEF RecordsOK
  <2> QED BY <2>2, <2>3
<1>6. ps[c] = self
    BY <1>0, <1>2, <1>3, <1>4, <1>5
<1>7. \A j \in Records \ {c} :
         ps[j] = IF processes[j].state = USER_PROCESS_FREE \/ processes[j].parent_pid # me.pid
                 THEN processes[j]
                 ELSE IF processes[j].state = USER_PROCESS_EXITED THEN FreeRecord
                 ELSE Orphaned(processes[j])
    BY <1>2, <1>3, <1>4
<1>8. \A j \in Records : Orphaned(processes[j]) \in UserProcess
    BY <1>0, OrphanedIsRecord
<1>9. ps \in [Records -> UserProcess]
  <2>1. \A j \in Records : ps[j] \in UserProcess
    BY <1>0, <1>2, <1>6, <1>7, <1>8, FreeIsRecord
  <2>2. ps = [j \in Records |-> ps[j]]
    BY <1>4
  <2> QED BY <2>1, <2>2
<1>10. found = NULL <=> me.parent_pid = USER_PROCESS_NO_PARENT
  <2>1. CASE me.parent_pid = USER_PROCESS_NO_PARENT
    <3>1. \A j \in LiveIn(ps) : ps[j].pid # 0
      <4> SUFFICES ASSUME NEW j \in LiveIn(ps) PROVE ps[j].pid # 0
        OBVIOUS
      <4>1. j \in Records /\ ps[j].state # USER_PROCESS_FREE
        BY DEF LiveIn
      <4>2. CASE j = c
        BY <1>2, <1>5, <1>6, <4>2
      <4>3. CASE j # c
        <5>1. processes[j].pid # 0 \/ processes[j].state = USER_PROCESS_FREE
          BY <4>1 DEF RecordsOK, LiveIn
        <5>2. processes[j] \in UserProcess
          BY <1>0, <4>1
        <5>3. Orphaned(processes[j]).pid = processes[j].pid
          BY <5>2, OrphanedIsRecord
        <5> QED BY <1>7, <4>1, <4>3, <5>1, <5>3, FreeIsRecord
      <4> QED BY <4>2, <4>3
    <3> QED BY <1>2, <2>1, <3>1, FoundByPid DEF USER_PROCESS_NO_PARENT
  <2>2. CASE me.parent_pid # USER_PROCESS_NO_PARENT
    <3>1. PICK j \in Records : processes[j].state = USER_PROCESS_RUNNING
                               /\ processes[j].pid = me.parent_pid
      BY <1>0, <2>2 DEF ParentsOK, LiveIn, USER_PROCESS_RUNNING, USER_PROCESS_FREE
    <3>2. j # c
      BY <1>5, <3>1
    <3>3. processes[j] \in UserProcess
      BY <1>0
    <3>4. ps[j].state = USER_PROCESS_RUNNING /\ ps[j].pid = me.parent_pid
      BY <1>7, <3>1, <3>2, <3>3, OrphanedIsRecord
         DEF USER_PROCESS_RUNNING, USER_PROCESS_FREE, USER_PROCESS_EXITED
    <3>5. j \in LiveIn(ps)
      BY <3>4 DEF LiveIn, USER_PROCESS_RUNNING, USER_PROCESS_FREE
    <3> QED BY <1>2, <2>2, <3>4, <3>5, FoundByPid
  <2> QED BY <2>1, <2>2
<1> HIDE DEF found
<1>11. c # NULL
    BY <1>0, ProcessAssumption DEF Records, NULL
<1>12. gone = IF me.parent_pid = USER_PROCESS_NO_PARENT THEN [ps EXCEPT ![c] = FreeRecord] ELSE ps
    BY <1>10, <1>11 DEF user_process_release
<1> HIDE DEF gone
<1>13. gone \in [Records -> UserProcess]
    BY <1>9, <1>12, FreeIsRecord
<1>14. gone[c] = IF me.parent_pid = USER_PROCESS_NO_PARENT THEN FreeRecord ELSE self
    BY <1>0, <1>6, <1>9, <1>12
<1>15. \A j \in Records \ {c} : gone[j] = ps[j]
    BY <1>9, <1>12
<1> QED BY <1>1, <1>7, <1>13, <1>14, <1>15 DEF self

\* What user_exit_current leaves is in order: no record keeps a parent that has
\* exited, and none is kept that nobody can collect.
LEMMA ExitKeepsRecords ==
    ASSUME NEW n, NEW q, RecordsOK(processes, n, q), ParentsOK(processes),
           Caller \in Records, processes[Caller].state = USER_PROCESS_RUNNING
    PROVE  LET gone == user_exit_current.processes
           IN  /\ RecordsOK(gone, n, q) /\ ParentsOK(gone)
               /\ RecordsWithout(processes, gone, processes[Caller].task_id)
               /\ \A i \in LiveIn(gone) : i \in LiveIn(processes) /\ gone[i].pid = processes[i].pid
               /\ \A i \in Records : processes[i].state = USER_PROCESS_EXITED =>
                     gone[i] = processes[i] \/ processes[i].parent_pid = processes[Caller].pid
<1> DEFINE gone == user_exit_current.processes
           c == Caller
           me == processes[c]
           Child(j) == processes[j].state # USER_PROCESS_FREE /\ processes[j].parent_pid = me.pid
<1>0. /\ c \in Records /\ processes \in [Records -> UserProcess] /\ me \in UserProcess
      /\ c \in LiveIn(processes)
    BY DEF RecordsOK, LiveIn, USER_PROCESS_RUNNING, USER_PROCESS_FREE
<1>1. /\ gone[c] = IF me.parent_pid = USER_PROCESS_NO_PARENT THEN FreeRecord ELSE ExitedRecord(me)
      /\ \A j \in Records \ {c} :
            gone[j] = IF ~Child(j) THEN processes[j]
                      ELSE IF processes[j].state = USER_PROCESS_EXITED THEN FreeRecord
                      ELSE Orphaned(processes[j])
      /\ gone \in [Records -> UserProcess]
    BY ExitOutcome
<1>2. ExitedRecord(me).state = USER_PROCESS_EXITED /\ ExitedRecord(me).pid = me.pid
      /\ ExitedRecord(me).task_id = me.task_id /\ ExitedRecord(me).parent_pid = me.parent_pid
    BY <1>0, ExitedIsRecord
<1>3. \A j \in Records :
         LET o == Orphaned(processes[j])
         IN  /\ o.state = processes[j].state /\ o.pid = processes[j].pid
             /\ o.task_id = processes[j].task_id /\ o.address_space = processes[j].address_space
             /\ o.parent_pid = USER_PROCESS_NO_PARENT
    BY <1>0, OrphanedIsRecord
<1> HIDE DEF gone, c
<1>4. ASSUME NEW j \in LiveIn(gone)
      PROVE  /\ j \in LiveIn(processes)
             /\ gone[j].pid = processes[j].pid /\ gone[j].task_id = processes[j].task_id
             /\ gone[j].parent_pid \in {processes[j].parent_pid, USER_PROCESS_NO_PARENT}
             /\ gone[j].parent_pid # me.pid
             /\ j = c => gone[j].state = USER_PROCESS_EXITED
                         /\ gone[j].parent_pid # USER_PROCESS_NO_PARENT
             /\ j # c => /\ gone[j].state = processes[j].state
                         /\ gone[j].address_space = processes[j].address_space
                         /\ gone[j].state = USER_PROCESS_EXITED => gone[j] = processes[j]
  <2>1. j \in Records /\ gone[j].state # USER_PROCESS_FREE
    BY DEF LiveIn
  <2>2. me.pid # me.parent_pid /\ me.pid # USER_PROCESS_NO_PARENT
    <3>1. me.pid \in Nat /\ me.parent_pid \in Nat
      BY <1>0 DEF UserProcess
    <3> QED BY <1>0, <3>1 DEF RecordsOK, USER_PROCESS_NO_PARENT
  <2>3. CASE j = c
    BY <1>0, <1>1, <1>2, <2>1, <2>2, <2>3, FreeIsRecord
  <2>4. CASE j # c
    <3>1. CASE ~Child(j)
      BY <1>1, <2>1, <2>4, <3>1 DEF LiveIn
    <3>2. CASE Child(j)
      <4>1. gone[j] = Orphaned(processes[j]) /\ processes[j].state # USER_PROCESS_EXITED
        BY <1>1, <2>1, <2>4, <3>2, FreeIsRecord
      <4> QED BY <1>3, <2>1, <2>2, <2>4, <3>2, <4>1 DEF LiveIn
    <3> QED BY <3>1, <3>2
  <2> QED BY <2>3, <2>4
<1>5. \A j \in Records : processes[j].state = USER_PROCESS_RUNNING /\ j # c =>
         gone[j].state = USER_PROCESS_RUNNING /\ gone[j].pid = processes[j].pid
    BY <1>1, <1>3 DEF USER_PROCESS_RUNNING, USER_PROCESS_EXITED
<1>6. RecordsOK(gone, n, q)
  <2>1. \A i \in LiveIn(gone) :
          /\ 0 < gone[i].pid /\ gone[i].pid < q
          /\ 0 < gone[i].task_id /\ gone[i].task_id < n
          /\ gone[i].parent_pid < gone[i].pid
    BY <1>4 DEF RecordsOK, USER_PROCESS_NO_PARENT
  <2>2. \A i \in Records : gone[i].state = USER_PROCESS_CREATED => gone[i].address_space \in Pages
    <3> SUFFICES ASSUME NEW i \in Records, gone[i].state = USER_PROCESS_CREATED
                 PROVE  gone[i].address_space \in Pages
      OBVIOUS
    <3>1. i \in LiveIn(gone)
      BY DEF LiveIn, USER_PROCESS_CREATED, USER_PROCESS_FREE
    <3> QED BY <1>4, <3>1 DEF RecordsOK, USER_PROCESS_CREATED, USER_PROCESS_EXITED
  <2>3. \A i, j \in LiveIn(gone) : gone[i].pid = gone[j].pid => i = j
    BY <1>4 DEF RecordsOK
  <2>4. \A i, j \in LiveIn(gone) : gone[i].task_id = gone[j].task_id => i = j
    BY <1>4 DEF RecordsOK
  <2> QED BY <1>1, <2>1, <2>2, <2>3, <2>4 DEF RecordsOK
<1>7. ParentsOK(gone)
  <2>1. ASSUME NEW i \in LiveIn(gone), gone[i].parent_pid # USER_PROCESS_NO_PARENT
        PROVE  \E j \in Records : gone[j].state = USER_PROCESS_RUNNING
                                  /\ gone[j].pid = gone[i].parent_pid
    <3>1. i \in LiveIn(processes) /\ gone[i].parent_pid = processes[i].parent_pid
          /\ processes[i].parent_pid # me.pid
      BY <1>4, <2>1
    <3>2. PICK j \in Records : processes[j].state = USER_PROCESS_RUNNING
                               /\ processes[j].pid = processes[i].parent_pid
      BY <2>1, <3>1 DEF ParentsOK
    <3>3. j # c
      BY <3>1, <3>2
    <3> QED BY <1>5, <3>1, <3>2, <3>3
  <2>2. ASSUME NEW i \in Records, gone[i].state = USER_PROCESS_EXITED
        PROVE  gone[i].parent_pid # USER_PROCESS_NO_PARENT
    <3>1. i \in LiveIn(gone)
      BY <2>2 DEF LiveIn, USER_PROCESS_EXITED, USER_PROCESS_FREE
    <3> QED BY <1>4, <2>2, <3>1 DEF ParentsOK
  <2> QED BY <2>1, <2>2 DEF ParentsOK
<1>8. RecordsWithout(processes, gone, me.task_id)
  <2>1. \A i \in LiveIn(processes) : i # c => processes[i].task_id # me.task_id
    BY <1>0 DEF RecordsOK
  <2>2. ASSUME NEW i \in LiveIn(processes), processes[i].state # USER_PROCESS_EXITED,
               processes[i].task_id # me.task_id
        PROVE  i \in LiveIn(gone) /\ gone[i].state # USER_PROCESS_EXITED
    BY <1>1, <1>3, <2>2 DEF LiveIn
  <2> QED BY <1>4, <2>1, <2>2 DEF RecordsWithout
<1>9. \A i \in Records : processes[i].state = USER_PROCESS_EXITED =>
         gone[i] = processes[i] \/ processes[i].parent_pid = me.pid
    BY <1>0, <1>1 DEF c, USER_PROCESS_EXITED, USER_PROCESS_RUNNING
<1> QED BY <1>4, <1>6, <1>7, <1>8, <1>9 DEF gone, c

\* A page the kernel takes is a page, in whatever state the bitmap is.
LEMMA SomePage ==
    ASSUME NEW m
    PROVE  direct_map_page(m) = NULL \/ direct_map_page(m) \in Pages
<1>1. Pages \ m.used \in SUBSET Nat
    BY PagesNat
<1> QED BY <1>1, FirstIn DEF direct_map_page, pmm_alloc_page

\* Loading a program changes a record only in its pages.
LEMMA PreparedRecord ==
    ASSUME NEW m, NEW r \in UserProcess
    PROVE  LET x == user_prepare_exec(m, r)
           IN  /\ x.proc \in UserProcess
               /\ x.proc.state = r.state /\ x.proc.pid = r.pid /\ x.proc.task_id = r.task_id
               /\ x.proc.parent_pid = r.parent_pid /\ x.proc.address_space = r.address_space
<1> DEFINE Same(y) == /\ y \in UserProcess
                      /\ y.state = r.state /\ y.pid = r.pid /\ y.task_id = r.task_id
                      /\ y.parent_pid = r.parent_pid /\ y.address_space = r.address_space
<1>1. ASSUME NEW a, NEW y, Same(y), NEW v \in UserPages
      PROVE  Same(map_copied_user_page(a, y, v).proc)
  <2> DEFINE page == direct_map_page(a)
  <2>1. CASE map_copied_user_page(a, y, v).proc = y
    BY <1>1, <2>1
  <2>2. CASE page # NULL /\ map_copied_user_page(a, y, v).proc = [y EXCEPT !.pages[v] = page]
    <3>1. page \in Pages
      BY <2>2, SomePage
    <3> HIDE DEF page
    <3> DEFINE f == [y.pages EXCEPT ![v] = page]
    <3>2. f \in [UserPages -> Pages \cup {NULL}]
      BY <1>1, <3>1 DEF UserProcess
    <3>3. [y EXCEPT !.pages[v] = page] = [y EXCEPT !.pages = f]
      BY <1>1 DEF UserProcess
    <3> HIDE DEF f
    <3>4. Same([y EXCEPT !.pages = f])
      BY <1>1, <3>2 DEF UserProcess
    <3> QED BY <2>2, <3>3, <3>4
  <2> QED BY <2>1, <2>2 DEF map_copied_user_page
<1>2. ASSUME NEW a, NEW y, Same(y)
      PROVE  Same(user_process_free_pages(a, y).proc)
  <2> DEFINE none == [v \in UserPages |-> NULL]
  <2>1. none \in [UserPages -> Pages \cup {NULL}]
    OBVIOUS
  <2>2. user_process_free_pages(a, y).proc = [y EXCEPT !.pages = none]
    BY DEF user_process_free_pages
  <2> HIDE DEF none
  <2>3. Same([y EXCEPT !.pages = none])
    BY <1>2, <2>1 DEF UserProcess
  <2> QED BY <2>2, <2>3
<1> DEFINE code == load_emxf(m, r)
           stack == map_copied_user_page(code.mem, code.proc, STACK)
<1>3. Same(r)
    OBVIOUS
<1> HIDE DEF Same
<1>4. Same(code.proc)
  <2>1. CASE r.path # "good"
    BY <1>3, <2>1 DEF load_emxf
  <2>2. CASE r.path = "good"
    BY <1>1, <1>3, <2>2 DEF load_emxf, UserPages
  <2> QED BY <2>1, <2>2
<1>5. Same(stack.proc)
    BY <1>1, <1>4 DEF UserPages
<1> DEFINE x == user_prepare_exec(m, r)
<1>6. \/ x.proc = user_process_free_pages(code.mem, code.proc).proc
      \/ x.proc = user_process_free_pages(stack.mem, stack.proc).proc
      \/ x.proc = stack.proc
    BY DEF user_prepare_exec
<1> HIDE DEF code, stack, x
<1>7. Same(x.proc)
    BY <1>2, <1>4, <1>5, <1>6
<1> QED BY <1>7 DEF Same, x

\* A created process enters user mode in its own directory.
LEMMA ProcessEntered ==
    ASSUME NEW t, NEW ps, NEW p, NEW n, NEW q, NEW k \in Slots \ {0}, NEW c \in Records,
           NEW new \in UserProcess, TablesOK(t, ps, p, n, q), Runs(t, p, k, ps[c]),
           ps[c].state = USER_PROCESS_CREATED, new.state = USER_PROCESS_RUNNING,
           new.pid = ps[c].pid, new.task_id = ps[c].task_id, new.parent_pid = ps[c].parent_pid,
           new.address_space \in Pages
    PROVE  TablesOK([t EXCEPT ![k].address_space = new.address_space], [ps EXCEPT ![c] = new],
                    [p EXCEPT ![k] = At("user")], n, q)
<1> DEFINE s == [t EXCEPT ![k].address_space = new.address_space]
           task == [t[k] EXCEPT !.address_space = new.address_space]
           ran == [ps EXCEPT ![c] = new]
           entered == [p EXCEPT ![k] = At("user")]
<1>0. /\ 0 \in Slots /\ t \in [Slots -> Task] /\ p \in Positions
      /\ ps \in [Records -> UserProcess] /\ n \in Nat /\ q \in Nat
    BY SlotsNat DEF TablesOK, ThreadsOK, RecordsOK
<1>1. s = [t EXCEPT ![k] = task]
    BY <1>0
<1>2. /\ task \in Task /\ task.state = t[k].state /\ task.id = t[k].id
      /\ task.entry = t[k].entry /\ task.address_space = new.address_space
    BY <1>0 DEF Task, Directories
<1> HIDE DEF task, s
<1>3. s \in [Slots -> Task] /\ s[k] = task /\ \A l \in Slots \ {k} : s[l] = t[l]
    BY <1>0, <1>1, <1>2
<1>4. \A l \in Slots : /\ s[l].state = t[l].state /\ s[l].id = t[l].id /\ s[l].entry = t[l].entry
                       /\ Alive(s, l) <=> Alive(t, l)
    BY <1>2, <1>3 DEF Alive
<1>5. At("user") \in [at : Points, pid : Nat] /\ At("user").at = "user"
    BY DEF At, Points
<1>6. entered \in Positions /\ entered[k] = At("user") /\ \A l \in Slots \ {k} : entered[l] = p[l]
    BY <1>0, <1>5 DEF Positions
<1> HIDE DEF entered
<1>7. ran \in [Records -> UserProcess] /\ ran[c] = new /\ \A i \in Records \ {c} : ran[i] = ps[i]
    BY <1>0
<1> HIDE DEF ran
<1>8. Alive(t, k) /\ t[k].entry = "user_exec_task" /\ t[k].id = ps[c].task_id
    BY DEF Runs
<1>9. ThreadsOK(s, entered, n)
  <2>1. \A l \in Slots \ {0} :
           IF Alive(s, l) THEN entered[l].at \in ThreadPoints ELSE entered[l].at = "none"
    BY <1>4, <1>5, <1>6, <1>8 DEF TablesOK, ThreadsOK, ThreadPoints
  <2>2. \A l \in Slots : entered[l].at \in {"user", "wait"} => s[l].entry = "user_exec_task"
    BY <1>4, <1>6, <1>8 DEF TablesOK, ThreadsOK
  <2>3. \A l, o \in Slots :
          s[l].state # TASK_UNUSED /\ s[o].state # TASK_UNUSED /\ s[l].id = s[o].id => l = o
    BY <1>4 DEF TablesOK, ThreadsOK
  <2> QED BY <1>0, <1>3, <1>4, <1>6, <2>1, <2>2, <2>3 DEF TablesOK, ThreadsOK
<1>10. LiveIn(ran) = LiveIn(ps) /\ c \in LiveIn(ps) /\ LiveIn(ps) \subseteq Records
    BY <1>7 DEF LiveIn, USER_PROCESS_FREE, USER_PROCESS_CREATED, USER_PROCESS_RUNNING
<1>11. \A i \in LiveIn(ps) : ran[i].pid = ps[i].pid /\ ran[i].task_id = ps[i].task_id
                             /\ ran[i].parent_pid = ps[i].parent_pid
    BY <1>7, <1>10
<1>12. RecordsOK(ran, n, q)
  <2>1. \A i \in Records : ran[i].state = USER_PROCESS_CREATED => ran[i].address_space \in Pages
    BY <1>7 DEF TablesOK, RecordsOK
  <2> QED BY <1>7, <1>10, <1>11, <2>1 DEF TablesOK, RecordsOK
<1>13. MatchOK(s, ran, entered)
  <2>1. ASSUME NEW i \in LiveIn(ps), ran[i].state # USER_PROCESS_EXITED
        PROVE  \E l \in Slots : Runs(s, entered, l, ran[i])
    <3>1. CASE i = c
      BY <1>2, <1>3, <1>4, <1>5, <1>6, <1>7, <1>8, <3>1
         DEF Runs, USER_PROCESS_CREATED, USER_PROCESS_RUNNING
    <3>2. CASE i # c
      <4>1. ran[i] = ps[i] /\ ps[i].task_id # ps[c].task_id
        BY <1>7, <1>10, <3>2 DEF TablesOK, RecordsOK
      <4>2. PICK l \in Slots : Runs(t, p, l, ps[i])
        BY <2>1, <4>1 DEF TablesOK, MatchOK
      <4>3. l # k
        BY <1>8, <4>1, <4>2 DEF Runs
      <4> QED BY <1>3, <1>4, <1>6, <4>1, <4>2, <4>3 DEF Runs
    <3> QED BY <3>1, <3>2
  <2>2. ASSUME NEW i \in LiveIn(ps), ran[i].state = USER_PROCESS_EXITED, NEW l \in Slots, Alive(s, l)
        PROVE  s[l].id # ran[i].task_id
    <3>1. ran[i] = ps[i]
      BY <1>7, <1>10, <2>2 DEF USER_PROCESS_RUNNING, USER_PROCESS_EXITED
    <3> QED BY <1>4, <2>2, <3>1 DEF TablesOK, MatchOK
  <2>3. ASSUME NEW l \in Slots, Alive(s, l), s[l].entry = "user_exec_task"
        PROVE  \E i \in LiveIn(ps) : ran[i].task_id = s[l].id /\ ran[i].state # USER_PROCESS_EXITED
    <3>1. PICK i \in LiveIn(ps) : ps[i].task_id = t[l].id /\ ps[i].state # USER_PROCESS_EXITED
      BY <1>4, <2>3 DEF TablesOK, MatchOK
    <3> QED BY <1>4, <1>7, <1>10, <1>11, <3>1 DEF USER_PROCESS_RUNNING, USER_PROCESS_EXITED
  <2> QED BY <1>10, <2>1, <2>2, <2>3 DEF MatchOK
<1>14. ParentsOK(ran)
  <2>1. \A j \in Records : ps[j].state = USER_PROCESS_RUNNING =>
           ran[j].state = USER_PROCESS_RUNNING /\ ran[j].pid = ps[j].pid
    BY <1>7
  <2>2. \A i \in Records : ran[i].state = USER_PROCESS_EXITED => ran[i] = ps[i]
    BY <1>7 DEF USER_PROCESS_RUNNING, USER_PROCESS_EXITED
  <2> QED BY <1>10, <1>11, <2>1, <2>2 DEF TablesOK, ParentsOK
<1> QED BY <1>9, <1>12, <1>13, <1>14 DEF TablesOK, s, ran, entered

\* A process in user mode that begins or ends a wait, or task 0 somewhere else
\* in kmain, is still where its record says.
LEMMA PositionMoved ==
    ASSUME NEW t, NEW ps, NEW p, NEW n, NEW q, NEW k \in Slots, TablesOK(t, ps, p, n, q),
           NEW x \in [at : Points, pid : Nat],
           \/ k # 0 /\ p[k].at \in {"user", "wait"} /\ x.at \in {"user", "wait"}
           \/ k = 0 /\ x.at \in {"boot", "kshell", "init", "vmmtest"}
    PROVE  TablesOK(t, ps, [p EXCEPT ![k] = x], n, q)
<1> DEFINE moved == [p EXCEPT ![k] = x]
<1>1. moved \in Positions /\ moved[k] = x /\ \A l \in Slots \ {k} : moved[l] = p[l]
    BY DEF TablesOK, ThreadsOK, Positions
<1> HIDE DEF moved
<1>2. ThreadsOK(t, moved, n)
    BY <1>1, SlotsNat DEF TablesOK, ThreadsOK, ThreadPoints
<1>3. MatchOK(t, ps, moved)
  <2>1. \A l \in Slots : p[l].at = "start" => moved[l].at = "start"
    BY <1>1 DEF TablesOK, ThreadsOK
  <2>2. \A l \in Slots : p[l].at \in {"user", "wait"} => moved[l].at \in {"user", "wait"}
    BY <1>1 DEF TablesOK, ThreadsOK
  <2> QED BY <2>1, <2>2 DEF TablesOK, MatchOK, Runs
<1> QED BY <1>2, <1>3 DEF TablesOK, moved

\* Collecting an exited record keeps the tables matched.
LEMMA ExitedReleased ==
    ASSUME NEW t, NEW ps, NEW p, NEW n, NEW q, NEW i \in Records, TablesOK(t, ps, p, n, q),
           ps[i].state = USER_PROCESS_EXITED
    PROVE  TablesOK(t, [ps EXCEPT ![i] = FreeRecord], p, n, q)
<1> DEFINE gone == [ps EXCEPT ![i] = FreeRecord]
<1>0. /\ gone \in [Records -> UserProcess] /\ gone[i] = FreeRecord
      /\ \A j \in Records \ {i} : gone[j] = ps[j]
    BY FreeIsRecord DEF TablesOK, RecordsOK
<1> HIDE DEF gone
<1>1. /\ RecordsOK(gone, n, q) /\ ParentsOK(gone)
      /\ LiveIn(gone) = LiveIn(ps) \ {i}
  <2>1. RecordsOK(ps, n, q) /\ ParentsOK(ps) /\ ps[i].state # USER_PROCESS_RUNNING
    BY DEF TablesOK, USER_PROCESS_EXITED, USER_PROCESS_RUNNING
  <2> QED BY <1>0, <2>1, Released
<1>2. LiveIn(ps) \subseteq Records
    BY DEF LiveIn
<1>3. MatchOK(t, gone, p)
    BY <1>0, <1>1, <1>2 DEF TablesOK, MatchOK
<1> QED BY <1>1, <1>3 DEF TablesOK, gone

-----------------------------------------------------------------------------
(* Spawning *)

\* A caller that can be a parent.
GoodCaller ==
    Caller = NULL \/ (Caller \in Records /\ processes[Caller].state = USER_PROCESS_RUNNING)

\* Whatever fails on the way, user_spawn leaves both tables as they were or has
\* added one process to both.
LEMMA SpawnOutcome ==
    ASSUME ProcessInv, GoodCaller, NEW path \in Paths, NEW r \in user_spawn(path)
    PROVE  LET n == IF r.task = -1 THEN next_task_id ELSE next_task_id + 1
           IN  /\ Leaving(r.tasks) /\ r.tasks[current_task] = tasks[current_task]
               /\ TablesOK(r.tasks, r.processes, Started(r.slot), n, r.next_pid)
               /\ \/ r.ret = -1 /\ r.processes = processes /\ r.slot = 0
                  \/ r.ret = next_pid
               /\ \A i \in Records : processes[i].state = USER_PROCESS_EXITED =>
                     r.processes[i] = processes[i]
<1> DEFINE free  == First({i \in Records : processes[i].state = USER_PROCESS_FREE})
           space == vmm_create_address_space(mem)
           Process(task_id) ==
            [FreeRecord EXCEPT
                !.state = USER_PROCESS_CREATED,
                !.pid = next_pid,
                !.task_id = task_id,
                !.parent_pid = IF Caller = NULL THEN USER_PROCESS_NO_PARENT
                               ELSE processes[Caller].pid,
                !.address_space = space.ret,
                !.path = path]
           Failed(t, m, n) == [processes |-> processes, tasks |-> t, mem |-> m,
                               slot |-> 0, task |-> -1, ret |-> -1, next_pid |-> n]
           Done(k) == [processes |-> [processes EXCEPT ![free] = Process(k.ret)],
                       tasks |-> k.tasks, mem |-> k.mem, slot |-> k.slot,
                       task |-> k.ret, ret |-> next_pid, next_pid |-> next_pid + 1]
           Outcome(k) ==
            IF k.ret = -1
            THEN Failed(k.tasks, vmm_destroy_address_space(k.mem, space.ret), next_pid + 1)
            ELSE Done(k)
           Threads == kthread_create(tasks, space.mem, "user_exec_task")
<1>0. /\ TablesOK(tasks, processes, pc, next_task_id, next_pid) /\ Leaving(tasks)
      /\ next_task_id \in Nat \ {0} /\ next_pid \in Nat \ {0} /\ "user_exec_task" \in Entries
      /\ 0 \in Slots
    BY ProcessAssumption, SlotsNat
       DEF ProcessInv, TablesOK, ThreadsOK, RecordsOK, Leaving, OneRunning
<1>1. \/ \E m, x : x \in {next_pid, next_pid + 1} /\ r = Failed(tasks, m, x)
      \/ \E k \in Threads : k.ret = -1 /\ \E m : r = Failed(k.tasks, m, next_pid + 1)
      \/ /\ free # NULL /\ space.ret # NULL
         /\ \E k \in Threads : k.ret # -1 /\ r = Done(k)
  <2>1. CASE free = NULL
    <3>1. r \in {Failed(tasks, mem, next_pid)}
      BY <2>1, Zenon DEF user_spawn
    <3> QED BY <3>1
  <2>2. CASE free # NULL /\ space.ret = NULL
    <3>1. r \in {Failed(tasks, mem, next_pid + 1)}
      BY <2>2, Zenon DEF user_spawn
    <3> QED BY <3>1
  <2>3. CASE free # NULL /\ space.ret # NULL
    <3>1. r \in {Outcome(k) : k \in Threads}
      BY <2>3, Zenon DEF user_spawn
    <3>2. PICK k \in Threads : r = Outcome(k)
      BY <3>1
    <3> QED BY <2>3, <3>2, Zenon
  <2> QED BY <2>1, <2>2, <2>3
<1>2. ASSUME NEW k \in Threads
      PROVE  /\ Leaving(k.tasks) /\ k.tasks[current_task] = tasks[current_task]
             /\ \/ k.ret = -1 /\ k.slot = 0 /\ SameBut(tasks, k.tasks, {})
                \/ /\ k.ret = next_task_id /\ k.slot \in Slots \ {0, current_task}
                   /\ ~Alive(tasks, k.slot)
                   /\ k.tasks[k.slot].state = TASK_RUNNABLE
                   /\ k.tasks[k.slot].id = next_task_id
                   /\ k.tasks[k.slot].entry = "user_exec_task"
                   /\ SameBut(tasks, k.tasks, {k.slot})
    BY <1>0, Created
<1> HIDE DEF Threads
<1>3. \A x \in {next_pid, next_pid + 1} : RecordsOK(processes, next_task_id, x)
    BY <1>0, MoreIds DEF TablesOK
<1>4. ASSUME NEW t, NEW m, NEW x \in {next_pid, next_pid + 1}, r = Failed(t, m, x),
             Leaving(t), t[current_task] = tasks[current_task], SameBut(tasks, t, {})
      PROVE  /\ Leaving(r.tasks) /\ r.tasks[current_task] = tasks[current_task]
             /\ r.task = -1 /\ r.ret = -1 /\ r.processes = processes /\ r.slot = 0
             /\ TablesOK(r.tasks, r.processes, Started(r.slot), next_task_id, r.next_pid)
  <2>1. /\ r.tasks = t /\ r.processes = processes /\ r.slot = 0 /\ r.task = -1
        /\ r.ret = -1 /\ r.next_pid = x
    BY <1>4
  <2>2. TablesOK(t, processes, pc, next_task_id, next_pid)
    BY <1>0, <1>4, SameTables DEF Leaving
  <2>3. TablesOK(t, processes, pc, next_task_id, x)
    BY <1>3, <2>2 DEF TablesOK
  <2> QED BY <1>4, <2>1, <2>3 DEF Started
<1>5. CASE \E m, x : x \in {next_pid, next_pid + 1} /\ r = Failed(tasks, m, x)
  <2>1. SameBut(tasks, tasks, {})
    BY DEF SameBut
  <2>2. PICK m, x : x \in {next_pid, next_pid + 1} /\ r = Failed(tasks, m, x)
    BY <1>5
  <2> HIDE DEF Failed
  <2>3. /\ Leaving(r.tasks) /\ r.tasks[current_task] = tasks[current_task]
        /\ r.task = -1 /\ r.ret = -1 /\ r.processes = processes /\ r.slot = 0
        /\ TablesOK(r.tasks, r.processes, Started(r.slot), next_task_id, r.next_pid)
    BY <1>0, <1>4, <2>1, <2>2
  <2> QED BY <2>3
<1>6. CASE \E k \in Threads : k.ret = -1 /\ \E m : r = Failed(k.tasks, m, next_pid + 1)
  <2>1. PICK k \in Threads : k.ret = -1 /\ \E m : r = Failed(k.tasks, m, next_pid + 1)
    BY <1>6
  <2>2. Leaving(k.tasks) /\ k.tasks[current_task] = tasks[current_task] /\ SameBut(tasks, k.tasks, {})
    <3>1. next_task_id # -1 /\ k.ret = -1
      BY <1>0, <2>1
    <3> QED BY <1>2, <3>1, Zenon
  <2> HIDE DEF Failed
  <2>3. /\ Leaving(r.tasks) /\ r.tasks[current_task] = tasks[current_task]
        /\ r.task = -1 /\ r.ret = -1 /\ r.processes = processes /\ r.slot = 0
        /\ TablesOK(r.tasks, r.processes, Started(r.slot), next_task_id, r.next_pid)
    BY <1>4, <2>1, <2>2
  <2> QED BY <2>3
<1>7. CASE /\ free # NULL /\ space.ret # NULL
           /\ \E k \in Threads : k.ret # -1 /\ r = Done(k)
  <2>1. PICK k \in Threads : k.ret # -1 /\ r = Done(k)
    BY <1>7
  <2>2. free \in Records /\ processes[free].state = USER_PROCESS_FREE
    <3>1. {i \in Records : processes[i].state = USER_PROCESS_FREE} \in SUBSET Nat
      BY ProcessAssumption DEF Records
    <3> QED BY <1>7, <3>1, FirstIn
  <2>3. space.ret \in Pages
    <3>1. space.ret = direct_map_page(mem)
      BY DEF vmm_create_address_space
    <3> QED BY <1>7, <3>1, SomePage
  <2> HIDE DEF free, space
  <2> DEFINE parent == IF Caller = NULL THEN USER_PROCESS_NO_PARENT ELSE processes[Caller].pid
             new == Process(k.ret)
  <2>4. k.ret = next_task_id
    BY <1>2, <2>1
  <2>5. parent \in Nat
        /\ \/ parent = USER_PROCESS_NO_PARENT
           \/ \E j \in Records : processes[j].state = USER_PROCESS_RUNNING
                                 /\ processes[j].pid = parent
    BY <1>0 DEF GoodCaller, USER_PROCESS_NO_PARENT, TablesOK, RecordsOK, UserProcess
  <2>6. new = [FreeRecord EXCEPT !.state = USER_PROCESS_CREATED, !.pid = next_pid,
                 !.task_id = next_task_id, !.parent_pid = parent,
                 !.address_space = space.ret, !.path = path]
    BY <2>4
  <2> HIDE DEF parent, new
  <2>7. /\ new \in UserProcess /\ new.state = USER_PROCESS_CREATED /\ new.pid = next_pid
        /\ new.task_id = next_task_id /\ new.parent_pid = parent
        /\ new.address_space = space.ret
    <3> DEFINE none == [v \in UserPages |-> NULL]
    <3>1. none \in [UserPages -> Pages \cup {NULL}]
      OBVIOUS
    <3>2. FreeRecord = [state |-> USER_PROCESS_FREE, pid |-> 0, task_id |-> 0,
                        parent_pid |-> USER_PROCESS_NO_PARENT, address_space |-> NULL,
                        path |-> "", pages |-> none]
      BY DEF FreeRecord
    <3> HIDE DEF none
    <3>3. new = [state |-> USER_PROCESS_CREATED, pid |-> next_pid, task_id |-> next_task_id,
                 parent_pid |-> parent, address_space |-> space.ret,
                 path |-> path, pages |-> none]
      BY <2>6, <3>2
    <3> QED BY <1>0, <2>3, <2>5, <3>1, <3>3 DEF UserProcess
  <2>8. /\ r.tasks = k.tasks /\ r.processes = [processes EXCEPT ![free] = new]
        /\ r.slot = k.slot /\ r.task = next_task_id /\ r.ret = next_pid
        /\ r.next_pid = next_pid + 1
    BY <2>1, <2>4 DEF new
  <2>9. /\ Leaving(k.tasks) /\ k.tasks[current_task] = tasks[current_task]
        /\ k.slot \in Slots \ {0, current_task}
        /\ ~Alive(tasks, k.slot)
        /\ k.tasks[k.slot].state = TASK_RUNNABLE
        /\ k.tasks[k.slot].id = next_task_id
        /\ k.tasks[k.slot].entry = "user_exec_task"
        /\ SameBut(tasks, k.tasks, {k.slot})
    BY <1>2, <2>1
  <2>10. k.tasks \in [Slots -> Task] /\ k.slot \in Slots \ {0}
    BY <2>9 DEF Leaving
  <2>11. TablesOK(k.tasks, [processes EXCEPT ![free] = new],
                  [pc EXCEPT ![k.slot] = At("start")], next_task_id + 1, next_pid + 1)
    BY <1>0, <2>2, <2>3, <2>5, <2>7, <2>9, <2>10, ProcessAdded
  <2>12. \A i \in Records : processes[i].state = USER_PROCESS_EXITED => r.processes[i] = processes[i]
    BY <2>2, <2>8 DEF USER_PROCESS_EXITED, USER_PROCESS_FREE
  <2>13. r.task # -1 /\ r.slot # 0
    BY <1>0, <2>8, <2>9
  <2>14. Started(r.slot) = [pc EXCEPT ![k.slot] = At("start")]
    BY <2>8, <2>13 DEF Started
  <2> QED BY <2>8, <2>9, <2>11, <2>12, <2>13, <2>14
<1> QED BY <1>1, <1>5, <1>6, <1>7

-----------------------------------------------------------------------------
(* The steps *)

\* What StatusKept says of a step.
KeepsStatus ==
    \A i \in InState(USER_PROCESS_EXITED) :
       processes'[i] # processes[i] =>
          Caller # NULL /\ processes[Caller].pid = processes[i].parent_pid

\* The running task and the tables, as every step finds them.
LEMMA Running ==
    ASSUME ProcessInv
    PROVE  /\ TablesOK(tasks, processes, pc, next_task_id, next_pid)
           /\ Leaving(tasks) /\ tasks[current_task].state = TASK_RUNNING
           /\ current_task \in Slots /\ Alive(tasks, current_task) /\ 0 \in Slots
           /\ next_task_id \in Nat \ {0} /\ next_pid \in Nat \ {0}
           /\ panicked = FALSE /\ KeysOK
           /\ processes \in [Records -> UserProcess] /\ tasks \in [Slots -> Task]
BY SlotsNat DEF ProcessInv, TablesOK, ThreadsOK, RecordsOK, Leaving, OneRunning, Alive, NoPanic

\* What a step must establish.
LEMMA Assembled ==
    ASSUME TablesOK(tasks', processes', pc', next_task_id', next_pid'), KeysOK',
           current_task' \in Slots, OneRunning', panicked' = FALSE
    PROVE  ProcessInv'
BY DEF ProcessInv, NoPanic

\* Keys that stay in the buffer were typed after every process that stays.
LEMMA KeysStay ==
    ASSUME KeysOK, UNCHANGED keys, userland_active' \in BOOLEAN,
           \A i \in LiveIn(processes') : i \in LiveIn(processes) /\ processes'[i].pid = processes[i].pid
    PROVE  KeysOK'
BY DEF KeysOK, NoTypeAhead, Live, LiveIn

\* No key is older than a process when there is none.
LEMMA KeysGone ==
    ASSUME keys' = <<>>, userland_active' \in BOOLEAN
    PROVE  KeysOK'
BY ProcessAssumption DEF KeysOK, NoTypeAhead

\* A step that does not switch leaves the current task the running one.
LEMMA StillRunning ==
    ASSUME Leaving(tasks'), tasks'[current_task].state = TASK_RUNNING, UNCHANGED current_task
    PROVE  current_task' \in Slots /\ OneRunning'
BY DEF Leaving, OneRunning

\* The tables after the CPU is given up.
LEMMA SwitchedTables ==
    ASSUME NEW t, NEW m, NEW ps, NEW p, NEW n, NEW q, TablesOK(t, ps, p, n, q), Leaving(t),
           sched_yield(t, m)
    PROVE  /\ TablesOK(tasks', ps, p, n, q) /\ current_task' \in Slots /\ OneRunning'
           /\ t[current_task].state = TASK_ZOMBIE => current_task' # current_task
<1>1. \E i \in Slots : Alive(t, i)
    BY SlotsNat DEF TablesOK, ThreadsOK
<1>2. /\ tasks' \in [Slots -> Task] /\ SameBut(t, tasks', {})
      /\ current_task' \in Slots /\ OneRunning'
      /\ t[current_task].state = TASK_ZOMBIE => current_task' # current_task
    BY <1>1, Yielded
<1> QED BY <1>2, SameTables

\* Records that stay as they are keep every status.
LEMMA StatusUnchanged == ASSUME UNCHANGED processes PROVE KeepsStatus
BY DEF KeepsStatus

\* Task 0 has no record.
LEMMA TaskZeroCaller ==
    ASSUME ProcessInv, current_task = 0
    PROVE  Caller = NULL
<1>1. Alive(tasks, current_task) /\ tasks[current_task].entry # "user_exec_task"
      /\ TablesOK(tasks, processes, pc, next_task_id, next_pid) /\ current_task \in Slots
    BY Running DEF TablesOK, ThreadsOK
<1> QED BY <1>1, CallerFound DEF Caller

\* A process that makes a system call finds its own record, and it is running.
LEMMA UserCaller ==
    ASSUME ProcessInv, pc[current_task].at \in {"user", "wait"}
    PROVE  /\ current_task # 0 /\ Caller \in Records /\ Caller # NULL
           /\ processes[Caller].state = USER_PROCESS_RUNNING
           /\ processes[Caller].task_id = tasks[current_task].id
<1>1. /\ Alive(tasks, current_task) /\ current_task \in Slots /\ current_task # 0
      /\ tasks[current_task].entry = "user_exec_task"
      /\ TablesOK(tasks, processes, pc, next_task_id, next_pid)
    BY Running DEF TablesOK, ThreadsOK
<1>2. pc[current_task].at # "start"
    OBVIOUS
<1> QED BY <1>1, <1>2, CallerFound DEF Caller

\* A position that waits for nobody.
LEMMA NoPid == \A at : At(at) = AtWith(at, 0)
BY DEF At, AtWith

\* Task 0 moves on in kmain.
LEMMA TaskZeroMoves ==
    ASSUME NEW t, NEW ps, NEW p, NEW n, NEW q, TablesOK(t, ps, p, n, q),
           NEW at \in {"kshell", "init", "vmmtest"}, NEW pid \in Nat
    PROVE  TablesOK(t, ps, [p EXCEPT ![0] = AtWith(at, pid)], n, q)
<1>1. AtWith(at, pid) \in [at : Points, pid : Nat] /\ AtWith(at, pid).at = at
    BY DEF AtWith, Points
<1>2. 0 \in Slots
    BY SlotsNat
<1> HIDE DEF AtWith
<1> QED BY <1>1, <1>2, PositionMoved

\* A spawn, up to what its caller does next.
LEMMA SpawnStep ==
    ASSUME ProcessInv, GoodCaller, NEW path \in Paths, NEW r \in user_spawn(path), Spawned(r),
           userland_active' \in BOOLEAN
    PROVE  /\ Leaving(r.tasks) /\ r.tasks[current_task].state = TASK_RUNNING
           /\ TablesOK(r.tasks, processes', Started(r.slot), next_task_id', next_pid')
           /\ r.ret = -1 => r.slot = 0
           /\ r.ret # -1 => r.ret \in Nat
           /\ KeysOK' /\ KeepsStatus
<1> DEFINE n == IF r.task = -1 THEN next_task_id ELSE next_task_id + 1
<1>1. /\ Leaving(r.tasks) /\ r.tasks[current_task] = tasks[current_task]
      /\ TablesOK(r.tasks, r.processes, Started(r.slot), n, r.next_pid)
      /\ \/ r.ret = -1 /\ r.processes = processes /\ r.slot = 0
         \/ r.ret = next_pid
      /\ \A i \in Records : processes[i].state = USER_PROCESS_EXITED =>
            r.processes[i] = processes[i]
    BY SpawnOutcome
<1>2. /\ keys' = IF r.ret = -1 THEN keys ELSE <<>>
      /\ processes' = r.processes /\ next_pid' = r.next_pid /\ next_task_id' = n
    BY DEF Spawned, ClearedKeys
<1> HIDE DEF n
<1>3. next_pid \in Nat \ {0} /\ KeysOK /\ tasks[current_task].state = TASK_RUNNING
    BY Running
<1>4. KeysOK'
  <2>1. CASE r.ret = -1
    <3>1. processes' = processes /\ keys' = keys
      BY <1>1, <1>2, <1>3, <2>1
    <3> QED BY <1>3, <3>1, KeysStay
  <2>2. CASE r.ret # -1
    BY <1>2, <2>2, KeysGone
  <2> QED BY <2>1, <2>2
<1>5. KeepsStatus
    BY <1>1, <1>2 DEF KeepsStatus, InState
<1>6. (r.ret = -1 => r.slot = 0) /\ (r.ret # -1 => r.ret \in Nat)
    BY <1>1, <1>3
<1> QED BY <1>1, <1>2, <1>3, <1>4, <1>5, <1>6

\* A spawn whose caller keeps the CPU: cmd_userspawn and sys_spawn.
LEMMA PlainSpawn ==
    ASSUME ProcessInv, GoodCaller, NEW path \in Paths, NEW r \in user_spawn(path), Spawned(r),
           tasks' = r.tasks, pc' = Started(r.slot),
           UNCHANGED <<current_task, panicked, userland_active>>
    PROVE  ProcessInv' /\ KeepsStatus
<1>1. userland_active' \in BOOLEAN /\ panicked' = FALSE
    BY Running DEF KeysOK
<1>2. /\ Leaving(r.tasks) /\ r.tasks[current_task].state = TASK_RUNNING
      /\ TablesOK(r.tasks, processes', Started(r.slot), next_task_id', next_pid')
      /\ KeysOK' /\ KeepsStatus
    BY <1>1, SpawnStep
<1>3. current_task' \in Slots /\ OneRunning'
    BY <1>2, StillRunning
<1> QED BY <1>1, <1>2, <1>3, Assembled

\* user_init spawns init and gives up the CPU, or gives up.
LEMMA UserInitStep == ASSUME ProcessInv, UserInit PROVE ProcessInv' /\ KeepsStatus
<1>1. PICK r \in user_spawn("good") :
        /\ Spawned(r)
        /\ \/ /\ r.ret = -1
              /\ tasks' = r.tasks /\ mem' = r.mem
              /\ pc' = [pc EXCEPT ![0] = At("kshell")]
              /\ UNCHANGED <<userland_active, current_task, cr3, esp0>>
           \/ /\ r.ret # -1
              /\ userland_active' = TRUE
              /\ pc' = [Started(r.slot) EXCEPT ![0] = AtWith("init", r.ret)]
              /\ sched_yield(r.tasks, r.mem)
    BY DEF UserInit
<1>2. current_task = 0 /\ panicked' = FALSE
  <2>1. current_task = 0 /\ panicked' = panicked
    BY Zenon DEF UserInit
  <2> QED BY <2>1, Running
<1>3. GoodCaller /\ "good" \in Paths
    BY <1>2, TaskZeroCaller DEF GoodCaller, Paths
<1>4. userland_active' \in BOOLEAN
    BY <1>1, Running DEF KeysOK
<1>5. /\ Leaving(r.tasks) /\ r.tasks[current_task].state = TASK_RUNNING
      /\ TablesOK(r.tasks, processes', Started(r.slot), next_task_id', next_pid')
      /\ r.ret = -1 => r.slot = 0
      /\ r.ret # -1 => r.ret \in Nat
      /\ KeysOK' /\ KeepsStatus
    BY <1>1, <1>3, <1>4, SpawnStep
<1>6. CASE /\ r.ret = -1
           /\ tasks' = r.tasks
           /\ pc' = [pc EXCEPT ![0] = At("kshell")]
           /\ UNCHANGED current_task
  <2>1. Started(r.slot) = pc
    BY <1>5, <1>6 DEF Started
  <2>2. pc' = [Started(r.slot) EXCEPT ![0] = AtWith("kshell", 0)]
    BY <1>6, <2>1, NoPid, Zenon
  <2>3. TablesOK(tasks', processes', pc', next_task_id', next_pid')
    <3>1. TablesOK(r.tasks, processes', [Started(r.slot) EXCEPT ![0] = AtWith("kshell", 0)],
                   next_task_id', next_pid')
      BY <1>5, TaskZeroMoves
    <3> QED BY <1>6, <2>2, <3>1
  <2>4. current_task' \in Slots /\ OneRunning'
    BY <1>5, <1>6, StillRunning
  <2> QED BY <1>2, <1>5, <2>3, <2>4, Assembled
<1>7. CASE /\ r.ret # -1
           /\ pc' = [Started(r.slot) EXCEPT ![0] = AtWith("init", r.ret)]
           /\ sched_yield(r.tasks, r.mem)
  <2>1. TablesOK(r.tasks, processes', pc', next_task_id', next_pid')
    BY <1>5, <1>7, TaskZeroMoves
  <2>2. TablesOK(tasks', processes', pc', next_task_id', next_pid')
        /\ current_task' \in Slots /\ OneRunning'
    BY <1>5, <1>7, <2>1, SwitchedTables
  <2> QED BY <1>2, <1>5, <2>2, Assembled
<1> QED BY <1>1, <1>6, <1>7

\* A yield that changes nothing else.
LEMMA PlainYield ==
    ASSUME ProcessInv, sched_yield(tasks, mem),
           UNCHANGED <<processes, pc, next_task_id, next_pid, panicked>>, KeysOK'
    PROVE  ProcessInv' /\ KeepsStatus
<1>1. TablesOK(tasks', processes, pc, next_task_id, next_pid)
      /\ current_task' \in Slots /\ OneRunning' /\ panicked' = FALSE
    BY Running, SwitchedTables
<1>2. TablesOK(tasks', processes', pc', next_task_id', next_pid')
    BY <1>1
<1> QED BY <1>1, <1>2, Assembled, StatusUnchanged

\* user_init's loop yields until init's record is gone.
LEMMA InitLoopStep == ASSUME ProcessInv, InitLoop PROVE ProcessInv' /\ KeepsStatus
<1>1. UNCHANGED <<processes, next_pid, keys, next_task_id, panicked>> /\ userland_active' \in BOOLEAN
    BY Running DEF InitLoop, KeysOK, EndUserland
<1>2. KeysOK'
    BY <1>1, Running, KeysStay
<1>3. CASE sched_yield(tasks, mem) /\ UNCHANGED pc
    BY <1>1, <1>2, <1>3, PlainYield
<1>4. CASE pc' = [pc EXCEPT ![0] = At("kshell")] /\ UNCHANGED <<tasks, current_task>>
  <2>1. pc' = [pc EXCEPT ![0] = AtWith("kshell", 0)]
    BY <1>4, NoPid, Zenon
  <2>2. TablesOK(tasks', processes', pc', next_task_id', next_pid')
    <3>1. TablesOK(tasks, processes, [pc EXCEPT ![0] = AtWith("kshell", 0)],
                   next_task_id, next_pid)
      BY Running, TaskZeroMoves
    <3> QED BY <1>1, <1>4, <2>1, <3>1
  <2>3. current_task' \in Slots /\ OneRunning' /\ panicked' = FALSE
    BY <1>1, <1>4, Running, StillRunning
  <2> QED BY <1>1, <1>2, <2>2, <2>3, Assembled, StatusUnchanged
<1> QED BY <1>3, <1>4 DEF InitLoop

\* cmd_vmmtest starts a kernel thread and yields, or has none.
LEMMA VmmtestStep == ASSUME ProcessInv, cmd_vmmtest PROVE ProcessInv' /\ KeepsStatus
<1>1. PICK k \in kthread_create(tasks, mem, "zero_test") :
        /\ CountTask(k)
        /\ \/ /\ k.ret = -1 /\ tasks' = k.tasks /\ UNCHANGED <<pc, current_task>>
           \/ /\ k.ret # -1
              /\ pc' = [Started(k.slot) EXCEPT ![0] = At("vmmtest")]
              /\ sched_yield(k.tasks, k.mem)
    BY DEF cmd_vmmtest
<1>2. UNCHANGED <<processes, next_pid, keys, userland_active>> /\ panicked' = FALSE /\ KeysOK'
  <2>1. UNCHANGED <<processes, next_pid, keys, userland_active, panicked>>
    BY DEF cmd_vmmtest
  <2>2. userland_active' \in BOOLEAN
    BY <2>1, Running DEF KeysOK
  <2> QED BY <2>1, <2>2, Running, KeysStay
<1>3. "zero_test" \in Entries
    BY ProcessAssumption
<1>4. /\ Leaving(k.tasks) /\ k.tasks[current_task] = tasks[current_task]
      /\ \/ k.ret = -1 /\ k.slot = 0 /\ SameBut(tasks, k.tasks, {})
         \/ /\ k.ret = next_task_id /\ k.slot \in Slots \ {0, current_task}
            /\ ~Alive(tasks, k.slot)
            /\ k.tasks[k.slot].state = TASK_RUNNABLE
            /\ k.tasks[k.slot].id = next_task_id
            /\ k.tasks[k.slot].entry = "zero_test"
            /\ SameBut(tasks, k.tasks, {k.slot})
    BY <1>3, Running, Created
<1>5. next_task_id \in Nat \ {0} /\ k.tasks \in [Slots -> Task]
      /\ TablesOK(tasks, processes, pc, next_task_id, next_pid)
    BY <1>4, Running DEF Leaving
<1>6. CASE k.ret = -1
  <2>1. tasks' = k.tasks /\ UNCHANGED <<pc, current_task>> /\ SameBut(tasks, k.tasks, {})
        /\ next_task_id' = next_task_id
    BY <1>1, <1>4, <1>5, <1>6 DEF CountTask
  <2>2. TablesOK(k.tasks, processes, pc, next_task_id, next_pid)
    BY <1>5, <2>1, SameTables
  <2>3. TablesOK(tasks', processes', pc', next_task_id', next_pid')
    BY <1>2, <2>1, <2>2
  <2>4. current_task' \in Slots /\ OneRunning'
    BY <1>4, <2>1, Running, StillRunning
  <2> QED BY <1>2, <2>3, <2>4, Assembled, StatusUnchanged
<1>7. CASE k.ret # -1
  <2>1. /\ k.slot \in Slots \ {0} /\ ~Alive(tasks, k.slot)
        /\ k.tasks[k.slot].state = TASK_RUNNABLE /\ k.tasks[k.slot].id = next_task_id
        /\ k.tasks[k.slot].entry # "user_exec_task"
        /\ SameBut(tasks, k.tasks, {k.slot})
    BY <1>4, <1>7
  <2>2. TablesOK(k.tasks, processes, [pc EXCEPT ![k.slot] = At("start")], next_task_id + 1, next_pid)
    BY <1>5, <2>1, KernelThreadAdded
  <2>3. /\ pc' = [[pc EXCEPT ![k.slot] = At("start")] EXCEPT ![0] = AtWith("vmmtest", 0)]
        /\ sched_yield(k.tasks, k.mem) /\ next_task_id' = next_task_id + 1
    BY <1>1, <1>7, <2>1 DEF Started, At, AtWith, CountTask
  <2>4. TablesOK(k.tasks, processes, pc', next_task_id + 1, next_pid)
    BY <2>2, <2>3, TaskZeroMoves
  <2>5. TablesOK(tasks', processes, pc', next_task_id + 1, next_pid)
        /\ current_task' \in Slots /\ OneRunning'
    BY <1>4, <2>3, <2>4, SwitchedTables
  <2>6. TablesOK(tasks', processes', pc', next_task_id', next_pid')
    BY <1>2, <2>3, <2>5
  <2> QED BY <1>2, <2>5, <2>6, Assembled, StatusUnchanged
<1> QED BY <1>6, <1>7

\* The rest of cmd_vmmtest changes memory only.
LEMMA VmmtestResumedStep == ASSUME ProcessInv, VmmtestResumed PROVE ProcessInv' /\ KeepsStatus
<1>1. /\ UNCHANGED <<tasks, current_task, next_task_id, processes, next_pid, keys, userland_active>>
      /\ panicked' = FALSE
    BY Running DEF VmmtestResumed
<1>2. KeysOK'
    BY <1>1, Running, KeysStay DEF KeysOK
<1>3. pc' = [pc EXCEPT ![0] = AtWith("kshell", 0)]
    BY DEF VmmtestResumed, At, AtWith
<1>4. TablesOK(tasks', processes', pc', next_task_id', next_pid')
    BY <1>1, <1>3, Running, TaskZeroMoves
<1>5. current_task' \in Slots /\ OneRunning'
    BY <1>1, Running, StillRunning
<1> QED BY <1>1, <1>2, <1>4, <1>5, Assembled, StatusUnchanged

\* Task 0 spawns a program and keeps the CPU.
LEMMA UserspawnStep ==
    ASSUME ProcessInv, NEW path \in Paths, cmd_userspawn(path)
    PROVE  ProcessInv' /\ KeepsStatus
<1>1. PICK r \in user_spawn(path) : Spawned(r) /\ tasks' = r.tasks /\ pc' = Started(r.slot)
    BY DEF cmd_userspawn
<1>2. current_task = 0 /\ UNCHANGED <<current_task, panicked, userland_active>>
    BY DEF cmd_userspawn
<1>3. GoodCaller
    BY <1>2, TaskZeroCaller DEF GoodCaller
<1> QED BY <1>1, <1>2, <1>3, PlainSpawn

\* The kernel shell drops the keys when it yields.
LEMMA CmdYieldStep == ASSUME ProcessInv, cmd_yield PROVE ProcessInv' /\ KeepsStatus
<1>1. /\ UNCHANGED <<processes, pc, next_task_id, next_pid, panicked, userland_active>>
      /\ keys' = <<>> /\ sched_yield(tasks, mem)
    BY DEF cmd_yield
<1>2. KeysOK'
    BY <1>1, Running, KeysGone DEF KeysOK
<1> QED BY <1>1, <1>2, PlainYield

\* A process yields.
LEMMA SysYieldStep == ASSUME ProcessInv, sys_yield PROVE ProcessInv' /\ KeepsStatus
<1>1. /\ UNCHANGED <<processes, pc, next_task_id, next_pid, panicked, userland_active, keys>>
      /\ sched_yield(tasks, mem)
    BY DEF sys_yield, processVars
<1>2. KeysOK'
    BY <1>1, Running, KeysStay DEF KeysOK
<1> QED BY <1>1, <1>2, PlainYield

\* A process spawns a child and keeps the CPU.
LEMMA SysSpawnStep ==
    ASSUME ProcessInv, NEW path \in Paths, sys_spawn(path)
    PROVE  ProcessInv' /\ KeepsStatus
<1>1. PICK r \in user_spawn(path) : Spawned(r) /\ tasks' = r.tasks /\ pc' = Started(r.slot)
    BY DEF sys_spawn
<1>2. UNCHANGED <<current_task, panicked, userland_active>>
    BY DEF sys_spawn
<1>3. GoodCaller
    BY UserCaller DEF GoodCaller, sys_spawn
<1> QED BY <1>1, <1>2, <1>3, PlainSpawn

\* A thread ends: its record is already as gone has it, and another task runs.
LEMMA ThreadEndsStep ==
    ASSUME ProcessInv, current_task # 0, NEW m, ThreadEnds(tasks, m),
           RecordsOK(processes', next_task_id, next_pid), ParentsOK(processes'),
           RecordsWithout(processes, processes', tasks[current_task].id),
           UNCHANGED <<next_task_id, next_pid>>, KeysOK'
    PROVE  ProcessInv'
<1> DEFINE s == [tasks EXCEPT ![current_task].state = TASK_ZOMBIE]
<1>1. /\ pc' = [pc EXCEPT ![current_task] = At("none")]
      /\ sched_yield(s, m) /\ panicked' = (current_task' = current_task)
    BY Zenon DEF ThreadEnds, kthread_exit
<1>2. /\ current_task \in Slots \ {0} /\ Alive(tasks, current_task) /\ Leaving(tasks)
      /\ TablesOK(tasks, processes, pc, next_task_id, next_pid)
    BY Running
<1>3. /\ TablesOK(s, processes', [pc EXCEPT ![current_task] = At("none")], next_task_id, next_pid)
      /\ s \in [Slots -> Task] /\ s[current_task].state = TASK_ZOMBIE
      /\ \A l \in Slots \ {current_task} : s[l] = tasks[l]
    BY <1>2, ThreadEnded
<1> HIDE DEF s
<1>4. Leaving(s)
    BY <1>2, <1>3 DEF Leaving
<1>5. TablesOK(s, processes', pc', next_task_id, next_pid)
    BY <1>1, <1>3
<1>6. /\ TablesOK(tasks', processes', pc', next_task_id, next_pid)
      /\ current_task' \in Slots /\ OneRunning' /\ current_task' # current_task
    BY <1>1, <1>3, <1>4, <1>5, SwitchedTables
<1>7. TablesOK(tasks', processes', pc', next_task_id', next_pid') /\ panicked' = FALSE
    BY <1>1, <1>6
<1> QED BY <1>6, <1>7, Assembled

\* The thread of cmd_vmmtest has no record: it just ends.
LEMMA ZeroTestStep ==
    ASSUME ProcessInv, sched_zero_address_space_test PROVE ProcessInv' /\ KeepsStatus
<1>1. /\ UNCHANGED <<next_task_id, processes, next_pid, keys, userland_active>>
      /\ pc[current_task].at = "start" /\ tasks[current_task].entry = "zero_test"
      /\ ThreadEnds(tasks, mem)
    BY DEF sched_zero_address_space_test, sched_set_current_address_space, SpaceRefused
<1>2. current_task # 0 /\ \A i \in LiveIn(processes) : processes[i].task_id # tasks[current_task].id
    BY <1>1, Running, CallerFound DEF TablesOK, ThreadsOK
<1>3. KeysOK'
    BY <1>1, Running, KeysStay DEF KeysOK
<1>4. RecordsOK(processes', next_task_id, next_pid) /\ ParentsOK(processes')
    BY <1>1, Running DEF TablesOK
<1>5. RecordsWithout(processes, processes', tasks[current_task].id)
    BY <1>1, <1>2 DEF RecordsWithout, LiveIn
<1> QED BY <1>1, <1>2, <1>3, <1>4, <1>5, ThreadEndsStep, StatusUnchanged

\* A program that does not load: the record of its spawn is released.
LEMMA UndoSpawnStep ==
    ASSUME ProcessInv, NEW r, UndoSpawn(r),
           current_task # 0, Caller \in Records, Caller # NULL,
           processes[Caller].state = USER_PROCESS_CREATED,
           processes[Caller].task_id = tasks[current_task].id,
           UNCHANGED <<next_task_id, next_pid, keys, userland_active>>
    PROVE  ProcessInv' /\ KeepsStatus
<1>1. /\ processes' = [processes EXCEPT ![Caller] = FreeRecord]
      /\ ThreadEnds(tasks, vmm_destroy_address_space(r.mem, r.proc.address_space))
    BY DEF UndoSpawn, user_process_release
<1>2. /\ RecordsOK(processes, next_task_id, next_pid) /\ ParentsOK(processes)
      /\ processes \in [Records -> UserProcess] /\ KeysOK /\ userland_active' \in BOOLEAN
    BY Running DEF TablesOK, KeysOK
<1>3. /\ processes' \in [Records -> UserProcess] /\ processes'[Caller] = FreeRecord
      /\ \A j \in Records \ {Caller} : processes'[j] = processes[j]
      /\ processes[Caller].state # USER_PROCESS_RUNNING
    BY <1>1, <1>2, FreeIsRecord DEF USER_PROCESS_CREATED, USER_PROCESS_RUNNING
<1>4. /\ RecordsOK(processes', next_task_id, next_pid) /\ ParentsOK(processes')
      /\ LiveIn(processes') = LiveIn(processes) \ {Caller}
    BY <1>2, <1>3, Released
<1>5. LiveIn(processes) \subseteq Records /\ Caller \in LiveIn(processes)
    BY DEF LiveIn, USER_PROCESS_FREE, USER_PROCESS_CREATED
<1>6. RecordsWithout(processes, processes', tasks[current_task].id)
  <2>1. \A i \in LiveIn(processes) : processes[i].task_id = tasks[current_task].id => i = Caller
    BY <1>2, <1>5 DEF RecordsOK
  <2> QED BY <1>3, <1>4, <1>5, <2>1 DEF RecordsWithout
<1>7. KeysOK'
    BY <1>2, <1>3, <1>4, <1>5, KeysStay
<1>8. KeepsStatus
    BY <1>3 DEF KeepsStatus, InState, USER_PROCESS_EXITED, USER_PROCESS_CREATED
<1> QED BY <1>1, <1>4, <1>6, <1>7, <1>8, ThreadEndsStep

\* The directory of a starting thread's record is not refused: the thread is not
\* task 0 and user_spawn made the directory.
LEMMA LoadedIsPrepared ==
    ASSUME ProcessInv, current_task # 0, Caller \in Records, Caller # NULL,
           processes[Caller].state = USER_PROCESS_CREATED
    PROVE  LoadedProgram = user_prepare_exec(mem, processes[Caller])
<1> DEFINE r == user_prepare_exec(mem, processes[Caller])
<1>1. r.proc.address_space = processes[Caller].address_space
    BY Running, PreparedRecord DEF TablesOK, RecordsOK
<1>2. Caller \in LiveIn(processes) /\ processes[Caller].address_space \in Pages
    BY Running DEF TablesOK, RecordsOK, LiveIn, USER_PROCESS_FREE, USER_PROCESS_CREATED
<1>3. ~SpaceRefused(r.proc.address_space)
  <2> HIDE DEF r
  <2> QED BY <1>1, <1>2, PagesNat DEF SpaceRefused
<1> QED BY <1>3, Zenon DEF LoadedProgram, Adopted

\* A program is loaded and enters user mode in its directory, or the spawn is
\* undone.
LEMMA UserExecStep == ASSUME ProcessInv, user_exec_task PROVE ProcessInv' /\ KeepsStatus
<1> DEFINE c == Caller
           r == user_prepare_exec(mem, processes[c])
           new == [r.proc EXCEPT !.state = USER_PROCESS_RUNNING]
<1>1. pc[current_task].at = "start" /\ tasks[current_task].entry = "user_exec_task"
      /\ UNCHANGED <<next_task_id, next_pid, keys, userland_active>>
    BY DEF user_exec_task
<1>2. /\ current_task \in Slots \ {0}
      /\ c \in Records /\ c # NULL /\ processes[c].state = USER_PROCESS_CREATED
      /\ processes[c].task_id = tasks[current_task].id
      /\ Runs(tasks, pc, current_task, processes[c])
  <2>1. current_task # 0
    BY <1>1, Running DEF TablesOK, ThreadsOK
  <2> QED BY <1>1, <2>1, Running, CallerFound DEF Caller
<1>3. \/ UndoSpawn(r)
      \/ /\ processes' = [processes EXCEPT ![c] = new]
         /\ tasks' = sched_set_current_address_space(tasks, r.proc.address_space)
         /\ pc' = [pc EXCEPT ![current_task] = At("user")]
         /\ UNCHANGED <<current_task, panicked>>
  <2>1. LoadedProgram = r
    BY <1>2, LoadedIsPrepared
  <2> HIDE DEF r
  <2> QED BY <1>2, <2>1, Zenon DEF user_exec_task
<1>4. /\ r.proc \in UserProcess
      /\ r.proc.pid = processes[c].pid /\ r.proc.task_id = processes[c].task_id
      /\ r.proc.parent_pid = processes[c].parent_pid
      /\ r.proc.address_space = processes[c].address_space
    BY <1>2, Running, PreparedRecord
<1> HIDE DEF c, r, new
<1>5. CASE UndoSpawn(r)
    BY <1>1, <1>2, <1>5, UndoSpawnStep DEF c
<1>6. CASE /\ processes' = [processes EXCEPT ![c] = new]
           /\ tasks' = sched_set_current_address_space(tasks, r.proc.address_space)
           /\ pc' = [pc EXCEPT ![current_task] = At("user")]
           /\ UNCHANGED <<current_task, panicked>>
  <2>1. processes[c].address_space \in Pages
    BY <1>2, Running DEF TablesOK, RecordsOK
  <2>2. /\ new \in UserProcess /\ new.state = USER_PROCESS_RUNNING
        /\ new.pid = processes[c].pid /\ new.task_id = processes[c].task_id
        /\ new.parent_pid = processes[c].parent_pid
        /\ new.address_space = processes[c].address_space
    BY <1>4 DEF new, UserProcess
  <2>3. TablesOK([tasks EXCEPT ![current_task].address_space = new.address_space],
                 [processes EXCEPT ![c] = new], [pc EXCEPT ![current_task] = At("user")],
                 next_task_id, next_pid)
    BY <1>2, <2>1, <2>2, Running, ProcessEntered
  <2>4. tasks' = [tasks EXCEPT ![current_task].address_space = new.address_space]
    BY <1>2, <1>4, <1>6, <2>1, <2>2 DEF sched_set_current_address_space, SpaceRefused, NULL, Pages
  <2>5. TablesOK(tasks', processes', pc', next_task_id', next_pid')
    BY <1>1, <1>6, <2>3, <2>4
  <2>6. Leaving(tasks') /\ tasks'[current_task].state = TASK_RUNNING
    <3>1. \A i \in Slots : tasks'[i].state = tasks[i].state
      BY <2>4, Running DEF Task
    <3>2. tasks' \in [Slots -> Task]
      BY <2>5 DEF TablesOK, ThreadsOK
    <3> QED BY <3>1, <3>2, Running DEF Leaving
  <2>7. current_task' \in Slots /\ OneRunning' /\ panicked' = FALSE
    BY <1>6, <2>6, Running, StillRunning
  <2>8. /\ \A j \in Records \ {c} : processes'[j] = processes[j]
        /\ processes'[c] = new
    BY <1>2, <1>6, Running
  <2>9. KeysOK'
    <3>1. \A i \in LiveIn(processes') :
             i \in LiveIn(processes) /\ processes'[i].pid = processes[i].pid
      BY <1>2, <2>2, <2>8 DEF LiveIn, USER_PROCESS_FREE, USER_PROCESS_CREATED
    <3> QED BY <1>1, <3>1, Running, KeysStay DEF KeysOK
  <2>10. KeepsStatus
    BY <1>2, <2>8 DEF KeepsStatus, InState, USER_PROCESS_EXITED, USER_PROCESS_CREATED
  <2> QED BY <2>5, <2>7, <2>9, <2>10, Assembled
<1> QED BY <1>3, <1>5, <1>6

\* A process exits: what user_exit_current leaves, and the thread ends.
LEMMA SysExitStep == ASSUME ProcessInv, sys_exit PROVE ProcessInv' /\ KeepsStatus
<1>1. pc[current_task].at = "user" /\ UNCHANGED <<next_task_id, next_pid, keys, userland_active>>
    BY DEF sys_exit
<1>2. /\ current_task # 0 /\ Caller \in Records /\ Caller # NULL
      /\ processes[Caller].state = USER_PROCESS_RUNNING
      /\ processes[Caller].task_id = tasks[current_task].id
    BY <1>1, UserCaller
<1>3. processes' = user_exit_current.processes /\ ThreadEnds(tasks, user_exit_current.mem)
    BY <1>2, Zenon DEF sys_exit
<1>4. RecordsOK(processes, next_task_id, next_pid) /\ ParentsOK(processes)
    BY Running DEF TablesOK
<1>5. /\ RecordsOK(processes', next_task_id, next_pid) /\ ParentsOK(processes')
      /\ RecordsWithout(processes, processes', processes[Caller].task_id)
      /\ \A i \in LiveIn(processes') :
            i \in LiveIn(processes) /\ processes'[i].pid = processes[i].pid
      /\ \A i \in Records : processes[i].state = USER_PROCESS_EXITED =>
            processes'[i] = processes[i] \/ processes[i].parent_pid = processes[Caller].pid
    BY <1>2, <1>3, <1>4, ExitKeepsRecords
<1>6. KeysOK'
    BY <1>1, <1>5, Running, KeysStay DEF KeysOK
<1>7. KeepsStatus
    BY <1>2, <1>5 DEF KeepsStatus, InState
<1>8. RecordsWithout(processes, processes', tasks[current_task].id)
    BY <1>2, <1>5
<1> QED BY <1>1, <1>2, <1>3, <1>5, <1>6, <1>7, <1>8, ThreadEndsStep

\* A round of user_wait: it returns, collects the child, or yields.
LEMMA UserWaitStep ==
    ASSUME ProcessInv, pc[current_task].at \in {"user", "wait"}, NEW pid \in Nat, user_wait(pid),
           UNCHANGED <<next_task_id, next_pid, keys, userland_active, panicked>>
    PROVE  ProcessInv' /\ KeepsStatus
<1> DEFINE child == user_process_find_by_pid(processes, pid)
           back == [pc EXCEPT ![current_task] = At("user")]
           loop == [pc EXCEPT ![current_task] = AtWith("wait", pid)]
<1>1. \/ pc' = back /\ UNCHANGED <<tasks, current_task, processes>>
      \/ /\ IsChildOfCaller(child) /\ processes[child].state = USER_PROCESS_EXITED
         /\ processes' = user_process_release(processes, child)
         /\ pc' = back /\ UNCHANGED <<tasks, current_task>>
      \/ pc' = loop /\ sched_yield(tasks, mem) /\ UNCHANGED processes
    BY DEF user_wait
<1>2. current_task \in Slots \ {0} /\ Caller \in Records /\ Caller # NULL
    BY Running, UserCaller
<1>3. panicked' = FALSE /\ userland_active' \in BOOLEAN
    BY Running DEF KeysOK
<1>4. /\ At("user") \in [at : Points, pid : Nat] /\ At("user").at = "user"
      /\ AtWith("wait", pid) \in [at : Points, pid : Nat] /\ AtWith("wait", pid).at = "wait"
    BY DEF At, AtWith, Points
<1>5. ASSUME NEW ps, TablesOK(tasks, ps, pc, next_task_id, next_pid)
      PROVE  /\ TablesOK(tasks, ps, back, next_task_id, next_pid)
             /\ TablesOK(tasks, ps, loop, next_task_id, next_pid)
    BY <1>2, <1>4, <1>5, PositionMoved
<1> HIDE DEF back, loop, child
<1>6. CASE pc' = back /\ UNCHANGED <<tasks, current_task, processes>>
  <2>1. TablesOK(tasks, processes, back, next_task_id, next_pid)
    BY <1>5, Running
  <2>2. TablesOK(tasks', processes', pc', next_task_id', next_pid')
    BY <1>6, <2>1
  <2>3. current_task' \in Slots /\ OneRunning'
    BY <1>6, Running, StillRunning
  <2>4. KeysOK'
    BY <1>3, <1>6, Running, KeysStay
  <2> QED BY <1>3, <1>6, <2>2, <2>3, <2>4, Assembled, StatusUnchanged
<1>7. CASE /\ IsChildOfCaller(child) /\ processes[child].state = USER_PROCESS_EXITED
           /\ processes' = user_process_release(processes, child)
           /\ pc' = back /\ UNCHANGED <<tasks, current_task>>
  <2>1. /\ child # NULL /\ processes[child].parent_pid = processes[Caller].pid
    BY <1>7 DEF IsChildOfCaller
  <2>2. child \in Records
    BY <2>1, FoundByPid DEF child, LiveIn
  <2>3. processes' = [processes EXCEPT ![child] = FreeRecord]
    BY <1>7, <2>1 DEF user_process_release
  <2>4. TablesOK(tasks, [processes EXCEPT ![child] = FreeRecord], pc, next_task_id, next_pid)
    BY <1>7, <2>2, Running, ExitedReleased
  <2>5. TablesOK(tasks, processes', back, next_task_id, next_pid)
    BY <1>5, <2>3, <2>4
  <2>6. TablesOK(tasks', processes', pc', next_task_id', next_pid')
    BY <1>7, <2>5
  <2>7. current_task' \in Slots /\ OneRunning'
    BY <1>7, Running, StillRunning
  <2>8. /\ \A j \in Records \ {child} : processes'[j] = processes[j]
        /\ processes'[child] = FreeRecord
    BY <2>2, <2>3, Running
  <2>9. KeysOK'
    <3>1. \A i \in LiveIn(processes') :
             i \in LiveIn(processes) /\ processes'[i].pid = processes[i].pid
      BY <2>2, <2>8, FreeIsRecord DEF LiveIn
    <3> QED BY <1>3, <3>1, Running, KeysStay
  <2>10. KeepsStatus
    BY <1>2, <2>1, <2>2, <2>8 DEF KeepsStatus, InState
  <2> QED BY <1>3, <2>6, <2>7, <2>9, <2>10, Assembled
<1>8. CASE pc' = loop /\ sched_yield(tasks, mem) /\ UNCHANGED processes
  <2>1. TablesOK(tasks, processes, loop, next_task_id, next_pid)
    BY <1>5, Running
  <2>2. TablesOK(tasks', processes, loop, next_task_id, next_pid)
        /\ current_task' \in Slots /\ OneRunning'
    BY <1>8, <2>1, Running, SwitchedTables
  <2>3. TablesOK(tasks', processes', pc', next_task_id', next_pid')
    BY <1>8, <2>2
  <2>4. KeysOK'
    BY <1>3, <1>8, Running, KeysStay
  <2> QED BY <1>3, <1>8, <2>2, <2>3, <2>4, Assembled, StatusUnchanged
<1> QED BY <1>1, <1>6, <1>7, <1>8

\* sys_wait reads or frees a record of the caller's own child.
LEMMA SysWaitStep == ASSUME ProcessInv, sys_wait PROVE ProcessInv' /\ KeepsStatus
<1>1. UNCHANGED <<next_task_id, next_pid, keys, userland_active, panicked>>
    BY DEF sys_wait
<1>2. pc[current_task].pid \in Nat /\ 1 .. MaxPid \subseteq Nat
    BY Running, ProcessAssumption DEF TablesOK, ThreadsOK, Positions
<1>3. pc[current_task].at \in {"user", "wait"} /\ \E pid \in Nat : user_wait(pid)
    BY <1>2, Zenon DEF sys_wait
<1> QED BY <1>1, <1>3, UserWaitStep

\* Steps that touch the keyboard buffer and nothing else.
LEMMA KeysOnly ==
    ASSUME ProcessInv, UNCHANGED <<schedVars, processes, next_pid, userland_active, pc>>,
           keys' \in Seq(Nat), Len(keys') < KEYBOARD_BUFFER_SIZE, NoTypeAhead'
    PROVE  ProcessInv' /\ KeepsStatus
<1>1. UNCHANGED <<tasks, current_task, next_task_id, panicked, processes, next_pid, userland_active, pc>>
    BY DEF schedVars
<1>2. KeysOK'
    BY <1>1, Running DEF KeysOK
<1>3. TablesOK(tasks', processes', pc', next_task_id', next_pid') /\ panicked' = FALSE
    BY <1>1, Running
<1>4. current_task' \in Slots /\ OneRunning'
    BY <1>1, Running, StillRunning
<1> QED BY <1>1, <1>2, <1>3, <1>4, Assembled, StatusUnchanged

\* The oldest key goes; the others are as young as they were.
LEMMA SysGetcStep == ASSUME ProcessInv, SysGetc PROVE ProcessInv' /\ KeepsStatus
<1>1. /\ keys # <<>> /\ keys' = Tail(keys)
      /\ UNCHANGED <<schedVars, processes, next_pid, userland_active, pc>>
    BY DEF SysGetc
<1>2. keys \in Seq(Nat) /\ Len(keys) < KEYBOARD_BUFFER_SIZE /\ NoTypeAhead
    BY Running DEF KeysOK
<1>3. /\ keys' \in Seq(Nat) /\ Len(keys') = Len(keys) - 1 /\ Len(keys) \in Nat
      /\ \A k \in 1 .. Len(keys') : keys'[k] = keys[k + 1]
    BY <1>1, <1>2
<1>4. NoTypeAhead'
  <2> SUFFICES ASSUME NEW k \in 1 .. Len(keys'), NEW i \in Live' PROVE processes'[i].pid < keys'[k]
    BY DEF NoTypeAhead
  <2>1. k + 1 \in 1 .. Len(keys) /\ keys'[k] = keys[k + 1]
    BY <1>3
  <2>2. i \in Live /\ processes' = processes
    BY <1>1 DEF Live
  <2> QED BY <1>2, <2>1, <2>2 DEF NoTypeAhead
<1> QED BY <1>1, <1>2, <1>3, <1>4, KeysOnly, ProcessAssumption

\* A key is younger than every process there is when it is typed.
LEMMA KeyboardIrqStep == ASSUME ProcessInv, KeyboardIrq PROVE ProcessInv' /\ KeepsStatus
<1>1. /\ Len(keys) < KEYBOARD_BUFFER_SIZE - 1 /\ keys' = Append(keys, next_pid)
      /\ UNCHANGED <<schedVars, processes, next_pid, userland_active, pc>>
    BY DEF KeyboardIrq
<1>2. keys \in Seq(Nat) /\ NoTypeAhead /\ next_pid \in Nat
    BY Running DEF KeysOK
<1>3. /\ keys' \in Seq(Nat) /\ Len(keys') = Len(keys) + 1 /\ Len(keys) \in Nat
      /\ \A k \in 1 .. Len(keys) : keys'[k] = keys[k]
      /\ keys'[Len(keys) + 1] = next_pid
    BY <1>1, <1>2
<1>4. \A i \in Live : processes[i].pid < next_pid
    BY Running DEF TablesOK, RecordsOK, LiveIn, Live
<1>5. NoTypeAhead'
  <2> SUFFICES ASSUME NEW k \in 1 .. Len(keys'), NEW i \in Live' PROVE processes'[i].pid < keys'[k]
    BY DEF NoTypeAhead
  <2>1. i \in Live /\ processes' = processes
    BY <1>1 DEF Live
  <2>2. CASE k \in 1 .. Len(keys)
    BY <1>2, <1>3, <2>1, <2>2 DEF NoTypeAhead
  <2>3. CASE k = Len(keys) + 1
    BY <1>3, <1>4, <2>1, <2>3
  <2>4. k \in 1 .. Len(keys) \/ k = Len(keys) + 1
    BY <1>3
  <2> QED BY <2>2, <2>3, <2>4
<1>6. Len(keys') < KEYBOARD_BUFFER_SIZE
    BY <1>1, <1>3, ProcessAssumption
<1> QED BY <1>1, <1>3, <1>5, <1>6, KeysOnly

-----------------------------------------------------------------------------
(* The invariant and what it says *)

\* At boot there is task 0 and no process.
LEMMA ProcessBoot == ASSUME ProcessInit PROVE ProcessInv
<1>1. /\ tasks = [i \in Slots |-> IF i = 0 THEN BootTask ELSE UnusedTask]
      /\ current_task = 0 /\ next_task_id = 1 /\ panicked = FALSE
      /\ processes = [i \in Records |-> FreeRecord] /\ next_pid = 1
      /\ userland_active = FALSE /\ keys = <<>>
      /\ pc = [i \in Slots |-> At(IF i = 0 THEN "boot" ELSE "none")]
    BY DEF ProcessInit, sched_init
<1>2. 0 \in Slots
    BY SlotsNat
<1>3. /\ BootTask \in Task /\ BootTask.state = TASK_RUNNING /\ BootTask.id = 0
      /\ BootTask.entry = "none"
    BY UnusedIsTask
       DEF BootTask, UnusedTask, Task, Directories, TaskStates, TASK_RUNNING, StackPointers, TASK_UNUSED
<1>4. UnusedTask \in Task /\ UnusedTask.state = TASK_UNUSED
    BY UnusedIsTask DEF UnusedTask
<1>5. At("boot") \in [at : Points, pid : Nat] /\ At("none") \in [at : Points, pid : Nat]
      /\ At("boot").at = "boot" /\ At("none").at = "none"
    BY DEF At, Points
<1>6. /\ tasks \in [Slots -> Task] /\ tasks[0] = BootTask
      /\ \A k \in Slots \ {0} : tasks[k] = UnusedTask
    BY <1>1, <1>2, <1>3, <1>4
<1>7. /\ pc \in Positions /\ pc[0] = At("boot")
      /\ \A k \in Slots \ {0} : pc[k] = At("none")
    BY <1>1, <1>2, <1>5 DEF Positions
<1> HIDE DEF At, BootTask, UnusedTask
<1>8. ThreadsOK(tasks, pc, next_task_id)
    BY <1>1, <1>2, <1>3, <1>4, <1>5, <1>6, <1>7
       DEF ThreadsOK, Alive, TASK_RUNNING, TASK_RUNNABLE, TASK_UNUSED
<1>9. processes \in [Records -> UserProcess] /\ LiveIn(processes) = {}
      /\ \A i \in Records : processes[i].state = USER_PROCESS_FREE
    BY <1>1, FreeIsRecord DEF LiveIn
<1>10. RecordsOK(processes, next_task_id, next_pid) /\ ParentsOK(processes)
    BY <1>1, <1>9
       DEF RecordsOK, ParentsOK, USER_PROCESS_FREE, USER_PROCESS_CREATED, USER_PROCESS_EXITED
<1>11. MatchOK(tasks, processes, pc)
  <2>1. \A k \in Slots : Alive(tasks, k) => tasks[k].entry # "user_exec_task"
    BY <1>2, <1>3, <1>4, <1>6 DEF Alive, TASK_RUNNING, TASK_RUNNABLE, TASK_UNUSED
  <2> QED BY <1>9, <2>1 DEF MatchOK
<1>12. OneRunning
    BY <1>1, <1>2, <1>3, <1>4, <1>6 DEF OneRunning, TASK_RUNNING, TASK_UNUSED
<1>13. KeysOK
  <2>1. userland_active \in BOOLEAN
    BY <1>1, Zenon
  <2>2. keys \in Seq(Nat) /\ Len(keys) < KEYBOARD_BUFFER_SIZE /\ NoTypeAhead
    BY <1>1, ProcessAssumption DEF NoTypeAhead
  <2> QED BY <2>1, <2>2 DEF KeysOK
<1> QED BY <1>1, <1>2, <1>8, <1>10, <1>11, <1>12, <1>13 DEF ProcessInv, TablesOK, NoPanic

\* Every step keeps the invariant, and every exited record that is not its own
\* child's.
LEMMA ProcessStep == ASSUME ProcessInv, ProcessNext PROVE ProcessInv' /\ KeepsStatus
<1>1. CASE TaskZero
    BY <1>1, UserInitStep, InitLoopStep, CmdYieldStep, VmmtestStep, VmmtestResumedStep,
       UserspawnStep DEF TaskZero
<1>2. CASE Thread
    BY <1>2, UserExecStep, ZeroTestStep, SysYieldStep, SysExitStep, SysWaitStep, SysGetcStep,
       SysSpawnStep DEF Thread
<1>3. CASE KeyboardIrq
    BY <1>3, KeyboardIrqStep
<1> QED BY <1>1, <1>2, <1>3 DEF ProcessNext

\* The invariant is about these variables alone.
LEMMA ProcessStutter == ASSUME ProcessInv, UNCHANGED vars PROVE ProcessInv'
<1>1. /\ UNCHANGED <<schedVars, processes, next_pid, userland_active, pc>>
      /\ UNCHANGED <<processes, keys>>
    BY DEF vars, processVars
<1>2. keys' \in Seq(Nat) /\ Len(keys') < KEYBOARD_BUFFER_SIZE /\ NoTypeAhead'
    BY <1>1, Running DEF KeysOK, NoTypeAhead, Live
<1> QED BY <1>1, <1>2, KeysOnly

\* The two tables agree from boot on: the inductive invariant.
THEOREM ProcessInvariant == ProcessSafety => []ProcessInv
<1>1. ProcessInit => ProcessInv
    BY ProcessBoot
<1>2. ProcessInv /\ [ProcessNext]_vars => ProcessInv'
    BY ProcessStep, ProcessStutter
<1> QED BY <1>1, <1>2, PTL DEF ProcessSafety

\* Every process that has not exited has its thread where its state says, every
\* living user thread its record, so the lookup by task id in user_exec_task,
\* user_wait and user_exit_current finds the caller itself.
THEOREM TablesMatch == ProcessSafety => []ProcessesMatchTasks
<1>1. ProcessInv => ProcessesMatchTasks
  <2> SUFFICES ASSUME ProcessInv PROVE ProcessesMatchTasks
    OBVIOUS
  <2>1. ThreadsOK(tasks, pc, next_task_id) /\ RecordsOK(processes, next_task_id, next_pid)
        /\ MatchOK(tasks, processes, pc)
    BY Running DEF TablesOK
  <2>2. Live = LiveIn(processes) /\ Live \subseteq Records /\ InUse \subseteq Slots
    BY DEF Live, LiveIn, InUse
  <2>3. ASSUME NEW k \in Slots PROVE Alive(tasks, k) => k \in InUse
    BY DEF Alive, InUse, TASK_RUNNING, TASK_RUNNABLE, TASK_UNUSED
  <2>4. ASSUME NEW k \in InUse PROVE tasks[k].state = TASK_ZOMBIE \/ Alive(tasks, k)
    BY <2>1, <2>2 DEF ThreadsOK, Task, TaskStates, Alive, InUse
  <2>5. ASSUME NEW i \in Live
        PROVE  LET slots == {k \in InUse : tasks[k].id = processes[i].task_id}
                   point == [k \in slots |-> pc[k].at]
               IN  CASE processes[i].state = USER_PROCESS_CREATED ->
                          \E k \in slots : point[k] = "start"
                     [] processes[i].state = USER_PROCESS_RUNNING ->
                          \E k \in slots : point[k] \in {"user", "wait"}
                                           /\ tasks[k].address_space = processes[i].address_space
                     [] OTHER -> \A k \in slots : tasks[k].state = TASK_ZOMBIE
    <3> DEFINE slots == {k \in InUse : tasks[k].id = processes[i].task_id}
               point == [k \in slots |-> pc[k].at]
    <3>1. CASE processes[i].state = USER_PROCESS_CREATED
      <4>1. processes[i].state # USER_PROCESS_EXITED /\ processes[i].state # USER_PROCESS_RUNNING
        BY <3>1 DEF USER_PROCESS_CREATED, USER_PROCESS_EXITED, USER_PROCESS_RUNNING
      <4>2. PICK k \in Slots : Runs(tasks, pc, k, processes[i])
        BY <2>1, <2>2, <4>1 DEF MatchOK
      <4>3. k \in slots /\ point[k] = "start"
        BY <2>3, <3>1, <4>2 DEF Runs
      <4> QED BY <3>1, <4>1, <4>3
    <3>2. CASE processes[i].state = USER_PROCESS_RUNNING
      <4>1. processes[i].state # USER_PROCESS_EXITED /\ processes[i].state # USER_PROCESS_CREATED
        BY <3>2 DEF USER_PROCESS_CREATED, USER_PROCESS_EXITED, USER_PROCESS_RUNNING
      <4>2. PICK k \in Slots : Runs(tasks, pc, k, processes[i])
        BY <2>1, <2>2, <4>1 DEF MatchOK
      <4>3. /\ k \in slots /\ point[k] \in {"user", "wait"}
            /\ tasks[k].address_space = processes[i].address_space
        BY <2>3, <3>2, <4>2 DEF Runs
      <4> QED BY <3>2, <4>1, <4>3
    <3>3. CASE processes[i].state = USER_PROCESS_EXITED
      <4>1. processes[i].state # USER_PROCESS_RUNNING /\ processes[i].state # USER_PROCESS_CREATED
        BY <3>3 DEF USER_PROCESS_CREATED, USER_PROCESS_EXITED, USER_PROCESS_RUNNING
      <4>2. \A k \in slots : tasks[k].state = TASK_ZOMBIE
        BY <2>1, <2>2, <2>4, <3>3 DEF MatchOK
      <4> QED BY <4>1, <4>2
    <3>4. \/ processes[i].state = USER_PROCESS_CREATED \/ processes[i].state = USER_PROCESS_RUNNING
          \/ processes[i].state = USER_PROCESS_EXITED
      BY <2>1, <2>2 DEF RecordsOK, UserProcess, Live
    <3> QED BY <3>1, <3>2, <3>3, <3>4
  <2>6. ASSUME NEW k \in InUse, tasks[k].entry = "user_exec_task", pc[k].at # "none"
        PROVE  \E i \in Live : /\ processes[i].task_id = tasks[k].id
                               /\ processes[i].state # USER_PROCESS_EXITED
    <3>1. Alive(tasks, k)
      BY <2>1, <2>2, <2>6 DEF ThreadsOK
    <3> QED BY <2>1, <2>2, <2>6, <3>1 DEF MatchOK
  <2>7. \A k, l \in InUse : tasks[k].id = tasks[l].id => k = l
    BY <2>1 DEF ThreadsOK, InUse
  <2>8. \A i, j \in Live :
           \/ processes[i].task_id = processes[j].task_id
           \/ processes[i].pid = processes[j].pid
           => i = j
    BY <2>1, <2>2 DEF RecordsOK
  <2> QED BY <2>5, <2>6, <2>7, <2>8, Zenon DEF ProcessesMatchTasks
<1> QED BY <1>1, ProcessInvariant, PTL

\* A parent has not exited, and only a child of such a parent stays as an exited
\* record: nothing user_exit_current keeps is beyond the reach of user_wait.
THEOREM ParentsWait == ProcessSafety => []ParentsCanWait
<1>1. ProcessInv => ParentsCanWait
    BY DEF ProcessInv, TablesOK, ParentsOK, ParentsCanWait, Live, LiveIn, InState
<1> QED BY <1>1, ProcessInvariant, PTL

\* A program reads no key that was typed before user_spawn made its process.
THEOREM KeysAreFresh == ProcessSafety => []NoTypeAhead
<1>1. ProcessInv => NoTypeAhead
    BY DEF ProcessInv, KeysOK
<1> QED BY <1>1, ProcessInvariant, PTL

\* Both panics of kthread_exit are out of reach of every program: only threads
\* come to user mode and to the end of a thread's function, never task 0, and
\* whatever the processes do there is a task to switch to, which sched_yield
\* marks running.
THEOREM ExitSwitches == ProcessSafety => [](NoPanic /\ OneRunning)
<1>1. ProcessInv => NoPanic /\ OneRunning
    BY DEF ProcessInv
<1> QED BY <1>1, ProcessInvariant, PTL

\* The record of an exited child changes only by a step of its own parent.
THEOREM StatusWaits == ProcessSafety => StatusKept
<1>1. ProcessInv /\ [ProcessNext]_vars => [KeepsStatus]_vars
    BY ProcessStep
<1>2. [KeepsStatus]_vars =>
        [\A i \in InState(USER_PROCESS_EXITED) :
            processes'[i] # processes[i] =>
               Caller # NULL /\ processes[Caller].pid = processes[i].parent_pid]_vars
    BY DEF KeepsStatus
<1> QED BY <1>1, <1>2, ProcessInvariant, PTL DEF ProcessSafety, StatusKept

-----------------------------------------------------------------------------
(***************************************************************************)
(* Memory. D is the set of user directories in use and G the set of pages  *)
(* that hold programs, at any point of a step; the page tables are those   *)
(* the directories name.                                                   *)
(***************************************************************************)
Roots(D) == D \cup {kernel_page_directory}

\* What a directory maps in the user half.
Sees(m, d) == IF m.pde[d] = ABSENT THEN NoMappings ELSE m.pte[m.pde[d]]

SeeTheSame(m, n, S) == \A d \in S : Sees(n, d) = Sees(m, d)

\* Every page in use is the heap's, a directory, a page table or a program's,
\* and only one of these; no two directories share a page table.
MemOK(m, D, G) ==
    /\ m \in MemoryType
    /\ m.heap \subseteq m.used /\ D \subseteq m.used /\ G \subseteq m.used
    /\ \A p \in m.used : \/ p \in m.heap \/ p \in D \/ p \in G
                         \/ \E d \in Roots(D) : m.pde[d] = p
    /\ m.heap \cap D = {} /\ m.heap \cap G = {} /\ D \cap G = {}
    /\ \A d \in Roots(D) : m.pde[d] # ABSENT =>
          /\ m.pde[d] \in m.used
          /\ m.pde[d] \notin m.heap /\ m.pde[d] \notin D /\ m.pde[d] \notin G
    /\ \A d, e \in Roots(D) : m.pde[d] # ABSENT /\ m.pde[d] = m.pde[e] => d = e

\* From m to n nothing changed that a directory maps, and no stack; the pages of n
\* are owned as D and G say.
Quiet(m, n, D, G) ==
    MemOK(n, D, G) /\ n.stacks = m.stacks /\ SeeTheSame(m, n, Roots(D))

\* The types the proofs below rest on.
LEMMA MemTypes ==
    ASSUME NEW m, NEW D, NEW G, MemOK(m, D, G)
    PROVE  /\ m \in MemoryType /\ D \subseteq Pages /\ G \subseteq Pages
           /\ Roots(D) \subseteq Directories
           /\ m.used \subseteq Pages /\ m.heap \subseteq Pages
           /\ m.pde \in [Directories -> Pages \cup {ABSENT}]
           /\ m.pte \in [Pages -> [VirtualPages -> Pages \cup {NULL, ABSENT}]]
           /\ m.stacks \subseteq Blocks
           /\ \A d \in Roots(D) :
                 Sees(m, d) \in [VirtualPages -> Pages \cup {NULL, ABSENT}]
<1>1. /\ m \in MemoryType /\ m.used \subseteq Pages /\ m.heap \subseteq Pages
      /\ m.pde \in [Directories -> Pages \cup {ABSENT}]
      /\ m.pte \in [Pages -> [VirtualPages -> Pages \cup {NULL, ABSENT}]]
      /\ m.stacks \subseteq Blocks
    BY DEF MemOK, MemoryType
<1>2. D \subseteq Pages /\ G \subseteq Pages /\ Roots(D) \subseteq Directories
    BY <1>1 DEF MemOK, Roots, Directories
<1>3. ASSUME NEW d \in Roots(D)
      PROVE  Sees(m, d) \in [VirtualPages -> Pages \cup {NULL, ABSENT}]
  <2>1. CASE m.pde[d] = ABSENT
    BY <2>1 DEF Sees, NoMappings
  <2>2. CASE m.pde[d] # ABSENT
    <3>1. m.pde[d] \in Pages
      BY <1>1, <1>2, <2>2
    <3> QED BY <1>1, <2>2, <3>1 DEF Sees
  <2> QED BY <2>1, <2>2
<1> QED BY <1>1, <1>2, <1>3

\* Changes to page table entries and to stacks move no page.
LEMMA SamePages ==
    ASSUME NEW m, NEW n \in MemoryType, NEW D, NEW G, MemOK(m, D, G),
           n.used = m.used, n.pde = m.pde, n.heap = m.heap
    PROVE  MemOK(n, D, G)
BY DEF MemOK

\* A page that was free is taken: by a program, as a directory, or by the heap.
LEMMA PageTaken ==
    ASSUME NEW m, NEW n \in MemoryType, NEW D, NEW G, MemOK(m, D, G),
           NEW p \in Pages \ m.used, n.used = m.used \cup {p}
    PROVE  /\ n.pde = m.pde /\ n.heap = m.heap => MemOK(n, D, G \cup {p})
           /\ n.pde = m.pde /\ n.heap = m.heap \cup {p} => MemOK(n, D, G)
           /\ n.pde = [m.pde EXCEPT ![p] = ABSENT] /\ n.heap = m.heap =>
                 MemOK(n, D \cup {p}, G)
<1>1. p \notin m.heap /\ p \notin D /\ p \notin G /\ \A d \in Roots(D) : m.pde[d] # p
    BY PagesNat DEF MemOK
<1>2. ASSUME n.pde = m.pde, n.heap = m.heap
      PROVE  MemOK(n, D, G \cup {p})
    BY <1>1, <1>2 DEF MemOK
<1>3. ASSUME n.pde = m.pde, n.heap = m.heap \cup {p}
      PROVE  MemOK(n, D, G)
    BY <1>1, <1>3 DEF MemOK
<1>4. ASSUME n.pde = [m.pde EXCEPT ![p] = ABSENT], n.heap = m.heap
      PROVE  MemOK(n, D \cup {p}, G)
  <2>1. Roots(D \cup {p}) = Roots(D) \cup {p} /\ p \notin Roots(D)
    BY <1>1, PagesNat DEF Roots
  <2>2. n.pde[p] = ABSENT /\ \A d \in Roots(D) : n.pde[d] = m.pde[d]
    BY <1>4, <2>1, MemTypes DEF Directories
  <2> QED BY <1>1, <1>4, <2>1, <2>2, PagesNat DEF MemOK
<1> QED BY <1>2, <1>3, <1>4

\* A page a program gives back.
LEMMA PagesGiven ==
    ASSUME NEW m, NEW n \in MemoryType, NEW D, NEW G, MemOK(m, D, G), NEW S, S \subseteq G,
           n.used = m.used \ S, n.pde = m.pde, n.heap = m.heap
    PROVE  MemOK(n, D, G \ S)
BY DEF MemOK

\* A search of the bitmap finds a free page, or none.
LEMMA FindsFreePage ==
    ASSUME NEW m \in MemoryType
    PROVE  pmm_alloc_page(m) = NULL \/ pmm_alloc_page(m) \in Pages \ m.used
<1>1. Pages \ m.used \in SUBSET Nat
    BY PagesNat
<1> QED BY <1>1, FirstIn DEF pmm_alloc_page

\* A directory that maps nothing, or nothing at all.
FreshSpace(m, r, D, G) ==
    \/ r.ret = NULL /\ r.mem = m
    \/ /\ r.ret \in Pages \ m.used
       /\ MemOK(r.mem, D \cup {r.ret}, G)
       /\ r.mem.stacks = m.stacks
       /\ SeeTheSame(m, r.mem, Roots(D))
       /\ Sees(r.mem, r.ret) = NoMappings

\* What vmm_create_address_space does.
LEMMA SpaceCreated ==
    ASSUME NEW m, NEW D, NEW G, MemOK(m, D, G)
    PROVE  FreshSpace(m, vmm_create_address_space(m), D, G)
<1> DEFINE r == vmm_create_address_space(m)
<1> SUFFICES FreshSpace(m, r, D, G)
    OBVIOUS
<1> USE DEF FreshSpace
<1> DEFINE d == direct_map_page(m)
<1>0. m \in MemoryType
    BY DEF MemOK
<1>1. CASE d = NULL
    BY <1>1 DEF vmm_create_address_space
<1>2. CASE d # NULL
  <2>1. d \in Pages \ m.used
    BY <1>0, <1>2, TakesFreePage
  <2> DEFINE n == [m EXCEPT !.used = @ \cup {d}, !.pde[d] = ABSENT]
  <2>2. r = [mem |-> n, ret |-> d]
    BY <1>2 DEF vmm_create_address_space
  <2> HIDE DEF d, r
  <2>3. /\ n \in MemoryType /\ n.used = m.used \cup {d}
        /\ n.pde = [m.pde EXCEPT ![d] = ABSENT] /\ n.pte = m.pte
        /\ n.heap = m.heap /\ n.stacks = m.stacks
    BY <1>0, <2>1 DEF MemoryType, Directories
  <2> HIDE DEF n
  <2>4. MemOK(n, D \cup {d}, G)
    BY <2>1, <2>3, PageTaken
  <2>5. n.pde[d] = ABSENT /\ \A e \in Directories \ {d} : n.pde[e] = m.pde[e]
    BY <2>1, <2>3, MemTypes DEF Directories
  <2>6. d \notin Roots(D)
    BY <2>1, PagesNat DEF MemOK, Roots
  <2>8. Roots(D) \subseteq Directories
    BY MemTypes
  <2>7. SeeTheSame(m, n, Roots(D)) /\ Sees(n, d) = NoMappings
    BY <2>3, <2>5, <2>6, <2>8 DEF SeeTheSame, Sees
  <2> QED BY <2>1, <2>2, <2>3, <2>4, <2>7
<1> QED BY <1>1, <1>2

\* Destroying directories gives back them and their page tables, and touches no
\* other directory.
LEMMA SpacesDestroyed ==
    ASSUME NEW m, NEW D, NEW G, MemOK(m, D, G), NEW S,
           S \subseteq D \cup {NULL, kernel_page_directory}, NEW n, n = DestroySpaces(m, S)
    PROVE  Quiet(m, n, D \ S, G)
<1> DEFINE dirs == S \ {NULL, kernel_page_directory}
           tables == {m.pde[d] : d \in dirs}
<1>0. /\ m \in MemoryType /\ D \subseteq Pages /\ Roots(D) \subseteq Directories
      /\ m.pde \in [Directories -> Pages \cup {ABSENT}]
      /\ m.pte \in [Pages -> [VirtualPages -> Pages \cup {NULL, ABSENT}]]
    BY MemTypes
<1>1. S \in SUBSET (Directories \cup {NULL})
    BY <1>0 DEF Directories
<1>2. n \in MemoryType /\ n.stacks = m.stacks
    BY <1>0, <1>1, DestroyKeepsType
<1>3. /\ n.used = m.used \ (dirs \cup tables) /\ n.heap = m.heap
      /\ n.pde = [d \in Directories |-> IF d \in dirs THEN ABSENT ELSE m.pde[d]]
      /\ n.pte = [t \in Pages |-> IF t \in tables THEN NoMappings ELSE m.pte[t]]
    BY <1>0 DEF DestroySpaces, MemoryType
<1>4. dirs \subseteq D /\ D \ S = D \ dirs
    BY <1>0, PagesNat
<1>5. \A e \in Roots(D \ S) : /\ e \in Roots(D) /\ e \notin dirs /\ n.pde[e] = m.pde[e]
                              /\ e \in Directories
    BY <1>0, <1>3, <1>4, PagesNat DEF Roots
<1>6. \A e \in Roots(D \ S) : m.pde[e] # ABSENT => m.pde[e] \notin tables
  <2> SUFFICES ASSUME NEW e \in Roots(D \ S), m.pde[e] # ABSENT, NEW d \in dirs,
                      m.pde[e] = m.pde[d]
               PROVE  FALSE
    OBVIOUS
  <2>1. d \in Roots(D)
    BY <1>4 DEF Roots
  <2>2. \A a, b \in Roots(D) : m.pde[a] # ABSENT /\ m.pde[a] = m.pde[b] => a = b
    BY DEF MemOK
  <2> QED BY <1>5, <2>1, <2>2
<1>7. \A d \in dirs : m.pde[d] # ABSENT =>
         m.pde[d] \notin m.heap /\ m.pde[d] \notin D /\ m.pde[d] \notin G
    BY <1>4 DEF MemOK, Roots
<1>8. ABSENT \notin m.heap /\ ABSENT \notin D /\ ABSENT \notin G
    BY MemTypes, PagesNat
<1>9. \A p \in tables : p \notin m.heap /\ p \notin D /\ p \notin G
    BY <1>7, <1>8
<1>10. \A p \in n.used : \/ p \in n.heap \/ p \in D \ S \/ p \in G
                         \/ \E d \in Roots(D \ S) : n.pde[d] = p
  <2> SUFFICES ASSUME NEW p \in n.used, p \notin m.heap, p \notin D, p \notin G
               PROVE  \E d \in Roots(D \ S) : n.pde[d] = p
    BY <1>3, <1>4
  <2>1. p \in m.used /\ p \notin tables
    BY <1>3
  <2>2. PICK d \in Roots(D) : m.pde[d] = p
    BY <2>1 DEF MemOK
  <2>3. d \in Roots(D \ S)
    BY <1>4, <2>1, <2>2 DEF Roots
  <2> QED BY <1>5, <2>2, <2>3
<1> HIDE DEF tables, dirs
<1>11. \A d \in Roots(D \ S) : n.pde[d] # ABSENT =>
          /\ n.pde[d] \in n.used
          /\ n.pde[d] \notin n.heap /\ n.pde[d] \notin D \ S /\ n.pde[d] \notin G
    BY <1>3, <1>4, <1>5, <1>6 DEF MemOK
<1>12. n.heap \subseteq n.used /\ D \ S \subseteq n.used /\ G \subseteq n.used
    BY <1>3, <1>4, <1>9 DEF MemOK
<1>13. \A d, e \in Roots(D \ S) : n.pde[d] # ABSENT /\ n.pde[d] = n.pde[e] => d = e
    BY <1>5 DEF MemOK
<1>14. n.heap \cap (D \ S) = {} /\ n.heap \cap G = {} /\ (D \ S) \cap G = {}
    BY <1>3 DEF MemOK
<1>15. MemOK(n, D \ S, G)
    BY <1>2, <1>10, <1>11, <1>12, <1>13, <1>14 DEF MemOK
<1>16. SeeTheSame(m, n, Roots(D \ S))
  <2> SUFFICES ASSUME NEW e \in Roots(D \ S), m.pde[e] # ABSENT
               PROVE  n.pte[m.pde[e]] = m.pte[m.pde[e]]
    BY <1>5 DEF SeeTheSame, Sees
  <2>1. m.pde[e] \in Pages
    BY <1>0, <1>5
  <2> QED BY <1>3, <1>6, <2>1
<1> QED BY <1>2, <1>15, <1>16 DEF Quiet

\* The page table of a directory: its own, or a fresh one that maps nothing.
LEMMA TableFor ==
    ASSUME NEW m, NEW D, NEW G, MemOK(m, D, G), NEW d \in Roots(D),
           NEW r, r = PageTableFor(m, d)
    PROVE  /\ MemOK(r.mem, D, G)
           /\ r.mem.stacks = m.stacks
           /\ SeeTheSame(m, r.mem, Roots(D))
           /\ \/ r.ret = NULL
              \/ r.ret \in Pages /\ r.mem.pde[d] = r.ret
<1> DEFINE t == direct_map_page(m)
<1>0. /\ m \in MemoryType /\ Roots(D) \subseteq Directories
      /\ m.pde \in [Directories -> Pages \cup {ABSENT}]
      /\ m.pte \in [Pages -> [VirtualPages -> Pages \cup {NULL, ABSENT}]]
    BY MemTypes
<1>1. CASE m.pde[d] # ABSENT
  <2>1. r.mem = m /\ r.ret = m.pde[d]
    BY <1>1 DEF PageTableFor
  <2> QED BY <1>0, <1>1, <2>1 DEF SeeTheSame
<1>2. CASE m.pde[d] = ABSENT /\ t = NULL
  <2>1. r.mem = m /\ r.ret = NULL
    BY <1>2 DEF PageTableFor
  <2> QED BY <2>1 DEF SeeTheSame
<1>3. CASE m.pde[d] = ABSENT /\ t # NULL
  <2>1. t \in Pages \ m.used
    BY <1>0, <1>3, TakesFreePage
  <2> DEFINE n == [m EXCEPT !.used = @ \cup {t}, !.pde[d] = t, !.pte[t] = NoMappings]
  <2>2. r = [mem |-> n, ret |-> t]
    BY <1>3 DEF PageTableFor
  <2> HIDE DEF t
  <2>3. NoMappings \in [VirtualPages -> Pages \cup {NULL, ABSENT}]
    BY DEF NoMappings
  <2>4. /\ n \in MemoryType /\ n.used = m.used \cup {t}
        /\ n.pde = [m.pde EXCEPT ![d] = t] /\ n.pte = [m.pte EXCEPT ![t] = NoMappings]
        /\ n.heap = m.heap /\ n.stacks = m.stacks
    BY <1>0, <2>1, <2>3 DEF MemoryType
  <2> HIDE DEF n
  <2>5. t \notin m.heap /\ t \notin D /\ t \notin G /\ \A e \in Roots(D) : m.pde[e] # t
    BY <2>1, PagesNat DEF MemOK
  <2>6. n.pde[d] = t /\ \A e \in Roots(D) \ {d} : n.pde[e] = m.pde[e]
    BY <1>0, <2>4
  <2>7. MemOK(n, D, G)
    <3>1. ASSUME NEW p \in n.used, p \notin n.heap, p \notin D, p \notin G
          PROVE  \E e \in Roots(D) : n.pde[e] = p
      <4>1. CASE p = t
        BY <2>6, <4>1
      <4>2. CASE p # t
        <5>1. p \in m.used /\ p \in Pages
          BY <2>4, <3>1, <4>2, MemTypes
        <5>2. PICK e \in Roots(D) : m.pde[e] = p
          BY <2>4, <3>1, <5>1 DEF MemOK
        <5>3. e # d
          BY <1>3, <5>1, <5>2, PagesNat
        <5> QED BY <2>6, <5>2, <5>3
      <4> QED BY <4>1, <4>2
    <3>2. \A e \in Roots(D) : n.pde[e] # ABSENT =>
             /\ n.pde[e] \in n.used
             /\ n.pde[e] \notin n.heap /\ n.pde[e] \notin D /\ n.pde[e] \notin G
      BY <2>4, <2>5, <2>6 DEF MemOK
    <3>3. \A c, e \in Roots(D) : n.pde[c] # ABSENT /\ n.pde[c] = n.pde[e] => c = e
      BY <2>5, <2>6 DEF MemOK
    <3> QED BY <2>4, <3>1, <3>2, <3>3 DEF MemOK
  <2>8. SeeTheSame(m, n, Roots(D))
    <3>1. Sees(n, d) = NoMappings /\ Sees(m, d) = NoMappings
      BY <1>0, <1>3, <2>1, <2>4, <2>6, PagesNat DEF Sees
    <3>2. ASSUME NEW e \in Roots(D) \ {d} PROVE Sees(n, e) = Sees(m, e)
      <4>1. m.pde[e] # t /\ n.pde[e] = m.pde[e] /\ m.pde[e] \in Pages \cup {ABSENT}
        BY <1>0, <2>5, <2>6
      <4>2. \A u \in Pages \ {t} : n.pte[u] = m.pte[u]
        BY <1>0, <2>4
      <4>3. CASE m.pde[e] = ABSENT
        BY <4>1, <4>3 DEF Sees
      <4>4. CASE m.pde[e] # ABSENT
        BY <4>1, <4>2, <4>4 DEF Sees
      <4> QED BY <4>3, <4>4
    <3> QED BY <3>1, <3>2 DEF SeeTheSame
  <2>9. r.mem = n /\ r.ret = t
    BY <2>2
  <2> QED BY <2>1, <2>4, <2>6, <2>7, <2>8, <2>9
<1> QED BY <1>1, <1>2, <1>3

\* n is m with one entry of a page table written; a row with one entry written.
Wrote(m, n, t, v, x) == n = [m EXCEPT !.pte[t][v] = x]
With(row, v, x) == [row EXCEPT ![v] = x]

\* The directory d, and no other, sees x at v from now on.
Entered(m, n, D, G, d, v, x) ==
    /\ MemOK(n, D, G)
    /\ n.stacks = m.stacks
    /\ SeeTheSame(m, n, Roots(D) \ {d})
    /\ Sees(n, d) = With(Sees(m, d), v, x)

\* One entry of a page table is written: its directory, and no other, sees it.
LEMMA EntryWritten ==
    ASSUME NEW m, NEW D, NEW G, MemOK(m, D, G), NEW d \in Roots(D),
           NEW t \in Pages, m.pde[d] = t, NEW v \in VirtualPages,
           NEW x \in Pages \cup {NULL, ABSENT}, NEW n, Wrote(m, n, t, v, x)
    PROVE  Entered(m, n, D, G, d, v, x)
<1>0. /\ m \in MemoryType /\ Roots(D) \subseteq Directories
      /\ m.pde \in [Directories -> Pages \cup {ABSENT}]
      /\ m.pte \in [Pages -> [VirtualPages -> Pages \cup {NULL, ABSENT}]]
    BY MemTypes
<1> DEFINE row == [m.pte[t] EXCEPT ![v] = x]
           f == [m.pte EXCEPT ![t] = row]
<1>1. row \in [VirtualPages -> Pages \cup {NULL, ABSENT}]
    BY <1>0
<1>2. n = [m EXCEPT !.pte = f]
    BY <1>0 DEF MemoryType, Wrote
<1> HIDE DEF row
<1>3. f \in [Pages -> [VirtualPages -> Pages \cup {NULL, ABSENT}]]
      /\ f[t] = row /\ \A u \in Pages \ {t} : f[u] = m.pte[u]
    BY <1>0, <1>1
<1> HIDE DEF f
<1>4. /\ n \in MemoryType /\ n.used = m.used /\ n.pde = m.pde /\ n.pte = f
      /\ n.heap = m.heap /\ n.stacks = m.stacks
    BY <1>0, <1>2, <1>3 DEF MemoryType
<1>5. MemOK(n, D, G)
    BY <1>4, SamePages
<1>6. t # ABSENT
    BY PagesNat
<1>7. Sees(n, d) = row /\ Sees(m, d) = m.pte[t]
    BY <1>3, <1>4, <1>6 DEF Sees
<1>8. ASSUME NEW e \in Roots(D) \ {d} PROVE Sees(n, e) = Sees(m, e)
  <2>1. m.pde[e] # t
    BY <1>6 DEF MemOK
  <2>2. m.pde[e] \in Pages \cup {ABSENT}
    BY <1>0
  <2> QED BY <1>3, <1>4, <2>1, <2>2 DEF Sees
<1> QED BY <1>4, <1>5, <1>7, <1>8 DEF Entered, SeeTheSame, row, With

\* Refused without a change any directory could see, or mapped.
Mapped(m, r, D, G, d, v, p) ==
    /\ MemOK(r.mem, D, G)
    /\ r.mem.stacks = m.stacks
    /\ SeeTheSame(m, r.mem, Roots(D) \ {d})
    /\ \/ r.ret = -1 /\ SeeTheSame(m, r.mem, Roots(D))
       \/ r.ret = 0 /\ d \in Roots(D) /\ Sees(r.mem, d) = With(Sees(m, d), v, p)

\* What vmm_map_page_in does.
LEMMA PageMapped ==
    ASSUME NEW m, NEW D, NEW G, MemOK(m, D, G), NEW d \in Roots(D) \cup {NULL},
           NEW v \in VirtualPages, NEW p \in Pages \cup {NULL}
    PROVE  Mapped(m, vmm_map_page_in(m, d, v, p), D, G, d, v, p)
<1> DEFINE r == vmm_map_page_in(m, d, v, p)
<1> SUFFICES Mapped(m, r, D, G, d, v, p)
    OBVIOUS
<1> USE DEF Mapped
<1>1. CASE d = NULL
    BY <1>1 DEF vmm_map_page_in, SeeTheSame
<1>2. CASE d # NULL
  <2> DEFINE y == PageTableFor(m, d)
  <2>1. d \in Roots(D)
    BY <1>2
  <2>2. /\ MemOK(y.mem, D, G)
        /\ y.mem.stacks = m.stacks
        /\ SeeTheSame(m, y.mem, Roots(D))
        /\ y.ret = NULL \/ (y.ret \in Pages /\ y.mem.pde[d] = y.ret)
    BY <2>1, TableFor
  <2>3. \/ r = [mem |-> y.mem, ret |-> -1]
        \/ y.ret # NULL /\ r = [mem |-> [y.mem EXCEPT !.pte[y.ret][v] = p], ret |-> 0]
    BY <1>2 DEF vmm_map_page_in
  <2> HIDE DEF y, r
  <2>4. \/ r.mem = y.mem /\ r.ret = -1
        \/ y.ret # NULL /\ Wrote(y.mem, r.mem, y.ret, v, p) /\ r.ret = 0
    BY <2>3 DEF Wrote
  <2>5. CASE r.mem = y.mem /\ r.ret = -1
    BY <2>2, <2>5 DEF SeeTheSame
  <2>6. CASE y.ret # NULL /\ Wrote(y.mem, r.mem, y.ret, v, p) /\ r.ret = 0
    <3>1. y.ret \in Pages /\ y.mem.pde[d] = y.ret /\ p \in Pages \cup {NULL, ABSENT}
      BY <2>2, <2>6
    <3>2. /\ MemOK(r.mem, D, G)
          /\ r.mem.stacks = y.mem.stacks
          /\ SeeTheSame(y.mem, r.mem, Roots(D) \ {d})
          /\ Sees(r.mem, d) = With(Sees(y.mem, d), v, p)
      <4> DEFINE n == r.mem
                 a == y.mem
      <4>1. MemOK(a, D, G) /\ a.pde[d] = y.ret /\ Wrote(a, n, y.ret, v, p)
        BY <2>2, <2>6, <3>1
      <4> HIDE DEF n, a
      <4>2. Entered(a, n, D, G, d, v, p)
        BY <2>1, <3>1, <4>1, EntryWritten
      <4> QED BY <4>2 DEF n, a, Entered
    <3> QED BY <2>1, <2>2, <2>6, <3>2 DEF SeeTheSame
  <2> QED BY <2>4, <2>5, <2>6
<1> QED BY <1>1, <1>2

\* Nothing is mapped at v any more.
Unmapped(m, n, D, G, d, v) ==
    /\ MemOK(n, D, G)
    /\ n.stacks = m.stacks
    /\ SeeTheSame(m, n, Roots(D) \ {d})
    /\ d \in Roots(D) => Sees(n, d) = With(Sees(m, d), v, ABSENT)

\* vmm_unmap_page_in clears the entry, if there is a page table.
LEMMA PageUnmapped ==
    ASSUME NEW m, NEW D, NEW G, MemOK(m, D, G), NEW d \in Roots(D) \cup {NULL},
           NEW v \in VirtualPages, NEW n, n = vmm_unmap_page_in(m, d, v)
    PROVE  Unmapped(m, n, D, G, d, v)
<1> USE DEF Unmapped
<1>0. kernel_page_directory # NULL /\ NULL \notin D
    BY MemTypes, PagesNat
<1>1. CASE d = NULL
    BY <1>0, <1>1 DEF vmm_unmap_page_in, SeeTheSame, Roots
<1>2. CASE d # NULL /\ m.pde[d] = ABSENT
  <2>1. n = m
    BY <1>2 DEF vmm_unmap_page_in
  <2>2. Sees(m, d) = NoMappings /\ NoMappings = With(NoMappings, v, ABSENT)
    BY <1>2 DEF Sees, NoMappings, With
  <2> QED BY <2>1, <2>2 DEF SeeTheSame
<1>3. CASE d # NULL /\ m.pde[d] # ABSENT
  <2>1. Wrote(m, n, m.pde[d], v, ABSENT)
    BY <1>3 DEF vmm_unmap_page_in, Wrote
  <2>2. d \in Roots(D) /\ m.pde[d] \in Pages /\ ABSENT \in Pages \cup {NULL, ABSENT}
    BY <1>3, MemTypes
  <2> DEFINE t == m.pde[d]
  <2>3. t \in Pages /\ m.pde[d] = t /\ Wrote(m, n, t, v, ABSENT)
    BY <2>1, <2>2
  <2> HIDE DEF t
  <2>4. Entered(m, n, D, G, d, v, ABSENT)
    BY <2>2, <2>3, EntryWritten
  <2> QED BY <2>2, <2>4 DEF Entered
<1> QED BY <1>1, <1>2, <1>3

\* Nothing a directory maps depends on the bitmap, the heap or the stacks.
LEMMA SameTablesSeen ==
    ASSUME NEW m, NEW n, n.pde = m.pde, n.pte = m.pte, NEW S
    PROVE  SeeTheSame(m, n, S)
BY DEF SeeTheSame, Sees

\* A page for a program, taken from the bitmap.
LEMMA PageSetUsed ==
    ASSUME NEW m, NEW D, NEW G, MemOK(m, D, G), NEW p, p = NULL \/ p \in Pages \ m.used,
           NEW n, n = SetUsed(m, p)
    PROVE  Quiet(m, n, D, G \cup ({p} \ {NULL}))
<1> USE DEF Quiet
<1>0. m \in MemoryType /\ NULL \notin Pages
    BY MemTypes, PagesNat
<1>1. /\ n \in MemoryType /\ n.used = m.used \cup ({p} \ {NULL}) /\ n.pde = m.pde
      /\ n.pte = m.pte /\ n.heap = m.heap /\ n.stacks = m.stacks
    BY <1>0 DEF SetUsed, MemoryType
<1>2. CASE p = NULL
  <2>1. n.used = m.used /\ G \cup ({p} \ {NULL}) = G
    BY <1>1, <1>2
  <2> QED BY <1>1, <2>1, SamePages, SameTablesSeen
<1>3. CASE p \in Pages \ m.used
  <2>1. {p} \ {NULL} = {p} /\ n.used = m.used \cup {p}
    BY <1>0, <1>1, <1>3
  <2>2. MemOK(n, D, G \cup {p})
    BY <1>1, <1>3, <2>1, PageTaken
  <2> QED BY <1>1, <2>1, <2>2, SameTablesSeen
<1> QED BY <1>2, <1>3

\* A program's page, given back to the bitmap.
LEMMA PageFreed ==
    ASSUME NEW m, NEW D, NEW G, MemOK(m, D, G), NEW p \in G \cup {NULL},
           NEW n, n = pmm_free_page(m, p)
    PROVE  Quiet(m, n, D, G \ {p})
<1> USE DEF Quiet
<1>0. m \in MemoryType /\ m.used \subseteq Pages /\ G \subseteq Pages /\ NULL \notin Pages
    BY MemTypes, PagesNat
<1> DEFINE S == {p} \ {NULL}
<1>1. /\ n \in MemoryType /\ n.used = m.used \ {p} /\ n.pde = m.pde
      /\ n.pte = m.pte /\ n.heap = m.heap /\ n.stacks = m.stacks
    BY <1>0 DEF pmm_free_page, MemoryType
<1>2. n.used = m.used \ S /\ G \ {p} = G \ S /\ S \subseteq G
    BY <1>0, <1>1
<1> HIDE DEF S
<1> QED BY <1>1, <1>2, PagesGiven, SameTablesSeen

\* The pages of a record.
NoPages == [v \in UserPages |-> NULL]
PagesOf(r) == {r.pages[v] : v \in UserPages} \ {NULL}

\* A row with the entries of the pages a record has cleared.
Cleared(row, r) ==
    [v \in VirtualPages |-> IF v \in UserPages /\ r.pages[v] # NULL THEN ABSENT ELSE row[v]]

\* The pages of r are free and its directory does not map them.
Unloaded(m, f, D, G, r) ==
    /\ MemOK(f.mem, D, G \ PagesOf(r))
    /\ f.mem.stacks = m.stacks
    /\ SeeTheSame(m, f.mem, Roots(D) \ {r.address_space})
    /\ Sees(f.mem, r.address_space) = Cleared(Sees(m, r.address_space), r)
    /\ f.proc = [r EXCEPT !.pages = NoPages]

\* user_process_free_pages unmaps a process's pages and gives them back.
LEMMA PagesFreed ==
    ASSUME NEW m, NEW D, NEW G, MemOK(m, D, G), NEW r \in UserProcess, r.address_space \in D,
           PagesOf(r) \subseteq G
    PROVE  Unloaded(m, user_process_free_pages(m, r), D, G, r)
<1> DEFINE f == user_process_free_pages(m, r)
<1> SUFFICES Unloaded(m, f, D, G, r)
    OBVIOUS
<1> DEFINE d == r.address_space
           table == m.pde[d]
           mapped == {v \in UserPages : r.pages[v] # NULL}
           row == [v \in VirtualPages |-> IF v \in mapped THEN ABSENT ELSE m.pte[table][v]]
           pte == IF table = ABSENT THEN m.pte ELSE [m.pte EXCEPT ![table] = row]
           n == f.mem
<1>0. /\ m \in MemoryType /\ Roots(D) \subseteq Directories /\ D \subseteq Pages
      /\ m.pde \in [Directories -> Pages \cup {ABSENT}]
      /\ m.pte \in [Pages -> [VirtualPages -> Pages \cup {NULL, ABSENT}]]
      /\ NULL \notin Pages /\ ABSENT \notin Pages
    BY MemTypes, PagesNat
<1>1. d \in D /\ d # NULL /\ d \in Roots(D) /\ table \in Pages \cup {ABSENT}
    BY <1>0 DEF Roots
<1>2. {r.pages[v] : v \in mapped} = PagesOf(r)
    BY DEF PagesOf
<1>3. /\ f.proc = [r EXCEPT !.pages = NoPages]
      /\ n = [m EXCEPT !.used = m.used \ PagesOf(r), !.pte = pte]
  <2> DEFINE table2 == IF r.address_space = NULL THEN ABSENT ELSE m.pde[r.address_space]
  <2>1. table2 = table
    BY <1>1
  <2> DEFINE pte2 == IF table2 = ABSENT THEN m.pte
                     ELSE [m.pte EXCEPT ![table2] =
                             [v \in VirtualPages |->
                                IF v \in mapped THEN ABSENT ELSE m.pte[table2][v]]]
  <2>2. f = [mem |-> [m EXCEPT !.used = m.used \ {r.pages[v] : v \in mapped}, !.pte = pte2],
             proc |-> [r EXCEPT !.pages = [v \in UserPages |-> NULL]]]
    BY Zenon DEF user_process_free_pages
  <2> HIDE DEF table2, mapped, pte2, f
  <2>5. n = [m EXCEPT !.used = m.used \ {r.pages[v] : v \in mapped}, !.pte = pte2]
    BY <2>2
  <2> USE DEF pte2
  <2>6. pte2 = pte
    BY <2>1, Zenon
  <2> HIDE DEF pte2
  <2>3. n = [m EXCEPT !.used = m.used \ PagesOf(r), !.pte = pte]
    BY <1>2, <2>5, <2>6, Zenon
  <2>4. f.proc = [r EXCEPT !.pages = NoPages]
    BY <2>2 DEF NoPages
  <2> QED BY <2>3, <2>4
<1>4. row \in [VirtualPages -> Pages \cup {NULL, ABSENT}] \/ table = ABSENT
    BY <1>0, <1>1
<1> HIDE DEF row, f
<1>5. pte \in [Pages -> [VirtualPages -> Pages \cup {NULL, ABSENT}]]
    BY <1>0, <1>1, <1>4
<1>6. /\ \A u \in Pages \ {table} : pte[u] = m.pte[u]
      /\ table # ABSENT => pte[table] = row
    BY <1>0, <1>1
<1> HIDE DEF pte
<1>7. /\ n \in MemoryType /\ n.used = m.used \ PagesOf(r) /\ n.pde = m.pde
      /\ n.pte = pte /\ n.heap = m.heap /\ n.stacks = m.stacks
  <2>1. m.used \ PagesOf(r) \subseteq Pages
    BY MemTypes
  <2> QED BY <1>0, <1>3, <1>5, <2>1 DEF MemoryType
<1> HIDE DEF n
<1>8. MemOK(n, D, G \ PagesOf(r))
    BY <1>7, PagesGiven
<1>9. ASSUME NEW e \in Roots(D) \ {d} PROVE Sees(n, e) = Sees(m, e)
  <2>1. CASE m.pde[e] = ABSENT
    BY <1>7, <2>1 DEF Sees
  <2>2. CASE m.pde[e] # ABSENT
    <3>1. m.pde[e] # table /\ m.pde[e] \in Pages
      BY <1>0, <1>1, <2>2 DEF MemOK
    <3> QED BY <1>6, <1>7, <2>2, <3>1 DEF Sees
  <2> QED BY <2>1, <2>2
<1>10. Sees(n, d) = Cleared(Sees(m, d), r)
  <2>1. CASE table = ABSENT
    BY <1>7, <2>1 DEF Sees, Cleared, NoMappings
  <2>2. CASE table # ABSENT
    <3>1. Sees(n, d) = row /\ Sees(m, d) = m.pte[table]
      BY <1>6, <1>7, <2>2 DEF Sees
    <3>2. row = Cleared(m.pte[table], r)
      BY DEF row, Cleared
    <3> QED BY <3>1, <3>2
  <2> QED BY <2>1, <2>2
<1> QED BY <1>3, <1>7, <1>8, <1>9, <1>10 DEF Unloaded, SeeTheSame, n

\* A record with one page entered.
WithPage(r, v, p) == [r EXCEPT !.pages[v] = p]

\* A fresh page mapped at v and entered in the record, or nothing that anybody
\* could see.
Copied(m, x, D, G, r, v) ==
    /\ x.mem.stacks = m.stacks
    /\ SeeTheSame(m, x.mem, Roots(D) \ {r.address_space})
    /\ \/ /\ x.ret = -1 /\ x.proc = r /\ MemOK(x.mem, D, G)
          /\ SeeTheSame(m, x.mem, Roots(D))
       \/ /\ x.ret = 0
          /\ \E p \in Pages \ m.used :
                /\ x.proc = WithPage(r, v, p)
                /\ MemOK(x.mem, D, G \cup {p})
                /\ Sees(x.mem, r.address_space) = With(Sees(m, r.address_space), v, p)

\* What map_copied_user_page does.
LEMMA PageCopied ==
    ASSUME NEW m, NEW D, NEW G, MemOK(m, D, G), NEW r, r.address_space \in D,
           NEW v \in UserPages
    PROVE  Copied(m, map_copied_user_page(m, r, v), D, G, r, v)
<1> DEFINE x == map_copied_user_page(m, r, v)
<1> SUFFICES Copied(m, x, D, G, r, v)
    OBVIOUS
<1> USE DEF Copied
<1> DEFINE page == direct_map_page(m)
           d == r.address_space
           a == SetUsed(m, page)
           y == vmm_map_page_in(a, d, v, page)
           b == pmm_free_page(y.mem, page)
<1>0. m \in MemoryType /\ NULL \notin Pages /\ d \in Roots(D) /\ v \in VirtualPages
    BY MemTypes, PagesNat DEF Roots, UserPages, VirtualPages
<1>1. CASE page = NULL
  <2>1. x.mem = m /\ x.proc = r /\ x.ret = -1
    BY <1>1 DEF map_copied_user_page
  <2> QED BY <2>1 DEF SeeTheSame
<1>2. CASE page # NULL
  <2>1. page \in Pages \ m.used
    BY <1>0, <1>2, TakesFreePage
  <2>2. \/ y.ret # 0 /\ x = [mem |-> b, proc |-> r, ret |-> -1]
        \/ y.ret = 0 /\ x = [mem |-> y.mem, proc |-> WithPage(r, v, page), ret |-> 0]
    BY <1>2, Zenon DEF map_copied_user_page, WithPage
  <2> HIDE DEF page, x
  <2>0. Quiet(m, a, D, G \cup ({page} \ {NULL}))
    BY <2>1, PageSetUsed
  <2>3. /\ MemOK(a, D, G \cup ({page} \ {NULL}))
        /\ a.stacks = m.stacks
        /\ SeeTheSame(m, a, Roots(D))
    BY <2>0 DEF Quiet
  <2>4. {page} \ {NULL} = {page} /\ page \notin G
    BY <1>0, <2>1 DEF MemOK
  <2> HIDE DEF a
  <2>5. MemOK(a, D, G \cup {page}) /\ page \in Pages \cup {NULL} /\ d \in Roots(D) \cup {NULL}
    BY <1>0, <2>1, <2>3, <2>4
  <2> HIDE DEF d
  <2>6. /\ MemOK(y.mem, D, G \cup {page})
        /\ y.mem.stacks = a.stacks
        /\ SeeTheSame(a, y.mem, Roots(D) \ {d})
        /\ \/ y.ret = -1 /\ SeeTheSame(a, y.mem, Roots(D))
           \/ y.ret = 0 /\ d \in Roots(D) /\ Sees(y.mem, d) = With(Sees(a, d), v, page)
    <3> DEFINE H == G \cup {page}
    <3>1. MemOK(a, D, H)
      BY <2>5
    <3> HIDE DEF H
    <3>2. Mapped(a, y, D, H, d, v, page)
      BY <1>0, <2>5, <3>1, PageMapped
    <3> QED BY <3>2 DEF H, Mapped
  <2> HIDE DEF y
  <2>7. /\ MemOK(b, D, (G \cup {page}) \ {page})
        /\ b.stacks = y.mem.stacks
        /\ SeeTheSame(y.mem, b, Roots(D))
    <3> DEFINE H == G \cup {page}
    <3>1. page \in H \cup {NULL} /\ MemOK(y.mem, D, H)
      BY <2>6
    <3> HIDE DEF H
    <3>2. Quiet(y.mem, b, D, H \ {page})
      BY <3>1, PageFreed
    <3> QED BY <3>2 DEF H, Quiet
  <2>8. (G \cup {page}) \ {page} = G
    BY <2>4
  <2> HIDE DEF b
  <2>9. CASE y.ret # 0 /\ x = [mem |-> b, proc |-> r, ret |-> -1]
    <3>1. x.mem = b /\ x.proc = r /\ x.ret = -1
      BY <2>9
    <3> QED BY <2>3, <2>6, <2>7, <2>8, <2>9, <3>1 DEF SeeTheSame
  <2>10. CASE y.ret = 0 /\ x = [mem |-> y.mem, proc |-> WithPage(r, v, page), ret |-> 0]
    <3>1. x.mem = y.mem /\ x.proc = WithPage(r, v, page) /\ x.ret = 0 /\ y.ret # -1
      BY <2>10
    <3>2. Sees(a, d) = Sees(m, d)
      BY <1>0, <2>3 DEF SeeTheSame, d
    <3>3. SeeTheSame(m, x.mem, Roots(D) \ {d})
      BY <2>3, <2>6, <3>1 DEF SeeTheSame
    <3> QED BY <2>1, <2>3, <2>6, <3>1, <3>2, <3>3 DEF d
  <2> QED BY <2>2, <2>9, <2>10
<1> QED BY <1>1, <1>2

\* What a record's directory maps once its program is loaded.
Image(r) == [v \in VirtualPages |-> IF v \in UserPages THEN r.pages[v] ELSE ABSENT]

\* A row of a page table.
Rows == [VirtualPages -> Pages \cup {NULL, ABSENT}]

\* The first page of a program entered.
LEMMA PageEntered ==
    ASSUME NEW r \in UserProcess, r.pages = NoPages, NEW p \in Pages,
           NEW s, s = WithPage(r, CODE, p)
    PROVE  /\ s \in UserProcess /\ s.address_space = r.address_space /\ PagesOf(s) = {p}
           /\ s.pages[CODE] = p
           /\ Cleared(With(NoMappings, CODE, p), s) = NoMappings
<1>0. NULL \notin Pages /\ UserPages = {CODE, STACK} /\ CODE # STACK
      /\ VirtualPages = {CODE, STACK, LOW} /\ LOW # CODE /\ LOW # STACK
    BY PagesNat DEF UserPages, VirtualPages, CODE, STACK, LOW
<1> DEFINE f == [NoPages EXCEPT ![CODE] = p]
<1>1. f \in [UserPages -> Pages \cup {NULL}] /\ f[CODE] = p /\ f[STACK] = NULL
    BY <1>0 DEF NoPages
<1>2. s = [r EXCEPT !.pages = f]
    BY DEF WithPage, UserProcess
<1> HIDE DEF f
<1>3. s \in UserProcess /\ s.pages = f /\ s.address_space = r.address_space
    BY <1>1, <1>2 DEF UserProcess
<1>4. PagesOf(s) = {p}
    BY <1>0, <1>1, <1>3 DEF PagesOf
<1>5. Cleared(With(NoMappings, CODE, p), s) = NoMappings
    BY <1>0, <1>1, <1>3 DEF Cleared, With, NoMappings
<1> QED BY <1>1, <1>3, <1>4, <1>5

\* The second page entered.
LEMMA PagesEntered ==
    ASSUME NEW s \in UserProcess, NEW p \in Pages, NEW q \in Pages, p # q, s.pages[CODE] = p,
           NEW x, x = WithPage(s, STACK, q)
    PROVE  /\ x.address_space = s.address_space
           /\ PagesOf(x) = {p, q} /\ x.pages[CODE] = p /\ x.pages[STACK] = q
           /\ With(With(NoMappings, CODE, p), STACK, q) = Image(x)
<1>0. NULL \notin Pages /\ UserPages = {CODE, STACK} /\ CODE # STACK
      /\ VirtualPages = {CODE, STACK, LOW} /\ LOW # CODE /\ LOW # STACK
    BY PagesNat DEF UserPages, VirtualPages, CODE, STACK, LOW
<1> DEFINE g == [s.pages EXCEPT ![STACK] = q]
<1>1. g \in [UserPages -> Pages \cup {NULL}] /\ g[CODE] = p /\ g[STACK] = q
    BY <1>0 DEF UserProcess
<1>4. x = [s EXCEPT !.pages = g]
    BY DEF WithPage, UserProcess
<1> HIDE DEF g
<1>5. x.pages = g /\ x.address_space = s.address_space
    BY <1>1, <1>4 DEF UserProcess
<1>6. PagesOf(x) = {p, q}
    BY <1>0, <1>1, <1>5 DEF PagesOf
<1>9. With(With(NoMappings, CODE, p), STACK, q) = Image(x)
    BY <1>0, <1>1, <1>5 DEF Image, With, NoMappings
<1> QED BY <1>1, <1>5, <1>6, <1>9

\* A program loaded in pages nobody had, or memory as it was.
Prepared(m, x, D, G, r) ==
    /\ x.mem.stacks = m.stacks
    /\ SeeTheSame(m, x.mem, Roots(D) \ {r.address_space})
    /\ x.proc.address_space = r.address_space
    /\ \/ /\ x.ret = -1 /\ MemOK(x.mem, D, G)
          /\ Sees(x.mem, r.address_space) = NoMappings
       \/ /\ x.ret = 0 /\ MemOK(x.mem, D, G \cup PagesOf(x.proc))
          /\ Sees(x.mem, r.address_space) = Image(x.proc)
          /\ \A v \in UserPages : x.proc.pages[v] \in Pages \ G
          /\ x.proc.pages[CODE] # x.proc.pages[STACK]

\* user_prepare_exec loads all of a program or nothing of it.
LEMMA ProgramLoaded ==
    ASSUME NEW m, NEW D, NEW G, MemOK(m, D, G), NEW r \in UserProcess, r.address_space \in D,
           r.pages = NoPages, Sees(m, r.address_space) = NoMappings
    PROVE  Prepared(m, user_prepare_exec(m, r), D, G, r)
<1> DEFINE d == r.address_space
           code == load_emxf(m, r)
           stack == map_copied_user_page(code.mem, code.proc, STACK)
           Freed(y) == user_process_free_pages(y.mem, y.proc)
           Fail(y) == [mem |-> Freed(y).mem, proc |-> Freed(y).proc, ret |-> -1]
           x == user_prepare_exec(m, r)
<1> SUFFICES Prepared(m, x, D, G, r)
    OBVIOUS
<1>0. d \in Roots(D) /\ CODE \in UserPages /\ STACK \in UserPages /\ NULL \notin Pages
      /\ UserPages = {CODE, STACK}
    BY PagesNat DEF Roots, UserPages
<1>1. \/ code.ret # 0 /\ x = Fail(code)
      \/ code.ret = 0 /\ stack.ret # 0 /\ x = Fail(stack)
      \/ code.ret = 0 /\ stack.ret = 0 /\ x = stack
    BY Zenon DEF user_prepare_exec
<1>2. Copied(m, code, D, G, r, CODE)
  <2>1. CASE r.path # "good"
    <3>1. code.mem = m /\ code.proc = r /\ code.ret = -1
      BY <2>1 DEF load_emxf
    <3> HIDE DEF code
    <3> QED BY <3>1 DEF Copied, SeeTheSame
  <2>2. CASE r.path = "good"
    BY <1>0, <2>2, PageCopied DEF load_emxf
  <2> QED BY <2>1, <2>2
<1>3. code.ret = 0 => code.proc.address_space = d
    BY <1>2 DEF Copied, WithPage, UserProcess
<1> HIDE DEF code, x
\* What is mapped is taken back.
<1>4. ASSUME NEW y, NEW H, MemOK(y.mem, D, H), y.proc \in UserProcess,
             y.proc.address_space = d, PagesOf(y.proc) \subseteq H, G = H \ PagesOf(y.proc),
             y.mem.stacks = m.stacks, SeeTheSame(m, y.mem, Roots(D) \ {d}),
             Cleared(Sees(y.mem, d), y.proc) = NoMappings, x = Fail(y)
      PROVE  Prepared(m, x, D, G, r)
  <2> DEFINE n == y.mem
             f == Freed(y)
             p == y.proc
  <2>1. Unloaded(n, f, D, H, p)
    <3>1. MemOK(n, D, H) /\ p \in UserProcess /\ p.address_space \in D /\ PagesOf(p) \subseteq H
      BY <1>4
    <3>2. f = user_process_free_pages(n, p)
      OBVIOUS
    <3> HIDE DEF n, p, f
    <3> QED BY <3>1, <3>2, PagesFreed
  <2>2. f.proc.address_space = d
    BY <1>4, <2>1 DEF UserProcess, Unloaded
  <2>3. x.mem = f.mem /\ x.proc = f.proc /\ x.ret = -1
    BY <1>4
  <2> HIDE DEF f
  <2> QED BY <1>4, <2>1, <2>2, <2>3 DEF Prepared, Unloaded, SeeTheSame
<1>5. CASE code.ret # 0
  <2>1. /\ code.proc = r /\ MemOK(code.mem, D, G) /\ code.mem.stacks = m.stacks
        /\ SeeTheSame(m, code.mem, Roots(D)) /\ x = Fail(code)
    BY <1>1, <1>2, <1>5 DEF Copied
  <2>2. Sees(code.mem, d) = NoMappings /\ SeeTheSame(m, code.mem, Roots(D) \ {d})
    BY <1>0, <2>1 DEF SeeTheSame
  <2>3. PagesOf(r) = {} /\ Cleared(NoMappings, r) = NoMappings
    BY DEF PagesOf, NoPages, Cleared, NoMappings
  <2>4. G = G \ PagesOf(r) /\ PagesOf(r) \subseteq G
    BY <2>3
  <2> QED BY <1>4, <2>1, <2>2, <2>3, <2>4
<1>6. CASE code.ret = 0
  <2>1. PICK p \in Pages \ m.used : /\ code.proc = WithPage(r, CODE, p)
                                     /\ MemOK(code.mem, D, G \cup {p})
                                     /\ Sees(code.mem, d) = With(Sees(m, d), CODE, p)
    BY <1>2, <1>6 DEF Copied
  <2> DEFINE H == G \cup {p}
             a == code.mem
             s == code.proc
  <2>2. /\ s = WithPage(r, CODE, p) /\ MemOK(a, D, H) /\ Sees(a, d) = With(NoMappings, CODE, p)
        /\ a.stacks = m.stacks /\ SeeTheSame(m, a, Roots(D) \ {d}) /\ s.address_space \in D
        /\ s.address_space = d
    BY <1>2, <1>3, <1>6, <2>1 DEF Copied
  <2>3. p \in a.used /\ p \notin G
    BY <2>1, <2>2 DEF MemOK
  <2> DEFINE y == stack
  <2>4. y = map_copied_user_page(a, s, STACK)
    OBVIOUS
  <2>5. \/ y.ret # 0 /\ x = Fail(y)
        \/ y.ret = 0 /\ x = y
    BY <1>1, <1>6
  <2> HIDE DEF H, a, s, y, stack
  <2>6. Copied(a, y, D, H, s, STACK)
    BY <1>0, <2>2, <2>4, PageCopied
  <2>7. /\ s \in UserProcess /\ s.address_space = d /\ PagesOf(s) = {p} /\ s.pages[CODE] = p
        /\ Cleared(With(NoMappings, CODE, p), s) = NoMappings
    BY <2>1, <2>2, PageEntered
  <2>8. CASE y.ret # 0
    <3>1. /\ y.proc = s /\ MemOK(y.mem, D, H) /\ y.mem.stacks = m.stacks
          /\ SeeTheSame(a, y.mem, Roots(D)) /\ x = Fail(y)
      BY <2>2, <2>5, <2>6, <2>8 DEF Copied
    <3>2. s \in UserProcess /\ PagesOf(s) = {p} /\ Cleared(Sees(a, d), s) = NoMappings
      BY <2>2, <2>7
    <3>3. PagesOf(s) \subseteq H /\ G = H \ PagesOf(s)
      BY <2>3, <3>2 DEF H
    <3>4. Sees(y.mem, d) = Sees(a, d) /\ SeeTheSame(m, y.mem, Roots(D) \ {d})
      BY <1>0, <2>2, <3>1 DEF SeeTheSame
    <3> QED BY <1>4, <2>2, <3>1, <3>2, <3>3, <3>4
  <2>9. CASE y.ret = 0
    <3>1. PICK q \in Pages \ a.used : /\ y.proc = WithPage(s, STACK, q)
                                       /\ MemOK(y.mem, D, H \cup {q})
                                       /\ Sees(y.mem, s.address_space)
                                             = With(Sees(a, s.address_space), STACK, q)
      BY <2>6, <2>9 DEF Copied
    <3>2. q # p /\ q \in Pages
      BY <2>3, <3>1
    <3> DEFINE z == y.proc
    <3>3. /\ z.address_space = r.address_space /\ PagesOf(z) = {p, q}
          /\ z.pages[CODE] = p /\ z.pages[STACK] = q
          /\ With(With(NoMappings, CODE, p), STACK, q) = Image(z)
      BY <2>1, <2>7, <3>1, <3>2, PagesEntered
    <3> HIDE DEF z
    <3>4. G \cup PagesOf(z) = H \cup {q}
      BY <3>3 DEF H
    <3>5. q \notin G
      BY <2>2, <3>1 DEF MemOK, H
    <3>6. /\ y.mem.stacks = m.stacks /\ SeeTheSame(m, y.mem, Roots(D) \ {d})
      BY <2>2, <2>6 DEF Copied, SeeTheSame
    <3>7. x = y
      BY <2>5, <2>9
    <3> QED BY <1>0, <2>1, <2>2, <2>3, <2>9, <3>1, <3>2, <3>3, <3>4, <3>5, <3>6, <3>7 DEF Prepared, z
  <2> QED BY <2>8, <2>9
<1> QED BY <1>5, <1>6

\* A block that was not live, or none; nobody's pages change but the heap's.
Allocated(m, k, D, G) ==
    /\ MemOK(k.mem, D, G)
    /\ SeeTheSame(m, k.mem, Roots(D))
    /\ \/ k.ret = NULL /\ k.mem.stacks = m.stacks
       \/ k.ret \in Blocks \ m.stacks /\ k.mem.stacks = m.stacks \cup {k.ret}

\* What kmalloc does.
LEMMA BlockTaken ==
    ASSUME NEW m, NEW D, NEW G, MemOK(m, D, G), NEW k \in kmalloc(m)
    PROVE  Allocated(m, k, D, G)
<1> DEFINE b == Lowest(Blocks \ m.stacks)
           p == direct_map_page(m)
           reuse == [mem |-> [m EXCEPT !.stacks = @ \cup {b}], ret |-> b]
           grow  == [mem |-> [m EXCEPT !.stacks = @ \cup {b},
                                       !.used = @ \cup {p},
                                       !.heap = @ \cup {p}], ret |-> b]
           fail  == [mem |-> m, ret |-> NULL]
<1>0. m \in MemoryType
    BY MemTypes
<1>1. /\ k.mem \in MemoryType
      /\ \/ k.ret = NULL /\ k.mem.stacks = m.stacks
         \/ k.ret \in Blocks \ m.stacks /\ k.mem.stacks = m.stacks \cup {k.ret}
    BY <1>0, AllocatesFreshBlock
<1>2. \/ k = fail
      \/ ~(Blocks \subseteq m.stacks) /\ k = reuse
      \/ ~(Blocks \subseteq m.stacks) /\ p # NULL /\ k = grow
    BY Zenon DEF kmalloc
<1>3. p = NULL \/ p \in Pages \ m.used
    BY <1>0, TakesFreePage
<1> HIDE DEF b, p
<1>4. /\ k.mem.pde = m.pde /\ k.mem.pte = m.pte
      /\ \/ k.mem.used = m.used /\ k.mem.heap = m.heap
         \/ p # NULL /\ k.mem.used = m.used \cup {p} /\ k.mem.heap = m.heap \cup {p}
  <2>1. CASE k = fail
    BY <2>1
  <2>2. CASE k = reuse
    BY <1>0, <2>2 DEF MemoryType
  <2>3. CASE p # NULL /\ k = grow
    BY <1>0, <2>3 DEF MemoryType
  <2> QED BY <1>2, <2>1, <2>2, <2>3
<1> DEFINE n == k.mem
<1>5. n \in MemoryType /\ n.pde = m.pde /\ n.pte = m.pte
    BY <1>1, <1>4
<1>6. \/ n.used = m.used /\ n.heap = m.heap
      \/ p # NULL /\ n.used = m.used \cup {p} /\ n.heap = m.heap \cup {p}
    BY <1>4
<1> HIDE DEF n
<1>7. MemOK(n, D, G)
    BY <1>3, <1>5, <1>6, SamePages, PageTaken
<1>8. SeeTheSame(m, n, Roots(D))
    BY <1>5, SameTablesSeen
<1> QED BY <1>1, <1>7, <1>8 DEF Allocated, n

\* kfree gives back blocks and no page.
LEMMA BlocksFreed ==
    ASSUME NEW m, NEW D, NEW G, MemOK(m, D, G), NEW B, NEW n, n = kfree(m, B)
    PROVE  MemOK(n, D, G) /\ SeeTheSame(m, n, Roots(D)) /\ n.stacks = m.stacks \ B
<1>0. m \in MemoryType
    BY MemTypes
<1>1. /\ n \in MemoryType /\ n.used = m.used /\ n.pde = m.pde /\ n.pte = m.pte
      /\ n.heap = m.heap /\ n.stacks = m.stacks \ B
    BY <1>0 DEF kfree, MemoryType
<1> QED BY <1>1, SamePages, SameTablesSeen

\* cmd_vmmtest leaves no trace but, perhaps, a page table of the kernel's.
LEMMA VmmtestQuiet ==
    ASSUME NEW m, NEW D, NEW G, MemOK(m, D, G), Sees(m, kernel_page_directory) = NoMappings
    PROVE  Quiet(m, VmmtestMemory(m), D, G)
<1> DEFINE K == kernel_page_directory
           space == vmm_create_address_space(m)
           e == space.ret
           a == space.mem
           page == pmm_alloc_page(a)
           a1 == SetUsed(a, page)
           first == vmm_map_page_in(a1, e, CODE, page)
           a2 == first.mem
           second == vmm_map_page_in(a2, e, CODE, page)
           a3 == second.mem
           a4 == vmm_unmap_page_in(a3, e, CODE)
           a5 == pmm_free_page(a4, page)
           user == vmm_destroy_address_space(a5, e)
           b1 == vmm_unmap_page_in(user, K, LOW)
           low == vmm_map_page_in(b1, K, LOW, NULL)
           b2 == low.mem
           b3 == vmm_unmap_page_in(b2, K, LOW)
           D2 == D \cup ({e} \ {NULL})
           G2 == G \cup ({page} \ {NULL})
<1>0. b3 = VmmtestMemory(m)
    BY DEF VmmtestMemory, vmm_map_page
<1>1. CODE \in VirtualPages /\ LOW \in VirtualPages /\ NULL \notin Pages /\ K \in Roots(D)
      /\ K # NULL /\ NULL \notin D /\ NULL \notin G /\ NULL \notin Roots(D)
    BY PagesNat, MemTypes DEF VirtualPages, Roots
<1>2. FreshSpace(m, space, D, G)
    BY SpaceCreated
<1>3. /\ e = NULL \/ (e \in Pages /\ e \notin Roots(D))
      /\ MemOK(a, D2, G) /\ a.stacks = m.stacks /\ SeeTheSame(m, a, Roots(D))
  <2>1. CASE e = NULL /\ a = m
    <3>1. D2 = D
      BY <2>1
    <3> QED BY <2>1, <3>1 DEF SeeTheSame
  <2>2. CASE e \in Pages \ m.used /\ MemOK(a, D \cup {e}, G) /\ a.stacks = m.stacks
             /\ SeeTheSame(m, a, Roots(D))
    <3>1. D \cup {e} = D2
      BY <1>1, <2>2
    <3>2. e \notin Roots(D)
      BY <2>2, PagesNat DEF MemOK, Roots
    <3> QED BY <2>2, <3>1, <3>2
  <2> QED BY <1>2, <2>1, <2>2 DEF FreshSpace
<1>4. page = NULL \/ page \in Pages \ a.used
    BY <1>3, MemTypes, FindsFreePage
<1>5. e \in Roots(D2) \cup {NULL} /\ page \in Pages \cup {NULL} /\ Roots(D) \subseteq Roots(D2) \ {e}
      /\ page \in G2 \cup {NULL}
    BY <1>1, <1>3, <1>4 DEF Roots
<1> HIDE DEF space, e, a, page, D2
\* The stages in the scratch address space.
<1> DEFINE Stage(n, H) == MemOK(n, D2, H) /\ n.stacks = m.stacks /\ SeeTheSame(m, n, Roots(D))
<1>6. Stage(a1, G2)
  <2>1. Quiet(a, a1, D2, G2)
    BY <1>3, <1>4, PageSetUsed
  <2> HIDE DEF a1, G2
  <2> QED BY <1>3, <1>5, <2>1 DEF Quiet, SeeTheSame
<1> HIDE DEF a1, G2
<1>7. Stage(a2, G2)
  <2>1. Mapped(a1, first, D2, G2, e, CODE, page)
    BY <1>1, <1>5, <1>6, PageMapped
  <2> HIDE DEF first
  <2> QED BY <1>5, <1>6, <2>1 DEF Mapped, SeeTheSame
<1> HIDE DEF a2
<1>8. Stage(a3, G2)
  <2>1. Mapped(a2, second, D2, G2, e, CODE, page)
    BY <1>1, <1>5, <1>7, PageMapped
  <2> HIDE DEF second
  <2> QED BY <1>5, <1>7, <2>1 DEF Mapped, SeeTheSame
<1> HIDE DEF a3
<1>9. Stage(a4, G2)
  <2>1. Unmapped(a3, a4, D2, G2, e, CODE)
    BY <1>1, <1>5, <1>8, PageUnmapped
  <2> HIDE DEF a4
  <2> QED BY <1>5, <1>8, <2>1 DEF Unmapped, SeeTheSame
<1> HIDE DEF a4
<1>10. Stage(a5, G)
  <2>1. Quiet(a4, a5, D2, G2 \ {page})
    BY <1>5, <1>9, PageFreed
  <2>2. G2 \ {page} = G
    BY <1>1, <1>3, <1>4 DEF G2, MemOK
  <2> HIDE DEF a5
  <2> QED BY <1>5, <1>9, <2>1, <2>2 DEF Quiet, SeeTheSame
<1> HIDE DEF a5
<1>11. Quiet(m, user, D, G)
  <2>1. {e} \subseteq D2 \cup {NULL, kernel_page_directory}
    BY <1>5 DEF Roots
  <2>2. Quiet(a5, user, D2 \ {e}, G)
    <3> DEFINE S == {e}
    <3>1. S \subseteq D2 \cup {NULL, kernel_page_directory} /\ user = DestroySpaces(a5, S)
      BY <2>1 DEF vmm_destroy_address_space
    <3> HIDE DEF S, user
    <3>2. Quiet(a5, user, D2 \ S, G)
      BY <1>10, <3>1, SpacesDestroyed
    <3> QED BY <3>2 DEF S
  <2>3. D2 \ {e} = D
    BY <1>1, <1>3 DEF D2, Roots
  <2> HIDE DEF user
  <2> QED BY <1>10, <2>2, <2>3 DEF Quiet, SeeTheSame
<1> HIDE DEF user
\* The page at LOW in the kernel's directory.
<1>12. Sees(user, K) = NoMappings
    BY <1>1, <1>11 DEF Quiet, SeeTheSame
<1>13. With(NoMappings, LOW, ABSENT) = NoMappings
       /\ With(With(NoMappings, LOW, NULL), LOW, ABSENT) = NoMappings
    BY <1>1 DEF With, NoMappings
<1>14. Quiet(m, b1, D, G) /\ Sees(b1, K) = NoMappings
  <2>1. Unmapped(user, b1, D, G, K, LOW)
    BY <1>1, <1>11, PageUnmapped DEF Quiet
  <2> HIDE DEF b1
  <2> QED BY <1>1, <1>11, <1>12, <1>13, <2>1 DEF Unmapped, Quiet, SeeTheSame
<1> HIDE DEF b1
<1>15. /\ MemOK(b2, D, G) /\ b2.stacks = m.stacks /\ SeeTheSame(m, b2, Roots(D) \ {K})
       /\ Sees(b2, K) \in {NoMappings, With(NoMappings, LOW, NULL)}
  <2>1. Mapped(b1, low, D, G, K, LOW, NULL)
    BY <1>1, <1>14, PageMapped DEF Quiet
  <2> HIDE DEF low
  <2> QED BY <1>1, <1>14, <2>1 DEF Mapped, Quiet, SeeTheSame
<1> HIDE DEF b2
<1>16. Quiet(m, b3, D, G)
  <2>1. Unmapped(b2, b3, D, G, K, LOW)
    BY <1>1, <1>15, PageUnmapped
  <2> HIDE DEF b3
  <2> QED BY <1>1, <1>13, <1>15, <2>1 DEF Unmapped, Quiet, SeeTheSame
<1> QED BY <1>0, <1>16

-----------------------------------------------------------------------------
(***************************************************************************)
(* Who owns the memory: t the tasks, ps the processes, m the memory and X   *)
(* the directories nobody owns yet, at any point of a step.                 *)
(***************************************************************************)
Spaces(ps) == {ps[i].address_space : i \in LiveIn(ps)}
Dirs(t, ps) ==
    (Spaces(ps) \cup {t[k].address_space : k \in Used(t)}) \ {NULL, kernel_page_directory}
Progs(ps) == (UNION {{ps[i].pages[v] : v \in UserPages} : i \in LiveIn(ps)}) \ {NULL}

\* Task 0 has the kernel's directory, every task has one, and no two have the same
\* but the kernel's.
TasksHold(t) ==
    /\ 0 \in Used(t) /\ t[0].address_space = kernel_page_directory
    /\ \A k \in Used(t) : t[k].address_space # NULL
    /\ \A k, l \in Used(t) : SharedSpace(t, k, l) => k = l

\* A process has a directory until it exits and its pages while it runs, and no
\* two have the same.
RecordsHold(ps) ==
    /\ \A i \in LiveIn(ps) :
          ps[i].state = USER_PROCESS_EXITED <=> ps[i].address_space = NULL
    /\ \A i, j \in LiveIn(ps) :
          ps[i].address_space # NULL /\ ps[i].address_space = ps[j].address_space => i = j
    /\ \A i \in LiveIn(ps) : \A v \in UserPages :
          ps[i].state # USER_PROCESS_RUNNING <=> ps[i].pages[v] = NULL
    /\ \A i, j \in LiveIn(ps) : \A v, w \in UserPages :
          ps[i].pages[v] # NULL /\ ps[i].pages[v] = ps[j].pages[w] => i = j /\ v = w

\* The thread of a created process has not adopted its directory, nor has another.
NotAdopted(t, ps) ==
    \A i \in LiveIn(ps) : ps[i].state = USER_PROCESS_CREATED =>
       \A k \in Used(t) :
          /\ t[k].address_space # ps[i].address_space
          /\ t[k].id = ps[i].task_id => t[k].address_space = kernel_page_directory

\* A running process's directory maps its program, and no other maps anything.
Contents(m, ps, D) ==
    /\ \A i \in LiveIn(ps) : ps[i].state = USER_PROCESS_RUNNING =>
          Sees(m, ps[i].address_space) = Image(ps[i])
    /\ \A d \in Roots(D) :
          (\A i \in LiveIn(ps) : ps[i].state = USER_PROCESS_RUNNING => ps[i].address_space # d)
          => Sees(m, d) = NoMappings

OwnersOK(t, ps) == TasksHold(t) /\ RecordsHold(ps) /\ NotAdopted(t, ps)

OwnOK(t, ps, m, X) ==
    /\ OwnersOK(t, ps)
    /\ X \cap Dirs(t, ps) = {}
    /\ MemOK(m, Dirs(t, ps) \cup X, Progs(ps))
    /\ StacksOK(t, m)
    /\ Contents(m, ps, Dirs(t, ps) \cup X)

\* A state or a stack pointer changed, and no task came or went.
SameHolders(t, s) ==
    \A k \in Slots :
       /\ s[k].state # TASK_UNUSED <=> t[k].state # TASK_UNUSED
       /\ s[k].address_space = t[k].address_space
       /\ s[k].stack = t[k].stack /\ s[k].id = t[k].id

\* What tasks own does not depend on their states.
LEMMA HoldersKept ==
    ASSUME NEW t, NEW s, NEW ps, NEW m, NEW X, OwnOK(t, ps, m, X), SameHolders(t, s)
    PROVE  OwnOK(s, ps, m, X)
<1>1. Used(s) = Used(t) /\ 0 \in Slots /\ Used(t) \subseteq Slots
    BY SlotsNat DEF Used, SameHolders
<1>2. \A k \in Used(t) : /\ s[k].address_space = t[k].address_space
                         /\ s[k].stack = t[k].stack /\ s[k].id = t[k].id
    BY DEF Used, SameHolders
<1>3. {s[k].address_space : k \in Used(s)} = {t[k].address_space : k \in Used(t)}
    BY <1>1, <1>2
<1>4. Dirs(s, ps) = Dirs(t, ps)
    BY <1>3 DEF Dirs
<1>5. TasksHold(s)
    BY <1>1, <1>2 DEF OwnOK, OwnersOK, TasksHold, SharedSpace
<1>6. NotAdopted(s, ps)
    BY <1>1, <1>2 DEF OwnOK, OwnersOK, NotAdopted
<1>7. StacksOK(s, m)
  <2>1. StacksOK(t, m) /\ s[0].stack = t[0].stack
    BY <1>1 DEF OwnOK, SameHolders
  <2> QED BY <1>1, <1>2, <2>1 DEF StacksOK
<1> QED BY <1>4, <1>5, <1>6, <1>7 DEF OwnOK, OwnersOK

\* Directories as the tables name them.
LEMMA DirsOf ==
    ASSUME NEW t, NEW ps, NEW d
    PROVE  d \in Dirs(t, ps) <=>
              /\ d # NULL /\ d # kernel_page_directory
              /\ \/ \E i \in LiveIn(ps) : ps[i].address_space = d
                 \/ \E k \in Used(t) : t[k].address_space = d
BY DEF Dirs, Spaces

\* A record's directory is never the kernel's.
LEMMA RecordSpace ==
    ASSUME NEW r \in UserProcess
    PROVE  /\ r.address_space \in Pages \cup {NULL} /\ r.address_space # kernel_page_directory
           /\ r.state \in {USER_PROCESS_FREE, USER_PROCESS_CREATED, USER_PROCESS_RUNNING,
                           USER_PROCESS_EXITED}
           /\ r.pages \in [UserPages -> Pages \cup {NULL}]
<1>1. /\ r.address_space \in Pages \cup {NULL}
      /\ r.state \in {USER_PROCESS_FREE, USER_PROCESS_CREATED, USER_PROCESS_RUNNING,
                      USER_PROCESS_EXITED}
      /\ r.pages \in [UserPages -> Pages \cup {NULL}]
    BY DEF UserProcess
<1>2. kernel_page_directory \notin Pages \cup {NULL}
    BY MemoryAssumption DEF kernel_page_directory, Pages, NULL
<1> QED BY <1>1, <1>2

\* z is t without the zombies in dead.
Reaps(t, z, dead) ==
    /\ dead \subseteq Used(t) /\ \A k \in dead : t[k].state = TASK_ZOMBIE
    /\ Used(z) = Used(t) \ dead /\ \A k \in Used(z) : z[k] = t[k]

\* A zombie that is reaped leaves its directory to nobody: created processes keep
\* theirs to themselves, and those that run have a living thread.
LEMMA ReapedDirs ==
    ASSUME NEW t, NEW ps, NEW p, NEW n, NEW q, TablesOK(t, ps, p, n, q), OwnersOK(t, ps),
           NEW z, NEW dead, Reaps(t, z, dead)
    PROVE  Dirs(z, ps) = Dirs(t, ps) \ {t[k].address_space : k \in dead}
<1> DEFINE S == {t[k].address_space : k \in dead}
<1>0. /\ dead \subseteq Used(t) /\ \A k \in dead : t[k].state = TASK_ZOMBIE
      /\ Used(z) = Used(t) \ dead /\ \A k \in Used(z) : z[k] = t[k]
    BY DEF Reaps
<1>1. ASSUME NEW k \in dead, NEW i \in LiveIn(ps), ps[i].address_space # NULL
      PROVE  ps[i].address_space # t[k].address_space
  <2>1. /\ ps[i] \in UserProcess /\ ps[i].state # USER_PROCESS_FREE
        /\ ps[i].state # USER_PROCESS_EXITED
    BY <1>1 DEF LiveIn, TablesOK, RecordsOK, OwnersOK, RecordsHold
  <2>2. ps[i].state \in {USER_PROCESS_CREATED, USER_PROCESS_RUNNING}
        /\ ps[i].address_space # kernel_page_directory
    BY <2>1, RecordSpace
  <2>3. CASE ps[i].state = USER_PROCESS_CREATED
    BY <1>0, <2>3 DEF OwnersOK, NotAdopted
  <2>4. CASE ps[i].state = USER_PROCESS_RUNNING
    <3>1. PICK l \in Slots : Runs(t, p, l, ps[i])
      BY <2>1 DEF TablesOK, MatchOK
    <3>2. l \in Used(t) /\ l # k /\ t[l].address_space = ps[i].address_space
      BY <1>0, <2>4, <3>1
         DEF Runs, Alive, Used, TASK_UNUSED, TASK_RUNNING, TASK_RUNNABLE, TASK_ZOMBIE
    <3> QED BY <1>0, <2>2, <3>2 DEF OwnersOK, TasksHold, SharedSpace
  <2> QED BY <2>2, <2>3, <2>4
<1>2. ASSUME NEW k \in dead, NEW l \in Used(z), t[l].address_space # kernel_page_directory
      PROVE  t[l].address_space # t[k].address_space
    BY <1>0, <1>2 DEF OwnersOK, TasksHold, SharedSpace
<1>3. ASSUME NEW d PROVE d \in Dirs(z, ps) <=> d \in Dirs(t, ps) \ S
  <2>1. d \in S <=> \E k \in dead : t[k].address_space = d
    OBVIOUS
  <2>2. CASE d = NULL \/ d = kernel_page_directory
    BY <2>2, DirsOf
  <2>3. CASE d # NULL /\ d # kernel_page_directory
    <3>1. d \in Dirs(z, ps) => d \in Dirs(t, ps) /\ d \notin S
      BY <1>0, <1>1, <1>2, <2>1, <2>3, DirsOf
    <3>2. d \in Dirs(t, ps) /\ d \notin S => d \in Dirs(z, ps)
      BY <1>0, <2>1, <2>3, DirsOf
    <3> QED BY <3>1, <3>2
  <2> QED BY <2>2, <2>3
<1> QED BY <1>3

\* Reaping keeps the memory accounted for.
LEMMA ReapOwned ==
    ASSUME NEW t, NEW ps, NEW p, NEW n, NEW q, NEW m, NEW X, TablesOK(t, ps, p, n, q),
           OwnOK(t, ps, m, X), NEW z, z = reap_zombies(t, m)
    PROVE  OwnOK(z.tasks, ps, z.mem, X)
<1> DEFINE dead == Reapable(t)
           s == z.tasks
           S == {t[i].address_space : i \in dead}
           B == {t[i].stack : i \in dead}
           md == DestroySpaces(m, S)
           D == Dirs(t, ps) \cup X
           G == Progs(ps)
           E == Dirs(s, ps) \cup X
<1>1. z.mem = kfree(md, B)
    BY DEF reap_zombies, task_cleanup
<1>2. /\ t \in [Slots -> Task] /\ s \in [Slots -> Task]
      /\ \A i \in Slots : s[i] = IF i \in dead THEN UnusedTask ELSE t[i]
    BY Reaped DEF TablesOK, ThreadsOK
<1>3. /\ dead \subseteq Used(t) \ {0} /\ \A k \in dead : t[k].state = TASK_ZOMBIE
    BY DEF Reapable, Used, TASK_ZOMBIE, TASK_UNUSED
<1> HIDE DEF dead, s
<1>4. Used(s) = Used(t) \ dead /\ (\A k \in Used(s) : s[k] = t[k]) /\ Used(t) \subseteq Slots
    BY <1>2, <1>3, UnusedIsTask DEF Used
<1>5. OwnersOK(t, ps) /\ X \cap Dirs(t, ps) = {} /\ MemOK(m, D, G) /\ StacksOK(t, m)
      /\ Contents(m, ps, D)
    BY DEF OwnOK
<1>6. Dirs(s, ps) = Dirs(t, ps) \ S
  <2>1. Reaps(t, s, dead)
    BY <1>3, <1>4 DEF Reaps
  <2> QED BY <1>5, <2>1, ReapedDirs
<1>7. S \subseteq Dirs(t, ps) \cup {kernel_page_directory}
  <2>1. \A k \in dead : t[k].address_space # NULL /\ k \in Used(t)
    BY <1>3, <1>5 DEF OwnersOK, TasksHold
  <2> QED BY <2>1, DirsOf
<1>8. D \subseteq Pages
    BY <1>5, MemTypes
<1>9. D \ S = E
    <2>1. kernel_page_directory \notin X
      BY <1>8, MemoryAssumption DEF Pages, kernel_page_directory
    <2> QED BY <1>5, <1>6, <1>7, <2>1
<1> HIDE DEF D, E, S, B, G, md
<1>10. Quiet(m, md, D \ S, G)
  <2>1. S \subseteq D \cup {NULL, kernel_page_directory}
    BY <1>7 DEF D
  <2> QED BY <1>5, <2>1, SpacesDestroyed DEF md
<1>11. MemOK(md, E, G) /\ md.stacks = m.stacks /\ SeeTheSame(m, md, Roots(E))
    BY <1>9, <1>10 DEF Quiet
<1>12. MemOK(z.mem, E, G) /\ SeeTheSame(md, z.mem, Roots(E)) /\ z.mem.stacks = md.stacks \ B
    BY <1>1, <1>11, BlocksFreed
<1>13. SeeTheSame(m, z.mem, Roots(E)) /\ z.mem.stacks = m.stacks \ B
    BY <1>11, <1>12 DEF SeeTheSame
<1>14. OwnersOK(s, ps)
  <2>1. TasksHold(s)
    BY <1>3, <1>4, <1>5 DEF OwnersOK, TasksHold, SharedSpace
  <2>2. NotAdopted(s, ps)
    BY <1>4, <1>5 DEF OwnersOK, NotAdopted
  <2> QED BY <1>5, <2>1, <2>2 DEF OwnersOK
<1>15. StacksOK(s, z.mem)
  <2>1. s[0] = t[0] /\ 0 \in Used(s)
    BY <1>3, <1>4, <1>5 DEF OwnersOK, TasksHold
  <2>2. \A i \in Used(s) \ {0} : s[i].stack \in z.mem.stacks
    BY <1>3, <1>4, <1>5, <1>13 DEF StacksOK, B
  <2>3. \A i, j \in Used(s) \ {0} : s[i].stack = s[j].stack => i = j
    BY <1>4, <1>5 DEF StacksOK
  <2>4. \A b \in z.mem.stacks : \E i \in Used(s) \ {0} : s[i].stack = b
    BY <1>3, <1>4, <1>5, <1>13 DEF StacksOK, B
  <2> QED BY <1>5, <2>1, <2>2, <2>3, <2>4 DEF StacksOK
<1>16. Contents(z.mem, ps, E)
  <2>1. \A i \in LiveIn(ps) : ps[i].state = USER_PROCESS_RUNNING => ps[i].address_space \in E
    <3> SUFFICES ASSUME NEW i \in LiveIn(ps), ps[i].state = USER_PROCESS_RUNNING
                 PROVE  ps[i].address_space \in E
      OBVIOUS
    <3>1. ps[i] \in UserProcess /\ ps[i].address_space # NULL
      BY <1>5 DEF LiveIn, TablesOK, RecordsOK, OwnersOK, RecordsHold,
                  USER_PROCESS_RUNNING, USER_PROCESS_EXITED
    <3>2. ps[i].address_space # kernel_page_directory
      BY <3>1, RecordSpace
    <3> QED BY <3>1, <3>2, DirsOf DEF E
  <2>2. E \subseteq D
    BY <1>9
  <2>3. \A d \in Roots(E) : d \in Roots(D) /\ Sees(z.mem, d) = Sees(m, d)
    BY <1>13, <2>2 DEF Roots, SeeTheSame
  <2>4. \A d \in E : d \in Roots(E)
    BY DEF Roots
  <2> QED BY <1>5, <2>1, <2>3, <2>4 DEF Contents
<1> QED BY <1>5, <1>6, <1>12, <1>14, <1>15, <1>16 DEF OwnOK, E, G, s

\* Every runnable task has a stack pointer to switch to.
Ready(t) ==
    \A i \in Slots : t[i].state = TASK_RUNNABLE => t[i].stack_pointer # "none"

\* Task c of t runs in its directory, and interrupts land on its stack.
Loaded(t, c, directory, stack) ==
    /\ directory = t[c].address_space
    /\ c # 0 => stack = t[c].stack
    /\ stack \in Blocks \cup {NULL}

\* The task a step began with keeps what it runs on.
Stays(t, s) ==
    /\ current_task \in Used(s)
    /\ s[current_task].stack = t[current_task].stack
    /\ s[current_task].address_space = t[current_task].address_space

\* The memory is owned as the tables after kthread_create say; a new thread runs in
\* the kernel's directory.
ThreadMade(r, ps, X) ==
    /\ OwnOK(r.tasks, ps, r.mem, X)
    /\ Ready(r.tasks)
    /\ r.ret # -1 => r.slot \in Used(r.tasks)
                     /\ r.tasks[r.slot].address_space = kernel_page_directory

\* A running process's directory is one of those in use.
LEMMA RunningSpace ==
    ASSUME NEW t, NEW ps \in [Records -> UserProcess], OwnersOK(t, ps)
    PROVE  \A i \in LiveIn(ps) : ps[i].state \in {USER_PROCESS_CREATED, USER_PROCESS_RUNNING} =>
              ps[i].address_space \in Dirs(t, ps) /\ ps[i].address_space \in Pages
<1> SUFFICES ASSUME NEW i \in LiveIn(ps),
                    ps[i].state \in {USER_PROCESS_CREATED, USER_PROCESS_RUNNING}
             PROVE  ps[i].address_space \in Dirs(t, ps) /\ ps[i].address_space \in Pages
    OBVIOUS
<1>1. ps[i] \in UserProcess /\ ps[i].address_space # NULL
    BY DEF LiveIn, OwnersOK, RecordsHold, USER_PROCESS_CREATED, USER_PROCESS_RUNNING,
           USER_PROCESS_EXITED
<1>2. ps[i].address_space # kernel_page_directory /\ ps[i].address_space \in Pages \cup {NULL}
    BY <1>1, RecordSpace
<1> QED BY <1>1, <1>2, DirsOf

\* Owners see a change of memory only in what their directories map.
LEMMA OnlyPages ==
    ASSUME NEW t, NEW ps \in [Records -> UserProcess], NEW m, NEW X, OwnOK(t, ps, m, X),
           NEW n, MemOK(n, Dirs(t, ps) \cup X, Progs(ps)), n.stacks = m.stacks,
           SeeTheSame(m, n, Roots(Dirs(t, ps) \cup X))
    PROVE  OwnOK(t, ps, n, X)
<1> DEFINE D == Dirs(t, ps) \cup X
<1>1. OwnersOK(t, ps) /\ X \cap Dirs(t, ps) = {} /\ StacksOK(t, m) /\ Contents(m, ps, D)
    BY DEF OwnOK
<1>2. StacksOK(t, n)
    BY <1>1 DEF StacksOK
<1>3. \A i \in LiveIn(ps) : ps[i].state = USER_PROCESS_RUNNING => ps[i].address_space \in Roots(D)
    BY <1>1, RunningSpace DEF Roots
<1> HIDE DEF D
<1>4. Contents(n, ps, D)
    BY <1>1, <1>3 DEF Contents, SeeTheSame, D
<1> QED BY <1>1, <1>2, <1>4 DEF OwnOK, D

\* A task in the kernel's directory brings none of its own.
LEMMA KernelTaskDirs ==
    ASSUME NEW t, NEW s, NEW ps, NEW slot, Used(s) = Used(t) \cup {slot},
           \A i \in Used(t) : s[i] = t[i], s[slot].address_space = kernel_page_directory
    PROVE  Dirs(s, ps) = Dirs(t, ps)
<1>1. ASSUME NEW d, d # kernel_page_directory
      PROVE  (\E k \in Used(s) : s[k].address_space = d) <=>
                (\E k \in Used(t) : t[k].address_space = d)
    BY <1>1
<1>2. ASSUME NEW d PROVE d \in Dirs(s, ps) <=> d \in Dirs(t, ps)
    BY <1>1, DirsOf
<1> QED BY <1>2

\* The task in slot is new.
Added(s, ps, m, X, slot) ==
    /\ OwnOK(s, ps, m, X) /\ Ready(s) /\ slot \in Used(s)
    /\ s[slot].address_space = kernel_page_directory

\* A task added in an unused slot, on a stack of its own.
LEMMA TaskAdded ==
    ASSUME NEW t, NEW ps, NEW m, NEW n, NEW X, OwnOK(t, ps, m, X), Ready(t),
           ps \in [Records -> UserProcess], NEW slot \in Slots \ {0}, t \in [Slots -> Task],
           t[slot].state = TASK_UNUSED, Allocated(m, n, Dirs(t, ps) \cup X, Progs(ps)),
           n.ret # NULL, NEW e, NEW s, s = [t EXCEPT ![slot] = NewTask(n.ret, e)]
    PROVE  Added(s, ps, n.mem, X, slot)
<1> DEFINE new == NewTask(n.ret, e)
           D == Dirs(t, ps) \cup X
           G == Progs(ps)
<1>1. /\ new.state = TASK_RUNNABLE /\ new.address_space = kernel_page_directory
      /\ new.stack = n.ret /\ new.stack_pointer = "trampoline"
    BY DEF NewTask
<1> HIDE DEF new
<1>2. s[slot] = new /\ \A i \in Slots \ {slot} : s[i] = t[i]
    BY DEF new
<1>3. /\ Used(s) = Used(t) \cup {slot} /\ slot \notin Used(t) /\ Used(t) \subseteq Slots
      /\ \A i \in Used(t) : s[i] = t[i]
    BY <1>1, <1>2 DEF Used, TASK_UNUSED, TASK_RUNNABLE
<1>4. OwnersOK(t, ps) /\ X \cap Dirs(t, ps) = {} /\ MemOK(m, D, G) /\ StacksOK(t, m)
      /\ Contents(m, ps, D)
    BY DEF OwnOK
<1>5. /\ MemOK(n.mem, D, G) /\ SeeTheSame(m, n.mem, Roots(D))
      /\ n.ret \in Blocks \ m.stacks /\ n.mem.stacks = m.stacks \cup {n.ret}
    BY DEF Allocated
<1>6. Dirs(s, ps) = Dirs(t, ps)
  <2>1. s[slot].address_space = kernel_page_directory
    BY <1>1, <1>2
  <2> QED BY <1>3, <2>1, KernelTaskDirs
<1>7. \A i \in LiveIn(ps) : ps[i].address_space # kernel_page_directory
    BY RecordSpace DEF LiveIn
<1>8. OwnersOK(s, ps)
  <2>1. TasksHold(s)
    <3>1. \A k, l \in Used(s) : SharedSpace(s, k, l) => k # slot /\ l # slot
      BY <1>1, <1>2 DEF SharedSpace
    <3>2. \A k, l \in Used(t) : SharedSpace(s, k, l) => k = l
      BY <1>3, <1>4 DEF OwnersOK, TasksHold, SharedSpace
    <3>3. kernel_page_directory # NULL
      BY MemoryAssumption DEF kernel_page_directory, NULL
    <3> QED BY <1>1, <1>2, <1>3, <1>4, <3>1, <3>2, <3>3 DEF OwnersOK, TasksHold
  <2>2. NotAdopted(s, ps)
    BY <1>1, <1>2, <1>3, <1>4, <1>7 DEF OwnersOK, NotAdopted
  <2> QED BY <1>4, <2>1, <2>2 DEF OwnersOK
<1>9. StacksOK(s, n.mem)
  <2>1. 0 \in Used(t)
    BY <1>4 DEF OwnersOK, TasksHold
  <2>2. \A i \in Used(s) \ {0} : s[i].stack \in n.mem.stacks
    BY <1>1, <1>2, <1>3, <1>4, <1>5 DEF StacksOK
  <2>3. \A i \in Used(t) \ {0} : t[i].stack # n.ret
    BY <1>4, <1>5 DEF StacksOK
  <2>4. \A i, j \in Used(s) \ {0} : s[i].stack = s[j].stack => i = j
    <3>1. \A i, j \in Used(t) \ {0} : s[i].stack = s[j].stack => i = j
      BY <1>3, <1>4 DEF StacksOK
    <3>2. s[slot].stack = n.ret /\ \A i \in Used(t) \ {0} : s[i].stack # n.ret
      BY <1>1, <1>2, <1>3, <2>3
    <3> QED BY <1>3, <3>1, <3>2
  <2>5. \A b \in n.mem.stacks : \E i \in Used(s) \ {0} : s[i].stack = b
    <3>1. \A b \in m.stacks : \E i \in Used(t) \ {0} : t[i].stack = b
      BY <1>4 DEF StacksOK
    <3>2. \A b \in m.stacks : \E i \in Used(s) \ {0} : s[i].stack = b
      BY <1>3, <3>1
    <3>3. slot \in Used(s) \ {0} /\ s[slot].stack = n.ret
      BY <1>1, <1>2, <1>3
    <3> QED BY <1>5, <3>2, <3>3
  <2> QED BY <1>3, <1>4, <2>1, <2>2, <2>4, <2>5 DEF StacksOK
<1>10. Contents(n.mem, ps, D)
  <2>1. \A i \in LiveIn(ps) : ps[i].state = USER_PROCESS_RUNNING => ps[i].address_space \in Roots(D)
    BY <1>4, RunningSpace DEF Roots
  <2> HIDE DEF D
  <2> QED BY <1>4, <1>5, <2>1 DEF Contents, SeeTheSame
<1>11. Ready(s)
    BY <1>1, <1>2 DEF Ready
<1> QED BY <1>1, <1>2, <1>3, <1>4, <1>5, <1>6, <1>8, <1>9, <1>10, <1>11 DEF OwnOK, Added

\* kthread_create keeps the memory accounted for, however it ends.
LEMMA ThreadOwned ==
    ASSUME NEW t, NEW ps, NEW p, NEW n, NEW q, NEW m, NEW X, TablesOK(t, ps, p, n, q),
           OwnOK(t, ps, m, X), Ready(t), next_task_id \in Nat,
           NEW e, NEW r \in kthread_create(t, m, e)
    PROVE  ThreadMade(r, ps, X)
<1> DEFINE y == reap_zombies(t, m)
           z == y.tasks
           unused == {i \in Slots \ {0} : z[i].state = TASK_UNUSED}
           slot == Lowest(unused)
           Failed(mm) == [tasks |-> z, mem |-> mm, slot |-> 0, ret |-> -1]
           Made(k) == [tasks |-> [z EXCEPT ![slot] = NewTask(k.ret, e)],
                       mem |-> k.mem, slot |-> slot, ret |-> next_task_id]
           Outcome(k) == IF k.ret = NULL THEN Failed(k.mem) ELSE Made(k)
           D == Dirs(z, ps) \cup X
           G == Progs(ps)
<1>1. OwnOK(z, ps, y.mem, X)
    BY ReapOwned
<1>2. /\ z \in [Slots -> Task] /\ ps \in [Records -> UserProcess]
      /\ \A i \in Slots : z[i] = IF i \in Reapable(t) THEN UnusedTask ELSE t[i]
    BY Reaped DEF TablesOK, ThreadsOK, RecordsOK
<1>3. Ready(z)
    BY <1>2, UnusedIsTask DEF Ready, TASK_UNUSED, TASK_RUNNABLE
<1>4. \/ r = Failed(y.mem)
      \/ \E k \in kmalloc(y.mem) : k.ret = NULL /\ r = Failed(k.mem)
      \/ unused # {} /\ \E k \in kmalloc(y.mem) : k.ret # NULL /\ r = Made(k)
  <2>1. CASE unused = {}
    BY <2>1, Zenon DEF kthread_create
  <2>2. CASE unused # {}
    <3>1. r \in {Outcome(k) : k \in kmalloc(y.mem)}
      BY <2>2, Zenon DEF kthread_create
    <3>2. PICK k \in kmalloc(y.mem) : r = Outcome(k)
      BY <3>1
    <3> QED BY <2>2, <3>2, Zenon
  <2> QED BY <2>1, <2>2
<1> HIDE DEF y, z
<1>5. MemOK(y.mem, D, G)
    BY <1>1 DEF OwnOK
<1>6. CASE r = Failed(y.mem)
  <2>1. r.tasks = z /\ r.mem = y.mem /\ r.ret = -1
    BY <1>6
  <2> QED BY <1>1, <1>3, <2>1 DEF ThreadMade
<1>7. CASE \E k \in kmalloc(y.mem) : k.ret = NULL /\ r = Failed(k.mem)
  <2>1. PICK k \in kmalloc(y.mem) : k.ret = NULL /\ r = Failed(k.mem)
    BY <1>7
  <2>2. r.tasks = z /\ r.mem = k.mem /\ r.ret = -1
    BY <2>1
  <2>3. Allocated(y.mem, k, D, G)
    BY <1>5, BlockTaken
  <2>4. MemOK(k.mem, D, G) /\ SeeTheSame(y.mem, k.mem, Roots(D)) /\ k.mem.stacks = y.mem.stacks
    BY <2>1, <2>3, PagesNat DEF Allocated, Blocks, NULL
  <2>5. OwnOK(z, ps, k.mem, X)
    BY <1>1, <1>2, <2>4, OnlyPages
  <2> QED BY <1>3, <2>2, <2>5 DEF ThreadMade
<1>8. CASE unused # {} /\ \E k \in kmalloc(y.mem) : k.ret # NULL /\ r = Made(k)
  <2>1. slot \in Slots \ {0} /\ z[slot].state = TASK_UNUSED
    BY <1>8, LowestIn, SlotsNat
  <2> HIDE DEF slot, unused
  <2>2. PICK k \in kmalloc(y.mem) : k.ret # NULL /\ r = Made(k)
    BY <1>8
  <2> DEFINE s == [z EXCEPT ![slot] = NewTask(k.ret, e)]
  <2>3. r.tasks = s /\ r.mem = k.mem /\ r.slot = slot
    BY <2>2
  <2>4. Allocated(y.mem, k, D, G)
    BY <1>5, BlockTaken
  <2>5. k.ret # NULL /\ s = [z EXCEPT ![slot] = NewTask(k.ret, e)]
    BY <2>2
  <2> HIDE DEF s
  <2>6. Added(s, ps, k.mem, X, slot)
    BY <1>1, <1>2, <1>3, <2>1, <2>4, <2>5, TaskAdded
  <2> QED BY <2>3, <2>6 DEF ThreadMade, Added
<1> QED BY <1>4, <1>6, <1>7, <1>8

\* The memory, the registers and the task that gave up the CPU, after a switch.
Switched(t, ps) ==
    /\ OwnOK(tasks', ps, mem', {})
    /\ Ready(tasks')
    /\ Loaded(tasks', current_task', cr3', esp0')
    /\ Stays(t, tasks')

\* Giving up the CPU keeps the memory accounted for and loads the next task's
\* directory and stack.
LEMMA YieldOwned ==
    ASSUME NEW t, NEW ps, NEW p, NEW n, NEW q, NEW m, TablesOK(t, ps, p, n, q), Leaving(t),
           OwnOK(t, ps, m, {}), Ready(t), Loaded(t, current_task, cr3, esp0), sched_yield(t, m)
    PROVE  Switched(t, ps)
<1> DEFINE y == reap_zombies(t, m)
           z == y.tasks
           idx == NextTask(z)
<1>1. OwnOK(z, ps, y.mem, {})
    BY ReapOwned
<1>2. /\ z \in [Slots -> Task]
      /\ \A i \in Slots : z[i] = IF i \in Reapable(t) THEN UnusedTask ELSE t[i]
    BY Reaped DEF TablesOK, ThreadsOK
<1>3. z[current_task] = t[current_task] /\ current_task \in Slots
    BY <1>2 DEF Leaving, Reapable
<1>4. Ready(z)
    BY <1>2, UnusedIsTask DEF Ready, TASK_UNUSED, TASK_RUNNABLE
<1>5. /\ current_task' = idx /\ mem' = y.mem
      /\ \/ idx = current_task /\ tasks' = z /\ UNCHANGED <<cr3, esp0>>
         \/ /\ idx # current_task /\ tasks' = SwitchTo(z, idx)
            /\ cr3' = z[idx].address_space /\ esp0' = KernelStackFor(z[idx])
    BY DEF sched_yield
<1> HIDE DEF y, z
<1>6. idx \in Slots /\ (z[idx].state = TASK_RUNNABLE \/ idx = current_task)
    BY NextTaskRuns DEF Leaving
<1> HIDE DEF idx
<1>7. current_task \in Used(z)
    BY <1>3 DEF Leaving, Used, TASK_UNUSED, TASK_RUNNING, TASK_ZOMBIE
<1>8. CASE idx = current_task /\ tasks' = z /\ UNCHANGED <<cr3, esp0>>
    BY <1>1, <1>3, <1>4, <1>5, <1>7, <1>8 DEF Switched, Loaded, Stays
<1>9. CASE /\ idx # current_task /\ tasks' = SwitchTo(z, idx)
           /\ cr3' = z[idx].address_space /\ esp0' = KernelStackFor(z[idx])
  <2> DEFINE state == IF z[current_task].state = TASK_RUNNING THEN TASK_RUNNABLE
                      ELSE z[current_task].state
             old == [z[current_task] EXCEPT !.state = state, !.stack_pointer = "saved"]
             new == [z[idx] EXCEPT !.state = TASK_RUNNING]
  <2>1. z[current_task] \in Task /\ z[idx] \in Task
    BY <1>2, <1>3, <1>6
  <2>2. tasks' = [z EXCEPT ![current_task] = old, ![idx] = new]
    BY <1>2, <1>9, <2>1 DEF SwitchTo
  <2>3. state # TASK_UNUSED
    BY <1>3 DEF Leaving, TASK_RUNNABLE, TASK_ZOMBIE, TASK_RUNNING, TASK_UNUSED
  <2> HIDE DEF state
  <2>4. /\ old.state = state /\ old.id = z[current_task].id
        /\ old.stack = z[current_task].stack /\ old.stack_pointer = "saved"
        /\ old.address_space = z[current_task].address_space
    BY <2>1 DEF Task
  <2>5. /\ new.state = TASK_RUNNING /\ new.id = z[idx].id
        /\ new.stack = z[idx].stack /\ new.address_space = z[idx].address_space
    BY <2>1 DEF Task
  <2> HIDE DEF old, new
  <2>6. /\ tasks'[current_task] = old /\ tasks'[idx] = new
        /\ \A i \in Slots \ {idx, current_task} : tasks'[i] = z[i]
    BY <1>2, <1>3, <1>6, <1>9, <2>2
  <2> DEFINE s == tasks'
  <2>7. SameHolders(z, s)
    <3>1. z[idx].state # TASK_UNUSED /\ z[current_task].state # TASK_UNUSED
          /\ new.state # TASK_UNUSED
      BY <1>6, <1>7, <1>9, <2>5 DEF Used, TASK_UNUSED, TASK_RUNNABLE, TASK_RUNNING
    <3> QED BY <2>3, <2>4, <2>5, <2>6, <3>1 DEF SameHolders
  <2>8. OwnOK(s, ps, y.mem, {})
    BY <1>1, <2>7, HoldersKept
  <2>9. Ready(s)
    BY <1>4, <2>4, <2>5, <2>6 DEF Ready, TASK_RUNNABLE, TASK_RUNNING
  <2>10. Loaded(s, current_task', cr3', esp0')
    <3>1. idx # 0 => z[idx].stack \in Blocks
      <4> SUFFICES ASSUME idx # 0 PROVE z[idx].stack \in Blocks
        OBVIOUS
      <4>1. idx \in Used(z) \ {0}
        BY <1>6, <1>9 DEF Used, TASK_UNUSED, TASK_RUNNABLE
      <4>2. StacksOK(z, y.mem) /\ y.mem.stacks \subseteq Blocks
        BY <1>1, MemTypes DEF OwnOK
      <4> QED BY <4>1, <4>2 DEF StacksOK
    <3>2. NULL \notin Blocks
      BY DEF Blocks, NULL
    <3>3. idx = 0 => z[idx].stack = NULL
      BY <1>1 DEF OwnOK, StacksOK
    <3>4. esp0' = IF idx = 0 THEN esp0 ELSE z[idx].stack
      BY <1>9, <3>1, <3>2, <3>3 DEF KernelStackFor
    <3>5. s[idx].address_space = z[idx].address_space /\ s[idx].stack = z[idx].stack
      BY <2>5, <2>6
    <3> HIDE DEF s
    <3> QED BY <1>5, <1>9, <3>1, <3>4, <3>5 DEF Loaded
  <2>11. Stays(t, s)
    BY <1>3, <2>3, <2>4, <2>6 DEF Stays, Used
  <2> QED BY <1>5, <2>8, <2>9, <2>10, <2>11 DEF Switched
<1> QED BY <1>5, <1>8, <1>9

\* A thread that ends gives its directory and its stack to the next reaper.
LEMMA EndOwned ==
    ASSUME NEW t \in [Slots -> Task], NEW ps, NEW m, OwnOK(t, ps, m, {}), Ready(t),
           Loaded(t, current_task, cr3, esp0), current_task \in Slots,
           t[current_task].state = TASK_RUNNING,
           NEW s, s = [t EXCEPT ![current_task].state = TASK_ZOMBIE]
    PROVE  /\ OwnOK(s, ps, m, {}) /\ Ready(s) /\ Loaded(s, current_task, cr3, esp0)
           /\ Stays(t, s)
<1> DEFINE dead == [t[current_task] EXCEPT !.state = TASK_ZOMBIE]
<1>1. s = [t EXCEPT ![current_task] = dead]
    OBVIOUS
<1>2. /\ dead.state = TASK_ZOMBIE /\ dead.id = t[current_task].id
      /\ dead.stack = t[current_task].stack
      /\ dead.address_space = t[current_task].address_space
    BY DEF Task
<1> HIDE DEF dead
<1>3. s[current_task] = dead /\ \A l \in Slots \ {current_task} : s[l] = t[l]
    BY <1>1
<1>4. SameHolders(t, s)
    BY <1>2, <1>3 DEF SameHolders, TASK_UNUSED, TASK_RUNNING, TASK_ZOMBIE
<1>5. OwnOK(s, ps, m, {})
    BY <1>4, HoldersKept
<1>6. Ready(s)
    BY <1>2, <1>3 DEF Ready, TASK_RUNNABLE, TASK_ZOMBIE
<1>7. Loaded(s, current_task, cr3, esp0) /\ Stays(t, s)
    BY <1>2, <1>3 DEF Loaded, Stays, Used, TASK_UNUSED, TASK_ZOMBIE
<1> QED BY <1>5, <1>6, <1>7

\* Program pages as the table names them.
LEMMA ProgsOf ==
    ASSUME NEW ps, NEW x
    PROVE  x \in Progs(ps) <=>
              x # NULL /\ \E i \in LiveIn(ps) : \E v \in UserPages : ps[i].pages[v] = x
<1> DEFINE Of(i) == {ps[i].pages[v] : v \in UserPages}
           All == {Of(i) : i \in LiveIn(ps)}
<1>1. \A i : x \in Of(i) <=> \E v \in UserPages : ps[i].pages[v] = x
    OBVIOUS
<1>2. Progs(ps) = (UNION All) \ {NULL}
    BY DEF Progs
<1> HIDE DEF Of
<1>3. x \in UNION All <=> \E i \in LiveIn(ps) : x \in Of(i)
    OBVIOUS
<1> HIDE DEF All
<1> QED BY <1>1, <1>2, <1>3

\* Some exited records were released; the others own what they owned.
Drops(ps, gone) ==
    \A j \in Records :
       \/ /\ gone[j].state = ps[j].state /\ gone[j].task_id = ps[j].task_id
          /\ gone[j].address_space = ps[j].address_space /\ gone[j].pages = ps[j].pages
       \/ ps[j].state = USER_PROCESS_EXITED /\ gone[j].state = USER_PROCESS_FREE

\* An exited record owns nothing.
LEMMA RecordsDropped ==
    ASSUME NEW t, NEW ps, NEW gone, NEW m, NEW X, OwnOK(t, ps, m, X), Drops(ps, gone)
    PROVE  OwnOK(t, gone, m, X)
<1>0. OwnersOK(t, ps) /\ X \cap Dirs(t, ps) = {} /\ MemOK(m, Dirs(t, ps) \cup X, Progs(ps))
      /\ StacksOK(t, m) /\ Contents(m, ps, Dirs(t, ps) \cup X)
    BY DEF OwnOK
<1>1. \A i \in LiveIn(gone) :
         /\ i \in LiveIn(ps) /\ gone[i].state = ps[i].state /\ gone[i].task_id = ps[i].task_id
         /\ gone[i].address_space = ps[i].address_space /\ gone[i].pages = ps[i].pages
    BY DEF Drops, LiveIn
<1>2. \A i \in LiveIn(ps) : i \in LiveIn(gone) \/ ps[i].state = USER_PROCESS_EXITED
    BY DEF Drops, LiveIn
<1>3. \A i \in LiveIn(ps) : i \in LiveIn(gone) \/ ps[i].address_space = NULL
    BY <1>0, <1>2 DEF OwnersOK, RecordsHold
<1>4. \A i \in LiveIn(ps) : i \in LiveIn(gone) \/ \A v \in UserPages : ps[i].pages[v] = NULL
    BY <1>0, <1>2 DEF OwnersOK, RecordsHold, USER_PROCESS_RUNNING, USER_PROCESS_EXITED
<1>5. Dirs(t, gone) = Dirs(t, ps)
  <2>1. ASSUME NEW d, d # NULL
        PROVE  (\E i \in LiveIn(gone) : gone[i].address_space = d) <=>
                  (\E i \in LiveIn(ps) : ps[i].address_space = d)
    BY <1>1, <1>3, <2>1
  <2>2. ASSUME NEW d PROVE d \in Dirs(t, gone) <=> d \in Dirs(t, ps)
    BY <2>1, DirsOf
  <2> QED BY <2>2
<1>6. Progs(gone) = Progs(ps)
  <2>1. ASSUME NEW x, x # NULL
        PROVE  (\E i \in LiveIn(gone) : \E v \in UserPages : gone[i].pages[v] = x) <=>
                  (\E i \in LiveIn(ps) : \E v \in UserPages : ps[i].pages[v] = x)
    BY <1>1, <1>4, <2>1
  <2>2. ASSUME NEW x PROVE x \in Progs(gone) <=> x \in Progs(ps)
    BY <2>1, ProgsOf
  <2> QED BY <2>2
<1>7. RecordsHold(gone)
    BY <1>0, <1>1 DEF OwnersOK, RecordsHold
<1>8. NotAdopted(t, gone)
    BY <1>0, <1>1 DEF OwnersOK, NotAdopted
<1>9. Contents(m, gone, Dirs(t, ps) \cup X)
  <2> DEFINE D == Dirs(t, ps) \cup X
  <2> HIDE DEF D
  <2>1. \A i \in LiveIn(ps) : ps[i].state = USER_PROCESS_RUNNING => i \in LiveIn(gone)
    BY <1>2 DEF USER_PROCESS_RUNNING, USER_PROCESS_EXITED
  <2>2. \A i \in LiveIn(gone) : Image(gone[i]) = Image(ps[i])
    BY <1>1 DEF Image
  <2>3. Contents(m, ps, D)
    BY <1>0 DEF D
  <2>4. Contents(m, gone, D)
    BY <1>1, <2>1, <2>2, <2>3 DEF Contents
  <2> QED BY <2>4 DEF D
<1> QED BY <1>0, <1>5, <1>6, <1>7, <1>8, <1>9 DEF OwnOK, OwnersOK

\* Clearing the image of a running process leaves nothing mapped.
LEMMA ImageCleared ==
    ASSUME NEW r, \A v \in UserPages : r.pages[v] # NULL
    PROVE  Cleared(Image(r), r) = NoMappings
BY DEF Cleared, Image, NoMappings, VirtualPages

\* A process that exits gives its pages back; its thread keeps the directory.
LEMMA ExitOwned ==
    ASSUME NEW t, NEW ps \in [Records -> UserProcess], NEW m, NEW X, OwnOK(t, ps, m, X),
           NEW c \in Records, ps[c].state = USER_PROCESS_RUNNING,
           NEW k \in Used(t), t[k].address_space = ps[c].address_space,
           NEW gone, gone[c] = ExitedRecord(ps[c]), \A j \in Records \ {c} : gone[j] = ps[j]
    PROVE  OwnOK(t, gone, user_process_free_pages(m, ps[c]).mem, X)
<1> DEFINE r == ps[c]
           D == Dirs(t, ps) \cup X
           G == Progs(ps)
           f == user_process_free_pages(m, r)
<1>0. OwnersOK(t, ps) /\ X \cap Dirs(t, ps) = {} /\ MemOK(m, D, G)
      /\ StacksOK(t, m) /\ Contents(m, ps, D)
    BY DEF OwnOK
<1>1. c \in LiveIn(ps) /\ r \in UserProcess /\ LiveIn(ps) \subseteq Records
    BY DEF LiveIn, USER_PROCESS_RUNNING, USER_PROCESS_FREE
<1>2. r.address_space \in Dirs(t, ps)
    BY <1>0, <1>1, RunningSpace
<1>3. \A v \in UserPages : r.pages[v] # NULL
    BY <1>0, <1>1 DEF OwnersOK, RecordsHold
<1>4. PagesOf(r) \subseteq G
    BY <1>1, ProgsOf DEF PagesOf
<1>5. Unloaded(m, f, D, G, r)
  <2>1. r.address_space \in D
    BY <1>2
  <2> HIDE DEF r, D, G, f
  <2> QED BY <1>0, <1>1, <1>4, <2>1, PagesFreed DEF f
<1>6. /\ gone[c].state = USER_PROCESS_EXITED /\ gone[c].address_space = NULL
      /\ \A v \in UserPages : gone[c].pages[v] = NULL
  <2> DEFINE none == [v \in UserPages |-> NULL]
             e == [r EXCEPT !.pages = none, !.state = USER_PROCESS_EXITED, !.address_space = NULL]
  <2>1. gone[c] = e /\ \A v \in UserPages : none[v] = NULL
    BY DEF ExitedRecord
  <2> HIDE DEF none
  <2>2. e.state = USER_PROCESS_EXITED /\ e.address_space = NULL /\ e.pages = none
    BY <1>1 DEF UserProcess
  <2> QED BY <2>1, <2>2
<1> HIDE DEF r, D, G, f
<1>7. LiveIn(gone) = LiveIn(ps) /\ \A j \in LiveIn(ps) \ {c} : gone[j] = ps[j]
    BY <1>1, <1>6 DEF LiveIn, USER_PROCESS_EXITED, USER_PROCESS_FREE
<1>8. Dirs(t, gone) = Dirs(t, ps)
  <2>1. ASSUME NEW d, d # NULL
        PROVE  \/ \E i \in LiveIn(gone) : gone[i].address_space = d
               \/ \E l \in Used(t) : t[l].address_space = d
               <=>
               \/ \E i \in LiveIn(ps) : ps[i].address_space = d
               \/ \E l \in Used(t) : t[l].address_space = d
    BY <1>1, <1>6, <1>7, <2>1
  <2>2. ASSUME NEW d PROVE d \in Dirs(t, gone) <=> d \in Dirs(t, ps)
    BY <2>1, DirsOf
  <2> QED BY <2>2
<1>9. Progs(gone) = G \ PagesOf(r)
  <2>1. ASSUME NEW x, x # NULL
        PROVE  (\E i \in LiveIn(gone) : \E v \in UserPages : gone[i].pages[v] = x) <=>
               /\ \E i \in LiveIn(ps) : \E v \in UserPages : ps[i].pages[v] = x
               /\ \A v \in UserPages : r.pages[v] # x
    <3>1. \A i \in LiveIn(ps) \ {c} : \A v, w \in UserPages :
             ps[i].pages[v] # NULL => ps[i].pages[v] # r.pages[w]
      BY <1>0, <1>1 DEF OwnersOK, RecordsHold, r
    <3> QED BY <1>1, <1>6, <1>7, <2>1, <3>1 DEF r
  <2>2. ASSUME NEW x PROVE x \in Progs(gone) <=> x \in G \ PagesOf(r)
    <3>1. x \in PagesOf(r) <=> x # NULL /\ \E v \in UserPages : r.pages[v] = x
      BY DEF PagesOf
    <3> QED BY <2>1, <3>1, ProgsOf DEF G
  <2> QED BY <2>2
<1>10. RecordsHold(gone)
    BY <1>0, <1>1, <1>6, <1>7
       DEF OwnersOK, RecordsHold, USER_PROCESS_EXITED, USER_PROCESS_RUNNING
<1>11. NotAdopted(t, gone)
    BY <1>0, <1>6, <1>7 DEF OwnersOK, NotAdopted, USER_PROCESS_EXITED, USER_PROCESS_CREATED
<1>12. MemOK(f.mem, D, Progs(gone)) /\ f.mem.stacks = m.stacks
    BY <1>5, <1>9 DEF Unloaded
<1>13. StacksOK(t, f.mem)
    BY <1>0, <1>12 DEF StacksOK
<1>14. Contents(f.mem, gone, D)
  <2>1. Sees(f.mem, r.address_space) = NoMappings
    <3>1. Sees(m, r.address_space) = Image(r)
      BY <1>0, <1>1 DEF Contents, r
    <3> QED BY <1>3, <1>5, <3>1, ImageCleared DEF Unloaded
  <2>2. \A d \in Roots(D) : d # r.address_space => Sees(f.mem, d) = Sees(m, d)
    BY <1>5 DEF Unloaded, SeeTheSame
  <2>3. ASSUME NEW i \in LiveIn(gone), gone[i].state = USER_PROCESS_RUNNING
        PROVE  Sees(f.mem, gone[i].address_space) = Image(gone[i])
    <3>1. i # c /\ i \in LiveIn(ps) /\ gone[i] = ps[i]
      BY <1>6, <1>7, <2>3 DEF USER_PROCESS_EXITED, USER_PROCESS_RUNNING
    <3>2. ps[i].address_space \in Dirs(t, ps)
      BY <1>0, <2>3, <3>1, RunningSpace
    <3>3. ps[i].address_space \in Roots(D)
      BY <3>2 DEF Roots, D
    <3>4. ps[i].address_space # r.address_space
      BY <1>0, <1>1, <2>3, <3>1
         DEF OwnersOK, RecordsHold, r, USER_PROCESS_EXITED, USER_PROCESS_RUNNING
    <3>5. Sees(m, ps[i].address_space) = Image(ps[i])
      BY <1>0, <2>3, <3>1 DEF Contents
    <3> QED BY <2>2, <3>1, <3>3, <3>4, <3>5
  <2>4. ASSUME NEW d \in Roots(D),
               \A i \in LiveIn(gone) : gone[i].state = USER_PROCESS_RUNNING =>
                  gone[i].address_space # d
        PROVE  Sees(f.mem, d) = NoMappings
    <3>1. CASE d = r.address_space
      BY <2>1, <3>1
    <3>2. CASE d # r.address_space
      <4>1. \A i \in LiveIn(ps) : ps[i].state = USER_PROCESS_RUNNING => ps[i].address_space # d
        BY <1>7, <2>4, <3>2 DEF r
      <4>2. Sees(m, d) = NoMappings
        BY <1>0, <4>1 DEF Contents
      <4> QED BY <2>2, <3>2, <4>2
    <3> QED BY <3>1, <3>2
  <2> QED BY <2>3, <2>4 DEF Contents
<1>15. OwnOK(t, gone, f.mem, X)
    BY <1>0, <1>8, <1>10, <1>11, <1>12, <1>13, <1>14 DEF OwnOK, OwnersOK, D
<1> QED BY <1>15 DEF f, r

\* Directories that go, and with them nothing a process has.
LEMMA DirsGone ==
    ASSUME NEW t, NEW ps \in [Records -> UserProcess], NEW gone \in [Records -> UserProcess],
           NEW m, NEW n, NEW D, NEW E,
           Contents(m, ps, D), E \subseteq D, SeeTheSame(m, n, Roots(E)),
           \A i \in Records : gone[i].state = USER_PROCESS_RUNNING =>
              gone[i] = ps[i] /\ gone[i].address_space \in E,
           \A i \in Records : ps[i].state = USER_PROCESS_RUNNING => gone[i] = ps[i]
    PROVE  Contents(n, gone, E)
<1>1. \A d \in Roots(E) : d \in Roots(D) /\ Sees(n, d) = Sees(m, d)
    BY DEF Roots, SeeTheSame
<1>2. \A i \in Records : gone[i].state = USER_PROCESS_RUNNING =>
         i \in LiveIn(ps) /\ gone[i] = ps[i] /\ gone[i].address_space \in Roots(E)
    BY DEF LiveIn, Roots, USER_PROCESS_RUNNING, USER_PROCESS_FREE
<1>3. \A i \in Records : ps[i].state = USER_PROCESS_RUNNING => i \in LiveIn(gone)
    BY DEF LiveIn, USER_PROCESS_RUNNING, USER_PROCESS_FREE
<1>4. LiveIn(gone) \subseteq Records /\ LiveIn(ps) \subseteq Records
    BY DEF LiveIn
<1> QED BY <1>1, <1>2, <1>3, <1>4 DEF Contents

\* A spawn is undone: the record and its directory go.
LEMMA UndoOwned ==
    ASSUME NEW t, NEW ps \in [Records -> UserProcess], NEW m, NEW X, OwnOK(t, ps, m, X),
           NEW c \in Records, ps[c].state = USER_PROCESS_CREATED,
           NEW gone \in [Records -> UserProcess], gone[c] = FreeRecord,
           \A j \in Records \ {c} : gone[j] = ps[j]
    PROVE  OwnOK(t, gone, vmm_destroy_address_space(m, ps[c].address_space), X)
<1> DEFINE d == ps[c].address_space
           D == Dirs(t, ps) \cup X
           G == Progs(ps)
           E == Dirs(t, gone) \cup X
           n == DestroySpaces(m, {d})
<1>0. OwnersOK(t, ps) /\ X \cap Dirs(t, ps) = {} /\ MemOK(m, D, G)
      /\ StacksOK(t, m) /\ Contents(m, ps, D)
    BY DEF OwnOK
<1>1. c \in LiveIn(ps) /\ LiveIn(ps) \subseteq Records
    BY DEF LiveIn, USER_PROCESS_CREATED, USER_PROCESS_FREE
<1>2. d \in Dirs(t, ps)
    BY <1>0, <1>1, RunningSpace
<1>3. LiveIn(gone) = LiveIn(ps) \ {c} /\ \A j \in LiveIn(gone) : gone[j] = ps[j]
    BY <1>1, FreeIsRecord DEF LiveIn
<1>4. Dirs(t, gone) = Dirs(t, ps) \ {d}
  <2>1. \A k \in Used(t) : t[k].address_space # d
    BY <1>0, <1>1 DEF OwnersOK, NotAdopted
  <2>2. \A i \in LiveIn(gone) : gone[i].address_space # d
    BY <1>0, <1>1, <1>3 DEF OwnersOK, RecordsHold, USER_PROCESS_CREATED, USER_PROCESS_EXITED
  <2>3. ASSUME NEW x, x # d
        PROVE  (\E i \in LiveIn(gone) : gone[i].address_space = x) <=>
                  (\E i \in LiveIn(ps) : ps[i].address_space = x)
    BY <1>3, <2>3
  <2> HIDE DEF d
  <2>4. ASSUME NEW x PROVE x \in Dirs(t, gone) <=> x \in Dirs(t, ps) /\ x # d
    BY <2>1, <2>2, <2>3, DirsOf
  <2> QED BY <2>4
<1>5. D \ {d} = E
    BY <1>0, <1>2, <1>4
<1>6. Progs(gone) = G
  <2>1. \A v \in UserPages : ps[c].pages[v] = NULL
    BY <1>0, <1>1 DEF OwnersOK, RecordsHold, USER_PROCESS_CREATED, USER_PROCESS_RUNNING
  <2>2. ASSUME NEW x, x # NULL
        PROVE  (\E i \in LiveIn(gone) : \E v \in UserPages : gone[i].pages[v] = x) <=>
                  (\E i \in LiveIn(ps) : \E v \in UserPages : ps[i].pages[v] = x)
    BY <1>3, <2>1, <2>2
  <2>3. ASSUME NEW x PROVE x \in Progs(gone) <=> x \in Progs(ps)
    BY <2>2, ProgsOf
  <2> QED BY <2>3
<1>7. d \in D
    BY <1>2
<1> HIDE DEF d, D, G, E, n
<1>8. Quiet(m, n, D \ {d}, G)
  <2>1. {d} \subseteq D \cup {NULL, kernel_page_directory}
    BY <1>7
  <2> QED BY <1>0, <2>1, SpacesDestroyed DEF n
<1>9. MemOK(n, E, G) /\ n.stacks = m.stacks /\ SeeTheSame(m, n, Roots(E))
    BY <1>5, <1>8 DEF Quiet
<1>10. RecordsHold(gone)
    BY <1>0, <1>3 DEF OwnersOK, RecordsHold
<1>11. NotAdopted(t, gone)
    BY <1>0, <1>3 DEF OwnersOK, NotAdopted
<1>12. Contents(n, gone, E)
  <2>1. \A i \in Records : gone[i].state = USER_PROCESS_RUNNING =>
           gone[i] = ps[i] /\ gone[i].address_space \in E
    <3> SUFFICES ASSUME NEW i \in Records, gone[i].state = USER_PROCESS_RUNNING
                 PROVE  gone[i] = ps[i] /\ gone[i].address_space \in E
      OBVIOUS
    <3>1. i # c /\ i \in LiveIn(gone)
      BY FreeIsRecord DEF LiveIn, USER_PROCESS_RUNNING, USER_PROCESS_FREE
    <3>2. gone[i].address_space \in Dirs(t, gone)
      BY <1>0, <1>10, <1>11, <3>1, RunningSpace DEF OwnersOK
    <3> QED BY <3>1, <3>2 DEF E
  <2>2. \A i \in Records : ps[i].state = USER_PROCESS_RUNNING => gone[i] = ps[i]
    BY DEF USER_PROCESS_RUNNING, USER_PROCESS_CREATED
  <2>3. E \subseteq D
    BY <1>5
  <2> QED BY <1>0, <1>9, <2>1, <2>2, <2>3, DirsGone
<1>13. StacksOK(t, n)
    BY <1>0, <1>9 DEF StacksOK
<1>14. X \cap Dirs(t, gone) = {}
    BY <1>0, <1>4
<1>15. OwnOK(t, gone, n, X)
    BY <1>0, <1>6, <1>9, <1>10, <1>11, <1>12, <1>13, <1>14 DEF OwnOK, OwnersOK, E
<1> QED BY <1>15 DEF n, d, vmm_destroy_address_space

\* A directory that was made for nobody yet.
LEMMA SpaceOwned ==
    ASSUME NEW t, NEW ps \in [Records -> UserProcess], NEW m, OwnOK(t, ps, m, {}),
           NEW r, r = vmm_create_address_space(m), r.ret # NULL
    PROVE  OwnOK(t, ps, r.mem, {r.ret}) /\ r.ret \in Pages
<1> DEFINE D == Dirs(t, ps) \cup {}
           G == Progs(ps)
           d == r.ret
           E == Dirs(t, ps) \cup {d}
<1>0. OwnersOK(t, ps) /\ MemOK(m, D, G) /\ StacksOK(t, m) /\ Contents(m, ps, D)
    BY DEF OwnOK
<1>1. D = Dirs(t, ps) /\ E = D \cup {d}
    OBVIOUS
<1> HIDE DEF D, G, E
<1>2. FreshSpace(m, r, D, G)
    BY <1>0, SpaceCreated
<1>3. /\ d \in Pages \ m.used /\ MemOK(r.mem, D \cup {d}, G) /\ r.mem.stacks = m.stacks
      /\ SeeTheSame(m, r.mem, Roots(D)) /\ Sees(r.mem, d) = NoMappings
    BY <1>2 DEF FreshSpace
<1>4. {d} \cap Dirs(t, ps) = {}
    BY <1>0, <1>1, <1>3 DEF MemOK
<1>5. StacksOK(t, r.mem)
    BY <1>0, <1>3 DEF StacksOK
<1>6. Contents(r.mem, ps, E)
  <2>1. \A i \in LiveIn(ps) : ps[i].state = USER_PROCESS_RUNNING => ps[i].address_space \in Roots(D)
    BY <1>0, <1>1, RunningSpace DEF Roots
  <2>2. \A x \in Roots(E) : x \in Roots(D) \/ x = d
    BY <1>1 DEF Roots
  <2> QED BY <1>0, <1>3, <2>1, <2>2 DEF Contents, SeeTheSame
<1>7. MemOK(r.mem, E, G)
    BY <1>1, <1>3
<1> QED BY <1>0, <1>3, <1>4, <1>5, <1>6, <1>7 DEF OwnOK, E, G

\* It is given back when no thread can be made for it.
LEMMA SpaceReturned ==
    ASSUME NEW t, NEW ps \in [Records -> UserProcess], NEW m, NEW d, OwnOK(t, ps, m, {d})
    PROVE  OwnOK(t, ps, vmm_destroy_address_space(m, d), {})
<1> DEFINE D == Dirs(t, ps) \cup {d}
           G == Progs(ps)
           E == Dirs(t, ps) \cup {}
           n == DestroySpaces(m, {d})
<1>0. OwnersOK(t, ps) /\ {d} \cap Dirs(t, ps) = {} /\ MemOK(m, D, G) /\ StacksOK(t, m)
      /\ Contents(m, ps, D)
    BY DEF OwnOK
<1>1. D \ {d} = E /\ E \subseteq D /\ d \in D
    BY <1>0
<1>2. E = Dirs(t, ps)
    OBVIOUS
<1> HIDE DEF D, G, E, n
<1>3. Quiet(m, n, D \ {d}, G)
  <2>1. {d} \subseteq D \cup {NULL, kernel_page_directory}
    BY <1>1
  <2> QED BY <1>0, <2>1, SpacesDestroyed DEF n
<1>4. MemOK(n, E, G) /\ n.stacks = m.stacks /\ SeeTheSame(m, n, Roots(E))
    BY <1>1, <1>3 DEF Quiet
<1>5. StacksOK(t, n)
    BY <1>0, <1>4 DEF StacksOK
<1>6. Contents(n, ps, E)
  <2>1. \A i \in Records : ps[i].state = USER_PROCESS_RUNNING => ps[i].address_space \in E
    BY <1>0, <1>2, RunningSpace DEF LiveIn, USER_PROCESS_RUNNING, USER_PROCESS_FREE
  <2> QED BY <1>0, <1>1, <1>4, <2>1, DirsGone
<1>7. OwnOK(t, ps, n, {})
    BY <1>0, <1>4, <1>5, <1>6 DEF OwnOK, E, G
<1> QED BY <1>7 DEF n, vmm_destroy_address_space

\* Nothing is mapped for a process whose program is not loaded.
LEMMA CreatedSeesNothing ==
    ASSUME NEW t, NEW ps \in [Records -> UserProcess], NEW m, NEW X, OwnOK(t, ps, m, X),
           NEW c \in LiveIn(ps), ps[c].state = USER_PROCESS_CREATED
    PROVE  /\ Sees(m, ps[c].address_space) = NoMappings
           /\ ps[c].address_space \in Dirs(t, ps) \cup X
           /\ ps[c].pages = NoPages
<1> DEFINE d == ps[c].address_space
           D == Dirs(t, ps) \cup X
<1>0. OwnersOK(t, ps) /\ Contents(m, ps, D)
    BY DEF OwnOK
<1>1. d \in Dirs(t, ps) /\ d \in Roots(D)
    BY <1>0, RunningSpace DEF Roots
<1>2. \A i \in LiveIn(ps) : ps[i].state = USER_PROCESS_RUNNING => ps[i].address_space # d
    BY <1>0 DEF OwnersOK, RecordsHold, USER_PROCESS_CREATED, USER_PROCESS_RUNNING,
                USER_PROCESS_EXITED
<1>3. Sees(m, d) = NoMappings
    BY <1>0, <1>1, <1>2 DEF Contents
<1>4. /\ ps[c].pages \in [UserPages -> Pages \cup {NULL}]
      /\ \A v \in UserPages : ps[c].pages[v] = NULL
    BY <1>0, RecordSpace
       DEF LiveIn, OwnersOK, RecordsHold, USER_PROCESS_CREATED, USER_PROCESS_RUNNING
<1>5. ps[c].pages = NoPages
    BY <1>4 DEF NoPages
<1> QED BY <1>1, <1>3, <1>5

\* A program that does not load leaves the memory as its owners know it.
LEMMA LoadFailed ==
    ASSUME NEW t, NEW ps \in [Records -> UserProcess], NEW m, NEW X, OwnOK(t, ps, m, X),
           NEW c \in LiveIn(ps), ps[c].state = USER_PROCESS_CREATED,
           NEW x, MemOK(x, Dirs(t, ps) \cup X, Progs(ps)), x.stacks = m.stacks,
           SeeTheSame(m, x, Roots(Dirs(t, ps) \cup X) \ {ps[c].address_space}),
           Sees(x, ps[c].address_space) = NoMappings
    PROVE  OwnOK(t, ps, x, X)
<1> DEFINE D == Dirs(t, ps) \cup X
           d == ps[c].address_space
<1>1. Sees(m, d) = NoMappings
    BY CreatedSeesNothing
<1> HIDE DEF d
<1>2. SeeTheSame(m, x, Roots(D))
    BY <1>1 DEF SeeTheSame, d
<1> QED BY <1>2, OnlyPages

\* The kernel's directory maps nothing between commands, and cmd_vmmtest leaves the
\* memory as its owners know it.
LEMMA VmmtestOwned ==
    ASSUME NEW t, NEW ps \in [Records -> UserProcess], NEW m, OwnOK(t, ps, m, {})
    PROVE  OwnOK(t, ps, VmmtestMemory(m), {})
<1> DEFINE D == Dirs(t, ps) \cup {}
           n == VmmtestMemory(m)
<1>0. MemOK(m, D, Progs(ps)) /\ Contents(m, ps, D)
    BY DEF OwnOK
<1>1. \A i \in LiveIn(ps) : ps[i].address_space # kernel_page_directory
    BY RecordSpace DEF LiveIn
<1>2. Sees(m, kernel_page_directory) = NoMappings
    BY <1>0, <1>1 DEF Contents, Roots
<1>3. Quiet(m, n, D, Progs(ps))
    BY <1>0, <1>2, VmmtestQuiet
<1> HIDE DEF n, D
<1>4. MemOK(n, D, Progs(ps)) /\ n.stacks = m.stacks /\ SeeTheSame(m, n, Roots(D))
    BY <1>3 DEF Quiet
<1>5. OwnOK(t, ps, n, {})
    BY <1>4, OnlyPages DEF D
<1> QED BY <1>5 DEF n

\* The directory made for a new process is its own.
LEMMA SpawnOwned ==
    ASSUME NEW t, NEW ps \in [Records -> UserProcess], NEW m, NEW d \in Pages,
           OwnOK(t, ps, m, {d}), NEW f \in Records, ps[f].state = USER_PROCESS_FREE,
           NEW new, new.state = USER_PROCESS_CREATED, new.address_space = d,
           \A v \in UserPages : new.pages[v] = NULL,
           \A k \in Used(t) : t[k].id = new.task_id =>
              t[k].address_space = kernel_page_directory,
           NEW more, more[f] = new, \A j \in Records \ {f} : more[j] = ps[j]
    PROVE  OwnOK(t, more, m, {})
<1> DEFINE D == Dirs(t, ps) \cup {d}
           G == Progs(ps)
<1>0. OwnersOK(t, ps) /\ {d} \cap Dirs(t, ps) = {} /\ MemOK(m, D, G) /\ StacksOK(t, m)
      /\ Contents(m, ps, D)
    BY DEF OwnOK
<1>1. /\ LiveIn(more) = LiveIn(ps) \cup {f} /\ f \notin LiveIn(ps)
      /\ \A j \in LiveIn(ps) : more[j] = ps[j] /\ j # f
    BY DEF LiveIn, USER_PROCESS_CREATED, USER_PROCESS_FREE
<1>2. d # NULL /\ d # kernel_page_directory
    BY MemoryAssumption DEF Pages, NULL, kernel_page_directory
<1>3. Dirs(t, more) = D
  <2>1. ASSUME NEW x
        PROVE  (\E i \in LiveIn(more) : more[i].address_space = x) <=>
                  (\E i \in LiveIn(ps) : ps[i].address_space = x) \/ x = d
    BY <1>1
  <2>2. ASSUME NEW x PROVE x \in Dirs(t, more) <=> x \in Dirs(t, ps) \/ x = d
    BY <1>2, <2>1, DirsOf
  <2> QED BY <2>2
<1>4. Progs(more) = G
  <2>1. ASSUME NEW x, x # NULL
        PROVE  (\E i \in LiveIn(more) : \E v \in UserPages : more[i].pages[v] = x) <=>
                  (\E i \in LiveIn(ps) : \E v \in UserPages : ps[i].pages[v] = x)
    BY <1>1, <2>1
  <2>2. ASSUME NEW x PROVE x \in Progs(more) <=> x \in Progs(ps)
    BY <2>1, ProgsOf
  <2> QED BY <2>2
<1>5. \A i \in LiveIn(ps) : ps[i].address_space # d
    BY <1>0, <1>2, DirsOf
<1>6. RecordsHold(more)
  <2>1. \A i \in LiveIn(more) :
           more[i].state = USER_PROCESS_EXITED <=> more[i].address_space = NULL
    BY <1>0, <1>1, <1>2 DEF OwnersOK, RecordsHold, USER_PROCESS_CREATED, USER_PROCESS_EXITED
  <2>2. \A i, j \in LiveIn(more) :
           more[i].address_space # NULL /\ more[i].address_space = more[j].address_space => i = j
    BY <1>0, <1>1, <1>5 DEF OwnersOK, RecordsHold
  <2>3. \A i \in LiveIn(more) : \A v \in UserPages :
           more[i].state # USER_PROCESS_RUNNING <=> more[i].pages[v] = NULL
    BY <1>0, <1>1 DEF OwnersOK, RecordsHold, USER_PROCESS_CREATED, USER_PROCESS_RUNNING
  <2>4. \A i, j \in LiveIn(more) : \A v, w \in UserPages :
           more[i].pages[v] # NULL /\ more[i].pages[v] = more[j].pages[w] => i = j /\ v = w
    BY <1>0, <1>1 DEF OwnersOK, RecordsHold
  <2> QED BY <2>1, <2>2, <2>3, <2>4 DEF RecordsHold
<1>7. NotAdopted(t, more)
  <2>1. \A k \in Used(t) : t[k].address_space # d
    BY <1>0, <1>2, DirsOf
  <2> QED BY <1>0, <1>1, <2>1 DEF OwnersOK, NotAdopted
<1> HIDE DEF D, G
<1>8. Contents(m, more, D)
  <2>1. \A i \in LiveIn(more) : more[i].state = USER_PROCESS_RUNNING =>
           i \in LiveIn(ps) /\ more[i] = ps[i]
    BY <1>1 DEF USER_PROCESS_CREATED, USER_PROCESS_RUNNING
  <2> QED BY <1>0, <1>1, <2>1 DEF Contents
<1>9. Dirs(t, more) \cup {} = D
    BY <1>3
<1> QED BY <1>0, <1>4, <1>6, <1>7, <1>8, <1>9 DEF OwnOK, OwnersOK

\* Task k runs in directory d from now on.
Adopts(t, s, k, d) ==
    /\ Used(s) = Used(t) /\ s[0].stack = t[0].stack
    /\ \A l \in Used(t) : s[l].id = t[l].id /\ s[l].stack = t[l].stack
    /\ \A l \in Used(t) \ {k} : s[l].address_space = t[l].address_space
    /\ s[k].address_space = d

\* A loaded process and its thread have the directory made at its spawn, and the
\* pages its program was loaded in.
LEMMA ExecOwned ==
    ASSUME NEW t \in [Slots -> Task], NEW ps \in [Records -> UserProcess], NEW m,
           OwnOK(t, ps, m, {}), NEW c \in LiveIn(ps), ps[c].state = USER_PROCESS_CREATED,
           NEW k \in Used(t) \ {0}, t[k].id = ps[c].task_id,
           \A i \in LiveIn(ps) : ps[i].task_id = ps[c].task_id => i = c,
           NEW x, Prepared(m, x, Dirs(t, ps) \cup {}, Progs(ps), ps[c]), x.ret = 0,
           NEW new, new.state = USER_PROCESS_RUNNING, new.address_space = ps[c].address_space,
           new.pages = x.proc.pages,
           NEW ran, ran[c] = new, \A j \in Records \ {c} : ran[j] = ps[j],
           NEW s, Adopts(t, s, k, ps[c].address_space)
    PROVE  OwnOK(s, ran, x.mem, {})
<1> DEFINE D == Dirs(t, ps) \cup {}
           G == Progs(ps)
           d == ps[c].address_space
<1>0. OwnersOK(t, ps) /\ MemOK(m, D, G) /\ StacksOK(t, m) /\ Contents(m, ps, D)
    BY DEF OwnOK
<1>1. D = Dirs(t, ps)
    OBVIOUS
<1>2. /\ x.mem.stacks = m.stacks /\ SeeTheSame(m, x.mem, Roots(D) \ {d})
      /\ MemOK(x.mem, D, G \cup PagesOf(x.proc)) /\ Sees(x.mem, d) = Image(x.proc)
      /\ \A v \in UserPages : x.proc.pages[v] \in Pages \ G
      /\ x.proc.pages[CODE] # x.proc.pages[STACK]
    BY DEF Prepared
<1>3. d \in Dirs(t, ps) /\ d \in Pages
    BY <1>0, RunningSpace
<1>4. d # NULL /\ d # kernel_page_directory
    BY <1>3, MemoryAssumption DEF Pages, NULL, kernel_page_directory
<1> HIDE DEF D, G
<1>8. /\ Used(s) = Used(t) /\ Used(t) \subseteq Slots
      /\ \A l \in Used(t) : s[l].id = t[l].id /\ s[l].stack = t[l].stack
      /\ \A l \in Used(t) \ {k} : s[l].address_space = t[l].address_space
      /\ s[k].address_space = d
    BY DEF Adopts, Used
<1>9. /\ t[k].address_space = kernel_page_directory
      /\ \A l \in Used(t) : t[l].address_space # d
    BY <1>0 DEF OwnersOK, NotAdopted
<1> HIDE DEF d
<1>10. /\ LiveIn(ran) = LiveIn(ps) /\ LiveIn(ps) \subseteq Records
       /\ \A j \in LiveIn(ps) \ {c} : ran[j] = ps[j]
    BY DEF LiveIn, USER_PROCESS_CREATED, USER_PROCESS_FREE, USER_PROCESS_RUNNING
<1>11. ps[c].address_space = d /\ ran[c].address_space = d
    BY DEF d
<1>12. Dirs(s, ran) = Dirs(t, ps)
  <2>1. ASSUME NEW y
        PROVE  (\E i \in LiveIn(ran) : ran[i].address_space = y) <=>
                  (\E i \in LiveIn(ps) : ps[i].address_space = y)
    BY <1>10, <1>11
  <2>2. ASSUME NEW y, y # d, y # kernel_page_directory
        PROVE  (\E l \in Used(s) : s[l].address_space = y) <=>
                  (\E l \in Used(t) : t[l].address_space = y)
    BY <1>8, <1>9, <2>2
  <2>3. ASSUME NEW y PROVE y \in Dirs(s, ran) <=> y \in Dirs(t, ps)
    <3>1. CASE y = d
      <4>1. \E i \in LiveIn(ran) : ran[i].address_space = d
        BY <1>10, <1>11
      <4>2. d \in Dirs(s, ran)
        BY <1>4, <4>1, DirsOf
      <4> QED BY <1>3, <3>1, <4>2
    <3>2. CASE y # d
      <4>1. CASE y = kernel_page_directory
        BY <4>1, DirsOf
      <4>2. CASE y # kernel_page_directory
        <5> DEFINE RS == \E i \in LiveIn(ran) : ran[i].address_space = y
                   PS == \E i \in LiveIn(ps) : ps[i].address_space = y
                   SS == \E l \in Used(s) : s[l].address_space = y
                   TS == \E l \in Used(t) : t[l].address_space = y
        <5>1. (RS <=> PS) /\ (SS <=> TS)
          BY <2>1, <2>2, <3>2, <4>2
        <5>2. y \in Dirs(s, ran) <=> y # NULL /\ y # kernel_page_directory /\ (RS \/ SS)
          BY DirsOf
        <5>3. y \in Dirs(t, ps) <=> y # NULL /\ y # kernel_page_directory /\ (PS \/ TS)
          BY DirsOf
        <5> HIDE DEF RS, PS, SS, TS
        <5> QED BY <5>1, <5>2, <5>3
      <4> QED BY <4>1, <4>2
    <3> QED BY <3>1, <3>2
  <2> QED BY <2>3
<1>14. \A v \in UserPages : /\ new.pages[v] = x.proc.pages[v] /\ new.pages[v] # NULL
                            /\ new.pages[v] \notin G
    BY <1>2, PagesNat
<1>15. \A v \in UserPages : ps[c].pages[v] = NULL
    BY <1>0 DEF OwnersOK, RecordsHold, USER_PROCESS_CREATED, USER_PROCESS_RUNNING
<1>16. Progs(ran) = G \cup PagesOf(x.proc)
  <2>1. ASSUME NEW y, y # NULL
        PROVE  (\E i \in LiveIn(ran) : \E v \in UserPages : ran[i].pages[v] = y) <=>
               \/ \E i \in LiveIn(ps) : \E v \in UserPages : ps[i].pages[v] = y
               \/ \E v \in UserPages : x.proc.pages[v] = y
    BY <1>10, <1>14, <1>15, <2>1
  <2>2. ASSUME NEW y PROVE y \in Progs(ran) <=> y \in Progs(ps) \/ y \in PagesOf(x.proc)
    <3>1. y \in PagesOf(x.proc) <=> y # NULL /\ \E v \in UserPages : x.proc.pages[v] = y
      BY DEF PagesOf
    <3> DEFINE RP == \E i \in LiveIn(ran) : \E v \in UserPages : ran[i].pages[v] = y
               PP == \E i \in LiveIn(ps) : \E v \in UserPages : ps[i].pages[v] = y
               XP == \E v \in UserPages : x.proc.pages[v] = y
    <3>2. y \in Progs(ran) <=> y # NULL /\ RP
      BY ProgsOf
    <3>3. y \in Progs(ps) <=> y # NULL /\ PP
      BY ProgsOf
    <3>4. y # NULL => (RP <=> PP \/ XP)
      BY <2>1
    <3> HIDE DEF RP, PP
    <3> QED BY <3>1, <3>2, <3>3, <3>4
  <2> QED BY <2>2 DEF G
<1>17. TasksHold(s)
  <2>1. \A l, o \in Used(s) : SharedSpace(s, l, o) => l = o
    BY <1>0, <1>8, <1>9 DEF OwnersOK, TasksHold, SharedSpace
  <2> QED BY <1>0, <1>4, <1>8, <2>1 DEF OwnersOK, TasksHold
<1>18. RecordsHold(ran)
  <2>1. \A i \in LiveIn(ran) :
           ran[i].state = USER_PROCESS_EXITED <=> ran[i].address_space = NULL
    BY <1>0, <1>4, <1>10, <1>11 DEF OwnersOK, RecordsHold, USER_PROCESS_RUNNING, USER_PROCESS_EXITED
  <2>2. \A i, j \in LiveIn(ran) :
           ran[i].address_space # NULL /\ ran[i].address_space = ran[j].address_space => i = j
    BY <1>0, <1>10, <1>11 DEF OwnersOK, RecordsHold
  <2>3. \A i \in LiveIn(ran) : \A v \in UserPages :
           ran[i].state # USER_PROCESS_RUNNING <=> ran[i].pages[v] = NULL
    BY <1>0, <1>10, <1>14 DEF OwnersOK, RecordsHold
  <2>4. \A i \in LiveIn(ps) : \A v, w \in UserPages :
           ps[i].pages[v] # NULL => ps[i].pages[v] # new.pages[w]
    <3>1. \A i \in LiveIn(ps) : \A v \in UserPages : ps[i].pages[v] # NULL => ps[i].pages[v] \in G
      BY ProgsOf DEF G
    <3> QED BY <1>14, <3>1
  <2>5. \A v, w \in UserPages : new.pages[v] = new.pages[w] => v = w
    BY <1>2, <1>14 DEF UserPages
  <2>6. \A i, j \in LiveIn(ran) : \A v, w \in UserPages :
           ran[i].pages[v] # NULL /\ ran[i].pages[v] = ran[j].pages[w] => i = j /\ v = w
    <3> SUFFICES ASSUME NEW i \in LiveIn(ps), NEW j \in LiveIn(ps), NEW v \in UserPages,
                        NEW w \in UserPages, ran[i].pages[v] # NULL,
                        ran[i].pages[v] = ran[j].pages[w]
                 PROVE  i = j /\ v = w
      BY <1>10
    <3>1. CASE i = c /\ j = c
      BY <2>5, <3>1
    <3>2. CASE i # c /\ j # c
      BY <1>0, <1>10, <3>2 DEF OwnersOK, RecordsHold
    <3>3. CASE (i = c /\ j # c) \/ (i # c /\ j = c)
      BY <1>10, <2>4, <3>3
    <3> QED BY <3>1, <3>2, <3>3
  <2> QED BY <2>1, <2>2, <2>3, <2>6 DEF RecordsHold
<1>19. NotAdopted(s, ran)
  <2> SUFFICES ASSUME NEW i \in LiveIn(ran), ran[i].state = USER_PROCESS_CREATED, NEW l \in Used(s)
               PROVE  /\ s[l].address_space # ran[i].address_space
                      /\ s[l].id = ran[i].task_id => s[l].address_space = kernel_page_directory
    BY DEF NotAdopted
  <2>1. i # c /\ i \in LiveIn(ps) /\ ran[i] = ps[i]
    BY <1>10 DEF USER_PROCESS_CREATED, USER_PROCESS_RUNNING
  <2>2. ps[i].address_space # d /\ ps[i].task_id # t[k].id
    BY <1>0, <1>4, <1>11, <2>1 DEF OwnersOK, RecordsHold
  <2>3. /\ t[l].address_space # ps[i].address_space
        /\ t[l].id = ps[i].task_id => t[l].address_space = kernel_page_directory
    BY <1>0, <1>8, <2>1 DEF OwnersOK, NotAdopted
  <2> QED BY <1>8, <2>1, <2>2, <2>3
<1>20. StacksOK(s, x.mem)
  <2>1. s[0].stack = t[0].stack
    BY DEF Adopts
  <2> QED BY <1>0, <1>2, <1>8, <2>1 DEF StacksOK
<1>21. Contents(x.mem, ran, D)
  <2>1. Image(new) = Image(x.proc)
    BY DEF Image
  <2>2. \A y \in Roots(D) : y # d => Sees(x.mem, y) = Sees(m, y)
    BY <1>2 DEF SeeTheSame
  <2>3. ASSUME NEW i \in LiveIn(ran), ran[i].state = USER_PROCESS_RUNNING
        PROVE  Sees(x.mem, ran[i].address_space) = Image(ran[i])
    <3>1. CASE i = c
      BY <1>2, <1>11, <2>1, <3>1
    <3>2. CASE i # c
      <4>1. i \in LiveIn(ps) /\ ran[i] = ps[i]
        BY <1>10, <3>2
      <4>2. ps[i].address_space \in Roots(D)
        BY <1>0, <1>1, <2>3, <4>1, RunningSpace DEF Roots
      <4>3. ps[i].address_space # d
        BY <1>0, <1>4, <1>11, <3>2, <4>1 DEF OwnersOK, RecordsHold
      <4>4. Sees(m, ps[i].address_space) = Image(ps[i])
        BY <1>0, <2>3, <4>1 DEF Contents
      <4> QED BY <2>2, <4>1, <4>2, <4>3, <4>4
    <3> QED BY <3>1, <3>2
  <2>4. ASSUME NEW y \in Roots(D),
               \A i \in LiveIn(ran) : ran[i].state = USER_PROCESS_RUNNING =>
                  ran[i].address_space # y
        PROVE  Sees(x.mem, y) = NoMappings
    <3>1. y # d
      BY <1>10, <1>11, <2>4
    <3>2. \A i \in LiveIn(ps) : ps[i].state = USER_PROCESS_RUNNING => ps[i].address_space # y
      BY <1>10, <2>4 DEF USER_PROCESS_CREATED, USER_PROCESS_RUNNING
    <3>3. Sees(m, y) = NoMappings
      BY <1>0, <3>2 DEF Contents
    <3> QED BY <2>2, <3>1, <3>3
  <2> QED BY <2>3, <2>4 DEF Contents
<1>22. Dirs(s, ran) \cup {} = D
    BY <1>1, <1>12
<1> QED BY <1>0, <1>2, <1>16, <1>17, <1>18, <1>19, <1>20, <1>21, <1>22 DEF OwnOK, OwnersOK

-----------------------------------------------------------------------------
(* The steps, and the memory *)

\* Every page, directory and stack has its owner, and the CPU runs on its task's.
MemInv ==
    /\ OwnOK(tasks, processes, mem, {})
    /\ Ready(tasks)
    /\ Loaded(tasks, current_task, cr3, esp0)

\* What a step must show of memory.
MemStep == MemInv' /\ KeepsFooting

\* In memory that is accounted for, a task that stays has its footing.
LEMMA Footing ==
    ASSUME ProcessInv, MemInv, MemInv', Stays(tasks, tasks')
    PROVE  KeepsFooting
<1> DEFINE s == tasks'
           m == mem'
           ps == processes'
           a == tasks[current_task].address_space
<1>1. OwnOK(s, ps, m, {})
    BY DEF MemInv
<1>2. current_task \in Used(s) /\ s[current_task].stack = tasks[current_task].stack
      /\ s[current_task].address_space = a
    BY DEF Stays
<1>3. cr3 = a
    BY DEF MemInv, Loaded
<1> HIDE DEF s, m, ps, a
<1>4. StacksOK(s, m) /\ TasksHold(s) /\ MemOK(m, Dirs(s, ps) \cup {}, Progs(ps))
    BY <1>1 DEF OwnOK, OwnersOK
<1>5. current_task # 0 => tasks[current_task].stack \in m.stacks
    BY <1>2, <1>4 DEF StacksOK
<1>6. a # kernel_page_directory => a \in m.used
  <2> SUFFICES ASSUME a # kernel_page_directory PROVE a \in m.used
    OBVIOUS
  <2>1. a # NULL
    BY <1>2, <1>4 DEF TasksHold
  <2>2. a \in Dirs(s, ps)
    BY <1>2, <2>1, DirsOf
  <2> QED BY <1>4, <2>2 DEF MemOK
<1> QED BY <1>3, <1>5, <1>6 DEF KeepsFooting, m

\* A step that does not switch: the running task's slot stays as it was.
LEMMA StayStep ==
    ASSUME ProcessInv, MemInv, OwnOK(tasks', processes', mem', {}), Ready(tasks'),
           tasks'[current_task] = tasks[current_task], UNCHANGED <<current_task, cr3, esp0>>
    PROVE  MemStep
<1>1. current_task \in Slots /\ tasks[current_task].state = TASK_RUNNING
    BY Running
<1>2. Stays(tasks, tasks')
    BY <1>1 DEF Stays, Used, TASK_RUNNING, TASK_UNUSED
<1>3. MemInv'
    BY DEF MemInv, Loaded
<1> QED BY <1>2, <1>3, Footing DEF MemStep

\* A step that gives up the CPU in the end.
LEMMA YieldStep ==
    ASSUME ProcessInv, MemInv, NEW t, NEW m, NEW p, NEW n, NEW q,
           TablesOK(t, processes', p, n, q), Leaving(t), OwnOK(t, processes', m, {}), Ready(t),
           Loaded(t, current_task, cr3, esp0), sched_yield(t, m),
           t[current_task].stack = tasks[current_task].stack,
           t[current_task].address_space = tasks[current_task].address_space
    PROVE  MemStep
<1> DEFINE ps == processes'
<1>1. TablesOK(t, ps, p, n, q) /\ OwnOK(t, ps, m, {})
    OBVIOUS
<1> HIDE DEF ps
<1>2. Switched(t, ps)
    BY <1>1, YieldOwned
<1>3. MemInv' /\ Stays(t, tasks')
    BY <1>2 DEF Switched, MemInv, ps
<1>4. Stays(tasks, tasks')
    BY <1>3 DEF Stays
<1> QED BY <1>3, <1>4, Footing DEF MemStep

\* What user_spawn leaves, however it ends.
SpawnMade(r) == OwnOK(r.tasks, r.processes, r.mem, {}) /\ Ready(r.tasks)

\* No failure of user_spawn loses a page, and a process that was spawned has its
\* directory.
LEMMA SpawnKeepsOwners ==
    ASSUME ProcessInv, MemInv, NEW path, NEW r \in user_spawn(path)
    PROVE  SpawnMade(r)
<1> DEFINE free  == First({i \in Records : processes[i].state = USER_PROCESS_FREE})
           space == vmm_create_address_space(mem)
           Process(task_id) ==
            [FreeRecord EXCEPT
                !.state = USER_PROCESS_CREATED,
                !.pid = next_pid,
                !.task_id = task_id,
                !.parent_pid = IF Caller = NULL THEN USER_PROCESS_NO_PARENT
                               ELSE processes[Caller].pid,
                !.address_space = space.ret,
                !.path = path]
           Failed(t, m, n) == [processes |-> processes, tasks |-> t, mem |-> m,
                               slot |-> 0, task |-> -1, ret |-> -1, next_pid |-> n]
           Done(k) == [processes |-> [processes EXCEPT ![free] = Process(k.ret)],
                       tasks |-> k.tasks, mem |-> k.mem, slot |-> k.slot,
                       task |-> k.ret, ret |-> next_pid, next_pid |-> next_pid + 1]
           Outcome(k) ==
            IF k.ret = -1
            THEN Failed(k.tasks, vmm_destroy_address_space(k.mem, space.ret), next_pid + 1)
            ELSE Done(k)
           Threads == kthread_create(tasks, space.mem, "user_exec_task")
<1>0. /\ TablesOK(tasks, processes, pc, next_task_id, next_pid) /\ Leaving(tasks)
      /\ next_task_id \in Nat \ {0} /\ "user_exec_task" \in Entries
      /\ processes \in [Records -> UserProcess]
      /\ OwnOK(tasks, processes, mem, {}) /\ Ready(tasks)
    BY Running, ProcessAssumption DEF MemInv
<1>9. ASSUME NEW k \in Threads, k.ret # -1
      PROVE  k.ret = next_task_id /\ k.slot \in Slots /\ SameBut(tasks, k.tasks, {k.slot})
  <2>1. /\ Leaving(k.tasks) /\ k.tasks[current_task] = tasks[current_task]
        /\ \/ k.ret = -1 /\ k.slot = 0 /\ SameBut(tasks, k.tasks, {})
           \/ /\ k.ret = next_task_id /\ k.slot \in Slots \ {0, current_task}
              /\ ~Alive(tasks, k.slot)
              /\ k.tasks[k.slot].state = TASK_RUNNABLE
              /\ k.tasks[k.slot].id = next_task_id
              /\ k.tasks[k.slot].entry = "user_exec_task"
              /\ SameBut(tasks, k.tasks, {k.slot})
    BY <1>0, Created
  <2> QED BY <1>9, <2>1
<1>1. \/ \E x : r = Failed(tasks, mem, x)
      \/ /\ free # NULL /\ space.ret # NULL
         /\ \E k \in Threads :
               \/ /\ k.ret = -1
                  /\ r = Failed(k.tasks, vmm_destroy_address_space(k.mem, space.ret), next_pid + 1)
               \/ k.ret # -1 /\ r = Done(k)
  <2>1. CASE free = NULL
    <3>1. r \in {Failed(tasks, mem, next_pid)}
      BY <2>1, Zenon DEF user_spawn
    <3> QED BY <3>1
  <2>2. CASE free # NULL /\ space.ret = NULL
    <3>1. r \in {Failed(tasks, mem, next_pid + 1)}
      BY <2>2, Zenon DEF user_spawn
    <3> QED BY <3>1
  <2>3. CASE free # NULL /\ space.ret # NULL
    <3>1. r \in {Outcome(k) : k \in Threads}
      BY <2>3, Zenon DEF user_spawn
    <3>2. PICK k \in Threads : r = Outcome(k)
      BY <3>1
    <3> QED BY <2>3, <3>2, Zenon
  <2> QED BY <2>1, <2>2, <2>3
<1>2. CASE \E x : r = Failed(tasks, mem, x)
  <2>1. r.tasks = tasks /\ r.processes = processes /\ r.mem = mem
    BY <1>2
  <2> QED BY <1>0, <2>1 DEF SpawnMade
<1>3. CASE /\ free # NULL /\ space.ret # NULL
           /\ \E k \in Threads :
               \/ /\ k.ret = -1
                  /\ r = Failed(k.tasks, vmm_destroy_address_space(k.mem, space.ret), next_pid + 1)
               \/ k.ret # -1 /\ r = Done(k)
  <2> DEFINE d == space.ret
  <2>1. PICK k \in Threads :
           \/ k.ret = -1 /\ r = Failed(k.tasks, vmm_destroy_address_space(k.mem, d), next_pid + 1)
           \/ k.ret # -1 /\ r = Done(k)
    BY <1>3
  <2>2. OwnOK(tasks, processes, space.mem, {d}) /\ d \in Pages
    BY <1>0, <1>3, SpaceOwned
  <2>3. ThreadMade(k, processes, {d})
    <3> HIDE DEF space, d
    <3> QED BY <1>0, <2>2, ThreadOwned
  <2>4. /\ OwnOK(k.tasks, processes, k.mem, {d}) /\ Ready(k.tasks)
        /\ k.ret # -1 => k.slot \in Used(k.tasks)
                         /\ k.tasks[k.slot].address_space = kernel_page_directory
    BY <2>3 DEF ThreadMade
  <2>5. CASE k.ret = -1 /\ r = Failed(k.tasks, vmm_destroy_address_space(k.mem, d), next_pid + 1)
    <3>1. /\ r.tasks = k.tasks /\ r.processes = processes
          /\ r.mem = vmm_destroy_address_space(k.mem, d)
      BY <2>5
    <3> HIDE DEF d
    <3>2. OwnOK(k.tasks, processes, vmm_destroy_address_space(k.mem, d), {})
      BY <1>0, <2>4, SpaceReturned
    <3> QED BY <2>4, <3>1, <3>2 DEF SpawnMade
  <2>6. CASE k.ret # -1 /\ r = Done(k)
    <3> DEFINE new == Process(k.ret)
               more == [processes EXCEPT ![free] = new]
    <3>1. free \in Records /\ processes[free].state = USER_PROCESS_FREE
      <4>1. {i \in Records : processes[i].state = USER_PROCESS_FREE} \in SUBSET Nat
        BY ProcessAssumption DEF Records
      <4> QED BY <1>3, <4>1, FirstIn
    <3>2. r.tasks = k.tasks /\ r.mem = k.mem /\ r.processes = more
      BY <2>6
    <3> HIDE DEF free
    <3>3. /\ new.state = USER_PROCESS_CREATED /\ new.address_space = d /\ new.task_id = k.ret
          /\ \A v \in UserPages : new.pages[v] = NULL
      <4> DEFINE none == [v \in UserPages |-> NULL]
                 base == [state |-> USER_PROCESS_FREE, pid |-> 0, task_id |-> 0,
                          parent_pid |-> USER_PROCESS_NO_PARENT, address_space |-> NULL,
                          path |-> "", pages |-> none]
      <4>1. FreeRecord = base /\ \A v \in UserPages : none[v] = NULL
        BY DEF FreeRecord
      <4> HIDE DEF none, d
      <4>2. new = [base EXCEPT !.state = USER_PROCESS_CREATED, !.pid = next_pid,
                     !.task_id = k.ret,
                     !.parent_pid = IF Caller = NULL THEN USER_PROCESS_NO_PARENT
                                    ELSE processes[Caller].pid,
                     !.address_space = d, !.path = path]
        BY <4>1 DEF d
      <4> HIDE DEF new
      <4>3. /\ new.state = USER_PROCESS_CREATED /\ new.address_space = d
            /\ new.task_id = k.ret /\ new.pages = none
        BY <4>2
      <4> QED BY <4>1, <4>3
    <3> HIDE DEF new, d
    <3>4. more[free] = new /\ \A j \in Records \ {free} : more[j] = processes[j]
      BY <1>0, <3>1
    <3>5. \A l \in Used(k.tasks) : k.tasks[l].id = new.task_id =>
             k.tasks[l].address_space = kernel_page_directory
      <4>1. /\ k.ret = next_task_id /\ k.slot \in Slots
            /\ SameBut(tasks, k.tasks, {k.slot})
        BY <1>9, <2>6
      <4>2. \A l \in Slots \ {k.slot} : k.tasks[l].state # TASK_UNUSED =>
               k.tasks[l].id < next_task_id /\ k.tasks[l].id \in Nat
        <5>1. \A l \in Slots : tasks[l].state # TASK_UNUSED =>
                 tasks[l].id < next_task_id /\ tasks[l].id \in Nat
          BY <1>0 DEF TablesOK, ThreadsOK, Task
        <5> QED BY <4>1, <5>1 DEF SameBut
      <4>3. \A l \in Slots \ {k.slot} : k.tasks[l].state # TASK_UNUSED =>
               k.tasks[l].id # next_task_id
        BY <1>0, <4>2
      <4> QED BY <2>4, <2>6, <3>3, <4>1, <4>3 DEF Used
    <3> HIDE DEF more
    <3>6. OwnOK(k.tasks, more, k.mem, {})
      <4>1. new.state = USER_PROCESS_CREATED /\ new.address_space = d
            /\ \A v \in UserPages : new.pages[v] = NULL
        BY <3>3
      <4>2. OwnOK(k.tasks, processes, k.mem, {d}) /\ d \in Pages
        BY <2>2, <2>4 DEF d
      <4> QED BY <1>0, <3>1, <3>4, <3>5, <4>1, <4>2, SpawnOwned
    <3> QED BY <2>4, <3>2, <3>6 DEF SpawnMade
  <2> QED BY <2>1, <2>5, <2>6
<1> QED BY <1>1, <1>2, <1>3

\* A task that gives up the CPU and changes no record.
LEMMA YieldMem ==
    ASSUME ProcessInv, MemInv, sched_yield(tasks, mem), UNCHANGED processes
    PROVE  MemStep
<1>1. TablesOK(tasks, processes', pc, next_task_id, next_pid) /\ Leaving(tasks)
    BY Running
<1>2. OwnOK(tasks, processes', mem, {}) /\ Ready(tasks) /\ Loaded(tasks, current_task, cr3, esp0)
    BY DEF MemInv
<1> QED BY <1>1, <1>2, YieldStep

\* A step that touches neither tasks nor memory.
LEMMA StillMem ==
    ASSUME ProcessInv, MemInv, UNCHANGED <<tasks, mem, current_task, cr3, esp0>>,
           OwnOK(tasks, processes', mem, {})
    PROVE  MemStep
<1>1. OwnOK(tasks', processes', mem', {}) /\ Ready(tasks')
    BY DEF MemInv
<1> QED BY <1>1, StayStep

\* A spawn whose caller keeps the CPU.
LEMMA SpawnMem ==
    ASSUME ProcessInv, MemInv, GoodCaller, NEW path \in Paths, NEW r \in user_spawn(path),
           Spawned(r), tasks' = r.tasks, mem' = r.mem, UNCHANGED <<current_task, cr3, esp0>>
    PROVE  MemStep
<1>1. SpawnMade(r)
    BY SpawnKeepsOwners
<1>2. processes' = r.processes
    BY DEF Spawned
<1>3. OwnOK(tasks', processes', mem', {}) /\ Ready(tasks')
    BY <1>1, <1>2 DEF SpawnMade
<1>4. r.tasks[current_task] = tasks[current_task]
    BY SpawnOutcome
<1>5. tasks'[current_task] = tasks[current_task]
    BY <1>4
<1> QED BY <1>3, <1>5, StayStep

\* user_init, whether init could be spawned or not.
LEMMA UserInitMem == ASSUME ProcessInv, MemInv, UserInit PROVE MemStep
<1>1. PICK r \in user_spawn("good") :
        /\ Spawned(r)
        /\ \/ /\ tasks' = r.tasks /\ mem' = r.mem
              /\ UNCHANGED <<userland_active, current_task, cr3, esp0>>
           \/ userland_active' = TRUE /\ sched_yield(r.tasks, r.mem)
    BY DEF UserInit
<1>2. current_task = 0
    BY Zenon DEF UserInit
<1>3. GoodCaller /\ "good" \in Paths
    BY <1>2, TaskZeroCaller DEF GoodCaller, Paths
<1>4. CASE tasks' = r.tasks /\ mem' = r.mem /\ UNCHANGED <<userland_active, current_task, cr3, esp0>>
    BY <1>1, <1>3, <1>4, SpawnMem
<1>5. CASE userland_active' = TRUE /\ sched_yield(r.tasks, r.mem)
  <2>1. userland_active' \in BOOLEAN
    BY <1>5
  <2>2. /\ Leaving(r.tasks)
        /\ TablesOK(r.tasks, processes', Started(r.slot), next_task_id', next_pid')
    BY <1>1, <1>3, <2>1, SpawnStep
  <2>3. r.tasks[current_task] = tasks[current_task]
    BY <1>3, SpawnOutcome
  <2>4. SpawnMade(r) /\ processes' = r.processes
    BY <1>1, SpawnKeepsOwners DEF Spawned
  <2>5. OwnOK(r.tasks, processes', r.mem, {}) /\ Ready(r.tasks)
    BY <2>4 DEF SpawnMade
  <2>6. /\ Loaded(r.tasks, current_task, cr3, esp0)
        /\ r.tasks[current_task].stack = tasks[current_task].stack
        /\ r.tasks[current_task].address_space = tasks[current_task].address_space
    BY <2>3 DEF MemInv, Loaded
  <2> QED BY <1>5, <2>2, <2>5, <2>6, YieldStep
<1> QED BY <1>1, <1>4, <1>5

\* user_init's loop.
LEMMA InitLoopMem == ASSUME ProcessInv, MemInv, InitLoop PROVE MemStep
<1>1. /\ UNCHANGED processes
      /\ \/ sched_yield(tasks, mem)
         \/ UNCHANGED <<tasks, mem, current_task, cr3, esp0>>
    BY DEF InitLoop
<1>2. OwnOK(tasks, processes', mem, {})
    BY <1>1 DEF MemInv
<1> QED BY <1>1, <1>2, YieldMem, StillMem

\* cmd_vmmtest up to its yield, or all of it when it has no thread.
LEMMA VmmtestMem == ASSUME ProcessInv, MemInv, cmd_vmmtest PROVE MemStep
<1>1. PICK k \in kthread_create(tasks, mem, "zero_test") :
        /\ CountTask(k)
        /\ \/ /\ k.ret = -1 /\ tasks' = k.tasks /\ mem' = VmmtestMemory(k.mem)
              /\ UNCHANGED <<current_task, cr3, esp0>>
           \/ k.ret # -1 /\ sched_yield(k.tasks, k.mem)
    BY DEF cmd_vmmtest
<1>2. UNCHANGED processes
    BY DEF cmd_vmmtest
<1>3. "zero_test" \in Entries
    BY ProcessAssumption
<1>4. /\ Leaving(k.tasks) /\ k.tasks[current_task] = tasks[current_task]
      /\ \/ k.ret = -1 /\ k.slot = 0 /\ SameBut(tasks, k.tasks, {})
         \/ /\ k.ret = next_task_id /\ k.slot \in Slots \ {0, current_task}
            /\ ~Alive(tasks, k.slot)
            /\ k.tasks[k.slot].state = TASK_RUNNABLE
            /\ k.tasks[k.slot].id = next_task_id
            /\ k.tasks[k.slot].entry = "zero_test"
            /\ SameBut(tasks, k.tasks, {k.slot})
    BY <1>3, Running, Created
<1>5. ThreadMade(k, processes, {})
  <2>1. TablesOK(tasks, processes, pc, next_task_id, next_pid) /\ next_task_id \in Nat
        /\ OwnOK(tasks, processes, mem, {}) /\ Ready(tasks)
    BY Running DEF MemInv
  <2> QED BY <2>1, ThreadOwned
<1>6. OwnOK(k.tasks, processes, k.mem, {}) /\ Ready(k.tasks)
    BY <1>5 DEF ThreadMade
<1>7. CASE /\ tasks' = k.tasks /\ mem' = VmmtestMemory(k.mem)
           /\ UNCHANGED <<current_task, cr3, esp0>>
  <2>1. OwnOK(k.tasks, processes, VmmtestMemory(k.mem), {})
    BY <1>6, Running, VmmtestOwned
  <2>2. OwnOK(tasks', processes', mem', {}) /\ Ready(tasks')
    BY <1>2, <1>6, <1>7, <2>1
  <2>3. tasks'[current_task] = tasks[current_task]
    BY <1>4, <1>7
  <2> QED BY <1>7, <2>2, <2>3, StayStep
<1>8. CASE k.ret # -1 /\ sched_yield(k.tasks, k.mem)
  <2>1. /\ k.slot \in Slots \ {0} /\ ~Alive(tasks, k.slot)
        /\ k.tasks[k.slot].state = TASK_RUNNABLE /\ k.tasks[k.slot].id = next_task_id
        /\ k.tasks[k.slot].entry # "user_exec_task"
        /\ SameBut(tasks, k.tasks, {k.slot})
    BY <1>4, <1>8
  <2>2. k.tasks \in [Slots -> Task] /\ TablesOK(tasks, processes, pc, next_task_id, next_pid)
    BY <1>4, Running DEF Leaving
  <2>3. TablesOK(k.tasks, processes, [pc EXCEPT ![k.slot] = At("start")], next_task_id + 1, next_pid)
    BY <2>1, <2>2, KernelThreadAdded
  <2> DEFINE p == [pc EXCEPT ![k.slot] = At("start")]
             n == next_task_id + 1
  <2>4. TablesOK(k.tasks, processes', p, n, next_pid) /\ OwnOK(k.tasks, processes', k.mem, {})
    BY <1>2, <1>6, <2>3
  <2> HIDE DEF p, n
  <2>5. /\ Loaded(k.tasks, current_task, cr3, esp0)
        /\ k.tasks[current_task].stack = tasks[current_task].stack
        /\ k.tasks[current_task].address_space = tasks[current_task].address_space
    BY <1>4 DEF MemInv, Loaded
  <2> QED BY <1>4, <1>6, <1>8, <2>4, <2>5, YieldStep
<1> QED BY <1>1, <1>7, <1>8

\* The rest of cmd_vmmtest.
LEMMA VmmtestResumedMem == ASSUME ProcessInv, MemInv, VmmtestResumed PROVE MemStep
<1>1. /\ mem' = VmmtestMemory(mem)
      /\ UNCHANGED <<tasks, current_task, cr3, esp0, processes>>
    BY DEF VmmtestResumed
<1>2. OwnOK(tasks, processes, VmmtestMemory(mem), {})
    BY Running, VmmtestOwned DEF MemInv
<1>3. OwnOK(tasks', processes', mem', {}) /\ Ready(tasks')
    BY <1>1, <1>2 DEF MemInv
<1> QED BY <1>1, <1>3, StayStep

\* A spawn from the kernel shell.
LEMMA UserspawnMem ==
    ASSUME ProcessInv, MemInv, NEW path \in Paths, cmd_userspawn(path) PROVE MemStep
<1>1. PICK r \in user_spawn(path) : Spawned(r) /\ tasks' = r.tasks /\ mem' = r.mem
    BY DEF cmd_userspawn
<1>2. current_task = 0 /\ UNCHANGED <<current_task, cr3, esp0>>
    BY DEF cmd_userspawn
<1>3. GoodCaller
    BY <1>2, TaskZeroCaller DEF GoodCaller
<1> QED BY <1>1, <1>2, <1>3, SpawnMem

\* A spawn from a process.
LEMMA SysSpawnMem ==
    ASSUME ProcessInv, MemInv, NEW path \in Paths, sys_spawn(path) PROVE MemStep
<1>1. PICK r \in user_spawn(path) : Spawned(r) /\ tasks' = r.tasks /\ mem' = r.mem
    BY DEF sys_spawn
<1>2. UNCHANGED <<current_task, cr3, esp0>>
    BY DEF sys_spawn
<1>3. GoodCaller
    BY UserCaller DEF GoodCaller, sys_spawn
<1> QED BY <1>1, <1>2, <1>3, SpawnMem

\* A thread ends, after what it did to the records and to memory.
LEMMA ThreadEndsMem ==
    ASSUME ProcessInv, MemInv, current_task # 0, NEW m, ThreadEnds(tasks, m),
           RecordsOK(processes', next_task_id, next_pid), ParentsOK(processes'),
           RecordsWithout(processes, processes', tasks[current_task].id),
           OwnOK(tasks, processes', m, {})
    PROVE  MemStep
<1> DEFINE s == [tasks EXCEPT ![current_task].state = TASK_ZOMBIE]
           p == [pc EXCEPT ![current_task] = At("none")]
           ps == processes'
<1>1. sched_yield(s, m)
    BY Zenon DEF ThreadEnds, kthread_exit
<1>2. /\ current_task \in Slots \ {0} /\ Alive(tasks, current_task) /\ Leaving(tasks)
      /\ TablesOK(tasks, processes, pc, next_task_id, next_pid)
      /\ tasks \in [Slots -> Task] /\ tasks[current_task].state = TASK_RUNNING
    BY Running
<1>3. /\ TablesOK(s, processes', p, next_task_id, next_pid)
      /\ s \in [Slots -> Task] /\ s[current_task].state = TASK_ZOMBIE
      /\ \A l \in Slots \ {current_task} : s[l] = tasks[l]
    BY <1>2, ThreadEnded
<1>4. OwnOK(s, ps, m, {}) /\ Ready(s) /\ Loaded(s, current_task, cr3, esp0) /\ Stays(tasks, s)
  <2>1. /\ OwnOK(tasks, ps, m, {}) /\ Ready(tasks) /\ Loaded(tasks, current_task, cr3, esp0)
        /\ s = [tasks EXCEPT ![current_task].state = TASK_ZOMBIE]
    BY DEF MemInv
  <2> HIDE DEF s, ps
  <2> QED BY <1>2, <2>1, EndOwned
<1> HIDE DEF s, p
<1>5. Leaving(s)
    BY <1>2, <1>3 DEF Leaving
<1> QED BY <1>1, <1>3, <1>4, <1>5, YieldStep DEF Stays

\* The thread of cmd_vmmtest.
LEMMA ZeroTestMem == ASSUME ProcessInv, MemInv, sched_zero_address_space_test PROVE MemStep
<1>1. /\ UNCHANGED processes
      /\ pc[current_task].at = "start" /\ tasks[current_task].entry = "zero_test"
      /\ ThreadEnds(tasks, mem)
    BY DEF sched_zero_address_space_test, sched_set_current_address_space, SpaceRefused
<1>2. current_task # 0 /\ \A i \in LiveIn(processes) : processes[i].task_id # tasks[current_task].id
    BY <1>1, Running, CallerFound DEF TablesOK, ThreadsOK
<1>3. RecordsOK(processes', next_task_id, next_pid) /\ ParentsOK(processes')
    BY <1>1, Running DEF TablesOK
<1>4. RecordsWithout(processes, processes', tasks[current_task].id)
    BY <1>1, <1>2 DEF RecordsWithout, LiveIn
<1>5. OwnOK(tasks, processes', mem, {})
    BY <1>1 DEF MemInv
<1> QED BY <1>1, <1>2, <1>3, <1>4, <1>5, ThreadEndsMem

\* The yield of the kernel shell.
LEMMA CmdYieldMem == ASSUME ProcessInv, MemInv, cmd_yield PROVE MemStep
<1>1. sched_yield(tasks, mem) /\ UNCHANGED processes
    BY DEF cmd_yield
<1> QED BY <1>1, YieldMem

\* The yield of a process.
LEMMA SysYieldMem == ASSUME ProcessInv, MemInv, sys_yield PROVE MemStep
<1>1. sched_yield(tasks, mem) /\ UNCHANGED processes
    BY DEF sys_yield, processVars
<1> QED BY <1>1, YieldMem

\* Keys touch no memory.
LEMMA KeysMem == ASSUME ProcessInv, MemInv, UNCHANGED <<schedVars, processes>> PROVE MemStep
<1>1. UNCHANGED <<tasks, mem, current_task, cr3, esp0>> /\ OwnOK(tasks, processes', mem, {})
    BY DEF schedVars, MemInv
<1> QED BY <1>1, StillMem

\* What a thread that starts finds: its record, its directory, and nothing mapped in it.
LEMMA ProgramPrepared ==
    ASSUME ProcessInv, MemInv, NEW c \in LiveIn(processes),
           processes[c].state = USER_PROCESS_CREATED
    PROVE  Prepared(mem, user_prepare_exec(mem, processes[c]), Dirs(tasks, processes) \cup {},
                    Progs(processes), processes[c])
<1> DEFINE D == Dirs(tasks, processes) \cup {}
           p == processes[c]
<1>1. OwnOK(tasks, processes, mem, {}) /\ processes \in [Records -> UserProcess]
    BY Running DEF MemInv
<1>2. /\ Sees(mem, p.address_space) = NoMappings /\ p.address_space \in D
      /\ p.pages = NoPages
    BY <1>1, CreatedSeesNothing
<1>3. p \in UserProcess
    BY <1>1 DEF LiveIn
<1>4. MemOK(mem, D, Progs(processes))
    BY <1>1 DEF OwnOK
<1> HIDE DEF D, p
<1>5. Prepared(mem, user_prepare_exec(mem, p), D, Progs(processes), p)
    BY <1>2, <1>3, <1>4, ProgramLoaded
<1> QED BY <1>5 DEF D, p

\* A spawn that is undone gives back all it took.
LEMMA UndoSpawnMem ==
    ASSUME ProcessInv, MemInv, NEW r, UndoSpawn(r), r.ret # 0,
           current_task # 0, Caller \in Records, Caller # NULL,
           processes[Caller].state = USER_PROCESS_CREATED,
           processes[Caller].task_id = tasks[current_task].id,
           r = user_prepare_exec(mem, processes[Caller]),
           UNCHANGED <<next_task_id, next_pid>>
    PROVE  MemStep
<1> DEFINE c == Caller
           gone == processes'
           m == vmm_destroy_address_space(r.mem, processes[c].address_space)
<1>1. /\ processes' = [processes EXCEPT ![Caller] = FreeRecord]
      /\ ThreadEnds(tasks, vmm_destroy_address_space(r.mem, r.proc.address_space))
    BY DEF UndoSpawn, user_process_release
<1>2. /\ RecordsOK(processes, next_task_id, next_pid) /\ ParentsOK(processes)
      /\ processes \in [Records -> UserProcess]
    BY Running DEF TablesOK
<1>3. /\ gone \in [Records -> UserProcess] /\ gone[c] = FreeRecord
      /\ \A j \in Records \ {c} : gone[j] = processes[j]
      /\ processes[c].state # USER_PROCESS_RUNNING
    BY <1>1, <1>2, FreeIsRecord DEF USER_PROCESS_CREATED, USER_PROCESS_RUNNING
<1>4. /\ RecordsOK(gone, next_task_id, next_pid) /\ ParentsOK(gone)
      /\ LiveIn(gone) = LiveIn(processes) \ {c}
    BY <1>2, <1>3, Released
<1>5. LiveIn(processes) \subseteq Records /\ c \in LiveIn(processes)
    BY DEF LiveIn, USER_PROCESS_FREE, USER_PROCESS_CREATED
<1>6. RecordsWithout(processes, gone, tasks[current_task].id)
  <2>1. \A i \in LiveIn(processes) : processes[i].task_id = tasks[current_task].id => i = c
    BY <1>2, <1>5 DEF RecordsOK
  <2> QED BY <1>3, <1>4, <1>5, <2>1 DEF RecordsWithout
<1>7. Prepared(mem, r, Dirs(tasks, processes) \cup {}, Progs(processes), processes[c])
    BY <1>5, ProgramPrepared
<1>8. /\ r.proc.address_space = processes[c].address_space
      /\ MemOK(r.mem, Dirs(tasks, processes) \cup {}, Progs(processes))
      /\ r.mem.stacks = mem.stacks
      /\ SeeTheSame(mem, r.mem, Roots(Dirs(tasks, processes) \cup {}) \ {processes[c].address_space})
      /\ Sees(r.mem, processes[c].address_space) = NoMappings
    BY <1>7 DEF Prepared
<1>9. ThreadEnds(tasks, m)
    BY <1>1, <1>8
<1>10. OwnOK(tasks, processes, mem, {}) /\ processes[c].state = USER_PROCESS_CREATED
    BY DEF MemInv
<1> DEFINE x == r.mem
<1> HIDE DEF c, gone, x
<1>11. OwnOK(tasks, processes, x, {})
    BY <1>2, <1>5, <1>8, <1>10, LoadFailed DEF x
<1>12. OwnOK(tasks, gone, vmm_destroy_address_space(x, processes[c].address_space), {})
    BY <1>2, <1>3, <1>5, <1>10, <1>11, UndoOwned
<1>13. OwnOK(tasks, gone, m, {})
    BY <1>12 DEF x
<1> HIDE DEF m
<1> QED BY <1>4, <1>6, <1>9, <1>13, ThreadEndsMem DEF gone

\* A thread that has just adopted the directory of its process runs in it.
LEMMA ExecLoaded ==
    ASSUME NEW t \in [Slots -> Task], NEW s, NEW k \in Used(t) \ {0}, NEW d, NEW b,
           Adopts(t, s, k, d), \A l \in Slots : s[l].state = t[l].state
                                               /\ s[l].stack_pointer = t[l].stack_pointer,
           Ready(t), Loaded(t, k, kernel_page_directory, b)
    PROVE  Ready(s) /\ Loaded(s, k, d, b)
BY DEF Adopts, Ready, Loaded

\* What sched_set_current_address_space does to the table and the CPU.
LEMMA SpaceSet ==
    ASSUME tasks \in [Slots -> Task], current_task \in Used(tasks) \ {0}, NEW d, d # NULL,
           NEW s, s = sched_set_current_address_space(tasks, d)
    PROVE  /\ Adopts(tasks, s, current_task, d) /\ LoadedDirectory(d) = d
           /\ \A l \in Slots : s[l].state = tasks[l].state
                               /\ s[l].stack_pointer = tasks[l].stack_pointer
<1> DEFINE k == current_task
           task == [tasks[k] EXCEPT !.address_space = d]
<1>1. k # 0 /\ k \in Used(tasks) /\ k \in Slots /\ tasks[k] \in Task
    BY DEF Used
<1>2. s = [tasks EXCEPT ![k] = task] /\ LoadedDirectory(d) = d
    BY <1>1 DEF sched_set_current_address_space, LoadedDirectory, SpaceRefused
<1>3. /\ task.address_space = d /\ task.stack = tasks[k].stack /\ task.state = tasks[k].state
      /\ task.id = tasks[k].id /\ task.stack_pointer = tasks[k].stack_pointer
    BY <1>1 DEF Task
<1> HIDE DEF task, k
<1>4. s[k] = task /\ \A l \in Slots \ {k} : s[l] = tasks[l]
    BY <1>1, <1>2
<1>5. \A l \in Slots : /\ s[l].state = tasks[l].state /\ s[l].id = tasks[l].id
                        /\ s[l].stack = tasks[l].stack
                        /\ s[l].stack_pointer = tasks[l].stack_pointer
    BY <1>3, <1>4
<1>6. Used(s) = Used(tasks) /\ Used(tasks) \subseteq Slots /\ 0 \in Slots
    BY <1>5, SlotsNat DEF Used
<1>7. s[k].address_space = d /\ \A l \in Used(tasks) \ {k} : s[l].address_space = tasks[l].address_space
    BY <1>3, <1>4, <1>6
<1>8. Adopts(tasks, s, k, d)
    BY <1>5, <1>6, <1>7 DEF Adopts
<1> QED BY <1>2, <1>5, <1>8 DEF k

\* user_exec_task, when the program loads: the thread leaves the kernel's
\* directory, which is not freed, for its own.
LEMMA ExecMem ==
    ASSUME ProcessInv, MemInv, NEW c \in Records, processes[c].state = USER_PROCESS_CREATED,
           processes[c].task_id = tasks[current_task].id, current_task # 0,
           NEW r, r = user_prepare_exec(mem, processes[c]), r.ret = 0,
           processes' = [processes EXCEPT ![c] = [r.proc EXCEPT !.state = USER_PROCESS_RUNNING]],
           tasks' = sched_set_current_address_space(tasks, r.proc.address_space),
           cr3' = LoadedDirectory(r.proc.address_space), mem' = r.mem,
           UNCHANGED <<current_task, esp0>>
    PROVE  MemStep
<1> DEFINE d == processes[c].address_space
           new == [r.proc EXCEPT !.state = USER_PROCESS_RUNNING]
           k == current_task
           s == tasks'
           ran == processes'
           D == Dirs(tasks, processes) \cup {}
<1>1. /\ processes \in [Records -> UserProcess] /\ tasks \in [Slots -> Task]
      /\ OwnOK(tasks, processes, mem, {}) /\ Ready(tasks)
      /\ Loaded(tasks, current_task, cr3, esp0)
    BY Running DEF MemInv
<1>2. c \in LiveIn(processes) /\ processes[c] \in UserProcess
    BY <1>1 DEF LiveIn, USER_PROCESS_CREATED, USER_PROCESS_FREE
<1>3. k \in Used(tasks) \ {0}
    BY Running DEF Used, TASK_RUNNING, TASK_UNUSED
<1>4. \A i \in LiveIn(processes) : processes[i].task_id = processes[c].task_id => i = c
    BY <1>2, Running DEF TablesOK, RecordsOK
<1>5. r.proc \in UserProcess /\ r.proc.address_space = d
    BY <1>2, PreparedRecord
<1>6. Prepared(mem, r, D, Progs(processes), processes[c])
    BY <1>2, ProgramPrepared
<1>7. /\ new.state = USER_PROCESS_RUNNING /\ new.address_space = d
      /\ new.pages = r.proc.pages
    BY <1>5 DEF UserProcess
<1>8. ran[c] = new /\ \A j \in Records \ {c} : ran[j] = processes[j]
    BY <1>1
<1>9. d \in Pages /\ d # NULL
    BY <1>1, <1>2, RunningSpace, PagesNat DEF OwnOK
<1>10. s = sched_set_current_address_space(tasks, d) /\ cr3' = LoadedDirectory(d)
    BY <1>5
<1> HIDE DEF new, s, ran, k, d, D
<1>11. Adopts(tasks, s, k, d) /\ cr3' = d /\ \A l \in Slots : s[l].state = tasks[l].state
                                        /\ s[l].stack_pointer = tasks[l].stack_pointer
    BY <1>1, <1>3, <1>9, <1>10, SpaceSet DEF k
<1>12. tasks[k].address_space = kernel_page_directory
    BY <1>1, <1>2, <1>3 DEF OwnOK, OwnersOK, NotAdopted, k
<1>13. cr3 = kernel_page_directory
    BY <1>1, <1>12 DEF Loaded, k
<1>14. OwnOK(s, ran, r.mem, {})
  <2>1. Adopts(tasks, s, k, processes[c].address_space)
        /\ new.address_space = processes[c].address_space
        /\ tasks[k].id = processes[c].task_id
        /\ Prepared(mem, r, Dirs(tasks, processes) \cup {}, Progs(processes), processes[c])
    BY <1>6, <1>7, <1>11 DEF d, k, D
  <2> QED BY <1>1, <1>2, <1>3, <1>4, <1>7, <1>8, <2>1, ExecOwned
<1>15. Ready(s) /\ Loaded(s, k, d, esp0)
    BY <1>1, <1>3, <1>11, <1>13, ExecLoaded DEF k
<1>16. MemInv'
  <2>1. OwnOK(tasks', processes', mem', {}) /\ Ready(tasks')
        /\ Loaded(tasks', current_task', cr3', esp0')
    BY <1>11, <1>14, <1>15 DEF s, ran, k
  <2> QED BY <2>1 DEF MemInv
<1>17. KeepsFooting
  <2>1. r.mem.stacks = mem.stacks
    BY <1>6 DEF Prepared
  <2>2. tasks[k].stack \in mem.stacks
    BY <1>1, <1>3 DEF OwnOK, StacksOK
  <2> QED BY <1>13, <2>1, <2>2 DEF KeepsFooting, k
<1> QED BY <1>16, <1>17 DEF MemStep

\* user_exec_task, however it ends.
LEMMA UserExecMem == ASSUME ProcessInv, MemInv, user_exec_task PROVE MemStep
<1> DEFINE c == Caller
           r == user_prepare_exec(mem, processes[c])
<1>1. pc[current_task].at = "start" /\ tasks[current_task].entry = "user_exec_task"
      /\ UNCHANGED <<next_task_id, next_pid, keys, userland_active>>
    BY DEF user_exec_task
<1>2. /\ current_task \in Slots \ {0}
      /\ c \in Records /\ c # NULL /\ processes[c].state = USER_PROCESS_CREATED
      /\ processes[c].task_id = tasks[current_task].id
  <2>1. current_task # 0
    BY <1>1, Running DEF TablesOK, ThreadsOK
  <2> QED BY <1>1, <2>1, Running, CallerFound DEF Caller
<1>3. \/ r.ret # 0 /\ UndoSpawn(r)
      \/ /\ r.ret = 0
         /\ processes' = [processes EXCEPT ![c] = [r.proc EXCEPT !.state = USER_PROCESS_RUNNING]]
         /\ tasks' = sched_set_current_address_space(tasks, r.proc.address_space)
         /\ cr3' = LoadedDirectory(r.proc.address_space) /\ mem' = r.mem
         /\ UNCHANGED <<current_task, esp0>>
  <2>1. LoadedProgram = r
    BY <1>2, LoadedIsPrepared
  <2> HIDE DEF r
  <2> QED BY <1>2, <2>1, Zenon DEF user_exec_task
<1>4. r = user_prepare_exec(mem, processes[c])
    OBVIOUS
<1> HIDE DEF r
<1>5. CASE r.ret # 0 /\ UndoSpawn(r)
    BY <1>1, <1>2, <1>4, <1>5, UndoSpawnMem
<1>6. CASE /\ r.ret = 0
           /\ processes' = [processes EXCEPT ![c] = [r.proc EXCEPT !.state = USER_PROCESS_RUNNING]]
           /\ tasks' = sched_set_current_address_space(tasks, r.proc.address_space)
           /\ cr3' = LoadedDirectory(r.proc.address_space) /\ mem' = r.mem
           /\ UNCHANGED <<current_task, esp0>>
  <2> HIDE DEF c
  <2> QED BY <1>2, <1>4, <1>6, ExecMem
<1> QED BY <1>3, <1>5, <1>6

\* An exit releases records that have exited, and moves no other process's memory.
LEMMA ExitDrops ==
    ASSUME ProcessInv, Caller \in Records, processes[Caller].state = USER_PROCESS_RUNNING,
           NEW base, base[Caller] = ExitedRecord(processes[Caller]),
           \A j \in Records \ {Caller} : base[j] = processes[j]
    PROVE  Drops(base, user_exit_current.processes)
<1> DEFINE gone == user_exit_current.processes
           c == Caller
           self == processes[c]
<1>1. RecordsOK(processes, next_task_id, next_pid) /\ ParentsOK(processes)
      /\ processes \in [Records -> UserProcess]
    BY Running DEF TablesOK
<1>2. /\ gone[c] = IF self.parent_pid = USER_PROCESS_NO_PARENT
                   THEN FreeRecord ELSE ExitedRecord(self)
      /\ \A j \in Records \ {c} :
            gone[j] = IF \/ processes[j].state = USER_PROCESS_FREE
                         \/ processes[j].parent_pid # self.pid
                      THEN processes[j]
                      ELSE IF processes[j].state = USER_PROCESS_EXITED THEN FreeRecord
                      ELSE Orphaned(processes[j])
    BY <1>1, ExitOutcome
<1>3. base[c].state = USER_PROCESS_EXITED
    BY <1>1, ExitedIsRecord
<1> HIDE DEF gone, c
<1>4. ASSUME NEW j \in Records
      PROVE  LET o == Orphaned(processes[j])
             IN  /\ o.state = processes[j].state /\ o.task_id = processes[j].task_id
                 /\ o.address_space = processes[j].address_space
                 /\ o.pages = processes[j].pages
  <2>1. processes[j] \in UserProcess
    BY <1>1
  <2> QED BY <2>1 DEF Orphaned, UserProcess
<1>5. ASSUME NEW j \in Records
      PROVE  \/ gone[j] = base[j]
             \/ /\ gone[j].state = base[j].state /\ gone[j].task_id = base[j].task_id
                /\ gone[j].address_space = base[j].address_space /\ gone[j].pages = base[j].pages
             \/ base[j].state = USER_PROCESS_EXITED /\ gone[j].state = USER_PROCESS_FREE
  <2>1. CASE j = c
    BY <1>2, <1>3, <2>1, FreeIsRecord DEF c
  <2>2. CASE j # c
    <3>1. base[j] = processes[j]
      BY <2>2 DEF c
    <3>2. \/ gone[j] = processes[j]
          \/ processes[j].state = USER_PROCESS_EXITED /\ gone[j] = FreeRecord
          \/ gone[j] = Orphaned(processes[j])
      BY <1>2, <2>2
    <3> QED BY <1>4, <3>1, <3>2, FreeIsRecord
  <2> QED BY <2>1, <2>2
<1>6. Drops(base, gone)
    BY <1>5 DEF Drops
<1> QED BY <1>6 DEF gone

\* A process that exits leaves its directory to its thread until it is reaped.
LEMMA SysExitMem == ASSUME ProcessInv, MemInv, sys_exit PROVE MemStep
<1> DEFINE m == user_process_free_pages(mem, processes[Caller]).mem
           base == [processes EXCEPT ![Caller] = ExitedRecord(processes[Caller])]
<1>1. pc[current_task].at = "user" /\ UNCHANGED <<next_task_id, next_pid>>
    BY DEF sys_exit
<1>2. /\ current_task # 0 /\ Caller \in Records /\ Caller # NULL
      /\ processes[Caller].state = USER_PROCESS_RUNNING
      /\ processes[Caller].task_id = tasks[current_task].id
    BY <1>1, UserCaller
<1>3. processes' = user_exit_current.processes /\ ThreadEnds(tasks, user_exit_current.mem)
    BY <1>2, Zenon DEF sys_exit
<1>4. user_exit_current.mem = m
    BY DEF user_exit_current
<1>5. RecordsOK(processes, next_task_id, next_pid) /\ ParentsOK(processes)
      /\ processes \in [Records -> UserProcess] /\ OwnOK(tasks, processes, mem, {})
    BY Running DEF TablesOK, MemInv
<1>6. /\ RecordsOK(processes', next_task_id, next_pid) /\ ParentsOK(processes')
      /\ RecordsWithout(processes, processes', tasks[current_task].id)
    BY <1>2, <1>3, <1>5, ExitKeepsRecords
<1>7. /\ base[Caller] = ExitedRecord(processes[Caller])
      /\ \A j \in Records \ {Caller} : base[j] = processes[j]
    BY <1>2, <1>5
<1> HIDE DEF base
<1>8. Drops(base, user_exit_current.processes)
    BY <1>2, <1>7, ExitDrops
<1>9. current_task \in Used(tasks) /\ tasks[current_task].address_space = processes[Caller].address_space
  <2>1. Runs(tasks, pc, current_task, processes[Caller])
    <3>1. tasks[current_task].entry = "user_exec_task"
      BY <1>1, Running DEF TablesOK, ThreadsOK
    <3> QED BY <3>1, Running, CallerFound DEF Caller
  <2> QED BY <1>2, <2>1, Running DEF Runs, Used, TASK_RUNNING, TASK_UNUSED
<1>10. OwnOK(tasks, base, m, {})
  <2> DEFINE c == Caller
  <2>1. c \in Records /\ processes[c].state = USER_PROCESS_RUNNING
        /\ tasks[current_task].address_space = processes[c].address_space
        /\ base[c] = ExitedRecord(processes[c])
        /\ \A j \in Records \ {c} : base[j] = processes[j]
    BY <1>2, <1>7, <1>9
  <2> HIDE DEF c
  <2>2. OwnOK(tasks, base, user_process_free_pages(mem, processes[c]).mem, {})
    BY <1>5, <1>9, <2>1, ExitOwned
  <2> QED BY <2>2 DEF c
<1> HIDE DEF m
<1>11. OwnOK(tasks, processes', m, {})
    BY <1>3, <1>8, <1>10, RecordsDropped
<1> QED BY <1>2, <1>3, <1>4, <1>6, <1>11, ThreadEndsMem

\* A round of user_wait: the record of a child that exited owns nothing.
LEMMA UserWaitMem ==
    ASSUME ProcessInv, MemInv, NEW pid \in Nat, user_wait(pid)
    PROVE  MemStep
<1> DEFINE child == user_process_find_by_pid(processes, pid)
<1>1. \/ UNCHANGED <<tasks, mem, current_task, cr3, esp0, processes>>
      \/ /\ child # NULL /\ processes[child].state = USER_PROCESS_EXITED
         /\ processes' = [processes EXCEPT ![child] = FreeRecord]
         /\ UNCHANGED <<tasks, mem, current_task, cr3, esp0>>
      \/ sched_yield(tasks, mem) /\ UNCHANGED processes
    BY DEF user_wait, IsChildOfCaller, user_process_release
<1> HIDE DEF child
<1>2. OwnOK(tasks, processes, mem, {}) /\ processes \in [Records -> UserProcess]
    BY Running DEF MemInv
<1>3. CASE UNCHANGED <<tasks, mem, current_task, cr3, esp0, processes>>
    BY <1>2, <1>3, StillMem
<1>4. CASE /\ child # NULL /\ processes[child].state = USER_PROCESS_EXITED
           /\ processes' = [processes EXCEPT ![child] = FreeRecord]
           /\ UNCHANGED <<tasks, mem, current_task, cr3, esp0>>
  <2>1. child \in Records
    BY <1>4, FoundByPid DEF child, LiveIn
  <2>2. Drops(processes, processes')
    BY <1>2, <1>4, <2>1, FreeIsRecord DEF Drops
  <2>3. OwnOK(tasks, processes', mem, {})
    BY <1>2, <2>2, RecordsDropped
  <2> QED BY <1>4, <2>3, StillMem
<1>5. CASE sched_yield(tasks, mem) /\ UNCHANGED processes
    BY <1>5, YieldMem
<1> QED BY <1>1, <1>3, <1>4, <1>5

\* sys_wait.
LEMMA SysWaitMem == ASSUME ProcessInv, MemInv, sys_wait PROVE MemStep
<1>1. pc[current_task].pid \in Nat /\ 1 .. MaxPid \subseteq Nat
    BY Running, ProcessAssumption DEF TablesOK, ThreadsOK, Positions
<1>2. \E pid \in Nat : user_wait(pid)
    BY <1>1, Zenon DEF sys_wait
<1> QED BY <1>2, UserWaitMem

\* Every step leaves each page, directory and stack with its owner, and takes none
\* from under the task that runs.
LEMMA ProcessMem == ASSUME ProcessInv, MemInv, ProcessNext PROVE MemStep
<1>1. CASE TaskZero
    BY <1>1, UserInitMem, InitLoopMem, CmdYieldMem, VmmtestMem, VmmtestResumedMem, UserspawnMem
       DEF TaskZero
<1>2. CASE SysGetc \/ KeyboardIrq
  <2>1. UNCHANGED <<schedVars, processes>>
    BY <1>2 DEF SysGetc, KeyboardIrq
  <2> QED BY <2>1, KeysMem
<1>3. CASE Thread
    BY <1>2, <1>3, UserExecMem, ZeroTestMem, SysYieldMem, SysExitMem, SysWaitMem, SysSpawnMem
       DEF Thread
<1> QED BY <1>1, <1>2, <1>3 DEF ProcessNext

\* Nothing is allocated at boot.
LEMMA MemoryBoot == ASSUME ProcessInit PROVE MemInv
<1>1. /\ tasks = [i \in Slots |-> IF i = 0 THEN BootTask ELSE UnusedTask]
      /\ current_task = 0 /\ mem = BootMemory /\ cr3 = kernel_page_directory /\ esp0 = NULL
      /\ processes = [i \in Records |-> FreeRecord]
    BY DEF ProcessInit, sched_init
<1>2. /\ BootTask.state = TASK_RUNNING /\ BootTask.address_space = kernel_page_directory
      /\ BootTask.stack = NULL /\ UnusedTask.state = TASK_UNUSED
    BY DEF BootTask, UnusedTask
<1> HIDE DEF BootTask, UnusedTask
<1>3. tasks[0] = BootTask /\ \A k \in Slots \ {0} : tasks[k] = UnusedTask
    BY <1>1, SlotsNat
<1>4. Used(tasks) = {0}
    BY <1>2, <1>3, SlotsNat DEF Used, TASK_RUNNING, TASK_UNUSED
<1>5. LiveIn(processes) = {}
    BY <1>1, FreeIsRecord DEF LiveIn
<1>6. Dirs(tasks, processes) = {} /\ Progs(processes) = {}
  <2>1. \A d : d \notin Dirs(tasks, processes)
    BY <1>2, <1>3, <1>4, <1>5, DirsOf
  <2>2. \A x : x \notin Progs(processes)
    BY <1>5, ProgsOf
  <2> QED BY <2>1, <2>2
<1>7. /\ mem \in MemoryType /\ mem.used = {} /\ mem.heap = {} /\ mem.stacks = {}
      /\ \A d \in Directories : mem.pde[d] = ABSENT
    BY <1>1 DEF BootMemory, MemoryType, NoMappings, ABSENT
<1>8. MemOK(mem, {}, {}) /\ kernel_page_directory \in Directories
    BY <1>7 DEF MemOK, Roots, Directories
<1>9. OwnersOK(tasks, processes)
    BY <1>2, <1>3, <1>4, <1>5, MemoryAssumption DEF kernel_page_directory, NULL, OwnersOK, TasksHold, RecordsHold, NotAdopted
<1>10. StacksOK(tasks, mem)
    BY <1>2, <1>3, <1>4, <1>7 DEF StacksOK
<1>11. Contents(mem, processes, {})
    BY <1>5, <1>7, <1>8 DEF Contents, Roots, Sees
<1>12. OwnOK(tasks, processes, mem, {})
    BY <1>6, <1>8, <1>9, <1>10, <1>11 DEF OwnOK
<1>13. Ready(tasks)
    BY <1>2, <1>3 DEF Ready, TASK_RUNNING, TASK_RUNNABLE, TASK_UNUSED
<1>14. Loaded(tasks, current_task, cr3, esp0)
    BY <1>1, <1>2, <1>3 DEF Loaded
<1> QED BY <1>12, <1>13, <1>14 DEF MemInv

-----------------------------------------------------------------------------
(* What the memory's invariant says *)

\* Sets of the same size: every element of T is the image of one of S.
LEMMA SameSize ==
    ASSUME NEW S, NEW T, IsFiniteSet(T), NEW f \in [S -> T],
           \A a, b \in S : f[a] = f[b] => a = b, \A y \in T : \E x \in S : f[x] = y
    PROVE  Cardinality(S) = Cardinality(T)
<1>1. f \in Injection(S, T)
    BY DEF Injection, IsInjective
<1>2. f \in Surjection(S, T)
    BY DEF Surjection
<1> QED BY <1>1, <1>2, FS_Injection

\* The size of two sets that share nothing.
LEMMA DisjointSize ==
    ASSUME NEW S, NEW T, IsFiniteSet(S), IsFiniteSet(T), S \cap T = {}
    PROVE  IsFiniteSet(S \cup T) /\ Cardinality(S \cup T) = Cardinality(S) + Cardinality(T)
<1>1. /\ IsFiniteSet(S \cup T)
      /\ Cardinality(S \cup T) = Cardinality(S) + Cardinality(T) - Cardinality(S \cap T)
    BY FS_Union
<1>2. Cardinality(S \cap T) = 0
    BY FS_EmptySet
<1>3. Cardinality(S) \in Nat /\ Cardinality(T) \in Nat
    BY FS_CardinalityType
<1> QED BY <1>1, <1>2, <1>3

\* The size of memory in use, by what it is used for.
LEMMA FourSizes ==
    ASSUME NEW H, NEW D, NEW P, NEW G, IsFiniteSet(H), IsFiniteSet(D), IsFiniteSet(P),
           IsFiniteSet(G), H \cap D = {}, (H \cup D) \cap P = {}, (H \cup D \cup P) \cap G = {}
    PROVE  Cardinality(H \cup D \cup P \cup G) =
              Cardinality(H) + Cardinality(D) + Cardinality(P) + Cardinality(G)
<1>1. /\ IsFiniteSet(H \cup D)
      /\ Cardinality(H \cup D) = Cardinality(H) + Cardinality(D)
    BY DisjointSize
<1>2. /\ IsFiniteSet((H \cup D) \cup P)
      /\ Cardinality((H \cup D) \cup P) = Cardinality(H \cup D) + Cardinality(P)
  <2> DEFINE S == H \cup D
  <2>1. IsFiniteSet(S) /\ S \cap P = {}
    BY <1>1
  <2> HIDE DEF S
  <2>2. IsFiniteSet(S \cup P) /\ Cardinality(S \cup P) = Cardinality(S) + Cardinality(P)
    BY <2>1, DisjointSize
  <2> QED BY <2>2 DEF S
<1>3. Cardinality(H \cup D \cup P \cup G) = Cardinality(H \cup D \cup P) + Cardinality(G)
  <2> DEFINE S == H \cup D \cup P
  <2>1. IsFiniteSet(S) /\ S \cap G = {}
    BY <1>2
  <2> HIDE DEF S
  <2>2. Cardinality(S \cup G) = Cardinality(S) + Cardinality(G)
    BY <2>1, DisjointSize
  <2> QED BY <2>2 DEF S
<1> QED BY <1>1, <1>2, <1>3

\* The names Process's properties use for what the tables hold.
LEMMA HeldNames ==
    /\ Live = LiveIn(processes) /\ InUse = Used(tasks)
    /\ UserDirectories = Dirs(tasks, processes)
    /\ ProgramPages = Progs(processes)
BY DEF Live, LiveIn, InUse, Used, UserDirectories, Dirs, Spaces, ProgramPages, Progs

\* Memory that is accounted for has every page counted once.
LEMMA AccountsBalance == ASSUME ProcessInv, MemInv PROVE PagesAccounted
<1> DEFINE D == Dirs(tasks, processes)
           G == Progs(processes)
           R == Roots(D)
           rooted == {d \in R : mem.pde[d] # ABSENT}
           P == {mem.pde[d] : d \in R} \ {ABSENT}
           mappings == {x \in Live \X UserPages : processes[x[1]].pages[x[2]] # NULL}
           H == mem.heap
<1>1. OwnOK(tasks, processes, mem, {}) /\ processes \in [Records -> UserProcess]
    BY Running DEF MemInv
<1>2. MemOK(mem, D, G) /\ RecordsHold(processes)
  <2>1. D \cup {} = D
    OBVIOUS
  <2> QED BY <1>1, <2>1 DEF OwnOK, OwnersOK
<1>3. UserDirectories \cup {kernel_page_directory} = R /\ PageTables = P
    BY HeldNames DEF Roots, PageTables
<1>4. mem.used \subseteq Pages /\ H \subseteq Pages /\ D \subseteq Pages /\ G \subseteq Pages
    BY <1>2, MemTypes
<1> HIDE DEF D, G, R
<1>5. P \subseteq mem.used /\ P \cap H = {} /\ P \cap D = {} /\ P \cap G = {}
    BY <1>2 DEF MemOK, R
<1>6. mem.used = H \cup D \cup P \cup G
  <2>1. \A p \in mem.used : p \in H \/ p \in D \/ p \in G \/ p \in P
    <3>1. \A p \in mem.used : p # ABSENT
      BY <1>4, PagesNat
    <3> QED BY <1>2, <3>1 DEF MemOK, R
  <2>2. H \subseteq mem.used /\ D \subseteq mem.used /\ G \subseteq mem.used
    BY <1>2 DEF MemOK
  <2> HIDE DEF H, P
  <2> QED BY <1>5, <2>1, <2>2
<1>7. IsFiniteSet(H) /\ IsFiniteSet(D) /\ IsFiniteSet(P) /\ IsFiniteSet(G)
  <2>1. IsFiniteSet(Pages)
    <3>1. 1 \in Int /\ NPages \in Int
      BY MemoryAssumption
    <3> QED BY <3>1, FS_Interval DEF Pages
  <2>2. \A S \in SUBSET Pages : IsFiniteSet(S)
    BY <2>1, FS_Subset
  <2> HIDE DEF H, P
  <2> QED BY <1>4, <1>5, <2>2
<1>8. Cardinality(mem.used) =
         Cardinality(H) + Cardinality(D) + Cardinality(P) + Cardinality(G)
  <2>1. H \cap D = {} /\ H \cap G = {} /\ D \cap G = {}
    BY <1>2 DEF MemOK
  <2> HIDE DEF H, P
  <2>2. (H \cup D) \cap P = {} /\ (H \cup D \cup P) \cap G = {}
    BY <1>5, <2>1
  <2>3. Cardinality(H \cup D \cup P \cup G) =
           Cardinality(H) + Cardinality(D) + Cardinality(P) + Cardinality(G)
    BY <1>7, <2>1, <2>2, FourSizes
  <2> QED BY <1>6, <2>3
<1>9. Cardinality(rooted) = Cardinality(P)
  <2> DEFINE f == [d \in rooted |-> mem.pde[d]]
  <2>1. f \in [rooted -> P] /\ \A y \in P : \E d \in rooted : f[d] = y
    OBVIOUS
  <2>2. \A a, b \in rooted : f[a] = f[b] => a = b
    BY <1>2 DEF MemOK, R
  <2> HIDE DEF f, rooted, P
  <2> QED BY <1>7, <2>1, <2>2, SameSize
<1>10. Cardinality(mappings) = Cardinality(G)
  <2> DEFINE f == [x \in mappings |-> processes[x[1]].pages[x[2]]]
  <2>1. \A x \in mappings : /\ x[1] \in LiveIn(processes) /\ x[2] \in UserPages /\ x = <<x[1], x[2]>>
                            /\ processes[x[1]].pages[x[2]] # NULL
    BY HeldNames
  <2>2. ASSUME NEW i \in LiveIn(processes), NEW v \in UserPages, processes[i].pages[v] # NULL
        PROVE  /\ <<i, v>> \in mappings /\ f[<<i, v>>] = processes[i].pages[v]
    BY <2>2, HeldNames
  <2>3. \A x \in mappings : f[x] = processes[x[1]].pages[x[2]]
    OBVIOUS
  <2>4. f = [x \in mappings |-> f[x]]
    BY <2>3
  <2> HIDE DEF f, mappings
  <2>5. \A x \in mappings : f[x] \in G
    BY <2>1, <2>3, ProgsOf DEF G
  <2>6. f \in [mappings -> G]
    BY <2>4, <2>5
  <2>7. \A y \in G : \E x \in mappings : f[x] = y
    <3> SUFFICES ASSUME NEW y \in G PROVE \E x \in mappings : f[x] = y
      OBVIOUS
    <3>1. y # NULL /\ \E i \in LiveIn(processes) : \E v \in UserPages : processes[i].pages[v] = y
      BY ProgsOf DEF G
    <3>2. PICK i \in LiveIn(processes) : \E v \in UserPages : processes[i].pages[v] = y
      BY <3>1
    <3>3. PICK v \in UserPages : processes[i].pages[v] = y
      BY <3>2
    <3>4. <<i, v>> \in mappings /\ f[<<i, v>>] = y
      BY <2>2, <3>1, <3>3
    <3> QED BY <3>4
  <2>8. \A a, b \in mappings : f[a] = f[b] => a = b
    BY <1>2, <2>1, <2>3 DEF RecordsHold
  <2> QED BY <1>7, <2>6, <2>7, <2>8, SameSize
<1>11. UserDirectories = D /\ ProgramPages = G
    BY HeldNames DEF D, G
<1>12. rooted = {d \in UserDirectories \cup {kernel_page_directory} : mem.pde[d] # ABSENT}
    BY <1>3
<1> HIDE DEF rooted, mappings, P, H
<1>13. mem.used = mem.heap \cup UserDirectories \cup PageTables \cup ProgramPages
    BY <1>3, <1>6, <1>11 DEF H
<1>14. Cardinality(mem.used) = Cardinality(mem.heap) + Cardinality(UserDirectories)
                               + Cardinality(rooted) + Cardinality(mappings)
    BY <1>8, <1>9, <1>10, <1>11 DEF H
<1> QED BY <1>12, <1>13, <1>14, Zenon DEF PagesAccounted, mappings

\* Memory whose directories map what their processes loaded keeps programs apart.
LEMMA ProgramsApart == ASSUME ProcessInv, MemInv PROVE Isolation
<1> DEFINE D == Dirs(tasks, processes)
<1>1. OwnOK(tasks, processes, mem, {}) /\ processes \in [Records -> UserProcess]
      /\ Loaded(tasks, current_task, cr3, esp0)
    BY Running DEF MemInv
<1>2. MemOK(mem, D, Progs(processes)) /\ RecordsHold(processes) /\ Contents(mem, processes, D)
  <2>1. D \cup {} = D
    OBVIOUS
  <2> QED BY <1>1, <2>1 DEF OwnOK, OwnersOK
<1>3. UserDirectories = D
    BY HeldNames
<1>4. \A i \in Records : i \in InState(USER_PROCESS_RUNNING) <=>
         i \in LiveIn(processes) /\ processes[i].state = USER_PROCESS_RUNNING
    BY DEF InState, LiveIn, USER_PROCESS_RUNNING, USER_PROCESS_FREE
<1>5. InState(USER_PROCESS_RUNNING) \subseteq Records /\ LiveIn(processes) \subseteq Records
    BY DEF InState, LiveIn
<1> HIDE DEF D
<1>6. ASSUME NEW i \in InState(USER_PROCESS_RUNNING), NEW v \in UserPages
      PROVE  /\ processes[i].pages[v] # NULL
             /\ mem.pde[processes[i].address_space] # ABSENT
             /\ mem.pte[mem.pde[processes[i].address_space]][v] = processes[i].pages[v]
  <2> DEFINE a == processes[i].address_space
  <2>1. i \in LiveIn(processes) /\ processes[i].state = USER_PROCESS_RUNNING
        /\ processes[i] \in UserProcess
    BY <1>1, <1>4, <1>5
  <2>2. processes[i].pages[v] # NULL /\ Sees(mem, a) = Image(processes[i])
    BY <1>2, <2>1 DEF RecordsHold, Contents
  <2>3. processes[i].pages[v] \in Pages /\ v \in VirtualPages
    BY <2>1, <2>2 DEF UserProcess, UserPages, VirtualPages
  <2>4. processes[i].pages[v] # ABSENT /\ Image(processes[i])[v] = processes[i].pages[v]
    BY <2>3, PagesNat DEF Image
  <2>5. Sees(mem, a)[v] # NoMappings[v]
    BY <2>2, <2>3, <2>4 DEF NoMappings
  <2> HIDE DEF a
  <2>6. mem.pde[a] # ABSENT
    BY <2>5 DEF Sees
  <2>7. mem.pte[mem.pde[a]][v] = processes[i].pages[v]
    BY <2>2, <2>4, <2>6 DEF Sees
  <2> QED BY <2>2, <2>6, <2>7 DEF a
<1>7. ASSUME NEW d \in UserDirectories \cup {kernel_page_directory},
             \E v \in VirtualPages : mem.pde[d] # ABSENT /\ mem.pte[mem.pde[d]][v] # ABSENT
      PROVE  \E i \in InState(USER_PROCESS_RUNNING) : processes[i].address_space = d
  <2>1. d \in Roots(D)
    BY <1>3 DEF Roots
  <2>2. Sees(mem, d) # NoMappings
    BY <1>7 DEF Sees, NoMappings
  <2>3. \E i \in LiveIn(processes) : processes[i].state = USER_PROCESS_RUNNING
                                     /\ processes[i].address_space = d
    BY <1>2, <2>1, <2>2 DEF Contents
  <2> QED BY <1>4, <1>5, <2>3
<1>8. ASSUME pc[current_task].at = "user"
      PROVE  Caller # NULL /\ processes[Caller].address_space = cr3
  <2>1. Caller # NULL /\ processes[Caller].state = USER_PROCESS_RUNNING
    BY <1>8, UserCaller
  <2>2. tasks[current_task].entry = "user_exec_task"
    BY <1>8, Running DEF TablesOK, ThreadsOK
  <2>3. Runs(tasks, pc, current_task, processes[Caller])
    BY <2>2, Running, CallerFound DEF Caller
  <2> QED BY <1>1, <2>1, <2>3 DEF Runs, Loaded
<1> QED BY <1>6, <1>7, <1>8, Zenon DEF Isolation

\* What the scheduler keeps for threads that call what they like it keeps for the
\* threads there are.
LEMMA SchedulerParts ==
    ASSUME ProcessInv, MemInv
    PROVE  StacksOwned /\ SpacesLive /\ ContextReady /\ ProcessTypeOK
<1> DEFINE D == Dirs(tasks, processes)
<1>1. OwnOK(tasks, processes, mem, {}) /\ Ready(tasks)
      /\ Loaded(tasks, current_task, cr3, esp0)
    BY DEF MemInv
<1>2. MemOK(mem, D, Progs(processes)) /\ TasksHold(tasks) /\ StacksOK(tasks, mem)
  <2>1. D \cup {} = D
    OBVIOUS
  <2> QED BY <1>1, <2>1 DEF OwnOK, OwnersOK
<1>3. InUse = Used(tasks) /\ current_task \in Used(tasks)
    BY HeldNames, Running DEF Used, TASK_RUNNING, TASK_UNUSED
<1>4. StacksOwned
  <2>1. mem.stacks \subseteq {tasks[i].stack : i \in InUse}
    BY <1>2, <1>3 DEF StacksOK
  <2> QED BY <1>2, <1>3, <2>1 DEF StacksOwned, StacksOK
<1>5. SpacesLive
  <2>1. \A i \in Used(tasks) : tasks[i].address_space # kernel_page_directory =>
           tasks[i].address_space \in D
    BY <1>2, DirsOf DEF TasksHold
  <2>2. D \subseteq mem.used
    BY <1>2 DEF MemOK
  <2> HIDE DEF D
  <2> QED BY <1>1, <1>2, <1>3, <2>1, <2>2 DEF SpacesLive, Loaded, TasksHold, SharedSpace
<1>6. ContextReady
    BY <1>1 DEF ContextReady, Ready, Loaded
<1>7. ProcessTypeOK
  <2>1. mem \in MemoryType /\ tasks \in [Slots -> Task] /\ current_task \in Slots
    BY <1>2, Running DEF MemOK
  <2>2. cr3 \in Directories /\ esp0 \in Blocks \cup {NULL}
    <3>1. tasks[current_task].address_space \in Directories \cup {NULL}
      BY <2>1 DEF Task
    <3> QED BY <1>1, <1>2, <1>3, <3>1 DEF Loaded, TasksHold
  <2>3. panicked \in BOOLEAN
    BY Running, Zenon
  <2>4. SchedTypeOK
    BY <2>1, <2>2, <2>3, Running DEF SchedTypeOK
  <2>5. processes \in [Records -> UserProcess] /\ next_pid \in Nat \ {0}
        /\ pc \in [Slots -> [at : Points, pid : Nat]]
    BY Running DEF TablesOK, ThreadsOK, Positions
  <2>6. KeysOK
    BY Running
  <2> QED BY <2>4, <2>5, <2>6, Zenon DEF ProcessTypeOK, KeysOK
<1> QED BY <1>4, <1>5, <1>6, <1>7

\* The invariant is about these variables alone.
LEMMA MemoryStutter == ASSUME MemInv, UNCHANGED vars PROVE MemInv'
<1>1. UNCHANGED <<tasks, current_task, mem, cr3, esp0, processes>>
    BY DEF vars, schedVars, processVars
<1> QED BY <1>1 DEF MemInv

\* The inductive invariant of memory and of its owners.
THEOREM MemoryInvariant == ProcessSafety => [](ProcessInv /\ MemInv)
<1>1. ProcessInit => ProcessInv /\ MemInv
    BY ProcessBoot, MemoryBoot
<1>2. ProcessInv /\ MemInv /\ [ProcessNext]_vars => ProcessInv' /\ MemInv'
    BY ProcessStep, ProcessStutter, ProcessMem, MemoryStutter DEF MemStep
<1> QED BY <1>1, <1>2, PTL DEF ProcessSafety

\* Every page allocated has exactly one owner, whichever allocation failed and
\* wherever: nothing user_spawn, user_exec_task, user_exit_current, task_cleanup or
\* cmd_vmmtest does leaks a page, frees one twice or gives one to two owners.
THEOREM NoPageLost == ProcessSafety => []PagesAccounted
<1>1. ProcessInv /\ MemInv => PagesAccounted
    BY AccountsBalance
<1> QED BY <1>1, MemoryInvariant, PTL

\* A process in user mode runs in its own directory, which maps its two pages and
\* no other; no directory but a running process's maps anything.
THEOREM ProgramsIsolated == ProcessSafety => []Isolation
<1>1. ProcessInv /\ MemInv => Isolation
    BY ProgramsApart
<1> QED BY <1>1, MemoryInvariant, PTL

\* Every variable of the process table, the scheduler and memory keeps its type.
THEOREM ProcessTyped == ProcessSafety => []ProcessTypeOK
<1>1. ProcessInv /\ MemInv => ProcessTypeOK
    BY SchedulerParts
<1> QED BY <1>1, MemoryInvariant, PTL

\* With the processes there are, as with threads that call what they like, every
\* task in use has a stack and a directory nobody else has, the CPU is on those of
\* the current one, and every runnable task can be switched to.
THEOREM SchedulerServesProcesses == ProcessSafety => [](StacksOwned /\ SpacesLive /\ ContextReady)
<1>1. ProcessInv /\ MemInv => StacksOwned /\ SpacesLive /\ ContextReady
    BY SchedulerParts
<1> QED BY <1>1, MemoryInvariant, PTL

\* No step, of whatever process, frees the stack or the directory the CPU is on.
THEOREM NothingFreedUnderProcess == ProcessSafety => RunsOnLiveMemory
<1>1. ProcessInv /\ MemInv /\ [ProcessNext]_vars => [KeepsFooting]_schedVars
  <2>1. ASSUME ProcessInv, MemInv, ProcessNext PROVE KeepsFooting
    BY <2>1, ProcessMem DEF MemStep
  <2>2. UNCHANGED vars => UNCHANGED schedVars
    BY DEF vars
  <2> QED BY <2>1, <2>2
<1> QED BY <1>1, MemoryInvariant, PTL DEF ProcessSafety, RunsOnLiveMemory
=============================================================================
