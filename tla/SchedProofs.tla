----------------------------- MODULE SchedProofs -----------------------------
(***************************************************************************)
(* Safety of the scheduler for every table size, number of pages and number *)
(* of threads.                                                             *)
(***************************************************************************)
EXTENDS Sched, TLAPS, WellFoundedInduction

-----------------------------------------------------------------------------
(* Searches *)

\* A non-empty set of naturals has a least element, and Lowest is it.
LEMMA LowestIn ==
    ASSUME NEW S \in SUBSET Nat, S # {}
    PROVE  Lowest(S) \in S /\ \A y \in S : Lowest(S) <= y
<1> DEFINE R == {ss \in Nat \X Nat : ss[1] < ss[2]}
<1>0. IsWellFoundedOn(R, Nat)
    BY NatLessThanWellFounded DEF OpToRel
<1>1. \E x \in S : \A y \in S : ~ (<<y, x>> \in R)
  <2> HIDE DEF R
  <2> QED BY <1>0, WFMin
<1>2. \E x \in S : \A y \in S : x <= y
  <2>1. PICK x \in S : \A y \in S : ~ (<<y, x>> \in R)
    BY <1>1
  <2>2. \A y \in S : ~ (y < x)
    BY <2>1
  <2> QED BY <2>2
<1> QED BY <1>2 DEF Lowest

\* Task slots are naturals, slot 0 is one and there are at least two.
LEMMA SlotsNat == Slots \in SUBSET Nat /\ 0 \in Slots /\ MAX_TASKS \in Nat /\ MAX_TASKS >= 2
BY SchedAssumption DEF Slots

\* Counting around the table reaches a slot, and every slot.
LEMMA AroundTheTable ==
    ASSUME NEW i \in Slots
    PROVE  /\ \A k \in 1 .. MAX_TASKS : (i + k) % MAX_TASKS \in Slots
           /\ \A j \in Slots : \E k \in 1 .. MAX_TASKS : (i + k) % MAX_TASKS = j
<1>1. \A k \in 1 .. MAX_TASKS : (i + k) % MAX_TASKS \in Slots
    BY SlotsNat DEF Slots
<1>2. ASSUME NEW j \in Slots
      PROVE  \E k \in 1 .. MAX_TASKS : (i + k) % MAX_TASKS = j
  <2>1. CASE j > i
    <3>1. j - i \in 1 .. MAX_TASKS /\ i + (j - i) = j
        BY <2>1, SlotsNat DEF Slots
    <3>2. j % MAX_TASKS = j
        BY SlotsNat DEF Slots
    <3> QED BY <3>1, <3>2
  <2>2. CASE j <= i
    <3>1. j - i + MAX_TASKS \in 1 .. MAX_TASKS /\ i + (j - i + MAX_TASKS) = j + MAX_TASKS
        BY <2>2, SlotsNat DEF Slots
    <3>2. (j + MAX_TASKS) % MAX_TASKS = j
        BY SlotsNat DEF Slots
    <3> QED BY <3>1, <3>2
  <2> QED BY <2>1, <2>2, SlotsNat
<1> QED BY <1>1, <1>2

-----------------------------------------------------------------------------
(* Memory *)

\* A search of a set of naturals returns a member, or NULL of none.
LEMMA FirstIn ==
    ASSUME NEW S \in SUBSET Nat
    PROVE  (S = {} /\ First(S) = NULL) \/ First(S) \in S
BY LowestIn DEF First

\* Page numbers are naturals; neither NULL nor ABSENT is one.
LEMMA PagesNat == /\ Pages \in SUBSET Nat /\ NULL \notin Pages /\ ABSENT \notin Pages
                  /\ kernel_page_directory \notin Pages
                  /\ kernel_page_directory # NULL
                  /\ Blocks \in SUBSET Nat /\ NULL \notin Blocks
BY MemoryAssumption DEF Pages, NULL, ABSENT, kernel_page_directory, Blocks

\* A page taken was free.
LEMMA TakesFreePage ==
    ASSUME NEW m \in MemoryType
    PROVE  direct_map_page(m) = NULL \/ direct_map_page(m) \in Pages \ m.used
<1>1. Pages \ m.used \in SUBSET Nat
    BY PagesNat
<1> QED BY <1>1, FirstIn DEF direct_map_page, pmm_alloc_page

\* vmm_create_address_space takes a page nobody had, or changes nothing.
LEMMA CreatesFreshSpace ==
    ASSUME NEW m \in MemoryType
    PROVE  LET r == vmm_create_address_space(m)
           IN  /\ r.mem \in MemoryType
               /\ r.mem.stacks = m.stacks
               /\ \/ r.ret = NULL /\ r.mem = m
                  \/ /\ r.ret \in Pages \ m.used
                     /\ r.mem.used = m.used \cup {r.ret}
                     /\ r.mem.pde = [m.pde EXCEPT ![r.ret] = ABSENT]
<1> DEFINE d == direct_map_page(m)
<1>1. CASE d = NULL
    BY <1>1 DEF vmm_create_address_space
<1>2. CASE d # NULL
  <2>1. d \in Pages \ m.used
    BY <1>2, TakesFreePage
  <2> DEFINE n == [m EXCEPT !.used = @ \cup {d}, !.pde[d] = ABSENT]
  <2>2. vmm_create_address_space(m) = [mem |-> n, ret |-> d]
    BY <1>2 DEF vmm_create_address_space
  <2> HIDE DEF d
  <2>3. n \in MemoryType
    BY <2>1 DEF MemoryType, Directories
  <2>4. n.stacks = m.stacks /\ n.used = m.used \cup {d}
        /\ n.pde = [m.pde EXCEPT ![d] = ABSENT]
    BY DEF MemoryType
  <2> HIDE DEF n
  <2>5. vmm_create_address_space(m).mem = n /\ vmm_create_address_space(m).ret = d
    BY <2>2
  <2> QED BY <2>1, <2>3, <2>4, <2>5
<1> QED BY <1>1, <1>2

\* A block allocated was not live, and allocating takes nothing from anybody.
LEMMA AllocatesFreshBlock ==
    ASSUME NEW m \in MemoryType, NEW k \in kmalloc(m)
    PROVE  /\ k.mem \in MemoryType
           /\ m.used \subseteq k.mem.used
           /\ k.mem.pde = m.pde
           /\ \/ k.ret = NULL /\ k.mem.stacks = m.stacks
              \/ /\ k.ret \in Blocks \ m.stacks
                 /\ k.mem.stacks = m.stacks \cup {k.ret}
<1> DEFINE b == Lowest(Blocks \ m.stacks)
           p == direct_map_page(m)
           reuse == [mem |-> [m EXCEPT !.stacks = @ \cup {b}], ret |-> b]
           grow  == [mem |-> [m EXCEPT !.stacks = @ \cup {b},
                                       !.used = @ \cup {p},
                                       !.heap = @ \cup {p}], ret |-> b]
           fail  == [mem |-> m, ret |-> NULL]
<1>1. \/ k = fail
      \/ ~(Blocks \subseteq m.stacks) /\ k = reuse
      \/ ~(Blocks \subseteq m.stacks) /\ p # NULL /\ k = grow
    BY Zenon DEF kmalloc
<1>2. p = NULL \/ p \in Pages
    BY TakesFreePage
<1>3. ~(Blocks \subseteq m.stacks) => b \in Blocks \ m.stacks
    BY LowestIn, PagesNat
<1> HIDE DEF b, p
<1>4. CASE k = fail
    BY <1>4
<1>5. CASE ~(Blocks \subseteq m.stacks) /\ k = reuse
    BY <1>3, <1>5 DEF MemoryType
<1>6. CASE ~(Blocks \subseteq m.stacks) /\ p # NULL /\ k = grow
    BY <1>2, <1>3, <1>6 DEF MemoryType
<1> QED BY <1>1, <1>4, <1>5, <1>6

\* Destroying address spaces leaves a well-typed memory.
LEMMA DestroyKeepsType ==
    ASSUME NEW m \in MemoryType, NEW spaces \in SUBSET (Directories \cup {NULL})
    PROVE  /\ DestroySpaces(m, spaces) \in MemoryType
           /\ DestroySpaces(m, spaces).stacks = m.stacks
BY DEF DestroySpaces, MemoryType, NoMappings

\* Where no page table is in use, only the directories themselves are freed.
LEMMA DestroyFreesDirectories ==
    ASSUME NEW m \in MemoryType, NEW spaces \in SUBSET (Directories \cup {NULL}),
           \A d \in Directories : m.pde[d] = ABSENT
    PROVE  /\ DestroySpaces(m, spaces).used
                  = m.used \ (spaces \ {NULL, kernel_page_directory})
           /\ \A d \in Directories : DestroySpaces(m, spaces).pde[d] = ABSENT
<1> DEFINE dirs == spaces \ {NULL, kernel_page_directory}
           tables == {m.pde[d] : d \in dirs}
<1>1. tables \subseteq {ABSENT}
    BY DEF Directories
<1>2. m.used \ (dirs \cup tables) = m.used \ dirs
    BY <1>1, PagesNat DEF MemoryType
<1>3. DestroySpaces(m, spaces).used = m.used \ (dirs \cup tables)
    BY DEF DestroySpaces, MemoryType
<1>4. \A d \in Directories : DestroySpaces(m, spaces).pde[d] = ABSENT
    BY DEF DestroySpaces, MemoryType
<1> QED BY <1>2, <1>3, <1>4

-----------------------------------------------------------------------------
(***************************************************************************)
(* The task table and the memory at any point of a step: the parts of the   *)
(* invariant that do not speak of who runs.                                *)
(***************************************************************************)
Used(t) == {i \in Slots : t[i].state # TASK_UNUSED}

StacksOK(t, m) ==
    /\ t[0].stack = NULL
    /\ \A i \in Used(t) \ {0} : t[i].stack \in m.stacks
    /\ \A i, j \in Used(t) \ {0} : t[i].stack = t[j].stack => i = j
    /\ \A b \in m.stacks : \E i \in Used(t) \ {0} : t[i].stack = b

SharedSpace(t, i, j) ==
    /\ t[i].address_space # kernel_page_directory
    /\ t[i].address_space = t[j].address_space

SpacesOK(t, m) ==
    /\ t[0].address_space = kernel_page_directory
    /\ \A i \in Used(t) : t[i].address_space # NULL
    /\ \A i \in Used(t) : t[i].address_space # kernel_page_directory =>
          t[i].address_space \in m.used
    /\ \A i, j \in Used(t) : SharedSpace(t, i, j) => i = j
    /\ \A d \in Directories : m.pde[d] = ABSENT

TableOK(t, m) ==
    /\ t \in [Slots -> Task]
    /\ m \in MemoryType
    /\ t[0].state \in {TASK_RUNNING, TASK_RUNNABLE}
    /\ t[0].entry = "none"
    /\ StacksOK(t, m)
    /\ SpacesOK(t, m)

\* The cleared slot task_cleanup leaves is a task, and unused.
LEMMA UnusedIsTask == UnusedTask \in Task /\ UnusedTask.state = TASK_UNUSED
                      /\ UnusedTask.stack = NULL
BY DEF UnusedTask, Task, TaskStates, StackPointers, TASK_UNUSED

\* Reaping leaves the table and the memory in order, and touches zombies only.
LEMMA ReapKeepsTable ==
    ASSUME NEW t, NEW m, TableOK(t, m), current_task \in Slots
    PROVE  LET z == reap_zombies(t, m)
           IN  /\ TableOK(z.tasks, z.mem)
               /\ \A i \in Slots :
                     z.tasks[i] = IF i \in Reapable(t) THEN UnusedTask ELSE t[i]
<1> DEFINE dead == Reapable(t)
           zt == [i \in Slots |-> IF i \in dead THEN UnusedTask ELSE t[i]]
           spaces == {t[i].address_space : i \in dead}
           stacks == {t[i].stack : i \in dead}
           md == DestroySpaces(m, spaces)
           zm == kfree(md, stacks)
<1>1. reap_zombies(t, m).tasks = zt /\ reap_zombies(t, m).mem = zm
    BY DEF reap_zombies, task_cleanup
<1>2. dead \subseteq Used(t) \ {0} /\ Used(zt) = Used(t) \ dead
    BY UnusedIsTask DEF Reapable, Used, TASK_ZOMBIE, TASK_UNUSED
<1>3. \A i \in Used(zt) : zt[i] = t[i] /\ i \in Used(t) /\ i \notin dead
    BY <1>2 DEF Used
<1>4. 0 \in Slots /\ zt[0] = t[0]
    BY <1>2, SlotsNat
<1>5. spaces \in SUBSET (Directories \cup {NULL})
    BY <1>2 DEF TableOK, Task, Used
<1>6. md \in MemoryType /\ md.stacks = m.stacks
    BY <1>5, DestroyKeepsType DEF TableOK
<1>7. md.used = m.used \ (spaces \ {NULL, kernel_page_directory})
      /\ \A d \in Directories : md.pde[d] = ABSENT
    BY <1>5, DestroyFreesDirectories DEF TableOK, SpacesOK
<1> HIDE DEF dead, md
<1>8. zm \in MemoryType /\ zm.stacks = m.stacks \ stacks
      /\ zm.used = md.used /\ zm.pde = md.pde
    BY <1>6 DEF kfree, MemoryType
<1>9. zt \in [Slots -> Task]
    BY UnusedIsTask DEF TableOK
<1> HIDE DEF zt, zm
<1>10. StacksOK(zt, zm)
  <2>1. \A i \in Used(zt) \ {0} : zt[i].stack \in zm.stacks
    BY <1>2, <1>3, <1>8 DEF TableOK, StacksOK
  <2>2. \A i, j \in Used(zt) \ {0} : zt[i].stack = zt[j].stack => i = j
    BY <1>3 DEF TableOK, StacksOK
  <2>3. \A b \in zm.stacks : \E i \in Used(zt) \ {0} : zt[i].stack = b
    BY <1>2, <1>3, <1>8 DEF TableOK, StacksOK
  <2> QED BY <1>4, <2>1, <2>2, <2>3 DEF TableOK, StacksOK
<1>11. SpacesOK(zt, zm)
  <2>1. \A i \in Used(zt) : zt[i].address_space # kernel_page_directory =>
           zt[i].address_space \in zm.used
    <3> SUFFICES ASSUME NEW i \in Used(zt), zt[i].address_space # kernel_page_directory
                 PROVE  zt[i].address_space \in zm.used
      OBVIOUS
    <3>1. t[i].address_space \in m.used
      BY <1>3 DEF TableOK, SpacesOK
    <3>2. \A j \in dead : t[i].address_space # t[j].address_space
      BY <1>2, <1>3 DEF TableOK, SpacesOK, SharedSpace
    <3> QED BY <1>3, <1>7, <1>8, <3>1, <3>2
  <2>2. \A i, j \in Used(zt) : SharedSpace(zt, i, j) => i = j
    BY <1>3 DEF TableOK, SpacesOK, SharedSpace
  <2> QED BY <1>3, <1>4, <1>7, <1>8, <2>1, <2>2 DEF TableOK, SpacesOK
<1>12. TableOK(zt, zm)
    BY <1>4, <1>8, <1>9, <1>10, <1>11 DEF TableOK
<1>13. \A i \in Slots : zt[i] = IF i \in dead THEN UnusedTask ELSE t[i]
    BY DEF zt
<1> QED BY <1>1, <1>12, <1>13 DEF dead

\* The search of sched_yield finds a runnable task if there is one.
LEMMA NextTaskRuns ==
    ASSUME NEW t, current_task \in Slots
    PROVE  /\ NextTask(t) \in Slots
           /\ t[NextTask(t)].state = TASK_RUNNABLE \/ NextTask(t) = current_task
           /\ (\E i \in Slots : t[i].state = TASK_RUNNABLE) =>
                 t[NextTask(t)].state = TASK_RUNNABLE
<1> DEFINE ahead == {k \in 1 .. MAX_TASKS :
                        t[(current_task + k) % MAX_TASKS].state = TASK_RUNNABLE}
<1>1. ahead \in SUBSET Nat
    BY SlotsNat
<1>2. CASE ahead = {}
  <2>1. \A i \in Slots : t[i].state # TASK_RUNNABLE
    BY <1>2, AroundTheTable
  <2> QED BY <1>2, <2>1 DEF NextTask
<1>3. CASE ahead # {}
  <2>1. Lowest(ahead) \in ahead
    BY <1>1, <1>3, LowestIn
  <2>2. NextTask(t) = (current_task + Lowest(ahead)) % MAX_TASKS
    BY <1>3 DEF NextTask
  <2>3. NextTask(t) \in Slots
    BY <2>1, <2>2, AroundTheTable
  <2> QED BY <2>1, <2>2, <2>3
<1> QED BY <1>2, <1>3

\* Switching tasks changes neither stacks nor directories nor who is in use.
LEMMA SwitchKeepsTable ==
    ASSUME NEW t, NEW m, TableOK(t, m), current_task \in Slots,
           NEW idx \in Slots, idx # current_task, t[idx].state = TASK_RUNNABLE,
           t[current_task].state # TASK_UNUSED
    PROVE  LET s == SwitchTo(t, idx)
           IN  /\ TableOK(s, m)
               /\ s[idx].state = TASK_RUNNING
               /\ s[current_task].state =
                     IF t[current_task].state = TASK_RUNNING THEN TASK_RUNNABLE
                     ELSE t[current_task].state
               /\ s[current_task].stack_pointer = "saved"
               /\ \A i \in Slots : /\ s[i].stack = t[i].stack
                                   /\ s[i].address_space = t[i].address_space
                                   /\ s[i].id = t[i].id
                                   /\ s[i].entry = t[i].entry
               /\ \A i \in Slots \ {idx, current_task} : s[i] = t[i]
<1> DEFINE s == SwitchTo(t, idx)
<1>1. t \in [Slots -> Task]
    BY DEF TableOK
<1>2. /\ s \in [Slots -> Task]
      /\ s[idx].state = TASK_RUNNING
      /\ s[current_task].state =
            IF t[current_task].state = TASK_RUNNING THEN TASK_RUNNABLE
            ELSE t[current_task].state
      /\ s[current_task].stack_pointer = "saved"
      /\ \A i \in Slots : /\ s[i].stack = t[i].stack
                          /\ s[i].address_space = t[i].address_space
                          /\ s[i].id = t[i].id
                          /\ s[i].entry = t[i].entry
      /\ \A i \in Slots \ {idx, current_task} : s[i] = t[i]
  <2> DEFINE state == IF t[current_task].state = TASK_RUNNING THEN TASK_RUNNABLE
                      ELSE t[current_task].state
             old == [t[current_task] EXCEPT !.state = state, !.stack_pointer = "saved"]
             new == [t[idx] EXCEPT !.state = TASK_RUNNING]
  <2>1. t[current_task] \in Task /\ t[idx] \in Task
    BY <1>1
  <2>2. s = [t EXCEPT ![current_task] = old, ![idx] = new]
    BY <1>1, <2>1 DEF SwitchTo
  <2>3. state \in TaskStates
    BY <2>1 DEF Task, TaskStates
  <2> HIDE DEF state
  <2>4. /\ old \in Task /\ old.state = state /\ old.stack_pointer = "saved"
        /\ old.stack = t[current_task].stack /\ old.id = t[current_task].id
        /\ old.address_space = t[current_task].address_space
        /\ old.entry = t[current_task].entry
    BY <2>1, <2>3 DEF Task, StackPointers
  <2>5. /\ new \in Task /\ new.state = TASK_RUNNING /\ new.stack = t[idx].stack
        /\ new.id = t[idx].id /\ new.address_space = t[idx].address_space
        /\ new.entry = t[idx].entry
    BY <2>1 DEF Task, TaskStates
  <2> HIDE DEF old, new, s
  <2>6. /\ s \in [Slots -> Task] /\ s[current_task] = old /\ s[idx] = new
        /\ \A i \in Slots \ {idx, current_task} : s[i] = t[i]
    BY <1>1, <2>2, <2>4, <2>5
  <2> QED BY <2>4, <2>5, <2>6 DEF state
<1> HIDE DEF s
<1>3. Used(s) = Used(t)
    BY <1>2 DEF Used, TASK_UNUSED, TASK_RUNNABLE, TASK_RUNNING
<1>4. 0 \in Slots /\ Used(t) \subseteq Slots
    BY SlotsNat DEF Used
<1>5. s[0].state \in {TASK_RUNNING, TASK_RUNNABLE} /\ s[0].entry = "none"
    BY <1>2, <1>4 DEF TableOK
<1>6. StacksOK(s, m)
    BY <1>2, <1>3, <1>4 DEF TableOK, StacksOK
<1>7. SpacesOK(s, m)
    BY <1>2, <1>3, <1>4 DEF TableOK, SpacesOK, SharedSpace
<1>8. TableOK(s, m)
    BY <1>2, <1>5, <1>6, <1>7 DEF TableOK
<1> QED BY <1>2, <1>8 DEF s

\* Who runs, at any point of a step: the current task, unless it is a zombie.
RunOK(t) ==
    /\ current_task \in Slots
    /\ t[current_task].state \in {TASK_RUNNING, TASK_ZOMBIE}
    /\ \A i \in Slots : t[i].state = TASK_RUNNING => i = current_task
    /\ \A i \in Slots : t[i].state = TASK_RUNNABLE => t[i].stack_pointer # "none"
    /\ cr3 = t[current_task].address_space
    /\ current_task # 0 => esp0 = t[current_task].stack

\* Giving up the CPU keeps everything in order; a zombie always gets rid of it.
LEMMA YieldKeepsOrder ==
    ASSUME NEW t, NEW m, TableOK(t, m), RunOK(t), sched_yield(t, m), cr3 \in Directories,
           esp0 \in Blocks \cup {NULL}
    PROVE  /\ TableOK(tasks', mem')
           /\ RunOK(tasks)'
           /\ tasks'[current_task'].state = TASK_RUNNING
           /\ t[current_task].state = TASK_ZOMBIE => current_task' # current_task
           /\ cr3' \in Directories
           /\ esp0' \in Blocks \cup {NULL}
<1> DEFINE z == reap_zombies(t, m)
           idx == NextTask(z.tasks)
<1>1. /\ TableOK(z.tasks, z.mem)
      /\ \A i \in Slots :
            z.tasks[i] = IF i \in Reapable(t) THEN UnusedTask ELSE t[i]
    BY ReapKeepsTable DEF RunOK
<1>2. z.tasks[current_task] = t[current_task]
    BY <1>1 DEF Reapable, RunOK
<1>3. RunOK(z.tasks)
  <2>1. \A i \in Slots : z.tasks[i].state \in {TASK_RUNNING, TASK_RUNNABLE} =>
           z.tasks[i] = t[i]
    BY <1>1, UnusedIsTask DEF TASK_UNUSED, TASK_RUNNABLE, TASK_RUNNING
  <2> QED BY <1>2, <2>1 DEF RunOK
<1>4. /\ idx \in Slots
      /\ z.tasks[idx].state = TASK_RUNNABLE \/ idx = current_task
      /\ (\E i \in Slots : z.tasks[i].state = TASK_RUNNABLE) =>
            z.tasks[idx].state = TASK_RUNNABLE
    BY NextTaskRuns DEF RunOK
<1>5. t[current_task].state = TASK_ZOMBIE => idx # current_task
  <2> SUFFICES ASSUME t[current_task].state = TASK_ZOMBIE PROVE idx # current_task
    OBVIOUS
  <2>1. current_task # 0
    BY DEF TableOK, TASK_ZOMBIE, TASK_RUNNING, TASK_RUNNABLE
  <2>2. z.tasks[0].state = TASK_RUNNABLE
    BY <1>1, <1>3, <2>1, SlotsNat DEF TableOK, RunOK
  <2> QED BY <1>2, <1>4, <2>2, SlotsNat DEF TASK_ZOMBIE, TASK_RUNNABLE
<1>6. mem' = z.mem /\ current_task' = idx
    BY DEF sched_yield
<1>7. CASE idx = current_task
  <2>1. tasks' = z.tasks /\ UNCHANGED <<cr3, esp0>>
    BY <1>7 DEF sched_yield
  <2>2. t[current_task].state = TASK_RUNNING
    BY <1>5, <1>7 DEF RunOK
  <2> HIDE DEF z, idx
  <2> QED BY <1>1, <1>2, <1>3, <1>5, <1>6, <1>7, <2>1, <2>2 DEF RunOK
<1>8. CASE idx # current_task
  <2>1. /\ tasks' = SwitchTo(z.tasks, idx)
        /\ cr3' = z.tasks[idx].address_space
        /\ esp0' = KernelStackFor(z.tasks[idx])
    BY <1>8 DEF sched_yield
  <2>2. z.tasks[idx].state = TASK_RUNNABLE
    BY <1>4, <1>8
  <2>3. z.tasks[current_task].state # TASK_UNUSED /\ current_task \in Slots
    BY <1>3 DEF RunOK, TASK_UNUSED, TASK_RUNNING, TASK_ZOMBIE
  <2> HIDE DEF z, idx
  <2>4. /\ TableOK(tasks', mem')
        /\ tasks'[idx].state = TASK_RUNNING
        /\ tasks'[current_task].state =
              IF z.tasks[current_task].state = TASK_RUNNING THEN TASK_RUNNABLE
              ELSE z.tasks[current_task].state
        /\ tasks'[current_task].stack_pointer = "saved"
        /\ \A i \in Slots : /\ tasks'[i].stack = z.tasks[i].stack
                            /\ tasks'[i].address_space = z.tasks[i].address_space
        /\ \A i \in Slots \ {idx, current_task} : tasks'[i] = z.tasks[i]
    BY <1>1, <1>4, <1>6, <1>8, <2>1, <2>2, <2>3, SwitchKeepsTable
  <2>5. idx # 0 => z.tasks[idx].stack \in Blocks
    BY <1>1, <1>4, <2>2
       DEF TableOK, StacksOK, Used, MemoryType, TASK_UNUSED, TASK_RUNNABLE
  <2>6. idx # 0 => esp0' = tasks'[idx].stack
    BY <1>4, <2>1, <2>4, <2>5, PagesNat DEF KernelStackFor
  <2>7. \A i \in Slots : tasks'[i].state = TASK_RUNNING => i = idx
    BY <1>3, <1>4, <2>3, <2>4 DEF RunOK, TASK_RUNNING, TASK_RUNNABLE
  <2>8. \A i \in Slots : tasks'[i].state = TASK_RUNNABLE => tasks'[i].stack_pointer # "none"
    BY <1>3, <2>3, <2>4 DEF RunOK, TASK_RUNNING, TASK_RUNNABLE
  <2>9. cr3' = tasks'[idx].address_space
    BY <1>4, <2>1, <2>4
  <2>10. RunOK(tasks)'
    BY <1>4, <1>6, <2>4, <2>6, <2>7, <2>8, <2>9 DEF RunOK
  <2>11. cr3' \in Directories
    <3>1. z.tasks[idx] \in Task /\ z.tasks[idx].address_space # NULL
      BY <1>1, <1>4, <2>2 DEF TableOK, SpacesOK, Used, TASK_UNUSED, TASK_RUNNABLE
    <3> QED BY <2>1, <3>1 DEF Task
  <2>12. esp0' \in Blocks \cup {NULL}
    BY <1>1, <1>4, <2>1 DEF TableOK, Task, KernelStackFor
  <2> QED BY <1>6, <1>8, <2>4, <2>10, <2>11, <2>12
<1> QED BY <1>7, <1>8

\* A table in order stays so when more of the memory is in use.
LEMMA MoreMemory ==
    ASSUME NEW t, NEW m, TableOK(t, m), NEW n \in MemoryType,
           n.stacks = m.stacks, m.used \subseteq n.used,
           \A d \in Directories : n.pde[d] = ABSENT
    PROVE  TableOK(t, n)
BY DEF TableOK, StacksOK, SpacesOK

\* kthread_create adds at most one task, ready to run on a stack of its own.
LEMMA CreateKeepsOrder ==
    ASSUME NEW t, NEW m, TableOK(t, m), RunOK(t), next_task_id \in Nat,
           NEW e \in Entries, NEW r \in kthread_create(t, m, e)
    PROVE  /\ TableOK(r.tasks, r.mem)
           /\ RunOK(r.tasks)
           /\ r.tasks[current_task] = t[current_task]
<1> DEFINE z == reap_zombies(t, m)
           unused == {i \in Slots \ {0} : z.tasks[i].state = TASK_UNUSED}
           slot == Lowest(unused)
<1>1. /\ TableOK(z.tasks, z.mem)
      /\ \A i \in Slots :
            z.tasks[i] = IF i \in Reapable(t) THEN UnusedTask ELSE t[i]
    BY ReapKeepsTable DEF RunOK
<1>2. z.tasks[current_task] = t[current_task]
    BY <1>1 DEF Reapable, RunOK
<1>3. RunOK(z.tasks)
  <2>1. \A i \in Slots : z.tasks[i].state \in {TASK_RUNNING, TASK_RUNNABLE} =>
           z.tasks[i] = t[i]
    BY <1>1, UnusedIsTask DEF TASK_UNUSED, TASK_RUNNABLE, TASK_RUNNING
  <2> QED BY <1>2, <2>1 DEF RunOK
<1>4. CASE unused = {}
  <2>1. r.tasks = z.tasks /\ r.mem = z.mem
    BY <1>4 DEF kthread_create
  <2> QED BY <1>1, <1>2, <1>3, <2>1
<1>5. CASE unused # {}
  <2>1. PICK k \in kmalloc(z.mem) :
           \/ k.ret = NULL /\ r.tasks = z.tasks /\ r.mem = k.mem
           \/ /\ k.ret # NULL
              /\ r.tasks = [z.tasks EXCEPT ![slot] = NewTask(k.ret, e)]
              /\ r.mem = k.mem
    <3> DEFINE Outcome(k) ==
                 IF k.ret = NULL
                 THEN [tasks |-> z.tasks, mem |-> k.mem, slot |-> 0, ret |-> -1]
                 ELSE [tasks |-> [z.tasks EXCEPT ![slot] = NewTask(k.ret, e)],
                       mem |-> k.mem, slot |-> slot, ret |-> next_task_id]
    <3>1. r \in {Outcome(k) : k \in kmalloc(z.mem)}
      BY <1>5, Zenon DEF kthread_create
    <3>2. PICK k \in kmalloc(z.mem) : r = Outcome(k)
      BY <3>1
    <3> HIDE DEF z, slot
    <3>3. CASE k.ret = NULL
      BY <3>2, <3>3
    <3>4. CASE k.ret # NULL
      BY <3>2, <3>4
    <3> QED BY <3>3, <3>4
  <2>2. slot \in Slots \ {0} /\ z.tasks[slot].state = TASK_UNUSED
    BY <1>5, LowestIn, SlotsNat
  <2> HIDE DEF z, slot
  <2>3. z.mem \in MemoryType
    BY <1>1 DEF TableOK
  <2>4. /\ k.mem \in MemoryType
        /\ z.mem.used \subseteq k.mem.used
        /\ \A d \in Directories : k.mem.pde[d] = ABSENT
        /\ \/ k.ret = NULL /\ k.mem.stacks = z.mem.stacks
           \/ /\ k.ret \in Blocks \ z.mem.stacks
              /\ k.mem.stacks = z.mem.stacks \cup {k.ret}
    BY <1>1, <2>3, AllocatesFreshBlock DEF TableOK, SpacesOK
  <2>5. CASE k.ret = NULL
    <3>1. k.mem.stacks = z.mem.stacks
      BY <2>4, <2>5, PagesNat
    <3>2. TableOK(z.tasks, k.mem)
      BY <1>1, <2>4, <3>1, MoreMemory
    <3> QED BY <1>2, <1>3, <2>1, <2>5, <3>2
  <2>6. CASE k.ret # NULL
    <3> DEFINE new == NewTask(k.ret, e)
    <3>1. k.ret \in Blocks \ z.mem.stacks /\ k.mem.stacks = z.mem.stacks \cup {k.ret}
      BY <2>4, <2>6
    <3>2. /\ new \in Task /\ new.state = TASK_RUNNABLE /\ new.stack = k.ret
          /\ new.address_space = kernel_page_directory
          /\ new.stack_pointer = "trampoline"
      BY <3>1 DEF NewTask, Task, TaskStates, StackPointers, Directories
    <3> HIDE DEF new
    <3>3. /\ r.tasks \in [Slots -> Task] /\ r.tasks[slot] = new
          /\ \A i \in Slots \ {slot} : r.tasks[i] = z.tasks[i]
      BY <1>1, <2>1, <2>2, <2>6, <3>2 DEF TableOK, new
    <3>4. slot # current_task
      BY <1>3, <2>2 DEF RunOK, TASK_RUNNING, TASK_ZOMBIE, TASK_UNUSED
    <3>5. Used(r.tasks) = Used(z.tasks) \cup {slot} /\ slot \notin Used(z.tasks)
      BY <2>2, <3>2, <3>3 DEF Used, TASK_RUNNABLE, TASK_UNUSED
    <3>6. 0 \in Slots /\ Used(z.tasks) \subseteq Slots
      BY SlotsNat DEF Used
    <3>7. StacksOK(r.tasks, k.mem)
      BY <1>1, <2>2, <3>1, <3>2, <3>3, <3>5, <3>6 DEF TableOK, StacksOK
    <3>8. SpacesOK(r.tasks, k.mem)
      <4>1. \A i \in Used(r.tasks) :
               \/ i \in Used(z.tasks) /\ r.tasks[i] = z.tasks[i]
               \/ r.tasks[i].address_space = kernel_page_directory
        BY <3>2, <3>3, <3>5, <3>6
      <4>2. r.tasks[0] = z.tasks[0]
        BY <2>2, <3>3, <3>6
      <4>3. \A i, j \in Used(r.tasks) :
               SharedSpace(r.tasks, i, j) => i = j
        BY <1>1, <4>1 DEF TableOK, SpacesOK, SharedSpace
      <4>4. \A i \in Used(r.tasks) :
               r.tasks[i].address_space # kernel_page_directory =>
                  r.tasks[i].address_space \in k.mem.used
        BY <1>1, <2>4, <4>1 DEF TableOK, SpacesOK
      <4>5. \A i \in Used(r.tasks) : r.tasks[i].address_space # NULL
        BY <1>1, <4>1, PagesNat DEF TableOK, SpacesOK
      <4> QED BY <1>1, <2>4, <4>2, <4>3, <4>4, <4>5 DEF TableOK, SpacesOK
    <3>9. TableOK(r.tasks, r.mem)
      BY <1>1, <2>1, <2>2, <2>4, <2>6, <3>3, <3>6, <3>7, <3>8 DEF TableOK
    <3>10. RunOK(r.tasks)
      BY <1>3, <2>2, <3>2, <3>3, <3>4 DEF RunOK, TASK_RUNNABLE, TASK_RUNNING
    <3> QED BY <1>2, <1>3, <3>3, <3>4, <3>9, <3>10 DEF RunOK
  <2> QED BY <2>5, <2>6
<1> QED BY <1>4, <1>5

-----------------------------------------------------------------------------
(* The invariant *)

\* The table in order, the current task running, and no panic.
SchedParts ==
    /\ TableOK(tasks, mem)
    /\ RunOK(tasks)
    /\ tasks[current_task].state = TASK_RUNNING
    /\ next_task_id \in Nat
    /\ cr3 \in Directories
    /\ esp0 \in Blocks \cup {NULL}
    /\ panicked = FALSE

\* The same invariant, in the form the lemmas above preserve.
LEMMA InvParts == SchedInv <=> SchedParts
<1>0. InUse = Used(tasks) /\ InUse \subseteq Slots /\ 0 \in Slots
    BY SlotsNat DEF InUse, Used
<1>1. ASSUME SchedInv PROVE SchedParts
  <2>1. StacksOK(tasks, mem)
    BY <1>0, <1>1, PagesNat DEF SchedInv, StacksOwned, StacksOK, SchedTypeOK, MemoryType
  <2>2. SpacesOK(tasks, mem)
    <3>1. \A i \in Used(tasks) : tasks[i].address_space # kernel_page_directory =>
             tasks[i].address_space \in mem.used
      BY <1>0, <1>1 DEF SchedInv, SpacesLive
    <3>2. \A i, j \in Used(tasks) :
             SharedSpace(tasks, i, j) => i = j
      BY <1>0, <1>1 DEF SchedInv, SpacesLive, SharedSpace
    <3> QED BY <1>0, <1>1, <3>1, <3>2 DEF SchedInv, SpacesOK
  <2>3. TableOK(tasks, mem)
    BY <1>1, <2>1, <2>2 DEF SchedInv, TableOK, SchedTypeOK
  <2>4. RunOK(tasks)
    BY <1>1 DEF SchedInv, RunOK, SchedTypeOK, OneRunning, SpacesLive, ContextReady
  <2> QED BY <1>1, <2>3, <2>4 DEF SchedParts, SchedInv, SchedTypeOK, OneRunning, NoPanic
<1>2. ASSUME SchedParts PROVE SchedInv
  <2>1. StacksOwned
    BY <1>0, <1>2 DEF SchedParts, TableOK, StacksOK, StacksOwned
  <2>2. SpacesLive
    BY <1>0, <1>2 DEF SchedParts, TableOK, SpacesOK, SharedSpace, SpacesLive, RunOK
  <2>3. OneRunning /\ ContextReady
    BY <1>2 DEF SchedParts, RunOK, OneRunning, ContextReady
  <2>4. SchedTypeOK
    BY <1>2 DEF SchedParts, SchedTypeOK, TableOK, RunOK
  <2> QED BY <1>0, <1>2, <2>1, <2>2, <2>3, <2>4
          DEF SchedParts, SchedInv, TableOK, SpacesOK, NoPanic
<1> QED BY <1>1, <1>2

\* What sched_init sets up satisfies the invariant.
LEMMA InitInv == sched_init => SchedInv
<1> SUFFICES ASSUME sched_init PROVE SchedInv
    OBVIOUS
<1>1. /\ BootTask \in Task /\ BootTask.state = TASK_RUNNING /\ BootTask.stack = NULL
      /\ BootTask.entry = "none"
      /\ BootTask.address_space = kernel_page_directory
    BY DEF BootTask, UnusedTask, Task, TaskStates, StackPointers, Directories
<1>2. /\ tasks \in [Slots -> Task] /\ 0 \in Slots /\ tasks[0] = BootTask
      /\ \A i \in Slots \ {0} : tasks[i] = UnusedTask
    BY <1>1, UnusedIsTask, SlotsNat DEF sched_init
<1>3. Used(tasks) = {0}
    BY <1>1, <1>2, UnusedIsTask DEF Used, TASK_UNUSED, TASK_RUNNING
<1>4. mem \in MemoryType /\ mem.stacks = {} /\ \A d \in Directories : mem.pde[d] = ABSENT
    BY DEF sched_init, BootMemory, MemoryType, NoMappings
<1>5. StacksOK(tasks, mem)
    BY <1>1, <1>2, <1>3, <1>4 DEF StacksOK
<1>6. SpacesOK(tasks, mem)
    BY <1>1, <1>2, <1>3, <1>4, PagesNat DEF SpacesOK, SharedSpace
<1>7. TableOK(tasks, mem)
    BY <1>1, <1>2, <1>4, <1>5, <1>6 DEF TableOK
<1>8. RunOK(tasks)
    BY <1>1, <1>2, UnusedIsTask
       DEF RunOK, sched_init, TASK_UNUSED, TASK_RUNNING, TASK_RUNNABLE
<1> QED BY <1>1, <1>2, <1>7, <1>8, InvParts DEF SchedParts, sched_init, Directories

\* kthread_create keeps the invariant, also when it fails.
LEMMA CreateInv == SchedInv /\ CreateThread => SchedInv'
<1> SUFFICES ASSUME SchedInv, CreateThread PROVE SchedInv'
    OBVIOUS
<1>1. PICK e \in Entries : \E r \in kthread_create(tasks, mem, e) :
         tasks' = r.tasks /\ mem' = r.mem /\ CountTask(r)
    BY DEF CreateThread
<1>2. PICK r \in kthread_create(tasks, mem, e) :
         tasks' = r.tasks /\ mem' = r.mem /\ CountTask(r)
    BY <1>1
<1>3. UNCHANGED <<current_task, cr3, esp0, panicked>>
    BY DEF CreateThread
<1>4. /\ TableOK(r.tasks, r.mem) /\ RunOK(r.tasks)
      /\ r.tasks[current_task] = tasks[current_task]
    BY <1>2, InvParts, CreateKeepsOrder DEF SchedParts
<1>5. RunOK(tasks)'
    BY <1>2, <1>3, <1>4 DEF RunOK
<1>6. next_task_id' \in Nat
    BY <1>2, InvParts DEF SchedParts, CountTask
<1>7. tasks'[current_task'].state = TASK_RUNNING
    BY <1>2, <1>3, <1>4, InvParts DEF SchedParts
<1>8. TableOK(tasks', mem') /\ cr3' \in Directories /\ esp0' \in Blocks \cup {NULL}
      /\ panicked' = FALSE
    BY <1>2, <1>3, <1>4, InvParts DEF SchedParts
<1>9. SchedParts'
    BY <1>5, <1>6, <1>7, <1>8 DEF SchedParts
<1> QED BY <1>9, InvParts, PTL

\* sched_yield keeps the invariant, whether or not it switches.
LEMMA YieldInv == SchedInv /\ Yield => SchedInv'
<1> SUFFICES ASSUME SchedInv, Yield PROVE SchedInv'
    OBVIOUS
<1>1. sched_yield(tasks, mem) /\ UNCHANGED <<next_task_id, panicked>>
    BY DEF Yield
<1>2. /\ TableOK(tasks', mem') /\ RunOK(tasks)'
      /\ tasks'[current_task'].state = TASK_RUNNING
      /\ cr3' \in Directories /\ esp0' \in Blocks \cup {NULL}
    BY <1>1, InvParts, YieldKeepsOrder DEF SchedParts
<1>3. next_task_id' \in Nat /\ panicked' = FALSE
    BY <1>1, InvParts DEF SchedParts
<1>4. SchedParts'
    BY <1>2, <1>3 DEF SchedParts
<1> QED BY <1>4, InvParts, PTL

\* A table whose current task just became a zombie is in order.
LEMMA ExitingTable ==
    ASSUME SchedInv, current_task # 0
    PROVE  LET t == [tasks EXCEPT ![current_task].state = TASK_ZOMBIE]
           IN  /\ TableOK(t, mem)
               /\ RunOK(t)
               /\ t[current_task].state = TASK_ZOMBIE
               /\ t[current_task].stack = tasks[current_task].stack
<1> DEFINE t == [tasks EXCEPT ![current_task].state = TASK_ZOMBIE]
<1>0. SchedParts
    BY InvParts
<1>1. current_task # 0
    OBVIOUS
<1>2. /\ t \in [Slots -> Task] /\ t[current_task].state = TASK_ZOMBIE
      /\ \A i \in Slots : /\ t[i].stack = tasks[i].stack
                          /\ t[i].address_space = tasks[i].address_space
                          /\ t[i].stack_pointer = tasks[i].stack_pointer
                          /\ t[i].entry = tasks[i].entry
      /\ \A i \in Slots \ {current_task} : t[i].state = tasks[i].state
  <2> DEFINE old == [tasks[current_task] EXCEPT !.state = TASK_ZOMBIE]
  <2>1. tasks \in [Slots -> Task] /\ current_task \in Slots /\ tasks[current_task] \in Task
    BY <1>0 DEF SchedParts, TableOK, RunOK
  <2>2. t = [tasks EXCEPT ![current_task] = old]
    BY <2>1
  <2>3. /\ old \in Task /\ old.state = TASK_ZOMBIE
        /\ old.stack = tasks[current_task].stack
        /\ old.address_space = tasks[current_task].address_space
        /\ old.stack_pointer = tasks[current_task].stack_pointer
        /\ old.entry = tasks[current_task].entry
    BY <2>1 DEF Task, TaskStates
  <2> HIDE DEF old, t
  <2> QED BY <2>1, <2>2, <2>3
<1> HIDE DEF t
<1>3. Used(t) = Used(tasks) /\ Used(tasks) \subseteq Slots /\ 0 \in Slots
    BY <1>0, <1>2, SlotsNat
       DEF Used, SchedParts, TASK_ZOMBIE, TASK_UNUSED, TASK_RUNNING
<1>4. TableOK(t, mem)
  <2>1. StacksOK(t, mem)
    BY <1>0, <1>2, <1>3 DEF SchedParts, TableOK, StacksOK
  <2>2. SpacesOK(t, mem)
    BY <1>0, <1>2, <1>3 DEF SchedParts, TableOK, SpacesOK, SharedSpace
  <2> QED BY <1>0, <1>1, <1>2, <1>3, <2>1, <2>2 DEF SchedParts, TableOK
<1>5. RunOK(t)
    BY <1>0, <1>2 DEF SchedParts, RunOK, TASK_ZOMBIE, TASK_RUNNING, TASK_RUNNABLE
<1>6. t[current_task].stack = tasks[current_task].stack
    BY <1>0, <1>2 DEF SchedParts, RunOK
<1> QED BY <1>2, <1>4, <1>5, <1>6 DEF t

\* The caller of kthread_exit is not task 0, and so the first panic is not
\* reached.
LEMMA ExitingIsThread ==
    ASSUME SchedInv, ExitThread
    PROVE  /\ current_task # 0
           /\ sched_yield([tasks EXCEPT ![current_task].state = TASK_ZOMBIE], mem)
           /\ panicked' = (current_task' = current_task)
           /\ UNCHANGED next_task_id
<1>1. current_task # 0
    BY DEF SchedInv, ExitThread
<1> QED BY <1>1 DEF ExitThread, kthread_exit

\* kthread_exit keeps the invariant, both its panics unreached included.
LEMMA ExitInv == SchedInv /\ ExitThread => SchedInv'
<1> SUFFICES ASSUME SchedInv, ExitThread PROVE SchedInv'
    OBVIOUS
<1> DEFINE t == [tasks EXCEPT ![current_task].state = TASK_ZOMBIE]
<1>0. SchedParts
    BY InvParts
<1>1. /\ current_task # 0
      /\ sched_yield(t, mem)
      /\ panicked' = (current_task' = current_task)
      /\ UNCHANGED next_task_id
    BY ExitingIsThread
<1>2. TableOK(t, mem) /\ RunOK(t) /\ t[current_task].state = TASK_ZOMBIE
    BY <1>1, ExitingTable
<1> HIDE DEF t
<1>6. cr3 \in Directories /\ esp0 \in Blocks \cup {NULL}
    BY <1>0 DEF SchedParts
<1>7. /\ TableOK(tasks', mem') /\ RunOK(tasks)'
      /\ tasks'[current_task'].state = TASK_RUNNING
      /\ current_task' # current_task
      /\ cr3' \in Directories /\ esp0' \in Blocks \cup {NULL}
    BY <1>1, <1>2, <1>6, YieldKeepsOrder
<1>8. next_task_id' \in Nat /\ panicked' = FALSE
    BY <1>0, <1>1, <1>7 DEF SchedParts
<1>9. SchedParts'
    BY <1>7, <1>8 DEF SchedParts
<1> QED BY <1>9, InvParts, PTL

\* Adopting a new directory keeps the invariant; task 0 is refused.
LEMMA AdoptInv == SchedInv /\ AdoptSpace => SchedInv'
<1> SUFFICES ASSUME SchedInv, AdoptSpace PROVE SchedParts'
    BY InvParts, PTL
<1> DEFINE r == vmm_create_address_space(mem)
<1>0. SchedParts /\ current_task \in Slots /\ 0 \in Slots /\ mem \in MemoryType
      /\ tasks \in [Slots -> Task]
    BY InvParts, SlotsNat DEF SchedParts, RunOK, TableOK
<1>1. /\ tasks' = sched_set_current_address_space(tasks, r.ret)
      /\ cr3' = LoadedDirectory(r.ret)
      /\ mem' = IF current_task = 0 THEN vmm_destroy_address_space(r.mem, r.ret) ELSE r.mem
      /\ UNCHANGED <<current_task, next_task_id, esp0, panicked>>
    BY DEF AdoptSpace
<1>2. /\ r.mem \in MemoryType
      /\ r.mem.stacks = mem.stacks
      /\ \/ r.ret = NULL /\ r.mem = mem
         \/ /\ r.ret \in Pages \ mem.used
            /\ r.mem.used = mem.used \cup {r.ret}
            /\ r.mem.pde = [mem.pde EXCEPT ![r.ret] = ABSENT]
    BY <1>0, CreatesFreshSpace
<1> HIDE DEF r
<1>3. \A d \in Directories : r.mem.pde[d] = ABSENT
    BY <1>0, <1>2 DEF SchedParts, TableOK, SpacesOK, MemoryType
<1>4. r.ret \in Directories \cup {NULL} /\ mem.used \subseteq r.mem.used
    BY <1>2 DEF Directories
<1>5. CASE current_task = 0 \/ r.ret = NULL
  <2>1. tasks' = tasks /\ cr3' = cr3
    BY <1>1, <1>5 DEF sched_set_current_address_space, LoadedDirectory, SpaceRefused
  <2>2. /\ mem' \in MemoryType /\ mem'.stacks = mem.stacks
        /\ mem.used \subseteq mem'.used
        /\ \A d \in Directories : mem'.pde[d] = ABSENT
    <3>1. CASE current_task = 0
      <4>1. mem' = DestroySpaces(r.mem, {r.ret})
        BY <1>1, <3>1 DEF vmm_destroy_address_space
      <4>2. /\ mem' \in MemoryType /\ mem'.stacks = r.mem.stacks
            /\ mem'.used = r.mem.used \ ({r.ret} \ {NULL, kernel_page_directory})
            /\ \A d \in Directories : mem'.pde[d] = ABSENT
        BY <1>2, <1>3, <1>4, <4>1, DestroyKeepsType, DestroyFreesDirectories
      <4> QED BY <1>2, <4>2
    <3>2. CASE current_task # 0
      BY <1>1, <1>2, <1>3, <1>4, <3>2
    <3> QED BY <3>1, <3>2
  <2>3. TableOK(tasks', mem')
    BY <1>0, <2>1, <2>2, MoreMemory DEF SchedParts
  <2>4. RunOK(tasks)'
    BY <1>0, <1>1, <2>1 DEF SchedParts, RunOK
  <2> QED BY <1>0, <1>1, <2>1, <2>3, <2>4 DEF SchedParts
<1>6. CASE current_task # 0 /\ r.ret # NULL
  <2> DEFINE new == [tasks[current_task] EXCEPT !.address_space = r.ret]
  <2>1. tasks' = [tasks EXCEPT ![current_task] = new] /\ cr3' = r.ret /\ mem' = r.mem
    BY <1>0, <1>1, <1>6 DEF sched_set_current_address_space, LoadedDirectory, SpaceRefused
  <2>2. r.ret \in Pages \ mem.used /\ mem'.used = mem.used \cup {r.ret}
    BY <1>2, <1>6, <2>1
  <2>3. /\ new \in Task /\ new.address_space = r.ret
        /\ new.state = tasks[current_task].state /\ new.stack = tasks[current_task].stack
    BY <1>0, <1>4 DEF Task
  <2> HIDE DEF new
  <2>4. /\ tasks' \in [Slots -> Task] /\ tasks'[current_task].address_space = r.ret
        /\ \A i \in Slots : tasks'[i].state = tasks[i].state /\ tasks'[i].stack = tasks[i].stack
        /\ \A i \in Slots \ {current_task} : tasks'[i] = tasks[i]
    BY <1>0, <2>1, <2>3
  <2>5. Used(tasks') = Used(tasks) /\ Used(tasks) \subseteq Slots
    BY <2>4 DEF Used
  <2>6. TableOK(tasks, mem') /\ mem' \in MemoryType
    BY <1>0, <1>2, <1>3, <1>4, <2>1, MoreMemory DEF SchedParts
  <2>7. StacksOK(tasks', mem')
    BY <1>0, <2>4, <2>5, <2>6 DEF TableOK, StacksOK
  <2>8. SpacesOK(tasks', mem')
    <3>1. \A i \in Used(tasks) \ {current_task} : tasks[i].address_space # r.ret
      BY <1>0, <2>2, PagesNat DEF SchedParts, TableOK, SpacesOK
    <3>2. \A i, j \in Used(tasks') : SharedSpace(tasks', i, j) => i = j
      BY <2>4, <2>5, <2>6, <3>1 DEF TableOK, SpacesOK, SharedSpace
    <3>3. \A i \in Used(tasks') : tasks'[i].address_space # kernel_page_directory =>
             tasks'[i].address_space \in mem'.used
      BY <2>2, <2>4, <2>5, <2>6 DEF TableOK, SpacesOK
    <3>4. \A i \in Used(tasks') : tasks'[i].address_space # NULL
      BY <1>6, <2>4, <2>5, <2>6 DEF TableOK, SpacesOK
    <3>5. tasks'[0].address_space = kernel_page_directory
      BY <1>0, <1>6, <2>4, <2>6 DEF TableOK, SpacesOK
    <3> QED BY <2>6, <3>2, <3>3, <3>4, <3>5 DEF TableOK, SpacesOK
  <2>9. TableOK(tasks', mem')
    BY <1>0, <1>6, <2>4, <2>6, <2>7, <2>8 DEF TableOK
  <2>10. RunOK(tasks)'
    BY <1>0, <1>1, <2>1, <2>4 DEF SchedParts, RunOK, TASK_RUNNING, TASK_RUNNABLE
  <2> QED BY <1>0, <1>1, <1>4, <1>6, <2>1, <2>4, <2>9, <2>10 DEF SchedParts
<1> QED BY <1>5, <1>6

\* Whatever the running thread calls, the invariant survives the step.
LEMMA StepInv == SchedInv /\ [SchedNext]_schedVars => SchedInv'
<1> SUFFICES ASSUME SchedInv, [SchedNext]_schedVars PROVE SchedInv'
    OBVIOUS
<1>1. CASE CreateThread
    BY <1>1, CreateInv
<1>2. CASE Yield
    BY <1>2, YieldInv
<1>3. CASE ExitThread
    BY <1>3, ExitInv
<1>4. CASE AdoptSpace
    BY <1>4, AdoptInv
<1>5. CASE UNCHANGED schedVars
  <2>1. SchedParts'
    BY <1>5, InvParts DEF schedVars, SchedParts, RunOK
  <2> QED BY <2>1, InvParts, PTL
<1> QED BY <1>1, <1>2, <1>3, <1>4, <1>5 DEF SchedNext

\* In a table in order the current task's stack and directory are allocated.
LEMMA FootingHolds ==
    ASSUME NEW t, NEW m, TableOK(t, m), current_task \in Slots,
           t[current_task].state # TASK_UNUSED, cr3 = t[current_task].address_space
    PROVE  /\ current_task # 0 => t[current_task].stack \in m.stacks
           /\ cr3 # kernel_page_directory => cr3 \in m.used
BY DEF TableOK, StacksOK, SpacesOK, Used

\* Reaping on the way to a switch spares the task that gives up the CPU.
LEMMA YieldKeepsFooting ==
    ASSUME NEW t, NEW m, TableOK(t, m), RunOK(t), sched_yield(t, m)
    PROVE  /\ current_task # 0 => t[current_task].stack \in mem'.stacks
           /\ cr3 # kernel_page_directory => cr3 \in mem'.used
<1> DEFINE z == reap_zombies(t, m)
<1>1. /\ TableOK(z.tasks, z.mem)
      /\ z.tasks[current_task] = t[current_task]
    BY ReapKeepsTable DEF RunOK, Reapable
<1>2. mem' = z.mem
    BY DEF sched_yield
<1>3. /\ current_task \in Slots
      /\ z.tasks[current_task].state # TASK_UNUSED
      /\ cr3 = z.tasks[current_task].address_space
    BY <1>1 DEF RunOK, TASK_UNUSED, TASK_RUNNING, TASK_ZOMBIE
<1> HIDE DEF z
<1> QED BY <1>1, <1>2, <1>3, FootingHolds

\* No step gives back what it runs on.
LEMMA StepFooting == SchedInv /\ [SchedNext]_schedVars => [KeepsFooting]_schedVars
<1> SUFFICES ASSUME SchedInv, SchedNext PROVE KeepsFooting
    OBVIOUS
<1>0. SchedParts
    BY InvParts
<1>1. CASE CreateThread
  <2>1. PICK e \in Entries : \E r \in kthread_create(tasks, mem, e) :
           tasks' = r.tasks /\ mem' = r.mem
    BY <1>1 DEF CreateThread
  <2>2. PICK r \in kthread_create(tasks, mem, e) : tasks' = r.tasks /\ mem' = r.mem
    BY <2>1
  <2>3. TableOK(r.tasks, r.mem) /\ RunOK(r.tasks)
        /\ r.tasks[current_task] = tasks[current_task]
    BY <1>0, CreateKeepsOrder DEF SchedParts
  <2>4. /\ current_task \in Slots
        /\ r.tasks[current_task].state # TASK_UNUSED
        /\ cr3 = r.tasks[current_task].address_space
    BY <2>3 DEF RunOK, TASK_UNUSED, TASK_RUNNING, TASK_ZOMBIE
  <2> QED BY <2>2, <2>3, <2>4, FootingHolds DEF KeepsFooting
<1>2. CASE Yield
  <2>1. sched_yield(tasks, mem)
    BY <1>2 DEF Yield
  <2> QED BY <1>0, <2>1, YieldKeepsFooting DEF SchedParts, KeepsFooting
<1>3. CASE ExitThread
  <2> DEFINE t == [tasks EXCEPT ![current_task].state = TASK_ZOMBIE]
  <2>1. current_task # 0 /\ sched_yield(t, mem)
    BY <1>3, ExitingIsThread
  <2>2. TableOK(t, mem) /\ RunOK(t) /\ t[current_task].stack = tasks[current_task].stack
    BY <2>1, ExitingTable
  <2> HIDE DEF t
  <2> QED BY <2>1, <2>2, YieldKeepsFooting DEF KeepsFooting
<1>4. CASE AdoptSpace
  <2> DEFINE r == vmm_create_address_space(mem)
  <2>1. cr3 = kernel_page_directory
    BY <1>0, <1>4 DEF SchedParts, RunOK, AdoptSpace
  <2>2. current_task # 0 => mem' = r.mem
    BY <1>4 DEF AdoptSpace
  <2>3. r.mem.stacks = mem.stacks
    BY <1>0, CreatesFreshSpace DEF SchedParts, TableOK
  <2>4. current_task # 0 => tasks[current_task].stack \in mem.stacks
    BY <1>0, FootingHolds DEF SchedParts, RunOK, TASK_UNUSED, TASK_RUNNING
  <2> HIDE DEF r
  <2> QED BY <2>1, <2>2, <2>3, <2>4 DEF KeepsFooting
<1> QED BY <1>1, <1>2, <1>3, <1>4 DEF SchedNext

-----------------------------------------------------------------------------
(* Theorems *)

\* The inductive invariant holds of the scheduler, for every number of slots,
\* pages and threads.
THEOREM SchedInvariant == SchedSafety => []SchedInv
BY InitInv, StepInv, PTL DEF SchedSafety

\* Table, memory and registers keep their types: no search leaves its array and
\* no freed or absent entry is used as a page.
THEOREM TypeCorrect == SchedSafety => []SchedTypeOK
<1>1. SchedInv => SchedTypeOK
    BY DEF SchedInv
<1> QED BY <1>1, SchedInvariant, PTL

\* The current task, and only it, is marked running (sched_yield).
THEOREM OnlyCurrentRuns == SchedSafety => []OneRunning
<1>1. SchedInv => OneRunning
    BY DEF SchedInv
<1> QED BY <1>1, SchedInvariant, PTL

\* kthread_exit reaches neither panic: not "task 0 exited", since the task that
\* runs a thread's function is never task 0, nor "zombie task resumed".
THEOREM NeverPanics == SchedSafety => []NoPanic
<1>1. SchedInv => NoPanic
    BY DEF SchedInv
<1> QED BY <1>1, SchedInvariant, PTL

\* Stacks are neither shared, nor freed under a task, nor lost (reap_zombies,
\* kthread_create).
THEOREM StacksHaveOneOwner == SchedSafety => []StacksOwned
<1>1. SchedInv => StacksOwned
    BY DEF SchedInv
<1> QED BY <1>1, SchedInvariant, PTL

\* Nobody runs in, or can switch to, a directory that was given back
\* (sched_yield, task_cleanup).
THEOREM DirectoriesStayLive == SchedSafety => []SpacesLive
<1>1. SchedInv => SpacesLive
    BY DEF SchedInv
<1> QED BY <1>1, SchedInvariant, PTL

\* Every switch loads a stack pointer that was stored, and tss.esp0 follows
\* (sched_context_switch, sched_set_kernel_task).
THEOREM SwitchesAreReady == SchedSafety => []ContextReady
<1>1. SchedInv => ContextReady
    BY DEF SchedInv
<1> QED BY <1>1, SchedInvariant, PTL

\* No thread frees the stack it runs on or the directory that is loaded, also
\* not in kthread_exit (reap_zombies skips the current task).
THEOREM NothingFreedUnderCpu == SchedSafety => RunsOnLiveMemory
BY SchedInvariant, StepFooting, PTL DEF SchedSafety, RunsOnLiveMemory
=============================================================================
