# A TLA+ verification of the Emyx kernel

Emyx is a small 32-bit x86 kernel with cooperative scheduling: one CPU, no
preemption, kernel threads that become user processes, and two interrupts (the
timer and the keyboard) that may fall anywhere. This directory models its core in
TLA+, model-checks it with TLC and proves the safety of most of it with TLAPS.

## The system

| Part | State | Operations | What makes it correct |
|---|---|---|---|
| Scheduler (`kernel/sched.c`, `arch/i386/sched.c`, `context_switch.S`) | `tasks[]`, `current_task`, `next_task_id`; `cr3`; the stack in the TSS | `kthread_create`, `sched_yield`, `kthread_exit`, `sched_set_current_address_space`, `reap_zombies` | one running task; a stack and a directory are freed once, never under the CPU; nobody starves; the panics are unreachable |
| Processes and system calls (`kernel/user.c`, `kernel/syscall.c`) | `processes[]`, `next_pid`, `userland_active` | `user_spawn`, `user_exec_task`, `user_wait`, `user_exit_current`, `user_init`, `getc` | no page leaks or is shared on any failure path; the process and task tables agree; a status waits for its parent; a session ends |
| Physical memory (`kernel/mm/pmm.c`) | bitmap, page counts | `pmm_init`, `pmm_alloc_page`, `pmm_free_page` | the bitmap is placed safely; only free usable RAM is handed out; the counter is exact |
| Virtual memory (`kernel/mm/vmm.c`, `arch/i386/paging.c`) | page directories and tables; the TLB | `vmm_init`, create, destroy, map, unmap, look up | each address space has its own mappings and all share the kernel's; old frame contents and old translations are never used |
| Heap (`kernel/mm/kmalloc.c`) | list of blocks | `kmalloc`, `kfree` | blocks are disjoint; freed room is found again |
| Keyboard ring (`kernel/keyboard.c`) | `buffer`, `read_index`, `write_index` | push (interrupt), pop and clear (system calls) | a bounded queue without a lock |
| Kernel shell (`kernel/kshell.c`, `main.c`) | `buffer`, `length`, `command_ready`, `active` | `kshell_on_char` (interrupt), `kshell_poll`, `kshell_exec`, `kshell_init` | the line stays a string; the command typed is the one run; a newline is acted upon |
| Interrupts and timer (`kernel/interrupt.c`, `isr_stub.S`, `idt.c`, `pic.c`, `kernel/timer.c`) | interrupt flag, masks, lines in service, `ticks` | `irq_handler`, `pic_send_eoi`, `syscall_stub`, `timer_print` | tasks run with interrupts on and handlers do not nest; a raised line is served |
| Terminal (`arch/i386/tty.c`) | `terminal_row`, `terminal_column`, text memory, the cursor registers | `terminal_putchar`, `terminal_scroll_up`, `terminal_backspace`, `terminal_init` | output stays on the screen whatever is echoed meanwhile |
| Initramfs and program images (`kernel/initramfs.c`, `load_emxf`) | the boot module, read only | `initramfs_find`, `load_emxf` | whatever its fields say, only bytes of the archive are used |
| The rest | | boot assembly, segments, PIT, serial line, `printk`, libc, user programs | see "Not modelled" |

**Interaction.** `kmain` initialises memory, the scheduler and interrupts, runs
`user_init` as task 0, and then loops over the kernel shell. Processes are
kernel threads that load a program, adopt a page directory and enter user mode;
`user.c` and `sched.c` share ownership of that directory. Interrupt handlers share
the keyboard ring with system calls, and the line buffer and the screen with the
main loop and its commands.

**What is hard.** There is no preemption between tasks, so between tasks the
difficulty is *order* (who exits, waits, is reaped or fails first) and *partial
failure* (memory can run out at any allocation). Between interrupts and the code
they interrupt it is *interleaving*: exception and IRQ gates mask interrupts, so a
handler is one step, but the system call gate is a trap gate and the main loop runs
with interrupts on, so a handler may come between any two of their accesses.
`hazards` in `PROJECT.json` lists each place, with the properties that cover it.

## Modules

- **`Memory`**: operators, no state of its own. A record `mem` holds the pages in
  use, each directory's low page-table entry (`pde`), each table's entries (`pte`),
  the heap's pages and the allocated kernel stacks. `pmm_alloc_page`,
  `vmm_create_address_space`, `vmm_map_page_in`, `kmalloc` and the others map a
  `mem` to a result. Pages are numbered from 1 and allocated lowest first, as the
  bitmap search does; `DirectMapPages` is how many of them the direct map reaches.
- **`Sched`** (extends `Memory`): the task table and the CPU's registers. Each
  action is one call by the running task, up to the point where that task, or the
  one switched to, runs on: `CreateThread`, `Yield`, `ExitThread`, `AdoptSpace`.
  `sched_yield(t, m)` includes the reaping at its start and the loading of the
  stack, of `cr3` and of the TSS at its end.
- **`Process`** (extends `Sched`): the process table and the code that runs in
  each task. It reuses the operators of `Sched`, not its actions, since one step
  of `user_spawn` or `sys_exit` contains several of them. `pc[slot]` says where a
  task is between two steps: in user mode, in `user_wait`'s loop, about to start,
  in `user_init`'s loop, in `cmd_vmmtest`, at the kernel shell. User programs
  are arbitrary sequences of system calls. A key in `keys` is represented by the
  value of `next_pid` when it was typed, so that "typed before it was spawned"
  can be stated.
- **`KeyboardBuffer`** and **`BoundedFifo`**: the ring at the grain of single
  loads and stores, with `pop` and `clear` split wherever the interrupt may push,
  and the bounded queue that it promises to be. `Process` uses the queue.
- **`Pmm`**: `pmm_init` over a boot layout (memory map, kernel image, multiboot
  data), with 32-bit address arithmetic taken modulo `WORD`; `find_segment` is
  stepped candidate by candidate. Then allocation, with callers that keep the page
  or, outside the direct map, give it straight back, and release.
- **`KShell`**: the line buffer, with `memset`, the two stores after it (plain
  variables, which the compiler may store in either order), `hlt` and the parts of
  `kshell_exec` as steps of the loop, and `kshell_on_char` as one step anywhere.
- **`Kmalloc`**: the block list of the heap, with the users it has (thread stacks,
  `heaptest`) and the other users of pages, which decide where the heap's pages
  lie. Every call runs to its end: no handler allocates and no caller yields inside.
- **`Vmm`** and **`AddressSpaces`**: directories and tables are the contents of
  frames. `Release` leaves the worst possible contents in a freed frame, and a
  program may write the same to its own pages, so a missing `memset` would show.
  The TLB may pick up any current translation at any time. The callers are a
  process's life and `vmmtest`. `AddressSpaces` is the promise: separate maps,
  each changed only by operations on it; `SpacesView` walks the page tables in
  memory to get there.
- **`Interrupts`**: the two controllers (from their use, with priorities, masks and
  lines in service), the gates, the interrupt flag as it goes through gates, frames,
  `iret` and context switches, and the main loop with `timer_print`. Which task a
  yield chooses is left open; `Sched` has that.
- **`Terminal`**: `terminal_putchar`, the scroll and the clear of a task, one memory
  or port access per step, and the echo of `kshell_on_char` as one step anywhere in
  between. `paper` is the reference: a roll that never scrolls.
- **`Initramfs`** (operators) and **`Spawn`** (extends `KShell` and `Initramfs`):
  `userspawn` from the line buffer, through `strlen`, the first search, the copy and
  the thread's own search, to the checks of the image.
- **`*Proofs`**: theorems about the module each is named after, for every value of
  its constants (`KShellProofs` also about `Spawn`; `IrqProofs` about `Interrupts` and
  `KeyboardBuffer`, what interrupt handlers share with tasks).
- **`MC*`**: constants for TLC.

Definitions ending in `_Something` next to a definition of the same name are
mutations of it that the project keeps to show that each property can fail; no
specification uses them. Where a module has a proof, its type invariant is a part of
the inductive invariant; elsewhere it states the types for a reader.

### Abstractions worth knowing

- *kmalloc in `Memory`.* Stacks are the only blocks there. A heap page (4084 bytes
  after its header) holds one block of 2048 bytes and its header with room for less
  than another; so with fewer stacks than pages `kmalloc` reuses a block, and only
  merged blocks of adjacent pages may hold more, always less than two per page: the
  model allows reuse in that range as well as growth. `StacksAsAbstracted` checks
  these facts on the block list, with `heaptest` in between: in every state it asks
  what `kmalloc` would do for a stack next, also when the heap holds every page of the
  direct map and a request may be refused. They need a stack of at
  least three minimal blocks (`KmallocAssumption`; 2048 against 3 * 20 bytes): with
  smaller ones the slack that `heaptest`'s splits lose could cost a stack.
  The branches of `heaptest` that keep a block are never reached.
- *The heap in `Vmm`.* A new thread's stack may or may not take another page; the
  page then stays used. `Kmalloc` says when it does.
- *TLB.* `TlbSize` translations at a time; entries do not affect one another, so one
  shows every stale one.
- *Compiled accesses in `Terminal`.* `terminal_row` and `terminal_column` are plain
  variables: the value incremented may be the one read at the start of the call or a
  new one, and the value compared is the one just stored (`++x == N` keeps it in a
  register with the flags of the Makefile). A build that loaded it again after the
  store could miss the comparison when an echo comes between.
- *Copies in `Spawn`.* The `memcpy` of the path is one step; the keys that matter,
  between `strlen`, the search and the copy, are not.
- *Archive memory.* `Spawn` takes it that nobody writes to the archive. The pages of
  boot modules are not reserved by `pmm_init`, so this is an assumption.
- *Stack pointers* are "none", "trampoline" (prepared by `kthread_create`) or
  "saved" (by a switch).
- *Programs* are "good" or "bad" (found, but not a valid image); a path that is not
  found fails before any state changes. Every program has one code and one stack
  page, which is what the loader supports.
- *The search of `kshell_exec`.* Each turn of the loop that measures the first word is
  a step; the comparisons with the names of the commands are one step together.
- *Interrupt controllers.* `DeviceLines` are the lines other than the timer's, the
  keyboard's and the cascade's that have a device (3 to 15), with the mask the boot
  loader left, which `pic_remap` puts back. Run `interrupts` has one on the second
  controller; the theorems allow any. Spurious interrupts (lines 7 and 15 with nothing
  in service) are left out: the handler acknowledges them like any other, so an
  end-of-interrupt goes to a controller that serves nothing.
- *Exit statuses* are carried and never read by the kernel; they are left out.

## Runs

| Run | Shows | Bounds |
|---|---|---|
| `sched` | `StacksOwned`, `SpacesLive`, `ContextReady`; `RunnableRuns`, `ZombieReaped` | 4 slots, 5 pages, 6 task ids: the table fills, memory runs out in every allocation, slots, stacks and directories are reused |
| `process` | `PagesAccounted`, `Isolation`, `ProcessesMatchTasks`, `ParentsCanWait`, `NoTypeAhead`, `NoPanic`; `StatusKept`, `RunsOnLiveMemory`; `WaitReturns`, `UserlandEnds` | 4 slots, 3 records, 10 pages, 4 pids, 5 task ids, a ring of 2: parent, child and grandchild, a full table, an exec that fails at either page |
| `keyboard` | `PopUndisturbed`, `ClearForward`, refinement of `BoundedFifo` | a ring of 4, two characters: full, empty and wrapped |
| `pmm` | `FreeCount`, `HandedOutSafely`, `SegmentSafe`, `BootEnds` | pages of 4 bytes, 16 below `WORD`, 8 in the direct map; eleven memory maps, three of them with RAM above 4 GiB listed first so that its addresses modulo `WORD` are tried, and every placement of the boot loader's data among a few |
| `kshell` | `LineTerminated`, `LineAsTyped`, `RunsTypedCommand`, `NewlineActedUpon` | a buffer of 4, two letters, two commands of which one is a prefix of the other |
| `kmalloc` | `BlocksApart`, `StacksAsAbstracted` | 6 pages of 38 bytes, 4 within the direct map, stacks of 18, headers of 2: adjacent and separate heap pages, merged, split and lost remainders |
| `vmm` | `TlbFresh`, `UserConfined`, refinement of `AddressSpaces` | 6 entries per table, one of them user space and two the direct map, 13 frames of which one is beyond it, two processes: both loaded, one exited and one loaded, memory used up at each page of a load |
| `interrupts` | `InterruptsOn`, `ServiceMatches`; `TicksApart`, `PendingServed` | two processes, the timer, the keyboard and one device on the second controller; a counter modulo 4 and a period of 2 |
| `terminal` | `CursorRests`, `CursorShown`, `ScreenShowsText` | 3 by 2 characters, 12 positions, 2 keys, a low byte of one bit so that the address takes both registers: wrap, scroll, a key inside a scroll and one inside its cursor update |
| `spawn` | `LoadInBounds`, `SpawnsTyped` | a line of 6, paths of up to 2 characters, nine archives in 32 addresses, most with something wrong: wrapping sums, ends on and past the limit, an entry without terminator |
| `pmm_modules` | a disagreement, below | as `pmm` |
| `pmm_unaligned` | a disagreement, below | a map with a region that starts inside a page |

What the properties of the newer modules say:

- `BlocksApart`, `UserConfined`: the structure as a whole, after any sequence of
  operations: blocks lie inside the heap's pages and never overlap; a program reaches
  the pages of its record with the right rights, and nothing else, in whatever frames
  they are.
- `StacksAsAbstracted`: an invariant about the next request for a stack: with fewer
  stacks than pages it is served from the heap, it is refused only with a stack or more
  per page and no page to be had, and so on. Freed room is found again, and what splits lose does not add
  up (`NothingLost`): every byte of the heap is in a block or in the slack after one,
  which is smaller than the smallest block. This depends on the sizes that are asked
  for: a block that was cut short and is split again loses more, which requests of
  every size could repeat.
- `WaitReturns`: also a child whose program could not be loaded lets its parent go on:
  the wait returns once no record that has not exited has the pid.
- `NoPanic`: both panics of `kthread_exit`, the one for task 0 and the one for a zombie
  that is resumed.
- `RunsTypedCommand`: about lines that no key changed after the newline. A key after it
  may change the command that runs (the TODO at `kshell.c:75`); `LineTerminated` and
  `LineAsTyped` hold then too.
- `CursorShown`: a key echoed inside a call may leave the cursor elsewhere, until the
  next character that moves it; the property is that the damage is not carried over. A backspace in the upper left corner moves nothing and
  leaves the cursor where it is (`Ignored`).
- `TlbFresh`: nothing the processor remembers differs from what is in memory.
- `InterruptsOn`: a switch saves no flags, so this holds only because *every* way
  into the kernel that may switch leaves the flag on. With an interrupt gate for the
  system call a yield would take the main loop into `hlt` with interrupts off.
- `ServiceMatches`: controllers serve nothing while a task runs.
- `CursorRests`: a key echoed inside a print can spoil characters, and the cursor's
  place until the next one, but never moves output off the screen for good.
- `SpawnsTyped`: an undisturbed `userspawn` starts what was typed. With keys in
  between, the copied path may be another, and may even lack its terminator when it
  has the greatest length; the thread's search is bounded and finds no file then.

The bounds on ids (`MaxTaskId`, `MaxPid`) cap counters that wrap only after 2^32
steps. They are larger than the tables, so slots, records, stacks and directories are
reused after they were freed.
The runs `pmm` and `interrupts` do not check for deadlock: the machine stops in a
panic, or in the loop of an exception.

### Disagreements with comments

- `pmm_modules`: the comment on `find_segment` says the segment does not overlap
  multiboot data (`pmm.c:184`). The module list is not among the ranges it avoids,
  and `boot_init` reads that list after the bitmap was written over it.
- `pmm_unaligned`: the comment on `clear_usable_pages` says that all pages inside
  type 1 regions can be allocated (`pmm.c:93`). The start and the length of a
  region are rounded down separately, so a region that starts inside a page
  loses its last whole page. Boot loaders usually report aligned regions.

### Fairness

- `SchedSpec`: whichever task has the CPU eventually yields or exits
  (`GiveUpFairness`). Scheduling is cooperative, so this is an assumption about the
  tasks, and the README of the kernel says as much; it is weak fairness of the
  actions that give up the CPU, with `ENABLED` spelt out.
- `ProcessSpec`: the kernel's own loops (`user_init`, `user_wait`, a starting
  thread) run on, and a user program makes a system call that gives up the CPU
  again and again. `user/readkey.S` spins on `getc` without yielding: while nobody
  types it keeps the CPU, and none of the liveness properties holds then. Nothing
  is assumed of an operator at the kernel shell's prompt.
- `KShellSpec`: the main loop runs on and the timer ticks. A command need not
  return. Without the timer `NewlineActedUpon` fails: a newline between
  `kshell_poll` and `hlt` is found only after the next interrupt.
- `PmmSpec`: `pmm_init` runs on.
- `InterruptsSpec`: the processor executes (weak fairness), and takes an interrupt
  that is presented to it again and again (strong fairness per line: a handler of
  another line may be running whenever one looks). The timer does not raise
  its line again while its own interrupt is handled, since its period is far longer, so
  it leaves time for the rest. Any other device may: `keyboard_read` comes before
  `irq_ack`.

## Proofs

Every theorem is about all values of the constants: any number of tasks, pages,
processes, devices, any ring, line, screen, address width. The only hypotheses are the
`ASSUME`s of the modules, which TLC evaluates on each run, and for physical memory
three that are named below. The bounds of the runs (`MaxTaskId`, `MaxPid`, `MaxKeys`,
`MaxChars`) are constants too, so the theorems hold for every bound. Where a
specification has fairness, the theorems are about its safety part (`SchedSafety`,
`ProcessSafety`, `InterruptsSafety`, `PmmSafety`: the initial condition and the steps).

None of the properties is inductive as it stands. For each module the proof module
defines the invariant that is, proves it, and derives the properties from it.

**`SchedProofs`.** `SchedInv` gives `OneRunning`, `NoPanic`, `StacksOwned`,
`SpacesLive`, `ContextReady` and the action property `RunsOnLiveMemory`. That
`kthread_exit` finds a task to switch to needs that task 0 is never a zombie, and that
task 0 never calls it that it has no thread function, to return from or to enter user
mode by; that a
directory is freed once needs that task 0 keeps the kernel's and that every task in use
has one; that destroying spaces frees just the directories needs that no page table
exists. Four layers:

1. searches: `Lowest` finds a least element, and counting around the table reaches
   every slot, so `NextTask` finds a runnable task if there is one;
2. memory: a new space or block is fresh, and destroying the spaces of dead tasks
   frees those directories and nothing else;
3. the table: `reap_zombies`, `SwitchTo`, `sched_yield` and `kthread_create` keep a
   table in order (who is running, who owns what), stated for any table and memory
   so that the exiting task's intermediate state is covered too;
4. one lemma per action, and the temporal step.

**`ProcessProofs`** reuses layers 1 and 3. `ProcessInv` relates the two tables: ids
name one task and pids one record (both are below the next one to be handed out),
records that have not exited and living user threads are one to one and in matching
places of their code, a parent recorded is running and has a smaller pid, and every
key in the ring is no older than the last reset allows. It gives `ProcessesMatchTasks`,
`ParentsCanWait`, `NoTypeAhead`, `NoPanic` and `OneRunning` again for the richer steps,
and the action property `StatusKept`. What memory contains plays no part here: an
allocation gives a page or fails, and every branch on that is covered. The parts of the invariant
are stated of tables `t`, `ps`, `p` and not of the variables, so that they can be
followed through one step of `user_spawn` or `sys_exit`, which changes them several
times.

The second half of the module is about memory. `MemInv` adds to `ProcessInv` who owns
what: `MemOK(m, D, G)` says that each page in use is the heap's, a directory in `D`, the
page table of one directory or a program's page in `G`, and only one of these;
`OwnersOK` that tasks and records name each directory and each program page once, that
an exited record names none, and that a created process's directory is not yet its
thread's; `Contents` that a running process's directory maps its program and every other
directory nothing. None of `PagesAccounted`, `Isolation` and `RunsOnLiveMemory` is
inductive alone: that `user_process_free_pages` takes no one else's page needs that
pages have one owner, that `task_cleanup` takes no directory in use needs that an exited
process's record let go of it, and that a load finds nothing mapped needs the contents
of directories that do not run yet. All of it is stated of `t`, `ps`, `m` and the set
`X` of directories made for nobody yet, which is how it is carried through `user_spawn`
(a directory made, then a thread, then the record, each of which may fail) and through
`user_prepare_exec` (a page taken before the table it is mapped in). One lemma per
memory service says what it does to `MemOK` and to what directories map, one per
operation on the tables what it does to the owners, and one per action puts them
together. `PagesAccounted` counts: the last step turns disjointness and uniqueness into
cardinalities, with the library's theorems on bijections and unions. `StacksOwned`,
`SpacesLive` and `ContextReady` of `Sched` come out again for the process layer.

**`IrqProofs`**, the ring. `KeyboardInv` adds to `PopUndisturbed` and `ClearForward` that the
slots between the indices hold characters. With the arithmetic of the ring (distances
and slots modulo its size) it also gives the refinement: each step of the ring is a
step of `BoundedFifo`, where a push on a full ring, a load and a store that moves
nothing are stutters.

**`IrqProofs`**, the flag and the controllers. A switch saves no flags, so `InterruptsOn` of the next task
rests on the frames on every other task's stack: `InterruptsInv` has that a system call
will return with interrupts on and that nothing but task 0 exists before they are first
enabled. `ServiceMatches` and `TicksApart` come from the same invariant; for the latter
it bounds the difference the code computes modulo `WORD` by the ticks there were.

**`KShellProofs`.** The line (`LineTerminated`, `LineAsTyped`, `RunsTypedCommand`) under
a handler that may run between any two accesses; then the same invariant with that of
`userspawn`'s own state over the steps of `Spawn`, for `LoadInBounds` and `SpawnsTyped`:
whatever the sizes and offsets in the archive say, sums that wrap included.

**`TerminalProofs`.** Row and column leave the screen only between the two accesses that
leave and re-enter it, and what the call read before was on the screen; `CursorRests`
follows for every screen and any number of echoes. `CursorInv` follows the two bytes of
the cursor's address through the registers and gives `CursorShown`. Its proof failed at
first, and rightly: the model forgot a disturbed call at the next echo even if that was
a backspace in the upper left corner, where `terminal_backspace` returns before it
sets the cursor (`Ignored`).
`ScreenInv` is about the text. Between two accesses the screen shows neither the paper
before the character nor the one after it; the invariant says, for each place in the
call, which cells already have the new contents and which rows of the paper (`View`,
from its row `top`) the others still show. The lemmas below it say what one character
does to the paper (`NewRow`, `SameRow`, `BackRow`) and that a scroll shows the same
paper from one row further down (`ScrollView`), which needs the products of row and
width to be compared; `ScreenShowsText` is what is left of it between calls.

**`PmmProofs`.** `PmmInv` says of the candidate of `find_segment` that it is aligned, in
its region and leaves room for the bitmap below `WORD`, and later that a clear bit, like
a held page, means a page that `pmm_init` cleared and did not reserve. `SegmentSafe` is
proved for layouts that are `Addressable`: usable RAM ends by 4 GiB, and where the bitmap
may be put (a region's start, or after the kernel and the boot data) a page and the
bitmap fit below 4 GiB. The code does not check this; PCs keep the last addresses for
devices. `HandedOutSafely` needs also that usable regions are page-aligned (`Aligned`),
for the reason that run `pmm_unaligned` shows. Layouts with RAM above 4 GiB are
outside the theorems. Run `pmm` has some in which the search tries the truncated
addresses and still ends with a safe segment or a panic. It has none in which only such
RAM has room for the bitmap: `find_segment` cuts the address and the end of a region to
32 bits each (`pmm.c:200`), so there the segment is at the region's address modulo 2^32,
which need not be in a type 1 region as the comment at `pmm.c:182` has it.
`FreePagesCounted` is about the two counters, which the code updates with each bit. It
needs that usable regions do not overlap (`Apart`): where they do, `clear_usable_pages`
counts pages twice. What it counts is a sum over regions; `SumIs` says what such a sum is
(any measure of the sets of indices that grows by the addend with each index), and the
measure here is the number of pages in the regions. From there on each set and each
cleared bit changes the counter and the set of free pages by one together, and a
release of a page that is free already changes neither.

**`KmallocProofs`.** `HeapOK` says of a heap that every byte of a block, header
included, is in one of its pages and in no other block, and `Owned` who holds the blocks
in use. Both are stated of any heap value: `heaptest` makes up to six calls in a step,
and each has a lemma of its own (`StackTaken`, `SmallTaken`, `GivenBack`). Below them,
`AllocFromBlock` maps the blocks of the new list to those they were cut from, and
`KfreeIs` maps a merged block to all the blocks it was made of: that the size the loop
adds up reaches exactly the end of the last of them is `Telescope`, and that every
byte up to there belonged to one of them is `Covered`. Together with the test that
neighbours touch, this is why blocks of separate pages are never merged into bytes of
somebody else. A sum over a list is found with `SumIs` again. The assumption on the
sizes is that a rounded stack fits a page; `kmalloc` refuses larger requests.

**`VmmProofs`.** The theorems are about frames that are used again with whatever they
held, so the invariant says what every directory and table must hold. It is stated
through `low`: for each address space, the table a program's pages should have. `Shape`
says that RAM holds it: directories, tables of the kernel half and tables of programs
are distinct frames in use below the direct map's limit, each directory has the
kernel's entries and at most one table of its own, and that table is `low`'s. `Private`
says that the pages of programs are in use, are no structures and belong to one program,
`Fresh` that the TLB holds nothing `low` does not give, `Lists` that `low` is what the
process record lists. Neither `TlbFresh` nor `UserConfined` is inductive without them:
that a store of a program leaves the tables alone needs that no structure is mapped, and
that a new directory takes no frame from anybody needs that all structures are in use.
One lemma per operation of `vmm.c` says what it does to `low` and that frames in use
elsewhere are kept (`Keeps`), for every outcome of its allocations; one per action puts
them together, the undoing of a load that ran out of memory and both halves of `vmmtest`
included. As `low` can be read off the machine (`LowIs`), the same lemmas give
`TlbFresh`, `UserConfined` and the refinement of `AddressSpaces`, where `vmm_init`
stutters.

**Only model-checked**, and why:

- liveness (`RunnableRuns`, `ZombieReaped`, `WaitReturns`, `UserlandEnds`, `BootEnds`,
  `NewlineActedUpon`, `PendingServed`): fairness is beyond the prover;
- `StacksAsAbstracted`: how many stacks a number of pages holds and how much splits
  lose, which rests on how requests of two particular sizes cut up merged pages; no
  invariant for all sizes was found.

Induction over data (a sum, a search for the first element that differs, the end of a
merge) is done by a least counterexample (`LeastOf`), since the induction theorems of
the library cannot be instantiated here.

## Not modelled

- The assembly before `kmain`, the segment descriptors and the programming of the
  PIT are straight-line set-up of constants.
- The serial line is polled output without state. `printk`'s formatting and what an
  exception or a panic prints are wording; both stop the machine afterwards.
- The scancode table is data; a scancode is a character or none.
- The commands that only print (`help`, `ticks`, `irq`, `initramfs`) change nothing;
  `reboot`, `panic` and `pagefault` stop the machine.
- `boot_init` appears as its result: an archive, or one too small to be one.
- Wrap-around of pids and task ids is out of reach of a bounded run.
- The particular user programs; `Process` lets programs make any system calls.

## Plan

Every component with state or concurrency of its own has a module, and the tables,
rings, lines, interrupts, the screen, physical pages, the heap, page tables and the
ownership of memory are proved. What is left to model checking is listed above under
*Only model-checked*, with the reason.
