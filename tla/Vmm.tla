--------------------------------- MODULE Vmm ---------------------------------
(***************************************************************************)
(* kernel/mm/vmm.c and arch/i386/paging.c: page directories and tables in   *)
(* physical frames, and the processor's TLB beside them.                    *)
(*                                                                         *)
(* Nobody clears a frame when it is freed, and a program may write anything *)
(* to a page it can write to, so a frame that becomes a directory or a      *)
(* table may hold entries nobody meant.                                     *)
(*                                                                         *)
(* A machine value m is a record of the contents of RAM, the frames whose   *)
(* pmm bit is set and the TLB. Its callers are those of the kernel: a       *)
(* process's life (kernel/user.c, kernel/sched.c) and the vmmtest command.  *)
(***************************************************************************)
EXTENDS Integers, FiniteSets

CONSTANTS
    Entries,            \* entries in a directory or table (1024)
    KERNEL_PDE_INDEX,   \* first directory entry of the kernel half (768)
    DirectMapTables,    \* limit / PAGE_TABLE_SPAN (4)
    NFrames,            \* frames of RAM; frame 0 is reserved
    MaxSpaces,          \* task slots there are for processes (15)
    TlbSize             \* bound: translations remembered at a time

ASSUME VmmAssumption ==
    /\ {Entries, KERNEL_PDE_INDEX, DirectMapTables, NFrames, MaxSpaces, TlbSize}
          \subseteq Nat \ {0}
    /\ KERNEL_PDE_INDEX + DirectMapTables <= Entries
    \* vmm_init panics when it does not get its frames
    /\ 1 + DirectMapTables < NFrames
    /\ 1 + DirectMapTables < Entries * DirectMapTables

VARIABLES
    m,                      \* [ram, used, tlb]
    kernel_page_directory,  \* 0 before vmm_init
    cr3,
    pages,                  \* per user space, process->pages: <<vaddr, paddr>>
    phase                   \* per user space: created, running, exited

vmmVars == <<m, kernel_page_directory, cr3, pages, phase>>

Frames == 0 .. NFrames - 1
Index == 0 .. Entries - 1
NULL == 0

\* VMM_DIRECT_MAP_LIMIT >> PMM_PAGE_SHIFT: what the kernel half maps.
DirectMapPages == Entries * DirectMapTables

P == "present"
W == "writable"
U == "user"

Entry(frame, flags) == [frame |-> frame, flags |-> flags]
Zero == Entry(0, {})
ABSENT == Zero   \* no translation
Cleared == [i \in Index |-> Zero]

\* The directory entries of the direct map.
KernelIndex == KERNEL_PDE_INDEX .. KERNEL_PDE_INDEX + DirectMapTables - 1

\* What RAM holds at boot, and what a program may leave behind: here, entries
\* that give user mode a frame of the kernel.
Garbage == [i \in Index |-> Entry(1, {P, W, U})]

\* A virtual page is its directory index and its table index. The code and the
\* stack of a program share a directory entry; LOW is 0x00F00000.
CODE == <<0, 0>>
STACK == <<0, Entries - 1>>
LOW == <<0, 1>>
PDE(v) == v[1]
PTE(v) == v[2]
LowPages == {v \in Index \X Index : PDE(v) < KERNEL_PDE_INDEX}
KernelPages == (Index \X Index) \ LowPages

NoTlb == [v \in LowPages |-> ABSENT]

VmmInit ==
    /\ m = [ram |-> [f \in Frames |-> Garbage], used |-> {0}, tlb |-> NoTlb]
    /\ kernel_page_directory = NULL
    /\ cr3 = NULL
    /\ pages = <<>>
    /\ phase = <<>>

First(S) == IF S = {} THEN NULL ELSE CHOOSE x \in S : \A y \in S : x <= y

pmm_alloc_page(x) == First(Frames \ x.used)
SetUsed(x, f) == [x EXCEPT !.used = @ \cup {f}]

\* Nobody clears a frame that is freed, and its next holder may leave anything
\* in it: a free frame holds the worst.
Release(x, fs) ==
    [x EXCEPT !.used = @ \ (fs \ {NULL}),
              !.ram = [f \in Frames |-> IF f \in fs \ {NULL} THEN Garbage ELSE @[f]]]

pmm_free_page(x, f) == Release(x, {f})

\* A frame reachable through the direct map. Each caller frees one that is not
\* and fails.
vmm_phys_to_virt(f) == IF f < DirectMapPages THEN f ELSE NULL

paging_tlb_invalidate(x, v) == [x EXCEPT !.tlb[v] = ABSENT]

\* What the processor finds for v in directory d: a page is writable or open to
\* user mode when both entries say so.
Walk(x, d, v) ==
    LET pde == x.ram[d][PDE(v)]
        pte == x.ram[pde.frame][PTE(v)]
    IN  IF P \in pde.flags /\ P \in pte.flags
        THEN Entry(pte.frame, pde.flags \cap pte.flags)
        ELSE ABSENT

-----------------------------------------------------------------------------
(* kernel/mm/vmm.c *)

\* The directory, and tables for the first entries of the kernel half, each
\* mapping the next frames in order; the other entries are cleared.
vmm_init ==
    /\ kernel_page_directory = NULL
    /\ LET dir == pmm_alloc_page(m)
           table == [i \in KernelIndex |-> dir + 1 + i - KERNEL_PDE_INDEX]
           Filled(i) == [j \in Index |-> Entry((i - KERNEL_PDE_INDEX) * Entries + j, {P, W})]
       IN  /\ m' = [ram |-> [f \in Frames |->
                       IF f = dir
                       THEN [i \in Index |->
                               IF i \in DOMAIN table THEN Entry(table[i], {P, W}) ELSE Zero]
                       ELSE IF \E i \in DOMAIN table : table[i] = f
                       THEN Filled(CHOOSE i \in DOMAIN table : table[i] = f)
                       ELSE m.ram[f]],
                    used |-> m.used \cup {dir} \cup {table[i] : i \in DOMAIN table},
                    tlb |-> NoTlb]
           /\ kernel_page_directory' = dir
           /\ cr3' = dir
    /\ UNCHANGED <<pages, phase>>

vmm_create_address_space(x) ==
    LET d == pmm_alloc_page(x)
    IN  IF d = NULL \/ vmm_phys_to_virt(d) = NULL THEN [mem |-> x, ret |-> NULL]
        ELSE [mem |-> [SetUsed(x, d) EXCEPT !.ram[d] =
                         [i \in Index |-> IF i >= KERNEL_PDE_INDEX
                                          THEN x.ram[kernel_page_directory][i] ELSE Zero]],
              ret |-> d]

\* Mutant: the tables of the kernel half are freed with the others.
vmm_destroy_address_space_All(x, d) ==
    IF d \in {NULL, kernel_page_directory} THEN x
    ELSE Release(x, {d} \cup {x.ram[d][i].frame : i \in {j \in Index : P \in x.ram[d][j].flags}})

vmm_destroy_address_space(x, d) ==
    IF d \in {NULL, kernel_page_directory} THEN x
    ELSE Release(x, {d} \cup
            {x.ram[d][i].frame :
               i \in {j \in 0 .. KERNEL_PDE_INDEX - 1 : P \in x.ram[d][j].flags}})

vmm_get_page_table_in(x, d, v) ==
    LET pde == x.ram[d][PDE(v)]
    IN  IF d # NULL /\ P \in pde.flags THEN vmm_phys_to_virt(pde.frame) ELSE NULL

\* Mutant: a new table keeps what the frame held.
NewTable_NoMemset(x, d, i) ==
    LET t == pmm_alloc_page(x)
    IN  IF t = NULL \/ vmm_phys_to_virt(t) = NULL THEN [mem |-> x, ret |-> NULL]
        ELSE [mem |-> [SetUsed(x, t) EXCEPT !.ram[d][i] = Entry(t, {P})], ret |-> t]

\* A table for entry i of directory d.
NewTable(x, d, i) ==
    LET t == pmm_alloc_page(x)
    IN  IF t = NULL \/ vmm_phys_to_virt(t) = NULL THEN [mem |-> x, ret |-> NULL]
        ELSE [mem |-> [SetUsed(x, t) EXCEPT !.ram[t] = Cleared,
                                            !.ram[d][i] = Entry(t, {P})], ret |-> t]

\* Every caller passes page-aligned addresses.
vmm_map_page_in(x, d, v, f, flags) ==
    LET t == IF P \in x.ram[d][PDE(v)].flags
             THEN [mem |-> x, ret |-> vmm_phys_to_virt(x.ram[d][PDE(v)].frame)]
             ELSE NewTable(x, d, PDE(v))
    IN  IF d = NULL \/ (d # kernel_page_directory /\ PDE(v) >= KERNEL_PDE_INDEX)
        THEN [mem |-> x, ret |-> -1]
        ELSE IF t.ret = NULL \/ P \in t.mem.ram[t.ret][PTE(v)].flags
        THEN [mem |-> t.mem, ret |-> -1]
        ELSE [mem |-> paging_tlb_invalidate(
                         [t.mem EXCEPT !.ram[d][PDE(v)].flags = @ \cup (flags \cap {W, U}),
                                       !.ram[t.ret][PTE(v)] = Entry(f, flags)], v),
              ret |-> 0]

\* Mutant: the TLB is not told.
vmm_unmap_page_in_NoInvalidate(x, d, v) ==
    LET t == vmm_get_page_table_in(x, d, v)
    IN  IF t = NULL THEN x ELSE [x EXCEPT !.ram[t][PTE(v)] = Zero]

vmm_unmap_page_in(x, d, v) ==
    LET t == vmm_get_page_table_in(x, d, v)
    IN  IF t = NULL \/ (d # kernel_page_directory /\ PDE(v) >= KERNEL_PDE_INDEX) THEN x
        ELSE IF P \notin x.ram[t][PTE(v)].flags THEN x
        ELSE paging_tlb_invalidate([x EXCEPT !.ram[t][PTE(v)] = Zero], v)

\* Replaces a mapping of the kernel's own directory: the old entry is cleared
\* first, so that vmm_map_page_in does not refuse.
vmm_map_page(x, v, f, flags) ==
    LET t == vmm_get_page_table_in(x, kernel_page_directory, v)
    IN  vmm_map_page_in(IF t = NULL THEN x ELSE [x EXCEPT !.ram[t][PTE(v)] = Zero],
                        kernel_page_directory, v, f, flags)

vmm_get_paddr_in(x, d, v) ==
    LET t == vmm_get_page_table_in(x, d, v)
    IN  IF t = NULL THEN -1
        ELSE IF P \notin x.ram[t][PTE(v)].flags THEN -1 ELSE x.ram[t][PTE(v)].frame

\* cr3 is loaded, which empties the TLB.
paging_load_directory(x, d) ==
    /\ m' = [x EXCEPT !.tlb = NoTlb]
    /\ cr3' = d

-----------------------------------------------------------------------------
(* A process's life *)

Booted == kernel_page_directory # NULL
InKernelSpace == Booted /\ cr3 = kernel_page_directory

\* vmmtest has mapped LOW and not yet unmapped it: the shell's task does not
\* yield in between.
InVmmtest == Booted /\ Walk(m, kernel_page_directory, LOW) # ABSENT
Free == Booted /\ ~InVmmtest

Put(f, s, value) == [t \in DOMAIN f \cup {s} |-> IF t = s THEN value ELSE f[t]]
Drop(f, s) == [t \in DOMAIN f \ {s} |-> f[t]]

\* kthread_create's stack may take one more page for the kernel heap, which
\* keeps it. It may fail, for want of a task or of a stack.
user_spawn ==
    LET r == vmm_create_address_space(m)
        page == pmm_alloc_page(r.mem)
    IN  /\ Free /\ r.ret # NULL
        /\ \/ /\ Cardinality(DOMAIN pages) < MaxSpaces
              /\ \/ m' = r.mem
                 \/ /\ page # NULL /\ vmm_phys_to_virt(page) # NULL
                    /\ m' = SetUsed(r.mem, page)
              /\ pages' = Put(pages, r.ret, {}) /\ phase' = Put(phase, r.ret, "created")
           \/ m' = vmm_destroy_address_space(r.mem, r.ret) /\ UNCHANGED <<pages, phase>>
        /\ UNCHANGED <<kernel_page_directory, cr3>>

\* A fresh page, cleared, filled with contents, mapped at v and recorded. r is
\* the machine, the pages recorded so far and whether all went well.
map_copied_user_page(r, d, v, contents, flags) ==
    LET f == pmm_alloc_page(r.mem)
        filled == [SetUsed(r.mem, f) EXCEPT !.ram[f] = contents]
        mapped == vmm_map_page_in(filled, d, v, f, {P, U} \cup flags)
    IN  IF ~r.ok \/ f = NULL \/ vmm_phys_to_virt(f) = NULL THEN [r EXCEPT !.ok = FALSE]
        ELSE IF mapped.ret # 0
        THEN [r EXCEPT !.ok = FALSE, !.mem = pmm_free_page(mapped.mem, f)]
        ELSE [r EXCEPT !.mem = mapped.mem, !.pages = @ \cup {<<v, f>>}]

user_process_free_pages(x, d, ps) ==
    LET Unmap(y, v) == IF \E p \in ps : p[1] = v THEN vmm_unmap_page_in(y, d, v) ELSE y
        unmapped == Unmap(Unmap(x, CODE), STACK)
    IN  Release(unmapped, {p[2] : p \in ps})

\* The new thread: loads the image and the stack, then adopts the directory, or
\* gives everything back. It starts in the kernel's address space.
user_exec_task ==
    /\ Free /\ InKernelSpace
    /\ \E d \in DOMAIN pages, image_ok \in BOOLEAN :
          LET r0 == [mem |-> m, pages |-> {}, ok |-> image_ok]
              r1 == map_copied_user_page(r0, d, CODE, Garbage, {})
              r2 == map_copied_user_page(r1, d, STACK, Cleared, {W})
          IN  /\ phase[d] = "created"
              /\ IF r2.ok
                 THEN /\ paging_load_directory(r2.mem, d)
                      /\ pages' = [pages EXCEPT ![d] = r2.pages]
                      /\ phase' = [phase EXCEPT ![d] = "running"]
                 ELSE /\ m' = vmm_destroy_address_space(
                                 user_process_free_pages(r2.mem, d, r2.pages), d)
                      /\ pages' = Drop(pages, d)
                      /\ phase' = Drop(phase, d)
                      /\ UNCHANGED cr3
    /\ UNCHANGED kernel_page_directory

user_exit_current ==
    /\ Free /\ cr3 \in DOMAIN phase /\ phase[cr3] = "running"
    /\ m' = user_process_free_pages(m, cr3, pages[cr3])
    /\ pages' = [pages EXCEPT ![cr3] = {}]
    /\ phase' = [phase EXCEPT ![cr3] = "exited"]
    /\ UNCHANGED <<kernel_page_directory, cr3>>

\* To a kernel thread, task 0 included, or to a process. A zombie is not chosen.
sched_yield ==
    /\ Free
    /\ \E d \in {kernel_page_directory} \cup {s \in DOMAIN phase : phase[s] = "running"} :
          paging_load_directory(m, d)
    /\ UNCHANGED <<kernel_page_directory, pages, phase>>

\* A zombie that is not running loses its directory.
task_cleanup ==
    /\ Free
    /\ \E d \in DOMAIN phase \ {cr3} :
          /\ phase[d] = "exited"
          /\ m' = vmm_destroy_address_space(m, d)
          /\ pages' = Drop(pages, d)
          /\ phase' = Drop(phase, d)
    /\ UNCHANGED <<kernel_page_directory, cr3>>

\* The page cmd_vmmtest maps, maps again, unmaps and frees in a scratch space.
VmmtestScratch ==
    LET space == vmm_create_address_space(m)
        page  == pmm_alloc_page(space.mem)
        taken == IF page = NULL THEN space.mem ELSE SetUsed(space.mem, page)
        once  == vmm_map_page_in(taken, space.ret, CODE, page, {P, W, U})
        twice == vmm_map_page_in(once.mem, space.ret, CODE, page, {P, W, U})
        gone  == pmm_free_page(vmm_unmap_page_in(twice.mem, space.ret, CODE), page)
    IN  vmm_destroy_address_space(gone, space.ret)

\* Up to the vmm_map_page of page 0, and the vmm_unmap_page.
cmd_vmmtest ==
    /\ InKernelSpace
    /\ m' = IF InVmmtest THEN vmm_unmap_page_in(m, kernel_page_directory, LOW)
            ELSE vmm_map_page(VmmtestScratch, LOW, 0, {P, W}).mem
    /\ UNCHANGED <<kernel_page_directory, cr3, pages, phase>>

-----------------------------------------------------------------------------
(* The processor *)

Remembered == {v \in LowPages : m.tlb[v] # ABSENT}

\* It may remember any translation of the current directory, and forget others.
TlbFill ==
    /\ Booted
    /\ \E v \in LowPages, kept \in SUBSET Remembered :
          /\ Walk(m, cr3, v) # ABSENT
          /\ Cardinality(kept \ {v}) < TlbSize
          /\ m' = [m EXCEPT !.tlb = [u \in LowPages |->
                      IF u = v THEN Walk(m, cr3, v) ELSE IF u \in kept THEN @[u] ELSE ABSENT]]
    /\ UNCHANGED <<kernel_page_directory, cr3, pages, phase>>

Translation(v) == IF m.tlb[v] # ABSENT THEN m.tlb[v] ELSE Walk(m, cr3, v)

\* A program stores to a page it can write to.
UserStore ==
    /\ cr3 \in DOMAIN phase /\ phase[cr3] = "running"
    /\ \E v \in LowPages :
          /\ Translation(v) # ABSENT
          /\ {W, U} \subseteq Translation(v).flags
          /\ m' = [m EXCEPT !.ram[Translation(v).frame] = Garbage]
    /\ UNCHANGED <<kernel_page_directory, cr3, pages, phase>>

VmmNext ==
    \/ vmm_init \/ user_spawn \/ user_exec_task \/ user_exit_current \/ sched_yield
    \/ task_cleanup \/ cmd_vmmtest \/ TlbFill \/ UserStore

VmmSpec == VmmInit /\ [][VmmNext]_vmmVars

-----------------------------------------------------------------------------
Live == {kernel_page_directory} \cup DOMAIN pages

KernelTables == {m.ram[kernel_page_directory][i].frame : i \in KernelIndex}

Tables(d) ==
    {m.ram[d][i].frame : i \in {j \in 0 .. KERNEL_PDE_INDEX - 1 : P \in m.ram[d][j].flags}}

\* Nothing the processor remembers is out of date: a page that was unmapped,
\* and may belong to somebody else by now, or a directory that is no longer
\* loaded, cannot be reached through the TLB.
TlbFresh == Booted => \A v \in LowPages : m.tlb[v] \in {ABSENT, Walk(m, cr3, v)}

\* Whatever its frames held before: a program reaches the pages its process
\* record lists and no others, the image read-only and the stack writable; these
\* are no directory, no table and no page of another process, and their bits are
\* set. The kernel half is the same direct map in every address space, closed to
\* user mode, with nothing after it, and its tables are never given away.
UserConfined ==
    Booted =>
       /\ \A d \in DOMAIN pages :
             {<<v, Walk(m, d, v)>> : v \in {u \in LowPages : Walk(m, d, u) # ABSENT}}
             = {<<p[1], Entry(p[2], IF p[1] = STACK THEN {P, W, U} ELSE {P, U})>> : p \in pages[d]}
       /\ \A d \in Live, v \in KernelPages :
             /\ Walk(m, d, v) =
                   IF PDE(v) \in KernelIndex
                   THEN Entry((PDE(v) - KERNEL_PDE_INDEX) * Entries + PTE(v), {P, W})
                   ELSE ABSENT
             /\ vmm_get_paddr_in(m, d, v) = vmm_get_paddr_in(m, kernel_page_directory, v)
       /\ LET structures == Live \cup KernelTables \cup UNION {Tables(d) : d \in Live}
              given(d)   == {p[2] : p \in pages[d]}
          IN  /\ structures \subseteq m.used /\ 0 \notin structures
              /\ \A d \in DOMAIN pages :
                    /\ given(d) \subseteq m.used \ structures
                    /\ \A e \in DOMAIN pages \ {d} :
                          given(d) \cap given(e) = {} /\ Tables(d) \cap Tables(e) = {}

\* What the page tables in memory say, as AddressSpaces sees it. Before vmm_init
\* there is the kernel's space with nothing in it.
SpacesView ==
    INSTANCE AddressSpaces WITH
       Spaces <- Frames, KernelSpace <- 1, Mappings <- [frame : Frames, flags : SUBSET {P, W, U}],
       maps <- [d \in (IF Booted THEN Live ELSE {1}) |->
                  [v \in LowPages |-> IF Booted THEN Walk(m, d, v) ELSE ABSENT]],
       current <- IF Booted THEN cr3 ELSE 1

\* The page tables implement the address spaces of AddressSpaces: an operation
\* on one space changes the mappings of that space alone.
ImplementsSpaces == SpacesView!SpacesSpec
=============================================================================
