------------------------------- MODULE Memory -------------------------------
(***************************************************************************)
(* The memory services the scheduler and the process table stand on:       *)
(* physical pages (kernel/mm/pmm.c), address spaces (kernel/mm/vmm.c) and   *)
(* the heap blocks used as kernel stacks (kernel/mm/kmalloc.c).             *)
(*                                                                         *)
(* The services run to completion without giving up the CPU, and several   *)
(* of them run inside one system call, so each is an operator from a       *)
(* memory value to the memory it leaves and the value it returns.          *)
(*                                                                         *)
(* A memory value is a record                                              *)
(*   used   pages whose bit is set in pmm_bitmap (of the pages that were   *)
(*          free when vmm_init returned)                                   *)
(*   pde    per page directory, its one low (user half) page table         *)
(*   pte    per page table, the page each virtual page is mapped to        *)
(*   heap   pages kmalloc has taken; it never gives one back               *)
(*   stacks live kmalloc blocks                                            *)
(* A page is its number; 0 is the failed allocation, as in the code.       *)
(***************************************************************************)
EXTENDS Integers, FiniteSets

CONSTANTS
    NPages,          \* allocatable pages once the kernel has booted
    DirectMapPages   \* VMM_DIRECT_MAP_LIMIT >> PMM_PAGE_SHIFT

ASSUME MemoryAssumption ==
    /\ NPages \in Nat
    /\ DirectMapPages \in Nat

Pages == 1 .. NPages

\* The directory vmm_init built. It is not one of Pages: it is never freed.
kernel_page_directory == NPages + 1

Directories == Pages \cup {kernel_page_directory}

ABSENT == -1   \* an entry without VMM_PAGE_PRESENT
NULL == 0

\* The virtual pages the kernel maps in the low half. USER_INIT_CODE_ADDR and
\* USER_INIT_STACK_ADDR share page directory entry 1; LOW is the address
\* cmd_vmmtest maps in the kernel's own directory.
CODE == "code"
STACK == "stack"
LOW == "low"
VirtualPages == {CODE, STACK, LOW}

NoMappings == [v \in VirtualPages |-> ABSENT]

\* Two kernel stacks never fit in one page, so twice the pages bounds them.
Blocks == 1 .. 2 * NPages

MemoryType ==
    [used   : SUBSET Pages,
     pde    : [Directories -> Pages \cup {ABSENT}],
     pte    : [Pages -> [VirtualPages -> Pages \cup {NULL, ABSENT}]],
     heap   : SUBSET Pages,
     stacks : SUBSET Blocks]

BootMemory ==
    [used   |-> {},
     pde    |-> [d \in Directories |-> ABSENT],
     pte    |-> [t \in Pages |-> NoMappings],
     heap   |-> {},
     stacks |-> {}]

Lowest(S) == CHOOSE x \in S : \A y \in S : x <= y

\* What a search loop over an array finds; NULL when it finds nothing.
First(S) == IF S = {} THEN NULL ELSE Lowest(S)

-----------------------------------------------------------------------------
(* Physical pages *)

\* First clear bit of the bitmap.
pmm_alloc_page(m) == First(Pages \ m.used)

SetUsed(m, p) == [m EXCEPT !.used = @ \cup ({p} \ {NULL})]

\* Freeing page 0 or a page whose bit is clear changes nothing.
pmm_free_page(m, p) == [m EXCEPT !.used = @ \ {p}]

\* A page the kernel can write through the direct map. Every caller frees a
\* page beyond the map again and fails, which leaves the bitmap as it was.
direct_map_page(m) ==
    LET p == pmm_alloc_page(m) IN IF p < DirectMapPages THEN p ELSE NULL

-----------------------------------------------------------------------------
(* Address spaces *)

vmm_create_address_space(m) ==
    LET d == direct_map_page(m)
    IN  IF d = NULL
        THEN [mem |-> m, ret |-> NULL]
        ELSE [mem |-> [m EXCEPT !.used = @ \cup {d}, !.pde[d] = ABSENT],
              ret |-> d]

\* Gives back each directory and its page tables, not the pages these map.
\* What a freed page held is forgotten: every taker of a page clears it.
DestroySpaces(m, spaces) ==
    LET dirs   == spaces \ {NULL, kernel_page_directory}
        tables == {m.pde[d] : d \in dirs}
    IN  [m EXCEPT !.used = @ \ (dirs \cup tables),
                  !.pde  = [d \in Directories |->
                               IF d \in dirs THEN ABSENT ELSE m.pde[d]],
                  !.pte  = [t \in Pages |->
                               IF t \in tables THEN NoMappings ELSE m.pte[t]]]

vmm_destroy_address_space(m, d) == DestroySpaces(m, {d})

\* The page table of directory d, allocated on first use.
PageTableFor(m, d) ==
    IF m.pde[d] # ABSENT THEN [mem |-> m, ret |-> m.pde[d]]
    ELSE LET t == direct_map_page(m)
         IN  IF t = NULL
             THEN [mem |-> m, ret |-> NULL]
             ELSE [mem |-> [m EXCEPT !.used = @ \cup {t}, !.pde[d] = t,
                                     !.pte[t] = NoMappings],
                   ret |-> t]

\* An entry that is present already is refused.
vmm_map_page_in(m, d, v, p) ==
    IF d = NULL THEN [mem |-> m, ret |-> -1]
    ELSE LET r == PageTableFor(m, d)
         IN  IF r.ret = NULL \/ r.mem.pte[r.ret][v] # ABSENT
             THEN [mem |-> r.mem, ret |-> -1]
             ELSE [mem |-> [r.mem EXCEPT !.pte[r.ret][v] = p], ret |-> 0]

vmm_unmap_page_in(m, d, v) ==
    IF d = NULL THEN m
    ELSE IF m.pde[d] = ABSENT THEN m
    ELSE [m EXCEPT !.pte[m.pde[d]][v] = ABSENT]

\* vmm_map_page replaces a mapping of the kernel's own directory.
vmm_map_page(m, v, p) ==
    vmm_map_page_in(vmm_unmap_page_in(m, kernel_page_directory, v),
                    kernel_page_directory, v, p)

-----------------------------------------------------------------------------
(* Heap blocks of KTHREAD_STACK_SIZE bytes *)

\* The results kmalloc(KTHREAD_STACK_SIZE) may have. A page of the heap holds
\* one stack and room for less than another, so a heap with fewer stacks than
\* pages has room for one more; blocks of adjacent pages that kfree merged may
\* hold up to, but not including, two per page. With no room the heap takes a
\* page, and without a page it fails.
kmalloc(m) ==
    LET live  == Cardinality(m.stacks)
        pages == Cardinality(m.heap)
        b     == Lowest(Blocks \ m.stacks)
        p     == direct_map_page(m)
        reuse == [mem |-> [m EXCEPT !.stacks = @ \cup {b}], ret |-> b]
        grow  == [mem |-> [m EXCEPT !.stacks = @ \cup {b},
                                    !.used = @ \cup {p},
                                    !.heap = @ \cup {p}], ret |-> b]
        fail  == [mem |-> m, ret |-> NULL]
    IN  IF Blocks \subseteq m.stacks THEN {fail}
        ELSE {r \in {reuse} : live < 2 * pages}
             \cup {r \in {IF p = NULL THEN fail ELSE grow} : live >= pages}

kfree(m, blocks) == [m EXCEPT !.stacks = @ \ blocks]
=============================================================================
