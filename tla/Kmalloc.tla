------------------------------- MODULE Kmalloc -------------------------------
(***************************************************************************)
(* kernel/mm/kmalloc.c: the first-fit heap, and the two users it has, the   *)
(* scheduler's kernel stacks and the shell's heaptest.                      *)
(*                                                                         *)
(* Memory.tla abstracts this heap to a number of stacks and of pages; the   *)
(* property StacksAsAbstracted states that the abstraction is sound.        *)
(*                                                                         *)
(* A heap value is a record of the block list (in list order, each with the *)
(* address of its header), the pages whose pmm bit is set, and those of     *)
(* them the heap took. kmalloc runs to completion: no interrupt handler     *)
(* allocates and no caller yields inside it.                                *)
(***************************************************************************)
EXTENDS Integers, FiniteSets, Sequences, Functions

CONSTANTS
    NPages,               \* pages free when the kernel has booted
    DirectMapPages,       \* VMM_DIRECT_MAP_LIMIT >> PMM_PAGE_SHIFT
    PMM_PAGE_SIZE,
    HeaderSize,           \* sizeof(heap_block)
    KMALLOC_ALIGN,
    KTHREAD_STACK_SIZE,
    SmallSize             \* sizeof(uint32_t), what heaptest asks for

align_size(size) ==
    ((size + KMALLOC_ALIGN - 1) \div KMALLOC_ALIGN) * KMALLOC_ALIGN

ASSUME KmallocAssumption ==
    /\ {NPages, DirectMapPages} \subseteq Nat
    /\ {PMM_PAGE_SIZE, HeaderSize, KMALLOC_ALIGN, KTHREAD_STACK_SIZE, SmallSize}
          \subseteq Nat \ {0}
    /\ HeaderSize + align_size(KTHREAD_STACK_SIZE) <= PMM_PAGE_SIZE
    /\ 2 * (HeaderSize + KTHREAD_STACK_SIZE) > PMM_PAGE_SIZE
    \* heaptest's two blocks leave a remainder of a stack that can be split off
    /\ KTHREAD_STACK_SIZE >= 3 * (HeaderSize + KMALLOC_ALIGN)
    /\ SmallSize <= KMALLOC_ALIGN

VARIABLES
    h,        \* [list, used, heap]
    stacks,   \* stacks the scheduler holds, as kmalloc returned them
    leaked    \* blocks heaptest left behind when it gave up

kmallocVars == <<h, stacks, leaked>>

Pages == 1 .. NPages
NULL == 0
First(S) == IF S = {} THEN NULL ELSE CHOOSE x \in S : \A y \in S : x <= y

\* The address after a block, which is where the next one starts if it is split.
End(block) == block.addr + HeaderSize + block.size

KmallocInit ==
    /\ h = [list |-> <<>>, used |-> {}, heap |-> {}]
    /\ stacks = {}
    /\ leaked = {}

-----------------------------------------------------------------------------
\* The page new_block gets; one beyond the direct map it gives back.
HeapPage(x) ==
    LET p == First(Pages \ x.used) IN IF p < DirectMapPages THEN p ELSE NULL

\* The heap with a block for a fresh page at the end of its list.
new_block(x) ==
    LET p == HeapPage(x)
    IN  [list |-> Append(x.list, [addr |-> p * PMM_PAGE_SIZE,
                                  size |-> PMM_PAGE_SIZE - HeaderSize,
                                  free |-> TRUE]),
         used |-> x.used \cup {p},
         heap |-> x.heap \cup {p}]

Before(s, i) == SubSeq(s, 1, i - 1)
After(s, i) == SubSeq(s, i + 1, Len(s))

\* A remainder too small for a block of its own is lost: the size shrinks anyway.
alloc_from_block(x, i, size) ==
    LET b == x.list[i]
        rest == IF b.size - size >= HeaderSize + KMALLOC_ALIGN
                THEN <<[addr |-> b.addr + HeaderSize + size,
                        size |-> b.size - size - HeaderSize, free |-> TRUE]>>
                ELSE <<>>
    IN  [x EXCEPT !.list = Before(@, i)
            \o <<[b EXCEPT !.size = size, !.free = FALSE]>> \o rest \o After(@, i)]

\* Mutant: nothing is merged.
coalesce_next_Never(list, i) == i

\* Mutant: list neighbours are merged wherever their pages are.
coalesce_next_AnyNeighbour(list, i) ==
    CHOOSE k \in i .. Len(list) :
       /\ \A j \in i + 1 .. k : list[j].free
       /\ k + 1 \in DOMAIN list => ~list[k + 1].free

\* The last of the blocks after block i that the loop merges into it: all free,
\* each starting where the one before it ends.
coalesce_next(list, i) ==
    LET Merges(j) == list[j].free /\ list[j].addr = End(list[j - 1])
    IN  CHOOSE k \in i .. Len(list) :
           /\ \A j \in i + 1 .. k : Merges(j)
           /\ k + 1 \in DOMAIN list => ~Merges(k + 1)

\* No request of this kernel is empty or larger than a page.
kmalloc(x, request) ==
    LET size  == align_size(request)
        fits  == {i \in DOMAIN x.list : x.list[i].free /\ x.list[i].size >= size}
        grown == new_block(x)
        Taken(y, i) == [heap |-> alloc_from_block(y, i, size),
                        ret |-> y.list[i].addr + HeaderSize]
    IN  IF fits # {} THEN Taken(x, First(fits))
        ELSE IF HeapPage(x) = NULL THEN [heap |-> x, ret |-> NULL]
        ELSE Taken(grown, Len(grown.list))

\* Block i with the headers and the payloads of the blocks merged into it.
MergedSize(list, i, last) ==
    list[i].size
    + SumFunction([k \in i + 1 .. last |-> HeaderSize + list[k].size])

\* i is the list index of the block whose payload is at ptr.
kfree(x, ptr) ==
    LET i == CHOOSE j \in DOMAIN x.list : x.list[j].addr + HeaderSize = ptr
        freed == [x.list EXCEPT ![i].free = TRUE]
        last  == coalesce_next(freed, i)
        size  == MergedSize(freed, i, last)
    IN  [x EXCEPT !.list = Before(freed, i) \o <<[freed[i] EXCEPT !.size = size]>>
                              \o After(freed, last)]

-----------------------------------------------------------------------------
(* The users of the heap, and of the pages it shares with the rest *)

sched_create_kthread ==
    LET r == kmalloc(h, KTHREAD_STACK_SIZE)
    IN  /\ h' = r.heap
        /\ stacks' = stacks \cup ({r.ret} \ {NULL})
        /\ UNCHANGED leaked

sched_reap_tasks ==
    \E s \in stacks :
       /\ h' = kfree(h, s)
       /\ stacks' = stacks \ {s}
       /\ UNCHANGED leaked

\* Two blocks, the first given back and taken again. When one of them cannot
\* be had the command returns and keeps the other.
cmd_heaptest ==
    LET a == kmalloc(h, SmallSize)
        b == kmalloc(a.heap, SmallSize)
        c == kmalloc(kfree(b.heap, a.ret), SmallSize)
    IN  /\ IF a.ret = NULL \/ b.ret = NULL
           THEN h' = b.heap /\ leaked' = leaked \cup ({a.ret, b.ret} \ {NULL})
           ELSE IF c.ret = NULL
           THEN h' = c.heap /\ leaked' = leaked \cup {b.ret}
           ELSE h' = kfree(kfree(c.heap, b.ret), c.ret) /\ UNCHANGED leaked
        /\ UNCHANGED stacks

\* Address spaces, page tables and user pages come from the same bitmap.
pmm_alloc_page ==
    /\ Pages # h.used
    /\ h' = [h EXCEPT !.used = @ \cup {First(Pages \ @)}]
    /\ UNCHANGED <<stacks, leaked>>

pmm_free_page ==
    \E p \in h.used \ h.heap :
       /\ h' = [h EXCEPT !.used = @ \ {p}]
       /\ UNCHANGED <<stacks, leaked>>

KmallocNext ==
    \/ sched_create_kthread \/ sched_reap_tasks \/ cmd_heaptest
    \/ pmm_alloc_page \/ pmm_free_page

KmallocSpec == KmallocInit /\ [][KmallocNext]_kmallocVars

-----------------------------------------------------------------------------
Extent(block) == block.addr .. End(block) - 1
HeapBytes == UNION {p * PMM_PAGE_SIZE .. (p + 1) * PMM_PAGE_SIZE - 1 : p \in h.heap}
AllBlocks == {h.list[i] : i \in DOMAIN h.list}

\* Whatever order blocks are split, freed and merged in, and wherever the pages
\* of the heap lie: blocks with their headers stay inside the heap's pages and
\* never overlap, the blocks in use are exactly those with an owner, and each is
\* as long as its owner asked for.
BlocksApart ==
    /\ h.heap \subseteq h.used /\ h.used \subseteq Pages
    /\ \A i \in DOMAIN h.list : Extent(h.list[i]) \subseteq HeapBytes
    /\ \A i, j \in DOMAIN h.list :
          i # j => Extent(h.list[i]) \cap Extent(h.list[j]) = {}
    /\ {b.addr + HeaderSize : b \in {c \in AllBlocks : ~c.free}} = stacks \cup leaked
    /\ \A b \in AllBlocks :
          /\ b.addr + HeaderSize \in stacks => b.size >= KTHREAD_STACK_SIZE
          /\ b.addr + HeaderSize \in leaked => b.size >= SmallSize

\* Every byte of the heap is in a block or in the slack after one, and that is
\* smaller than the smallest block.
NothingLost ==
    \A x \in HeapBytes :
       \E b \in AllBlocks : b.addr <= x /\ x < End(b) + HeaderSize + KMALLOC_ALIGN

\* What the next kmalloc of a stack would do, and that Memory.kmalloc takes for
\* granted. It is served from the pages the heap has while they hold fewer stacks
\* than pages, whatever was split, lost or left unmerged before, also when the
\* heap can grow no more; never once they hold two per page. It takes a page only
\* when they do not serve it, and then just one, and it is refused only when
\* there is none within the direct map. No step of any user makes what
\* split remainders lose add up.
StacksAsAbstracted ==
    LET live  == Cardinality(stacks)
        pages == Cardinality(h.heap)
        next  == kmalloc(h, KTHREAD_STACK_SIZE)
        served == next.ret # NULL /\ next.heap.used = h.used
    IN  /\ NothingLost
        /\ live < pages => served
        /\ served => live < 2 * pages
        /\ IF next.ret = NULL THEN HeapPage(h) = NULL
           ELSE next.heap.used \ h.used \subseteq {HeapPage(h)}
=============================================================================
