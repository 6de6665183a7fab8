--------------------------------- MODULE Pmm ---------------------------------
(***************************************************************************)
(* kernel/mm/pmm.c: how pmm_init builds the page bitmap from the boot       *)
(* loader's memory map, and allocation and release afterwards. It runs      *)
(* before interrupts are enabled; find_segment's loops are stepped so that  *)
(* their termination can be stated.                                         *)
(*                                                                         *)
(* Addresses of type uintptr_t are taken modulo WORD; those of the memory   *)
(* map are 64 bits wide and taken as they are. A range is a record of its   *)
(* first address and the one after its last.                                *)
(***************************************************************************)
EXTENDS Integers, FiniteSets, Sequences, Functions

CONSTANTS
    PMM_PAGE_SIZE,
    VMM_DIRECT_MAP_LIMIT,
    WORD,                  \* 2^32
    Layouts                \* what a boot loader may hand over

\* kernel: the loaded image;  mmap: its entries;  mbi, list: where the multiboot
\* information and those entries are;  mods: where the module list is, if any;
\* wellformed: the map is present, in the direct map, its entries long enough.
ASSUME PmmAssumption ==
    /\ PMM_PAGE_SIZE \in Nat \ {0}
    /\ VMM_DIRECT_MAP_LIMIT \in Nat
    /\ WORD \in Nat \ {0}
    /\ \A l \in Layouts :
          /\ IsFiniteSet(DOMAIN l.mmap)
          /\ \A i \in DOMAIN l.mmap : l.mmap[i].addr \in Nat /\ l.mmap[i].len \in Nat
          /\ \A r \in {l.kernel, l.mbi, l.list, l.mods} :
                r.start \in Nat /\ r.end \in Nat /\ r.start <= r.end

VARIABLES
    boot,              \* the layout this machine booted with
    at,                \* enter, segment (in find_segment), found, ready, panic
    ptr, start,        \* find_segment's entry and candidate
    bitmap_base,       \* what find_segment returned
    pmm_max_page, pmm_total_pages, pmm_free_pages,
    bitmap,            \* pages whose bit is set
    held               \* pages the rest of the kernel got and has not freed

pmmVars == <<boot, at, ptr, start, bitmap_base, pmm_max_page, pmm_total_pages,
             pmm_free_pages, bitmap, held>>

Page(addr) == addr \div PMM_PAGE_SIZE

\* Mutant: rounds down.
align_up_Down(addr) == LET a == addr % WORD IN a - (a % PMM_PAGE_SIZE)

align_up(addr) ==
    LET a == (addr + PMM_PAGE_SIZE - 1) % WORD IN a - (a % PMM_PAGE_SIZE)

\* Mutant: a range that contains the candidate, or starts before it, is missed.
ranges_overlap_Starts(a, b) == a.start <= b.start /\ b.start < a.end

ranges_overlap(a, b) == a.start < b.end /\ b.start < a.end

Usable(l) == {i \in DOMAIN l.mmap : l.mmap[i].type = 1}

\* Greatest number in S, or 0.
Greatest(S) == IF S = {} THEN 0 ELSE CHOOSE x \in S : \A y \in S : y <= x

SumOver(f(_), S) == SumFunction([x \in S |-> f(x)])

find_max_page(l) ==
    Greatest({Page(l.mmap[i].addr + l.mmap[i].len) : i \in Usable(l)})

pmm_bitmap_bytes == (pmm_max_page + 7) \div 8

PmmInit ==
    /\ boot \in Layouts
    /\ at = "enter"
    /\ ptr = 1
    /\ start = 0
    /\ bitmap_base = 0
    /\ pmm_max_page = 0
    /\ pmm_total_pages = 0
    /\ pmm_free_pages = 0
    /\ bitmap = {}
    /\ held = {}

-----------------------------------------------------------------------------
(* pmm_init *)

\* Where find_segment starts in entry i. Address 0 is the null pointer.
FirstCandidate(i) ==
    IF i \notin Usable(boot) THEN 0
    ELSE LET addr == boot.mmap[i].addr
         IN  align_up(IF addr = 0 THEN 1 ELSE addr % WORD)

check_mmap ==
    /\ at = "enter"
    /\ at' = IF boot.wellformed THEN "segment" ELSE "panic"
    /\ pmm_max_page' = IF boot.wellformed THEN find_max_page(boot) ELSE 0
    /\ start' = FirstCandidate(1)
    /\ UNCHANGED <<boot, ptr, bitmap_base, pmm_total_pages, pmm_free_pages, bitmap, held>>

\* The bitmap if it were placed at the candidate.
Candidate == [start |-> start, end |-> (start + pmm_bitmap_bytes) % WORD]

Fits ==
    /\ ptr \in Usable(boot)
    /\ Candidate.end <= (boot.mmap[ptr].addr + boot.mmap[ptr].len) % WORD

\* In the order find_segment tests them.
Avoided == <<boot.kernel, boot.mbi, boot.list>>

Overlapped == {k \in DOMAIN Avoided : ranges_overlap(Candidate, Avoided[k])}

\* The entry is not usable RAM, or its end is reached.
NextEntry ==
    /\ at = "segment" /\ ptr \in DOMAIN boot.mmap /\ ~Fits
    /\ ptr' = ptr + 1
    /\ start' = FirstCandidate(ptr + 1)
    /\ UNCHANGED <<boot, at, bitmap_base, pmm_max_page, pmm_total_pages,
                   pmm_free_pages, bitmap, held>>

\* The candidate overlaps something that must stay.
NextCandidate ==
    /\ at = "segment" /\ Fits /\ Overlapped # {}
    /\ start' = align_up(Avoided[CHOOSE k \in Overlapped :
                                    \A j \in Overlapped : k <= j].end)
    /\ UNCHANGED <<boot, at, ptr, bitmap_base, pmm_max_page, pmm_total_pages,
                   pmm_free_pages, bitmap, held>>

\* find_segment returns the candidate, or 0 when the map is exhausted.
SegmentFound ==
    /\ at = "segment"
    /\ \/ Fits /\ Overlapped = {} /\ bitmap_base' = start
       \/ ptr \notin DOMAIN boot.mmap /\ bitmap_base' = 0
    /\ at' = "found"
    /\ UNCHANGED <<boot, ptr, start, pmm_max_page, pmm_total_pages, pmm_free_pages,
                   bitmap, held>>

overlap_bytes(i, r) ==
    LET e == boot.mmap[i]
        max_start == Greatest({e.addr, r.start})
        min_end == IF e.addr + e.len < r.end THEN e.addr + e.len ELSE r.end
    IN  IF i \notin Usable(boot) \/ max_start >= min_end THEN 0 ELSE min_end - max_start

check_kernel_location ==
    SumOver(LAMBDA i : overlap_bytes(i, boot.kernel), DOMAIN boot.mmap)
    >= boot.kernel.end - boot.kernel.start

\* The pages clear_usable_pages clears for entry i.
RegionPages(i) ==
    LET first == Page(boot.mmap[i].addr)
        last  == first + Page(boot.mmap[i].len) - 1
    IN  {p \in first .. last : p < pmm_max_page}

usable_pages == SumOver(LAMBDA i : Cardinality(RegionPages(i)), Usable(boot))

\* Mutant: a partly filled last page is not reserved.
SegmentPages_Down(r) ==
    {p \in Page(r.start) .. Page(r.end) - 1 : p < pmm_max_page}

\* The pages reserve_segment reserves.
SegmentPages(r) ==
    {p \in Page(r.start) .. Page(r.end + PMM_PAGE_SIZE - 1) - 1 : p < pmm_max_page}

BitmapSegment == [start |-> bitmap_base, end |-> bitmap_base + pmm_bitmap_bytes]

Reserved == SegmentPages(BitmapSegment) \cup SegmentPages(boot.kernel)
               \cup {p \in {0} : p < pmm_max_page}

Cleared == UNION {RegionPages(i) : i \in Usable(boot)}

\* Mutant: the counter goes down also for a page that was not free.
CountReserved_All == Cardinality(Reserved)

\* How often reserve_page decrements pmm_free_pages: once per page, and not for
\* a page whose bit was set.
CountReserved == Cardinality(Reserved \cap Cleared)

\* The rest of pmm_init.
FillBitmap ==
    /\ at = "found"
    /\ IF bitmap_base = 0 \/ ~check_kernel_location
          \/ bitmap_base >= VMM_DIRECT_MAP_LIMIT
       THEN /\ at' = "panic"
            /\ UNCHANGED <<bitmap, pmm_total_pages, pmm_free_pages>>
       ELSE /\ at' = "ready"
            /\ bitmap' = ((0 .. pmm_max_page - 1) \ Cleared) \cup Reserved
            /\ pmm_total_pages' = usable_pages
            /\ pmm_free_pages' = Greatest({0, usable_pages - CountReserved})
    /\ UNCHANGED <<boot, ptr, start, bitmap_base, pmm_max_page, held>>

-----------------------------------------------------------------------------
(* Afterwards *)

\* The address pmm_alloc_page returns for page p: 32 bits of it.
AddressOf(p) == (p * PMM_PAGE_SIZE) % WORD

\* The bits and the counter, as the two operations below pass them on.
Counted == [bits |-> bitmap, free |-> pmm_free_pages]

FreeBits == {p \in 1 .. pmm_max_page - 1 : p \notin bitmap}

\* The first clear bit, which pmm_alloc_page sets.
Taken == CHOOSE p \in FreeBits : \A q \in FreeBits : p <= q

Allocated(s) ==
    [bits |-> s.bits \cup {Taken}, free |-> Greatest({0, s.free - 1})]

\* Page 0, a page past the last and one whose bit is clear are ignored.
Freed(s, page) ==
    IF page # 0 /\ page < pmm_max_page /\ page \in s.bits
    THEN [bits |-> s.bits \ {page}, free |-> s.free + 1]
    ELSE s

Record(s) ==
    /\ bitmap' = s.bits
    /\ pmm_free_pages' = s.free
    /\ UNCHANGED <<boot, at, ptr, start, bitmap_base, pmm_max_page, pmm_total_pages>>

\* By a caller that uses the page, and by one that finds it outside the direct
\* map and frees it at once.
pmm_alloc_page ==
    /\ at = "ready" /\ FreeBits # {}
    /\ LET page == Page(AddressOf(Taken))
       IN  \/ /\ AddressOf(Taken) < VMM_DIRECT_MAP_LIMIT
              /\ Record(Allocated(Counted))
              /\ held' = held \cup {page}
           \/ /\ AddressOf(Taken) >= VMM_DIRECT_MAP_LIMIT
              /\ Record(Freed(Allocated(Counted), page))
              /\ UNCHANGED held

\* By a caller that has the page, or got the 0 of a failed allocation.
pmm_free_page ==
    /\ at = "ready"
    /\ \E page \in held \cup {0} :
          /\ Record(Freed(Counted, page))
          /\ held' = held \ {page}

PmmBoot == check_mmap \/ NextEntry \/ NextCandidate \/ SegmentFound \/ FillBitmap

PmmNext == PmmBoot \/ pmm_alloc_page \/ pmm_free_page

\* pmm_init runs to its end: nothing can interrupt it.
PmmSpec == PmmInit /\ [][PmmNext]_pmmVars /\ WF_pmmVars(PmmBoot)

-----------------------------------------------------------------------------
\* Type invariant: only pages below pmm_max_page have a bit.
PmmTypeOK ==
    /\ boot \in Layouts
    /\ at \in {"enter", "segment", "found", "ready", "panic"}
    /\ ptr \in Nat /\ start \in 0 .. WORD - 1 /\ bitmap_base \in 0 .. WORD - 1
    /\ {pmm_max_page, pmm_total_pages, pmm_free_pages} \subseteq Nat
    /\ bitmap \subseteq 0 .. pmm_max_page - 1
    /\ held \subseteq 1 .. pmm_max_page - 1

Bytes(r) == r.start .. r.end - 1
PageBytes(p) == p * PMM_PAGE_SIZE .. (p + 1) * PMM_PAGE_SIZE - 1
UsableBytes ==
    UNION {Bytes([start |-> boot.mmap[i].addr,
                  end   |-> boot.mmap[i].addr + boot.mmap[i].len]) : i \in Usable(boot)}

\* The counter printed at boot and kept by every allocation is the number of
\* clear bits: reserving a page that was not usable RAM, freeing page 0 and the
\* allocation a caller gives straight back do not make it drift.
FreeCount ==
    at = "ready" =>
       /\ pmm_free_pages = Cardinality((0 .. pmm_max_page - 1) \ bitmap)
       /\ pmm_total_pages = Cardinality(Cleared)

\* A page handed out is usable RAM, and nothing the kernel needs is on it: not
\* its image, not the bitmap, not address 0. Its bit stays set while it is held.
HandedOutSafely ==
    \A p \in held :
       /\ p \in bitmap
       /\ PageBytes(p) \subseteq UsableBytes
       /\ PageBytes(p) \cap (Bytes(boot.kernel) \cup Bytes(BitmapSegment) \cup {0}) = {}

\* find_segment: the bitmap lies in usable RAM, page aligned, clear of the
\* kernel, of the multiboot information and of the memory map pmm_init is
\* still reading when it fills the bitmap.
SegmentSafe ==
    at \in {"found", "ready"} /\ bitmap_base # 0 =>
       /\ bitmap_base % PMM_PAGE_SIZE = 0
       /\ Bytes(BitmapSegment) \subseteq UsableBytes
       /\ \A k \in DOMAIN Avoided : Bytes(BitmapSegment) \cap Bytes(Avoided[k]) = {}

\* pmm_init ends, with a bitmap or in a panic, whatever the candidates overlap.
BootEnds == <>(at \in {"ready", "panic"})

\* find_segment's comment: the segment does not overlap multiboot data. The
\* module list, which boot_init reads next, is such data.
SegmentAvoidsModuleList ==
    at = "ready" => Bytes(BitmapSegment) \cap Bytes(boot.mods) = {}

\* clear_usable_pages's comment: all pages inside type 1 regions can be
\* allocated, but for those pmm_init reserves.
AllUsableCleared ==
    at = "ready" /\ held = {} =>
       \A p \in (0 .. pmm_max_page - 1) \ Reserved :
          (\E i \in Usable(boot) :
             PageBytes(p) \subseteq Bytes([start |-> boot.mmap[i].addr,
                                         end |-> boot.mmap[i].addr + boot.mmap[i].len]))
          => p \notin bitmap
=============================================================================
