------------------------------ MODULE PmmProofs ------------------------------
(***************************************************************************)
(* Where pmm_init puts its bitmap and which pages are handed out, for every *)
(* page size, address width, limit of the direct map and memory map.        *)
(*                                                                         *)
(* pmm.c computes with 32-bit addresses and rounds the start of a region    *)
(* down: what is proved holds of the layouts these suffice for, which the   *)
(* two predicates below name.                                               *)
(***************************************************************************)
EXTENDS Pmm, TLAPS, WellFoundedInduction, FiniteSetTheorems

BitmapBytes(l) == (find_max_page(l) + 7) \div 8

\* RAM ends where addresses do, and wherever find_segment may place the bitmap, at
\* the start of a region or after what must stay, there are addresses for it.
Addressable(l) ==
    /\ \A i \in Usable(l) :
          /\ l.mmap[i].addr + l.mmap[i].len <= WORD
          /\ l.mmap[i].addr + PMM_PAGE_SIZE + BitmapBytes(l) < WORD
    /\ \A r \in {l.kernel, l.mbi, l.list} : r.end + PMM_PAGE_SIZE + BitmapBytes(l) < WORD

\* Regions of usable RAM start on a page.
Aligned(l) == \A i \in Usable(l) : l.mmap[i].addr % PMM_PAGE_SIZE = 0

\* The pages allocation may give: usable, and not reserved by pmm_init.
Allocatable == Cleared \ Reserved

\* The candidate of find_segment is page aligned, in its region and has room.
CandidatePlaced ==
    at = "segment" /\ ptr \in Usable(boot) =>
       /\ start % PMM_PAGE_SIZE = 0
       /\ boot.mmap[ptr].addr <= start
       /\ start + BitmapBytes(boot) < WORD

\* A page whose bit is clear, or that is held, is one allocation may give.
OnlyAllocatable ==
    at = "ready" =>
       /\ FreeBits \subseteq Allocatable
       /\ held \subseteq bitmap \cap Allocatable

\* The invariant that is inductive when addresses suffice.
PmmInv ==
    /\ boot \in Layouts
    /\ at \in {"enter", "segment", "found", "ready", "panic"}
    /\ start \in Nat /\ bitmap_base \in Nat
    /\ pmm_max_page \in Nat
    /\ at \in {"segment", "found", "ready"} => pmm_max_page = find_max_page(boot)
    /\ at = "enter" => ptr = 1
    /\ at # "ready" => held = {}
    /\ CandidatePlaced
    /\ SegmentSafe
    /\ OnlyAllocatable

-----------------------------------------------------------------------------
(* Pages and addresses *)

\* The page of an address is the one it lies in.
LEMMA PageIs ==
    ASSUME NEW a \in Nat
    PROVE  /\ Page(a) \in Nat
           /\ Page(a) * PMM_PAGE_SIZE <= a
           /\ a < Page(a) * PMM_PAGE_SIZE + PMM_PAGE_SIZE
BY PmmAssumption DEF Page

\* Pages are in the order of their addresses.
LEMMA PagesInOrder ==
    ASSUME NEW a \in Nat, NEW b \in Nat
    PROVE  /\ a <= b => a * PMM_PAGE_SIZE <= b * PMM_PAGE_SIZE
           /\ a * PMM_PAGE_SIZE < b * PMM_PAGE_SIZE => a < b
           /\ (a + 1) * PMM_PAGE_SIZE = a * PMM_PAGE_SIZE + PMM_PAGE_SIZE
           /\ a * PMM_PAGE_SIZE \in Nat
<1>1. a <= b => a * PMM_PAGE_SIZE <= b * PMM_PAGE_SIZE
    BY PmmAssumption
<1>2. b <= a => b * PMM_PAGE_SIZE <= a * PMM_PAGE_SIZE
    BY PmmAssumption
<1>3. (a + 1) * PMM_PAGE_SIZE = a * PMM_PAGE_SIZE + PMM_PAGE_SIZE
    BY PmmAssumption
<1>4. a * PMM_PAGE_SIZE \in Nat /\ b * PMM_PAGE_SIZE \in Nat
    BY PmmAssumption
<1> QED BY <1>1, <1>2, <1>3, <1>4

\* The page of a page's address is that page.
LEMMA PageOfAddress ==
    ASSUME NEW p \in Nat, p * PMM_PAGE_SIZE < WORD
    PROVE  Page(AddressOf(p)) = p
<1>1. p * PMM_PAGE_SIZE \in Nat /\ Page(p * PMM_PAGE_SIZE) = p
    BY PmmAssumption DEF Page
<1>2. AddressOf(p) = p * PMM_PAGE_SIZE
    BY <1>1, PmmAssumption DEF AddressOf
<1> QED BY <1>1, <1>2

\* align_up, where it does not wrap.
LEMMA AlignedUp ==
    ASSUME NEW a \in Nat, a + PMM_PAGE_SIZE <= WORD
    PROVE  /\ align_up(a) \in Nat /\ align_up(a) % PMM_PAGE_SIZE = 0
           /\ a <= align_up(a) /\ align_up(a) < a + PMM_PAGE_SIZE
<1> DEFINE b == a + PMM_PAGE_SIZE - 1
           q == b \div PMM_PAGE_SIZE
<1>1. b \in Nat /\ b < WORD /\ b = a + PMM_PAGE_SIZE - 1
    BY PmmAssumption
<1>2. align_up(a) = b - (b % PMM_PAGE_SIZE)
    BY <1>1, PmmAssumption DEF align_up
<1> HIDE DEF b
<1>3. q \in Nat /\ b % PMM_PAGE_SIZE \in 0 .. PMM_PAGE_SIZE - 1
      /\ b = PMM_PAGE_SIZE * q + (b % PMM_PAGE_SIZE)
    BY <1>1, PmmAssumption
<1>4. align_up(a) = PMM_PAGE_SIZE * q
    BY <1>1, <1>2, <1>3, PmmAssumption
<1> HIDE DEF q
<1>5. PMM_PAGE_SIZE * q \in Nat /\ (PMM_PAGE_SIZE * q) % PMM_PAGE_SIZE = 0
  <2> DEFINE z == PMM_PAGE_SIZE * q
  <2>1. z \in Nat /\ z \div PMM_PAGE_SIZE = q
    BY <1>3, PmmAssumption
  <2>2. z = PMM_PAGE_SIZE * q
    OBVIOUS
  <2> HIDE DEF z
  <2>3. z = PMM_PAGE_SIZE * (z \div PMM_PAGE_SIZE) + (z % PMM_PAGE_SIZE)
        /\ z % PMM_PAGE_SIZE \in Nat
    BY <2>1, PmmAssumption
  <2>4. z % PMM_PAGE_SIZE = 0
    BY <2>1, <2>2, <2>3
  <2> QED BY <2>1, <2>4 DEF z
<1> QED BY <1>1, <1>2, <1>3, <1>4, <1>5, PmmAssumption

\* A set of naturals below a bound has a greatest element.
LEMMA GreatestIn ==
    ASSUME NEW n \in Nat, NEW S \in SUBSET (0 .. n)
    PROVE  Greatest(S) \in 0 .. n /\ \A y \in S : y <= Greatest(S)
<1>1. CASE S = {}
    BY <1>1 DEF Greatest
<1>2. CASE S # {}
  <2> DEFINE R == {ss \in Nat \X Nat : ss[1] < ss[2]}
             T == {n - x : x \in S}
  <2>1. IsWellFoundedOn(R, Nat)
    BY NatLessThanWellFounded DEF OpToRel
  <2>2. T \in SUBSET Nat /\ T # {}
    <3>1. \A x \in S : n - x \in Nat
      OBVIOUS
    <3> QED BY <1>2, <3>1
  <2>3. \E t \in T : \A u \in T : ~ (<<u, t>> \in R)
    <3> HIDE DEF R, T
    <3> QED BY <2>1, <2>2, WFMin
  <2>4. PICK t \in T : \A u \in T : ~ (<<u, t>> \in R)
    BY <2>3
  <2>5. \A u \in T : ~ (u < t)
    BY <2>2, <2>4
  <2>6. PICK x \in S : t = n - x
    BY <2>4
  <2>7. \A y \in S : y <= x
    <3> SUFFICES ASSUME NEW y \in S PROVE y <= x
      OBVIOUS
    <3>1. n - y \in T
      OBVIOUS
    <3>2. ~ (n - y < n - x)
      BY <2>5, <2>6, <3>1
    <3>3. x \in 0 .. n /\ y \in 0 .. n
      OBVIOUS
    <3> QED BY <3>2, <3>3
  <2>8. Greatest(S) \in S /\ \A y \in S : y <= Greatest(S)
    BY <1>2, <2>7 DEF Greatest
  <2> QED BY <2>8
<1> QED BY <1>1, <1>2

-----------------------------------------------------------------------------
(* Layouts *)

\* What the rest uses of a layout.
LEMMA LayoutIs ==
    ASSUME NEW l \in Layouts, Addressable(l)
    PROVE  /\ find_max_page(l) \in Nat /\ BitmapBytes(l) \in Nat
           /\ find_max_page(l) * PMM_PAGE_SIZE <= WORD
           /\ \A i \in Usable(l) :
                 /\ l.mmap[i].addr \in Nat /\ l.mmap[i].len \in Nat
                 /\ l.mmap[i].addr + l.mmap[i].len <= WORD
                 /\ l.mmap[i].addr + PMM_PAGE_SIZE + BitmapBytes(l) < WORD
           /\ \A r \in {l.kernel, l.mbi, l.list} :
                 /\ r.start \in Nat /\ r.end \in Nat /\ r.start <= r.end
                 /\ r.end + PMM_PAGE_SIZE + BitmapBytes(l) < WORD
<1> DEFINE S == {Page(l.mmap[i].addr + l.mmap[i].len) : i \in Usable(l)}
           n == Page(WORD)
<1>1. \A i \in Usable(l) : l.mmap[i].addr \in Nat /\ l.mmap[i].len \in Nat
                           /\ l.mmap[i].addr + l.mmap[i].len <= WORD
    BY PmmAssumption DEF Usable, Addressable
<1>2. WORD \in Nat /\ n \in Nat /\ n * PMM_PAGE_SIZE <= WORD
    BY PmmAssumption, PageIs
<1>3. ASSUME NEW i \in Usable(l)
      PROVE  Page(l.mmap[i].addr + l.mmap[i].len) \in 0 .. n
  <2> DEFINE a == l.mmap[i].addr + l.mmap[i].len
  <2>1. a \in Nat /\ a <= WORD
    BY <1>1
  <2> HIDE DEF a
  <2>2. /\ Page(a) \in Nat /\ Page(a) * PMM_PAGE_SIZE <= a
        /\ WORD < n * PMM_PAGE_SIZE + PMM_PAGE_SIZE
        /\ n + 1 \in Nat
    BY <1>2, <2>1, PageIs
  <2>3. (n + 1) * PMM_PAGE_SIZE = n * PMM_PAGE_SIZE + PMM_PAGE_SIZE
        /\ Page(a) * PMM_PAGE_SIZE \in Nat /\ n * PMM_PAGE_SIZE \in Nat
    BY <1>2, <2>2, PagesInOrder
  <2>4. Page(a) * PMM_PAGE_SIZE < (n + 1) * PMM_PAGE_SIZE
    BY <1>2, <2>1, <2>2, <2>3, PmmAssumption
  <2>5. Page(a) < n + 1
    BY <2>2, <2>4, PagesInOrder
  <2>6. Page(a) \in 0 .. n
    BY <1>2, <2>2, <2>5
  <2> QED BY <2>6 DEF a
<1>4. S \in SUBSET (0 .. n)
    BY <1>3
<1>5. find_max_page(l) \in 0 .. n
    BY <1>2, <1>4, GreatestIn DEF find_max_page
<1> HIDE DEF n, S
<1>6. find_max_page(l) \in Nat /\ find_max_page(l) <= n
    BY <1>2, <1>5
<1>7. find_max_page(l) * PMM_PAGE_SIZE <= WORD
  <2>1. find_max_page(l) * PMM_PAGE_SIZE <= n * PMM_PAGE_SIZE
        /\ find_max_page(l) * PMM_PAGE_SIZE \in Nat /\ n * PMM_PAGE_SIZE \in Nat
    BY <1>2, <1>6, PagesInOrder
  <2> QED BY <1>2, <2>1
<1>8. BitmapBytes(l) \in Nat
    BY <1>6 DEF BitmapBytes
<1>9. \A i \in Usable(l) : l.mmap[i].addr + PMM_PAGE_SIZE + BitmapBytes(l) < WORD
    BY DEF Addressable
<1>10. \A r \in {l.kernel, l.mbi, l.list} :
          /\ r.start \in Nat /\ r.end \in Nat /\ r.start <= r.end
          /\ r.end + PMM_PAGE_SIZE + BitmapBytes(l) < WORD
    BY PmmAssumption DEF Addressable
<1> QED BY <1>1, <1>6, <1>7, <1>8, <1>9, <1>10

\* The first candidate of an entry of usable RAM is well placed.
LEMMA FirstPlaced ==
    ASSUME boot \in Layouts, Addressable(boot), NEW i \in Usable(boot)
    PROVE  /\ FirstCandidate(i) \in Nat /\ FirstCandidate(i) % PMM_PAGE_SIZE = 0
           /\ boot.mmap[i].addr <= FirstCandidate(i)
           /\ FirstCandidate(i) + BitmapBytes(boot) < WORD
<1> DEFINE addr == boot.mmap[i].addr
           a == IF addr = 0 THEN 1 ELSE addr % WORD
           b == BitmapBytes(boot)
<1>1. addr \in Nat /\ b \in Nat /\ addr + PMM_PAGE_SIZE + b < WORD
    BY LayoutIs
<1>2. FirstCandidate(i) = align_up(a)
    BY DEF FirstCandidate
<1> HIDE DEF addr, b
<1>3. a \in Nat /\ a + PMM_PAGE_SIZE <= WORD /\ addr <= a
      /\ (addr = 0 => a = 1) /\ (addr # 0 => a = addr)
    BY <1>1, PmmAssumption
<1> HIDE DEF a
<1>4. /\ align_up(a) \in Nat /\ align_up(a) % PMM_PAGE_SIZE = 0
      /\ a <= align_up(a) /\ align_up(a) < a + PMM_PAGE_SIZE
    BY <1>3, AlignedUp
<1>5. addr <= align_up(a) /\ align_up(a) + b < WORD
    BY <1>1, <1>3, <1>4, PmmAssumption
<1> QED BY <1>2, <1>4, <1>5 DEF addr, b

\* Some naturals have a least one,
LEMMA LeastOf ==
    ASSUME NEW S \in SUBSET Nat, S # {}
    PROVE  \E x \in S : \A y \in S : x <= y
<1> DEFINE R == {ss \in Nat \X Nat : ss[1] < ss[2]}
<1>1. IsWellFoundedOn(R, Nat)
    BY NatLessThanWellFounded DEF OpToRel
<1>2. \E x \in S : \A y \in S : ~ (<<y, x>> \in R)
  <2> HIDE DEF R
  <2> QED BY <1>1, WFMin
<1>3. PICK x \in S : \A y \in S : ~ (<<y, x>> \in R)
    BY <1>2
<1>4. \A y \in S : ~ (y < x)
    BY <1>3
<1> QED BY <1>4

\* which the searches choose.
LEMMA LeastIn ==
    ASSUME NEW S \in SUBSET Nat, S # {}
    PROVE  LET x == CHOOSE x \in S : \A y \in S : x <= y
           IN  x \in S
BY LeastOf

-----------------------------------------------------------------------------
(* find_segment *)

\* The bitmap of the candidate, once the number of pages is known.
LEMMA CandidateIs ==
    ASSUME PmmInv, Addressable(boot), at = "segment", ptr \in Usable(boot)
    PROVE  /\ pmm_bitmap_bytes = BitmapBytes(boot) /\ BitmapBytes(boot) \in Nat
           /\ start \in Nat /\ Candidate.start = start
           /\ Candidate.end = start + BitmapBytes(boot)
<1>1. boot \in Layouts /\ start \in Nat /\ pmm_max_page = find_max_page(boot)
      /\ start + BitmapBytes(boot) < WORD
    BY DEF PmmInv, CandidatePlaced
<1>2. BitmapBytes(boot) \in Nat /\ pmm_bitmap_bytes = BitmapBytes(boot)
    BY <1>1, LayoutIs DEF pmm_bitmap_bytes, BitmapBytes
<1>3. (start + BitmapBytes(boot)) % WORD = start + BitmapBytes(boot)
    BY <1>1, <1>2, PmmAssumption
<1> QED BY <1>1, <1>2, <1>3 DEF Candidate

\* What find_segment avoids is the kernel, the multiboot information and the list.
LEMMA AvoidedIs ==
    /\ DOMAIN Avoided = 1 .. 3
    /\ \A k \in 1 .. 3 : Avoided[k] \in {boot.kernel, boot.mbi, boot.list}
BY DEF Avoided

\* The candidate found lies in its region and clear of what must stay.
LEMMA FoundSafe ==
    ASSUME PmmInv, Addressable(boot), at = "segment", Fits, Overlapped = {}, start # 0,
           NEW b, b = [start |-> start, end |-> start + pmm_bitmap_bytes]
    PROVE  /\ start % PMM_PAGE_SIZE = 0
           /\ Bytes(b) \subseteq UsableBytes
           /\ \A k \in DOMAIN Avoided : Bytes(b) \cap Bytes(Avoided[k]) = {}
<1> DEFINE e == boot.mmap[ptr]
           n == BitmapBytes(boot)
<1>1. ptr \in Usable(boot) /\ Candidate.end <= (e.addr + e.len) % WORD
    BY DEF Fits
<1>2. /\ pmm_bitmap_bytes = n /\ n \in Nat
      /\ start \in Nat /\ Candidate.start = start /\ Candidate.end = start + n
    BY <1>1, CandidateIs
<1>3. /\ start % PMM_PAGE_SIZE = 0 /\ e.addr <= start /\ boot \in Layouts
    BY <1>1 DEF PmmInv, CandidatePlaced
<1>4. e.addr \in Nat /\ e.len \in Nat /\ e.addr + e.len <= WORD
    BY <1>1, <1>3, LayoutIs
<1> HIDE DEF n
<1>5. start + n <= e.addr + e.len
  <2> DEFINE end == e.addr + e.len
  <2>1. end \in Nat /\ end <= WORD /\ start + n <= end % WORD
    BY <1>1, <1>2, <1>4
  <2> HIDE DEF end
  <2>2. CASE end < WORD
    <3>1. end % WORD = end
      BY <2>1, <2>2, PmmAssumption
    <3> QED BY <2>1, <3>1 DEF end
  <2>3. CASE end = WORD
    <3>1. end % WORD = 0
      BY <2>1, <2>3, PmmAssumption
    <3> QED BY <1>2, <2>1, <3>1
  <2> QED BY <2>1, <2>2, <2>3, PmmAssumption
<1>6. Bytes(b) = start .. start + n - 1
    BY <1>2 DEF Bytes
<1>7. Bytes(b) \subseteq UsableBytes
  <2> DEFINE region == [start |-> e.addr, end |-> e.addr + e.len]
  <2>1. Bytes(region) \subseteq UsableBytes
    BY <1>1 DEF UsableBytes
  <2>2. region.start = e.addr /\ region.end = e.addr + e.len
    OBVIOUS
  <2> HIDE DEF region, e
  <2>3. \A x \in Bytes(b) : x \in Bytes(region)
    BY <1>2, <1>3, <1>4, <1>5, <1>6, <2>2 DEF Bytes
  <2> QED BY <2>1, <2>3
<1>8. ASSUME NEW k \in DOMAIN Avoided PROVE Bytes(b) \cap Bytes(Avoided[k]) = {}
  <2> DEFINE r == Avoided[k]
  <2>1. ~ ranges_overlap(Candidate, r)
    BY DEF Overlapped
  <2>2. r.start \in Nat /\ r.end \in Nat
    BY <1>3, AvoidedIs, LayoutIs
  <2>3. Bytes(r) = r.start .. r.end - 1
    BY DEF Bytes
  <2> HIDE DEF r
  <2>4. ~ (start < r.end /\ r.start < start + n)
    BY <1>2, <2>1 DEF ranges_overlap
  <2>5. Bytes(b) \cap Bytes(r) = {}
    BY <1>2, <1>6, <2>2, <2>3, <2>4
  <2> QED BY <2>5 DEF r
<1> QED BY <1>3, <1>7, <1>8

\* The candidate after one that overlaps something is well placed.
LEMMA NextPlaced ==
    ASSUME PmmInv, Addressable(boot), at = "segment", Fits, NEW k \in Overlapped
    PROVE  LET x == align_up(Avoided[k].end)
           IN  /\ x \in Nat /\ x % PMM_PAGE_SIZE = 0
               /\ boot.mmap[ptr].addr <= x
               /\ x + BitmapBytes(boot) < WORD
<1> DEFINE r == Avoided[k]
           n == BitmapBytes(boot)
           addr == boot.mmap[ptr].addr
<1>1. ptr \in Usable(boot) /\ boot \in Layouts
    BY DEF Fits, PmmInv
<1>2. start \in Nat /\ n \in Nat /\ Candidate.start = start /\ addr <= start /\ addr \in Nat
    BY <1>1, CandidateIs, LayoutIs DEF PmmInv, CandidatePlaced
<1>3. r.end \in Nat /\ r.end + PMM_PAGE_SIZE + n < WORD /\ start < r.end
  <2>1. k \in DOMAIN Avoided /\ ranges_overlap(Candidate, r)
    BY DEF Overlapped
  <2>2. r \in {boot.kernel, boot.mbi, boot.list}
    BY <2>1, AvoidedIs
  <2> HIDE DEF r
  <2> QED BY <1>1, <1>2, <2>1, <2>2, LayoutIs DEF ranges_overlap
<1> HIDE DEF r, n, addr
<1>4. r.end + PMM_PAGE_SIZE <= WORD
    BY <1>2, <1>3, PmmAssumption
<1>5. /\ align_up(r.end) \in Nat /\ align_up(r.end) % PMM_PAGE_SIZE = 0
      /\ r.end <= align_up(r.end) /\ align_up(r.end) < r.end + PMM_PAGE_SIZE
    BY <1>3, <1>4, AlignedUp
<1>6. addr <= align_up(r.end) /\ align_up(r.end) + n < WORD
    BY <1>2, <1>3, <1>5, PmmAssumption
<1> QED BY <1>5, <1>6 DEF r, n, addr
-----------------------------------------------------------------------------
(* The steps *)

\* While pmm_init searches: its entry and candidate change, and nothing else.
Searching(x) ==
    /\ UNCHANGED <<boot, bitmap_base, pmm_max_page, bitmap, held>>
    /\ at' = "segment" /\ start' = x

\* A step of the search that leaves a well placed candidate keeps the invariant.
LEMMA SearchStep ==
    ASSUME PmmInv, Addressable(boot), NEW x \in Nat, Searching(x), at = "segment",
           ptr' \in Usable(boot) =>
              /\ x % PMM_PAGE_SIZE = 0
              /\ boot.mmap[ptr'].addr <= x
              /\ x + BitmapBytes(boot) < WORD
    PROVE  PmmInv'
<1>1. /\ boot' = boot /\ at' = "segment" /\ start' = x /\ bitmap_base' = bitmap_base
      /\ pmm_max_page' = pmm_max_page /\ held' = held
    BY DEF Searching
<1>2. CandidatePlaced'
    BY <1>1 DEF CandidatePlaced, BitmapBytes, find_max_page, Usable
<1>3. SegmentSafe' /\ OnlyAllocatable'
    BY <1>1 DEF SegmentSafe, OnlyAllocatable
<1> QED BY <1>1, <1>2, <1>3 DEF PmmInv

\* pmm_init's check of the memory map keeps the invariant.
LEMMA CheckMmapStep == ASSUME PmmInv, Addressable(boot), check_mmap PROVE PmmInv'
<1>1. /\ at = "enter" /\ at' = (IF boot.wellformed THEN "segment" ELSE "panic")
      /\ pmm_max_page' = (IF boot.wellformed THEN find_max_page(boot) ELSE 0)
      /\ start' = FirstCandidate(1)
      /\ UNCHANGED <<boot, ptr, bitmap_base, held>>
    BY DEF check_mmap
<1>2. boot \in Layouts /\ ptr = 1 /\ held = {} /\ bitmap_base \in Nat
    BY <1>1 DEF PmmInv
<1>3. find_max_page(boot) \in Nat /\ pmm_max_page' \in Nat
    BY <1>1, <1>2, LayoutIs
<1>4. FirstCandidate(1) \in Nat
    BY <1>2, FirstPlaced DEF FirstCandidate
<1>5. CandidatePlaced'
  <2> SUFFICES ASSUME ptr' \in Usable(boot')
               PROVE  /\ start' % PMM_PAGE_SIZE = 0
                      /\ boot'.mmap[ptr'].addr <= start'
                      /\ start' + BitmapBytes(boot') < WORD
    BY DEF CandidatePlaced
  <2> QED BY <1>1, <1>2, FirstPlaced
<1>6. at' # "ready" /\ at' # "found" /\ at' # "enter"
    BY <1>1
<1>7. SegmentSafe' /\ OnlyAllocatable'
    BY <1>6 DEF SegmentSafe, OnlyAllocatable
<1>8. at' = "segment" => pmm_max_page' = find_max_page(boot')
    BY <1>1
<1> QED BY <1>1, <1>2, <1>3, <1>4, <1>5, <1>6, <1>7, <1>8 DEF PmmInv

\* So does find_segment when it goes on to the next region,
LEMMA NextEntryStep == ASSUME PmmInv, Addressable(boot), NextEntry PROVE PmmInv'
<1>1. at = "segment" /\ ptr' = ptr + 1 /\ Searching(FirstCandidate(ptr + 1))
    BY DEF NextEntry, Searching
<1>2. boot \in Layouts
    BY DEF PmmInv
<1>3. FirstCandidate(ptr + 1) \in Nat
    BY <1>2, FirstPlaced DEF FirstCandidate
<1> QED BY <1>1, <1>2, <1>3, FirstPlaced, SearchStep

\* and when it tries behind what the candidate overlaps,
LEMMA NextCandidateStep == ASSUME PmmInv, Addressable(boot), NextCandidate PROVE PmmInv'
<1> DEFINE k == CHOOSE k \in Overlapped : \A j \in Overlapped : k <= j
           x == align_up(Avoided[k].end)
<1>1. at = "segment" /\ Fits /\ Overlapped # {} /\ ptr' = ptr /\ Searching(x)
    BY DEF NextCandidate, Searching
<1>2. k \in Overlapped
  <2>1. Overlapped \in SUBSET Nat
    BY AvoidedIs DEF Overlapped
  <2> QED BY <1>1, <2>1, LeastIn
<1> HIDE DEF k
<1>3. /\ x \in Nat /\ x % PMM_PAGE_SIZE = 0
      /\ boot.mmap[ptr].addr <= x /\ x + BitmapBytes(boot) < WORD
    BY <1>1, <1>2, NextPlaced
<1> HIDE DEF x
<1> QED BY <1>1, <1>3, SearchStep

\* and when it returns a candidate;
LEMMA SegmentFoundStep == ASSUME PmmInv, Addressable(boot), SegmentFound PROVE PmmInv'
<1>1. /\ at = "segment" /\ at' = "found"
      /\ UNCHANGED <<boot, ptr, start, pmm_max_page, held>>
      /\ \/ Fits /\ Overlapped = {} /\ bitmap_base' = start
         \/ bitmap_base' = 0
    BY DEF SegmentFound
<1>2. boot \in Layouts /\ start \in Nat /\ pmm_max_page \in Nat /\ held = {}
      /\ pmm_max_page = find_max_page(boot)
    BY <1>1 DEF PmmInv
<1>3. SegmentSafe'
  <2> SUFFICES ASSUME bitmap_base' # 0
               PROVE  /\ bitmap_base' % PMM_PAGE_SIZE = 0
                      /\ Bytes(BitmapSegment') \subseteq UsableBytes'
                      /\ \A j \in DOMAIN Avoided' : Bytes(BitmapSegment') \cap Bytes(Avoided'[j]) = {}
    BY DEF SegmentSafe, Bytes
  <2>1. Fits /\ Overlapped = {} /\ bitmap_base' = start /\ start # 0
    BY <1>1
  <2>2. UsableBytes' = UsableBytes /\ Avoided' = Avoided
    BY <1>1 DEF UsableBytes, Usable, Avoided
  <2>3. BitmapSegment' = [start |-> start, end |-> start + pmm_bitmap_bytes]
    BY <1>1, <2>1 DEF BitmapSegment, pmm_bitmap_bytes
  <2> QED BY <1>1, <2>1, <2>2, <2>3, FoundSafe
<1>4. CandidatePlaced' /\ OnlyAllocatable'
    BY <1>1 DEF CandidatePlaced, OnlyAllocatable
<1> QED BY <1>1, <1>2, <1>3, <1>4 DEF PmmInv

\* so do the clearing and reserving of bits,
LEMMA FillBitmapStep == ASSUME PmmInv, FillBitmap PROVE PmmInv'
<1>1. /\ at = "found" /\ at' \in {"panic", "ready"}
      /\ at' = "ready" => bitmap' = ((0 .. pmm_max_page - 1) \ Cleared) \cup Reserved
      /\ UNCHANGED <<boot, ptr, start, bitmap_base, pmm_max_page, held>>
    BY DEF FillBitmap
<1>2. held = {} /\ pmm_max_page \in Nat /\ SegmentSafe
    BY <1>1 DEF PmmInv
<1>3. OnlyAllocatable'
  <2> SUFFICES ASSUME at' = "ready"
               PROVE  FreeBits' \subseteq Allocatable' /\ held' \subseteq bitmap' \cap Allocatable'
    BY DEF OnlyAllocatable
  <2>1. Allocatable' = Cleared \ Reserved
    BY <1>1 DEF Allocatable, Cleared, Reserved, RegionPages, Usable, SegmentPages, BitmapSegment,
                pmm_bitmap_bytes
  <2>2. FreeBits' \subseteq 0 .. pmm_max_page - 1 /\ \A p \in FreeBits' : p \notin bitmap'
    BY <1>1, <1>2 DEF FreeBits
  <2> QED BY <1>1, <1>2, <2>1, <2>2
<1>4. SegmentSafe'
    BY <1>1, <1>2 DEF SegmentSafe, BitmapSegment, pmm_bitmap_bytes, UsableBytes, Usable, Avoided, Bytes
<1>5. CandidatePlaced'
    BY <1>1 DEF CandidatePlaced
<1>6. pmm_max_page' = find_max_page(boot')
    BY <1>1 DEF PmmInv
<1> QED BY <1>1, <1>3, <1>4, <1>5, <1>6 DEF PmmInv

\* What allocation and release may change.
LEMMA RecordStep ==
    ASSUME PmmInv, at = "ready", NEW s, Record(s),
           FreeBits' \subseteq Allocatable, held' \subseteq bitmap' \cap Allocatable
    PROVE  PmmInv'
<1>1. UNCHANGED <<boot, at, ptr, start, bitmap_base, pmm_max_page>>
    BY DEF Record
<1>2. Allocatable' = Allocatable
    BY <1>1 DEF Allocatable, Cleared, Reserved, RegionPages, Usable, SegmentPages, BitmapSegment,
                pmm_bitmap_bytes
<1>3. OnlyAllocatable'
    BY <1>2 DEF OnlyAllocatable
<1>4. SegmentSafe'
    BY <1>1 DEF PmmInv, SegmentSafe, BitmapSegment, pmm_bitmap_bytes, UsableBytes, Usable, Avoided,
                Bytes
<1>5. CandidatePlaced'
    BY <1>1 DEF CandidatePlaced
<1>6. pmm_max_page' = find_max_page(boot')
    BY <1>1 DEF PmmInv
<1> QED BY <1>1, <1>3, <1>4, <1>5, <1>6 DEF PmmInv

\* The page allocation takes, and finds again from its address.
LEMMA TakenIs ==
    ASSUME PmmInv, Addressable(boot), at = "ready", FreeBits # {}
    PROVE  Taken \in FreeBits /\ Page(AddressOf(Taken)) = Taken
<1>2. boot \in Layouts /\ pmm_max_page = find_max_page(boot) /\ pmm_max_page \in Nat
    BY DEF PmmInv
<1>3. Taken \in FreeBits
  <2>1. FreeBits \in SUBSET Nat
    BY <1>2 DEF FreeBits
  <2> QED BY <2>1, LeastIn DEF Taken
<1>4. Taken \in 1 .. pmm_max_page - 1 /\ Taken \notin bitmap
    BY <1>3 DEF FreeBits
<1>5. Page(AddressOf(Taken)) = Taken
  <2>1. pmm_max_page * PMM_PAGE_SIZE <= WORD
    BY <1>2, LayoutIs
  <2>2. Taken \in Nat /\ Taken + 1 \in Nat /\ Taken + 1 <= pmm_max_page
    BY <1>2, <1>4
  <2>3. /\ (Taken + 1) * PMM_PAGE_SIZE <= pmm_max_page * PMM_PAGE_SIZE
        /\ (Taken + 1) * PMM_PAGE_SIZE = Taken * PMM_PAGE_SIZE + PMM_PAGE_SIZE
        /\ Taken * PMM_PAGE_SIZE \in Nat /\ pmm_max_page * PMM_PAGE_SIZE \in Nat
    BY <1>2, <2>2, PagesInOrder
  <2>4. Taken * PMM_PAGE_SIZE < WORD
    BY <2>1, <2>3, PmmAssumption
  <2> QED BY <2>2, <2>4, PageOfAddress
<1> QED BY <1>3, <1>5

\* an allocation,
LEMMA AllocStep == ASSUME PmmInv, Addressable(boot), pmm_alloc_page PROVE PmmInv'
<1> DEFINE page == Page(AddressOf(Taken))
<1>1. /\ at = "ready" /\ FreeBits # {}
      /\ \/ Record(Allocated(Counted)) /\ held' = held \cup {page}
         \/ Record(Freed(Allocated(Counted), page)) /\ UNCHANGED held
    BY DEF pmm_alloc_page
<1>2. /\ boot \in Layouts /\ pmm_max_page = find_max_page(boot) /\ pmm_max_page \in Nat
      /\ FreeBits \subseteq Allocatable /\ held \subseteq bitmap \cap Allocatable
    BY <1>1 DEF PmmInv, OnlyAllocatable
<1>3. Taken \in FreeBits /\ page = Taken
    BY <1>1, TakenIs
<1>4. Taken \in 1 .. pmm_max_page - 1 /\ Taken \notin bitmap
    BY <1>3 DEF FreeBits
<1> HIDE DEF page
<1>6. CASE Record(Allocated(Counted)) /\ held' = held \cup {page}
  <2>1. bitmap' = bitmap \cup {Taken} /\ UNCHANGED pmm_max_page
    BY <1>6 DEF Record, Allocated, Counted
  <2>2. FreeBits' \subseteq FreeBits
    BY <2>1 DEF FreeBits
  <2>3. held' \subseteq bitmap' \cap Allocatable
    BY <1>2, <1>3, <1>6, <2>1
  <2> QED BY <1>1, <1>2, <1>6, <2>2, <2>3, RecordStep
<1>7. CASE Record(Freed(Allocated(Counted), page)) /\ UNCHANGED held
  <2>1. Allocated(Counted).bits = bitmap \cup {Taken}
    BY DEF Allocated, Counted
  <2>2. Freed(Allocated(Counted), page).bits = (bitmap \cup {Taken}) \ {Taken}
    BY <1>2, <1>3, <1>4, <2>1 DEF Freed
  <2>3. bitmap' = bitmap /\ UNCHANGED pmm_max_page
    BY <1>4, <1>7, <2>2 DEF Record
  <2>4. FreeBits' = FreeBits /\ held' \subseteq bitmap' \cap Allocatable
    BY <1>2, <1>7, <2>3 DEF FreeBits
  <2> QED BY <1>1, <1>2, <1>7, <2>4, RecordStep
<1> QED BY <1>1, <1>6, <1>7

\* and a release.
LEMMA FreeStep == ASSUME PmmInv, pmm_free_page PROVE PmmInv'
<1>1. PICK page \in held \cup {0} :
        at = "ready" /\ Record(Freed(Counted, page)) /\ held' = held \ {page}
    BY DEF pmm_free_page
<1>2. FreeBits \subseteq Allocatable /\ held \subseteq bitmap \cap Allocatable
    BY <1>1 DEF PmmInv, OnlyAllocatable
<1>3. UNCHANGED pmm_max_page
    BY <1>1 DEF Record
<1>4. \/ bitmap' = bitmap
      \/ page # 0 /\ bitmap' = bitmap \ {page}
    BY <1>1 DEF Record, Freed, Counted
<1>5. held' \subseteq bitmap' \cap Allocatable
    BY <1>1, <1>2, <1>4
<1>6. FreeBits' \subseteq Allocatable
    BY <1>1, <1>2, <1>3, <1>4 DEF FreeBits
<1> QED BY <1>1, <1>5, <1>6, RecordStep

\* The safety part of the specification.
PmmSafety == PmmInit /\ [][PmmNext]_pmmVars

\* The invariant holds from the boot loader's hand-over on, for every map whose
\* usable RAM ends by the end of the address space and leaves room there for a page
\* and the bitmap, which find_segment does not check.
THEOREM PmmInvariant ==
    ASSUME \A l \in Layouts : Addressable(l)
    PROVE  PmmSafety => []PmmInv
<1>1. PmmInit => PmmInv
    BY DEF PmmInit, PmmInv, CandidatePlaced, SegmentSafe, OnlyAllocatable
<1>2. PmmInv /\ [PmmNext]_pmmVars => PmmInv'
  <2> SUFFICES ASSUME PmmInv, [PmmNext]_pmmVars PROVE PmmInv'
    OBVIOUS
  <2>1. Addressable(boot)
    BY DEF PmmInv
  <2>2. CASE UNCHANGED pmmVars
    <3>1. UNCHANGED <<boot, at, ptr, start, bitmap_base, pmm_max_page, bitmap, held>>
      BY <2>2 DEF pmmVars
    <3>2. CandidatePlaced' /\ pmm_max_page' \in Nat
      BY <3>1 DEF PmmInv, CandidatePlaced, BitmapBytes, find_max_page, Usable
    <3>3. SegmentSafe'
      BY <3>1 DEF PmmInv, SegmentSafe, BitmapSegment, pmm_bitmap_bytes, UsableBytes, Usable, Avoided,
                  Bytes
    <3>4. OnlyAllocatable'
      BY <3>1 DEF PmmInv, OnlyAllocatable, Allocatable, FreeBits, Cleared, Reserved, RegionPages,
                  Usable, SegmentPages, BitmapSegment, pmm_bitmap_bytes
    <3>5. find_max_page(boot)' = find_max_page(boot)
      BY <3>1
    <3> QED BY <3>1, <3>2, <3>3, <3>4, <3>5 DEF PmmInv
  <2>3. CASE PmmBoot
    BY <2>1, <2>3, CheckMmapStep, NextEntryStep, NextCandidateStep, SegmentFoundStep, FillBitmapStep
       DEF PmmBoot
  <2>4. CASE pmm_alloc_page \/ pmm_free_page
    BY <2>1, <2>4, AllocStep, FreeStep
  <2> QED BY <2>2, <2>3, <2>4 DEF PmmNext
<1> QED BY <1>1, <1>2, PTL DEF PmmSafety

\* find_segment's result is page aligned, in usable RAM and clear of the kernel,
\* the multiboot information and the memory map, for every map whose RAM ends by
\* the end of the address space and leaves room for the bitmap there.
THEOREM BitmapPlacedSafely ==
    ASSUME \A l \in Layouts : Addressable(l)
    PROVE  PmmSafety => []SegmentSafe
<1>1. PmmInv => SegmentSafe
    BY DEF PmmInv
<1> QED BY <1>1, PmmInvariant, PTL

-----------------------------------------------------------------------------
(* The bytes of a page *)

\* A page that reserve_segment did not reserve has no byte of the segment.
LEMMA NotReserved ==
    ASSUME NEW r, r.start \in Nat, r.end \in Nat, pmm_max_page \in Nat,
           NEW p \in Nat, p < pmm_max_page, p \notin SegmentPages(r)
    PROVE  PageBytes(p) \cap Bytes(r) = {}
<1> SUFFICES ASSUME NEW b \in PageBytes(p), b \in Bytes(r) PROVE FALSE
    OBVIOUS
<1> DEFINE first == Page(r.start)
           past == Page(r.end + PMM_PAGE_SIZE - 1)
<1>1. /\ p * PMM_PAGE_SIZE \in Nat /\ p + 1 \in Nat
      /\ (p + 1) * PMM_PAGE_SIZE = p * PMM_PAGE_SIZE + PMM_PAGE_SIZE
    BY PagesInOrder
<1>2. /\ b \in Int /\ p * PMM_PAGE_SIZE <= b /\ b < (p + 1) * PMM_PAGE_SIZE
      /\ r.start <= b /\ b < r.end
    BY <1>1, PmmAssumption DEF PageBytes, Bytes
<1>3. first \in Nat /\ first * PMM_PAGE_SIZE <= r.start /\ first * PMM_PAGE_SIZE \in Nat
    BY PageIs, PagesInOrder
<1>4. first < p + 1
  <2>1. first * PMM_PAGE_SIZE < (p + 1) * PMM_PAGE_SIZE
    BY <1>1, <1>2, <1>3, PmmAssumption
  <2> HIDE DEF first
  <2> QED BY <1>1, <1>3, <2>1, PagesInOrder
<1>5. /\ r.end + PMM_PAGE_SIZE - 1 \in Nat
      /\ past \in Nat /\ r.end + PMM_PAGE_SIZE - 1 < past * PMM_PAGE_SIZE + PMM_PAGE_SIZE
      /\ past * PMM_PAGE_SIZE \in Nat /\ past + 1 \in Nat
      /\ (past + 1) * PMM_PAGE_SIZE = past * PMM_PAGE_SIZE + PMM_PAGE_SIZE
  <2>1. r.end + PMM_PAGE_SIZE - 1 \in Nat
    BY PmmAssumption
  <2>2. past \in Nat /\ r.end + PMM_PAGE_SIZE - 1 < past * PMM_PAGE_SIZE + PMM_PAGE_SIZE
    BY <2>1, PageIs
  <2> HIDE DEF past
  <2> QED BY <2>1, <2>2, PagesInOrder
<1> HIDE DEF first, past
<1>6. p + 1 < past + 1
  <2>1. (p + 1) * PMM_PAGE_SIZE < (past + 1) * PMM_PAGE_SIZE
    BY <1>1, <1>2, <1>5, PmmAssumption
  <2> QED BY <1>1, <1>5, <2>1, PagesInOrder
<1>7. p \in first .. past - 1
    BY <1>3, <1>4, <1>5, <1>6
<1> QED BY <1>7 DEF SegmentPages, first, past

\* A page that clear_usable_pages cleared lies in its region, when that starts on
\* a page.
LEMMA InsideRegion ==
    ASSUME boot \in Layouts, Addressable(boot), Aligned(boot),
           NEW i \in Usable(boot), NEW p \in RegionPages(i)
    PROVE  PageBytes(p) \subseteq UsableBytes
<1> DEFINE e == boot.mmap[i]
           region == [start |-> e.addr, end |-> e.addr + e.len]
           first == Page(e.addr)
           count == Page(e.len)
<1>1. e.addr \in Nat /\ e.len \in Nat /\ e.addr % PMM_PAGE_SIZE = 0
    BY LayoutIs DEF Aligned
<1>2. Bytes(region) \subseteq UsableBytes
    BY DEF UsableBytes
<1>3. region.start = e.addr /\ region.end = e.addr + e.len
    OBVIOUS
<1>4. p \in first .. first + count - 1
    BY DEF RegionPages
<1> HIDE DEF e, region
<1>5. first \in Nat /\ first * PMM_PAGE_SIZE = e.addr
    BY <1>1, PmmAssumption DEF Page
<1>6. count \in Nat /\ count * PMM_PAGE_SIZE <= e.len /\ count * PMM_PAGE_SIZE \in Nat
    BY <1>1, PageIs, PagesInOrder
<1> HIDE DEF first, count
<1>7. p \in Nat /\ p + 1 \in Nat /\ first <= p /\ p + 1 <= first + count /\ first + count \in Nat
    BY <1>4, <1>5, <1>6
<1>8. /\ first * PMM_PAGE_SIZE <= p * PMM_PAGE_SIZE
      /\ (p + 1) * PMM_PAGE_SIZE <= (first + count) * PMM_PAGE_SIZE
      /\ p * PMM_PAGE_SIZE \in Nat /\ (p + 1) * PMM_PAGE_SIZE \in Nat
    BY <1>5, <1>7, PagesInOrder
<1>9. (first + count) * PMM_PAGE_SIZE = first * PMM_PAGE_SIZE + count * PMM_PAGE_SIZE
    BY <1>5, <1>6, PmmAssumption
<1>10. \A b \in PageBytes(p) : b \in Bytes(region)
    BY <1>1, <1>3, <1>5, <1>6, <1>8, <1>9 DEF PageBytes, Bytes
<1> QED BY <1>2, <1>10

\* A page handed out is usable RAM with nothing of the kernel, of the bitmap and
\* of address 0 on it, and its bit stays set while it is held: for every map as
\* above whose regions of usable RAM start on a page.
THEOREM PagesHandedOutSafely ==
    ASSUME \A l \in Layouts : Addressable(l) /\ Aligned(l)
    PROVE  PmmSafety => []HandedOutSafely
<1>1. PmmInv => HandedOutSafely
  <2> SUFFICES ASSUME PmmInv, NEW p \in held
               PROVE  /\ p \in bitmap
                      /\ PageBytes(p) \subseteq UsableBytes
                      /\ PageBytes(p) \cap
                            (Bytes(boot.kernel) \cup Bytes(BitmapSegment) \cup {0}) = {}
    BY DEF HandedOutSafely
  <2>1. /\ boot \in Layouts /\ Addressable(boot) /\ Aligned(boot)
        /\ at = "ready" /\ p \in bitmap /\ p \in Cleared /\ p \notin Reserved
        /\ pmm_max_page \in Nat /\ bitmap_base \in Nat /\ pmm_max_page = find_max_page(boot)
    BY DEF PmmInv, OnlyAllocatable, Allocatable
  <2>2. PICK i \in Usable(boot) : p \in RegionPages(i)
    BY <2>1 DEF Cleared
  <2>3. PageBytes(p) \subseteq UsableBytes
    BY <2>1, <2>2, InsideRegion
  <2>4. p \in Nat /\ p < pmm_max_page
    <3>1. boot.mmap[i].addr \in Nat
      BY <2>1, LayoutIs
    <3>2. Page(boot.mmap[i].addr) \in Nat
      BY <3>1, PageIs
    <3> QED BY <2>2, <3>2 DEF RegionPages
  <2>5. PageBytes(p) \cap Bytes(boot.kernel) = {}
    <3>1. boot.kernel.start \in Nat /\ boot.kernel.end \in Nat
      BY <2>1, LayoutIs
    <3> QED BY <2>1, <2>4, <3>1, NotReserved DEF Reserved
  <2>6. PageBytes(p) \cap Bytes(BitmapSegment) = {}
    <3>1. pmm_bitmap_bytes \in Nat
      BY <2>1 DEF pmm_bitmap_bytes
    <3>2. BitmapSegment.start \in Nat /\ BitmapSegment.end \in Nat
      BY <2>1, <3>1 DEF BitmapSegment
    <3> QED BY <2>1, <2>4, <3>2, NotReserved DEF Reserved
  <2>7. 0 \notin PageBytes(p)
    <3>1. p # 0
      BY <2>1, <2>4 DEF Reserved
    <3>2. 1 * PMM_PAGE_SIZE <= p * PMM_PAGE_SIZE /\ p * PMM_PAGE_SIZE \in Nat
      BY <2>4, <3>1, PagesInOrder
    <3> QED BY <3>2, PmmAssumption DEF PageBytes
  <2> QED BY <2>1, <2>3, <2>5, <2>6, <2>7
<1>2. \A l \in Layouts : Addressable(l)
    OBVIOUS
<1> QED BY <1>1, <1>2, PmmInvariant, PTL

-----------------------------------------------------------------------------
(* Sums *)

\* One turn of the fold that SumFunction is.
Addend(f, h, s) == LET x == CHOOSE x \in s : TRUE IN f[x] + h[s \ {x}]

Summing(f, h, S) == h = [s \in SUBSET S |-> IF s = {} THEN 0 ELSE Addend(f, h, s)]

LEMMA SumUnfolded ==
    ASSUME NEW S, NEW f \in [S -> Nat]
    PROVE  SumFunction(f) = (CHOOSE h : Summing(f, h, S))[S]
<1>1. DOMAIN f = S
    OBVIOUS
<1> QED BY <1>1 DEF SumFunction, SumFunctionOnSet, FoldFunctionOnSet, MapThenFoldSet,
                    Summing, Addend

\* What a sum is: any measure g of the sets of indices that grows by f[x] with each
\* index x. Two solutions of the fold's equation would differ on a least set.
LEMMA SumIs ==
    ASSUME NEW S, IsFiniteSet(S), NEW f \in [S -> Nat], NEW g \in [SUBSET S -> Nat],
           g[{}] = 0,
           \A s \in SUBSET S : \A x \in s : g[s] = f[x] + g[s \ {x}]
    PROVE  SumFunction(f) = g[S]
<1> DEFINE h == CHOOSE k : Summing(f, k, S)
<1>1. Summing(f, g, S)
  <2>1. ASSUME NEW s \in SUBSET S, s # {} PROVE g[s] = Addend(f, g, s)
    <3> DEFINE x == CHOOSE x \in s : TRUE
    <3>1. x \in s
      BY <2>1
    <3> HIDE DEF x
    <3>2. g[s] = f[x] + g[s \ {x}]
      BY <3>1
    <3> QED BY <3>2 DEF Addend, x
  <2> QED BY <2>1 DEF Summing
<1>2. Summing(f, h, S)
    BY <1>1
<1> HIDE DEF h
<1> DEFINE T == {n \in Nat : \E s \in SUBSET S : Cardinality(s) = n /\ h[s] # g[s]}
<1>3. ASSUME NEW s \in SUBSET S PROVE IsFiniteSet(s) /\ Cardinality(s) \in Nat
    BY FS_Subset, FS_CardinalityType
<1>4. T = {}
  <2> SUFFICES ASSUME T # {} PROVE FALSE
    OBVIOUS
  <2>1. T \in SUBSET Nat
    OBVIOUS
  <2>2. PICK n \in T : \A m \in T : n <= m
    <3> HIDE DEF T
    <3> QED BY <2>1, LeastOf
  <2>3. PICK s \in SUBSET S : Cardinality(s) = n /\ h[s] # g[s]
    BY <2>2
  <2>4. h[s] = IF s = {} THEN 0 ELSE Addend(f, h, s)
    BY <1>2 DEF Summing
  <2>5. s # {}
    BY <2>3, <2>4
  <2> DEFINE x == CHOOSE x \in s : TRUE
  <2>6. x \in s
    BY <2>5
  <2>7. h[s] = f[x] + h[s \ {x}]
    BY <2>4, <2>5 DEF Addend
  <2> HIDE DEF x
  <2>8. s \ {x} \in SUBSET S /\ Cardinality(s \ {x}) = n - 1
    BY <1>3, <2>3, <2>6, FS_RemoveElement
  <2>9. n - 1 \notin T /\ n - 1 \in Nat
    <3>1. n - 1 \in Nat /\ ~(n <= n - 1)
      BY <1>3, <2>2, <2>8
    <3> QED BY <2>2, <3>1
  <2>10. h[s \ {x}] = g[s \ {x}]
    BY <2>8, <2>9
  <2> QED BY <2>3, <2>6, <2>7, <2>10
<1>5. h[S] = g[S]
    BY <1>3, <1>4
<1> QED BY <1>5, SumUnfolded DEF h

-----------------------------------------------------------------------------
(* The count of free pages *)

\* Regions of usable RAM do not overlap.
Apart(l) ==
    \A i, j \in Usable(l) :
       i # j => \/ l.mmap[i].addr + l.mmap[i].len <= l.mmap[j].addr
                \/ l.mmap[j].addr + l.mmap[j].len <= l.mmap[i].addr

\* Rounding both the start and the length of a region down never reaches past its
\* end.
LEMMA PagesWithin ==
    ASSUME NEW a \in Nat, NEW n \in Nat, NEW b \in Nat, a + n <= b
    PROVE  Page(a) + Page(n) <= Page(b)
<1> DEFINE s == PMM_PAGE_SIZE
           p == Page(a)
           q == Page(n)
           r == Page(b)
<1>1. /\ p \in Nat /\ q \in Nat /\ r \in Nat
      /\ p * s <= a /\ q * s <= n /\ b < r * s + s
    BY PageIs
<1> HIDE DEF p, q, r
<1>2. (p + q) * s = p * s + q * s /\ p * s \in Nat /\ q * s \in Nat /\ r * s \in Nat
    BY <1>1, PmmAssumption
<1>3. r + 1 \in Nat /\ p + q \in Nat /\ (r + 1) * s = r * s + s
    BY <1>1, PagesInOrder
<1>4. (p + q) * s < (r + 1) * s
    BY <1>1, <1>2, <1>3, PmmAssumption
<1>5. p + q < r + 1
    BY <1>3, <1>4, PagesInOrder
<1> QED BY <1>1, <1>5 DEF p, q, r

\* The pages of two regions are different ones, also where a region starts or ends
\* inside a page.
LEMMA RegionsApart ==
    ASSUME boot \in Layouts, Apart(boot), pmm_max_page \in Nat,
           NEW i \in Usable(boot), NEW j \in Usable(boot), i # j
    PROVE  RegionPages(i) \cap RegionPages(j) = {}
<1> DEFINE Ends(k, m) == boot.mmap[k].addr + boot.mmap[k].len <= boot.mmap[m].addr
<1>1. ASSUME NEW k \in Usable(boot), NEW m \in Usable(boot), Ends(k, m)
      PROVE  RegionPages(k) \cap RegionPages(m) = {}
  <2> DEFINE a == boot.mmap[k].addr
             n == boot.mmap[k].len
             b == boot.mmap[m].addr
             z == boot.mmap[m].len
  <2>1. a \in Nat /\ n \in Nat /\ b \in Nat /\ z \in Nat /\ a + n <= b
    BY <1>1, PmmAssumption DEF Usable
  <2>2. /\ RegionPages(k) \subseteq Page(a) .. Page(a) + Page(n) - 1
        /\ RegionPages(m) \subseteq Page(b) .. Page(b) + Page(z) - 1
    BY DEF RegionPages
  <2> HIDE DEF a, b, n, z
  <2>3. Page(a) + Page(n) <= Page(b)
    BY <2>1, PagesWithin
  <2>4. Page(a) \in Nat /\ Page(n) \in Nat /\ Page(b) \in Nat /\ Page(z) \in Nat
    BY <2>1, PageIs
  <2> QED BY <2>2, <2>3, <2>4
<1>2. Ends(i, j) \/ Ends(j, i)
    BY DEF Apart
<1> QED BY <1>1, <1>2

\* Pages are finitely many.
LEMMA RegionFinite ==
    ASSUME boot \in Layouts, pmm_max_page \in Nat
    PROVE  /\ \A i \in Usable(boot) : RegionPages(i) \subseteq 0 .. pmm_max_page - 1
           /\ \A S \in SUBSET (0 .. pmm_max_page - 1) : IsFiniteSet(S) /\ Cardinality(S) \in Nat
           /\ IsFiniteSet(Usable(boot))
<1>1. \A i \in Usable(boot) : RegionPages(i) \subseteq 0 .. pmm_max_page - 1
  <2> SUFFICES ASSUME NEW i \in Usable(boot) PROVE RegionPages(i) \subseteq 0 .. pmm_max_page - 1
    OBVIOUS
  <2>1. boot.mmap[i].addr \in Nat /\ boot.mmap[i].len \in Nat
    BY PmmAssumption DEF Usable
  <2>2. Page(boot.mmap[i].addr) \in Nat /\ Page(boot.mmap[i].len) \in Nat
    BY <2>1, PageIs
  <2> QED BY <2>2 DEF RegionPages
<1>2. IsFiniteSet(0 .. pmm_max_page - 1)
    BY FS_Interval
<1>3. \A S \in SUBSET (0 .. pmm_max_page - 1) : IsFiniteSet(S) /\ Cardinality(S) \in Nat
    BY <1>2, FS_Subset, FS_CardinalityType
<1>4. IsFiniteSet(Usable(boot))
    BY PmmAssumption, FS_Subset DEF Usable
<1> QED BY <1>1, <1>3, <1>4

\* usable_pages adds up the regions, clear_usable_pages clears their bits: the sum
\* is the number of cleared bits.
LEMMA UsableCounted ==
    ASSUME boot \in Layouts, Apart(boot), pmm_max_page \in Nat
    PROVE  usable_pages = Cardinality(Cleared) /\ Cleared \subseteq 0 .. pmm_max_page - 1
<1> DEFINE U == Usable(boot)
           Of(s) == UNION {RegionPages(i) : i \in s}
           f == [i \in U |-> Cardinality(RegionPages(i))]
           g == [s \in SUBSET U |-> Cardinality(Of(s))]
<1>1. \A s \in SUBSET U : Of(s) \subseteq 0 .. pmm_max_page - 1
    BY RegionFinite
<1>2. f \in [U -> Nat] /\ g \in [SUBSET U -> Nat]
    BY <1>1, RegionFinite
<1>3. g[{}] = 0
    BY FS_EmptySet
<1>4. ASSUME NEW s \in SUBSET U, NEW x \in s PROVE g[s] = f[x] + g[s \ {x}]
  <2> DEFINE A == RegionPages(x)
             B == Of(s \ {x})
  <2>1. Of(s) = A \cup B
    OBVIOUS
  <2>2. A \cap B = {}
    BY RegionsApart
  <2>3. A \subseteq 0 .. pmm_max_page - 1 /\ B \subseteq 0 .. pmm_max_page - 1
    BY <1>1, RegionFinite
  <2>4. g[s] = Cardinality(Of(s)) /\ f[x] = Cardinality(A) /\ g[s \ {x}] = Cardinality(B)
    OBVIOUS
  <2> HIDE DEF A, B, f, g, Of
  <2>5. IsFiniteSet(A) /\ IsFiniteSet(B) /\ Cardinality(A) \in Nat /\ Cardinality(B) \in Nat
    BY <2>3, RegionFinite
  <2>6. Cardinality(A \cup B) = Cardinality(A) + Cardinality(B) - Cardinality({})
    BY <2>2, <2>5, FS_Union
  <2> QED BY <2>1, <2>4, <2>5, <2>6, FS_EmptySet
<1>5. usable_pages = SumFunction(f)
    BY DEF usable_pages, SumOver
<1>6. Cleared = Of(U) /\ g[U] = Cardinality(Of(U))
    BY DEF Cleared
<1> HIDE DEF f, g
<1>7. SumFunction(f) = g[U]
    BY <1>2, <1>3, <1>4, RegionFinite, SumIs
<1> QED BY <1>1, <1>5, <1>6, <1>7

ClearBits == (0 .. pmm_max_page - 1) \ bitmap

\* The counters are right, and page 0 is never among the free pages.
CountInv ==
    at = "ready" =>
       /\ bitmap \subseteq 0 .. pmm_max_page - 1
       /\ 0 \notin ClearBits
       /\ FreeCount

\* pmm_init counts what it leaves clear: a reserved page is subtracted once, and
\* only if it was usable.
LEMMA FillCounts ==
    ASSUME PmmInv, Apart(boot), FillBitmap
    PROVE  CountInv'
<1> SUFFICES ASSUME at' = "ready"
             PROVE  /\ bitmap' \subseteq 0 .. pmm_max_page' - 1
                    /\ 0 \notin ClearBits'
                    /\ FreeCount'
    BY DEF CountInv
<1> DEFINE N == 0 .. pmm_max_page - 1
<1>1. /\ bitmap' = (N \ Cleared) \cup Reserved
      /\ pmm_total_pages' = usable_pages
      /\ pmm_free_pages' = Greatest({0, usable_pages - CountReserved})
      /\ UNCHANGED <<boot, ptr, start, bitmap_base, pmm_max_page, held>>
    BY DEF FillBitmap
<1>2. boot \in Layouts /\ pmm_max_page \in Nat /\ bitmap_base \in Nat
    BY DEF PmmInv
<1>3. usable_pages = Cardinality(Cleared) /\ Cleared \subseteq N
    BY <1>2, UsableCounted
<1>4. Reserved \subseteq N /\ (pmm_max_page > 0 => 0 \in Reserved)
  <2>1. ASSUME NEW r, r.start \in Nat PROVE SegmentPages(r) \subseteq N
    <3>1. Page(r.start) \in Nat
      BY <2>1, PageIs
    <3> QED BY <1>2, <3>1 DEF SegmentPages
  <2>2. BitmapSegment.start \in Nat /\ boot.kernel.start \in Nat
    BY <1>2, PmmAssumption DEF BitmapSegment
  <2> QED BY <1>2, <2>1, <2>2 DEF Reserved
<1>5. N \ bitmap' = Cleared \ Reserved
    BY <1>1, <1>3, <1>4
<1>6. IsFiniteSet(Cleared) /\ Cardinality(Cleared) \in Nat
    BY <1>2, <1>3, RegionFinite
<1>7. /\ Cardinality(Cleared \ Reserved) = Cardinality(Cleared) - Cardinality(Cleared \cap Reserved)
      /\ Cardinality(Cleared \ Reserved) \in Nat
    BY <1>6, FS_Difference, FS_CardinalityType
<1>8. CountReserved = Cardinality(Cleared \cap Reserved)
  <2>1. Reserved \cap Cleared = Cleared \cap Reserved
    OBVIOUS
  <2> QED BY <2>1 DEF CountReserved
<1> DEFINE n == Cardinality(Cleared \ Reserved)
<1>9. n \in Nat /\ pmm_free_pages' = Greatest({0, n})
    BY <1>1, <1>3, <1>7, <1>8
<1> HIDE DEF n
<1>10. Greatest({0, n}) = n
  <2>1. {0, n} \in SUBSET (0 .. n)
    BY <1>9
  <2>2. Greatest({0, n}) \in 0 .. n /\ n <= Greatest({0, n})
    BY <1>9, <2>1, GreatestIn
  <2> QED BY <1>9, <2>2
<1>11. pmm_free_pages' = Cardinality(N \ bitmap')
    BY <1>5, <1>9, <1>10 DEF n
<1>12. Cleared' = Cleared
    BY <1>1 DEF Cleared, RegionPages, Usable
<1>13. FreeCount'
    BY <1>1, <1>3, <1>11, <1>12 DEF FreeCount
<1>14. bitmap' \subseteq N /\ 0 \notin N \ bitmap'
    BY <1>1, <1>2, <1>3, <1>4
<1> QED BY <1>1, <1>13, <1>14 DEF ClearBits

\* Allocation and release move the counter with the bits.
LEMMA RecordCounts ==
    ASSUME PmmInv, CountInv, at = "ready", NEW s, Record(s),
           s.bits \subseteq 0 .. pmm_max_page - 1, 0 \in s.bits \/ s.bits = bitmap,
           s.free = Cardinality((0 .. pmm_max_page - 1) \ s.bits)
    PROVE  CountInv'
<1>1. /\ bitmap' = s.bits /\ pmm_free_pages' = s.free
      /\ UNCHANGED <<boot, at, ptr, start, bitmap_base, pmm_max_page, pmm_total_pages>>
    BY DEF Record
<1>2. Cleared' = Cleared
    BY <1>1 DEF Cleared, RegionPages, Usable
<1>3. FreeCount'
    BY <1>1, <1>2 DEF FreeCount, CountInv
<1> QED BY <1>1, <1>3 DEF CountInv, ClearBits

\* A bit set, and a bit cleared.
LEMMA BitCounts ==
    ASSUME PmmInv, NEW b \in SUBSET (0 .. pmm_max_page - 1), NEW p \in 0 .. pmm_max_page - 1
    PROVE  LET C == Cardinality((0 .. pmm_max_page - 1) \ b)
           IN  /\ C \in Nat
               /\ p \notin b => C > 0 /\ Cardinality((0 .. pmm_max_page - 1) \ (b \cup {p})) = C - 1
               /\ p \in b => Cardinality((0 .. pmm_max_page - 1) \ (b \ {p})) = C + 1
<1> DEFINE N == 0 .. pmm_max_page - 1
           A == N \ b
<1>1. boot \in Layouts /\ pmm_max_page \in Nat
    BY DEF PmmInv
<1>2. IsFiniteSet(A) /\ Cardinality(A) \in Nat
    BY <1>1, RegionFinite
<1>3. N \ (b \cup {p}) = A \ {p} /\ (p \in b => N \ (b \ {p}) = A \cup {p})
    OBVIOUS
<1>4. p \notin b => p \in A
    OBVIOUS
<1>5. p \in b => p \notin A
    OBVIOUS
<1> HIDE DEF A
<1>6. p \notin b => Cardinality(A \ {p}) = Cardinality(A) - 1 /\ Cardinality(A) > 0
    BY <1>2, <1>4, FS_RemoveElement, FS_EmptySet
<1>7. p \in b => Cardinality(A \cup {p}) = Cardinality(A) + 1
    BY <1>2, <1>5, FS_AddElement
<1> QED BY <1>2, <1>3, <1>6, <1>7 DEF A

\* An allocation takes one page off the count, and one given straight back none.
LEMMA AllocCounts ==
    ASSUME PmmInv, Addressable(boot), CountInv, pmm_alloc_page
    PROVE  CountInv'
<1> DEFINE N == 0 .. pmm_max_page - 1
           C == Cardinality(N \ bitmap)
           page == Page(AddressOf(Taken))
           s == Allocated(Counted)
<1>1. at = "ready" /\ FreeBits # {} /\ (Record(s) \/ Record(Freed(s, page)))
    BY DEF pmm_alloc_page
<1>2. Taken \in FreeBits /\ page = Taken /\ pmm_max_page \in Nat
    BY <1>1, TakenIs DEF PmmInv
<1>3. Taken \in N /\ Taken # 0 /\ Taken \notin bitmap /\ 0 \in N
    BY <1>2 DEF FreeBits
<1>4. bitmap \subseteq N /\ 0 \in bitmap /\ pmm_free_pages = C
    BY <1>1, <1>3 DEF CountInv, ClearBits, FreeCount
<1>5. C \in Nat /\ C > 0 /\ Cardinality(N \ (bitmap \cup {Taken})) = C - 1
    BY <1>3, <1>4, BitCounts
<1>6. Greatest({0, C - 1}) = C - 1
  <2> DEFINE n == C - 1
  <2>1. n \in Nat
    BY <1>5
  <2> HIDE DEF n, C
  <2>2. {0, n} \in SUBSET (0 .. n)
    BY <2>1
  <2>3. Greatest({0, n}) \in 0 .. n /\ n <= Greatest({0, n})
    BY <2>1, <2>2, GreatestIn
  <2>4. Greatest({0, n}) = n
    BY <2>1, <2>3
  <2> QED BY <2>4 DEF n
<1>7. s.bits = bitmap \cup {Taken} /\ s.free = C - 1
    BY <1>4, <1>6 DEF Allocated, Counted
<1> HIDE DEF s, page
<1>8. CASE Record(s)
    BY <1>1, <1>3, <1>4, <1>5, <1>7, <1>8, RecordCounts
<1>9. CASE Record(Freed(s, page))
  <2>1. Freed(s, page) = [bits |-> s.bits \ {Taken}, free |-> s.free + 1]
    BY <1>2, <1>3, <1>7 DEF Freed
  <2>2. s.bits \ {Taken} = bitmap
    BY <1>3, <1>7
  <2>3. Freed(s, page).bits = bitmap /\ Freed(s, page).free = C
    BY <1>5, <1>7, <2>1, <2>2
  <2> QED BY <1>1, <1>4, <1>9, <2>3, RecordCounts
<1> QED BY <1>1, <1>8, <1>9

\* A release adds one, unless it is ignored.
LEMMA FreeCounts ==
    ASSUME PmmInv, CountInv, pmm_free_page
    PROVE  CountInv'
<1> DEFINE N == 0 .. pmm_max_page - 1
           C == Cardinality(N \ bitmap)
<1>1. PICK page \in held \cup {0} : at = "ready" /\ Record(Freed(Counted, page))
    BY DEF pmm_free_page
<1>2. bitmap \subseteq N /\ 0 \notin N \ bitmap /\ pmm_free_pages = C /\ pmm_max_page \in Nat
    BY <1>1 DEF CountInv, ClearBits, FreeCount, PmmInv
<1>3. CASE page # 0 /\ page < pmm_max_page /\ page \in bitmap
  <2>1. Freed(Counted, page).bits = bitmap \ {page} /\ Freed(Counted, page).free = pmm_free_pages + 1
    BY <1>3 DEF Freed, Counted
  <2>2. Cardinality(N \ (bitmap \ {page})) = C + 1
    BY <1>2, <1>3, BitCounts
  <2>3. 0 \in bitmap \ {page}
    BY <1>2, <1>3
  <2> QED BY <1>1, <1>2, <2>1, <2>2, <2>3, RecordCounts
<1>4. CASE ~(page # 0 /\ page < pmm_max_page /\ page \in bitmap)
  <2>1. Freed(Counted, page).bits = bitmap /\ Freed(Counted, page).free = pmm_free_pages
    BY <1>4 DEF Freed, Counted
  <2> QED BY <1>1, <1>2, <2>1, RecordCounts
<1> QED BY <1>3, <1>4

\* The counter of free pages never drifts from the bitmap, and the total is the
\* number of pages clear_usable_pages cleared: for every map whose RAM ends by the
\* end of the address space, leaves room there and does not overlap.
THEOREM FreePagesCounted ==
    ASSUME \A l \in Layouts : Addressable(l) /\ Apart(l)
    PROVE  PmmSafety => []FreeCount
<1>1. PmmInit => CountInv
    BY DEF PmmInit, CountInv
<1>2. PmmInv /\ CountInv /\ [PmmNext]_pmmVars => CountInv'
  <2> SUFFICES ASSUME PmmInv, CountInv, [PmmNext]_pmmVars PROVE CountInv'
    OBVIOUS
  <2>1. Addressable(boot) /\ Apart(boot)
    BY DEF PmmInv
  <2>2. CASE UNCHANGED pmmVars
    BY <2>2 DEF pmmVars, CountInv, ClearBits, FreeCount, Cleared, RegionPages, Usable
  <2>3. CASE check_mmap \/ NextEntry \/ NextCandidate \/ SegmentFound
    BY <2>3 DEF check_mmap, NextEntry, NextCandidate, SegmentFound, CountInv
  <2>4. CASE FillBitmap
    BY <2>1, <2>4, FillCounts
  <2>5. CASE pmm_alloc_page \/ pmm_free_page
    BY <2>1, <2>5, AllocCounts, FreeCounts
  <2> QED BY <2>2, <2>3, <2>4, <2>5 DEF PmmNext, PmmBoot
<1>3. CountInv => FreeCount
    BY DEF CountInv, FreeCount
<1>4. \A l \in Layouts : Addressable(l)
    OBVIOUS
<1>5. PmmSafety => []PmmInv
    BY <1>4, PmmInvariant
<1> QED BY <1>1, <1>2, <1>3, <1>5, PTL DEF PmmSafety
=============================================================================
