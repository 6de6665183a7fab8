----------------------------- MODULE VmmProofs ------------------------------
(***************************************************************************)
(* Page directories, tables and the TLB for every number of entries, size of *)
(* the direct map and of RAM, and any number of processes.                  *)
(*                                                                         *)
(* An operation of vmm.c is described by what it does to low: for every     *)
(* address space, what the table for the pages of a program should hold.    *)
(* Shape says that a machine holds that.                                    *)
(***************************************************************************)
EXTENDS Vmm, TLAPS, WellFoundedInduction

PageEntries == [frame : Nat, flags : SUBSET {P, W, U}]
PageTables == [Index -> PageEntries]

Machine ==
    [ram : [Frames -> PageTables], used : SUBSET Frames, tlb : [LowPages -> PageEntries]]

\* vmm_init gets frame 1 for the directory and the next ones for its tables.
KernelDirectory == 1
KernelTable(i) == 2 + i - KERNEL_PDE_INDEX
KernelTableFrames == {KernelTable(i) : i \in KernelIndex}
KernelEntry(i) == IF i \in KernelIndex THEN Entry(KernelTable(i), {P, W}) ELSE Zero
DirectMap(i) == [j \in Index |-> Entry((i - KERNEL_PDE_INDEX) * Entries + j, {P, W})]

\* The table of directory d for the pages of a program.
Has(x, d) == P \in x.ram[d][0].flags
Table(x, d) == x.ram[d][0].frame

\* Frames in use that the kernel can write to.
Reach(x) == {f \in x.used : f # NULL /\ f < DirectMapPages}

IsStructure(x, low, f) ==
    \/ f \in DOMAIN low
    \/ f \in KernelTableFrames
    \/ \E d \in DOMAIN low : Has(x, d) /\ f = Table(x, d)

\* Directory d maps the pages of map, and nothing else below the kernel half.
Maps(x, d, map) ==
    /\ \A i \in Index \ {0} : x.ram[d][i] = KernelEntry(i)
    /\ IF Has(x, d)
       THEN x.ram[Table(x, d)] = map /\ \A j \in Index : map[j].flags \subseteq x.ram[d][0].flags
       ELSE x.ram[d][0] = Zero /\ map = Cleared
    /\ \A j \in Index : P \in map[j].flags \/ map[j] = Zero

\* No frame is two of: a directory, a table of the kernel half, a table of one
\* directory.
Shape(x, low) ==
    /\ x \in Machine
    /\ low \in [DOMAIN low -> PageTables]
    /\ KernelDirectory \in DOMAIN low
    /\ \A f \in Frames : IsStructure(x, low, f) => f \in Reach(x)
    /\ DOMAIN low \subseteq Frames
    /\ \A i \in KernelIndex : KernelTable(i) \notin DOMAIN low /\ x.ram[KernelTable(i)] = DirectMap(i)
    /\ \A d \in DOMAIN low : Maps(x, d, low[d])
    /\ \A d \in DOMAIN low : Has(x, d) =>
          /\ Table(x, d) \in Frames \ (DOMAIN low \cup KernelTableFrames)
          /\ \A e \in DOMAIN low : Has(x, e) /\ Table(x, e) = Table(x, d) => e = d

\* The frames of programs are in use, no structures, and of one program.
Mapped(map) == {map[j].frame : j \in {i \in Index : P \in map[i].flags}}
Private(x, low) ==
    \A d \in DOMAIN low \ {KernelDirectory} :
       /\ \A f \in Mapped(low[d]) : f \in x.used /\ f # NULL /\ ~IsStructure(x, low, f)
       /\ \A e \in DOMAIN low \ {KernelDirectory, d} : Mapped(low[d]) \cap Mapped(low[e]) = {}

\* What map says about page v.
View(map, v) == IF PDE(v) = 0 THEN map[PTE(v)] ELSE ABSENT

Fresh(x, map) == \A v \in LowPages : x.tlb[v] \in {ABSENT, View(map, v)}

Rights(v) == IF v = STACK THEN {P, W, U} ELSE {P, U}

\* map is what the pages of a process record should give.
Lists(map, ps) ==
    /\ ps \in SUBSET ({CODE, STACK} \X Frames)
    /\ \A p \in ps : map[PTE(p[1])] = Entry(p[2], Rights(p[1]))
    /\ \A j \in Index : map[j] = Zero \/ \E p \in ps : p[1] = <<0, j>>

\* vmmtest's page is all that the kernel's own directory ever maps there.
KernelMap(map) == \A j \in Index : map[j] \in {Zero, IF j = 1 THEN Entry(0, {P, W}) ELSE Zero}

LowOf(x, D) == [d \in D |-> [j \in Index |-> Walk(x, d, <<0, j>>)]]

Sound(x, low) == Shape(x, low) /\ Private(x, low)

\* The spaces of the kernel and of the processes, with the record of each.
SpacesOK(x, low, c, ps, ph) ==
    /\ DOMAIN low = {KernelDirectory} \cup DOMAIN ps
    /\ KernelDirectory \notin DOMAIN ps
    /\ DOMAIN ph = DOMAIN ps
    /\ Sound(x, low) /\ KernelMap(low[KernelDirectory])
    /\ c \in DOMAIN low /\ Fresh(x, low[c])
    /\ \A d \in DOMAIN ps :
          /\ ph[d] # "running" => ps[d] = {}
          /\ Lists(low[d], ps[d])

VmmInv ==
    IF Booted
    THEN /\ kernel_page_directory = KernelDirectory
         /\ SpacesOK(m, LowOf(m, Live), cr3, pages, phase)
    ELSE VmmInit

-----------------------------------------------------------------------------
(* Frames and entries *)

\* The kernel half has entries, tables and frames of its own, and program pages
\* have an entry before it.
LEMMA Sizes ==
    /\ Entries \in Nat /\ NFrames \in Nat /\ DirectMapPages \in Nat
    /\ KERNEL_PDE_INDEX \in Nat /\ KERNEL_PDE_INDEX > 0
    /\ {0, 1, Entries - 1} \subseteq Index /\ Entries - 1 # 0
    /\ KernelIndex \subseteq Index /\ 0 \notin KernelIndex
    /\ \A i \in KernelIndex : /\ KernelTable(i) \in Frames \ {0, 1}
                              /\ KernelTable(i) < DirectMapPages
    /\ 0 \in Frames /\ 1 \in Frames /\ 1 < DirectMapPages
<1>1. /\ Entries \in Nat /\ NFrames \in Nat /\ KERNEL_PDE_INDEX \in Nat /\ DirectMapTables \in Nat
      /\ KERNEL_PDE_INDEX > 0 /\ DirectMapTables > 0
    BY VmmAssumption
<1>2. DirectMapPages \in Nat /\ 1 + DirectMapTables < DirectMapPages
    BY <1>1, VmmAssumption DEF DirectMapPages
<1> QED BY <1>1, <1>2, VmmAssumption DEF Index, KernelIndex, KernelTable, Frames

\* The tables of the kernel half, one per entry.
LEMMA KernelTablesApart ==
    /\ KernelTableFrames \subseteq Frames \ {0, 1}
    /\ \A i, j \in KernelIndex : KernelTable(i) = KernelTable(j) => i = j
<1>1. KernelTableFrames \subseteq Frames \ {0, 1}
    BY Sizes DEF KernelTableFrames
<1>2. \A i, j \in KernelIndex : KernelTable(i) = KernelTable(j) => i = j
    BY Sizes DEF KernelTable, KernelIndex
<1> QED BY <1>1, <1>2

\* Absent and cleared entries are not present.
LEMMA NotPresent ==
    /\ Zero.frame = 0 /\ Zero.flags = {} /\ P \notin Zero.flags
    /\ Zero \in PageEntries /\ Cleared \in PageTables /\ Garbage \in PageTables
    /\ \A j \in Index : Cleared[j] = Zero
BY DEF Zero, Entry, PageEntries, PageTables, Cleared, Garbage, P, W, U

\* A frame that pmm_alloc_page gives was free.
LEMMA AllocFree ==
    ASSUME NEW x \in Machine, pmm_alloc_page(x) # NULL
    PROVE  pmm_alloc_page(x) \in Frames \ x.used
<1> DEFINE S == Frames \ x.used
           R == {ss \in Nat \X Nat : ss[1] < ss[2]}
<1>1. S \in SUBSET Nat
    BY Sizes DEF Frames
<1>2. S # {}
    BY DEF pmm_alloc_page, First
<1>3. IsWellFoundedOn(R, Nat)
    BY NatLessThanWellFounded DEF OpToRel
<1>4. \E a \in S : \A b \in S : ~ (<<b, a>> \in R)
  <2> HIDE DEF R, S
  <2> QED BY <1>1, <1>2, <1>3, WFMin
<1>5. \E a \in S : \A b \in S : a <= b
  <2>1. PICK a \in S : \A b \in S : ~ (<<b, a>> \in R)
      BY <1>4
  <2>2. \A b \in S : ~ (b < a)
    <3> HIDE DEF S
    <3> QED BY <1>1, <2>1
  <2> HIDE DEF S
  <2> QED BY <1>1, <2>2
<1>6. First(S) \in S
  <2> HIDE DEF S
  <2> QED BY <1>2, <1>5 DEF First
<1> QED BY <1>6 DEF pmm_alloc_page

\* A walk finds what the shape says.
LEMMA WalkLow ==
    ASSUME NEW x, NEW low, Shape(x, low), NEW d \in DOMAIN low, NEW v \in LowPages
    PROVE  Walk(x, d, v) = View(low[d], v)
<1>1. /\ PDE(v) \in Index /\ PTE(v) \in Index /\ PDE(v) < KERNEL_PDE_INDEX
      /\ PDE(v) \notin KernelIndex
    BY Sizes DEF LowPages, PDE, PTE, KernelIndex, Index
<1>2. Maps(x, d, low[d]) /\ low[d] \in PageTables
    BY DEF Shape
<1>3. CASE PDE(v) # 0
  <2>1. x.ram[d][PDE(v)] = Zero
      BY <1>1, <1>2, <1>3 DEF Maps, KernelEntry
  <2> QED BY <1>3, <2>1, NotPresent DEF Walk, View
<1>4. CASE PDE(v) = 0 /\ ~Has(x, d)
  <2>1. low[d] = Cleared
      BY <1>2, <1>4 DEF Maps
  <2> QED BY <1>1, <1>4, <2>1, NotPresent DEF Walk, View, Has, ABSENT
<1>5. CASE PDE(v) = 0 /\ Has(x, d)
  <2> DEFINE e == low[d][PTE(v)]
  <2>1. /\ x.ram[x.ram[d][0].frame] = low[d] /\ e.flags \subseteq x.ram[d][0].flags
        /\ P \in e.flags \/ e = Zero
      BY <1>1, <1>2, <1>5 DEF Maps, Table
  <2>2. e \in PageEntries
      BY <1>1, <1>2 DEF PageTables
  <2>3. Entry(e.frame, e.flags) = e
      BY <2>2 DEF Entry, PageEntries
  <2>4. x.ram[d][0].flags \cap e.flags = e.flags
      BY <2>1
  <2> QED BY <1>5, <2>1, <2>3, <2>4, NotPresent DEF Walk, View, Has, ABSENT
<1> QED BY <1>3, <1>4, <1>5

\* So low can be read off the machine.
LEMMA LowIs ==
    ASSUME NEW x, NEW low, Shape(x, low)
    PROVE  LowOf(x, DOMAIN low) = low
<1>1. low \in [DOMAIN low -> PageTables]
    BY DEF Shape
<1>2. \A j \in Index : <<0, j>> \in LowPages /\ PDE(<<0, j>>) = 0 /\ PTE(<<0, j>>) = j
    BY Sizes DEF LowPages, PDE, PTE
<1>3. \A d \in DOMAIN low, j \in Index : Walk(x, d, <<0, j>>) = low[d][j]
  <2> SUFFICES ASSUME NEW d \in DOMAIN low, NEW j \in Index
               PROVE  Walk(x, d, <<0, j>>) = low[d][j]
      OBVIOUS
  <2>1. Walk(x, d, <<0, j>>) = View(low[d], <<0, j>>)
      BY <1>2, WalkLow
  <2> QED BY <1>2, <2>1 DEF View
<1>4. \A d \in DOMAIN low : [j \in Index |-> Walk(x, d, <<0, j>>)] = low[d]
    BY <1>1, <1>3 DEF PageTables
<1> QED BY <1>1, <1>4 DEF LowOf

\* In the kernel half it finds the direct map, the same for every directory.
LEMMA WalkKernel ==
    ASSUME NEW x, NEW low, Shape(x, low), NEW d \in DOMAIN low, NEW v \in KernelPages
    PROVE  /\ x.ram[d][PDE(v)] = KernelEntry(PDE(v))
           /\ Walk(x, d, v) =
                IF PDE(v) \in KernelIndex
                THEN Entry((PDE(v) - KERNEL_PDE_INDEX) * Entries + PTE(v), {P, W})
                ELSE ABSENT
<1>1. PDE(v) \in Index /\ PTE(v) \in Index /\ PDE(v) # 0
    BY Sizes DEF KernelPages, LowPages, PDE, PTE
<1>2. x.ram[d][PDE(v)] = KernelEntry(PDE(v))
    BY <1>1 DEF Shape, Maps
<1>3. CASE PDE(v) \notin KernelIndex
    BY <1>2, <1>3, NotPresent DEF KernelEntry, Walk
<1>4. CASE PDE(v) \in KernelIndex
  <2>1. x.ram[d][PDE(v)].frame = KernelTable(PDE(v)) /\ x.ram[d][PDE(v)].flags = {P, W}
      BY <1>2, <1>4 DEF KernelEntry, Entry
  <2>2. x.ram[KernelTable(PDE(v))][PTE(v)]
           = Entry((PDE(v) - KERNEL_PDE_INDEX) * Entries + PTE(v), {P, W})
      BY <1>1, <1>4 DEF Shape, DirectMap
  <2> DEFINE e == Entry((PDE(v) - KERNEL_PDE_INDEX) * Entries + PTE(v), {P, W})
  <2>3. e.flags = {P, W} /\ Entry(e.frame, {P, W} \cap e.flags) = e /\ P \in {P, W}
      BY DEF Entry
  <2> HIDE DEF e
  <2>4. Walk(x, d, v) = e
      BY <2>1, <2>2, <2>3 DEF Walk, e
  <2> QED BY <1>2, <1>4, <2>4 DEF e
<1> QED BY <1>2, <1>3, <1>4

-----------------------------------------------------------------------------
(* What keeps a shape *)

\* The parts of a shape that other proofs use.
LEMMA ShapeParts ==
    ASSUME NEW x, NEW low, Shape(x, low)
    PROVE  /\ x \in Machine /\ x.ram \in [Frames -> PageTables] /\ x.used \subseteq Frames
           /\ x.tlb \in [LowPages -> PageEntries]
           /\ KernelDirectory \in DOMAIN low /\ DOMAIN low \subseteq Frames
           /\ \A d \in DOMAIN low : /\ low[d] \in PageTables /\ x.ram[d] \in PageTables
                                    /\ x.ram[d][0] \in PageEntries /\ Maps(x, d, low[d])
           /\ \A f \in Frames : IsStructure(x, low, f) => f \in Reach(x)
<1>1. x \in Machine
    BY DEF Shape
<1>2. x.ram \in [Frames -> PageTables] /\ x.used \subseteq Frames /\ x.tlb \in [LowPages -> PageEntries]
    BY <1>1 DEF Machine
<1>3. DOMAIN low \subseteq Frames /\ KernelDirectory \in DOMAIN low
    BY DEF Shape
<1>4. \A d \in DOMAIN low : low[d] \in PageTables /\ Maps(x, d, low[d])
    BY DEF Shape
<1>5. \A d \in DOMAIN low : x.ram[d] \in PageTables /\ x.ram[d][0] \in PageEntries
    BY <1>2, <1>3, Sizes DEF PageTables
<1> QED BY <1>1, <1>2, <1>3, <1>4, <1>5 DEF Shape

\* A machine that agrees on the directories and tables has the same shape.
LEMMA SameShape ==
    ASSUME NEW x, NEW low, Shape(x, low), NEW y \in Machine,
           \A f \in Frames : IsStructure(x, low, f) => f \in y.used /\ y.ram[f] = x.ram[f]
    PROVE  /\ Shape(y, low)
           /\ \A f : IsStructure(y, low, f) <=> IsStructure(x, low, f)
<1>1. DOMAIN low \subseteq Frames /\ KernelTableFrames \subseteq Frames
    BY KernelTablesApart DEF Shape
<1>2. \A d \in DOMAIN low : y.ram[d] = x.ram[d]
    BY <1>1 DEF IsStructure
<1>3. \A d \in DOMAIN low : Has(y, d) = Has(x, d) /\ Table(y, d) = Table(x, d)
    BY <1>2 DEF Has, Table
<1>4. \A f : IsStructure(y, low, f) <=> IsStructure(x, low, f)
    BY <1>3 DEF IsStructure
<1>5. \A d \in DOMAIN low : Has(x, d) => y.ram[Table(x, d)] = x.ram[Table(x, d)]
    BY DEF Shape, IsStructure
<1>6. \A i \in KernelIndex : y.ram[KernelTable(i)] = x.ram[KernelTable(i)]
    BY <1>1 DEF IsStructure, KernelTableFrames
<1>7. \A d \in DOMAIN low : Maps(y, d, low[d])
    BY <1>2, <1>3, <1>5 DEF Maps, Shape
<1>8. \A f \in Frames : IsStructure(y, low, f) => f \in Reach(y)
    BY <1>4 DEF Shape, Reach
<1> QED BY <1>3, <1>4, <1>6, <1>7, <1>8 DEF Shape

\* Frames in use that are no structures stay both.
Keeps(x, low, y, low2) ==
    \A f \in x.used : ~IsStructure(x, low, f) => f \in y.used /\ ~IsStructure(y, low2, f)

\* A fresh frame is filled by anything.
LEMMA TakeFrame ==
    ASSUME NEW x, NEW low, Shape(x, low), NEW f \in Frames \ x.used, NEW t \in PageTables,
           NEW y, y = [SetUsed(x, f) EXCEPT !.ram[f] = t] \/ y = SetUsed(x, f)
    PROVE  /\ Shape(y, low) /\ Keeps(x, low, y, low)
           /\ y.tlb = x.tlb /\ f \in y.used /\ ~IsStructure(y, low, f)
<1>1. x \in Machine
    BY DEF Shape
<1>2. /\ y \in Machine /\ y.used = x.used \cup {f} /\ y.tlb = x.tlb
      /\ \A g \in Frames \ {f} : y.ram[g] = x.ram[g]
  <2>1. x.ram \in [Frames -> PageTables] /\ x.used \subseteq Frames /\ x.tlb \in [LowPages -> PageEntries]
      BY <1>1 DEF Machine
  <2>2. /\ SetUsed(x, f) = [ram |-> x.ram, used |-> x.used \cup {f}, tlb |-> x.tlb]
        /\ [SetUsed(x, f) EXCEPT !.ram[f] = t]
              = [ram |-> [x.ram EXCEPT ![f] = t], used |-> x.used \cup {f}, tlb |-> x.tlb]
    <3>1. SetUsed(x, f) = [ram |-> x.ram, used |-> x.used \cup {f}, tlb |-> x.tlb]
        BY <1>1, SMTT(60) DEF Machine, SetUsed
    <3> QED BY <3>1
  <2>3. PICK r : (r = x.ram \/ r = [x.ram EXCEPT ![f] = t])
                 /\ y = [ram |-> r, used |-> x.used \cup {f}, tlb |-> x.tlb]
      BY <2>2
  <2>4. r \in [Frames -> PageTables] /\ \A g \in Frames \ {f} : r[g] = x.ram[g]
      BY <2>1, <2>3
  <2> QED BY <2>1, <2>3, <2>4 DEF Machine
<1>3. ~IsStructure(x, low, f)
    BY DEF Shape, Reach
<1>4. \A g \in Frames : IsStructure(x, low, g) => g \in y.used /\ y.ram[g] = x.ram[g]
    BY <1>2, <1>3 DEF Shape, Reach
<1>5. Shape(y, low) /\ \A g : IsStructure(y, low, g) <=> IsStructure(x, low, g)
    BY <1>2, <1>4, SameShape
<1> QED BY <1>2, <1>3, <1>5 DEF Keeps

\* A release touches the frames it is given.
LEMMA ReleaseIs ==
    ASSUME NEW x \in Machine, NEW fs, NEW y, y = Release(x, fs)
    PROVE  /\ y \in Machine /\ y.used = x.used \ (fs \ {NULL}) /\ y.tlb = x.tlb
           /\ \A g \in Frames : g \notin fs \/ g = NULL => y.ram[g] = x.ram[g]
BY NotPresent DEF Machine, Release

\* Frames that are no structures are given back.
LEMMA ReleaseFrames ==
    ASSUME NEW x, NEW low, Shape(x, low), NEW fs, \A f \in fs : f = NULL \/ ~IsStructure(x, low, f)
    PROVE  LET y == Release(x, fs)
           IN  /\ Shape(y, low) /\ y.tlb = x.tlb /\ y.used = x.used \ (fs \ {NULL})
               /\ \A f : IsStructure(y, low, f) <=> IsStructure(x, low, f)
<1> DEFINE y == Release(x, fs)
<1>1. x \in Machine
    BY DEF Shape
<1>2. /\ y \in Machine /\ y.used = x.used \ (fs \ {NULL}) /\ y.tlb = x.tlb
      /\ \A g \in Frames : g \notin fs \/ g = NULL => y.ram[g] = x.ram[g]
    BY <1>1, ReleaseIs
<1>3. \A g \in Frames : IsStructure(x, low, g) => g \in y.used /\ y.ram[g] = x.ram[g]
    BY <1>2 DEF Shape, Reach
<1> HIDE DEF y
<1>4. Shape(y, low) /\ \A g : IsStructure(y, low, g) <=> IsStructure(x, low, g)
    BY <1>2, <1>3, SameShape
<1> QED BY <1>2, <1>4 DEF y

-----------------------------------------------------------------------------
(* Address spaces *)

\* low with one more space, or with one entry of a space set.
Extended(low, d) == [e \in DOMAIN low \cup {d} |-> IF e = d THEN Cleared ELSE low[e]]
Without(low, d) == [e \in DOMAIN low \ {d} |-> low[e]]
WithEntry(low, d, j, entry) == [low EXCEPT ![d] = [@ EXCEPT ![j] = entry]]

\* vmm_create_address_space fails or gives a fresh directory that maps nothing
\* but the kernel half.
LEMMA CreateSpace ==
    ASSUME NEW x, NEW low, Shape(x, low), kernel_page_directory = KernelDirectory,
           NEW r, r = vmm_create_address_space(x)
    PROVE  \/ r.ret = NULL /\ r.mem = x
           \/ /\ r.ret \in Frames \ x.used /\ r.ret \notin DOMAIN low
              /\ Shape(r.mem, Extended(low, r.ret))
              /\ Keeps(x, low, r.mem, Extended(low, r.ret))
              /\ r.mem.tlb = x.tlb
<1> DEFINE d == pmm_alloc_page(x)
<1>1. CASE d = NULL \/ vmm_phys_to_virt(d) = NULL
    BY <1>1 DEF vmm_create_address_space
<1>2. CASE d # NULL /\ vmm_phys_to_virt(d) # NULL
  <2>1. x \in Machine /\ x.ram \in [Frames -> PageTables] /\ KernelDirectory \in DOMAIN low
      BY DEF Shape, Machine
  <2>2. d \in Frames \ x.used /\ d < DirectMapPages
      BY <1>2, <2>1, AllocFree DEF vmm_phys_to_virt
  <2> DEFINE t == [i \in Index |-> IF i >= KERNEL_PDE_INDEX
                                   THEN x.ram[kernel_page_directory][i] ELSE Zero]
             y == [SetUsed(x, d) EXCEPT !.ram[d] = t]
             low2 == Extended(low, d)
  <2>3. r = [mem |-> y, ret |-> d]
      BY <1>2 DEF vmm_create_address_space
  <2>4. \A i \in Index : t[i] = KernelEntry(i)
    <3>1. \A i \in Index \ {0} : x.ram[KernelDirectory][i] = KernelEntry(i)
        BY <2>1 DEF Shape, Maps
    <3> QED BY <3>1, Sizes DEF KernelEntry, KernelIndex, Index
  <2>5. t \in PageTables
    <3>1. \A i \in Index : KernelEntry(i) \in PageEntries
        BY Sizes, NotPresent DEF KernelEntry, Entry, PageEntries, Frames
    <3> QED BY <2>4, <3>1 DEF PageTables
  <2> HIDE DEF d, t
  <2>6. SetUsed(x, d) = [ram |-> x.ram, used |-> x.used \cup {d}, tlb |-> x.tlb]
      BY <2>1 DEF Machine, SetUsed
  <2>7. y = [ram |-> [x.ram EXCEPT ![d] = t], used |-> x.used \cup {d}, tlb |-> x.tlb]
      BY <2>6
  <2> HIDE DEF y
  <2>8. /\ y \in Machine /\ y.used = x.used \cup {d} /\ y.tlb = x.tlb /\ y.ram[d] = t
        /\ \A f \in Frames \ {d} : y.ram[f] = x.ram[f]
      BY <2>1, <2>2, <2>5, <2>7 DEF Machine
  <2>9. Shape(y, low) /\ Keeps(x, low, y, low) /\ ~IsStructure(y, low, d)
      BY <2>2, <2>5, TakeFrame DEF y
  <2>10. /\ DOMAIN low2 = DOMAIN low \cup {d} /\ low2[d] = Cleared
         /\ \A e \in DOMAIN low : low2[e] = low[e]
         /\ d \notin DOMAIN low /\ d \notin KernelTableFrames /\ d # 0
      BY <1>2, <2>9 DEF Extended, IsStructure, NULL, d
  <2> HIDE DEF low2
  <2>11. ~Has(y, d) /\ Maps(y, d, Cleared)
    <3>1. y.ram[d][0] = Zero
        BY <2>4, <2>8, Sizes DEF KernelEntry
    <3> QED BY <2>4, <2>8, <3>1, NotPresent DEF Has, Maps
  <2>12. \A f : IsStructure(y, low2, f) <=> IsStructure(y, low, f) \/ f = d
      BY <2>10, <2>11 DEF IsStructure
  <2>13. Shape(y, low2)
    <3>1. low2 \in [DOMAIN low2 -> PageTables] /\ KernelDirectory \in DOMAIN low2
          /\ DOMAIN low2 \subseteq Frames
        BY <2>1, <2>2, <2>9, <2>10, NotPresent DEF Shape, Extended, low2
    <3>2. \A f \in Frames : IsStructure(y, low2, f) => f \in Reach(y)
        BY <2>2, <2>8, <2>9, <2>10, <2>12 DEF Shape, Reach, NULL
    <3>3. \A e \in DOMAIN low2 : Maps(y, e, low2[e])
        BY <2>9, <2>10, <2>11 DEF Shape
    <3>4. \A i \in KernelIndex :
             KernelTable(i) \notin DOMAIN low2 /\ y.ram[KernelTable(i)] = DirectMap(i)
        BY <2>9, <2>10 DEF Shape, KernelTableFrames
    <3>5. \A e \in DOMAIN low2 : Has(y, e) =>
             /\ Table(y, e) \in Frames \ (DOMAIN low2 \cup KernelTableFrames)
             /\ \A g \in DOMAIN low2 : Has(y, g) /\ Table(y, g) = Table(y, e) => g = e
        BY <2>9, <2>10, <2>11 DEF Shape, IsStructure
    <3> QED BY <2>8, <3>1, <3>2, <3>3, <3>4, <3>5 DEF Shape
  <2>14. Keeps(x, low, y, low2)
      BY <2>2, <2>9, <2>12 DEF Keeps
  <2> QED BY <2>2, <2>3, <2>8, <2>10, <2>13, <2>14 DEF low2
<1> QED BY <1>1, <1>2

\* A directory and its table are frames of their own.
LEMMA TableApart ==
    ASSUME NEW x, NEW low, Shape(x, low), NEW d \in DOMAIN low, Has(x, d)
    PROVE  /\ Table(x, d) \in Frames /\ Table(x, d) \notin DOMAIN low
           /\ Table(x, d) \notin KernelTableFrames
           /\ Table(x, d) # NULL /\ vmm_phys_to_virt(Table(x, d)) = Table(x, d)
           /\ x.ram[Table(x, d)] = low[d]
<1>1. /\ Table(x, d) \in Frames /\ Table(x, d) \notin DOMAIN low
      /\ Table(x, d) \notin KernelTableFrames /\ Maps(x, d, low[d])
    BY DEF Shape
<1>2. Table(x, d) \in Reach(x)
    BY <1>1 DEF Shape, IsStructure
<1> QED BY <1>1, <1>2 DEF Reach, vmm_phys_to_virt, Maps

\* vmm_map_page_in's new table is a fresh frame, cleared before it is entered in the
\* directory.
LEMMA NewTableIs ==
    ASSUME NEW x, NEW low, Shape(x, low), NEW d \in DOMAIN low, ~Has(x, d),
           NEW r, r = NewTable(x, d, 0)
    PROVE  \/ r.ret = NULL /\ r.mem = x
           \/ /\ Shape(r.mem, low) /\ Keeps(x, low, r.mem, low)
              /\ r.mem.tlb = x.tlb
              /\ Has(r.mem, d) /\ r.ret = Table(r.mem, d)
<1> DEFINE t == pmm_alloc_page(x)
<1>1. CASE t = NULL \/ vmm_phys_to_virt(t) = NULL
    BY <1>1 DEF NewTable
<1>2. CASE t # NULL /\ vmm_phys_to_virt(t) # NULL
  <2>1. x \in Machine /\ x.ram \in [Frames -> PageTables] /\ DOMAIN low \subseteq Frames
      BY DEF Shape, Machine
  <2>2. t \in Frames \ x.used /\ t < DirectMapPages
      BY <1>2, <2>1, AllocFree DEF vmm_phys_to_virt
  <2>3. t # d /\ t \notin DOMAIN low /\ t \notin KernelTableFrames /\ d \in Frames
      BY <2>1, <2>2 DEF Shape, IsStructure, Reach
  <2> DEFINE y == [SetUsed(x, t) EXCEPT !.ram[t] = Cleared, !.ram[d][0] = Entry(t, {P})]
  <2>4. r = [mem |-> y, ret |-> t]
      BY <1>2 DEF NewTable
  <2> HIDE DEF t
  <2>5. SetUsed(x, t) = [ram |-> x.ram, used |-> x.used \cup {t}, tlb |-> x.tlb]
      BY <2>1 DEF Machine, SetUsed
  <2> DEFINE dir == [x.ram[d] EXCEPT ![0] = Entry(t, {P})]
  <2>6. y = [ram |-> [[x.ram EXCEPT ![t] = Cleared] EXCEPT ![d] = dir],
             used |-> x.used \cup {t}, tlb |-> x.tlb]
    <3>1. y = [ram |-> [[x.ram EXCEPT ![t] = Cleared] EXCEPT ![d][0] = Entry(t, {P})],
               used |-> x.used \cup {t}, tlb |-> x.tlb]
      <4>1. y = [[SetUsed(x, t) EXCEPT !.ram[t] = Cleared] EXCEPT !.ram[d][0] = Entry(t, {P})]
          BY <2>5
      <4>2. [SetUsed(x, t) EXCEPT !.ram[t] = Cleared]
              = [ram |-> [x.ram EXCEPT ![t] = Cleared], used |-> x.used \cup {t}, tlb |-> x.tlb]
          BY <2>5
      <4> HIDE DEF y
      <4> QED BY <4>1, <4>2
    <3>2. [x.ram EXCEPT ![t] = Cleared][d] = x.ram[d]
        BY <2>1, <2>2, <2>3
    <3> QED BY <3>1, <3>2
  <2> HIDE DEF y
  <2>7. dir \in PageTables /\ dir[0] = Entry(t, {P}) /\ \A i \in Index \ {0} : dir[i] = x.ram[d][i]
    <3>1. Entry(t, {P}) \in PageEntries
        BY <2>2, Sizes DEF Entry, PageEntries, Frames
    <3>2. x.ram[d] \in PageTables
        BY <2>1, <2>3
    <3> QED BY <3>1, <3>2, Sizes DEF PageTables
  <2> HIDE DEF dir
  <2>8. /\ y \in Machine /\ y.used = x.used \cup {t} /\ y.tlb = x.tlb
        /\ y.ram[d] = dir /\ y.ram[t] = Cleared
        /\ \A f \in Frames \ {d, t} : y.ram[f] = x.ram[f]
      BY <2>1, <2>2, <2>3, <2>6, <2>7, NotPresent DEF Machine
  <2>9. Has(y, d) /\ Table(y, d) = t
      BY <2>7, <2>8 DEF Has, Table, Entry
  <2>10. \A e \in DOMAIN low \ {d} : Has(y, e) = Has(x, e) /\ Table(y, e) = Table(x, e)
      BY <2>1, <2>3, <2>8 DEF Has, Table
  <2>11. \A e \in DOMAIN low \ {d} : Has(x, e) =>
            Table(x, e) # t /\ y.ram[Table(x, e)] = x.ram[Table(x, e)]
    <3> SUFFICES ASSUME NEW e \in DOMAIN low \ {d}, Has(x, e)
                 PROVE  Table(x, e) # t /\ y.ram[Table(x, e)] = x.ram[Table(x, e)]
        OBVIOUS
    <3>1. Table(x, e) \in Frames /\ Table(x, e) \notin DOMAIN low
        BY TableApart
    <3>2. Table(x, e) \in Reach(x)
        BY <3>1 DEF Shape, IsStructure
    <3> QED BY <2>2, <2>8, <3>1, <3>2 DEF Reach
  <2>12. \A f : IsStructure(y, low, f) <=> IsStructure(x, low, f) \/ f = t
      BY <2>9, <2>10 DEF IsStructure
  <2>13. Maps(x, d, low[d]) /\ low[d] = Cleared
      BY DEF Shape, Maps
  <2>14. Maps(y, d, low[d])
    <3>1. \A j \in Index : low[d][j] = Zero
        BY <2>13, NotPresent
    <3>2. \A i \in Index \ {0} : y.ram[d][i] = KernelEntry(i)
        BY <2>7, <2>8, <2>13 DEF Maps
    <3> QED BY <2>8, <2>9, <2>13, <3>1, <3>2, NotPresent DEF Maps
  <2>15. \A e \in DOMAIN low \ {d} : Maps(y, e, low[e])
    <3> SUFFICES ASSUME NEW e \in DOMAIN low \ {d} PROVE Maps(y, e, low[e])
        OBVIOUS
    <3>1. y.ram[e] = x.ram[e]
        BY <2>1, <2>3, <2>8
    <3> QED BY <2>10, <2>11, <3>1 DEF Maps, Shape
  <2>16. Shape(y, low)
    <3>1. \A f \in Frames : IsStructure(y, low, f) => f \in Reach(y)
        BY <1>2, <2>2, <2>8, <2>12 DEF Shape, Reach, t
    <3>2. \A i \in KernelIndex : y.ram[KernelTable(i)] = DirectMap(i)
        BY <2>3, <2>8, Sizes DEF Shape, KernelTableFrames
    <3>3. \A e \in DOMAIN low : Has(y, e) =>
             /\ Table(y, e) \in Frames \ (DOMAIN low \cup KernelTableFrames)
             /\ \A g \in DOMAIN low : Has(y, g) /\ Table(y, g) = Table(y, e) => g = e
        BY <2>2, <2>3, <2>9, <2>10, <2>11 DEF Shape
    <3> QED BY <2>8, <2>14, <2>15, <3>1, <3>2, <3>3 DEF Shape
  <2>17. Keeps(x, low, y, low)
      BY <2>2, <2>8, <2>12 DEF Keeps
  <2> QED BY <2>4, <2>8, <2>9, <2>16, <2>17
<1> QED BY <1>1, <1>2

\* One entry of a table is set, and its directory entry gains rights.
LEMMA SetEntry ==
    ASSUME NEW x, NEW low, Shape(x, low), NEW d \in DOMAIN low, Has(x, d), NEW j \in Index,
           NEW e \in PageEntries, P \in e.flags \/ e = Zero,
           NEW y \in Machine, y.used = x.used,
           Table(y, d) = Table(x, d),
           x.ram[d][0].flags \cup e.flags \subseteq y.ram[d][0].flags,
           \A i \in Index \ {0} : y.ram[d][i] = x.ram[d][i],
           y.ram[Table(x, d)] = [x.ram[Table(x, d)] EXCEPT ![j] = e],
           \A f \in Frames \ {d, Table(x, d)} : y.ram[f] = x.ram[f]
    PROVE  /\ Shape(y, WithEntry(low, d, j, e))
           /\ \A f : IsStructure(y, WithEntry(low, d, j, e), f) <=> IsStructure(x, low, f)
<1> DEFINE low2 == WithEntry(low, d, j, e)
           t == Table(x, d)
<1>1. /\ t \in Frames /\ t \notin DOMAIN low /\ t \notin KernelTableFrames
      /\ x.ram[t] = low[d]
    BY TableApart
<1>2. low \in [DOMAIN low -> PageTables] /\ DOMAIN low \subseteq Frames
    BY DEF Shape
<1>3. /\ DOMAIN low2 = DOMAIN low /\ low2[d] = [low[d] EXCEPT ![j] = e]
      /\ \A g \in DOMAIN low \ {d} : low2[g] = low[g]
    BY <1>2 DEF WithEntry
<1>4. low2[d] \in PageTables /\ low2[d][j] = e /\ \A i \in Index \ {j} : low2[d][i] = low[d][i]
    BY <1>2, <1>3 DEF PageTables
<1>5. low2 \in [DOMAIN low2 -> PageTables]
    BY <1>2, <1>3, <1>4 DEF WithEntry
<1> HIDE DEF low2
<1>6. Has(y, d) /\ Table(y, d) = t
    BY DEF Has
<1>7. \A g \in DOMAIN low \ {d} : /\ y.ram[g] = x.ram[g]
                                  /\ Has(y, g) = Has(x, g) /\ Table(y, g) = Table(x, g)
    BY <1>1, <1>2 DEF Has, Table
<1>8. \A f : IsStructure(y, low2, f) <=> IsStructure(x, low, f)
    BY <1>3, <1>6, <1>7 DEF IsStructure
<1>9. \A g \in DOMAIN low \ {d} : Has(x, g) => y.ram[Table(x, g)] = x.ram[Table(x, g)]
  <2> SUFFICES ASSUME NEW g \in DOMAIN low \ {d}, Has(x, g)
               PROVE  y.ram[Table(x, g)] = x.ram[Table(x, g)]
      OBVIOUS
  <2>1. Table(x, g) \in Frames /\ Table(x, g) \notin DOMAIN low
      BY TableApart
  <2>2. Table(x, g) # t
      BY DEF Shape
  <2> QED BY <2>1, <2>2
<1>10. Maps(y, d, low2[d])
  <2>1. \A i \in Index \ {0} : y.ram[d][i] = KernelEntry(i)
      BY DEF Shape, Maps
  <2>2. y.ram[Table(y, d)] = low2[d]
      BY <1>1, <1>3
  <2>3. \A i \in Index : /\ low[d][i].flags \subseteq x.ram[d][0].flags
                         /\ P \in low[d][i].flags \/ low[d][i] = Zero
      BY DEF Shape, Maps
  <2>4. \A i \in Index : /\ low2[d][i].flags \subseteq y.ram[d][0].flags
                         /\ P \in low2[d][i].flags \/ low2[d][i] = Zero
    <3> SUFFICES ASSUME NEW i \in Index
                 PROVE  /\ low2[d][i].flags \subseteq y.ram[d][0].flags
                        /\ P \in low2[d][i].flags \/ low2[d][i] = Zero
        OBVIOUS
    <3>1. CASE i = j
        BY <1>4, <3>1
    <3>2. CASE i # j
        BY <1>4, <2>3, <3>2
    <3> QED BY <3>1, <3>2
  <2> QED BY <1>6, <2>1, <2>2, <2>4 DEF Maps
<1>11. \A g \in DOMAIN low \ {d} : Maps(y, g, low2[g])
  <2> SUFFICES ASSUME NEW g \in DOMAIN low \ {d} PROVE Maps(y, g, low2[g])
      OBVIOUS
  <2>1. Maps(x, g, low[g]) /\ low2[g] = low[g]
      BY <1>3 DEF Shape
  <2> QED BY <1>7, <1>9, <2>1 DEF Maps
<1>12. \A i \in KernelIndex : KernelTable(i) \notin DOMAIN low2 /\ y.ram[KernelTable(i)] = DirectMap(i)
    BY <1>1, <1>3, Sizes DEF Shape, KernelTableFrames
<1>13. \A g \in DOMAIN low2 : Has(y, g) =>
          /\ Table(y, g) \in Frames \ (DOMAIN low2 \cup KernelTableFrames)
          /\ \A k \in DOMAIN low2 : Has(y, k) /\ Table(y, k) = Table(y, g) => k = g
    BY <1>3, <1>6, <1>7 DEF Shape
<1>14. \A f \in Frames : IsStructure(y, low2, f) => f \in Reach(y)
    BY <1>8 DEF Shape, Reach
<1> QED BY <1>2, <1>3, <1>5, <1>8, <1>10, <1>11, <1>12, <1>13, <1>14 DEF Shape, low2

\* vmm_map_page_in refuses a page that is mapped, fails for want of a table, or sets
\* the one entry and drops the page from the TLB.
LEMMA MapPage ==
    ASSUME NEW x, NEW low, Shape(x, low), NEW d \in DOMAIN low,
           NEW v \in LowPages, PDE(v) = 0,
           NEW f \in Nat, NEW flags \in SUBSET {P, W, U}, P \in flags,
           NEW r, r = vmm_map_page_in(x, d, v, f, flags)
    PROVE  IF P \in low[d][PTE(v)].flags THEN r = [mem |-> x, ret |-> -1]
           ELSE \/ /\ r.ret = -1 /\ Shape(r.mem, low)
                   /\ Keeps(x, low, r.mem, low) /\ r.mem.tlb = x.tlb
                \/ LET low2 == WithEntry(low, d, PTE(v), Entry(f, flags))
                   IN  /\ r.ret = 0 /\ Shape(r.mem, low2)
                       /\ Keeps(x, low, r.mem, low2)
                       /\ r.mem.tlb = [x.tlb EXCEPT ![v] = ABSENT]
<1> DEFINE j == PTE(v)
           t == IF P \in x.ram[d][PDE(v)].flags
                THEN [mem |-> x, ret |-> vmm_phys_to_virt(x.ram[d][PDE(v)].frame)]
                ELSE NewTable(x, d, PDE(v))
<1>1. j \in Index /\ d # NULL /\ ~(d # kernel_page_directory /\ PDE(v) >= KERNEL_PDE_INDEX)
  <2>1. d \in Frames /\ IsStructure(x, low, d)
      BY DEF Shape, IsStructure
  <2>2. d \in Reach(x)
      BY <2>1 DEF Shape
  <2>3. d # NULL
      BY <2>2, Zenon DEF Reach
  <2> QED BY <2>3, Sizes DEF LowPages, PTE
<1> DEFINE z == t.mem
           y == paging_tlb_invalidate(
                   [z EXCEPT !.ram[d][PDE(v)].flags = @ \cup (flags \cap {W, U}),
                             !.ram[t.ret][PTE(v)] = Entry(f, flags)], v)
<1>2. r = IF t.ret = NULL \/ P \in z.ram[t.ret][j].flags
          THEN [mem |-> z, ret |-> -1]
          ELSE [mem |-> y, ret |-> 0]
    BY <1>1 DEF vmm_map_page_in
<1>3. \/ t.ret = NULL /\ z = x /\ ~Has(x, d)
      \/ /\ Shape(z, low) /\ Keeps(x, low, z, low) /\ z.tlb = x.tlb
         /\ Has(z, d) /\ t.ret = Table(z, d) /\ (Has(x, d) => z = x)
  <2>1. CASE Has(x, d)
    <3>1. vmm_phys_to_virt(Table(x, d)) = Table(x, d)
        BY <2>1, TableApart
    <3>2. t = [mem |-> x, ret |-> Table(x, d)]
        BY <2>1, <3>1 DEF Has, Table
    <3> QED BY <2>1, <3>2 DEF Keeps
  <2>2. CASE ~Has(x, d)
    <3>1. t = NewTable(x, d, 0)
        BY <2>2 DEF Has
    <3> HIDE DEF t
    <3> QED BY <2>2, <3>1, NewTableIs
  <2> QED BY <2>1, <2>2
<1> HIDE DEF t
<1>4. ~Has(x, d) => P \notin low[d][j].flags
    BY <1>1, NotPresent DEF Shape, Maps
<1>5. CASE t.ret = NULL /\ z = x /\ ~Has(x, d)
    BY <1>2, <1>4, <1>5 DEF Keeps
<1>6. CASE /\ Shape(z, low) /\ Keeps(x, low, z, low) /\ z.tlb = x.tlb
           /\ Has(z, d) /\ t.ret = Table(z, d) /\ (Has(x, d) => z = x)
  <2>1. t.ret # NULL /\ t.ret \in Frames /\ t.ret \notin DOMAIN low /\ z.ram[t.ret] = low[d]
      BY <1>6, TableApart
  <2>2. CASE P \in low[d][j].flags
      BY <1>2, <1>4, <1>6, <2>1, <2>2
  <2>3. CASE P \notin low[d][j].flags
    <3>1. r = [mem |-> y, ret |-> 0]
        BY <1>2, <2>1, <2>3
    <3>2. z \in Machine /\ z.ram \in [Frames -> PageTables] /\ z.used \subseteq Frames
          /\ z.tlb \in [LowPages -> PageEntries] /\ z.ram[d] \in PageTables
          /\ z.ram[d][0] \in PageEntries /\ z.ram[t.ret] \in PageTables /\ d \in Frames
        BY <1>6, <2>1, ShapeParts
    <3> DEFINE e == Entry(f, flags)
               fl == z.ram[d][0].flags \cup (flags \cap {W, U})
               dir == [z.ram[d] EXCEPT ![0] = [z.ram[d][0] EXCEPT !.flags = fl]]
               tab == [z.ram[t.ret] EXCEPT ![j] = e]
    <3>3. e \in PageEntries /\ e.flags = flags /\ ABSENT \in PageEntries
        BY NotPresent DEF Entry, PageEntries, ABSENT
    <3>4. dir \in PageTables /\ dir[0].frame = z.ram[d][0].frame /\ dir[0].flags = fl
          /\ \A i \in Index \ {0} : dir[i] = z.ram[d][i]
      <4>1. [z.ram[d][0] EXCEPT !.flags = fl] = [frame |-> z.ram[d][0].frame, flags |-> fl]
        <5>1. \A F : \A q \in PageEntries : [q EXCEPT !.flags = F] = [frame |-> q.frame, flags |-> F]
            BY DEF PageEntries
        <5> HIDE DEF fl, z
        <5> QED BY <3>2, <5>1
      <4>2. [frame |-> z.ram[d][0].frame, flags |-> fl] \in PageEntries
          BY <3>2 DEF PageEntries
      <4> HIDE DEF fl
      <4> QED BY <3>2, <4>1, <4>2, Sizes DEF PageTables
    <3>5. tab \in PageTables
        BY <1>1, <3>2, <3>3 DEF PageTables
    <3>6. y = [ram |-> [[z.ram EXCEPT ![d] = dir] EXCEPT ![t.ret] = tab], used |-> z.used,
               tlb |-> [z.tlb EXCEPT ![v] = ABSENT]]
      <4>1. z = [ram |-> z.ram, used |-> z.used, tlb |-> z.tlb]
          BY <3>2 DEF Machine
      <4> DEFINE a == [z EXCEPT !.ram[d][0].flags = @ \cup (flags \cap {W, U})]
                 b == [a EXCEPT !.ram[t.ret][j] = e]
      <4>2. y = paging_tlb_invalidate(
                   [z EXCEPT !.ram[d][0].flags = @ \cup (flags \cap {W, U}), !.ram[t.ret][j] = e], v)
          OBVIOUS
      <4> HIDE DEF y, z, e, j
      <4>3. [z EXCEPT !.ram[d][0].flags = @ \cup (flags \cap {W, U}), !.ram[t.ret][j] = e] = b
          BY <4>1
      <4>4. a = [ram |-> [z.ram EXCEPT ![d] = dir], used |-> z.used, tlb |-> z.tlb]
          BY <4>1
      <4>5. [z.ram EXCEPT ![d] = dir][t.ret] = z.ram[t.ret]
          BY <2>1, <3>2
      <4> HIDE DEF a, dir
      <4>6. b = [ram |-> [[z.ram EXCEPT ![d] = dir] EXCEPT ![t.ret] = tab],
                 used |-> z.used, tlb |-> z.tlb]
          BY <4>4, <4>5
      <4> HIDE DEF b, tab
      <4>7. y = [b EXCEPT !.tlb[v] = ABSENT]
          BY <4>2, <4>3 DEF paging_tlb_invalidate
      <4> DEFINE q == [[z.ram EXCEPT ![d] = dir] EXCEPT ![t.ret] = tab]
      <4>8. b = [ram |-> q, used |-> z.used, tlb |-> z.tlb]
          BY <4>6
      <4> HIDE DEF q
      <4>9. y = [ram |-> q, used |-> z.used, tlb |-> [z.tlb EXCEPT ![v] = ABSENT]]
          BY <4>7, <4>8
      <4> QED BY <4>9 DEF q
    <3> HIDE DEF y, z, dir, tab, e
    <3>7. /\ y \in Machine /\ y.used = z.used /\ y.tlb = [z.tlb EXCEPT ![v] = ABSENT]
          /\ y.ram[d] = dir /\ y.ram[t.ret] = tab
          /\ \A g \in Frames \ {d, t.ret} : y.ram[g] = z.ram[g]
        BY <2>1, <3>2, <3>3, <3>4, <3>5, <3>6 DEF Machine
    <3>8. Table(y, d) = Table(z, d) /\ z.ram[d][0].flags \cup e.flags \subseteq y.ram[d][0].flags
        BY <1>6, <3>3, <3>4, <3>7 DEF Table, Has
    <3>9. /\ Shape(y, WithEntry(low, d, j, e))
          /\ \A g : IsStructure(y, WithEntry(low, d, j, e), g) <=> IsStructure(z, low, g)
        BY <1>1, <1>6, <3>3, <3>4, <3>7, <3>8, SetEntry DEF tab
    <3>10. Keeps(x, low, y, WithEntry(low, d, j, e))
        BY <1>6, <3>7, <3>9 DEF Keeps
    <3> QED BY <1>6, <2>3, <3>1, <3>7, <3>9, <3>10 DEF e
  <2> QED BY <2>2, <2>3
<1> QED BY <1>3, <1>5, <1>6

\* vmm_unmap_page_in clears the one entry and drops the page from the TLB.
LEMMA UnmapPage ==
    ASSUME NEW x, NEW low, Shape(x, low), NEW d \in DOMAIN low,
           NEW v \in LowPages, PDE(v) = 0,
           NEW y, y = vmm_unmap_page_in(x, d, v)
    PROVE  LET low2 == WithEntry(low, d, PTE(v), Zero)
           IN  /\ Shape(y, low2) /\ y.used = x.used
               /\ Keeps(x, low, y, low2)
               /\ \/ y.tlb = [x.tlb EXCEPT ![v] = ABSENT]
                  \/ y.tlb = x.tlb /\ low2 = low
<1> DEFINE j == PTE(v)
<1>1. j \in Index /\ d # NULL /\ ~(d # kernel_page_directory /\ PDE(v) >= KERNEL_PDE_INDEX)
  <2>1. d # NULL
      BY DEF Shape, IsStructure, Reach
  <2> QED BY <2>1, Sizes DEF LowPages, PTE
<1>2. CASE P \notin low[d][j].flags
  <2>1. low[d][j] = Zero
      BY <1>1, <1>2 DEF Shape, Maps
  <2>2. WithEntry(low, d, j, Zero) = low
    <3>1. low \in [DOMAIN low -> PageTables] /\ low[d] \in [Index -> PageEntries]
        BY DEF Shape, PageTables
    <3>2. [low[d] EXCEPT ![j] = Zero] = low[d]
        BY <1>1, <2>1, <3>1
    <3> QED BY <3>1, <3>2 DEF WithEntry
  <2>3. CASE Has(x, d)
    <3>1. vmm_get_page_table_in(x, d, v) = Table(x, d) /\ x.ram[Table(x, d)] = low[d]
        BY <1>1, <2>3, TableApart DEF vmm_get_page_table_in, Has, Table
    <3>2. y = x
        BY <1>1, <1>2, <3>1 DEF vmm_unmap_page_in
    <3> QED BY <2>2, <3>2 DEF Keeps
  <2>4. CASE ~Has(x, d)
    <3>1. vmm_get_page_table_in(x, d, v) = NULL
        BY <2>4 DEF vmm_get_page_table_in, Has
    <3>2. y = x
        BY <3>1 DEF vmm_unmap_page_in
    <3> QED BY <2>2, <3>2 DEF Keeps
  <2> QED BY <2>3, <2>4
<1>3. CASE P \in low[d][j].flags
  <2>1. Has(x, d)
      BY <1>1, <1>3, NotPresent DEF Shape, Maps
  <2> DEFINE t == Table(x, d)
  <2>2. /\ vmm_get_page_table_in(x, d, v) = t /\ x.ram[t] = low[d] /\ t # NULL
        /\ t \in Frames /\ t \notin DOMAIN low
      BY <1>1, <2>1, TableApart DEF vmm_get_page_table_in, Has, Table
  <2>3. y = paging_tlb_invalidate([x EXCEPT !.ram[t][j] = Zero], v)
      BY <1>1, <1>3, <2>2 DEF vmm_unmap_page_in
  <2>4. x \in Machine /\ x.ram \in [Frames -> PageTables] /\ x.used \subseteq Frames
        /\ x.tlb \in [LowPages -> PageEntries] /\ x.ram[t] \in PageTables
        /\ x.ram[d][0] \in PageEntries /\ d \in Frames
      BY <2>2, ShapeParts
  <2> DEFINE tab == [x.ram[t] EXCEPT ![j] = Zero]
  <2> HIDE DEF t, j
  <2>5. y = [ram |-> [x.ram EXCEPT ![t] = tab], used |-> x.used,
             tlb |-> [x.tlb EXCEPT ![v] = ABSENT]]
    <3>1. x = [ram |-> x.ram, used |-> x.used, tlb |-> x.tlb]
        BY <2>4 DEF Machine
    <3> DEFINE a == [x EXCEPT !.ram[t][j] = Zero]
    <3>2. a = [ram |-> [x.ram EXCEPT ![t] = tab], used |-> x.used, tlb |-> x.tlb]
        BY <3>1
    <3>3. y = [a EXCEPT !.tlb[v] = ABSENT]
        BY <2>3 DEF paging_tlb_invalidate
    <3> HIDE DEF a, tab
    <3> QED BY <3>2, <3>3
  <2>6. tab \in PageTables
      BY <1>1, <2>4, NotPresent DEF PageTables, j
  <2> HIDE DEF tab
  <2>7. /\ y \in Machine /\ y.used = x.used /\ y.tlb = [x.tlb EXCEPT ![v] = ABSENT]
        /\ y.ram[t] = tab /\ \A g \in Frames \ {t} : y.ram[g] = x.ram[g]
      BY <2>2, <2>4, <2>5, <2>6, NotPresent DEF Machine, ABSENT
  <2>8. y.ram[d] = x.ram[d] /\ Zero.flags = {}
      BY <2>2, <2>4, <2>7, NotPresent
  <2>9. /\ Shape(y, WithEntry(low, d, j, Zero))
        /\ \A g : IsStructure(y, WithEntry(low, d, j, Zero), g) <=> IsStructure(x, low, g)
    <3>1. Table(y, d) = Table(x, d) /\ x.ram[d][0].flags \cup Zero.flags \subseteq y.ram[d][0].flags
        BY <2>8 DEF Table
    <3> QED BY <1>1, <2>1, <2>7, <2>8, <3>1, NotPresent, SetEntry DEF tab, t, j
  <2> QED BY <2>7, <2>9 DEF j, Keeps
<1> QED BY <1>2, <1>3

\* vmm_destroy_address_space frees a directory and its table, and no other frame.
LEMMA DestroySpace ==
    ASSUME NEW x, NEW low, Shape(x, low), kernel_page_directory = KernelDirectory,
           NEW d \in DOMAIN low \ {KernelDirectory},
           NEW y, y = vmm_destroy_address_space(x, d)
    PROVE  /\ Shape(y, Without(low, d)) /\ y.tlb = x.tlb
           /\ Keeps(x, low, y, Without(low, d))
<1> DEFINE low2 == Without(low, d)
           fs == {d} \cup {x.ram[d][i].frame :
                             i \in {k \in 0 .. KERNEL_PDE_INDEX - 1 : P \in x.ram[d][k].flags}}
<1>1. d # NULL /\ d \in Frames
    BY DEF Shape, IsStructure, Reach
<1>2. y = Release(x, fs)
    BY <1>1 DEF vmm_destroy_address_space
<1>3. \A f : f \in fs <=> f = d \/ (Has(x, d) /\ f = Table(x, d))
  <2>1. \A i \in 1 .. KERNEL_PDE_INDEX - 1 : x.ram[d][i] = Zero
    <3>1. \A i \in 1 .. KERNEL_PDE_INDEX - 1 : i \in Index \ {0} /\ i \notin KernelIndex
        BY VmmAssumption DEF Index, KernelIndex
    <3> QED BY <3>1 DEF Shape, Maps, KernelEntry
  <2>2. 0 \in 0 .. KERNEL_PDE_INDEX - 1
      BY Sizes
  <2>3. {k \in 0 .. KERNEL_PDE_INDEX - 1 : P \in x.ram[d][k].flags}
          = IF Has(x, d) THEN {0} ELSE {}
    <3>1. \A k \in 0 .. KERNEL_PDE_INDEX - 1 : k = 0 \/ k \in 1 .. KERNEL_PDE_INDEX - 1
        BY Sizes
    <3> QED BY <2>1, <2>2, <3>1, NotPresent DEF Has
  <2> QED BY <2>3 DEF Table
<1> HIDE DEF fs
<1>4. x \in Machine /\ x.ram \in [Frames -> PageTables] /\ DOMAIN low \subseteq Frames
    BY DEF Shape, Machine
<1>5. /\ y \in Machine /\ y.used = x.used \ (fs \ {NULL}) /\ y.tlb = x.tlb
      /\ \A g \in Frames \ fs : y.ram[g] = x.ram[g]
    BY <1>2, <1>4, ReleaseIs
<1>6. /\ DOMAIN low2 = DOMAIN low \ {d}
      /\ \A e \in DOMAIN low \ {d} : low2[e] = low[e]
    BY DEF Without
<1>7. low2 \in [DOMAIN low2 -> PageTables]
    BY DEF Shape, Without
<1> HIDE DEF low2
<1>8. \A e \in DOMAIN low \ {d} : e \notin fs /\ y.ram[e] = x.ram[e]
  <2> SUFFICES ASSUME NEW e \in DOMAIN low \ {d} PROVE e \notin fs /\ y.ram[e] = x.ram[e]
      OBVIOUS
  <2>1. e \notin fs
      BY <1>3 DEF Shape
  <2> QED BY <1>4, <1>5, <2>1
<1>9. \A e \in DOMAIN low \ {d} : Has(x, e) =>
         Table(x, e) \in Frames \ fs /\ y.ram[Table(x, e)] = x.ram[Table(x, e)]
  <2> SUFFICES ASSUME NEW e \in DOMAIN low \ {d}, Has(x, e)
               PROVE  Table(x, e) \in Frames \ fs
      BY <1>5
  <2> QED BY <1>3 DEF Shape
<1>10. \A e \in DOMAIN low \ {d} : Has(y, e) = Has(x, e) /\ Table(y, e) = Table(x, e)
    BY <1>8 DEF Has, Table
<1>11. \A i \in KernelIndex : KernelTable(i) \in Frames \ fs
  <2> SUFFICES ASSUME NEW i \in KernelIndex PROVE KernelTable(i) \in Frames \ fs
      OBVIOUS
  <2>1. KernelTable(i) \in KernelTableFrames /\ KernelTable(i) \in Frames
      BY Sizes DEF KernelTableFrames
  <2> QED BY <1>3, <2>1 DEF Shape
<1>12. \A f : IsStructure(y, low2, f) => IsStructure(x, low, f) /\ f \notin fs
    BY <1>6, <1>8, <1>9, <1>10, <1>11 DEF IsStructure, KernelTableFrames
<1>13. \A e \in DOMAIN low2 : Maps(y, e, low2[e])
  <2> SUFFICES ASSUME NEW e \in DOMAIN low \ {d} PROVE Maps(y, e, low2[e])
      BY <1>6
  <2>1. Maps(x, e, low[e]) /\ low2[e] = low[e]
      BY <1>6 DEF Shape
  <2> QED BY <1>8, <1>9, <1>10, <2>1 DEF Maps
<1>14. Shape(y, low2)
  <2>1. \A f \in Frames : IsStructure(y, low2, f) => f \in Reach(y)
      BY <1>5, <1>12 DEF Shape, Reach
  <2>2. \A i \in KernelIndex : KernelTable(i) \notin DOMAIN low2 /\ y.ram[KernelTable(i)] = DirectMap(i)
      BY <1>5, <1>6, <1>11 DEF Shape
  <2>3. \A e \in DOMAIN low2 : Has(y, e) =>
           /\ Table(y, e) \in Frames \ (DOMAIN low2 \cup KernelTableFrames)
           /\ \A g \in DOMAIN low2 : Has(y, g) /\ Table(y, g) = Table(y, e) => g = e
      BY <1>6, <1>10 DEF Shape
  <2>4. KernelDirectory \in DOMAIN low2 /\ DOMAIN low2 \subseteq Frames
      BY <1>6 DEF Shape
  <2> QED BY <1>5, <1>7, <1>13, <2>1, <2>2, <2>3, <2>4 DEF Shape
<1>15. \A f \in x.used : ~IsStructure(x, low, f) => f \in y.used
    BY <1>3, <1>5 DEF IsStructure
<1> QED BY <1>5, <1>12, <1>14, <1>15 DEF low2, Keeps

-----------------------------------------------------------------------------
(* The pages of programs *)

\* Code, stack and vmmtest's page are in the table of directory entry 0.
LEMMA ProgramPages ==
    /\ {CODE, STACK, LOW} \subseteq LowPages /\ CODE # STACK
    /\ PDE(CODE) = 0 /\ PDE(STACK) = 0 /\ PDE(LOW) = 0
    /\ PTE(CODE) = 0 /\ PTE(STACK) = Entries - 1 /\ PTE(LOW) = 1
    /\ \A j \in Index : <<0, j>> \in LowPages
BY Sizes DEF CODE, STACK, LOW, LowPages, PDE, PTE

\* Programs keep their frames when the machine keeps frames and maps no more.
LEMMA PrivateKept ==
    ASSUME NEW x, NEW low, Private(x, low), NEW y, NEW low2, Keeps(x, low, y, low2),
           \A d \in DOMAIN low2 \ {KernelDirectory} :
              \/ Mapped(low2[d]) = {}
              \/ d \in DOMAIN low /\ Mapped(low2[d]) \subseteq Mapped(low[d])
    PROVE  Private(y, low2)
BY DEF Private, Keeps

\* Keeping frames is transitive.
LEMMA KeepsTwice ==
    ASSUME NEW x, NEW low, NEW y, NEW low2, NEW z, NEW low3,
           Keeps(x, low, y, low2), Keeps(y, low2, z, low3)
    PROVE  Keeps(x, low, z, low3)
BY DEF Keeps

\* A cleared table maps nothing.
LEMMA ClearedMapsNothing == Mapped(Cleared) = {}
BY NotPresent DEF Mapped

\* What one entry of a table maps.
LEMMA MappedEntry ==
    ASSUME NEW map, NEW j \in Index, P \in map[j].flags
    PROVE  map[j].frame \in Mapped(map)
BY DEF Mapped

\* WithEntry changes one entry of one space.
LEMMA SetIs ==
    ASSUME NEW low, low \in [DOMAIN low -> PageTables], NEW d \in DOMAIN low, NEW j \in Index,
           NEW e, NEW low2, low2 = WithEntry(low, d, j, e)
    PROVE  /\ DOMAIN low2 = DOMAIN low /\ low2[d][j] = e
           /\ \A i \in Index \ {j} : low2[d][i] = low[d][i]
           /\ \A g \in DOMAIN low \ {d} : low2[g] = low[g]
<1>1. low[d] \in [Index -> PageEntries]
    BY DEF PageTables
<1>2. /\ DOMAIN low2 = DOMAIN low /\ low2[d] = [low[d] EXCEPT ![j] = e]
      /\ \A g \in DOMAIN low \ {d} : low2[g] = low[g]
    BY DEF WithEntry
<1> QED BY <1>1, <1>2

\* The TLB may lose entries.
LEMMA FreshKept ==
    ASSUME NEW x, NEW map, Fresh(x, map), NEW y,
           \A v \in LowPages : y.tlb[v] \in {ABSENT, x.tlb[v]}
    PROVE  Fresh(y, map)
BY DEF Fresh

\* One page of a program is loaded, or the load fails and leaves what there was.
LEMMA CopiedPage ==
    ASSUME NEW r, r = [mem |-> r.mem, pages |-> r.pages, ok |-> r.ok], r.ok \in BOOLEAN,
           NEW low, Sound(r.mem, low), NEW d \in DOMAIN low \ {KernelDirectory},
           NEW v \in {CODE, STACK}, Lists(low[d], r.pages), \A p \in r.pages : p[1] # v,
           NEW contents \in PageTables, NEW flags, {P, U} \cup flags = Rights(v),
           NEW s, s = map_copied_user_page(r, d, v, contents, flags)
    PROVE  /\ s = [mem |-> s.mem, pages |-> s.pages, ok |-> s.ok] /\ s.ok \in BOOLEAN
           /\ s.ok => r.ok /\ \E p \in s.pages : p[1] = v
           /\ \A p \in s.pages : p \in r.pages \/ p[1] = v
           /\ \A u \in LowPages : s.mem.tlb[u] \in {ABSENT, r.mem.tlb[u]}
           /\ \E low2 : /\ Sound(s.mem, low2) /\ DOMAIN low2 = DOMAIN low
                        /\ \A e \in DOMAIN low \ {d} : low2[e] = low[e]
                        /\ Lists(low2[d], s.pages)
<1> DEFINE x == r.mem
           f == pmm_alloc_page(x)
           filled == [SetUsed(x, f) EXCEPT !.ram[f] = contents]
           mapped == vmm_map_page_in(filled, d, v, f, {P, U} \cup flags)
<1>1. Shape(x, low) /\ Private(x, low) /\ x \in Machine
    BY DEF Sound, Shape
<1>2. CASE ~r.ok \/ f = NULL \/ vmm_phys_to_virt(f) = NULL
  <2>1. s = [r EXCEPT !.ok = FALSE]
      BY <1>2 DEF map_copied_user_page
  <2>2. s = [mem |-> r.mem, pages |-> r.pages, ok |-> FALSE]
      BY <2>1
  <2> QED BY <2>2
<1>3. CASE r.ok /\ f # NULL /\ vmm_phys_to_virt(f) # NULL
  <2>1. f \in Frames \ x.used
      BY <1>1, <1>3, AllocFree
  <2>2. s = IF mapped.ret # 0
            THEN [r EXCEPT !.ok = FALSE, !.mem = pmm_free_page(mapped.mem, f)]
            ELSE [r EXCEPT !.mem = mapped.mem, !.pages = @ \cup {<<v, f>>}]
      BY <1>3 DEF map_copied_user_page
  <2> HIDE DEF f
  <2>3. /\ Shape(filled, low) /\ Keeps(x, low, filled, low) /\ filled.tlb = x.tlb
        /\ f \in filled.used /\ ~IsStructure(filled, low, f)
      BY <1>1, <2>1, TakeFrame
  <2> HIDE DEF filled
  <2>4. v \in LowPages /\ PDE(v) = 0 /\ PTE(v) \in Index /\ v = <<0, PTE(v)>>
      BY ProgramPages, Sizes DEF CODE, STACK, PTE
  <2>5. low[d][PTE(v)] = Zero
      BY <2>4 DEF Lists
  <2>6. Rights(v) \in SUBSET {P, W, U} /\ P \in Rights(v)
      BY DEF Rights
  <2>7. f \in Nat
      BY <2>1, Sizes DEF Frames
  <2> DEFINE low2 == WithEntry(low, d, PTE(v), Entry(f, Rights(v)))
  <2>8. \/ /\ mapped.ret = -1 /\ Shape(mapped.mem, low)
           /\ Keeps(filled, low, mapped.mem, low) /\ mapped.mem.tlb = x.tlb
        \/ /\ mapped.ret = 0 /\ Shape(mapped.mem, low2)
           /\ Keeps(filled, low, mapped.mem, low2)
           /\ mapped.mem.tlb = [x.tlb EXCEPT ![v] = ABSENT]
    <3>1. mapped = vmm_map_page_in(filled, d, v, f, Rights(v))
        OBVIOUS
    <3> HIDE DEF mapped
    <3>2. P \notin low[d][PTE(v)].flags
        BY <2>5, NotPresent
    <3> QED BY <2>3, <2>4, <2>6, <2>7, <3>1, <3>2, MapPage
  <2> HIDE DEF mapped
  <2>9. CASE /\ mapped.ret = -1 /\ Shape(mapped.mem, low)
             /\ Keeps(filled, low, mapped.mem, low) /\ mapped.mem.tlb = x.tlb
    <3> DEFINE y == Release(mapped.mem, {f})
    <3>1. s = [mem |-> y, pages |-> r.pages, ok |-> FALSE]
      <4>1. s = [r EXCEPT !.ok = FALSE, !.mem = y]
          BY <2>2, <2>9 DEF pmm_free_page
      <4> HIDE DEF y
      <4> QED BY <4>1
    <3>2. f \in mapped.mem.used /\ ~IsStructure(mapped.mem, low, f)
        BY <2>3, <2>9 DEF Keeps
    <3>3. /\ Shape(y, low) /\ y.tlb = x.tlb /\ y.used = mapped.mem.used \ ({f} \ {NULL})
          /\ \A g : IsStructure(y, low, g) <=> IsStructure(mapped.mem, low, g)
        BY <2>9, <3>2, ReleaseFrames
    <3> HIDE DEF y
    <3>4. Keeps(x, low, y, low)
        BY <2>1, <2>3, <2>9, <3>3 DEF Keeps
    <3>5. Private(y, low)
        BY <1>1, <3>4, PrivateKept
    <3>6. Sound(y, low)
        BY <3>3, <3>5 DEF Sound
    <3> QED BY <3>1, <3>3, <3>6
  <2>10. CASE /\ mapped.ret = 0 /\ Shape(mapped.mem, low2)
              /\ Keeps(filled, low, mapped.mem, low2)
              /\ mapped.mem.tlb = [x.tlb EXCEPT ![v] = ABSENT]
    <3> DEFINE y == mapped.mem
    <3>1. s = [mem |-> y, pages |-> r.pages \cup {<<v, f>>}, ok |-> TRUE]
      <4>1. s = [r EXCEPT !.mem = y, !.pages = @ \cup {<<v, f>>}]
          BY <2>2, <2>10
      <4>2. s = [mem |-> y, pages |-> r.pages \cup {<<v, f>>}, ok |-> r.ok]
          BY <4>1
      <4> QED BY <1>3, <4>2
    <3> HIDE DEF y
    <3>2. low \in [DOMAIN low -> PageTables]
        BY <1>1 DEF Shape
    <3>3. /\ DOMAIN low2 = DOMAIN low /\ low2[d][PTE(v)] = Entry(f, Rights(v))
          /\ \A i \in Index \ {PTE(v)} : low2[d][i] = low[d][i]
          /\ \A g \in DOMAIN low \ {d} : low2[g] = low[g]
          /\ Mapped(low2[d]) \subseteq Mapped(low[d]) \cup {f}
      <4> DEFINE en == Entry(f, Rights(v))
      <4>1. en.frame = f
          BY DEF Entry
      <4>2. low2 = WithEntry(low, d, PTE(v), en)
          OBVIOUS
      <4> HIDE DEF en, low2
      <4>3. /\ DOMAIN low2 = DOMAIN low /\ low2[d][PTE(v)] = en
            /\ \A i \in Index \ {PTE(v)} : low2[d][i] = low[d][i]
            /\ \A g \in DOMAIN low \ {d} : low2[g] = low[g]
          BY <2>4, <3>2, <4>2, SetIs
      <4>4. Mapped(low2[d]) \subseteq Mapped(low[d]) \cup {f}
          BY <4>1, <4>3 DEF Mapped
      <4> QED BY <4>3, <4>4 DEF en
    <3> HIDE DEF low2
    <3>4. Keeps(x, low, y, low2)
        BY <2>3, <2>10, KeepsTwice DEF y
    <3>5. f \in y.used /\ ~IsStructure(y, low2, f) /\ f # NULL
        BY <1>3, <2>3, <2>10 DEF Keeps, y
    <3>6. \A g \in DOMAIN low \ {KernelDirectory} : f \notin Mapped(low[g])
        BY <1>1, <2>1 DEF Private
    <3>7. Private(y, low2)
      <4>1. \A g \in DOMAIN low \ {KernelDirectory} : \A h \in Mapped(low[g]) :
               h \in y.used /\ h # NULL /\ ~IsStructure(y, low2, h)
          BY <1>1, <3>4 DEF Private, Keeps
      <4>2. \A g \in DOMAIN low \ {KernelDirectory} : \A k \in DOMAIN low \ {KernelDirectory, g} :
               Mapped(low[g]) \cap Mapped(low[k]) = {}
          BY <1>1 DEF Private
      <4> QED BY <3>3, <3>5, <3>6, <4>1, <4>2 DEF Private
    <3>8. Lists(low2[d], s.pages)
      <4>1. s.pages = r.pages \cup {<<v, f>>} /\ s.pages \in SUBSET ({CODE, STACK} \X Frames)
          BY <2>1, <3>1 DEF Lists
      <4>2. \A p \in s.pages : low2[d][PTE(p[1])] = Entry(p[2], Rights(p[1]))
        <5> SUFFICES ASSUME NEW p \in s.pages
                     PROVE  low2[d][PTE(p[1])] = Entry(p[2], Rights(p[1]))
            OBVIOUS
        <5>1. CASE p \in r.pages
          <6>1. p[1] \in {CODE, STACK} /\ p[1] # v /\ low[d][PTE(p[1])] = Entry(p[2], Rights(p[1]))
              BY <5>1 DEF Lists
          <6>2. PTE(p[1]) \in Index /\ PTE(p[1]) # PTE(v)
              BY <6>1, ProgramPages, Sizes
          <6> QED BY <3>3, <6>1, <6>2
        <5>2. CASE p = <<v, f>>
            BY <3>3, <5>2
        <5> QED BY <4>1, <5>1, <5>2
      <4>3. \A j \in Index : low2[d][j] = Zero \/ \E p \in s.pages : p[1] = <<0, j>>
        <5> SUFFICES ASSUME NEW j \in Index
                     PROVE  low2[d][j] = Zero \/ \E p \in s.pages : p[1] = <<0, j>>
            OBVIOUS
        <5>1. CASE j = PTE(v)
          <6>1. <<v, f>> \in s.pages /\ <<v, f>>[1] = <<0, j>>
              BY <2>4, <4>1, <5>1
          <6> QED BY <6>1
        <5>2. CASE j # PTE(v)
            BY <3>3, <4>1, <5>2 DEF Lists
        <5> QED BY <5>1, <5>2
      <4> QED BY <4>1, <4>2, <4>3 DEF Lists
    <3>9. \A u \in LowPages : y.tlb[u] \in {ABSENT, x.tlb[u]}
      <4>1. x.tlb \in [LowPages -> PageEntries]
          BY <1>1 DEF Machine
      <4> QED BY <2>4, <2>10, <4>1 DEF y
    <3>10. Sound(y, low2)
        BY <2>10, <3>7 DEF Sound, y
    <3>11. s.mem = y /\ s.pages = r.pages \cup {<<v, f>>} /\ s.ok = TRUE
        BY <3>1
    <3>12. \E p \in s.pages : p[1] = v
      <4>1. <<v, f>> \in s.pages /\ <<v, f>>[1] = v
          BY <3>11
      <4> QED BY <4>1
    <3>13. \A p \in s.pages : p \in r.pages \/ p[1] = v
        BY <3>11
    <3> QED BY <1>3, <3>1, <3>3, <3>8, <3>9, <3>10, <3>11, <3>12, <3>13
  <2> QED BY <2>8, <2>9, <2>10
<1> QED BY <1>2, <1>3

\* user_process_free_pages on one page.
Unmapped(x, d, v, ps) == IF \E p \in ps : p[1] = v THEN vmm_unmap_page_in(x, d, v) ELSE x

\* A page that may be listed is unmapped if it is.
LEMMA UnmapListed ==
    ASSUME NEW x, NEW low, Shape(x, low), NEW d \in DOMAIN low, NEW v \in {CODE, STACK}, NEW ps,
           low[d][PTE(v)] = Zero \/ \E p \in ps : p[1] = v,
           NEW y, y = Unmapped(x, d, v, ps),
           NEW low2, low2 = WithEntry(low, d, PTE(v), Zero)
    PROVE  /\ Shape(y, low2) /\ y.used = x.used /\ Keeps(x, low, y, low2)
           /\ \A u \in LowPages : y.tlb[u] \in {ABSENT, x.tlb[u]}
           /\ low[d][PTE(v)] # Zero => y.tlb[v] = ABSENT
<1>1. v \in LowPages /\ PDE(v) = 0 /\ PTE(v) \in Index
    BY ProgramPages, Sizes
<1>2. low \in [DOMAIN low -> PageTables] /\ x.tlb \in [LowPages -> PageEntries]
    BY DEF Shape, Machine
<1>3. low2[d][PTE(v)] = Zero
    BY <1>1, <1>2, SetIs
<1>4. CASE \E p \in ps : p[1] = v
  <2>1. y = vmm_unmap_page_in(x, d, v)
      BY <1>4 DEF Unmapped
  <2>2. /\ Shape(y, low2) /\ y.used = x.used /\ Keeps(x, low, y, low2)
        /\ \/ y.tlb = [x.tlb EXCEPT ![v] = ABSENT]
           \/ y.tlb = x.tlb /\ low2 = low
      BY <1>1, <2>1, UnmapPage
  <2>3. \A u \in LowPages : y.tlb[u] \in {ABSENT, x.tlb[u]}
      BY <1>1, <1>2, <2>2
  <2>4. low[d][PTE(v)] # Zero => y.tlb[v] = ABSENT
      BY <1>1, <1>2, <1>3, <2>2
  <2> QED BY <2>2, <2>3, <2>4
<1>5. CASE ~(\E p \in ps : p[1] = v)
  <2>1. y = x /\ low[d][PTE(v)] = Zero
      BY <1>5 DEF Unmapped
  <2>2. low2 = low
    <3>1. low[d] \in [Index -> PageEntries]
        BY <1>2 DEF PageTables
    <3>2. [low[d] EXCEPT ![PTE(v)] = Zero] = low[d]
        BY <1>1, <2>1, <3>1
    <3> QED BY <1>2, <3>2 DEF WithEntry
  <2> QED BY <2>1, <2>2 DEF Keeps
<1> QED BY <1>4, <1>5

\* user_process_free_pages leaves an empty space, nothing of it in the TLB, and
\* every other program its frames.
LEMMA FreePages ==
    ASSUME NEW x, NEW low, Sound(x, low), NEW d \in DOMAIN low \ {KernelDirectory},
           NEW ps, Lists(low[d], ps), NEW y, y = user_process_free_pages(x, d, ps)
    PROVE  /\ Sound(y, [low EXCEPT ![d] = Cleared])
           /\ \A u \in LowPages : y.tlb[u] \in {ABSENT, x.tlb[u]}
           /\ \A p \in ps : y.tlb[p[1]] = ABSENT
<1> DEFINE a == Unmapped(x, d, CODE, ps)
           b == Unmapped(a, d, STACK, ps)
           fs == {p[2] : p \in ps}
           low1 == WithEntry(low, d, PTE(CODE), Zero)
           low2 == WithEntry(low1, d, PTE(STACK), Zero)
<1>1. y = Release(b, fs)
    BY DEF user_process_free_pages, Unmapped
<1>2. Shape(x, low) /\ Private(x, low) /\ low \in [DOMAIN low -> PageTables] /\ d \in DOMAIN low
    BY DEF Sound, Shape
<1>3. /\ PTE(CODE) \in Index /\ PTE(STACK) \in Index /\ PTE(CODE) # PTE(STACK)
      /\ CODE = <<0, PTE(CODE)>> /\ STACK = <<0, PTE(STACK)>>
    BY Sizes DEF CODE, STACK, PTE
<1>4. /\ low[d][PTE(CODE)] = Zero \/ \E p \in ps : p[1] = CODE
      /\ low[d][PTE(STACK)] = Zero \/ \E p \in ps : p[1] = STACK
    BY <1>3 DEF Lists
<1>5. /\ Shape(a, low1) /\ a.used = x.used /\ Keeps(x, low, a, low1)
      /\ \A u \in LowPages : a.tlb[u] \in {ABSENT, x.tlb[u]}
      /\ low[d][PTE(CODE)] # Zero => a.tlb[CODE] = ABSENT
  <2>1. /\ a = Unmapped(x, d, CODE, ps)
        /\ low1 = WithEntry(low, d, PTE(CODE), Zero)
      OBVIOUS
  <2>2. Shape(x, low) /\ d \in DOMAIN low /\ (low[d][PTE(CODE)] = Zero \/ \E p \in ps : p[1] = CODE)
      BY <1>2, <1>4
  <2> HIDE DEF a, b, fs, low1, low2
  <2> QED BY <2>1, <2>2, UnmapListed
<1>6. /\ DOMAIN low1 = DOMAIN low /\ low1[d][PTE(CODE)] = Zero
      /\ \A i \in Index \ {PTE(CODE)} : low1[d][i] = low[d][i]
      /\ \A g \in DOMAIN low \ {d} : low1[g] = low[g]
    BY <1>2, <1>3, SetIs
<1> HIDE DEF a, low1
<1>7. low1[d][PTE(STACK)] = low[d][PTE(STACK)] /\ low1 \in [DOMAIN low1 -> PageTables]
    BY <1>3, <1>5, <1>6 DEF Shape
<1>8. /\ Shape(b, low2) /\ b.used = a.used /\ Keeps(a, low1, b, low2)
      /\ \A u \in LowPages : b.tlb[u] \in {ABSENT, a.tlb[u]}
      /\ low1[d][PTE(STACK)] # Zero => b.tlb[STACK] = ABSENT
  <2>1. /\ b = Unmapped(a, d, STACK, ps)
        /\ low2 = WithEntry(low1, d, PTE(STACK), Zero)
      OBVIOUS
  <2>2. d \in DOMAIN low1 /\ (low1[d][PTE(STACK)] = Zero \/ \E p \in ps : p[1] = STACK)
      BY <1>2, <1>4, <1>6, <1>7
  <2> HIDE DEF b, fs, low2
  <2> QED BY <1>5, <2>1, <2>2, UnmapListed
<1>9. /\ DOMAIN low2 = DOMAIN low1 /\ low2[d][PTE(STACK)] = Zero
      /\ \A i \in Index \ {PTE(STACK)} : low2[d][i] = low1[d][i]
      /\ \A g \in DOMAIN low1 \ {d} : low2[g] = low1[g]
    BY <1>3, <1>6, <1>7, SetIs
<1> HIDE DEF b, low2
<1>10. low2 = [low EXCEPT ![d] = Cleared]
  <2>1. \A j \in Index : low2[d][j] = Zero
    <3> SUFFICES ASSUME NEW j \in Index, j # PTE(CODE), j # PTE(STACK) PROVE low[d][j] = Zero
        BY <1>3, <1>6, <1>9
    <3>1. \A p \in ps : p[1] # <<0, j>>
        BY <1>3 DEF Lists
    <3> QED BY <3>1 DEF Lists
  <2>2. low2[d] \in [Index -> PageEntries] /\ low2 \in [DOMAIN low -> PageTables]
      BY <1>6, <1>8, <1>9 DEF Shape, PageTables
  <2>3. low2[d] = Cleared
      BY <2>1, <2>2 DEF Cleared
  <2> QED BY <1>2, <1>6, <1>9, <2>2, <2>3
<1>11. \A f \in fs : f \in Mapped(low[d])
  <2> SUFFICES ASSUME NEW p \in ps PROVE p[2] \in Mapped(low[d])
      OBVIOUS
  <2>1. low[d][PTE(p[1])] = Entry(p[2], Rights(p[1])) /\ PTE(p[1]) \in Index
      BY <1>3 DEF Lists
  <2>2. P \in low[d][PTE(p[1])].flags /\ low[d][PTE(p[1])].frame = p[2]
      BY <2>1 DEF Entry, Rights
  <2> QED BY <2>1, <2>2, MappedEntry
<1>12. Keeps(x, low, b, low2)
    BY <1>5, <1>8, KeepsTwice
<1>13. \A f \in fs : ~IsStructure(b, low2, f)
    BY <1>2, <1>11, <1>12 DEF Private, Keeps
<1>14. /\ Shape(y, low2) /\ y.tlb = b.tlb /\ y.used = b.used \ (fs \ {NULL})
       /\ \A f : IsStructure(y, low2, f) <=> IsStructure(b, low2, f)
  <2> HIDE DEF fs
  <2> QED BY <1>1, <1>8, <1>13, ReleaseFrames
<1>15. Private(y, low2)
  <2>1. Mapped(low2[d]) = {}
      BY <1>2, <1>10, ClearedMapsNothing
  <2>2. \A g \in DOMAIN low \ {d} : low2[g] = low[g]
      BY <1>6, <1>9
  <2>3. \A g \in DOMAIN low \ {d, KernelDirectory} : \A f \in Mapped(low[g]) :
           /\ f \in b.used /\ f # NULL /\ ~IsStructure(b, low2, f)
           /\ f \notin fs
      BY <1>2, <1>11, <1>12 DEF Private, Keeps
  <2>4. \A g \in DOMAIN low \ {KernelDirectory} : \A k \in DOMAIN low \ {KernelDirectory, g} :
           Mapped(low[g]) \cap Mapped(low[k]) = {}
      BY <1>2 DEF Private
  <2> HIDE DEF fs
  <2> QED BY <1>6, <1>9, <1>14, <2>1, <2>2, <2>3, <2>4 DEF Private
<1>16. \A u \in LowPages : y.tlb[u] \in {ABSENT, x.tlb[u]}
    BY <1>5, <1>8, <1>14
<1>17. \A p \in ps : y.tlb[p[1]] = ABSENT
  <2> SUFFICES ASSUME NEW p \in ps PROVE y.tlb[p[1]] = ABSENT
      OBVIOUS
  <2>1. p[1] \in {CODE, STACK} /\ low[d][PTE(p[1])] = Entry(p[2], Rights(p[1]))
      BY DEF Lists
  <2>2. low[d][PTE(p[1])] # Zero
      BY <2>1 DEF Entry, Rights, Zero
  <2>3. CASE p[1] = CODE
    <3>1. a.tlb[CODE] = ABSENT
        BY <1>5, <2>2, <2>3
    <3> QED BY <1>8, <1>14, <2>3, <3>1, ProgramPages
  <2>4. CASE p[1] = STACK
      BY <1>7, <1>8, <1>14, <2>2, <2>4
  <2> QED BY <2>1, <2>3, <2>4
<1> QED BY <1>10, <1>14, <1>15, <1>16, <1>17 DEF Sound

-----------------------------------------------------------------------------
(* Steps *)

OnlySpace(low, low2, d) ==
    DOMAIN low2 = DOMAIN low /\ \A e \in DOMAIN low \ {d} : low2[e] = low[e]

\* What a step may do to the maps and to the loaded directory: make an empty
\* space, map pages in one space that may then be loaded, unmap pages in one,
\* remove an empty one that is not loaded, or load another.
SpacesStep(low, c, low2, c2) ==
    \/ \E d \in Frames \ DOMAIN low : low2 = Extended(low, d) /\ c2 = c
    \/ \E d \in DOMAIN low :
          /\ OnlySpace(low, low2, d)
          /\ \A j \in Index : low2[d][j] # low[d][j] =>
                low[d][j] = Zero /\ low2[d][j].frame \in Frames
          /\ c2 # c => c2 = d /\ \E j \in Index : low2[d][j] # low[d][j]
    \/ \E d \in DOMAIN low :
          /\ OnlySpace(low, low2, d)
          /\ \A j \in Index : low2[d][j] # low[d][j] => low2[d][j] = Zero
          /\ c2 = c
    \/ \E d \in DOMAIN low \ {KernelDirectory, c} :
          low[d] = Cleared /\ low2 = Without(low, d) /\ c2 = c
    \/ low2 = low /\ c2 \in DOMAIN low

Ready(low) ==
    kernel_page_directory = KernelDirectory /\ SpacesOK(m, low, cr3, pages, phase)

Stepped(low) ==
    /\ kernel_page_directory' = KernelDirectory
    /\ \E low2 : /\ SpacesOK(m', low2, cr3', pages', phase')
                 /\ SpacesStep(low, cr3, low2, cr3')

\* What Ready says, for the proofs below.
LEMMA ReadyParts ==
    ASSUME NEW low, Ready(low)
    PROVE  /\ kernel_page_directory = KernelDirectory
           /\ Shape(m, low) /\ Private(m, low) /\ Sound(m, low) /\ m \in Machine
           /\ low \in [DOMAIN low -> PageTables]
           /\ DOMAIN low = {KernelDirectory} \cup DOMAIN pages
           /\ KernelDirectory \notin DOMAIN pages /\ DOMAIN phase = DOMAIN pages
           /\ KernelMap(low[KernelDirectory])
           /\ cr3 \in DOMAIN low /\ Fresh(m, low[cr3])
           /\ \A d \in DOMAIN pages : Lists(low[d], pages[d])
           /\ \A d \in DOMAIN pages : phase[d] # "running" => pages[d] = {}
<1>1. SpacesOK(m, low, cr3, pages, phase) /\ kernel_page_directory = KernelDirectory
    BY DEF Ready
<1>2. Sound(m, low)
    BY <1>1 DEF SpacesOK
<1>3. Shape(m, low) /\ Private(m, low)
    BY <1>2 DEF Sound
<1>4. m \in Machine /\ low \in [DOMAIN low -> PageTables]
    BY <1>3 DEF Shape
<1> QED BY <1>1, <1>2, <1>3, <1>4 DEF SpacesOK

\* A space with no pages listed has an empty table.
LEMMA NothingListed ==
    ASSUME NEW map \in PageTables, Lists(map, {})
    PROVE  map = Cleared
<1>1. \A j \in Index : map[j] = Zero
    BY DEF Lists
<1> QED BY <1>1 DEF PageTables, Cleared

\* And the other way round.
LEMMA ClearedListsNothing == Lists(Cleared, {})
BY NotPresent DEF Lists

\* The processor changes the TLB, and nothing else.
LEMMA NewTlb ==
    ASSUME NEW x, NEW low, Sound(x, low), NEW tlb \in [LowPages -> PageEntries],
           NEW y, y = [x EXCEPT !.tlb = tlb]
    PROVE  Sound(y, low) /\ y.tlb = tlb
<1>1. Shape(x, low) /\ Private(x, low) /\ x \in Machine
    BY DEF Sound, Shape
<1>2. y = [ram |-> x.ram, used |-> x.used, tlb |-> tlb]
    BY <1>1 DEF Machine
<1>3. y \in Machine /\ y.used = x.used /\ y.ram = x.ram /\ y.tlb = tlb
    BY <1>1, <1>2 DEF Machine
<1>4. \A f \in Frames : IsStructure(x, low, f) => f \in y.used /\ y.ram[f] = x.ram[f]
    BY <1>1, <1>3 DEF Shape, Reach
<1>5. Shape(y, low) /\ \A f : IsStructure(y, low, f) <=> IsStructure(x, low, f)
    BY <1>1, <1>3, <1>4, SameShape
<1>6. Private(y, low)
    BY <1>1, <1>3, <1>5 DEF Private
<1> QED BY <1>3, <1>5, <1>6 DEF Sound

\* An empty TLB is fresh for any space.
LEMMA NoTlbFresh ==
    /\ NoTlb \in [LowPages -> PageEntries]
    /\ \A x, map : x.tlb = NoTlb => Fresh(x, map)
BY NotPresent DEF NoTlb, Fresh, ABSENT

\* A new space, and none.
LEMMA ExtendedIs ==
    ASSUME NEW low, low \in [DOMAIN low -> PageTables], NEW d, d \notin DOMAIN low,
           NEW low2, low2 = Extended(low, d)
    PROVE  /\ DOMAIN low2 = DOMAIN low \cup {d} /\ low2[d] = Cleared
           /\ \A e \in DOMAIN low : low2[e] = low[e]
           /\ Without(low2, d) = low
<1>1. /\ DOMAIN low2 = DOMAIN low \cup {d} /\ low2[d] = Cleared
      /\ \A e \in DOMAIN low : low2[e] = low[e]
    BY DEF Extended
<1>2. DOMAIN low2 \ {d} = DOMAIN low
    BY <1>1
<1>3. Without(low2, d) = [e \in DOMAIN low |-> low[e]]
    BY <1>1, <1>2 DEF Without
<1> QED BY <1>1, <1>3

\* user_spawn makes an empty space, or undoes it.
LEMMA SpawnStep == ASSUME NEW low, Ready(low), user_spawn PROVE Stepped(low)
<1> DEFINE r == vmm_create_address_space(m)
           page == pmm_alloc_page(r.mem)
           d == r.ret
           low2 == Extended(low, d)
<1>1. /\ r.ret # NULL /\ cr3' = cr3 /\ kernel_page_directory' = kernel_page_directory
      /\ \/ /\ \/ m' = r.mem
               \/ page # NULL /\ m' = SetUsed(r.mem, page)
            /\ pages' = Put(pages, d, {}) /\ phase' = Put(phase, d, "created")
         \/ /\ m' = vmm_destroy_address_space(r.mem, d)
            /\ pages' = pages /\ phase' = phase
    BY DEF user_spawn
<1>2. /\ d \in Frames \ m.used /\ d \notin DOMAIN low /\ Shape(r.mem, low2)
      /\ Keeps(m, low, r.mem, low2) /\ r.mem.tlb = m.tlb
  <2> HIDE DEF r
  <2>1. r = vmm_create_address_space(m)
      BY DEF r
  <2> QED BY <1>1, <2>1, ReadyParts, CreateSpace
<1>3. /\ DOMAIN low2 = DOMAIN low \cup {d} /\ low2[d] = Cleared
      /\ \A e \in DOMAIN low : low2[e] = low[e]
      /\ Without(low2, d) = low
  <2> HIDE DEF r
  <2> QED BY <1>2, ReadyParts, ExtendedIs
<1> HIDE DEF r, low2
<1>4. CASE /\ \/ m' = r.mem
              \/ page # NULL /\ m' = SetUsed(r.mem, page)
           /\ pages' = Put(pages, d, {}) /\ phase' = Put(phase, d, "created")
  <2>1. Shape(m', low2) /\ Keeps(r.mem, low2, m', low2) /\ m'.tlb = m.tlb
    <3>1. CASE m' = r.mem
        BY <1>2, <3>1 DEF Keeps
    <3>2. CASE page # NULL /\ m' = SetUsed(r.mem, page)
      <4>1. r.mem \in Machine
          BY <1>2 DEF Shape
      <4>2. page \in Frames \ r.mem.used
          BY <3>2, <4>1, AllocFree
      <4> QED BY <1>2, <3>2, <4>2, NotPresent, TakeFrame
    <3> QED BY <1>4, <3>1, <3>2
  <2>2. Private(m', low2)
    <3>1. Keeps(m, low, m', low2)
        BY <1>2, <2>1, KeepsTwice
    <3>2. \A e \in DOMAIN low2 \ {KernelDirectory} :
             \/ Mapped(low2[e]) = {}
             \/ e \in DOMAIN low /\ Mapped(low2[e]) \subseteq Mapped(low[e])
        BY <1>3, ClearedMapsNothing
    <3> QED BY <3>1, <3>2, ReadyParts, PrivateKept
  <2>3. /\ DOMAIN pages' = DOMAIN pages \cup {d} /\ pages'[d] = {}
        /\ \A e \in DOMAIN pages : e # d => pages'[e] = pages[e]
      BY <1>4 DEF Put
  <2>4. /\ DOMAIN phase' = DOMAIN phase \cup {d} /\ phase'[d] = "created"
        /\ \A e \in DOMAIN phase : e # d => phase'[e] = phase[e]
      BY <1>4 DEF Put
  <2>5. \A e \in DOMAIN pages' : /\ phase'[e] # "running" => pages'[e] = {}
                                 /\ Lists(low2[e], pages'[e])
    <3> SUFFICES ASSUME NEW e \in DOMAIN pages'
                 PROVE  (phase'[e] # "running" => pages'[e] = {}) /\ Lists(low2[e], pages'[e])
        OBVIOUS
    <3>1. CASE e = d
        BY <1>3, <2>3, <3>1, ClearedListsNothing
    <3>2. CASE e # d
      <4>1. e \in DOMAIN pages /\ e \in DOMAIN phase /\ e \in DOMAIN low
          BY <2>3, <3>2, ReadyParts
      <4>2. pages'[e] = pages[e] /\ phase'[e] = phase[e] /\ low2[e] = low[e]
          BY <1>3, <2>3, <2>4, <3>2, <4>1
      <4> QED BY <4>1, <4>2, ReadyParts
    <3> QED BY <3>1, <3>2
  <2>6. cr3' \in DOMAIN low2 /\ Fresh(m', low2[cr3'])
      BY <1>1, <1>3, <2>1, ReadyParts DEF Fresh
  <2>7. KernelMap(low2[KernelDirectory]) /\ KernelDirectory \notin DOMAIN pages'
        /\ DOMAIN low2 = {KernelDirectory} \cup DOMAIN pages' /\ DOMAIN phase' = DOMAIN pages'
      BY <1>2, <1>3, <2>3, <2>4, ReadyParts
  <2>8. SpacesOK(m', low2, cr3', pages', phase')
      BY <2>1, <2>2, <2>5, <2>6, <2>7 DEF SpacesOK, Sound
  <2>9. SpacesStep(low, cr3, low2, cr3')
      BY <1>1, <1>2 DEF SpacesStep, low2
  <2> QED BY <1>1, <2>8, <2>9, ReadyParts DEF Stepped
<1>5. CASE /\ m' = vmm_destroy_address_space(r.mem, d)
           /\ pages' = pages /\ phase' = phase
  <2>1. d \in DOMAIN low2 \ {KernelDirectory}
      BY <1>2, <1>3, ReadyParts
  <2>2. Shape(m', low) /\ m'.tlb = m.tlb /\ Keeps(r.mem, low2, m', low)
    <3>1. /\ Shape(m', Without(low2, d)) /\ m'.tlb = r.mem.tlb
          /\ Keeps(r.mem, low2, m', Without(low2, d))
        BY <1>2, <1>5, <2>1, ReadyParts, DestroySpace
    <3> QED BY <1>2, <1>3, <3>1
  <2>3. Private(m', low)
    <3>1. Keeps(m, low, m', low)
        BY <1>2, <2>2, KeepsTwice
    <3> QED BY <3>1, ReadyParts, PrivateKept
  <2>4. Fresh(m', low[cr3])
      BY <2>2, ReadyParts DEF Fresh
  <2>5. SpacesOK(m', low, cr3', pages', phase')
      BY <1>1, <1>5, <2>2, <2>3, <2>4, ReadyParts DEF SpacesOK, Sound
  <2>6. SpacesStep(low, cr3, low, cr3')
      BY <1>1, ReadyParts DEF SpacesStep
  <2> QED BY <1>1, <2>5, <2>6, ReadyParts DEF Stepped
<1> QED BY <1>1, <1>4, <1>5

\* sched_yield loads a directory, which empties the TLB.
LEMMA YieldStep == ASSUME NEW low, Ready(low), sched_yield PROVE Stepped(low)
<1>1. PICK d \in {KernelDirectory} \cup DOMAIN phase :
         m' = [m EXCEPT !.tlb = NoTlb] /\ cr3' = d
    BY ReadyParts DEF sched_yield, paging_load_directory
<1>2. UNCHANGED <<kernel_page_directory, pages, phase>>
    BY DEF sched_yield
<1>3. Sound(m', low) /\ m'.tlb = NoTlb
    BY <1>1, ReadyParts, NoTlbFresh, NewTlb
<1>4. d \in DOMAIN low /\ Fresh(m', low[d])
    BY <1>1, <1>3, ReadyParts, NoTlbFresh
<1>5. SpacesOK(m', low, cr3', pages', phase')
    BY <1>1, <1>2, <1>3, <1>4, ReadyParts DEF SpacesOK
<1>6. SpacesStep(low, cr3, low, cr3')
    BY <1>1, <1>4 DEF SpacesStep
<1> QED BY <1>2, <1>5, <1>6, ReadyParts DEF Stepped

\* A space of a process that is empty and not loaded goes away.
LEMMA SpaceGone ==
    ASSUME NEW low, Ready(low), NEW d \in DOMAIN pages, d # cr3, low[d] = Cleared,
           NEW low2, low2 = Without(low, d),
           Shape(m', low2), Private(m', low2),
           \A v \in LowPages : m'.tlb[v] \in {ABSENT, m.tlb[v]},
           pages' = Drop(pages, d), phase' = Drop(phase, d), cr3' = cr3,
           kernel_page_directory' = kernel_page_directory
    PROVE  Stepped(low)
<1>1. /\ DOMAIN low2 = DOMAIN low \ {d}
      /\ \A e \in DOMAIN low \ {d} : low2[e] = low[e]
    BY DEF Without
<1>2. /\ DOMAIN pages' = DOMAIN pages \ {d} /\ \A e \in DOMAIN pages \ {d} : pages'[e] = pages[e]
      /\ DOMAIN phase' = DOMAIN phase \ {d} /\ \A e \in DOMAIN phase \ {d} : phase'[e] = phase[e]
    BY DEF Drop
<1>3. cr3' \in DOMAIN low2 /\ Fresh(m', low2[cr3'])
    BY <1>1, ReadyParts, FreshKept
<1>4. \A e \in DOMAIN pages' : /\ phase'[e] # "running" => pages'[e] = {}
                               /\ Lists(low2[e], pages'[e])
    BY <1>1, <1>2, ReadyParts
<1>5. /\ KernelMap(low2[KernelDirectory]) /\ KernelDirectory \notin DOMAIN pages'
      /\ DOMAIN low2 = {KernelDirectory} \cup DOMAIN pages' /\ DOMAIN phase' = DOMAIN pages'
    BY <1>1, <1>2, ReadyParts
<1>6. SpacesOK(m', low2, cr3', pages', phase')
    BY <1>3, <1>4, <1>5 DEF SpacesOK, Sound
<1>7. d \in DOMAIN low \ {KernelDirectory, cr3}
    BY ReadyParts
<1>8. SpacesStep(low, cr3, low2, cr3')
    BY <1>7 DEF SpacesStep
<1> QED BY <1>6, <1>8, ReadyParts DEF Stepped

\* task_cleanup destroys the space of a process that gave its pages back.
LEMMA CleanupStep == ASSUME NEW low, Ready(low), task_cleanup PROVE Stepped(low)
<1>1. PICK d \in DOMAIN phase \ {cr3} :
         /\ phase[d] = "exited" /\ m' = vmm_destroy_address_space(m, d)
         /\ pages' = Drop(pages, d) /\ phase' = Drop(phase, d)
    BY DEF task_cleanup
<1>2. UNCHANGED <<kernel_page_directory, cr3>>
    BY DEF task_cleanup
<1>3. d \in DOMAIN pages /\ d \in DOMAIN low \ {KernelDirectory} /\ pages[d] = {}
    BY <1>1, ReadyParts
<1>4. low[d] = Cleared
    BY <1>3, ReadyParts, NothingListed
<1> DEFINE low2 == Without(low, d)
<1>5. Shape(m', low2) /\ m'.tlb = m.tlb /\ Keeps(m, low, m', low2)
    BY <1>1, <1>3, ReadyParts, DestroySpace
<1>6. Private(m', low2)
  <2>1. \A e \in DOMAIN low2 : e \in DOMAIN low /\ low2[e] = low[e]
      BY DEF Without
  <2> HIDE DEF low2
  <2> QED BY <1>5, <2>1, ReadyParts, PrivateKept
<1> HIDE DEF low2
<1>7. \A v \in LowPages : m'.tlb[v] \in {ABSENT, m.tlb[v]}
    BY <1>5
<1> QED BY <1>1, <1>2, <1>3, <1>4, <1>5, <1>6, <1>7, SpaceGone DEF low2

\* user_exit_current unmaps the pages of the process and gives them back.
LEMMA ExitStep == ASSUME NEW low, Ready(low), user_exit_current PROVE Stepped(low)
<1>1. /\ cr3 \in DOMAIN phase /\ m' = user_process_free_pages(m, cr3, pages[cr3])
      /\ pages' = [pages EXCEPT ![cr3] = {}] /\ phase' = [phase EXCEPT ![cr3] = "exited"]
      /\ UNCHANGED <<kernel_page_directory, cr3>>
    BY DEF user_exit_current
<1>2. cr3 \in DOMAIN low \ {KernelDirectory} /\ cr3 \in DOMAIN pages /\ Lists(low[cr3], pages[cr3])
    BY <1>1, ReadyParts
<1> DEFINE low2 == [low EXCEPT ![cr3] = Cleared]
<1>3. /\ Sound(m', low2)
      /\ \A u \in LowPages : m'.tlb[u] \in {ABSENT, m.tlb[u]}
      /\ \A p \in pages[cr3] : m'.tlb[p[1]] = ABSENT
    BY <1>1, <1>2, ReadyParts, FreePages
<1>4. /\ DOMAIN low2 = DOMAIN low /\ low2[cr3] = Cleared
      /\ \A e \in DOMAIN low \ {cr3} : low2[e] = low[e]
    BY <1>2
<1> HIDE DEF low2
<1>5. Fresh(m', low2[cr3])
  <2> SUFFICES ASSUME NEW v \in LowPages PROVE m'.tlb[v] = ABSENT
      BY DEF Fresh
  <2>1. CASE m.tlb[v] = ABSENT
      BY <1>3, <2>1
  <2>2. CASE m.tlb[v] # ABSENT
    <3>1. View(low[cr3], v) # ABSENT
        BY <2>2, ReadyParts DEF Fresh
    <3>2. PDE(v) = 0 /\ low[cr3][PTE(v)] # Zero
        BY <3>1 DEF View, ABSENT
    <3>3. PTE(v) \in Index /\ v = <<PDE(v), PTE(v)>>
        BY DEF LowPages, PDE, PTE
    <3>4. \E p \in pages[cr3] : p[1] = v
        BY <1>2, <3>2, <3>3 DEF Lists
    <3> QED BY <1>3, <3>4
  <2> QED BY <2>1, <2>2
<1>6. /\ DOMAIN pages' = DOMAIN pages /\ pages'[cr3] = {}
      /\ \A e \in DOMAIN pages \ {cr3} : pages'[e] = pages[e]
      /\ DOMAIN phase' = DOMAIN phase /\ \A e \in DOMAIN phase \ {cr3} : phase'[e] = phase[e]
    BY <1>1, <1>2
<1>7. \A e \in DOMAIN pages' : /\ phase'[e] # "running" => pages'[e] = {}
                               /\ Lists(low2[e], pages'[e])
    BY <1>4, <1>6, ReadyParts, ClearedListsNothing
<1>8. SpacesOK(m', low2, cr3', pages', phase')
    BY <1>1, <1>2, <1>3, <1>4, <1>5, <1>6, <1>7, ReadyParts DEF SpacesOK
<1>9. SpacesStep(low, cr3, low2, cr3')
  <2>1. \A j \in Index : low2[cr3][j] = Zero
      BY <1>4, NotPresent
  <2>2. OnlySpace(low, low2, cr3)
      BY <1>4 DEF OnlySpace
  <2> QED BY <1>1, <1>2, <2>1, <2>2 DEF SpacesStep
<1> QED BY <1>1, <1>8, <1>9, ReadyParts DEF Stepped

\* user_exec_task maps code and stack in its own space and loads it, or undoes
\* all of it.
LEMMA ExecStep == ASSUME NEW low, Ready(low), user_exec_task PROVE Stepped(low)
<1>1. PICK d \in DOMAIN pages, image_ok \in BOOLEAN :
         LET r0 == [mem |-> m, pages |-> {}, ok |-> image_ok]
             r1 == map_copied_user_page(r0, d, CODE, Garbage, {})
             r2 == map_copied_user_page(r1, d, STACK, Cleared, {W})
         IN  /\ phase[d] = "created"
             /\ IF r2.ok
                THEN /\ paging_load_directory(r2.mem, d)
                     /\ pages' = [pages EXCEPT ![d] = r2.pages]
                     /\ phase' = [phase EXCEPT ![d] = "running"]
                ELSE /\ m' = vmm_destroy_address_space(
                                user_process_free_pages(r2.mem, d, r2.pages), d)
                     /\ pages' = Drop(pages, d)
                     /\ phase' = Drop(phase, d)
                     /\ UNCHANGED cr3
    BY DEF user_exec_task
<1>2. cr3 = KernelDirectory /\ kernel_page_directory' = kernel_page_directory
    BY ReadyParts DEF user_exec_task, InKernelSpace
<1> DEFINE r0 == [mem |-> m, pages |-> {}, ok |-> image_ok]
           r1 == map_copied_user_page(r0, d, CODE, Garbage, {})
           r2 == map_copied_user_page(r1, d, STACK, Cleared, {W})
<1>3. d \in DOMAIN low \ {KernelDirectory} /\ pages[d] = {} /\ low[d] = Cleared
  <2>1. phase[d] = "created"
      BY <1>1
  <2>2. d \in DOMAIN low \ {KernelDirectory} /\ pages[d] = {}
      BY <2>1, ReadyParts
  <2>3. Lists(low[d], {}) /\ low[d] \in PageTables
      BY <2>2, ReadyParts
  <2> QED BY <2>2, <2>3, NothingListed
<1>4. Lists(low[d], {})
    BY <1>3, ReadyParts
<1>5. /\ r0.mem = m /\ r0.pages = {} /\ r0.ok \in BOOLEAN
      /\ r0 = [mem |-> r0.mem, pages |-> r0.pages, ok |-> r0.ok]
    OBVIOUS
<1> HIDE DEF r0
<1>6. /\ r1 = [mem |-> r1.mem, pages |-> r1.pages, ok |-> r1.ok] /\ r1.ok \in BOOLEAN
      /\ \A p \in r1.pages : p[1] = CODE
      /\ \A u \in LowPages : r1.mem.tlb[u] \in {ABSENT, m.tlb[u]}
      /\ \E low1 : /\ Sound(r1.mem, low1) /\ DOMAIN low1 = DOMAIN low
                   /\ \A e \in DOMAIN low \ {d} : low1[e] = low[e]
                   /\ Lists(low1[d], r1.pages)
  <2>1. {P, U} \cup {} = Rights(CODE) /\ CODE \in {CODE, STACK}
      BY ProgramPages DEF Rights
  <2>2. Sound(r0.mem, low) /\ Lists(low[d], r0.pages) /\ \A p \in r0.pages : p[1] # CODE
      BY <1>4, <1>5, ReadyParts
  <2>3. r1 = map_copied_user_page(r0, d, CODE, Garbage, {}) /\ Garbage \in PageTables
      BY NotPresent
  <2> HIDE DEF r1
  <2> QED BY <1>3, <1>5, <2>1, <2>2, <2>3, CopiedPage
<1>7. PICK low1 : /\ Sound(r1.mem, low1) /\ DOMAIN low1 = DOMAIN low
                  /\ \A e \in DOMAIN low \ {d} : low1[e] = low[e]
                  /\ Lists(low1[d], r1.pages)
    BY <1>6
<1> HIDE DEF r1
<1>8. /\ r2.ok \in BOOLEAN
      /\ r2.ok => \E p \in r2.pages : p[1] = STACK
      /\ \A u \in LowPages : r2.mem.tlb[u] \in {ABSENT, r1.mem.tlb[u]}
      /\ \E low2 : /\ Sound(r2.mem, low2) /\ DOMAIN low2 = DOMAIN low1
                   /\ \A e \in DOMAIN low1 \ {d} : low2[e] = low1[e]
                   /\ Lists(low2[d], r2.pages)
  <2> DEFINE flags == {W}
  <2>1. {P, U} \cup flags = Rights(STACK) /\ STACK \in {CODE, STACK}
      BY DEF Rights
  <2>2. \A p \in r1.pages : p[1] # STACK
      BY <1>6, ProgramPages
  <2>3. /\ r2 = map_copied_user_page(r1, d, STACK, Cleared, flags) /\ Cleared \in PageTables
        /\ d \in DOMAIN low1 \ {KernelDirectory}
      BY <1>3, <1>7, NotPresent
  <2>4. /\ r1 = [mem |-> r1.mem, pages |-> r1.pages, ok |-> r1.ok] /\ r1.ok \in BOOLEAN
        /\ Sound(r1.mem, low1) /\ Lists(low1[d], r1.pages)
      BY <1>6, <1>7
  <2> HIDE DEF r2, flags
  <2> QED BY <2>1, <2>2, <2>3, <2>4, CopiedPage
<1>9. PICK low2 : /\ Sound(r2.mem, low2) /\ DOMAIN low2 = DOMAIN low
                  /\ \A e \in DOMAIN low \ {d} : low2[e] = low[e]
                  /\ Lists(low2[d], r2.pages)
    BY <1>7, <1>8
<1>10. \A u \in LowPages : r2.mem.tlb[u] \in {ABSENT, m.tlb[u]}
    BY <1>6, <1>8
<1>11. /\ phase[d] = "created"
       /\ IF r2.ok
          THEN /\ m' = [r2.mem EXCEPT !.tlb = NoTlb] /\ cr3' = d
               /\ pages' = [pages EXCEPT ![d] = r2.pages]
               /\ phase' = [phase EXCEPT ![d] = "running"]
          ELSE /\ m' = vmm_destroy_address_space(
                          user_process_free_pages(r2.mem, d, r2.pages), d)
               /\ pages' = Drop(pages, d)
               /\ phase' = Drop(phase, d)
               /\ cr3' = cr3
    BY <1>1 DEF paging_load_directory, r0, r1
<1> HIDE DEF r2
<1>12. CASE r2.ok
  <2>1. Sound(m', low2) /\ m'.tlb = NoTlb
      BY <1>9, <1>11, <1>12, NoTlbFresh, NewTlb
  <2>2. Fresh(m', low2[d])
      BY <2>1, NoTlbFresh
  <2>3. /\ DOMAIN pages' = DOMAIN pages /\ pages'[d] = r2.pages
        /\ \A e \in DOMAIN pages \ {d} : pages'[e] = pages[e]
        /\ DOMAIN phase' = DOMAIN phase /\ phase'[d] = "running"
        /\ \A e \in DOMAIN phase \ {d} : phase'[e] = phase[e]
      BY <1>11, <1>12, ReadyParts
  <2>4. \A e \in DOMAIN pages' : /\ phase'[e] # "running" => pages'[e] = {}
                                 /\ Lists(low2[e], pages'[e])
      BY <1>9, <2>3, ReadyParts, SMTT(60)
  <2>5. SpacesOK(m', low2, cr3', pages', phase')
      BY <1>3, <1>9, <1>11, <1>12, <2>1, <2>2, <2>3, <2>4, ReadyParts, SMTT(60)
         DEF SpacesOK
  <2>6. \A j \in Index : low[d][j] = Zero
      BY <1>3, NotPresent
  <2>7. \A j \in Index : low2[d][j] # Zero => low2[d][j].frame \in Frames
    <3> SUFFICES ASSUME NEW j \in Index, low2[d][j] # Zero PROVE low2[d][j].frame \in Frames
        OBVIOUS
    <3>1. PICK p \in r2.pages : p[1] = <<0, j>>
        BY <1>9 DEF Lists
    <3>2. p[2] \in Frames /\ low2[d][PTE(p[1])] = Entry(p[2], Rights(p[1]))
        BY <1>9 DEF Lists
    <3>3. PTE(p[1]) = j
        BY <3>1 DEF PTE
    <3> QED BY <3>2, <3>3 DEF Entry
  <2>8. \E j \in Index : low2[d][j] # Zero
    <3>1. PICK p \in r2.pages : p[1] = STACK
        BY <1>8, <1>12
    <3>2. low2[d][PTE(STACK)] = Entry(p[2], Rights(STACK))
        BY <1>9, <3>1 DEF Lists
    <3>3. Entry(p[2], Rights(STACK)) # Zero
        BY DEF Entry, Rights, Zero
    <3> QED BY <3>2, <3>3, ProgramPages, Sizes
  <2>9. SpacesStep(low, cr3, low2, cr3')
    <3>1. OnlySpace(low, low2, d)
        BY <1>9 DEF OnlySpace
    <3> QED BY <1>3, <1>11, <1>12, <2>6, <2>7, <2>8, <3>1 DEF SpacesStep
  <2> QED BY <1>2, <2>5, <2>9, ReadyParts DEF Stepped
<1>13. CASE ~r2.ok
  <2> DEFINE y == user_process_free_pages(r2.mem, d, r2.pages)
             low3 == [low2 EXCEPT ![d] = Cleared]
             low4 == Without(low, d)
  <2>1. d \in DOMAIN low2 \ {KernelDirectory}
      BY <1>3, <1>9
  <2>2. Sound(y, low3) /\ \A u \in LowPages : y.tlb[u] \in {ABSENT, r2.mem.tlb[u]}
    <3> HIDE DEF low3
    <3> QED BY <1>9, <2>1, FreePages DEF low3
  <2>3. /\ DOMAIN low3 = DOMAIN low /\ low3[d] = Cleared
        /\ \A e \in DOMAIN low \ {d} : low3[e] = low[e]
      BY <1>9, <2>1
  <2> HIDE DEF y, low3
  <2>4. Without(low3, d) = low4
      BY <2>3 DEF Without
  <2>5. Shape(y, low3) /\ Private(y, low3) /\ d \in DOMAIN low3 \ {KernelDirectory}
      BY <1>3, <2>2, <2>3 DEF Sound
  <2>6. Shape(m', low4) /\ m'.tlb = y.tlb /\ Keeps(y, low3, m', low4)
    <3>1. m' = vmm_destroy_address_space(y, d)
        BY <1>11, <1>13 DEF y
    <3>2. /\ Shape(m', Without(low3, d)) /\ m'.tlb = y.tlb
          /\ Keeps(y, low3, m', Without(low3, d))
        BY <2>5, <3>1, ReadyParts, DestroySpace
    <3> QED BY <2>4, <3>2
  <2>7. Private(m', low4)
    <3>1. \A e \in DOMAIN low4 : e \in DOMAIN low3 /\ low4[e] = low3[e]
        BY <2>3 DEF Without
    <3> HIDE DEF low4
    <3> QED BY <2>5, <2>6, <3>1, PrivateKept
  <2>8. \A v \in LowPages : m'.tlb[v] \in {ABSENT, m.tlb[v]}
      BY <1>10, <2>2, <2>6
  <2>9. d # cr3 /\ d \in DOMAIN pages
      BY <1>2, <1>3
  <2> HIDE DEF low4
  <2> QED BY <1>2, <1>3, <1>11, <1>13, <2>6, <2>7, <2>8, <2>9, SpaceGone DEF low4
<1> QED BY <1>12, <1>13

\* The processor remembers a translation of the loaded directory.
LEMMA TlbFillStep == ASSUME NEW low, Ready(low), TlbFill PROVE Stepped(low)
<1>1. PICK v \in LowPages, kept \in SUBSET Remembered :
         m' = [m EXCEPT !.tlb = [u \in LowPages |->
                 IF u = v THEN Walk(m, cr3, v) ELSE IF u \in kept THEN @[u] ELSE ABSENT]]
    BY DEF TlbFill
<1>2. UNCHANGED <<kernel_page_directory, cr3, pages, phase>>
    BY DEF TlbFill
<1> DEFINE tlb == [u \in LowPages |->
                     IF u = v THEN Walk(m, cr3, v) ELSE IF u \in kept THEN m.tlb[u] ELSE ABSENT]
<1>3. m' = [m EXCEPT !.tlb = tlb]
    BY <1>1
<1>4. Walk(m, cr3, v) = View(low[cr3], v)
    BY ReadyParts, WalkLow
<1>5. View(low[cr3], v) \in PageEntries
  <2>1. low[cr3] \in [Index -> PageEntries] /\ PTE(v) \in Index
      BY ReadyParts DEF PageTables, LowPages, PTE
  <2> QED BY <2>1, NotPresent DEF View, ABSENT
<1>6. m.tlb \in [LowPages -> PageEntries] /\ ABSENT \in PageEntries
    BY ReadyParts, NotPresent DEF Machine, ABSENT
<1>7. tlb \in [LowPages -> PageEntries]
    BY <1>4, <1>5, <1>6
<1>8. \A u \in LowPages : tlb[u] \in {ABSENT, View(low[cr3], u)}
    BY <1>4, ReadyParts DEF Fresh
<1> HIDE DEF tlb
<1>9. Sound(m', low) /\ m'.tlb = tlb
    BY <1>3, <1>7, ReadyParts, NewTlb
<1>10. Fresh(m', low[cr3])
    BY <1>8, <1>9 DEF Fresh
<1>11. SpacesOK(m', low, cr3', pages', phase')
    BY <1>2, <1>9, <1>10, ReadyParts DEF SpacesOK
<1>12. SpacesStep(low, cr3, low, cr3')
    BY <1>2, ReadyParts DEF SpacesStep
<1> QED BY <1>2, <1>11, <1>12, ReadyParts DEF Stepped

\* A program stores to a frame of its own, which is no directory and no table.
LEMMA StoreStep == ASSUME NEW low, Ready(low), UserStore PROVE Stepped(low)
<1>1. PICK v \in LowPages :
         Translation(v) # ABSENT /\ m' = [m EXCEPT !.ram[Translation(v).frame] = Garbage]
    BY DEF UserStore
<1>2. cr3 \in DOMAIN phase /\ UNCHANGED <<kernel_page_directory, cr3, pages, phase>>
    BY DEF UserStore
<1>3. Walk(m, cr3, v) = View(low[cr3], v)
    BY ReadyParts, WalkLow
<1>4. Translation(v) = View(low[cr3], v)
    BY <1>1, <1>3, ReadyParts DEF Translation, Fresh
<1> DEFINE e == low[cr3][PTE(v)]
           f == e.frame
<1>5. PTE(v) \in Index /\ Translation(v) = e /\ e # Zero
  <2>1. PTE(v) \in Index
      BY DEF LowPages, PTE
  <2> QED BY <1>1, <1>4, <2>1 DEF View, ABSENT
<1>6. cr3 \in DOMAIN low \ {KernelDirectory}
    BY <1>2, ReadyParts
<1>7. P \in e.flags
    BY <1>5, <1>6, ReadyParts DEF Shape, Maps
<1>8. f \in Mapped(low[cr3])
    BY <1>5, <1>7, MappedEntry
<1>9. f \in m.used /\ ~IsStructure(m, low, f)
    BY <1>6, <1>8, ReadyParts DEF Private
<1>10. m' = [m EXCEPT !.ram[f] = Garbage]
    BY <1>1, <1>5
<1> HIDE DEF f
<1>11. f \in Frames /\ m.ram \in [Frames -> PageTables] /\ m = [ram |-> m.ram, used |-> m.used, tlb |-> m.tlb]
    BY <1>9, ReadyParts DEF Machine
<1>12. m' = [ram |-> [m.ram EXCEPT ![f] = Garbage], used |-> m.used, tlb |-> m.tlb]
    BY <1>10, <1>11
<1>13. /\ m' \in Machine /\ m'.used = m.used /\ m'.tlb = m.tlb
       /\ \A g \in Frames \ {f} : m'.ram[g] = m.ram[g]
    BY <1>11, <1>12, ReadyParts, NotPresent DEF Machine
<1>14. \A g \in Frames : IsStructure(m, low, g) => g \in m'.used /\ m'.ram[g] = m.ram[g]
    BY <1>9, <1>13, ReadyParts DEF Shape, Reach
<1>15. Shape(m', low) /\ \A g : IsStructure(m', low, g) <=> IsStructure(m, low, g)
    BY <1>13, <1>14, ReadyParts, SameShape
<1>16. Private(m', low) /\ Fresh(m', low[cr3])
    BY <1>13, <1>15, ReadyParts DEF Private, Fresh
<1>17. SpacesOK(m', low, cr3', pages', phase')
    BY <1>2, <1>15, <1>16, ReadyParts DEF SpacesOK, Sound
<1>18. SpacesStep(low, cr3, low, cr3')
    BY <1>2, ReadyParts DEF SpacesStep
<1> QED BY <1>2, <1>17, <1>18, ReadyParts DEF Stepped

\* vmm_init maps the kernel half, and nothing below it.
LEMMA InitStep ==
    ASSUME VmmInit, vmm_init
    PROVE  /\ kernel_page_directory' = KernelDirectory
           /\ SpacesOK(m', [d \in {KernelDirectory} |-> Cleared], cr3', pages', phase')
<1> DEFINE low == [d \in {KernelDirectory} |-> Cleared]
           dir == pmm_alloc_page(m)
           table == [i \in KernelIndex |-> dir + 1 + i - KERNEL_PDE_INDEX]
           Filled(i) == [j \in Index |-> Entry((i - KERNEL_PDE_INDEX) * Entries + j, {P, W})]
<1>1. /\ m.used = {0} /\ m.ram = [f \in Frames |-> Garbage]
      /\ pages = <<>> /\ phase = <<>>
    BY DEF VmmInit
<1>2. dir = 1
  <2>1. \A f \in Frames \ {0} : 1 <= f
      BY Sizes DEF Frames
  <2>2. 1 \in Frames \ {0} /\ Frames \ {0} # {}
      BY Sizes
  <2>3. \A f \in Frames \ {0} : f <= 1 => f = 1
      BY <2>1, Sizes DEF Frames
  <2>4. First(Frames \ {0}) = 1
      BY <2>1, <2>2, <2>3 DEF First
  <2> QED BY <1>1, <2>4 DEF pmm_alloc_page
<1>3. \A i \in KernelIndex : table[i] = KernelTable(i)
    BY <1>2, Sizes DEF KernelTable, Index
<1>4. /\ m' = [ram |-> [f \in Frames |->
                 IF f = dir
                 THEN [i \in Index |->
                         IF i \in DOMAIN table THEN Entry(table[i], {P, W}) ELSE Zero]
                 ELSE IF \E i \in DOMAIN table : table[i] = f
                 THEN Filled(CHOOSE i \in DOMAIN table : table[i] = f)
                 ELSE m.ram[f]],
              used |-> m.used \cup {dir} \cup {table[i] : i \in DOMAIN table},
              tlb |-> NoTlb]
      /\ kernel_page_directory' = dir /\ cr3' = dir /\ pages' = pages /\ phase' = phase
    BY DEF vmm_init
<1>5. DOMAIN table = KernelIndex
    OBVIOUS
<1> HIDE DEF dir, table
<1>6. /\ m'.tlb = NoTlb /\ m'.used = {0, 1} \cup KernelTableFrames
      /\ m'.ram[1] = [i \in Index |-> KernelEntry(i)]
      /\ \A f \in Frames \ {1} : m'.ram[f] =
            IF f \in KernelTableFrames
            THEN Filled(CHOOSE i \in KernelIndex : KernelTable(i) = f) ELSE Garbage
  <2>1. {table[i] : i \in KernelIndex} = KernelTableFrames
      BY <1>3 DEF KernelTableFrames
  <2>2. m'.used = {0, 1} \cup KernelTableFrames
      BY <1>1, <1>2, <1>4, <1>5, <2>1
  <2>3. m'.ram[1] = [i \in Index |-> KernelEntry(i)]
    <3>1. m'.ram[1] = [i \in Index |-> IF i \in KernelIndex THEN Entry(table[i], {P, W}) ELSE Zero]
        BY <1>2, <1>4, <1>5, Sizes
    <3> QED BY <1>3, <3>1 DEF KernelEntry
  <2>4. \A f \in Frames \ {1} : m'.ram[f] =
           IF \E i \in KernelIndex : table[i] = f
           THEN Filled(CHOOSE i \in KernelIndex : table[i] = f) ELSE Garbage
      BY <1>1, <1>2, <1>4, <1>5
  <2>5. \A f : (CHOOSE i \in KernelIndex : table[i] = f) = (CHOOSE i \in KernelIndex : KernelTable(i) = f)
      BY <1>3
  <2>6. \A f : (\E i \in KernelIndex : table[i] = f) <=> f \in KernelTableFrames
      BY <1>3 DEF KernelTableFrames
  <2> HIDE DEF Filled
  <2> QED BY <1>4, <2>2, <2>3, <2>4, <2>5, <2>6, ZenonT(90)
<1>7. \A i \in KernelIndex : m'.ram[KernelTable(i)] = DirectMap(i)
  <2> SUFFICES ASSUME NEW i \in KernelIndex PROVE m'.ram[KernelTable(i)] = DirectMap(i)
      OBVIOUS
  <2>1. KernelTable(i) \in KernelTableFrames /\ KernelTable(i) \in Frames \ {1}
      BY Sizes DEF KernelTableFrames
  <2>2. (CHOOSE k \in KernelIndex : KernelTable(k) = KernelTable(i)) = i
      BY KernelTablesApart
  <2> QED BY <1>6, <2>1, <2>2 DEF DirectMap
<1>8. m' \in Machine
  <2>1. \A i \in Index : KernelEntry(i) \in PageEntries
      BY Sizes, NotPresent DEF KernelEntry, Entry, PageEntries, Frames
  <2>2. m'.ram[1] \in PageTables
      BY <1>6, <2>1 DEF PageTables
  <2>3. \A i \in KernelIndex : DirectMap(i) \in PageTables
    <3> SUFFICES ASSUME NEW i \in KernelIndex, NEW j \in Index
                 PROVE  Entry((i - KERNEL_PDE_INDEX) * Entries + j, {P, W}) \in PageEntries
        BY DEF DirectMap, PageTables
    <3>1. i - KERNEL_PDE_INDEX \in Nat /\ j \in Nat
        BY Sizes DEF KernelIndex, Index
    <3>2. (i - KERNEL_PDE_INDEX) * Entries + j \in Nat
        BY <3>1, Sizes
    <3> QED BY <3>2 DEF Entry, PageEntries
  <2>4. \A f \in Frames : m'.ram[f] \in PageTables
    <3> SUFFICES ASSUME NEW f \in Frames \ {1} PROVE m'.ram[f] \in PageTables
        BY <2>2
    <3>1. CASE f \in KernelTableFrames
      <4>1. PICK i \in KernelIndex : f = KernelTable(i)
          BY <3>1 DEF KernelTableFrames
      <4> QED BY <1>7, <2>3, <4>1
    <3>2. CASE f \notin KernelTableFrames
        BY <1>6, <3>2, NotPresent
    <3> QED BY <3>1, <3>2
  <2>5. /\ m' = [ram |-> m'.ram, used |-> m'.used, tlb |-> m'.tlb]
        /\ m'.ram = [f \in Frames |-> m'.ram[f]]
    <3> DEFINE Frame(f) == IF f = dir
                           THEN [i \in Index |-> IF i \in DOMAIN table THEN Entry(table[i], {P, W}) ELSE Zero]
                           ELSE IF \E i \in DOMAIN table : table[i] = f
                           THEN Filled(CHOOSE i \in DOMAIN table : table[i] = f)
                           ELSE m.ram[f]
    <3>1. PICK u : m' = [ram |-> [f \in Frames |-> Frame(f)], used |-> u, tlb |-> NoTlb]
        BY <1>4
    <3> HIDE DEF Frame
    <3> QED BY <3>1
  <2>6. m'.ram \in [Frames -> PageTables]
      BY <2>4, <2>5
  <2>7. m'.used \subseteq Frames
      BY <1>6, Sizes, KernelTablesApart
  <2>8. m'.tlb \in [LowPages -> PageEntries]
      BY <1>6, NoTlbFresh
  <2> QED BY <2>5, <2>6, <2>7, <2>8 DEF Machine
<1>9. /\ DOMAIN low = {KernelDirectory} /\ low[KernelDirectory] = Cleared
      /\ low \in [DOMAIN low -> PageTables]
    BY NotPresent
<1> HIDE DEF low
<1>10. ~Has(m', 1) /\ Maps(m', 1, Cleared)
  <2>1. m'.ram[1][0] = Zero /\ \A i \in Index : m'.ram[1][i] = KernelEntry(i)
      BY <1>6, Sizes DEF KernelEntry
  <2> QED BY <2>1, NotPresent DEF Has, Maps
<1>11. \A f : IsStructure(m', low, f) <=> f = 1 \/ f \in KernelTableFrames
    BY <1>9, <1>10 DEF IsStructure, KernelDirectory
<1>12. Shape(m', low)
  <2>1. \A f \in Frames : IsStructure(m', low, f) => f \in Reach(m')
    <3>1. \A f \in KernelTableFrames : f # 0 /\ f < DirectMapPages
        BY Sizes DEF KernelTableFrames
    <3> QED BY <1>6, <1>11, <3>1, Sizes DEF Reach, NULL
  <2>2. \A i \in KernelIndex : KernelTable(i) \notin DOMAIN low
      BY <1>9, Sizes DEF KernelDirectory
  <2>3. DOMAIN low \subseteq Frames
      BY <1>9, Sizes DEF KernelDirectory
  <2> QED BY <1>7, <1>8, <1>9, <1>10, <2>1, <2>2, <2>3 DEF Shape, KernelDirectory
<1>13. Private(m', low)
    BY <1>9 DEF Private
<1>14. KernelMap(Cleared)
    BY NotPresent DEF KernelMap
<1>15. cr3' = KernelDirectory /\ kernel_page_directory' = KernelDirectory /\ DOMAIN pages' = {} /\ DOMAIN phase' = {}
    BY <1>1, <1>2, <1>4 DEF KernelDirectory
<1>16. Fresh(m', low[KernelDirectory])
    BY <1>6, NoTlbFresh
<1> QED BY <1>9, <1>12, <1>13, <1>14, <1>15, <1>16 DEF SpacesOK, Sound, low

\* The operations refuse a directory that was not allocated.
LEMMA NullSpace ==
    ASSUME NEW x
    PROVE  /\ \A v, f, flags : vmm_map_page_in(x, NULL, v, f, flags) = [mem |-> x, ret |-> -1]
           /\ \A v : vmm_unmap_page_in(x, NULL, v) = x
           /\ vmm_destroy_address_space(x, NULL) = x
<1>1. \A v, f, flags : vmm_map_page_in(x, NULL, v, f, flags) = [mem |-> x, ret |-> -1]
  <2> SUFFICES ASSUME NEW v, NEW f, NEW flags
               PROVE  vmm_map_page_in(x, NULL, v, f, flags) = [mem |-> x, ret |-> -1]
      OBVIOUS
  <2> QED BY Zenon DEF vmm_map_page_in
<1>2. \A v : vmm_get_page_table_in(x, NULL, v) = NULL
    BY DEF vmm_get_page_table_in
<1>3. \A v : vmm_unmap_page_in(x, NULL, v) = x
    BY <1>2 DEF vmm_unmap_page_in
<1>4. vmm_destroy_address_space(x, NULL) = x
    BY DEF vmm_destroy_address_space
<1> QED BY <1>1, <1>3, <1>4

\* A page that is mapped, perhaps, and unmapped again.
LEMMA ThereAndBack ==
    ASSUME NEW low, low \in [DOMAIN low -> PageTables], NEW d \in DOMAIN low, low[d] = Cleared,
           NEW j \in Index, NEW e, NEW low2, low2 = low \/ low2 = WithEntry(low, d, j, e),
           low2 \in [DOMAIN low2 -> PageTables]
    PROVE  WithEntry(low2, d, j, Zero) = low
<1> DEFINE low3 == WithEntry(low2, d, j, Zero)
<1>1. /\ DOMAIN low2 = DOMAIN low
      /\ \A i \in Index \ {j} : low2[d][i] = low[d][i]
      /\ \A g \in DOMAIN low \ {d} : low2[g] = low[g]
    BY SetIs
<1>2. /\ DOMAIN low3 = DOMAIN low2 /\ low3[d][j] = Zero
      /\ \A i \in Index \ {j} : low3[d][i] = low2[d][i]
      /\ \A g \in DOMAIN low2 \ {d} : low3[g] = low2[g]
    BY <1>1, SetIs
<1>3. low3[d] = [low2[d] EXCEPT ![j] = Zero] /\ low2[d] \in [Index -> PageEntries]
    BY <1>1 DEF WithEntry, PageTables
<1>4. low3 = [g \in DOMAIN low |-> low3[g]]
    BY <1>1, <1>2 DEF WithEntry
<1> HIDE DEF low3
<1>5. \A i \in Index : low3[d][i] = Zero
    BY <1>1, <1>2, NotPresent
<1>6. low3[d] = [i \in Index |-> low3[d][i]]
    BY <1>3
<1>7. low3[d] = low[d]
    BY <1>5, <1>6 DEF Cleared
<1>8. \A g \in DOMAIN low : low3[g] = low[g]
    BY <1>1, <1>2, <1>7
<1> QED BY <1>4, <1>8 DEF low3

\* The first part of cmd_vmmtest leaves everybody's spaces as they were.
LEMMA Scratch ==
    ASSUME NEW low, Ready(low), NEW y, y = VmmtestScratch
    PROVE  /\ Shape(y, low) /\ Private(y, low)
           /\ \A u \in LowPages : y.tlb[u] \in {ABSENT, m.tlb[u]}
<1> DEFINE space == vmm_create_address_space(m)
           d     == space.ret
           page  == pmm_alloc_page(space.mem)
           taken == IF page = NULL THEN space.mem ELSE SetUsed(space.mem, page)
           flags == {P, W, U}
           once  == vmm_map_page_in(taken, d, CODE, page, flags)
           twice == vmm_map_page_in(once.mem, d, CODE, page, flags)
           bare  == vmm_unmap_page_in(twice.mem, d, CODE)
           gone  == Release(bare, {page})
<1>1. y = vmm_destroy_address_space(gone, d)
    BY DEF VmmtestScratch, pmm_free_page
<1> DEFINE low1 == IF d = NULL THEN low ELSE Extended(low, d)
<1>2. /\ Shape(space.mem, low1) /\ Keeps(m, low, space.mem, low1) /\ space.mem.tlb = m.tlb
      /\ d # NULL => d \notin DOMAIN low
  <2>1. space = vmm_create_address_space(m)
      OBVIOUS
  <2> HIDE DEF space
  <2>2. \/ space.ret = NULL /\ space.mem = m
        \/ /\ space.ret \in Frames \ m.used /\ space.ret \notin DOMAIN low
           /\ Shape(space.mem, Extended(low, space.ret))
           /\ Keeps(m, low, space.mem, Extended(low, space.ret))
           /\ space.mem.tlb = m.tlb
      BY <2>1, ReadyParts, CreateSpace
  <2>3. CASE space.ret = NULL /\ space.mem = m
      BY <2>3, ReadyParts DEF Keeps
  <2>4. CASE /\ space.ret \in Frames \ m.used /\ space.ret \notin DOMAIN low
             /\ Shape(space.mem, Extended(low, space.ret))
             /\ Keeps(m, low, space.mem, Extended(low, space.ret))
             /\ space.mem.tlb = m.tlb
    <3>1. space.ret # NULL
        BY <2>4 DEF Shape, IsStructure, Reach, Extended
    <3> QED BY <2>4, <3>1
  <2> QED BY <2>2, <2>3, <2>4
<1>3. /\ d # NULL => /\ DOMAIN low1 = DOMAIN low \cup {d} /\ low1[d] = Cleared
                     /\ \A e \in DOMAIN low : low1[e] = low[e]
                     /\ Without(low1, d) = low
      /\ d = NULL => low1 = low
  <2> HIDE DEF space
  <2>1. CASE d = NULL
      BY <2>1
  <2>2. CASE d # NULL
    <3>1. low1 = Extended(low, d) /\ d \notin DOMAIN low /\ low \in [DOMAIN low -> PageTables]
        BY <1>2, <2>2, ReadyParts
    <3> HIDE DEF low1, d
    <3>2. /\ DOMAIN low1 = DOMAIN low \cup {d} /\ low1[d] = Cleared
          /\ \A e \in DOMAIN low : low1[e] = low[e]
          /\ Without(low1, d) = low
        BY <3>1, ExtendedIs
    <3> QED BY <2>2, <3>2
  <2> QED BY <2>1, <2>2
<1> HIDE DEF space, low1
<1>4. /\ Shape(taken, low1) /\ Keeps(space.mem, low1, taken, low1) /\ taken.tlb = m.tlb
      /\ page \in Nat /\ (page # NULL => page \notin space.mem.used /\ page \in taken.used)
      /\ page # NULL => ~IsStructure(taken, low1, page)
  <2>1. CASE page = NULL
      BY <1>2, <2>1 DEF Keeps, NULL
  <2>2. CASE page # NULL
    <3>1. page \in Frames \ space.mem.used
        BY <1>2, <2>2, AllocFree DEF Shape
    <3>2. taken = SetUsed(space.mem, page) /\ page \in Nat
        BY <2>2, <3>1, Sizes DEF Frames
    <3> HIDE DEF page, taken
    <3>3. /\ Shape(taken, low1) /\ Keeps(space.mem, low1, taken, low1)
          /\ taken.tlb = space.mem.tlb /\ page \in taken.used /\ ~IsStructure(taken, low1, page)
        BY <1>2, <3>1, <3>2, NotPresent, TakeFrame
    <3> QED BY <1>2, <3>1, <3>2, <3>3
  <2> QED BY <2>1, <2>2
<1> HIDE DEF page, taken
<1>5. /\ Shape(bare, low1) /\ Keeps(taken, low1, bare, low1)
      /\ \A u \in LowPages : bare.tlb[u] \in {ABSENT, m.tlb[u]}
  <2>1. CASE d = NULL
    <3>1. bare = taken
        BY <2>1, NullSpace
    <3> HIDE DEF bare
    <3> QED BY <1>4, <3>1 DEF Keeps
  <2>2. CASE d # NULL
    <3> DEFINE e == Entry(page, flags)
               low2 == WithEntry(low1, d, PTE(CODE), e)
    <3>1. /\ CODE \in LowPages /\ PDE(CODE) = 0 /\ PTE(CODE) \in Index /\ d \in DOMAIN low1
          /\ low1[d] = Cleared /\ P \notin low1[d][PTE(CODE)].flags
        BY <1>3, <2>2, ProgramPages, Sizes, NotPresent
    <3>2. flags \in SUBSET {P, W, U} /\ P \in flags
        OBVIOUS
    <3>3. /\ once = vmm_map_page_in(taken, d, CODE, page, flags)
          /\ twice = vmm_map_page_in(once.mem, d, CODE, page, flags)
        OBVIOUS
    <3>4. low1 \in [DOMAIN low1 -> PageTables] /\ low2[d][PTE(CODE)] = e /\ e.flags = flags
      <4>1. low1 \in [DOMAIN low1 -> PageTables]
          BY <1>4 DEF Shape
      <4>2. e.flags = flags
          BY DEF Entry
      <4> HIDE DEF e
      <4> QED BY <3>1, <4>1, <4>2, SetIs
    <3> HIDE DEF flags, once, twice, low2, d
    <3>5. \/ /\ Shape(once.mem, low1) /\ Keeps(taken, low1, once.mem, low1)
             /\ once.mem.tlb = taken.tlb
          \/ /\ Shape(once.mem, low2) /\ Keeps(taken, low1, once.mem, low2)
             /\ once.mem.tlb = [taken.tlb EXCEPT ![CODE] = ABSENT]
        BY <1>4, <3>1, <3>2, <3>3, MapPage DEF low2
    <3>6. m.tlb \in [LowPages -> PageEntries]
        BY ReadyParts DEF Machine
    <3>7. \E low3 : /\ low3 = low1 \/ low3 = low2
                    /\ Shape(twice.mem, low3) /\ Keeps(taken, low1, twice.mem, low3)
                    /\ \A u \in LowPages : twice.mem.tlb[u] \in {ABSENT, m.tlb[u]}
      <4>1. CASE /\ Shape(once.mem, low1) /\ Keeps(taken, low1, once.mem, low1)
                 /\ once.mem.tlb = taken.tlb
        <5>1. \/ /\ Shape(twice.mem, low1) /\ Keeps(once.mem, low1, twice.mem, low1)
                 /\ twice.mem.tlb = once.mem.tlb
              \/ /\ Shape(twice.mem, low2) /\ Keeps(once.mem, low1, twice.mem, low2)
                 /\ twice.mem.tlb = [once.mem.tlb EXCEPT ![CODE] = ABSENT]
            BY <1>4, <3>1, <3>2, <3>3, <4>1, MapPage DEF low2
        <5>2. \A u \in LowPages : twice.mem.tlb[u] \in {ABSENT, m.tlb[u]}
            BY <1>4, <3>1, <3>6, <4>1, <5>1
        <5> QED BY <4>1, <5>1, <5>2, KeepsTwice
      <4>2. CASE /\ Shape(once.mem, low2) /\ Keeps(taken, low1, once.mem, low2)
                 /\ once.mem.tlb = [taken.tlb EXCEPT ![CODE] = ABSENT]
        <5>1. d \in DOMAIN low2
            BY <3>1 DEF WithEntry, low2
        <5>2. twice = [mem |-> once.mem, ret |-> -1]
            BY <1>4, <3>1, <3>2, <3>3, <3>4, <4>2, <5>1, MapPage, SMTT(60)
        <5>3. \A u \in LowPages : twice.mem.tlb[u] \in {ABSENT, m.tlb[u]}
            BY <1>4, <3>1, <3>6, <4>2, <5>2
        <5> QED BY <4>2, <5>2, <5>3
      <4> QED BY <3>5, <4>1, <4>2
    <3>8. PICK low3 : /\ low3 = low1 \/ low3 = low2
                      /\ Shape(twice.mem, low3) /\ Keeps(taken, low1, twice.mem, low3)
                      /\ \A u \in LowPages : twice.mem.tlb[u] \in {ABSENT, m.tlb[u]}
        BY <3>7
    <3> DEFINE low4 == WithEntry(low3, d, PTE(CODE), Zero)
    <3>9. d \in DOMAIN low3 /\ low3 \in [DOMAIN low3 -> PageTables]
      <4>1. low3 \in [DOMAIN low3 -> PageTables]
          BY <3>8 DEF Shape
      <4> QED BY <3>1, <3>8, <4>1 DEF WithEntry, low2
    <3>10. low4 = low1
      <4> HIDE DEF e
      <4> QED BY <3>1, <3>4, <3>8, <3>9, ThereAndBack DEF low2
    <3>11. bare = vmm_unmap_page_in(twice.mem, d, CODE)
        OBVIOUS
    <3> HIDE DEF bare
    <3>12. /\ Shape(bare, low4) /\ Keeps(twice.mem, low3, bare, low4)
           /\ \/ bare.tlb = [twice.mem.tlb EXCEPT ![CODE] = ABSENT]
              \/ bare.tlb = twice.mem.tlb
        BY <3>1, <3>8, <3>9, <3>11, UnmapPage
    <3>13. twice.mem.tlb \in [LowPages -> PageEntries]
        BY <3>8 DEF Shape, Machine
    <3>14. \A u \in LowPages : bare.tlb[u] \in {ABSENT, m.tlb[u]}
        BY <3>1, <3>8, <3>12, <3>13
    <3>15. Keeps(taken, low1, bare, low1)
        BY <3>8, <3>10, <3>12, KeepsTwice
    <3> QED BY <3>10, <3>12, <3>14, <3>15
  <2> QED BY <2>1, <2>2
<1> HIDE DEF bare
<1>6. /\ Shape(gone, low1) /\ gone.tlb = bare.tlb /\ gone.used = bare.used \ ({page} \ {NULL})
      /\ \A f : IsStructure(gone, low1, f) <=> IsStructure(bare, low1, f)
  <2>1. \A f \in {page} : f = NULL \/ ~IsStructure(bare, low1, f)
      BY <1>4, <1>5 DEF Keeps
  <2> QED BY <1>5, <2>1, ReleaseFrames
<1> HIDE DEF gone
<1>7. Keeps(m, low, gone, low1)
  <2>1. Keeps(m, low, bare, low1)
      BY <1>2, <1>4, <1>5, KeepsTwice
  <2>2. \A f \in m.used : ~IsStructure(m, low, f) => f = NULL \/ f # page
      BY <1>2, <1>4 DEF Keeps
  <2> QED BY <1>6, <2>1, <2>2 DEF Keeps
<1>8. Shape(y, low) /\ Keeps(gone, low1, y, low) /\ y.tlb = gone.tlb
  <2>1. CASE d = NULL
    <3>1. y = gone
        BY <1>1, <2>1, NullSpace
    <3> QED BY <1>3, <1>6, <2>1, <3>1 DEF Keeps
  <2>2. CASE d # NULL
    <3>1. d \in DOMAIN low1 \ {KernelDirectory}
        BY <1>2, <1>3, <2>2, ReadyParts
    <3>2. /\ Shape(y, Without(low1, d)) /\ y.tlb = gone.tlb
          /\ Keeps(gone, low1, y, Without(low1, d))
        BY <1>1, <1>6, <3>1, ReadyParts, DestroySpace
    <3> QED BY <1>3, <2>2, <3>2
  <2> QED BY <2>1, <2>2
<1>9. Private(y, low)
  <2>1. Keeps(m, low, y, low)
      BY <1>7, <1>8, KeepsTwice
  <2> QED BY <2>1, ReadyParts, PrivateKept
<1> QED BY <1>5, <1>6, <1>8, <1>9

\* vmmtest's page of the kernel's own space comes and goes.
LEMMA KernelPage ==
    ASSUME NEW low, Ready(low), cr3 = KernelDirectory,
           UNCHANGED <<kernel_page_directory, cr3, pages, phase>>,
           NEW e \in {Zero, Entry(0, {P, W})}, low[KernelDirectory][1] = Zero \/ e = Zero,
           NEW low2, low2 = WithEntry(low, KernelDirectory, 1, e),
           Shape(m', low2), Private(m', low2),
           \A v \in LowPages : v # LOW => m'.tlb[v] \in {ABSENT, m.tlb[v]},
           m'.tlb[LOW] = ABSENT
    PROVE  Stepped(low)
<1> DEFINE K == KernelDirectory
<1>1. /\ DOMAIN low2 = DOMAIN low /\ low2[K][1] = e
      /\ \A i \in Index \ {1} : low2[K][i] = low[K][i]
      /\ \A g \in DOMAIN low \ {K} : low2[g] = low[g]
    BY ReadyParts, Sizes, SetIs
<1>2. KernelMap(low2[K])
    BY <1>1, ReadyParts DEF KernelMap
<1>3. Fresh(m', low2[K])
  <2> SUFFICES ASSUME NEW v \in LowPages, v # LOW PROVE m'.tlb[v] \in {ABSENT, View(low2[K], v)}
      BY DEF Fresh
  <2>1. m'.tlb[v] \in {ABSENT, View(low[K], v)}
      BY ReadyParts DEF Fresh
  <2>2. PTE(v) \in Index /\ (PDE(v) = 0 => PTE(v) # 1)
      BY DEF LowPages, PDE, PTE, LOW
  <2>3. View(low2[K], v) = View(low[K], v)
      BY <1>1, <2>2 DEF View
  <2> QED BY <2>1, <2>3
<1>4. SpacesOK(m', low2, cr3', pages', phase')
    BY <1>1, <1>2, <1>3, ReadyParts DEF SpacesOK, Sound
<1>5. SpacesStep(low, cr3, low2, cr3')
  <2>1. K \in DOMAIN low /\ OnlySpace(low, low2, K) /\ cr3' = cr3
      BY <1>1, ReadyParts DEF OnlySpace
  <2>2. CASE e = Zero
    <3>1. \A j \in Index : low2[K][j] # low[K][j] => low2[K][j] = Zero
        BY <1>1, <2>2
    <3> QED BY <2>1, <3>1 DEF SpacesStep
  <2>3. CASE e = Entry(0, {P, W}) /\ low[K][1] = Zero
    <3>1. e.frame \in Frames
        BY <2>3, Sizes DEF Entry
    <3>2. \A j \in Index : low2[K][j] # low[K][j] => low[K][j] = Zero /\ low2[K][j].frame \in Frames
        BY <1>1, <2>3, <3>1
    <3> QED BY <2>1, <3>2 DEF SpacesStep
  <2> QED BY <2>2, <2>3
<1> QED BY <1>4, <1>5, ReadyParts DEF Stepped

\* cmd_vmmtest, both halves.
LEMMA VmmtestStep == ASSUME NEW low, Ready(low), cmd_vmmtest PROVE Stepped(low)
<1> DEFINE K == KernelDirectory
<1>1. /\ kernel_page_directory = K /\ cr3 = K /\ K # NULL
      /\ UNCHANGED <<kernel_page_directory, cr3, pages, phase>>
      /\ m' = IF Walk(m, K, LOW) # ABSENT THEN vmm_unmap_page_in(m, K, LOW)
              ELSE vmm_map_page(VmmtestScratch, LOW, 0, {P, W}).mem
    BY ReadyParts DEF cmd_vmmtest, InKernelSpace, InVmmtest, Booted, KernelDirectory, NULL
<1>2. LOW \in LowPages /\ PDE(LOW) = 0 /\ PTE(LOW) = 1 /\ 1 \in Index /\ K \in DOMAIN low
    BY ProgramPages, Sizes, ReadyParts
<1>3. Walk(m, K, LOW) = low[K][1]
    BY <1>2, ReadyParts, WalkLow DEF View
<1>4. m.tlb \in [LowPages -> PageEntries] /\ low \in [DOMAIN low -> PageTables]
    BY ReadyParts DEF Machine
<1>5. CASE low[K][1] # Zero
  <2>1. m' = vmm_unmap_page_in(m, K, LOW)
      BY <1>1, <1>3, <1>5 DEF ABSENT
  <2> DEFINE low2 == WithEntry(low, K, 1, Zero)
  <2>2. low2[K][1] = Zero /\ \A g \in DOMAIN low \ {K} : low2[g] = low[g]
      BY <1>2, <1>4, SetIs
  <2>3. DOMAIN low2 = DOMAIN low
      BY <1>2, <1>4, SetIs
  <2> HIDE DEF low2
  <2>4. /\ Shape(m', low2) /\ Keeps(m, low, m', low2)
        /\ \/ m'.tlb = [m.tlb EXCEPT ![LOW] = ABSENT]
           \/ m'.tlb = m.tlb /\ low2 = low
      BY <1>2, <2>1, ReadyParts, UnmapPage DEF low2
  <2>5. m'.tlb = [m.tlb EXCEPT ![LOW] = ABSENT]
      BY <1>5, <2>2, <2>4
  <2>6. Private(m', low2)
      BY <2>2, <2>3, <2>4, ReadyParts, PrivateKept
  <2>7. m'.tlb[LOW] = ABSENT /\ \A v \in LowPages : v # LOW => m'.tlb[v] \in {ABSENT, m.tlb[v]}
      BY <1>2, <1>4, <2>5
  <2> QED BY <1>1, <2>4, <2>6, <2>7, KernelPage DEF low2
<1>6. CASE low[K][1] = Zero
  <2> DEFINE y == VmmtestScratch
             t == vmm_get_page_table_in(y, K, LOW)
             z == IF t = NULL THEN y ELSE [y EXCEPT !.ram[t][PTE(LOW)] = Zero]
             r == vmm_map_page_in(z, K, LOW, 0, {P, W})
  <2>1. m' = r.mem
      BY <1>1, <1>3, <1>6 DEF ABSENT, vmm_map_page
  <2>2. /\ Shape(y, low) /\ Private(y, low)
        /\ \A u \in LowPages : y.tlb[u] \in {ABSENT, m.tlb[u]}
    <3> HIDE DEF y
    <3>1. y = VmmtestScratch
        BY DEF y
    <3> QED BY <3>1, Scratch
  <2> HIDE DEF y
  <2>3. z = y
    <3>1. CASE t = NULL
        BY <3>1
    <3>2. CASE t # NULL
      <4>1. Has(y, K) /\ t = vmm_phys_to_virt(Table(y, K))
          BY <1>2, <3>2 DEF vmm_get_page_table_in, Has, Table
      <4>2. t = Table(y, K) /\ t \in Frames /\ y.ram[t] = low[K]
          BY <1>2, <2>2, <4>1, TableApart
      <4>3. y.ram \in [Frames -> PageTables] /\ y = [ram |-> y.ram, used |-> y.used, tlb |-> y.tlb]
          BY <2>2 DEF Shape, Machine
      <4>4. y.ram[t][1] = Zero
          BY <1>6, <4>2
      <4> HIDE DEF t
      <4>5. y.ram[t] \in [Index -> PageEntries]
          BY <4>2, <4>3 DEF PageTables
      <4>6. [y.ram[t] EXCEPT ![1] = Zero] = y.ram[t]
          BY <1>2, <4>4, <4>5
      <4>7. [y.ram EXCEPT ![t][1] = Zero] = [y.ram EXCEPT ![t] = [y.ram[t] EXCEPT ![1] = Zero]]
          OBVIOUS
      <4>8. [y.ram EXCEPT ![t][1] = Zero] = y.ram
          BY <4>2, <4>3, <4>6, <4>7
      <4>9. [y EXCEPT !.ram[t][1] = Zero]
               = [ram |-> [y.ram EXCEPT ![t][1] = Zero], used |-> y.used, tlb |-> y.tlb]
          BY <4>3
      <4> QED BY <1>2, <3>2, <4>3, <4>8, <4>9
    <3> QED BY <3>1, <3>2
  <2>4. r = vmm_map_page_in(y, K, LOW, 0, {P, W})
      BY <2>3
  <2> DEFINE e == Entry(0, {P, W})
             low2 == WithEntry(low, K, 1, e)
  <2> HIDE DEF r, z, low2
  <2>5. P \notin low[K][PTE(LOW)].flags
      BY <1>2, <1>6, NotPresent
  <2>6. {P, W} \in SUBSET {P, W, U} /\ P \in {P, W} /\ 0 \in Nat
      OBVIOUS
  <2>7. \/ /\ Shape(m', low) /\ Keeps(y, low, m', low) /\ m'.tlb = y.tlb
        \/ /\ Shape(m', low2) /\ Keeps(y, low, m', low2)
           /\ m'.tlb = [y.tlb EXCEPT ![LOW] = ABSENT]
      BY <1>2, <2>1, <2>2, <2>4, <2>5, <2>6, MapPage DEF low2
  <2>8. CASE Shape(m', low) /\ Keeps(y, low, m', low) /\ m'.tlb = y.tlb
    <3>1. Private(m', low)
        BY <2>2, <2>8, PrivateKept
    <3>2. Fresh(m', low[cr3])
        BY <2>2, <2>8, ReadyParts, FreshKept
    <3>3. SpacesOK(m', low, cr3', pages', phase')
        BY <1>1, <2>8, <3>1, <3>2, ReadyParts DEF SpacesOK, Sound
    <3>4. SpacesStep(low, cr3, low, cr3')
        BY <1>1, <1>2 DEF SpacesStep
    <3> QED BY <1>1, <3>3, <3>4 DEF Stepped
  <2>9. CASE /\ Shape(m', low2) /\ Keeps(y, low, m', low2)
             /\ m'.tlb = [y.tlb EXCEPT ![LOW] = ABSENT]
    <3>1. DOMAIN low2 = DOMAIN low /\ \A g \in DOMAIN low \ {K} : low2[g] = low[g]
      <4> HIDE DEF e
      <4> QED BY <1>2, <1>4, SetIs DEF low2
    <3>2. Private(m', low2)
        BY <2>2, <2>9, <3>1, PrivateKept
    <3>3. y.tlb \in [LowPages -> PageEntries]
        BY <2>2 DEF Shape, Machine
    <3>4. m'.tlb[LOW] = ABSENT /\ \A v \in LowPages : v # LOW => m'.tlb[v] \in {ABSENT, m.tlb[v]}
        BY <1>2, <2>2, <2>9, <3>3
    <3> QED BY <1>1, <1>6, <2>9, <3>2, <3>4, KernelPage DEF low2
  <2> QED BY <2>7, <2>8, <2>9
<1> QED BY <1>5, <1>6

-----------------------------------------------------------------------------
(* The invariant *)

\* Every step after vmm_init.
LEMMA BootedStep == ASSUME NEW low, Ready(low), VmmNext PROVE Stepped(low)
<1>1. ~vmm_init
    BY ReadyParts DEF vmm_init, KernelDirectory, NULL
<1> QED BY <1>1, SpawnStep, ExecStep, ExitStep, YieldStep, CleanupStep, VmmtestStep, TlbFillStep,
           StoreStep DEF VmmNext

\* Nothing but vmm_init comes before it.
LEMMA FirstStep == ASSUME VmmInit, VmmNext PROVE vmm_init
<1>1. ~Booted /\ DOMAIN phase = {}
    BY DEF VmmInit, Booted
<1> QED BY <1>1 DEF VmmNext, user_spawn, user_exec_task, user_exit_current, sched_yield, task_cleanup,
                    cmd_vmmtest, InKernelSpace, Free, TlbFill, UserStore

\* The maps of the spaces are what the machine holds.
LEMMA MapsHeld ==
    ASSUME NEW x, NEW low, NEW c, NEW ps, NEW ph, SpacesOK(x, low, c, ps, ph)
    PROVE  LowOf(x, {KernelDirectory} \cup DOMAIN ps) = low
<1>1. Shape(x, low) /\ DOMAIN low = {KernelDirectory} \cup DOMAIN ps
    BY DEF SpacesOK, Sound
<1>2. LowOf(x, DOMAIN low) = low
    BY <1>1, LowIs
<1> QED BY <1>1, <1>2

\* After vmm_init the invariant names the maps.
LEMMA InvReady == ASSUME VmmInv, Booted PROVE Ready(LowOf(m, Live))
BY DEF VmmInv, Ready

\* And they are the only ones.
LEMMA ReadyMaps == ASSUME NEW low, Ready(low) PROVE low = LowOf(m, Live) /\ Booted
<1>1. SpacesOK(m, low, cr3, pages, phase) /\ kernel_page_directory = KernelDirectory
    BY DEF Ready
<1>2. LowOf(m, {KernelDirectory} \cup DOMAIN pages) = low
    BY <1>1, MapsHeld
<1> QED BY <1>1, <1>2 DEF Live, Booted, KernelDirectory, NULL

\* The invariant after a step.
LEMMA InvAfter ==
    ASSUME NEW low2, SpacesOK(m', low2, cr3', pages', phase'),
           kernel_page_directory' = KernelDirectory
    PROVE  VmmInv' /\ Booted' /\ low2 = LowOf(m', Live')
<1>1. LowOf(m', {KernelDirectory} \cup DOMAIN pages') = low2
    BY MapsHeld
<1>2. low2 = LowOf(m', Live')
    BY <1>1 DEF Live
<1>3. Booted'
    BY DEF Booted, KernelDirectory, NULL
<1>4. VmmInv' = (kernel_page_directory' = KernelDirectory
                 /\ SpacesOK(m', LowOf(m', Live'), cr3', pages', phase'))
    BY <1>3 DEF VmmInv
<1> QED BY <1>2, <1>3, <1>4

\* A step keeps the invariant and changes the maps as SpacesStep says.
LEMMA InvStep ==
    ASSUME VmmInv, [VmmNext]_vmmVars
    PROVE  /\ VmmInv'
           /\ Booted => /\ Booted'
                        /\ SpacesStep(LowOf(m, Live), cr3, LowOf(m', Live'), cr3')
           /\ ~Booted /\ Booted' =>
                 LowOf(m', Live') = [d \in {KernelDirectory} |-> Cleared] /\ cr3' = KernelDirectory
<1>1. CASE UNCHANGED vmmVars
  <2>1. VmmInv' /\ (Booted' <=> Booted)
      BY <1>1 DEF vmmVars, VmmInv, Booted, VmmInit, Live, LowOf, Walk
  <2>2. Booted => SpacesStep(LowOf(m, Live), cr3, LowOf(m', Live'), cr3')
    <3> SUFFICES ASSUME Booted PROVE SpacesStep(LowOf(m, Live), cr3, LowOf(m', Live'), cr3')
        OBVIOUS
    <3>1. LowOf(m', Live') = LowOf(m, Live) /\ cr3' = cr3
        BY <1>1 DEF vmmVars, Live
    <3>2. cr3 \in DOMAIN LowOf(m, Live)
        BY InvReady, ReadyParts, SMTT(60)
    <3> QED BY <3>1, <3>2, SMTT(60) DEF SpacesStep
  <2> QED BY <2>1, <2>2
<1>2. CASE VmmNext /\ Booted
  <2> DEFINE low == LowOf(m, Live)
  <2> HIDE DEF low
  <2>1. Ready(low)
      BY <1>2, InvReady DEF low
  <2>2. Stepped(low)
      BY <1>2, <2>1, BootedStep
  <2>3. PICK low2 : /\ SpacesOK(m', low2, cr3', pages', phase')
                    /\ SpacesStep(low, cr3, low2, cr3')
      BY <2>2 DEF Stepped
  <2>4. kernel_page_directory' = KernelDirectory
      BY <2>2 DEF Stepped
  <2>5. VmmInv' /\ Booted' /\ low2 = LowOf(m', Live')
      BY <2>3, <2>4, InvAfter
  <2> QED BY <1>2, <2>3, <2>5 DEF low
<1>3. CASE VmmNext /\ ~Booted
  <2>1. VmmInit
      BY <1>3 DEF VmmInv
  <2>2. vmm_init
      BY <1>3, <2>1, FirstStep
  <2>3. /\ kernel_page_directory' = KernelDirectory
        /\ SpacesOK(m', [d \in {KernelDirectory} |-> Cleared], cr3', pages', phase')
      BY <2>1, <2>2, InitStep
  <2>4. VmmInv' /\ [d \in {KernelDirectory} |-> Cleared] = LowOf(m', Live')
      BY <2>3, InvAfter
  <2>5. kernel_page_directory' = cr3'
      BY <2>2 DEF vmm_init
  <2> QED BY <1>3, <2>3, <2>4, <2>5
<1> QED BY <1>1, <1>2, <1>3

\* The inductive invariant, for any number of entries, frames and processes: in
\* the frames the directories and tables are where they should be, and hold what
\* the process records say.
THEOREM VmmInvariant == VmmSpec => []VmmInv
<1>1. VmmInit => VmmInv
    BY DEF VmmInit, VmmInv, Booted
<1>2. VmmInv /\ [VmmNext]_vmmVars => VmmInv'
    BY InvStep
<1> QED BY <1>1, <1>2, PTL DEF VmmSpec

\* vmm.c invalidates, or loads cr3, whenever a translation it may have given out
\* goes away: the TLB is never out of date.
THEOREM TranslationsFresh == VmmSpec => []TlbFresh
<1>1. VmmInv => TlbFresh
  <2> SUFFICES ASSUME VmmInv, Booted, NEW v \in LowPages
               PROVE  m.tlb[v] \in {ABSENT, Walk(m, cr3, v)}
      BY DEF TlbFresh
  <2> DEFINE low == LowOf(m, Live)
  <2>1. Ready(low)
      BY InvReady
  <2> HIDE DEF low
  <2>2. Walk(m, cr3, v) = View(low[cr3], v)
      BY <2>1, ReadyParts, WalkLow
  <2>3. m.tlb[v] \in {ABSENT, View(low[cr3], v)}
      BY <2>1, ReadyParts DEF Fresh
  <2> QED BY <2>2, <2>3
<1> QED BY <1>1, VmmInvariant, PTL

-----------------------------------------------------------------------------
(* What a program reaches *)

\* The pages of the process record, and no others.
LEMMA ReachesListed ==
    ASSUME NEW low, Ready(low), NEW d \in DOMAIN pages
    PROVE  {<<v, Walk(m, d, v)>> : v \in {u \in LowPages : Walk(m, d, u) # ABSENT}}
           = {<<p[1], Entry(p[2], IF p[1] = STACK THEN {P, W, U} ELSE {P, U})>> : p \in pages[d]}
<1>1. Lists(low[d], pages[d]) /\ d \in DOMAIN low
    BY ReadyParts
<1>2. \A v \in LowPages : Walk(m, d, v) = View(low[d], v)
    BY <1>1, ReadyParts, WalkLow
<1>3. \A v \in LowPages : PDE(v) \in Index /\ PTE(v) \in Index /\ v = <<PDE(v), PTE(v)>>
    BY DEF LowPages, PDE, PTE
<1>4. \A p \in pages[d] : /\ p[1] \in LowPages
                          /\ Walk(m, d, p[1]) = Entry(p[2], Rights(p[1]))
                          /\ Walk(m, d, p[1]) # ABSENT
  <2> SUFFICES ASSUME NEW p \in pages[d]
               PROVE  /\ p[1] \in LowPages
                      /\ Walk(m, d, p[1]) = Entry(p[2], Rights(p[1]))
                      /\ Walk(m, d, p[1]) # ABSENT
      OBVIOUS
  <2>1. p[1] \in {CODE, STACK} /\ low[d][PTE(p[1])] = Entry(p[2], Rights(p[1]))
      BY <1>1 DEF Lists
  <2>2. p[1] \in LowPages /\ PDE(p[1]) = 0
      BY <2>1, ProgramPages
  <2>3. Walk(m, d, p[1]) = Entry(p[2], Rights(p[1]))
      BY <1>2, <2>1, <2>2 DEF View
  <2>4. Entry(p[2], Rights(p[1])) # ABSENT
      BY DEF Entry, Rights, ABSENT, Zero
  <2> QED BY <2>2, <2>3, <2>4
<1>5. \A v \in LowPages : Walk(m, d, v) # ABSENT => \E p \in pages[d] : p[1] = v
    BY <1>1, <1>2, <1>3 DEF View, Lists, ABSENT
<1> DEFINE reached == {<<v, Walk(m, d, v)>> : v \in {u \in LowPages : Walk(m, d, u) # ABSENT}}
           listed == {<<p[1], Entry(p[2], Rights(p[1]))>> : p \in pages[d]}
<1>6. ASSUME NEW v \in LowPages, Walk(m, d, v) # ABSENT
      PROVE  <<v, Walk(m, d, v)>> \in listed
  <2>1. PICK p \in pages[d] : p[1] = v
      BY <1>5, <1>6
  <2>2. <<v, Walk(m, d, v)>> = <<p[1], Entry(p[2], Rights(p[1]))>>
      BY <1>4, <2>1
  <2> QED BY <2>2
<1>7. ASSUME NEW p \in pages[d]
      PROVE  <<p[1], Entry(p[2], Rights(p[1]))>> \in reached
  <2>1. <<p[1], Entry(p[2], Rights(p[1]))>> = <<p[1], Walk(m, d, p[1])>>
      BY <1>4
  <2>2. p[1] \in {u \in LowPages : Walk(m, d, u) # ABSENT}
      BY <1>4
  <2> QED BY <2>1, <2>2
<1>8. reached \subseteq listed
  <2> HIDE DEF listed
  <2> QED BY <1>6
<1>9. listed \subseteq reached
  <2> HIDE DEF reached
  <2> QED BY <1>7
<1>10. reached = listed
    BY <1>8, <1>9
<1> QED BY <1>10 DEF Rights

\* The frames of a process are the ones its table maps.
LEMMA GivenMapped ==
    ASSUME NEW low, Ready(low), NEW d \in DOMAIN pages, NEW p \in pages[d]
    PROVE  p[2] \in Mapped(low[d])
<1>1. Lists(low[d], pages[d])
    BY ReadyParts
<1>2. p[1] \in {CODE, STACK} /\ low[d][PTE(p[1])] = Entry(p[2], Rights(p[1]))
    BY <1>1 DEF Lists
<1>3. PTE(p[1]) \in Index
    BY <1>2, ProgramPages, Sizes
<1>4. P \in low[d][PTE(p[1])].flags /\ low[d][PTE(p[1])].frame = p[2]
    BY <1>2 DEF Entry, Rights
<1> QED BY <1>3, <1>4, MappedEntry

\* A directory has one table below the kernel half, if any.
LEMMA TablesAre ==
    ASSUME NEW low, Ready(low), NEW d \in DOMAIN low
    PROVE  Tables(d) = IF Has(m, d) THEN {Table(m, d)} ELSE {}
<1>1. Maps(m, d, low[d])
    BY ReadyParts, ShapeParts
<1>2. \A j \in 0 .. KERNEL_PDE_INDEX - 1 : j # 0 => P \notin m.ram[d][j].flags
  <2> SUFFICES ASSUME NEW j \in 0 .. KERNEL_PDE_INDEX - 1, j # 0
               PROVE  P \notin m.ram[d][j].flags
      OBVIOUS
  <2>1. j \in Index \ {0} /\ j \notin KernelIndex
    <3>1. KERNEL_PDE_INDEX \in Index
        BY VmmAssumption DEF Index
    <3> QED BY <3>1, Sizes DEF Index, KernelIndex
  <2>2. m.ram[d][j] = Zero
      BY <1>1, <2>1 DEF Maps, KernelEntry
  <2> QED BY <2>2, NotPresent
<1>3. {j \in 0 .. KERNEL_PDE_INDEX - 1 : P \in m.ram[d][j].flags} = IF Has(m, d) THEN {0} ELSE {}
    BY <1>2, Sizes DEF Has
<1> QED BY <1>3 DEF Tables, Table

\* What directories and tables are made of, as UserConfined lists it.
LEMMA StructuresAre ==
    ASSUME NEW low, Ready(low), NEW f
    PROVE  f \in Live \cup KernelTables \cup UNION {Tables(d) : d \in Live} <=> IsStructure(m, low, f)
<1>1. Live = DOMAIN low /\ kernel_page_directory = KernelDirectory
    BY ReadyParts DEF Live
<1>2. KernelTables = KernelTableFrames
  <2>1. Maps(m, KernelDirectory, low[KernelDirectory])
      BY ReadyParts, ShapeParts
  <2>2. \A i \in KernelIndex : m.ram[KernelDirectory][i].frame = KernelTable(i)
    <3> SUFFICES ASSUME NEW i \in KernelIndex PROVE m.ram[KernelDirectory][i].frame = KernelTable(i)
        OBVIOUS
    <3>1. i \in Index \ {0}
        BY Sizes
    <3>2. m.ram[KernelDirectory][i] = Entry(KernelTable(i), {P, W})
        BY <2>1, <3>1 DEF Maps, KernelEntry
    <3> QED BY <3>2 DEF Entry
  <2> QED BY <1>1, <2>2 DEF KernelTables, KernelTableFrames
<1>3. f \in UNION {Tables(d) : d \in Live} <=> \E d \in DOMAIN low : Has(m, d) /\ f = Table(m, d)
    BY <1>1, TablesAre
<1> QED BY <1>1, <1>2, <1>3 DEF IsStructure

\* Whatever the frames held before, a program reaches the pages of its record
\* and nothing else, and nobody else's directories, tables or pages are there.
THEOREM ProgramsConfined == VmmSpec => []UserConfined
<1>1. VmmInv => UserConfined
  <2> SUFFICES ASSUME VmmInv, Booted PROVE UserConfined
      BY DEF UserConfined
  <2> DEFINE low == LowOf(m, Live)
             structures == Live \cup KernelTables \cup UNION {Tables(d) : d \in Live}
             Given(d) == {p[2] : p \in pages[d]}
  <2>1. Ready(low)
      BY InvReady
  <2> HIDE DEF low
  <2>2. Live = DOMAIN low /\ kernel_page_directory = KernelDirectory /\ Shape(m, low)
      BY <2>1, ReadyParts DEF Live
  <2>3. \A f : f \in structures <=> IsStructure(m, low, f)
      BY <2>1, StructuresAre
  <2>4. \A d \in Live, v \in KernelPages :
           /\ Walk(m, d, v) =
                 IF PDE(v) \in KernelIndex
                 THEN Entry((PDE(v) - KERNEL_PDE_INDEX) * Entries + PTE(v), {P, W})
                 ELSE ABSENT
           /\ vmm_get_paddr_in(m, d, v) = vmm_get_paddr_in(m, kernel_page_directory, v)
    <3> SUFFICES ASSUME NEW d \in Live, NEW v \in KernelPages
                 PROVE  /\ Walk(m, d, v) =
                             IF PDE(v) \in KernelIndex
                             THEN Entry((PDE(v) - KERNEL_PDE_INDEX) * Entries + PTE(v), {P, W})
                             ELSE ABSENT
                        /\ vmm_get_paddr_in(m, d, v) = vmm_get_paddr_in(m, kernel_page_directory, v)
        OBVIOUS
    <3>1. d \in DOMAIN low /\ KernelDirectory \in DOMAIN low
        BY <2>2 DEF Shape
    <3>2. d # NULL /\ KernelDirectory # NULL
        BY <2>2, <3>1 DEF Shape, IsStructure, Reach
    <3>3. m.ram[d][PDE(v)] = m.ram[KernelDirectory][PDE(v)]
        BY <2>2, <3>1, WalkKernel
    <3>4. vmm_get_page_table_in(m, d, v) = vmm_get_page_table_in(m, KernelDirectory, v)
        BY <3>2, <3>3 DEF vmm_get_page_table_in
    <3>5. vmm_get_paddr_in(m, d, v) = vmm_get_paddr_in(m, KernelDirectory, v)
        BY <3>4 DEF vmm_get_paddr_in
    <3> QED BY <2>2, <3>1, <3>5, WalkKernel
  <2>5. structures \subseteq m.used /\ 0 \notin structures
    <3>1. \A f : IsStructure(m, low, f) => f \in Frames
        BY <2>2, KernelTablesApart, TableApart DEF IsStructure, Shape
    <3>2. \A f : IsStructure(m, low, f) => f \in m.used /\ f # 0
        BY <2>2, <3>1 DEF Shape, Reach, NULL
    <3> HIDE DEF structures
    <3> QED BY <2>3, <3>2
  <2>6. \A d \in DOMAIN pages : Given(d) \subseteq Mapped(low[d])
      BY <2>1, GivenMapped
  <2>7. \A d \in DOMAIN pages : d \in DOMAIN low \ {KernelDirectory}
      BY <2>1, ReadyParts
  <2>8. Private(m, low)
      BY <2>1, ReadyParts
  <2>9. \A d \in DOMAIN pages : Given(d) \subseteq m.used \ structures
    <3> HIDE DEF structures, Given
    <3> QED BY <2>3, <2>6, <2>7, <2>8 DEF Private
  <2>10. \A d \in DOMAIN pages : \A e \in DOMAIN pages \ {d} : Given(d) \cap Given(e) = {}
    <3> HIDE DEF Given
    <3> QED BY <2>6, <2>7, <2>8 DEF Private
  <2>11. \A d \in DOMAIN pages : \A e \in DOMAIN pages \ {d} : Tables(d) \cap Tables(e) = {}
    <3>1. \A d \in DOMAIN pages : Tables(d) = IF Has(m, d) THEN {Table(m, d)} ELSE {}
        BY <2>1, <2>7, TablesAre
    <3> QED BY <2>2, <2>7, <3>1 DEF Shape
  <2>12. \A d \in DOMAIN pages :
            {<<v, Walk(m, d, v)>> : v \in {u \in LowPages : Walk(m, d, u) # ABSENT}}
            = {<<p[1], Entry(p[2], IF p[1] = STACK THEN {P, W, U} ELSE {P, U})>> : p \in pages[d]}
      BY <2>1, ReachesListed
  <2> QED BY ONLY <2>4, <2>5, <2>9, <2>10, <2>11, <2>12, Zenon DEF UserConfined
<1> QED BY <1>1, VmmInvariant, PTL

-----------------------------------------------------------------------------
(* The abstract address spaces *)

NoPages == [v \in LowPages |-> ABSENT]
MapsOf(low) == [d \in DOMAIN low |-> [v \in LowPages |-> View(low[d], v)]]

\* What SpacesView substitutes for maps.
ViewedMaps ==
    [d \in (IF Booted THEN Live ELSE {1}) |->
       [v \in LowPages |-> IF Booted THEN Walk(m, d, v) ELSE ABSENT]]
ViewedCurrent == IF Booted THEN cr3 ELSE 1

\* The abstract maps are those the invariant names.
ViewMatches ==
    LET low == LowOf(m, Live)
    IN  /\ Booted => /\ ViewedMaps = MapsOf(low) /\ ViewedCurrent = cr3
                     /\ low \in [DOMAIN low -> PageTables] /\ DOMAIN low \subseteq Frames
                     /\ cr3 \in DOMAIN low
        /\ ~Booted => ViewedMaps = [d \in {1} |-> NoPages] /\ ViewedCurrent = 1

\* The invariant says so in every state.
LEMMA ViewedIs == VmmInv => ViewMatches
<1> SUFFICES ASSUME VmmInv PROVE ViewMatches
    OBVIOUS
<1>1. ASSUME Booted
      PROVE  /\ ViewedMaps = MapsOf(LowOf(m, Live)) /\ ViewedCurrent = cr3
             /\ LowOf(m, Live) \in [DOMAIN LowOf(m, Live) -> PageTables]
             /\ DOMAIN LowOf(m, Live) \subseteq Frames
             /\ cr3 \in DOMAIN LowOf(m, Live)
  <2> DEFINE low == LowOf(m, Live)
  <2>1. Ready(low)
      BY <1>1, InvReady
  <2>2. DOMAIN low = Live
      BY DEF LowOf
  <2> HIDE DEF low
  <2>3. \A d \in DOMAIN low, v \in LowPages : Walk(m, d, v) = View(low[d], v)
      BY <2>1, ReadyParts, WalkLow
  <2>4. ViewedMaps = [d \in Live |-> [v \in LowPages |-> Walk(m, d, v)]]
      BY <1>1 DEF ViewedMaps
  <2>5. ViewedMaps = MapsOf(low)
      BY <2>2, <2>3, <2>4 DEF MapsOf
  <2>6. DOMAIN low \subseteq Frames
      BY <2>1, ReadyParts DEF Shape
  <2> QED BY <1>1, <2>1, <2>5, <2>6, ReadyParts DEF low, ViewedCurrent
<1>2. ASSUME ~Booted PROVE ViewedMaps = [d \in {1} |-> NoPages] /\ ViewedCurrent = 1
    BY <1>2 DEF ViewedMaps, NoPages, ViewedCurrent
<1> QED BY <1>1, <1>2 DEF ViewMatches

\* What a map says of a page follows from its entries.
LEMMA ViewIs ==
    /\ \A v \in LowPages : View(Cleared, v) = ABSENT
    /\ \A map, map2 : \A v \in LowPages :
          View(map2, v) # View(map, v) =>
             /\ PTE(v) \in Index /\ map2[PTE(v)] # map[PTE(v)]
             /\ View(map2, v) = map2[PTE(v)] /\ View(map, v) = map[PTE(v)]
    /\ \A map : \A j \in Index : <<0, j>> \in LowPages /\ View(map, <<0, j>>) = map[j]
<1>1. \A v \in LowPages : PTE(v) \in Index
    BY DEF LowPages, PTE
<1>2. \A v \in LowPages : View(Cleared, v) = ABSENT
    BY <1>1, NotPresent DEF View, ABSENT
<1>3. \A j \in Index : PDE(<<0, j>>) = 0 /\ PTE(<<0, j>>) = j
    BY DEF PDE, PTE
<1> QED BY <1>1, <1>2, <1>3, ProgramPages DEF View

OnlyMaps(a, b, s) == DOMAIN b = DOMAIN a /\ \A t \in DOMAIN a \ {s} : b[t] = a[t]

\* SpacesStep as AddressSpaces puts it.
MapsStep(a, c, b, c2) ==
    \/ \E s \in Frames \ DOMAIN a :
          b = [t \in DOMAIN a \cup {s} |-> IF t = s THEN NoPages ELSE a[t]] /\ c2 = c
    \/ \E s \in DOMAIN a :
          /\ OnlyMaps(a, b, s)
          /\ \A v \in LowPages : b[s][v] # a[s][v] =>
                a[s][v] = ABSENT /\ b[s][v] \in [frame : Frames, flags : SUBSET {P, W, U}]
          /\ c2 # c => c2 = s /\ \E v \in LowPages : b[s][v] # a[s][v]
    \/ \E s \in DOMAIN a :
          /\ OnlyMaps(a, b, s)
          /\ \A v \in LowPages : b[s][v] # a[s][v] => b[s][v] = ABSENT
          /\ c2 = c
    \/ \E s \in DOMAIN a \ {1, c} :
          a[s] = NoPages /\ b = [t \in DOMAIN a \ {s} |-> a[t]] /\ c2 = c
    \/ b = a /\ c2 \in DOMAIN a

\* The maps step as the tables do.
LEMMA ViewStep ==
    ASSUME NEW low, NEW c, NEW low2, NEW c2, SpacesStep(low, c, low2, c2),
           low2 \in [DOMAIN low2 -> PageTables], c \in DOMAIN low
    PROVE  MapsStep(MapsOf(low), c, MapsOf(low2), c2)
<1> DEFINE a == MapsOf(low)
           b == MapsOf(low2)
<1>1. /\ DOMAIN a = DOMAIN low /\ DOMAIN b = DOMAIN low2
      /\ \A s \in DOMAIN low : a[s] = [v \in LowPages |-> View(low[s], v)]
      /\ \A s \in DOMAIN low2 : b[s] = [v \in LowPages |-> View(low2[s], v)]
      /\ a = [s \in DOMAIN low |-> a[s]] /\ b = [s \in DOMAIN low2 |-> b[s]]
    BY DEF MapsOf
<1>2. [v \in LowPages |-> View(Cleared, v)] = NoPages
    BY ViewIs DEF NoPages
<1>3. \A d \in DOMAIN low : OnlySpace(low, low2, d) => OnlyMaps(a, b, d)
  <2> HIDE DEF a, b
  <2> QED BY <1>1 DEF OnlySpace, OnlyMaps
<1> HIDE DEF a, b
<1>4. CASE \E d \in Frames \ DOMAIN low : low2 = Extended(low, d) /\ c2 = c
  <2>1. PICK d \in Frames \ DOMAIN low : low2 = Extended(low, d) /\ c2 = c
      BY <1>4
  <2>2. /\ DOMAIN low2 = DOMAIN low \cup {d} /\ low2[d] = Cleared
        /\ \A e \in DOMAIN low : low2[e] = low[e]
      BY <2>1 DEF Extended
  <2>3. b[d] = NoPages
    <3>1. b[d] = [v \in LowPages |-> View(low2[d], v)]
        BY <1>1, <2>2
    <3> QED BY <1>2, <2>2, <3>1
  <2>4. \A e \in DOMAIN low : b[e] = a[e]
    <3> SUFFICES ASSUME NEW e \in DOMAIN low PROVE b[e] = a[e]
        OBVIOUS
    <3>1. b[e] = [v \in LowPages |-> View(low2[e], v)] /\ low2[e] = low[e]
        BY <1>1, <2>2
    <3> QED BY <1>1, <3>1
  <2>5. b = [t \in DOMAIN a \cup {d} |-> IF t = d THEN NoPages ELSE a[t]]
      BY <1>1, <2>1, <2>2, <2>3, <2>4
  <2>6. d \in Frames \ DOMAIN a
      BY <1>1
  <2>7. MapsStep(a, c, b, c2)
      BY <2>1, <2>5, <2>6 DEF MapsStep
  <2> QED BY <2>7 DEF a, b
<1>5. ASSUME NEW d \in DOMAIN low, OnlySpace(low, low2, d)
      PROVE  /\ d \in DOMAIN a /\ OnlyMaps(a, b, d) /\ d \in DOMAIN low2
             /\ \A v \in LowPages : b[d][v] = View(low2[d], v) /\ a[d][v] = View(low[d], v)
    BY <1>1, <1>3, <1>5 DEF OnlySpace
<1>6. CASE \E d \in DOMAIN low :
             /\ OnlySpace(low, low2, d)
             /\ \A j \in Index : low2[d][j] # low[d][j] =>
                   low[d][j] = Zero /\ low2[d][j].frame \in Frames
             /\ c2 # c => c2 = d /\ \E j \in Index : low2[d][j] # low[d][j]
  <2>1. PICK d \in DOMAIN low :
             /\ OnlySpace(low, low2, d)
             /\ \A j \in Index : low2[d][j] # low[d][j] =>
                   low[d][j] = Zero /\ low2[d][j].frame \in Frames
             /\ c2 # c => c2 = d /\ \E j \in Index : low2[d][j] # low[d][j]
      BY <1>6
  <2>2. /\ d \in DOMAIN a /\ OnlyMaps(a, b, d) /\ d \in DOMAIN low2
        /\ \A v \in LowPages : b[d][v] = View(low2[d], v) /\ a[d][v] = View(low[d], v)
      BY <1>5, <2>1
  <2>3. ASSUME NEW v \in LowPages, b[d][v] # a[d][v]
        PROVE  a[d][v] = ABSENT /\ b[d][v] \in [frame : Frames, flags : SUBSET {P, W, U}]
    <3> DEFINE j == PTE(v)
    <3>1. /\ j \in Index /\ low2[d][j] # low[d][j]
          /\ b[d][v] = low2[d][j] /\ a[d][v] = low[d][j]
        BY <2>2, <2>3, ViewIs
    <3>2. low[d][j] = Zero /\ low2[d][j].frame \in Frames
        BY <2>1, <3>1
    <3>3. low2[d][j] \in [frame : Nat, flags : SUBSET {P, W, U}]
        BY <2>2, <3>1 DEF PageTables, PageEntries
    <3> HIDE DEF j
    <3>4. low2[d][j] \in [frame : Frames, flags : SUBSET {P, W, U}]
        BY <3>2, <3>3
    <3> QED BY <3>1, <3>2, <3>4 DEF ABSENT
  <2>4. c2 # c => c2 = d /\ \E v \in LowPages : b[d][v] # a[d][v]
    <3> SUFFICES ASSUME c2 # c PROVE \E v \in LowPages : b[d][v] # a[d][v]
        BY <2>1
    <3>1. PICK j \in Index : low2[d][j] # low[d][j]
        BY <2>1
    <3> DEFINE v == <<0, j>>
    <3>2. v \in LowPages /\ View(low2[d], v) = low2[d][j] /\ View(low[d], v) = low[d][j]
        BY ViewIs
    <3> HIDE DEF v
    <3>3. b[d][v] # a[d][v]
        BY <2>2, <3>1, <3>2
    <3> QED BY <3>2, <3>3
  <2>5. MapsStep(a, c, b, c2)
      BY <2>2, <2>3, <2>4 DEF MapsStep
  <2> QED BY <2>5 DEF a, b
<1>7. CASE \E d \in DOMAIN low :
             /\ OnlySpace(low, low2, d)
             /\ \A j \in Index : low2[d][j] # low[d][j] => low2[d][j] = Zero
             /\ c2 = c
  <2>1. PICK d \in DOMAIN low :
             /\ OnlySpace(low, low2, d)
             /\ \A j \in Index : low2[d][j] # low[d][j] => low2[d][j] = Zero
             /\ c2 = c
      BY <1>7
  <2>2. /\ d \in DOMAIN a /\ OnlyMaps(a, b, d)
        /\ \A v \in LowPages : b[d][v] = View(low2[d], v) /\ a[d][v] = View(low[d], v)
      BY <1>5, <2>1
  <2>3. \A v \in LowPages : b[d][v] # a[d][v] => b[d][v] = ABSENT
      BY <2>1, <2>2, ViewIs DEF ABSENT
  <2>4. MapsStep(a, c, b, c2)
      BY <2>1, <2>2, <2>3 DEF MapsStep
  <2> QED BY <2>4 DEF a, b
<1>8. CASE \E d \in DOMAIN low \ {KernelDirectory, c} :
             low[d] = Cleared /\ low2 = Without(low, d) /\ c2 = c
  <2>1. PICK d \in DOMAIN low \ {KernelDirectory, c} :
             low[d] = Cleared /\ low2 = Without(low, d) /\ c2 = c
      BY <1>8
  <2>2. DOMAIN low2 = DOMAIN low \ {d} /\ \A e \in DOMAIN low2 : low2[e] = low[e]
      BY <2>1 DEF Without
  <2>3. a[d] = NoPages
      BY <1>1, <1>2, <2>1
  <2>4. b = [t \in DOMAIN a \ {d} |-> a[t]]
      BY <1>1, <2>2
  <2>5. MapsStep(a, c, b, c2)
      BY <1>1, <2>1, <2>3, <2>4 DEF MapsStep, KernelDirectory
  <2> QED BY <2>5 DEF a, b
<1>9. CASE low2 = low /\ c2 \in DOMAIN low
  <2>1. b = a /\ c2 \in DOMAIN a
      BY <1>1, <1>9 DEF a, b
  <2> QED BY <2>1 DEF MapsStep, a, b
<1> QED BY <1>4, <1>6, <1>7, <1>8, <1>9 DEF SpacesStep

\* A step of the viewed maps is a step of AddressSpaces.
LEMMA AbstractStep ==
    ASSUME MapsStep(ViewedMaps, ViewedCurrent, ViewedMaps', ViewedCurrent')
    PROVE  SpacesView!SpacesNext
<1> DEFINE a == ViewedMaps
           c == ViewedCurrent
<1>1. CASE \E s \in Frames \ DOMAIN a :
              a' = [t \in DOMAIN a \cup {s} |-> IF t = s THEN NoPages ELSE a[t]] /\ c' = c
    BY <1>1 DEF SpacesView!SpacesNext, SpacesView!Create, SpacesView!With, SpacesView!NoMaps,
                NoPages, ViewedMaps, ViewedCurrent
<1>2. CASE \E s \in DOMAIN a :
          /\ OnlyMaps(a, a', s)
          /\ \A v \in LowPages : a'[s][v] # a[s][v] =>
                a[s][v] = ABSENT /\ a'[s][v] \in [frame : Frames, flags : SUBSET {P, W, U}]
          /\ c' # c => c' = s /\ \E v \in LowPages : a'[s][v] # a[s][v]
  <2>1. PICK s \in DOMAIN a :
          /\ OnlyMaps(a, a', s)
          /\ \A v \in LowPages : a'[s][v] # a[s][v] =>
                a[s][v] = ABSENT /\ a'[s][v] \in [frame : Frames, flags : SUBSET {P, W, U}]
          /\ c' # c => c' = s /\ \E v \in LowPages : a'[s][v] # a[s][v]
      BY <1>2
  <2>2. SpacesView!OnlyIn(s)
      BY <2>1 DEF SpacesView!OnlyIn, OnlyMaps, ViewedMaps
  <2>3. SpacesView!Changed(s) = {v \in LowPages : a'[s][v] # a[s][v]}
      BY DEF SpacesView!Changed, ViewedMaps
  <2>4. \A v \in SpacesView!Changed(s) :
           a[s][v] = ABSENT /\ a'[s][v] \in [frame : Frames, flags : SUBSET {P, W, U}]
      BY <2>1, <2>3
  <2>5. c' # c => SpacesView!Changed(s) # {} /\ c' = s
      BY <2>1, <2>3
  <2>6. SpacesView!Map
      BY <2>1, <2>2, <2>4, <2>5 DEF SpacesView!Map, ViewedMaps, ViewedCurrent
  <2> QED BY <2>6 DEF SpacesView!SpacesNext
<1>3. CASE \E s \in DOMAIN a :
          /\ OnlyMaps(a, a', s)
          /\ \A v \in LowPages : a'[s][v] # a[s][v] => a'[s][v] = ABSENT
          /\ c' = c
  <2>1. PICK s \in DOMAIN a :
          /\ OnlyMaps(a, a', s)
          /\ \A v \in LowPages : a'[s][v] # a[s][v] => a'[s][v] = ABSENT
          /\ c' = c
      BY <1>3
  <2>2. SpacesView!OnlyIn(s)
      BY <2>1 DEF SpacesView!OnlyIn, OnlyMaps, ViewedMaps
  <2>3. SpacesView!Changed(s) = {v \in LowPages : a'[s][v] # a[s][v]}
      BY DEF SpacesView!Changed, ViewedMaps
  <2>4. \A v \in SpacesView!Changed(s) : a'[s][v] = ABSENT
      BY <2>1, <2>3
  <2>5. SpacesView!Unmap
      BY <2>1, <2>2, <2>4 DEF SpacesView!Unmap, ViewedMaps, ViewedCurrent
  <2> QED BY <2>5 DEF SpacesView!SpacesNext
<1>4. CASE \E s \in DOMAIN a \ {1, c} :
          a[s] = NoPages /\ a' = [t \in DOMAIN a \ {s} |-> a[t]] /\ c' = c
    BY <1>4 DEF SpacesView!SpacesNext, SpacesView!Destroy, SpacesView!NoMaps, NoPages,
                ViewedMaps, ViewedCurrent
<1>5. CASE a' = a /\ c' \in DOMAIN a
    BY <1>5 DEF SpacesView!SpacesNext, SpacesView!Switch, ViewedMaps, ViewedCurrent
<1> QED BY <1>1, <1>2, <1>3, <1>4, <1>5 DEF MapsStep

\* The page tables in frames, with the frames used again and again, implement
\* the spaces of AddressSpaces: an operation on one space leaves the others be.
THEOREM SpacesImplemented == VmmSpec => ImplementsSpaces
<1>1. VmmInit => SpacesView!SpacesInit
  <2> SUFFICES ASSUME VmmInit PROVE SpacesView!SpacesInit
      OBVIOUS
  <2>1. ~Booted
      BY DEF VmmInit, Booted
  <2>2. ViewedMaps = [d \in {1} |-> NoPages] /\ ViewedCurrent = 1
      BY <2>1 DEF ViewedMaps, NoPages, ViewedCurrent
  <2>3. [t \in DOMAIN <<>> \cup {1} |-> IF t = 1 THEN NoPages ELSE <<>>[t]] = [d \in {1} |-> NoPages]
      OBVIOUS
  <2> QED BY <2>2, <2>3 DEF SpacesView!SpacesInit, SpacesView!With, SpacesView!NoMaps, NoPages,
                            ViewedMaps, ViewedCurrent
<1>2. VmmInv /\ VmmInv' /\ [VmmNext]_vmmVars => [SpacesView!SpacesNext]_(SpacesView!spacesVars)
  <2> SUFFICES ASSUME VmmInv, VmmInv', [VmmNext]_vmmVars
               PROVE  SpacesView!SpacesNext \/ UNCHANGED SpacesView!spacesVars
      OBVIOUS
  <2>0. ViewMatches'
      BY ViewedIs, PTL
  <2> DEFINE low == LowOf(m, Live)
  <2>1. CASE Booted
    <3>1. Booted' /\ SpacesStep(low, cr3, low', cr3')
        BY <2>1, InvStep
    <3>2. ViewedMaps = MapsOf(low) /\ ViewedCurrent = cr3 /\ cr3 \in DOMAIN low
        BY <2>1, ViewedIs DEF ViewMatches
    <3>3. /\ ViewedMaps' = MapsOf(low') /\ ViewedCurrent' = cr3'
          /\ low' \in [DOMAIN low' -> PageTables]
        BY <2>0, <3>1 DEF ViewMatches
    <3> HIDE DEF low
    <3>4. MapsStep(ViewedMaps, ViewedCurrent, ViewedMaps', ViewedCurrent')
        BY <3>1, <3>2, <3>3, ViewStep
    <3> QED BY <3>4, AbstractStep
  <2>2. CASE ~Booted
    <3>1. ViewedMaps = [d \in {1} |-> NoPages] /\ ViewedCurrent = 1
        BY <2>2, ViewedIs DEF ViewMatches
    <3>2. ViewedMaps' = [d \in {1} |-> NoPages] /\ ViewedCurrent' = 1
      <4>1. CASE Booted'
        <5>1. low' = [d \in {KernelDirectory} |-> Cleared] /\ cr3' = KernelDirectory
            BY <2>2, <4>1, InvStep
        <5>2. ViewedMaps' = MapsOf(low') /\ ViewedCurrent' = cr3'
            BY <2>0, <4>1 DEF ViewMatches
        <5>3. MapsOf([d \in {KernelDirectory} |-> Cleared]) = [d \in {1} |-> NoPages]
            BY ViewIs DEF MapsOf, NoPages, KernelDirectory
        <5> QED BY <5>1, <5>2, <5>3 DEF KernelDirectory
      <4>2. CASE ~Booted'
          BY <2>0, <4>2 DEF ViewMatches
      <4> QED BY <4>1, <4>2
    <3> QED BY <3>1, <3>2 DEF SpacesView!spacesVars, ViewedMaps, ViewedCurrent
  <2> QED BY <2>1, <2>2
<1> QED BY <1>1, <1>2, VmmInvariant, PTL DEF VmmSpec, ImplementsSpaces, SpacesView!SpacesSpec

=============================================================================
