---------------------------- MODULE KmallocProofs ----------------------------
(***************************************************************************)
(* The heap for every size of pages, headers, alignment and stacks, however *)
(* many pages there are and wherever those of the heap lie.                 *)
(***************************************************************************)
EXTENDS Kmalloc, WellFoundedInduction, FiniteSetTheorems, SequenceTheorems,
        TLAPS

Block == [addr : Nat, size : Nat, free : BOOLEAN]
Heap == [list : Seq(Block), used : SUBSET Pages, heap : SUBSET Pages]

\* The bytes of the heap's pages, and those of a block with its header.
InHeap(x, y) ==
    \E p \in x.heap : p * PMM_PAGE_SIZE <= y /\ y < (p + 1) * PMM_PAGE_SIZE
In(b, y) == b.addr <= y /\ y < End(b)

\* Every byte of a block is the heap's, and no other block's. Stated of a heap and
\* not of h: heaptest changes it six times in a step.
HeapOK(x) ==
    /\ x \in Heap
    /\ x.heap \subseteq x.used
    /\ \A i \in DOMAIN x.list, y \in Nat : In(x.list[i], y) => InHeap(x, y)
    /\ \A i, j \in DOMAIN x.list, y \in Nat :
          In(x.list[i], y) /\ In(x.list[j], y) => i = j

\* The blocks in use, and what their owners know them by.
Live(x) == {b \in Block : ~b.free /\ \E i \in DOMAIN x.list : x.list[i] = b}
Ptr(b) == b.addr + HeaderSize
Ptrs(x) == {Ptr(b) : b \in Live(x)}

-----------------------------------------------------------------------------
(* Numbers, sums and lists *)

\* The sizes are numbers.
LEMMA Sizes ==
    /\ NPages \in Nat /\ DirectMapPages \in Nat
    /\ PMM_PAGE_SIZE \in Nat /\ HeaderSize \in Nat /\ KMALLOC_ALIGN \in Nat
    /\ KTHREAD_STACK_SIZE \in Nat /\ SmallSize \in Nat
    /\ PMM_PAGE_SIZE > 0 /\ HeaderSize > 0 /\ KMALLOC_ALIGN > 0
    /\ KTHREAD_STACK_SIZE > 0 /\ SmallSize > 0
BY KmallocAssumption

\* A set of numbers has a least one.
LEMMA LeastOf ==
    ASSUME NEW S \in SUBSET Nat, S # {}
    PROVE  \E x \in S : \A y \in S : x <= y
<1> DEFINE R == {ss \in Nat \X Nat : ss[1] < ss[2]}
<1>1. IsWellFoundedOn(R, Nat)
    BY NatLessThanWellFounded DEF OpToRel
<1>2. \E x \in S : \A y \in S : ~ (<<y, x>> \in R)
  <2> HIDE DEF R
  <2> QED BY <1>1, WFMin
<1>3. PICK x \in S : \A y \in S : ~ (<<y, x>> \in R)
    BY <1>2
<1>4. \A y \in S : ~ (y < x)
    BY <1>3
<1> QED BY <1>4

\* The first of a set of numbers is one of them.
LEMMA FirstIn ==
    ASSUME NEW S \in SUBSET Nat, S # {}
    PROVE  First(S) \in S
BY LeastOf DEF First

\* The first turn of the fold that SumFunction is.
Addend(f, g, s) == LET x == CHOOSE x \in s : TRUE IN f[x] + g[s \ {x}]

Summing(f, g, S) == g = [s \in SUBSET S |-> IF s = {} THEN 0 ELSE Addend(f, g, s)]

\* SumFunction is that fold over all of its indices.
LEMMA SumUnfolded ==
    ASSUME NEW S, NEW f \in [S -> Nat]
    PROVE  SumFunction(f) = (CHOOSE g : Summing(f, g, S))[S]
<1>1. DOMAIN f = S
    OBVIOUS
<1> QED BY <1>1 DEF SumFunction, SumFunctionOnSet, FoldFunctionOnSet, MapThenFoldSet,
                    Summing, Addend

\* A measure of the sets of indices that grows by f[x] with each index x.
Measure(g, f, S) ==
    /\ g \in [SUBSET S -> Nat]
    /\ g[{}] = 0
    /\ \A s \in SUBSET S : \A x \in s : g[s] = f[x] + g[s \ {x}]

\* It is the sum: two solutions of the fold's equation would differ on a least set.
LEMMA SumIs ==
    ASSUME NEW S, IsFiniteSet(S), NEW f \in [S -> Nat], NEW g, Measure(g, f, S)
    PROVE  SumFunction(f) = g[S]
<1> DEFINE h0 == CHOOSE k : Summing(f, k, S)
<1>1. Summing(f, g, S)
  <2>1. ASSUME NEW s \in SUBSET S, s # {} PROVE g[s] = Addend(f, g, s)
    <3> DEFINE x == CHOOSE x \in s : TRUE
    <3>1. x \in s
      BY <2>1
    <3> HIDE DEF x
    <3>2. g[s] = f[x] + g[s \ {x}]
      BY <3>1 DEF Measure
    <3> QED BY <3>2 DEF Addend, x
  <2> QED BY <2>1 DEF Summing, Measure
<1>2. Summing(f, h0, S)
    BY <1>1
<1> HIDE DEF h0
<1> DEFINE T == {n \in Nat : \E s \in SUBSET S : Cardinality(s) = n /\ h0[s] # g[s]}
<1>3. ASSUME NEW s \in SUBSET S PROVE IsFiniteSet(s) /\ Cardinality(s) \in Nat
    BY FS_Subset, FS_CardinalityType
<1>4. T = {}
  <2> SUFFICES ASSUME T # {} PROVE FALSE
    OBVIOUS
  <2>1. T \in SUBSET Nat
    OBVIOUS
  <2>2. PICK n \in T : \A m \in T : n <= m
    <3> HIDE DEF T
    <3> QED BY <2>1, LeastOf
  <2>3. PICK s \in SUBSET S : Cardinality(s) = n /\ h0[s] # g[s]
    BY <2>2
  <2>4. h0[s] = IF s = {} THEN 0 ELSE Addend(f, h0, s)
    BY <1>2 DEF Summing
  <2>5. s # {}
    BY <2>3, <2>4 DEF Measure
  <2> DEFINE x == CHOOSE x \in s : TRUE
  <2>6. x \in s
    BY <2>5
  <2>7. h0[s] = f[x] + h0[s \ {x}]
    BY <2>4, <2>5 DEF Addend
  <2> HIDE DEF x
  <2>8. s \ {x} \in SUBSET S /\ Cardinality(s \ {x}) = n - 1
    BY <1>3, <2>3, <2>6, FS_RemoveElement
  <2>9. n - 1 \notin T /\ n - 1 \in Nat
    <3>1. n - 1 \in Nat /\ ~(n <= n - 1)
      BY <1>3, <2>2, <2>8
    <3> QED BY <2>2, <3>1
  <2>10. h0[s \ {x}] = g[s \ {x}]
    BY <2>8, <2>9
  <2> QED BY <2>3, <2>6, <2>7, <2>10 DEF Measure
<1>5. h0[S] = g[S]
    BY <1>3, <1>4
<1> QED BY <1>5, SumUnfolded DEF h0

\* A measure with one more index.
Grown(g, f, S, z) ==
    [s \in SUBSET (S \cup {z}) |-> IF z \in s THEN g[s \ {z}] + f[z] ELSE g[s]]

\* which is one, and gives the larger set the larger measure.
Grows(g, f, S, z) ==
    /\ Measure(Grown(g, f, S, z), f, S \cup {z})
    /\ Grown(g, f, S, z)[S \cup {z}] = g[S] + f[z]

LEMMA MeasureGrows ==
    ASSUME NEW S, NEW z, z \notin S, NEW f, \A x \in S \cup {z} : f[x] \in Nat,
           NEW g, Measure(g, f, S)
    PROVE  Grows(g, f, S, z)
<1> DEFINE U == S \cup {z}
           G == [s \in SUBSET U |-> IF z \in s THEN g[s \ {z}] + f[z] ELSE g[s]]
<1>1. ASSUME NEW s \in SUBSET S PROVE g[s] \in Nat
    BY DEF Measure
<1>2. ASSUME NEW s \in SUBSET U PROVE G[s] \in Nat
  <2>1. CASE z \in s
    <3>1. s \ {z} \in SUBSET S
      OBVIOUS
    <3>2. g[s \ {z}] \in Nat
      BY <3>1, <1>1
    <3>3. G[s] = g[s \ {z}] + f[z]
      BY <2>1
    <3> QED BY <3>2, <3>3
  <2>2. CASE z \notin s
    <3>1. s \in SUBSET S
      BY <2>2
    <3> QED BY <2>2, <3>1, <1>1
  <2> QED BY <2>1, <2>2
<1>3. G[{}] = 0
    BY DEF Measure
<1>4. ASSUME NEW s \in SUBSET U, NEW x \in s PROVE G[s] = f[x] + G[s \ {x}]
  <2>1. CASE x = z
    <3>1. s \ {z} \in SUBSET S
      OBVIOUS
    <3>2. G[s] = g[s \ {z}] + f[z] /\ G[s \ {z}] = g[s \ {z}]
      BY <2>1, <3>1
    <3>3. g[s \ {z}] \in Nat
      BY <3>1, <1>1
    <3> HIDE DEF G
    <3> QED BY <2>1, <3>2, <3>3
  <2>2. CASE x # z /\ z \notin s
    <3>1. s \in SUBSET S /\ G[s] = g[s] /\ G[s \ {x}] = g[s \ {x}]
      BY <2>2
    <3>2. g[s] = f[x] + g[s \ {x}]
      BY <3>1 DEF Measure
    <3> QED BY <3>1, <3>2
  <2>3. CASE x # z /\ z \in s
    <3> DEFINE r == s \ {z}
    <3>1. r \in SUBSET S /\ x \in r /\ (s \ {x}) \ {z} = r \ {x} /\ r \ {x} \in SUBSET S
      BY <2>3
    <3>2. G[s] = g[r] + f[z] /\ G[s \ {x}] = g[r \ {x}] + f[z]
      BY <2>3, <3>1
    <3>3. g[r] = f[x] + g[r \ {x}]
      BY <3>1 DEF Measure
    <3>4. g[r] \in Nat /\ g[r \ {x}] \in Nat
      BY <3>1, <1>1
    <3>5. f[x] + g[r \ {x}] + f[z] = f[x] + (g[r \ {x}] + f[z])
      <4>1. f[x] \in Nat
        BY <3>1
      <4> HIDE DEF r, G
      <4> QED BY <3>4, <4>1
    <3> HIDE DEF G, r
    <3> QED BY <3>2, <3>3, <3>4, <3>5
  <2> QED BY <2>1, <2>2, <2>3
<1>5. G[U] = g[S] + f[z]
  <2>1. U \ {z} = S
    OBVIOUS
  <2> QED BY <2>1
<1> HIDE DEF G
<1>6. Measure(G, f, U)
    BY <1>2, <1>3, <1>4 DEF Measure, G
<1> QED BY <1>5, <1>6 DEF G, Grown, Grows

\* A sum of lengths that lie end to end.
LEMMA Telescope ==
    ASSUME NEW a \in Nat, NEW b \in Nat, a <= b,
           NEW f \in [a + 1 .. b -> Nat], NEW e \in [a .. b -> Nat],
           \A k \in a + 1 .. b : e[k] = e[k - 1] + f[k]
    PROVE  SumFunction(f) \in Nat /\ SumFunction(f) = e[b] - e[a]
<1> DEFINE P(n) == \E g : Measure(g, f, a + 1 .. n) /\ g[a + 1 .. n] = e[n] - e[a]
           T == {n \in a .. b : ~P(n)}
<1>1. T = {}
  <2> SUFFICES ASSUME T # {} PROVE FALSE
    OBVIOUS
  <2>1. T \in SUBSET Nat
    OBVIOUS
  <2>2. PICK n \in T : \A m \in T : n <= m
    <3> HIDE DEF T
    <3> QED BY <2>1, LeastOf
  <2>3. n \in a .. b /\ ~P(n)
    BY <2>2
  <2>4. n # a
    <3> SUFFICES P(a)
      BY <2>3
    <3> DEFINE g == [s \in SUBSET (a + 1 .. a) |-> 0]
    <3>1. a + 1 .. a = {} /\ e[a] \in Nat
      OBVIOUS
    <3>2. \A s \in SUBSET (a + 1 .. a) : s = {}
      BY <3>1
    <3>3. Measure(g, f, a + 1 .. a)
      BY <3>1, <3>2 DEF Measure
    <3> QED BY <3>1, <3>3
  <2>5. n - 1 \in a .. b /\ P(n - 1)
    <3> HIDE DEF P
    <3>1. n \in Nat /\ n - 1 \in a .. b /\ ~(n <= n - 1)
      BY <2>3, <2>4
    <3> QED BY <2>2, <3>1
  <2>6. PICK g : Measure(g, f, a + 1 .. n - 1) /\ g[a + 1 .. n - 1] = e[n - 1] - e[a]
    BY <2>5
  <2>7. n \notin a + 1 .. n - 1 /\ (a + 1 .. n - 1) \cup {n} = a + 1 .. n /\ n \in a + 1 .. b
    <3> HIDE DEF P
    <3>1. n \in a .. b /\ n # a
      BY <2>3, <2>4
    <3>2. n \in Nat /\ a + 1 <= n /\ n <= b
      BY <3>1
    <3>3. \A y : y \in (a + 1 .. n - 1) \cup {n} <=> y \in a + 1 .. n
      BY <3>2
    <3> QED BY <3>2, <3>3
  <2>8. f[n] \in Nat /\ e[n] = e[n - 1] + f[n] /\ e[n - 1] \in Nat /\ e[a] \in Nat
    BY <2>5, <2>7
  <2>9. \E G : Measure(G, f, a + 1 .. n) /\ G[a + 1 .. n] = g[a + 1 .. n - 1] + f[n]
    <3> DEFINE S == a + 1 .. n - 1
    <3> HIDE DEF P, T
    <3>1. n \notin S /\ Measure(g, f, S) /\ \A x \in S \cup {n} : f[x] \in Nat
      <4>1. n \in Nat /\ n <= b
        BY <2>7
      <4>2. ASSUME NEW x \in S PROVE f[x] \in Nat
        <5>1. x \in a + 1 .. b
          BY <4>1
        <5> QED BY <5>1
      <4> QED BY <2>6, <2>7, <2>8, <4>2
    <3> HIDE DEF S
    <3>2. Grows(g, f, S, n)
      BY <3>1, MeasureGrows, Zenon
    <3> QED BY <2>7, <3>2 DEF S, Grows
  <2>10. e[n - 1] - e[a] + f[n] = e[n] - e[a]
    BY <2>8
  <2> QED BY <2>3, <2>6, <2>9, <2>10
<1>2. P(b)
    BY <1>1
<1>3. IsFiniteSet(a + 1 .. b)
    BY FS_Interval
<1>4. PICK g : Measure(g, f, a + 1 .. b) /\ g[a + 1 .. b] = e[b] - e[a]
    BY <1>2
<1>5. g[a + 1 .. b] \in Nat
    BY <1>4 DEF Measure
<1> QED BY <1>3, <1>4, <1>5, SumIs

\* A byte is in one page.
LEMMA OnePage ==
    ASSUME NEW p \in Nat, NEW q \in Nat, NEW y \in Nat,
           p * PMM_PAGE_SIZE <= y, y < (p + 1) * PMM_PAGE_SIZE,
           q * PMM_PAGE_SIZE <= y, y < (q + 1) * PMM_PAGE_SIZE
    PROVE  p = q
<1>1. ASSUME NEW m \in Nat, NEW n \in Nat, m < n
      PROVE  (m + 1) * PMM_PAGE_SIZE <= n * PMM_PAGE_SIZE
  <2>1. PICK d \in Nat : n = m + 1 + d
    <3>1. n - (m + 1) \in Nat /\ n = m + 1 + (n - (m + 1))
      BY <1>1
    <3> QED BY <3>1
  <2>2. n * PMM_PAGE_SIZE = (m + 1) * PMM_PAGE_SIZE + d * PMM_PAGE_SIZE
    BY <2>1, Sizes
  <2>3. d * PMM_PAGE_SIZE \in Nat /\ (m + 1) * PMM_PAGE_SIZE \in Nat
    BY Sizes
  <2> QED BY <2>2, <2>3
<1>2. /\ p * PMM_PAGE_SIZE \in Nat /\ (p + 1) * PMM_PAGE_SIZE \in Nat
      /\ q * PMM_PAGE_SIZE \in Nat /\ (q + 1) * PMM_PAGE_SIZE \in Nat
    BY Sizes
<1>3. ~ (p < q)
  <2> SUFFICES ASSUME p < q PROVE FALSE
    OBVIOUS
  <2>1. (p + 1) * PMM_PAGE_SIZE <= q * PMM_PAGE_SIZE
    BY <1>1
  <2> QED BY <1>2, <2>1
<1>4. ~ (q < p)
  <2> SUFFICES ASSUME q < p PROVE FALSE
    OBVIOUS
  <2>1. (q + 1) * PMM_PAGE_SIZE <= p * PMM_PAGE_SIZE
    BY <1>1
  <2> QED BY <1>2, <2>1
<1> QED BY <1>3, <1>4

\* Where a block ends.
LEMMA EndIs ==
    ASSUME NEW b \in Block
    PROVE  /\ b.addr \in Nat /\ b.size \in Nat /\ b.free \in BOOLEAN
           /\ End(b) \in Nat /\ End(b) = b.addr + HeaderSize + b.size /\ b.addr < End(b)
BY Sizes DEF Block, End

\* A size rounded up is no smaller, and a size up to the alignment becomes it.
LEMMA AlignIs ==
    ASSUME NEW n \in Nat, n > 0
    PROVE  /\ align_size(n) \in Nat /\ n <= align_size(n)
           /\ n <= KMALLOC_ALIGN => align_size(n) = KMALLOC_ALIGN
<1> DEFINE a == KMALLOC_ALIGN
           z == n + a - 1
           q == z \div a
<1>1. a \in Nat /\ a > 0 /\ z \in Nat
    BY Sizes
<1>2. z = n + a - 1
    OBVIOUS
<1> HIDE DEF z, a
<1>3. z = a * q + (z % a) /\ q \in Nat /\ z % a \in 0 .. a - 1
    BY <1>1
<1> HIDE DEF q
<1>4. q * a \in Nat /\ q * a = a * q /\ a * q \in Nat
    BY <1>1, <1>3
<1>5. z < q * a + a
    BY <1>1, <1>3, <1>4
<1>6. n <= q * a
    BY <1>2, <1>1, <1>4, <1>5
<1>7. ASSUME n <= a PROVE q = 1
  <2>1. z < 2 * a /\ a <= z
    BY <1>1, <1>2, <1>7
  <2>2. q # 0
    <3> SUFFICES ASSUME q = 0 PROVE FALSE
      OBVIOUS
    <3>1. q * a = 0
      BY <1>1
    <3> QED BY <1>1, <1>5, <2>1, <3>1
  <2>3. ~ (q >= 2)
    <3> SUFFICES ASSUME q >= 2 PROVE FALSE
      OBVIOUS
    <3>1. q - 2 \in Nat /\ (q - 2) * a \in Nat /\ q * a = (q - 2) * a + 2 * a
      BY <1>1, <1>3
    <3>2. q * a <= z
      BY <1>1, <1>3, <1>4
    <3> QED BY <1>1, <2>1, <3>1, <3>2
  <2> QED BY <1>3, <2>2, <2>3
<1>8. align_size(n) = q * a
    BY DEF align_size, q, z, a
<1>9. n <= a => q * a = a
    BY <1>1, <1>7
<1> QED BY <1>4, <1>6, <1>8, <1>9 DEF a

\* What this kernel asks for fits a page.
LEMMA RequestsFit ==
    ASSUME NEW n \in {KTHREAD_STACK_SIZE, SmallSize}
    PROVE  /\ align_size(n) \in Nat /\ n <= align_size(n)
           /\ align_size(n) <= PMM_PAGE_SIZE - HeaderSize
<1>1. CASE n = KTHREAD_STACK_SIZE
    BY <1>1, AlignIs, Sizes, KmallocAssumption
<1>2. CASE n = SmallSize
  <2>1. align_size(n) = KMALLOC_ALIGN
    BY <1>2, AlignIs, Sizes, KmallocAssumption
  <2>2. /\ KTHREAD_STACK_SIZE <= align_size(KTHREAD_STACK_SIZE)
        /\ align_size(KTHREAD_STACK_SIZE) \in Nat
    BY AlignIs, Sizes
  <2> QED BY <1>2, <2>1, <2>2, Sizes, KmallocAssumption
<1> QED BY <1>1, <1>2

\* A list with block i of it replaced, the blocks up to last taken out and r put in.
Splice(s, i, b, r, last) == Before(s, i) \o <<b>> \o r \o After(s, last)

\* Its length and where its blocks are.
IsSplice(n, s, i, b, r, last) ==
    /\ n \in Seq(Block)
    /\ Len(n) = i + Len(r) + (Len(s) - last)
    /\ \A k \in 1 .. i - 1 : n[k] = s[k]
    /\ n[i] = b
    /\ \A k \in 1 .. Len(r) : n[i + k] = r[k]
    /\ \A k \in i + Len(r) + 1 .. Len(n) : n[k] = s[k - i - Len(r) + last]

\* which is what the list of alloc_from_block and of kfree is.
LEMMA Spliced ==
    ASSUME NEW s \in Seq(Block), NEW i \in 1 .. Len(s), NEW last \in i .. Len(s),
           NEW b \in Block, NEW r \in Seq(Block)
    PROVE  IsSplice(Splice(s, i, b, r, last), s, i, b, r, last)
<1> DEFINE n == Splice(s, i, b, r, last)
           u == Before(s, i)
           v == After(s, last)
           t == u \o <<b>>
           w == t \o r
<1>0. /\ Len(s) \in Nat /\ i \in Nat /\ last \in Nat /\ 1 <= i /\ i <= last /\ last <= Len(s)
      /\ Len(r) \in Nat /\ \A k \in 1 .. Len(s) : s[k] \in Block
    BY LenProperties
<1>1. u \in Seq(Block) /\ Len(u) = i - 1 /\ \A k \in 1 .. i - 1 : u[k] = s[k]
    BY <1>0, SubSeqProperties DEF Before
<1>2. /\ v \in Seq(Block) /\ Len(v) = Len(s) - last
      /\ \A k \in 1 .. Len(s) - last : v[k] = s[last + k]
    BY <1>0, SubSeqProperties DEF After
<1> HIDE DEF u, v
<1>3. /\ t \in Seq(Block) /\ Len(t) = i /\ t[i] = b /\ \A k \in 1 .. i - 1 : t[k] = s[k]
  <2>1. <<b>> \in Seq(Block) /\ Len(<<b>>) = 1 /\ <<b>>[1] = b
    OBVIOUS
  <2>2. /\ t \in Seq(Block) /\ Len(t) = i
        /\ \A k \in 1 .. i : t[k] = IF k <= i - 1 THEN u[k] ELSE <<b>>[k - (i - 1)]
    BY <1>0, <1>1, <2>1, ConcatProperties
  <2> HIDE DEF t
  <2>3. i \in 1 .. i /\ ~(i <= i - 1) /\ i - (i - 1) = 1
    BY <1>0
  <2>4. t[i] = b
    BY <2>1, <2>2, <2>3
  <2>5. ASSUME NEW k \in 1 .. i - 1 PROVE t[k] = s[k]
    <3>1. k \in 1 .. i /\ k <= i - 1
      BY <1>0
    <3> QED BY <1>1, <2>2, <3>1
  <2> QED BY <2>2, <2>4, <2>5
<1> HIDE DEF t
<1>4. /\ w \in Seq(Block) /\ Len(w) = i + Len(r) /\ w[i] = b
      /\ \A k \in 1 .. i - 1 : w[k] = s[k]
      /\ \A k \in 1 .. Len(r) : w[i + k] = r[k]
  <2>1. /\ w \in Seq(Block) /\ Len(w) = i + Len(r)
        /\ \A k \in 1 .. i + Len(r) : w[k] = IF k <= i THEN t[k] ELSE r[k - i]
    BY <1>3, ConcatProperties
  <2> HIDE DEF w
  <2> QED BY <1>0, <1>3, <2>1
<1> HIDE DEF w
<1>5. n = w \o v
    BY DEF w, t, u, v, Splice
<1> HIDE DEF n
<1>6. /\ n \in Seq(Block) /\ Len(n) = i + Len(r) + (Len(s) - last)
      /\ \A k \in 1 .. Len(n) : n[k] = IF k <= i + Len(r) THEN w[k] ELSE v[k - (i + Len(r))]
  <2>0. w \in Seq(Block) /\ v \in Seq(Block)
    BY <1>2, <1>4
  <2>1. /\ w \o v \in Seq(Block) /\ Len(w \o v) = Len(w) + Len(v)
        /\ \A k \in 1 .. Len(w) + Len(v) :
              (w \o v)[k] = IF k <= Len(w) THEN w[k] ELSE v[k - Len(w)]
    BY <2>0, ConcatProperties
  <2> QED BY <1>2, <1>4, <1>5, <2>1
<1>7. \A k \in 1 .. i + Len(r) : n[k] = w[k]
    BY <1>0, <1>6
<1>8. \A k \in i + Len(r) + 1 .. Len(n) : n[k] = v[k - (i + Len(r))]
    BY <1>0, <1>6
<1>9. ASSUME NEW k \in i + Len(r) + 1 .. Len(n) PROVE n[k] = s[k - i - Len(r) + last]
  <2>1. k - (i + Len(r)) \in 1 .. Len(s) - last
    BY <1>0, <1>6
  <2>2. v[k - (i + Len(r))] = s[last + (k - (i + Len(r)))]
    BY <1>2, <2>1
  <2>3. last + (k - (i + Len(r))) = k - i - Len(r) + last
    BY <1>0, <1>6
  <2> QED BY <1>8, <2>2, <2>3
<1>10. ASSUME NEW k \in 1 .. i - 1 PROVE n[k] = s[k]
  <2>1. k \in 1 .. i + Len(r)
    BY <1>0
  <2> QED BY <1>4, <1>7, <2>1
<1>11. n[i] = b
  <2>1. i \in 1 .. i + Len(r)
    BY <1>0
  <2> QED BY <1>4, <1>7, <2>1
<1>12. ASSUME NEW k \in 1 .. Len(r) PROVE n[i + k] = r[k]
  <2>1. i + k \in 1 .. i + Len(r)
    BY <1>0
  <2> QED BY <1>4, <1>7, <2>1
<1> QED BY <1>6, <1>9, <1>10, <1>11, <1>12 DEF n, IsSplice

-----------------------------------------------------------------------------
(* The operations on a heap *)

\* The list of a heap and its blocks.
LEMMA ListIs ==
    ASSUME NEW x \in Heap
    PROVE  /\ x.list \in Seq(Block) /\ Len(x.list) \in Nat /\ DOMAIN x.list = 1 .. Len(x.list)
           /\ \A i \in 1 .. Len(x.list) : x.list[i] \in Block
           /\ x.used \subseteq Pages /\ x.heap \subseteq Pages
<1>1. x.list \in Seq(Block) /\ x.used \subseteq Pages /\ x.heap \subseteq Pages
    BY DEF Heap
<1> QED BY <1>1, LenProperties

\* Pages are numbers, none of them 0.
LEMMA PagesAre == Pages \subseteq Nat /\ 0 \notin Pages
BY Sizes DEF Pages

\* A heap with another list.
LEMMA Relisted ==
    ASSUME NEW x \in Heap, NEW n \in Seq(Block)
    PROVE  LET y == [x EXCEPT !.list = n]
           IN  y \in Heap /\ y.list = n /\ y.used = x.used /\ y.heap = x.heap
BY DEF Heap

\* A block is its fields.
LEMMA SameBlock ==
    ASSUME NEW b \in Block, NEW d \in Block,
           b.addr = d.addr, b.size = d.size, b.free = d.free
    PROVE  b = d
BY DEF Block

\* A block taken, with the size asked for.
LEMMA Resized ==
    ASSUME NEW d \in Block, NEW n \in Nat
    PROVE  /\ [d EXCEPT !.size = n, !.free = FALSE] = [addr |-> d.addr, size |-> n, free |-> FALSE]
           /\ [addr |-> d.addr, size |-> n, free |-> FALSE] \in Block
<1> DEFINE e == [d EXCEPT !.size = n]
<1>1. e \in Block /\ e.addr = d.addr /\ e.size = n
    BY DEF Block
<1> HIDE DEF e
<1>2. [e EXCEPT !.free = FALSE] = [addr |-> d.addr, size |-> n, free |-> FALSE]
  <2>1. [e EXCEPT !.free = FALSE] \in Block
    BY <1>1 DEF Block
  <2>2. [addr |-> d.addr, size |-> n, free |-> FALSE] \in Block
    BY DEF Block
  <2>3. /\ [e EXCEPT !.free = FALSE].addr = d.addr /\ [e EXCEPT !.free = FALSE].size = n
        /\ [e EXCEPT !.free = FALSE].free = FALSE
    BY <1>1 DEF Block
  <2> QED BY <2>1, <2>2, <2>3, SameBlock
<1>3. [addr |-> d.addr, size |-> n, free |-> FALSE] \in Block
    BY DEF Block
<1> QED BY <1>2, <1>3 DEF e

\* alloc_from_block takes the block's first bytes for the block in use and, if it
\* splits, a header and more of the others for the remainder.
LEMMA AllocFromBlock ==
    ASSUME NEW x, HeapOK(x), NEW i \in DOMAIN x.list, x.list[i].free,
           NEW size \in Nat, size <= x.list[i].size
    PROVE  LET y == alloc_from_block(x, i, size)
               b == [addr |-> x.list[i].addr, size |-> size, free |-> FALSE]
           IN  /\ HeapOK(y) /\ y.heap = x.heap /\ y.used = x.used
               /\ b \in Block /\ Live(y) = Live(x) \cup {b}
<1> DEFINE s == x.list
           b == [addr |-> s[i].addr, size |-> size, free |-> FALSE]
           e == [addr |-> s[i].addr + HeaderSize + size,
                 size |-> s[i].size - size - HeaderSize, free |-> TRUE]
           r == IF s[i].size - size >= HeaderSize + KMALLOC_ALIGN THEN <<e>> ELSE <<>>
           n == Splice(s, i, b, r, i)
           y == alloc_from_block(x, i, size)
<1>1. /\ s \in Seq(Block) /\ Len(s) \in Nat /\ DOMAIN s = 1 .. Len(s)
      /\ \A k \in 1 .. Len(s) : s[k] \in Block
    BY ListIs DEF HeapOK
<1>2. /\ i \in 1 .. Len(s) /\ s[i] \in Block /\ s[i].addr \in Nat /\ s[i].size \in Nat
      /\ End(s[i]) = s[i].addr + HeaderSize + s[i].size
    BY <1>1, EndIs
<1>3. b \in Block /\ [s[i] EXCEPT !.size = size, !.free = FALSE] = b
    BY <1>2, Resized
<1>4. y = [x EXCEPT !.list = n]
  <2>1. x \in Heap
    BY DEF HeapOK
  <2> QED BY <1>3, <2>1 DEF alloc_from_block, Heap, Splice
<1>5. /\ r \in Seq(Block) /\ Len(r) \in {0, 1}
      /\ Len(r) = 1 => s[i].size - size >= HeaderSize + KMALLOC_ALIGN /\ r[1] = e /\ e \in Block
  <2>1. CASE s[i].size - size >= HeaderSize + KMALLOC_ALIGN
    <3>1. e \in Block
      BY <1>2, <2>1, Sizes DEF Block
    <3>2. r = <<e>>
      BY <2>1
    <3> HIDE DEF e, r
    <3>3. r \in Seq(Block) /\ Len(r) = 1 /\ r[1] = e
      BY <3>1, <3>2
    <3> QED BY <2>1, <3>1, <3>3
  <2>2. CASE ~ (s[i].size - size >= HeaderSize + KMALLOC_ALIGN)
    <3>1. r = <<>>
      BY <2>2
    <3> HIDE DEF r
    <3>2. r \in Seq(Block) /\ Len(r) = 0
      BY <3>1
    <3> QED BY <3>2
  <2> QED BY <2>1, <2>2
<1>6. s[i].free /\ ~b.free /\ b.addr = s[i].addr /\ b.size = size /\ b = b
    OBVIOUS
<1>7. /\ e.addr = s[i].addr + HeaderSize + size /\ e.size = s[i].size - size - HeaderSize
      /\ e.free = TRUE
    OBVIOUS
<1> HIDE DEF b, e, r
<1>8. /\ n \in Seq(Block) /\ Len(n) = Len(s) + Len(r)
      /\ \A k \in 1 .. i - 1 : n[k] = s[k]
      /\ n[i] = b
      /\ Len(r) = 1 => n[i + 1] = e
      /\ \A k \in i + Len(r) + 1 .. Len(n) : n[k] = s[k - Len(r)]
  <2>1. i \in i .. Len(s) /\ i \in Nat /\ Len(r) \in Nat
    BY <1>1, <1>2, <1>5
  <2>2. /\ n \in Seq(Block) /\ Len(n) = i + Len(r) + (Len(s) - i)
        /\ \A k \in 1 .. i - 1 : n[k] = s[k]
        /\ n[i] = b
        /\ \A k \in 1 .. Len(r) : n[i + k] = r[k]
        /\ \A k \in i + Len(r) + 1 .. Len(n) : n[k] = s[k - i - Len(r) + i]
    <3>2. s \in Seq(Block) /\ i \in 1 .. Len(s) /\ b \in Block /\ r \in Seq(Block)
      BY <1>1, <1>2, <1>3, <1>5
    <3> HIDE DEF s, n
    <3>3. IsSplice(n, s, i, b, r, i)
      BY <2>1, <3>2, Spliced DEF n
    <3> QED BY <3>3 DEF IsSplice
  <2> HIDE DEF n, s
  <2>3. Len(n) = Len(s) + Len(r)
    BY <1>1, <2>1, <2>2
  <2>4. Len(r) = 1 => n[i + 1] = e
    BY <1>5, <2>2
  <2>5. ASSUME NEW k \in i + Len(r) + 1 .. Len(n) PROVE n[k] = s[k - Len(r)]
    <3>1. k - i - Len(r) + i = k - Len(r)
      BY <1>1, <2>1, <2>3
    <3> QED BY <2>2, <3>1
  <2> QED BY <2>2, <2>3, <2>4, <2>5
<1>9. y \in Heap /\ y.list = n /\ y.used = x.used /\ y.heap = x.heap
  <2>1. x \in Heap
    BY DEF HeapOK
  <2> HIDE DEF n, y
  <2> QED BY <1>4, <1>8, <2>1, Relisted
<1> HIDE DEF n, y
<1>10. DOMAIN n = 1 .. Len(n) /\ \A k \in 1 .. Len(n) : n[k] \in Block
    BY <1>8, LenProperties
<1> DEFINE o(k) == IF k <= i THEN k ELSE k - Len(r)
<1>11. i \in Nat /\ 1 <= i /\ i <= Len(s) /\ Len(s) \in Nat
    BY <1>1, <1>2
<1>12. /\ End(b) = s[i].addr + HeaderSize + size
       /\ Len(r) = 1 => End(e) = End(s[i])
  <2>1. b \in Block /\ b.addr = s[i].addr /\ b.size = size
    BY <1>3, <1>6
  <2>2. End(b) = s[i].addr + HeaderSize + size
    BY <2>1, EndIs
  <2>3. ASSUME Len(r) = 1 PROVE End(e) = End(s[i])
    <3>1. End(e) = e.addr + HeaderSize + e.size
      BY <1>5, <2>3, EndIs
    <3> QED BY <1>2, <1>7, <3>1, Sizes
  <2> QED BY <2>2, <2>3
<1>13. ASSUME NEW k \in 1 .. Len(n)
       PROVE  /\ o(k) \in 1 .. Len(s)
              /\ (n[k] = s[o(k)] /\ o(k) # i) \/ k = i \/ (k = i + 1 /\ Len(r) = 1)
  <2> k \in Nat /\ 1 <= k /\ k <= Len(n)
    BY <1>5, <1>8, <1>11
  <2>1. CASE k < i
    BY <1>8, <1>11, <2>1
  <2>2. CASE k = i
    BY <1>11, <2>2
  <2>3. CASE k = i + 1 /\ Len(r) = 1
    BY <1>11, <2>3
  <2>4. CASE k > i /\ Len(r) = 0
    BY <1>8, <1>11, <2>4
  <2>5. CASE k > i + 1 /\ Len(r) = 1
    BY <1>8, <1>11, <2>5
  <2> QED BY <1>5, <1>11, <2>1, <2>2, <2>3, <2>4, <2>5
<1>14. ASSUME NEW k \in 1 .. Len(n), NEW z \in Nat, In(n[k], z) PROVE In(s[o(k)], z)
  <2>1. CASE n[k] = s[o(k)]
    BY <1>14, <2>1
  <2>2. CASE k = i
    <3>1. In(b, z) /\ o(k) = i
      BY <1>2, <1>8, <1>14, <2>2
    <3>2. s[i].addr <= z /\ z < s[i].addr + HeaderSize + size
      BY <1>6, <1>12, <3>1 DEF In
    <3>3. s[i].addr <= z /\ z < End(s[i])
      BY <1>2, <3>2, Sizes
    <3> QED BY <3>1, <3>3 DEF In
  <2>3. CASE k = i + 1 /\ Len(r) = 1
    <3>1. In(e, z) /\ o(k) = i
      BY <1>2, <1>8, <1>14, <2>3
    <3>2. s[i].addr + HeaderSize + size <= z /\ z < End(s[i])
      BY <1>7, <1>12, <2>3, <3>1 DEF In
    <3>3. s[i].addr <= z /\ z < End(s[i])
      BY <1>2, <3>2, Sizes
    <3> QED BY <3>1, <3>3 DEF In
  <2> QED BY <1>13, <2>1, <2>2, <2>3
<1>15. ASSUME NEW k \in 1 .. Len(n), NEW l \in 1 .. Len(n), NEW z \in Nat,
              In(n[k], z), In(n[l], z)
       PROVE  k = l
  <2>1. o(k) = o(l)
    <3>1. In(s[o(k)], z) /\ In(s[o(l)], z)
      BY <1>14, <1>15
    <3>2. o(k) \in DOMAIN s /\ o(l) \in DOMAIN s
      BY <1>1, <1>13
    <3> HIDE DEF o
    <3> QED BY <3>1, <3>2 DEF HeapOK
  <2>2. ~ (Len(r) = 1 /\ In(b, z) /\ In(e, z))
    <3>1. In(b, z) => z < s[i].addr + HeaderSize + size
      BY <1>12 DEF In
    <3>2. In(e, z) => s[i].addr + HeaderSize + size <= z
      BY <1>7 DEF In
    <3>3. s[i].addr + HeaderSize + size \in Nat
      BY <1>2, Sizes
    <3> QED BY <3>1, <3>2, <3>3
  <2>3. k = l \/ (Len(r) = 1 /\ k = i /\ l = i + 1) \/ (Len(r) = 1 /\ l = i /\ k = i + 1)
    <3>1. k \in Nat /\ l \in Nat
      BY <1>5, <1>8, <1>11
    <3>2. CASE Len(r) = 0
      BY <1>11, <2>1, <3>1, <3>2
    <3>3. CASE Len(r) = 1
      BY <1>11, <2>1, <3>1, <3>3
    <3> QED BY <1>5, <3>2, <3>3
  <2> QED BY <1>8, <1>15, <2>2, <2>3
<1>16. HeapOK(y)
  <2>1. ASSUME NEW k \in DOMAIN n, NEW z \in Nat, In(n[k], z) PROVE InHeap(y, z)
    <3>1. In(s[o(k)], z) /\ o(k) \in DOMAIN s
      BY <1>1, <1>10, <1>13, <1>14, <2>1
    <3>2. InHeap(x, z)
      <4> HIDE DEF o
      <4> QED BY <3>1 DEF HeapOK
    <3> QED BY <1>9, <3>2 DEF InHeap
  <2>2. x.heap \subseteq x.used
    BY DEF HeapOK
  <2> QED BY <1>9, <1>10, <1>15, <2>1, <2>2 DEF HeapOK
<1>17. Live(y) = Live(x) \cup {b}
  <2>1. ASSUME NEW d \in Live(y) PROVE d \in Live(x) \cup {b}
    <3>1. PICK k \in DOMAIN n : n[k] = d
      BY <1>9 DEF Live
    <3>2. ~d.free /\ d \in Block
      BY DEF Live
    <3>3. CASE n[k] = s[o(k)]
      <4>1. o(k) \in DOMAIN s /\ s[o(k)] = d
        BY <1>1, <1>10, <1>13, <3>1, <3>3
      <4> HIDE DEF o
      <4> QED BY <3>2, <4>1 DEF Live
    <3>4. CASE k = i
      BY <1>8, <3>1, <3>4
    <3>5. CASE k = i + 1 /\ Len(r) = 1
      BY <1>7, <1>8, <3>1, <3>2, <3>5
    <3> QED BY <1>10, <1>13, <3>3, <3>4, <3>5
  <2>2. ASSUME NEW d \in Live(x) PROVE d \in Live(y)
    <3>1. PICK j \in DOMAIN s : s[j] = d
      BY DEF Live
    <3>2. ~d.free /\ d \in Block /\ j # i
      BY <1>6, <3>1 DEF Live
    <3> DEFINE k == IF j < i THEN j ELSE j + Len(r)
    <3>3. k \in 1 .. Len(n) /\ n[k] = s[j]
      <4>1. j \in Nat /\ 1 <= j /\ j <= Len(s) /\ j # i
        BY <1>1, <1>11, <3>1, <3>2
      <4>2. CASE j < i
        <5>1. k = j /\ j \in 1 .. i - 1
          BY <1>11, <4>1, <4>2
        <5>2. j <= Len(n)
          BY <1>5, <1>8, <1>11, <4>1
        <5> QED BY <1>8, <4>1, <5>1, <5>2
      <4>3. CASE j > i /\ Len(r) = 0
        BY <1>8, <1>11, <4>1, <4>3
      <4>4. CASE j > i /\ Len(r) = 1
        <5>1. k = j + 1 /\ Len(n) = Len(s) + 1
          BY <1>8, <1>11, <4>1, <4>4
        <5>2. k \in 1 .. Len(n) /\ k \in i + Len(r) + 1 .. Len(n) /\ k - Len(r) = j
          BY <1>11, <4>1, <4>4, <5>1
        <5> QED BY <1>8, <5>2
      <4> QED BY <1>5, <1>11, <4>1, <4>2, <4>3, <4>4
    <3> HIDE DEF k
    <3> QED BY <1>9, <1>10, <3>1, <3>2, <3>3 DEF Live
  <2>3. b \in Live(y)
    <3>1. i \in DOMAIN n
      BY <1>1, <1>2, <1>5, <1>8, <1>10
    <3> QED BY <1>3, <1>6, <1>8, <1>9, <3>1 DEF Live
  <2> QED BY <2>1, <2>2, <2>3
<1> QED BY <1>3, <1>9, <1>16, <1>17 DEF b, y

\* The page new_block gets is one that was free.
LEMMA HeapPageIs ==
    ASSUME NEW x \in Heap, HeapPage(x) # NULL
    PROVE  HeapPage(x) \in Pages \ x.used
<1>1. HeapPage(x) = First(Pages \ x.used) /\ First(Pages \ x.used) # 0
    BY DEF HeapPage, NULL
<1>2. Pages \ x.used # {}
    BY <1>1 DEF First, NULL
<1> QED BY <1>1, <1>2, FirstIn, PagesAre

\* new_block appends a block that is all of a page no block was in.
LEMMA NewBlock ==
    ASSUME NEW x, HeapOK(x), HeapPage(x) # NULL
    PROVE  LET y == new_block(x)
               m == Len(x.list) + 1
           IN  /\ HeapOK(y) /\ Live(y) = Live(x)
               /\ m \in DOMAIN y.list /\ Len(y.list) = m
               /\ y.list[m].free /\ y.list[m].size = PMM_PAGE_SIZE - HeaderSize
<1> DEFINE s == x.list
           p == HeapPage(x)
           b == [addr |-> p * PMM_PAGE_SIZE, size |-> PMM_PAGE_SIZE - HeaderSize, free |-> TRUE]
           n == Append(s, b)
           y == new_block(x)
           m == Len(s) + 1
<1>1. /\ s \in Seq(Block) /\ Len(s) \in Nat /\ DOMAIN s = 1 .. Len(s)
      /\ \A k \in 1 .. Len(s) : s[k] \in Block
      /\ x.used \subseteq Pages /\ x.heap \subseteq Pages /\ x.heap \subseteq x.used
    BY ListIs DEF HeapOK
<1>2. p \in Pages \ x.used /\ p \in Nat /\ p \notin x.heap
    BY <1>1, HeapPageIs, PagesAre DEF HeapOK
<1> HIDE DEF p
<1>3. b \in Block /\ b.addr = p * PMM_PAGE_SIZE /\ End(b) = (p + 1) * PMM_PAGE_SIZE
  <2>1. p * PMM_PAGE_SIZE \in Nat /\ (p + 1) * PMM_PAGE_SIZE = p * PMM_PAGE_SIZE + PMM_PAGE_SIZE
    BY <1>2, Sizes
  <2>2. PMM_PAGE_SIZE - HeaderSize \in Nat
    <3>1. align_size(KTHREAD_STACK_SIZE) \in Nat
      BY RequestsFit
    <3> QED BY <3>1, Sizes, KmallocAssumption
  <2>3. b \in Block
    BY <2>1, <2>2 DEF Block
  <2>4. End(b) = p * PMM_PAGE_SIZE + HeaderSize + (PMM_PAGE_SIZE - HeaderSize)
    BY DEF End
  <2> QED BY <2>1, <2>2, <2>3, <2>4, Sizes
<1>4. b.free /\ b.size = PMM_PAGE_SIZE - HeaderSize
    OBVIOUS
<1> HIDE DEF b
<1>5. /\ n \in Seq(Block) /\ Len(n) = m /\ DOMAIN n = 1 .. m /\ n[m] = b
      /\ \A k \in 1 .. Len(s) : n[k] = s[k]
    BY <1>1, <1>3
<1>6. y.list = n /\ y.used = x.used \cup {p} /\ y.heap = x.heap \cup {p}
      /\ y = [list |-> y.list, used |-> y.used, heap |-> y.heap]
    BY DEF new_block, p, b
<1> HIDE DEF n, y
<1>7. y \in Heap
    BY <1>1, <1>2, <1>5, <1>6 DEF Heap
<1>8. ASSUME NEW z \in Nat, NEW k \in 1 .. Len(s), In(s[k], z) PROVE InHeap(x, z) /\ ~In(b, z)
  <2>1. InHeap(x, z)
    BY <1>1, <1>8 DEF HeapOK
  <2>2. PICK q \in x.heap : q * PMM_PAGE_SIZE <= z /\ z < (q + 1) * PMM_PAGE_SIZE
    BY <2>1 DEF InHeap
  <2>3. q \in Nat /\ q # p
    BY <1>1, <1>2, PagesAre
  <2> QED BY <1>2, <1>3, <2>1, <2>2, <2>3, OnePage DEF In
<1>9. ASSUME NEW k \in DOMAIN n, NEW z \in Nat, In(n[k], z) PROVE InHeap(y, z)
  <2>1. CASE k = m
    <3>1. p * PMM_PAGE_SIZE <= z /\ z < (p + 1) * PMM_PAGE_SIZE
      BY <1>3, <1>5, <1>9, <2>1 DEF In
    <3> QED BY <1>6, <3>1 DEF InHeap
  <2>2. CASE k \in 1 .. Len(s)
    <3>1. InHeap(x, z)
      BY <1>5, <1>8, <1>9, <2>2
    <3> QED BY <1>6, <3>1 DEF InHeap
  <2> QED BY <1>1, <1>5, <2>1, <2>2
<1>10. ASSUME NEW k \in DOMAIN n, NEW l \in DOMAIN n, NEW z \in Nat, In(n[k], z), In(n[l], z)
       PROVE  k = l
  <2>1. CASE k \in 1 .. Len(s) /\ l \in 1 .. Len(s)
    <3>1. In(s[k], z) /\ In(s[l], z)
      BY <1>5, <1>10, <2>1
    <3> QED BY <1>1, <2>1, <3>1 DEF HeapOK
  <2>2. CASE k = m /\ l \in 1 .. Len(s)
    BY <1>5, <1>8, <1>10, <2>2
  <2>3. CASE l = m /\ k \in 1 .. Len(s)
    BY <1>5, <1>8, <1>10, <2>3
  <2> QED BY <1>1, <1>5, <2>1, <2>2, <2>3
<1>11. HeapOK(y)
    BY <1>1, <1>6, <1>7, <1>9, <1>10 DEF HeapOK
<1>12. Live(y) = Live(x)
  <2>1. ASSUME NEW d, ~d.free
        PROVE  (\E k \in DOMAIN n : n[k] = d) <=> (\E k \in DOMAIN s : s[k] = d)
    <3>1. ASSUME NEW k \in DOMAIN n, n[k] = d PROVE \E j \in DOMAIN s : s[j] = d
      <4>1. k # m
        BY <1>4, <1>5, <2>1, <3>1
      <4>2. k \in DOMAIN s
        BY <1>1, <1>5, <4>1
      <4> QED BY <1>1, <1>5, <3>1, <4>2
    <3>2. ASSUME NEW k \in DOMAIN s, s[k] = d PROVE \E j \in DOMAIN n : n[j] = d
      <4>1. k \in DOMAIN n
        BY <1>1, <1>5
      <4> QED BY <1>1, <1>5, <3>2, <4>1
    <3> QED BY <3>1, <3>2
  <2> QED BY <1>6, <2>1 DEF Live
<1>13. m \in DOMAIN n
    BY <1>1, <1>5
<1> QED BY <1>4, <1>5, <1>6, <1>11, <1>12, <1>13 DEF y

\* A pointer is of one block.
LEMMA OneBlock ==
    ASSUME NEW x, HeapOK(x), NEW i \in DOMAIN x.list, NEW j \in DOMAIN x.list,
           Ptr(x.list[i]) = Ptr(x.list[j])
    PROVE  i = j
<1>1. /\ x.list[i] \in Block /\ x.list[j] \in Block
    BY ListIs DEF HeapOK
<1>2. /\ x.list[i].addr \in Nat /\ x.list[j].addr \in Nat
      /\ x.list[i].addr < End(x.list[i]) /\ x.list[j].addr < End(x.list[j])
    BY <1>1, EndIs
<1>3. x.list[i].addr = x.list[j].addr
    BY <1>2, Sizes DEF Ptr
<1>4. In(x.list[i], x.list[i].addr) /\ In(x.list[j], x.list[i].addr)
    BY <1>2, <1>3 DEF In
<1> QED BY <1>2, <1>4 DEF HeapOK

\* kmalloc makes one block more, of the size asked for, or fails and does nothing.
LEMMA KmallocIs ==
    ASSUME NEW x, HeapOK(x), NEW request \in {KTHREAD_STACK_SIZE, SmallSize}
    PROVE  LET m == kmalloc(x, request)
           IN  /\ HeapOK(m.heap)
               /\ \/ m.ret = NULL /\ m.heap = x
                  \/ /\ m.ret # NULL /\ m.ret \notin Ptrs(x)
                     /\ \E b \in Block : /\ m.ret = Ptr(b) /\ b.size >= request
                                         /\ Live(m.heap) = Live(x) \cup {b}
<1> DEFINE size == align_size(request)
           fits == {i \in DOMAIN x.list : x.list[i].free /\ x.list[i].size >= size}
           grown == new_block(x)
           Taken(y, i) == [heap |-> alloc_from_block(y, i, size),
                           ret |-> y.list[i].addr + HeaderSize]
           m == kmalloc(x, request)
<1>1. size \in Nat /\ request <= size /\ size <= PMM_PAGE_SIZE - HeaderSize
    BY RequestsFit
<1> HIDE DEF size
<1>2. ASSUME NEW y, HeapOK(y), NEW i \in DOMAIN y.list, y.list[i].free, size <= y.list[i].size,
             Live(y) = Live(x), m = Taken(y, i)
      PROVE  /\ HeapOK(m.heap) /\ m.ret # NULL /\ m.ret \notin Ptrs(x)
             /\ \E b \in Block : /\ m.ret = Ptr(b) /\ b.size >= request
                                 /\ Live(m.heap) = Live(x) \cup {b}
  <2> DEFINE b == [addr |-> y.list[i].addr, size |-> size, free |-> FALSE]
  <2>1. /\ HeapOK(alloc_from_block(y, i, size)) /\ b \in Block
        /\ Live(alloc_from_block(y, i, size)) = Live(y) \cup {b}
    BY <1>1, <1>2, AllocFromBlock
  <2>2. m.heap = alloc_from_block(y, i, size) /\ m.ret = y.list[i].addr + HeaderSize
    BY <1>2
  <2>3. b.addr = y.list[i].addr /\ b.size = size /\ b.addr \in Nat
    BY <2>1 DEF Block
  <2> HIDE DEF b, m
  <2>4. m.ret = Ptr(b) /\ b.size >= request /\ m.ret # NULL
    BY <1>1, <2>2, <2>3, Sizes DEF Ptr, NULL
  <2>5. m.ret \notin Ptrs(x)
    <3> SUFFICES ASSUME NEW d \in Live(y), Ptr(d) = Ptr(b) PROVE FALSE
      BY <1>2, <2>4 DEF Ptrs
    <3>1. PICK j \in DOMAIN y.list : y.list[j] = d
      BY DEF Live
    <3>2. ~d.free
      BY DEF Live
    <3>3. Ptr(y.list[j]) = Ptr(y.list[i])
      BY <2>3, <3>1 DEF Ptr
    <3>4. i = j
      BY <1>2, <3>3, OneBlock
    <3> QED BY <1>2, <3>1, <3>2, <3>4
  <2> QED BY <1>2, <2>1, <2>2, <2>4, <2>5
<1>3. CASE fits # {}
  <2>1. fits \in SUBSET Nat
    BY ListIs DEF HeapOK
  <2>2. First(fits) \in fits
    <3> HIDE DEF fits
    <3> QED BY <1>3, <2>1, FirstIn
  <2>3. /\ First(fits) \in DOMAIN x.list /\ x.list[First(fits)].free
        /\ x.list[First(fits)].size >= size
    BY <2>2
  <2>4. x.list[First(fits)].size \in Nat
    BY <2>3, ListIs, EndIs DEF HeapOK
  <2>5. size <= x.list[First(fits)].size
    <3> HIDE DEF fits
    <3> QED BY <1>1, <2>3, <2>4
  <2>6. m = Taken(x, First(fits))
    BY <1>3 DEF kmalloc, size
  <2> HIDE DEF fits, m, Taken
  <2> QED BY <1>2, <2>3, <2>5, <2>6 DEF m
<1>4. CASE fits = {} /\ HeapPage(x) = NULL
  <2>1. m = [heap |-> x, ret |-> NULL]
    BY <1>4 DEF kmalloc, size
  <2> QED BY <2>1
<1>5. CASE fits = {} /\ HeapPage(x) # NULL
  <2> DEFINE i == Len(grown.list)
  <2>1. /\ HeapOK(grown) /\ Live(grown) = Live(x) /\ i \in DOMAIN grown.list
        /\ grown.list[i].free /\ grown.list[i].size = PMM_PAGE_SIZE - HeaderSize
    BY <1>5, NewBlock
  <2>2. m = Taken(grown, i)
    BY <1>5 DEF kmalloc, size
  <2> HIDE DEF grown, m, Taken, i
  <2> QED BY <1>1, <1>2, <2>1, <2>2 DEF m
<1> QED BY <1>3, <1>4, <1>5

\* Where coalesce_next stops: the blocks up to there are free and end to end.
LEMMA CoalesceIs ==
    ASSUME NEW s \in Seq(Block), NEW i \in 1 .. Len(s)
    PROVE  LET last == coalesce_next(s, i)
           IN  /\ last \in i .. Len(s)
               /\ \A j \in i + 1 .. last : s[j].free /\ s[j].addr = End(s[j - 1])
<1> DEFINE Merges(j) == s[j].free /\ s[j].addr = End(s[j - 1])
           T == {k \in i .. Len(s) : ~(k + 1 \in DOMAIN s /\ Merges(k + 1))}
           P(k) == /\ \A j \in i + 1 .. k : Merges(j)
                   /\ k + 1 \in DOMAIN s => ~Merges(k + 1)
<1>1. Len(s) \in Nat /\ DOMAIN s = 1 .. Len(s) /\ i \in Nat /\ 1 <= i /\ i <= Len(s)
    BY LenProperties
<1>2. Len(s) \in T /\ T \in SUBSET Nat
    BY <1>1
<1>3. PICK k \in T : \A l \in T : k <= l
  <2> HIDE DEF T
  <2> QED BY <1>2, LeastOf
<1>4. k \in i .. Len(s) /\ P(k)
  <2>1. k \in i .. Len(s) /\ (k + 1 \in DOMAIN s => ~Merges(k + 1))
    BY <1>3
  <2>2. ASSUME NEW j \in i + 1 .. k PROVE Merges(j)
    <3>1. j - 1 \in i .. Len(s) /\ ~(k <= j - 1) /\ (j - 1) + 1 = j
      BY <1>1, <2>1
    <3>2. j - 1 \notin T
      BY <1>3, <3>1
    <3> HIDE DEF Merges
    <3> QED BY <3>1, <3>2
  <2> QED BY <2>1, <2>2
<1>5. coalesce_next(s, i) = CHOOSE l \in i .. Len(s) : P(l)
    BY DEF coalesce_next
<1> HIDE DEF P
<1>6. coalesce_next(s, i) \in i .. Len(s) /\ P(coalesce_next(s, i))
    BY <1>4, <1>5
<1> QED BY <1>6 DEF P

\* Blocks that lie end to end have every byte from the first one's start to the
\* last one's end.
LEMMA Covered ==
    ASSUME NEW s \in Seq(Block), NEW i \in 1 .. Len(s), NEW last \in i .. Len(s),
           \A j \in i + 1 .. last : s[j].addr = End(s[j - 1]),
           NEW z \in Nat, s[i].addr <= z, z < End(s[last])
    PROVE  \E j \in i .. last : In(s[j], z)
<1> DEFINE T == {j \in i .. last : z < End(s[j])}
<1>1. Len(s) \in Nat /\ i \in Nat /\ last \in Nat /\ i <= last /\ last <= Len(s) /\ 1 <= i
    BY LenProperties
<1>2. last \in T /\ T \in SUBSET Nat
    BY <1>1
<1>3. PICK j \in T : \A l \in T : j <= l
  <2> HIDE DEF T
  <2> QED BY <1>2, LeastOf
<1>4. j \in i .. last /\ z < End(s[j])
    BY <1>3
<1>5. s[j].addr <= z
  <2>1. CASE j = i
    BY <2>1
  <2>2. CASE j # i
    <3>1. j - 1 \in i .. last /\ ~(j <= j - 1) /\ j \in i + 1 .. last /\ j - 1 \in 1 .. Len(s)
      BY <1>1, <1>4, <2>2
    <3>2. ~(z < End(s[j - 1]))
      BY <1>3, <3>1
    <3>3. End(s[j - 1]) \in Nat /\ s[j].addr = End(s[j - 1])
      BY <3>1, LenProperties, EndIs
    <3> QED BY <3>2, <3>3
  <2> QED BY <2>1, <2>2
<1> QED BY <1>4, <1>5 DEF In

\* The size coalesce_next adds up reaches the end of the last block it merges.
LEMMA MergedSizeIs ==
    ASSUME NEW s \in Seq(Block), NEW i \in 1 .. Len(s), NEW last \in i .. Len(s),
           \A j \in i + 1 .. last : s[j].addr = End(s[j - 1])
    PROVE  /\ MergedSize(s, i, last) \in Nat
           /\ s[i].addr + HeaderSize + MergedSize(s, i, last) = End(s[last])
<1> DEFINE f == [k \in i + 1 .. last |-> HeaderSize + s[k].size]
           e == [k \in i .. last |-> End(s[k])]
<1>1. /\ Len(s) \in Nat /\ i \in Nat /\ last \in Nat /\ i <= last /\ last <= Len(s) /\ 1 <= i
      /\ \A k \in 1 .. Len(s) : s[k] \in Block
    BY LenProperties
<1>2. ASSUME NEW k \in i .. last
      PROVE  /\ s[k].size \in Nat /\ s[k].addr \in Nat /\ End(s[k]) \in Nat
             /\ End(s[k]) = s[k].addr + HeaderSize + s[k].size
  <2>1. k \in 1 .. Len(s)
    BY <1>1
  <2> QED BY <1>1, <2>1, EndIs
<1>3. e \in [i .. last -> Nat]
    BY <1>2
<1>4. f \in [i + 1 .. last -> Nat]
  <2>1. ASSUME NEW k \in i + 1 .. last PROVE HeaderSize + s[k].size \in Nat
    <3>1. k \in i .. last
      BY <1>1
    <3>2. s[k].size \in Nat
      BY <1>2, <3>1
    <3> QED BY <3>2, Sizes
  <2> QED BY <2>1
<1>5. ASSUME NEW k \in i + 1 .. last PROVE e[k] = e[k - 1] + f[k]
  <2>1. k \in i .. last /\ k - 1 \in i .. last
    BY <1>1
  <2>2. e[k] = End(s[k]) /\ e[k - 1] = End(s[k - 1]) /\ f[k] = HeaderSize + s[k].size
    BY <2>1
  <2>3. s[k].addr = End(s[k - 1])
    OBVIOUS
  <2> HIDE DEF e, f
  <2>4. /\ s[k].size \in Nat /\ End(s[k]) = s[k].addr + HeaderSize + s[k].size
        /\ End(s[k - 1]) \in Nat
    BY <1>2, <2>1
  <2> QED BY <2>2, <2>3, <2>4, Sizes
<1>6. e[last] = End(s[last]) /\ e[i] = End(s[i]) /\ i \in i .. last /\ last \in i .. last
    BY <1>1
<1>7. MergedSize(s, i, last) = s[i].size + SumFunction(f)
    BY DEF MergedSize
<1> HIDE DEF e, f
<1>8. SumFunction(f) \in Nat /\ SumFunction(f) = e[last] - e[i]
    BY <1>1, <1>3, <1>4, <1>5, Telescope
<1>9. /\ s[i].size \in Nat /\ s[i].addr \in Nat /\ End(s[i]) = s[i].addr + HeaderSize + s[i].size
      /\ End(s[last]) \in Nat
    BY <1>2, <1>6
<1> QED BY <1>6, <1>7, <1>8, <1>9, Sizes

\* kfree makes the block of the pointer free, and merges only blocks that are.
LEMMA KfreeIs ==
    ASSUME NEW x, HeapOK(x), NEW ptr \in Ptrs(x)
    PROVE  HeapOK(kfree(x, ptr)) /\ Live(kfree(x, ptr)) = {d \in Live(x) : Ptr(d) # ptr}
<1> DEFINE s == x.list
           i == CHOOSE j \in DOMAIN s : s[j].addr + HeaderSize = ptr
           freed == [s EXCEPT ![i].free = TRUE]
           last == coalesce_next(freed, i)
           size == MergedSize(freed, i, last)
           b == [freed[i] EXCEPT !.size = size]
           n == Before(freed, i) \o <<b>> \o After(freed, last)
           y == kfree(x, ptr)
<1>1. /\ s \in Seq(Block) /\ Len(s) \in Nat /\ DOMAIN s = 1 .. Len(s)
      /\ \A k \in 1 .. Len(s) : s[k] \in Block
    BY ListIs DEF HeapOK
<1>2. i \in DOMAIN s /\ Ptr(s[i]) = ptr
  <2>1. \E j \in DOMAIN s : s[j].addr + HeaderSize = ptr
    BY DEF Ptrs, Live, Ptr
  <2> QED BY <2>1 DEF Ptr
<1>3. y = [x EXCEPT !.list = n]
    BY DEF kfree
<1> HIDE DEF i, y
<1>4. i \in Nat /\ 1 <= i /\ i <= Len(s) /\ i \in 1 .. Len(s) /\ s[i] \in Block
    BY <1>1, <1>2
<1>5. /\ freed \in Seq(Block) /\ Len(freed) = Len(s) /\ DOMAIN freed = 1 .. Len(s)
      /\ \A k \in 1 .. Len(s) : k # i => freed[k] = s[k]
      /\ freed[i] \in Block /\ freed[i].addr = s[i].addr /\ freed[i].size = s[i].size
      /\ freed[i].free = TRUE
  <2> DEFINE c == [s[i] EXCEPT !.free = TRUE]
  <2>1. c \in Block /\ c.addr = s[i].addr /\ c.size = s[i].size /\ c.free = TRUE
    BY <1>4 DEF Block
  <2>2. freed = [s EXCEPT ![i] = c]
    OBVIOUS
  <2> HIDE DEF c, freed
  <2> QED BY <1>1, <1>4, <2>1, <2>2
<1> HIDE DEF freed
<1>6. ASSUME NEW k \in 1 .. Len(s), NEW z PROVE In(freed[k], z) <=> In(s[k], z)
  <2>1. CASE k = i
    BY <1>5, <2>1 DEF In, End
  <2>2. CASE k # i
    BY <1>5, <2>2
  <2> QED BY <2>1, <2>2
<1>7. /\ last \in i .. Len(s)
      /\ \A j \in i + 1 .. last : freed[j].free /\ freed[j].addr = End(freed[j - 1])
    BY <1>4, <1>5, CoalesceIs
<1> HIDE DEF last
<1>8. last \in Nat /\ i <= last /\ last <= Len(s)
    BY <1>1, <1>4, <1>7
<1>9. size \in Nat /\ s[i].addr + HeaderSize + size = End(freed[last])
  <2>1. /\ size \in Nat /\ freed[i].addr + HeaderSize + size = End(freed[last])
    <3>1. i \in 1 .. Len(freed) /\ last \in i .. Len(freed)
      BY <1>4, <1>5, <1>7
    <3> QED BY <1>5, <1>7, <3>1, MergedSizeIs
  <2> QED BY <1>5, <2>1
<1> HIDE DEF size
<1>10. /\ b \in Block /\ b.addr = s[i].addr /\ b.free = TRUE /\ End(b) = End(freed[last])
  <2>1. b \in Block /\ b.addr = s[i].addr /\ b.size = size /\ b.free = TRUE
    BY <1>5, <1>9 DEF Block
  <2>2. End(b) = s[i].addr + HeaderSize + size
    BY <2>1 DEF End
  <2> QED BY <1>9, <2>1, <2>2
<1> HIDE DEF b
<1>11. /\ n \in Seq(Block) /\ Len(n) = i + (Len(s) - last)
       /\ \A k \in 1 .. i - 1 : n[k] = s[k]
       /\ n[i] = b
       /\ \A k \in i + 1 .. Len(n) : n[k] = s[k - i + last]
  <2> DEFINE r == <<>>
  <2>1. r \in Seq(Block) /\ Len(r) = 0
    OBVIOUS
  <2>2. n = Splice(freed, i, b, r, last)
    <3> DEFINE u == Before(freed, i) \o <<b>>
    <3>1. u \in Seq(Block)
      <4>1. Before(freed, i) \in Seq(Block)
        <5>1. \A k \in 1 .. i - 1 : freed[k] \in Block
          BY <1>1, <1>4, <1>5
        <5> QED BY <1>4, <5>1, SubSeqProperties DEF Before
      <4>2. <<b>> \in Seq(Block)
        BY <1>10
      <4> QED BY <4>1, <4>2, ConcatProperties
    <3> HIDE DEF u
    <3>2. u \o r = u
      BY <3>1, ConcatEmptySeq
    <3> QED BY <3>2 DEF Splice, u
  <2> HIDE DEF r
  <2>3. IsSplice(n, freed, i, b, r, last)
    <3>1. i \in 1 .. Len(freed) /\ last \in i .. Len(freed) /\ freed \in Seq(Block) /\ b \in Block
      BY <1>4, <1>5, <1>7, <1>10
    <3> HIDE DEF n
    <3> QED BY <2>1, <2>2, <3>1, Spliced
  <2> HIDE DEF n
  <2>4. n \in Seq(Block) /\ n[i] = b /\ Len(n) = i + (Len(s) - last)
    BY <1>4, <1>5, <1>8, <2>1, <2>3 DEF IsSplice
  <2>5. ASSUME NEW k \in 1 .. i - 1 PROVE n[k] = s[k]
    <3>1. n[k] = freed[k] /\ k # i /\ k \in 1 .. Len(s)
      BY <1>1, <1>4, <2>3 DEF IsSplice
    <3> QED BY <1>5, <3>1
  <2>6. ASSUME NEW k \in i + 1 .. Len(n) PROVE n[k] = s[k - i + last]
    <3>1. k \in i + Len(r) + 1 .. Len(n) /\ k - i - Len(r) + last = k - i + last
      BY <1>1, <1>4, <1>8, <2>1, <2>4
    <3>2. n[k] = freed[k - i + last]
      BY <2>3, <3>1 DEF IsSplice
    <3>3. k - i + last \in 1 .. Len(s) /\ k - i + last # i
      <4>1. k \in Nat /\ i < k /\ k <= i + (Len(s) - last)
        BY <1>1, <1>4, <1>8, <2>4
      <4> QED BY <1>1, <1>4, <1>8, <4>1
    <3> QED BY <1>5, <3>2, <3>3
  <2> QED BY <2>4, <2>5, <2>6
<1> HIDE DEF n
<1>12. y \in Heap /\ y.list = n /\ y.used = x.used /\ y.heap = x.heap
  <2>1. x \in Heap
    BY DEF HeapOK
  <2> QED BY <1>3, <1>11, <2>1, Relisted
<1>13. DOMAIN n = 1 .. Len(n) /\ Len(n) \in Nat
    BY <1>11, LenProperties
\* The blocks of the old list whose bytes a block of the new one has.
<1> DEFINE Of(k) == IF k < i THEN {k} ELSE IF k = i THEN i .. last ELSE {k - i + last}
<1>14. ASSUME NEW k \in 1 .. Len(n), NEW z \in Nat, In(n[k], z)
       PROVE  \E j \in Of(k) : j \in DOMAIN s /\ In(s[j], z)
  <2>0. k \in Nat /\ 1 <= k /\ k <= Len(n)
    BY <1>13
  <2>1. CASE k < i
    <3>1. k \in Of(k) /\ k \in 1 .. i - 1 /\ k \in DOMAIN s
      BY <1>1, <1>4, <2>0, <2>1
    <3>2. n[k] = s[k]
      BY <1>11, <3>1
    <3> QED BY <1>14, <3>1, <3>2
  <2>2. CASE k = i
    <3>1. In(b, z)
      BY <1>11, <1>14, <2>2
    <3>2. freed[i].addr <= z /\ z < End(freed[last])
      BY <1>5, <1>10, <3>1 DEF In
    <3>3. \E j \in i .. last : In(freed[j], z)
      <4>1. i \in 1 .. Len(freed) /\ last \in i .. Len(freed) /\ freed \in Seq(Block)
        BY <1>4, <1>5, <1>7
      <4>2. \A j \in i + 1 .. last : freed[j].addr = End(freed[j - 1])
        BY <1>7
      <4> QED BY <3>2, <4>1, <4>2, Covered
    <3>4. PICK j \in i .. last : In(freed[j], z)
      BY <3>3
    <3>5. j \in 1 .. Len(s)
      BY <1>1, <1>4, <1>8
    <3> QED BY <1>1, <1>6, <2>2, <3>4, <3>5
  <2>3. CASE k > i
    <3>1. k - i + last \in Of(k) /\ k \in i + 1 .. Len(n) /\ k - i + last \in 1 .. Len(s)
      BY <1>1, <1>4, <1>8, <1>11, <2>0, <2>3
    <3>2. n[k] = s[k - i + last]
      BY <1>11, <3>1
    <3> QED BY <1>1, <1>14, <3>1, <3>2
  <2> QED BY <1>4, <2>0, <2>1, <2>2, <2>3
<1>15. ASSUME NEW k \in 1 .. Len(n), NEW l \in 1 .. Len(n), NEW j \in Of(k), j \in Of(l)
       PROVE  k = l
    BY <1>4, <1>8, <1>13, <1>15
<1>16. HeapOK(y)
  <2>1. ASSUME NEW k \in DOMAIN n, NEW z \in Nat, In(n[k], z) PROVE InHeap(y, z)
    <3>1. PICK j \in DOMAIN s : In(s[j], z)
      BY <1>13, <1>14, <2>1
    <3>2. InHeap(x, z)
      BY <3>1 DEF HeapOK
    <3> QED BY <1>12, <3>2 DEF InHeap
  <2>2. ASSUME NEW k \in DOMAIN n, NEW l \in DOMAIN n, NEW z \in Nat, In(n[k], z), In(n[l], z)
        PROVE  k = l
    <3>0. k \in 1 .. Len(n) /\ l \in 1 .. Len(n)
      BY <1>13
    <3> HIDE DEF Of
    <3>1. PICK j \in Of(k) : j \in DOMAIN s /\ In(s[j], z)
      BY <1>14, <2>2, <3>0
    <3>2. PICK q \in Of(l) : q \in DOMAIN s /\ In(s[q], z)
      BY <1>14, <2>2, <3>0
    <3>3. j = q
      BY <3>1, <3>2 DEF HeapOK
    <3> QED BY <1>15, <3>0, <3>1, <3>2, <3>3
  <2>3. x.heap \subseteq x.used
    BY DEF HeapOK
  <2> QED BY <1>12, <2>1, <2>2, <2>3 DEF HeapOK
<1>17. Live(y) = {d \in Live(x) : Ptr(d) # ptr}
  <2>1. ASSUME NEW d \in Live(y) PROVE d \in Live(x) /\ Ptr(d) # ptr
    <3>1. PICK k \in 1 .. Len(n) : n[k] = d
      BY <1>12, <1>13 DEF Live
    <3>2. ~d.free /\ d \in Block
      BY DEF Live
    <3>3. k # i
      BY <1>10, <1>11, <3>1, <3>2
    <3>4. PICK j \in DOMAIN s : s[j] = d /\ j # i
      <4>1. CASE k < i
        <5>1. k \in 1 .. i - 1 /\ k \in DOMAIN s
          BY <1>1, <1>4, <4>1
        <5> QED BY <1>11, <3>1, <3>3, <5>1
      <4>2. CASE k > i
        <5>1. k \in i + 1 .. Len(n) /\ k - i + last \in DOMAIN s /\ k - i + last # i
          BY <1>1, <1>4, <1>8, <1>11, <4>2
        <5> QED BY <1>11, <3>1, <5>1
      <4> QED BY <1>4, <1>13, <3>3, <4>1, <4>2
    <3>5. Ptr(s[j]) # Ptr(s[i])
      BY <1>2, <3>4, OneBlock
    <3> QED BY <1>2, <3>2, <3>4, <3>5 DEF Live
  <2>2. ASSUME NEW d \in Live(x), Ptr(d) # ptr PROVE d \in Live(y)
    <3>1. PICK j \in DOMAIN s : s[j] = d
      BY DEF Live
    <3>2. ~d.free /\ d \in Block /\ j # i
      BY <1>2, <2>2, <3>1 DEF Live
    <3>3. j \in 1 .. Len(s) /\ j \in Nat /\ 1 <= j /\ j <= Len(s)
      BY <1>1, <3>1
    <3>4. j \notin i + 1 .. last
      BY <1>5, <1>7, <3>1, <3>2, <3>3
    <3>5. PICK k \in 1 .. Len(n) : n[k] = s[j]
      <4>1. CASE j < i
        <5>1. j \in 1 .. i - 1 /\ j \in 1 .. Len(n)
          BY <1>4, <1>8, <1>11, <1>1, <3>3, <4>1
        <5> QED BY <1>11, <5>1
      <4>2. CASE j > last
        <5>1. /\ j - last + i \in i + 1 .. Len(n) /\ j - last + i \in 1 .. Len(n)
              /\ (j - last + i) - i + last = j
          BY <1>4, <1>8, <1>11, <1>1, <3>3, <4>2
        <5> QED BY <1>11, <5>1
      <4> QED BY <1>4, <1>8, <3>2, <3>3, <3>4, <4>1, <4>2
    <3> QED BY <1>12, <1>13, <3>1, <3>2, <3>5 DEF Live
  <2> QED BY <2>1, <2>2
<1> QED BY <1>16, <1>17 DEF y

-----------------------------------------------------------------------------
(* The users of the heap *)

\* The inductive invariant: a stack is not leaked, and who holds what is in use.
Owned(x, S, L) ==
    /\ HeapOK(x)
    /\ Ptrs(x) = S \cup L
    /\ S \cap L = {}
    /\ \A b \in Live(x) : /\ Ptr(b) \in S => b.size >= KTHREAD_STACK_SIZE
                          /\ Ptr(b) \in L => b.size >= SmallSize

KmallocInv == Owned(h, stacks, leaked)

\* kmalloc as its callers see it: the pointers in use, with the new one if any.
LEMMA Allocates ==
    ASSUME NEW x, HeapOK(x), NEW request \in {KTHREAD_STACK_SIZE, SmallSize}
    PROVE  LET m == kmalloc(x, request)
           IN  /\ HeapOK(m.heap)
               /\ Ptrs(m.heap) = Ptrs(x) \cup ({m.ret} \ {NULL})
               /\ m.ret \notin Ptrs(x) \/ m.ret = NULL
               /\ \A b \in Live(m.heap) : b \in Live(x) \/ (Ptr(b) = m.ret /\ b.size >= request)
               /\ NULL \notin Ptrs(m.heap)
<1> DEFINE m == kmalloc(x, request)
<1>1. /\ HeapOK(m.heap)
      /\ \/ m.ret = NULL /\ m.heap = x
         \/ /\ m.ret # NULL /\ m.ret \notin Ptrs(x)
            /\ \E b \in Block : /\ m.ret = Ptr(b) /\ b.size >= request
                                /\ Live(m.heap) = Live(x) \cup {b}
    BY KmallocIs
<1> HIDE DEF m
<1>2. NULL \notin Ptrs(m.heap)
  <2> SUFFICES ASSUME NEW b \in Live(m.heap) PROVE Ptr(b) # 0
    BY DEF Ptrs, NULL
  <2>1. b.addr \in Nat
    BY DEF Live, Block
  <2> QED BY <2>1, Sizes DEF Ptr
<1>3. CASE m.ret = NULL /\ m.heap = x
    BY <1>1, <1>2, <1>3 DEF m
<1>4. CASE m.ret # NULL
  <2>1. PICK b \in Block : m.ret = Ptr(b) /\ b.size >= request /\ Live(m.heap) = Live(x) \cup {b}
    BY <1>1, <1>4
  <2>2. Ptrs(m.heap) = Ptrs(x) \cup {m.ret}
    BY <2>1 DEF Ptrs
  <2>3. {m.ret} \ {NULL} = {m.ret}
    BY <1>4
  <2> QED BY <1>1, <1>2, <1>4, <2>1, <2>2, <2>3 DEF m
<1> QED BY <1>1, <1>3, <1>4

\* kfree as its callers see it.
LEMMA Frees ==
    ASSUME NEW x, HeapOK(x), NEW ptr \in Ptrs(x)
    PROVE  /\ HeapOK(kfree(x, ptr))
           /\ Ptrs(kfree(x, ptr)) = Ptrs(x) \ {ptr}
           /\ Live(kfree(x, ptr)) \subseteq Live(x)
BY KfreeIs DEF Ptrs

\* The heap starts empty, and nobody holds anything.
LEMMA InitInv == KmallocInit => KmallocInv
<1> SUFFICES ASSUME KmallocInit PROVE KmallocInv
    OBVIOUS
<1>1. h = [list |-> <<>>, used |-> {}, heap |-> {}] /\ stacks = {} /\ leaked = {}
    BY DEF KmallocInit
<1>2. h \in Heap /\ h.list = <<>> /\ DOMAIN h.list = {} /\ h.heap \subseteq h.used
  <2>1. h.list = <<>> /\ h.used = {} /\ h.heap = {}
    BY <1>1
  <2>2. <<>> \in Seq(Block)
    OBVIOUS
  <2> QED BY <1>1, <2>1, <2>2 DEF Heap
<1>3. Live(h) = {}
    BY <1>2 DEF Live
<1> QED BY <1>1, <1>2, <1>3 DEF KmallocInv, Owned, HeapOK, Ptrs

\* A stack taken, or none.
LEMMA StackTaken ==
    ASSUME NEW x, NEW S, NEW L, Owned(x, S, L)
    PROVE  LET m == kmalloc(x, KTHREAD_STACK_SIZE)
           IN  Owned(m.heap, S \cup ({m.ret} \ {NULL}), L)
<1> DEFINE m == kmalloc(x, KTHREAD_STACK_SIZE)
           T == S \cup ({m.ret} \ {NULL})
<1>1. /\ HeapOK(m.heap)
      /\ Ptrs(m.heap) = Ptrs(x) \cup ({m.ret} \ {NULL})
      /\ m.ret \notin Ptrs(x) \/ m.ret = NULL
      /\ \A b \in Live(m.heap) :
            b \in Live(x) \/ (Ptr(b) = m.ret /\ b.size >= KTHREAD_STACK_SIZE)
      /\ NULL \notin Ptrs(m.heap)
    BY Allocates DEF Owned
<1> HIDE DEF m
<1>2. Ptrs(m.heap) = T \cup L /\ T \cap L = {}
    BY <1>1 DEF Owned
<1>3. ASSUME NEW b \in Live(m.heap)
      PROVE  /\ Ptr(b) \in T => b.size >= KTHREAD_STACK_SIZE
             /\ Ptr(b) \in L => b.size >= SmallSize
  <2>1. Ptr(b) \in Ptrs(m.heap) /\ Ptr(b) # NULL
    BY <1>1 DEF Ptrs
  <2>2. CASE b \in Live(x)
    <3>1. Ptr(b) \in Ptrs(x)
      BY <2>2 DEF Ptrs
    <3>2. Ptr(b) \in T => Ptr(b) \in S
      BY <1>1, <3>1
    <3> QED BY <2>2, <3>2 DEF Owned
  <2>3. CASE Ptr(b) = m.ret /\ b.size >= KTHREAD_STACK_SIZE
    <3>1. m.ret \notin Ptrs(x)
      BY <1>1, <2>1, <2>3
    <3>2. Ptr(b) \notin L
      BY <2>3, <3>1 DEF Owned
    <3> QED BY <2>3, <3>2
  <2> QED BY <1>1, <2>2, <2>3
<1>4. Owned(m.heap, T, L)
    BY <1>1, <1>2, <1>3 DEF Owned
<1> QED BY <1>4 DEF m

\* A small block taken, or none; heaptest answers for it.
LEMMA SmallTaken ==
    ASSUME NEW x, NEW S, NEW L, Owned(x, S, L)
    PROVE  LET m == kmalloc(x, SmallSize)
           IN  /\ Owned(m.heap, S, L \cup ({m.ret} \ {NULL}))
               /\ m.ret = NULL \/ m.ret \notin S \cup L
<1> DEFINE m == kmalloc(x, SmallSize)
           T == L \cup ({m.ret} \ {NULL})
<1>1. /\ HeapOK(m.heap)
      /\ Ptrs(m.heap) = Ptrs(x) \cup ({m.ret} \ {NULL})
      /\ m.ret \notin Ptrs(x) \/ m.ret = NULL
      /\ \A b \in Live(m.heap) : b \in Live(x) \/ (Ptr(b) = m.ret /\ b.size >= SmallSize)
      /\ NULL \notin Ptrs(m.heap)
    BY Allocates DEF Owned
<1> HIDE DEF m
<1>2. Ptrs(m.heap) = S \cup T /\ S \cap T = {} /\ (m.ret = NULL \/ m.ret \notin S \cup L)
    BY <1>1 DEF Owned
<1>3. ASSUME NEW b \in Live(m.heap)
      PROVE  /\ Ptr(b) \in S => b.size >= KTHREAD_STACK_SIZE
             /\ Ptr(b) \in T => b.size >= SmallSize
  <2>1. Ptr(b) \in Ptrs(m.heap) /\ Ptr(b) # NULL
    BY <1>1 DEF Ptrs
  <2>2. CASE b \in Live(x)
    <3>1. Ptr(b) \in Ptrs(x)
      BY <2>2 DEF Ptrs
    <3>2. Ptr(b) \in T => Ptr(b) \in L
      BY <1>1, <3>1
    <3> QED BY <2>2, <3>2 DEF Owned
  <2>3. CASE Ptr(b) = m.ret /\ b.size >= SmallSize
    <3>1. m.ret \notin Ptrs(x)
      BY <1>1, <2>1, <2>3
    <3>2. Ptr(b) \notin S
      BY <2>3, <3>1 DEF Owned
    <3> QED BY <2>3, <3>2
  <2> QED BY <1>1, <2>2, <2>3
<1>4. Owned(m.heap, S, T)
    BY <1>1, <1>2, <1>3 DEF Owned
<1> QED BY <1>2, <1>4 DEF m

\* A block given back.
LEMMA GivenBack ==
    ASSUME NEW x, NEW S, NEW L, Owned(x, S, L), NEW ptr \in S \cup L
    PROVE  Owned(kfree(x, ptr), S \ {ptr}, L \ {ptr})
<1>1. /\ HeapOK(kfree(x, ptr))
      /\ Ptrs(kfree(x, ptr)) = Ptrs(x) \ {ptr}
      /\ Live(kfree(x, ptr)) \subseteq Live(x)
    BY Frees DEF Owned
<1> QED BY <1>1 DEF Owned

\* The scheduler takes and frees stacks, one at a time.
LEMMA StacksInv ==
    ASSUME KmallocInv, sched_create_kthread \/ sched_reap_tasks
    PROVE  KmallocInv'
<1>1. CASE sched_create_kthread
  <2>1. Owned(h', stacks', leaked')
    BY <1>1, StackTaken DEF KmallocInv, sched_create_kthread
  <2> QED BY <2>1 DEF KmallocInv
<1>2. CASE sched_reap_tasks
  <2>1. PICK s \in stacks : h' = kfree(h, s) /\ stacks' = stacks \ {s} /\ leaked' = leaked
    BY <1>2 DEF sched_reap_tasks
  <2>2. Owned(kfree(h, s), stacks \ {s}, leaked \ {s})
    BY GivenBack DEF KmallocInv
  <2>3. leaked \ {s} = leaked
    BY DEF KmallocInv, Owned
  <2>4. Owned(h', stacks', leaked')
    BY <2>1, <2>2, <2>3
  <2> QED BY <2>4 DEF KmallocInv
<1> QED BY <1>1, <1>2

\* heaptest gives back what it took, or leaves it where it gave up.
LEMMA HeaptestInv == ASSUME KmallocInv, cmd_heaptest PROVE KmallocInv'
<1> DEFINE a == kmalloc(h, SmallSize)
           b == kmalloc(a.heap, SmallSize)
           given == kfree(b.heap, a.ret)
           c == kmalloc(given, SmallSize)
           L1 == leaked \cup ({a.ret} \ {NULL})
           L2 == L1 \cup ({b.ret} \ {NULL})
           L3 == leaked \cup {b.ret}
           L4 == L3 \cup ({c.ret} \ {NULL})
<1>1. Owned(a.heap, stacks, L1) /\ (a.ret = NULL \/ a.ret \notin stacks \cup leaked)
    BY SmallTaken DEF KmallocInv
<1>2. Owned(b.heap, stacks, L2) /\ (b.ret = NULL \/ b.ret \notin stacks \cup L1)
  <2> HIDE DEF a, L1
  <2> QED BY <1>1, SmallTaken
<1>3. /\ stacks' = stacks
      /\ IF a.ret = NULL \/ b.ret = NULL
         THEN h' = b.heap /\ leaked' = leaked \cup ({a.ret, b.ret} \ {NULL})
         ELSE IF c.ret = NULL
         THEN h' = c.heap /\ leaked' = leaked \cup {b.ret}
         ELSE h' = kfree(kfree(c.heap, b.ret), c.ret) /\ leaked' = leaked
    BY DEF cmd_heaptest
<1> HIDE DEF a, b
<1>4. CASE a.ret = NULL \/ b.ret = NULL
  <2>1. leaked' = L2 /\ h' = b.heap
    BY <1>3, <1>4
  <2>2. Owned(h', stacks', leaked')
    BY <1>2, <1>3, <2>1
  <2> QED BY <2>2 DEF KmallocInv
<1>5. CASE a.ret # NULL /\ b.ret # NULL
  <2>1. /\ a.ret \in L2 /\ L2 \ {a.ret} = L3 /\ stacks \ {a.ret} = stacks
        /\ b.ret \notin stacks \cup leaked
    BY <1>1, <1>2, <1>5
  <2>2. Owned(given, stacks, L3)
    <3>1. Owned(given, stacks \ {a.ret}, L2 \ {a.ret})
      <4> HIDE DEF L2
      <4> QED BY <1>2, <2>1, GivenBack
    <3> QED BY <2>1, <3>1
  <2>3. Owned(c.heap, stacks, L4) /\ (c.ret = NULL \/ c.ret \notin stacks \cup L3)
    <3> HIDE DEF given, L3
    <3> QED BY <2>2, SmallTaken
  <2> HIDE DEF given, c
  <2>4. CASE c.ret = NULL
    <3>1. h' = c.heap /\ leaked' = L4
      BY <1>3, <1>5, <2>4
    <3>2. Owned(h', stacks', leaked')
      BY <1>3, <2>3, <3>1
    <3> QED BY <3>2 DEF KmallocInv
  <2>5. CASE c.ret # NULL
    <3>1. /\ h' = kfree(kfree(c.heap, b.ret), c.ret) /\ leaked' = leaked
          /\ c.ret \notin stacks \cup leaked /\ c.ret # b.ret
      BY <1>3, <1>5, <2>3, <2>5
    <3>2. /\ stacks \ {b.ret} = stacks /\ b.ret \in L4 /\ L4 \ {b.ret} = leaked \cup {c.ret}
          /\ stacks \ {c.ret} = stacks /\ (leaked \cup {c.ret}) \ {c.ret} = leaked
      BY <1>5, <2>1, <2>5, <3>1
    <3>3. Owned(kfree(c.heap, b.ret), stacks \ {b.ret}, L4 \ {b.ret})
      <4> HIDE DEF L4
      <4> QED BY <2>3, <3>2, GivenBack
    <3>4. Owned(kfree(c.heap, b.ret), stacks, leaked \cup {c.ret})
      BY <3>2, <3>3
    <3>5. Owned(h', stacks \ {c.ret}, (leaked \cup {c.ret}) \ {c.ret})
      <4>1. c.ret \in stacks \cup (leaked \cup {c.ret})
        OBVIOUS
      <4> QED BY <3>1, <3>4, <4>1, GivenBack
    <3>6. Owned(h', stacks', leaked')
      BY <1>3, <3>1, <3>2, <3>5
    <3> QED BY <3>6 DEF KmallocInv
  <2> QED BY <2>4, <2>5
<1> QED BY <1>4, <1>5

\* Pages that come and go elsewhere are none of the heap's.
LEMMA PagesInv ==
    ASSUME KmallocInv, pmm_alloc_page \/ pmm_free_page PROVE KmallocInv'
<1>1. h \in Heap /\ h.heap \subseteq h.used /\ h.used \subseteq Pages
    BY ListIs DEF KmallocInv, Owned, HeapOK
<1>2. PICK U \in SUBSET Pages :
         h' = [h EXCEPT !.used = U] /\ h.heap \subseteq U /\ UNCHANGED <<stacks, leaked>>
  <2>1. CASE pmm_alloc_page
    <3>1. Pages \ h.used # {} /\ Pages \ h.used \in SUBSET Nat
      BY <1>1, <2>1, PagesAre DEF pmm_alloc_page
    <3>2. First(Pages \ h.used) \in Pages
      BY <3>1, FirstIn
    <3>3. h' = [h EXCEPT !.used = h.used \cup {First(Pages \ h.used)}]
      BY <1>1, <2>1 DEF pmm_alloc_page, Heap
    <3> QED BY <1>1, <2>1, <3>2, <3>3 DEF pmm_alloc_page
  <2>2. CASE pmm_free_page
    <3>1. PICK p \in h.used \ h.heap : h' = [h EXCEPT !.used = h.used \ {p}]
      BY <1>1, <2>2 DEF pmm_free_page, Heap
    <3>2. h.used \ {p} \in SUBSET Pages /\ h.heap \subseteq h.used \ {p}
      BY <1>1
    <3>3. UNCHANGED <<stacks, leaked>>
      BY <2>2 DEF pmm_free_page
    <3> QED BY <3>1, <3>2, <3>3
  <2> QED BY <2>1, <2>2
<1>3. h' \in Heap /\ h'.list = h.list /\ h'.heap = h.heap /\ h'.used = U
    BY <1>1, <1>2 DEF Heap
<1>4. HeapOK(h') /\ Live(h') = Live(h)
    BY <1>2, <1>3 DEF KmallocInv, Owned, HeapOK, InHeap, Live
<1>5. Owned(h', stacks', leaked')
    BY <1>2, <1>4 DEF KmallocInv, Owned, Ptrs
<1> QED BY <1>5 DEF KmallocInv

\* Every step keeps it.
LEMMA StepInv == KmallocInv /\ [KmallocNext]_kmallocVars => KmallocInv'
<1> SUFFICES ASSUME KmallocInv, [KmallocNext]_kmallocVars PROVE KmallocInv'
    OBVIOUS
<1>1. CASE UNCHANGED kmallocVars
  <2>1. Owned(h', stacks', leaked')
    BY <1>1 DEF kmallocVars, KmallocInv
  <2> QED BY <2>1 DEF KmallocInv
<1> QED BY <1>1, StacksInv, HeaptestInv, PagesInv DEF KmallocNext

-----------------------------------------------------------------------------
(* Theorems *)

\* The inductive invariant: bytes have one block, blocks in use one owner
\* (kmalloc, kfree and their callers in sched.c and kshell.c).
THEOREM KmallocInvariant == KmallocSpec => []KmallocInv
BY InitInv, StepInv, PTL DEF KmallocSpec

\* Whatever is split, freed and merged in whatever order (alloc_from_block,
\* coalesce_next), blocks stay inside the heap's pages, never overlap, and each
\* block in use is one somebody holds, as long as it was asked for.
THEOREM BlocksStayApart == KmallocSpec => []BlocksApart
<1>1. KmallocInv => BlocksApart
  <2> SUFFICES ASSUME KmallocInv PROVE BlocksApart
    OBVIOUS
  <2>1. /\ h \in Heap /\ h.heap \subseteq h.used /\ h.used \subseteq Pages
        /\ \A i \in DOMAIN h.list : h.list[i] \in Block
    BY ListIs DEF KmallocInv, Owned, HeapOK
  <2>2. ASSUME NEW i \in DOMAIN h.list, NEW z \in Extent(h.list[i])
        PROVE  z \in Nat /\ In(h.list[i], z)
    <3>1. h.list[i].addr \in Nat /\ End(h.list[i]) \in Nat
      BY <2>1, EndIs
    <3> QED BY <3>1 DEF Extent, In
  <2>3. ASSUME NEW i \in DOMAIN h.list, NEW z \in Extent(h.list[i]) PROVE z \in HeapBytes
    <3>1. PICK p \in h.heap : p * PMM_PAGE_SIZE <= z /\ z < (p + 1) * PMM_PAGE_SIZE
      BY <2>2 DEF KmallocInv, Owned, HeapOK, InHeap
    <3>2. p \in Nat /\ z \in Nat
      BY <2>1, <2>2, PagesAre
    <3>3. p * PMM_PAGE_SIZE \in Nat /\ (p + 1) * PMM_PAGE_SIZE \in Nat
      BY <3>2, Sizes
    <3>4. z \in p * PMM_PAGE_SIZE .. (p + 1) * PMM_PAGE_SIZE - 1
      BY <3>1, <3>2, <3>3
    <3> QED BY <3>4 DEF HeapBytes
  <2>4. ASSUME NEW i \in DOMAIN h.list, NEW j \in DOMAIN h.list, i # j
        PROVE  Extent(h.list[i]) \cap Extent(h.list[j]) = {}
    BY <2>2, <2>4 DEF KmallocInv, Owned, HeapOK
  <2>5. {d \in AllBlocks : ~d.free} = Live(h)
    BY <2>1 DEF AllBlocks, Live
  <2>6. {d.addr + HeaderSize : d \in {d \in AllBlocks : ~d.free}} = stacks \cup leaked
    BY <2>5 DEF KmallocInv, Owned, Ptrs, Ptr
  <2>7. ASSUME NEW d \in AllBlocks, Ptr(d) \in stacks \cup leaked PROVE d \in Live(h)
    <3>1. PICK i \in DOMAIN h.list : h.list[i] = d
      BY DEF AllBlocks
    <3>2. PICK e \in Live(h) : Ptr(e) = Ptr(d)
      BY <2>7 DEF KmallocInv, Owned, Ptrs
    <3>3. PICK j \in DOMAIN h.list : h.list[j] = e
      BY DEF Live
    <3>4. i = j
      BY <3>1, <3>2, <3>3, OneBlock DEF KmallocInv, Owned
    <3> QED BY <3>1, <3>2, <3>3, <3>4
  <2>8. ASSUME NEW d \in AllBlocks
        PROVE  /\ d.addr + HeaderSize \in stacks => d.size >= KTHREAD_STACK_SIZE
               /\ d.addr + HeaderSize \in leaked => d.size >= SmallSize
    BY <2>7 DEF KmallocInv, Owned, Ptr
  <2> QED BY <2>1, <2>3, <2>4, <2>6, <2>8 DEF BlocksApart
<1> QED BY <1>1, KmallocInvariant, PTL

=============================================================================
