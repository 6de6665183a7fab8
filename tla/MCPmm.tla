-------------------------------- MODULE MCPmm --------------------------------
(***************************************************************************)
(* Boot layouts in miniature: pages of 4 bytes, 16 of them below WORD, 8 in *)
(* the direct map, and the kernel at page 4 with a partly filled last page. *)
(***************************************************************************)
EXTENDS Pmm

Entry(addr, len, type) == [addr |-> addr, len |-> len, type |-> type]
Piece(addr, len) == [start |-> addr, end |-> addr + len]
Image == Piece(16, 6)

\* A PC: memory below the video hole that ends inside a page, and above it.
PlainMap == <<Entry(0, 13, 1), Entry(13, 3, 2), Entry(16, 24, 1), Entry(60, 4, 2)>>

Maps ==
    {PlainMap,
     Append(PlainMap, Entry(64, 8, 1)),              \* memory above 4 GiB
     <<Entry(4, 11, 1), Entry(16, 24, 1)>>,          \* page 0 is not usable
     <<Entry(16, 16, 1), Entry(0, 6, 1)>>,           \* not in order
     <<Entry(0, 13, 1), Entry(16, 6, 1)>>,           \* RAM ends with the kernel
     <<Entry(0, 4, 1), Entry(16, 6, 1)>>,            \* no room for the bitmap
     <<Entry(0, 4, 1), Entry(16, 6, 1), Entry(32, 8, 1)>>,  \* none in the direct map
     <<Entry(0, 15, 1), Entry(16, 4, 1)>>}           \* kernel not in usable RAM

\* Memory above 4 GiB listed first, so that find_segment tries it: its addresses
\* taken modulo WORD are 0, a low address, or end below where they start.
AboveMaps ==
    {<<Entry(64, 8, 1)>> \o PlainMap,
     <<Entry(68, 8, 1)>> \o PlainMap,
     <<Entry(60, 44, 1)>> \o PlainMap}

\* Usable RAM that starts inside a page.
UnalignedMap == <<Entry(0, 15, 1), Entry(16, 6, 1), Entry(22, 14, 1)>>

Disjoint(ranges) ==
    \A i, j \in DOMAIN ranges :
       i # j => ranges[i].end <= ranges[j].start \/ ranges[j].end <= ranges[i].start

InRam(mmap, r) ==
    \E i \in DOMAIN mmap :
       mmap[i].type = 1 /\ mmap[i].addr <= r.start /\ r.end <= mmap[i].addr + mmap[i].len

\* The boot loader puts its data where there is memory; there may be no module.
LayoutsOf(maps) ==
    {l \in [mmap : maps, kernel : {Image}, wellformed : BOOLEAN,
            mbi  : {Piece(a, 1) : a \in {1, 4, 6, 9, 24}},
            list : {Piece(a, 2) : a \in {2, 4, 7, 10, 26}},
            mods : {Piece(0, 0)} \cup {Piece(a, 2) : a \in {5, 8, 11, 24}}] :
        /\ Disjoint(<<l.mbi, l.list, l.mods, l.kernel>>)
        /\ \A r \in {l.mbi, l.list, l.mods} : r.end = 0 \/ InRam(l.mmap, r)}

PlainLayouts == LayoutsOf(Maps \cup AboveMaps)
UnalignedLayouts == LayoutsOf({UnalignedMap})
=============================================================================
