------------------------------ MODULE Initramfs ------------------------------
(***************************************************************************)
(* kernel/initramfs.c, and load_emxf of kernel/user.c: finding a file in    *)
(* the boot archive and checking that it is a program. The archive is what  *)
(* the boot loader was given: any of its fields may hold anything.          *)
(*                                                                         *)
(* An archive is a record of its size and magic, the count its header       *)
(* claims, and its entries: a path of EMXA_PATH_SIZE bytes, an offset and a *)
(* size, and the EMXF header found at that offset. Bytes of paths are model *)
(* values; the numbers are 32-bit words.                                    *)
(***************************************************************************)
EXTENDS Integers, Sequences

CONSTANTS
    EMXA_HEADER_SIZE, EMXA_ENTRY_SIZE, EMXA_PATH_SIZE,
    EMXF_HEADER_SIZE,
    PMM_PAGE_SIZE,
    WORD,                \* 2^32
    Archives             \* what the first boot module may be

ASSUME InitramfsAssumption ==
    /\ {EMXA_HEADER_SIZE, EMXA_ENTRY_SIZE, EMXA_PATH_SIZE, EMXF_HEADER_SIZE,
        PMM_PAGE_SIZE, WORD} \subseteq Nat \ {0}
    /\ EMXF_HEADER_SIZE + PMM_PAGE_SIZE < WORD
    /\ \A a \in Archives :
          /\ {a.size, a.count} \subseteq 0 .. WORD - 1
          \* an entry that lies in the archive can be read
          /\ \A i \in 1 .. a.count :
                EMXA_HEADER_SIZE + i * EMXA_ENTRY_SIZE <= a.size => i \in DOMAIN a.entries
          /\ \A i \in DOMAIN a.entries :
                {a.entries[i].offset, a.entries[i].size, a.entries[i].code_size,
                 a.entries[i].entry_offset} \subseteq 0 .. WORD - 1

PathIndices == 0 .. EMXA_PATH_SIZE - 1

\* No file: what a search that fails returns.
NoFile == 0

\* The archive is there, is one, and has room for the entries it claims.
initramfs_header(a) ==
    /\ a.size >= EMXA_HEADER_SIZE
    /\ a.magic
    /\ a.count <= (a.size - EMXA_HEADER_SIZE) \div EMXA_ENTRY_SIZE

\* Equal up to and including a terminator within EMXA_PATH_SIZE bytes.
path_matches(entry_path, path, terminator) ==
    \E n \in PathIndices :
       /\ path[n] = terminator
       /\ \A i \in 0 .. n : entry_path[i] = path[i]
       /\ \A i \in 0 .. n - 1 : path[i] # terminator

\* Mutant: the sum wraps.
FileInside_Sum(a, e) == (e.offset + e.size) % WORD <= a.size

FileInside(a, e) == e.offset <= a.size /\ e.size <= a.size - e.offset

\* The number of the entry for path: the first that matches, and none when that
\* one leads outside the archive.
initramfs_find(a, path, terminator) ==
    LET matches == {i \in 1 .. a.count : path_matches(a.entries[i].path, path, terminator)}
        first   == CHOOSE i \in matches : \A j \in matches : i <= j
    IN  IF ~initramfs_header(a) THEN NoFile
        ELSE IF matches = {} THEN NoFile
        ELSE IF FileInside(a, a.entries[first]) THEN first ELSE NoFile

\* load_emxf's checks of the image of entry e.
load_emxf(e) ==
    /\ e.size >= EMXF_HEADER_SIZE
    /\ e.emxf_magic
    /\ e.code_size <= PMM_PAGE_SIZE
    /\ e.entry_offset < e.code_size
    /\ (EMXF_HEADER_SIZE + e.code_size) % WORD <= e.size
=============================================================================
