---------------------------- MODULE AddressSpaces ----------------------------
(***************************************************************************)
(* What the virtual memory manager promises the rest of the kernel: every   *)
(* address space is a set of mappings of its own, empty when it is created, *)
(* changed by nothing but the operations on it, and gone when destroyed.    *)
(* There are no page tables here, no frames that are used again, no TLB.    *)
(***************************************************************************)
EXTENDS Integers

CONSTANTS
    Spaces,         \* names an address space may have
    KernelSpace,    \* the one vmm_init makes, never destroyed
    LowPages,       \* virtual pages below the kernel half
    Mappings,       \* what a virtual page may be mapped to
    ABSENT

VARIABLES
    maps,           \* per live address space, what each low page is mapped to
    current         \* the address space the processor uses

spacesVars == <<maps, current>>

NoMaps == [v \in LowPages |-> ABSENT]

With(f, s, map) == [t \in DOMAIN f \cup {s} |-> IF t = s THEN map ELSE f[t]]

SpacesInit ==
    /\ maps = With(<<>>, KernelSpace, NoMaps)
    /\ current = KernelSpace

Create ==
    \E s \in Spaces \ DOMAIN maps :
       /\ maps' = With(maps, s, NoMaps)
       /\ UNCHANGED current

Changed(s) == {v \in LowPages : maps'[s][v] # maps[s][v]}

OnlyIn(s) ==
    /\ DOMAIN maps' = DOMAIN maps
    /\ \A t \in DOMAIN maps \ {s} : maps'[t] = maps[t]

\* Mappings are added where there were none, and the space may be switched to
\* once it has them.
Map ==
    \E s \in DOMAIN maps :
       /\ OnlyIn(s)
       /\ \A v \in Changed(s) : maps[s][v] = ABSENT /\ maps'[s][v] \in Mappings
       /\ current' # current => Changed(s) # {} /\ current' = s

Unmap ==
    \E s \in DOMAIN maps :
       /\ OnlyIn(s)
       /\ \A v \in Changed(s) : maps'[s][v] = ABSENT
       /\ UNCHANGED current

Destroy ==
    \E s \in DOMAIN maps \ {KernelSpace, current} :
       /\ maps[s] = NoMaps
       /\ maps' = [t \in DOMAIN maps \ {s} |-> maps[t]]
       /\ UNCHANGED current

Switch ==
    /\ current' \in DOMAIN maps
    /\ UNCHANGED maps

SpacesNext == Create \/ Map \/ Unmap \/ Destroy \/ Switch

SpacesSpec == SpacesInit /\ [][SpacesNext]_spacesVars
=============================================================================
