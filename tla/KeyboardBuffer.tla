--------------------------- MODULE KeyboardBuffer ---------------------------
(***************************************************************************)
(* The ring of kernel/keyboard.c between the keyboard interrupt and        *)
(* system calls. The interrupt gate keeps interrupts off, so a push is one *)
(* step; system calls enter through a trap gate, and kernel commands run   *)
(* with interrupts on, so a push may come between any two accesses of a    *)
(* pop or a clear. Tasks do not preempt one another: at most one pop or    *)
(* clear is under way.                                                     *)
(***************************************************************************)
EXTENDS Integers, Sequences

CONSTANTS
    KEYBOARD_BUFFER_SIZE,
    Chars                    \* what keyboard_decode returns for a key press

NUL == 0                     \* and for a release or an unmapped key

ASSUME KeyboardAssumption ==
    /\ KEYBOARD_BUFFER_SIZE \in Nat \ {0, 1}
    /\ NUL \notin Chars

VARIABLES
    buffer, read_index, write_index,
    at,        \* where the reading task is: idle, or inside pop or clear
    c,         \* keyboard_buffer_pop's local variable
    loaded,    \* the write_index keyboard_buffer_clear loaded
    result     \* what the last keyboard_buffer_pop returned

keyVars == <<buffer, read_index, write_index, at, c, loaded, result>>

Indices == 0 .. KEYBOARD_BUFFER_SIZE - 1

Following(i) == (i + 1) % KEYBOARD_BUFFER_SIZE

KeyboardInit ==
    /\ buffer = [i \in Indices |-> NUL]
    /\ read_index = 0
    /\ write_index = 0
    /\ at = "idle"
    /\ c = NUL
    /\ loaded = 0
    /\ result = NUL

-----------------------------------------------------------------------------
\* Mutant: a full ring is not noticed.
HasRoom_Always == TRUE

HasRoom == Following(write_index) # read_index

\* By the interrupt handler, which has dropped NUL already.
keyboard_buffer_push(key) ==
    /\ key # NUL /\ HasRoom
    /\ buffer' = [buffer EXCEPT ![write_index] = key]
    /\ write_index' = Following(write_index)
    /\ UNCHANGED <<read_index, at, c, loaded, result>>

PopEmpty ==
    /\ at = "idle" /\ read_index = write_index
    /\ result' = NUL
    /\ UNCHANGED <<buffer, read_index, write_index, at, c, loaded>>

\* Mutant: the ring is taken to hold a key.
PopTest_Unchecked ==
    /\ at = "idle"
    /\ at' = "pop_load"
    /\ UNCHANGED <<buffer, read_index, write_index, c, loaded, result>>

PopTest ==
    /\ at = "idle" /\ read_index # write_index
    /\ at' = "pop_load"
    /\ UNCHANGED <<buffer, read_index, write_index, c, loaded, result>>

PopLoad ==
    /\ at = "pop_load"
    /\ c' = buffer[read_index]
    /\ at' = "pop_advance"
    /\ UNCHANGED <<buffer, read_index, write_index, loaded, result>>

PopAdvance ==
    /\ at = "pop_advance"
    /\ read_index' = Following(read_index)
    /\ result' = c
    /\ at' = "idle"
    /\ c' = NUL
    /\ UNCHANGED <<buffer, write_index, loaded>>

ClearLoad ==
    /\ at = "idle"
    /\ loaded' = write_index
    /\ at' = "clear_store"
    /\ UNCHANGED <<buffer, read_index, write_index, c, result>>

\* Mutant: the writer's index is moved back instead of the reader's forward.
ClearStore_Writer ==
    /\ at = "clear_store"
    /\ write_index' = read_index
    /\ at' = "idle"
    /\ loaded' = 0
    /\ UNCHANGED <<buffer, read_index, c, result>>

ClearStore ==
    /\ at = "clear_store"
    /\ read_index' = loaded
    /\ at' = "idle"
    /\ loaded' = 0
    /\ UNCHANGED <<buffer, write_index, c, result>>

KeyboardNext ==
    \/ PopEmpty \/ PopTest \/ PopLoad \/ PopAdvance
    \/ ClearLoad \/ ClearStore
    \/ \E key \in Chars : keyboard_buffer_push(key)

KeyboardSpec == KeyboardInit /\ [][KeyboardNext]_keyVars

-----------------------------------------------------------------------------
\* Type invariant: both indices stay inside the ring.
KeyboardTypeOK ==
    /\ buffer \in [Indices -> Chars \cup {NUL}]
    /\ read_index \in Indices
    /\ write_index \in Indices
    /\ at \in {"idle", "pop_load", "pop_advance", "clear_store"}
    /\ c \in Chars \cup {NUL}
    /\ loaded \in Indices
    /\ result \in Chars \cup {NUL}

Distance(from, to) == (to - from + KEYBOARD_BUFFER_SIZE) % KEYBOARD_BUFFER_SIZE

\* While keyboard_buffer_pop is between its test and its store of read_index the
\* ring stays non-empty and the slot it reads is not overwritten, however many
\* keys are typed meanwhile.
PopUndisturbed ==
    /\ at \in {"pop_load", "pop_advance"} =>
          read_index # write_index /\ buffer[read_index] # NUL
    /\ at = "pop_advance" => c = buffer[read_index]

\* The index keyboard_buffer_clear loaded stays between the reader's and the
\* writer's, so the store never brings dropped or overwritten keys back.
ClearForward ==
    at = "clear_store" =>
       Distance(read_index, loaded) <= Distance(read_index, write_index)

\* The ring, and the steps of pop and clear, implement a bounded FIFO: a pop
\* takes effect when it advances read_index, or when it finds the ring empty.
Fifo == INSTANCE BoundedFifo WITH
    Capacity <- KEYBOARD_BUFFER_SIZE - 1,
    queue    <- [i \in 1 .. Distance(read_index, write_index) |->
                    buffer[(read_index + i - 1) % KEYBOARD_BUFFER_SIZE]],
    clearing <- IF at = "clear_store" THEN Distance(read_index, loaded) ELSE -1

ImplementsFifo == Fifo!FifoSpec
=============================================================================
