----------------------------- MODULE BoundedFifo -----------------------------
(***************************************************************************)
(* What the keyboard buffer promises its two users: the interrupt handler  *)
(* that types characters and the one task that reads or clears at a time.  *)
(* Characters are read in the order typed, each at most once, and one is   *)
(* lost only when typed at a full buffer or dropped by a clear. A clear    *)
(* takes time: it drops what was there when it began and nothing typed     *)
(* since.                                                                  *)
(***************************************************************************)
EXTENDS Integers, Sequences

CONSTANTS Chars, Capacity

NUL == 0          \* what a read of the empty buffer returns
NoClear == -1

VARIABLES
    queue,
    result,       \* what the last read returned
    clearing      \* characters a clear under way will drop, or NoClear

fifoVars == <<queue, result, clearing>>

FifoInit ==
    /\ queue = <<>>
    /\ result = NUL
    /\ clearing = NoClear

Type(c) ==
    /\ Len(queue) < Capacity
    /\ queue' = Append(queue, c)
    /\ UNCHANGED <<result, clearing>>

Read ==
    /\ clearing = NoClear
    /\ \/ queue = <<>> /\ result' = NUL /\ UNCHANGED queue
       \/ queue # <<>> /\ result' = Head(queue) /\ queue' = Tail(queue)
    /\ UNCHANGED clearing

BeginClear ==
    /\ clearing = NoClear
    /\ clearing' = Len(queue)
    /\ UNCHANGED <<queue, result>>

EndClear ==
    /\ clearing # NoClear
    /\ queue' = SubSeq(queue, clearing + 1, Len(queue))
    /\ clearing' = NoClear
    /\ UNCHANGED result

FifoNext == Read \/ BeginClear \/ EndClear \/ \E c \in Chars : Type(c)

FifoSpec == FifoInit /\ [][FifoNext]_fifoVars
=============================================================================
