------------------------------- MODULE MCSched -------------------------------
(* The scheduler alone, with more threads created than the table has slots. *)
EXTENDS Sched
=============================================================================
