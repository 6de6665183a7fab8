------------------------------ MODULE MCProcess ------------------------------
(* Processes, system calls and the scheduler together. *)
EXTENDS Process
=============================================================================
