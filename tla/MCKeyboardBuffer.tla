-------------------------- MODULE MCKeyboardBuffer --------------------------
(* A ring of four slots: it fills up and wraps around within a pop. *)
EXTENDS KeyboardBuffer
=============================================================================
