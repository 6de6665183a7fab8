------------------------------ MODULE MCKShell ------------------------------
(* A line buffer of four bytes and two commands, one the prefix of the other. *)
EXTENDS KShell

ShellCommands == {<<"a">>, <<"a", "b">>}
=============================================================================
