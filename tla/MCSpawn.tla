------------------------------- MODULE MCSpawn -------------------------------
(***************************************************************************)
(* A command of one letter, paths of up to two letters and a terminator, a  *)
(* line long enough for one that is too long, and archives in 32 bytes'     *)
(* worth of addresses, most of them with something wrong.                   *)
(***************************************************************************)
EXTENDS Spawn

ShellCommands == {<<"u">>}
Userspawn == <<"u">>

Path1 == [i \in 0 .. 2 |-> IF i < 1 THEN "u" ELSE NUL]
Path2 == [i \in 0 .. 2 |-> IF i < 2 THEN "u" ELSE NUL]
Endless == [i \in 0 .. 2 |-> "u"]

File(path, offset, size, code_size, entry_offset) ==
    [path |-> path, offset |-> offset, size |-> size, emxf_magic |-> TRUE,
     code_size |-> code_size, entry_offset |-> entry_offset]

Good(path) == File(path, 12, 5, 3, 2)

Archive(size, count, entries) ==
    [size |-> size, magic |-> TRUE, count |-> count, entries |-> entries]

BootArchives ==
    {Archive(19, 2, files) : files \in
        {<<Good(Endless), Good(Path2)>>,
         <<Good(Path1), Good(Path1)>>,
         <<File(Path1, 12, 8, 3, 0), File(Path2, 12, 7, 31, 0)>>,  \* too long; code wraps
         <<File(Path1, 19, 0, 0, 0), File(Path2, 20, 1, 3, 0)>>,   \* at, and past, the end
         <<File(Path1, 30, 8, 3, 0), File(Path2, 12, 1, 3, 0)>>,   \* wraps; too short
         <<File(Path1, 12, 7, 5, 0), File(Path2, 12, 4, 3, 0)>>,   \* over a page; over the file
         <<File(Path1, 12, 5, 3, 3), [Good(Path2) EXCEPT !.emxf_magic = FALSE]>>}}
    \cup {Archive(1, 2, <<>>), Archive(19, 4, <<Good(Path1), Good(Path1), Good(Path1)>>)}
=============================================================================
