------------------------------ MODULE MCKmalloc ------------------------------
(***************************************************************************)
(* A heap in miniature. As with 4096, 12 and 2048 bytes, a page holds one   *)
(* stack, two pages that were merged hold three, and three hold five.       *)
(***************************************************************************)
EXTENDS Kmalloc
=============================================================================
