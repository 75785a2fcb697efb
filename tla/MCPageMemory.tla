---------------------------- MODULE MCPageMemory ----------------------------
(***************************************************************************)
(* Eight pages of four bytes.  Accesses of one byte in every page, and     *)
(* accesses of two bytes over every page boundary, the last one included.  *)
(***************************************************************************)
EXTENDS PageMemory

MCAccesses == {<<4 * n, 1>> : n \in 0 .. 7} \cup {<<4 * n + 3, 2>> : n \in 0 .. 7}
=============================================================================
