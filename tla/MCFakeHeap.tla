----------------------------- MODULE MCFakeHeap -----------------------------
(***************************************************************************)
(* An address space of 128 bytes with an arena of 16, blocks aligned to 4, *)
(* pages of 2 and arenas aligned to 8.  The image ends well below the      *)
(* stack, so close below it that the arena does not fit between, above it  *)
(* or over it, or there is none.  Two of the sizes wrap, 126 when it is    *)
(* rounded up and 100 when it is added to the cursor, and so does the      *)
(* product of 43 and 3.                                                    *)
(***************************************************************************)
EXTENDS FakeHeap

Layout(min, max) ==
    [image_min |-> min, image_max |-> max, stack_start |-> 48, stack_end |-> 60]

MCLayouts == {Layout(5, 17), Layout(4, 34), Layout(4, 48), Layout(63, 74), Layout(30, 50), Layout(9, 9)}
=============================================================================
