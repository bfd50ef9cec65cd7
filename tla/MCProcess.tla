------------------------------ MODULE MCProcess ------------------------------
(***************************************************************************)
(* Process with two programs and pages of four units.  The data segment of *)
(* init and the rodata segment of paint end on a page boundary; segments   *)
(* are one page apart, as the programs' linker scripts place them.  The 34 *)
(* frames are enough for two programs and some pages.                      *)
(***************************************************************************)
EXTENDS Process

CONSTANTS init, paint, rw, rx, r, krw

Segment(vaddr, memsz, prot) == [load |-> TRUE, vaddr |-> vaddr, memsz |-> memsz, prot |-> prot]
MCSegments ==
  [p \in Program |->
     <<[Segment(0, 3, r) EXCEPT !.load = FALSE]>> \o
     IF p = init THEN <<Segment(108, 3, rx), Segment(115, 0, r), Segment(115, 5, rw)>>
     ELSE <<Segment(108, 6, rx), Segment(118, 2, r), Segment(124, 3, rw)>>]
MCIndex == 0 .. 2
MCAddresses == [1 .. 4 -> MCIndex]
MCLowerHalf == {0, 1}
MCUsable == [i \in 1 .. 34 |-> i]
MCCursorPages == <<55, 58>>
MCRequests == {<<NULL, 5>>, <<NULL, 4>>, <<14, 4>>}
MCSizes == {1, 5}
=============================================================================
