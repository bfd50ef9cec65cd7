------------------------------ MODULE MCMemory -------------------------------
(***************************************************************************)
(* Memory on a small instance: three pages of the lower half, two of which *)
(* share their level 1 table and the third only the level 3 table, and one *)
(* of the upper half.                                                      *)
(***************************************************************************)
EXTENDS Memory

MCIndex == {0, 1}
MCAddresses == {<<0, 0, 0, 0>>, <<0, 0, 0, 1>>, <<0, 1, 0, 0>>, <<1, 0, 0, 0>>}
MCLowerHalf == {0}
MCUsable == [i \in 1 .. 9 |-> 10 - i]
=============================================================================
