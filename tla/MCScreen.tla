------------------------------- MODULE MCScreen ------------------------------
(***************************************************************************)
(* Screen on 5 by 3 pixels with a cursor of 2 by 1: it can be at six       *)
(* places, some of which overlap.  The rectangles: one inside, one cut off *)
(* at both edges, a pixel right of the screen, one off the screen, and one *)
(* whose right edge is beyond the range of the sums.  Characters are of 2  *)
(* by 2: one text fits and one goes over the right edge.                   *)
(***************************************************************************)
EXTENDS Screen

MCPackets == {<<8, 5, 0>>, <<56, 249, 249>>}
MCRectangles == {<<1, 1, 2, 1>>, <<3, 2, 3, 3>>, <<5, 0, 1, 1>>, <<5, 0, 1, 2>>, <<4, 0, 15, 1>>}
MCFont == [ch \in {"a", "b"} |-> IF ch = "a" THEN {<<0, 1>>, <<1, 0>>} ELSE {<<0, 0>>}]
MCTexts == {[x |-> 1, y |-> 1, chars |-> <<"a", "b">>], [x |-> 4, y |-> 0, chars |-> <<"a">>]}
=============================================================================
