------------------------------- MODULE MCMouse -------------------------------
(***************************************************************************)
(* Mouse on a small screen.  The packets: right and up, left and down with *)
(* a button, still, and two whose movements could be taken for the first   *)
(* byte of a packet.                                                       *)
(***************************************************************************)
EXTENDS Mouse

MCPackets == {<<8, 5, 5>>, <<57, 245, 245>>, <<8, 0, 0>>, <<40, 13, 240>>, <<10, 255, 15>>}
=============================================================================
