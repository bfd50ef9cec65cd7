----------------------------- MODULE MCPrograms ------------------------------
(***************************************************************************)
(* Programs with the cursor above the canvas and below the last color: one *)
(* packet moves it down to the canvas, up to that color, or on to the      *)
(* button that clears, with the left button held; another lets the button  *)
(* go.                                                                     *)
(***************************************************************************)
EXTENDS Programs

MCPackets == {<<9, 0, 255>>, <<41, 0, 0>>, <<9, 255, 0>>, <<8, 0, 0>>}
=============================================================================
