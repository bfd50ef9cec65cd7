------------------------------- MODULE MCBoot --------------------------------
(***************************************************************************)
(* Boot with pages of four bytes, a memory map whose regions begin and end *)
(* anywhere, a key pressed while booting, and four packets.                *)
(***************************************************************************)
EXTENDS Boot

MCPackets == {<<8, 5, 5>>, <<40, 13, 240>>}
MCRegions == <<[base |-> 0, length |-> 10, usable |-> TRUE],
               [base |-> 10, length |-> 6, usable |-> FALSE],
               [base |-> 17, length |-> 9, usable |-> TRUE],
               [base |-> 30, length |-> 2, usable |-> TRUE]>>
=============================================================================
