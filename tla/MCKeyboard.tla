----------------------------- MODULE MCKeyboard ------------------------------
(***************************************************************************)
(* Keyboard on a small instance: a letter, backspace and two modifiers.    *)
(***************************************************************************)
EXTENDS Keyboard

MCChar == (-128 .. 127) \ {0}

\* 0x1E is the key A, 0x0E backspace.
MCLayout == [k \in {30, 14} |-> IF k = 30 THEN <<97, 65>> ELSE <<8, 8>>]

\* Left shift and caps lock.
MCModifiers == {42, 58}
=============================================================================
