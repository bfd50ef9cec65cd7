------------------------------ MODULE MCConsole ------------------------------
(***************************************************************************)
(* Console with a screen of three by two: every text of four characters or *)
(* more wraps or scrolls.  The formats have every specifier, one that is   *)
(* not supported, and the characters that move the cursor.                 *)
(***************************************************************************)
EXTENDS Console

a == 97
MCFormats == {<<Piece("d", 105), Piece("char", NL)>>,
              <<Piece("x", 31), Piece("char", BS), Piece("c", a)>>,
              <<Piece("char", CR), Piece("s", <<a, a>>), Piece("char", BS)>>,
              <<Piece("p", 0)>>, <<Piece("i", 1), Piece("%", 0)>>}
MCExceptions == {<<Piece("char", a), Piece("d", 14), Piece("char", NL)>>}
MCNotSupported == <<60, 62>>
MCPrintable == {Blank, 37, 60, 62, a, 102, 120} \cup Numerals
=============================================================================
