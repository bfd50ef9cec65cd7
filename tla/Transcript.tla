----------------------------- MODULE Transcript ------------------------------
(***************************************************************************)
(* Abstract: what has been written to a terminal, as a page without end of *)
(* lines of Width characters.  Only the last line can be changed.          *)
(***************************************************************************)
EXTENDS Integers, Sequences

CONSTANTS Width, Chars, Blank

VARIABLES lines,    \* the lines, each of Width characters
          col       \* where the next character goes in the last one

transVars == <<lines, col>>

BlankLine == [c \in 0 .. Width - 1 |-> Blank]

\* In the last line, character c at place i.
Change(i, c) == lines' = [lines EXCEPT ![Len(lines)][i] = c]

Start == lines = <<BlankLine>> /\ col = 0

\* A character goes to the next place, on a new line when the last one is full.
Put(c) == \/ col < Width /\ Change(col, c) /\ col' = col + 1
          \/ /\ col = Width
             /\ lines' = Append(lines, [BlankLine EXCEPT ![0] = c])
             /\ col' = 1

NewLine == lines' = Append(lines, BlankLine) /\ col' = 0
Return == col' = 0 /\ UNCHANGED lines
Erase == col > 0 /\ Change(col - 1, Blank) /\ col' = col - 1
Clear == lines' = <<BlankLine>> /\ col' = 0

Write == (\E c \in Chars : Put(c)) \/ NewLine \/ Return \/ Erase \/ Clear

TranscriptSpec == Start /\ [][Write]_transVars
=============================================================================
