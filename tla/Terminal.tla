------------------------------ MODULE Terminal -------------------------------
(***************************************************************************)
(* kernel/term.c: the VGA text buffer, its cursor and scrolling.  The      *)
(* colours never vary and are left out, and so is the blinking cursor.     *)
(***************************************************************************)
EXTENDS Integers, Sequences

CONSTANTS VGA_WIDTH, VGA_HEIGHT,
          Printable     \* the codes of the characters that take a place

ASSUME SizeAssumption == {VGA_WIDTH, VGA_HEIGHT} \subseteq Nat \ {0}

Blank == 32
BS == 8
NL == 10
CR == 13

ASSUME PrintableAssumption == Blank \in Printable /\ {BS, NL, CR} \cap Printable = {}

VARIABLES ready,        \* has term_init been called?  term is NULL before
          term,         \* the rows of the buffer
          term_row, term_col,
          scrolled      \* history: the rows that have left the screen

termVars == <<ready, term, term_row, term_col, scrolled>>

Rows == 0 .. VGA_HEIGHT - 1
Columns == 0 .. VGA_WIDTH - 1
BlankRow == [c \in Columns |-> Blank]

TermInit == /\ ready = FALSE /\ term = [r \in Rows |-> BlankRow]
            /\ term_row = 0 /\ term_col = 0 /\ scrolled = <<>>

\* term_init, with term_clear.
term_init == /\ ready' = TRUE /\ term' = [r \in Rows |-> BlankRow]
             /\ term_row' = 0 /\ term_col' = 0 /\ scrolled' = <<>>

\* The rows after scrolling.
Scroll_NotCleared(rows) == [r \in Rows |-> IF r < VGA_HEIGHT - 1 THEN rows[r + 1] ELSE rows[r]]
Scroll(rows) == [r \in Rows |-> IF r < VGA_HEIGHT - 1 THEN rows[r + 1] ELSE BlankRow]

\* Does the character go to the next row?
NextRow(c) == c = NL \/ term_col = VGA_WIDTH

\* The row it goes to, and whether the screen scrolls first.
Row(c) == IF NextRow(c) THEN term_row + 1 ELSE term_row
Scrolls_TooLate(c) == Row(c) > VGA_HEIGHT
Scrolls(c) == Row(c) = VGA_HEIGHT

carriage_return == term_col' = 0 /\ UNCHANGED <<ready, term, term_row, scrolled>>

backspace ==
  /\ IF term_col > 0
     THEN term_col' = term_col - 1 /\ term' = [term EXCEPT ![term_row][term_col - 1] = Blank]
     ELSE UNCHANGED <<term, term_col>>
  /\ UNCHANGED <<ready, term_row, scrolled>>

\* A newline, or a character that takes a place.
advance(c) ==
  LET row == IF Scrolls(c) THEN Row(c) - 1 ELSE Row(c)
      col == IF NextRow(c) THEN 0 ELSE term_col
      rows == IF Scrolls(c) THEN Scroll(term) ELSE term
  IN  /\ scrolled' = IF Scrolls(c) THEN Append(scrolled, term[0]) ELSE scrolled
      /\ term_row' = row
      /\ term' = IF c = NL THEN rows ELSE [rows EXCEPT ![row][col] = c]
      /\ term_col' = IF c = NL THEN col ELSE col + 1
      /\ UNCHANGED ready

\* Does the character need the buffer?
Touches(c) == CASE c = CR -> FALSE
                [] c = BS -> term_col > 0
                [] c = NL -> Scrolls(c)
                [] OTHER -> TRUE

term_putchar(c) ==
  /\ ready \/ ~Touches(c)
  /\ \/ c = CR /\ carriage_return
     \/ c = BS /\ backspace
     \/ c \in Printable \cup {NL} /\ advance(c)

TermNext == \/ ~ready /\ term_init
            \/ \E c \in Printable \cup {CR, BS, NL} : term_putchar(c)

TermSpec == TermInit /\ [][TermNext]_termVars

-----------------------------------------------------------------------------
(* What holds. *)

\* The cursor is in the buffer, or just after the end of a row.
TermTypeOK ==
  /\ ready \in BOOLEAN /\ term \in [Rows -> [Columns -> Printable]]
  /\ term_row \in Rows /\ term_col \in 0 .. VGA_WIDTH
  /\ scrolled \in Seq([Columns -> Printable])

\* What has left the screen and the rows down to the cursor: all that has been
\* written.
Page == scrolled \o [i \in 1 .. term_row + 1 |-> term[i - 1]]

T == INSTANCE Transcript WITH Width <- VGA_WIDTH, Chars <- Printable,
                              lines <- Page, col <- term_col

\* The screen is a window on a page without end: wrapping, scrolling and erasing
\* (term.c:76-129) lose or change nothing that was written before.
ShowsTranscript == T!TranscriptSpec
=============================================================================
