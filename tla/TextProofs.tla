----------------------------- MODULE TextProofs ------------------------------
(***************************************************************************)
(* Theorems about Terminal, Console and Strings, for every screen, every   *)
(* buffer and every set of characters.                                     *)
(*                                                                         *)
(* The terminal: the cursor stays in the buffer, and the screen is a       *)
(* window on Transcript's page without end; so it is for the console,      *)
(* which uses the terminal as it is meant to be used.                      *)
(*                                                                         *)
(* The functions on strings: what they answer follows from what the        *)
(* arguments hold before their first NUL.  The recursions of Conversions   *)
(* (folds, helper, Left) are functions: that they have a solution is       *)
(* proved by induction over a set of numbers, and that a number is read    *)
(* as it was written by comparing two solutions.                           *)
(***************************************************************************)
EXTENDS Console, Strings, SequenceTheorems, WellFoundedInduction, TLAPS

Line == [Columns -> Printable]

\* The rows below the cursor have not been written to: a newline that does not
\* scroll begins an empty line.
BlankBelow == \A r \in Rows : r > term_row => term[r] = BlankRow

TermInv == TermTypeOK /\ BlankBelow

\* The page of row and the rows above it, after s.
PageOf(s, rows, row) ==
  [i \in 1 .. Len(s) + row + 1 |-> IF i <= Len(s) THEN s[i] ELSE rows[i - Len(s) - 1]]

-----------------------------------------------------------------------------
(* The invariant. *)

LEMMA Sizes == /\ VGA_WIDTH \in Nat /\ VGA_WIDTH >= 1
               /\ VGA_HEIGHT \in Nat /\ VGA_HEIGHT >= 1
               /\ Blank \in Printable /\ BlankRow \in Line
               /\ 0 \in Rows /\ 0 \in Columns
<1>1. /\ VGA_WIDTH \in Nat /\ VGA_WIDTH >= 1 /\ VGA_HEIGHT \in Nat /\ VGA_HEIGHT >= 1
  BY SizeAssumption
<1>2. Blank \in Printable
  BY PrintableAssumption
<1> QED  BY <1>1, <1>2 DEF BlankRow, Line, Rows, Columns

LEMMA ScrollType ==
  ASSUME NEW rows \in [Rows -> Line]
  PROVE  /\ Scroll(rows) \in [Rows -> Line]
         /\ \A r \in Rows : Scroll(rows)[r] = IF r < VGA_HEIGHT - 1 THEN rows[r + 1]
                                              ELSE BlankRow
BY Sizes DEF Scroll, Rows

\* Writing one character keeps the buffer a buffer.
LEMMA WriteType ==
  ASSUME NEW rows \in [Rows -> Line], NEW row \in Rows, NEW col \in Columns,
         NEW c \in Printable
  PROVE  [rows EXCEPT ![row][col] = c] \in [Rows -> Line]
BY DEF Line

LEMMA InitInv == TermInit => TermInv
<1> SUFFICES ASSUME TermInit PROVE TermInv
  OBVIOUS
<1>1. scrolled \in Seq(Line) /\ term \in [Rows -> Line]
  BY Sizes DEF TermInit
<1> QED  BY <1>1, Sizes DEF TermInit, TermInv, TermTypeOK, BlankBelow, Line

LEMMA StartInv == TermInv /\ term_init => TermInv'
<1> SUFFICES ASSUME term_init PROVE TermInv'
  OBVIOUS
<1>1. scrolled' \in Seq(Line) /\ term' \in [Rows -> Line]
  BY Sizes DEF term_init
<1> QED  BY <1>1, Sizes DEF term_init, TermInv, TermTypeOK, BlankBelow, Line

LEMMA ReturnInv == TermInv /\ carriage_return => TermInv'
BY Sizes DEF carriage_return, TermInv, TermTypeOK, BlankBelow

LEMMA EraseInv == TermInv /\ backspace => TermInv'
<1> SUFFICES ASSUME TermInv, backspace PROVE TermInv'
  OBVIOUS
<1>t. term \in [Rows -> Line] /\ term_row \in Rows /\ term_col \in 0 .. VGA_WIDTH
  BY DEF TermInv, TermTypeOK, Line
<1>1. CASE term_col > 0
  <2>1. term_col - 1 \in Columns /\ term_col' = term_col - 1
    BY <1>1, <1>t, Sizes DEF backspace, Columns
  <2>2. term' = [term EXCEPT ![term_row][term_col - 1] = Blank]
    BY <1>1 DEF backspace
  <2>3. term' \in [Rows -> Line]
    BY <2>1, <2>2, <1>t, Sizes, WriteType
  <2>4. BlankBelow'
    BY <2>2, <1>t DEF backspace, BlankBelow, TermInv, Rows
  <2> QED  BY <2>1, <2>3, <2>4, Sizes DEF backspace, TermInv, TermTypeOK, Line, Columns
<1>2. CASE ~(term_col > 0)
  BY <1>2 DEF backspace, TermInv, TermTypeOK, BlankBelow
<1> QED  BY <1>1, <1>2

\* Where a character goes: the next row after the end of a row, the last row
\* when the screen scrolls.
LEMMA Places ==
  ASSUME TermInv, NEW c
  PROVE  /\ Scrolls(c) => term_row = VGA_HEIGHT - 1 /\ NextRow(c) /\ Row(c) - 1 = term_row
         /\ ~Scrolls(c) => Row(c) \in Rows
         /\ Row(c) = IF NextRow(c) THEN term_row + 1 ELSE term_row
         /\ ~NextRow(c) => c # NL /\ term_col \in Columns
BY Sizes DEF TermInv, TermTypeOK, Scrolls, Row, NextRow, Rows, Columns

LEMMA AdvanceInv == ASSUME TermInv, NEW c \in Printable \cup {NL}, advance(c) PROVE TermInv'
<1> DEFINE row == IF Scrolls(c) THEN Row(c) - 1 ELSE Row(c)
           col == IF NextRow(c) THEN 0 ELSE term_col
           rows == IF Scrolls(c) THEN Scroll(term) ELSE term
<1>t. term \in [Rows -> Line] /\ term_row \in Rows /\ term_col \in 0 .. VGA_WIDTH
      /\ scrolled \in Seq(Line)
  BY DEF TermInv, TermTypeOK, Line
<1>a. /\ scrolled' = IF Scrolls(c) THEN Append(scrolled, term[0]) ELSE scrolled
      /\ term_row' = row
      /\ term' = IF c = NL THEN rows ELSE [rows EXCEPT ![row][col] = c]
      /\ term_col' = IF c = NL THEN col ELSE col + 1
      /\ ready' = ready
  BY DEF advance
<1>1. row \in Rows /\ col \in Columns
  BY <1>t, Places, Sizes
<1>2. rows \in [Rows -> Line]
  BY <1>t, ScrollType
<1>3. \A r \in Rows : r > row => rows[r] = BlankRow
  <2>1. CASE Scrolls(c)
    BY <2>1, Places, <1>t, Sizes DEF Rows
  <2>2. CASE ~Scrolls(c)
    BY <2>2, Places, <1>t, Sizes DEF Rows, TermInv, BlankBelow
  <2> QED  BY <2>1, <2>2
<1> HIDE DEF row, col, rows
<1>4. term' \in [Rows -> Line] /\ BlankBelow'
  <2>1. CASE c = NL
    BY <2>1, <1>a, <1>2, <1>3 DEF BlankBelow
  <2>2. CASE c # NL
    <3>1. c \in Printable
      BY <2>2
    <3>2. term' = [rows EXCEPT ![row][col] = c]
      BY <2>2, <1>a
    <3>3. term' \in [Rows -> Line]
      BY <3>1, <3>2, <1>1, <1>2, WriteType
    <3>4. \A r \in Rows : r # row => term'[r] = rows[r]
      BY <3>2, <1>2
    <3>5. BlankBelow'
      BY <3>4, <1>a, <1>1, <1>3 DEF BlankBelow, Rows
    <3> QED  BY <3>3, <3>5
  <2> QED  BY <2>1, <2>2
<1>5. scrolled' \in Seq(Line)
  BY <1>a, <1>t, Sizes, AppendProperties
<1>6. term_col' \in 0 .. VGA_WIDTH
  BY <1>a, <1>1, Sizes DEF Columns
<1>7. ready' \in BOOLEAN
  BY <1>a DEF TermInv, TermTypeOK
<1> QED  BY <1>1, <1>4, <1>5, <1>6, <1>7, <1>a DEF TermInv, TermTypeOK, Line

LEMMA NextInv == TermInv /\ [TermNext]_termVars => TermInv'
<1> SUFFICES ASSUME TermInv, [TermNext]_termVars PROVE TermInv'
  OBVIOUS
<1>1. CASE term_init
  BY <1>1, StartInv
<1>2. CASE \E c \in Printable \cup {CR, BS, NL} : term_putchar(c)
  <2> PICK c \in Printable \cup {CR, BS, NL} : term_putchar(c)
    BY <1>2
  <2>1. CASE carriage_return
    BY <2>1, ReturnInv
  <2>2. CASE backspace
    BY <2>2, EraseInv
  <2>3. CASE c \in Printable \cup {NL} /\ advance(c)
    BY <2>3, AdvanceInv
  <2> QED  BY <2>1, <2>2, <2>3 DEF term_putchar
<1>3. CASE UNCHANGED termVars
  BY <1>3 DEF termVars, TermInv, TermTypeOK, BlankBelow
<1> QED  BY <1>1, <1>2, <1>3 DEF TermNext

\* The row and the column never leave the buffer, for every size of the screen
\* and every text, before and after term_init (term.c:76-129).
THEOREM TermTypeCorrect == TermSpec => []TermTypeOK
<1>1. TermInv => TermTypeOK
  BY DEF TermInv
<1> QED  BY <1>1, InitInv, NextInv, PTL DEF TermSpec

THEOREM TermInvariant == TermSpec => []TermInv
BY InitInv, NextInv, PTL DEF TermSpec

-----------------------------------------------------------------------------
(* The page. *)

\* A page as one function: what has left the screen, and then its rows.
LEMMA Joined ==
  ASSUME NEW s \in Seq(Line), NEW rows \in [Rows -> Line], NEW row \in Rows
  PROVE  /\ s \o [i \in 1 .. row + 1 |-> rows[i - 1]] = PageOf(s, rows, row)
         /\ PageOf(s, rows, row) \in Seq(Line)
         /\ Len(PageOf(s, rows, row)) = Len(s) + row + 1
<1> DEFINE upper == [i \in 1 .. row + 1 |-> rows[i - 1]]
           page == PageOf(s, rows, row)
<1>1. row \in Nat /\ row + 1 \in Nat /\ Len(s) \in Nat
  BY Sizes, LenProperties DEF Rows
<1>2. /\ upper \in Seq(Line) /\ Len(upper) = row + 1
      /\ \A i \in 1 .. row + 1 : upper[i] = rows[i - 1]
  BY <1>1, Sizes DEF Rows
<1>3. \A i \in 1 .. Len(s) + row + 1 :
        page[i] = IF i <= Len(s) THEN s[i] ELSE rows[i - Len(s) - 1]
  BY DEF PageOf
<1>4. page \in Seq(Line) /\ Len(page) = Len(s) + row + 1
  BY <1>1, Sizes, ElementOfSeq DEF Rows, PageOf
<1>5. /\ s \o upper \in Seq(Line) /\ Len(s \o upper) = Len(s) + Len(upper)
      /\ \A i \in 1 .. Len(s) + Len(upper) :
           (s \o upper)[i] = IF i <= Len(s) THEN s[i] ELSE upper[i - Len(s)]
  BY <1>2, ConcatProperties
<1> HIDE DEF upper, page
<1>6. \A i \in 1 .. Len(s \o upper) : (s \o upper)[i] = page[i]
  <2> SUFFICES ASSUME NEW i \in 1 .. Len(s) + row + 1 PROVE (s \o upper)[i] = page[i]
    BY <1>1, <1>2, <1>5
  <2>1. CASE i <= Len(s)
    BY <2>1, <1>1, <1>2, <1>3, <1>5
  <2>2. CASE ~(i <= Len(s))
    <3>1. i - Len(s) \in 1 .. row + 1 /\ i \in 1 .. Len(s) + Len(upper)
      BY <2>2, <1>1, <1>2
    <3>2. (s \o upper)[i] = upper[i - Len(s)] /\ page[i] = rows[i - Len(s) - 1]
      BY <2>2, <3>1, <1>3, <1>5
    <3> QED  BY <3>1, <3>2, <1>2
  <2> QED  BY <2>1, <2>2
<1>7. Len(s \o upper) = Len(page)
  BY <1>1, <1>2, <1>4, <1>5
<1>8. s \o upper = page
  BY <1>4, <1>5, <1>6, <1>7, SeqEqual
<1> QED  BY <1>4, <1>8 DEF upper, page

LEMMA PageFn ==
  ASSUME TermTypeOK
  PROVE  /\ Page = PageOf(scrolled, term, term_row)
         /\ Page \in Seq(Line)
         /\ Len(Page) = Len(scrolled) + term_row + 1 /\ Len(Page) \in Nat
<1>1. term \in [Rows -> Line] /\ term_row \in Rows /\ scrolled \in Seq(Line)
  BY DEF TermTypeOK, Line
<1>2. /\ Page = PageOf(scrolled, term, term_row) /\ Page \in Seq(Line)
      /\ Len(Page) = Len(scrolled) + term_row + 1
  BY <1>1, Joined DEF Page
<1>3. Len(Page) \in Nat
  BY <1>2, LenProperties
<1> QED  BY <1>2, <1>3

LEMMA PageFnNext == ASSUME TermTypeOK' PROVE Page' = PageOf(scrolled', term', term_row')
<1>1. term' \in [Rows -> Line] /\ term_row' \in Rows /\ scrolled' \in Seq(Line)
  BY DEF TermTypeOK, Line
<1> QED  BY <1>1, Joined DEF Page

\* Rows or lines with c at place col of the one at index row.
Written(rows, row, col, c) == [rows EXCEPT ![row][col] = c]

\* Writing to the cursor's row changes the last line, and it alone.
LEMMA LastLine ==
  ASSUME NEW s \in Seq(Line), NEW rows \in [Rows -> Line], NEW row \in Rows,
         NEW col \in Columns, NEW c
  PROVE  PageOf(s, Written(rows, row, col, c), row)
           = Written(PageOf(s, rows, row), Len(s) + row + 1, col, c)
<1> DEFINE n == Len(s) + row + 1
           p == PageOf(s, rows, row)
           q == PageOf(s, [rows EXCEPT ![row][col] = c], row)
<1>1. n \in Nat /\ n >= 1 /\ Len(s) \in Nat
  BY Sizes, LenProperties DEF Rows
<1>2. p[n] = rows[row]
  BY <1>1 DEF PageOf, Rows
<1>3. \A i \in 1 .. n : q[i] = [p EXCEPT ![n][col] = c][i]
  <2> SUFFICES ASSUME NEW i \in 1 .. n PROVE q[i] = [p EXCEPT ![n][col] = c][i]
    OBVIOUS
  <2>1. CASE i = n
    <3>1. q[i] = [rows EXCEPT ![row][col] = c][row]
      BY <2>1, <1>1 DEF PageOf, Rows
    <3>2. [p EXCEPT ![n][col] = c][i] = [p[n] EXCEPT ![col] = c]
      BY <2>1, <1>1 DEF PageOf
    <3> QED  BY <3>1, <3>2, <1>2
  <2>2. CASE i # n
    <3>1. [p EXCEPT ![n][col] = c][i] = p[i]
      BY <2>2, <1>1 DEF PageOf
    <3>2. q[i] = p[i]
      BY <2>2, <1>1 DEF PageOf, Rows
    <3> QED  BY <3>1, <3>2
  <2> QED  BY <2>1, <2>2
<1> QED  BY <1>1, <1>3 DEF PageOf, Written

LEMMA LastOfPage ==
  ASSUME NEW n \in Nat, NEW s, NEW rows, Len(s) \in Nat, ~(n + 1 <= Len(s)), NEW q,
         q = [i \in 1 .. n + 1 |-> IF i <= Len(s) THEN s[i] ELSE rows[i - Len(s) - 1]]
  PROVE  q[n + 1] = rows[n + 1 - Len(s) - 1]
OBVIOUS

\* Moving to the next row, the screen scrolling or not, appends an empty line.
LEMMA NextLine ==
  ASSUME TermInv, NEW c, NextRow(c), NEW row, NEW rows, NEW s,
         row = IF Scrolls(c) THEN Row(c) - 1 ELSE Row(c),
         rows = IF Scrolls(c) THEN Scroll(term) ELSE term,
         s = IF Scrolls(c) THEN Append(scrolled, term[0]) ELSE scrolled
  PROVE  PageOf(s, rows, row) = Append(Page, BlankRow)
<1>t. /\ term \in [Rows -> Line] /\ term_row \in Rows /\ scrolled \in Seq(Line)
      /\ Len(scrolled) \in Nat
  BY LenProperties DEF TermInv, TermTypeOK, Line
<1>p. /\ Page = PageOf(scrolled, term, term_row) /\ Page \in Seq(Line)
      /\ Len(Page) = Len(scrolled) + term_row + 1 /\ Len(Page) \in Nat
  BY PageFn DEF TermInv
<1> DEFINE n == Len(Page)
           q == PageOf(s, rows, row)
<1>1. /\ Append(Page, BlankRow) \in Seq(Line) /\ Len(Append(Page, BlankRow)) = n + 1
      /\ \A i \in 1 .. n : Append(Page, BlankRow)[i] = Page[i]
      /\ Append(Page, BlankRow)[n + 1] = BlankRow
  BY <1>p, Sizes, AppendProperties
<1>2. Len(s) + row = n /\ row \in Rows /\ Len(s) \in Nat
  <2>1. CASE Scrolls(c)
    <3>1. Len(s) = Len(scrolled) + 1
      BY <2>1, <1>t, Sizes, AppendProperties
    <3>2. row = term_row
      BY <2>1, Places
    <3> QED  BY <3>1, <3>2, <1>t, <1>p
  <2>2. CASE ~Scrolls(c)
    <3>1. Len(s) = Len(scrolled)
      BY <2>2
    <3>2. row = term_row + 1 /\ row \in Rows
      BY <2>2, Places
    <3> QED  BY <3>1, <3>2, <1>t, <1>p, Sizes DEF Rows
  <2> QED  BY <2>1, <2>2
<1>c. row \in Nat /\ n \in Nat
  BY <1>2, <1>p, Sizes DEF Rows
<1>q. /\ q = [i \in 1 .. n + 1 |-> IF i <= Len(s) THEN s[i] ELSE rows[i - Len(s) - 1]]
  BY <1>2 DEF PageOf
<1>3. rows[row] = BlankRow
  <2>1. CASE Scrolls(c)
    BY <2>1, <1>t, Places, ScrollType, Sizes DEF Rows
  <2>2. CASE ~Scrolls(c)
    BY <2>2, <1>t, <1>2, Places DEF Rows, TermInv, BlankBelow
  <2> QED  BY <2>1, <2>2
<1>4. q[n + 1] = BlankRow
  <2> HIDE DEF q, n
  <2>1. n + 1 \in 1 .. n + 1 /\ ~(n + 1 <= Len(s)) /\ n + 1 - Len(s) - 1 = row
    BY <1>2, <1>c
  <2>2. q[n + 1] = rows[n + 1 - Len(s) - 1]
    BY <1>2, <1>c, <1>q, <2>1, LastOfPage
  <2> QED  BY <2>1, <2>2, <1>3
<1>5. \A i \in 1 .. n : q[i] = Page[i]
  <2> SUFFICES ASSUME NEW i \in 1 .. n PROVE q[i] = Page[i]
    OBVIOUS
  <2>i. q[i] = IF i <= Len(s) THEN s[i] ELSE rows[i - Len(s) - 1]
    <3> HIDE DEF q, n
    <3> QED  BY <1>q, <1>c
  <2>j. Page[i] = IF i <= Len(scrolled) THEN scrolled[i] ELSE term[i - Len(scrolled) - 1]
    BY <1>p DEF PageOf
  <2>1. CASE Scrolls(c)
    <3>1. /\ Len(s) = Len(scrolled) + 1 /\ s[Len(scrolled) + 1] = term[0]
          /\ \A k \in 1 .. Len(scrolled) : s[k] = scrolled[k]
      BY <2>1, <1>t, Sizes, AppendProperties
    <3>2. CASE i <= Len(scrolled)
      BY <3>1, <3>2, <2>i, <2>j, <1>t
    <3>3. CASE i = Len(scrolled) + 1
      BY <3>1, <3>3, <2>i, <2>j, <1>t
    <3>4. CASE i > Len(scrolled) + 1
      <4>1. i - Len(s) - 1 \in Rows /\ i - Len(s) - 1 < VGA_HEIGHT - 1
        BY <3>1, <3>4, <1>t, <1>p, <2>1, Places, Sizes DEF Rows
      <4>2. rows[i - Len(s) - 1] = term[i - Len(s)]
        BY <4>1, <2>1, <1>t, <3>1, ScrollType
      <4> QED  BY <4>2, <3>1, <3>4, <2>i, <2>j, <1>t
    <3> QED  BY <3>2, <3>3, <3>4, <1>t, <1>p
  <2>2. CASE ~Scrolls(c)
    BY <2>2, <2>i, <2>j
  <2> QED  BY <2>1, <2>2
<1>6. q = [k \in 1 .. n + 1 |-> q[k]]
  BY <1>2 DEF PageOf
<1>7. Append(Page, BlankRow) = [k \in 1 .. n + 1 |-> Append(Page, BlankRow)[k]]
  BY <1>1, <1>p, LenProperties
<1> HIDE DEF q
<1> QED  BY <1>1, <1>4, <1>5, <1>6, <1>7, <1>p, SMTT(30) DEF q

-----------------------------------------------------------------------------
(* The steps. *)

LEMMA InitImplements == TermInit => T!Start
<1> SUFFICES ASSUME TermInit PROVE T!Start
  OBVIOUS
<1>1. TermTypeOK
  BY InitInv DEF TermInv
<1>2. Page = PageOf(<<>>, term, 0)
  BY <1>1, PageFn DEF TermInit
<1>3. Page = <<BlankRow>>
  BY <1>2, Sizes DEF PageOf, TermInit
<1> QED  BY <1>3 DEF T!Start, T!BlankLine, BlankRow, Columns, TermInit

LEMMA StartImplements == TermInv /\ term_init => T!Clear
<1> SUFFICES ASSUME TermInv, term_init PROVE T!Clear
  OBVIOUS
<1>1. TermTypeOK'
  BY StartInv DEF TermInv
<1>2. Page' = PageOf(scrolled', term', term_row')
  BY <1>1, PageFnNext
<1>3. Page' = <<BlankRow>>
  BY <1>2, Sizes DEF PageOf, term_init
<1> QED  BY <1>3 DEF T!Clear, T!BlankLine, BlankRow, Columns, term_init

LEMMA ReturnImplements == carriage_return => T!Return
BY DEF carriage_return, T!Return, Page

LEMMA EraseImplements == TermInv /\ backspace => T!Erase \/ UNCHANGED T!transVars
<1> SUFFICES ASSUME TermInv, backspace PROVE T!Erase \/ UNCHANGED T!transVars
  OBVIOUS
<1>t. /\ term \in [Rows -> Line] /\ term_row \in Rows /\ term_col \in 0 .. VGA_WIDTH
      /\ scrolled \in Seq(Line)
  BY DEF TermInv, TermTypeOK, Line
<1>1. CASE term_col > 0
  <2>1. /\ term_col - 1 \in Columns /\ term_col' = term_col - 1
        /\ term' = [term EXCEPT ![term_row][term_col - 1] = Blank]
        /\ scrolled' = scrolled /\ term_row' = term_row
    BY <1>1, <1>t, Sizes DEF backspace, Columns
  <2>2. Page' = PageOf(scrolled, [term EXCEPT ![term_row][term_col - 1] = Blank], term_row)
    <3>1. TermTypeOK'
      BY EraseInv DEF TermInv
    <3>2. Page' = PageOf(scrolled', term', term_row')
      BY <3>1, PageFnNext
    <3> QED  BY <3>2, <2>1
  <2>3. Page = PageOf(scrolled, term, term_row) /\ Len(Page) = Len(scrolled) + term_row + 1
    BY PageFn DEF TermInv
  <2>4. Page' = [Page EXCEPT ![Len(Page)][term_col - 1] = Blank]
    <3>1. Page' = [PageOf(scrolled, term, term_row)
                     EXCEPT ![Len(scrolled) + term_row + 1][term_col - 1] = Blank]
      <4>1. PageOf(scrolled, Written(term, term_row, term_col - 1, Blank), term_row)
              = Written(PageOf(scrolled, term, term_row), Len(scrolled) + term_row + 1,
                        term_col - 1, Blank)
        BY <2>1, <1>t, LastLine
      <4> QED  BY <4>1, <2>2 DEF Written
    <3> QED  BY <3>1, <2>3
  <2> QED  BY <2>1, <2>4, <1>1 DEF T!Erase, T!Change
<1>2. CASE ~(term_col > 0)
  BY <1>2 DEF backspace, T!transVars, Page
<1> QED  BY <1>1, <1>2

LEMMA AdvanceImplements ==
  ASSUME TermInv, NEW c \in Printable \cup {NL}, advance(c)
  PROVE  IF c = NL THEN T!NewLine ELSE T!Put(c)
<1> DEFINE row == IF Scrolls(c) THEN Row(c) - 1 ELSE Row(c)
           col == IF NextRow(c) THEN 0 ELSE term_col
           rows == IF Scrolls(c) THEN Scroll(term) ELSE term
           s == IF Scrolls(c) THEN Append(scrolled, term[0]) ELSE scrolled
<1>t. /\ term \in [Rows -> Line] /\ term_row \in Rows /\ term_col \in 0 .. VGA_WIDTH
      /\ scrolled \in Seq(Line)
  BY DEF TermInv, TermTypeOK, Line
<1>a. /\ scrolled' = s /\ term_row' = row
      /\ term' = IF c = NL THEN rows ELSE [rows EXCEPT ![row][col] = c]
      /\ term_col' = IF c = NL THEN col ELSE col + 1
  BY DEF advance
<1>1. row \in Rows /\ col \in Columns
  BY <1>t, Places, Sizes
<1>2. rows \in [Rows -> Line] /\ s \in Seq(Line)
  BY <1>t, ScrollType, AppendProperties, Sizes
<1>3. Page' = PageOf(s, term', row)
  <2>1. TermTypeOK'
    BY AdvanceInv DEF TermInv
  <2>2. Page' = PageOf(scrolled', term', term_row')
    BY <2>1, PageFnNext
  <2> QED  BY <2>2, <1>a
<1>4. NextRow(c) => PageOf(s, rows, row) = Append(Page, BlankRow)
  BY NextLine
<1>5. ~NextRow(c) => PageOf(s, rows, row) = Page /\ row = term_row /\ s = scrolled
  <2>1. ~NextRow(c) => ~Scrolls(c) /\ row = term_row
    BY Places
  <2> QED  BY <2>1, PageFn DEF TermInv
<1>6. /\ Page \in Seq(Line) /\ Len(Page) = Len(scrolled) + term_row + 1
      /\ Len(Page) \in Nat
  BY PageFn DEF TermInv
<1>b. T!BlankLine = BlankRow
  BY DEF T!BlankLine, BlankRow, Columns
<1>7. CASE c = NL
  <2>1. NextRow(c)
    BY <1>7 DEF NextRow
  <2> QED  BY <2>1, <1>a, <1>3, <1>4, <1>7, <1>b DEF T!NewLine
<1>8. CASE c # NL
  <2>1. Page' = [PageOf(s, rows, row) EXCEPT ![Len(s) + row + 1][col] = c]
    <3>1. Page' = PageOf(s, [rows EXCEPT ![row][col] = c], row)
      BY <1>3, <1>a, <1>8
    <3> HIDE DEF s, rows, row, col
    <3>2. PageOf(s, Written(rows, row, col, c), row)
            = Written(PageOf(s, rows, row), Len(s) + row + 1, col, c)
      BY <1>1, <1>2, LastLine
    <3> QED  BY <3>1, <3>2 DEF Written
  <2>2. CASE NextRow(c)
    <3>1. term_col = VGA_WIDTH /\ col = 0
      BY <2>2, <1>8 DEF NextRow
    <3>2. Len(s) + row = Len(Page)
      <4>1. CASE Scrolls(c)
        BY <4>1, <1>t, <1>6, Places, Sizes, AppendProperties DEF Rows
      <4>2. CASE ~Scrolls(c)
        BY <4>2, <2>2, <1>t, <1>6, Places
      <4> QED  BY <4>1, <4>2
    <3>3. Page' = [Append(Page, BlankRow) EXCEPT ![Len(Page) + 1][0] = c]
      BY <2>1, <2>2, <1>4, <3>1, <3>2
    <3>4. Page' = Append(Page, [BlankRow EXCEPT ![0] = c])
      <4> DEFINE p == Append(Page, BlankRow)
                 q == Append(Page, [BlankRow EXCEPT ![0] = c])
                 n == Len(Page)
      <4>1. c \in Printable /\ [BlankRow EXCEPT ![0] = c] \in Line
        BY <1>8, Sizes DEF Line
      <4>2. /\ p \in Seq(Line) /\ Len(p) = n + 1 /\ p[n + 1] = BlankRow
            /\ \A i \in 1 .. n : p[i] = Page[i]
        BY <1>6, Sizes, AppendProperties
      <4>3. /\ q \in Seq(Line) /\ Len(q) = n + 1 /\ q[n + 1] = [BlankRow EXCEPT ![0] = c]
            /\ \A i \in 1 .. n : q[i] = Page[i]
        BY <1>6, <4>1, AppendProperties
      <4>4. DOMAIN p = 1 .. n + 1 /\ q = [i \in 1 .. n + 1 |-> q[i]]
        BY <4>2, <4>3, LenProperties
      <4> HIDE DEF p, q, n
      <4>5. n \in Nat
        BY <1>6 DEF n
      <4>6. \A i \in 1 .. n + 1 : [p EXCEPT ![n + 1][0] = c][i] = q[i]
        <5>1. [p EXCEPT ![n + 1][0] = c][n + 1] = [BlankRow EXCEPT ![0] = c]
          BY <4>2, <4>4, <4>5
        <5>2. \A i \in 1 .. n : [p EXCEPT ![n + 1][0] = c][i] = p[i]
          BY <4>4, <4>5
        <5> SUFFICES ASSUME NEW i \in 1 .. n + 1 PROVE [p EXCEPT ![n + 1][0] = c][i] = q[i]
          OBVIOUS
        <5>3. CASE i = n + 1
          BY <5>1, <5>3, <4>3
        <5>4. CASE i \in 1 .. n
          BY <5>2, <5>4, <4>2, <4>3
        <5> QED  BY <5>3, <5>4, <4>5
      <4>7. [p EXCEPT ![n + 1][0] = c] = q
        BY <4>4, <4>6
      <4> QED  BY <4>7, <3>3 DEF p, q, n
    <3> QED  BY <3>1, <3>4, <1>a, <1>8, <1>b DEF T!Put
  <2>3. CASE ~NextRow(c)
    <3>1. term_col < VGA_WIDTH /\ col = term_col
      BY <2>3, <1>t, Sizes DEF NextRow
    <3>2. Page' = [Page EXCEPT ![Len(Page)][term_col] = c]
      BY <2>1, <2>3, <1>5, <1>6, <3>1
    <3> QED  BY <3>1, <3>2, <1>a, <1>8 DEF T!Put, T!Change
  <2> QED  BY <2>2, <2>3
<1> QED  BY <1>7, <1>8

\* Every step of the terminal writes to the page as Transcript says, or leaves
\* it alone.
LEMMA StepImplements == TermInv /\ [TermNext]_termVars => [T!Write]_T!transVars
<1> SUFFICES ASSUME TermInv, [TermNext]_termVars PROVE [T!Write]_T!transVars
  OBVIOUS
<1>1. CASE term_init
  BY <1>1, StartImplements DEF T!Write
<1>2. CASE \E c \in Printable \cup {CR, BS, NL} : term_putchar(c)
  <2> PICK c \in Printable \cup {CR, BS, NL} : term_putchar(c)
    BY <1>2
  <2>1. CASE carriage_return
    BY <2>1, ReturnImplements DEF T!Write
  <2>2. CASE backspace
    BY <2>2, EraseImplements DEF T!Write
  <2>3. CASE c \in Printable \cup {NL} /\ advance(c)
    BY <2>3, AdvanceImplements DEF T!Write
  <2> QED  BY <2>1, <2>2, <2>3 DEF term_putchar
<1>3. CASE UNCHANGED termVars
  BY <1>3 DEF termVars, T!transVars, Page
<1> QED  BY <1>1, <1>2, <1>3 DEF TermNext

\* The screen, with what has scrolled off it, is a page without end on which only
\* the last line changes (term.c:76-129), for every size of the screen: wrapping,
\* scrolling and erasing lose nothing that was written before.
THEOREM TerminalShowsTranscript == TermSpec => ShowsTranscript
<1>1. TermInit => T!Start
  BY InitImplements
<1>2. TermInv /\ [TermNext]_termVars => [T!Write]_T!transVars
  BY StepImplements
<1> QED  BY <1>1, <1>2, TermInvariant, PTL DEF TermSpec, ShowsTranscript, T!TranscriptSpec

-----------------------------------------------------------------------------
(* The console. *)

\* What the console does with the terminal is what the terminal may do.
LEMMA ConsoleStepIs == [ConsoleNext]_conVars => [TermNext]_termVars
<1> SUFFICES ASSUME [ConsoleNext]_conVars PROVE [TermNext]_termVars
  OBVIOUS
<1>1. CASE StartTerminal
  BY <1>1, Zenon DEF StartTerminal, TermNext
<1>2. CASE term_write
  <2>1. PICK c : term_putchar(c)
    BY <1>2, Zenon DEF term_write
  <2>2. c \in Printable \cup {CR, BS, NL}
    BY <2>1, Zenon DEF term_putchar
  <2> QED BY <2>1, <2>2, Zenon DEF TermNext
<1>3. CASE Fault \/ halt
  BY <1>3, Zenon DEF Fault, halt
<1>4. CASE \E f \in Formats : printf(f)
  BY <1>4, Zenon DEF printf
<1>5. CASE \E f \in Exceptions : exception(f)
  BY <1>5, Zenon DEF exception
<1>6. CASE UNCHANGED conVars
  BY <1>6, Zenon DEF conVars
<1> QED BY <1>1, <1>2, <1>3, <1>4, <1>5, <1>6, Zenon DEF ConsoleNext, ConsoleStep

\* Programs that print, exceptions that interrupt them and the missing buffer
\* included, the terminal is used as it is meant to be.
THEOREM ConsoleUsesTerminal == ConsoleSpec => TermSpec
<1>1. ConsoleInit => TermInit
  BY DEF ConsoleInit
<1>2. [ConsoleNext]_conVars => [TermNext]_termVars
  BY ConsoleStepIs
<1> QED BY <1>1, <1>2, PTL DEF ConsoleSpec, TermSpec

\* So the cursor stays in the buffer, or just after the end of a row.
THEOREM ConsoleTypeCorrect == ConsoleSpec => []TermTypeOK
BY ConsoleUsesTerminal, TermTypeCorrect, PTL

\* And whatever is printed, the screen shows the end of the transcript.
THEOREM ConsoleShowsTranscript == ConsoleSpec => ShowsTranscript
BY ConsoleUsesTerminal, TerminalShowsTranscript, PTL

-----------------------------------------------------------------------------
(* Least and greatest elements, and induction. *)

LEMMA LeastElement ==
  ASSUME NEW Q, Q \subseteq Nat, Q # {}
  PROVE  \E x \in Q : \A y \in Q : x <= y
<1>1. PICK x \in Q : \A y \in Q : <<y, x>> \notin OpToRel(<, Nat)
  BY WFMin, NatLessThanWellFounded, Zenon
<1>2. \A y \in Q : ~(y < x)
  BY <1>1, Zenon DEF OpToRel
<1> QED BY <1>2, SMT

LEMMA SetInduction ==
  ASSUME NEW S, 0 \in S, \A n \in Nat : n \in S => n + 1 \in S
  PROVE  Nat \subseteq S
<1> SUFFICES ASSUME Nat \ S # {} PROVE FALSE
  OBVIOUS
<1>1. PICK x \in Nat \ S : \A y \in Nat \ S : x <= y
  BY LeastElement
<1>2. x - 1 \in Nat /\ x - 1 \in S
  BY <1>1
<1> QED BY <1>1, <1>2

LEMMA MinIs ==
  ASSUME NEW Q, Q \subseteq Nat, Q # {}
  PROVE  Min(Q) \in Q /\ \A y \in Q : Min(Q) <= y
BY LeastElement, Zenon DEF Min

LEMMA MaxIs ==
  ASSUME NEW n \in Nat, NEW Q, Q \subseteq 1 .. n, Q # {}
  PROVE  Max(Q) \in Q /\ \A y \in Q : Max(Q) >= y
<1> DEFINE U == {n - x : x \in Q}
<1>1. U \subseteq Nat /\ U # {}
  <2>1. \A x \in Q : n - x \in Nat
    BY SMT
  <2> QED BY <2>1
<1>2. PICK u \in U : \A v \in U : u <= v
  BY <1>1, LeastElement
<1>3. PICK x \in Q : u = n - x
  OBVIOUS
<1>4. \A y \in Q : n - y \in U
  OBVIOUS
<1>5. \A y \in Q : x >= y
  <2> SUFFICES ASSUME NEW y \in Q PROVE x >= y
    OBVIOUS
  <2>1. n - x <= n - y
    BY <1>2, <1>3, <1>4
  <2> QED BY <2>1
<1> QED BY <1>5, Zenon DEF Max

LEMMA MaxOfInitial ==
  ASSUME NEW k \in Nat, k > 0
  PROVE  Max(1 .. k) = k /\ (1 .. k) \ {k} = 1 .. k - 1
<1>1. 1 .. k \subseteq 1 .. k /\ 1 .. k # {} /\ k \in 1 .. k
  OBVIOUS
<1>2. Max(1 .. k) \in 1 .. k /\ Max(1 .. k) >= k
  BY <1>1, MaxIs
<1> QED BY <1>2

-----------------------------------------------------------------------------
(* Reading digits: what a fold from the left accumulates. *)

\* g[k] is what the first k of the n numbers of d make as digits to the base b.
Accumulates(g, n, b, d) == g[0] = 0 /\ \A k \in 1 .. n : g[k] = g[k - 1] * b + d[k]

\* What a fold does with a set of places, given what it does with the others.
Folded(f, b, d, Q) == IF Q = {} THEN 0 ELSE f[Q \ {Max(Q)}] * b + d[Max(Q)]

Foldable(n, b, d) ==
  \E f \in [SUBSET (1 .. n) -> Int] : \A Q \in SUBSET (1 .. n) : f[Q] = Folded(f, b, d, Q)

\* The recursion of a fold has a solution.
LEMMA FoldExists ==
  ASSUME NEW n \in Nat, NEW b \in Int, NEW d \in [1 .. n -> Int]
  PROVE  Foldable(n, b, d)
<1> DEFINE S == {k \in Nat : k <= n => Foldable(k, b, d)}
<1>1. 0 \in S
  <2> DEFINE f == [Q \in SUBSET (1 .. 0) |-> 0]
  <2>1. SUBSET (1 .. 0) = {{}}
    OBVIOUS
  <2>2. \A Q \in SUBSET (1 .. 0) : f[Q] = Folded(f, b, d, Q)
    BY <2>1 DEF Folded
  <2>3. f \in [SUBSET (1 .. 0) -> Int]
    OBVIOUS
  <2> HIDE DEF f
  <2> QED BY <2>2, <2>3 DEF Foldable
<1>2. \A k \in Nat : k \in S => k + 1 \in S
  <2> SUFFICES ASSUME NEW k \in Nat, k + 1 <= n, Foldable(k, b, d)
               PROVE  Foldable(k + 1, b, d)
    OBVIOUS
  <2>1. PICK f \in [SUBSET (1 .. k) -> Int] : \A Q \in SUBSET (1 .. k) : f[Q] = Folded(f, b, d, Q)
    BY Zenon DEF Foldable
  <2> DEFINE g == [Q \in SUBSET (1 .. k + 1) |->
                     IF k + 1 \in Q THEN f[Q \ {k + 1}] * b + d[k + 1] ELSE f[Q]]
  <2>2. \A Q \in SUBSET (1 .. k + 1) : (IF k + 1 \in Q THEN Q \ {k + 1} ELSE Q) \in SUBSET (1 .. k)
    OBVIOUS
  <2>3. d[k + 1] \in Int
    OBVIOUS
  <2>4. g \in [SUBSET (1 .. k + 1) -> Int]
    <3> SUFFICES ASSUME NEW Q \in SUBSET (1 .. k + 1)
                 PROVE  (IF k + 1 \in Q THEN f[Q \ {k + 1}] * b + d[k + 1] ELSE f[Q]) \in Int
      BY Zenon
    <3>1. CASE k + 1 \in Q
      <4>1. f[Q \ {k + 1}] \in Int
        BY <2>2, <3>1
      <4> QED BY <2>3, <3>1, <4>1
    <3>2. CASE k + 1 \notin Q
      BY <2>2, <3>2
    <3> QED BY <3>1, <3>2
  <2>5. ASSUME NEW Q \in SUBSET (1 .. k + 1) PROVE g[Q] = Folded(g, b, d, Q)
    <3>1. CASE k + 1 \in Q
      <4>1. Max(Q) = k + 1
        <5>1. Max(Q) \in Q /\ Max(Q) >= k + 1
          <6>1. k + 1 \in Nat /\ Q \subseteq 1 .. k + 1 /\ Q # {}
            BY <3>1
          <6> QED BY <3>1, <6>1, MaxIs, Zenon
        <5>2. Max(Q) \in 1 .. k + 1
          BY <5>1
        <5> QED BY <5>1, <5>2
      <4>2. k + 1 \notin Q \ {k + 1} /\ Q \ {k + 1} \in SUBSET (1 .. k + 1)
        OBVIOUS
      <4>3. g[Q \ {k + 1}] = f[Q \ {k + 1}]
        BY <4>2, Zenon
      <4>4. g[Q] = f[Q \ {k + 1}] * b + d[k + 1]
        BY <3>1, Zenon
      <4> QED BY <3>1, <4>1, <4>3, <4>4, Zenon DEF Folded
    <3>2. CASE k + 1 \notin Q
      <4>1. Q \in SUBSET (1 .. k)
        BY <2>2, <3>2
      <4>2. g[Q] = f[Q] /\ f[Q] = Folded(f, b, d, Q)
        BY <2>1, <3>2, <4>1, Zenon
      <4>3. k + 1 \notin Q \ {Max(Q)} /\ Q \ {Max(Q)} \in SUBSET (1 .. k + 1)
        BY <3>2
      <4>4. g[Q \ {Max(Q)}] = f[Q \ {Max(Q)}]
        BY <4>3, Zenon
      <4> QED BY <4>2, <4>4, Zenon DEF Folded
    <3> QED BY <3>1, <3>2
  <2> HIDE DEF g
  <2> QED BY <2>4, <2>5 DEF Foldable
<1>3. n \in S
  <2> HIDE DEF S
  <2> QED BY <1>1, <1>2, SetInduction
<1> QED BY <1>3

\* What a solution makes of the first k places, it accumulates.
LEMMA FoldAccumulates ==
  ASSUME NEW n \in Nat, NEW b, NEW d, NEW f,
         \A Q \in SUBSET (1 .. n) : f[Q] = Folded(f, b, d, Q)
  PROVE  Accumulates([k \in 0 .. n |-> f[1 .. k]], n, b, d)
<1> DEFINE g == [k \in 0 .. n |-> f[1 .. k]]
<1>1. g[0] = 0
  <2>1. 1 .. 0 = {} /\ 1 .. 0 \in SUBSET (1 .. n) /\ 0 \in 0 .. n
    OBVIOUS
  <2>2. f[1 .. 0] = 0
    BY <2>1 DEF Folded
  <2> QED BY <2>1, <2>2
<1>2. ASSUME NEW k \in 1 .. n PROVE g[k] = g[k - 1] * b + d[k]
  <2>1. k - 1 \in 0 .. n /\ k \in 0 .. n /\ 1 .. k \in SUBSET (1 .. n) /\ 1 .. k # {} /\ k > 0 /\ k \in Nat
    OBVIOUS
  <2>2. Max(1 .. k) = k /\ (1 .. k) \ {k} = 1 .. k - 1
    BY <2>1, MaxOfInitial
  <2>3. f[1 .. k] = f[1 .. k - 1] * b + d[k]
    BY <2>1, <2>2, Zenon DEF Folded
  <2> QED BY <2>1, <2>3, Zenon
<1> QED BY <1>1, <1>2, Zenon DEF Accumulates

\* v is what n numbers make.
ComesTo(v, n, b, d) == \E g : Accumulates(g, n, b, d) /\ v = g[n]

LEMMA FoldComesTo ==
  ASSUME NEW n \in Nat, NEW b, NEW d, NEW f,
         \A Q \in SUBSET (1 .. n) : f[Q] = Folded(f, b, d, Q)
  PROVE  ComesTo(f[1 .. n], n, b, d)
<1> DEFINE g == [k \in 0 .. n |-> f[1 .. k]]
<1>1. Accumulates(g, n, b, d)
  BY FoldAccumulates, Zenon
<1>2. f[1 .. n] = g[n]
  OBVIOUS
<1> QED BY <1>1, <1>2, Zenon DEF ComesTo

\* Number is such a fold.
LEMMA NumberAccumulates ==
  ASSUME NEW d \in Seq(Int), NEW b \in Int
  PROVE  ComesTo(Number(d, b), Len(d), b, d)
<1> DEFINE n == Len(d)
           F(f) == [Q \in SUBSET DOMAIN d |->
                      IF Q = {} THEN 0 ELSE f[Q \ {Max(Q)}] * b + d[Max(Q)]]
           f == CHOOSE f : f = F(f)
<1>1. n \in Nat /\ DOMAIN d = 1 .. n /\ d \in [1 .. n -> Int]
  OBVIOUS
<1>2. Number(d, b) = f[DOMAIN d]
  BY Zenon DEF Number, FoldLeft, MapThenFoldSet
<1>3. ASSUME NEW h PROVE F(h) = [Q \in SUBSET (1 .. n) |-> Folded(h, b, d, Q)]
  BY <1>1, Zenon DEF Folded
<1>4. \E h : h = F(h)
  <2>1. PICK h \in [SUBSET (1 .. n) -> Int] :
               \A Q \in SUBSET (1 .. n) : h[Q] = Folded(h, b, d, Q)
    <3> HIDE DEF n
    <3>1. Foldable(n, b, d)
      BY <1>1, FoldExists
    <3> QED BY <3>1, Zenon DEF Foldable
  <2>2. h = [Q \in SUBSET (1 .. n) |-> h[Q]]
    OBVIOUS
  <2>3. h = [Q \in SUBSET (1 .. n) |-> Folded(h, b, d, Q)]
    BY <2>1, <2>2, Zenon
  <2>4. h = F(h)
    BY <1>3, <2>3, Zenon
  <2> QED BY <2>4, Zenon
<1>5. f = F(f)
  BY <1>4, Zenon
<1>6. \A Q \in SUBSET (1 .. n) : f[Q] = Folded(f, b, d, Q)
  <2>1. f = [Q \in SUBSET (1 .. n) |-> Folded(f, b, d, Q)]
    BY <1>3, <1>5, Zenon
  <2> HIDE DEF f, F, n
  <2> QED BY <2>1, Zenon
<1>7. ComesTo(f[1 .. n], n, b, d)
  <2> HIDE DEF f, n, F
  <2> QED BY <1>1, <1>6, FoldComesTo
<1> QED BY <1>1, <1>2, <1>7, Zenon

\* Reading one digit after another.
LEMMA ComesToUnique ==
  ASSUME NEW n \in Nat, NEW b, NEW d, NEW v, NEW g,
         ComesTo(v, n, b, d), Accumulates(g, n, b, d)
  PROVE  v = g[n]
<1>1. PICK h : Accumulates(h, n, b, d) /\ v = h[n]
  BY Zenon DEF ComesTo
<1> DEFINE S == {k \in Nat : k <= n => h[k] = g[k]}
<1>2. 0 \in S
  BY <1>1 DEF Accumulates
<1>3. \A k \in Nat : k \in S => k + 1 \in S
  <2> SUFFICES ASSUME NEW k \in Nat, k + 1 <= n, h[k] = g[k] PROVE h[k + 1] = g[k + 1]
    OBVIOUS
  <2>1. k + 1 \in 1 .. n /\ (k + 1) - 1 = k
    OBVIOUS
  <2>2. h[k + 1] = h[k] * b + d[k + 1] /\ g[k + 1] = g[k] * b + d[k + 1]
    BY <1>1, <2>1 DEF Accumulates
  <2> QED BY <2>2
<1>4. Nat \subseteq S
  <2> HIDE DEF S
  <2> QED BY <1>2, <1>3, SetInduction
<1> QED BY <1>1, <1>4

\* The number that digits make is what anything that accumulates them ends in.
LEMMA NumberIs ==
  ASSUME NEW d \in Seq(Int), NEW b \in Int, NEW g, Accumulates(g, Len(d), b, d)
  PROVE  Number(d, b) = g[Len(d)]
<1>1. ComesTo(Number(d, b), Len(d), b, d)
  BY NumberAccumulates
<1>2. Len(d) \in Nat
  OBVIOUS
<1> QED BY <1>1, <1>2, ComesToUnique

LEMMA NumberEmpty == ASSUME NEW b \in Int PROVE Number(<<>>, b) = 0
<1>1. Accumulates([k \in 0 .. 0 |-> 0], 0, b, <<>>)
  BY DEF Accumulates
<1>2. <<>> \in Seq(Int) /\ Len(<<>>) = 0
  OBVIOUS
<1> DEFINE g == [k \in 0 .. 0 |-> 0]
<1>3. g[0] = 0
  OBVIOUS
<1> HIDE DEF g
<1>4. Accumulates(g, Len(<<>>), b, <<>>)
  BY <1>1, <1>2, Zenon DEF g
<1> QED BY <1>2, <1>3, <1>4, NumberIs

\* One digit more.
LEMMA NumberAppend ==
  ASSUME NEW d \in Seq(Int), NEW b \in Int, NEW x \in Int
  PROVE  Number(Append(d, x), b) = Number(d, b) * b + x
<1> DEFINE e == Append(d, x)
           n == Len(d)
<1>1. /\ n \in Nat /\ e \in Seq(Int) /\ Len(e) = n + 1
      /\ e[n + 1] = x /\ \A k \in 1 .. n : e[k] = d[k]
  OBVIOUS
<1>2. PICK g : Accumulates(g, n, b, d) /\ Number(d, b) = g[n]
  BY NumberAccumulates, Zenon DEF ComesTo
<1> DEFINE h == [k \in 0 .. n + 1 |-> IF k = n + 1 THEN g[n] * b + x ELSE g[k]]
<1>3. Accumulates(h, n + 1, b, e)
  <2>1. h[0] = 0
    BY <1>1, <1>2 DEF Accumulates
  <2>2. ASSUME NEW k \in 1 .. n + 1 PROVE h[k] = h[k - 1] * b + e[k]
    <3>1. CASE k = n + 1
      BY <1>1, <3>1
    <3>2. CASE k # n + 1
      <4>1. k \in 1 .. n /\ k \in 0 .. n + 1 /\ k - 1 \in 0 .. n + 1 /\ k - 1 # n + 1
        BY <1>1, <3>2
      <4>2. h[k] = g[k] /\ h[k - 1] = g[k - 1]
        BY <3>2, <4>1, Zenon
      <4>3. g[k] = g[k - 1] * b + d[k]
        BY <1>2, <4>1 DEF Accumulates
      <4> QED BY <1>1, <4>1, <4>2, <4>3
    <3> QED BY <3>1, <3>2
  <2> QED BY <2>1, <2>2, Zenon DEF Accumulates
<1>4. h[n + 1] = g[n] * b + x
  BY <1>1
<1> HIDE DEF h, e
<1>5. Number(e, b) = h[n + 1]
  BY <1>1, <1>3, NumberIs
<1> QED BY <1>2, <1>4, <1>5 DEF e

-----------------------------------------------------------------------------
(* Writing digits. *)

LEMMA Division ==
  ASSUME NEW v \in Nat, NEW b \in Nat, b > 1
  PROVE  /\ v \div b \in 0 .. v /\ v % b \in 0 .. b - 1
         /\ v > 0 => v \div b < v
         /\ v = (v \div b) * b + (v % b)
BY SMT

\* h[v] is what the helpers print for v.
Helps(h, b, n) ==
  \A v \in 0 .. n : h[v] = IF v = 0 THEN <<>> ELSE Append(h[v \div b], v % b)

LEMMA HelpsExists ==
  ASSUME NEW b \in Nat, b > 1, NEW n \in Nat
  PROVE  \E h : Helps(h, b, n)
<1> DEFINE S == {k \in Nat : \E h : Helps(h, b, k)}
<1>1. 0 \in S
  <2>1. Helps([v \in 0 .. 0 |-> <<>>], b, 0)
    BY DEF Helps
  <2> QED BY <2>1
<1>2. \A k \in Nat : k \in S => k + 1 \in S
  <2> SUFFICES ASSUME NEW k \in Nat, NEW h, Helps(h, b, k) PROVE \E g : Helps(g, b, k + 1)
    OBVIOUS
  <2> DEFINE g == [v \in 0 .. k + 1 |->
                     IF v = k + 1 THEN Append(h[(k + 1) \div b], (k + 1) % b) ELSE h[v]]
  <2>1. ASSUME NEW v \in 0 .. k + 1
        PROVE  g[v] = IF v = 0 THEN <<>> ELSE Append(g[v \div b], v % b)
    <3>1. CASE v = k + 1
      <4>1. v \in Nat /\ v > 0
        BY <3>1
      <4>2. v \div b \in 0 .. v /\ v \div b < v
        BY <4>1, Division
      <4>3. v \div b \in 0 .. k + 1 /\ v \div b # k + 1
        BY <3>1, <4>2
      <4>4. g[v \div b] = h[v \div b]
        BY <4>3, Zenon
      <4>5. g[v] = Append(h[v \div b], v % b)
        BY <3>1, Zenon
      <4>6. v # 0
        BY <4>1
      <4> QED BY <4>4, <4>5, <4>6, Zenon
    <3>2. CASE v # k + 1
      <4>1. v \in 0 .. k /\ g[v] = h[v]
        BY <3>2
      <4>2. CASE v = 0
        BY <4>1, <4>2 DEF Helps
      <4>3. CASE v # 0
        <5>1. v \div b \in 0 .. k
          BY <4>1, <4>3, Division
        <5>2. g[v \div b] = h[v \div b]
          BY <5>1
        <5>3. h[v] = Append(h[v \div b], v % b)
          BY <4>1, <4>3, Zenon DEF Helps
        <5> QED BY <4>1, <4>3, <5>2, <5>3, Zenon
      <4> QED BY <4>2, <4>3
    <3> QED BY <3>1, <3>2
  <2>2. Helps(g, b, k + 1)
    BY <2>1, Zenon DEF Helps
  <2> QED BY <2>2
<1>3. Nat \subseteq S
  <2> HIDE DEF S
  <2> QED BY <1>1, <1>2, SetInduction
<1> QED BY <1>3

LEMMA HelperIs ==
  ASSUME NEW b \in Nat, b > 1, NEW n \in Nat
  PROVE  \E h : Helps(h, b, n) /\ helper(b, n) = h[n]
<1> DEFINE F(h) == [v \in 0 .. n |-> IF v = 0 THEN <<>> ELSE Append(h[v \div b], v % b)]
           h == CHOOSE h : h = F(h)
<1>1. \E f : f = F(f)
  <2>1. PICK f : Helps(f, b, n)
    BY HelpsExists
  <2> DEFINE g == [v \in 0 .. n |-> f[v]]
  <2>2. ASSUME NEW v \in 0 .. n
        PROVE  f[v] = IF v = 0 THEN <<>> ELSE Append(g[v \div b], v % b)
    <3>1. v \div b \in 0 .. n
      BY Division
    <3>2. g[v \div b] = f[v \div b]
      BY <3>1, Zenon
    <3> QED BY <2>1, <3>2, Zenon DEF Helps
  <2>3. g = F(g)
    BY <2>2, Zenon
  <2> QED BY <2>3, Zenon
<1>2. h = F(h)
  BY <1>1, Zenon
<1>3. Helps(h, b, n)
  <2>1. ASSUME NEW v \in 0 .. n PROVE h[v] = F(h)[v]
    BY <1>2, Zenon
  <2> HIDE DEF h
  <2> QED BY <2>1, Zenon DEF Helps
<1>4. helper(b, n) = h[n]
  BY Zenon DEF helper
<1> QED BY <1>3, <1>4, Zenon

\* What the helpers print for a number makes that number, and begins with no 0.
Prints(d, b, v) == /\ d \in Seq(0 .. b - 1) /\ Number(d, b) = v
                   /\ v > 0 => Len(d) > 0 /\ d[1] # 0

LEMMA NumberDigits ==
  ASSUME NEW b \in Nat, b > 1, NEW v \in Nat
  PROVE  Prints(helper(b, v), b, v)
<1>1. PICK h : Helps(h, b, v) /\ helper(b, v) = h[v]
  BY HelperIs
<1> DEFINE S == {n \in Nat : \A m \in 0 .. n : m <= v => Prints(h[m], b, m)}
<1>2. 0 \in S
  <2>1. h[0] = <<>>
    BY <1>1 DEF Helps
  <2>2. Prints(<<>>, b, 0)
    BY NumberEmpty DEF Prints
  <2> QED BY <2>1, <2>2
<1>3. \A n \in Nat : n \in S => n + 1 \in S
  <2> SUFFICES ASSUME NEW n \in Nat, n + 1 <= v, \A m \in 0 .. n : m <= v => Prints(h[m], b, m)
               PROVE  Prints(h[n + 1], b, n + 1)
    OBVIOUS
  <2> DEFINE q == (n + 1) \div b
             r == (n + 1) % b
  <2>1. /\ q \in 0 .. n /\ q <= v /\ r \in 0 .. b - 1 /\ r \in Int
        /\ n + 1 = q * b + r
    <3>1. n + 1 \in Nat /\ n + 1 > 0
      OBVIOUS
    <3>2. q \in 0 .. n + 1 /\ q < n + 1 /\ r \in 0 .. b - 1 /\ n + 1 = q * b + r
      BY <3>1, Division
    <3> HIDE DEF q, r
    <3> QED BY <3>2
  <2>2. h[n + 1] = Append(h[q], r)
    <3>1. n + 1 \in 0 .. v /\ n + 1 # 0
      OBVIOUS
    <3> QED BY <1>1, <3>1, Zenon DEF Helps
  <2> HIDE DEF q, r
  <2>3. Prints(h[q], b, q)
    BY <2>1
  <2>4. h[q] \in Seq(0 .. b - 1) /\ h[q] \in Seq(Int) /\ Number(h[q], b) = q
    <3>1. 0 .. b - 1 \subseteq Int
      OBVIOUS
    <3> QED BY <2>3, <3>1 DEF Prints
  <2>5. Number(h[n + 1], b) = n + 1
    BY <2>1, <2>2, <2>4, NumberAppend
  <2>6. h[n + 1] \in Seq(0 .. b - 1) /\ Len(h[n + 1]) > 0
    BY <2>1, <2>2, <2>4
  <2>7. h[n + 1][1] # 0
    <3>1. CASE q = 0
      <4>1. r = n + 1
        BY <2>1, <3>1
      <4>2. h[q] = <<>>
        <5>1. 0 \in 0 .. v
          OBVIOUS
        <5> QED BY <1>1, <3>1, <5>1, Zenon DEF Helps
      <4> QED BY <2>2, <4>1, <4>2
    <3>2. CASE q # 0
      <4>1. Len(h[q]) > 0 /\ h[q][1] # 0
        BY <2>1, <2>3, <3>2 DEF Prints
      <4> QED BY <2>1, <2>2, <2>4, <4>1
    <3> QED BY <3>1, <3>2
  <2> QED BY <2>5, <2>6, <2>7 DEF Prints
<1>4. v \in S
  <2> HIDE DEF S
  <2> QED BY <1>2, <1>3, SetInduction
<1> QED BY <1>1, <1>4

\* The digits printed for a number, which for 0 are one.
DigitsOf(v, b) == IF v = 0 THEN <<0>> ELSE helper(b, v)

LEMMA DigitsMakeNumber ==
  ASSUME NEW b \in Nat, b > 1, NEW v \in Nat
  PROVE  Prints(DigitsOf(v, b), b, v) /\ Len(DigitsOf(v, b)) > 0
<1>1. CASE v = 0
  <2>1. /\ DigitsOf(v, b) = <<0>> /\ <<0>> = Append(<<>>, 0) /\ <<>> \in Seq(Int)
        /\ <<0>> \in Seq(0 .. b - 1) /\ Len(<<0>>) = 1 /\ b \in Int /\ 0 \in Int
    BY <1>1 DEF DigitsOf
  <2>2. Number(<<>>, b) = 0
    BY <2>1, NumberEmpty
  <2>3. Number(Append(<<>>, 0), b) = Number(<<>>, b) * b + 0
    BY <2>1, NumberAppend
  <2>4. Number(DigitsOf(v, b), b) = 0
    BY <2>1, <2>2, <2>3
  <2>5. Len(DigitsOf(v, b)) > 0
    BY <2>1
  <2>6. DigitsOf(v, b) \in Seq(0 .. b - 1)
    BY <2>1, Zenon
  <2>7. ~(v > 0)
    BY <1>1
  <2> QED BY <1>1, <2>4, <2>5, <2>6, <2>7, Zenon DEF Prints
<1>2. CASE v # 0
  <2>1. DigitsOf(v, b) = helper(b, v) /\ v > 0
    BY <1>2 DEF DigitsOf
  <2>2. Prints(helper(b, v), b, v)
    BY NumberDigits
  <2> QED BY <2>1, <2>2, Zenon DEF Prints
<1> QED BY <1>1, <1>2

\* A digit is printed as a numeral or, from 10 on, as a letter.
LEMMA CharIs ==
  ASSUME NEW x \in 0 .. 15, NEW letters \in Int
  PROVE  /\ Char(x, letters) \in Int
         /\ x < 10 => Char(x, letters) = x + 48
         /\ x >= 10 => Char(x, letters) = x - 10 + letters
BY DEF Char, Zero

\* A numeral is read as the digit it stands for.
LEMMA NumeralIs ==
  ASSUME NEW x \in 0 .. 15, NEW c, c = Char(x, 97)
  PROVE  /\ x < 10 => c \in Numerals
         /\ c \in Numerals => c - Zero = x /\ HexDigit(c) = x
<1>1. 97 \in Int
  OBVIOUS
<1>2. (x < 10 => c = x + 48) /\ (x >= 10 => c = x - 10 + 97)
  BY <1>1, CharIs
<1>3. x < 10 => c \in Numerals
  BY <1>2 DEF Numerals
<1>4. c \in Numerals => c - Zero = x
  BY <1>2 DEF Numerals, Zero
<1>5. c \in Numerals => c \notin Lower /\ c \notin Upper
  BY <1>2 DEF Numerals, Lower, Upper
<1> QED BY <1>3, <1>4, <1>5, Zenon DEF HexDigit

LEMMA PrintedIs ==
  ASSUME NEW b \in {10, 16}, NEW v \in Nat
  PROVE  /\ Printed(v, b) \in Seq(Int) /\ Len(Printed(v, b)) = Len(DigitsOf(v, b))
         /\ \A i \in 1 .. Len(DigitsOf(v, b)) :
              /\ DigitsOf(v, b)[i] \in 0 .. b - 1
              /\ Printed(v, b)[i] = Char(DigitsOf(v, b)[i], 97)
<1> DEFINE d == DigitsOf(v, b)
           p == [i \in DOMAIN d |-> Char(d[i], 97)]
<1>1. Printed(v, b) = p
  BY Zenon DEF Printed, DigitsOf
<1>2. b \in Nat /\ b > 1 /\ 97 \in Int
  OBVIOUS
<1>3. d \in Seq(0 .. b - 1)
  <2>1. Prints(d, b, v)
    BY <1>2, DigitsMakeNumber, Zenon
  <2> QED BY <2>1, Zenon DEF Prints
<1> HIDE DEF d
<1>4. DOMAIN d = 1 .. Len(d) /\ Len(d) \in Nat /\ \A i \in 1 .. Len(d) : d[i] \in 0 .. b - 1
  BY <1>3
<1>5. ASSUME NEW i \in 1 .. Len(d) PROVE Char(d[i], 97) \in Int
  <2>1. d[i] \in 0 .. 15
    BY <1>4
  <2> QED BY <1>2, <2>1, CharIs
<1>6. p \in [1 .. Len(d) -> Int]
  BY <1>4, <1>5, Zenon
<1>7. \A i \in 1 .. Len(d) : p[i] = Char(d[i], 97)
  BY <1>4, Zenon
<1> HIDE DEF p
<1>8. p \in Seq(Int) /\ Len(p) = Len(d)
  BY <1>4, <1>6
<1> QED BY <1>1, <1>4, <1>7, <1>8, Zenon DEF d

-----------------------------------------------------------------------------
(* Reading what was printed. *)

\* A loop stops at the first position that makes it stop.
LEMMA LeastIs ==
  ASSUME NEW Q, Q \subseteq Nat, NEW n \in Q, \A i \in Q : n <= i
  PROVE  Min(Q) = n
<1>1. Min(Q) \in Q /\ Min(Q) <= n
  <2>1. Q # {}
    OBVIOUS
  <2> QED BY <2>1, MinIs, Zenon
<1>2. Min(Q) \in Nat /\ n \in Nat /\ n <= Min(Q)
  BY <1>1, Zenon
<1> QED BY <1>1, <1>2

\* The digits at the beginning of a string are those before the first other
\* character.
LEMMA LeadingIs ==
  ASSUME NEW D, NEW p \in Seq(Int), NEW t \in Seq(Int), Len(t) > 0, t[1] \notin D,
         \A i \in 1 .. Len(p) : p[i] \in D
  PROVE  Leading(p \o t, D) = p
<1> DEFINE s == p \o t
           Q == {i \in DOMAIN s : s[i] \notin D}
<1>1. /\ s \in Seq(Int) /\ DOMAIN s = 1 .. Len(p) + Len(t) /\ Len(p) \in Nat /\ Len(t) \in Nat
      /\ Len(s) = Len(p) + Len(t)
      /\ \A i \in 1 .. Len(p) : s[i] = p[i]
      /\ s[Len(p) + 1] = t[1]
  OBVIOUS
<1> HIDE DEF s
<1>2. Q \subseteq Nat /\ Len(p) + 1 \in Q
  BY <1>1
<1>3. ASSUME NEW i \in Q PROVE Len(p) + 1 <= i
  <2>1. i \in 1 .. Len(p) + Len(t) /\ s[i] \notin D
    BY <1>1, Zenon
  <2>2. i \notin 1 .. Len(p)
    BY <1>1, <2>1, Zenon
  <2> QED BY <1>1, <2>1, <2>2
<1>4. Min(Q) = Len(p) + 1
  <2> HIDE DEF Q
  <2> QED BY <1>2, <1>3, LeastIs
<1>5. Leading(s, D) = SubSeq(s, 1, Min(Q) - 1)
  BY Zenon DEF Leading, Stop
<1>6. SubSeq(s, 1, Len(p)) = p
  <2>1. Len(SubSeq(s, 1, Len(p))) = Len(p) /\ SubSeq(s, 1, Len(p)) \in Seq(Int)
    BY <1>1, SMTT(30)
  <2>2. \A i \in 1 .. Len(p) : SubSeq(s, 1, Len(p))[i] = p[i]
    BY <1>1
  <2> QED BY <2>1, <2>2, SeqEqual
<1>7. Min(Q) - 1 = Len(p)
  <2> HIDE DEF Q
  <2> QED BY <1>1, <1>4
<1> QED BY <1>5, <1>6, <1>7, Zenon DEF s

\* atoi reads a number in decimal.
LEMMA AtoiReads ==
  ASSUME NEW v \in Nat, NEW t \in Seq(Int), Len(t) > 0, t[1] \notin Numerals
  PROVE  atoi(Printed(v, 10) \o t) = v
<1> DEFINE d == DigitsOf(v, 10)
           p == Printed(v, 10)
<1>0. 10 \in {10, 16} /\ 10 \in Nat /\ 10 > 1 /\ 10 - 1 = 9
  OBVIOUS
<1>1. /\ p \in Seq(Int) /\ Len(p) = Len(d)
      /\ \A i \in 1 .. Len(d) : d[i] \in 0 .. 9 /\ p[i] = Char(d[i], 97)
  BY <1>0, PrintedIs, ZenonT(30)
<1>2. Prints(d, 10, v)
  BY <1>0, DigitsMakeNumber
<1>3. d \in Seq(0 .. 9) /\ d \in Seq(Int) /\ Number(d, 10) = v
  <2>1. d \in Seq(0 .. 9) /\ Number(d, 10) = v
    BY <1>0, <1>2 DEF Prints
  <2> HIDE DEF d
  <2>2. 0 .. 9 \subseteq Int
    OBVIOUS
  <2> QED BY <2>1, <2>2, SMTT(30)
<1> HIDE DEF d, p
<1>4. Len(d) \in Nat /\ DOMAIN d = 1 .. Len(d) /\ DOMAIN p = 1 .. Len(d)
  BY <1>1, <1>3
<1>5. ASSUME NEW i \in 1 .. Len(d) PROVE p[i] \in Numerals /\ p[i] - Zero = d[i]
  <2>1. d[i] \in 0 .. 15 /\ d[i] < 10 /\ p[i] = Char(d[i], 97)
    BY <1>1
  <2> QED BY <2>1, NumeralIs, Zenon
<1>6. Leading(p \o t, Numerals) = p
  BY <1>1, <1>5, LeadingIs
<1>7. [i \in DOMAIN p |-> p[i] - Zero] = d
  <2>1. d = [i \in DOMAIN d |-> d[i]]
    BY <1>3
  <2> QED BY <1>4, <1>5, <2>1, Zenon
<1>8. atoi(p \o t) = Number([i \in DOMAIN p |-> p[i] - Zero], 10)
  BY <1>6, Zenon DEF atoi
<1> QED BY <1>3, <1>7, <1>8, Zenon DEF p

\* atoi_x reads one in hexadecimal that is written without letters.
LEMMA AtoiXReads ==
  ASSUME NEW v \in Nat, NEW t \in Seq(Int), Len(t) > 0, t[1] = NUL,
         \A i \in 1 .. Len(Printed(v, 16)) : Printed(v, 16)[i] \in Numerals
  PROVE  atoi_x(Printed(v, 16) \o t) = v
<1> DEFINE d == DigitsOf(v, 16)
           p == Printed(v, 16)
           D == Numerals \cup Lower \cup Upper
<1>0. 16 \in {10, 16} /\ 16 \in Nat /\ 16 > 1 /\ 16 - 1 = 15
  OBVIOUS
<1>1. /\ p \in Seq(Int) /\ Len(p) = Len(d)
      /\ \A i \in 1 .. Len(d) : d[i] \in 0 .. 15 /\ p[i] = Char(d[i], 97)
  BY <1>0, PrintedIs, ZenonT(30)
<1>2. Prints(d, 16, v)
  BY <1>0, DigitsMakeNumber
<1>3. d \in Seq(0 .. 15) /\ Number(d, 16) = v
  BY <1>0, <1>2 DEF Prints
<1>4. \A i \in 1 .. Len(p) : p[i] \in Numerals
  OBVIOUS
<1> HIDE DEF d, p
<1>5. Len(d) \in Nat /\ DOMAIN d = 1 .. Len(d) /\ DOMAIN p = 1 .. Len(d)
  BY <1>1, <1>3
<1>6. ASSUME NEW i \in 1 .. Len(d) PROVE HexDigit(p[i]) = d[i]
  <2>1. d[i] \in 0 .. 15 /\ p[i] = Char(d[i], 97) /\ p[i] \in Numerals
    BY <1>1, <1>4
  <2> QED BY <2>1, NumeralIs, Zenon
<1>7. Leading(p \o t, D) = p
  <2>1. t[1] \notin D
    BY DEF NUL, Numerals, Lower, Upper
  <2>2. \A i \in 1 .. Len(p) : p[i] \in D
    BY <1>4
  <2> HIDE DEF D
  <2> QED BY <1>1, <2>1, <2>2, LeadingIs
<1>8. [i \in DOMAIN p |-> HexDigit(p[i])] = d
  <2>1. d = [i \in DOMAIN d |-> d[i]]
    BY <1>3
  <2> QED BY <1>5, <1>6, <2>1, Zenon
<1>9. atoi_x(p \o t) = Number([i \in DOMAIN p |-> HexDigit(p[i])], 16)
  BY <1>7, Zenon DEF atoi_x
<1> QED BY <1>3, <1>8, <1>9, Zenon DEF p

-----------------------------------------------------------------------------
(* What itoa_x writes. *)

\* h[i] is what i divisions leave of v.
Leaves(h, v, n) == h[0] = v /\ \A i \in 1 .. n : h[i] = h[i - 1] \div 16

LEMMA LeavesExists ==
  ASSUME NEW v \in Nat, NEW n \in Nat
  PROVE  \E h : Leaves(h, v, n)
<1> DEFINE S == {k \in Nat : \E h : Leaves(h, v, k)}
<1>1. 0 \in S
  <2> DEFINE h == [i \in 0 .. 0 |-> v]
  <2>1. h[0] = v
    OBVIOUS
  <2>2. Leaves(h, v, 0)
    BY <2>1 DEF Leaves
  <2> QED BY <2>2
<1>2. \A k \in Nat : k \in S => k + 1 \in S
  <2> SUFFICES ASSUME NEW k \in Nat, NEW h, Leaves(h, v, k) PROVE \E g : Leaves(g, v, k + 1)
    OBVIOUS
  <2> DEFINE g == [i \in 0 .. k + 1 |-> IF i = k + 1 THEN h[k] \div 16 ELSE h[i]]
  <2>1. g[0] = v
    BY DEF Leaves
  <2>2. ASSUME NEW i \in 1 .. k + 1 PROVE g[i] = g[i - 1] \div 16
    <3>1. CASE i = k + 1
      <4>1. k \in 0 .. k + 1 /\ k # k + 1 /\ i - 1 = k /\ i \in 0 .. k + 1
        BY <3>1
      <4>2. g[i] = h[k] \div 16 /\ g[k] = h[k]
        BY <3>1, <4>1, Zenon
      <4> QED BY <4>1, <4>2, Zenon
    <3>2. CASE i # k + 1
      <4>1. i \in 1 .. k /\ i \in 0 .. k + 1 /\ i - 1 \in 0 .. k + 1 /\ i - 1 # k + 1
        BY <3>2
      <4>2. g[i] = h[i] /\ g[i - 1] = h[i - 1]
        BY <3>2, <4>1, Zenon
      <4>3. h[i] = h[i - 1] \div 16
        BY <4>1, Zenon DEF Leaves
      <4> QED BY <4>2, <4>3, Zenon
    <3> QED BY <3>1, <3>2
  <2>3. Leaves(g, v, k + 1)
    BY <2>1, <2>2, Zenon DEF Leaves
  <2> QED BY <2>3
<1>3. Nat \subseteq S
  <2> HIDE DEF S
  <2> QED BY <1>1, <1>2, SetInduction
<1> QED BY <1>3

LEMMA LeftLeaves == ASSUME NEW v \in Nat PROVE Leaves(Left(v), v, 20)
<1> DEFINE F(h) == [i \in 0 .. ArrSize |-> IF i = 0 THEN v ELSE h[i - 1] \div 16]
           h == CHOOSE h : h = F(h)
<1>0. ArrSize = 20 /\ 20 \in Nat
  BY DEF ArrSize
<1>1. \E f : f = F(f)
  <2>1. PICK f : Leaves(f, v, 20)
    BY <1>0, LeavesExists
  <2> DEFINE g == [i \in 0 .. ArrSize |-> f[i]]
  <2>2. ASSUME NEW i \in 0 .. ArrSize
        PROVE  f[i] = IF i = 0 THEN v ELSE g[i - 1] \div 16
    <3>1. CASE i = 0
      BY <2>1, <3>1, Zenon DEF Leaves
    <3>2. CASE i # 0
      <4>1. i \in 1 .. 20 /\ i - 1 \in 0 .. ArrSize
        BY <1>0, <3>2
      <4>2. g[i - 1] = f[i - 1]
        BY <4>1, Zenon
      <4> QED BY <2>1, <3>2, <4>1, <4>2, Zenon DEF Leaves
    <3> QED BY <3>1, <3>2
  <2>3. g = F(g)
    BY <2>2, Zenon
  <2> QED BY <2>3, Zenon
<1>2. h = F(h)
  BY <1>1, Zenon
<1>3. Leaves(h, v, 20)
  <2>1. ASSUME NEW i \in 0 .. ArrSize PROVE h[i] = IF i = 0 THEN v ELSE h[i - 1] \div 16
    BY <1>2, Zenon
  <2>2. 0 \in 0 .. ArrSize /\ \A i \in 1 .. 20 : i \in 0 .. ArrSize /\ i # 0
    BY <1>0
  <2> HIDE DEF h
  <2> QED BY <2>1, <2>2, Zenon DEF Leaves
<1>4. Left(v) = h
  BY Zenon DEF Left
<1> QED BY <1>3, <1>4, Zenon

LEMMA Shrinks ==
  ASSUME NEW v \in Nat, NEW h, Leaves(h, v, 20)
  PROVE  \A i \in 0 .. 20 : h[i] \in Nat
<1> DEFINE S == {k \in Nat : k <= 20 => h[k] \in Nat}
<1>1. 0 \in S
  BY DEF Leaves
<1>2. \A k \in Nat : k \in S => k + 1 \in S
  <2> SUFFICES ASSUME NEW k \in Nat, k + 1 <= 20, h[k] \in Nat PROVE h[k + 1] \in Nat
    OBVIOUS
  <2>1. k + 1 \in 1 .. 20 /\ (k + 1) - 1 = k
    OBVIOUS
  <2>2. h[k + 1] = h[k] \div 16
    BY <2>1, Zenon DEF Leaves
  <2>3. h[k] \div 16 \in Nat
    BY SMT
  <2> QED BY <2>2, <2>3
<1>3. Nat \subseteq S
  <2> HIDE DEF S
  <2> QED BY <1>1, <1>2, SetInduction
<1> QED BY <1>3

\* Nothing is left of an int after 20 divisions.
LEMMA NothingLeft ==
  ASSUME NEW v \in Nat, v <= MaxInt, NEW h, Leaves(h, v, 20)
  PROVE  h[20] = 0
<1>1. \A x, m \in Nat : x < 16 * m => x \div 16 < m
  BY SMT
<1>2. v \in Nat /\ h[0] = v
  BY DEF Leaves
<1>3. \A i \in 0 .. 20 : h[i] \in Nat
  BY <1>2, Shrinks
<1>4. ASSUME NEW i \in 1 .. 20, NEW m \in Nat, h[i - 1] < 16 * m PROVE h[i] < m
  <2>1. i - 1 \in 0 .. 20 /\ h[i] = h[i - 1] \div 16
    BY DEF Leaves
  <2>2. h[i - 1] \in Nat
    BY <1>3, <2>1, Zenon
  <2> QED BY <1>1, <1>4, <2>1, <2>2, SMT
<1>5. v < 16 * 134217728
  BY SMT DEF MaxInt
<1>6. h[1] < 134217728
  <2>1. 1 \in 1 .. 20 /\ 1 - 1 = 0 /\ 134217728 \in Nat
    OBVIOUS
  <2>2. h[0] < 16 * 134217728
    BY <1>2, <1>5, SMT
  <2> QED BY <1>4, <2>1, <2>2, SMT
<1>7. h[2] < 8388608
  <2>1. 2 \in 1 .. 20 /\ 2 - 1 = 1 /\ 8388608 \in Nat
    OBVIOUS
  <2>2. h[1] < 16 * 8388608
    BY <1>6, SMT
  <2> QED BY <1>4, <2>1, <2>2, SMT
<1>8. h[3] < 524288
  <2>1. 3 \in 1 .. 20 /\ 3 - 1 = 2 /\ 524288 \in Nat
    OBVIOUS
  <2>2. h[2] < 16 * 524288
    BY <1>7, SMT
  <2> QED BY <1>4, <2>1, <2>2, SMT
<1>9. h[4] < 32768
  <2>1. 4 \in 1 .. 20 /\ 4 - 1 = 3 /\ 32768 \in Nat
    OBVIOUS
  <2>2. h[3] < 16 * 32768
    BY <1>8, SMT
  <2> QED BY <1>4, <2>1, <2>2, SMT
<1>10. h[5] < 2048
  <2>1. 5 \in 1 .. 20 /\ 5 - 1 = 4 /\ 2048 \in Nat
    OBVIOUS
  <2>2. h[4] < 16 * 2048
    BY <1>9, SMT
  <2> QED BY <1>4, <2>1, <2>2, SMT
<1>11. h[6] < 128
  <2>1. 6 \in 1 .. 20 /\ 6 - 1 = 5 /\ 128 \in Nat
    OBVIOUS
  <2>2. h[5] < 16 * 128
    BY <1>10, SMT
  <2> QED BY <1>4, <2>1, <2>2, SMT
<1>12. h[7] < 8
  <2>1. 7 \in 1 .. 20 /\ 7 - 1 = 6 /\ 8 \in Nat
    OBVIOUS
  <2>2. h[6] < 16 * 8
    BY <1>11, SMT
  <2> QED BY <1>4, <2>1, <2>2, SMT
<1>13. h[8] < 1
  <2>1. 8 \in 1 .. 20 /\ 8 - 1 = 7 /\ 1 \in Nat
    OBVIOUS
  <2>2. h[7] < 16 * 1
    BY <1>3, <1>12, SMT
  <2> QED BY <1>4, <2>1, <2>2, SMT
<1> DEFINE S == {k \in Nat : 8 + k <= 20 => h[8 + k] < 1}
<1>14. 0 \in S
  BY <1>13
<1>15. \A k \in Nat : k \in S => k + 1 \in S
  <2> SUFFICES ASSUME NEW k \in Nat, 8 + (k + 1) <= 20, h[8 + k] < 1 PROVE h[8 + (k + 1)] < 1
    OBVIOUS
  <2>1. 8 + (k + 1) \in 1 .. 20 /\ (8 + (k + 1)) - 1 = 8 + k /\ 8 + k \in 0 .. 20
    OBVIOUS
  <2>2. h[8 + k] < 16 * 1
    BY <1>3, <2>1
  <2>3. 1 \in Nat
    OBVIOUS
  <2> QED BY <1>4, <2>1, <2>2, <2>3
<1>16. 12 \in S
  <2> HIDE DEF S
  <2> QED BY <1>14, <1>15, SetInduction
<1> QED BY <1>3, <1>16

\* The digit that a character stands for, as itoa_x writes it.
Digit(c) == IF c \in Upper THEN c - 55 ELSE c - Zero

LEMMA DigitIs ==
  ASSUME NEW x \in 0 .. 15
  PROVE  /\ Char(x, 65) \in Int /\ Digit(Char(x, 65)) = x
         /\ x # 0 => Char(x, 65) # Zero
<1> DEFINE c == Char(x, 65)
<1>1. 65 \in Int
  OBVIOUS
<1>2. c \in Int /\ (x < 10 => c = x + 48) /\ (x >= 10 => c = x - 10 + 65)
  BY <1>1, CharIs
<1> HIDE DEF c
<1>3. x < 10 => c \notin Upper
  BY <1>2 DEF Upper
<1>4. x >= 10 => c \in Upper
  BY <1>2 DEF Upper
<1>5. x < 10 => c - Zero = x
  BY <1>2 DEF Zero
<1>6. x >= 10 => c - 55 = x
  BY <1>2
<1>7. x # 0 => c # Zero
  BY <1>2 DEF Zero
<1>8. x < 10 \/ x >= 10
  OBVIOUS
<1>9. Digit(c) = x
  BY <1>3, <1>4, <1>5, <1>6, <1>8, Zenon DEF Digit
<1> QED BY <1>2, <1>7, <1>9 DEF c

\* What is written is the number, with as many digits as were asked for, and
\* with more only if they are needed.
Writes(res, v, w) ==
  LET n == Len(res) - 1
  IN  /\ Number([i \in 1 .. n |-> Digit(res[i])], 16) = v
      /\ n >= w
      /\ n > w => res[1] # Zero

LEMMA Division16 ==
  ASSUME NEW v \in Nat
  PROVE  v % 16 \in 0 .. 15 /\ v = (v \div 16) * 16 + (v % 16)
<1>1. ASSUME NEW b \in Nat, b = 16
      PROVE  v % b \in 0 .. 15 /\ v = (v \div b) * b + (v % b)
  <2>1. b > 1 /\ b - 1 = 15
    BY <1>1
  <2>2. v % b \in 0 .. b - 1 /\ v = (v \div b) * b + (v % b)
    BY <2>1, Division
  <2> QED BY <2>1, <2>2
<1>2. 16 \in Nat
  OBVIOUS
<1> QED BY <1>1, <1>2

LEMMA ItoaWrites ==
  ASSUME NEW v \in Nat, v <= MaxInt, NEW w \in 1 .. 20
  PROVE  Writes(itoa_x(v, w), v, w)
<1> DEFINE left == Left(v)
           Q == Enough(left, w)
           n == Min(Q)
           chars == [j \in 1 .. n |-> Char(left[n - j] % 16, 65)]
           e == [j \in 1 .. n |-> left[n - j] % 16]
           res == chars \o <<NUL>>
<1>1. Leaves(left, v, 20)
  BY LeftLeaves
<1> HIDE DEF left
<1>2. left[20] = 0 /\ \A i \in 0 .. 20 : left[i] \in Nat
  BY <1>1, NothingLeft, Shrinks
<1>3. Q \subseteq 1 .. 20 /\ 20 \in Q /\ Q \subseteq Nat /\ Q # {}
  BY <1>2 DEF Enough, ArrSize
<1>4. n \in Q /\ \A i \in Q : n <= i
  <2> HIDE DEF Q
  <2> QED BY <1>3, MinIs, Zenon
<1>5. n \in 1 .. 20 /\ left[n] = 0 /\ n >= w
  BY <1>4 DEF Enough, ArrSize
<1>6. ASSUME n > w PROVE left[n - 1] # 0
  <2>1. n - 1 \in 1 .. 20 /\ n - 1 >= w /\ ~(n <= n - 1)
    BY <1>5, <1>6
  <2>2. n - 1 \notin Q
    BY <1>4, <2>1
  <2> QED BY <2>1, <2>2 DEF Enough, ArrSize
<1> HIDE DEF n, Q
<1>7. ASSUME NEW j \in 1 .. n
      PROVE  /\ left[n - j] \in Nat /\ left[n - j] % 16 \in 0 .. 15
             /\ left[n - j] = left[n - (j - 1)] * 16 + (left[n - j] % 16)
  <2>1. n - j \in 0 .. 20 /\ n - (j - 1) \in 1 .. 20 /\ (n - (j - 1)) - 1 = n - j
    BY <1>5
  <2>2. left[n - j] \in Nat /\ left[n - (j - 1)] = left[n - j] \div 16
    BY <1>1, <1>2, <2>1 DEF Leaves
  <2> QED BY <2>2, Division16, Zenon
<1>8. itoa_x(v, w) = res
  BY Zenon DEF itoa_x, left, n, Q
<1>9. chars \in [1 .. n -> Int]
  BY <1>7, DigitIs
<1>10. ASSUME NEW j \in 1 .. n
       PROVE  chars[j] = Char(left[n - j] % 16, 65) /\ e[j] = left[n - j] % 16
  OBVIOUS
<1> DEFINE g == [k \in 0 .. n |-> left[n - k]]
<1>11. Accumulates(g, n, 16, e)
  <2>1. g[0] = 0
    BY <1>5
  <2>2. ASSUME NEW k \in 1 .. n PROVE g[k] = g[k - 1] * 16 + e[k]
    <3>1. k \in 0 .. n /\ k - 1 \in 0 .. n
      BY <1>5
    <3>2. g[k] = left[n - k] /\ g[k - 1] = left[n - (k - 1)] /\ e[k] = left[n - k] % 16
      BY <1>10, <3>1, Zenon
    <3>3. left[n - k] = left[n - (k - 1)] * 16 + (left[n - k] % 16)
      BY <1>7, Zenon
    <3> HIDE DEF g, e
    <3>4. n - (k - 1) \in 0 .. 20 /\ n - k \in 0 .. 20
      BY <1>5
    <3>5. left[n - (k - 1)] \in Nat /\ left[n - k] \in Nat
      BY <1>2, <3>4, Zenon
    <3> QED BY <1>7, <3>2, <3>3, <3>5
  <2> QED BY <2>1, <2>2, Zenon DEF Accumulates
<1>12. g[n] = v
  BY <1>1, <1>5 DEF Leaves
<1>13. e \in [1 .. n -> Int]
  BY <1>7
<1> HIDE DEF chars, e, g
<1>14. e \in Seq(Int) /\ Len(e) = n
  BY <1>5, <1>13
<1>15. 16 \in Int
  OBVIOUS
<1>16. Number(e, 16) = v
  BY <1>11, <1>12, <1>14, <1>15, NumberIs
<1>17. /\ chars \in Seq(Int) /\ Len(chars) = n /\ Len(res) = n + 1
       /\ \A j \in 1 .. n : res[j] = chars[j]
  BY <1>5, <1>9 DEF NUL
<1>18. ASSUME NEW j \in 1 .. n PROVE Digit(res[j]) = e[j]
  <2>1. res[j] = Char(left[n - j] % 16, 65) /\ e[j] = left[n - j] % 16
    BY <1>10, <1>17, Zenon
  <2> QED BY <1>7, <2>1, DigitIs, Zenon
<1> HIDE DEF res
<1>19. [j \in 1 .. n |-> Digit(res[j])] = e
  <2>1. e = [j \in 1 .. n |-> e[j]]
    BY <1>13
  <2> QED BY <1>18, <2>1, Zenon
<1>20. ASSUME n > w PROVE res[1] # Zero
  <2>1. 1 \in 1 .. n /\ n - (1 - 1) = n /\ n - 1 \in Int
    BY <1>5
  <2>2. left[n - 1] = 0 * 16 + (left[n - 1] % 16)
    BY <1>5, <1>7, <2>1
  <2>3. left[n - 1] % 16 # 0
    BY <1>6, <1>20, <1>7, <2>1, <2>2
  <2>4. res[1] = Char(left[n - 1] % 16, 65) /\ left[n - 1] % 16 \in 0 .. 15
    BY <1>7, <1>10, <1>17, <2>1
  <2> QED BY <2>3, <2>4, DigitIs
<1>21. Len(res) - 1 = n
  BY <1>5, <1>17
<1>22. Writes(res, v, w)
  BY <1>5, <1>16, <1>19, <1>20, <1>21, Zenon DEF Writes
<1> QED BY <1>8, <1>22

-----------------------------------------------------------------------------
(* Strings in memory. *)

Bytes == Chars \cup {NUL}

LEMMA CharsArePositive == \A c \in Chars : c \in Nat /\ c > 0
BY CharsAssumption

LEMMA BytesAreNumbers == Bytes \subseteq Int /\ \A c \in Bytes : c # NUL => c \in Chars /\ c > 0
BY CharsArePositive DEF Bytes, NUL

\* The string at position p of memory b ends at e.
Ends(b, p, e) == /\ e \in p .. Len(b) /\ b[e] = NUL
                 /\ \A i \in p .. e - 1 : b[i] # NUL

LEMMA EndExists ==
  ASSUME NEW b \in Seq(Bytes), NEW p \in 1 .. Len(b), \E i \in p .. Len(b) : b[i] = NUL
  PROVE  \E e : Ends(b, p, e)
<1> DEFINE Q == {i \in p .. Len(b) : b[i] = NUL}
<1>1. Q \subseteq Nat /\ Q # {}
  OBVIOUS
<1>2. PICK e \in Q : \A i \in Q : e <= i
  BY <1>1, LeastElement
<1>3. \A i \in p .. e - 1 : b[i] # NUL
  BY <1>2
<1> QED BY <1>2, <1>3, Zenon DEF Ends

\* It is what lies between.
LEMMA StringAtIs ==
  ASSUME NEW b \in Seq(Bytes), NEW p \in 1 .. Len(b), NEW e, Ends(b, p, e)
  PROVE  /\ StringAt(b, p) \in Seq(Chars) /\ Len(StringAt(b, p)) = e - p
         /\ StringAt(b, p) = SubSeq(b, p, e - 1)
         /\ \A i \in 1 .. e - p : StringAt(b, p)[i] = b[p + i - 1]
<1> DEFINE rest == SubSeq(b, p, Len(b))
           Q == {i \in DOMAIN rest : rest[i] = NUL}
           n == e - p
<1>1. /\ rest \in Seq(Bytes) /\ Len(rest) = Len(b) - p + 1 /\ DOMAIN rest = 1 .. Len(rest)
      /\ \A i \in 1 .. Len(rest) : rest[i] = b[p + i - 1]
  OBVIOUS
<1>2. /\ e \in Nat /\ p \in Nat /\ n \in Nat /\ e \in p .. Len(b) /\ n + 1 \in 1 .. Len(rest)
      /\ b[e] = NUL /\ \A i \in p .. e - 1 : b[i] # NUL
  BY <1>1 DEF Ends
<1> HIDE DEF rest
<1>3. n + 1 \in Q /\ Q \subseteq Nat
  BY <1>1, <1>2
<1>4. ASSUME NEW i \in Q PROVE n + 1 <= i
  <2>1. i \in 1 .. Len(rest) /\ b[p + i - 1] = NUL
    BY <1>1
  <2>2. p + i - 1 \notin p .. e - 1
    BY <1>2, <2>1
  <2> QED BY <1>2, <2>1, <2>2
<1>5. Min(Q) = n + 1
  <2> HIDE DEF Q, n
  <2> QED BY <1>3, <1>4, LeastIs
<1>6. strlen(rest) = n
  <2>1. strlen(rest) = Min(Q) - 1
    BY Zenon DEF strlen, Stop
  <2> QED BY <1>2, <1>5, <2>1
<1> DEFINE s == SubSeq(rest, 1, n)
<1>7. StringAt(b, p) = s
  BY <1>6, Zenon DEF StringAt, rest
<1>8. /\ s \in Seq(Bytes) /\ Len(s) = n /\ \A i \in 1 .. n : s[i] = b[p + i - 1]
  BY <1>1, <1>2
<1> HIDE DEF s
<1>9. \A i \in 1 .. n : s[i] \in Chars
  <2> SUFFICES ASSUME NEW i \in 1 .. n PROVE s[i] \in Chars
    OBVIOUS
  <2>1. p + i - 1 \in p .. e - 1 /\ s[i] = b[p + i - 1]
    BY <1>2, <1>8
  <2>2. s[i] # NUL /\ s[i] \in Bytes
    BY <1>2, <1>8, <2>1
  <2> QED BY <2>2, BytesAreNumbers
<1>10. s \in Seq(Chars)
  <2>1. s \in [1 .. n -> Chars]
    BY <1>8, <1>9
  <2> QED BY <1>2, <2>1
<1>11. s = SubSeq(b, p, e - 1)
  <2>1. /\ SubSeq(b, p, e - 1) \in Seq(Bytes) /\ Len(SubSeq(b, p, e - 1)) = n
        /\ \A i \in 1 .. n : SubSeq(b, p, e - 1)[i] = b[p + i - 1]
    BY <1>2
  <2>2. \A i \in 1 .. n : SubSeq(b, p, e - 1)[i] = s[i]
    BY <1>8, <2>1
  <2> QED BY <1>8, <2>1, <2>2, SeqEqual
<1> QED BY <1>7, <1>8, <1>10, <1>11, Zenon

\* A buffer holds the string before its first NUL.
Holds(b, s) == /\ s \in Seq(Chars) /\ Len(s) < Len(b)
               /\ b[Len(s) + 1] = NUL
               /\ \A i \in 1 .. Len(s) : b[i] = s[i]

LEMMA BufferIs ==
  ASSUME NEW b \in Buffers
  PROVE  b \in Seq(Bytes) /\ Len(b) = Size /\ DOMAIN b = 1 .. Size /\ \A i \in 1 .. Size : b[i] \in Bytes
BY SizeIsNatural DEF Buffers, Bytes

LEMMA BufferEnds ==
  ASSUME NEW b \in Buffers
  PROVE  \E e : Ends(b, 1, e)
<1>1. b \in Seq(Bytes) /\ Len(b) = Size /\ 1 \in 1 .. Len(b)
  BY BufferIs, SizeIsNatural
<1>2. \E i \in 1 .. Len(b) : b[i] = NUL
  BY <1>1, Zenon DEF Buffers
<1> QED BY <1>1, <1>2, EndExists

LEMMA EndedHolds ==
  ASSUME NEW b \in Seq(Bytes), NEW e, Ends(b, 1, e)
  PROVE  Holds(b, Str(b)) /\ Len(Str(b)) = e - 1 /\ Len(Str(b)) \in Nat
<1>1. e \in 1 .. Len(b) /\ Len(b) \in Nat /\ 1 \in 1 .. Len(b) /\ b[e] = NUL
  BY DEF Ends
<1>2. /\ Str(b) \in Seq(Chars) /\ Len(Str(b)) = e - 1
      /\ \A i \in 1 .. e - 1 : Str(b)[i] = b[1 + i - 1]
  BY <1>1, StringAtIs DEF Str
<1>3. e - 1 + 1 = e /\ e - 1 < Len(b) /\ e - 1 \in Nat /\ \A i \in 1 .. e - 1 : 1 + i - 1 = i
  BY <1>1
<1>4. \A i \in 1 .. Len(Str(b)) : b[i] = Str(b)[i]
  BY <1>2, <1>3
<1> QED BY <1>1, <1>2, <1>3, <1>4, Zenon DEF Holds

LEMMA StringHeld ==
  ASSUME NEW b \in Buffers
  PROVE  Holds(b, Str(b)) /\ Len(Str(b)) \in Nat
BY BufferEnds, BufferIs, EndedHolds

LEMMA HeldIs ==
  ASSUME NEW b \in Seq(Bytes), NEW s, Holds(b, s)
  PROVE  Str(b) = s
<1> DEFINE e == Len(s) + 1
<1>1. s \in Seq(Chars) /\ Len(s) \in Nat /\ Len(s) < Len(b) /\ Len(b) \in Nat
      /\ b[e] = NUL /\ \A i \in 1 .. Len(s) : b[i] = s[i]
  BY DEF Holds
<1>2. \A i \in 1 .. e - 1 : b[i] # NUL
  <2> SUFFICES ASSUME NEW i \in 1 .. e - 1 PROVE b[i] # NUL
    OBVIOUS
  <2>1. i \in 1 .. Len(s)
    BY <1>1
  <2>2. b[i] = s[i] /\ s[i] \in Chars
    BY <1>1, <2>1
  <2> QED BY <2>2, CharsAssumption DEF NUL
<1>3. Ends(b, 1, e)
  BY <1>1, <1>2 DEF Ends
<1>4. /\ Holds(b, Str(b)) /\ Len(Str(b)) = Len(s)
  <2> HIDE DEF e
  <2>1. Holds(b, Str(b)) /\ Len(Str(b)) = e - 1
    BY <1>3, EndedHolds
  <2> QED BY <1>1, <2>1 DEF e
<1>5. Str(b) \in Seq(Chars) /\ \A i \in 1 .. Len(s) : Str(b)[i] = s[i]
  BY <1>1, <1>4 DEF Holds
<1> QED BY <1>1, <1>4, <1>5, SeqEqual

LEMMA StrlenIs ==
  ASSUME NEW b \in Buffers
  PROVE  strlen(b) = Len(Str(b))
<1> DEFINE n == Len(Str(b))
           Q == {i \in DOMAIN b : b[i] = NUL}
<1>1. /\ b \in Seq(Bytes) /\ DOMAIN b = 1 .. Size /\ Len(b) = Size /\ Size \in Nat
      /\ n \in Nat /\ n < Size /\ b[n + 1] = NUL /\ \A i \in 1 .. n : b[i] # NUL
  <2>1. Holds(b, Str(b)) /\ n \in Nat
    BY StringHeld
  <2>2. \A i \in 1 .. n : b[i] \in Chars
    BY <2>1 DEF Holds
  <2> HIDE DEF n
  <2>3. \A i \in 1 .. n : b[i] # NUL
    BY <2>2, CharsAssumption DEF NUL
  <2> QED BY <2>1, <2>3, BufferIs, SizeIsNatural DEF Holds, n
<1> HIDE DEF n
<1>2. n + 1 \in Q /\ Q \subseteq Nat
  BY <1>1
<1>3. ASSUME NEW i \in Q PROVE n + 1 <= i
  BY <1>1
<1>4. Min(Q) = n + 1
  <2> HIDE DEF Q
  <2> QED BY <1>2, <1>3, LeastIs
<1>5. strlen(b) = Min(Q) - 1
  BY Zenon DEF strlen, Stop
<1> HIDE DEF Q
<1> QED BY <1>1, <1>4, <1>5 DEF n

-----------------------------------------------------------------------------
(* Comparing and finding. *)

\* What is in the place after the first n, which is 0 when nothing is.
Next0(s, n) == IF n < Len(s) THEN s[n + 1] ELSE 0

\* What an answer tells of the order of two strings.
Tells(res, s, t) == (res < 0 <=> Before(s, t)) /\ (res = 0 <=> s = t)

\* Two strings that are the same until one ends or they differ have the order of
\* what comes there.
LEMMA OrderIs ==
  ASSUME NEW s \in Seq(Chars), NEW t \in Seq(Chars), NEW n \in Nat, n <= Len(s), n <= Len(t),
         \A i \in 1 .. n : s[i] = t[i],
         \/ Next0(s, n) = 0 \/ Next0(t, n) = 0 \/ Next0(s, n) # Next0(t, n)
  PROVE  Tells(Next0(s, n) - Next0(t, n), s, t)
<1> DEFINE x == Next0(s, n)
           y == Next0(t, n)
<1>1. /\ Len(s) \in Nat /\ Len(t) \in Nat
      /\ \A i \in 1 .. Len(s) : s[i] \in Nat /\ s[i] > 0
      /\ \A i \in 1 .. Len(t) : t[i] \in Nat /\ t[i] > 0
  <2>1. /\ Len(s) \in Nat /\ Len(t) \in Nat
        /\ \A i \in 1 .. Len(s) : s[i] \in Chars
        /\ \A i \in 1 .. Len(t) : t[i] \in Chars
    OBVIOUS
  <2> QED BY <2>1, CharsArePositive, Zenon
<1>2. /\ x \in Nat /\ (x = 0 <=> n = Len(s)) /\ (n < Len(s) => x = s[n + 1])
  BY <1>1 DEF Next0
<1>3. /\ y \in Nat /\ (y = 0 <=> n = Len(t)) /\ (n < Len(t) => y = t[n + 1])
  BY <1>1 DEF Next0
<1>4. x = 0 \/ y = 0 \/ x # y
  OBVIOUS
<1> HIDE DEF x, y
<1>5. SubSeq(s, 1, n) = SubSeq(t, 1, n)
  <2>1. /\ SubSeq(s, 1, n) \in Seq(Chars) /\ SubSeq(t, 1, n) \in Seq(Chars)
        /\ Len(SubSeq(s, 1, n)) = n /\ Len(SubSeq(t, 1, n)) = n
        /\ \A i \in 1 .. n : SubSeq(s, 1, n)[i] = s[i] /\ SubSeq(t, 1, n)[i] = t[i]
    BY <1>1
  <2>2. \A i \in 1 .. n : SubSeq(s, 1, n)[i] = SubSeq(t, 1, n)[i]
    BY <2>1
  <2> QED BY <2>1, <2>2, SeqEqual
<1>6. ASSUME x < y PROVE Before(s, t)
  <2>1. n < Len(t) /\ n \in 0 .. Len(s) /\ (n = Len(s) \/ s[n + 1] < t[n + 1])
    BY <1>1, <1>2, <1>3, <1>6
  <2> QED BY <1>5, <2>1, Zenon DEF Before
<1>7. ASSUME Before(s, t) PROVE x < y
  <2>1. PICK m \in 0 .. Len(s) : /\ m < Len(t) /\ SubSeq(s, 1, m) = SubSeq(t, 1, m)
                                 /\ m = Len(s) \/ s[m + 1] < t[m + 1]
    BY <1>7, Zenon DEF Before
  <2>2. \A i \in 1 .. m : s[i] = t[i]
    <3>1. \A i \in 1 .. m : SubSeq(s, 1, m)[i] = s[i] /\ SubSeq(t, 1, m)[i] = t[i]
      BY <1>1, <2>1
    <3> QED BY <2>1, <3>1, Zenon
  <2>3. CASE m = n
    BY <1>1, <1>2, <1>3, <2>1, <2>3
  <2>4. CASE m < n
    <3>1. m + 1 \in 1 .. n /\ m + 1 \in 1 .. Len(s) /\ m # Len(s)
      BY <1>1, <2>4
    <3>2. s[m + 1] = t[m + 1] /\ s[m + 1] \in Nat
      BY <1>1, <3>1
    <3> QED BY <2>1, <3>1, <3>2
  <2>5. CASE m > n
    <3>1. n + 1 \in 1 .. m /\ n < Len(s) /\ n < Len(t)
      BY <1>1, <2>1, <2>5
    <3>2. s[n + 1] = t[n + 1]
      BY <2>2, <3>1
    <3> QED BY <1>2, <1>3, <1>4, <3>1, <3>2
  <2> QED BY <2>1, <2>3, <2>4, <2>5
<1>8. ASSUME x = y PROVE s = t
  <2>1. Len(s) = n /\ Len(t) = n
    BY <1>2, <1>3, <1>4, <1>8
  <2> QED BY <2>1, SeqEqual
<1>9. s = t => x = y
  BY DEF x, y
<1>10. (x - y < 0 <=> x < y) /\ (x - y = 0 <=> x = y)
  BY <1>2, <1>3
<1> QED BY <1>6, <1>7, <1>8, <1>9, <1>10, Zenon DEF Tells, x, y

\* What is in memory where a string goes on or has just ended.
LEMMA NextIs ==
  ASSUME NEW b \in Seq(Bytes), NEW s, Holds(b, s), NEW n \in Nat, n <= Len(s)
  PROVE  b[n + 1] = Next0(s, n)
<1>1. s \in Seq(Chars) /\ Len(s) \in Nat /\ b[Len(s) + 1] = NUL /\ \A i \in 1 .. Len(s) : b[i] = s[i]
  BY DEF Holds
<1>2. CASE n < Len(s)
  <2>1. n + 1 \in 1 .. Len(s)
    BY <1>1, <1>2
  <2> QED BY <1>1, <1>2, <2>1 DEF Next0
<1>3. CASE n = Len(s)
  BY <1>1, <1>3 DEF Next0, NUL
<1> QED BY <1>1, <1>2, <1>3

\* strcmp stops where either string has ended or they differ.
LEMMA StrcmpTells ==
  ASSUME NEW a \in Buffers, NEW b \in Buffers
  PROVE  Tells(strcmp(a, b), Str(a), Str(b))
<1> DEFINE s == Str(a)
           t == Str(b)
           Q == {j \in DOMAIN a : a[j] = NUL \/ b[j] = NUL \/ a[j] # b[j]}
           i == Min(Q)
           n == i - 1
<1>1. Holds(a, s) /\ Len(s) \in Nat /\ Holds(b, t) /\ Len(t) \in Nat
  BY StringHeld
<1> HIDE DEF s, t
<1>2. /\ s \in Seq(Chars) /\ Len(s) < Size /\ a[Len(s) + 1] = NUL /\ \A j \in 1 .. Len(s) : a[j] = s[j]
      /\ t \in Seq(Chars) /\ Len(t) < Size /\ b[Len(t) + 1] = NUL /\ \A j \in 1 .. Len(t) : b[j] = t[j]
      /\ DOMAIN a = 1 .. Size /\ a \in Seq(Bytes) /\ b \in Seq(Bytes)
  BY <1>1, BufferIs DEF Holds
<1>3. Len(s) + 1 \in Q /\ Len(t) + 1 \in Q /\ Q \subseteq Nat
  BY <1>1, <1>2, SizeIsNatural
<1>4. i \in Q /\ i <= Len(s) + 1 /\ i <= Len(t) + 1
  <2> HIDE DEF Q
  <2>1. Q # {}
    BY <1>3
  <2> QED BY <1>3, <2>1, MinIs, Zenon
<1>5. /\ i \in 1 .. Size /\ n \in Nat /\ n + 1 = i /\ n <= Len(s) /\ n <= Len(t)
      /\ a[i] = NUL \/ b[i] = NUL \/ a[i] # b[i]
  <2>1. i \in 1 .. Size /\ (a[i] = NUL \/ b[i] = NUL \/ a[i] # b[i])
    BY <1>2, <1>4
  <2> HIDE DEF i
  <2> QED BY <1>1, <1>4, <2>1, SizeIsNatural
<1>6. \A j \in 1 .. n : s[j] = t[j]
  <2> SUFFICES ASSUME NEW j \in 1 .. n PROVE s[j] = t[j]
    OBVIOUS
  <2> HIDE DEF i
  <2>1. j \in DOMAIN a /\ j \in 1 .. Len(s) /\ j \in 1 .. Len(t) /\ ~(i <= j)
    BY <1>1, <1>2, <1>5, SizeIsNatural
  <2>2. j \notin Q
    <3>1. \A k \in Q : i <= k
      <4> HIDE DEF Q
      <4>1. Q # {}
        BY <1>3
      <4> QED BY <1>3, <4>1, MinIs, Zenon DEF i
    <3> QED BY <2>1, <3>1, Zenon
  <2>3. a[j] = b[j]
    BY <2>1, <2>2
  <2> QED BY <1>2, <2>1, <2>3
<1>7. strcmp(a, b) = a[i] - b[i]
  BY Zenon DEF strcmp, Stop
<1> HIDE DEF i, n
<1>8. a[i] = Next0(s, n) /\ b[i] = Next0(t, n)
  BY <1>1, <1>2, <1>5, NextIs
<1>9. Tells(Next0(s, n) - Next0(t, n), s, t)
  BY <1>2, <1>5, <1>6, <1>8, OrderIs DEF NUL
<1> QED BY <1>7, <1>8, <1>9, Zenon DEF s, t

\* The beginning of a string, as far as strncmp looks.
Beginning(s, n) == SubSeq(s, 1, Min({n, Len(s)}))

LEMMA BeginningIs ==
  ASSUME NEW s \in Seq(Chars), NEW n \in Nat
  PROVE  LET m == IF n <= Len(s) THEN n ELSE Len(s)
         IN  /\ Beginning(s, n) \in Seq(Chars) /\ Len(Beginning(s, n)) = m /\ m \in Nat
             /\ \A i \in 1 .. m : Beginning(s, n)[i] = s[i]
<1> DEFINE m == IF n <= Len(s) THEN n ELSE Len(s)
           Q == {n, Len(s)}
<1>1. m \in Q /\ Q \subseteq Nat /\ \A i \in Q : m <= i
  OBVIOUS
<1>2. Min(Q) = m
  <2> HIDE DEF m, Q
  <2> QED BY <1>1, LeastIs
<1>3. Beginning(s, n) = SubSeq(s, 1, m)
  BY <1>2, Zenon DEF Beginning
<1> QED BY <1>3

\* strncmp stops where they differ, and looks no further than n.
LEMMA StrncmpTells ==
  ASSUME NEW a \in Buffers, NEW b \in Buffers, NEW n \in 0 .. Size,
         n <= Len(Str(a)) + 1, n <= Len(Str(b)) + 1
  PROVE  Tells(strncmp(a, b, n), Beginning(Str(a), n), Beginning(Str(b), n))
<1> DEFINE s == Str(a)
           t == Str(b)
           A == Beginning(s, n)
           B == Beginning(t, n)
           D == {i \in 1 .. n : a[i] # b[i]}
<1>1. Holds(a, s) /\ Len(s) \in Nat /\ Holds(b, t) /\ Len(t) \in Nat
  BY StringHeld
<1>2. n \in Nat /\ n <= Len(s) + 1 /\ n <= Len(t) + 1
  OBVIOUS
<1> HIDE DEF s, t
<1>3. /\ s \in Seq(Chars) /\ \A j \in 1 .. Len(s) : a[j] = s[j] /\ a[j] \in Chars
      /\ t \in Seq(Chars) /\ \A j \in 1 .. Len(t) : b[j] = t[j] /\ b[j] \in Chars
      /\ a \in Seq(Bytes) /\ b \in Seq(Bytes)
      /\ a[Len(s) + 1] = 0 /\ b[Len(t) + 1] = 0
  BY <1>1, BufferIs DEF Holds, NUL
<1>4. /\ A \in Seq(Chars) /\ Len(A) = (IF n <= Len(s) THEN n ELSE Len(s)) /\ Len(A) \in Nat
      /\ \A i \in 1 .. Len(A) : A[i] = s[i]
      /\ B \in Seq(Chars) /\ Len(B) = (IF n <= Len(t) THEN n ELSE Len(t)) /\ Len(B) \in Nat
      /\ \A i \in 1 .. Len(B) : B[i] = t[i]
  BY <1>2, <1>3, BeginningIs
<1> HIDE DEF A, B
<1>5. \A c \in Chars : c # 0
  BY CharsArePositive
\* Where they are the same so far, the beginnings go on as the memory does.
<1>6. ASSUME NEW m \in Nat, m < n PROVE a[m + 1] = Next0(A, m) /\ b[m + 1] = Next0(B, m)
  <2>1. m <= Len(s) /\ m <= Len(t)
    BY <1>1, <1>2, <1>6
  <2>2. a[m + 1] = Next0(s, m) /\ b[m + 1] = Next0(t, m)
    BY <1>1, <1>3, <2>1, NextIs
  <2>3. Next0(A, m) = Next0(s, m)
    BY <1>1, <1>2, <1>4, <1>6, <2>1 DEF Next0
  <2>4. Next0(B, m) = Next0(t, m)
    BY <1>1, <1>2, <1>4, <1>6, <2>1 DEF Next0
  <2> QED BY <2>2, <2>3, <2>4
<1>7. CASE D = {}
  <2>1. \A i \in 1 .. n : a[i] = b[i]
    BY <1>7
  <2>2. strncmp(a, b, n) = 0
    BY <1>7, Zenon DEF strncmp
  <2>3. Len(A) = Len(B)
    <3>1. ASSUME Len(s) < n PROVE Len(t) = Len(s)
      <4>1. n = Len(s) + 1 /\ n \in 1 .. n
        BY <1>1, <1>2, <3>1
      <4>2. b[n] = 0
        BY <1>3, <2>1, <4>1
      <4>3. n \notin 1 .. Len(t)
        BY <1>3, <1>5, <4>2
      <4> QED BY <1>1, <1>2, <4>1, <4>3
    <3>2. ASSUME Len(t) < n PROVE Len(t) = Len(s)
      <4>1. n = Len(t) + 1 /\ n \in 1 .. n
        BY <1>1, <1>2, <3>2
      <4>2. a[n] = 0
        BY <1>3, <2>1, <4>1
      <4>3. n \notin 1 .. Len(s)
        BY <1>3, <1>5, <4>2
      <4> QED BY <1>1, <1>2, <4>1, <4>3
    <3> QED BY <1>1, <1>2, <1>4, <3>1, <3>2
  <2>4. ASSUME NEW i \in 1 .. Len(A) PROVE A[i] = B[i]
    <3>1. i \in 1 .. n /\ i \in 1 .. Len(s) /\ i \in 1 .. Len(t) /\ i \in 1 .. Len(B)
      BY <1>1, <1>2, <1>4, <2>3
    <3> QED BY <1>3, <1>4, <2>1, <3>1
  <2>5. Next0(A, Len(A)) = 0 /\ Next0(B, Len(A)) = 0
    BY <1>4, <2>3 DEF Next0
  <2>6. Tells(Next0(A, Len(A)) - Next0(B, Len(A)), A, B)
    BY <1>4, <2>3, <2>4, <2>5, OrderIs
  <2>7. Next0(A, Len(A)) - Next0(B, Len(A)) = 0
    BY <2>5
  <2> QED BY <2>2, <2>6, <2>7, Zenon DEF A, B, s, t
<1>8. CASE D # {}
  <2> DEFINE i == Min(D)
             m == i - 1
  <2>1. i \in D /\ \A j \in D : i <= j
    <3>1. D \subseteq Nat
      OBVIOUS
    <3> HIDE DEF D
    <3> QED BY <1>8, <3>1, MinIs, Zenon
  <2>2. strncmp(a, b, n) = a[i] - b[i]
    BY <1>8, Zenon DEF strncmp
  <2> HIDE DEF i
  <2>3. m \in Nat /\ m < n /\ m + 1 = i /\ m <= Len(s) /\ m <= Len(t) /\ a[i] # b[i]
    BY <1>1, <1>2, <2>1
  <2>4. \A j \in 1 .. m : a[j] = b[j]
    BY <1>2, <2>1
  <2> HIDE DEF m
  <2>5. m <= Len(A) /\ m <= Len(B)
    BY <1>1, <1>2, <1>4, <2>3
  <2>6. ASSUME NEW j \in 1 .. m PROVE A[j] = B[j]
    <3>1. j \in 1 .. Len(s) /\ j \in 1 .. Len(t) /\ j \in 1 .. Len(A) /\ j \in 1 .. Len(B)
      BY <1>1, <1>4, <2>3, <2>5
    <3> QED BY <1>3, <1>4, <2>4, <3>1
  <2>7. a[i] = Next0(A, m) /\ b[i] = Next0(B, m)
    BY <1>6, <2>3
  <2>8. Tells(Next0(A, m) - Next0(B, m), A, B)
    BY <1>4, <2>3, <2>5, <2>6, <2>7, OrderIs
  <2> QED BY <2>2, <2>7, <2>8, Zenon DEF A, B, s, t
<1> QED BY <1>7, <1>8

\* strpbrk stops at the first character that is in the set.
Finds(res, s, t) ==
  IF res = NULL THEN ToSet(s) \cap ToSet(t) = {}
  ELSE /\ s[res] \in ToSet(t)
       /\ ToSet(SubSeq(s, 1, res - 1)) \cap ToSet(t) = {}

LEMMA StrpbrkFinds ==
  ASSUME NEW a \in Buffers, NEW b \in Buffers
  PROVE  Finds(strpbrk(a, b), Str(a), Str(b))
<1> DEFINE s == Str(a)
           t == Str(b)
           Q == {i \in 1 .. strlen(a) : contain(a[i], b)}
<1>1. Holds(a, s) /\ Len(s) \in Nat /\ strlen(a) = Len(s)
  BY StringHeld, StrlenIs
<1>2. \A i \in 1 .. Len(s) : contain(a[i], b) <=> a[i] \in ToSet(t)
  BY Zenon DEF contain, Str
<1> HIDE DEF s, t
<1>3. s \in Seq(Chars) /\ \A i \in 1 .. Len(s) : a[i] = s[i]
  BY <1>1 DEF Holds
<1>4. Q = {i \in 1 .. Len(s) : s[i] \in ToSet(t)}
  BY <1>1, <1>2, <1>3
<1>5. strpbrk(a, b) = IF Q = {} THEN NULL ELSE Min(Q)
  BY Zenon DEF strpbrk
<1> HIDE DEF Q
<1>6. CASE Q = {}
  <2>1. strpbrk(a, b) = NULL
    BY <1>5, <1>6, Zenon
  <2>2. ToSet(s) \cap ToSet(t) = {}
    <3> SUFFICES ASSUME NEW i \in DOMAIN s, s[i] \in ToSet(t) PROVE FALSE
      BY DEF ToSet
    <3> QED BY <1>3, <1>4, <1>6
  <2> QED BY <2>1, <2>2, Zenon DEF Finds, s, t
<1>7. CASE Q # {}
  <2> DEFINE n == Min(Q)
  <2>1. n \in Q /\ \A i \in Q : n <= i
    <3>1. Q \subseteq Nat
      BY <1>4
    <3> QED BY <1>7, <3>1, MinIs, Zenon
  <2>2. strpbrk(a, b) = n
    BY <1>5, <1>7, Zenon
  <2> HIDE DEF n
  <2>3. n \in 1 .. Len(s) /\ s[n] \in ToSet(t) /\ n # NULL
    BY <1>4, <2>1 DEF NULL
  <2>4. ToSet(SubSeq(s, 1, n - 1)) \cap ToSet(t) = {}
    <3> SUFFICES ASSUME NEW i \in DOMAIN SubSeq(s, 1, n - 1), SubSeq(s, 1, n - 1)[i] \in ToSet(t)
                 PROVE  FALSE
      BY DEF ToSet
    <3>1. i \in 1 .. n - 1 /\ SubSeq(s, 1, n - 1)[i] = s[i]
      BY <1>1, <1>3, <2>3
    <3>2. i \in Q /\ ~(n <= i)
      BY <1>1, <1>4, <2>3, <3>1
    <3> QED BY <2>1, <3>2
  <2> QED BY <2>2, <2>3, <2>4, Zenon DEF Finds, s, t
<1> QED BY <1>6, <1>7

-----------------------------------------------------------------------------
(* Copying. *)

\* What begins with a string and its NUL holds that string.
LEMMA CopyHolds ==
  ASSUME NEW b \in [1 .. Size -> Bytes], NEW s \in Buffers,
         \A i \in 1 .. Len(Str(s)) : b[i] = s[i], b[Len(Str(s)) + 1] = NUL
  PROVE  Str(b) = Str(s)
<1> DEFINE t == Str(s)
<1>1. Holds(s, t) /\ Len(t) \in Nat /\ Len(s) = Size
  BY StringHeld, BufferIs
<1> HIDE DEF t
<1>2. b \in Seq(Bytes) /\ Len(b) = Size
  BY SizeIsNatural
<1>3. Holds(b, t)
  BY <1>1, <1>2 DEF Holds, t
<1>4. Str(b) = t
  BY <1>2, <1>3, HeldIs
<1> QED BY <1>4 DEF t

LEMMA StrcpyCopies ==
  ASSUME NEW d \in Buffers, NEW s \in Buffers
  PROVE  /\ Str(strcpy(d, s)) = Str(s)
         /\ \A i \in strlen(s) + 2 .. Size : strcpy(d, s)[i] = d[i]
<1> DEFINE n == Len(Str(s))
           b == strcpy(d, s)
<1>1. /\ n \in Nat /\ n < Size /\ strlen(s) = n /\ s[n + 1] = NUL /\ Size \in Nat
      /\ DOMAIN d = 1 .. Size /\ \A i \in 1 .. Size : d[i] \in Bytes /\ s[i] \in Bytes
  BY StringHeld, StrlenIs, BufferIs, SizeIsNatural DEF Holds
<1> HIDE DEF n
<1>2. b = [i \in 1 .. Size |-> IF i <= n + 1 THEN s[i] ELSE d[i]]
  BY <1>1, Zenon DEF strcpy, memcpy
<1>3. b \in [1 .. Size -> Bytes]
  BY <1>1, <1>2
<1>4. \A i \in 1 .. n : i \in 1 .. Size /\ b[i] = s[i]
  BY <1>1, <1>2
<1>5. b[n + 1] = NUL
  BY <1>1, <1>2
<1>6. \A i \in n + 2 .. Size : b[i] = d[i]
  BY <1>1, <1>2
<1>7. Str(b) = Str(s)
  BY <1>3, <1>4, <1>5, CopyHolds, Zenon DEF n
<1> QED BY <1>1, <1>6, <1>7, Zenon

LEMMA StrncpyCopies ==
  ASSUME NEW d \in Buffers, NEW s \in Buffers, NEW len \in 0 .. Size
  PROVE  /\ strlen(s) < len => Str(strncpy(d, s, len)) = Str(s)
         /\ \A i \in 1 .. Min({len, strlen(s)}) : strncpy(d, s, len)[i] = s[i]
         /\ \A i \in len + 1 .. Size : strncpy(d, s, len)[i] = d[i]
<1> DEFINE n == Len(Str(s))
           b == strncpy(d, s, len)
<1>1. /\ n \in Nat /\ n < Size /\ strlen(s) = n /\ Size \in Nat /\ len \in Nat /\ len <= Size
      /\ DOMAIN d = 1 .. Size /\ \A i \in 1 .. Size : d[i] \in Bytes /\ s[i] \in Bytes
  BY StringHeld, StrlenIs, BufferIs, SizeIsNatural DEF Holds
<1> HIDE DEF n
<1>2. b = [i \in 1 .. Size |-> IF i > len THEN d[i] ELSE IF i <= n THEN s[i] ELSE NUL]
  BY <1>1, Zenon DEF strncpy
<1> HIDE DEF b
<1>3. NUL \in Bytes
  BY DEF Bytes
<1>4. b \in [1 .. Size -> Bytes]
  BY <1>1, <1>2, <1>3
<1>5. \A i \in 1 .. Size : i <= len /\ i <= n => b[i] = s[i]
  BY <1>1, <1>2
<1>6. ASSUME n < len PROVE Str(b) = Str(s)
  <2>1. \A i \in 1 .. n : b[i] = s[i]
    BY <1>1, <1>5, <1>6
  <2>2. b[n + 1] = NUL
    BY <1>1, <1>2, <1>6
  <2> QED BY <1>4, <2>1, <2>2, CopyHolds, Zenon DEF n
<1>7. Min({len, n}) \in {len, n} /\ Min({len, n}) <= len /\ Min({len, n}) <= n
  <2> DEFINE Q == {len, n}
  <2>1. Q \subseteq Nat /\ Q # {} /\ len \in Q /\ n \in Q
    BY <1>1
  <2> HIDE DEF Q
  <2>2. Min(Q) \in Q /\ Min(Q) <= len /\ Min(Q) <= n
    BY <2>1, MinIs, Zenon
  <2> QED BY <2>2 DEF Q
<1>8. \A i \in 1 .. Min({len, n}) : b[i] = s[i]
  <2> SUFFICES ASSUME NEW m \in Nat, m <= len, m <= n PROVE \A i \in 1 .. m : b[i] = s[i]
    BY <1>1, <1>7
  <2> QED BY <1>1, <1>5
<1>9. \A i \in len + 1 .. Size : b[i] = d[i]
  BY <1>1, <1>2
<1> QED BY <1>1, <1>6, <1>8, <1>9, Zenon DEF b

-----------------------------------------------------------------------------
(* Joining what strsep has returned. *)

\* f[i] is the first i of the n sequences of s, one after the other.
Joins(f, s, n) == \A i \in 1 .. n : f[i] = IF i = 1 THEN s[i] ELSE f[i - 1] \o s[i]

LEMMA JoinsExists ==
  ASSUME NEW s, NEW n \in Nat
  PROVE  \E f : Joins(f, s, n)
<1> DEFINE S == {k \in Nat : \E f : Joins(f, s, k)}
<1>1. 0 \in S
  BY DEF Joins
<1>2. \A k \in Nat : k \in S => k + 1 \in S
  <2> SUFFICES ASSUME NEW k \in Nat, NEW f, Joins(f, s, k) PROVE \E g : Joins(g, s, k + 1)
    OBVIOUS
  <2> DEFINE g == [i \in 1 .. k + 1 |->
                     IF i <= k THEN f[i] ELSE IF i = 1 THEN s[i] ELSE f[i - 1] \o s[i]]
  <2>1. ASSUME NEW i \in 1 .. k + 1
        PROVE  g[i] = IF i = 1 THEN s[i] ELSE g[i - 1] \o s[i]
    <3>1. CASE i <= k
      <4>1. i \in 1 .. k /\ g[i] = f[i]
        BY <3>1
      <4>2. i # 1 => i - 1 \in 1 .. k + 1 /\ i - 1 <= k
        BY <3>1
      <4>3. i # 1 => g[i - 1] = f[i - 1]
        BY <4>2, Zenon
      <4> QED BY <4>1, <4>3, Zenon DEF Joins
    <3>2. CASE ~(i <= k)
      <4>1. i # 1 => i - 1 \in 1 .. k + 1 /\ i - 1 <= k
        BY <3>2
      <4>2. i # 1 => g[i - 1] = f[i - 1]
        BY <4>1, Zenon
      <4> QED BY <3>2, <4>2, Zenon
    <3> QED BY <3>1, <3>2
  <2>2. Joins(g, s, k + 1)
    BY <2>1, Zenon DEF Joins
  <2> QED BY <2>2
<1>3. Nat \subseteq S
  <2> HIDE DEF S
  <2> QED BY <1>1, <1>2, SetInduction
<1> QED BY <1>3

LEMMA FlattenIs ==
  ASSUME NEW s, Len(s) \in Nat \ {0}
  PROVE  \E f : Joins(f, s, Len(s)) /\ FlattenSeq(s) = f[Len(s)]
<1> DEFINE n == Len(s)
           F(f) == [i \in 1 .. Len(s) |-> IF i = 1 THEN s[i] ELSE f[i - 1] \o s[i]]
           f == CHOOSE f : f = F(f)
<1>1. \E h : h = F(h)
  <2>1. PICK h : Joins(h, s, n)
    BY JoinsExists
  <2> DEFINE g == [i \in 1 .. n |-> h[i]]
  <2>2. ASSUME NEW i \in 1 .. n PROVE h[i] = IF i = 1 THEN s[i] ELSE g[i - 1] \o s[i]
    <3>1. i # 1 => i - 1 \in 1 .. n
      OBVIOUS
    <3>2. i # 1 => g[i - 1] = h[i - 1]
      BY <3>1, Zenon
    <3> QED BY <2>1, <3>2, Zenon DEF Joins
  <2>3. g = F(g)
    BY <2>2, Zenon
  <2> QED BY <2>3, Zenon
<1>2. f = F(f)
  BY <1>1, Zenon
<1>3. Joins(f, s, n)
  <2>1. ASSUME NEW i \in 1 .. n PROVE f[i] = IF i = 1 THEN s[i] ELSE f[i - 1] \o s[i]
    BY <1>2, Zenon
  <2> HIDE DEF f
  <2> QED BY <2>1, Zenon DEF Joins
<1>4. FlattenSeq(s) = f[n]
  <2>1. n # 0
    OBVIOUS
  <2> QED BY <2>1, Zenon DEF FlattenSeq
<1> QED BY <1>3, <1>4, Zenon

Agree(s, t, n) == \A i \in 1 .. n : s[i] = t[i]

LEMMA JoinsUnique ==
  ASSUME NEW s, NEW t, NEW n \in Nat, Agree(s, t, n),
         NEW f, Joins(f, s, n), NEW g, Joins(g, t, n)
  PROVE  Agree(f, g, n)
<1> DEFINE S == {k \in Nat : k \in 1 .. n => f[k] = g[k]}
<1>1. 0 \in S
  OBVIOUS
<1>2. \A k \in Nat : k \in S => k + 1 \in S
  <2> SUFFICES ASSUME NEW k \in Nat, k + 1 \in 1 .. n, k \in 1 .. n => f[k] = g[k]
               PROVE  f[k + 1] = g[k + 1]
    OBVIOUS
  <2>0. \A i \in 1 .. n : s[i] = t[i]
    BY Zenon DEF Agree
  <2>1. /\ f[k + 1] = IF k + 1 = 1 THEN s[k + 1] ELSE f[(k + 1) - 1] \o s[k + 1]
        /\ g[k + 1] = IF k + 1 = 1 THEN t[k + 1] ELSE g[(k + 1) - 1] \o t[k + 1]
    BY Zenon DEF Joins
  <2>2. s[k + 1] = t[k + 1] /\ (k + 1) - 1 = k /\ (k + 1 # 1 => k \in 1 .. n)
    BY <2>0
  <2> QED BY <2>1, <2>2
<1>3. Nat \subseteq S
  <2> HIDE DEF S
  <2> QED BY <1>1, <1>2, SetInduction
<1> QED BY <1>3 DEF Agree

LEMMA FlattenEmpty == FlattenSeq(<<>>) = <<>>
BY DEF FlattenSeq

\* One part more.
LEMMA FlattenAppend ==
  ASSUME NEW S, NEW s \in Seq(Seq(S)), NEW x \in Seq(S), FlattenSeq(s) \in Seq(S)
  PROVE  /\ FlattenSeq(Append(s, x)) = FlattenSeq(s) \o x
         /\ FlattenSeq(Append(s, x)) \in Seq(S)
<1> DEFINE t == Append(s, x)
           n == Len(s)
<1>1. /\ n \in Nat /\ Len(t) = n + 1 /\ Len(t) \in Nat \ {0} /\ t[n + 1] = x
      /\ \A i \in 1 .. n : t[i] = s[i]
  OBVIOUS
<1> HIDE DEF t
<1>2. PICK g : Joins(g, t, Len(t)) /\ FlattenSeq(t) = g[Len(t)]
  BY <1>1, FlattenIs
<1>3. g[n + 1] = IF n + 1 = 1 THEN t[n + 1] ELSE g[(n + 1) - 1] \o t[n + 1]
  <2>1. n + 1 \in 1 .. Len(t)
    BY <1>1
  <2> QED BY <1>2, <2>1, Zenon DEF Joins
<1>4. CASE n = 0
  <2>1. s = <<>>
    BY <1>4
  <2>2. FlattenSeq(s) = <<>>
    BY <2>1, FlattenEmpty
  <2>3. FlattenSeq(t) = x
    BY <1>1, <1>2, <1>3, <1>4
  <2>4. <<>> \o x = x
    OBVIOUS
  <2> QED BY <2>2, <2>3, <2>4 DEF t
<1>5. CASE n # 0
  <2>1. n \in Nat \ {0} /\ n + 1 # 1 /\ (n + 1) - 1 = n
    BY <1>1, <1>5
  <2>2. PICK f : Joins(f, s, n) /\ FlattenSeq(s) = f[n]
    BY <2>1, FlattenIs
  <2>3. Joins(g, t, n)
    <3>1. 1 .. n \subseteq 1 .. Len(t)
      BY <1>1
    <3> QED BY <1>2, <3>1, Zenon DEF Joins
  <2>4. f[n] = g[n]
    <3>1. Agree(s, t, n)
      BY <1>1 DEF Agree
    <3>2. n \in Nat /\ Joins(f, s, n) /\ Joins(g, t, n)
      BY <1>1, <2>2, <2>3
    <3> HIDE DEF n
    <3>3. Agree(f, g, n)
      BY <3>1, <3>2, JoinsUnique
    <3>4. n \in 1 .. n
      BY <2>1, SMT DEF n
    <3>5. f[n] = g[n]
      BY <3>3, <3>4, Zenon DEF Agree
    <3> QED BY <3>5 DEF n
  <2>5. FlattenSeq(t) = FlattenSeq(s) \o x
    BY <1>1, <1>2, <1>3, <2>1, <2>2, <2>4
  <2> QED BY <2>5 DEF t
<1> QED BY <1>4, <1>5

-----------------------------------------------------------------------------
(* strsep. *)

\* s is what lies in b from p on, before e.
Between(s, b, p, e) ==
  s \in Seq(Chars) /\ Len(s) = e - p /\ \A i \in 1 .. e - p : s[i] = b[p + i - 1]

LEMMA StringAtBetween ==
  ASSUME NEW b \in Seq(Bytes), NEW p \in 1 .. Len(b), NEW e, Ends(b, p, e)
  PROVE  Between(StringAt(b, p), b, p, e)
BY StringAtIs DEF Between

\* Where the string at p of memory b, which ends at e, is cut at a, it becomes
\* what is before, what was there, and what is behind.
Cut(b, p, a, c) ==
  /\ StringAt(c, p) \in Seq(Chars) /\ b[a] \in Chars
  /\ Append(StringAt(c, p), b[a]) \in Seq(Chars)
  /\ a + 1 \in 1 .. Size /\ StringAt(c, a + 1) \in Seq(Chars)
  /\ StringAt(b, p) = Append(StringAt(c, p), b[a]) \o StringAt(c, a + 1)
  /\ c \in [1 .. Size -> Bytes] /\ \E i \in a + 1 .. Size : c[i] = NUL

LEMMA CutRebuilds ==
  ASSUME NEW b \in [1 .. Size -> Bytes], NEW p \in 1 .. Size, NEW e, Ends(b, p, e),
         NEW a \in p .. e - 1, NEW c, c = [b EXCEPT ![a] = NUL]
  PROVE  Cut(b, p, a, c)
<1>1. /\ Size \in Nat /\ b \in Seq(Bytes) /\ Len(b) = Size /\ p \in 1 .. Len(b) /\ p \in Nat
      /\ e \in p .. Size /\ e \in Nat /\ b[e] = NUL /\ \A i \in p .. e - 1 : b[i] # NUL
  BY SizeIsNatural DEF Ends
<1>2. a \in p .. e - 1 /\ a \in Nat /\ a \in 1 .. Size /\ a + 1 \in 1 .. Size /\ a + 1 <= e
  BY <1>1
<1>3. /\ c \in [1 .. Size -> Bytes] /\ c[a] = NUL /\ \A i \in 1 .. Size : i # a => c[i] = b[i]
  BY <1>2 DEF Bytes
<1>4. c \in Seq(Bytes) /\ Len(c) = Size
  BY <1>1, <1>3
<1>5. Ends(c, p, a)
  BY <1>1, <1>2, <1>3, <1>4 DEF Ends
<1>6. Ends(c, a + 1, e)
  BY <1>1, <1>2, <1>3, <1>4 DEF Ends
<1> DEFINE w == StringAt(b, p)
           x == StringAt(c, p)
           y == StringAt(c, a + 1)
<1>7. w \in Seq(Chars) /\ Len(w) = e - p /\ \A i \in 1 .. e - p : w[i] = b[p + i - 1]
  BY <1>1, StringAtIs, ZenonT(30)
<1>8. x \in Seq(Chars) /\ Len(x) = a - p /\ \A i \in 1 .. a - p : x[i] = c[p + i - 1]
  <2>1. p \in 1 .. Len(c)
    BY <1>4
  <2>2. Between(x, c, p, a)
    BY <1>4, <1>5, <2>1, StringAtBetween, Zenon
  <2> HIDE DEF x
  <2> QED BY <2>2, Zenon DEF Between
<1>9. y \in Seq(Chars) /\ Len(y) = e - (a + 1) /\ \A i \in 1 .. e - (a + 1) : y[i] = c[(a + 1) + i - 1]
  <2>1. a + 1 \in 1 .. Len(c)
    BY <1>2, <1>4
  <2>2. Between(y, c, a + 1, e)
    BY <1>4, <1>6, <2>1, StringAtBetween, Zenon
  <2> HIDE DEF y
  <2> QED BY <2>2, Zenon DEF Between
<1>10. b[a] \in Chars
  <2>1. b[a] \in Bytes /\ b[a] # NUL
    BY <1>1, <1>2
  <2> QED BY <2>1, BytesAreNumbers
<1> HIDE DEF w, x, y
<1> DEFINE u == Append(x, b[a])
           z == u \o y
<1>11. /\ u \in Seq(Chars) /\ Len(u) = a - p + 1
       /\ u[a - p + 1] = b[a]
       /\ \A i \in 1 .. a - p : u[i] = x[i]
  BY <1>1, <1>2, <1>8, <1>10
<1> HIDE DEF u
<1>12. z \in Seq(Chars) /\ Len(z) = e - p
  <2>1. u \in Seq(Chars) /\ y \in Seq(Chars)
    BY <1>9, <1>11
  <2>2. z \in Seq(Chars) /\ Len(z) = Len(u) + Len(y)
    BY <2>1
  <2>3. Len(u) = a - p + 1 /\ Len(y) = e - (a + 1) /\ a \in Nat /\ e \in Nat /\ p \in Nat
    BY <1>1, <1>2, <1>9, <1>11
  <2> HIDE DEF z
  <2> QED BY <2>2, <2>3
<1>13. ASSUME NEW i \in 1 .. e - p PROVE z[i] = w[i]
  <2>1. w[i] = b[p + i - 1] /\ p + i - 1 \in 1 .. Size
    BY <1>1, <1>7
  <2>2. CASE i <= a - p
    <3>1. i \in 1 .. a - p /\ p + i - 1 # a
      BY <1>1, <1>2, <2>2
    <3>2. z[i] = u[i]
      BY <1>1, <1>2, <1>9, <1>11, <2>2
    <3> QED BY <1>3, <1>8, <1>11, <2>1, <3>1, <3>2
  <2>3. CASE i = a - p + 1
    <3>1. z[i] = u[i] /\ p + i - 1 = a
      BY <1>1, <1>2, <1>9, <1>11, <2>3
    <3> QED BY <1>11, <2>1, <2>3, <3>1
  <2>4. CASE i > a - p + 1
    <3> DEFINE j == i - (a - p + 1)
    <3>1. j \in 1 .. e - (a + 1) /\ (a + 1) + j - 1 = p + i - 1 /\ p + i - 1 # a
      BY <1>1, <1>2, <2>4
    <3>2. z[i] = y[j]
      BY <1>1, <1>2, <1>9, <1>11, <2>4
    <3> HIDE DEF j
    <3> QED BY <1>3, <1>9, <2>1, <3>1, <3>2
  <2>5. i \in Int /\ a - p \in Int
    BY <1>1, <1>2
  <2>6. i <= a - p \/ i = a - p + 1 \/ i > a - p + 1
    BY <2>5
  <2> QED BY <2>2, <2>3, <2>4, <2>6
<1>14. w = z
  <2> HIDE DEF z
  <2> QED BY <1>7, <1>12, <1>13, SeqEqual
<1>15. \E i \in a + 1 .. Size : c[i] = NUL
  <2>1. e \in a + 1 .. Size /\ c[e] = NUL
    BY <1>1, <1>2, <1>3
  <2> QED BY <2>1
<1> QED BY <1>2, <1>3, <1>8, <1>9, <1>10, <1>11, <1>14, <1>15, Zenon DEF w, x, y, u, Cut

-----------------------------------------------------------------------------
(* The invariant. *)

\* What was answered is what the function gives for what it was asked.
Answered ==
  /\ call.f = "strcmp" => \E s, t \in Buffers : call.in = <<s, t>> /\ call.out = strcmp(s, t)
  /\ call.f = "strncmp" => \E s, t \in Buffers, n \in 0 .. Size :
       call.in = <<s, t, n>> /\ call.out = strncmp(s, t, n)
  /\ call.f = "strpbrk" => \E s, t \in Buffers : call.in = <<s, t>> /\ call.out = strpbrk(s, t)
  /\ call.f = "strcpy" => \E d, s \in Buffers : call.in = <<d, s>> /\ call.out = strcpy(d, s)
  /\ call.f = "strncpy" => \E d, s \in Buffers, n \in 0 .. Size :
       call.in = <<d, s, n>> /\ call.out = strncpy(d, s, n)
  /\ call.f = "atoi" => \E v \in Values, tail \in Buffers :
       call.in = <<v, tail>> /\ call.out = atoi(Printed(v, 10) \o tail)
  /\ call.f = "atoi_x" => \E v \in Values, tail \in Buffers :
       call.in = <<v, tail>> /\ call.out = atoi_x(Printed(v, 16) \o tail)
  /\ call.f = "itoa_x" => \E v \in Values, w \in Widths :
       call.in = <<v, w>> /\ call.out = itoa_x(v, w)

\* strsep's place is in the string, before its end, and strtok has none then.
StringPlaces ==
  /\ parts \in Seq(Seq(Chars)) /\ FlattenSeq(parts) \in Seq(Chars)
  /\ stringp # NULL =>
       /\ string \in [1 .. Size -> Bytes] /\ stringp \in 1 .. Size
       /\ \E i \in stringp .. Size : string[i] = NUL
       /\ strtok_s = NULL

StringsInv == Answered /\ StringPlaces /\ TokensRebuild

\* A function that was asked leaves the rest alone.
LEMMA AnswersKeep ==
  ASSUME StringsInv, NEW f, NEW in, NEW res, Answers(f, in, res), Answered'
  PROVE  StringsInv'
BY DEF StringsInv, Answers, StringPlaces, TokensRebuild

LEMMA CompareAnswers == StringsInv /\ Compare => StringsInv'
<1> SUFFICES ASSUME StringsInv, Compare PROVE StringsInv'
  OBVIOUS
<1>1. PICK s \in Buffers, t \in Buffers :
        \/ Answers("strcmp", <<s, t>>, strcmp(s, t))
        \/ \E n \in 0 .. Size : Answers("strncmp", <<s, t, n>>, strncmp(s, t, n))
        \/ Answers("strpbrk", <<s, t>>, strpbrk(s, t))
  BY Zenon DEF Compare
<1>2. CASE Answers("strcmp", <<s, t>>, strcmp(s, t))
  <2>1. Answered'
    BY <1>2 DEF Answers, Answered
  <2> QED BY <1>2, <2>1, AnswersKeep, Zenon
<1>3. CASE \E n \in 0 .. Size : Answers("strncmp", <<s, t, n>>, strncmp(s, t, n))
  <2>1. PICK n \in 0 .. Size : Answers("strncmp", <<s, t, n>>, strncmp(s, t, n))
    BY <1>3
  <2>2. Answered'
    BY <2>1 DEF Answers, Answered
  <2> QED BY <2>1, <2>2, AnswersKeep, Zenon
<1>4. CASE Answers("strpbrk", <<s, t>>, strpbrk(s, t))
  <2>1. Answered'
    BY <1>4 DEF Answers, Answered
  <2> QED BY <1>4, <2>1, AnswersKeep, Zenon
<1> QED BY <1>1, <1>2, <1>3, <1>4

LEMMA CopyAnswers == StringsInv /\ Copy => StringsInv'
<1> SUFFICES ASSUME StringsInv, Copy PROVE StringsInv'
  OBVIOUS
<1>1. PICK d \in Buffers, s \in Buffers :
        \/ Answers("strcpy", <<d, s>>, strcpy(d, s))
        \/ \E n \in 0 .. Size : \/ Answers("strncpy", <<d, s, n>>, strncpy(d, s, n))
                                \/ Answers("memcpy", <<d, s, n>>, memcpy(d, s, n))
  BY Zenon DEF Copy
<1>2. CASE Answers("strcpy", <<d, s>>, strcpy(d, s))
  <2>1. Answered'
    BY <1>2 DEF Answers, Answered
  <2> QED BY <1>2, <2>1, AnswersKeep, Zenon
<1>3. ASSUME NEW n \in 0 .. Size, Answers("strncpy", <<d, s, n>>, strncpy(d, s, n))
      PROVE  StringsInv'
  <2>1. Answered'
    BY <1>3 DEF Answers, Answered
  <2> QED BY <1>3, <2>1, AnswersKeep, Zenon
<1>4. ASSUME NEW n \in 0 .. Size, Answers("memcpy", <<d, s, n>>, memcpy(d, s, n))
      PROVE  StringsInv'
  <2>1. Answered'
    BY <1>4 DEF Answers, Answered
  <2> QED BY <1>4, <2>1, AnswersKeep, Zenon
<1> QED BY <1>1, <1>2, <1>3, <1>4, Zenon

LEMMA FillAnswers == StringsInv /\ Fill => StringsInv'
<1> SUFFICES ASSUME StringsInv, Fill PROVE StringsInv'
  OBVIOUS
<1>1. PICK d \in Buffers, c \in Chars, n \in 0 .. Size : Answers("memset", <<d, c, n>>, memset(d, c, n))
  BY Zenon DEF Fill
<1>2. Answered'
  BY <1>1 DEF Answers, Answered
<1> QED BY <1>1, <1>2, AnswersKeep, Zenon

LEMMA ConvertAnswers == StringsInv /\ Convert => StringsInv'
<1> SUFFICES ASSUME StringsInv, Convert PROVE StringsInv'
  OBVIOUS
<1>1. PICK v \in Values :
        \/ \E tail \in Buffers :
             \/ Answers("atoi", <<v, tail>>, atoi(Printed(v, 10) \o tail))
             \/ Answers("atoi_x", <<v, tail>>, atoi_x(Printed(v, 16) \o tail))
        \/ \E w \in Widths : Answers("itoa_x", <<v, w>>, itoa_x(v, w))
  BY Zenon DEF Convert
<1>2. ASSUME NEW tail \in Buffers, Answers("atoi", <<v, tail>>, atoi(Printed(v, 10) \o tail))
      PROVE  StringsInv'
  <2>1. Answered'
    BY <1>2 DEF Answers, Answered
  <2> QED BY <1>2, <2>1, AnswersKeep, Zenon
<1>3. ASSUME NEW tail \in Buffers, Answers("atoi_x", <<v, tail>>, atoi_x(Printed(v, 16) \o tail))
      PROVE  StringsInv'
  <2>1. Answered'
    BY <1>3 DEF Answers, Answered
  <2> QED BY <1>3, <2>1, AnswersKeep, Zenon
<1>4. ASSUME NEW w \in Widths, Answers("itoa_x", <<v, w>>, itoa_x(v, w))
      PROVE  StringsInv'
  <2>1. Answered'
    BY <1>4 DEF Answers, Answered
  <2> QED BY <1>4, <2>1, AnswersKeep, Zenon
<1> QED BY <1>1, <1>2, <1>3, <1>4, Zenon

LEMMA BeginStrsepKeeps == StringsInv /\ BeginStrsep => StringsInv'
<1> SUFFICES ASSUME StringsInv, BeginStrsep PROVE StringsInv'
  OBVIOUS
<1>1. PICK b \in Buffers : string' = b /\ given' = StringAt(b, 1)
  BY DEF BeginStrsep
<1>2. /\ stringp' = 1 /\ parts' = <<>> /\ call' = call /\ strtok_s' = NULL /\ parts = <<>>
  BY DEF BeginStrsep, Fresh
<1>3. StringAt(b, 1) \in Seq(Chars)
  BY StringHeld DEF Holds, Str
<1>4. TokensRebuild'
  <2>1. FlattenSeq(parts') = <<>>
    BY <1>2, FlattenEmpty
  <2>2. stringp' # NULL /\ StringAt(string', stringp') = StringAt(b, 1)
    BY <1>1, <1>2 DEF NULL
  <2>3. <<>> \o StringAt(b, 1) = StringAt(b, 1)
    BY <1>3
  <2> QED BY <1>1, <2>1, <2>2, <2>3, Zenon DEF TokensRebuild
<1>5. Answered'
  BY <1>2, Zenon DEF StringsInv, Answered
<1>6. StringPlaces'
  <2>1. b \in [1 .. Size -> Bytes] /\ 1 \in 1 .. Size /\ \E i \in 1 .. Size : b[i] = NUL
    BY SizeIsNatural DEF Buffers, Bytes
  <2>2. parts' \in Seq(Seq(Chars)) /\ FlattenSeq(parts') \in Seq(Chars)
    BY <1>2 DEF StringsInv, StringPlaces
  <2> QED BY <1>1, <1>2, <2>1, <2>2, Zenon DEF StringPlaces
<1> QED BY <1>4, <1>5, <1>6, Zenon DEF StringsInv

LEMMA JoinedParts ==
  ASSUME NEW s \in Seq(Chars), NEW t \in Seq(Chars), NEW u \in Seq(Chars)
  PROVE  s \o (t \o u) = (s \o t) \o u
BY ConcatAssociative

\* What strsep does to the string is a cut.
LEMMA StrsepRebuilds ==
  ASSUME StringPlaces, TokensRebuild, Strsep
  PROVE  StringPlaces' /\ TokensRebuild'
<1>1. PICK delim \in Buffers, first \in BOOLEAN :
        LET length == Len(StringAt(string, stringp))
            found == {i \in stringp .. stringp + length - 1 :
                        IF i = stringp THEN first ELSE contain(string[i], delim)}
            at == Min(found)
        IN  IF found = {}
            THEN /\ stringp' = NULL /\ UNCHANGED string
                 /\ parts' = Append(parts, StringAt(string, stringp))
            ELSE /\ string' = [string EXCEPT ![at] = NUL]
                 /\ stringp' = After(at)
                 /\ parts' = Append(parts, Append(StringAt(string', stringp), string[at]))
  BY Zenon DEF Strsep
<1>2. stringp # NULL /\ given' = given /\ strtok_s' = strtok_s
  BY DEF Strsep
<1> DEFINE w == StringAt(string, stringp)
           length == Len(w)
           found == {i \in stringp .. stringp + length - 1 :
                       IF i = stringp THEN first ELSE contain(string[i], delim)}
           at == Min(found)
<1>3. /\ string \in [1 .. Size -> Bytes] /\ stringp \in 1 .. Size /\ strtok_s = NULL
      /\ \E i \in stringp .. Size : string[i] = NUL
      /\ parts \in Seq(Seq(Chars)) /\ FlattenSeq(parts) \in Seq(Chars)
  BY <1>2 DEF StringPlaces
<1>4. string \in Seq(Bytes) /\ Len(string) = Size /\ stringp \in 1 .. Len(string) /\ Size \in Nat
  BY <1>3, SizeIsNatural
<1>5. PICK e : Ends(string, stringp, e)
  BY <1>3, <1>4, EndExists
<1>6. w \in Seq(Chars) /\ length = e - stringp /\ e \in Nat /\ e \in stringp .. Size
  <2>1. Between(w, string, stringp, e)
    BY <1>4, <1>5, StringAtBetween, Zenon
  <2>2. w \in Seq(Chars) /\ Len(w) = e - stringp
    BY <2>1, Zenon DEF Between
  <2> HIDE DEF w
  <2>3. e \in stringp .. Size
    BY <1>4, <1>5, Zenon DEF Ends
  <2> QED BY <1>3, <2>2, <2>3
<1>7. given = FlattenSeq(parts) \o w
  BY <1>2, Zenon DEF TokensRebuild
<1> HIDE DEF w
<1>8. CASE found = {}
  <2>1. stringp' = NULL /\ parts' = Append(parts, w)
    BY <1>1, <1>8, Zenon DEF w
  <2>2. /\ FlattenSeq(parts') = FlattenSeq(parts) \o w /\ FlattenSeq(parts') \in Seq(Chars)
        /\ parts' \in Seq(Seq(Chars))
    <3>1. Append(parts, w) \in Seq(Seq(Chars))
      BY <1>3, <1>6
    <3> QED BY <1>3, <1>6, <2>1, <3>1, FlattenAppend
  <2>3. (FlattenSeq(parts) \o w) \o <<>> = FlattenSeq(parts) \o w
    BY <1>3, <1>6
  <2>4. given' = FlattenSeq(parts') \o <<>>
    BY <1>2, <1>7, <2>2, <2>3
  <2> QED BY <2>1, <2>2, <2>4, Zenon DEF StringPlaces, TokensRebuild
<1>9. CASE found # {}
  <2>1. at \in found
    <3>1. found \subseteq Nat
      BY <1>3, <1>6
    <3> HIDE DEF found
    <3> QED BY <1>9, <3>1, MinIs, Zenon
  <2>2. /\ string' = [string EXCEPT ![at] = NUL] /\ stringp' = After(at)
        /\ parts' = Append(parts, Append(StringAt(string', stringp), string[at]))
    BY <1>1, <1>9, Zenon DEF w
  <2> HIDE DEF at
  <2>3. at \in stringp .. e - 1 /\ at \in Nat
    <3>1. at \in stringp .. stringp + length - 1
      BY <2>1
    <3> HIDE DEF length
    <3> QED BY <1>3, <1>6, <3>1
  <2> HIDE DEF found
  <2> DEFINE x == Append(StringAt(string', stringp), string[at])
             y == StringAt(string', at + 1)
  <2>4. /\ x \in Seq(Chars) /\ at + 1 \in 1 .. Size /\ y \in Seq(Chars) /\ w = x \o y
        /\ string' \in [1 .. Size -> Bytes] /\ \E i \in at + 1 .. Size : string'[i] = NUL
    <3>1. Cut(string, stringp, at, string')
      BY <1>3, <1>5, <2>2, <2>3, CutRebuilds, Zenon
    <3> QED BY <3>1, Zenon DEF Cut, w
  <2>5. stringp' = at + 1 /\ stringp' # NULL
    BY <2>2, <2>3 DEF After, NULL
  <2>6. parts' = Append(parts, x)
    BY <2>2, Zenon
  <2>7. y = StringAt(string', stringp')
    BY <2>5, Zenon
  <2> HIDE DEF x, y
  <2>8. /\ FlattenSeq(parts') = FlattenSeq(parts) \o x /\ FlattenSeq(parts') \in Seq(Chars)
        /\ parts' \in Seq(Seq(Chars))
    <3>1. Append(parts, x) \in Seq(Seq(Chars))
      BY <1>3, <2>4
    <3> QED BY <1>3, <2>4, <2>6, <3>1, FlattenAppend
  <2>9. FlattenSeq(parts) \o (x \o y) = (FlattenSeq(parts) \o x) \o y
    BY <1>3, <2>4, JoinedParts, Zenon
  <2>10. given' = FlattenSeq(parts') \o StringAt(string', stringp')
    BY <1>2, <1>7, <2>4, <2>7, <2>8, <2>9, Zenon
  <2>11. TokensRebuild'
    BY <2>5, <2>10, Zenon DEF TokensRebuild
  <2>12. StringPlaces'
    BY <1>2, <1>3, <2>4, <2>5, <2>8, Zenon DEF StringPlaces
  <2> QED BY <2>11, <2>12
<1> QED BY <1>8, <1>9

LEMMA StringsStep == StringsInv /\ [Next]_vars => StringsInv'
<1> SUFFICES ASSUME StringsInv, [Next]_vars PROVE StringsInv'
  OBVIOUS
<1>1. CASE Compare
  BY <1>1, CompareAnswers
<1>2. CASE Copy
  BY <1>2, CopyAnswers
<1>3. CASE Fill
  BY <1>3, FillAnswers
<1>4. CASE Convert
  BY <1>4, ConvertAnswers
<1>5. CASE BeginStrtok
  <2>1. stringp' = NULL /\ stringp = NULL /\ UNCHANGED <<call, given, parts>>
    BY <1>5 DEF BeginStrtok, Fresh
  <2> QED BY <2>1, ZenonT(30) DEF StringsInv, Answered, StringPlaces, TokensRebuild
<1>6. CASE Strtok
  <2>1. call'.f = "strtok" /\ strtok_s # NULL /\ UNCHANGED <<stringp, given, parts>>
    BY <1>6 DEF Strtok
  <2>2. Answered'
    BY <2>1 DEF Answered
  <2>3. stringp = NULL
    BY <2>1 DEF StringsInv, StringPlaces
  <2> QED BY <2>1, <2>2, <2>3, Zenon DEF StringsInv, StringPlaces, TokensRebuild
<1>7. CASE BeginStrsep
  BY <1>7, BeginStrsepKeeps
<1>8. CASE Strsep
  <2>1. call' = call
    BY <1>8 DEF Strsep
  <2>2. Answered'
    BY <2>1, ZenonT(30) DEF StringsInv, Answered
  <2> QED BY <1>8, <2>2, StrsepRebuilds, Zenon DEF StringsInv
<1>9. CASE Done
  <2>1. /\ call' = [f |-> "none", in |-> <<>>, out |-> 0] /\ stringp' = NULL
        /\ given' = <<>> /\ parts' = <<>>
    BY <1>9 DEF Done
  <2>2. Answered'
    BY <2>1 DEF Answered
  <2>3. FlattenSeq(<<>>) = <<>> /\ <<>> \o <<>> = <<>>
    BY FlattenEmpty
  <2>4. TokensRebuild'
    BY <2>1, <2>3, Zenon DEF TokensRebuild
  <2>5. <<>> \in Seq(Seq(Chars)) /\ <<>> \in Seq(Chars)
    OBVIOUS
  <2>6. StringPlaces'
    BY <2>1, <2>3, <2>5, Zenon DEF StringPlaces
  <2> QED BY <2>2, <2>4, <2>6, Zenon DEF StringsInv
<1>10. CASE UNCHANGED vars
  <2>1. UNCHANGED <<call, string, stringp, strtok_s, given, parts>>
    BY <1>10, Zenon DEF vars
  <2> QED BY <2>1, ZenonT(30) DEF StringsInv, Answered, StringPlaces, TokensRebuild
<1> QED BY <1>1, <1>2, <1>3, <1>4, <1>5, <1>6, <1>7, <1>8, <1>9, <1>10, Zenon DEF Next

LEMMA StringsInit == Init => StringsInv
<1> SUFFICES ASSUME Init PROVE StringsInv
  OBVIOUS
<1>1. call.f = "none" /\ stringp = NULL /\ given = <<>> /\ parts = <<>>
  BY DEF Init
<1>2. Answered
  BY <1>1 DEF Answered
<1>3. FlattenSeq(<<>>) = <<>> /\ <<>> \o <<>> = <<>>
  BY FlattenEmpty
<1>4. <<>> \in Seq(Seq(Chars)) /\ <<>> \in Seq(Chars)
  OBVIOUS
<1> QED BY <1>1, <1>2, <1>3, <1>4, Zenon DEF StringsInv, StringPlaces, TokensRebuild

\* Whatever was asked, the call, the places and the parts fit together.
THEOREM StringsInvariant == StringsSpec => []StringsInv
<1>1. Init => StringsInv
  BY StringsInit
<1>2. StringsInv /\ [Next]_vars => StringsInv'
  BY StringsStep
<1> QED BY <1>1, <1>2, PTL DEF StringsSpec

-----------------------------------------------------------------------------
(* What was answered is right. *)

LEMMA InvCompares == StringsInv => ComparesAndFinds
<1> SUFFICES ASSUME StringsInv PROVE ComparesAndFinds
  OBVIOUS
<1>1. CASE call.f = "strcmp"
  <2>1. PICK a \in Buffers, b \in Buffers : call.in = <<a, b>> /\ call.out = strcmp(a, b)
    BY <1>1 DEF StringsInv, Answered
  <2>2. call.in[1] = a /\ call.in[2] = b
    BY <2>1
  <2>3. Tells(call.out, Str(call.in[1]), Str(call.in[2]))
    BY <2>1, <2>2, StrcmpTells
  <2> QED BY <1>1, <2>3 DEF ComparesAndFinds, Tells
<1>2. CASE call.f = "strncmp"
  <2>1. PICK a \in Buffers, b \in Buffers, n \in 0 .. Size :
          call.in = <<a, b, n>> /\ call.out = strncmp(a, b, n)
    BY <1>2 DEF StringsInv, Answered
  <2>2. call.in[1] = a /\ call.in[2] = b /\ call.in[3] = n
    BY <2>1
  <2>3. n <= Len(Str(a)) + 1 /\ n <= Len(Str(b)) + 1 =>
          Tells(call.out, Beginning(Str(a), n), Beginning(Str(b), n))
    BY <2>1, StrncmpTells
  <2> QED BY <1>2, <2>2, <2>3 DEF ComparesAndFinds, Tells, Beginning
<1>3. CASE call.f = "strpbrk"
  <2>1. PICK a \in Buffers, b \in Buffers : call.in = <<a, b>> /\ call.out = strpbrk(a, b)
    BY <1>3 DEF StringsInv, Answered
  <2>2. call.in[1] = a /\ call.in[2] = b
    BY <2>1
  <2>3. Finds(call.out, Str(call.in[1]), Str(call.in[2]))
    BY <2>1, <2>2, StrpbrkFinds
  <2> QED BY <1>3, <2>3 DEF ComparesAndFinds, Finds
<1>4. CASE call.f \notin {"strcmp", "strncmp", "strpbrk"}
  BY <1>4 DEF ComparesAndFinds
<1> QED BY <1>1, <1>2, <1>3, <1>4

LEMMA InvCopies == StringsInv => CopiesExactly
<1> SUFFICES ASSUME StringsInv PROVE CopiesExactly
  OBVIOUS
<1>1. CASE call.f = "strcpy"
  <2>1. PICK d \in Buffers, s \in Buffers : call.in = <<d, s>> /\ call.out = strcpy(d, s)
    BY <1>1 DEF StringsInv, Answered
  <2>2. call.in[1] = d /\ call.in[2] = s
    BY <2>1
  <2>3. Str(call.out) = Str(s) /\ \A i \in strlen(s) + 2 .. Size : call.out[i] = d[i]
    BY <2>1, StrcpyCopies
  <2>4. strlen(s) + 1 + 1 = strlen(s) + 2
    BY StrlenIs, StringHeld
  <2> QED BY <1>1, <2>2, <2>3, <2>4 DEF CopiesExactly
<1>2. CASE call.f = "strncpy"
  <2>1. PICK d \in Buffers, s \in Buffers, n \in 0 .. Size :
          call.in = <<d, s, n>> /\ call.out = strncpy(d, s, n)
    BY <1>2 DEF StringsInv, Answered
  <2>2. call.in[1] = d /\ call.in[2] = s /\ call.in[3] = n
    BY <2>1
  <2>3. /\ strlen(s) < n => Str(call.out) = Str(s)
        /\ \A i \in 1 .. Min({n, strlen(s)}) : call.out[i] = s[i]
        /\ \A i \in n + 1 .. Size : call.out[i] = d[i]
    BY <2>1, StrncpyCopies
  <2> QED BY <1>2, <2>2, <2>3 DEF CopiesExactly
<1>3. CASE call.f \notin {"strcpy", "strncpy"}
  BY <1>3 DEF CopiesExactly
<1> QED BY <1>1, <1>2, <1>3

\* Whatever lies behind a string in memory: strcmp and strncmp tell the order of
\* two strings, strpbrk finds, strcpy and strncpy copy what they should and no
\* more, and what strsep has returned and what is left make what was given.
THEOREM StringsAnswer == StringsSpec => []StringsBehave
<1>1. StringsInv => StringsBehave
  BY InvCompares, InvCopies DEF StringsBehave, StringsInv
<1> QED BY <1>1, StringsInvariant, PTL

\* What is printed for a number begins with no zero.
LEMMA PrintedBegins ==
  ASSUME NEW b \in {10, 16}, NEW v \in Nat, v # 0
  PROVE  Printed(v, b)[1] # Zero
<1> DEFINE d == DigitsOf(v, b)
           p == Printed(v, b)
<1>1. b \in Nat /\ b > 1 /\ v > 0
  OBVIOUS
<1>2. Prints(d, b, v) /\ Len(d) > 0
  BY <1>1, DigitsMakeNumber
<1>3. d[1] # 0 /\ d \in Seq(0 .. b - 1)
  BY <1>1, <1>2 DEF Prints
<1>4. \A i \in 1 .. Len(d) : d[i] \in 0 .. b - 1 /\ p[i] = Char(d[i], 97)
  BY PrintedIs
<1> HIDE DEF d, p
<1>5. 1 \in 1 .. Len(d) /\ 97 \in Int
  BY <1>2, <1>3
<1>6. d[1] \in 0 .. 15 /\ p[1] = Char(d[1], 97)
  BY <1>4, <1>5, SMTT(30)
<1>7. ASSUME NEW x \in 0 .. 15, x # 0 PROVE Char(x, 97) # Zero
  <2> DEFINE c == Char(x, 97)
  <2>1. c \in Int /\ (x < 10 => c = x + 48) /\ (x >= 10 => c = x - 10 + 97)
    BY <1>5, CharIs, ZenonT(30)
  <2> HIDE DEF c
  <2>2. c # 48
    BY <1>7, <2>1
  <2> QED BY <2>2 DEF c, Zero
<1>8. p[1] # Zero
  BY <1>3, <1>6, <1>7
<1> QED BY <1>8 DEF p

LEMMA InvNumbers == StringsInv => NumbersRoundTrip
<1> SUFFICES ASSUME StringsInv PROVE NumbersRoundTrip
  OBVIOUS
<1>1. \A v \in Values : v \in Nat /\ v <= MaxInt
  BY NumbersAssumption
<1>2. \A b \in Buffers : b \in Seq(Int) /\ Len(b) > 0
  <2> SUFFICES ASSUME NEW b \in Buffers PROVE b \in Seq(Int) /\ Len(b) > 0
    OBVIOUS
  <2>1. b \in Seq(Bytes) /\ Len(b) = Size /\ Bytes \subseteq Int
    BY BufferIs, BytesAreNumbers
  <2>2. b \in Seq(Int)
    <3>0. b \in [1 .. Size -> Bytes]
      BY DEF Buffers, Bytes
    <3>1. b \in [1 .. Size -> Int]
      BY <2>1, <3>0
    <3> QED BY <3>1, SizeIsNatural
  <2> QED BY <2>1, <2>2, SizeIsNatural
<1>3. CASE call.f = "atoi"
  <2>1. PICK v \in Values, tail \in Buffers :
          call.in = <<v, tail>> /\ call.out = atoi(Printed(v, 10) \o tail)
    BY <1>3 DEF StringsInv, Answered
  <2>2. call.in[1] = v /\ call.in[2] = tail
    BY <2>1
  <2>3. tail[1] \notin Numerals => call.out = v
    BY <1>1, <1>2, <2>1, AtoiReads
  <2>4. v # 0 => Printed(v, 10)[1] # Zero
    <3>1. v \in Nat /\ 10 \in {10, 16}
      BY <1>1
    <3> QED BY <3>1, PrintedBegins
  <2> QED BY <1>3, <2>2, <2>3, <2>4 DEF NumbersRoundTrip
<1>4. CASE call.f = "atoi_x"
  <2>1. PICK v \in Values, tail \in Buffers :
          call.in = <<v, tail>> /\ call.out = atoi_x(Printed(v, 16) \o tail)
    BY <1>4 DEF StringsInv, Answered
  <2>2. call.in[1] = v /\ call.in[2] = tail
    BY <2>1
  <2>3. ASSUME tail[1] = NUL, ToSet(Printed(v, 16)) \subseteq Numerals PROVE call.out = v
    <3>1. v \in Nat /\ 16 \in {10, 16}
      BY <1>1
    <3>2. Printed(v, 16) \in Seq(Int)
      BY <3>1, PrintedIs
    <3>3. \A i \in 1 .. Len(Printed(v, 16)) : Printed(v, 16)[i] \in Numerals
      BY <2>3, <3>2 DEF ToSet
    <3> QED BY <1>2, <2>1, <2>3, <3>1, <3>3, AtoiXReads
  <2> QED BY <1>4, <2>2, <2>3 DEF NumbersRoundTrip
<1>5. CASE call.f = "itoa_x"
  <2>1. PICK v \in Values, w \in Widths : call.in = <<v, w>> /\ call.out = itoa_x(v, w)
    BY <1>5 DEF StringsInv, Answered
  <2>2. call.in[1] = v /\ call.in[2] = w
    BY <2>1
  <2>3. v \in Nat /\ v <= MaxInt /\ w \in 1 .. 20
    BY <1>1, NumbersAssumption DEF ArrSize
  <2>4. Writes(call.out, call.in[1], call.in[2])
    BY <2>1, <2>2, <2>3, ItoaWrites
  <2> QED BY <1>5, <2>4, Zenon DEF NumbersRoundTrip, Writes, Digit
<1>6. CASE call.f \notin {"atoi", "atoi_x", "itoa_x"}
  BY <1>6 DEF NumbersRoundTrip
<1> QED BY <1>3, <1>4, <1>5, <1>6

\* The digits that are printed for an int are read as it; itoa_x writes it with
\* as many zeroes as it takes.
THEOREM NumbersAreRead == StringsSpec => []NumbersRoundTrip
BY InvNumbers, StringsInvariant, PTL
=============================================================================
