---------------------------- MODULE ScreenProofs -----------------------------
(***************************************************************************)
(* Proofs about the framebuffer, for every screen, cursor and font and for *)
(* every drawing of the programs: the loops stay on the screen, a          *)
(* rectangle is drawn where it meets the screen, and moving the cursor,    *)
(* even in the middle of a call, damages nothing of the picture.           *)
(***************************************************************************)
EXTENDS Screen, MouseProofs

-----------------------------------------------------------------------------
(* Numbers. *)

LEMMA ScreenSizes ==
  /\ Width \in Nat /\ Height \in Nat /\ Word \in Nat
  /\ CURSOR_WIDTH \in Nat /\ CURSOR_WIDTH >= 1 /\ CURSOR_HEIGHT \in Nat /\ CURSOR_HEIGHT >= 1
  /\ MaxX + CURSOR_WIDTH = Width - 1 /\ MaxY + CURSOR_HEIGHT = Height - 1
  /\ MaxX \in Nat /\ MaxY \in Nat
  /\ Width < Word /\ Height < Word
  /\ StartX \in 0 .. MaxX /\ StartY \in 0 .. MaxY
<1>1. MaxX \in Nat /\ MaxY \in Nat
  BY MaxType
<1>2. Width \in Nat /\ Height \in Nat /\ CURSOR_WIDTH \in Nat \ {0} /\ CURSOR_HEIGHT \in Nat \ {0}
  BY SizeAssumption
<1>3. StartX \in 0 .. MaxX /\ StartY \in 0 .. MaxY
  BY SizeAssumption
<1>4. Word \in Nat /\ Width < Word /\ Height < Word
  BY WordAssumption
<1>5. MaxX = Width - (CURSOR_WIDTH + 1) /\ MaxY = Height - (CURSOR_HEIGHT + 1)
  BY DEF MaxX, MaxY
<1> QED  BY <1>1, <1>2, <1>3, <1>4, <1>5

\* A number below a product of w, divided by w.
LEMMA DivBound ==
  ASSUME NEW n \in Nat, NEW w \in Nat \ {0}, NEW h \in Nat, n < w * h
  PROVE  /\ n \div w \in 0 .. h - 1 /\ n % w \in 0 .. w - 1
<1> DEFINE q == n \div w
<1>1. q \in Nat /\ q * w <= n /\ n % w \in 0 .. w - 1
  OBVIOUS
<1>2. q < h
  <2> SUFFICES ASSUME q >= h PROVE FALSE
    BY <1>1
  <2>1. q * w >= h * w
    <3> HIDE DEF q
    <3> QED  BY <1>1
  <2>2. h * w = w * h
    OBVIOUS
  <2> QED  BY <1>1, <2>1, <2>2
<1> QED  BY <1>1, <1>2

\* The number of row j, column i.
LEMMA RowColumn ==
  ASSUME NEW w \in Nat, NEW h \in Nat, NEW i \in 0 .. w - 1, NEW j \in 0 .. h - 1
  PROVE  /\ j * w + i \in 0 .. w * h - 1
         /\ (j * w + i) % w = i /\ (j * w + i) \div w = j
<1>1. w >= 1 /\ i \in Nat /\ j \in Nat /\ i < w
  OBVIOUS
<1>2. (j + 1) * w <= h * w
  OBVIOUS
<1>3. (j + 1) * w = j * w + w /\ h * w = w * h /\ j * w \in Nat
  OBVIOUS
<1>4. (j * w + i) % w = i /\ (j * w + i) \div w = j
  BY <1>1
<1>5. j * w + i \in 0 .. w * h - 1
  <2> DEFINE a == j * w
             b == w * h
  <2>1. a \in Nat /\ a + w <= b /\ b \in Nat
    BY <1>2, <1>3
  <2> HIDE DEF a, b
  <2>2. a + i \in 0 .. b - 1
    BY <1>1, <2>1
  <2> QED  BY <2>2 DEF a, b
<1> QED  BY <1>4, <1>5

\* The elements of a sequence.
Elems(list) == {list[k] : k \in 1 .. Len(list)}

\* A sequence holds elements of its set.
LEMMA ElementsOf ==
  ASSUME NEW S, NEW list \in Seq(S)
  PROVE  /\ \A k \in DOMAIN list : list[k] \in S
         /\ Len(list) \in Nat /\ DOMAIN list = 1 .. Len(list)
OBVIOUS

-----------------------------------------------------------------------------
(* Rectangles. *)

\* What is in a rectangle.
Box(x, y, w, h) == (x .. x + w - 1) \X (y .. y + h - 1)

\* RowByRow takes what is in the rectangle and nothing else.
LEMMA RowByRowPixels ==
  ASSUME NEW x \in Nat, NEW y \in Nat, NEW w \in Nat, NEW h \in Nat
  PROVE  /\ RowByRow(x, y, w, h) \in Seq(Box(x, y, w, h))
         /\ Len(RowByRow(x, y, w, h)) = w * h
         /\ Elems(RowByRow(x, y, w, h)) = Box(x, y, w, h)
<1> DEFINE n == w * h
           S == (x .. x + w - 1) \X (y .. y + h - 1)
           f == [k \in 1 .. n |-> <<x + ((k - 1) % w), y + ((k - 1) \div w)>>]
<1>1. n \in Nat
  OBVIOUS
<1>2. ASSUME NEW k \in 1 .. n
      PROVE  <<x + ((k - 1) % w), y + ((k - 1) \div w)>> \in S
  <2>1. k - 1 \in Nat /\ k - 1 < n
    <3> HIDE DEF n
    <3> QED  BY <1>1
  <2>2. w # 0
    BY <2>1
  <2>3. (k - 1) \div w \in 0 .. h - 1 /\ (k - 1) % w \in 0 .. w - 1
    BY <2>1, <2>2, DivBound
  <2> DEFINE a == (k - 1) \div w
             b == (k - 1) % w
  <2>4. a \in 0 .. h - 1 /\ b \in 0 .. w - 1
    BY <2>3
  <2> HIDE DEF a, b
  <2>5. <<x + b, y + a>> \in S
    BY <2>4
  <2> QED  BY <2>5 DEF a, b
<1>3. f \in Seq(S) /\ DOMAIN f = 1 .. n /\ Len(f) = n
  <2> HIDE DEF n, S
  <2> QED  BY <1>1, <1>2
<1>4. \A p \in S : \E k \in 1 .. n : f[k] = p
  <2> SUFFICES ASSUME NEW i \in 0 .. w - 1, NEW j \in 0 .. h - 1
               PROVE  \E k \in 1 .. n : f[k] = <<x + i, y + j>>
    <3> TAKE p \in S
    <3>1. p = <<p[1], p[2]>> /\ p[1] - x \in 0 .. w - 1 /\ p[2] - y \in 0 .. h - 1
          /\ x + (p[1] - x) = p[1] /\ y + (p[2] - y) = p[2]
      OBVIOUS
    <3>2. \E k \in 1 .. n : f[k] = <<x + (p[1] - x), y + (p[2] - y)>>
      <4> HIDE DEF n, f, S
      <4> QED  BY <3>1
    <3> HIDE DEF n, f, S
    <3> QED  BY <3>1, <3>2
  <2> DEFINE m == j * w + i
  <2>1. m \in 0 .. n - 1 /\ m % w = i /\ m \div w = j
    BY RowColumn
  <2> HIDE DEF m
  <2>2. m + 1 \in 1 .. n /\ (m + 1) - 1 = m
    <3> HIDE DEF n
    <3> QED  BY <1>1, <2>1
  <2>3. f[m + 1] = <<x + (m % w), y + (m \div w)>>
    <3> HIDE DEF n
    <3> QED  BY <2>2
  <2> HIDE DEF n, f
  <2> QED  BY <2>1, <2>2, <2>3
<1>5. RowByRow(x, y, w, h) = f
  BY DEF RowByRow
<1> HIDE DEF f
<1>6. Box(x, y, w, h) = S
  BY DEF Box
<1> HIDE DEF S, f
<1>7. \A k \in DOMAIN f : f[k] \in S
  BY <1>3, ElementsOf
<1>8. Elems(f) = S
  <2> HIDE DEF n
  <2> QED  BY <1>3, <1>4, <1>7 DEF Elems
<1> QED  BY <1>3, <1>5, <1>6, <1>8

\* What is left of a side after the cut, and of a loop over it.
Side(x, width, max) == IF x + width >= max THEN max - x ELSE width

\* A loop over a side that is cut ends at the edge at the latest; and where the
\* sums do not wrap, it takes all of the side that is on the screen.
LEMMA CutTurns ==
  ASSUME NEW x \in Nat, NEW width \in Nat, NEW max \in Nat, x < max, max < Word
  PROVE  /\ Turns(x, Cut(x, width, max)) \in Nat
         /\ x + Turns(x, Cut(x, width, max)) <= max
         /\ x + width < Word => Turns(x, Cut(x, width, max)) = Side(x, width, max)
<1> DEFINE c == Cut(x, width, max)
<1>1. Word \in Nat /\ Word >= 1
  BY ScreenSizes
<1>2. \A m \in Nat : m % Word \in 0 .. Word - 1 /\ (m < Word => m % Word = m)
  BY <1>1
<1>3. Sum(x, width) \in Nat /\ (x + width < Word => Sum(x, width) = x + width)
  BY <1>2 DEF Sum
<1>4. CASE Sum(x, width) >= max
  <2>1. c = max - x
    BY <1>4 DEF Cut
  <2>2. Sum(x, c) = max
    BY <1>2, <2>1 DEF Sum
  <2>3. Turns(x, c) = max - x
    BY <2>2 DEF Turns
  <2> HIDE DEF c
  <2>4. x + width < Word => Side(x, width, max) = max - x
    BY <1>3, <1>4 DEF Side
  <2>5. Turns(x, c) \in Nat /\ x + Turns(x, c) <= max
    BY <2>3
  <2> QED  BY <2>3, <2>4, <2>5 DEF c
<1>5. CASE ~(Sum(x, width) >= max)
  <2>1. c = width
    BY <1>5 DEF Cut
  <2>2. Turns(x, c) = IF Sum(x, width) > x THEN Sum(x, width) - x ELSE 0
    BY <2>1 DEF Turns
  <2> HIDE DEF c
  <2>3. Turns(x, c) \in Nat /\ x + Turns(x, c) <= max
    BY <1>3, <1>5, <2>2
  <2>4. x + width < Word => Turns(x, c) = Side(x, width, max)
    BY <1>3, <1>5, <2>2 DEF Side
  <2> QED  BY <2>3, <2>4 DEF c
<1> QED  BY <1>4, <1>5

\* The pixels where a rectangle meets the screen.
Meeting(x, y, width, height) ==
  {p \in Pixels : p[1] \in x .. x + width - 1 /\ p[2] \in y .. y + height - 1}

\* kdraw_rectangle stays on the screen; and where the sums do not wrap, it draws
\* all of the rectangle that is on it.
LEMMA KdrawPixels ==
  ASSUME NEW x \in Nat, NEW y \in Nat, NEW width \in Nat, NEW height \in Nat
  PROVE  /\ kdraw_rectangle(x, y, width, height) \in Seq(Pixels)
         /\ x + width < Word /\ y + height < Word =>
              Elems(kdraw_rectangle(x, y, width, height)) = Meeting(x, y, width, height)
<1> DEFINE list == kdraw_rectangle(x, y, width, height)
           Meets == Meeting(x, y, width, height)
<1>0. /\ Width \in Nat /\ Height \in Nat /\ Word \in Nat /\ Width < Word /\ Height < Word
  BY ScreenSizes
<1>1. CASE x >= Width \/ y >= Height
  <2>1. list = <<>>
    BY <1>1 DEF kdraw_rectangle
  <2>2. Meets = {}
    BY <1>0, <1>1 DEF Pixels, Meeting
  <2>3. <<>> \in Seq(Pixels) /\ Elems(<<>>) = {}
    BY DEF Elems
  <2> HIDE DEF list, Meets
  <2>4. list \in Seq(Pixels) /\ Elems(list) = Meets
    BY <2>1, <2>2, <2>3
  <2> QED  BY <2>4 DEF list, Meets
<1>2. CASE x < Width /\ y < Height
  <2> DEFINE w == Turns(x, Cut(x, width, Width))
             h == Turns(y, Cut(y, height, Height))
             S == Box(x, y, w, h)
  <2>1. list = RowByRow(x, y, w, h)
    BY <1>0, <1>2 DEF kdraw_rectangle
  <2>2. /\ w \in Nat /\ x + w <= Width
        /\ x + width < Word => w = Side(x, width, Width)
    BY <1>0, <1>2, CutTurns
  <2>3. /\ h \in Nat /\ y + h <= Height
        /\ y + height < Word => h = Side(y, height, Height)
    BY <1>0, <1>2, CutTurns
  <2> HIDE DEF w, h, list
  <2>4. list \in Seq(S) /\ Elems(list) = S
    BY <2>1, <2>2, <2>3, RowByRowPixels
  <2>5. S \subseteq Pixels
    BY <1>0, <2>2, <2>3 DEF Pixels, Box
  <2>6. x + width < Word /\ y + height < Word => S = Meets
    <3> SUFFICES ASSUME x + width < Word, y + height < Word PROVE S = Meets
      OBVIOUS
    <3>1. \A a \in 0 .. Width - 1 : a \in x .. x + w - 1 <=> a \in x .. x + width - 1
      BY <1>0, <1>2, <2>2 DEF Side
    <3>2. \A b \in 0 .. Height - 1 : b \in y .. y + h - 1 <=> b \in y .. y + height - 1
      BY <1>0, <1>2, <2>3 DEF Side
    <3>3. \A p \in Pixels : p \in S <=> p[1] \in x .. x + w - 1 /\ p[2] \in y .. y + h - 1
      BY DEF Pixels, Box
    <3>4. \A p \in Pixels : p[1] \in 0 .. Width - 1 /\ p[2] \in 0 .. Height - 1
      BY DEF Pixels
    <3>5. \A p \in Pixels : p \in S <=> p \in Meets
      BY <3>1, <3>2, <3>3, <3>4 DEF Meeting
    <3>6. Meets \subseteq Pixels
      BY DEF Meeting
    <3> HIDE DEF S, Meets
    <3> QED  BY <2>5, <3>5, <3>6
  <2>8. list \in Seq(Pixels)
    <3> HIDE DEF S
    <3> QED  BY <2>4, <2>5
  <2> HIDE DEF S, Meets
  <2> QED  BY <2>4, <2>6, <2>8 DEF list, Meets
<1>3. x < Width \/ x >= Width
  BY <1>0
<1>4. y < Height \/ y >= Height
  BY <1>0
<1> QED  BY <1>1, <1>2, <1>3, <1>4

\* A pixel that is within the framebuffer's memory is drawn on the screen.
LEMMA DrawPixelPixel ==
  ASSUME NEW x \in Nat, NEW y \in Nat, x + y * Width < Width * Height
  PROVE  draw_pixel(x, y) \in Pixels
<1>1. Width \in Nat /\ Width >= 1 /\ Height \in Nat
  BY ScreenSizes
<1> DEFINE q == x \div Width
<1>2. q \in Nat /\ q * Width <= x /\ x % Width \in 0 .. Width - 1
  BY <1>1
<1>3. y + q \in 0 .. Height - 1
  <2> HIDE DEF q
  <2>1. (y + q) * Width = y * Width + q * Width
    BY <1>1, <1>2
  <2>2. (y + q) * Width < Width * Height
    <3> DEFINE a == y * Width
               b == q * Width
               c == Width * Height
    <3>1. a \in Int /\ b \in Int /\ c \in Int /\ b <= x /\ x + a < c
      BY <1>1, <1>2
    <3> HIDE DEF a, b, c
    <3>2. a + b < c
      BY <3>1
    <3> QED  BY <2>1, <3>2 DEF a, b, c
  <2>3. y + q \in Nat
    BY <1>2
  <2> SUFFICES ASSUME y + q >= Height PROVE FALSE
    BY <1>1, <2>3
  <2> DEFINE r == y + q
  <2>4. r \in Nat /\ r >= Height /\ r * Width < Width * Height
    BY <2>2, <2>3
  <2> HIDE DEF r
  <2>5. r * Width >= Height * Width /\ Height * Width = Width * Height
    BY <1>1, <2>4
  <2> DEFINE a == r * Width
             c == Width * Height
  <2>6. a \in Int /\ c \in Int /\ a < c /\ a >= c
    BY <1>1, <2>4, <2>5
  <2> HIDE DEF a, c
  <2> QED  BY <2>6
<1>4. draw_pixel(x, y) = <<x % Width, y + q>>
  BY DEF draw_pixel
<1> HIDE DEF q
<1> QED  BY <1>2, <1>3, <1>4 DEF Pixels

\* The rectangles programs draw are drawn on the screen.
LEMMA RectanglePixels ==
  ASSUME NEW r \in Rectangles
  PROVE  (IF r[3] = 1 /\ r[4] = 1 THEN <<draw_pixel(r[1], r[2])>>
          ELSE kdraw_rectangle(r[1], r[2], r[3], r[4])) \in Seq(Pixels)
<1>1. r[1] \in Nat /\ r[2] \in Nat /\ r[3] \in Nat /\ r[4] \in Nat
  BY RectangleAssumption
<1>2. kdraw_rectangle(r[1], r[2], r[3], r[4]) \in Seq(Pixels)
  BY <1>1, KdrawPixels
<1>3. r[3] = 1 /\ r[4] = 1 => <<draw_pixel(r[1], r[2])>> \in Seq(Pixels)
  <2>1. r[3] = 1 /\ r[4] = 1 => r[1] + r[2] * Width < Width * Height
    BY RectangleAssumption
  <2>2. r[3] = 1 /\ r[4] = 1 => draw_pixel(r[1], r[2]) \in Pixels
    BY <1>1, <2>1, DrawPixelPixel
  <2>3. \A p \in Pixels : <<p>> \in Seq(Pixels)
    OBVIOUS
  <2> QED  BY <2>2, <2>3
<1> QED  BY <1>2, <1>3

-----------------------------------------------------------------------------
(* Text. *)

LEMMA PairAndOne ==
  ASSUME NEW S, NEW a \in S, NEW b \in S, NEW e \in S
  PROVE  <<a, b>> \o <<e>> = <<a, b, e>>
<1> DEFINE u == <<a, b>> \o <<e>>
<1>1. /\ <<a, b>> \in Seq(S) /\ Len(<<a, b>>) = 2
      /\ <<e>> \in Seq(S) /\ Len(<<e>>) = 1
  OBVIOUS
<1>2. u \in Seq(S) /\ Len(u) = 3 /\ u[1] = a /\ u[2] = b /\ u[3] = e
  BY <1>1
<1> HIDE DEF u
<1>3. u = [i \in 1 .. 3 |-> u[i]]
  BY <1>2
<1>4. u = <<u[1], u[2], u[3]>>
  BY <1>3
<1> QED  BY <1>2, <1>4 DEF u

\* Pixels with the color they are to have.
TextPixels == (0 .. Width - 1) \X (0 .. Height - 1) \X AllColors

\* A pixel of character i of a text is within the framebuffer's memory.
LEMMA GlyphInMemory ==
  ASSUME NEW x \in Nat, NEW y \in Nat, NEW n \in Nat, NEW i \in 0 .. n - 1,
         NEW w \in 0 .. GLYPH - 1, NEW h \in 0 .. GLYPH - 1,
         x + GLYPH * n - 1 + (y + GLYPH - 1) * Width < Width * Height
  PROVE  /\ x + GLYPH * i + w \in Nat /\ y + h \in Nat
         /\ x + GLYPH * i + w + (y + h) * Width < Width * Height
<1>1. Width \in Nat /\ Height \in Nat /\ GLYPH \in Nat /\ GLYPH >= 1
  BY ScreenSizes, WordAssumption
<1>2. i \in Nat /\ i + 1 <= n /\ w \in Nat /\ w <= GLYPH - 1 /\ h \in Nat /\ h <= GLYPH - 1
  BY <1>1
<1>3. GLYPH * (i + 1) <= GLYPH * n
  BY <1>1, <1>2
<1>4. GLYPH * (i + 1) = GLYPH * i + GLYPH /\ GLYPH * i \in Nat /\ GLYPH * n \in Nat
  BY <1>1, <1>2
<1>5. (y + h) * Width <= (y + GLYPH - 1) * Width
  <2> DEFINE a == y + h
             b == y + GLYPH - 1
  <2>1. a \in Nat /\ b \in Nat /\ a <= b
    BY <1>1, <1>2
  <2> HIDE DEF a, b
  <2>2. a * Width <= b * Width
    BY <1>1, <2>1
  <2> QED  BY <2>2 DEF a, b
<1> DEFINE g == GLYPH * i
           m == GLYPH * n
           a == (y + h) * Width
           b == (y + GLYPH - 1) * Width
           c == Width * Height
<1>6. a \in Int /\ b \in Int /\ c \in Int
  BY <1>1, <1>2
<1>7. x + m - 1 + b < c /\ a <= b /\ g + GLYPH <= m /\ g \in Nat /\ m \in Nat
  BY <1>3, <1>4, <1>5
<1> HIDE DEF g, m, a, b, c
<1>8. x + g + w \in Nat /\ x + g + w + a < c
  BY <1>1, <1>2, <1>6, <1>7
<1>9. y + h \in Nat
  BY <1>2
<1> QED  BY <1>8, <1>9 DEF g, a, c

\* Character ch is drawn on the screen.
LEMMA GlyphPixel ==
  ASSUME NEW t \in Texts, NEW c \in AllColors, NEW i \in 0 .. Len(t.chars) - 1, NEW ch,
         NEW k \in 0 .. GLYPH * GLYPH - 1
  PROVE  gkprint_c(ch, t.x + GLYPH * i, t.y, c, k) \in TextPixels
<1>1. GLYPH \in Nat \ {0}
  BY WordAssumption
<1>2. k \in Nat /\ k < GLYPH * GLYPH
  BY <1>1
<1> DEFINE w == k \div GLYPH
           h == k % GLYPH
           x == t.x + GLYPH * i + w
           y == t.y + h
<1>3. w \in 0 .. GLYPH - 1 /\ h \in 0 .. GLYPH - 1
  BY <1>1, <1>2, DivBound
<1> HIDE DEF w, h
<1>4. /\ t.x \in Nat /\ t.y \in Nat /\ Len(t.chars) \in Nat
      /\ t.x + GLYPH * Len(t.chars) - 1 + (t.y + GLYPH - 1) * Width < Width * Height
  <2>1. t \in [x : Nat, y : Nat, chars : Seq(DOMAIN Font)]
    BY TextAssumption
  <2>2. t.chars \in Seq(DOMAIN Font)
    BY <2>1
  <2>3. Len(t.chars) \in Nat
    BY <2>2, ElementsOf
  <2>4. t.x + GLYPH * Len(t.chars) - 1 + (t.y + GLYPH - 1) * Width < Width * Height
    BY TextAssumption
  <2> QED  BY <2>1, <2>3, <2>4
<1>5. x \in Nat /\ y \in Nat /\ x + y * Width < Width * Height
  BY <1>3, <1>4, GlyphInMemory
<1> HIDE DEF x, y
<1>6. draw_pixel(x, y) \in Pixels
  BY <1>5, DrawPixelPixel
<1> DEFINE e == IF <<w, h>> \in Font[ch] THEN c ELSE BLACK
<1>7. e \in AllColors
  BY DEF AllColors
<1>8. gkprint_c(ch, t.x + GLYPH * i, t.y, c, k) = draw_pixel(x, y) \o <<e>>
  BY DEF gkprint_c, x, y, w, h
<1> HIDE DEF e
<1>9. \A p \in Pixels : p \o <<e>> \in TextPixels
  <2> TAKE p \in Pixels
  <2>1. PICK a \in 0 .. Width - 1, b \in 0 .. Height - 1 : p = <<a, b>>
    BY DEF Pixels
  <2>2. <<a, b>> \o <<e>> = <<a, b, e>>
    <3>1. a \in {a, b, e} /\ b \in {a, b, e} /\ e \in {a, b, e}
      OBVIOUS
    <3> QED  BY <3>1, PairAndOne
  <2>3. <<a, b, e>> \in TextPixels
    BY <1>7 DEF TextPixels
  <2> QED  BY <2>1, <2>2, <2>3
<1> QED  BY <1>6, <1>8, <1>9

\* A text is written on the screen.
LEMMA TextPixelsOnScreen ==
  ASSUME NEW t \in Texts, NEW c \in AllColors
  PROVE  LET size == GLYPH * GLYPH
         IN  [k \in 1 .. Len(t.chars) * size |->
                LET i == (k - 1) \div size
                IN  gkprint_c(t.chars[i + 1], t.x + GLYPH * i, t.y, c, (k - 1) % size)]
               \in Seq(TextPixels)
<1> DEFINE size == GLYPH * GLYPH
           n == Len(t.chars) * size
           Pixel(k) == gkprint_c(t.chars[((k - 1) \div size) + 1],
                                 t.x + GLYPH * ((k - 1) \div size), t.y, c, (k - 1) % size)
           list == [k \in 1 .. n |-> Pixel(k)]
<1>1. GLYPH \in Nat \ {0}
  BY WordAssumption
<1>2. size \in Nat \ {0}
  BY <1>1
<1>3. Len(t.chars) \in Nat
  <2>1. t.chars \in Seq(DOMAIN Font)
    BY TextAssumption
  <2> QED  BY <2>1, ElementsOf
<1>4. n \in Nat /\ n = size * Len(t.chars)
  <2> HIDE DEF size
  <2> QED  BY <1>2, <1>3
<1>5. ASSUME NEW k \in 1 .. n
      PROVE  Pixel(k) \in TextPixels
  <2>1. k - 1 \in Nat /\ k - 1 < size * Len(t.chars)
    <3> HIDE DEF n
    <3> QED  BY <1>4
  <2> DEFINE i == (k - 1) \div size
             j == (k - 1) % size
  <2>2. i \in 0 .. Len(t.chars) - 1 /\ j \in 0 .. size - 1
    <3> HIDE DEF size
    <3> QED  BY <1>2, <1>3, <2>1, DivBound
  <2> HIDE DEF i, j
  <2>3. gkprint_c(t.chars[i + 1], t.x + GLYPH * i, t.y, c, j) \in TextPixels
    BY <2>2, GlyphPixel
  <2> QED  BY <2>3 DEF i, j
<1> HIDE DEF Pixel, n
<1>6. list \in Seq(TextPixels)
  BY <1>4, <1>5
<1> QED  BY <1>6 DEF Pixel, n

-----------------------------------------------------------------------------
(* The cursor. *)

\* The cursor's pixels are on the screen, and each is one of its places.
LEMMA CursorPixels ==
  ASSUME NEW x \in 0 .. MaxX, NEW y \in 0 .. MaxY
  PROVE  /\ \A q \in Places : At(x, y, q) \in Pixels /\ At(x, y, q) \in Under(x, y)
         /\ \A q, r \in Places : At(x, y, q) = At(x, y, r) => q = r
         /\ \A p \in Under(x, y) : \E q \in Places : p = At(x, y, q)
         /\ \A q \in Places : <<At(x, y, q)[1] - x, At(x, y, q)[2] - y>> = q
         /\ Under(x, y) = Box(x, y, CURSOR_WIDTH, CURSOR_HEIGHT)
<1>1. /\ x \in Nat /\ x <= MaxX /\ y \in Nat /\ y <= MaxY
      /\ MaxX + CURSOR_WIDTH = Width - 1 /\ MaxY + CURSOR_HEIGHT = Height - 1
      /\ CURSOR_WIDTH \in Nat /\ CURSOR_HEIGHT \in Nat /\ Width \in Nat /\ Height \in Nat
      /\ MaxX \in Nat /\ MaxY \in Nat
  BY ScreenSizes
<1>2. \A q \in Places : /\ q = <<q[1], q[2]>>
                        /\ q[1] \in 0 .. CURSOR_WIDTH - 1 /\ q[2] \in 0 .. CURSOR_HEIGHT - 1
  BY DEF Places
<1>3. \A q \in Places : At(x, y, q) = <<x + q[1], y + q[2]>>
  BY DEF At
<1>4. \A q \in Places : At(x, y, q) \in Pixels
  BY <1>1, <1>2, <1>3 DEF Pixels
<1>5. \A q \in Places : At(x, y, q) \in Under(x, y)
  BY DEF Under
<1>6. \A q \in Places : <<At(x, y, q)[1] - x, At(x, y, q)[2] - y>> = q
  <2> TAKE q \in Places
  <2>1. (x + q[1]) - x = q[1] /\ (y + q[2]) - y = q[2]
    BY <1>1, <1>2
  <2> QED  BY <1>2, <1>3, <2>1
<1>7. \A q, r \in Places : At(x, y, q) = At(x, y, r) => q = r
  BY <1>6, Zenon
<1>8. \A p \in Under(x, y) : \E q \in Places : p = At(x, y, q)
  BY DEF Under
<1>9. Under(x, y) = Box(x, y, CURSOR_WIDTH, CURSOR_HEIGHT)
  <2>1. \A q \in Places : At(x, y, q) \in Box(x, y, CURSOR_WIDTH, CURSOR_HEIGHT)
    BY <1>1, <1>2, <1>3 DEF Box
  <2>2. ASSUME NEW p \in Box(x, y, CURSOR_WIDTH, CURSOR_HEIGHT)
        PROVE  p \in Under(x, y)
    <3> DEFINE q == <<p[1] - x, p[2] - y>>
    <3>1. p = <<p[1], p[2]>> /\ p[1] \in x .. x + CURSOR_WIDTH - 1
          /\ p[2] \in y .. y + CURSOR_HEIGHT - 1
      BY DEF Box
    <3>2. q \in Places
      BY <1>1, <3>1 DEF Places
    <3>3. x + (p[1] - x) = p[1] /\ y + (p[2] - y) = p[2]
      BY <1>1, <3>1
    <3>4. At(x, y, q) = p
      BY <3>1, <3>3 DEF At
    <3> QED  BY <3>2, <3>4, <1>5
  <2> QED  BY <1>8, <2>1, <2>2
<1> QED  BY <1>4, <1>5, <1>6, <1>7, <1>8, <1>9

-----------------------------------------------------------------------------
(* The inductive invariant. *)

\* What the loop of call c goes over.
Items(c) == CASE c = "save" -> Places
              [] c = "text" -> TextPixels
              [] c \in {"draw", "cursor"} -> Pixels
              [] OTHER -> {}

Loops == {"draw", "text", "save", "cursor"}
Aims == {"aim x", "aim y"}

LoopTypes ==
  /\ call \in Loops \cup Aims \cup {"user"}
  /\ todo \in Seq(Items(call))
  /\ todo # <<>> <=> call \in Loops
  /\ color \in AllColors /\ clearing \in BOOLEAN /\ cleared \in BOOLEAN /\ spoiled \in BOOLEAN
  /\ calls \in 0 .. MaxCalls

AimType == aim \in (0 .. MaxX) \X (0 .. MaxY)

ColorTypes ==
  /\ framebuffer \in [Pixels -> AllColors] /\ picture \in [Pixels -> AllColors]
  /\ saved_pixels \in [Places -> AllColors]

\* Only clear_screen aims at the cursor and draws it, and it draws in black before.
Phases ==
  /\ clearing => color = BLACK /\ call \in {"draw", "save", "cursor"} \cup Aims
  /\ call \in Aims \cup {"cursor"} => clearing

Black(f, S) == \A p \in S : f[p] = BLACK

\* How far clear_screen has come, when the cursor has stayed where it was.
ClearStages ==
  clearing /\ ~spoiled =>
    /\ call = "draw" => /\ Black(framebuffer, Pixels \ Elems(todo))
                        /\ Black(picture, Pixels \ Elems(todo))
    /\ call # "draw" => Black(picture, Pixels)
    /\ call \in {"save"} \cup Aims => Black(framebuffer, Pixels)
    /\ call = "save" => Black(saved_pixels, Places \ Elems(todo))
    /\ call \in Aims \cup {"cursor"} => Black(saved_pixels, Places)
    /\ call \in {"aim y", "cursor"} => aim[1] = data.x_pos
    /\ call = "cursor" =>
         /\ aim[2] = data.y_pos
         /\ \A p \in Pixels \ Elems(todo) :
              framebuffer[p] = IF p \in Cursor THEN WHITE ELSE BLACK
         /\ Elems(todo) \subseteq Cursor

ScreenInv == /\ MouseInv
             /\ LoopTypes /\ AimType /\ ColorTypes /\ Phases
             /\ PictureKept /\ ClearStages

\* PictureKept, in terms of the position of the cursor.
Shown(fb, pic, x, y) == \A p \in Pixels : fb[p] = IF p \in Under(x, y) THEN WHITE ELSE pic[p]
SavedUnder(saved, pic, x, y) == \A q \in Places : saved[q] = pic[At(x, y, q)]

LEMMA KeptParts ==
  PictureKept <=> (~spoiled /\ ~clearing =>
                     /\ Shown(framebuffer, picture, data.x_pos, data.y_pos)
                     /\ SavedUnder(saved_pixels, picture, data.x_pos, data.y_pos))
BY DEF PictureKept, Shown, SavedUnder, Cursor

LEMMA KeptPartsNext ==
  PictureKept' <=> (~spoiled' /\ ~clearing' =>
                      /\ Shown(framebuffer', picture', data'.x_pos, data'.y_pos)
                      /\ SavedUnder(saved_pixels', picture', data'.x_pos, data'.y_pos))
BY DEF PictureKept, Shown, SavedUnder, Cursor

LEMMA CursorOnScreen ==
  MouseInv => data.x_pos \in 0 .. MaxX /\ data.y_pos \in 0 .. MaxY
BY DEF MouseInv, MouseTypeOK

\* A function changed at one argument.
LEMMA Changed ==
  ASSUME NEW S, NEW T, NEW f \in [S -> T], NEW a \in S, NEW v \in T
  PROVE  /\ [f EXCEPT ![a] = v] \in [S -> T]
         /\ \A b \in S : [f EXCEPT ![a] = v][b] = IF b = a THEN v ELSE f[b]
OBVIOUS

\* The first of a sequence and the others.
LEMMA FirstAndRest ==
  ASSUME NEW S, NEW list \in Seq(S), list # <<>>
  PROVE  /\ Head(list) \in S /\ Head(list) \in Elems(list)
         /\ Tail(list) \in Seq(S)
         /\ Elems(list) = {Head(list)} \cup Elems(Tail(list))
         /\ Len(list) = 1 => Elems(list) = {Head(list)}
         /\ Len(list) # 1 => Tail(list) # <<>>
<1>1. /\ Head(list) = list[1] /\ Head(list) \in S /\ Tail(list) \in Seq(S)
      /\ Len(list) \in Nat \ {0} /\ Len(Tail(list)) = Len(list) - 1
      /\ \A k \in 1 .. Len(list) - 1 : Tail(list)[k] = list[k + 1]
  OBVIOUS
<1>2. Head(list) \in Elems(list)
  BY <1>1 DEF Elems
<1>3. \A k \in 1 .. Len(list) : k = 1 \/ (k - 1 \in 1 .. Len(list) - 1 /\ (k - 1) + 1 = k)
  BY <1>1
<1>4. Elems(list) \subseteq {Head(list)} \cup Elems(Tail(list))
  BY <1>1, <1>3 DEF Elems
<1>5. Elems(Tail(list)) \subseteq Elems(list)
  <2>1. \A k \in 1 .. Len(list) - 1 : k + 1 \in 1 .. Len(list)
    BY <1>1
  <2> QED  BY <1>1, <2>1 DEF Elems
<1>6. Len(list) = 1 => Elems(list) = {Head(list)}
  BY <1>1 DEF Elems
<1>7. Len(list) # 1 => Tail(list) # <<>>
  <2> DEFINE rest == Tail(list)
  <2>1. Len(list) # 1 => Len(rest) # 0
    BY <1>1
  <2> HIDE DEF rest
  <2>2. rest = <<>> => Len(rest) = 0
    OBVIOUS
  <2> QED  BY <2>1, <2>2 DEF rest
<1> QED  BY <1>1, <1>2, <1>4, <1>5, <1>6, <1>7

\* The loop of update_saved_pixels goes over every place.
LEMMA PlacesInRows ==
  LET list == RowByRow(0, 0, CURSOR_WIDTH, CURSOR_HEIGHT)
  IN  list \in Seq(Places) /\ list # <<>> /\ Elems(list) = Places
<1> DEFINE list == RowByRow(0, 0, CURSOR_WIDTH, CURSOR_HEIGHT)
<1>1. /\ CURSOR_WIDTH \in Nat /\ CURSOR_WIDTH >= 1 /\ CURSOR_HEIGHT \in Nat /\ CURSOR_HEIGHT >= 1
  BY ScreenSizes
<1>2. CURSOR_WIDTH * CURSOR_HEIGHT >= 1
  BY <1>1
<1>3. Box(0, 0, CURSOR_WIDTH, CURSOR_HEIGHT) = Places
  BY <1>1 DEF Box, Places
<1>4. /\ list \in Seq(Places) /\ Elems(list) = Places
      /\ Len(list) = CURSOR_WIDTH * CURSOR_HEIGHT
  BY <1>1, <1>3, RowByRowPixels
<1> HIDE DEF list
<1>5. list # <<>>
  BY <1>2, <1>4
<1> QED  BY <1>4, <1>5 DEF list

\* The loop that draws the cursor goes over the pixels under it.
LEMMA CursorInRows ==
  ASSUME NEW x \in 0 .. MaxX, NEW y \in 0 .. MaxY
  PROVE  LET list == kdraw_rectangle(x, y, CURSOR_WIDTH, CURSOR_HEIGHT)
         IN  list \in Seq(Pixels) /\ list # <<>> /\ Elems(list) = Under(x, y)
<1> DEFINE list == kdraw_rectangle(x, y, CURSOR_WIDTH, CURSOR_HEIGHT)
<1>1. /\ x \in Nat /\ x <= MaxX /\ y \in Nat /\ y <= MaxY
      /\ MaxX + CURSOR_WIDTH = Width - 1 /\ MaxY + CURSOR_HEIGHT = Height - 1
      /\ CURSOR_WIDTH \in Nat /\ CURSOR_HEIGHT \in Nat
      /\ CURSOR_WIDTH >= 1 /\ CURSOR_HEIGHT >= 1 /\ Width \in Nat /\ Height \in Nat
      /\ MaxX \in Nat /\ MaxY \in Nat
      /\ Word \in Nat /\ Width < Word /\ Height < Word
  BY ScreenSizes
<1>2. x + CURSOR_WIDTH < Word /\ y + CURSOR_HEIGHT < Word
  BY <1>1
<1>3. /\ list \in Seq(Pixels)
      /\ Elems(list) = Meeting(x, y, CURSOR_WIDTH, CURSOR_HEIGHT)
  BY <1>1, <1>2, KdrawPixels
<1> HIDE DEF list
<1>4. Under(x, y) = Box(x, y, CURSOR_WIDTH, CURSOR_HEIGHT)
  BY CursorPixels
<1>5. Box(x, y, CURSOR_WIDTH, CURSOR_HEIGHT) = Meeting(x, y, CURSOR_WIDTH, CURSOR_HEIGHT)
  BY <1>1 DEF Box, Pixels, Meeting
<1>6. Elems(list) = Under(x, y)
  BY <1>3, <1>4, <1>5
<1>7. list # <<>>
  <2>1. <<0, 0>> \in Places
    BY <1>1 DEF Places
  <2>2. Under(x, y) # {}
    BY <2>1, CursorPixels
  <2>3. Elems(<<>>) = {}
    BY DEF Elems
  <2> QED  BY <1>6, <2>2, <2>3
<1> QED  BY <1>3, <1>6, <1>7 DEF list

-----------------------------------------------------------------------------
(* The turns of the loops. *)

\* The loop goes on, clear_screen goes on to its next loop, or the call returns.
GoesOn == /\ call' = call /\ clearing' = clearing
          /\ Elems(todo) = {Head(todo)} \cup Elems(todo')
NextLoop == /\ Elems(todo) = {Head(todo)} /\ clearing /\ clearing'
            /\ \/ call = "draw" /\ call' = "save" /\ Elems(todo') = Places
               \/ call = "save" /\ call' = "aim x"
Returns == /\ Elems(todo) = {Head(todo)} /\ call' = "user" /\ ~clearing'
           /\ clearing => call = "cursor"

LEMMA ItemsOf ==
  /\ Items("draw") = Pixels /\ Items("cursor") = Pixels
  /\ Items("save") = Places /\ Items("text") = TextPixels
BY DEF Items

LEMMA NothingLeft == \A S : <<>> \in Seq(S)
OBVIOUS

LEMMA NextTurnSteps ==
  ASSUME LoopTypes, Phases, call \in Loops, NextTurn,
         color' = color, calls' = calls, spoiled' \in BOOLEAN
  PROVE  /\ LoopTypes' /\ Phases'
         /\ Head(todo) \in Items(call)
         /\ GoesOn \/ NextLoop \/ Returns
<1> DEFINE rest == Tail(todo)
           first == Head(todo)
           places == RowByRow(0, 0, CURSOR_WIDTH, CURSOR_HEIGHT)
<1>1. /\ todo \in Seq(Items(call)) /\ todo # <<>>
      /\ color \in AllColors /\ clearing \in BOOLEAN
      /\ calls \in 0 .. MaxCalls
  BY DEF LoopTypes
<1>2. /\ first \in Items(call) /\ rest \in Seq(Items(call))
      /\ Elems(todo) = {first} \cup Elems(rest)
      /\ Len(todo) = 1 => Elems(todo) = {first}
      /\ Len(todo) # 1 => rest # <<>>
  BY <1>1, FirstAndRest
<1>3. places \in Seq(Places) /\ places # <<>> /\ Elems(places) = Places
  BY PlacesInRows
<1>4. cleared' \in BOOLEAN
  BY DEF NextTurn
<1>5. CASE Len(todo) # 1
  <2>1. /\ call' = call /\ todo' = rest /\ clearing' = clearing
    BY <1>1, <1>5 DEF NextTurn
  <2> HIDE DEF rest, first
  <2>2. GoesOn
    BY <1>2, <2>1 DEF GoesOn, first
  <2>3. LoopTypes'
    BY <1>1, <1>2, <1>4, <1>5, <2>1 DEF LoopTypes
  <2>4. Phases'
    BY <2>1 DEF Phases
  <2> QED  BY <1>2, <2>2, <2>3, <2>4 DEF first
<1>6. CASE Len(todo) = 1 /\ clearing /\ call = "draw"
  <2>1. AfterLoop = "save"
    BY <1>6 DEF AfterLoop
  <2>2. /\ call' = "save" /\ todo' = places /\ clearing'
    BY <1>6, <2>1 DEF NextTurn
  <2> HIDE DEF rest, first, places
  <2>3. NextLoop
    BY <1>2, <1>3, <1>6, <2>2 DEF NextLoop, first
  <2>4. LoopTypes'
    BY <1>1, <1>3, <1>4, <2>2, ItemsOf DEF LoopTypes, Loops
  <2>5. Phases'
    BY <1>6, <2>2 DEF Phases, Aims
  <2> QED  BY <1>2, <2>3, <2>4, <2>5 DEF first
<1>7. CASE Len(todo) = 1 /\ clearing /\ call = "save"
  <2>1. AfterLoop = "aim x"
    BY <1>7 DEF AfterLoop
  <2>2. /\ call' = "aim x" /\ todo' = <<>> /\ clearing'
    BY <1>7, <2>1 DEF NextTurn
  <2> HIDE DEF rest, first, places
  <2>3. NextLoop
    BY <1>2, <1>7, <2>2 DEF NextLoop, first
  <2>4. LoopTypes'
    <3>1. todo' \in Seq(Items(call'))
      BY ONLY <2>2, NothingLeft
    <3> QED  BY <1>1, <1>4, <2>2, <3>1 DEF LoopTypes, Loops, Aims
  <2>5. Phases'
    BY <1>7, <2>2 DEF Phases, Aims
  <2> QED  BY <1>2, <2>3, <2>4, <2>5 DEF first
<1>8. CASE Len(todo) = 1 /\ (clearing => call = "cursor")
  <2>1. AfterLoop = "user"
    BY <1>8 DEF AfterLoop
  <2>2. /\ call' = "user" /\ todo' = <<>> /\ ~clearing' /\ clearing' \in BOOLEAN
    BY <1>8, <2>1 DEF NextTurn
  <2> HIDE DEF rest, first, places
  <2>3. Returns
    BY <1>2, <1>8, <2>2 DEF Returns, first
  <2>4. LoopTypes'
    <3>1. todo' \in Seq(Items(call'))
      BY ONLY <2>2, NothingLeft
    <3> QED  BY <1>1, <1>4, <2>2, <3>1 DEF LoopTypes, Loops, Aims
  <2>5. Phases'
    BY <2>2 DEF Phases, Aims
  <2> QED  BY <1>2, <2>3, <2>4, <2>5 DEF first
<1>9. clearing => call \in {"draw", "save", "cursor"}
  BY DEF Phases, Loops, Aims
<1> QED  BY <1>1, <1>5, <1>6, <1>7, <1>8, <1>9

-----------------------------------------------------------------------------
(* The steps. *)

\* One pixel of a rectangle, of the whole screen, or of a character.
LEMMA PaintsOne ==
  ASSUME ScreenInv, DrawPixel
  PROVE  \E p \in Pixels, c \in AllColors :
           /\ framebuffer' = [framebuffer EXCEPT ![p] = c]
           /\ picture' = [picture EXCEPT ![p] = c]
           /\ spoiled' = (spoiled \/ (~clearing /\ p \in Cursor))
           /\ clearing => call = "draw" /\ p = Head(todo) /\ c = BLACK
<1>1. /\ todo \in Seq(Items(call))
      /\ todo # <<>> <=> call \in Loops
      /\ color \in AllColors
      /\ clearing => color = BLACK /\ call \in {"draw", "save", "cursor"} \cup Aims
  BY DEF ScreenInv, LoopTypes, Phases
<1>2. CASE call = "draw" /\ Draw(Head(todo), color)
  <2>1. todo \in Seq(Pixels) /\ todo # <<>>
    BY <1>1, <1>2, ItemsOf DEF Loops
  <2>2. Head(todo) \in Pixels
    BY <2>1, FirstAndRest
  <2> QED  BY <1>1, <1>2, <2>2 DEF Draw
<1>3. CASE call = "text" /\ Draw(<<Head(todo)[1], Head(todo)[2]>>, Head(todo)[3])
  <2>1. todo \in Seq(TextPixels) /\ todo # <<>>
    BY <1>1, <1>3, ItemsOf DEF Loops
  <2>2. Head(todo) \in TextPixels
    BY <2>1, FirstAndRest
  <2>3. <<Head(todo)[1], Head(todo)[2]>> \in Pixels /\ Head(todo)[3] \in AllColors
    BY <2>2 DEF TextPixels, Pixels
  <2>4. ~clearing
    BY <1>1, <1>3 DEF Aims
  <2> QED  BY <1>3, <2>3, <2>4 DEF Draw
<1> QED  BY <1>2, <1>3 DEF DrawPixel

LEMMA DrawPixelKeepsInv ==
  ASSUME ScreenInv, DrawPixel
  PROVE  ScreenInv'
<1>1. PICK p \in Pixels, c \in AllColors :
           /\ framebuffer' = [framebuffer EXCEPT ![p] = c]
           /\ picture' = [picture EXCEPT ![p] = c]
           /\ spoiled' = (spoiled \/ (~clearing /\ p \in Cursor))
           /\ clearing => call = "draw" /\ p = Head(todo) /\ c = BLACK
  BY PaintsOne
<1>2. /\ call \in {"draw", "text"} /\ NextTurn
      /\ mouseVars' = mouseVars /\ saved_pixels' = saved_pixels
      /\ color' = color /\ aim' = aim /\ calls' = calls
  BY DEF DrawPixel
<1>3. data' = data
  BY <1>2 DEF mouseVars, driverVars
<1>4. /\ framebuffer \in [Pixels -> AllColors] /\ picture \in [Pixels -> AllColors]
      /\ saved_pixels \in [Places -> AllColors] /\ clearing \in BOOLEAN /\ spoiled \in BOOLEAN
  BY DEF ScreenInv, ColorTypes, LoopTypes
<1>5. /\ framebuffer' \in [Pixels -> AllColors] /\ picture' \in [Pixels -> AllColors]
      /\ \A q \in Pixels : framebuffer'[q] = IF q = p THEN c ELSE framebuffer[q]
      /\ \A q \in Pixels : picture'[q] = IF q = p THEN c ELSE picture[q]
  BY <1>1, <1>4, Changed
<1>6. /\ LoopTypes' /\ Phases'
      /\ GoesOn \/ NextLoop \/ Returns
  BY <1>1, <1>2, <1>4, NextTurnSteps DEF ScreenInv, Loops
<1>7. MouseInv'
  BY <1>2, StutterKeepsMouseInv DEF ScreenInv
<1>8. PictureKept'
  <2> SUFFICES ASSUME ~spoiled', ~clearing'
               PROVE  /\ Shown(framebuffer', picture', data'.x_pos, data'.y_pos)
                      /\ SavedUnder(saved_pixels', picture', data'.x_pos, data'.y_pos)
    BY KeptPartsNext
  <2>1. ~clearing
    BY <1>1, <1>2, <1>6 DEF GoesOn, NextLoop, Returns
  <2>2. ~spoiled /\ p \notin Under(data.x_pos, data.y_pos)
    BY <1>1, <2>1 DEF Cursor
  <2>3. /\ Shown(framebuffer, picture, data.x_pos, data.y_pos)
        /\ SavedUnder(saved_pixels, picture, data.x_pos, data.y_pos)
    BY <2>1, <2>2, KeptParts DEF ScreenInv
  <2>4. Shown(framebuffer', picture', data.x_pos, data.y_pos)
    BY <1>5, <2>2, <2>3 DEF Shown
  <2>5. \A q \in Places : /\ At(data.x_pos, data.y_pos, q) \in Pixels
                          /\ At(data.x_pos, data.y_pos, q) # p
    BY <2>2, CursorOnScreen, CursorPixels DEF ScreenInv
  <2>6. SavedUnder(saved_pixels', picture', data.x_pos, data.y_pos)
    BY <1>2, <1>5, <2>3, <2>5 DEF SavedUnder
  <2> QED  BY <1>3, <2>4, <2>6
<1>9. ClearStages'
  <2> SUFFICES ASSUME clearing', ~spoiled'
               PROVE  ClearStages'
    BY DEF ClearStages
  <2>1. clearing /\ ~spoiled
    BY <1>1, <1>6 DEF GoesOn, NextLoop, Returns
  <2>2. call = "draw" /\ p = Head(todo) /\ c = BLACK
    BY <1>1, <2>1
  <2>3. /\ Black(framebuffer, Pixels \ Elems(todo)) /\ Black(picture, Pixels \ Elems(todo))
    BY <2>1, <2>2 DEF ScreenInv, ClearStages
  <2>4. CASE GoesOn
    <3>1. /\ Black(framebuffer', Pixels \ Elems(todo')) /\ Black(picture', Pixels \ Elems(todo'))
      BY <1>5, <2>2, <2>3, <2>4 DEF GoesOn, Black
    <3>2. call' = "draw"
      BY <2>2, <2>4 DEF GoesOn
    <3> QED  BY <3>1, <3>2 DEF ClearStages, Aims
  <2>5. CASE NextLoop
    <3>1. Black(framebuffer', Pixels) /\ Black(picture', Pixels)
      BY <1>5, <2>2, <2>3, <2>5 DEF NextLoop, Black
    <3>2. call' = "save" /\ Elems(todo') = Places
      BY <2>2, <2>5 DEF NextLoop
    <3>3. Black(saved_pixels', Places \ Elems(todo'))
      BY <3>2 DEF Black
    <3> QED  BY <3>1, <3>2, <3>3 DEF ClearStages, Aims
  <2> QED  BY <1>6, <2>4, <2>5 DEF Returns
<1>10. AimType' /\ ColorTypes'
  BY <1>2, <1>4, <1>5 DEF ScreenInv, AimType, ColorTypes
<1> QED  BY <1>6, <1>7, <1>8, <1>9, <1>10 DEF ScreenInv

LEMMA SavePixelKeepsInv ==
  ASSUME ScreenInv, SavePixel
  PROVE  ScreenInv'
<1> DEFINE x == data.x_pos
           y == data.y_pos
           q == Head(todo)
           p == At(x, y, q)
<1>1. /\ call = "save" /\ NextTurn
      /\ saved_pixels' = [saved_pixels EXCEPT ![q] = color]
      /\ picture' = [picture EXCEPT ![p] = color]
      /\ mouseVars' = mouseVars /\ framebuffer' = framebuffer
      /\ color' = color /\ aim' = aim /\ calls' = calls /\ spoiled' = spoiled
  BY DEF SavePixel
<1>2. data' = data
  BY <1>1 DEF mouseVars, driverVars
<1>3. /\ framebuffer \in [Pixels -> AllColors] /\ picture \in [Pixels -> AllColors]
      /\ saved_pixels \in [Places -> AllColors] /\ clearing \in BOOLEAN /\ spoiled \in BOOLEAN
      /\ color \in AllColors
  BY DEF ScreenInv, ColorTypes, LoopTypes
<1>4. /\ LoopTypes' /\ Phases' /\ q \in Places
      /\ GoesOn \/ NextLoop \/ Returns
  BY <1>1, <1>3, NextTurnSteps, ItemsOf DEF ScreenInv, Loops
<1>5. x \in 0 .. MaxX /\ y \in 0 .. MaxY
  BY CursorOnScreen DEF ScreenInv
<1> HIDE DEF x, y, q
<1>6. /\ \A r \in Places : At(x, y, r) \in Pixels /\ At(x, y, r) \in Under(x, y)
      /\ \A r \in Places : At(x, y, r) = p => r = q
  BY <1>4, <1>5, CursorPixels
<1> HIDE DEF p
<1>7. p \in Pixels /\ p \in Under(x, y)
  BY <1>4, <1>6 DEF p
<1>8. /\ picture' \in [Pixels -> AllColors] /\ saved_pixels' \in [Places -> AllColors]
      /\ \A r \in Pixels : picture'[r] = IF r = p THEN color ELSE picture[r]
      /\ \A r \in Places : saved_pixels'[r] = IF r = q THEN color ELSE saved_pixels[r]
  BY <1>1, <1>3, <1>4, <1>7, Changed
<1>9. MouseInv'
  BY <1>1, StutterKeepsMouseInv DEF ScreenInv
<1>10. PictureKept'
  <2> SUFFICES ASSUME ~spoiled', ~clearing'
               PROVE  /\ Shown(framebuffer', picture', data'.x_pos, data'.y_pos)
                      /\ SavedUnder(saved_pixels', picture', data'.x_pos, data'.y_pos)
    BY KeptPartsNext
  <2>1. ~clearing /\ ~spoiled
    <3>1. call # "cursor" /\ (spoiled' <=> spoiled)
      BY <1>1
    <3>2. GoesOn => (clearing' <=> clearing)
      BY DEF GoesOn
    <3>3. NextLoop => clearing'
      BY DEF NextLoop
    <3>4. Returns => ~clearing
      BY <3>1, Zenon DEF Returns
    <3> QED  BY <1>4, <3>1, <3>2, <3>3, <3>4, Zenon
  <2>2. Shown(framebuffer, picture, x, y) /\ SavedUnder(saved_pixels, picture, x, y)
    BY <2>1, KeptParts DEF ScreenInv, x, y
  <2>3. Shown(framebuffer', picture', x, y)
    BY <1>1, <1>7, <1>8, <2>2 DEF Shown
  <2>4. SavedUnder(saved_pixels', picture', x, y)
    <3> SUFFICES ASSUME NEW r \in Places
                 PROVE  saved_pixels'[r] = picture'[At(x, y, r)]
      BY DEF SavedUnder
    <3>1. At(x, y, r) \in Pixels /\ (At(x, y, r) = p <=> r = q)
      BY <1>6 DEF p
    <3>2. saved_pixels[r] = picture[At(x, y, r)]
      BY <2>2 DEF SavedUnder
    <3> QED  BY <1>8, <3>1, <3>2
  <2> QED  BY <1>2, <2>3, <2>4 DEF x, y
<1>11. ClearStages'
  <2> SUFFICES ASSUME clearing', ~spoiled'
               PROVE  ClearStages'
    BY DEF ClearStages
  <2>1. clearing /\ ~spoiled /\ color = BLACK
    BY <1>1, <1>4 DEF ScreenInv, Phases, GoesOn, NextLoop, Returns
  <2>2. /\ Black(framebuffer, Pixels) /\ Black(picture, Pixels)
        /\ Black(saved_pixels, Places \ Elems(todo))
    BY <1>1, <2>1 DEF ScreenInv, ClearStages
  <2>3. Black(framebuffer', Pixels) /\ Black(picture', Pixels)
    BY <1>1, <1>8, <2>1, <2>2 DEF Black
  <2>4. CASE GoesOn
    <3>1. Black(saved_pixels', Places \ Elems(todo'))
      BY <1>8, <2>1, <2>2, <2>4 DEF GoesOn, Black, q
    <3>2. call' = "save"
      BY <1>1, <2>4 DEF GoesOn
    <3> QED  BY <2>3, <3>1, <3>2 DEF ClearStages, Aims
  <2>5. CASE NextLoop
    <3>1. Black(saved_pixels', Places)
      BY <1>8, <2>1, <2>2, <2>5 DEF NextLoop, Black, q
    <3>2. call' = "aim x"
      BY <1>1, <2>5 DEF NextLoop
    <3> QED  BY <2>3, <3>1, <3>2 DEF ClearStages, Aims
  <2> QED  BY <1>4, <2>4, <2>5 DEF Returns
<1>12. AimType' /\ ColorTypes'
  BY <1>1, <1>3, <1>8 DEF ScreenInv, AimType, ColorTypes
<1> QED  BY <1>4, <1>9, <1>10, <1>11, <1>12 DEF ScreenInv

LEMMA DrawCursorKeepsInv ==
  ASSUME ScreenInv, DrawCursor
  PROVE  ScreenInv'
<1> DEFINE x == data.x_pos
           y == data.y_pos
           p == Head(todo)
<1>1. /\ call = "cursor" /\ NextTurn
      /\ framebuffer' = [framebuffer EXCEPT ![p] = WHITE]
      /\ mouseVars' = mouseVars /\ saved_pixels' = saved_pixels /\ picture' = picture
      /\ color' = color /\ aim' = aim /\ calls' = calls /\ spoiled' = spoiled
  BY DEF DrawCursor
<1>2. data' = data
  BY <1>1 DEF mouseVars, driverVars
<1>3. /\ framebuffer \in [Pixels -> AllColors] /\ picture \in [Pixels -> AllColors]
      /\ saved_pixels \in [Places -> AllColors] /\ clearing /\ spoiled \in BOOLEAN
      /\ WHITE \in AllColors
  BY <1>1 DEF ScreenInv, ColorTypes, LoopTypes, Phases, AllColors
<1>4. /\ LoopTypes' /\ Phases' /\ p \in Pixels
      /\ GoesOn \/ NextLoop \/ Returns
  BY <1>1, <1>3, NextTurnSteps, ItemsOf DEF ScreenInv, Loops
<1>5. x \in 0 .. MaxX /\ y \in 0 .. MaxY
  BY CursorOnScreen DEF ScreenInv
<1> HIDE DEF x, y, p
<1>6. /\ framebuffer' \in [Pixels -> AllColors]
      /\ \A r \in Pixels : framebuffer'[r] = IF r = p THEN WHITE ELSE framebuffer[r]
  BY <1>1, <1>3, <1>4, Changed
<1>7. MouseInv'
  BY <1>1, StutterKeepsMouseInv DEF ScreenInv
<1>8. ~spoiled => /\ aim[1] = x /\ aim[2] = y
                  /\ Black(saved_pixels, Places) /\ Black(picture, Pixels)
                  /\ \A r \in Pixels \ Elems(todo) :
                       framebuffer[r] = IF r \in Under(x, y) THEN WHITE ELSE BLACK
                  /\ Elems(todo) \subseteq Under(x, y)
  BY <1>1, <1>3 DEF ScreenInv, ClearStages, Cursor, x, y, Aims
<1>9. PictureKept'
  <2> SUFFICES ASSUME ~spoiled', ~clearing'
               PROVE  /\ Shown(framebuffer', picture', data'.x_pos, data'.y_pos)
                      /\ SavedUnder(saved_pixels', picture', data'.x_pos, data'.y_pos)
    BY KeptPartsNext
  <2>1. Returns /\ ~spoiled
    BY <1>1, <1>3, <1>4 DEF GoesOn, NextLoop
  <2>2. Elems(todo) = {p}
    BY <2>1 DEF Returns, p
  <2>3. \A r \in Pixels : framebuffer'[r] = IF r \in Under(x, y) THEN WHITE ELSE BLACK
    BY <1>6, <1>8, <2>1, <2>2
  <2>4. Shown(framebuffer', picture', x, y)
    BY <1>1, <1>8, <2>1, <2>3 DEF Shown, Black
  <2>5. \A r \in Places : At(x, y, r) \in Pixels
    BY <1>5, CursorPixels
  <2>6. SavedUnder(saved_pixels', picture', x, y)
    BY <1>1, <1>8, <2>1, <2>5 DEF SavedUnder, Black
  <2> QED  BY <1>2, <2>4, <2>6 DEF x, y
<1>10. ClearStages'
  <2> SUFFICES ASSUME clearing', ~spoiled'
               PROVE  ClearStages'
    BY DEF ClearStages
  <2>1. GoesOn /\ ~spoiled
    BY <1>1, <1>4 DEF NextLoop, Returns
  <2>2. call' = "cursor" /\ Elems(todo) = {p} \cup Elems(todo')
    BY <1>1, <2>1 DEF GoesOn, p
  <2>3. \A r \in Pixels \ Elems(todo') :
          framebuffer'[r] = IF r \in Under(x, y) THEN WHITE ELSE BLACK
    BY <1>6, <1>8, <2>1, <2>2
  <2>4. Cursor' = Under(x, y)
    BY <1>2 DEF Cursor, x, y
  <2>5. /\ Black(picture', Pixels) /\ Black(saved_pixels', Places)
        /\ aim'[1] = data'.x_pos /\ aim'[2] = data'.y_pos
        /\ Elems(todo') \subseteq Cursor'
    BY <1>1, <1>2, <1>8, <2>1, <2>2, <2>4 DEF x, y
  <2> QED  BY <2>2, <2>3, <2>4, <2>5 DEF ClearStages, Aims
<1>11. AimType' /\ ColorTypes'
  BY <1>1, <1>3, <1>6 DEF ScreenInv, AimType, ColorTypes
<1> QED  BY <1>4, <1>7, <1>9, <1>10, <1>11 DEF ScreenInv

LEMMA AimXKeepsInv ==
  ASSUME ScreenInv, AimX
  PROVE  ScreenInv'
<1>1. /\ call = "aim x" /\ aim' = <<data.x_pos, aim[2]>> /\ call' = "aim y"
      /\ mouseVars' = mouseVars /\ framebuffer' = framebuffer /\ saved_pixels' = saved_pixels
      /\ todo' = todo /\ color' = color /\ clearing' = clearing /\ calls' = calls
      /\ cleared' = cleared /\ picture' = picture /\ spoiled' = spoiled
  BY DEF AimX
<1>2. data' = data
  BY <1>1 DEF mouseVars, driverVars
<1>3. /\ clearing /\ todo = <<>>
  BY <1>1 DEF ScreenInv, LoopTypes, Phases, Loops, Aims
<1>4. MouseInv'
  BY <1>1, StutterKeepsMouseInv DEF ScreenInv
<1>5. LoopTypes'
  <2>1. todo' \in Seq(Items(call'))
    BY ONLY <1>1, <1>3, NothingLeft
  <2> QED  BY <1>1, <1>3, <2>1 DEF ScreenInv, LoopTypes, Loops, Aims
<1>6. AimType'
  BY <1>1, CursorOnScreen DEF ScreenInv, AimType
<1>7. ColorTypes' /\ Phases'
  BY <1>1, <1>3 DEF ScreenInv, ColorTypes, Phases, Aims
<1>8. PictureKept'
  BY <1>1, <1>3 DEF PictureKept
<1>9. ClearStages'
  <2> SUFFICES ASSUME clearing', ~spoiled'
               PROVE  ClearStages'
    BY DEF ClearStages
  <2>1. Black(picture, Pixels) /\ Black(framebuffer, Pixels) /\ Black(saved_pixels, Places)
    BY <1>1, <1>3 DEF ScreenInv, ClearStages, Aims
  <2>2. Black(picture', Pixels) /\ Black(framebuffer', Pixels) /\ Black(saved_pixels', Places)
    BY <1>1, <2>1 DEF Black
  <2>3. aim'[1] = data'.x_pos
    BY <1>1, <1>2
  <2> QED  BY <1>1, <2>2, <2>3 DEF ClearStages, Aims
<1> QED  BY <1>4, <1>5, <1>6, <1>7, <1>8, <1>9 DEF ScreenInv

LEMMA AimYKeepsInv ==
  ASSUME ScreenInv, AimY
  PROVE  ScreenInv'
<1> DEFINE list == kdraw_rectangle(aim[1], data.y_pos, CURSOR_WIDTH, CURSOR_HEIGHT)
<1>1. /\ call = "aim y" /\ aim' = <<aim[1], data.y_pos>> /\ call' = "cursor"
      /\ todo' = list
      /\ mouseVars' = mouseVars /\ framebuffer' = framebuffer /\ saved_pixels' = saved_pixels
      /\ color' = color /\ clearing' = clearing /\ calls' = calls
      /\ cleared' = cleared /\ picture' = picture /\ spoiled' = spoiled
  BY DEF AimY
<1>2. data' = data
  BY <1>1 DEF mouseVars, driverVars
<1>3. clearing
  BY <1>1 DEF ScreenInv, Phases, Aims
<1>4. aim[1] \in 0 .. MaxX /\ data.y_pos \in 0 .. MaxY
  BY CursorOnScreen DEF ScreenInv, AimType
<1>5. list \in Seq(Pixels) /\ list # <<>> /\ Elems(list) = Under(aim[1], data.y_pos)
  BY <1>4, CursorInRows
<1> HIDE DEF list
<1>6. MouseInv'
  BY <1>1, StutterKeepsMouseInv DEF ScreenInv
<1>7. LoopTypes'
  BY <1>1, <1>5, ItemsOf DEF ScreenInv, LoopTypes, Loops
<1>8. AimType'
  BY <1>1, <1>4 DEF AimType
<1>9. ColorTypes' /\ Phases'
  BY <1>1, <1>3 DEF ScreenInv, ColorTypes, Phases, Aims
<1>10. PictureKept'
  BY <1>1, <1>3 DEF PictureKept
<1>11. ClearStages'
  <2> SUFFICES ASSUME clearing', ~spoiled'
               PROVE  ClearStages'
    BY DEF ClearStages
  <2>1. /\ Black(picture, Pixels) /\ Black(framebuffer, Pixels) /\ Black(saved_pixels, Places)
        /\ aim[1] = data.x_pos
    BY <1>1, <1>3 DEF ScreenInv, ClearStages, Aims
  <2>2. Black(picture', Pixels) /\ Black(saved_pixels', Places)
    BY <1>1, <2>1 DEF Black
  <2>3. aim'[1] = data'.x_pos /\ aim'[2] = data'.y_pos
    BY <1>1, <1>2, <2>1
  <2>4. Elems(todo') = Cursor'
    BY <1>1, <1>2, <1>5, <2>1 DEF Cursor
  <2>5. \A p \in Pixels \ Elems(todo') :
          framebuffer'[p] = IF p \in Cursor' THEN WHITE ELSE BLACK
    BY <1>1, <2>1, <2>4 DEF Black
  <2> QED  BY <1>1, <2>2, <2>3, <2>4, <2>5 DEF ClearStages, Aims
<1> QED  BY <1>6, <1>7, <1>8, <1>9, <1>10, <1>11 DEF ScreenInv

\* A call other than clear_screen begins.
LEMMA BeginKeepsInv ==
  ASSUME ScreenInv, NEW where \in {"draw", "text", "save"}, NEW list \in Seq(Items(where)),
         NEW c \in AllColors, Begin(where, list, c), clearing' = FALSE,
         UNCHANGED <<mouseVars, framebuffer, saved_pixels, aim, picture, spoiled>>
  PROVE  ScreenInv'
<1>1. /\ call = "user" /\ calls < MaxCalls
      /\ call' = IF list = <<>> THEN "user" ELSE where
      /\ todo' = list /\ color' = c /\ calls' = calls + 1 /\ cleared' = FALSE
      /\ mouseVars' = mouseVars /\ framebuffer' = framebuffer /\ saved_pixels' = saved_pixels
      /\ aim' = aim /\ picture' = picture /\ spoiled' = spoiled
  BY DEF Begin
<1>2. data' = data
  BY <1>1 DEF mouseVars, driverVars
<1>3. ~clearing
  BY <1>1 DEF ScreenInv, Phases, Aims
<1>4. MouseInv'
  BY <1>1, StutterKeepsMouseInv DEF ScreenInv
<1>5. LoopTypes'
  <2>1. todo' \in Seq(Items(call'))
    <3>1. CASE list = <<>>
      BY ONLY <1>1, <3>1, NothingLeft
    <3>2. CASE list # <<>>
      BY <1>1, <3>2
    <3> QED  BY <3>1, <3>2
  <2>2. calls' \in 0 .. MaxCalls
    BY <1>1, WordAssumption DEF ScreenInv, LoopTypes
  <2>3. call' \in Loops \cup Aims \cup {"user"} /\ (todo' # <<>> <=> call' \in Loops)
    BY <1>1 DEF Loops
  <2>4. spoiled' \in BOOLEAN
    BY <1>1 DEF ScreenInv, LoopTypes
  <2> QED  BY <1>1, <2>1, <2>2, <2>3, <2>4 DEF LoopTypes
<1>6. AimType' /\ ColorTypes'
  BY <1>1 DEF ScreenInv, AimType, ColorTypes
<1>7. Phases' /\ ClearStages'
  BY <1>1 DEF Phases, ClearStages, Aims
<1>8. PictureKept'
  BY <1>1, <1>2, <1>3 DEF ScreenInv, PictureKept, Cursor
<1> QED  BY <1>4, <1>5, <1>6, <1>7, <1>8 DEF ScreenInv

LEMMA CallsKeepInv ==
  ASSUME ScreenInv, NEW c \in Colors,
         \/ \E r \in Rectangles : sys_draw_rectangle(r, c)
         \/ \E t \in Texts : sys_gwrite(t, c)
         \/ sys_update_cursor_background(c)
  PROVE  ScreenInv'
<1>0. c \in AllColors
  BY DEF AllColors
<1>1. ASSUME NEW r \in Rectangles, sys_draw_rectangle(r, c)
      PROVE  ScreenInv'
  <2> DEFINE list == IF r[3] = 1 /\ r[4] = 1 THEN <<draw_pixel(r[1], r[2])>>
                     ELSE kdraw_rectangle(r[1], r[2], r[3], r[4])
  <2>1. /\ Begin("draw", list, c) /\ clearing' = FALSE
        /\ UNCHANGED <<mouseVars, framebuffer, saved_pixels, aim, picture, spoiled>>
    BY <1>1 DEF sys_draw_rectangle
  <2>2. list \in Seq(Items("draw"))
    BY RectanglePixels, ItemsOf
  <2> HIDE DEF list
  <2> QED  BY <1>0, <2>1, <2>2, BeginKeepsInv
<1>2. ASSUME NEW t \in Texts, sys_gwrite(t, c)
      PROVE  ScreenInv'
  <2> DEFINE list == [k \in 1 .. Len(t.chars) * (GLYPH * GLYPH) |->
                        gkprint_c(t.chars[((k - 1) \div (GLYPH * GLYPH)) + 1],
                                  t.x + GLYPH * ((k - 1) \div (GLYPH * GLYPH)), t.y, c,
                                  (k - 1) % (GLYPH * GLYPH))]
  <2>1. /\ Begin("text", list, c) /\ clearing' = FALSE
        /\ UNCHANGED <<mouseVars, framebuffer, saved_pixels, aim, picture, spoiled>>
    BY <1>2, Zenon DEF sys_gwrite
  <2>2. list \in Seq(TextPixels)
    BY <1>0, TextPixelsOnScreen, Zenon
  <2> HIDE DEF list
  <2>3. list \in Seq(Items("text"))
    BY <2>2, ItemsOf
  <2> QED  BY <1>0, <2>1, <2>3, BeginKeepsInv
<1>3. ASSUME sys_update_cursor_background(c)
      PROVE  ScreenInv'
  <2> DEFINE list == RowByRow(0, 0, CURSOR_WIDTH, CURSOR_HEIGHT)
  <2>1. /\ Begin("save", list, c) /\ clearing' = FALSE
        /\ UNCHANGED <<mouseVars, framebuffer, saved_pixels, aim, picture, spoiled>>
    BY <1>3 DEF sys_update_cursor_background
  <2>2. list \in Seq(Items("save"))
    BY PlacesInRows, ItemsOf
  <2> HIDE DEF list
  <2> QED  BY <1>0, <2>1, <2>2, BeginKeepsInv
<1> QED  BY <1>1, <1>2, <1>3

\* clear_screen begins with every pixel of the screen still to draw.
LEMMA ClearScreenKeepsInv ==
  ASSUME ScreenInv, clear_screen
  PROVE  ScreenInv'
<1> DEFINE list == RowByRow(0, 0, Width, Height)
<1>1. /\ call = "user" /\ calls < MaxCalls
      /\ call' = IF list = <<>> THEN "user" ELSE "draw"
      /\ todo' = list /\ color' = BLACK /\ calls' = calls + 1 /\ cleared' = FALSE
      /\ mouseVars' = mouseVars /\ framebuffer' = framebuffer /\ saved_pixels' = saved_pixels
      /\ aim' = aim /\ picture' = picture /\ spoiled' = FALSE /\ clearing' = TRUE
  BY DEF clear_screen, Begin
<1>2. list \in Seq(Pixels) /\ list # <<>> /\ Elems(list) = Pixels
  <2>1. Width \in Nat /\ Width >= 1 /\ Height \in Nat /\ Height >= 1
    BY ScreenSizes
  <2>2. Width * Height >= 1
    BY <2>1
  <2>3. Box(0, 0, Width, Height) = Pixels
    BY <2>1 DEF Box, Pixels
  <2>4. list \in Seq(Pixels) /\ Elems(list) = Pixels /\ Len(list) = Width * Height
    BY <2>1, <2>3, RowByRowPixels
  <2> HIDE DEF list
  <2> QED  BY <2>2, <2>4
<1> HIDE DEF list
<1>3. MouseInv'
  BY <1>1, StutterKeepsMouseInv DEF ScreenInv
<1>4. LoopTypes'
  <2>1. calls' \in 0 .. MaxCalls
    BY <1>1, WordAssumption DEF ScreenInv, LoopTypes
  <2>2. BLACK \in AllColors
    BY DEF AllColors
  <2> QED  BY <1>1, <1>2, <2>1, <2>2, ItemsOf DEF LoopTypes, Loops
<1>5. AimType' /\ ColorTypes'
  BY <1>1 DEF ScreenInv, AimType, ColorTypes
<1>6. Phases'
  BY <1>1, <1>2 DEF Phases, Aims
<1>7. PictureKept'
  BY <1>1 DEF PictureKept
<1>8. ClearStages'
  <2>1. call' = "draw" /\ Pixels \ Elems(todo') = {}
    BY <1>1, <1>2
  <2>2. Black(framebuffer', Pixels \ Elems(todo')) /\ Black(picture', Pixels \ Elems(todo'))
    BY <2>1 DEF Black
  <2> QED  BY <2>1, <2>2 DEF ClearStages, Aims
<1> QED  BY <1>3, <1>4, <1>5, <1>6, <1>7, <1>8 DEF ScreenInv

\* The program's variables and the framebuffer stay, and so does the cursor.
LEMMA SameScreenKeepsInv ==
  ASSUME ScreenInv, MouseInv', data'.x_pos = data.x_pos, data'.y_pos = data.y_pos,
         UNCHANGED <<framebuffer, saved_pixels, drawVars, cleared, picture, spoiled>>
  PROVE  ScreenInv'
<1>1. /\ framebuffer' = framebuffer /\ saved_pixels' = saved_pixels /\ call' = call
      /\ todo' = todo /\ color' = color /\ clearing' = clearing /\ aim' = aim
      /\ calls' = calls /\ cleared' = cleared /\ picture' = picture /\ spoiled' = spoiled
  BY DEF drawVars
<1>2. LoopTypes' /\ AimType' /\ ColorTypes' /\ Phases'
  BY <1>1 DEF ScreenInv, LoopTypes, AimType, ColorTypes, Phases
<1>3. PictureKept'
  BY <1>1 DEF ScreenInv, PictureKept, Cursor
<1>4. ClearStages'
  <2> SUFFICES ASSUME clearing', ~spoiled'
               PROVE  ClearStages'
    BY DEF ClearStages
  <2>1. clearing /\ ~spoiled
    BY <1>1
  <2>2. Cursor' = Cursor
    BY DEF Cursor
  <2>3. data'.x_pos = data.x_pos /\ data'.y_pos = data.y_pos
    OBVIOUS
  <2> QED  BY <1>1, <2>1, <2>2, <2>3, ZenonT(30) DEF ScreenInv, ClearStages
<1> QED  BY <1>2, <1>3, <1>4 DEF ScreenInv

\* Framebuffer fb with the colors saved under a cursor at (x, y) drawn again.
Redrawn(fb, saved, x, y) ==
  [p \in Pixels |-> IF p \in Under(x, y) THEN saved[<<p[1] - x, p[2] - y>>] ELSE fb[p]]

\* What update_cursor makes of a screen that is as it should be.
LEMMA RestoredIsPicture ==
  ASSUME NEW fb, NEW pic \in [Pixels -> AllColors], NEW saved,
         NEW x \in 0 .. MaxX, NEW y \in 0 .. MaxY,
         Shown(fb, pic, x, y), SavedUnder(saved, pic, x, y)
  PROVE  Redrawn(fb, saved, x, y) = pic
<1> DEFINE Back(p) == IF p \in Under(x, y) THEN saved[<<p[1] - x, p[2] - y>>] ELSE fb[p]
<1>1. ASSUME NEW p \in Pixels
      PROVE  Back(p) = pic[p]
  <2>1. CASE p \in Under(x, y)
    <3>1. PICK q \in Places : p = At(x, y, q)
      BY <2>1, CursorPixels
    <3>2. <<p[1] - x, p[2] - y>> = q
      BY <3>1, CursorPixels
    <3>3. saved[q] = pic[p]
      BY <3>1 DEF SavedUnder
    <3> QED  BY <2>1, <3>2, <3>3
  <2>2. CASE p \notin Under(x, y)
    BY <2>2 DEF Shown
  <2> QED  BY <2>1, <2>2
<1>2. pic = [p \in Pixels |-> pic[p]]
  OBVIOUS
<1>3. [p \in Pixels |-> Back(p)] = [p \in Pixels |-> pic[p]]
  <2> HIDE DEF Back
  <2> QED  BY <1>1
<1> QED  BY <1>2, <1>3 DEF Redrawn

\* The colors update_cursor works with.
LEMMA RestoredType ==
  ScreenInv => Restored \in [Pixels -> AllColors]
<1> SUFFICES ASSUME ScreenInv PROVE Restored \in [Pixels -> AllColors]
  OBVIOUS
<1> DEFINE x == data.x_pos
           y == data.y_pos
           Back(p) == IF p \in Cursor THEN saved_pixels[<<p[1] - x, p[2] - y>>]
                      ELSE framebuffer[p]
<1>1. x \in 0 .. MaxX /\ y \in 0 .. MaxY
  BY CursorOnScreen DEF ScreenInv
<1>2. framebuffer \in [Pixels -> AllColors] /\ saved_pixels \in [Places -> AllColors]
  BY DEF ScreenInv, ColorTypes
<1>3. Restored = [p \in Pixels |-> Back(p)] /\ Cursor = Under(x, y)
  BY DEF Restored, Cursor
<1> HIDE DEF x, y
<1>4. ASSUME NEW p \in Pixels
      PROVE  Back(p) \in AllColors
  <2>1. CASE p \in Cursor
    <3>1. PICK q \in Places : p = At(x, y, q)
      BY <1>1, <1>3, <2>1, CursorPixels
    <3>2. <<p[1] - x, p[2] - y>> = q
      BY <1>1, <3>1, CursorPixels
    <3> QED  BY <1>2, <2>1, <3>2
  <2>2. CASE p \notin Cursor
    BY <1>2, <2>2
  <2> QED  BY <2>1, <2>2
<1> HIDE DEF Back
<1> QED  BY <1>3, <1>4

\* The cursor moves.
LEMMA CursorMoveKeepsInv ==
  ASSUME ScreenInv, MouseInv', update_cursor, spoiled' = (spoiled \/ clearing),
         UNCHANGED <<drawVars, cleared, picture>>
  PROVE  ScreenInv'
<1> DEFINE x == data'.x_pos
           y == data'.y_pos
           new == Restored
<1>1. /\ call' = call /\ todo' = todo /\ color' = color /\ clearing' = clearing /\ aim' = aim
      /\ calls' = calls /\ cleared' = cleared /\ picture' = picture
  BY DEF drawVars
<1>2. x \in 0 .. MaxX /\ y \in 0 .. MaxY
  BY DEF MouseInv, MouseTypeOK
<1>3. new \in [Pixels -> AllColors]
  BY RestoredType
<1>4. /\ saved_pixels' = [q \in Places |-> new[At(x, y, q)]]
      /\ framebuffer' = [p \in Pixels |-> IF p \in Under(x, y) THEN WHITE ELSE new[p]]
  BY DEF update_cursor, save_background, Drawn, Cursor
<1> HIDE DEF new, x, y
<1>5. \A q \in Places : At(x, y, q) \in Pixels
  BY <1>2, CursorPixels
<1>6. ColorTypes'
  <2>1. WHITE \in AllColors
    BY DEF AllColors
  <2>2. saved_pixels' \in [Places -> AllColors]
    BY <1>3, <1>4, <1>5
  <2>3. framebuffer' \in [Pixels -> AllColors]
    BY <1>3, <1>4, <2>1
  <2> QED  BY <1>1, <2>2, <2>3 DEF ScreenInv, ColorTypes
<1>7. LoopTypes' /\ AimType' /\ Phases'
  BY <1>1 DEF ScreenInv, LoopTypes, AimType, Phases
<1>8. PictureKept'
  <2> SUFFICES ASSUME ~spoiled', ~clearing'
               PROVE  /\ Shown(framebuffer', picture', data'.x_pos, data'.y_pos)
                      /\ SavedUnder(saved_pixels', picture', data'.x_pos, data'.y_pos)
    BY KeptPartsNext
  <2>1. /\ Shown(framebuffer, picture, data.x_pos, data.y_pos)
        /\ SavedUnder(saved_pixels, picture, data.x_pos, data.y_pos)
    BY <1>1, KeptParts DEF ScreenInv
  <2>2. picture \in [Pixels -> AllColors] /\ data.x_pos \in 0 .. MaxX /\ data.y_pos \in 0 .. MaxY
    BY CursorOnScreen DEF ScreenInv, ColorTypes
  <2>3. new = picture
    <3> DEFINE u == data.x_pos
               v == data.y_pos
    <3>1. new = Redrawn(framebuffer, saved_pixels, u, v)
      BY DEF new, Restored, Redrawn, Cursor
    <3> HIDE DEF u, v
    <3>2. /\ Shown(framebuffer, picture, u, v) /\ SavedUnder(saved_pixels, picture, u, v)
          /\ u \in 0 .. MaxX /\ v \in 0 .. MaxY
      BY <2>1, <2>2 DEF u, v
    <3>3. Redrawn(framebuffer, saved_pixels, u, v) = picture
      BY <2>2, <3>2, RestoredIsPicture
    <3> QED  BY ONLY <3>1, <3>3
  <2>4. Shown(framebuffer', picture', x, y)
    BY <1>1, <1>4, <2>3 DEF Shown
  <2>5. SavedUnder(saved_pixels', picture', x, y)
    BY <1>1, <1>4, <2>3 DEF SavedUnder
  <2> QED  BY <2>4, <2>5 DEF x, y
<1>9. ClearStages'
  BY <1>1 DEF ClearStages
<1> QED  BY <1>6, <1>7, <1>8, <1>9 DEF ScreenInv

LEMMA IRQ12KeepsInv ==
  ASSUME ScreenInv, IRQ12
  PROVE  ScreenInv'
<1>1. irq12_interrupt_handler /\ UNCHANGED <<drawVars, cleared, picture>>
  BY DEF IRQ12
<1>2. MouseInv'
  BY <1>1, InterruptKeepsMouseInv DEF ScreenInv
<1>3. CASE mouse_counter = 2
  <2>1. update_cursor /\ spoiled' = (spoiled \/ clearing)
    BY <1>3 DEF IRQ12
  <2> QED  BY <1>1, <1>2, <2>1, CursorMoveKeepsInv
<1>4. CASE mouse_counter # 2
  <2>1. UNCHANGED <<framebuffer, saved_pixels, spoiled>>
    BY <1>4 DEF IRQ12
  <2>2. data'.x_pos = data.x_pos /\ data'.y_pos = data.y_pos
    BY <1>1, <1>4, CursorStays DEF ScreenInv
  <2> QED  BY <1>1, <1>2, <2>1, <2>2, SameScreenKeepsInv
<1> QED  BY <1>3, <1>4

-----------------------------------------------------------------------------
(* The invariant holds in every state. *)

LEMMA ScreenInvAtFirst == ScreenInit => ScreenInv
<1> SUFFICES ASSUME ScreenInit PROVE ScreenInv
  OBVIOUS
<1>1. /\ MouseInit /\ picture \in [Pixels -> {BLACK}]
      /\ saved_pixels = [q \in Places |-> picture[At(StartX, StartY, q)]]
      /\ framebuffer = [p \in Pixels |-> IF p \in Cursor THEN WHITE ELSE picture[p]]
      /\ call = "user" /\ todo = <<>> /\ color = BLACK /\ clearing = FALSE /\ aim = <<0, 0>>
      /\ calls = 0 /\ cleared = FALSE /\ spoiled = FALSE
  BY DEF ScreenInit, save_background, Drawn
<1>2. MouseInv
  BY <1>1, MouseInvHoldsAtFirst
<1>3. data.x_pos = StartX /\ data.y_pos = StartY
  BY <1>1 DEF MouseInit
<1>4. StartX \in 0 .. MaxX /\ StartY \in 0 .. MaxY /\ MaxX \in Nat /\ MaxY \in Nat
  BY ScreenSizes
<1>5. BLACK \in AllColors /\ WHITE \in AllColors
  BY DEF AllColors
<1>6. \A q \in Places : At(StartX, StartY, q) \in Pixels
  BY <1>4, CursorPixels
<1>7. ColorTypes
  <2>1. picture \in [Pixels -> AllColors]
    BY <1>1, <1>5
  <2> QED  BY <1>1, <1>5, <1>6, <2>1 DEF ColorTypes
<1>8. LoopTypes
  <2>1. todo \in Seq(Items(call))
    BY ONLY <1>1, NothingLeft
  <2>2. calls \in 0 .. MaxCalls
    BY <1>1, WordAssumption
  <2> QED  BY <1>1, <1>5, <2>1, <2>2 DEF LoopTypes, Loops
<1>9. AimType
  BY <1>1, <1>4 DEF AimType
<1>10. Phases /\ ClearStages
  BY <1>1 DEF Phases, ClearStages, Aims
<1>11. PictureKept
  <2>1. \A p \in Pixels : framebuffer[p] = IF p \in Cursor THEN WHITE ELSE picture[p]
    BY <1>1
  <2>2. \A q \in Places : saved_pixels[q] = picture[At(data.x_pos, data.y_pos, q)]
    BY <1>1, <1>3
  <2> QED  BY <2>1, <2>2 DEF PictureKept
<1> QED  BY <1>2, <1>7, <1>8, <1>9, <1>10, <1>11 DEF ScreenInv

LEMMA StepKeepsScreenInv == ScreenInv /\ [ScreenNext]_screenVars => ScreenInv'
<1> SUFFICES ASSUME ScreenInv, [ScreenNext]_screenVars PROVE ScreenInv'
  OBVIOUS
<1>1. CASE MouseSends
  <2>1. PICK packet \in Packets : Send(packet)
    BY <1>1 DEF MouseSends
  <2>2. MouseInv'
    BY <2>1, SendKeepsMouseInv DEF ScreenInv
  <2>3. data' = data
    BY <2>1 DEF Send, driverVars
  <2>4. UNCHANGED <<framebuffer, saved_pixels, drawVars, cleared, picture, spoiled>>
    BY <1>1 DEF MouseSends
  <2> QED  BY <2>2, <2>3, <2>4, SameScreenKeepsInv
<1>2. CASE IRQ12
  BY <1>2, IRQ12KeepsInv
<1>3. CASE \E r \in Rectangles, c \in Colors : sys_draw_rectangle(r, c)
  BY <1>3, CallsKeepInv
<1>4. CASE \E t \in Texts, c \in Colors : sys_gwrite(t, c)
  BY <1>4, CallsKeepInv
<1>5. CASE \E c \in Colors : sys_update_cursor_background(c)
  BY <1>5, CallsKeepInv
<1>6. CASE clear_screen
  BY <1>6, ClearScreenKeepsInv
<1>7. CASE Turn
  BY <1>7, DrawPixelKeepsInv, SavePixelKeepsInv, AimXKeepsInv, AimYKeepsInv, DrawCursorKeepsInv
     DEF Turn
<1>8. CASE UNCHANGED screenVars
  <2>1. UNCHANGED mouseVars /\ UNCHANGED <<framebuffer, saved_pixels, drawVars, cleared,
                                           picture, spoiled>>
    BY <1>8 DEF screenVars
  <2>2. data' = data
    BY <2>1 DEF mouseVars, driverVars
  <2>3. MouseInv'
    BY <2>1, StutterKeepsMouseInv DEF ScreenInv
  <2> QED  BY <2>1, <2>2, <2>3, SameScreenKeepsInv
<1> QED  BY <1>1, <1>2, <1>3, <1>4, <1>5, <1>6, <1>7, <1>8 DEF ScreenNext

LEMMA ScreenInvariant == ScreenSpec => []ScreenInv
BY ScreenInvAtFirst, StepKeepsScreenInv, PTL DEF ScreenSpec

-----------------------------------------------------------------------------
(* The theorems. *)

\* The types; in particular, no loop draws a pixel that is not on the screen.
THEOREM ScreenTypeCorrect == ScreenSpec => []ScreenTypeOK
<1>1. ScreenInv => ScreenTypeOK
  <2> SUFFICES ASSUME ScreenInv PROVE ScreenTypeOK
    OBVIOUS
  <2>1. /\ MouseTypeOK /\ ColorTypes /\ AimType /\ LoopTypes
    BY DEF ScreenInv, MouseInv
  <2>2. ASSUME NEW i \in 1 .. Len(todo)
        PROVE  CASE call = "save" -> todo[i] \in Places
                 [] call = "text" -> /\ <<todo[i][1], todo[i][2]>> \in Pixels
                                     /\ todo[i][3] \in AllColors
                 [] OTHER -> todo[i] \in Pixels
    <3>1. todo[i] \in Items(call) /\ todo # <<>>
      <4>1. todo \in Seq(Items(call))
        BY <2>1 DEF LoopTypes
      <4>2. DOMAIN todo = 1 .. Len(todo) /\ \A k \in DOMAIN todo : todo[k] \in Items(call)
        BY ONLY <4>1, ElementsOf
      <4>3. todo = <<>> => Len(todo) = 0
        OBVIOUS
      <4> QED  BY <4>2, <4>3
    <3>2. call \in Loops
      BY <2>1, <3>1 DEF LoopTypes
    <3>3. CASE call = "save"
      BY <3>1, <3>3, ItemsOf
    <3>4. CASE call = "text"
      <4>1. todo[i] \in TextPixels
        BY <3>1, <3>4, ItemsOf
      <4> QED  BY <3>4, <4>1 DEF TextPixels, Pixels
    <3>5. CASE call \in {"draw", "cursor"}
      BY <3>1, <3>5, ItemsOf
    <3> QED  BY <3>2, <3>3, <3>4, <3>5 DEF Loops
  <2>3. call \in {"user", "draw", "text", "save", "aim x", "aim y", "cursor"}
    BY <2>1 DEF LoopTypes, Loops, Aims
  <2>4. todo = <<>> <=> call \in {"user", "aim x", "aim y"}
    BY <2>1, <2>3 DEF LoopTypes, Loops
  <2> QED  BY <2>1, <2>2, <2>3, <2>4 DEF ScreenTypeOK, ColorTypes, AimType, LoopTypes
<1> QED  BY <1>1, ScreenInvariant, PTL

\* Moving the cursor, in the middle of whichever call, damages nothing of the
\* picture, and a clear_screen that the cursor leaves alone repairs everything.
THEOREM CursorKeepsPicture == ScreenSpec => []PictureKept
<1>1. ScreenInv => PictureKept
  BY DEF ScreenInv
<1> QED  BY <1>1, ScreenInvariant, PTL

\* kdraw_rectangle draws a rectangle exactly where it meets the screen.
THEOREM RectanglesAreCut == ScreenSpec => RectangleCut
<1> DEFINE CutRight ==
      \A r \in Rectangles, c \in Colors :
        /\ <<r[3], r[4]>> # <<1, 1>> /\ r[1] + r[3] < Word /\ r[2] + r[4] < Word
        /\ sys_draw_rectangle(r, c)
        =>
          {todo'[i] : i \in DOMAIN todo'} =
            {p \in Pixels : /\ p[1] \in r[1] .. r[1] + r[3] - 1
                            /\ p[2] \in r[2] .. r[2] + r[4] - 1}
<1>1. CutRight
  <2> SUFFICES ASSUME NEW r \in Rectangles, NEW c \in Colors,
                      <<r[3], r[4]>> # <<1, 1>>, r[1] + r[3] < Word, r[2] + r[4] < Word,
                      sys_draw_rectangle(r, c)
               PROVE  {todo'[i] : i \in DOMAIN todo'} =
                        {p \in Pixels : /\ p[1] \in r[1] .. r[1] + r[3] - 1
                                        /\ p[2] \in r[2] .. r[2] + r[4] - 1}
    OBVIOUS
  <2> DEFINE list == kdraw_rectangle(r[1], r[2], r[3], r[4])
  <2>1. r[1] \in Nat /\ r[2] \in Nat /\ r[3] \in Nat /\ r[4] \in Nat
    BY RectangleAssumption
  <2>2. todo' = list
    BY DEF sys_draw_rectangle, Begin
  <2>3. /\ list \in Seq(Pixels)
        /\ Elems(list) = Meeting(r[1], r[2], r[3], r[4])
    <3> DEFINE x == r[1]
               y == r[2]
               w == r[3]
               h == r[4]
    <3>1. /\ x \in Nat /\ y \in Nat /\ w \in Nat /\ h \in Nat
          /\ x + w < Word /\ y + h < Word
      BY <2>1
    <3> HIDE DEF x, y, w, h
    <3>2. /\ kdraw_rectangle(x, y, w, h) \in Seq(Pixels)
          /\ Elems(kdraw_rectangle(x, y, w, h)) = Meeting(x, y, w, h)
      BY <3>1, KdrawPixels
    <3> QED  BY <3>2 DEF x, y, w, h
  <2> HIDE DEF list
  <2>4. DOMAIN list = 1 .. Len(list)
    BY <2>3, ElementsOf
  <2> QED  BY <2>2, <2>3, <2>4 DEF Elems, Meeting
<1>2. [CutRight]_screenVars
  BY <1>1
<1> QED  BY <1>2, PTL DEF RectangleCut
=============================================================================
