-------------------------------- MODULE Screen -------------------------------
(***************************************************************************)
(* The framebuffer, drawn on by the system calls of the program            *)
(* (kernel/graphics.c, kernel/posix.c) and by the handler of IRQ 12, which *)
(* moves the cursor (update_cursor of kernel/mouse.c).                     *)
(*                                                                         *)
(* A system call draws a pixel at a time and the handler may run between   *)
(* any two of them; the handler itself is one action.  The three bytes of  *)
(* a pixel are one value.                                                  *)
(***************************************************************************)
EXTENDS Mouse

CONSTANTS Colors,      \* the colors programs draw with
          BLACK, WHITE,
          Rectangles,  \* the rectangles they draw: <<x, y, width, height>>
          GLYPH,       \* the width and the height of a character
          Font,        \* the places of a character that are lit
          Texts,       \* what they write: [x, y, chars]
          Word,        \* the number of values of a uint32_t
          MaxCalls     \* bound: system calls

\* The screen's size fits a uint32_t; a character has at least a pixel.
ASSUME WordAssumption ==
  /\ Word \in Nat /\ Width < Word /\ Height < Word
  /\ GLYPH \in Nat \ {0}
  /\ MaxCalls \in Nat

\* No program draws a pixel, or writes, beyond the framebuffer's memory.
ASSUME RectangleAssumption ==
  /\ Rectangles \subseteq Nat \X Nat \X Nat \X Nat
  /\ \A r \in Rectangles : r[3] = 1 /\ r[4] = 1 => r[1] + r[2] * Width < Width * Height
ASSUME TextAssumption ==
  /\ Texts \subseteq [x : Nat, y : Nat, chars : Seq(DOMAIN Font)]
  /\ \A t \in Texts :
       t.x + GLYPH * Len(t.chars) - 1 + (t.y + GLYPH - 1) * Width < Width * Height

VARIABLES framebuffer,   \* the color of every pixel
          saved_pixels,  \* the colors under the cursor, by place in it
          call,          \* the loop the system call is in, "user" in none
          todo,          \* what is left of the loop: pixels or places
          color,         \* the color it draws in
          clearing,      \* is the call clear_screen?
          aim,           \* where clear_screen will draw the cursor
          calls,         \* the number of system calls made
          cleared,       \* history: has a clear_screen just returned?
          picture,       \* history: what the programs have drawn
          spoiled        \* history: has a program drawn under the cursor, or
                         \* has the cursor moved while clear_screen ran?

drawVars == <<call, todo, color, clearing, aim, calls>>
screenVars == <<mouseVars, framebuffer, saved_pixels, drawVars, cleared, picture, spoiled>>

Pixels == (0 .. Width - 1) \X (0 .. Height - 1)
Places == (0 .. CURSOR_WIDTH - 1) \X (0 .. CURSOR_HEIGHT - 1)

At(x, y, place) == <<x + place[1], y + place[2]>>
Under(x, y) == {At(x, y, place) : place \in Places}

\* The pixels under the cursor.
Cursor == Under(data.x_pos, data.y_pos)

\* The pixels, or places, of a rectangle, row by row as the loops take them.
RowByRow(x, y, width, height) ==
  [k \in 1 .. width * height |-> <<x + ((k - 1) % width), y + ((k - 1) \div width)>>]

\* Framebuffer fb with the pixels of S drawn in color c.
Drawn(fb, S, c) == [p \in Pixels |-> IF p \in S THEN c ELSE fb[p]]

\* save_background: the colors of framebuffer fb where the cursor goes.
save_background(fb, x, y) == [place \in Places |-> fb[At(x, y, place)]]

ScreenInit ==
  /\ MouseInit
  /\ picture \in [Pixels -> {BLACK}]
  /\ saved_pixels = save_background(picture, StartX, StartY)
  /\ framebuffer = Drawn(picture, Cursor, WHITE)
  /\ call = "user" /\ todo = <<>> /\ color = BLACK /\ clearing = FALSE /\ aim = <<0, 0>>
  /\ calls = 0 /\ cleared = FALSE /\ spoiled = FALSE

-----------------------------------------------------------------------------
(* The handler of IRQ 12. *)

\* What was under the cursor is drawn again.
Restored == [p \in Pixels |-> IF p \in Cursor
                             THEN saved_pixels[<<p[1] - data.x_pos, p[2] - data.y_pos>>]
                             ELSE framebuffer[p]]

\* update_cursor, after the cursor has moved (see Mouse).
update_cursor_SavesFirst ==
  /\ saved_pixels' = save_background(framebuffer, data'.x_pos, data'.y_pos)
  /\ framebuffer' = Drawn(Restored, Cursor', WHITE)

update_cursor ==
  /\ saved_pixels' = save_background(Restored, data'.x_pos, data'.y_pos)
  /\ framebuffer' = Drawn(Restored, Cursor', WHITE)

IRQ12 ==
  /\ irq12_interrupt_handler
  /\ IF mouse_counter = 2
     THEN /\ update_cursor
          /\ spoiled' = (spoiled \/ clearing)
     ELSE UNCHANGED <<framebuffer, saved_pixels, spoiled>>
  /\ UNCHANGED <<drawVars, cleared, picture>>

-----------------------------------------------------------------------------
(* The loops of the system calls. *)

\* The pixels kdraw_rectangle draws: none when the corner is off the screen,
\* otherwise a rectangle cut off at the screen's edge.  The sums are taken in
\* 32 bits.
Sum(m, n) == (m + n) % Word

Cut_OneMore(x, width, max) == IF Sum(x, width) > max + 1 THEN max - x ELSE width
Cut(x, width, max) == IF Sum(x, width) >= max THEN max - x ELSE width

\* The turns of a loop from x on while it is less than the sum.
Turns(x, width) == IF Sum(x, width) > x THEN Sum(x, width) - x ELSE 0

kdraw_rectangle(x, y, width, height) ==
  IF x >= Width \/ y >= Height THEN <<>>
  ELSE RowByRow(x, y, Turns(x, Cut(x, width, Width)), Turns(y, Cut(y, height, Height)))

\* A system call begins with a loop over list, or returns when there is nothing
\* to do.
Begin(where, list, c) ==
  /\ call = "user" /\ calls < MaxCalls
  /\ call' = IF list = <<>> THEN "user" ELSE where
  /\ todo' = list /\ color' = c
  /\ calls' = calls + 1
  /\ cleared' = FALSE

\* The pixel draw_pixel draws.  It looks at no edge: what is right of one falls
\* into the next row.  (The framebuffer has no bytes between its rows.)
draw_pixel(x, y) == <<x % Width, y + (x \div Width)>>

sys_draw_rectangle(r, c) ==
  /\ Begin("draw", IF r[3] = 1 /\ r[4] = 1 THEN <<draw_pixel(r[1], r[2])>>
                   ELSE kdraw_rectangle(r[1], r[2], r[3], r[4]), c)
  /\ clearing' = FALSE
  /\ UNCHANGED <<mouseVars, framebuffer, saved_pixels, aim, picture, spoiled>>

\* The k-th pixel of character ch at (x, y), a column after the other, and its
\* color: lit or black.
gkprint_c(ch, x, y, c, k) ==
  LET w == k \div GLYPH
      h == k % GLYPH
  IN  draw_pixel(x + w, y + h) \o <<IF <<w, h>> \in Font[ch] THEN c ELSE BLACK>>

\* sys_gwrite: the characters from left to right.
sys_gwrite(t, c) ==
  LET size == GLYPH * GLYPH
  IN  /\ Begin("text", [k \in 1 .. Len(t.chars) * size |->
                          LET i == (k - 1) \div size
                          IN  gkprint_c(t.chars[i + 1], t.x + GLYPH * i, t.y, c, (k - 1) % size)], c)
      /\ clearing' = FALSE
      /\ UNCHANGED <<mouseVars, framebuffer, saved_pixels, aim, picture, spoiled>>

\* sys_update_cursor_background.
sys_update_cursor_background(c) ==
  /\ Begin("save", RowByRow(0, 0, CURSOR_WIDTH, CURSOR_HEIGHT), c)
  /\ clearing' = FALSE
  /\ UNCHANGED <<mouseVars, framebuffer, saved_pixels, aim, picture, spoiled>>

\* clear_screen, called by sys_gexec.
clear_screen ==
  /\ Begin("draw", RowByRow(0, 0, Width, Height), BLACK)
  /\ clearing' = TRUE
  /\ spoiled' = FALSE
  /\ UNCHANGED <<mouseVars, framebuffer, saved_pixels, aim, picture>>

\* Where a call goes after the loop it is in.
AfterLoop ==
  CASE call = "draw" /\ clearing -> "save"
    [] call = "save" /\ clearing -> "aim x"
    [] OTHER -> "user"

\* The loop goes on; after its last turn clear_screen goes on to the next loop
\* and another call returns.
NextTurn ==
  LET last == Len(todo) = 1
  IN  /\ call' = IF last THEN AfterLoop ELSE call
      /\ todo' = IF ~last THEN Tail(todo)
                 ELSE IF AfterLoop = "save" THEN RowByRow(0, 0, CURSOR_WIDTH, CURSOR_HEIGHT)
                 ELSE <<>>
      /\ clearing' = (clearing /\ ~(last /\ AfterLoop = "user"))
      /\ cleared' = (last /\ clearing /\ AfterLoop = "user")

\* A pixel of a rectangle, of the whole screen, or of a character.
Draw(p, c) ==
  /\ framebuffer' = [framebuffer EXCEPT ![p] = c]
  /\ picture' = [picture EXCEPT ![p] = c]
  /\ spoiled' = (spoiled \/ (~clearing /\ p \in Cursor))

DrawPixel ==
  /\ \/ call = "draw" /\ Draw(Head(todo), color)
     \/ call = "text" /\ Draw(<<Head(todo)[1], Head(todo)[2]>>, Head(todo)[3])
  /\ NextTurn
  /\ UNCHANGED <<mouseVars, saved_pixels, color, aim, calls>>

\* A turn of update_saved_pixels.  The program means the pixel that is under
\* that place of the cursor now.
SavePixel ==
  /\ call = "save"
  /\ saved_pixels' = [saved_pixels EXCEPT ![Head(todo)] = color]
  /\ picture' = [picture EXCEPT ![At(data.x_pos, data.y_pos, Head(todo))] = color]
  /\ NextTurn
  /\ UNCHANGED <<mouseVars, framebuffer, color, aim, calls, spoiled>>

\* clear_screen reads the position of the cursor, one coordinate at a time (in one
\* of the orders C allows) ...
AimX == /\ call = "aim x"
        /\ aim' = <<data.x_pos, aim[2]>> /\ call' = "aim y"
        /\ UNCHANGED <<mouseVars, framebuffer, saved_pixels, todo, color, clearing,
                       calls, cleared, picture, spoiled>>

AimY == /\ call = "aim y"
        /\ aim' = <<aim[1], data.y_pos>> /\ call' = "cursor"
        /\ todo' = kdraw_rectangle(aim[1], data.y_pos, CURSOR_WIDTH, CURSOR_HEIGHT)
        /\ UNCHANGED <<mouseVars, framebuffer, saved_pixels, color, clearing, calls,
                       cleared, picture, spoiled>>

\* ... and draws the cursor there.
DrawCursor ==
  /\ call = "cursor"
  /\ framebuffer' = [framebuffer EXCEPT ![Head(todo)] = WHITE]
  /\ NextTurn
  /\ UNCHANGED <<mouseVars, saved_pixels, color, aim, calls, picture, spoiled>>

MouseSends ==
  /\ \E packet \in Packets : Send(packet)
  /\ UNCHANGED <<framebuffer, saved_pixels, drawVars, cleared, picture, spoiled>>

Turn == DrawPixel \/ SavePixel \/ AimX \/ AimY \/ DrawCursor

ScreenNext ==
  \/ MouseSends
  \/ IRQ12
  \/ \E r \in Rectangles, c \in Colors : sys_draw_rectangle(r, c)
  \/ \E t \in Texts, c \in Colors : sys_gwrite(t, c)
  \/ \E c \in Colors : sys_update_cursor_background(c)
  \/ clear_screen
  \/ Turn

ScreenSpec == ScreenInit /\ [][ScreenNext]_screenVars

-----------------------------------------------------------------------------
(* What holds. *)

AllColors == Colors \cup {BLACK, WHITE}

ScreenTypeOK ==
  /\ MouseTypeOK
  /\ framebuffer \in [Pixels -> AllColors] /\ picture \in [Pixels -> AllColors]
  /\ saved_pixels \in [Places -> AllColors]
  /\ call \in {"user", "draw", "text", "save", "aim x", "aim y", "cursor"}
  /\ \A i \in 1 .. Len(todo) :
       CASE call = "save" -> todo[i] \in Places
         [] call = "text" -> <<todo[i][1], todo[i][2]>> \in Pixels /\ todo[i][3] \in AllColors
         [] OTHER -> todo[i] \in Pixels
  /\ todo = <<>> <=> call \in {"user", "aim x", "aim y"}
  /\ color \in AllColors /\ clearing \in BOOLEAN /\ cleared \in BOOLEAN
  /\ aim \in (0 .. MaxX) \X (0 .. MaxY) /\ calls \in 0 .. MaxCalls /\ spoiled \in BOOLEAN

\* Unless a program has drawn under the cursor or the cursor has moved while
\* clear_screen ran, the screen is what the programs have drawn with the cursor
\* over it, and what is under the cursor is saved: moving the cursor, even in
\* the middle of a call, damages nothing.  A clear_screen that the cursor leaves
\* alone repairs everything.
PictureKept ==
  ~spoiled /\ ~clearing =>
    /\ \A p \in Pixels : framebuffer[p] = IF p \in Cursor THEN WHITE ELSE picture[p]
    /\ \A place \in Places : saved_pixels[place] = picture[At(data.x_pos, data.y_pos, place)]

\* A rectangle of more than one pixel is drawn exactly where it meets the screen,
\* for sizes that the 32-bit sums hold.
RectangleCut ==
  [][\A r \in Rectangles, c \in Colors :
       /\ <<r[3], r[4]>> # <<1, 1>> /\ r[1] + r[3] < Word /\ r[2] + r[4] < Word
       /\ sys_draw_rectangle(r, c)
       =>
         {todo'[i] : i \in DOMAIN todo'} =
           {p \in Pixels : /\ p[1] \in r[1] .. r[1] + r[3] - 1
                           /\ p[2] \in r[2] .. r[2] + r[4] - 1}]_screenVars

\* graphics.c:74 "Sets all pixels on the screen to black except the cursor":
\* when clear_screen returns, all others are black.
ClearedToBlack == cleared => \A p \in Pixels \ Cursor : framebuffer[p] = BLACK
=============================================================================
