------------------------------- MODULE Programs ------------------------------
(***************************************************************************)
(* The programs that run on the graphics screen: init, graphics-shell,     *)
(* helloworld and paint, one at a time, and the system calls by which one  *)
(* starts another, reads the keyboard and reads the mouse while the        *)
(* handlers of IRQ 1 and IRQ 12 go on.                                     *)
(*                                                                         *)
(* The keyboard buffer is what KeyRing shows it to be, a bounded queue.    *)
(* What is drawn is Screen's; here it counts only what moving the cursor   *)
(* will leave behind it.  Loading a program is Process's and succeeds.     *)
(***************************************************************************)
EXTENDS Mouse

CONSTANTS Keys,         \* the characters typed
          BUFFER_SIZE,  \* the capacity of the keyboard buffer
          MaxKeys       \* bound: keys typed

NUL == "NUL"            \* what kgetc gives when there is no key
NUM_COLORS == 41
RED == 1                \* the place of paint's first color in its palette
Colors == 0 .. NUM_COLORS - 1

VARIABLES running,      \* the program
          at,           \* where it is
          buffer,       \* the character it has read last
          user_mouse,   \* paint: its copy of the mouse's data
          active_color, \* paint: a place in the palette
          saved,        \* what the cursor will leave: what it hides, or a color
          typed,        \* the keyboard buffer
          keys,         \* the number of keys typed
          stale,        \* history: has the mouse's data changed since paint
                        \* began to read it?
          astray        \* history: was it so when paint gave the cursor a color?

progVars == <<running, at, buffer, user_mouse, active_color, saved, astray>>
sysVars == <<mouseVars, progVars, typed, keys, stale>>

Hidden == -1            \* what the cursor hides, not one color

ProgramsInit ==
  /\ MouseInit
  /\ running = "init" /\ at = "start" /\ buffer = NUL
  /\ user_mouse = data /\ active_color = RED /\ saved = Hidden
  /\ typed = <<>> /\ keys = 0 /\ stale = FALSE /\ astray = FALSE

-----------------------------------------------------------------------------
(* System calls. *)

\* sys_exec: the buffer of the new program is on its stack, not initialized;
\* paint's color is.
sys_exec(file) ==
  /\ running' = file /\ at' = "start"
  /\ buffer' \in Keys \cup {NUL} /\ active_color' = RED
  /\ UNCHANGED <<mouseVars, user_mouse, typed, keys, stale>>

\* sys_gexec clears the screen first, and with it what the cursor hides.
sys_gexec(file) == sys_exec(file) /\ saved' = Hidden /\ astray' = FALSE

sys_exit_Again == sys_exec(running) /\ UNCHANGED <<saved, astray>>
sys_exit == sys_exec("init") /\ UNCHANGED <<saved, astray>>

\* sys_read of one character.
sys_read(blocking) ==
  /\ \/ /\ typed # <<>>
        /\ buffer' = Head(typed) /\ typed' = Tail(typed)
     \/ /\ typed = <<>> /\ ~blocking
        /\ buffer' = NUL /\ UNCHANGED typed
  /\ UNCHANGED <<mouseVars, running, user_mouse, active_color, saved, astray, keys, stale>>

-----------------------------------------------------------------------------
(* init, graphics-shell and helloworld. *)

In(program, place) == running = program /\ at = place

init == In("init", "start") /\ sys_gexec("graphics-shell")

\* graphics-shell reads until a key names a program.
ShellReads == running = "graphics-shell" /\ at \in {"start", "read"}
              /\ sys_read(TRUE) /\ at' = "switch"
ShellStarts == /\ In("graphics-shell", "switch")
               /\ \/ buffer = "1" /\ sys_gexec("helloworld")
                  \/ buffer = "2" /\ sys_gexec("paint")
                  \/ /\ buffer \notin {"1", "2"}
                     /\ at' = "read"
                     /\ UNCHANGED <<mouseVars, running, buffer, user_mouse, active_color, saved,
                                    astray, typed, keys, stale>>

Quits == buffer \in {"q", "Q"}

\* helloworld tests its buffer before it first reads.
HelloReads == In("helloworld", "start") /\ ~Quits
              /\ sys_read(TRUE) /\ UNCHANGED at
HelloQuits == In("helloworld", "start") /\ Quits /\ sys_exit

-----------------------------------------------------------------------------
(* paint. *)

\* paint waits for no key.
PaintReads_Blocking == running = "paint" /\ at \in {"start", "read"}
                       /\ sys_read(TRUE) /\ at' = "test"
PaintReads == running = "paint" /\ at \in {"start", "read"}
              /\ sys_read(FALSE) /\ at' = "test"

PaintQuits == In("paint", "test") /\ Quits /\ sys_exit

\* sys_readmouse copies a field after the other.
Fields == <<"x_pos", "y_pos", "left_click", "right_click", "middle_click">>

CopyField(k) == /\ user_mouse' = [user_mouse EXCEPT ![Fields[k]] = data[Fields[k]]]
                /\ at' = IF k = Len(Fields) THEN "click" ELSE Fields[k + 1]
                /\ UNCHANGED <<mouseVars, running, buffer, active_color, saved, astray,
                               typed, keys>>

PaintReadsMouse == /\ running = "paint"
                   /\ \/ at = "test" /\ ~Quits /\ CopyField(1) /\ stale' = FALSE
                      \/ \E k \in 2 .. Len(Fields) :
                           at = Fields[k] /\ CopyField(k) /\ UNCHANGED stale

\* What a click at y is for, and the color at x.
OnCanvas_Above(y) == y > 75
OnCanvas(y) == y > 100
OnPane(y) == y \in 25 .. 75
potential_index(x) == Quotient(x - 80, 20)

\* The loop acts on its copy: the cursor, wherever it now is, leaves the active
\* color, or another color becomes the active one.  (Clearing draws, no more.)
PaintClicks ==
  LET left == user_mouse.left_click = 1
      canvas == left /\ OnCanvas(user_mouse.y_pos)
      index == potential_index(user_mouse.x_pos)
      choose == left /\ ~canvas /\ OnPane(user_mouse.y_pos) /\ index \in Colors
  IN  /\ In("paint", "click")
      /\ saved' = IF canvas THEN active_color ELSE saved
      /\ astray' = IF canvas THEN stale ELSE astray
      /\ active_color' = IF choose THEN index ELSE active_color
      /\ at' = "read"
      /\ UNCHANGED <<mouseVars, running, buffer, user_mouse, typed, keys, stale>>

-----------------------------------------------------------------------------
(* The handlers, and who causes them. *)

\* update_cursor draws what was saved where the cursor was, and saves what it
\* hides now.
IRQ12 == /\ irq12_interrupt_handler
         /\ IF mouse_counter = 2 THEN saved' = Hidden /\ astray' = FALSE
                                 ELSE UNCHANGED <<saved, astray>>
         /\ stale' = (stale \/ data' # data)
         /\ UNCHANGED <<running, at, buffer, user_mouse, active_color, typed, keys>>

IRQ1 == /\ keys < MaxKeys /\ keys' = keys + 1
        /\ \E key \in Keys :
             typed' = IF Len(typed) < BUFFER_SIZE THEN Append(typed, key) ELSE typed
        /\ UNCHANGED <<mouseVars, progVars, stale>>

MouseSends == /\ \E packet \in Packets : Send(packet)
              /\ UNCHANGED <<progVars, typed, keys, stale>>

ProgramStep == \/ init \/ ShellReads \/ ShellStarts \/ HelloReads \/ HelloQuits
               \/ PaintReads \/ PaintQuits \/ PaintReadsMouse \/ PaintClicks

ProgramsNext == ProgramStep \/ IRQ12 \/ IRQ1 \/ MouseSends

\* The program goes on between interrupts; nobody need type or move the mouse.
ProgramsSpec == ProgramsInit /\ [][ProgramsNext]_sysVars /\ WF_sysVars(ProgramStep)

-----------------------------------------------------------------------------
(* What holds. *)

\* readme.txt "Once a user program is running, press 'q' at anytime to return to
\* the menu screen": a q that is in the keyboard buffer while helloworld or paint
\* runs, however many keys are before it, brings the menu back.
QReturnsToMenu ==
  running \in {"helloworld", "paint"} /\ "q" \in {typed[i] : i \in DOMAIN typed}
    ~> running = "graphics-shell"

\* While the left button is held over the canvas, paint gives the cursor the
\* active color, time and again, and waits for no key.
Held == running = "paint" /\ data.left_click = 1 /\ data.y_pos > 100
HeldButtonPaints == <>[]Held => []<>(saved = active_color)

\* The copy of the mouse's data is made a field at a time and used later.  If the
\* data has not changed in between, the cursor leaves a color only on the canvas,
\* and the color chosen is the one under the cursor.
ActsOnClick ==
  /\ [](saved # Hidden /\ ~astray => data.y_pos > 100)
  /\ [][PaintClicks /\ ~stale /\ <<saved, active_color>> # <<saved, active_color>>'
          => /\ data.left_click = 1
             /\ active_color' # active_color =>
                  /\ data.y_pos \in 25 .. 75
                  /\ active_color' = Quotient(data.x_pos - 80, 20)]_sysVars

\* paint.c:91 "We're on the canvas. Draw behind the cursor in the active color":
\* a color is left behind on the canvas only.
TrailOnCanvas == saved # Hidden => data.y_pos > 100
=============================================================================
