-------------------------------- MODULE Mouse --------------------------------
(***************************************************************************)
(* The mouse driver of kernel/mouse.c: packets of three bytes that the     *)
(* handler of IRQ 12 assembles one byte at a time, and the position and    *)
(* the buttons it makes of them.  The mouse and its controller, which may  *)
(* lose a byte, are external.                                              *)
(***************************************************************************)
EXTENDS Integers, Sequences

CONSTANTS Width, Height,                 \* of the framebuffer, in pixels
          CURSOR_WIDTH, CURSOR_HEIGHT,   \* of the cursor
          StartX, StartY,                \* where initialize_cursor puts it
          Packets,                       \* the packets the mouse sends
          MaxPackets,                    \* bound: packets sent
          MaxLost                        \* bound: bytes lost

MaxX == Width - (CURSOR_WIDTH + 1)
MaxY == Height - (CURSOR_HEIGHT + 1)

ASSUME SizeAssumption ==
  /\ Width \in Nat /\ Height \in Nat
  /\ CURSOR_WIDTH \in Nat \ {0} /\ CURSOR_HEIGHT \in Nat \ {0}
  /\ StartX \in 0 .. MaxX /\ StartY \in 0 .. MaxY

ASSUME BoundAssumption == MaxPackets \in Nat /\ MaxLost \in Nat

\* The bit of a byte that a mask of one bit selects.
Bit(byte, mask) == (byte \div mask) % 2

\* Bit 3 of the first byte of a packet is always 1.
ASSUME PacketAssumption ==
  /\ Packets \subseteq (0 .. 255) \X (0 .. 255) \X (0 .. 255)
  /\ \A packet \in Packets : Bit(packet[1], 8) = 1

VARIABLES mouse_counter,   \* the byte of a packet expected next
          mousebytes,      \* the signs and movements of the packet in progress
          data,            \* the position of the cursor and the buttons
          sending,         \* mouse: the bytes of a packet still to be delivered
          sent,            \* mouse: the number of packets sent
          buttons,         \* mouse: the button bits of the last packet begun
          lost,            \* history: the number of bytes lost
          calm             \* history: bytes delivered since one was lost or
                           \* a movement had bit 3 set, up to CalmEnough

driverVars == <<mouse_counter, mousebytes, data>>
mouseVars == <<driverVars, sending, sent, buttons, lost, calm>>

CalmEnough == 4

MouseInit ==
  /\ mouse_counter = 0
  /\ mousebytes = [x_sb |-> 0, y_sb |-> 0, x_move |-> 0, y_move |-> 0]
  /\ data = [x_pos |-> StartX, y_pos |-> StartY,
             left_click |-> 0, right_click |-> 0, middle_click |-> 0]
  /\ sending = <<>> /\ sent = 0 /\ buttons = <<0, 0, 0>> /\ lost = 0 /\ calm = CalmEnough

-----------------------------------------------------------------------------
(* The driver. *)

SENSITIVITY == 5

\* C's division rounds towards 0.
Quotient(m, n) == IF m < 0 THEN -((-m) \div n) ELSE m \div n

\* What a sign bit and a movement add to a coordinate.
Step(sb, move) == Quotient(IF sb = 1 THEN move - 255 ELSE move, SENSITIVITY)

\* A coordinate put back onto the screen.
Clamp_LowOnly(coord, max) == IF coord < 0 THEN 0 ELSE coord
Clamp(coord, max) == IF coord < 0 THEN 0 ELSE IF coord > max THEN max ELSE coord

\* The part of update_cursor that moves the cursor, for the movement y of the
\* byte just received.
Moved_Mirrored(y) ==
  [data EXCEPT !.x_pos = Clamp(@ + Step(mousebytes.x_sb, mousebytes.x_move), MaxX),
               !.y_pos = Clamp(@ + Step(mousebytes.y_sb, y), MaxY)]
Moved(y) ==
  [data EXCEPT !.x_pos = Clamp(@ + Step(mousebytes.x_sb, mousebytes.x_move), MaxX),
               !.y_pos = Clamp(@ - Step(mousebytes.y_sb, y), MaxY)]

\* The first byte of a packet: the buttons, then, if bit 3 is set, the signs.
FirstByte_Any(byte) ==
  /\ data' = [data EXCEPT !.left_click = Bit(byte, 1),
                          !.right_click = Bit(byte, 2),
                          !.middle_click = Bit(byte, 4)]
  /\ mousebytes' = [mousebytes EXCEPT !.x_sb = Bit(byte, 16), !.y_sb = Bit(byte, 32)]
  /\ mouse_counter' = 1

FirstByte(byte) ==
  /\ data' = [data EXCEPT !.left_click = Bit(byte, 1),
                          !.right_click = Bit(byte, 2),
                          !.middle_click = Bit(byte, 4)]
  /\ IF Bit(byte, 8) = 0
     THEN UNCHANGED <<mousebytes, mouse_counter>>
     ELSE /\ mousebytes' = [mousebytes EXCEPT !.x_sb = Bit(byte, 16), !.y_sb = Bit(byte, 32)]
          /\ mouse_counter' = 1

SecondByte(byte) ==
  /\ mousebytes' = [mousebytes EXCEPT !.x_move = byte]
  /\ mouse_counter' = 2
  /\ UNCHANGED data

ThirdByte_NoReset(byte) ==
  /\ mousebytes' = [mousebytes EXCEPT !.y_move = byte]
  /\ data' = Moved(byte)
  /\ UNCHANGED mouse_counter

ThirdByte(byte) ==
  /\ mousebytes' = [mousebytes EXCEPT !.y_move = byte]
  /\ mouse_counter' = 0
  /\ data' = Moved(byte)

store_mouse_data(byte) ==
  CASE mouse_counter = 0 -> FirstByte(byte)
    [] mouse_counter = 1 -> SecondByte(byte)
    [] mouse_counter = 2 -> ThirdByte(byte)

-----------------------------------------------------------------------------
(* The mouse (external). *)

\* The mouse begins a packet.
Send(packet) ==
  /\ sending = <<>> /\ sent < MaxPackets
  /\ sending' = packet
  /\ sent' = sent + 1
  /\ UNCHANGED <<driverVars, buttons, lost, calm>>

\* The byte of the packet that is delivered or lost next: 0, 1 or 2.
Place == 3 - Len(sending)

\* The mouse's own account of a byte that leaves it: the buttons it has told,
\* and whether the byte could be taken for the first of a packet.
Leaves ==
  LET byte == Head(sending)
  IN  /\ sending' = Tail(sending)
      /\ buttons' = IF Place = 0 THEN <<Bit(byte, 1), Bit(byte, 2), Bit(byte, 4)>>
                    ELSE buttons
      /\ UNCHANGED sent

\* IRQ 12 for a byte.
irq12_interrupt_handler ==
  /\ sending # <<>>
  /\ store_mouse_data(Head(sending))
  /\ Leaves
  /\ calm' = IF Place > 0 /\ Bit(Head(sending), 8) = 1 THEN 0
             ELSE IF calm < CalmEnough THEN calm + 1 ELSE calm
  /\ UNCHANGED lost

\* The controller loses a byte.
Lose ==
  /\ sending # <<>> /\ lost < MaxLost
  /\ Leaves
  /\ lost' = lost + 1 /\ calm' = 0
  /\ UNCHANGED driverVars

MouseNext == (\E packet \in Packets : Send(packet)) \/ irq12_interrupt_handler \/ Lose

MouseSpec == MouseInit /\ [][MouseNext]_mouseVars

-----------------------------------------------------------------------------
(* What holds. *)

\* The types; the cursor, with a pixel to spare, is on the screen.
MouseTypeOK ==
  /\ mouse_counter \in 0 .. 2
  /\ mousebytes \in [x_sb : 0 .. 1, y_sb : 0 .. 1, x_move : 0 .. 255, y_move : 0 .. 255]
  /\ data \in [x_pos : 0 .. MaxX, y_pos : 0 .. MaxY,
               left_click : 0 .. 1, right_click : 0 .. 1, middle_click : 0 .. 1]
  /\ Len(sending) <= 3 /\ \A i \in 1 .. Len(sending) : sending[i] \in 0 .. 255
  /\ sent \in 0 .. MaxPackets /\ buttons \in (0 .. 1) \X (0 .. 1) \X (0 .. 1)
  /\ lost \in 0 .. MaxLost /\ calm \in 0 .. CalmEnough

\* The driver expects the byte the mouse sends next.
InStep == mouse_counter = Place % 3

\* However many bytes were lost, and whichever place of a packet the driver
\* thought it was at, it is in step again after four bytes of which no movement
\* could be taken for the first byte of a packet; and it is in step as long as
\* no byte is lost, whatever the movements are.
RealignsWhenCalm == lost = 0 \/ calm = CalmEnough => InStep

\* In step, the buttons reported are those the mouse has last told.
ButtonsCurrent ==
  lost = 0 => <<data.left_click, data.right_click, data.middle_click>> = buttons

\* A step moves the cursor only at the third byte of a packet, by no more than
\* a packet can tell, and in the directions it tells.
CursorMovesByPacket ==
  [][LET dx == data'.x_pos - data.x_pos
         dy == data'.y_pos - data.y_pos
     IN  dx # 0 \/ dy # 0 =>
           /\ mouse_counter = 2
           /\ dx \in -51 .. 51 /\ dy \in -51 .. 51
           /\ dx > 0 => mousebytes.x_sb = 0
           /\ dx < 0 => mousebytes.x_sb = 1
           /\ dy < 0 => mousebytes.y_sb = 0
           /\ dy > 0 => mousebytes.y_sb = 1]_mouseVars

\* mouse.c:262 "If the unused bit is not 1, skip bytes until we are back in
\* alignment": a byte that is skipped tells no buttons.
SkippedBytesIgnored ==
  [][mouse_counter = 0 /\ mouse_counter' = 0 => data' = data]_mouseVars
=============================================================================
