----------------------------- MODULE MouseProofs -----------------------------
(***************************************************************************)
(* Proofs about the mouse driver, for every screen, every set of packets   *)
(* and every number of lost bytes: the cursor stays on the screen and      *)
(* moves as the packets tell, and the driver falls into step again.        *)
(***************************************************************************)
EXTENDS Mouse, TLAPS

\* What is still to be delivered of a packet; the first byte has bit 3 set.
SendingOK ==
  /\ sending \in Seq(0 .. 255)
  /\ Len(sending) <= 3
  /\ Len(sending) = 3 => Bit(sending[1], 8) = 1

\* How many calm bytes bring a driver that expects byte c in step with a mouse
\* that sends byte p.
Rank(c, p) ==
  CASE c = p -> 0
    [] c = 0 /\ p = 2 -> 1
    [] c = 0 /\ p = 1 -> 2
    [] c = 2 /\ p = 1 -> 2
    [] c = 2 /\ p = 0 -> 3
    [] c = 1 /\ p = 0 -> 3
    [] c = 1 /\ p = 2 -> 4

\* With no byte lost the driver is in step; otherwise it will be, soon enough.
Aligned ==
  /\ lost = 0 => InStep
  /\ calm + Rank(mouse_counter, Place % 3) <= CalmEnough

\* The inductive invariant.
MouseInv == MouseTypeOK /\ SendingOK /\ Aligned /\ ButtonsCurrent

-----------------------------------------------------------------------------
(* The operators. *)

\* A bit of a byte is 0 or 1.
LEMMA BitType ==
  ASSUME NEW byte \in 0 .. 255, NEW mask \in {1, 2, 4, 8, 16, 32}
  PROVE  Bit(byte, mask) \in 0 .. 1
BY SMT DEF Bit

\* A packet tells a movement of no more than 51 pixels, in the direction of its
\* sign bit.
LEMMA StepBounds ==
  ASSUME NEW sb \in 0 .. 1, NEW move \in 0 .. 255
  PROVE  /\ Step(sb, move) \in -51 .. 51
         /\ sb = 0 => Step(sb, move) >= 0
         /\ sb = 1 => Step(sb, move) <= 0
<1>1. CASE sb = 1
  <2>1. move - 255 \in -255 .. 0 /\ (-(move - 255)) \div 5 \in 0 .. 51
    BY SMT
  <2>2. Step(sb, move) \in -51 .. 0
    BY <1>1, <2>1, SMT DEF Step, Quotient, SENSITIVITY
  <2> QED BY <1>1, <2>2, SMT
<1>2. CASE sb = 0
  <2>1. move \div 5 \in 0 .. 51
    BY SMT
  <2>2. Step(sb, move) \in 0 .. 51
    BY <1>2, <2>1, SMT DEF Step, Quotient, SENSITIVITY
  <2> QED BY <1>2, <2>2, SMT
<1> QED BY <1>1, <1>2, SMT

\* A coordinate that is put back onto the screen goes no further than it was
\* told to, and not the other way.
LEMMA ClampBounds ==
  ASSUME NEW max \in Nat, NEW coord \in 0 .. max, NEW d \in Int
  PROVE  /\ Clamp(coord + d, max) \in 0 .. max
         /\ d >= 0 => Clamp(coord + d, max) - coord \in 0 .. d
         /\ d <= 0 => Clamp(coord + d, max) - coord \in d .. 0
BY SMT DEF Clamp

\* The cursor fits the screen.
LEMMA MaxType == MaxX \in Nat /\ MaxY \in Nat
BY SizeAssumption, SMT DEF MaxX, MaxY

\* A packet is a sequence of three bytes, the first with bit 3 set.
LEMMA PacketType ==
  ASSUME NEW packet \in Packets
  PROVE  /\ packet \in Seq(0 .. 255) /\ Len(packet) = 3
         /\ Bit(packet[1], 8) = 1
<1>1. packet \in (0 .. 255) \X (0 .. 255) \X (0 .. 255) /\ Bit(packet[1], 8) = 1
  BY PacketAssumption, Zenon
<1>2. /\ packet = <<packet[1], packet[2], packet[3]>>
      /\ packet[1] \in 0 .. 255 /\ packet[2] \in 0 .. 255 /\ packet[3] \in 0 .. 255
  BY <1>1, SMT
<1>3. /\ <<packet[1], packet[2], packet[3]>> \in Seq(0 .. 255)
      /\ Len(<<packet[1], packet[2], packet[3]>>) = 3
  BY <1>2, SMT
<1>4. packet \in Seq(0 .. 255) /\ Len(packet) = 3
  BY <1>2, <1>3, Zenon
<1> QED BY <1>1, <1>4

\* Sequences that are not empty.
LEMMA HeadAndTail ==
  ASSUME NEW S, NEW seq \in Seq(S), seq # <<>>
  PROVE  /\ Head(seq) \in S /\ Head(seq) = seq[1]
         /\ Len(seq) \in Nat \ {0}
         /\ Tail(seq) \in Seq(S) /\ Len(Tail(seq)) = Len(seq) - 1
<1>1. Head(seq) \in S
  BY SMT
<1>2. Head(seq) = seq[1]
  BY SMT
<1>3. Len(seq) \in Nat /\ Len(seq) # 0
  BY SMT
<1>4. Tail(seq) \in Seq(S) /\ Len(Tail(seq)) = Len(seq) - 1
  BY SMT
<1> QED BY <1>1, <1>2, <1>3, <1>4, Zenon

\* The elements of a sequence.
LEMMA Elements ==
  ASSUME NEW S, NEW seq \in Seq(S)
  PROVE  \A i \in 1 .. Len(seq) : seq[i] \in S
BY SMT

\* The signs and movements after an update of some of them.
LEMMA BytesUpdates ==
  ASSUME NEW M, NEW xs \in 0 .. 1, NEW ys \in 0 .. 1, NEW move \in M,
         NEW b \in [x_sb : 0 .. 1, y_sb : 0 .. 1, x_move : M, y_move : M]
  PROVE  /\ [b EXCEPT !.x_sb = xs, !.y_sb = ys] \in
              [x_sb : 0 .. 1, y_sb : 0 .. 1, x_move : M, y_move : M]
         /\ [b EXCEPT !.x_move = move] \in [x_sb : 0 .. 1, y_sb : 0 .. 1, x_move : M, y_move : M]
         /\ [b EXCEPT !.y_move = move] \in [x_sb : 0 .. 1, y_sb : 0 .. 1, x_move : M, y_move : M]
BY Zenon

\* What the packet in progress does to the position of the cursor.
LEMMA MovedBounds ==
  ASSUME MouseTypeOK, NEW y \in 0 .. 255
  PROVE  /\ Moved(y) = [data EXCEPT !.x_pos = Moved(y).x_pos, !.y_pos = Moved(y).y_pos]
         /\ Moved(y).x_pos \in 0 .. MaxX
         /\ Moved(y).y_pos \in 0 .. MaxY
         /\ Moved(y).x_pos - data.x_pos \in -51 .. 51
         /\ Moved(y).y_pos - data.y_pos \in -51 .. 51
         /\ Moved(y).x_pos > data.x_pos => mousebytes.x_sb = 0
         /\ Moved(y).x_pos < data.x_pos => mousebytes.x_sb = 1
         /\ Moved(y).y_pos < data.y_pos => mousebytes.y_sb = 0
         /\ Moved(y).y_pos > data.y_pos => mousebytes.y_sb = 1
<1> DEFINE dx == Step(mousebytes.x_sb, mousebytes.x_move)
           dy == Step(mousebytes.y_sb, y)
           x == Clamp(data.x_pos + dx, MaxX)
           y1 == Clamp(data.y_pos - dy, MaxY)
<1>1. /\ mousebytes.x_sb \in 0 .. 1 /\ mousebytes.y_sb \in 0 .. 1
      /\ mousebytes.x_move \in 0 .. 255
      /\ data.x_pos \in 0 .. MaxX /\ data.y_pos \in 0 .. MaxY
  BY DEF MouseTypeOK
<1>2. /\ dx \in -51 .. 51
      /\ mousebytes.x_sb = 0 => dx >= 0
      /\ mousebytes.x_sb = 1 => dx <= 0
  BY <1>1, StepBounds
<1>3. /\ dy \in -51 .. 51
      /\ mousebytes.y_sb = 0 => dy >= 0
      /\ mousebytes.y_sb = 1 => dy <= 0
  BY <1>1, StepBounds
<1>4. /\ x \in 0 .. MaxX
      /\ dx >= 0 => x - data.x_pos \in 0 .. dx
      /\ dx <= 0 => x - data.x_pos \in dx .. 0
  <2> HIDE DEF dx
  <2>1. dx \in Int BY <1>2, SMT
  <2> QED BY <1>1, <2>1, ClampBounds, MaxType
<1>5. /\ y1 \in 0 .. MaxY
      /\ dy <= 0 => y1 - data.y_pos \in 0 .. -dy
      /\ dy >= 0 => y1 - data.y_pos \in -dy .. 0
  <2> HIDE DEF dy
  <2>1. -dy \in Int /\ data.y_pos - dy = data.y_pos + (-dy) BY <1>1, <1>3, MaxType, SMT
  <2>2. y1 = Clamp(data.y_pos + (-dy), MaxY) BY <2>1, Zenon
  <2>3. /\ Clamp(data.y_pos + (-dy), MaxY) \in 0 .. MaxY
        /\ -dy >= 0 => Clamp(data.y_pos + (-dy), MaxY) - data.y_pos \in 0 .. -dy
        /\ -dy <= 0 => Clamp(data.y_pos + (-dy), MaxY) - data.y_pos \in -dy .. 0
    BY <1>1, <2>1, ClampBounds, MaxType
  <2> HIDE DEF y1
  <2> QED BY <2>2, <2>3, <1>3, SMT
<1>6. Moved(y) = [data EXCEPT !.x_pos = x, !.y_pos = y1]
  BY DEF Moved
<1>7. Moved(y).x_pos = x /\ Moved(y).y_pos = y1
  BY <1>6 DEF MouseTypeOK
<1> HIDE DEF dx, dy, x, y1
<1> QED BY <1>1, <1>2, <1>3, <1>4, <1>5, <1>6, <1>7, MaxType, SMT

-----------------------------------------------------------------------------
(* The driver, given a byte. *)

\* The part of store_mouse_data that runs is told by the counter.
LEMMA DriverParts ==
  ASSUME mouse_counter \in 0 .. 2, NEW byte, store_mouse_data(byte)
  PROVE  \/ mouse_counter = 0 /\ FirstByte(byte)
         \/ mouse_counter = 1 /\ SecondByte(byte)
         \/ mouse_counter = 2 /\ ThirdByte(byte)
<1>1. mouse_counter = 0 \/ mouse_counter = 1 \/ mouse_counter = 2
  BY SMT
<1>2. CASE mouse_counter = 0
  BY <1>2, SMT DEF store_mouse_data
<1>3. CASE mouse_counter = 1
  BY <1>3, SMT DEF store_mouse_data
<1>4. CASE mouse_counter = 2
  BY <1>4, SMT DEF store_mouse_data
<1> QED BY <1>1, <1>2, <1>3, <1>4

\* The driver's variables keep their types.
LEMMA DriverTypes ==
  ASSUME MouseTypeOK, NEW byte \in 0 .. 255, store_mouse_data(byte)
  PROVE  /\ mouse_counter' \in 0 .. 2
         /\ mousebytes' \in [x_sb : 0 .. 1, y_sb : 0 .. 1, x_move : 0 .. 255, y_move : 0 .. 255]
         /\ data' \in [x_pos : 0 .. MaxX, y_pos : 0 .. MaxY,
                       left_click : 0 .. 1, right_click : 0 .. 1, middle_click : 0 .. 1]
<1>1. CASE mouse_counter = 0 /\ FirstByte(byte)
  <2>1. /\ Bit(byte, 1) \in 0 .. 1 /\ Bit(byte, 2) \in 0 .. 1 /\ Bit(byte, 4) \in 0 .. 1
        /\ Bit(byte, 16) \in 0 .. 1 /\ Bit(byte, 32) \in 0 .. 1
    BY BitType
  <2>2. mouse_counter' \in {0, 1}
    BY <1>1, SMT DEF FirstByte
  <2>3. mousebytes' \in [x_sb : 0 .. 1, y_sb : 0 .. 1, x_move : 0 .. 255, y_move : 0 .. 255]
    <3>1. mousebytes' \in {mousebytes,
                           [mousebytes EXCEPT !.x_sb = Bit(byte, 16), !.y_sb = Bit(byte, 32)]}
      BY <1>1, SMT DEF FirstByte
    <3>2. mousebytes \in [x_sb : 0 .. 1, y_sb : 0 .. 1, x_move : 0 .. 255, y_move : 0 .. 255]
      BY DEF MouseTypeOK
    <3>3. [mousebytes EXCEPT !.x_sb = Bit(byte, 16), !.y_sb = Bit(byte, 32)]
            \in [x_sb : 0 .. 1, y_sb : 0 .. 1, x_move : 0 .. 255, y_move : 0 .. 255]
      BY <2>1, <3>2, Zenon
    <3> QED BY <3>1, <3>2, <3>3, Zenon
  <2>4. data' \in [x_pos : 0 .. MaxX, y_pos : 0 .. MaxY,
                   left_click : 0 .. 1, right_click : 0 .. 1, middle_click : 0 .. 1]
    <3>1. data' = [data EXCEPT !.left_click = Bit(byte, 1), !.right_click = Bit(byte, 2),
                               !.middle_click = Bit(byte, 4)]
      BY <1>1, Zenon DEF FirstByte
    <3> QED BY <2>1, <3>1, Zenon DEF MouseTypeOK
  <2> QED BY <2>2, <2>3, <2>4, SMT
<1>2. CASE mouse_counter = 1 /\ SecondByte(byte)
  <2>1. mousebytes' \in [x_sb : 0 .. 1, y_sb : 0 .. 1, x_move : 0 .. 255, y_move : 0 .. 255]
    BY <1>2, BytesUpdates, ZenonT(30) DEF SecondByte, MouseTypeOK
  <2> QED BY <1>2, <2>1, SMT DEF SecondByte, MouseTypeOK
<1>3. CASE mouse_counter = 2 /\ ThirdByte(byte)
  <2>1. /\ data' = [data EXCEPT !.x_pos = Moved(byte).x_pos, !.y_pos = Moved(byte).y_pos]
        /\ Moved(byte).x_pos \in 0 .. MaxX /\ Moved(byte).y_pos \in 0 .. MaxY
    BY <1>3, MovedBounds, Zenon DEF ThirdByte
  <2>2. data' \in [x_pos : 0 .. MaxX, y_pos : 0 .. MaxY,
                   left_click : 0 .. 1, right_click : 0 .. 1, middle_click : 0 .. 1]
    BY <2>1, Zenon DEF MouseTypeOK
  <2>3. mousebytes' \in [x_sb : 0 .. 1, y_sb : 0 .. 1, x_move : 0 .. 255, y_move : 0 .. 255]
    BY <1>3, BytesUpdates, ZenonT(30) DEF ThirdByte, MouseTypeOK
  <2> QED BY <1>3, <2>2, <2>3, SMT DEF ThirdByte
<1> QED BY <1>1, <1>2, <1>3, DriverParts DEF MouseTypeOK

\* The counter.
LEMMA DriverCounts ==
  ASSUME mouse_counter \in 0 .. 2, NEW byte, store_mouse_data(byte)
  PROVE  mouse_counter' = IF mouse_counter = 2 \/ (mouse_counter = 0 /\ Bit(byte, 8) = 0)
                          THEN 0 ELSE mouse_counter + 1
<1>1. mouse_counter = 0 /\ FirstByte(byte) => mouse_counter' = IF Bit(byte, 8) = 0 THEN 0 ELSE 1
  BY SMT DEF FirstByte
<1>2. mouse_counter = 1 /\ SecondByte(byte) => mouse_counter' = 2
  BY DEF SecondByte
<1>3. mouse_counter = 2 /\ ThirdByte(byte) => mouse_counter' = 0
  BY DEF ThirdByte
<1> QED BY <1>1, <1>2, <1>3, DriverParts, SMT

\* The buttons.
LEMMA DriverButtons ==
  ASSUME MouseTypeOK, NEW byte \in 0 .. 255, store_mouse_data(byte)
  PROVE  <<data'.left_click, data'.right_click, data'.middle_click>> =
           IF mouse_counter = 0 THEN <<Bit(byte, 1), Bit(byte, 2), Bit(byte, 4)>>
           ELSE <<data.left_click, data.right_click, data.middle_click>>
<1>0. data \in [x_pos : 0 .. MaxX, y_pos : 0 .. MaxY,
                left_click : 0 .. 1, right_click : 0 .. 1, middle_click : 0 .. 1]
  BY DEF MouseTypeOK
<1>1. CASE mouse_counter = 0 /\ FirstByte(byte)
  <2>1. data' = [data EXCEPT !.left_click = Bit(byte, 1), !.right_click = Bit(byte, 2),
                             !.middle_click = Bit(byte, 4)]
    BY <1>1, Zenon DEF FirstByte
  <2> QED BY <1>0, <1>1, <2>1, SMT
<1>2. CASE mouse_counter = 1 /\ SecondByte(byte)
  BY <1>2, SMT DEF SecondByte
<1>3. CASE mouse_counter = 2 /\ ThirdByte(byte)
  <2>1. data' = [data EXCEPT !.x_pos = Moved(byte).x_pos, !.y_pos = Moved(byte).y_pos]
    BY <1>3, MovedBounds, Zenon DEF ThirdByte
  <2> QED BY <1>0, <1>3, <2>1, SMT
<1> QED BY <1>1, <1>2, <1>3, DriverParts DEF MouseTypeOK

\* A byte that is not the last of a packet leaves the cursor where it is.
LEMMA CursorStays ==
  ASSUME MouseInv, irq12_interrupt_handler, mouse_counter # 2
  PROVE  data'.x_pos = data.x_pos /\ data'.y_pos = data.y_pos
<1> DEFINE byte == Head(sending)
<1>1. /\ mouse_counter \in 0 .. 2 /\ store_mouse_data(byte)
      /\ data \in [x_pos : 0 .. MaxX, y_pos : 0 .. MaxY,
                   left_click : 0 .. 1, right_click : 0 .. 1, middle_click : 0 .. 1]
  BY DEF MouseInv, MouseTypeOK, irq12_interrupt_handler
<1> HIDE DEF byte
<1>2. FirstByte(byte) \/ SecondByte(byte)
  BY <1>1, DriverParts
<1>3. CASE FirstByte(byte)
  <2>1. data' = [data EXCEPT !.left_click = Bit(byte, 1), !.right_click = Bit(byte, 2),
                             !.middle_click = Bit(byte, 4)]
    BY <1>3, Zenon DEF FirstByte
  <2> QED BY <1>1, <2>1, SMT
<1>4. CASE SecondByte(byte)
  BY <1>4 DEF SecondByte
<1> QED BY <1>2, <1>3, <1>4

\* A byte that leaves the mouse, and what is left of the packet.
LEMMA LeavesPlace ==
  ASSUME SendingOK, Leaves, sending # <<>>
  PROVE  /\ Head(sending) \in 0 .. 255
         /\ Place \in 0 .. 2
         /\ Place' = Place + 1
         /\ Len(sending') <= 2
         /\ SendingOK'
         /\ Place = 0 => Bit(Head(sending), 8) = 1
<1>1. /\ sending \in Seq(0 .. 255) /\ Len(sending) <= 3
      /\ sending' = Tail(sending)
      /\ Len(sending) = 3 => Bit(sending[1], 8) = 1
  BY DEF SendingOK, Leaves
<1>2. /\ Head(sending) \in 0 .. 255 /\ Head(sending) = sending[1]
      /\ Len(sending) \in Nat \ {0}
      /\ sending' \in Seq(0 .. 255) /\ Len(sending') = Len(sending) - 1
  BY <1>1, HeadAndTail, Zenon
<1>3. /\ Place \in 0 .. 2 /\ Place' = Place + 1 /\ Len(sending') <= 2
  BY <1>1, <1>2, SMT DEF Place
<1>4. SendingOK'
  <2>1. \A n \in Nat : n <= 3 => n - 1 <= 3 /\ n - 1 # 3
    BY SMT
  <2> QED BY <1>1, <1>2, <2>1, Zenon DEF SendingOK
<1>5. Place = 0 => Bit(Head(sending), 8) = 1
  BY <1>1, <1>2, SMT DEF Place
<1> QED BY <1>2, <1>3, <1>4, <1>5

\* Its types, and the buttons it tells.
LEMMA LeavesTypes ==
  ASSUME MouseInv, Leaves, sending # <<>>
  PROVE  /\ \A i \in 1 .. Len(sending') : sending'[i] \in 0 .. 255
         /\ buttons' = IF Place = 0 THEN <<Bit(Head(sending), 1), Bit(Head(sending), 2),
                                           Bit(Head(sending), 4)>>
                       ELSE buttons
         /\ buttons' \in (0 .. 1) \X (0 .. 1) \X (0 .. 1)
<1>1. Head(sending) \in 0 .. 255 /\ SendingOK'
  BY LeavesPlace DEF MouseInv
<1>2. /\ Bit(Head(sending), 1) \in 0 .. 1 /\ Bit(Head(sending), 2) \in 0 .. 1
      /\ Bit(Head(sending), 4) \in 0 .. 1
  BY <1>1, BitType
<1>3. /\ buttons' = IF Place = 0 THEN <<Bit(Head(sending), 1), Bit(Head(sending), 2),
                                        Bit(Head(sending), 4)>>
                    ELSE buttons
      /\ buttons \in (0 .. 1) \X (0 .. 1) \X (0 .. 1)
  BY DEF Leaves, MouseInv, MouseTypeOK
<1>4. buttons' \in (0 .. 1) \X (0 .. 1) \X (0 .. 1)
  BY <1>2, <1>3, SMT
<1>5. \A i \in 1 .. Len(sending') : sending'[i] \in 0 .. 255
  BY <1>1, Elements, Zenon DEF SendingOK
<1> QED BY <1>3, <1>4, <1>5

\* A driver that is out of step is brought nearer to it, or has all the calm
\* bytes still to come.
Realigning ==
  /\ mouse_counter \in 0 .. 2 /\ SendingOK /\ calm \in 0 .. CalmEnough
  /\ calm + Rank(mouse_counter, Place % 3) <= CalmEnough

\* From any place to any other it takes four calm bytes at most.
LEMMA AnyRank == SendingOK /\ mouse_counter \in 0 .. 2 /\ calm = 0 => Realigning
<1> SUFFICES ASSUME SendingOK, mouse_counter \in 0 .. 2, calm = 0 PROVE Realigning
  OBVIOUS
<1>1. Place % 3 \in 0 .. 2
  BY SMT DEF SendingOK, Place
<1>2. \A c \in 0 .. 2, p \in 0 .. 2 : 0 + Rank(c, p) <= 4
  BY SMT DEF Rank
<1> QED BY <1>1, <1>2, SMT DEF Realigning, CalmEnough

LEMMA AnyRankNext == SendingOK' /\ mouse_counter' \in 0 .. 2 /\ calm' = 0 => Realigning'
<1> DEFINE Anew == SendingOK /\ mouse_counter \in 0 .. 2 /\ calm = 0
<1>1. Anew => Realigning
  BY AnyRank
<1>2. Anew' => Realigning'
  <2> HIDE DEF Anew
  <2> QED BY <1>1, PTL
<1> QED BY <1>2

\* The mouse begins a packet: the place it is at is the same.
LEMMA SendPlace ==
  ASSUME NEW packet \in Packets, Send(packet)
  PROVE  SendingOK' /\ Place % 3 = 0 /\ (Place % 3)' = 0
<1>1. packet \in Seq(0 .. 255) /\ Len(packet) = 3 /\ Bit(packet[1], 8) = 1
  BY PacketType
<1>2. sending = <<>> /\ sending' = packet
  BY DEF Send
<1>3. Len(sending) = 0 /\ Len(sending') = 3
  BY <1>1, <1>2, SMT
<1>4. (3 - 0) % 3 = 0 /\ (3 - 3) % 3 = 0 /\ 3 <= 3
  BY SMT
<1>5. Place % 3 = 0 /\ (Place % 3)' = 0
  BY <1>3, <1>4, Zenon DEF Place
<1> QED BY <1>1, <1>2, <1>4, <1>5, Zenon DEF SendingOK

\* A byte is delivered: it takes a driver that is out of step one byte nearer,
\* unless it could be taken for the first of a packet.
LEMMA InterruptRealigns ==
  ASSUME Realigning, irq12_interrupt_handler
  PROVE  Realigning' /\ (InStep => InStep')
<1> DEFINE byte == Head(sending)
<1>1. /\ sending # <<>> /\ Leaves /\ store_mouse_data(byte)
      /\ calm' = IF Place > 0 /\ Bit(byte, 8) = 1 THEN 0
                 ELSE IF calm < CalmEnough THEN calm + 1 ELSE calm
  BY DEF irq12_interrupt_handler
<1>2. /\ byte \in 0 .. 255 /\ Place \in 0 .. 2 /\ Place' = Place + 1
      /\ Place = 0 => Bit(byte, 8) = 1
      /\ SendingOK'
  BY <1>1, LeavesPlace DEF Realigning
<1>3. Bit(byte, 8) \in 0 .. 1
  BY <1>2, BitType
<1>4. mouse_counter' = IF mouse_counter = 2 \/ (mouse_counter = 0 /\ Bit(byte, 8) = 0)
                       THEN 0 ELSE mouse_counter + 1
  BY <1>1, DriverCounts DEF Realigning
<1>5. /\ mouse_counter \in 0 .. 2 /\ calm \in 0 .. CalmEnough
      /\ calm + Rank(mouse_counter, Place % 3) <= CalmEnough
  BY DEF Realigning
<1> HIDE DEF byte
<1>6. Place' % 3 = (Place + 1) % 3
  BY <1>2
<1>7. mouse_counter = Place % 3 => mouse_counter' = Place' % 3
  BY <1>2, <1>4, <1>5, <1>6, SMT
<1>8. calm' + Rank(mouse_counter', Place' % 3) <= 4
  BY <1>1, <1>2, <1>3, <1>4, <1>5, <1>6, SMT DEF Rank, CalmEnough
<1>9. calm' \in 0 .. 4 /\ mouse_counter' \in 0 .. 2
  BY <1>1, <1>4, <1>5, SMT DEF CalmEnough
<1> QED BY <1>2, <1>7, <1>8, <1>9 DEF Realigning, InStep, CalmEnough

LEMMA CalmInStep == Realigning /\ calm = CalmEnough => InStep
<1> SUFFICES ASSUME Realigning, calm = CalmEnough PROVE InStep
  OBVIOUS
<1>1. mouse_counter \in 0 .. 2 /\ Place % 3 \in 0 .. 2
  BY SMT DEF Realigning, SendingOK, Place
<1>2. CalmEnough + Rank(mouse_counter, Place % 3) <= CalmEnough
  BY DEF Realigning
<1>3. \A c \in 0 .. 2, p \in 0 .. 2 : 4 + Rank(c, p) <= 4 => c = p
  BY SMT DEF Rank
<1> QED BY <1>1, <1>2, <1>3, Zenon DEF InStep, CalmEnough

-----------------------------------------------------------------------------
(* The invariant. *)

\* It holds at first.
LEMMA MouseInvHoldsAtFirst == MouseInit => MouseInv
<1> SUFFICES ASSUME MouseInit PROVE MouseInv
  OBVIOUS
<1>1. MouseTypeOK
  <2>1. /\ StartX \in 0 .. MaxX /\ StartY \in 0 .. MaxY
        /\ 0 \in 0 .. MaxPackets /\ 0 \in 0 .. MaxLost
    BY SizeAssumption, BoundAssumption, SMT
  <2>2. <<0, 0, 0>> \in (0 .. 1) \X (0 .. 1) \X (0 .. 1)
    BY SMT
  <2> QED BY <2>1, <2>2, SMT DEF MouseTypeOK, MouseInit, CalmEnough
<1>2. SendingOK
  BY SMT DEF SendingOK, MouseInit
<1>3. Place % 3 = 0 /\ InStep
  BY SMT DEF MouseInit, Place, InStep
<1>4. Aligned
  BY <1>3, SMT DEF Aligned, Rank, MouseInit, CalmEnough
<1>5. ButtonsCurrent
  BY SMT DEF ButtonsCurrent, MouseInit
<1> QED BY <1>1, <1>2, <1>4, <1>5 DEF MouseInv

\* The mouse begins a packet.
LEMMA SendKeepsMouseInv ==
  ASSUME MouseInv, NEW packet \in Packets, Send(packet)
  PROVE  MouseInv'
<1>1. packet \in Seq(0 .. 255) /\ Len(packet) = 3 /\ Bit(packet[1], 8) = 1
  BY PacketType
<1>2. sending = <<>> /\ sending' = packet /\ sent < MaxPackets /\ sent' = sent + 1
  BY DEF Send
<1>3. /\ mouse_counter' = mouse_counter /\ mousebytes' = mousebytes /\ data' = data
      /\ buttons' = buttons /\ lost' = lost /\ calm' = calm
  BY DEF Send, driverVars
<1>4. Place % 3 = 0 /\ (Place % 3)' = 0 /\ SendingOK'
  BY SendPlace
<1>5. MouseTypeOK'
  <2>1. sent' \in 0 .. MaxPackets
    BY <1>2, BoundAssumption, SMT DEF MouseInv, MouseTypeOK
  <2>2. Len(sending') <= 3 /\ \A i \in 1 .. Len(sending') : sending'[i] \in 0 .. 255
    <3>1. 3 <= 3
      BY SMT
    <3> QED BY <1>1, <1>2, <3>1, Elements, Zenon
  <2> QED BY <1>3, <2>1, <2>2 DEF MouseInv, MouseTypeOK
<1>6. Aligned'
  BY <1>3, <1>4 DEF MouseInv, Aligned, InStep
<1>7. ButtonsCurrent'
  BY <1>3 DEF MouseInv, ButtonsCurrent
<1> QED BY <1>4, <1>5, <1>6, <1>7 DEF MouseInv

\* A byte is lost.
LEMMA LoseKeepsMouseInv ==
  ASSUME MouseInv, Lose
  PROVE  MouseInv'
<1>1. /\ sending # <<>> /\ Leaves /\ lost < MaxLost
      /\ lost' = lost + 1 /\ calm' = 0 /\ sent' = sent
      /\ mouse_counter' = mouse_counter /\ mousebytes' = mousebytes /\ data' = data
  BY DEF Lose, Leaves, driverVars
<1>2. lost' \in 0 .. MaxLost /\ lost' # 0
  BY <1>1, BoundAssumption, SMT DEF MouseInv, MouseTypeOK
<1>3. MouseTypeOK'
  <2>1. Len(sending') <= 3
    BY <1>1, LeavesPlace DEF MouseInv, SendingOK
  <2>2. calm' \in 0 .. CalmEnough
    BY <1>1, SMT DEF CalmEnough
  <2> QED BY <1>1, <1>2, <2>1, <2>2, LeavesTypes DEF MouseInv, MouseTypeOK
<1>4. Aligned' /\ SendingOK'
  <2>1. SendingOK' /\ mouse_counter' \in 0 .. 2
    BY <1>1, LeavesPlace DEF MouseInv, MouseTypeOK
  <2> QED BY <1>1, <1>2, <2>1, AnyRankNext DEF Aligned, Realigning
<1>5. ButtonsCurrent'
  BY <1>2 DEF ButtonsCurrent
<1> QED BY <1>3, <1>4, <1>5 DEF MouseInv

\* A byte is delivered.
LEMMA InterruptKeepsMouseInv ==
  ASSUME MouseInv, irq12_interrupt_handler
  PROVE  MouseInv'
<1> DEFINE byte == Head(sending)
<1>1. /\ sending # <<>> /\ Leaves /\ store_mouse_data(byte)
      /\ lost' = lost /\ sent' = sent
      /\ calm' = IF Place > 0 /\ Bit(byte, 8) = 1 THEN 0
                 ELSE IF calm < CalmEnough THEN calm + 1 ELSE calm
  BY DEF irq12_interrupt_handler, Leaves
<1>2. /\ byte \in 0 .. 255 /\ Place \in 0 .. 2 /\ Len(sending') <= 2
  BY <1>1, LeavesPlace DEF MouseInv
<1>3. Realigning /\ (lost = 0 => InStep)
  BY DEF MouseInv, MouseTypeOK, Aligned, Realigning
<1>4. Realigning' /\ (InStep => InStep')
  BY <1>3, InterruptRealigns
<1>5. ButtonsCurrent'
  <2>1. <<data'.left_click, data'.right_click, data'.middle_click>> =
          IF mouse_counter = 0 THEN <<Bit(byte, 1), Bit(byte, 2), Bit(byte, 4)>>
          ELSE <<data.left_click, data.right_click, data.middle_click>>
    BY <1>1, <1>2, DriverButtons DEF MouseInv
  <2>2. buttons' = IF Place = 0 THEN <<Bit(byte, 1), Bit(byte, 2), Bit(byte, 4)>> ELSE buttons
    BY <1>1, LeavesTypes
  <2>3. lost = 0 => (mouse_counter = 0 <=> Place = 0)
    BY <1>2, <1>3, SMT DEF InStep
  <2> HIDE DEF byte
  <2> QED BY <1>1, <2>1, <2>2, <2>3, Zenon DEF MouseInv, ButtonsCurrent
<1>6. MouseTypeOK'
  <2>1. Len(sending') <= 3 /\ calm' \in 0 .. CalmEnough
    BY <1>4 DEF Realigning, SendingOK
  <2> QED BY <1>1, <1>2, <2>1, LeavesTypes, DriverTypes, ZenonT(30) DEF MouseInv, MouseTypeOK
<1>7. Aligned' /\ SendingOK'
  BY <1>1, <1>3, <1>4 DEF Aligned, Realigning
<1> QED BY <1>5, <1>6, <1>7 DEF MouseInv

\* Nothing happens.
LEMMA StutterKeepsMouseInv ==
  ASSUME MouseInv, UNCHANGED mouseVars
  PROVE  MouseInv'
BY DEF MouseInv, MouseTypeOK, SendingOK, Aligned, ButtonsCurrent, InStep, Place,
       mouseVars, driverVars

\* No behaviour leaves it.
LEMMA MouseInvariant == MouseSpec => []MouseInv
<1>1. MouseInv /\ [MouseNext]_mouseVars => MouseInv'
  BY SendKeepsMouseInv, LoseKeepsMouseInv, InterruptKeepsMouseInv, StutterKeepsMouseInv
     DEF MouseNext
<1> QED BY <1>1, MouseInvHoldsAtFirst, PTL DEF MouseSpec

-----------------------------------------------------------------------------
(* The theorems. *)

\* The cursor is on the screen, whatever the mouse sends and whatever is lost.
THEOREM MouseTypeCorrect == MouseSpec => []MouseTypeOK
<1>1. MouseInv => MouseTypeOK
  BY DEF MouseInv
<1> QED BY <1>1, MouseInvariant, PTL

\* Four calm bytes bring the driver in step with the mouse, and it is never out
\* of step when no byte is lost.
THEOREM FallsIntoStep == MouseSpec => []RealignsWhenCalm
<1>1. MouseInv => RealignsWhenCalm
  BY CalmInStep DEF MouseInv, MouseTypeOK, Aligned, Realigning, RealignsWhenCalm
<1> QED BY <1>1, MouseInvariant, PTL

\* The buttons reported are the mouse's as long as no byte is lost.
THEOREM ButtonsReported == MouseSpec => []ButtonsCurrent
<1>1. MouseInv => ButtonsCurrent
  BY DEF MouseInv
<1> QED BY <1>1, MouseInvariant, PTL

\* The cursor moves as the packets tell.
THEOREM CursorFollows == MouseSpec => CursorMovesByPacket
<1> DEFINE Follows ==
      LET dx == data'.x_pos - data.x_pos
          dy == data'.y_pos - data.y_pos
      IN  dx # 0 \/ dy # 0 =>
            /\ mouse_counter = 2
            /\ dx \in -51 .. 51 /\ dy \in -51 .. 51
            /\ dx > 0 => mousebytes.x_sb = 0
            /\ dx < 0 => mousebytes.x_sb = 1
            /\ dy < 0 => mousebytes.y_sb = 0
            /\ dy > 0 => mousebytes.y_sb = 1
<1>1. ASSUME MouseInv, MouseNext
      PROVE  Follows
  <2>0. /\ data \in [x_pos : 0 .. MaxX, y_pos : 0 .. MaxY,
                     left_click : 0 .. 1, right_click : 0 .. 1, middle_click : 0 .. 1]
        /\ data.x_pos \in Int /\ data.y_pos \in Int
    BY <1>1, MaxType, SMT DEF MouseInv, MouseTypeOK
  <2>1. CASE data'.x_pos = data.x_pos /\ data'.y_pos = data.y_pos
    BY <2>0, <2>1, SMT
  <2>2. CASE irq12_interrupt_handler
    <3> DEFINE byte == Head(sending)
    <3>1. /\ byte \in 0 .. 255 /\ store_mouse_data(byte)
      BY <1>1, <2>2, HeadAndTail, Zenon DEF irq12_interrupt_handler, MouseInv, SendingOK
    <3> HIDE DEF byte
    <3>2. CASE mouse_counter = 0 /\ FirstByte(byte)
      <4>1. data' = [data EXCEPT !.left_click = Bit(byte, 1), !.right_click = Bit(byte, 2),
                                 !.middle_click = Bit(byte, 4)]
        BY <3>2, Zenon DEF FirstByte
      <4>2. data'.x_pos = data.x_pos /\ data'.y_pos = data.y_pos
        BY <2>0, <4>1, SMT
      <4> QED BY <2>1, <4>2
    <3>3. CASE mouse_counter = 1 /\ SecondByte(byte)
      <4>1. data' = data
        BY <3>3 DEF SecondByte
      <4> QED BY <2>1, <4>1
    <3>4. CASE mouse_counter = 2 /\ ThirdByte(byte)
      <4>1. data' = Moved(byte)
        BY <3>4 DEF ThirdByte
      <4>2. MouseTypeOK
        BY <1>1 DEF MouseInv
      <4>3. /\ data'.x_pos \in 0 .. MaxX /\ data'.y_pos \in 0 .. MaxY
            /\ data'.x_pos - data.x_pos \in -51 .. 51
            /\ data'.y_pos - data.y_pos \in -51 .. 51
            /\ data'.x_pos > data.x_pos => mousebytes.x_sb = 0
            /\ data'.x_pos < data.x_pos => mousebytes.x_sb = 1
            /\ data'.y_pos < data.y_pos => mousebytes.y_sb = 0
            /\ data'.y_pos > data.y_pos => mousebytes.y_sb = 1
        BY <3>1, <4>1, <4>2, MovedBounds
      <4>4. data'.x_pos \in Int /\ data'.y_pos \in Int
        BY <4>3, MaxType, SMT
      <4> QED BY <2>0, <3>4, <4>3, <4>4, SMT
    <3> QED BY <1>1, <3>1, <3>2, <3>3, <3>4, DriverParts DEF MouseInv, MouseTypeOK
  <2>3. CASE \E packet \in Packets : Send(packet)
    <3>1. data' = data
      BY <2>3 DEF Send, driverVars
    <3> QED BY <2>1, <3>1
  <2>4. CASE Lose
    <3>1. data' = data
      BY <2>4 DEF Lose, driverVars
    <3> QED BY <2>1, <3>1
  <2> QED BY <1>1, <2>2, <2>3, <2>4 DEF MouseNext
<1>2. MouseInv /\ [MouseNext]_mouseVars => [Follows]_mouseVars
  BY <1>1
<1> QED BY <1>2, MouseInvariant, PTL DEF MouseSpec, CursorMovesByPacket
=============================================================================
