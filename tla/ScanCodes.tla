------------------------------ MODULE ScanCodes ------------------------------
(***************************************************************************)
(* The decoding of PS/2 scan codes (set 1) in kernel/char.c: the two       *)
(* tables and getchar, as operators on the modifier flags.                 *)
(***************************************************************************)
EXTENDS Integers, Sequences

\* Codes 0 to 88.  Sequences count from 1: entry code + 1 is for code.
\* 129 to 155 stand for the function keys, the locks and the keypad.
keypad == [i \in 1 .. 25 |-> 128 + i] \o <<0, 0, 0, 154, 155>>

table ==
  << 0, 0, 49, 50, 51, 52, 53, 54, 55, 56, 57, 48, 45, 61, 8, 9,
     113, 119, 101, 114, 116, 121, 117, 105, 111, 112, 91, 93, 10, 0, 97, 115,
     100, 102, 103, 104, 106, 107, 108, 59, 39, 96, 0, 92, 122, 120, 99, 118,
     98, 110, 109, 44, 46, 47, 0, 42, 0, 32, 0 >> \o keypad

uppercase_table ==
  << 0, 0, 33, 64, 35, 36, 37, 94, 38, 42, 40, 41, 95, 43, 8, 9,
     81, 87, 69, 82, 84, 89, 85, 73, 79, 80, 123, 125, 10, 0, 65, 83,
     68, 70, 71, 72, 74, 75, 76, 58, 34, 126, 0, 124, 90, 88, 67, 86,
     66, 78, 77, 60, 62, 63, 0, 42, 0, 32, 0 >> \o keypad

\* Codes getchar treats on their own.
LShiftDown == 42      \* 0x2A
RShiftDown == 54      \* 0x36
LShiftUp == 170       \* 0xAA
RShiftUp == 182       \* 0xB6
CapsUp == 186         \* 0xBA, the release of caps lock
Backspace == 14       \* 0x0E, decoded to the character BACKSPACE

BACKSPACE == 8

\* The flags after code ch, from the flags m before it.
FlagsAfter_CapsOnPress(m, ch) ==
  [lshift   |-> IF ch = LShiftDown THEN 1 ELSE IF ch = LShiftUp THEN 0 ELSE m.lshift,
   rshift   |-> IF ch = RShiftDown THEN 1 ELSE IF ch = RShiftUp THEN 0 ELSE m.rshift,
   capslock |-> IF ch = CapsUp - 128 THEN 1 - m.capslock ELSE m.capslock]

FlagsAfter(m, ch) ==
  [lshift   |-> IF ch = LShiftDown THEN 1 ELSE IF ch = LShiftUp THEN 0 ELSE m.lshift,
   rshift   |-> IF ch = RShiftDown THEN 1 ELSE IF ch = RShiftUp THEN 0 ELSE m.rshift,
   capslock |-> IF ch = CapsUp THEN 1 - m.capslock ELSE m.capslock]

\* What getchar returns for code ch, with the flags m it has just updated:
\* a byte, 0 for a release, a prefix or a key with no character.
getchar_NoCaps(m, ch) ==
  CASE ch = Backspace -> BACKSPACE
    [] ch # Backspace /\ ch <= 88 ->
         (IF 1 \in {m.lshift, m.rshift} THEN uppercase_table ELSE table)[ch + 1]
    [] OTHER -> 0

getchar(m, ch) ==
  CASE ch = Backspace -> BACKSPACE
    [] ch # Backspace /\ ch <= 88 ->
         (IF 1 \in {m.lshift, m.rshift, m.capslock} THEN uppercase_table ELSE table)[ch + 1]
    [] OTHER -> 0

\* A byte stored in a char, which is signed on this target.
AsChar(byte) == IF byte > 127 THEN byte - 256 ELSE byte

\* The handler's test before it stores a character.
Stored(char) == char # 0 /\ char <= 127
=============================================================================
