------------------------------ MODULE Keyboard -------------------------------
(***************************************************************************)
(* Keyboard input from the key to the program: the PS/2 keyboard (external *)
(* to this repository), the handler of IRQ 1 (kernel/handler.c) with its   *)
(* decoder (ScanCodes), the buffer and kgetc (KeyRing), and the system     *)
(* call read (kernel/posix.c) of the one program that runs.                *)
(***************************************************************************)
EXTENDS KeyRing, ScanCodes

CONSTANTS Layout,      \* printable keys: make code -> <<plain, shifted>> character
          Extended,    \* keys that send the prefix 0xE0
          Modifiers,   \* the make codes of the shift and caps lock keys pressed
          MaxWire,     \* bound: bytes sent and not yet handled
          Sizes        \* the sizes of the reads the program asks for

\* A char holds 8 bits with a sign; NUL is the answer of an empty buffer.
ASSUME CharAssumption == Char = (-128 .. 127) \ {NUL}

\* The keys are labelled with what the tables of char.c hold.
ASSUME LayoutAssumption ==
  \A k \in DOMAIN Layout :
    /\ k \in 1 .. 88 \ {LShiftDown, RShiftDown, CapsUp - 128}
    /\ Layout[k] = IF k = Backspace THEN <<BACKSPACE, BACKSPACE>>
                   ELSE <<table[k + 1], uppercase_table[k + 1]>>
    /\ Layout[k][1] \in 1 .. 127 /\ Layout[k][2] \in 1 .. 127

\* From Home to Delete.
ASSUME ExtendedAssumption == Extended \subseteq 71 .. 83

\* The modifiers are those getchar knows.
ASSUME ModifiersAssumption == Modifiers \subseteq {LShiftDown, RShiftDown, CapsUp - 128}

ASSUME BoundsAssumption == MaxWire \in Nat /\ Sizes \subseteq Nat

VARIABLES held,        \* keyboard: the modifier keys that are down
          capsPresses, \* keyboard: caps lock keys pressed and released, modulo 2
          wire,        \* keyboard: the bytes the controller has still to deliver
          presses,     \* history: character keys pressed (bounded by MaxKeys)
          typed,       \* history: the printable characters typed
          dropped,     \* history: did a full buffer lose a key?
          flags,       \* lshift, rshift and capslock of char.h
          rd,          \* where sys_read is, "user" when the program runs
          size,        \* its parameter
          output,      \* the bytes in the program's buffer so far
          result,      \* what the last call returned
          given,       \* history: the keys in the bytes it returned
          received     \* history: the bytes of the calls that returned, except
                       \* the zeros of calls that did not wait

keyboardVars == <<held, capsPresses, wire, presses, typed>>
readVars == <<rd, size, output, result, given, received>>
allVars == <<vars, keyboardVars, dropped, flags, readVars>>

Keys == DOMAIN Layout \cup Extended \cup Modifiers

\* The members of S in the sequence seq.
Filter(seq, S) ==
  LET kept[i \in 0 .. Len(seq)] ==
        IF i = 0 THEN <<>>
        ELSE IF seq[i] \in S THEN Append(kept[i - 1], seq[i]) ELSE kept[i - 1]
  IN  kept[Len(seq)]

KeyboardInit ==
  /\ Init
  /\ held = {} /\ capsPresses = 0 /\ wire = <<>> /\ presses = 0 /\ typed = <<>>
  /\ dropped = FALSE
  /\ flags = [lshift |-> 0, rshift |-> 0, capslock |-> 0]
  /\ rd = "user" /\ size = 0 /\ output = <<>>
  /\ result = 0 /\ given = 0 /\ received = <<>>

-----------------------------------------------------------------------------
(* The keyboard: not part of the repository. *)

\* What a key means to the person who presses it: a shift key held, or caps
\* lock pressed and released an odd number of times, selects the capital.
Meaning(k) ==
  Layout[k][IF held \cap {LShiftDown, RShiftDown} # {} \/ capsPresses = 1 THEN 2 ELSE 1]

Bytes(k) == IF k \in Extended THEN <<224, k>> ELSE <<k>>

\* A key goes down, or repeats because it is held down.
Press(k) ==
  /\ Len(wire) + Len(Bytes(k)) <= MaxWire
  /\ IF k \in Modifiers
     THEN /\ held' = held \cup {k}
          /\ UNCHANGED <<presses, typed>>
     ELSE /\ presses < MaxKeys
          /\ presses' = presses + 1
          /\ typed' = IF k \in DOMAIN Layout THEN Append(typed, Meaning(k)) ELSE typed
          /\ UNCHANGED held
  /\ wire' = wire \o Bytes(k)
  /\ UNCHANGED <<vars, capsPresses, dropped, flags, readVars>>

\* A modifier goes up.  The release of another key sends a byte that getchar
\* decodes to 0 and that changes no flag.
Release(k) ==
  /\ k \in held
  /\ Len(wire) < MaxWire
  /\ held' = held \ {k}
  /\ capsPresses' = IF k = CapsUp - 128 THEN 1 - capsPresses ELSE capsPresses
  /\ wire' = Append(wire, k + 128)
  /\ UNCHANGED <<vars, presses, typed, dropped, flags, readVars>>

-----------------------------------------------------------------------------
(* The handler of IRQ 1, once for every byte. *)

irq1_NoFilter ==
  /\ wire # <<>>
  /\ wire' = Tail(wire)
  /\ flags' = FlagsAfter(flags, Head(wire))
  /\ buffer_put(AsChar(getchar(flags', Head(wire))))
  /\ dropped' = (dropped \/ count = BUFFER_SIZE)
  /\ UNCHANGED <<callVars, build, delivered, held, capsPresses, presses, typed,
                 readVars>>

irq1_interrupt_handler ==
  /\ wire # <<>>
  /\ wire' = Tail(wire)
  /\ flags' = FlagsAfter(flags, Head(wire))
  /\ LET char == AsChar(getchar(flags', Head(wire)))
     IN  IF Stored(char)
         THEN /\ buffer_put(char)
              /\ dropped' = (dropped \/ count = BUFFER_SIZE)
         ELSE UNCHANGED <<ringVars, accepted, raced, dropped>>
  /\ UNCHANGED <<callVars, build, delivered, held, capsPresses, presses, typed,
                 readVars>>

-----------------------------------------------------------------------------
(* The system call read. *)

STDIN == 0
STDIN_NONBLOCKING == 3

\* The program calls read on a descriptor that is not standard input.
ReadRefused(fd) ==
  /\ rd = "user" /\ fd \notin {STDIN, STDIN_NONBLOCKING}
  /\ result' = -1 /\ given' = 0
  /\ UNCHANGED <<vars, keyboardVars, dropped, flags, rd, size, output, received>>

\* read calls kgetc once before it looks at size.
ReadEnter(fd, n) ==
  /\ rd = "user" /\ fd \in {STDIN, STDIN_NONBLOCKING}
  /\ rd' = "first" /\ size' = n /\ result' = 0 /\ given' = 0
  /\ Call(fd = STDIN)
  /\ UNCHANGED <<keyboardVars, dropped, flags, output, received>>

\* After a byte has been handled with `bytes` in the buffer: call kgetc again
\* or return the number of bytes.
ReadGoesOn(bytes) ==
  /\ IF Len(bytes) < size
     THEN /\ rd' = "rest" /\ output' = bytes
          /\ Call(blocking)
          /\ UNCHANGED <<size, result, given, received>>
     ELSE LET keys == Filter(bytes, Char)
          IN  /\ rd' = "user" /\ output' = <<>> /\ size' = 0
              /\ result' = Len(bytes) /\ given' = Len(keys)
              /\ received' = received \o keys
              /\ UNCHANGED vars
  /\ UNCHANGED <<keyboardVars, dropped, flags>>

\* kgetc has returned the first byte, which is stored whatever it is.
ReadFirst_Discards ==
  /\ rd = "first" /\ pc = "idle"
  /\ ReadGoesOn(<<>>)

ReadFirst ==
  /\ rd = "first" /\ pc = "idle"
  /\ ReadGoesOn(<<c>>)

\* kgetc has returned another byte: a backspace takes the last one back.
ReadNext ==
  /\ rd = "rest" /\ pc = "idle"
  /\ ReadGoesOn(IF c = BACKSPACE
                THEN SubSeq(output, 1, Len(output) - 1)
                ELSE Append(output, c))

\* kgetc runs.
KgetcStep == Step /\ UNCHANGED <<keyboardVars, dropped, flags, readVars>>

ReadStep == KgetcStep \/ ReadFirst \/ ReadNext

KeyboardNext ==
  \/ \E k \in Keys : Press(k) \/ Release(k)
  \/ irq1_interrupt_handler
  \/ \E fd \in {STDIN, 1} : ReadRefused(fd)
  \/ \E fd \in {STDIN, STDIN_NONBLOCKING}, n \in Sizes : ReadEnter(fd, n)
  \/ ReadStep

\* The controller raises IRQ 1 for every byte it holds and interrupts are
\* enabled while the program and the system call run; between interrupts the
\* processor goes on with the system call.
KeyboardFairness == WF_allVars(irq1_interrupt_handler) /\ WF_allVars(ReadStep)

KeyboardSpec == KeyboardInit /\ [][KeyboardNext]_allVars /\ KeyboardFairness

-----------------------------------------------------------------------------
(* What holds. *)

Byte == 0 .. 255

KeyboardTypeOK ==
  /\ TypeOK
  /\ held \subseteq Modifiers /\ capsPresses \in 0 .. 1
  /\ wire \in Seq(Byte) /\ Len(wire) <= MaxWire
  /\ presses \in 0 .. MaxKeys
  /\ flags \in [lshift : 0 .. 1, rshift : 0 .. 1, capslock : 0 .. 1]
  /\ rd \in {"user", "first", "rest"}
  /\ rd = "user" => pc = "idle"
  /\ size \in Sizes \cup {0}
  /\ output \in Seq(Char \cup {NUL}) /\ Len(output) <= size

\* When every byte has been handled the flags of char.h are the state of the
\* keyboard: a shift flag is up exactly while that key is held, whatever the
\* order in which the two are pressed, repeated and released, and caps lock
\* turns over once for a press however long it is held.
FlagsFollowKeys ==
  wire = <<>> => /\ flags.lshift = 1 <=> LShiftDown \in held
                 /\ flags.rshift = 1 <=> RShiftDown \in held
                 /\ flags.capslock = capsPresses

Printable == 1 .. 127

\* When every byte has been handled and none was lost to a full buffer, the
\* printable characters buffer_put stored are those that were typed, with the
\* case the keyboard had when the key went down.
StoredAsTyped ==
  wire = <<>> /\ ~dropped => Filter(accepted, Printable) = typed

\* The handler and read use the buffer as KeyRing says: what is proved of
\* KeyRing holds in the whole input path.
UsesRing == Init /\ [][Next]_vars

\* Until a race and unless backspace is typed, the program receives what was
\* stored, in order, each key once: kgetc and read neither lose nor repeat a
\* key that was delivered to them, whichever mix of waiting and not waiting
\* reads the program makes.
ReceivedInOrder ==
  (~raced /\ rd = "user" /\ \A i \in 1 .. Len(accepted) : accepted[i] # BACKSPACE)
    => received = SubSeq(accepted, 1, Len(delivered))

\* A program that waits in read for one byte gets one after a printable key
\* has been pressed.
KeyEndsRead ==
  (/\ rd = "first" /\ size <= 1 /\ pc \in {"test", "spin"}
   /\ \E i \in 1 .. Len(wire) : wire[i] \in DOMAIN Layout) ~> (rd = "user")

\* handler.c:146 "If the character can be printed, add it to our buffer": only
\* characters that can be printed, or control characters, are in the buffer.
OnlyPrintable == \A i \in 1 .. Len(accepted) : accepted[i] \in Printable

\* posix.c:43 "the number of bytes read (possibly 0 for non-blocking file
\* descriptor)": read returns no more than the number of keys it gives.
ReadCountsKeys == rd = "user" => result <= given
=============================================================================
