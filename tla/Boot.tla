-------------------------------- MODULE Boot ---------------------------------
(***************************************************************************)
(* From _start of kernel/boot.c to the first program: the tables of        *)
(* interrupts, the free list, the PICs of kernel/pic.c, and the handshake  *)
(* of initialize_mouse with the keyboard controller and the mouse, while   *)
(* interrupts are on.                                                      *)
(*                                                                         *)
(* The kernel runs a script of instructions, one a step.  The controller   *)
(* (external) hands out one byte at a time, to whoever reads port 0x60     *)
(* first; reading when there is none gives the last byte again.  A byte of *)
(* the keyboard, or the controller's own, raises IRQ 1, one of the mouse   *)
(* IRQ 12, as far as the controller's status byte enables them.            *)
(***************************************************************************)
EXTENDS Mouse

CONSTANTS Regions,     \* the memory map: sequence of [base, length, usable]
          PAGE_SIZE,
          Firmware,    \* status bytes the firmware may leave in the controller
          Key, MaxKeys \* the byte of a key, and how many are pressed while booting

Lines == {0, 1, 2, 12}

VARIABLES pc,          \* the next instruction of the script
          intr,        \* are interrupts enabled?
          masked,      \* the lines the PICs mask
          gates,       \* the lines that have a handler
          freelist,    \* the pages on the free list, the last first
          cursor,      \* has initialize_cursor made room for the mouse's data?
          crashed,     \* has IRQ 12 been handled without?
          status,      \* initialize_mouse's local variable
          command,     \* controller: the last command
          conf,        \* controller: its status byte
          waiting,     \* controller: the bytes to be read
          latch,       \* controller: the byte last read
          owed,        \* mouse: the replies still to be sent
          streaming,   \* mouse: is it to send packets?
          keys         \* keys pressed

kernelVars == <<pc, intr, masked, gates, freelist, cursor, crashed, status>>
controllerVars == <<command, conf, waiting, latch, owed, streaming, keys>>
bootVars == <<mouseVars, kernelVars, controllerVars>>

-----------------------------------------------------------------------------
(* The script. *)

Do(what, arg) == [what |-> what, arg |-> arg]

mouse_write(byte) == <<Do("wait_to_send", 0), Do("out 0x64", 212),
                       Do("wait_to_send", 0), Do("out 0x60", byte)>>
mouse_read == <<Do("wait_to_read", 0), Do("in 0x60", 0)>>

initialize_mouse ==
  <<Do("wait_to_send", 0), Do("out 0x64", 168),
    Do("wait_to_send", 0), Do("out 0x64", 32), Do("wait_to_read", 0), Do("read status", 0),
    Do("wait_to_send", 0), Do("out 0x64", 96), Do("wait_to_send", 0), Do("write status", 0)>>
  \o mouse_write(255) \o mouse_read
  \o mouse_write(246) \o mouse_read
  \o mouse_write(244) \o mouse_read

pic_init == <<Do("mask all", 0), Do("sti", 0)>>

devices_MouseFirst == initialize_mouse \o <<Do("initialize_cursor", 0)>>
devices == <<Do("initialize_cursor", 0)>> \o initialize_mouse

start == <<Do("idt_setup", 0), Do("freelist_init", 0)>>
         \o pic_init \o <<Do("unmask", 1), Do("unmask", 2), Do("unmask", 12)>>
         \o devices

Booted == pc > Len(start)
At(what) == ~Booted /\ ~crashed /\ start[pc].what = what
Arg == start[pc].arg

\* The firmware leaves interrupts off, the PICs as it likes, and the mouse still.
BootInit ==
  /\ MouseInit
  /\ pc = 1 /\ intr = FALSE /\ masked \in {{}, Lines} /\ gates = {}
  /\ freelist = <<>> /\ cursor = FALSE /\ crashed = FALSE /\ status = 0
  /\ command = 0 /\ conf \in Firmware /\ waiting = <<>> /\ latch = 0
  /\ owed = <<>> /\ streaming = FALSE /\ keys = 0

-----------------------------------------------------------------------------
(* Instructions that set the kernel up. *)

\* The bytes of a region before the first page boundary in it.
Gap(r) == (PAGE_SIZE - (r.base % PAGE_SIZE)) % PAGE_SIZE

\* The boot protocol's usable regions are longer than that (its length is
\* unsigned: that of a shorter one would wrap), and none reaches into another.
ASSUME RegionsAssumption ==
  /\ PAGE_SIZE \in Nat \ {0}
  /\ Regions \in Seq([base : Nat, length : Nat, usable : BOOLEAN])
  /\ \A k \in DOMAIN Regions : Regions[k].usable => Regions[k].length >= Gap(Regions[k])
  /\ \A j, k \in DOMAIN Regions :
       Regions[j].usable /\ Regions[k].usable /\ j # k =>
         \/ Regions[j].base + Regions[j].length <= Regions[k].base
         \/ Regions[k].base + Regions[k].length <= Regions[j].base

\* The pages of a region, from the first page boundary on.
Rounded_KeepsLength(r) ==
  [first |-> (r.base + PAGE_SIZE - 1) \div PAGE_SIZE, count |-> r.length \div PAGE_SIZE]
Rounded(r) ==
  [first |-> (r.base + Gap(r)) \div PAGE_SIZE, count |-> (r.length - Gap(r)) \div PAGE_SIZE]

\* add_memory: each page is put before the others.
add_memory(list, r) ==
  LET pages == Rounded(r)
  IN  [k \in 1 .. pages.count |-> pages.first + pages.count - k] \o list

\* The list after the first i entries of the memory map.
added[i \in 0 .. Len(Regions)] ==
  IF i = 0 THEN <<>>
  ELSE IF Regions[i].usable THEN add_memory(added[i - 1], Regions[i]) ELSE added[i - 1]

freelist_init == added[Len(Regions)]

\* The lines idt_setup sets a handler for.
idt_setup == {1, 12}

\* One of the two PICs' masks, read and written back.
pic_unmask_irq(num) == masked \ {num}

Setup ==
  \/ /\ At("idt_setup") /\ gates' = idt_setup
     /\ UNCHANGED <<intr, masked, freelist, cursor>>
  \/ /\ At("freelist_init") /\ freelist' = freelist_init
     /\ UNCHANGED <<intr, masked, gates, cursor>>
  \/ /\ At("mask all") /\ masked' = Lines
     /\ UNCHANGED <<intr, gates, freelist, cursor>>
  \/ /\ At("sti") /\ intr' = TRUE
     /\ UNCHANGED <<masked, gates, freelist, cursor>>
  \/ /\ At("unmask") /\ masked' = pic_unmask_irq(Arg)
     /\ UNCHANGED <<intr, gates, freelist, cursor>>
  \/ /\ At("initialize_cursor") /\ cursor' = TRUE
     /\ UNCHANGED <<intr, masked, gates, freelist>>

\* mouse_wait returns when the controller is ready or it has waited long enough.
ReadyToRead == waiting # <<>> \/ sending # <<>>
mouse_wait_ForEver == \/ At("wait_to_send")
                      \/ At("wait_to_read") /\ ReadyToRead
mouse_wait == At("wait_to_send") \/ At("wait_to_read")

KernelInstruction == /\ \/ Setup
                        \/ mouse_wait /\ UNCHANGED <<intr, masked, gates, freelist, cursor>>
                     /\ pc' = pc + 1
                     /\ UNCHANGED <<mouseVars, controllerVars, crashed, status>>

-----------------------------------------------------------------------------
(* The controller and the mouse (external). *)

Byte(from, byte) == [from |-> from, byte |-> byte]

\* inb(0x60) returns b.  A byte of a packet that it takes is lost to the handler.
Inb(b) ==
  \/ /\ waiting # <<>> /\ b = Head(waiting).byte
     /\ waiting' = Tail(waiting) /\ latch' = b
     /\ UNCHANGED mouseVars
  \/ /\ waiting = <<>> /\ sending # <<>> /\ b = Head(sending) /\ latch' = b
     /\ Leaves /\ lost' = lost + 1 /\ calm' = 0
     /\ UNCHANGED <<driverVars, waiting>>
  \/ /\ waiting = <<>> /\ b = latch
     /\ UNCHANGED <<mouseVars, waiting, latch>>

\* Command 0x20 makes the controller give its status byte, 0xA8 lets the mouse
\* send; what 0x60 and 0xD4 do is up to the byte that follows.
CommandSent == /\ At("out 0x64") /\ command' = Arg
               /\ waiting' = IF Arg = 32 THEN Append(waiting, Byte("controller", conf)) ELSE waiting
               /\ conf' = IF Arg = 168 /\ Bit(conf, 32) = 1 THEN conf - 32 ELSE conf
               /\ pc' = pc + 1
               /\ UNCHANGED <<mouseVars, intr, masked, gates, freelist, cursor, crashed, status,
                              latch, owed, streaming, keys>>

\* The replies to reset, to defaults and to "stream".
ACK == 250
Reply(byte) == IF byte = 255 THEN <<ACK, 170, 0>> ELSE <<ACK>>

DataSent == /\ At("out 0x60") /\ command = 212
            /\ owed' = owed \o Reply(Arg)
            /\ streaming' = (Arg = 244)
            /\ pc' = pc + 1
            /\ UNCHANGED <<mouseVars, intr, masked, gates, freelist, cursor, crashed, status,
                           command, conf, waiting, latch, keys>>

\* initialize_mouse reads a byte from port 0x60: the status byte, in which it
\* turns on bit 1, or a reply, which it forgets.
ReadPort == /\ \E b \in 0 .. 255 :
                 /\ Inb(b)
                 /\ \/ At("read status") /\ status' = IF Bit(b, 2) = 1 THEN b ELSE b + 2
                    \/ At("in 0x60") /\ UNCHANGED status
            /\ pc' = pc + 1
            /\ UNCHANGED <<intr, masked, gates, freelist, cursor, crashed,
                           command, conf, owed, streaming, keys>>

WriteStatus == /\ At("write status") /\ command = 96
               /\ conf' = status
               /\ pc' = pc + 1
               /\ UNCHANGED <<mouseVars, intr, masked, gates, freelist, cursor, crashed, status,
                              command, waiting, latch, owed, streaming, keys>>

\* The mouse sends a reply; told to stream, it sends packets after the last.
MouseReplies == /\ owed # <<>> /\ Bit(conf, 32) = 0
                /\ waiting' = Append(waiting, Byte("mouse", Head(owed)))
                /\ owed' = Tail(owed)
                /\ UNCHANGED <<mouseVars, kernelVars, command, conf, latch, streaming, keys>>

MouseSends == /\ streaming /\ owed = <<>> /\ waiting = <<>>
              /\ \E packet \in Packets : Send(packet)
              /\ UNCHANGED <<kernelVars, controllerVars>>

KeyPressed == /\ keys < MaxKeys /\ Bit(conf, 16) = 0
              /\ keys' = keys + 1 /\ waiting' = Append(waiting, Byte("keyboard", Key))
              /\ UNCHANGED <<mouseVars, kernelVars, command, conf, latch, owed, streaming>>

-----------------------------------------------------------------------------
(* Interrupts. *)

Delivered(line) == intr /\ ~crashed /\ {line} \cap masked = {}

\* IRQ 1 takes a byte that is not the mouse's (what it does with it is Keyboard's).
IRQ1 == /\ Delivered(1) /\ Bit(conf, 1) = 1
        /\ waiting # <<>> /\ Head(waiting).from # "mouse"
        /\ waiting' = Tail(waiting) /\ latch' = Head(waiting).byte
        /\ UNCHANGED <<mouseVars, kernelVars, command, conf, owed, streaming, keys>>

\* IRQ 12 takes a byte of the mouse for one of a packet, whatever it is.
IRQ12Pending == /\ Delivered(12) /\ 2 \notin masked /\ Bit(conf, 2) = 1
                /\ IF waiting = <<>> THEN sending # <<>> ELSE Head(waiting).from = "mouse"

IRQ12 ==
  /\ IRQ12Pending
  /\ crashed' = ~cursor
  /\ IF waiting = <<>>
     THEN /\ irq12_interrupt_handler /\ latch' = Head(sending)
          /\ UNCHANGED waiting
     ELSE /\ store_mouse_data(Head(waiting).byte) /\ calm' = 0
          /\ waiting' = Tail(waiting) /\ latch' = Head(waiting).byte
          /\ UNCHANGED <<sending, sent, buttons, lost>>
  /\ UNCHANGED <<pc, intr, masked, gates, freelist, cursor, status,
                 command, conf, owed, streaming, keys>>

KernelStep == KernelInstruction \/ CommandSent \/ DataSent \/ ReadPort \/ WriteStatus

BootNext == KernelStep \/ IRQ1 \/ IRQ12 \/ MouseReplies \/ MouseSends \/ KeyPressed

\* The kernel goes on between interrupts; nobody need press a key or move the mouse.
BootSpec == BootInit /\ [][BootNext]_bootVars /\ WF_bootVars(KernelStep)

-----------------------------------------------------------------------------
(* What holds. *)

\* While interrupts are on, every line that is not masked has a handler, the
\* cascade aside, and what the handler of IRQ 12 writes to is there when it runs.
InterruptsHandled == /\ intr => Lines \ (masked \cup {2}) \subseteq gates
                     /\ ~crashed

\* The free list has each page once, and only pages that lie wholly in usable
\* memory, wherever the regions of the memory map begin and end.
FreePagesUsable ==
  /\ \A i, j \in DOMAIN freelist : freelist[i] = freelist[j] => i = j
  /\ \A i \in DOMAIN freelist : \E k \in DOMAIN Regions :
       /\ Regions[k].usable
       /\ Regions[k].base <= freelist[i] * PAGE_SIZE
       /\ (freelist[i] + 1) * PAGE_SIZE <= Regions[k].base + Regions[k].length

\* Whatever of the handshake the handler has taken for packets, after four bytes
\* that cannot be taken for a first byte it is in step with the mouse.
BootSettles == calm = CalmEnough => InStep

\* initialize_mouse ends, whoever reads the replies of the mouse.
HandshakeEnds == <>(Booted \/ crashed)

\* mouse.c:79 "Get the actual Compaq Status byte and turn on bit 1": what is
\* written back is the controller's status byte with that bit on.
StatusIsActual ==
  At("write status") => status = IF Bit(conf, 2) = 1 THEN conf ELSE conf + 2
=============================================================================
