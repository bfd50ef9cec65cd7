# A verification project for the kernel

This directory models the x86_64 teaching kernel under `src/` in TLA+, checks
the models with TLC on small instances and proves theorems about them with
TLAPS. `PROJECT.json` lists the components, the runs, the mutants that show
that each property can fail, the source lines every definition stands for, the
hazards, the findings and the theorems.

## 1. The system

One processor runs the kernel and one user program. Limine loads both and
enters `_start` (`kernel/boot.c`), which installs the descriptor tables, takes
over memory and the devices and runs the program `init`. There is no scheduler
and no second process: `exec` and `exit` replace the running program.

Concurrency comes from interrupts. IRQ 1 (keyboard) and IRQ 12 (mouse) are
interrupt gates (`IDT.c:82-83`): their handlers run to the end with interrupts
off and never nest. The system call gate 0x80 is a trap gate (`IDT.c:84`):
interrupts stay enabled, so the two handlers interleave with every instruction
of a system call as well as of the program. Nothing in the kernel ever disables
interrupts around the data it shares with the handlers.

### Inventory

| Component | State | Operations | Interacts with | Hard behaviour | Correct when |
|---|---|---|---|---|---|
| Keyboard buffer `char.c` | `char_buffer`, `start`, `count` | `buffer_put`, `kgetc` (`kgets`, `buffer_delete` unused) | IRQ 1 writes, `sys_read` reads | handler between two accesses of `kgetc`; full buffer; `count--` not atomic; busy waiting | indices in range; FIFO; no waiting key overwritten; a reader is woken |
| Scan code decoder `char.c` | `lshift`, `rshift`, `capslock` | `getchar` | IRQ 1 | edges of several modifiers in any order, repeats, prefixes | flags equal the keyboard; right case |
| Keyboard interrupt, `sys_read` | none of their own | `irq1_interrupt_handler`, `sys_read` | keyboard controller, buffer, program | several `kgetc` per read, waiting or not, erasing | each key once, in order; a key ends a read |
| Physical memory, page tables `mem.c` | `freelist`, the tables in memory, TLB | `freelist_init`, `pmem_alloc`, `pmem_free`, `vm_map`, `vm_protect`, `unmap_lower_half` (`vm_unmap`, `translate` unused) | loader, `mmap`, cursor set-up | exhaustion in the middle of a map; stale TLB; leaks | a frame has one use; only the target changes; TLB agrees |
| Loader and life cycle `elf.c`, `posix.c` | `addre`, `modules_list`, address space, `malloc`'s globals | `run_program`, `sys_exec`, `sys_gexec`, `sys_exit`, `sys_mmap`, `malloc` | memory | failing maps, a page too many, leaks over many execs | a program finds its segments with their protections, a stack and its mappings, and nothing of the one before |
| Mouse and cursor `mouse.c` | `mousebytes`, `mouse_counter`, `data`, `saved_pixels` | `store_mouse_data`, `update_cursor`, `save_background`, `initialize_*` | IRQ 12, graphics, `sys_readmouse` | lost bytes, ACK taken by the handler, stale background | cursor on screen; background restored; packets aligned |
| Graphics `graphics.c`, `kprint.c` | framebuffer | `draw_pixel`, `kdraw_rectangle`, `gkprint_c`, `clear_screen` | IRQ 12 | cursor moved in the middle | cleared means cleared; the picture survives the cursor |
| Boot `boot.c` | | `_start` | all | interrupts on while devices are set up; replies taken by a handler | nothing used before it is set up; the handshake ends |
| PIC, IDT, GDT | masks, tables | `pic_*`, `idt_setup`, `gdt_setup` | | order of masks, handlers and `sti` | a line that is not masked has a handler |
| Exceptions `handler.c` | | ten handlers | terminal | the handler itself may fault | the program that failed never goes on |
| Terminal `term.c` | `term`, `term_row`, `term_col` | `term_init`, `term_clear`, `term_putchar` | `kprintf` | never initialised; wrapping and scrolling | nothing written is lost |
| Output `kprint.c`, `unistd.c` | | `kprintf`, `printf` | terminal, graphics | numbers | the digits are the number's |
| System call entry | | `syscall_handler` | all | torn copy of the mouse data | one moment's data |
| User library `stdlib/` | `malloc` pool, `strtok_s` | strings, `malloc`, `getline` | system calls | empty input, ends of buffers | C's meaning |
| User programs | | `init`, `graphics-shell`, `helloworld`, `paint` (`shell` unused) | system calls | keys and mouse between two system calls | q leads to the menu; a click does what it meant |

Headers of the boot protocol, the font and the build files have no behaviour
of their own and are not modelled.

## 2. The modules

| Module | Models | Extends |
|---|---|---|
| `KeyQueue` | abstract: a bounded FIFO queue whose promise may lapse | |
| `KeyRing` | `buffer_put`, `kgetc` step by step | |
| `ScanCodes` | the tables, `getchar`, the handler's test | |
| `Keyboard` | keyboard, IRQ 1, `sys_read` | `KeyRing`, `ScanCodes` |
| `MCKeyboard` | instance of `Keyboard` | `Keyboard` |
| `KeyboardProofs` | the buffer's order, counting and no-overwrite; `KeyRing` implements `KeyQueue`; `Keyboard` uses `KeyRing`; flags, case and order | `Keyboard` |
| `Memory` | free list, page tables, TLB | |
| `MCMemory` | instance of `Memory` | `Memory` |
| `MemoryProofs` | types, single use, translations, TLB coherence | `Memory` |
| `Mouse` | packets, buttons and position of the mouse driver | |
| `MCMouse` | instance of `Mouse` | `Mouse` |
| `MouseProofs` | cursor on the screen, falling into step | `Mouse` |
| `Screen` | framebuffer, drawing calls, the cursor's background | `Mouse` |
| `MCScreen` | instance of `Screen` | `Screen` |
| `ScreenProofs` | the cursor damages nothing, drawing stays on the screen | `Screen`, `MouseProofs` |
| `Process` | loader, `exec`, `exit`, `mmap`, `malloc` | `Memory` |
| `MCProcess` | instance of `Process` | `Process` |
| `ProcessProofs` | `Process` implements `Memory`; types, image, blocks, the kernel's half | `Process`, `MemoryProofs` |
| `Boot` | `_start`, PIC, the handshake with the mouse, `add_memory` | `Mouse` |
| `MCBoot` | instance of `Boot` | `Boot` |
| `BootProofs` | interrupts find handlers, the driver settles, the free list | `Boot`, `MouseProofs` |
| `Programs` | `init`, `graphics-shell`, `helloworld`, `paint` and their system calls | `Mouse` |
| `MCPrograms` | instance of `Programs` | `Programs` |
| `ProgramsProofs` | the programs use `Mouse`; a click does what it meant | `Programs`, `MouseProofs` |
| `Transcript` | abstract: a page without end | |
| `Terminal` | `term.c`, implementing `Transcript` | |
| `Conversions` | `atoi`, `atoi_x`, `itoa_x`, the digits printed | |
| `Console` | `kprintf`, `printf`, exceptions | `Terminal`, `Conversions` |
| `MCConsole` | instance of `Console` | `Console` |
| `Strings` | the string functions of `stdlib/string.c` | `Conversions` |
| `TextProofs` | `Terminal` implements `Transcript`, `Console` uses it; what string functions and conversions answer | `Console`, `Strings` |

### KeyRing and KeyQueue

`char_buffer`, `start` and `count` are the C variables. `pc` is where `kgetc`
is. Its steps are divided where it reads or writes the volatile `start` or
`count`: `ReturnEmpty` and `StartWaiting` are lines 132-135, `StopWaiting` the
exit of the loop of line 138, `Fetch`, `Advance` and `Decrement` lines 141, 142
and 143. C allows a compiler to turn `count--` on a volatile `int` into one
instruction or into a load and a store, so the constant `build` selects
`Decrement` or `Load` followed by `Store`. `KeyArrives` is the whole of
`buffer_put` in one step, at any time: the handler cannot be interrupted.
`Fetch` reads `start` and then the slot in one step: the handler changes
neither `start` nor a slot that holds a waiting key (`PendingKeysKept`, proved),
so dividing it would change nothing. It is assumed that the compiler keeps the
read of the (not volatile) slot before the volatile updates that follow it.

`accepted`, `delivered` and `raced` are history: the keys stored, the keys
returned, and whether a key has ever been stored between lines 142 and 143.

### ScanCodes and Keyboard

`ScanCodes` holds the two tables and `getchar` divided into its effect on the
flags (`FlagsAfter`) and its result. `AsChar` is the conversion of the byte to
the signed `char` of the handler. `Keyboard` adds the keyboard itself
(external: keys go down, repeat and go up in any order and send set 1 codes,
extended keys with their prefix), the handler once for each byte and
`sys_read`, which calls `kgetc` of `KeyRing` as often as the code does. The
fake shift codes some keyboards send around extended keys are left out.

### Memory

`freelist` is the list of frames, head first. `entries` is the set of the
present page table entries of all tables, so a zeroed page has none. `tlb` is
what the processor has cached; `Access` may cache at any time, as the hardware
may. `Walk` is the descent through the four levels, `MapRefused`, `MapAdds` and
`MapAstray` are `vm_map` on an address that is mapped, with a list to take
frames from, and with a list that has been lost. `pmem_alloc` on an empty list
returns 0 but sets `freelist` to what lies at physical address 8; if that is not
0 the list is `wild`, and the model stops (`astray`) when a call follows it.
`unmap_lower_half` removes the level 4 entries of the lower half, frees what
`pmem_free` frees - nothing, see the findings - and flushes the TLB.

The mappings the boot loader leaves behind are not in `entries`. Of the kernel's
own maps only the two of `initialize_cursor` use tables of the boot loader:
their addresses lie in the range of the direct map, and it is assumed that
no large page covers them. Protections are model values; `Full` is the one
`vm_map` gives to table entries.

### Mouse

`mouse_counter`, `mousebytes` and `data` are the C variables without the fields
nothing reads. `sending` is what the mouse (external) still has to deliver of a
packet; the controller may lose any byte. `store_mouse_data` is the handler with
its three cases and, in the third, the part of `update_cursor` that moves the
cursor: `Step` is the signed movement divided as C divides, `Clamp` the tests of
lines 190-205. A negative movement is the byte minus 255, as the code has it
(two's complement would be 256): a movement of -1 is 0 and all others come out one
unit short, at most one pixel after the division. `calm` is history: how many
bytes have been delivered since one was lost or a movement had bit 3 set.

### Screen

A pixel is one value; the framebuffer has no bytes between its rows. A system call
(`sys_draw_rectangle`, `sys_gwrite`, `sys_update_cursor_background`, `clear_screen`
as called by `sys_gexec`) is a loop: `call` says which, `todo` what is left of it, and each
turn is one action, so that the handler may run between any two pixels.
The handler itself, `store_mouse_data` with `update_cursor`, is one action:
an interrupt gate. `kdraw_rectangle` is the list of the pixels it visits, with its
early return, its two cuts and its 32-bit sums (`Word`). `picture` is history: what
programs have drawn, cursor aside.

Text is drawn with the same operation: `gkprint_c` visits the pixels of a glyph
and draws those that are set, `sys_gwrite` the characters one after the other.

### Process

The loops of the loader and of `sys_mmap` are lists of calls (`todo`), one call of
`vm_map` or `vm_protect` a step, on the tables of `Memory`. `phase` says which loop
the kernel is in. Addresses are counted in units of which `PAGE_SIZE` make a page,
so that segments begin and end inside pages and on their boundaries;
`PageCount` is the loader's and `mmap`'s count, a page too many on a boundary. A call
that fails makes the kernel print and use the page; there is no terminal
(see `Console`), so it dies. Only the stack's calls are not looked at. `heap` are
`malloc`'s globals, which a new program finds 0 (its `.bss`; that the loader copies as
many bytes as the segment has in memory, whatever the file holds there, is left out).
`blocks`, `own` and `named` are history.

### Boot

`start` is the script of `_start` from `idt_setup` to `initialize_mouse`, one
instruction a step, and the keyboard controller and the mouse (external) answer in between:
a byte waits in the controller until someone reads port 0x60, and that is the
kernel's polling loop or one of the handlers, whichever comes first. `mouse_wait`
gives up after a while, as in the code, so the kernel may read a byte that is
not there yet and get the last one again. The firmware leaves interrupts off, any
masks, and a mouse that sends nothing. `freelist_init` with `add_memory` works on a
memory map whose regions begin and end anywhere.

### Programs

A program is a small machine whose steps are its system calls and its tests; keys and
packets of the mouse come between any two of them. `sys_readmouse` copies one field a step.
The keyboard buffer is the bounded queue that `KeyRing` implements until it
is raced (see the findings), and a program is loaded in one step (`Process`). `saved` is what matters
of the background here: what the cursor hides, or one color that it will leave
behind. `stale` and `astray` are history.

### Terminal, Transcript and Console

`term_putchar` is `carriage_return`, `backspace` or `advance`, the last for a newline or
a character that takes a place, with wrapping and scrolling in one step as in the
code. `Page` maps the screen and what has scrolled off it to the lines of
`Transcript`, on which only the last line ever changes. `Console` writes what `printf`
or the handler of an exception prints, a character a step. `ready` says whether
`term_init` has been called. Nothing in the repository calls it: the model has both
cases, and without it a character that needs the buffer is a fault, whose handler
prints, which is a fault.

### Strings and Conversions

`Strings` asks each function about every string in buffers of `Size` bytes, with
anything behind the end of the string: a loop is modelled by the first position at which it stops,
and a buffer as the sequence of its bytes. `strsep` and `strtok` are sequences of
calls on one string. `strsep` tests its first character from an uninitialised
index on; the model lets that find a delimiter or not. A loop that reads digits is a
fold over them (`Number`), and a function that recurs on the quotient (`helper`), or a loop that
divides (`Left`), a recursive function of the number. `itoa_x` takes `num_digits - 1` of a
`size_t`, so the model asks for a digit at least, and for no more than `arr` has room for. The
numbers are those of an `int`, not negative.

## 3. What the runs check

| Run | Shows |
|---|---|
| `keyring` | indices in range, order, accounting, no overwriting, a reader is served, refinement of `KeyQueue` |
| `keyring_order` (violated) | keys out of order after a race |
| `keyboard` | flags follow the keys, case, order through `read`, a key ends a read, the buffer is used as `KeyRing` says |
| `memory` | one use for a frame, TLB coherence, only the target changes, a mapped page is a fresh one |
| `mouse` | cursor on the screen and moved as told, buttons, falling into step after lost bytes |
| `screen` | the picture survives the cursor, in the middle of calls too; rectangles are cut at the edges |
| `screen_clear` (violated) | a cursor moved during `clear_screen` leaves traces |
| `process` | a program finds its image and nothing else, `malloc`'s blocks are usable, the kernel's half is kept, three causes of death, refinement of `Memory`, loading ends |
| `boot` | no interrupt before its handler and its data, a free list of whole usable pages, the handshake ends and the driver falls into step |
| `programs` | q brings the menu back, a held button paints, a click does what it meant unless the data changed meanwhile |
| `console` | refinement of `Transcript`, with and without `term_init`; handlers of exceptions never return |
| `strings` | the string functions against what they are for, numbers there and back |

### Bounds

* `keyring`: 3 slots, 2 characters, 5 keys. Five keys fill the buffer, overflow
  it and wrap both indices; both builds. Two different characters are enough to
  see two keys swapped, repeated or lost.
* `keyboard`: 2 slots, 3 key presses, 1 byte on the wire, reads of 1 and 2
  bytes, the letter a, backspace, left shift and caps lock, the split build (the harder
  one). The right shift key is treated by `getchar` exactly as the left one and
  is left out, and so are extended keys, which only add bytes that are not stored or are
  covered by the findings.
* `memory`: 9 frames for four addresses that share all, one or none of their
  tables, so that memory runs out with zero to three tables of a path added,
  before and after unmapping; two protections; one address in the upper half.
* `mouse`: 5 packets, 2 lost bytes, on 66 by 12 pixels, so that the cursor meets
  all four edges. Two losses and three packets reach every pair of the byte
  expected and the byte sent, and two more packets leave time to fall into step.
* `screen`: 5 by 3 pixels and a cursor of 2 by 1 at six places that overlap, 3
  packets, 2 calls, one color besides black and white, sums modulo 16. Two calls
  are enough for one to spoil and the next to repair, three packets for the
  cursor to leave a place and come back to it. No byte is lost here: `mouse`
  covers that.
* `process`: two programs with three segments of which one ends on a page boundary and one is
  empty, pages of four units, tables of three entries, 34 frames and four calls of programs:
  enough to start each program from the other, to map by address and without, to
  take a block from an old and from a new region, and to run out of memory in every loop.
* `boot`: pages of four bytes and four regions, one not usable, one without a whole page, two that begin or end inside
  a page; one key; four packets, so that the driver can fall into step after
  the replies it has taken for packets; three status bytes the firmware may leave.
* `programs`: the real screen, with the cursor where one packet takes it to the canvas, to
  a color or to the clear button; two packets (one to press, one to move on) and
  three keys, one more than the buffer holds.
* `console`: 3 by 2 characters, so that every text wraps or scrolls; five formats that have every
  specifier; four calls of `printf`.
* `strings`: buffers of four bytes over two characters and NUL, and numbers around the powers of
  10 and 16.
* `MaxKeys`, `MaxPrints`, `MaxWire`, `MaxPackets`, `MaxLost` and `MaxCalls` are the only bounds
  in guards. The proofs do not depend on their values.

All runs but `strings` and `keyboard` switch off the deadlock check: a reader may wait for a key
nobody presses once the bound is reached, a kernel whose free list is lost stops,
and so do a mouse that has sent its packets, a kernel that has booted and a processor
that is halted.

### Fairness

`KeyRing` assumes weak fairness of the steps of a `kgetc` in progress, since
the processor always returns from an interrupt to what it interrupted.
`Keyboard` adds weak fairness of the handler: the controller keeps the
interrupt line raised until the byte is read, and interrupts are enabled in the
program and in system calls. Nothing obliges anyone to press a key or to call
`read`.

`Boot`, `Programs` and `Console` assume weak fairness of the kernel's or the
program's next step, for the same reason, and `Process` of the next call of a
loop and of the kernel's turn between two loops. Programs need not make a system
call in `Process`, and neither mouse nor user ever need do anything. In `Boot` the
controller and the mouse need not answer either: `HandshakeEnds` holds because
`mouse_wait` gives up.

## 4. What is proved

All theorems hold for every value of the constants under the named
assumptions, which TLC evaluates on every run:

* `KeyRing`: `BUFFER_SIZE` positive, `Builds` a set of the two builds, `MaxKeys` a number.
* `Keyboard`: a `char` is signed; keys are labelled with what the two tables of
  `char.c` hold at their scan code, and extended keys lie from Home to Delete.
* `Memory`: the memory map lists no frame twice, the level 4 table is not on the
  list, addresses are four indices.
* `Mouse`: the cursor fits the screen and starts on it; bit 3 of the first byte of a
  packet is 1.
* `Screen`: width and height fit a `uint32_t`, a character has at least a pixel, and no
  program draws or writes beyond the framebuffer's memory (`RectangleAssumption`,
  `TextAssumption`; `draw_pixel` checks nothing).
* `Process`: pages, tables and `malloc`'s grain have a size, the grain divides the page,
  addresses are all four-tuples of indices, what `elf.c`, `posix.c` and `malloc` map with is
  a protection, `mmap` starts on a page. `HalvesAssumption`, `LowerAssumption` and
  `ApartAssumption` say where things are: the two pages of the cursor in the kernel's
  half, and segments, stack and the range of `mmap` in the lower half and on different
  pages, as the constants of `elf.c:55`, `posix.c:4` and the linker scripts have it (the
  scripts leave a page between segments). The range of `mmap` would meet the stack after
  terabytes, so `StepAssumption` bounds a call by `MmapStep`, and `MaxCalls` such calls stay apart.
* `Boot`: pages have a size; a usable region of the memory map reaches its first page
  boundary, and no two overlap, which the boot protocol guarantees of usable entries.
* `Terminal`: the screen has a character; what can be printed is none of the three
  control characters.
* `Strings`: characters are ASCII, a buffer has a byte, numbers are an `int`'s and not negative
  (`MaxInt`), and `num_digits` is from 1 to the 20 that `itoa_x` has room for.

* `TypeCorrect`, `KeysInOrder`, `KeysCounted`, `KeysNotOverwritten`
  (`KeyboardProofs`). The invariant adds to `TypeOK` what each location of `kgetc`
  knows: past the loop there is a key, between the updates `count` is positive
  and the slots that wait are one fewer, and the loaded copy of `count` is
  at most `count`, equal to it unless a key came in between. Order follows by
  showing that `NextSlot` is never a slot that waits (`SlotsDiffer`: two numbers
  less than `BUFFER_SIZE` apart have different remainders).
* `RingImplementsQueue` (`KeyboardProofs`): with the slots from `start` on as
  the queue, each step is a step of `KeyQueue` or a stutter; `Fetch` is where a
  key is taken, and a race is where the promise lapses.
* `MemTypeCorrect`, `FramesNeverShared` (`MemoryProofs`). `FramesExclusive` speaks
  of tables within reach and is not inductive; `MemInv` says the same of all
  entries, with one entry for an index, and is. The step for `vm_map` rests on
  `ListAfterAlloc` (what is taken is no longer free) and `WalkEnds` (the entry
  written was missing).
* `OthersKeepTheirPages`, `MapGivesFreshPage`, `CacheStaysCoherent` (`MemoryProofs`).
  A translation is a path of four entries from the level 4 table. `vm_map` writes
  entries of tables that are fresh, or of the one table where the walk of its own
  address ends, and `vm_protect` replaces the last entry of a path; a table has one
  place among the entries (`FramesExclusive` again, for all entries), so no other
  path goes through what is written. A cached translation then stays right: either its
  address keeps its path, or the step invalidates it, or, for an address of the lower half,
  `unmap_lower_half` flushes everything.
* `KeyboardTypeCorrect`, `InputUsesRing`, `FlagsAreKeys`, `TypedIsStored`,
  `ReadInOrder` (`KeyboardProofs`). `InputUsesRing` is the refinement that carries the
  theorems of `KeyRing` over to the whole input path. The flags and the text agree with the
  keyboard only once the wire is empty, so the invariant says it of what they will be:
  the flags after the bytes on the wire are the keys held, and what is stored, followed by what
  the wire will store, is what was typed. `ReadInOrder` adds what `sys_read` holds in the middle of a call.
  `Filter`, with which the properties pick characters out of a sequence, is a recursive function.
* `MouseTypeCorrect`, `FallsIntoStep`, `ButtonsReported`, `CursorFollows`
  (`MouseProofs`). `RealignsWhenCalm` is not inductive: `Aligned` gives each pair of
  the byte expected and the byte sent a rank, the number of calm bytes until the
  driver is in step, and `calm` and the rank never exceed four together. A calm
  byte lowers the rank by one; a lost byte, or a movement with bit 3 set, may
  raise it but starts `calm` again. Position: `StepBounds` and `ClampBounds`.
* `CursorKeepsPicture`, `RectanglesAreCut`, `ScreenTypeCorrect` (`ScreenProofs`).
  `PictureKept` says nothing while `clear_screen` runs, yet promises that it leaves all in order;
  `ClearStages` says how far it has come, for as long as the cursor stays: what the
  loop has left (`Elems(todo)`) is what is not yet black, then what is not yet saved as black, then
  the pixels of the cursor not yet drawn. A move of the cursor puts back exactly the
  picture (`RestoredIsPicture`), since the pixels under it and its places correspond one to one
  (`CursorPixels`). That every loop stays on the screen needs arithmetic on products: of rows and
  columns (`RowByRowPixels`), of the glyphs of a text (`GlyphInMemory`), and of sums that
  may wrap (`CutTurns`). The driver's part of a step is `MouseInv` of `MouseProofs`.
* `ProcessUsesMemory`, `FramesNeverSharedByPrograms`, `ProcTypeCorrect`,
  `BlocksNeverOverlap` (`ProcessProofs`). Each call of a loop of the loader,
  `mmap` or exec is one step of `Memory`, because every call that waits in `todo`
  names an address of `Addresses` and a protection of `Prots`; then what is proved of
  `Memory` holds of programs too. That blocks of `malloc` do not overlap needs
  `Regions`: blocks end at or below `malloc`'s bump pointer, the free part of its region
  ends at or below `addre`, from which `mmap` takes the next region, and `addre` is on a page.
* `ImageComplete`, `BlocksAreUsable`, `KernelHalfUntouched`, `DiesOfCauseOnly`
  (`ProcessProofs`). `LoaderInv` says of the middle of every loop what is mapped so far: a page
  of the segment being loaded has the protection it should, or a call that will give it
  that protection waits. `HeapInv` says that what `malloc` has returned, and what is left of its
  region, is writable. `PlacesInv` says
  where each call that waits may go and that the pages the kernel chooses are still unmapped when
  their turn comes; so no call of the loader fails but for lack of memory. What one call does to
  all other pages is `OnlyTargetChanges`, proved of `Memory`.
* `InterruptsFindHandlers`, `SettlesAfterBoot`, `FreeListUsable` (`BootProofs`). How far
  `pc` has come says what is set up, and `Script` says which instructions are where; before the
  handshake the mouse has nothing to say, so IRQ 12 cannot come before the cursor's data is
  mapped. `Realigning` is the rank of `MouseProofs`, which a byte taken by the
  wrong reader may raise but never beyond the calm bytes still to come. The free list: each
  entry of the memory map adds pages of its own, since `Gap` is what its base lacks to a
  multiple of `PAGE_SIZE` (`GapFills`).
* `TermTypeCorrect`, `TerminalShowsTranscript` (`TextProofs`). A newline that
  does not scroll begins a line that `Transcript` takes to be empty, so the
  invariant adds that the rows below the cursor are blank. The proof follows
  `term_putchar` case by case (control characters, a character in the row, one that
  wraps, one that scrolls).

* `ProgramsUseMouse`, `PaintActsOnClick` (`ProgramsProofs`). The programs leave the driver
  alone, so that what is proved of `Mouse` holds with them running. For `ActsOnClick` the
  invariant says of the middle of `read_mouse`, which copies the mouse's data a field at a time
  with interrupts on, that the fields copied so far are still the mouse's, unless a packet
  has come since (`CopyCurrent`), and that paint leaves a color under the cursor only on the
  canvas, unless it acted on an old copy (`TrailExcused`).
* `ConsoleUsesTerminal`, `ConsoleTypeCorrect`, `ConsoleShowsTranscript` (`TextProofs`). Each step
  of a print, or of the handler of an exception, is a step of `Terminal` or leaves it alone;
  the page of `Transcript` is then what `kprintf` and `printf` have written, whoever prints.
* `StringsAnswer` (`TextProofs`). The invariant says that the call answered last is the
  function of its arguments, that `stringp` and `strtok_s` are in the string, and that what `strsep`
  has returned, with the characters it replaced, and what is left make up the string that was
  given (`TokensRebuild`; `CutRebuilds` is its step). What the functions return is said of
  the bytes before a buffer's first NUL: `Stop` finds that NUL
  because a buffer has one, and comparing two buffers byte by byte is comparing what they hold.
* `NumbersAreRead` (`TextProofs`). `atoi` reads what is printed in decimal, and `atoi_x` what is
  printed in hexadecimal without letters; the digits `itoa_x` writes make its number, with as many
  zeroes as asked for and no more: for every `int` that is not negative. `Number` over the digits
  of a quotient, times the base, plus the remainder, is the number
  (`NumberDigits`); the 20 divisions of `itoa_x` leave nothing of an `int`, so that it stops,
  with no digit lost (`ItoaWrites`).

Only model-checked: liveness (`BlockedReaderServed`, `KeyEndsRead`, `ProgramStarts`,
`HandshakeEnds`, `QReturnsToMenu`, `HeldButtonPaints`, `HandlerEnds`), which needs
ENABLED under fairness: out of the prover's reach.

The library's induction theorems take an operator as a parameter and cannot be used here. Where a proof
needs induction over numbers (`Filter`, the free list of `Boot`, folds and recursive functions
of `Conversions`), it takes the least element of a set instead (`SetInduction`), which rests on the
well-foundedness of the natural numbers.

## 5. Findings

Two runs show a finding each:

1. `kgetc` updates `start` before `count` with interrupts on (`char.c:142`;
   `keyring_order`).
2. `clear_screen` races with the cursor (`graphics.c:84`; `screen_clear`).

The others are stated in the modules as properties that no run lists. Adding the
property to the component's cfg (as an INVARIANT unless noted) gives the
counterexample:

| Claim | Module | What the code does |
|---|---|---|
| `OnlyPrintable` | `Keyboard` | the test for printable characters never fails (`handler.c:147`); needs `Extended = {72}` and `MaxWire = 2`, since an arrow key sends two bytes |
| `ReadCountsKeys` | `Keyboard` | a read that does not wait counts a byte that is not there (`posix.c:63`) |
| `TablesReclaimed` | `Memory` | `pmem_free` has its alignment test inverted (`mem.c:194`) |
| `AllocationFailsCleanly` | `Memory` | `pmem_alloc` never sees that the list is empty (`mem.c:181`) |
| `SkippedBytesIgnored` (PROPERTY) | `Mouse` | a byte the driver skips still changes the buttons (`mouse.c:254`) |
| `StatusIsActual` | `Boot` | a scan code may be taken for the controller's status byte (`mouse.c:79`) |
| `TrailOnCanvas` | `Programs` | the cursor may leave the canvas between test and drawing (`paint.c:92`) |
| `HexRoundTrip` | `Strings` | `atoi_x` gives a to f the values 0 to 5 (`string.c:144`) |
| `StrtokFindsTokens` | `Strings` | `strtok` never advances past a separator (`string.c:97`) |
| `StrncmpStopsAtEnd` | `Strings` | `strncmp` compares past the terminating NUL (`string.c:231`) |

Not findings, since nothing in the repository promises otherwise: drawing under
the cursor is undone when it moves (`spoiled` of `Screen`), a rectangle of one
pixel off the screen is drawn in the next row (`posix.c:180`), and one whose
32-bit sum wraps is not drawn at all (`graphics.c:56`).

## 6. Not modelled

* Code without callers: `kgets`, `buffer_delete`, `vm_unmap` and `free_page_table`
  (the first passes the second a physical address, which it dereferences),
  `translate`, `get_usable_memory`, `check_permission`, `gkprint_d`, `pic_mask_irq`,
  and `shell.c` with `getline`, which nothing starts.
* Fields of the GDT and IDT, the registers `syscall_entry` saves, the search
  for a tag of the boot protocol and its headers, the build files: constants or data with
  no behaviour of their own.
* Contents of pages. That the loader copies a segment's memory size out of the file,
  its `.bss` included (`elf.c:43`), is therefore outside `Process`.
* Colours, fonts and the layout of `paint`'s controls, and the hardware cursor of the VGA terminal.
* 64-bit wrap-around of the addresses given to `mmap`.
* In `Boot`, movements of the mouse before the kernel takes over: the firmware is
  assumed to leave the mouse still.
