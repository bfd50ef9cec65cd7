------------------------------- MODULE Process -------------------------------
(***************************************************************************)
(* The life of a program: run_program of kernel/elf.c, the system calls    *)
(* exec, exit and mmap of kernel/posix.c, and the library's malloc, over   *)
(* the page tables of Memory.                                              *)
(*                                                                         *)
(* Each of the loops of the loader and of mmap is a list of calls of       *)
(* vm_map and vm_protect, and each call is one action.  Addresses are      *)
(* counted in units of which PAGE_SIZE make a page.  What pages hold is    *)
(* left out, and so is the cache of translations, which Memory has.        *)
(***************************************************************************)
EXTENDS Memory

CONSTANTS Program,       \* the modules the boot loader has loaded
          InitProgram,   \* the one called "init"
          Segments,      \* of each program, its program header table
          PAGE_SIZE, Radix, Grain,   \* Grain: malloc rounds to 16 bytes
          CursorPages,   \* the pages initialize_cursor maps
          UserStack, UserStackPages,
          MmapBase,      \* the first value of addre
          RW, KernelRW,  \* a program's, and the kernel's, read-write protection
          Requests,      \* what programs ask of mmap: <<addr, len>>, NULL is 0
          Sizes,         \* what they ask of malloc
          MaxCalls,      \* bound: calls programs make
          MmapStep       \* bound: how far a call of mmap moves addre

NULL == 0

ASSUME SizesAssumption ==
  {PAGE_SIZE, Radix, Grain} \subseteq Nat \ {0} /\ PAGE_SIZE % Grain = 0
ASSUME AddressesAssumption == Index = 0 .. Radix - 1 /\ Addresses = [1 .. 4 -> Index]
ASSUME ProtsAssumption == {RW, KernelRW} \subseteq Prots
ASSUME ProgramAssumption ==
  /\ InitProgram \in Program /\ NULL \notin Program
  /\ Segments \in [Program -> Seq([load : BOOLEAN, vaddr : Nat, memsz : Nat, prot : Prots])]
ASSUME PlacesAssumption ==
  /\ CursorPages \in Seq(Nat) /\ {UserStack, UserStackPages, MmapBase} \subseteq Nat
  /\ MmapBase % PAGE_SIZE = 0
ASSUME CallsAssumption == Requests \subseteq Nat \X Nat /\ Sizes \subseteq Nat /\ {MaxCalls, MmapStep} \subseteq Nat

\* The page address with number n: its index in each of the four tables.
PageAddr(n) ==
  <<(n \div (Radix * Radix * Radix)) % Radix, (n \div (Radix * Radix)) % Radix,
    (n \div Radix) % Radix, n % Radix>>

\* The pages from that of address addr to that of addr + len: one more than
\* needed when the end is on a page boundary.
FirstPage(addr) == addr \div PAGE_SIZE
PagesFor(addr, len) == FirstPage(addr) .. FirstPage(addr + len)
PageCount(addr, len) == FirstPage(addr + len) - FirstPage(addr) + 1

\* How far mmap moves addre for len units, and what malloc asks for.
Growth(len) == (len \div PAGE_SIZE + 1) * PAGE_SIZE
ROUND_UP(n, m) == ((n + m - 1) \div m) * m

\* The segments a program has in memory, and the pages of its stack.
InMemory(s) == s.load /\ s.memsz > 0
Stack == UserStack .. UserStack + UserStackPages - 1

\* The stack lies in the lower half, away from where the linker scripts put the
\* segments, and the cursor's pages "in the higher half because we unmap the
\* lower half later" (mouse.c:219).
ASSUME HalvesAssumption ==
  /\ \A k \in DOMAIN CursorPages : PageAddr(CursorPages[k])[1] \notin LowerHalf
  /\ \A n \in Stack :
       /\ PageAddr(n)[1] \in LowerHalf
       /\ \A p \in Program : \A i \in DOMAIN Segments[p] :
            LET s == Segments[p][i]
            IN  InMemory(s) => \A m \in PagesFor(s.vaddr, s.memsz) : PageAddr(m) # PageAddr(n)

\* The pages mmap can pick while programs ask for no more than MaxCalls times
\* MmapStep units.
MmapPages == FirstPage(MmapBase) .. FirstPage(MmapBase + MaxCalls * MmapStep)

Lower(pages) == \A n \in pages : PageAddr(n)[1] \in LowerHalf
Distinct(pages) == \A m, n \in pages : PageAddr(m) = PageAddr(n) => m = n
Apart(pages, others) == \A m \in pages, n \in others : PageAddr(m) # PageAddr(n)

\* Where things are: mmap begins at 0x60000000, the linker scripts put programs
\* at 0x500000000, with a page between segments, and the stack is at
\* 0x70000000000, all in the lower half (posix.c:4, init/linker.ld:21, elf.c:55).
ASSUME LowerAssumption ==
  /\ Lower(MmapPages)
  /\ \A p \in Program : \A i \in DOMAIN Segments[p] :
       LET s == Segments[p][i]
       IN  InMemory(s) => Lower(PagesFor(s.vaddr, s.memsz))
  /\ \A r \in Requests : r[1] # NULL => Lower(PagesFor(r[1], r[2]))
ASSUME ApartAssumption ==
  /\ Distinct(MmapPages) /\ Apart(MmapPages, Stack)
  /\ \A j, k \in DOMAIN CursorPages : PageAddr(CursorPages[j]) = PageAddr(CursorPages[k]) => j = k
  /\ \A p \in Program : \A i \in DOMAIN Segments[p] :
       LET s == Segments[p][i]
       IN  InMemory(s) =>
             /\ Distinct(PagesFor(s.vaddr, s.memsz))
             /\ Apart(MmapPages, PagesFor(s.vaddr, s.memsz))
             /\ \A j \in DOMAIN Segments[p] :
                  LET t == Segments[p][j]
                  IN  i # j /\ InMemory(t) =>
                        Apart(PagesFor(s.vaddr, s.memsz), PagesFor(t.vaddr, t.memsz))
ASSUME StepAssumption ==
  /\ \A r \in Requests : Growth(r[2]) <= MmapStep
  /\ \A sz \in Sizes : Growth(ROUND_UP(ROUND_UP(sz, Grain), PAGE_SIZE)) <= MmapStep

VARIABLES phase,      \* what the kernel is doing, "user" when a program runs
          program,    \* the program that runs or is being loaded
          segs,       \* the program headers not yet handled
          todo,       \* the calls left of the loop the kernel is in
          addre,      \* where mmap will place what is given no address
          pending,    \* the call of mmap in progress
          heap,       \* malloc's globals, in the program's .bss
          blocks,     \* history: what malloc has returned to the program
          own,        \* history: the calls of mmap that returned to the program
          named,      \* history: has the program given mmap an address?
          calls       \* the number of calls programs have made

procVars == <<memVars, phase, program, segs, todo, addre, pending, heap, blocks, own,
              named, calls>>

Call(op, page, prot) == [op |-> op, page |-> page, prot |-> prot]

\* The calls of one function, or of mapping, for the n pages from first on.
ForPages(op, first, n, prot) == [k \in 1 .. n |-> Call(op, first + k - 1, prot)]

-----------------------------------------------------------------------------
(* Loading. *)

NewHeap == [bump |-> NULL, space_remaining |-> 0]
NoCall == [addr |-> 0, len |-> 0, prot |-> RW, size |-> 0]

\* run_program: nothing of what the program before it had is left.
run_program(p) ==
  /\ phase' = "load" /\ program' = p
  /\ segs' = Segments[p] /\ todo' = <<>>
  /\ heap' = NewHeap /\ blocks' = {} /\ own' = {} /\ named' = FALSE
  /\ UNCHANGED <<addre, pending>>

\* _start maps the cursor's pages (initialize_cursor) and runs init.
ProcInit ==
  /\ MemInit
  /\ phase = "boot" /\ program = InitProgram /\ segs = <<>>
  /\ todo = [k \in 1 .. Len(CursorPages) |-> Call("map", CursorPages[k], KernelRW)]
  /\ addre = MmapBase /\ pending = NoCall
  /\ heap = NewHeap /\ blocks = {} /\ own = {} /\ named = FALSE /\ calls = 0

StartInit == /\ phase = "boot" /\ todo = <<>>
             /\ run_program(InitProgram)
             /\ UNCHANGED <<memVars, calls>>

\* A segment is mapped, copied and then protected.
SegmentCalls_OneUnprotected(s) ==
  LET n == PageCount(s.vaddr, s.memsz)
  IN  ForPages("map", FirstPage(s.vaddr), n, RW)
        \o ForPages("protect", FirstPage(s.vaddr), n - 1, s.prot)
SegmentCalls(s) ==
  LET n == PageCount(s.vaddr, s.memsz)
  IN  ForPages("map", FirstPage(s.vaddr), n, RW)
        \o ForPages("protect", FirstPage(s.vaddr), n, s.prot)

LoadSegment_Waits ==
  /\ phase = "load" /\ todo = <<>> /\ segs # <<>>
  /\ LET s == Head(segs)
     IN  /\ todo' = IF InMemory(s) THEN SegmentCalls(s) ELSE <<>>
         /\ segs' = IF InMemory(s) THEN Tail(segs) ELSE segs
  /\ UNCHANGED <<memVars, phase, program, addre, pending, heap, blocks, own, named, calls>>

LoadSegment ==
  /\ phase = "load" /\ todo = <<>> /\ segs # <<>>
  /\ LET s == Head(segs)
     IN  todo' = IF InMemory(s) THEN SegmentCalls(s) ELSE <<>>
  /\ segs' = Tail(segs)
  /\ UNCHANGED <<memVars, phase, program, addre, pending, heap, blocks, own, named, calls>>

MapStack ==
  /\ phase = "load" /\ todo = <<>> /\ segs = <<>>
  /\ phase' = "stack"
  /\ todo' = ForPages("map", UserStack, UserStackPages, RW)
  /\ UNCHANGED <<memVars, program, segs, addre, pending, heap, blocks, own, named, calls>>

usermode_entry ==
  /\ phase = "stack" /\ todo = <<>>
  /\ phase' = "user"
  /\ UNCHANGED <<memVars, program, segs, todo, addre, pending, heap, blocks, own, named,
                 calls>>

\* The next call of the loop.  When it fails the kernel prints, or uses the
\* page, and does not survive that: there is no terminal (see Terminal).
\* Nobody looks whether the stack could be mapped.
RunCall ==
  /\ phase \in {"boot", "load", "stack", "mmap"} /\ todo # <<>>
  /\ LET call == Head(todo)
     IN  IF call.op = "map" THEN vm_map(PageAddr(call.page), call.prot)
         ELSE vm_protect(PageAddr(call.page), call.prot)
  /\ todo' = Tail(todo)
  /\ phase' = IF (result' \/ phase = "stack") /\ ~astray' THEN phase ELSE "dead"
  /\ UNCHANGED <<program, segs, addre, pending, heap, blocks, own, named, calls>>

-----------------------------------------------------------------------------
(* What programs call. *)

UserCalls == phase = "user" /\ calls < MaxCalls /\ calls' = calls + 1

\* exec, and gexec once it has cleared the screen; -1 for a file that is no
\* module.
sys_exec_KeepsOld(file) ==
  /\ UserCalls
  /\ IF file \in Program THEN run_program(file) /\ UNCHANGED memVars
     ELSE UNCHANGED <<memVars, phase, program, segs, todo, addre, pending, heap, blocks,
                      own, named>>

sys_exec_UnmapsByHand(file) ==
  /\ UserCalls
  /\ IF file \in Program
     THEN run_program(file) /\ entries' = {} /\ UNCHANGED <<freelist, wild, tlb, result, astray>>
     ELSE UNCHANGED <<memVars, phase, program, segs, todo, addre, pending, heap, blocks,
                      own, named>>

sys_exec(file) ==
  /\ UserCalls
  /\ IF file \in Program THEN unmap_lower_half /\ run_program(file)
     ELSE UNCHANGED <<memVars, phase, program, segs, todo, addre, pending, heap, blocks,
                      own, named>>

sys_exit == sys_exec(InitProgram)

\* mmap of len units at addr, or where the kernel picks; for malloc of size
\* when that is not 0.
mmap(addr, len, prot, size) ==
  LET at == IF addr = NULL THEN addre ELSE addr
  IN  /\ addre' = IF addr = NULL THEN addre + Growth(len)
                  ELSE addre
      /\ named' = (named \/ addr # NULL)
      /\ pending' = [addr |-> at, len |-> len, prot |-> prot, size |-> size]
      /\ todo' = ForPages("map", FirstPage(at), PageCount(at, len), prot)
      /\ phase' = "mmap"

sys_mmap(addr, len, prot) ==
  /\ UserCalls
  /\ mmap(addr, len, prot, 0)
  /\ UNCHANGED <<memVars, program, segs, heap, blocks, own>>

\* malloc takes size units from the beginning of what is left of a region.
Grab_KeepsSpace(bump, space, size) ==
  /\ heap' = [bump |-> bump + size, space_remaining |-> space]
  /\ blocks' = blocks \cup {[at |-> bump, size |-> size]}
Grab(bump, space, size) ==
  /\ heap' = [bump |-> bump + size, space_remaining |-> space - size]
  /\ blocks' = blocks \cup {[at |-> bump, size |-> size]}

NeedsMore(size) == heap.space_remaining < size

malloc(sz) ==
  LET size == ROUND_UP(sz, Grain)
  IN  /\ UserCalls
      /\ IF NeedsMore(size)
         THEN /\ mmap(NULL, ROUND_UP(size, PAGE_SIZE), RW, size)
              /\ UNCHANGED <<heap, blocks>>
         ELSE /\ Grab(heap.bump, heap.space_remaining, size)
              /\ UNCHANGED <<phase, todo, addre, pending, named>>
      /\ UNCHANGED <<memVars, program, segs, own>>

\* mmap returns the beginning of its first page, to the program or to malloc.
MmapReturns ==
  /\ phase = "mmap" /\ todo = <<>>
  /\ phase' = "user"
  /\ own' = own \cup {pending}
  /\ IF pending.size = 0 THEN UNCHANGED <<heap, blocks>>
     ELSE Grab(FirstPage(pending.addr) * PAGE_SIZE, pending.len, pending.size)
  /\ UNCHANGED <<memVars, program, segs, todo, addre, pending, named, calls>>

\* write, on a descriptor for output, prints: there is no terminal.
sys_write ==
  /\ UserCalls
  /\ phase' = "dead"
  /\ UNCHANGED <<memVars, program, segs, todo, addre, pending, heap, blocks, own, named>>

KernelTurn == StartInit \/ LoadSegment \/ MapStack \/ usermode_entry \/ MmapReturns

ProgramStep == \/ \E file \in Program \cup {NULL} : sys_exec(file)
               \/ sys_exit
               \/ \E r \in Requests : sys_mmap(r[1], r[2], RW)
               \/ \E sz \in Sizes : malloc(sz)
               \/ sys_write

ProcNext == RunCall \/ KernelTurn \/ ProgramStep

\* What RunCall does to the list, and it alone.
NextCall == phase # "dead" /\ todo # <<>> /\ todo' = Tail(todo)

\* Nothing keeps the kernel from going on; a program need not call it.
ProcSpec == ProcInit /\ [][ProcNext]_procVars /\ WF_todo(NextCall) /\ WF_procVars(KernelTurn)

-----------------------------------------------------------------------------
(* What holds. *)

\* The protections of page n: one, or none when it is not mapped.
Space(n) == {page.prot : page \in Pages(PageAddr(n))}

LowerPages == {n \in 0 .. Radix * Radix * Radix * Radix - 1 :
                 PageAddr(n)[1] \in LowerHalf}

Loaded(p) == {s \in {Segments[p][i] : i \in DOMAIN Segments[p]} : InMemory(s)}

ProcTypeOK ==
  /\ MemTypeOK
  /\ phase \in {"boot", "load", "stack", "user", "mmap", "dead"}
  /\ program \in Program /\ calls \in 0 .. MaxCalls /\ named \in BOOLEAN
  /\ segs \in Seq([load : BOOLEAN, vaddr : Nat, memsz : Nat, prot : Prots])
  /\ todo \in Seq([op : {"map", "protect"}, page : Nat, prot : Prots])
  /\ addre \in Nat
  /\ pending \in [addr : Nat, len : Nat, prot : Prots, size : Nat]
  /\ heap \in [bump : Nat, space_remaining : Nat]

\* What a program finds when it runs (elf.c:25-62, posix.c:109): every byte of
\* its segments on a page with that segment's protection, though segments are
\* mapped writable at first and end with a page too many; its stack, unless
\* memory has run out; what it has got from mmap; and nothing of the program
\* before it.
ProgramFindsItsImage ==
  phase = "user" =>
    /\ \A s \in Loaded(program) : \A b \in s.vaddr .. s.vaddr + s.memsz - 1 :
         Space(FirstPage(b)) = {s.prot}
    /\ freelist # <<>> => \A n \in Stack : Space(n) = {RW}
    /\ \A o \in own : \A b \in o.addr .. o.addr + o.len - 1 : Space(FirstPage(b)) = {o.prot}
    /\ \A n \in LowerPages : Space(n) # {} =>
         \E m \in UNION ({PagesFor(s.vaddr, s.memsz) : s \in Loaded(program)}
                          \cup {PagesFor(o.addr, o.len) : o \in own} \cup {Stack}) :
           PageAddr(m) = PageAddr(n)

BlocksApart ==
  \A b, c \in blocks : b # c => b.at + b.size <= c.at \/ c.at + c.size <= b.at

\* The blocks malloc has returned are aligned, do not overlap and lie on pages
\* the program can write (string.c:372-396).
BlocksUsable ==
  /\ BlocksApart
  /\ \A b \in blocks :
       /\ b.at % Grain = 0
       /\ \A u \in b.at .. b.at + b.size - 1 : Space(FirstPage(u)) = {RW}

\* No program, and no change of programs, touches the kernel's half once the
\* kernel has been booted.
KernelHalfKept ==
  [][phase # "boot" =>
       \A a \in Addresses : a[1] \notin LowerHalf => Pages(a)' = Pages(a)]_procVars

\* The kernel dies of three things only: no memory left, a program that prints,
\* and a program that has given mmap an address.  What it chooses itself (the
\* pages of the loader and of mmap) never collides, exec after exec.
DiesOnlyOfCause ==
  [][phase' = "dead" /\ phase # "dead" =>
       \/ freelist' = <<>>
       \/ phase = "user"
       \/ phase = "mmap" /\ named]_procVars

\* The loader and mmap use memory through the operations of Memory only, so
\* what holds of those holds here.
UsesMemory == MemSpec

\* Loading a program ends: it runs, or the kernel has died.
ProgramStarts == phase \in {"load", "stack"} ~> phase \in {"user", "dead"}
=============================================================================
