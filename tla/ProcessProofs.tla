---------------------------- MODULE ProcessProofs ----------------------------
(***************************************************************************)
(* Theorems about Process, for every set of programs, every memory and     *)
(* every bound on calls: its type invariant; that all it does to memory    *)
(* are operations of Memory, so that no frame has two uses; that a program *)
(* finds its image, and its blocks whole and apart; that the kernel's half *)
(* of the address space is kept; and what the kernel can die of.           *)
(***************************************************************************)
EXTENDS Process, MemoryProofs

Calls == [op : {"map", "protect"}, page : Nat, prot : Prots]
Headers == [load : BOOLEAN, vaddr : Nat, memsz : Nat, prot : Prots]

\* Where malloc's regions are: blocks end where the free part of the last region
\* begins, and what mmap gives next lies behind it.
Regions ==
  /\ blocks \subseteq [at : Nat, size : Nat]
  /\ \A b \in blocks : b.at + b.size <= heap.bump
  /\ heap.bump + heap.space_remaining <= addre
  /\ \E k \in Nat : addre = k * PAGE_SIZE
  /\ pending.size <= pending.len
  /\ phase = "mmap" /\ pending.size # 0 =>
       /\ FirstPage(pending.addr) * PAGE_SIZE = pending.addr
       /\ heap.bump + heap.space_remaining <= pending.addr
       /\ pending.addr + pending.len <= addre
  /\ BlocksApart

\* The type invariant but for Memory's variables.
OwnTypeOK ==
  /\ phase \in {"boot", "load", "stack", "user", "mmap", "dead"}
  /\ program \in Program /\ calls \in 0 .. MaxCalls /\ named \in BOOLEAN
  /\ segs \in Seq(Headers) /\ todo \in Seq(Calls) /\ addre \in Nat
  /\ pending \in [addr : Nat, len : Nat, prot : Prots, size : Nat]
  /\ heap \in [bump : Nat, space_remaining : Nat]

ProcInv == OwnTypeOK /\ Regions

ownVars == <<phase, program, segs, todo, addre, pending, heap, blocks, own, named, calls>>

-----------------------------------------------------------------------------
(* Numbers. *)

LEMMA Constants ==
  /\ PAGE_SIZE \in Nat /\ PAGE_SIZE >= 1 /\ Radix \in Nat /\ Radix >= 1
  /\ Grain \in Nat /\ Grain >= 1 /\ MaxCalls \in Nat
  /\ RW \in Prots /\ KernelRW \in Prots
  /\ InitProgram \in Program /\ Segments \in [Program -> Seq(Headers)]
  /\ CursorPages \in Seq(Nat) /\ UserStack \in Nat /\ UserStackPages \in Nat
  /\ MmapBase \in Nat /\ MmapBase % PAGE_SIZE = 0
  /\ Requests \subseteq Nat \X Nat /\ Sizes \subseteq Nat /\ MmapStep \in Nat
<1>1. /\ PAGE_SIZE \in Nat /\ PAGE_SIZE >= 1 /\ Radix \in Nat /\ Radix >= 1
      /\ Grain \in Nat /\ Grain >= 1
  BY SizesAssumption
<1>2. RW \in Prots /\ KernelRW \in Prots
  BY ProtsAssumption
<1>3. InitProgram \in Program /\ Segments \in [Program -> Seq(Headers)]
  BY ProgramAssumption DEF Headers
<1>4. /\ CursorPages \in Seq(Nat) /\ UserStack \in Nat /\ UserStackPages \in Nat
      /\ MmapBase \in Nat /\ MmapBase % PAGE_SIZE = 0
  BY PlacesAssumption
<1>5. /\ Requests \subseteq Nat \X Nat /\ Sizes \subseteq Nat
      /\ MaxCalls \in Nat /\ MmapStep \in Nat
  BY CallsAssumption
<1> QED  BY <1>1, <1>2, <1>3, <1>4, <1>5

\* Division by m leaves a remainder below m.
LEMMA DivBounds ==
  ASSUME NEW n \in Nat, NEW m \in Nat, m >= 1
  PROVE  /\ n \div m \in Nat /\ (n \div m) * m \in Nat
         /\ (n \div m) * m <= n /\ n < (n \div m) * m + m
         /\ n % m \in 0 .. m - 1
         /\ n % m = 0 <=> (n \div m) * m = n
OBVIOUS

LEMMA DivGrows ==
  ASSUME NEW n \in Nat, NEW k \in Nat, NEW m \in Nat, m >= 1
  PROVE  n \div m <= (n + k) \div m
<1> DEFINE p == n \div m
           q == (n + k) \div m
<1>1. /\ p \in Nat /\ p * m <= n /\ p * m \in Nat
  BY DivBounds, Zenon
<1>k. n + k \in Nat
  OBVIOUS
<1>2. q \in Nat /\ n + k < q * m + m /\ q * m \in Nat
  BY <1>k, DivBounds, Zenon
<1> HIDE DEF p, q
<1>3. p * m < (q + 1) * m
  BY <1>1, <1>2
<1>4. ASSUME q + 1 <= p PROVE FALSE
  <2>1. (q + 1) * m <= p * m
    BY <1>4, <1>1, <1>2
  <2> QED  BY <2>1, <1>1, <1>2, <1>3
<1>5. p <= q
  BY <1>4, <1>1, <1>2
<1> QED  BY <1>5 DEF p, q

LEMMA MultipleDiv ==
  ASSUME NEW k \in Nat, NEW m \in Nat, m >= 1
  PROVE  ((k * m) \div m) * m = k * m
<1> DEFINE q == (k * m) \div m
<1>1. k * m \in Nat
  OBVIOUS
<1>2. /\ q \in Nat /\ q * m \in Nat /\ q * m <= k * m /\ k * m < q * m + m
  BY <1>1, DivBounds
<1> HIDE DEF q
<1>3. ASSUME q < k PROVE FALSE
  <2>1. (q + 1) * m <= k * m
    BY <1>3, <1>2
  <2> QED  BY <2>1, <1>2
<1>4. ASSUME k < q PROVE FALSE
  <2>1. (k + 1) * m <= q * m
    BY <1>4, <1>2
  <2> QED  BY <2>1, <1>2
<1>5. q = k
  BY <1>2, <1>3, <1>4
<1> QED  BY <1>5 DEF q

LEMMA RoundUp ==
  ASSUME NEW n \in Nat, NEW m \in Nat, m >= 1
  PROVE  ROUND_UP(n, m) \in Nat /\ n <= ROUND_UP(n, m)
<1>1. n + m - 1 \in Nat
  OBVIOUS
<1> QED  BY <1>1, DivBounds DEF ROUND_UP

LEMMA Products == ASSUME NEW i \in Nat, NEW j \in Nat, i >= 1, j >= 1
                  PROVE  i * j \in Nat /\ i * j >= 1
<1>1. i * j >= 1 * j
  OBVIOUS
<1> QED  BY <1>1

\* Every page number has an address.
LEMMA PageAddrType == ASSUME NEW n \in Nat PROVE PageAddr(n) \in Addresses
<1>1. Addresses = [1 .. 4 -> 0 .. Radix - 1]
  BY AddressesAssumption
<1>2. \A k \in Nat : k % Radix \in 0 .. Radix - 1 /\ k \div Radix \in Nat
  BY Constants, DivBounds
<1>3. Radix * Radix \in Nat /\ Radix * Radix >= 1
  BY Constants, Products
<1>4. Radix * Radix * Radix \in Nat /\ Radix * Radix * Radix >= 1
  BY Constants, <1>3, Products
<1>5. n \div (Radix * Radix * Radix) \in Nat /\ n \div (Radix * Radix) \in Nat
  BY <1>3, <1>4, DivBounds
<1>6. /\ (n \div (Radix * Radix * Radix)) % Radix \in 0 .. Radix - 1
      /\ (n \div (Radix * Radix)) % Radix \in 0 .. Radix - 1
      /\ (n \div Radix) % Radix \in 0 .. Radix - 1
      /\ n % Radix \in 0 .. Radix - 1
  BY <1>2, <1>5
<1> QED  BY <1>1, <1>6 DEF PageAddr

\* A loop over pages is a list of calls.
LEMMA ForPagesType ==
  ASSUME NEW op \in {"map", "protect"}, NEW first \in Nat, NEW n \in Nat, NEW prot \in Prots
  PROVE  ForPages(op, first, n, prot) \in Seq(Calls)
<1>1. \A k \in 1 .. n : Call(op, first + k - 1, prot) \in Calls
  BY DEF Call, Calls
<1> QED  BY <1>1 DEF ForPages

LEMMA PageRange ==
  ASSUME NEW addr \in Nat, NEW len \in Nat
  PROVE  FirstPage(addr) \in Nat /\ PageCount(addr, len) \in Nat
<1>1. addr \div PAGE_SIZE \in Nat /\ (addr + len) \div PAGE_SIZE \in Nat
  <2>1. addr + len \in Nat
    OBVIOUS
  <2> QED  BY <2>1, Constants, DivBounds, Zenon
<1>2. addr \div PAGE_SIZE <= (addr + len) \div PAGE_SIZE
  BY Constants, DivGrows
<1> QED  BY <1>1, <1>2 DEF FirstPage, PageCount

LEMMA SegmentCallsType == ASSUME NEW s \in Headers PROVE SegmentCalls(s) \in Seq(Calls)
<1> DEFINE n == PageCount(s.vaddr, s.memsz)
<1>1. /\ s.vaddr \in Nat /\ s.memsz \in Nat /\ s.prot \in Prots
      /\ FirstPage(s.vaddr) \in Nat /\ n \in Nat
  BY PageRange DEF Headers
<1>2. /\ ForPages("map", FirstPage(s.vaddr), n, RW) \in Seq(Calls)
      /\ ForPages("protect", FirstPage(s.vaddr), n, s.prot) \in Seq(Calls)
  BY <1>1, ForPagesType, Constants
<1> QED  BY <1>2, ConcatProperties DEF SegmentCalls

-----------------------------------------------------------------------------
(* The steps. *)

LEMMA ProcInvInit == ProcInit => ProcInv
<1> SUFFICES ASSUME ProcInit PROVE ProcInv
  OBVIOUS
<1>1. todo \in Seq(Calls)
  <2>1. /\ Len(CursorPages) \in Nat
        /\ \A k \in 1 .. Len(CursorPages) : CursorPages[k] \in Nat
    BY Constants, LenProperties, ElementOfSeq
  <2>2. \A k \in 1 .. Len(CursorPages) : Call("map", CursorPages[k], KernelRW) \in Calls
    BY <2>1, Constants DEF Call, Calls
  <2> QED  BY <2>1, <2>2 DEF ProcInit
<1>2. /\ segs \in Seq(Headers) /\ pending = NoCall /\ heap = NewHeap
      /\ addre = MmapBase /\ blocks = {} /\ phase = "boot"
  BY DEF ProcInit
<1>3. OwnTypeOK
  <2>1. pending \in [addr : Nat, len : Nat, prot : Prots, size : Nat]
    BY <1>2, Constants DEF NoCall
  <2>2. heap \in [bump : Nat, space_remaining : Nat]
    BY <1>2 DEF NewHeap, NULL
  <2>3. addre \in Nat /\ calls \in 0 .. MaxCalls /\ program \in Program /\ named \in BOOLEAN
    <3>1. addre = MmapBase /\ calls = 0 /\ program = InitProgram /\ named = FALSE
      BY DEF ProcInit
    <3>2. MmapBase \in Nat /\ MaxCalls \in Nat /\ InitProgram \in Program
      BY Constants
    <3>3. addre \in Nat /\ program \in Program /\ named \in BOOLEAN
      BY <3>1, <3>2, Zenon
    <3>4. calls \in 0 .. MaxCalls
      BY <3>1, <3>2
    <3> QED  BY <3>3, <3>4
  <2> QED  BY <1>1, <1>2, <2>1, <2>2, <2>3 DEF OwnTypeOK
<1>4. \E k \in Nat : addre = k * PAGE_SIZE
  <2>1. MmapBase \div PAGE_SIZE \in Nat /\ (MmapBase \div PAGE_SIZE) * PAGE_SIZE = MmapBase
    BY Constants, DivBounds
  <2> QED  BY <2>1, <1>2
<1>5. Regions
  <2>1. heap.bump = 0 /\ heap.space_remaining = 0 /\ pending.size = 0 /\ pending.len = 0
    BY <1>2 DEF NoCall, NewHeap, NULL
  <2>2. addre \in Nat
    BY <1>2, Constants
  <2> QED  BY <1>2, <1>4, <2>1, <2>2 DEF Regions, BlocksApart
<1> QED  BY <1>3, <1>5 DEF ProcInv

\* What run_program leaves, after which nothing else of the kernel's changes.
LEMMA RunKeepsInv ==
  ASSUME ProcInv, NEW p \in Program, run_program(p), calls' \in 0 .. MaxCalls
  PROVE  ProcInv'
<1>1. /\ phase' = "load" /\ program' = p /\ segs' = Segments[p] /\ todo' = <<>>
      /\ heap' = NewHeap /\ blocks' = {} /\ named' = FALSE
      /\ addre' = addre /\ pending' = pending
  BY DEF run_program
<1>2. Segments[p] \in Seq(Headers) /\ <<>> \in Seq(Calls)
  BY Constants
<1>3. OwnTypeOK'
  BY <1>1, <1>2 DEF ProcInv, OwnTypeOK, NewHeap, NULL
<1>4. Regions'
  BY <1>1 DEF ProcInv, OwnTypeOK, Regions, BlocksApart, NewHeap, NULL, FirstPage
<1> QED  BY <1>3, <1>4 DEF ProcInv

\* A step that changes neither the heap nor what mmap has promised, and does not
\* enter mmap.
LEMMA QuietKeepsInv ==
  ASSUME ProcInv, UNCHANGED <<addre, pending, heap, blocks, program, named>>,
         phase' \in {"boot", "load", "stack", "user", "mmap", "dead"},
         phase' = "mmap" => phase = "mmap",
         segs' \in Seq(Headers), todo' \in Seq(Calls), calls' \in 0 .. MaxCalls
  PROVE  ProcInv'
<1>1. OwnTypeOK'
  BY DEF ProcInv, OwnTypeOK
<1>2. /\ blocks' = blocks /\ heap' = heap /\ addre' = addre /\ pending' = pending
  OBVIOUS
<1>3. Regions'
  BY <1>2 DEF ProcInv, Regions, BlocksApart, FirstPage
<1> QED  BY <1>1, <1>3 DEF ProcInv

LEMMA LoadKeepsInv == ProcInv /\ LoadSegment => ProcInv'
<1> SUFFICES ASSUME ProcInv, LoadSegment PROVE ProcInv'
  OBVIOUS
<1>1. segs \in Seq(Headers) /\ segs # <<>>
  BY DEF ProcInv, OwnTypeOK, LoadSegment
<1>2. Head(segs) \in Headers /\ Tail(segs) \in Seq(Headers)
  BY <1>1, HeadTailProperties
<1>3. SegmentCalls(Head(segs)) \in Seq(Calls) /\ <<>> \in Seq(Calls)
  BY <1>2, SegmentCallsType
<1>4. todo' \in Seq(Calls) /\ segs' \in Seq(Headers)
  BY <1>2, <1>3 DEF LoadSegment
<1>5. UNCHANGED <<addre, pending, heap, blocks, program, named, phase, calls>>
  BY DEF LoadSegment
<1> QED  BY <1>4, <1>5, QuietKeepsInv DEF ProcInv, OwnTypeOK

LEMMA StackKeepsInv == ProcInv /\ (MapStack \/ usermode_entry) => ProcInv'
<1> SUFFICES ASSUME ProcInv, MapStack \/ usermode_entry PROVE ProcInv'
  OBVIOUS
<1>1. ForPages("map", UserStack, UserStackPages, RW) \in Seq(Calls)
  BY Constants, ForPagesType
<1>2. CASE MapStack
  BY <1>1, <1>2, QuietKeepsInv DEF MapStack, ProcInv, OwnTypeOK
<1>3. CASE usermode_entry
  BY <1>3, QuietKeepsInv DEF usermode_entry, ProcInv, OwnTypeOK
<1> QED  BY <1>2, <1>3

LEMMA CallKeepsInv == ProcInv /\ RunCall => ProcInv'
<1> SUFFICES ASSUME ProcInv, RunCall PROVE ProcInv'
  OBVIOUS
<1>1. todo \in Seq(Calls) /\ todo # <<>>
  BY DEF ProcInv, OwnTypeOK, RunCall
<1>2. todo' \in Seq(Calls)
  BY <1>1, HeadTailProperties DEF RunCall
<1>3. /\ UNCHANGED <<addre, pending, heap, blocks, program, named, segs, calls>>
      /\ phase' = phase \/ phase' = "dead"
  BY DEF RunCall
<1> QED  BY <1>2, <1>3, QuietKeepsInv DEF ProcInv, OwnTypeOK

\* A call of mmap, which malloc makes with no address and a length that is enough.
LEMMA MmapKeepsInv ==
  ASSUME ProcInv, NEW addr \in Nat, NEW len \in Nat, NEW size \in Nat,
         mmap(addr, len, RW, size), size <= len, size # 0 => addr = NULL,
         UNCHANGED <<program, segs, heap, blocks>>, calls' \in 0 .. MaxCalls
  PROVE  ProcInv'
<1> DEFINE at == IF addr = NULL THEN addre ELSE addr
<1>1. /\ addre' = IF addr = NULL THEN addre + (len \div PAGE_SIZE + 1) * PAGE_SIZE
                 ELSE addre
      /\ named' = (named \/ addr # NULL)
      /\ pending' = [addr |-> at, len |-> len, prot |-> RW, size |-> size]
      /\ todo' = ForPages("map", FirstPage(at), PageCount(at, len), RW)
      /\ phase' = "mmap"
  BY DEF mmap, Growth
<1>2. addre \in Nat /\ at \in Nat
  BY DEF ProcInv, OwnTypeOK
<1>3. todo' \in Seq(Calls)
  <2>1. FirstPage(at) \in Nat /\ PageCount(at, len) \in Nat
    BY <1>2, PageRange
  <2> HIDE DEF at
  <2>2. ForPages("map", FirstPage(at), PageCount(at, len), RW) \in Seq(Calls)
    BY <2>1, Constants, ForPagesType
  <2> QED  BY <2>2, <1>1
<1>4. PICK k \in Nat : addre = k * PAGE_SIZE
  BY DEF ProcInv, Regions
<1> DEFINE q == len \div PAGE_SIZE
<1>5. q \in Nat /\ q * PAGE_SIZE \in Nat /\ len < q * PAGE_SIZE + PAGE_SIZE
  BY Constants, DivBounds
<1>6. (q + 1) * PAGE_SIZE = q * PAGE_SIZE + PAGE_SIZE
  <2> HIDE DEF q
  <2> QED  BY <1>5, Constants
<1>7. addre' \in Nat /\ addre <= addre' /\ (addr = NULL => addre + len <= addre')
  BY <1>1, <1>2, <1>5, <1>6, Constants
<1>8. \E j \in Nat : addre' = j * PAGE_SIZE
  <2>1. CASE addr = NULL
    <3> HIDE DEF q
    <3>1. k + (q + 1) \in Nat
      BY <1>5
    <3>2. (k + (q + 1)) * PAGE_SIZE = k * PAGE_SIZE + (q + 1) * PAGE_SIZE
      BY <1>5, Constants
    <3>3. addre' = (k + (q + 1)) * PAGE_SIZE
      BY <2>1, <1>1, <1>4, <3>2 DEF q
    <3> QED  BY <3>1, <3>3
  <2>2. CASE addr # NULL
    BY <2>2, <1>1, <1>4
  <2> QED  BY <2>1, <2>2
<1>9. size # 0 => FirstPage(addre) * PAGE_SIZE = addre
  BY <1>4, MultipleDiv, Constants DEF FirstPage
<1> HIDE DEF q
<1>10. OwnTypeOK'
  <2>1. pending' \in [addr : Nat, len : Nat, prot : Prots, size : Nat]
    BY <1>1, <1>2, Constants
  <2>2. /\ program' \in Program /\ segs' \in Seq(Headers) /\ named' \in BOOLEAN
        /\ heap' \in [bump : Nat, space_remaining : Nat]
    BY <1>1 DEF ProcInv, OwnTypeOK
  <2> QED  BY <2>1, <2>2, <1>1, <1>3, <1>7 DEF OwnTypeOK
<1>11. Regions'
  <2>1. /\ heap.bump \in Nat /\ heap.space_remaining \in Nat
        /\ heap.bump + heap.space_remaining <= addre
        /\ heap' = heap /\ blocks' = blocks
        /\ blocks \subseteq [at : Nat, size : Nat]
        /\ \A b \in blocks : b.at + b.size <= heap.bump
    BY DEF ProcInv, OwnTypeOK, Regions
  <2>2. heap'.bump + heap'.space_remaining <= addre'
    BY <2>1, <1>2, <1>7
  <2>3. pending'.addr = at /\ pending'.len = len /\ pending'.size = size
    BY <1>1
  <2>4. size # 0 =>
          /\ FirstPage(pending'.addr) * PAGE_SIZE = pending'.addr
          /\ heap'.bump + heap'.space_remaining <= pending'.addr
          /\ pending'.addr + pending'.len <= addre'
    BY <2>1, <2>3, <1>7, <1>9
  <2>5. BlocksApart'
    BY <2>1 DEF ProcInv, Regions, BlocksApart
  <2> QED  BY <2>1, <2>2, <2>3, <2>4, <2>5, <1>8 DEF Regions, FirstPage
<1> QED  BY <1>10, <1>11 DEF ProcInv

\* Taking size units from the beginning of what is free behind all blocks.
LEMMA GrabKeepsInv ==
  ASSUME ProcInv, NEW bump \in Nat, NEW space \in Nat, NEW size \in Nat,
         Grab(bump, space, size), size <= space, heap.bump <= bump, bump + space <= addre,
         UNCHANGED <<program, segs, addre, pending, named>>,
         todo' \in Seq(Calls), phase' = "user", calls' \in 0 .. MaxCalls
  PROVE  ProcInv'
<1>1. /\ heap' = [bump |-> bump + size, space_remaining |-> space - size]
      /\ blocks' = blocks \cup {[at |-> bump, size |-> size]}
  BY DEF Grab
<1>2. /\ heap.bump \in Nat /\ blocks \subseteq [at : Nat, size : Nat] /\ addre \in Nat
      /\ \A b \in blocks : b.at \in Nat /\ b.size \in Nat /\ b.at + b.size <= heap.bump
  BY DEF ProcInv, OwnTypeOK, Regions
<1>3. bump + size \in Nat /\ space - size \in Nat
  OBVIOUS
<1>4. OwnTypeOK'
  <2>1. heap' \in [bump : Nat, space_remaining : Nat]
    BY <1>1, <1>3
  <2> QED  BY <2>1 DEF ProcInv, OwnTypeOK
<1>5. /\ heap'.bump = bump + size /\ heap'.space_remaining = space - size
      /\ heap'.bump + heap'.space_remaining <= addre
  BY <1>1, <1>2
<1>6. \A b \in blocks : b.at + b.size <= bump
  BY <1>2
<1>7. blocks' \subseteq [at : Nat, size : Nat]
  BY <1>1, <1>2
<1>8. \A b \in blocks' : b.at + b.size <= heap'.bump
  <2> SUFFICES ASSUME NEW b \in blocks' PROVE b.at + b.size <= bump + size
    BY <1>5
  <2>1. CASE b \in blocks
    BY <2>1, <1>2, <1>6
  <2>2. CASE b = [at |-> bump, size |-> size]
    BY <2>2
  <2> QED  BY <2>1, <2>2, <1>1
<1>9. BlocksApart'
  <2> SUFFICES ASSUME NEW b \in blocks', NEW c \in blocks', b # c
               PROVE  b.at + b.size <= c.at \/ c.at + c.size <= b.at
    BY DEF BlocksApart
  <2>1. CASE b \in blocks /\ c \in blocks
    BY <2>1 DEF ProcInv, Regions, BlocksApart
  <2>2. CASE b \in blocks /\ c = [at |-> bump, size |-> size]
    BY <2>2, <1>6
  <2>3. CASE c \in blocks /\ b = [at |-> bump, size |-> size]
    BY <2>3, <1>6
  <2> QED  BY <2>1, <2>2, <2>3, <1>1
<1>10. Regions'
  BY <1>5, <1>7, <1>8, <1>9 DEF ProcInv, Regions, FirstPage
<1> QED  BY <1>4, <1>10 DEF ProcInv

LEMMA ReturnKeepsInv == ProcInv /\ MmapReturns => ProcInv'
<1> SUFFICES ASSUME ProcInv, MmapReturns PROVE ProcInv'
  OBVIOUS
<1>1. /\ pending.addr \in Nat /\ pending.len \in Nat /\ pending.size \in Nat
      /\ todo' \in Seq(Calls) /\ segs' \in Seq(Headers) /\ calls' \in 0 .. MaxCalls
      /\ phase = "mmap" /\ phase' = "user"
      /\ UNCHANGED <<program, segs, addre, pending, named>>
  BY DEF ProcInv, OwnTypeOK, MmapReturns
<1>2. CASE pending.size = 0
  BY <1>1, <1>2, QuietKeepsInv DEF MmapReturns
<1>3. CASE pending.size # 0
  <2>1. Grab(pending.addr, pending.len, pending.size)
    BY <1>1, <1>3 DEF MmapReturns, ProcInv, Regions
  <2>2. /\ pending.size <= pending.len /\ pending.addr + pending.len <= addre
        /\ heap.bump + heap.space_remaining <= pending.addr
        /\ heap.bump \in Nat /\ heap.space_remaining \in Nat
    BY <1>1, <1>3 DEF ProcInv, OwnTypeOK, Regions
  <2>3. heap.bump <= pending.addr
    BY <2>2, <1>1
  <2> QED  BY <1>1, <2>1, <2>2, <2>3, GrabKeepsInv
<1> QED  BY <1>2, <1>3

LEMMA MallocKeepsInv == ASSUME ProcInv, NEW sz \in Nat, malloc(sz) PROVE ProcInv'
<1> DEFINE size == ROUND_UP(sz, Grain)
           len == ROUND_UP(size, PAGE_SIZE)
<1>1. size \in Nat /\ len \in Nat /\ size <= len
  BY Constants, RoundUp
<1>2. calls' \in 0 .. MaxCalls
  BY Constants DEF malloc, UserCalls, ProcInv, OwnTypeOK
<1>3. CASE NeedsMore(size)
  <2>1. mmap(NULL, len, RW, size) /\ UNCHANGED <<program, segs, heap, blocks>>
    BY <1>3 DEF malloc
  <2> HIDE DEF len, size
  <2> QED  BY <1>1, <1>2, <2>1, MmapKeepsInv DEF NULL
<1>4. CASE ~NeedsMore(size)
  <2>1. /\ Grab(heap.bump, heap.space_remaining, size)
        /\ UNCHANGED <<program, segs, phase, todo, addre, pending, named>>
        /\ phase' = "user"
    BY <1>4 DEF malloc, UserCalls
  <2>2. /\ heap.bump \in Nat /\ heap.space_remaining \in Nat
        /\ heap.bump + heap.space_remaining <= addre /\ todo' \in Seq(Calls)
    BY <2>1 DEF ProcInv, OwnTypeOK, Regions
  <2> HIDE DEF len, size
  <2>3. size <= heap.space_remaining
    BY <1>1, <1>4, <2>2 DEF NeedsMore
  <2> QED  BY <1>1, <1>2, <2>1, <2>2, <2>3, GrabKeepsInv
<1> QED  BY <1>3, <1>4

LEMMA ExecKeepsInv == ASSUME ProcInv, NEW file, sys_exec(file) PROVE ProcInv'
<1>1. calls' \in 0 .. MaxCalls
  BY Constants DEF sys_exec, UserCalls, ProcInv, OwnTypeOK
<1>2. CASE file \in Program
  BY <1>1, <1>2, RunKeepsInv DEF sys_exec
<1>3. CASE file \notin Program
  BY <1>1, <1>3, QuietKeepsInv DEF sys_exec, ProcInv, OwnTypeOK
<1> QED  BY <1>2, <1>3

LEMMA ProcInvStep == ProcInv /\ [ProcNext]_procVars => ProcInv'
<1> SUFFICES ASSUME ProcInv, [ProcNext]_procVars PROVE ProcInv'
  OBVIOUS
<1>1. CASE RunCall
  BY <1>1, CallKeepsInv
<1>2. CASE KernelTurn
  <2>1. CASE StartInit
    BY <2>1, RunKeepsInv, Constants DEF StartInit, ProcInv, OwnTypeOK
  <2> QED  BY <1>2, <2>1, LoadKeepsInv, StackKeepsInv, ReturnKeepsInv DEF KernelTurn
<1>3. CASE ProgramStep
  <2>1. ASSUME NEW file, sys_exec(file) PROVE ProcInv'
    BY <2>1, ExecKeepsInv
  <2>2. ASSUME NEW r \in Requests, sys_mmap(r[1], r[2], RW) PROVE ProcInv'
    <3>1. r[1] \in Nat /\ r[2] \in Nat
      BY Constants
    <3>2. calls' \in 0 .. MaxCalls
      BY <2>2, Constants DEF sys_mmap, UserCalls, ProcInv, OwnTypeOK
    <3>3. mmap(r[1], r[2], RW, 0) /\ UNCHANGED <<program, segs, heap, blocks>>
      BY <2>2 DEF sys_mmap
    <3> QED  BY <3>1, <3>2, <3>3, MmapKeepsInv
  <2>3. ASSUME NEW sz \in Sizes, malloc(sz) PROVE ProcInv'
    BY <2>3, MallocKeepsInv, Constants
  <2>4. CASE sys_write
    <3>1. calls' \in 0 .. MaxCalls
      BY <2>4, Constants DEF sys_write, UserCalls, ProcInv, OwnTypeOK
    <3> QED  BY <2>4, <3>1, QuietKeepsInv DEF sys_write, ProcInv, OwnTypeOK
  <2> QED  BY <1>3, <2>1, <2>2, <2>3, <2>4 DEF ProgramStep, sys_exit
<1>4. CASE UNCHANGED procVars
  BY <1>4, QuietKeepsInv DEF procVars, ProcInv, OwnTypeOK
<1> QED  BY <1>1, <1>2, <1>3, <1>4 DEF ProcNext

-----------------------------------------------------------------------------
(* Memory. *)

\* A step of the loader, of mmap or of a program is an operation of Memory or
\* does not touch its variables.
LEMMA StepUsesMemory == ProcInv /\ [ProcNext]_procVars => [MemNext]_memVars
<1> SUFFICES ASSUME ProcInv, [ProcNext]_procVars PROVE [MemNext]_memVars
  OBVIOUS
<1>1. CASE RunCall
  <2> DEFINE call == Head(todo)
  <2>1. todo \in Seq(Calls) /\ todo # <<>>
    BY <1>1 DEF ProcInv, OwnTypeOK, RunCall
  <2>2. call \in Calls
    BY <2>1, HeadTailProperties
  <2>3. call.page \in Nat /\ call.prot \in Prots
    BY <2>2 DEF Calls
  <2>4. vm_map(PageAddr(call.page), call.prot) \/ vm_protect(PageAddr(call.page), call.prot)
    BY <1>1 DEF RunCall
  <2>5. PageAddr(call.page) \in Addresses
    BY <2>3, PageAddrType
  <2> QED  BY <2>3, <2>4, <2>5 DEF MemNext
<1>2. CASE KernelTurn
  BY <1>2 DEF KernelTurn, StartInit, LoadSegment, MapStack, usermode_entry, MmapReturns
<1>3. CASE ProgramStep
  <2>1. ASSUME NEW file, sys_exec(file) PROVE [MemNext]_memVars
    BY <2>1 DEF sys_exec, MemNext
  <2>2. ASSUME NEW r, sys_mmap(r[1], r[2], RW) PROVE [MemNext]_memVars
    BY <2>2 DEF sys_mmap
  <2>3. ASSUME NEW sz, malloc(sz) PROVE [MemNext]_memVars
    BY <2>3 DEF malloc
  <2>4. CASE sys_write
    BY <2>4 DEF sys_write
  <2> QED  BY <1>3, <2>1, <2>2, <2>3, <2>4 DEF ProgramStep, sys_exit
<1>4. CASE UNCHANGED procVars
  BY <1>4 DEF procVars
<1> QED  BY <1>1, <1>2, <1>3, <1>4 DEF ProcNext

-----------------------------------------------------------------------------
(* What a program finds: the invariant. *)

\* The segments of the program handled so far; the last may still wait for
\* calls.
Handled == Len(Segments[program]) - Len(segs)
Seg(i) == Segments[program][i]
SegPages(i) == PagesFor(Seg(i).vaddr, Seg(i).memsz)

Waits(op, n) == \E j \in DOMAIN todo : todo[j].op = op /\ todo[j].page = n

Running == {"load", "stack", "user", "mmap"}

\* A program that does not run yet has nothing from mmap or malloc.
Bare == phase \in {"boot", "load", "stack"} => blocks = {} /\ own = {} /\ heap = NewHeap

Progress ==
  phase \in Running =>
    /\ Len(segs) <= Len(Segments[program])
    /\ \A i \in 1 .. Len(segs) : segs[i] = Seg(Handled + i)
    /\ phase # "load" => segs = <<>>

\* What the calls of a loop are.
CallsRight ==
  \A j \in DOMAIN todo :
    LET call == todo[j]
    IN  /\ phase = "boot" => call.op = "map" /\ PageAddr(call.page)[1] \notin LowerHalf
        /\ phase = "load" =>
             /\ Handled >= 1 /\ InMemory(Seg(Handled)) /\ call.page \in SegPages(Handled)
             /\ call.op = "protect" =>
                  /\ call.prot = Seg(Handled).prot
                  /\ \A k \in DOMAIN todo : j < k => todo[k].op = "protect"
        /\ phase = "stack" => call.op = "map" /\ call.prot = RW /\ call.page \in Stack
        /\ phase = "mmap" => /\ call.op = "map" /\ call.prot = pending.prot
                             /\ call.page \in PagesFor(pending.addr, pending.len)

\* A page of a segment has its protection or waits for it.
SegmentsReady ==
  phase \in Running =>
    \A i \in 1 .. Handled : InMemory(Seg(i)) =>
      \A n \in SegPages(i) :
        \/ Space(n) = {Seg(i).prot}
        \/ i = Handled /\ phase = "load" /\ Waits("protect", n)

\* What waits to be protected is not a page of an earlier segment: had it been
\* one, it could not have been mapped.
ProtectsItsOwn ==
  phase = "load" =>
    \A j \in DOMAIN todo : todo[j].op = "protect" =>
      \A i \in 1 .. Handled - 1 : InMemory(Seg(i)) =>
        \A n \in SegPages(i) :
          PageAddr(n) # PageAddr(todo[j].page) \/ Waits("map", todo[j].page)

StackReady ==
  phase \in {"stack", "user", "mmap"} /\ freelist # <<>> =>
    \A n \in Stack : Space(n) = {RW} \/ (phase = "stack" /\ Waits("map", n))

OwnReady ==
  /\ own \subseteq [addr : Nat, len : Nat, prot : Prots, size : Nat]
  /\ phase # "dead" =>
       \A o \in own : \A n \in PagesFor(o.addr, o.len) : Space(n) = {o.prot}
  /\ phase = "mmap" =>
       \A n \in PagesFor(pending.addr, pending.len) :
         Space(n) = {pending.prot} \/ Waits("map", n)

\* Where the pages mapped in the lower half come from.
Source(a) ==
  \/ \E i \in 1 .. Handled : InMemory(Seg(i)) /\ \E n \in SegPages(i) : PageAddr(n) = a
  \/ /\ phase \in {"stack", "user", "mmap"}
     /\ \E n \in Stack : PageAddr(n) = a /\ Space(n) = {RW}
  \/ \E o \in own : \E n \in PagesFor(o.addr, o.len) : PageAddr(n) = a
  \/ phase = "mmap" /\ \E n \in PagesFor(pending.addr, pending.len) : PageAddr(n) = a

NothingElse ==
  \A a \in Addresses : a[1] \in LowerHalf /\ Pages(a) # {} =>
    phase # "boot" /\ (phase \in Running => Source(a))

ImageInv ==
  /\ Bare /\ Progress /\ CallsRight /\ SegmentsReady /\ ProtectsItsOwn
  /\ StackReady /\ OwnReady /\ NothingElse

\* Malloc's blocks, and what is left of its last region, are pages the program
\* can write, and begin at multiples of Grain.
Multiple(n) == \E k \in Nat : n = k * Grain

Writable(at, size) == \A u \in at .. at + size - 1 : Space(FirstPage(u)) = {RW}

HeapInv ==
  /\ Multiple(heap.bump) /\ Multiple(pending.size)
  /\ pending.size # 0 => pending.prot = RW
  /\ Writable(heap.bump, heap.space_remaining)
  /\ \A b \in blocks : Multiple(b.at) /\ Writable(b.at, b.size)

-----------------------------------------------------------------------------
(* What the operations of Memory do to pages. *)

LEMMA SpaceKept ==
  ASSUME entries' = entries
  PROVE  /\ \A a : Pages(a)' = Pages(a)
         /\ \A n : Space(n)' = Space(n)
<1>1. ASSUME NEW a PROVE Pages(a)' = Pages(a)
  BY DEF Pages
<1>2. ASSUME NEW n PROVE Space(n)' = Space(n)
  BY <1>1 DEF Space, PageAddr
<1> QED  BY <1>1, <1>2

\* Pages with the same address have the same space.
LEMMA SpaceByAddress ==
  ASSUME NEW n, NEW m, PageAddr(n) = PageAddr(m)
  PROVE  Space(n) = Space(m) /\ Space(n)' = Space(m)'
BY DEF Space

LEMMA SpaceFromPages ==
  ASSUME NEW n
  PROVE  /\ Space(n) = {} <=> Pages(PageAddr(n)) = {}
         /\ Space(n)' = {} <=> Pages(PageAddr(n))' = {}
         /\ Pages(PageAddr(n))' = Pages(PageAddr(n)) => Space(n)' = Space(n)
<1>1. Space(n) = {page.prot : page \in Pages(PageAddr(n))}
  BY DEF Space
<1>2. Space(n)' = {page.prot : page \in Pages(PageAddr(n))'}
  BY DEF Space
<1>3. Space(n) = {} <=> Pages(PageAddr(n)) = {}
  BY ONLY <1>1, Zenon
<1>4. Space(n)' = {} <=> Pages(PageAddr(n))' = {}
  BY ONLY <1>2, Zenon
<1> QED  BY <1>1, <1>2, <1>3, <1>4, Zenon

\* A call of vm_map changes no page that is mapped, and maps no page but its
\* own.  It maps that one when it returns true, and when it was not mapped and
\* memory does not run out.
LEMMA MapSpace ==
  ASSUME MemInv, NEW m \in Nat, NEW p \in Prots, vm_map(PageAddr(m), p)
  PROVE  /\ \A n \in Nat : Space(n) # {} => Space(n)' = Space(n)
         /\ \A a \in Addresses : Pages(a)' # Pages(a) => a = PageAddr(m) /\ Space(m)' = {p}
         /\ result' /\ ~astray' => Space(m) = {} /\ Space(m)' = {p}
         /\ ~astray' /\ freelist' # <<>> /\ Space(m) = {} => Space(m)' = {p}
         /\ freelist' # <<>> => freelist # <<>>
<1> DEFINE a == PageAddr(m)
<1>1. a \in Addresses
  BY PageAddrType
<1>2. CASE MapRefused(a)
  <2>1. entries' = entries /\ freelist' = freelist /\ result' = FALSE
    BY <1>2 DEF MapRefused
  <2>2. Walk(a).depth = 4
    BY <1>1, <1>2, WalkEnds DEF MapRefused, Missing, MemInv
  <2>3. Pages(a) # {}
    BY <2>2, WalkPath, PathGivesPage
  <2> QED  BY <2>1, <2>3, SpaceKept, SpaceFromPages
<1>3. CASE MapAstray(a)
  BY <1>3, SpaceKept DEF MapAstray
<1>4. CASE MapAdds(a, p)
  <2>1. /\ Walk(a).depth \in 0 .. 3 /\ Missing(a) = 4 - Walk(a).depth
        /\ Added(a) \in 0 .. Missing(a) /\ result' = (Added(a) = Missing(a))
    BY <1>1, <1>4, MapAddsLinks
  <2>2. Pages(a) = {} /\ Space(m) = {}
    <3>1. Walk(a).depth # 4
      BY <2>1
    <3> QED  BY <1>1, <3>1, NoPath, SpaceFromPages
  <2>3. \A b \in Addresses : Pages(b)' # Pages(b) => b = a /\ Added(a) = Missing(a)
    BY <1>1, <1>4, MapPages
  <2>4. Added(a) = Missing(a) => Space(m)' = {p}
    <3> SUFFICES ASSUME Added(a) = Missing(a) PROVE Space(m)' = {p}
      OBVIOUS
    <3>1. Pages(a)' = {[frame |-> freelist[Missing(a)], prot |-> p]}
      BY <1>1, <1>4, MapPages
    <3>2. Space(m)' = {page.prot : page \in Pages(a)'}
      BY DEF Space
    <3> QED  BY <3>1, <3>2
  <2>5. \A n \in Nat : Space(n) # {} => Space(n)' = Space(n)
    <3> SUFFICES ASSUME NEW n \in Nat, Space(n) # {} PROVE Space(n)' = Space(n)
      OBVIOUS
    <3>1. PageAddr(n) # a /\ PageAddr(n) \in Addresses
      BY <2>2, SpaceByAddress, PageAddrType
    <3> QED  BY <2>3, <3>1, SpaceFromPages
  <2>6. freelist \in Seq(Frames) /\ Len(freelist) \in Nat
    BY DEF MemInv, MemTypeOK
  <2>7. freelist' = pmem_alloc(Added(a)) /\ Added(a) = Least(Missing(a), Len(freelist))
    BY <1>4 DEF MapAdds, Added
  <2>8. Added(a) \in 0 .. Len(freelist)
    BY <2>1, <2>6, <2>7 DEF Least
  <2>9. freelist' \in Seq(Frames) /\ Len(freelist') = Len(freelist) - Added(a)
    BY <2>6, <2>7, <2>8, ListAfterAlloc
  <2>10. freelist' # <<>> => freelist # <<>> /\ Added(a) = Missing(a)
    <3> SUFFICES ASSUME freelist' # <<>> PROVE freelist # <<>> /\ Added(a) = Missing(a)
      OBVIOUS
    <3>1. Len(freelist') > 0
      BY <2>9, EmptySeq
    <3>2. Len(freelist) > 0 /\ Added(a) < Len(freelist)
      BY <2>6, <2>8, <2>9, <3>1
    <3>3. Added(a) = Missing(a)
      BY <2>1, <2>6, <2>7, <3>2 DEF Least
    <3> QED  BY <2>6, <3>2, <3>3
  <2> QED  BY <1>4, <2>1, <2>2, <2>3, <2>4, <2>5, <2>10 DEF MapAdds
<1> QED  BY <1>2, <1>3, <1>4 DEF vm_map

LEMMA ProtectSpace ==
  ASSUME MemInv, NEW m \in Nat, NEW p \in Prots, vm_protect(PageAddr(m), p)
  PROVE  /\ UNCHANGED <<freelist, astray>>
         /\ \A a \in Addresses : a # PageAddr(m) => Pages(a)' = Pages(a)
         /\ \A a \in Addresses : Pages(a)' = {} <=> Pages(a) = {}
         /\ \A n \in Nat : PageAddr(n) # PageAddr(m) => Space(n)' = Space(n)
         /\ result' => Space(m)' = {p}
         /\ Space(m) # {} => result'
<1> DEFINE a == PageAddr(m)
<1>1. a \in Addresses
  BY PageAddrType
<1>2. \A b \in Addresses : b # a => Pages(b)' = Pages(b)
  BY <1>1, ProtectPages
<1>3. Mapped(a) => \E page \in Pages(a) : Pages(a)' = {[frame |-> page.frame, prot |-> p]}
  BY <1>1, ProtectPages
<1>4. ~Mapped(a) => Pages(a)' = Pages(a)
  BY <1>1, ProtectPages
<1>5. \A b \in Addresses : Pages(b)' = {} <=> Pages(b) = {}
  BY <1>2, <1>3, <1>4
<1>6. result' => Space(m)' = {p}
  <2>1. Space(m)' = {page.prot : page \in Pages(a)'}
    BY DEF Space
  <2>2. result' => \E f : Pages(a)' = {[frame |-> f, prot |-> p]}
    BY <1>3 DEF vm_protect
  <2>3. ASSUME NEW f, Pages(a)' = {[frame |-> f, prot |-> p]} PROVE Space(m)' = {p}
    BY <2>1, <2>3
  <2> QED  BY <2>2, <2>3
<1>7. \A n \in Nat : PageAddr(n) # a => Space(n)' = Space(n)
  BY <1>2, PageAddrType, SpaceFromPages
<1>8. UNCHANGED <<freelist, astray>> /\ result' = Mapped(a)
  BY DEF vm_protect
<1>9. Space(m) # {} => Mapped(a)
  BY <1>1, NoPath, SpaceFromPages DEF Mapped
<1> QED  BY <1>2, <1>5, <1>6, <1>7, <1>8, <1>9

-----------------------------------------------------------------------------
(* What a program finds: the calls of a loop. *)

LEMMA PagesForType ==
  ASSUME NEW addr \in Nat, NEW len \in Nat
  PROVE  PagesFor(addr, len) \subseteq Nat
<1>1. addr + len \in Nat
  OBVIOUS
<1>2. FirstPage(addr) \in Nat /\ FirstPage(addr + len) \in Nat
  BY <1>1, Constants, DivBounds DEF FirstPage
<1> QED  BY <1>2 DEF PagesFor

\* The segments handled are segments of the program.
LEMMA SegType ==
  ASSUME ProcInv, Progress, phase \in Running
  PROVE  /\ Handled \in Nat
         /\ \A i \in 1 .. Handled : /\ i \in DOMAIN Segments[program]
                                   /\ Seg(i) \in Headers /\ SegPages(i) \subseteq Nat
<1>1. Segments[program] \in Seq(Headers) /\ segs \in Seq(Headers)
  BY Constants DEF ProcInv, OwnTypeOK
<1>2. /\ Len(Segments[program]) \in Nat /\ Len(segs) \in Nat
      /\ Len(segs) <= Len(Segments[program])
  BY <1>1, LenProperties DEF Progress
<1>3. Handled \in Nat /\ Handled <= Len(Segments[program])
  BY <1>2 DEF Handled
<1>4. ASSUME NEW i \in 1 .. Handled
      PROVE  /\ i \in DOMAIN Segments[program]
             /\ Seg(i) \in Headers /\ SegPages(i) \subseteq Nat
  <2>1. i \in 1 .. Len(Segments[program])
    BY <1>2, <1>3
  <2>2. i \in DOMAIN Segments[program] /\ Seg(i) \in Headers
    BY <1>1, <2>1, LenProperties, ElementOfSeq DEF Seg
  <2>3. Seg(i).vaddr \in Nat /\ Seg(i).memsz \in Nat
    BY <2>2 DEF Headers
  <2> QED  BY <2>2, <2>3, PagesForType DEF SegPages
<1> QED  BY <1>3, <1>4

LoaderInv == ProcInv /\ MemInv /\ ImageInv

\* The call that a step makes, and what waits after it.
LEMMA CallMade ==
  ASSUME LoaderInv, RunCall
  PROVE  LET call == Head(todo)
         IN  /\ call = todo[1] /\ 1 \in DOMAIN todo /\ call \in Calls
             /\ \A j \in DOMAIN todo' : j + 1 \in DOMAIN todo /\ todo'[j] = todo[j + 1]
             /\ DOMAIN todo' \subseteq Nat \ {0}
             /\ \A op, n : Waits(op, n) =>
                  Waits(op, n)' \/ (op = call.op /\ n = call.page)
             /\ call.op = "map" => vm_map(PageAddr(call.page), call.prot)
             /\ call.op = "protect" => vm_protect(PageAddr(call.page), call.prot)
<1> DEFINE call == Head(todo)
<1>1. todo \in Seq(Calls) /\ todo # <<>> /\ todo' = Tail(todo)
  BY DEF LoaderInv, ProcInv, OwnTypeOK, RunCall
<1>2. /\ Len(todo) \in Nat /\ Len(todo) >= 1 /\ DOMAIN todo = 1 .. Len(todo)
      /\ call = todo[1] /\ call \in Calls
  BY <1>1, EmptySeq, LenProperties, HeadTailProperties
<1>3. /\ DOMAIN todo' = 1 .. Len(todo) - 1
      /\ \A j \in 1 .. Len(todo) - 1 : todo'[j] = todo[j + 1]
  BY <1>1, <1>2, HeadTailProperties, LenProperties
<1>4. \A j \in DOMAIN todo' : j + 1 \in DOMAIN todo /\ todo'[j] = todo[j + 1]
  BY <1>2, <1>3
<1>5. ASSUME NEW op, NEW n, Waits(op, n)
      PROVE  Waits(op, n)' \/ (op = call.op /\ n = call.page)
  <2>1. PICK j \in DOMAIN todo : todo[j].op = op /\ todo[j].page = n
    BY <1>5 DEF Waits
  <2>2. CASE j = 1
    BY <2>1, <2>2, <1>2
  <2>3. CASE j # 1
    <3>1. j - 1 \in DOMAIN todo' /\ todo'[j - 1] = todo[j]
      BY <2>3, <1>2, <1>3
    <3> QED  BY <2>1, <3>1 DEF Waits
  <2> QED  BY <2>2, <2>3
<1>6. call.op \in {"map", "protect"}
  BY <1>2 DEF Calls
<1>7. /\ call.op = "map" => vm_map(PageAddr(call.page), call.prot)
      /\ call.op = "protect" => vm_protect(PageAddr(call.page), call.prot)
  BY DEF RunCall
<1> QED  BY <1>2, <1>3, <1>4, <1>5, <1>7

\* What it leaves, when the kernel survives it.
LEMMA CallLeaves ==
  ASSUME LoaderInv, RunCall
  PROVE  /\ phase \in {"boot", "load", "stack", "mmap"}
         /\ phase' # "dead" => phase' = phase /\ ~astray' /\ (result' \/ phase = "stack")
         /\ UNCHANGED <<program, segs, pending, heap, blocks, own>>
         /\ Handled' = Handled
         /\ \A i : Seg(i)' = Seg(i) /\ SegPages(i)' = SegPages(i)
<1>1. UNCHANGED <<program, segs, pending, heap, blocks, own>>
  BY DEF RunCall
<1>2. Handled' = Handled
  BY <1>1 DEF Handled
<1>3. \A i : Seg(i)' = Seg(i)
  BY <1>1 DEF Seg
<1>4. \A i : SegPages(i)' = SegPages(i)
  BY <1>3 DEF SegPages, PagesFor, FirstPage
<1> QED  BY <1>1, <1>2, <1>3, <1>4 DEF RunCall

LEMMA CallKeepsRest ==
  ASSUME LoaderInv, RunCall
  PROVE  Bare' /\ Progress' /\ CallsRight'
<1>1. Bare'
  BY CallLeaves DEF LoaderInv, ImageInv, Bare
<1>2. Progress'
  <2>1. phase' \in Running => phase \in Running /\ phase' = phase
    BY CallLeaves DEF Running
  <2> QED  BY <2>1, CallLeaves DEF LoaderInv, ImageInv, Progress
<1>3. CallsRight'
  <2> SUFFICES ASSUME NEW j \in DOMAIN todo', phase' # "dead"
      PROVE LET call == todo'[j]
            IN  /\ phase = "boot" => call.op = "map" /\ PageAddr(call.page)[1] \notin LowerHalf
                /\ phase = "load" =>
                     /\ Handled >= 1 /\ InMemory(Seg(Handled)) /\ call.page \in SegPages(Handled)
                     /\ call.op = "protect" =>
                          /\ call.prot = Seg(Handled).prot
                          /\ \A k \in DOMAIN todo' : j < k => todo'[k].op = "protect"
                /\ phase = "stack" => call.op = "map" /\ call.prot = RW /\ call.page \in Stack
                /\ phase = "mmap" => /\ call.op = "map" /\ call.prot = pending.prot
                                     /\ call.page \in PagesFor(pending.addr, pending.len)
    <3>1. CASE phase' = "dead"
      BY <3>1 DEF CallsRight
    <3>2. CASE phase' # "dead"
      BY <3>2, CallLeaves DEF CallsRight, PageAddr, InMemory, PagesFor, FirstPage
    <3> QED  BY <3>1, <3>2
  <2>1. j + 1 \in DOMAIN todo /\ todo'[j] = todo[j + 1] /\ DOMAIN todo' \subseteq Nat
    BY CallMade
  <2>2. CallsRight
    BY DEF LoaderInv, ImageInv
  <2>3. \A k \in DOMAIN todo' : j < k => /\ k + 1 \in DOMAIN todo /\ j + 1 < k + 1
                                         /\ todo'[k] = todo[k + 1]
    BY <2>1, CallMade
  <2> QED  BY <2>1, <2>2, <2>3 DEF CallsRight
<1> QED  BY <1>1, <1>2, <1>3

LEMMA CallKeepsSegments ==
  ASSUME LoaderInv, RunCall
  PROVE  SegmentsReady' /\ ProtectsItsOwn'
<1>0. PICK call : call = Head(todo)
  OBVIOUS
<1>1. /\ call = todo[1] /\ 1 \in DOMAIN todo
      /\ call.page \in Nat /\ call.prot \in Prots /\ call.op \in {"map", "protect"}
  BY <1>0, CallMade DEF Calls
<1>2. /\ \A j \in DOMAIN todo' : j + 1 \in DOMAIN todo /\ todo'[j] = todo[j + 1]
      /\ \A op, n : Waits(op, n) => Waits(op, n)' \/ (op = call.op /\ n = call.page)
      /\ call.op = "map" => vm_map(PageAddr(call.page), call.prot)
      /\ call.op = "protect" => vm_protect(PageAddr(call.page), call.prot)
  BY <1>0, CallMade
<1>3. /\ Handled' = Handled /\ \A i : Seg(i)' = Seg(i) /\ SegPages(i)' = SegPages(i)
      /\ phase \in {"boot", "load", "stack", "mmap"}
      /\ phase' # "dead" => phase' = phase /\ ~astray' /\ (result' \/ phase = "stack")
  BY CallLeaves
<1>4. /\ MemInv /\ SegmentsReady /\ ProtectsItsOwn /\ CallsRight
  BY DEF LoaderInv, ImageInv
<1>5. SegmentsReady'
  <2> SUFFICES ASSUME phase' \in Running, NEW i \in 1 .. Handled, InMemory(Seg(i)),
                      NEW n \in SegPages(i)
               PROVE  \/ Space(n)' = {Seg(i).prot}
                      \/ i = Handled /\ phase' = "load" /\ Waits("protect", n)'
    BY <1>3 DEF SegmentsReady, InMemory
  <2>1. phase \in Running /\ phase' = phase /\ ~astray' /\ (result' \/ phase = "stack")
    BY <1>3 DEF Running
  <2>2. n \in Nat
    BY <2>1, SegType DEF LoaderInv, ImageInv
  <2>3. Space(n) = {Seg(i).prot} \/ (i = Handled /\ phase = "load" /\ Waits("protect", n))
    BY <1>4, <2>1 DEF SegmentsReady
  <2>4. CASE call.op = "map"
    <3>1. Space(n) = {Seg(i).prot} => Space(n)' = {Seg(i).prot}
      BY <1>1, <1>2, <1>4, <2>2, <2>4, MapSpace
    <3> QED  BY <1>2, <2>1, <2>3, <2>4, <3>1
  <2>5. CASE call.op = "protect"
    <3>1. /\ phase = "load" /\ call.prot = Seg(Handled).prot
          /\ \A k \in DOMAIN todo : 1 < k => todo[k].op = "protect"
      BY <1>1, <1>4, <2>1, <2>5, <1>3 DEF CallsRight, Running
    <3>2. ~Waits("map", call.page)
      BY <1>1, <2>5, <3>1, CallMade DEF Waits
    <3>3. CASE PageAddr(n) = PageAddr(call.page)
      <4>1. i = Handled
        <5> SUFFICES ASSUME i # Handled PROVE FALSE
          OBVIOUS
        <5>1. i \in 1 .. Handled - 1
          BY <2>1, SegType DEF LoaderInv, ImageInv
        <5> QED  BY <5>1, <1>1, <1>4, <2>5, <3>1, <3>2, <3>3 DEF ProtectsItsOwn
      <4>2. Space(call.page)' = {Seg(i).prot}
        BY <4>1, <3>1, <1>1, <1>2, <1>4, <2>1, <2>5, ProtectSpace
      <4> QED  BY <4>2, <3>3, SpaceByAddress
    <3>4. CASE PageAddr(n) # PageAddr(call.page)
      <4>1. Space(n)' = Space(n)
        BY <3>4, <1>1, <1>2, <1>4, <2>2, <2>5, ProtectSpace
      <4> QED  BY <3>4, <4>1, <1>2, <2>1, <2>3
    <3> QED  BY <3>3, <3>4
  <2> QED  BY <1>1, <2>4, <2>5
<1>6. ProtectsItsOwn'
  <2> SUFFICES ASSUME phase' = "load", NEW j \in DOMAIN todo', todo'[j].op = "protect",
                      NEW i \in 1 .. Handled - 1, InMemory(Seg(i)), NEW n \in SegPages(i),
                      NEW q, q = todo'[j].page
               PROVE  PageAddr(n) # PageAddr(q) \/ Waits("map", q)'
    BY <1>3 DEF ProtectsItsOwn, InMemory, PageAddr, Waits
  <2>1. phase = "load" /\ phase \in Running /\ ~astray' /\ result'
    BY <1>3 DEF Running
  <2>2. j + 1 \in DOMAIN todo /\ todo[j + 1].op = "protect" /\ todo[j + 1].page = q
    BY <1>2
  <2>3. PageAddr(n) # PageAddr(q) \/ Waits("map", q)
    BY <1>4, <2>1, <2>2 DEF ProtectsItsOwn
  <2>4. CASE call.op = "map" /\ call.page = q
    <3>1. Space(q) = {}
      BY <1>1, <1>2, <1>4, <2>1, <2>4, MapSpace
    <3>2. i \in 1 .. Handled /\ i # Handled
      BY <2>1, SegType DEF LoaderInv, ImageInv
    <3>3. Space(n) = {Seg(i).prot}
      BY <1>4, <2>1, <3>2 DEF SegmentsReady
    <3> QED  BY <2>2, <3>1, <3>3, SpaceByAddress
  <2> QED  BY <1>2, <2>2, <2>3, <2>4
<1> QED  BY <1>5, <1>6

\* The pages of the stack are no one else's while it is being mapped.
LEMMA StackFree ==
  ASSUME LoaderInv, phase = "stack", NEW n \in Stack, Space(n) # {}
  PROVE  Space(n) = {RW}
<1>1. n \in Nat /\ PageAddr(n) \in Addresses /\ PageAddr(n)[1] \in LowerHalf
  BY Constants, PageAddrType, HalvesAssumption DEF Stack
<1>2. Source(PageAddr(n))
  BY <1>1, SpaceFromPages DEF LoaderInv, ImageInv, NothingElse, Running
<1>3. own = {}
  BY DEF LoaderInv, ImageInv, Bare
<1>4. ASSUME NEW i \in 1 .. Handled, InMemory(Seg(i)), NEW m \in SegPages(i),
             PageAddr(m) = PageAddr(n)
      PROVE  FALSE
  <2>1. i \in DOMAIN Segments[program] /\ program \in Program
    BY SegType DEF LoaderInv, ImageInv, Running, ProcInv, OwnTypeOK
  <2> QED  BY <2>1, <1>4, HalvesAssumption DEF Seg, SegPages
<1>5. \E m \in Stack : PageAddr(m) = PageAddr(n) /\ Space(m) = {RW}
  BY <1>2, <1>3, <1>4 DEF Source
<1> QED  BY <1>5, SpaceByAddress

LEMMA CallKeepsStack ==
  ASSUME LoaderInv, RunCall
  PROVE  StackReady' /\ OwnReady'
<1>0. PICK call : call = Head(todo)
  OBVIOUS
<1>1. /\ call = todo[1] /\ 1 \in DOMAIN todo
      /\ call.page \in Nat /\ call.prot \in Prots /\ call.op \in {"map", "protect"}
  BY <1>0, CallMade DEF Calls
<1>2. /\ \A op, n : Waits(op, n) => Waits(op, n)' \/ (op = call.op /\ n = call.page)
      /\ call.op = "map" => vm_map(PageAddr(call.page), call.prot)
  BY <1>0, CallMade
<1>3. /\ phase \in {"boot", "load", "stack", "mmap"}
      /\ phase' # "dead" => phase' = phase /\ ~astray' /\ (result' \/ phase = "stack")
      /\ pending' = pending /\ own' = own
  BY CallLeaves
<1>4. MemInv /\ StackReady /\ OwnReady /\ CallsRight /\ Bare
  BY DEF LoaderInv, ImageInv
<1>5. StackReady'
  <2> SUFFICES ASSUME phase' \in {"stack", "user", "mmap"}, freelist' # <<>>, NEW n \in Stack
               PROVE  Space(n)' = {RW} \/ (phase' = "stack" /\ Waits("map", n)')
    BY DEF StackReady, Stack
  <2>1. phase \in {"stack", "mmap"} /\ phase' = phase /\ ~astray'
    BY <1>3
  <2>2. call.op = "map" /\ (phase = "stack" => call.prot = RW)
    BY <1>1, <1>4, <2>1 DEF CallsRight
  <2>3. /\ \A m \in Nat : Space(m) # {} => Space(m)' = Space(m)
        /\ Space(call.page) = {} => Space(call.page)' = {call.prot}
        /\ freelist # <<>>
    BY <1>1, <1>2, <1>4, <2>1, <2>2, MapSpace
  <2>4. n \in Nat
    BY Constants DEF Stack
  <2>5. Space(n) = {RW} \/ (phase = "stack" /\ Waits("map", n))
    BY <1>4, <2>1, <2>3 DEF StackReady
  <2>6. CASE Space(n) = {RW}
    BY <2>3, <2>4, <2>6
  <2>7. CASE phase = "stack" /\ Waits("map", n) /\ n = call.page
    <3>1. CASE Space(n) = {}
      BY <3>1, <2>2, <2>3, <2>7
    <3>2. CASE Space(n) # {}
      BY <3>2, <2>3, <2>4, <2>7, StackFree
    <3> QED  BY <3>1, <3>2
  <2>8. CASE phase = "stack" /\ Waits("map", n) /\ n # call.page
    BY <2>8, <1>2, <2>1
  <2> QED  BY <2>5, <2>6, <2>7, <2>8
<1>6. OwnReady'
  <2>1. own' \subseteq [addr : Nat, len : Nat, prot : Prots, size : Nat]
    BY <1>3, <1>4 DEF OwnReady
  <2>2. ASSUME phase' # "dead", NEW o \in own, NEW n \in PagesFor(o.addr, o.len)
        PROVE  Space(n)' = {o.prot}
    <3>1. phase = "mmap"
      BY <1>3, <1>4, <2>2 DEF Bare
    <3>2. call.op = "map"
      BY <1>1, <1>4, <3>1 DEF CallsRight
    <3>3. Space(n) = {o.prot}
      BY <1>4, <3>1, <2>2 DEF OwnReady
    <3>4. n \in Nat
      BY <1>4, PagesForType DEF OwnReady
    <3> QED  BY <1>1, <1>2, <1>4, <3>2, <3>3, <3>4, MapSpace
  <2>3. ASSUME phase' = "mmap", NEW n \in PagesFor(pending.addr, pending.len)
        PROVE  Space(n)' = {pending.prot} \/ Waits("map", n)'
    <3>1. phase = "mmap" /\ result' /\ ~astray'
      BY <1>3, <2>3
    <3>2. call.op = "map" /\ call.prot = pending.prot
      BY <1>1, <1>4, <3>1 DEF CallsRight
    <3>3. Space(n) = {pending.prot} \/ Waits("map", n)
      BY <1>4, <3>1, <2>3 DEF OwnReady
    <3>4. n \in Nat
      BY PagesForType DEF LoaderInv, ProcInv, OwnTypeOK
    <3>5. /\ \A m \in Nat : Space(m) # {} => Space(m)' = Space(m)
          /\ Space(call.page)' = {call.prot}
      BY <1>1, <1>2, <1>4, <3>1, <3>2, MapSpace
    <3> QED  BY <1>2, <3>2, <3>3, <3>4, <3>5
  <2>4. \A o \in own : PagesFor(o.addr, o.len)' = PagesFor(o.addr, o.len)
    BY DEF PagesFor, FirstPage
  <2>5. PagesFor(pending.addr, pending.len)' = PagesFor(pending.addr, pending.len)
    BY <1>3 DEF PagesFor, FirstPage
  <2> QED  BY <1>3, <2>1, <2>2, <2>3, <2>4, <2>5 DEF OwnReady
<1> QED  BY <1>5, <1>6

LEMMA CallKeepsSource ==
  ASSUME LoaderInv, RunCall
  PROVE  NothingElse'
<1>0. PICK call : call = Head(todo)
  OBVIOUS
<1>1. /\ call = todo[1] /\ 1 \in DOMAIN todo
      /\ call.page \in Nat /\ call.prot \in Prots /\ call.op \in {"map", "protect"}
  BY <1>0, CallMade DEF Calls
<1>2. /\ call.op = "map" => vm_map(PageAddr(call.page), call.prot)
      /\ call.op = "protect" => vm_protect(PageAddr(call.page), call.prot)
  BY <1>0, CallMade
<1>3. /\ phase \in {"boot", "load", "stack", "mmap"}
      /\ phase' # "dead" => phase' = phase
      /\ pending' = pending /\ own' = own
      /\ Handled' = Handled /\ \A i : Seg(i)' = Seg(i) /\ SegPages(i)' = SegPages(i)
  BY CallLeaves
<1>4. MemInv /\ CallsRight /\ NothingElse /\ Bare
  BY DEF LoaderInv, ImageInv
<1>5. PagesFor(pending.addr, pending.len)' = PagesFor(pending.addr, pending.len)
  BY <1>3 DEF PagesFor, FirstPage
<1> SUFFICES ASSUME phase' # "dead", NEW a \in Addresses, a[1] \in LowerHalf, Pages(a)' # {}
             PROVE  phase # "boot" /\ Source(a)'
  BY <1>3 DEF NothingElse, Running
<1>6. phase' = phase
  BY <1>3
<1>7. CASE Pages(a) = {}
  <2>1. call.op = "map" /\ a = PageAddr(call.page) /\ Space(call.page)' = {call.prot}
    <3>1. call.op # "protect"
      BY <1>1, <1>2, <1>4, <1>7, ProtectSpace
    <3> QED  BY <1>1, <1>2, <1>4, <1>7, <3>1, MapSpace
  <2>2. phase # "boot"
    BY <1>1, <1>4, <2>1 DEF CallsRight
  <2>3. CASE phase = "load"
    <3>1. Handled >= 1 /\ InMemory(Seg(Handled)) /\ call.page \in SegPages(Handled)
      BY <1>1, <1>4, <2>3 DEF CallsRight
    <3>2. Handled \in 1 .. Handled
      BY <2>3, <3>1, SegType DEF LoaderInv, ImageInv, Running
    <3> QED  BY <1>3, <2>1, <2>2, <3>1, <3>2 DEF Source, InMemory, PageAddr
  <2>4. CASE phase = "stack"
    <3>1. call.page \in Stack /\ call.prot = RW
      BY <1>1, <1>4, <2>4 DEF CallsRight
    <3> QED  BY <1>6, <2>1, <2>2, <2>4, <3>1 DEF Source, PageAddr
  <2>5. CASE phase = "mmap"
    <3>1. call.page \in PagesFor(pending.addr, pending.len)
      BY <1>1, <1>4, <2>5 DEF CallsRight
    <3> QED  BY <1>5, <1>6, <2>1, <2>2, <2>5, <3>1 DEF Source, PageAddr
  <2> QED  BY <1>3, <2>2, <2>3, <2>4, <2>5
<1>8. CASE Pages(a) # {}
  <2>1. phase # "boot" /\ phase \in Running
    BY <1>3, <1>4, <1>8 DEF NothingElse, Running
  <2>2. Source(a)
    BY <1>4, <1>8, <2>1 DEF NothingElse
  <2>3. ASSUME phase \in {"stack", "user", "mmap"}, NEW n \in Stack,
               PageAddr(n) = a, Space(n) = {RW}
        PROVE  Space(n)' = {RW}
    <3>1. call.op = "map" /\ n \in Nat
      BY <1>1, <1>3, <1>4, <2>3, Constants DEF CallsRight, Stack
    <3> QED  BY <1>1, <1>2, <1>4, <2>3, <3>1, MapSpace
  <2>4. \A o \in own : PagesFor(o.addr, o.len)' = PagesFor(o.addr, o.len)
    BY DEF PagesFor, FirstPage
  <2> QED  BY <1>3, <1>5, <1>6, <2>1, <2>2, <2>3, <2>4 DEF Source, InMemory, PageAddr
<1> QED  BY <1>7, <1>8

LEMMA CallKeepsImage == LoaderInv /\ RunCall => ImageInv'
BY CallKeepsRest, CallKeepsSegments, CallKeepsStack, CallKeepsSource DEF ImageInv

\* The pages of a loop, counted from the first.
LEMMA LoopRange ==
  ASSUME NEW addr \in Nat, NEW len \in Nat
  PROVE  PagesFor(addr, len) = FirstPage(addr) .. FirstPage(addr) + PageCount(addr, len) - 1
<1>1. addr + len \in Nat
  OBVIOUS
<1>2. FirstPage(addr) \in Nat /\ FirstPage(addr + len) \in Nat
  BY <1>1, PageRange
<1> QED  BY <1>2 DEF PagesFor, PageCount

\* The calls of list map pages and then give each of them protection prot.
ForSegment(list, pages, prot) ==
  /\ \A j \in DOMAIN list :
       /\ list[j].page \in pages
       /\ list[j].op = "protect" =>
            /\ list[j].prot = prot
            /\ \A k \in DOMAIN list : j < k => list[k].op = "protect"
  /\ \A m \in pages :
       /\ \E j \in DOMAIN list : list[j].op = "map" /\ list[j].page = m
       /\ \E j \in DOMAIN list : list[j].op = "protect" /\ list[j].page = m
  /\ \A j, k \in DOMAIN list :
       j < k /\ list[j].op = "map" /\ list[k].op = "map" => list[j].page # list[k].page

\* A segment's pages are mapped first, then each is protected.
LEMMA MapThenProtect ==
  ASSUME NEW f \in Nat, NEW n \in Nat, NEW prot \in Prots
  PROVE  ForSegment(ForPages("map", f, n, RW) \o ForPages("protect", f, n, prot),
                    f .. f + n - 1, prot)
<1> DEFINE maps == ForPages("map", f, n, RW)
           protects == ForPages("protect", f, n, prot)
           all == maps \o protects
           pages == f .. f + n - 1
<1>1. /\ DOMAIN maps = 1 .. n /\ DOMAIN protects = 1 .. n
      /\ \A j \in 1 .. n : maps[j] = [op |-> "map", page |-> f + j - 1, prot |-> RW]
      /\ \A j \in 1 .. n : protects[j] = [op |-> "protect", page |-> f + j - 1, prot |-> prot]
  BY DEF ForPages, Call
<1>2. /\ \A j \in 1 .. n : f + j - 1 \in pages
      /\ \A m \in pages : m - f + 1 \in 1 .. n /\ f + (m - f + 1) - 1 = m
  OBVIOUS
<1>3. maps \in Seq(Calls) /\ protects \in Seq(Calls)
  BY ForPagesType, Constants
<1> HIDE DEF maps, protects
<1>4. \A j \in 1 .. n : maps[j].op = "map" /\ maps[j].page = f + j - 1
  BY <1>1
<1>5. \A j \in 1 .. n : /\ protects[j].op = "protect" /\ protects[j].page = f + j - 1
                        /\ protects[j].prot = prot
  BY <1>1
<1>6. Len(maps) = n /\ Len(protects) = n
  BY <1>1, <1>3
<1>7. /\ DOMAIN all = 1 .. n + n
      /\ \A i \in 1 .. n + n : all[i] = IF i <= n THEN maps[i] ELSE protects[i - n]
  <2>1. \A i \in 1 .. Len(maps) + Len(protects) :
          all[i] = IF i <= Len(maps) THEN maps[i] ELSE protects[i - Len(maps)]
    BY <1>3, ConcatProperties, Zenon
  <2>2. all \in Seq(Calls) /\ Len(all) = Len(maps) + Len(protects)
    BY <1>3, ConcatProperties
  <2> HIDE DEF all
  <2>3. DOMAIN all = 1 .. n + n
    BY ONLY <2>2, <1>6
  <2> QED  BY <2>1, <2>3, <1>6
<1> HIDE DEF all, pages
<1>8. \A j \in 1 .. n + n : j \in 1 .. n \/ (j - n \in 1 .. n /\ ~(j <= n))
  OBVIOUS
<1>9. ASSUME NEW j \in 1 .. n + n PROVE all[j].page \in pages
  <2>1. CASE j \in 1 .. n
    BY <2>1, <1>2, <1>4, <1>7
  <2>2. CASE j - n \in 1 .. n /\ ~(j <= n)
    BY <2>2, <1>2, <1>5, <1>7
  <2> QED  BY <2>1, <2>2, <1>8
<1>10. \A j \in 1 .. n + n : all[j].op = "protect" => ~(j <= n) /\ all[j].prot = prot
  BY <1>4, <1>5, <1>7, <1>8
<1>11. \A j, k \in 1 .. n + n : all[j].op = "protect" /\ j < k => all[k].op = "protect"
  <2> SUFFICES ASSUME NEW j \in 1 .. n + n, NEW k \in 1 .. n + n, ~(j <= n), j < k
               PROVE  all[k].op = "protect"
    BY <1>10
  <2>1. ~(k <= n) /\ k - n \in 1 .. n
    OBVIOUS
  <2> QED  BY <1>5, <1>7, <2>1
<1>12. ASSUME NEW m \in pages
       PROVE  /\ \E j \in 1 .. n + n : all[j].op = "map" /\ all[j].page = m
              /\ \E j \in 1 .. n + n : all[j].op = "protect" /\ all[j].page = m
  <2> DEFINE i == m - f + 1
  <2>1. i \in 1 .. n /\ f + i - 1 = m
    BY <1>2
  <2> HIDE DEF i
  <2>2. /\ i \in 1 .. n + n /\ i <= n
        /\ i + n \in 1 .. n + n /\ ~(i + n <= n) /\ i + n - n = i
    BY <2>1
  <2>3. all[i].op = "map" /\ all[i].page = m
    BY <1>4, <1>7, <2>1, <2>2
  <2>4. all[i + n].op = "protect" /\ all[i + n].page = m
    BY <1>5, <1>7, <2>1, <2>2
  <2> QED  BY <2>2, <2>3, <2>4
<1>13. ASSUME NEW j \in 1 .. n + n, NEW k \in 1 .. n + n,
              j < k, all[j].op = "map", all[k].op = "map"
       PROVE  all[j].page # all[k].page
  <2>1. j \in 1 .. n /\ k \in 1 .. n
    BY <1>5, <1>7, <1>8, <1>13
  <2>2. all[j].page = f + j - 1 /\ all[k].page = f + k - 1
    BY <1>4, <1>7, <2>1, SMTT(30)
  <2> QED  BY <1>13, <2>1, <2>2
<1>14. ForSegment(all, pages, prot)
  <2>1. DOMAIN all = 1 .. n + n
    BY <1>7
  <2> QED  BY <2>1, <1>9, <1>10, <1>11, <1>12, <1>13 DEF ForSegment
<1> QED  BY <1>14 DEF all, pages, maps, protects

LEMMA SegmentCallsAre ==
  ASSUME NEW s \in Headers
  PROVE  ForSegment(SegmentCalls(s), PagesFor(s.vaddr, s.memsz), s.prot)
<1>1. s.vaddr \in Nat /\ s.memsz \in Nat /\ s.prot \in Prots
  BY DEF Headers
<1>2. FirstPage(s.vaddr) \in Nat /\ PageCount(s.vaddr, s.memsz) \in Nat
  BY <1>1, PageRange
<1> QED  BY <1>1, <1>2, LoopRange, MapThenProtect DEF SegmentCalls

-----------------------------------------------------------------------------
(* What a program finds: the other steps. *)

LEMMA RunGivesImage ==
  ASSUME ProcInv, NEW p \in Program, run_program(p),
         \A a \in Addresses : a[1] \in LowerHalf => Pages(a)' = {}
  PROVE  ImageInv'
<1>1. /\ phase' = "load" /\ program' = p /\ segs' = Segments[p] /\ todo' = <<>>
      /\ heap' = NewHeap /\ blocks' = {} /\ own' = {}
  BY DEF run_program
<1>2. Len(Segments[p]) \in Nat
  BY Constants, LenProperties
<1>3. Handled' = 0
  BY <1>1, <1>2 DEF Handled
<1>4. Progress'
  BY <1>1, <1>2, <1>3 DEF Progress, Seg
<1>5. SegmentsReady' /\ ProtectsItsOwn' /\ CallsRight'
  BY <1>1, <1>3 DEF SegmentsReady, ProtectsItsOwn, CallsRight
<1>6. StackReady' /\ OwnReady' /\ NothingElse' /\ Bare'
  BY <1>1 DEF StackReady, OwnReady, NothingElse, Bare, NewHeap
<1> QED  BY <1>4, <1>5, <1>6 DEF ImageInv

LEMMA DeadKeepsImage ==
  ASSUME LoaderInv, phase' = "dead", own' = own
  PROVE  ImageInv'
<1>1. Progress' /\ SegmentsReady' /\ NothingElse'
  BY DEF Progress, SegmentsReady, NothingElse, Running
<1>2. Bare' /\ CallsRight' /\ ProtectsItsOwn' /\ StackReady'
  BY DEF Bare, CallsRight, ProtectsItsOwn, StackReady
<1>3. OwnReady'
  BY DEF OwnReady, LoaderInv, ImageInv
<1> QED  BY <1>1, <1>2, <1>3 DEF ImageInv

\* Steps that leave the loader, mmap and memory as they are.
LEMMA QuietKeepsImage ==
  ASSUME LoaderInv,
         UNCHANGED <<entries, freelist, phase, program, segs, todo, pending, own>>,
         phase = "user" \/ UNCHANGED <<blocks, heap>>
  PROVE  ImageInv'
<1>1. \A n : Space(n)' = Space(n)
  BY SpaceKept
<1>2. \A a : Pages(a)' = Pages(a)
  BY SpaceKept
<1>3. Bare'
  BY DEF LoaderInv, ImageInv, Bare, NewHeap
<1>4. Progress' /\ CallsRight'
  BY DEF LoaderInv, ImageInv, Progress, CallsRight, Handled, Seg, SegPages, InMemory,
         PageAddr, PagesFor, FirstPage
<1>5. SegmentsReady' /\ ProtectsItsOwn'
  BY <1>1 DEF LoaderInv, ImageInv, SegmentsReady, ProtectsItsOwn, Waits, Handled, Seg,
              SegPages, InMemory, PageAddr, PagesFor, FirstPage
<1>6. StackReady' /\ OwnReady'
  BY <1>1 DEF LoaderInv, ImageInv, StackReady, OwnReady, Waits, PagesFor, FirstPage
<1>7. NothingElse'
  BY <1>1, <1>2 DEF LoaderInv, ImageInv, NothingElse, Source, Handled, Seg, SegPages,
                    InMemory, PageAddr, PagesFor, FirstPage
<1> QED  BY <1>3, <1>4, <1>5, <1>6, <1>7 DEF ImageInv

\* The header that is handled next is the program's next segment.
LEMMA LoadKeepsImage == LoaderInv /\ LoadSegment => ImageInv'
<1> SUFFICES ASSUME LoaderInv, LoadSegment PROVE ImageInv'
  OBVIOUS
<1>1. /\ phase = "load" /\ todo = <<>> /\ segs # <<>> /\ segs' = Tail(segs)
      /\ todo' = IF InMemory(Head(segs)) THEN SegmentCalls(Head(segs)) ELSE <<>>
      /\ UNCHANGED <<freelist, entries, phase, program, pending, heap, blocks, own>>
  BY DEF LoadSegment, memVars
<1>2. /\ ProcInv /\ Progress /\ SegmentsReady /\ NothingElse /\ Bare /\ OwnReady
      /\ phase \in Running
  BY <1>1 DEF LoaderInv, ImageInv, Running
<1>3. /\ \A n : Space(n)' = Space(n)
      /\ \A a : Pages(a)' = Pages(a)
  BY <1>1, SpaceKept
<1>4. /\ segs \in Seq(Headers) /\ Len(segs) \in Nat /\ Len(segs) >= 1
      /\ Len(segs') = Len(segs) - 1
      /\ \A i \in 1 .. Len(segs) - 1 : segs'[i] = segs[i + 1]
      /\ Head(segs) = segs[1]
  <2>1. segs \in Seq(Headers) /\ segs # <<>>
    BY <1>1 DEF LoaderInv, ProcInv, OwnTypeOK
  <2> QED  BY <1>1, <2>1, EmptySeq, LenProperties, HeadTailProperties
<1>5. /\ Len(Segments[program]) \in Nat /\ Len(segs) <= Len(Segments[program])
      /\ \A i \in 1 .. Len(segs) : segs[i] = Seg(Handled + i)
  BY <1>2, Constants, LenProperties DEF Progress, ProcInv, OwnTypeOK
<1>6. Handled \in Nat /\ Handled' = Handled + 1
  BY <1>1, <1>4, <1>5 DEF Handled
<1>7. \A i : Seg(i)' = Seg(i) /\ SegPages(i)' = SegPages(i)
  BY <1>1 DEF Seg, SegPages, PagesFor, FirstPage
<1>8. Head(segs) = Seg(Handled + 1) /\ Seg(Handled + 1) \in Headers
  <2>1. Head(segs) \in Headers
    BY <1>1, <1>4, HeadTailProperties
  <2> QED  BY <1>4, <1>5, <2>1
<1>9. InMemory(Seg(Handled + 1)) =>
        ForSegment(todo', SegPages(Handled + 1), Seg(Handled + 1).prot)
  BY <1>1, <1>8, SegmentCallsAre DEF SegPages
<1>10. ~InMemory(Seg(Handled + 1)) => todo' = <<>>
  BY <1>1, <1>8
<1>11. Bare'
  BY <1>1, <1>2 DEF Bare, NewHeap
<1>12. Progress'
  <2>1. ASSUME NEW i \in 1 .. Len(segs) - 1 PROVE segs'[i] = Seg(Handled' + i)
    <3>1. i + 1 \in 1 .. Len(segs) /\ Handled + (i + 1) = Handled' + i
      BY <1>4, <1>6
    <3> QED  BY <1>4, <1>5, <3>1
  <2>2. \A i \in 1 .. Len(segs') : segs'[i] = Seg(Handled + i)'
    BY <2>1, <1>1, <1>4 DEF Seg
  <2> QED  BY <1>1, <1>4, <1>5, <2>2 DEF Progress
<1>13. CallsRight'
  <2>1. ASSUME NEW j \in DOMAIN todo'
        PROVE  InMemory(Seg(Handled + 1))
    BY <2>1, <1>10
  <2> QED  BY <1>1, <1>6, <1>7, <1>9, <2>1 DEF CallsRight, ForSegment, InMemory
<1>14. SegmentsReady'
  <2> SUFFICES ASSUME NEW i \in 1 .. Handled + 1, InMemory(Seg(i)), NEW n \in SegPages(i)
               PROVE  \/ Space(n) = {Seg(i).prot}
                      \/ i = Handled + 1 /\ Waits("protect", n)'
    BY <1>1, <1>3, <1>6, <1>7 DEF SegmentsReady, InMemory
  <2>1. CASE i = Handled + 1
    BY <2>1, <1>9 DEF ForSegment, Waits
  <2>2. CASE i # Handled + 1
    <3>1. i \in 1 .. Handled
      BY <2>2, <1>6
    <3>2. ~Waits("protect", n)
      BY <1>1 DEF Waits
    <3> QED  BY <3>1, <3>2, <1>2 DEF SegmentsReady
  <2> QED  BY <2>1, <2>2
<1>15. ProtectsItsOwn'
  <2> SUFFICES ASSUME NEW j \in DOMAIN todo' PROVE Waits("map", todo[j].page)'
    BY DEF ProtectsItsOwn
  <2>1. ForSegment(todo', SegPages(Handled + 1), Seg(Handled + 1).prot)
    BY <1>9, <1>10
  <2> QED  BY <2>1 DEF ForSegment, Waits
<1>16. StackReady' /\ OwnReady'
  BY <1>1, <1>2 DEF StackReady, OwnReady, Bare
<1>17. NothingElse'
  <2> SUFFICES ASSUME NEW a \in Addresses, a[1] \in LowerHalf, Pages(a) # {}
               PROVE  Source(a)'
    BY <1>1, <1>3 DEF NothingElse
  <2>1. Source(a)
    BY <1>2 DEF NothingElse
  <2>2. \E i \in 1 .. Handled : InMemory(Seg(i)) /\ \E n \in SegPages(i) : PageAddr(n) = a
    BY <1>1, <1>2, <2>1 DEF Source, Bare
  <2>3. \A i \in 1 .. Handled : i \in 1 .. Handled + 1
    BY <1>6
  <2> QED  BY <1>6, <1>7, <2>2, <2>3 DEF Source, InMemory, PageAddr
<1> QED  BY <1>11, <1>12, <1>13, <1>14, <1>15, <1>16, <1>17 DEF ImageInv

\* A list of calls of vm_map for pages, all with the same protection.
ForMaps(list, pages, prot) ==
  /\ \A j \in DOMAIN list : list[j].op = "map" /\ list[j].prot = prot /\ list[j].page \in pages
  /\ \A m \in pages : \E j \in DOMAIN list : list[j].op = "map" /\ list[j].page = m
  /\ \A j, k \in DOMAIN list : j < k => list[j].page # list[k].page

LEMMA LoopMaps ==
  ASSUME NEW f \in Nat, NEW n \in Nat, NEW prot \in Prots
  PROVE  ForMaps(ForPages("map", f, n, prot), f .. f + n - 1, prot)
<1> DEFINE maps == ForPages("map", f, n, prot)
           pages == f .. f + n - 1
<1>1. /\ DOMAIN maps = 1 .. n
      /\ \A j \in 1 .. n : maps[j] = [op |-> "map", page |-> f + j - 1, prot |-> prot]
  BY DEF ForPages, Call
<1>2. /\ \A j \in 1 .. n : f + j - 1 \in pages
      /\ \A m \in pages : m - f + 1 \in 1 .. n /\ f + (m - f + 1) - 1 = m
  OBVIOUS
<1> HIDE DEF maps, pages
<1>3. \A j \in 1 .. n : maps[j].op = "map" /\ maps[j].page = f + j - 1 /\ maps[j].prot = prot
  BY <1>1
<1>4. \A j, k \in 1 .. n : j < k => f + j - 1 # f + k - 1
  OBVIOUS
<1>5. DOMAIN maps = 1 .. n
  BY <1>1
<1>6. \A j \in DOMAIN maps : maps[j].op = "map" /\ maps[j].prot = prot /\ maps[j].page \in pages
  BY <1>2, <1>3, <1>5
<1>7. \A m \in pages : \E j \in DOMAIN maps : maps[j].op = "map" /\ maps[j].page = m
  <2> TAKE m \in pages
  <2>1. m - f + 1 \in DOMAIN maps /\ f + (m - f + 1) - 1 = m
    BY <1>2, <1>5
  <2>2. maps[m - f + 1].op = "map" /\ maps[m - f + 1].page = m
    BY <2>1, <1>3, <1>5
  <2> QED  BY <2>1, <2>2
<1>8. \A j, k \in DOMAIN maps : j < k => maps[j].page # maps[k].page
  BY <1>3, <1>4, <1>5
<1>9. ForMaps(maps, pages, prot)
  BY <1>6, <1>7, <1>8 DEF ForMaps
<1> QED  BY <1>9 DEF maps, pages

LEMMA StackKeepsImage == LoaderInv /\ MapStack => ImageInv'
<1> SUFFICES ASSUME LoaderInv, MapStack PROVE ImageInv'
  OBVIOUS
<1>1. /\ phase = "load" /\ todo = <<>> /\ segs = <<>> /\ phase' = "stack"
      /\ todo' = ForPages("map", UserStack, UserStackPages, RW)
      /\ UNCHANGED <<freelist, entries, program, segs, pending, heap, blocks, own>>
  BY DEF MapStack, memVars
<1>2. /\ Progress /\ SegmentsReady /\ NothingElse /\ Bare /\ OwnReady /\ phase \in Running
  BY <1>1 DEF LoaderInv, ImageInv, Running
<1>3. /\ \A n : Space(n)' = Space(n)
      /\ \A a : Pages(a)' = Pages(a)
  BY <1>1, SpaceKept
<1>4. /\ Handled' = Handled
      /\ \A i : Seg(i)' = Seg(i) /\ SegPages(i)' = SegPages(i)
  BY <1>1 DEF Handled, Seg, SegPages, PagesFor, FirstPage
<1>5. ForMaps(todo', Stack, RW)
  BY <1>1, Constants, LoopMaps DEF Stack
<1>6. Bare' /\ Progress'
  BY <1>1, <1>2, <1>4 DEF Bare, Progress, NewHeap
<1>7. CallsRight'
  BY <1>1, <1>5 DEF CallsRight, ForMaps, Stack
<1>8. SegmentsReady'
  <2>1. \A n : ~Waits("protect", n)
    BY <1>1 DEF Waits
  <2> QED  BY <1>1, <1>2, <1>3, <1>4, <2>1 DEF SegmentsReady, InMemory
<1>9. ProtectsItsOwn'
  BY <1>1 DEF ProtectsItsOwn
<1>10. StackReady'
  BY <1>1, <1>5 DEF StackReady, ForMaps, Waits, Stack
<1>11. OwnReady'
  BY <1>1, <1>2 DEF OwnReady, Bare
<1>12. NothingElse'
  <2> SUFFICES ASSUME NEW a \in Addresses, a[1] \in LowerHalf, Pages(a) # {}
               PROVE  Source(a)'
    BY <1>1, <1>3 DEF NothingElse
  <2>1. Source(a)
    BY <1>2 DEF NothingElse
  <2>2. \E i \in 1 .. Handled : InMemory(Seg(i)) /\ \E n \in SegPages(i) : PageAddr(n) = a
    BY <1>1, <1>2, <2>1 DEF Source, Bare
  <2> QED  BY <1>4, <2>2 DEF Source, InMemory, PageAddr
<1> QED  BY <1>6, <1>7, <1>8, <1>9, <1>10, <1>11, <1>12 DEF ImageInv

\* Leaving a loop behind: to the program from the loader, or from mmap, whose
\* pages become the program's.
LEMMA LeaveKeepsImage == LoaderInv /\ (usermode_entry \/ MmapReturns) => ImageInv'
<1> SUFFICES ASSUME LoaderInv, usermode_entry \/ MmapReturns PROVE ImageInv'
  OBVIOUS
<1>1. /\ phase \in {"stack", "mmap"} /\ todo = <<>> /\ phase' = "user" /\ todo' = todo
      /\ own' = IF phase = "stack" THEN own ELSE own \cup {pending}
      /\ UNCHANGED <<freelist, entries, program, segs, pending>>
  BY DEF usermode_entry, MmapReturns, memVars
<1>2. /\ Progress /\ SegmentsReady /\ NothingElse /\ StackReady /\ OwnReady /\ phase \in Running
  BY <1>1 DEF LoaderInv, ImageInv, Running
<1>3. /\ \A n : Space(n)' = Space(n)
      /\ \A a : Pages(a)' = Pages(a)
  BY <1>1, SpaceKept
<1>4. /\ Handled' = Handled
      /\ \A i : Seg(i)' = Seg(i) /\ SegPages(i)' = SegPages(i)
  BY <1>1 DEF Handled, Seg, SegPages, PagesFor, FirstPage
<1>5. \A op, n : ~Waits(op, n)
  BY <1>1 DEF Waits
<1>6. Bare' /\ Progress' /\ CallsRight'
  BY <1>1, <1>2, <1>4 DEF Bare, Progress, CallsRight
<1>7. SegmentsReady' /\ ProtectsItsOwn'
  BY <1>1, <1>2, <1>3, <1>4, <1>5 DEF SegmentsReady, ProtectsItsOwn, InMemory
<1>8. StackReady'
  BY <1>1, <1>2, <1>3, <1>5 DEF StackReady, Stack
<1>9. OwnReady'
  <2>1. pending \in [addr : Nat, len : Nat, prot : Prots, size : Nat]
    BY DEF LoaderInv, ProcInv, OwnTypeOK
  <2>2. own' \subseteq [addr : Nat, len : Nat, prot : Prots, size : Nat]
    BY <1>1, <1>2, <2>1 DEF OwnReady
  <2>3. ASSUME NEW o \in own', NEW n \in PagesFor(o.addr, o.len)
        PROVE  Space(n) = {o.prot}
    <3>1. CASE o \in own
      BY <3>1, <1>1, <1>2, <2>3 DEF OwnReady
    <3>2. CASE phase = "mmap" /\ o = pending
      BY <3>2, <1>2, <1>5, <2>3 DEF OwnReady
    <3> QED  BY <1>1, <3>1, <3>2
  <2> QED  BY <1>1, <1>3, <2>2, <2>3 DEF OwnReady, PagesFor, FirstPage
<1>10. NothingElse'
  <2> SUFFICES ASSUME NEW a \in Addresses, a[1] \in LowerHalf, Pages(a) # {}
               PROVE  Source(a)'
    BY <1>1, <1>3 DEF NothingElse
  <2>1. Source(a)
    BY <1>2 DEF NothingElse
  <2>2. CASE \E i \in 1 .. Handled : InMemory(Seg(i)) /\ \E n \in SegPages(i) : PageAddr(n) = a
    BY <2>2, <1>4 DEF Source, InMemory, PageAddr
  <2>3. CASE \E n \in Stack : PageAddr(n) = a /\ Space(n) = {RW}
    BY <2>3, <1>1, <1>3 DEF Source, PageAddr, Stack
  <2>4. CASE \E o \in own : \E n \in PagesFor(o.addr, o.len) : PageAddr(n) = a
    BY <2>4, <1>1 DEF Source, PageAddr, PagesFor, FirstPage
  <2>5. CASE phase = "mmap" /\ \E n \in PagesFor(pending.addr, pending.len) : PageAddr(n) = a
    <3>1. pending \in own'
      BY <2>5, <1>1
    <3> QED  BY <2>5, <3>1 DEF Source, PageAddr, PagesFor, FirstPage
  <2> QED  BY <2>1, <2>2, <2>3, <2>4, <2>5 DEF Source
<1> QED  BY <1>6, <1>7, <1>8, <1>9, <1>10 DEF ImageInv

LEMMA MmapKeepsImage ==
  ASSUME LoaderInv, NEW addr \in Nat, NEW len \in Nat, NEW size \in Nat,
         mmap(addr, len, RW, size), phase = "user",
         UNCHANGED <<memVars, program, segs, own>>
  PROVE  ImageInv'
<1>1. PICK at \in Nat : /\ pending' = [addr |-> at, len |-> len, prot |-> RW, size |-> size]
                        /\ todo' = ForPages("map", FirstPage(at), PageCount(at, len), RW)
                        /\ phase' = "mmap"
  BY DEF mmap, LoaderInv, ProcInv, OwnTypeOK
<1>2. /\ pending'.addr = at /\ pending'.len = len /\ pending'.prot = RW
      /\ UNCHANGED <<freelist, entries, program, segs, own>>
  BY <1>1 DEF memVars
<1>3. /\ Progress /\ SegmentsReady /\ NothingElse /\ StackReady /\ OwnReady /\ phase \in Running
  BY DEF LoaderInv, ImageInv, Running
<1>4. /\ \A n : Space(n)' = Space(n)
      /\ \A a : Pages(a)' = Pages(a)
  BY <1>2, SpaceKept
<1>5. /\ Handled' = Handled
      /\ \A i : Seg(i)' = Seg(i) /\ SegPages(i)' = SegPages(i)
  BY <1>2 DEF Handled, Seg, SegPages, PagesFor, FirstPage
<1>6. ForMaps(todo', PagesFor(at, len), RW)
  <2>1. FirstPage(at) \in Nat /\ PageCount(at, len) \in Nat
    BY PageRange
  <2>2. PagesFor(at, len) = FirstPage(at) .. FirstPage(at) + PageCount(at, len) - 1
    BY LoopRange
  <2>3. ForMaps(ForPages("map", FirstPage(at), PageCount(at, len), RW),
                FirstPage(at) .. FirstPage(at) + PageCount(at, len) - 1, RW)
    BY <2>1, Constants, LoopMaps
  <2> QED  BY <1>1, <2>2, <2>3
<1>7. PagesFor(pending.addr, pending.len)' = PagesFor(at, len)
  BY <1>2 DEF PagesFor, FirstPage
<1>8. Bare' /\ Progress' /\ CallsRight'
  <2>1. CallsRight'
    BY <1>1, <1>2, <1>6, <1>7 DEF CallsRight, ForMaps
  <2> QED  BY <2>1, <1>1, <1>2, <1>3, <1>5 DEF Bare, Progress
<1>9. SegmentsReady' /\ ProtectsItsOwn'
  BY <1>1, <1>3, <1>4, <1>5 DEF SegmentsReady, ProtectsItsOwn, InMemory
<1>10. StackReady'
  BY <1>1, <1>2, <1>3, <1>4 DEF StackReady, Stack
<1>11. OwnReady'
  <2>1. \A n \in PagesFor(at, len) : Waits("map", n)'
    BY <1>6 DEF ForMaps, Waits
  <2>2. \A o \in own : \A n \in PagesFor(o.addr, o.len) : Space(n)' = {o.prot}
    BY <1>3, <1>4 DEF OwnReady
  <2>3. \A o \in own : PagesFor(o.addr, o.len)' = PagesFor(o.addr, o.len)
    BY DEF PagesFor, FirstPage
  <2> QED  BY <1>2, <1>3, <1>7, <2>1, <2>2, <2>3 DEF OwnReady
<1>12. NothingElse'
  <2> SUFFICES ASSUME NEW a \in Addresses, a[1] \in LowerHalf, Pages(a) # {}
               PROVE  Source(a)'
    BY <1>1, <1>4 DEF NothingElse
  <2>1. Source(a)
    BY <1>3 DEF NothingElse
  <2>2. CASE \E i \in 1 .. Handled : InMemory(Seg(i)) /\ \E n \in SegPages(i) : PageAddr(n) = a
    BY <2>2, <1>5 DEF Source, InMemory, PageAddr
  <2>3. CASE \E n \in Stack : PageAddr(n) = a /\ Space(n) = {RW}
    BY <2>3, <1>1, <1>4 DEF Source, PageAddr, Stack
  <2>4. CASE \E o \in own : \E n \in PagesFor(o.addr, o.len) : PageAddr(n) = a
    BY <2>4, <1>2 DEF Source, PageAddr, PagesFor, FirstPage
  <2> QED  BY <2>1, <2>2, <2>3, <2>4 DEF Source
<1> QED  BY <1>8, <1>9, <1>10, <1>11, <1>12 DEF ImageInv

LEMMA ExecKeepsImage ==
  ASSUME LoaderInv, NEW file, sys_exec(file)
  PROVE  ImageInv'
<1>1. CASE file \in Program
  <2>1. unmap_lower_half /\ run_program(file)
    BY <1>1 DEF sys_exec
  <2>2. \A a \in Addresses : a[1] \in LowerHalf => Pages(a)' = {}
    BY <2>1, UnmapPages DEF LoaderInv
  <2> QED  BY <1>1, <2>1, <2>2, RunGivesImage DEF LoaderInv
<1>2. CASE file \notin Program
  BY <1>2, QuietKeepsImage DEF sys_exec, memVars
<1> QED  BY <1>1, <1>2

LEMMA ImageInvInit == ProcInit => ImageInv
<1> SUFFICES ASSUME ProcInit PROVE ImageInv
  OBVIOUS
<1>1. /\ phase = "boot" /\ entries = {} /\ blocks = {} /\ own = {} /\ heap = NewHeap
      /\ todo = [k \in 1 .. Len(CursorPages) |-> Call("map", CursorPages[k], KernelRW)]
  BY DEF ProcInit, MemInit
<1>2. CallsRight
  <2>1. \A k \in 1 .. Len(CursorPages) : PageAddr(CursorPages[k])[1] \notin LowerHalf
    BY HalvesAssumption, Constants, LenProperties
  <2> QED  BY <1>1, <2>1 DEF CallsRight, Call
<1>3. NothingElse
  BY <1>1 DEF NothingElse, Pages
<1>4. Bare /\ Progress /\ SegmentsReady /\ ProtectsItsOwn /\ StackReady /\ OwnReady
  BY <1>1 DEF Bare, Progress, SegmentsReady, ProtectsItsOwn, StackReady, OwnReady, Running
<1> QED  BY <1>2, <1>3, <1>4 DEF ImageInv

LEMMA ImageInvStep == LoaderInv /\ [ProcNext]_procVars => ImageInv'
<1> SUFFICES ASSUME LoaderInv, [ProcNext]_procVars PROVE ImageInv'
  OBVIOUS
<1>1. CASE RunCall
  BY <1>1, CallKeepsImage
<1>2. CASE KernelTurn
  <2>1. CASE StartInit
    <3>1. \A a \in Addresses : a[1] \in LowerHalf => Pages(a)' = {}
      <4>1. phase = "boot" /\ entries' = entries
        BY <2>1 DEF StartInit, memVars
      <4>2. \A a : Pages(a)' = Pages(a)
        BY <4>1, SpaceKept
      <4> QED  BY <4>1, <4>2 DEF LoaderInv, ImageInv, NothingElse
    <3> QED  BY <2>1, <3>1, RunGivesImage, Constants DEF StartInit, LoaderInv
  <2> QED  BY <1>2, <2>1, LoadKeepsImage, StackKeepsImage, LeaveKeepsImage DEF KernelTurn
<1>3. CASE ProgramStep
  <2>1. ASSUME NEW file, sys_exec(file) PROVE ImageInv'
    BY <2>1, ExecKeepsImage
  <2>2. ASSUME NEW r \in Requests, sys_mmap(r[1], r[2], RW) PROVE ImageInv'
    <3>1. r[1] \in Nat /\ r[2] \in Nat
      BY Constants
    <3>2. /\ mmap(r[1], r[2], RW, 0) /\ phase = "user"
          /\ UNCHANGED <<memVars, program, segs, own>>
      BY <2>2 DEF sys_mmap, UserCalls
    <3> QED  BY <3>1, <3>2, MmapKeepsImage
  <2>3. ASSUME NEW sz \in Sizes, malloc(sz) PROVE ImageInv'
    <3> DEFINE size == ROUND_UP(sz, Grain)
               len == ROUND_UP(size, PAGE_SIZE)
    <3>1. sz \in Nat /\ size \in Nat /\ len \in Nat
      BY Constants, RoundUp
    <3>2. CASE NeedsMore(size)
      <4>1. mmap(NULL, len, RW, size) /\ phase = "user"
            /\ UNCHANGED <<memVars, program, segs, own>>
        BY <2>3, <3>2 DEF malloc, UserCalls
      <4> HIDE DEF size, len
      <4> QED  BY <3>1, <4>1, MmapKeepsImage DEF NULL
    <3>3. CASE ~NeedsMore(size)
      BY <2>3, <3>3, QuietKeepsImage DEF malloc, UserCalls, memVars
    <3> QED  BY <3>2, <3>3
  <2>4. CASE sys_write
    BY <2>4, DeadKeepsImage DEF sys_write
  <2> QED  BY <1>3, <2>1, <2>2, <2>3, <2>4 DEF ProgramStep, sys_exit
<1>4. CASE UNCHANGED procVars
  BY <1>4, QuietKeepsImage DEF procVars, memVars
<1> QED  BY <1>1, <1>2, <1>3, <1>4 DEF ProcNext

-----------------------------------------------------------------------------
(* What malloc returns. *)

\* A byte lies on one of the pages its range is counted to have.
LEMMA ByteOnPage ==
  ASSUME NEW addr \in Nat, NEW len \in Nat, NEW u \in addr .. addr + len - 1
  PROVE  u \in Nat /\ FirstPage(u) \in Nat /\ FirstPage(u) \in PagesFor(addr, len)
<1>1. u \in Nat /\ u - addr \in Nat /\ addr + len - u \in Nat /\ addr + len \in Nat
  OBVIOUS
<1>2. FirstPage(u) \in Nat /\ FirstPage(addr) \in Nat /\ FirstPage(addr + len) \in Nat
  BY <1>1, Constants, DivBounds DEF FirstPage
<1>3. FirstPage(addr) <= FirstPage(addr + (u - addr))
  BY <1>1, Constants, DivGrows DEF FirstPage
<1>4. FirstPage(u) <= FirstPage(u + (addr + len - u))
  BY <1>1, Constants, DivGrows DEF FirstPage
<1>5. addr + (u - addr) = u /\ u + (addr + len - u) = addr + len
  BY <1>1
<1> QED  BY <1>1, <1>2, <1>3, <1>4, <1>5 DEF PagesFor

LEMMA Multiples ==
  /\ Multiple(0)
  /\ \A i, j : Multiple(i) /\ Multiple(j) => Multiple(i + j)
  /\ \A k \in Nat : Multiple(k * PAGE_SIZE)
  /\ \A n \in Nat : Multiple(ROUND_UP(n, Grain))
  /\ \A n : Multiple(n) => n % Grain = 0
<1>1. Grain \in Nat /\ Grain >= 1 /\ PAGE_SIZE \in Nat
  BY Constants
<1>2. Multiple(0)
  BY <1>1 DEF Multiple
<1>3. ASSUME NEW i, NEW j, Multiple(i), Multiple(j) PROVE Multiple(i + j)
  <2>1. PICK k \in Nat : i = k * Grain
    BY <1>3 DEF Multiple
  <2>2. PICK l \in Nat : j = l * Grain
    BY <1>3 DEF Multiple
  <2>3. k + l \in Nat /\ (k + l) * Grain = k * Grain + l * Grain
    BY <1>1
  <2> QED  BY <2>1, <2>2, <2>3 DEF Multiple
<1>4. ASSUME NEW k \in Nat PROVE Multiple(k * PAGE_SIZE)
  <2>1. PAGE_SIZE % Grain = 0
    BY SizesAssumption
  <2>2. PICK g \in Nat : PAGE_SIZE = g * Grain
    BY <1>1, <2>1, DivBounds
  <2>3. k * g \in Nat /\ k * (g * Grain) = (k * g) * Grain
    BY <1>1
  <2> QED  BY <2>2, <2>3 DEF Multiple
<1>5. ASSUME NEW n \in Nat PROVE Multiple(ROUND_UP(n, Grain))
  <2>1. n + Grain - 1 \in Nat
    BY <1>1
  <2>2. (n + Grain - 1) \div Grain \in Nat
    BY <1>1, <2>1, DivBounds
  <2> QED  BY <2>2 DEF Multiple, ROUND_UP
<1>6. ASSUME NEW n, Multiple(n) PROVE n % Grain = 0
  <2>1. PICK k \in Nat : n = k * Grain
    BY <1>6 DEF Multiple
  <2>2. n \in Nat
    BY <1>1, <2>1
  <2>3. (n \div Grain) * Grain = n
    BY <1>1, <2>1, MultipleDiv
  <2> QED  BY <1>1, <2>2, <2>3, DivBounds
<1> QED  BY <1>2, <1>3, <1>4, <1>5, <1>6

LEMMA WritableKept ==
  ASSUME NEW at \in Nat, NEW size \in Nat, Writable(at, size),
         \A n \in Nat : Space(n) = {RW} => Space(n)' = {RW}
  PROVE  Writable(at, size)'
<1>1. \A u \in at .. at + size - 1 : FirstPage(u) \in Nat
  BY ByteOnPage
<1> QED  BY <1>1 DEF Writable, FirstPage

\* A step that changes neither the heap nor mmap's call, nor a page that is
\* writable, where there are blocks.
LEMMA QuietKeepsHeap ==
  ASSUME ProcInv, HeapInv, UNCHANGED <<heap, blocks, pending>>,
         \/ heap = NewHeap /\ blocks = {}
         \/ \A n \in Nat : Space(n) = {RW} => Space(n)' = {RW}
  PROVE  HeapInv'
<1>1. /\ heap.bump \in Nat /\ heap.space_remaining \in Nat
      /\ \A b \in blocks : b.at \in Nat /\ b.size \in Nat
  BY DEF ProcInv, OwnTypeOK, Regions
<1>2. Multiple(heap'.bump) /\ Multiple(pending'.size) /\ (pending'.size # 0 => pending'.prot = RW)
  BY DEF HeapInv
<1>3. /\ Writable(heap.bump, heap.space_remaining)'
      /\ \A b \in blocks : Multiple(b.at) /\ Writable(b.at, b.size)'
  <2>1. CASE heap = NewHeap /\ blocks = {}
    <3>1. heap'.bump = 0 /\ heap'.space_remaining = 0
      BY <2>1 DEF NewHeap, NULL
    <3> QED  BY <2>1, <3>1 DEF Writable
  <2>2. CASE \A n \in Nat : Space(n) = {RW} => Space(n)' = {RW}
    <3>1. PICK at \in Nat, size \in Nat : at = heap.bump /\ size = heap.space_remaining
      BY <1>1
    <3>2. Writable(at, size)'
      BY <3>1, <2>2, WritableKept DEF HeapInv
    <3>3. Writable(heap.bump, heap.space_remaining)'
      BY <3>1, <3>2 DEF Writable, FirstPage
    <3>4. ASSUME NEW b \in blocks PROVE Multiple(b.at) /\ Writable(b.at, b.size)'
      BY <1>1, <2>2, WritableKept DEF HeapInv
    <3> QED  BY <3>3, <3>4
  <2> QED  BY <2>1, <2>2
<1> QED  BY <1>2, <1>3 DEF HeapInv, Multiple, Writable, FirstPage

\* A block is taken from the beginning of a part that can be written.
LEMMA GrabKeepsHeap ==
  ASSUME ProcInv, HeapInv, NEW bump \in Nat, NEW space \in Nat, NEW size \in Nat,
         Grab(bump, space, size), size <= space, Multiple(bump), Multiple(size),
         Writable(bump, space), UNCHANGED <<entries, pending>>
  PROVE  HeapInv'
<1>1. /\ heap' = [bump |-> bump + size, space_remaining |-> space - size]
      /\ blocks' = blocks \cup {[at |-> bump, size |-> size]}
  BY DEF Grab
<1>2. heap'.bump = bump + size /\ heap'.space_remaining = space - size
  BY <1>1
<1>3. \A n : Space(n)' = Space(n)
  BY SpaceKept
<1>4. Multiple(bump + size)
  BY Multiples
<1>5. Writable(bump + size, space - size)
  <2>1. \A u \in bump + size .. bump + size + (space - size) - 1 : u \in bump .. bump + space - 1
    OBVIOUS
  <2> QED  BY <2>1 DEF Writable
<1>6. Writable(bump, size)
  <2>1. \A u \in bump .. bump + size - 1 : u \in bump .. bump + space - 1
    OBVIOUS
  <2> QED  BY <2>1 DEF Writable
<1>7. ASSUME NEW b \in blocks' PROVE Multiple(b.at) /\ Writable(b.at, b.size)
  <2>1. CASE b \in blocks
    BY <2>1 DEF HeapInv
  <2>2. CASE b = [at |-> bump, size |-> size]
    <3>1. b.at = bump /\ b.size = size
      BY <2>2
    <3> QED  BY <3>1, <1>6
  <2> QED  BY <1>1, <2>1, <2>2
<1>8. Multiple(pending.size) /\ (pending.size # 0 => pending.prot = RW)
  BY DEF HeapInv
<1>9. Writable(heap.bump, heap.space_remaining)'
  BY <1>2, <1>3, <1>5 DEF Writable, FirstPage
<1>10. \A b \in blocks' : Multiple(b.at) /\ Writable(b.at, b.size)'
  BY <1>3, <1>7 DEF Writable, FirstPage
<1> QED  BY <1>2, <1>4, <1>8, <1>9, <1>10 DEF HeapInv, Multiple, Writable, FirstPage

LEMMA CallKeepsHeap == LoaderInv /\ HeapInv /\ RunCall => HeapInv'
<1> SUFFICES ASSUME LoaderInv, HeapInv, RunCall PROVE HeapInv'
  OBVIOUS
<1>1. /\ phase \in {"boot", "load", "stack", "mmap"} /\ UNCHANGED <<heap, blocks, pending>>
      /\ ProcInv /\ MemInv /\ Bare /\ CallsRight
  BY CallLeaves DEF LoaderInv, ImageInv
<1>2. CASE phase # "mmap"
  BY <1>1, <1>2, QuietKeepsHeap DEF Bare
<1>3. CASE phase = "mmap"
  <2>0. PICK call : call = Head(todo)
    OBVIOUS
  <2>1. /\ call = todo[1] /\ 1 \in DOMAIN todo /\ call.page \in Nat /\ call.prot \in Prots
        /\ call.op = "map" => vm_map(PageAddr(call.page), call.prot)
    BY <2>0, CallMade DEF Calls
  <2>2. call.op = "map"
    BY <1>1, <1>3, <2>1 DEF CallsRight
  <2>3. \A n \in Nat : Space(n) = {RW} => Space(n)' = {RW}
    BY <1>1, <2>1, <2>2, MapSpace
  <2> QED  BY <1>1, <2>3, QuietKeepsHeap
<1> QED  BY <1>2, <1>3

LEMMA RunGivesHeap ==
  ASSUME HeapInv, NEW p, run_program(p)
  PROVE  HeapInv'
<1>1. heap' = NewHeap /\ blocks' = {} /\ pending' = pending
  BY DEF run_program
<1>2. heap'.bump = 0 /\ heap'.space_remaining = 0
  BY <1>1 DEF NewHeap, NULL
<1>3. Multiple(0) /\ Writable(0, 0)'
  BY Multiples DEF Writable
<1> QED  BY <1>1, <1>2, <1>3 DEF HeapInv, Multiple, Writable, FirstPage

LEMMA MmapKeepsHeap ==
  ASSUME ProcInv, HeapInv, NEW addr, NEW len, NEW size, Multiple(size),
         mmap(addr, len, RW, size), UNCHANGED <<memVars, heap, blocks>>
  PROVE  HeapInv'
<1>1. pending'.size = size /\ pending'.prot = RW
  BY DEF mmap
<1>2. \A n : Space(n)' = Space(n)
  BY SpaceKept DEF memVars
<1> QED  BY <1>1, <1>2 DEF HeapInv, Multiple, Writable, FirstPage

\* mmap returns pages that can be written, and begins where malloc's first page
\* does.
LEMMA ReturnKeepsHeap == LoaderInv /\ HeapInv /\ MmapReturns => HeapInv'
<1> SUFFICES ASSUME LoaderInv, HeapInv, MmapReturns PROVE HeapInv'
  OBVIOUS
<1>1. /\ phase = "mmap" /\ todo = <<>> /\ UNCHANGED <<entries, pending>>
      /\ IF pending.size = 0 THEN UNCHANGED <<heap, blocks>>
         ELSE Grab(FirstPage(pending.addr) * PAGE_SIZE, pending.len, pending.size)
  BY DEF MmapReturns, memVars
<1>2. /\ ProcInv /\ OwnReady
      /\ pending.addr \in Nat /\ pending.len \in Nat /\ pending.size \in Nat
      /\ pending.size <= pending.len
  BY DEF LoaderInv, ImageInv, ProcInv, OwnTypeOK, Regions
<1>3. CASE pending.size = 0
  <2>1. \A n : Space(n)' = Space(n)
    BY <1>1, SpaceKept
  <2> QED  BY <1>1, <1>2, <1>3, <2>1, QuietKeepsHeap
<1>4. CASE pending.size # 0
  <2>1. FirstPage(pending.addr) * PAGE_SIZE = pending.addr
    BY <1>1, <1>2, <1>4 DEF ProcInv, Regions
  <2>2. Multiple(pending.addr)
    <3>1. FirstPage(pending.addr) \in Nat
      BY <1>2, PageRange
    <3> QED  BY <2>1, <3>1, Multiples
  <2>3. Multiple(pending.size) /\ pending.prot = RW
    BY <1>4 DEF HeapInv
  <2>4. Writable(pending.addr, pending.len)
    <3> SUFFICES ASSUME NEW u \in pending.addr .. pending.addr + pending.len - 1
                 PROVE  Space(FirstPage(u)) = {RW}
      BY DEF Writable
    <3>1. FirstPage(u) \in PagesFor(pending.addr, pending.len)
      BY <1>2, ByteOnPage
    <3>2. ~Waits("map", FirstPage(u))
      BY <1>1 DEF Waits
    <3> QED  BY <1>1, <1>2, <2>3, <3>1, <3>2 DEF OwnReady
  <2>5. Grab(pending.addr, pending.len, pending.size)
    BY <1>1, <1>4, <2>1
  <2> QED  BY <1>1, <1>2, <2>2, <2>3, <2>4, <2>5, GrabKeepsHeap
<1> QED  BY <1>3, <1>4

LEMMA MallocKeepsHeap ==
  ASSUME ProcInv, HeapInv, NEW sz \in Nat, malloc(sz)
  PROVE  HeapInv'
<1> DEFINE size == ROUND_UP(sz, Grain)
           len == ROUND_UP(size, PAGE_SIZE)
<1>1. size \in Nat /\ Multiple(size)
  BY Constants, RoundUp, Multiples
<1>2. CASE NeedsMore(size)
  <2>1. mmap(NULL, len, RW, size) /\ UNCHANGED <<memVars, heap, blocks>>
    BY <1>2 DEF malloc
  <2> HIDE DEF size, len
  <2> QED  BY <1>1, <2>1, MmapKeepsHeap
<1>3. CASE ~NeedsMore(size)
  <2>1. /\ Grab(heap.bump, heap.space_remaining, size)
        /\ UNCHANGED <<entries, pending>>
    BY <1>3 DEF malloc, memVars
  <2> HIDE DEF size, len
  <2>2. /\ heap.bump \in Nat /\ heap.space_remaining \in Nat
        /\ size <= heap.space_remaining
    BY <1>1, <1>3 DEF ProcInv, OwnTypeOK, NeedsMore
  <2>3. Multiple(heap.bump) /\ Writable(heap.bump, heap.space_remaining)
    BY DEF HeapInv
  <2> QED  BY <1>1, <2>1, <2>2, <2>3, GrabKeepsHeap
<1> QED  BY <1>2, <1>3

LEMMA HeapInvInit == ProcInit => HeapInv
<1> SUFFICES ASSUME ProcInit PROVE HeapInv
  OBVIOUS
<1>1. heap = NewHeap /\ blocks = {} /\ pending = NoCall
  BY DEF ProcInit
<1>2. heap.bump = 0 /\ heap.space_remaining = 0 /\ pending.size = 0
  BY <1>1 DEF NewHeap, NoCall, NULL
<1>3. Multiple(0) /\ Writable(0, 0)
  BY Multiples DEF Writable
<1> QED  BY <1>1, <1>2, <1>3 DEF HeapInv

LEMMA HeapInvStep == LoaderInv /\ HeapInv /\ [ProcNext]_procVars => HeapInv'
<1> SUFFICES ASSUME LoaderInv, HeapInv, [ProcNext]_procVars PROVE HeapInv'
  OBVIOUS
<1>0. ProcInv
  BY DEF LoaderInv
<1>1. ASSUME entries' = entries, UNCHANGED <<heap, blocks, pending>> PROVE HeapInv'
  <2>1. \A n : Space(n)' = Space(n)
    BY <1>1, SpaceKept
  <2> QED  BY <1>0, <1>1, <2>1, QuietKeepsHeap
<1>2. CASE RunCall
  BY <1>2, CallKeepsHeap
<1>3. CASE KernelTurn
  <2>1. CASE StartInit
    BY <2>1, RunGivesHeap DEF StartInit
  <2>2. CASE LoadSegment \/ MapStack \/ usermode_entry
    BY <1>1, <2>2 DEF LoadSegment, MapStack, usermode_entry, memVars
  <2> QED  BY <1>3, <2>1, <2>2, ReturnKeepsHeap DEF KernelTurn
<1>4. CASE ProgramStep
  <2>1. ASSUME NEW file, sys_exec(file) PROVE HeapInv'
    <3>1. CASE file \in Program
      BY <2>1, <3>1, RunGivesHeap DEF sys_exec
    <3>2. CASE file \notin Program
      BY <1>1, <2>1, <3>2 DEF sys_exec, memVars
    <3> QED  BY <3>1, <3>2
  <2>2. ASSUME NEW r \in Requests, sys_mmap(r[1], r[2], RW) PROVE HeapInv'
    <3>1. mmap(r[1], r[2], RW, 0) /\ UNCHANGED <<memVars, heap, blocks>>
      BY <2>2 DEF sys_mmap
    <3> QED  BY <1>0, <3>1, Multiples, MmapKeepsHeap
  <2>3. ASSUME NEW sz \in Sizes, malloc(sz) PROVE HeapInv'
    BY <1>0, <2>3, MallocKeepsHeap, Constants
  <2>4. CASE sys_write
    BY <1>1, <2>4 DEF sys_write, memVars
  <2> QED  BY <1>4, <2>1, <2>2, <2>3, <2>4 DEF ProgramStep, sys_exit
<1>5. CASE UNCHANGED procVars
  BY <1>1, <1>5 DEF procVars, memVars
<1> QED  BY <1>2, <1>3, <1>4, <1>5 DEF ProcNext

-----------------------------------------------------------------------------
(* Where things are. *)

\* addre has moved as far as the calls made could move it.
AddreBelow == MmapBase <= addre /\ addre <= MmapBase + calls * MmapStep

\* What mmap itself has placed, for this program, lies behind its first value and
\* before its next.
Picked(o) == FirstPage(MmapBase) <= FirstPage(o.addr) /\ FirstPage(o.addr + o.len) < FirstPage(addre)

MmapPlaces ==
  /\ phase \in {"user", "mmap"} /\ ~named => \A o \in own : Picked(o)
  /\ phase = "mmap" /\ ~named => Picked(pending)
  /\ phase = "mmap" => Lower(PagesFor(pending.addr, pending.len))

\* A wild list is all there is left.
RunsDry == wild => freelist = <<>>

\* A page that a loop is about to map is not mapped, unless the program chose it,
\* and what it is about to protect is.
Fresh ==
  phase \in {"boot", "load"} \/ (phase = "mmap" /\ ~named) =>
    \A j \in DOMAIN todo :
      /\ todo[j].op = "map" =>
           /\ Space(todo[j].page) = {}
           /\ \A k \in DOMAIN todo : j < k /\ todo[k].op = "map" =>
                PageAddr(todo[k].page) # PageAddr(todo[j].page)
      /\ todo[j].op = "protect" =>
           Space(todo[j].page) # {} \/ Waits("map", todo[j].page)

PlacesInv == AddreBelow /\ MmapPlaces /\ RunsDry /\ Fresh

\* When vm_map fails on a page that is not mapped, nothing is left.
LEMMA MapFails ==
  ASSUME MemInv, RunsDry, NEW m \in Nat, NEW p \in Prots, vm_map(PageAddr(m), p)
  PROVE  /\ RunsDry'
         /\ astray' => freelist' = <<>>
         /\ Space(m) = {} /\ ~result' => freelist' = <<>>
<1> DEFINE a == PageAddr(m)
<1>1. a \in Addresses /\ ~astray
  BY PageAddrType DEF vm_map
<1>2. CASE MapRefused(a)
  <2>1. UNCHANGED <<freelist, wild, astray>>
    BY <1>2 DEF MapRefused
  <2>2. Walk(a).depth = 4
    BY <1>1, <1>2, WalkEnds DEF MapRefused, Missing, MemInv
  <2>3. Pages(a) # {}
    BY <2>2, WalkPath, PathGivesPage
  <2> QED  BY <1>1, <2>1, <2>3, SpaceFromPages DEF RunsDry
<1>3. CASE MapAstray(a)
  BY <1>3 DEF MapAstray, RunsDry
<1>4. CASE MapAdds(a, p)
  <2>1. /\ Missing(a) \in Nat /\ result' = (Added(a) = Missing(a))
    BY <1>1, <1>4, MapAddsLinks
  <2>2. freelist \in Seq(Frames) /\ Len(freelist) \in Nat
    BY DEF MemInv, MemTypeOK
  <2>3. /\ freelist' = pmem_alloc(Added(a)) /\ Added(a) = Least(Missing(a), Len(freelist))
        /\ wild' \in AfterAlloc(Added(a), Missing(a)) /\ astray' = astray
    BY <1>4 DEF MapAdds, Added
  <2>4. Added(a) # Missing(a) => freelist' = <<>>
    <3> SUFFICES ASSUME Added(a) # Missing(a) PROVE freelist' = <<>>
      OBVIOUS
    <3>1. Added(a) = Len(freelist) /\ Added(a) \in 0 .. Len(freelist)
      BY <2>1, <2>2, <2>3 DEF Least
    <3>2. freelist' \in Seq(Frames) /\ Len(freelist') = 0
      BY <2>2, <2>3, <3>1, ListAfterAlloc
    <3> QED  BY <3>2, EmptySeq
  <2>5. Added(a) = Missing(a) => ~wild'
    BY <2>3 DEF AfterAlloc
  <2> QED  BY <1>1, <2>1, <2>3, <2>4, <2>5 DEF RunsDry
<1> QED  BY <1>2, <1>3, <1>4 DEF vm_map

\* A call of the loader or of mmap fails on memory only, unless a program chose
\* the page.
LEMMA CallFailsDry ==
  ASSUME LoaderInv, PlacesInv, RunCall
  PROVE  /\ RunsDry'
         /\ phase' = "dead" => freelist' = <<>> \/ (phase = "mmap" /\ named)
<1>0. PICK call : call = Head(todo)
  OBVIOUS
<1>1. /\ call = todo[1] /\ 1 \in DOMAIN todo
      /\ call.page \in Nat /\ call.prot \in Prots /\ call.op \in {"map", "protect"}
      /\ call.op = "map" => vm_map(PageAddr(call.page), call.prot)
      /\ call.op = "protect" => vm_protect(PageAddr(call.page), call.prot)
  BY <1>0, CallMade DEF Calls
<1>2. /\ MemInv /\ CallsRight /\ RunsDry /\ Fresh
      /\ phase \in {"boot", "load", "stack", "mmap"}
      /\ phase' = IF (result' \/ phase = "stack") /\ ~astray' THEN phase ELSE "dead"
  BY DEF LoaderInv, ImageInv, PlacesInv, RunCall
<1>3. CASE call.op = "map"
  <2>1. /\ RunsDry' /\ (astray' => freelist' = <<>>)
        /\ Space(call.page) = {} /\ ~result' => freelist' = <<>>
    BY <1>1, <1>2, <1>3, MapFails
  <2>2. phase = "stack" \/ (phase = "mmap" /\ named) \/ Space(call.page) = {}
    BY <1>1, <1>2, <1>3 DEF Fresh
  <2> QED  BY <1>2, <2>1, <2>2
<1>4. CASE call.op = "protect"
  <2>1. /\ phase = "load"
        /\ \A k \in DOMAIN todo : 1 < k => todo[k].op = "protect"
    BY <1>1, <1>2, <1>4 DEF CallsRight
  <2>2. ~Waits("map", call.page)
    BY <1>1, <1>4, <2>1, CallMade DEF Waits
  <2>3. Space(call.page) # {}
    BY <1>1, <1>2, <1>4, <2>1, <2>2 DEF Fresh
  <2>4. result' /\ UNCHANGED <<freelist, wild, astray>> /\ ~astray
    BY <1>1, <1>2, <1>4, <2>3, ProtectSpace DEF vm_protect
  <2> QED  BY <1>2, <2>4 DEF RunsDry
<1> QED  BY <1>1, <1>3, <1>4

LEMMA CallKeepsFresh ==
  ASSUME LoaderInv, PlacesInv, RunCall
  PROVE  Fresh'
<1>0. PICK call : call = Head(todo)
  OBVIOUS
<1>1. /\ call = todo[1] /\ 1 \in DOMAIN todo
      /\ call.page \in Nat /\ call.prot \in Prots /\ call.op \in {"map", "protect"}
      /\ call.op = "map" => vm_map(PageAddr(call.page), call.prot)
      /\ call.op = "protect" => vm_protect(PageAddr(call.page), call.prot)
      /\ \A j \in DOMAIN todo' : j + 1 \in DOMAIN todo /\ todo'[j] = todo[j + 1] /\ j \in Nat \ {0}
      /\ \A op, n : Waits(op, n) => Waits(op, n)' \/ (op = call.op /\ n = call.page)
  BY <1>0, CallMade DEF Calls
<1>2. /\ MemInv /\ CallsRight /\ Fresh /\ todo \in Seq(Calls) /\ named' = named
      /\ phase' # "dead" => phase' = phase /\ ~astray' /\ (result' \/ phase = "stack")
  BY CallLeaves DEF LoaderInv, ProcInv, OwnTypeOK, ImageInv, PlacesInv, RunCall
<1> SUFFICES ASSUME phase' \in {"boot", "load"} \/ (phase' = "mmap" /\ ~named),
                    NEW j \in DOMAIN todo', NEW q, q = todo'[j].page
             PROVE  /\ todo'[j].op = "map" =>
                         /\ Space(q)' = {}
                         /\ \A k \in DOMAIN todo' : j < k /\ todo'[k].op = "map" =>
                              PageAddr(todo'[k].page) # PageAddr(q)
                    /\ todo'[j].op = "protect" => Space(q)' # {} \/ Waits("map", q)'
  BY <1>2 DEF Fresh, Space, Pages, PageAddr, Waits
<1>3. /\ phase' = phase /\ ~astray' /\ result'
      /\ phase \in {"boot", "load"} \/ (phase = "mmap" /\ ~named)
  BY <1>2
<1>4. j + 1 \in DOMAIN todo /\ todo'[j] = todo[j + 1] /\ 1 < j + 1 /\ q = todo[j + 1].page
  BY <1>1
<1>5. q \in Nat /\ PageAddr(q) \in Addresses
  <2>1. todo[j + 1] \in Calls
    BY <1>2, <1>4, ElementOfSeq, LenProperties
  <2> QED  BY <1>4, <2>1, PageAddrType DEF Calls
<1>6. CASE todo'[j].op = "map"
  <2>1. call.op = "map"
    <3> SUFFICES ASSUME call.op = "protect" PROVE FALSE
      BY <1>1
    <3>1. phase = "load"
      BY <1>1, <1>2, <1>3 DEF CallsRight
    <3> QED  BY <1>1, <1>2, <1>4, <1>6, <3>1 DEF CallsRight
  <2>2. Space(q) = {} /\ PageAddr(q) # PageAddr(call.page)
    BY <1>1, <1>2, <1>3, <1>4, <1>6, <2>1, ZenonT(30) DEF Fresh
  <2>3. Space(q)' = {}
    BY <1>1, <1>2, <1>5, <2>1, <2>2, MapSpace, SpaceFromPages
  <2>4. ASSUME NEW k \in DOMAIN todo', j < k, todo'[k].op = "map"
        PROVE  PageAddr(todo'[k].page) # PageAddr(q)
    <3>1. k + 1 \in DOMAIN todo /\ todo'[k] = todo[k + 1] /\ j + 1 < k + 1
      BY <1>1, <2>4
    <3> QED  BY <1>2, <1>3, <1>4, <1>6, <2>4, <3>1 DEF Fresh
  <2> QED  BY <1>6, <2>3, <2>4
<1>7. CASE todo'[j].op = "protect"
  <2>1. Space(q) # {} \/ Waits("map", q)
    BY <1>2, <1>3, <1>4, <1>7 DEF Fresh
  <2>2. CASE call.op = "map"
    <3>1. /\ Space(q) # {} => Space(q)' # {}
          /\ Space(call.page)' = {call.prot}
      BY <1>1, <1>2, <1>3, <1>5, <2>2, MapSpace
    <3> QED  BY <1>1, <1>7, <2>1, <3>1
  <2>3. CASE call.op = "protect"
    <3>1. Space(q) # {} => Space(q)' # {}
      BY <1>1, <1>2, <1>5, <2>3, ProtectSpace, SpaceFromPages
    <3> QED  BY <1>1, <1>7, <2>1, <2>3, <3>1
  <2> QED  BY <1>1, <2>2, <2>3
<1> QED  BY <1>6, <1>7

\* Where addre may be is within what mmap can pick.
LEMMA AddreInRange ==
  ASSUME ProcInv, AddreBelow
  PROVE  /\ FirstPage(MmapBase) \in Nat /\ FirstPage(addre) \in Nat
         /\ FirstPage(MmapBase) <= FirstPage(addre)
         /\ FirstPage(addre) <= FirstPage(MmapBase + MaxCalls * MmapStep)
         /\ FirstPage(MmapBase + MaxCalls * MmapStep) \in Nat
<1>1. calls \in 0 .. MaxCalls /\ addre \in Nat
  BY DEF ProcInv, OwnTypeOK
<1> DEFINE top == MmapBase + MaxCalls * MmapStep
<1>2. PICK c \in Nat, m \in Nat : c = calls * MmapStep /\ m = MaxCalls * MmapStep /\ c <= m
  BY <1>1, Constants
<1>3. MmapBase <= addre /\ addre <= top /\ top \in Nat
  <2>1. MmapBase <= addre /\ addre <= MmapBase + c /\ top = MmapBase + m
    BY <1>2 DEF AddreBelow
  <2>2. c \in Nat /\ m \in Nat /\ c <= m /\ MmapBase \in Nat /\ addre \in Nat
    BY <1>1, <1>2, Constants
  <2> HIDE DEF top
  <2> QED  BY ONLY <2>1, <2>2
<1> HIDE DEF top
<1>4. addre - MmapBase \in Nat /\ top - addre \in Nat
  BY <1>1, <1>3, Constants
<1>5. MmapBase + (addre - MmapBase) = addre /\ addre + (top - addre) = top
  BY <1>1, <1>3, Constants
<1>6. MmapBase \div PAGE_SIZE <= addre \div PAGE_SIZE
  <2>1. MmapBase \div PAGE_SIZE <= (MmapBase + (addre - MmapBase)) \div PAGE_SIZE
    BY <1>4, Constants, DivGrows, Zenon
  <2> QED  BY <1>5, <2>1
<1>7. addre \div PAGE_SIZE <= top \div PAGE_SIZE
  <2>1. addre \div PAGE_SIZE <= (addre + (top - addre)) \div PAGE_SIZE
    BY <1>1, <1>4, Constants, DivGrows, Zenon
  <2> QED  BY <1>5, <2>1
<1>8. FirstPage(MmapBase) \in Nat /\ FirstPage(addre) \in Nat /\ FirstPage(top) \in Nat
  BY <1>1, <1>3, Constants, PageRange
<1> QED  BY <1>6, <1>7, <1>8 DEF FirstPage, top

\* What mmap gives ends before the page it moves addre to.
LEMMA GrowsPast ==
  ASSUME NEW k \in Nat, NEW at \in Nat, at = k * PAGE_SIZE, NEW len \in Nat
  PROVE  /\ Growth(len) \in Nat
         /\ FirstPage(at + len) \in Nat /\ FirstPage(at + Growth(len)) \in Nat
         /\ FirstPage(at) <= FirstPage(at + len)
         /\ FirstPage(at + len) < FirstPage(at + Growth(len))
<1> DEFINE q == len \div PAGE_SIZE
           p == FirstPage(at + len)
           r == FirstPage(at + Growth(len))
<1>1. q \in Nat /\ q * PAGE_SIZE \in Nat /\ len < q * PAGE_SIZE + PAGE_SIZE
  BY Constants, DivBounds
<1>2. Growth(len) = (q + 1) * PAGE_SIZE
  BY DEF Growth
<1> HIDE DEF q
<1>3. (q + 1) * PAGE_SIZE = q * PAGE_SIZE + PAGE_SIZE /\ (q + 1) * PAGE_SIZE \in Nat
  BY <1>1, Constants
<1>4. Growth(len) \in Nat /\ len < Growth(len)
  BY <1>1, <1>2, <1>3, Constants
<1>5. k + (q + 1) \in Nat /\ at + Growth(len) = (k + (q + 1)) * PAGE_SIZE
  BY <1>1, <1>2, <1>3, Constants
<1>6. r * PAGE_SIZE = at + Growth(len) /\ r \in Nat
  <2>1. (((k + (q + 1)) * PAGE_SIZE) \div PAGE_SIZE) * PAGE_SIZE = (k + (q + 1)) * PAGE_SIZE
    BY <1>5, Constants, MultipleDiv, Zenon
  <2>2. at + Growth(len) \in Nat
    BY <1>4
  <2>3. r \in Nat
    BY <2>2, PageRange
  <2>4. r * PAGE_SIZE = at + Growth(len)
    BY <2>1, <1>5, Zenon DEF FirstPage
  <2> QED  BY <2>3, <2>4
<1>7. p \in Nat /\ p * PAGE_SIZE \in Nat /\ p * PAGE_SIZE <= at + len
  <2>1. at + len \in Nat
    OBVIOUS
  <2> QED  BY <2>1, Constants, DivBounds DEF FirstPage
<1>8. FirstPage(at) <= p
  BY Constants, DivGrows DEF FirstPage
<1> HIDE DEF p, r
<1>9. p < r
  <2> SUFFICES ASSUME r <= p PROVE FALSE
    BY <1>6, <1>7
  <2>1. r * PAGE_SIZE <= p * PAGE_SIZE
    BY <1>6, <1>7, Constants
  <2> QED  BY <2>1, <1>4, <1>6, <1>7
<1> QED  BY <1>4, <1>6, <1>7, <1>8, <1>9 DEF p, r

\* addre after a call of mmap that chooses the place itself.
LEMMA AddreMoves ==
  ASSUME ProcInv, AddreBelow, NEW len \in Nat, Growth(len) <= MmapStep,
         addre' = addre + Growth(len), calls' = calls + 1, calls' \in 0 .. MaxCalls
  PROVE  /\ AddreBelow' /\ addre' \in Nat
         /\ FirstPage(MmapBase) <= FirstPage(addre)
         /\ FirstPage(addre + len) < FirstPage(addre')
         /\ PagesFor(addre, len) \subseteq MmapPages
         /\ PagesFor(addre, len) \subseteq Nat
<1>1. calls \in Nat /\ addre \in Nat
  BY DEF ProcInv, OwnTypeOK
<1>2. PICK k \in Nat : addre = k * PAGE_SIZE
  BY DEF ProcInv, Regions
<1>3. /\ Growth(len) \in Nat
      /\ FirstPage(addre + len) \in Nat /\ FirstPage(addre') \in Nat
      /\ FirstPage(addre + len) < FirstPage(addre')
  BY <1>1, <1>2, GrowsPast
<1>4. (calls + 1) * MmapStep = calls * MmapStep + MmapStep /\ calls * MmapStep \in Nat
  BY <1>1, Constants
<1>5. AddreBelow'
  BY <1>1, <1>3, <1>4, Constants DEF AddreBelow
<1>6. /\ FirstPage(MmapBase) \in Nat /\ FirstPage(addre) \in Nat
      /\ FirstPage(MmapBase) <= FirstPage(addre)
  BY AddreInRange
<1> DEFINE top == MmapBase + MaxCalls * MmapStep
<1>7. FirstPage(addre') <= FirstPage(top) /\ FirstPage(top) \in Nat
  <2>1. addre' \in Nat /\ MmapBase <= addre' /\ top \in Nat /\ addre' <= top
    <3>1. PICK c \in Nat, m \in Nat :
            c = (calls + 1) * MmapStep /\ m = MaxCalls * MmapStep /\ c <= m
      BY <1>1, Constants
    <3>2. MmapBase <= addre' /\ addre' <= MmapBase + c /\ top = MmapBase + m
      BY <1>5, <3>1 DEF AddreBelow
    <3>3. addre' \in Nat
      BY <1>1, <1>3
    <3> HIDE DEF top
    <3> QED  BY <3>1, <3>2, <3>3, Constants, SMTT(30)
  <2> HIDE DEF top
  <2>2. PICK d \in Nat : addre' + d = top
    <3>1. top - addre' \in Nat /\ addre' + (top - addre') = top
      BY <2>1
    <3> QED  BY <3>1
  <2>3. addre' \div PAGE_SIZE <= (addre' + d) \div PAGE_SIZE
    BY <2>1, <2>2, Constants, DivGrows, Zenon
  <2>4. FirstPage(top) \in Nat
    BY <2>1, PageRange
  <2> QED  BY <2>2, <2>3, <2>4 DEF FirstPage
<1>8. PagesFor(addre, len) \subseteq FirstPage(MmapBase) .. FirstPage(top)
  BY <1>3, <1>6, <1>7 DEF PagesFor
<1>9. PagesFor(addre, len) \subseteq Nat
  BY <1>3, <1>6 DEF PagesFor
<1> QED  BY <1>1, <1>3, <1>5, <1>6, <1>8, <1>9 DEF MmapPages

\* The pages a segment is about to be mapped on are not mapped.
LEMMA SegmentUnmapped ==
  ASSUME LoaderInv, phase = "load", Handled + 1 \in DOMAIN Segments[program],
         InMemory(Seg(Handled + 1)), NEW n \in SegPages(Handled + 1), n \in Nat
  PROVE  Space(n) = {}
<1>1. /\ ProcInv /\ Progress /\ NothingElse /\ own = {} /\ phase \in Running
      /\ program \in Program
  BY DEF LoaderInv, ImageInv, Bare, Running, ProcInv, OwnTypeOK
<1>2. PageAddr(n) \in Addresses /\ PageAddr(n)[1] \in LowerHalf
  BY <1>1, PageAddrType, LowerAssumption DEF Lower, Seg, SegPages
<1> SUFFICES ASSUME Space(n) # {} PROVE FALSE
  OBVIOUS
<1>3. Source(PageAddr(n))
  BY <1>1, <1>2, SpaceFromPages DEF NothingElse
<1>4. PICK i \in 1 .. Handled : InMemory(Seg(i)) /\ \E m \in SegPages(i) : PageAddr(m) = PageAddr(n)
  BY <1>1, <1>3 DEF Source
<1>5. i \in DOMAIN Segments[program] /\ Handled \in Nat /\ i # Handled + 1
  BY <1>1, SegType
<1>6. Apart(PagesFor(Seg(i).vaddr, Seg(i).memsz),
            PagesFor(Seg(Handled + 1).vaddr, Seg(Handled + 1).memsz))
  BY <1>1, <1>4, <1>5, ApartAssumption DEF Seg
<1> QED  BY <1>4, <1>6 DEF Apart, SegPages

\* The pages mmap picks are not mapped, while the program lets it pick.
LEMMA PickedUnmapped ==
  ASSUME LoaderInv, MmapPlaces, phase = "user", ~named,
         NEW n \in MmapPages, n \in Nat, FirstPage(addre) <= n,
         AddreBelow
  PROVE  Space(n) = {}
<1>1. /\ ProcInv /\ Progress /\ NothingElse /\ OwnReady /\ phase \in Running
      /\ program \in Program
  BY DEF LoaderInv, ImageInv, Running, ProcInv, OwnTypeOK
<1>2. PageAddr(n) \in Addresses /\ PageAddr(n)[1] \in LowerHalf
  BY PageAddrType, LowerAssumption DEF Lower
<1> SUFFICES ASSUME Space(n) # {} PROVE FALSE
  OBVIOUS
<1>3. Source(PageAddr(n))
  BY <1>1, <1>2, SpaceFromPages DEF NothingElse
<1>4. ASSUME NEW i \in 1 .. Handled, InMemory(Seg(i)), NEW m \in SegPages(i),
             PageAddr(m) = PageAddr(n)
      PROVE  FALSE
  <2>1. i \in DOMAIN Segments[program]
    BY <1>1, SegType
  <2>2. Apart(MmapPages, PagesFor(Seg(i).vaddr, Seg(i).memsz))
    BY <1>1, <1>4, <2>1, ApartAssumption DEF Seg
  <2> QED  BY <1>4, <2>2 DEF Apart, SegPages
<1>5. ASSUME NEW m \in Stack, PageAddr(m) = PageAddr(n) PROVE FALSE
  BY <1>5, ApartAssumption DEF Apart
<1>6. ASSUME NEW o \in own, NEW m \in PagesFor(o.addr, o.len), PageAddr(m) = PageAddr(n)
      PROVE  FALSE
  <2>1. Picked(o) /\ o.addr \in Nat /\ o.len \in Nat
    BY <1>1 DEF MmapPlaces, OwnReady
  <2>2. m \in Nat /\ FirstPage(o.addr) \in Nat /\ FirstPage(o.addr + o.len) \in Nat
    <3>1. o.addr + o.len \in Nat
      BY <2>1
    <3> QED  BY <2>1, <3>1, <1>6, PagesForType, PageRange
  <2>3. /\ FirstPage(MmapBase) \in Nat /\ FirstPage(addre) \in Nat
        /\ FirstPage(MmapBase) <= m /\ m < FirstPage(addre)
    BY <2>1, <2>2, <1>1, <1>6, AddreInRange DEF Picked, PagesFor
  <2>4. m \in MmapPages /\ m # n
    BY <2>2, <2>3, AddreInRange, <1>1 DEF MmapPages
  <2> QED  BY <1>6, <2>4, ApartAssumption DEF Distinct
<1> QED  BY <1>3, <1>4, <1>5, <1>6 DEF Source

LEMMA AddreStays ==
  ASSUME ProcInv, AddreBelow, addre' = addre, calls' \in {calls, calls + 1}
  PROVE  AddreBelow'
<1>1. calls \in Nat /\ addre \in Nat
  BY DEF ProcInv, OwnTypeOK
<1>2. PICK c \in Nat, d \in Nat : c = calls * MmapStep /\ d = calls' * MmapStep /\ c <= d
  <2>1. /\ calls * MmapStep \in Nat /\ (calls + 1) * MmapStep \in Nat
        /\ calls * MmapStep <= (calls + 1) * MmapStep
    BY <1>1, Constants
  <2>2. calls' = calls \/ calls' = calls + 1
    OBVIOUS
  <2> QED  BY <2>1, <2>2
<1>3. MmapBase <= addre' /\ addre' <= MmapBase + c
  BY <1>2 DEF AddreBelow
<1>4. addre' \in Nat /\ c \in Nat /\ d \in Nat /\ c <= d /\ MmapBase \in Nat
  BY <1>1, <1>2, Constants
<1>5. addre' <= MmapBase + d
  BY ONLY <1>3, <1>4
<1> QED  BY <1>2, <1>3, <1>5 DEF AddreBelow

LEMMA PlacesInvInit == ProcInit => PlacesInv
<1> SUFFICES ASSUME ProcInit PROVE PlacesInv
  OBVIOUS
<1>1. /\ phase = "boot" /\ entries = {} /\ wild = FALSE /\ addre = MmapBase /\ calls = 0
      /\ todo = [k \in 1 .. Len(CursorPages) |-> Call("map", CursorPages[k], KernelRW)]
  BY DEF ProcInit, MemInit
<1>2. AddreBelow /\ MmapPlaces /\ RunsDry
  BY <1>1, Constants DEF AddreBelow, MmapPlaces, RunsDry
<1>3. Fresh
  <2>1. \A n : Space(n) = {}
    <3>1. \A a : Pages(a) = {}
      BY <1>1 DEF Pages
    <3> QED  BY <3>1, SpaceFromPages
  <2>2. /\ DOMAIN todo = 1 .. Len(CursorPages)
        /\ \A k \in DOMAIN todo : todo[k].op = "map" /\ todo[k].page = CursorPages[k]
    BY <1>1 DEF Call
  <2>3. \A j, k \in DOMAIN todo : j < k => PageAddr(CursorPages[k]) # PageAddr(CursorPages[j])
    <3>1. DOMAIN CursorPages = 1 .. Len(CursorPages) /\ Len(CursorPages) \in Nat
      BY Constants, LenProperties
    <3> QED  BY <2>2, <3>1, ApartAssumption
  <2> QED  BY <2>1, <2>2, <2>3 DEF Fresh
<1> QED  BY <1>2, <1>3 DEF PlacesInv

\* Steps that leave memory and addre as they are, and lead to no loop that must
\* not fail.
LEMMA QuietKeepsPlaces ==
  ASSUME ProcInv, PlacesInv, UNCHANGED <<freelist, wild, addre>>, calls' \in {calls, calls + 1},
         MmapPlaces',
         \/ todo' = <<>>
         \/ phase' \in {"stack", "user", "dead"}
         \/ UNCHANGED <<entries, phase, todo, named>>
  PROVE  PlacesInv'
<1>1. AddreBelow' /\ RunsDry'
  BY AddreStays DEF PlacesInv, RunsDry
<1>2. Fresh'
  <2>1. CASE todo' = <<>> \/ phase' \in {"stack", "user", "dead"}
    BY <2>1 DEF Fresh
  <2>2. CASE UNCHANGED <<entries, phase, todo, named>>
    <3>1. \A n : Space(n)' = Space(n)
      BY <2>2, SpaceKept
    <3> QED  BY <2>2, <3>1 DEF PlacesInv, Fresh, Waits, PageAddr
  <2> QED  BY <2>1, <2>2
<1> QED  BY <1>1, <1>2 DEF PlacesInv

LEMMA CallKeepsPlaces == LoaderInv /\ PlacesInv /\ RunCall => PlacesInv'
<1> SUFFICES ASSUME LoaderInv, PlacesInv, RunCall PROVE PlacesInv'
  OBVIOUS
<1>1. /\ UNCHANGED <<addre, pending, own, named, calls>> /\ ProcInv
      /\ phase' \in {phase, "dead"} /\ phase # "user"
  BY DEF RunCall, LoaderInv
<1>2. AddreBelow'
  BY <1>1, AddreStays DEF PlacesInv
<1>3. MmapPlaces'
  BY <1>1 DEF PlacesInv, MmapPlaces, Picked, Lower, PagesFor, FirstPage, PageAddr
<1> QED  BY <1>2, <1>3, CallFailsDry, CallKeepsFresh DEF PlacesInv

LEMMA LoadKeepsPlaces == LoaderInv /\ PlacesInv /\ LoadSegment => PlacesInv'
<1> SUFFICES ASSUME LoaderInv, PlacesInv, LoadSegment PROVE PlacesInv'
  OBVIOUS
<1>1. /\ phase = "load" /\ phase' = "load" /\ segs # <<>>
      /\ todo' = IF InMemory(Head(segs)) THEN SegmentCalls(Head(segs)) ELSE <<>>
      /\ UNCHANGED <<freelist, wild, entries, addre, calls>>
  BY DEF LoadSegment, memVars
<1>2. ProcInv /\ Progress /\ program \in Program
  BY DEF LoaderInv, ImageInv, ProcInv, OwnTypeOK
<1>3. MmapPlaces'
  BY <1>1 DEF MmapPlaces
<1>4. CASE ~InMemory(Head(segs))
  BY <1>1, <1>2, <1>3, <1>4, QuietKeepsPlaces
<1>5. CASE InMemory(Head(segs))
  <2>1. /\ segs \in Seq(Headers) /\ Len(segs) \in Nat /\ Len(segs) >= 1
        /\ Head(segs) = segs[1] /\ Head(segs) \in Headers
    BY <1>1, <1>2, EmptySeq, LenProperties, HeadTailProperties DEF ProcInv, OwnTypeOK
  <2>2. /\ Len(Segments[program]) \in Nat /\ Len(segs) <= Len(Segments[program])
        /\ DOMAIN Segments[program] = 1 .. Len(Segments[program])
        /\ segs[1] = Seg(Handled + 1)
    BY <1>1, <1>2, <2>1, Constants, LenProperties DEF Progress, Running
  <2>3. Handled + 1 \in DOMAIN Segments[program]
    BY <2>1, <2>2 DEF Handled
  <2>4. ForSegment(todo', SegPages(Handled + 1), Seg(Handled + 1).prot)
    BY <1>1, <1>5, <2>1, <2>2, SegmentCallsAre DEF SegPages
  <2>5. InMemory(Seg(Handled + 1)) /\ Distinct(SegPages(Handled + 1))
    BY <1>2, <1>5, <2>1, <2>2, <2>3, ApartAssumption DEF Seg, SegPages
  <2>6. ASSUME NEW n \in SegPages(Handled + 1) PROVE Space(n)' = {}
    <3>1. n \in Nat
      BY <2>1, <2>2, PagesForType DEF SegPages, Headers
    <3>2. Space(n) = {}
      BY <1>1, <2>3, <2>5, <3>1, SegmentUnmapped
    <3> QED  BY <1>1, <3>2, SpaceKept
  <2>7. Fresh'
    <3> SUFFICES ASSUME NEW j \in DOMAIN todo', NEW q, q = todo'[j].page
                 PROVE  /\ todo'[j].op = "map" =>
                             /\ Space(q)' = {}
                             /\ \A k \in DOMAIN todo' : j < k /\ todo'[k].op = "map" =>
                                  PageAddr(todo'[k].page) # PageAddr(q)
                        /\ todo'[j].op = "protect" => Waits("map", q)'
      BY DEF Fresh, Space, Pages, PageAddr, Waits
    <3>1. q \in SegPages(Handled + 1)
      BY <2>4 DEF ForSegment
    <3>2. Waits("map", q)'
      BY <2>4, <3>1 DEF ForSegment, Waits
    <3>3. ASSUME NEW k \in DOMAIN todo', j < k, todo'[j].op = "map", todo'[k].op = "map"
          PROVE  PageAddr(todo'[k].page) # PageAddr(q)
      BY <2>4, <2>5, <3>3 DEF ForSegment, Distinct
    <3> QED  BY <2>6, <3>1, <3>2, <3>3
  <2>8. AddreBelow' /\ RunsDry'
    BY <1>1, <1>2, AddreStays DEF PlacesInv, RunsDry
  <2> QED  BY <1>3, <2>7, <2>8 DEF PlacesInv
<1> QED  BY <1>4, <1>5

\* A call of mmap: a place it picks itself is not mapped yet.
LEMMA MmapKeepsPlaces ==
  ASSUME LoaderInv, PlacesInv, NEW addr \in Nat, NEW len \in Nat, NEW size \in Nat,
         mmap(addr, len, RW, size), phase = "user", UNCHANGED <<memVars, own>>,
         Growth(len) <= MmapStep, calls' = calls + 1, calls' \in 0 .. MaxCalls,
         addr # NULL => Lower(PagesFor(addr, len))
  PROVE  PlacesInv'
<1>1. PICK at \in Nat : /\ at = IF addr = NULL THEN addre ELSE addr
                        /\ pending' = [addr |-> at, len |-> len, prot |-> RW, size |-> size]
                        /\ todo' = ForPages("map", FirstPage(at), PageCount(at, len), RW)
                        /\ phase' = "mmap" /\ named' = (named \/ addr # NULL)
                        /\ addre' = IF addr = NULL THEN addre + Growth(len) ELSE addre
  BY DEF mmap, LoaderInv, ProcInv, OwnTypeOK
<1>2. /\ pending'.addr = at /\ pending'.len = len /\ entries' = entries
      /\ ProcInv /\ AddreBelow /\ MmapPlaces
  BY <1>1 DEF memVars, LoaderInv, PlacesInv
<1>3. RunsDry'
  BY DEF memVars, PlacesInv, RunsDry
<1>4. PagesFor(pending.addr, pending.len)' = PagesFor(at, len)
  BY <1>2 DEF PagesFor, FirstPage
<1>5. CASE addr # NULL
  <2>1. AddreBelow'
    BY <1>1, <1>2, <1>5, AddreStays
  <2>2. named' = TRUE
    BY <1>1, <1>5 DEF LoaderInv, ProcInv, OwnTypeOK
  <2>3. Lower(PagesFor(pending.addr, pending.len))'
    BY <1>1, <1>4, <1>5 DEF Lower, PageAddr
  <2> QED  BY <1>1, <1>3, <2>1, <2>2, <2>3 DEF PlacesInv, MmapPlaces, Fresh
<1>6. CASE addr = NULL
  <2>0. at = addre /\ addre' = addre + Growth(len) /\ named' = named
    BY <1>1, <1>6 DEF LoaderInv, ProcInv, OwnTypeOK
  <2>1. /\ AddreBelow' /\ addre' \in Nat
        /\ FirstPage(MmapBase) <= FirstPage(addre)
        /\ FirstPage(addre + len) < FirstPage(addre')
        /\ PagesFor(addre, len) \subseteq MmapPages
        /\ PagesFor(addre, len) \subseteq Nat
    BY <1>2, <2>0, AddreMoves
  <2>2. Picked(pending)'
    BY <1>2, <2>0, <2>1 DEF Picked, FirstPage
  <2>3. Lower(PagesFor(pending.addr, pending.len))'
    BY <1>4, <2>0, <2>1, LowerAssumption DEF Lower, PageAddr
  <2>4. ASSUME NEW o \in own, ~named PROVE Picked(o)'
    <3>1. Picked(o) /\ o.addr \in Nat /\ o.len \in Nat
      BY <1>2, <2>4 DEF MmapPlaces, LoaderInv, ImageInv, OwnReady
    <3>2. FirstPage(addre) <= FirstPage(addre + len)
      BY <1>2, <2>0, Constants, DivGrows DEF FirstPage
    <3>3. /\ FirstPage(o.addr + o.len) \in Nat /\ FirstPage(addre) \in Nat
          /\ FirstPage(addre + len) \in Nat /\ FirstPage(addre') \in Nat
      <4>1. o.addr + o.len \in Nat /\ addre + len \in Nat /\ addre \in Nat
        BY <1>2, <3>1, SMTT(30) DEF ProcInv, OwnTypeOK
      <4> QED  BY <2>1, <4>1, PageRange
    <3>4. FirstPage(o.addr + o.len) < FirstPage(addre')
      BY <2>1, <3>1, <3>2, <3>3 DEF Picked
    <3> QED  BY <3>1, <3>4 DEF Picked, FirstPage
  <2>5. MmapPlaces'
    BY <1>1, <2>0, <2>2, <2>3, <2>4 DEF MmapPlaces
  <2>6. ASSUME ~named, NEW n \in PagesFor(at, len) PROVE Space(n)' = {}
    <3>1. n \in MmapPages /\ n \in Nat /\ FirstPage(addre) <= n
      BY <2>0, <2>1, <2>6 DEF PagesFor
    <3>2. Space(n) = {}
      BY <1>2, <2>6, <3>1, PickedUnmapped
    <3> QED  BY <1>2, <3>2, SpaceKept
  <2>7. ForMaps(todo', PagesFor(at, len), RW)
    <3>1. FirstPage(at) \in Nat /\ PageCount(at, len) \in Nat
      BY PageRange
    <3>2. PagesFor(at, len) = FirstPage(at) .. FirstPage(at) + PageCount(at, len) - 1
      BY LoopRange
    <3>3. ForMaps(ForPages("map", FirstPage(at), PageCount(at, len), RW),
                  FirstPage(at) .. FirstPage(at) + PageCount(at, len) - 1, RW)
      BY <3>1, Constants, LoopMaps
    <3> QED  BY <1>1, <3>2, <3>3
  <2>8. Fresh'
    <3> SUFFICES ASSUME ~named, NEW j \in DOMAIN todo', NEW q, q = todo'[j].page
                 PROVE  /\ todo'[j].op = "map" =>
                             /\ Space(q)' = {}
                             /\ \A k \in DOMAIN todo' : j < k /\ todo'[k].op = "map" =>
                                  PageAddr(todo'[k].page) # PageAddr(q)
                        /\ todo'[j].op = "protect" => Waits("map", q)'
      BY <1>1, <2>0 DEF Fresh, Space, Pages, PageAddr, Waits
    <3>1. q \in PagesFor(at, len) /\ todo'[j].op = "map"
      BY <2>7 DEF ForMaps
    <3>2. Distinct(PagesFor(at, len))
      BY <2>0, <2>1, ApartAssumption DEF Distinct
    <3>3. ASSUME NEW k \in DOMAIN todo', j < k
          PROVE  PageAddr(todo'[k].page) # PageAddr(q)
      BY <2>7, <3>2, <3>3 DEF ForMaps, Distinct
    <3> QED  BY <2>6, <3>1, <3>3
  <2> QED  BY <1>3, <2>1, <2>5, <2>8 DEF PlacesInv
<1> QED  BY <1>5, <1>6

LEMMA PlacesInvStep == LoaderInv /\ PlacesInv /\ [ProcNext]_procVars => PlacesInv'
<1> SUFFICES ASSUME LoaderInv, PlacesInv, [ProcNext]_procVars PROVE PlacesInv'
  OBVIOUS
<1>0. ProcInv /\ MmapPlaces /\ calls \in 0 .. MaxCalls
  BY DEF LoaderInv, PlacesInv, ProcInv, OwnTypeOK
<1>1. CASE RunCall
  BY <1>1, CallKeepsPlaces
<1>2. ASSUME NEW p, run_program(p), UNCHANGED <<freelist, wild>>, calls' \in {calls, calls + 1}
      PROVE  PlacesInv'
  <2>1. todo' = <<>> /\ addre' = addre /\ phase' = "load"
    BY <1>2 DEF run_program
  <2>2. MmapPlaces'
    BY <2>1 DEF MmapPlaces
  <2> QED  BY <1>0, <1>2, <2>1, <2>2, QuietKeepsPlaces
<1>3. ASSUME UNCHANGED <<memVars, addre, pending, own, named>>, calls' \in {calls, calls + 1},
             \/ phase' \in {"user", "dead"} /\ phase = "user"
             \/ UNCHANGED <<phase, todo>>
      PROVE  PlacesInv'
  <2>1. MmapPlaces'
    BY <1>0, <1>3 DEF MmapPlaces, Picked, Lower, PagesFor, FirstPage, PageAddr
  <2>2. UNCHANGED <<freelist, wild, addre, entries>>
    BY <1>3 DEF memVars
  <2> QED  BY <1>0, <1>3, <2>1, <2>2, QuietKeepsPlaces
<1>4. CASE KernelTurn
  <2>1. CASE StartInit
    BY <1>2, <2>1 DEF StartInit, memVars
  <2>2. CASE MapStack
    <3>1. /\ phase' = "stack" /\ UNCHANGED <<freelist, wild, addre, calls>>
      BY <2>2 DEF MapStack, memVars
    <3>2. MmapPlaces'
      BY <3>1 DEF MmapPlaces
    <3> QED  BY <1>0, <3>1, <3>2, QuietKeepsPlaces
  <2>3. CASE usermode_entry
    <3>1. /\ phase = "stack" /\ phase' = "user" /\ own' = own
          /\ UNCHANGED <<freelist, wild, addre, calls>>
      BY <2>3 DEF usermode_entry, memVars
    <3>2. own' = {}
      BY <3>1 DEF LoaderInv, ImageInv, Bare
    <3>3. MmapPlaces'
      BY <3>1, <3>2 DEF MmapPlaces
    <3> QED  BY <1>0, <3>1, <3>3, QuietKeepsPlaces
  <2>4. CASE MmapReturns
    <3>1. /\ phase = "mmap" /\ phase' = "user" /\ own' = own \cup {pending}
          /\ UNCHANGED <<freelist, wild, addre, named, calls>>
      BY <2>4 DEF MmapReturns, memVars
    <3>2. MmapPlaces'
      BY <1>0, <3>1 DEF MmapPlaces, Picked, FirstPage
    <3> QED  BY <1>0, <3>1, <3>2, QuietKeepsPlaces
  <2> QED  BY <1>4, <2>1, <2>2, <2>3, <2>4, LoadKeepsPlaces DEF KernelTurn
<1>5. CASE ProgramStep
  <2>0. UserCalls => /\ phase = "user" /\ calls' = calls + 1 /\ calls' \in 0 .. MaxCalls
                     /\ calls' \in {calls, calls + 1}
    BY <1>0, Constants DEF UserCalls
  <2>1. ASSUME NEW file, sys_exec(file) PROVE PlacesInv'
    <3>1. CASE file \in Program
      <4>1. unmap_lower_half /\ run_program(file) /\ UserCalls
        BY <2>1, <3>1 DEF sys_exec
      <4>2. freelist' = freelist /\ wild' = wild
        BY <4>1, UnmapFreesNothing DEF unmap_lower_half, LoaderInv, MemInv, MemTypeOK
      <4> QED  BY <1>2, <2>0, <4>1, <4>2
    <3>2. CASE file \notin Program
      BY <1>3, <2>0, <2>1, <3>2 DEF sys_exec
    <3> QED  BY <3>1, <3>2
  <2>2. ASSUME NEW r \in Requests, sys_mmap(r[1], r[2], RW) PROVE PlacesInv'
    <3>1. r[1] \in Nat /\ r[2] \in Nat
      BY Constants
    <3>2. mmap(r[1], r[2], RW, 0) /\ UserCalls /\ UNCHANGED <<memVars, own>>
      BY <2>2 DEF sys_mmap
    <3>3. Growth(r[2]) <= MmapStep /\ (r[1] # NULL => Lower(PagesFor(r[1], r[2])))
      BY StepAssumption, LowerAssumption
    <3> QED  BY <2>0, <3>1, <3>2, <3>3, MmapKeepsPlaces
  <2>3. ASSUME NEW sz \in Sizes, malloc(sz) PROVE PlacesInv'
    <3> DEFINE size == ROUND_UP(sz, Grain)
               len == ROUND_UP(size, PAGE_SIZE)
    <3>1. sz \in Nat /\ size \in Nat /\ len \in Nat /\ UserCalls /\ Growth(len) <= MmapStep
      BY <2>3, Constants, RoundUp, StepAssumption DEF malloc
    <3>2. CASE NeedsMore(size)
      <4>1. mmap(NULL, len, RW, size) /\ UNCHANGED <<memVars, own>>
        BY <2>3, <3>2 DEF malloc
      <4> HIDE DEF size, len
      <4> QED  BY <2>0, <3>1, <4>1, MmapKeepsPlaces DEF NULL
    <3>3. CASE ~NeedsMore(size)
      BY <1>3, <2>0, <2>3, <3>1, <3>3 DEF malloc
    <3> QED  BY <3>2, <3>3
  <2>4. CASE sys_write
    BY <1>3, <2>0, <2>4 DEF sys_write
  <2> QED  BY <1>5, <2>1, <2>2, <2>3, <2>4 DEF ProgramStep, sys_exit
<1>6. CASE UNCHANGED procVars
  BY <1>3, <1>6 DEF procVars
<1> QED  BY <1>1, <1>4, <1>5, <1>6 DEF ProcNext

-----------------------------------------------------------------------------
(* The theorems. *)

THEOREM ProcInvariant == ProcSpec => []ProcInv
BY ProcInvInit, ProcInvStep, PTL DEF ProcSpec

\* The loader, mmap and exec (elf.c:24-62, posix.c:77-158) implement Memory: whatever
\* programs do, memory sees vm_map, vm_protect and unmap_lower_half on addresses
\* and protections it knows.
THEOREM ProcessUsesMemory == ProcSpec => UsesMemory
<1>1. ProcInit => MemInit
  BY DEF ProcInit
<1> QED  BY <1>1, ProcInvariant, StepUsesMemory, PTL DEF ProcSpec, UsesMemory, MemSpec

\* Every variable of Process, and of Memory under it, keeps its type.
THEOREM ProcTypeCorrect == ProcSpec => []ProcTypeOK
<1>1. ProcInv /\ MemTypeOK => ProcTypeOK
  BY DEF ProcInv, OwnTypeOK, ProcTypeOK, Headers, Calls
<1> QED  BY <1>1, ProcInvariant, ProcessUsesMemory, MemTypeCorrect, PTL DEF UsesMemory

\* No page frame has two uses, over any number of programs loaded, mappings made
\* and calls that fail (mem.c:178-291 under elf.c and posix.c).
THEOREM FramesNeverSharedByPrograms == ProcSpec => []FramesExclusive
BY ProcessUsesMemory, FramesNeverShared, PTL DEF UsesMemory

\* What is true of the loader, of memory and of the heap between any two steps.
THEOREM LoaderInvariant == ProcSpec => [](LoaderInv /\ HeapInv)
<1>1. ProcInit => LoaderInv /\ HeapInv
  <2>1. ProcInit => MemInv
    BY MemInvInit DEF ProcInit
  <2> QED  BY <2>1, ProcInvInit, ImageInvInit, HeapInvInit DEF LoaderInv
<1>2. LoaderInv /\ HeapInv /\ [ProcNext]_procVars => LoaderInv' /\ HeapInv'
  <2> SUFFICES ASSUME LoaderInv, HeapInv, [ProcNext]_procVars PROVE LoaderInv' /\ HeapInv'
    OBVIOUS
  <2>1. ProcInv'
    BY ProcInvStep DEF LoaderInv
  <2>2. MemInv'
    BY StepUsesMemory, MemInvStep DEF LoaderInv
  <2>3. ImageInv' /\ HeapInv'
    BY ImageInvStep, HeapInvStep
  <2> QED  BY <2>1, <2>2, <2>3 DEF LoaderInv
<1> QED  BY <1>1, <1>2, PTL DEF ProcSpec

\* A program that runs finds its segments mapped and protected as its headers
\* say, its stack if memory sufficed, what mmap gave it, and nothing else in the
\* lower half (elf.c:25-62, posix.c:109), whatever ran before it and whatever the
\* page a segment has too many runs into.
THEOREM ImageComplete == ProcSpec => []ProgramFindsItsImage
<1>1. ASSUME LoaderInv, phase = "user" PROVE ProgramFindsItsImage
  <2>1. /\ ProcInv /\ Progress /\ SegmentsReady /\ StackReady /\ OwnReady /\ NothingElse
        /\ phase \in Running
    BY <1>1 DEF LoaderInv, ImageInv, Running
  <2>2. Handled = Len(Segments[program]) /\ DOMAIN Segments[program] = 1 .. Handled
    <3>1. segs = <<>> /\ Len(segs) = 0
      BY <1>1, <2>1 DEF Progress
    <3>2. Segments[program] \in Seq(Headers) /\ Len(Segments[program]) \in Nat
      <4>1. program \in Program
        BY <2>1 DEF ProcInv, OwnTypeOK
      <4> QED  BY <4>1, Constants, LenProperties
    <3> QED  BY <3>1, <3>2, LenProperties DEF Handled
  <2>3. ASSUME NEW s \in Loaded(program), NEW b \in s.vaddr .. s.vaddr + s.memsz - 1
        PROVE  Space(FirstPage(b)) = {s.prot}
    <3>1. PICK i \in 1 .. Handled : s = Seg(i) /\ InMemory(s)
      BY <2>2, <2>3 DEF Loaded, Seg
    <3>2. s \in Headers
      BY <2>1, <3>1, SegType
    <3>3. s.vaddr \in Nat /\ s.memsz \in Nat
      BY <3>2 DEF Headers
    <3>4. FirstPage(b) \in SegPages(i)
      BY <2>3, <3>1, <3>3, ByteOnPage DEF SegPages
    <3> QED  BY <1>1, <2>1, <3>1, <3>4 DEF SegmentsReady
  <2>4. freelist # <<>> => \A n \in Stack : Space(n) = {RW}
    BY <1>1, <2>1 DEF StackReady
  <2>5. ASSUME NEW o \in own, NEW b \in o.addr .. o.addr + o.len - 1
        PROVE  Space(FirstPage(b)) = {o.prot}
    <3>1. o.addr \in Nat /\ o.len \in Nat
      BY <2>1 DEF OwnReady
    <3>2. FirstPage(b) \in PagesFor(o.addr, o.len)
      BY <3>1, ByteOnPage
    <3> QED  BY <1>1, <2>1, <3>2 DEF OwnReady
  <2>6. ASSUME NEW n \in LowerPages, Space(n) # {}
        PROVE  \E m \in UNION ({PagesFor(s.vaddr, s.memsz) : s \in Loaded(program)}
                              \cup {PagesFor(o.addr, o.len) : o \in own} \cup {Stack}) :
                 PageAddr(m) = PageAddr(n)
    <3>1. n \in Nat /\ PageAddr(n)[1] \in LowerHalf
      BY DEF LowerPages
    <3>2. PageAddr(n) \in Addresses /\ Pages(PageAddr(n)) # {}
      BY <2>6, <3>1, PageAddrType, SpaceFromPages
    <3>3. Source(PageAddr(n))
      BY <2>1, <3>1, <3>2 DEF NothingElse
    <3>4. ASSUME NEW i \in 1 .. Handled, InMemory(Seg(i))
          PROVE  SegPages(i) \in {PagesFor(s.vaddr, s.memsz) : s \in Loaded(program)}
      <4>1. Seg(i) \in Loaded(program)
        BY <2>2, <3>4 DEF Loaded, Seg
      <4> QED  BY <4>1 DEF SegPages
    <3> QED  BY <1>1, <3>3, <3>4 DEF Source
  <2> QED  BY <2>3, <2>4, <2>5, <2>6 DEF ProgramFindsItsImage
<1>2. LoaderInv => ProgramFindsItsImage
  BY <1>1 DEF ProgramFindsItsImage
<1> QED  BY <1>2, LoaderInvariant, PTL

\* malloc never returns memory it has already returned to the same program
\* (string.c:372-396), whatever sizes it is asked for and whatever the program
\* asks of mmap in between.
THEOREM BlocksNeverOverlap == ProcSpec => []BlocksApart
<1>1. ProcInv => BlocksApart
  BY DEF ProcInv, Regions
<1> QED  BY <1>1, ProcInvariant, PTL

\* The blocks malloc returns are also aligned, and every byte of theirs lies on a
\* page the program can write, as long as the program lives (string.c:372-396).
THEOREM BlocksAreUsable == ProcSpec => []BlocksUsable
<1>1. LoaderInv /\ HeapInv => BlocksUsable
  <2> SUFFICES ASSUME LoaderInv, HeapInv PROVE BlocksUsable
    OBVIOUS
  <2>1. BlocksApart
    BY DEF LoaderInv, ProcInv, Regions
  <2>2. \A b \in blocks : b.at % Grain = 0
    BY Multiples DEF HeapInv
  <2> QED  BY <2>1, <2>2 DEF BlocksUsable, HeapInv, Writable
<1> QED  BY <1>1, LoaderInvariant, PTL

\* Nor what is true of where things are.
THEOREM PlacesInvariant == ProcSpec => []PlacesInv
BY LoaderInvariant, PlacesInvInit, PlacesInvStep, PTL DEF ProcSpec

\* What the kernel chooses itself, the pages of the cursor, of the loader and of
\* mmap (mouse.c:218, elf.c:34-58, posix.c:91-103), never collides with what is
\* mapped, exec after exec: it dies of the end of memory, of a program that prints
\* or after a program has given mmap an address.
THEOREM DiesOfCauseOnly == ProcSpec => DiesOnlyOfCause
<1> DEFINE Cause == phase' = "dead" /\ phase # "dead" =>
                      \/ freelist' = <<>>
                      \/ phase = "user"
                      \/ phase = "mmap" /\ named
<1>1. LoaderInv /\ PlacesInv /\ [ProcNext]_procVars => Cause
  <2> SUFFICES ASSUME LoaderInv, PlacesInv, [ProcNext]_procVars,
                      phase' = "dead", phase # "dead", phase # "user"
               PROVE  RunCall
    BY CallFailsDry
  <2>1. ~KernelTurn
    BY DEF KernelTurn, StartInit, run_program, LoadSegment, MapStack, usermode_entry, MmapReturns
  <2>2. ~ProgramStep
    BY DEF ProgramStep, sys_exit, sys_exec, sys_mmap, malloc, sys_write, UserCalls
  <2>3. phase' = phase => FALSE
    OBVIOUS
  <2> QED  BY <2>1, <2>2, <2>3 DEF ProcNext, procVars
<1> QED  BY <1>1, LoaderInvariant, PlacesInvariant, PTL DEF ProcSpec, DiesOnlyOfCause

\* The page a call of a loop is about is in the lower half, once the kernel has
\* been booted.
LEMMA CallsAreLow ==
  ASSUME LoaderInv, PlacesInv, phase \in {"load", "stack", "mmap"}, NEW j \in DOMAIN todo
  PROVE  PageAddr(todo[j].page)[1] \in LowerHalf
<1>1. ProcInv /\ Progress /\ CallsRight /\ MmapPlaces /\ program \in Program
  BY DEF LoaderInv, ImageInv, ProcInv, OwnTypeOK, PlacesInv
<1>2. CASE phase = "load"
  <2>1. Handled >= 1 /\ InMemory(Seg(Handled)) /\ todo[j].page \in SegPages(Handled)
    BY <1>1, <1>2 DEF CallsRight
  <2>2. Handled \in DOMAIN Segments[program]
    BY <1>1, <1>2, <2>1, SegType DEF Running
  <2> QED  BY <1>1, <2>1, <2>2, LowerAssumption DEF Lower, Seg, SegPages
<1>3. CASE phase = "stack"
  BY <1>1, <1>3, HalvesAssumption DEF CallsRight
<1>4. CASE phase = "mmap"
  BY <1>1, <1>4 DEF CallsRight, MmapPlaces, Lower
<1> QED  BY <1>2, <1>3, <1>4

\* The kernel's half of the address space stays as it was when the kernel had
\* been booted, whatever programs do and whatever fails (mem.c:404-425, elf.c,
\* posix.c:77-158).
THEOREM KernelHalfUntouched == ProcSpec => KernelHalfKept
<1> DEFINE Kept == phase # "boot" =>
                     \A a \in Addresses : a[1] \notin LowerHalf => Pages(a)' = Pages(a)
<1>1. LoaderInv /\ PlacesInv /\ [ProcNext]_procVars => Kept
  <2> SUFFICES ASSUME LoaderInv, PlacesInv, [ProcNext]_procVars, phase # "boot",
                      NEW a \in Addresses, a[1] \notin LowerHalf
               PROVE  Pages(a)' = Pages(a)
    OBVIOUS
  <2>1. CASE entries' = entries
    BY <2>1, SpaceKept
  <2>2. CASE RunCall
    <3>0. PICK call : call = Head(todo)
      OBVIOUS
    <3>1. /\ call = todo[1] /\ 1 \in DOMAIN todo
          /\ call.page \in Nat /\ call.prot \in Prots
          /\ call.op \in {"map", "protect"}
          /\ call.op = "map" => vm_map(PageAddr(call.page), call.prot)
          /\ call.op = "protect" => vm_protect(PageAddr(call.page), call.prot)
      BY <2>2, <3>0, CallMade DEF Calls
    <3>2. phase \in {"load", "stack", "mmap"}
      BY <2>2 DEF RunCall
    <3>3. a # PageAddr(call.page)
      BY <3>1, <3>2, CallsAreLow
    <3> QED  BY <3>1, <3>3, MapSpace, ProtectSpace DEF LoaderInv
  <2>3. CASE KernelTurn
    BY <2>1, <2>3 DEF KernelTurn, StartInit, LoadSegment, MapStack, usermode_entry,
                      MmapReturns, memVars
  <2>4. CASE ProgramStep
    <3>1. ASSUME NEW file, sys_exec(file) PROVE Pages(a)' = Pages(a)
      BY <2>1, <3>1, UnmapPages DEF sys_exec, memVars, LoaderInv
    <3>2. sys_write \/ (\E r \in Requests : sys_mmap(r[1], r[2], RW))
            \/ (\E sz \in Sizes : malloc(sz)) => entries' = entries
      BY DEF sys_write, sys_mmap, malloc, memVars
    <3> QED  BY <2>1, <2>4, <3>1, <3>2 DEF ProgramStep, sys_exit
  <2> QED  BY <2>1, <2>2, <2>3, <2>4 DEF ProcNext, procVars, memVars
<1> QED  BY <1>1, LoaderInvariant, PlacesInvariant, PTL DEF ProcSpec, KernelHalfKept
=============================================================================
