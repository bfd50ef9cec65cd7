------------------------------- MODULE Memory --------------------------------
(***************************************************************************)
(* kernel/mem.c: the list of free page frames, the four-level page tables  *)
(* of the one address space, and the translations the processor caches.    *)
(*                                                                         *)
(* The contents of the page tables are a set of entries, one for each      *)
(* entry that is present; a page of zeroes has none.  The mappings the     *)
(* bootloader leaves behind (the kernel, the direct map) are external and  *)
(* left out.                                                               *)
(***************************************************************************)
EXTENDS Integers, FiniteSets, Sequences

CONSTANTS Usable,      \* the usable page frames, as freelist_init lists them
          Root,        \* the frame of the level 4 table, in CR3
          Index,       \* the indices used in a table
          LowerHalf,   \* those of the lower half in the level 4 table
          Addresses,   \* the page addresses used: four indices, level 4 first
          Prots,       \* protections of a page
          Full         \* the protection of an entry for a table

Frames == {Usable[i] : i \in DOMAIN Usable}

NoRepeat(list) == \A i, j \in DOMAIN list : list[i] = list[j] => i = j

ASSUME UsableAssumption == Usable \in Seq(Frames) /\ NoRepeat(Usable)
ASSUME RootAssumption == Root \notin Frames
ASSUME AddressAssumption == Addresses \subseteq [1 .. 4 -> Index]

VARIABLES freelist,    \* the frames in the list, its head first
          wild,        \* does freelist hold a value that is not a frame?
          entries,     \* the entries present in the page tables
          tlb,         \* the translations the processor has cached
          result,      \* what the last call returned
          astray       \* has the kernel followed a wild freelist? (the model stops)

memVars == <<freelist, wild, entries, tlb, result, astray>>

Entry == [table : Frames \cup {Root}, index : Index, frame : Frames,
          prot : Prots \cup {Full}]

\* freelist_init puts every usable frame on the list.
MemInit == /\ freelist = Usable /\ wild = FALSE
           /\ entries = {} /\ tlb = {}
           /\ result = TRUE /\ astray = FALSE

-----------------------------------------------------------------------------
(* Walking the tables. *)

Present(t, i) == \E e \in entries : e.table = t /\ e.index = i
EntryAt(t, i) == CHOOSE e \in entries : e.table = t /\ e.index = i

\* How far the walk for address a comes: the number of entries present on its
\* path, and the last table it reaches.
Walk(a) ==
  LET t3 == EntryAt(Root, a[1]).frame
      t2 == EntryAt(t3, a[2]).frame
      t1 == EntryAt(t2, a[3]).frame
  IN  IF ~Present(Root, a[1]) THEN [depth |-> 0, table |-> Root]
      ELSE IF ~Present(t3, a[2]) THEN [depth |-> 1, table |-> t3]
      ELSE IF ~Present(t2, a[3]) THEN [depth |-> 2, table |-> t2]
      ELSE IF ~Present(t1, a[4]) THEN [depth |-> 3, table |-> t1]
      ELSE [depth |-> 4, table |-> t1]

Mapped(a) == Walk(a).depth = 4

\* What the processor's own walk finds for address a, none when a is not mapped
\* (external): the frame and the protection in the last of four entries.
Pages(a) ==
  {[frame |-> e1.frame, prot |-> e1.prot] : e1 \in {e1 \in entries :
     /\ e1.index = a[4]
     /\ \E e2 \in entries : e2.frame = e1.table /\ e2.index = a[3] /\
        \E e3 \in entries : e3.frame = e2.table /\ e3.index = a[2] /\
        \E e4 \in entries : e4.frame = e3.table /\ e4.index = a[1] /\ e4.table = Root}}

\* The processor uses address a and caches its translation (external).
Access(a) == /\ ~astray
             /\ \E page \in Pages(a) : tlb' = tlb \cup {[addr |-> a, page |-> page]}
             /\ UNCHANGED <<freelist, wild, entries, result, astray>>

\* The cached translations after invlpg for address a.
Invalidated_Nothing(a) == tlb
Invalidated(a) == {x \in tlb : x.addr # a}

-----------------------------------------------------------------------------
(* Physical memory. *)

Physical(f) == [frame |-> f, offset |-> 0]

Free == {freelist[i] : i \in DOMAIN freelist}

Least(m, n) == IF m < n THEN m ELSE n

\* The frames pmem_free puts on the list for address p: none when p is a
\* multiple of the page size; otherwise the frame, unless it is on it already.
pmem_free(p) == IF p.offset = 0 THEN {} ELSE {p.frame} \ Free

\* The lists that some order of the frames of S makes.
ListsOf(S) == {list \in [1 .. Cardinality(S) -> S] : NoRepeat(list)}

\* The list after n calls of pmem_alloc, which takes the head.
pmem_alloc_LeavesLast(n) == SubSeq(freelist, Least(n + 1, Len(freelist)), Len(freelist))
pmem_alloc(n) == SubSeq(freelist, n + 1, Len(freelist))

\* pmem_alloc never finds its pointer NULL.  When the list is too short it
\* returns 0, its failure, but leaves in freelist what lies at physical address
\* 8, which may be 0 or not, and the next call follows that.
AfterAlloc(n, wanted) == IF n = wanted THEN {FALSE} ELSE BOOLEAN

-----------------------------------------------------------------------------
(* The operations on the address space. *)

\* malloc_page for the first n entries missing on the path of a, from the
\* table where the walk w stopped: the frames pmem_alloc gives are filled with
\* zeroes, and each but the last is the table of the next entry.
Chain(w, a, p, n) ==
  {[table |-> IF k = 1 THEN w.table ELSE freelist[k - 1],
    index |-> a[w.depth + k],
    frame |-> freelist[k],
    prot |-> IF w.depth + k = 4 THEN p ELSE Full] : k \in 1 .. n}

Zeroed(n) == {e \in entries : \A k \in 1 .. n : e.table # freelist[k]}

Extended_Unchecked(w, a, p, n) ==
  Zeroed(n) \cup Chain(w, a, p, n) \cup
    IF w.depth + n = 4 THEN {}
    ELSE {[table |-> IF n = 0 THEN w.table ELSE freelist[n],
           index |-> a[w.depth + n + 1], frame |-> 0, prot |-> Full]}
Extended_AllFull(w, a, p, n) == Zeroed(n) \cup Chain(w, a, Full, n)
Extended(w, a, p, n) == Zeroed(n) \cup Chain(w, a, p, n)

\* vm_map for an address that is mapped, with a list that is wild, and with a
\* list that is not: it adds the missing entries as far as the list goes.
Missing(a) == 4 - Walk(a).depth

MapRefused(a) == /\ Missing(a) = 0
                 /\ result' = FALSE
                 /\ UNCHANGED <<freelist, wild, entries, tlb, astray>>

MapAstray(a) == /\ Missing(a) > 0 /\ wild
                /\ astray' = TRUE
                /\ UNCHANGED <<freelist, wild, entries, tlb, result>>

MapAdds(a, p) ==
  LET missing == Missing(a)
      n == Least(missing, Len(freelist))
  IN  /\ missing > 0 /\ ~wild
      /\ freelist' = pmem_alloc(n)
      /\ entries' = Extended(Walk(a), a, p, n)
      /\ wild' \in AfterAlloc(n, missing)
      /\ tlb' = IF n = missing THEN Invalidated(a) ELSE tlb
      /\ result' = (n = missing)
      /\ UNCHANGED astray

vm_map(a, p) == ~astray /\ (MapRefused(a) \/ MapAstray(a) \/ MapAdds(a, p))

vm_protect(a, p) ==
  /\ ~astray
  /\ result' = Mapped(a)
  /\ IF Mapped(a)
     THEN LET e == EntryAt(Walk(a).table, a[4])
          IN  /\ entries' = (entries \ {e}) \cup {[e EXCEPT !.prot = p]}
              /\ tlb' = Invalidated(a)
     ELSE UNCHANGED <<entries, tlb>>
  /\ UNCHANGED <<freelist, wild, astray>>

\* The frames of the tables of the lower half, level 3 to level 1.
FramesIn(tables) == {e.frame : e \in {x \in entries : x.table \in tables}}
LowerEntries_WholeTable == {e \in entries : e.table = Root}
LowerEntries == {e \in entries : e.table = Root /\ e.index \in LowerHalf}
LowerTables ==
  LET l3 == {e.frame : e \in LowerEntries}
      l2 == FramesIn(l3)
  IN  l3 \cup l2 \cup FramesIn(l2)

unmap_lower_half ==
  /\ ~astray
  /\ entries' = entries \ LowerEntries
  /\ \E list \in ListsOf(UNION {pmem_free(Physical(f)) : f \in LowerTables}) :
       freelist' = list \o freelist
  /\ tlb' = {}
  /\ UNCHANGED <<wild, result, astray>>

MemNext == \/ \E a \in Addresses, p \in Prots : vm_map(a, p) \/ vm_protect(a, p)
           \/ unmap_lower_half
           \/ \E a \in Addresses : Access(a)

MemSpec == MemInit /\ [][MemNext]_memVars

-----------------------------------------------------------------------------
(* What holds. *)

MemTypeOK ==
  /\ freelist \in Seq(Frames) /\ wild \in BOOLEAN /\ astray \in BOOLEAN
  /\ entries \subseteq Entry
  /\ tlb \subseteq [addr : Addresses, page : [frame : Frames, prot : Prots \cup {Full}]]

\* The tables a walk from the root can reach.
Reachable ==
  LET l3 == FramesIn({Root})
      l2 == FramesIn(l3)
  IN  {Root} \cup l3 \cup l2 \cup FramesIn(l2)
Live == {e \in entries : e.table \in Reachable}

\* No frame has two uses.  What an entry within reach of a walk points to is not
\* free, no other such entry points to it, and its table is not free: no page
\* is mapped at two addresses, none is also a page table, and none is handed
\* out again (pmem_alloc and pmem_free under vm_map and unmap_lower_half).
FramesExclusive ==
  /\ NoRepeat(freelist)
  /\ \A e \in Live :
       /\ {e.frame, e.table} \cap Free = {}
       /\ \A g \in Live : g.frame = e.frame => g = e

\* A table has one entry for an index (used by the proofs).
OneEntryPerIndex ==
  \A e, g \in entries : e.table = g.table /\ e.index = g.index => e = g

\* What the processor has cached is what the tables say: every operation that
\* changes or removes a translation also flushes it.
TlbCoherent ==
  \A x \in tlb : Pages(x.addr) = {x.page}

\* A call changes the translation of its own address only; unmapping changes
\* those of the lower half only.  A call that returns false changes none,
\* even when it has added tables before it ran out of frames.
OnlyTargetChanges ==
  [][\A a \in Addresses :
       Pages(a)' # Pages(a) =>
         \/ result' /\ \E p \in Prots : vm_map(a, p) \/ vm_protect(a, p)
         \/ unmap_lower_half /\ a[1] \in LowerHalf]_memVars

\* A call of vm_map that returns true maps a frame that was free, with the
\* protection that was asked for.
MapsFreshPage ==
  [][\A a \in Addresses, p \in Prots :
       freelist' # freelist /\ result' /\ vm_map(a, p) =>
         \E f \in Free : Pages(a)' = {[frame |-> f, prot |-> p]}]_memVars

\* mem.c:416 "We can reclaim memory used to hold page tables": a frame that
\* holds a table no walk can reach is free.
TablesReclaimed == \A e \in entries : e.table \in Reachable \cup Free

\* mem.h "returns the physical address of the allocated physical memory or 0
\* on error": running out of frames is an error a caller can be told about.
AllocationFailsCleanly == ~astray
=============================================================================
