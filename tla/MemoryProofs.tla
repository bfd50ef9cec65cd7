----------------------------- MODULE MemoryProofs ----------------------------
(***************************************************************************)
(* Proofs about Memory, for every memory, every set of addresses and every *)
(* number of calls: its type invariant; that no page frame has two uses;   *)
(* that a call changes no translation but the one it is about; that what   *)
(* vm_map maps is a fresh page; and that cached translations agree with    *)
(* the tables.                                                             *)
(*                                                                         *)
(* FramesExclusive speaks of the tables within reach of a walk only.  It is *)
(* not inductive: a table cut off by unmap_lower_half keeps its entries,   *)
(* and what keeps them harmless is that nothing puts their frames on the   *)
(* list again.  MemInv says of all entries what FramesExclusive says of    *)
(* those within reach.  What a step does to translations follows from what *)
(* it does to the path of four entries a walk takes.                       *)
(***************************************************************************)
EXTENDS Memory, FiniteSetTheorems, SequenceTheorems, TLAPS

\* All entries, within reach or not, use frames that are not free, each once.
EntriesExclusive ==
  /\ NoRepeat(freelist)
  /\ \A e \in entries : e.frame \notin Free /\ e.table \notin Free
  /\ \A e, g \in entries : e.frame = g.frame => e = g

MemInv == MemTypeOK /\ EntriesExclusive /\ OneEntryPerIndex

-----------------------------------------------------------------------------
(* Entries and walks. *)

\* EntryAt returns the entry there is.
LEMMA EntryFound ==
  ASSUME NEW t, NEW i, Present(t, i)
  PROVE  /\ EntryAt(t, i) \in entries
         /\ EntryAt(t, i).table = t /\ EntryAt(t, i).index = i
BY DEF Present, EntryAt

\* A walk ends in a table of the address space, with the next entry missing or
\* with all four found.
LEMMA WalkEnds ==
  ASSUME MemTypeOK, NEW a \in Addresses
  PROVE  /\ Walk(a).depth \in 0 .. 4
         /\ Walk(a).table \in Frames \cup {Root}
         /\ Walk(a).depth < 4 => ~Present(Walk(a).table, a[Walk(a).depth + 1])
         /\ Walk(a).depth = 4 => Present(Walk(a).table, a[4])
         /\ Walk(a).table # Root => \E e \in entries : e.frame = Walk(a).table
<1> DEFINE t3 == EntryAt(Root, a[1]).frame
           t2 == EntryAt(t3, a[2]).frame
           t1 == EntryAt(t2, a[3]).frame
<1>1. ASSUME NEW t, NEW i, Present(t, i)
      PROVE  /\ EntryAt(t, i).frame \in Frames
             /\ \E e \in entries : e.frame = EntryAt(t, i).frame
  BY <1>1, EntryFound DEF MemTypeOK, Entry
<1>2. CASE ~Present(Root, a[1])
  BY <1>2 DEF Walk
<1>3. CASE Present(Root, a[1]) /\ ~Present(t3, a[2])
  <2>1. Walk(a) = [depth |-> 1, table |-> t3]
    BY <1>3 DEF Walk
  <2> QED BY <2>1, <1>3, <1>1
<1>4. CASE Present(Root, a[1]) /\ Present(t3, a[2]) /\ ~Present(t2, a[3])
  <2>1. Walk(a) = [depth |-> 2, table |-> t2]
    BY <1>4 DEF Walk
  <2> QED BY <2>1, <1>4, <1>1
<1>5. CASE /\ Present(Root, a[1]) /\ Present(t3, a[2])
           /\ Present(t2, a[3]) /\ ~Present(t1, a[4])
  <2>1. Walk(a) = [depth |-> 3, table |-> t1]
    BY <1>5 DEF Walk
  <2> QED BY <2>1, <1>5, <1>1
<1>6. CASE /\ Present(Root, a[1]) /\ Present(t3, a[2])
           /\ Present(t2, a[3]) /\ Present(t1, a[4])
  <2>1. Walk(a) = [depth |-> 4, table |-> t1]
    BY <1>6 DEF Walk
  <2> QED BY <2>1, <1>6, <1>1
<1> QED BY <1>2, <1>3, <1>4, <1>5, <1>6

-----------------------------------------------------------------------------
(* Paths: what the processor's walk follows. *)

\* Four entries of S that lead from the root to the page at address a.
Path(S, a, e4, e3, e2, e1) ==
  /\ {e4, e3, e2, e1} \subseteq S
  /\ e4.table = Root /\ e3.table = e4.frame /\ e2.table = e3.frame /\ e1.table = e2.frame
  /\ e4.index = a[1] /\ e3.index = a[2] /\ e2.index = a[3] /\ e1.index = a[4]

PageOf(e) == [frame |-> e.frame, prot |-> e.prot]

LEMMA PagesByPath ==
  ASSUME NEW a, NEW page
  PROVE  page \in Pages(a) <=>
           \E e4, e3, e2, e1 \in entries :
             Path(entries, a, e4, e3, e2, e1) /\ page = PageOf(e1)
BY DEF Pages, Path, PageOf

LEMMA PagesByPathNext ==
  ASSUME NEW a, NEW page
  PROVE  page \in Pages(a)' <=>
           \E e4, e3, e2, e1 \in entries' :
             Path(entries', a, e4, e3, e2, e1) /\ page = PageOf(e1)
BY DEF Pages, Path, PageOf

LEMMA PathGivesPage ==
  ASSUME NEW a, NEW e4, NEW e3, NEW e2, NEW e1, Path(entries, a, e4, e3, e2, e1)
  PROVE  PageOf(e1) \in Pages(a)
BY PagesByPath DEF Path

LEMMA PathGivesPageNext ==
  ASSUME NEW a, NEW e4, NEW e3, NEW e2, NEW e1, Path(entries', a, e4, e3, e2, e1)
  PROVE  PageOf(e1) \in Pages(a)'
BY PagesByPathNext DEF Path

\* An address has one path, and so one page at most.
LEMMA OnePath ==
  ASSUME MemInv, NEW a,
         NEW e4, NEW e3, NEW e2, NEW e1, Path(entries, a, e4, e3, e2, e1),
         NEW g4, NEW g3, NEW g2, NEW g1, Path(entries, a, g4, g3, g2, g1)
  PROVE  e4 = g4 /\ e3 = g3 /\ e2 = g2 /\ e1 = g1
<1>1. e4 = g4
  BY DEF Path, MemInv, OneEntryPerIndex
<1>2. e3 = g3
  BY <1>1 DEF Path, MemInv, OneEntryPerIndex
<1>3. e2 = g2
  BY <1>2 DEF Path, MemInv, OneEntryPerIndex
<1>4. e1 = g1
  BY <1>3 DEF Path, MemInv, OneEntryPerIndex
<1> QED BY <1>1, <1>2, <1>3, <1>4

LEMMA PageUnique ==
  ASSUME MemInv, NEW a, NEW page \in Pages(a)
  PROVE  Pages(a) = {page}
BY PagesByPath, OnePath

\* An address is its four indices.
LEMMA SameAddress ==
  ASSUME NEW a \in Addresses, NEW b \in Addresses,
         a[1] = b[1], a[2] = b[2], a[3] = b[3], a[4] = b[4]
  PROVE  a = b
<1>1. a \in [1 .. 4 -> Index] /\ b \in [1 .. 4 -> Index]
  BY AddressAssumption
<1>2. \A i \in 1 .. 4 : a[i] = b[i]
  OBVIOUS
<1> QED BY <1>1, <1>2

\* A page has one path: read backwards, the entries are those whose frames are
\* the tables, and the address is what their indices say.
LEMMA OneAddress ==
  ASSUME MemInv, NEW a \in Addresses, NEW b \in Addresses, NEW e1,
         NEW e4, NEW e3, NEW e2, Path(entries, a, e4, e3, e2, e1),
         NEW g4, NEW g3, NEW g2, Path(entries, b, g4, g3, g2, e1)
  PROVE  a = b
<1>1. e2 = g2
  BY DEF Path, MemInv, EntriesExclusive
<1>2. e3 = g3
  BY <1>1 DEF Path, MemInv, EntriesExclusive
<1>3. e4 = g4
  BY <1>2 DEF Path, MemInv, EntriesExclusive
<1>4. a[1] = b[1] /\ a[2] = b[2] /\ a[3] = b[3] /\ a[4] = b[4]
  BY <1>1, <1>2, <1>3 DEF Path
<1> QED BY <1>4, SameAddress

\* The entries vm_map and vm_protect find on their way are those of a path.
LEMMA WalkPath ==
  ASSUME NEW a
  PROVE  LET w == Walk(a)
         IN  \/ w.depth = 0 /\ w.table = Root
             \/ /\ w.depth = 1
                /\ \E g4 \in entries : /\ g4.table = Root /\ g4.index = a[1]
                                       /\ w.table = g4.frame
             \/ /\ w.depth = 2
                /\ \E g4, g3 \in entries :
                     /\ g4.table = Root /\ g4.index = a[1]
                     /\ g3.table = g4.frame /\ g3.index = a[2]
                     /\ w.table = g3.frame
             \/ /\ w.depth = 3
                /\ \E g4, g3, g2 \in entries :
                     /\ g4.table = Root /\ g4.index = a[1]
                     /\ g3.table = g4.frame /\ g3.index = a[2]
                     /\ g2.table = g3.frame /\ g2.index = a[3]
                     /\ w.table = g2.frame
             \/ /\ w.depth = 4
                /\ \E g4, g3, g2 \in entries :
                     /\ Path(entries, a, g4, g3, g2, EntryAt(w.table, a[4]))
<1> DEFINE g4 == EntryAt(Root, a[1])
           g3 == EntryAt(g4.frame, a[2])
           g2 == EntryAt(g3.frame, a[3])
           g1 == EntryAt(g2.frame, a[4])
<1> HIDE DEF g4, g3, g2, g1
<1>1. Present(Root, a[1]) => g4 \in entries /\ g4.table = Root /\ g4.index = a[1]
  BY EntryFound DEF g4
<1>2. Present(g4.frame, a[2]) => g3 \in entries /\ g3.table = g4.frame /\ g3.index = a[2]
  BY EntryFound DEF g3
<1>3. Present(g3.frame, a[3]) => g2 \in entries /\ g2.table = g3.frame /\ g2.index = a[3]
  BY EntryFound DEF g2
<1>4. Present(g2.frame, a[4]) => g1 \in entries /\ g1.table = g2.frame /\ g1.index = a[4]
  BY EntryFound DEF g1
<1>5. Walk(a) = IF ~Present(Root, a[1]) THEN [depth |-> 0, table |-> Root]
                ELSE IF ~Present(g4.frame, a[2]) THEN [depth |-> 1, table |-> g4.frame]
                ELSE IF ~Present(g3.frame, a[3]) THEN [depth |-> 2, table |-> g3.frame]
                ELSE IF ~Present(g2.frame, a[4]) THEN [depth |-> 3, table |-> g2.frame]
                ELSE [depth |-> 4, table |-> g2.frame]
  BY DEF Walk, g4, g3, g2
<1>6. CASE ~Present(Root, a[1])
  BY <1>5, <1>6
<1>7. CASE Present(Root, a[1]) /\ ~Present(g4.frame, a[2])
  BY <1>1, <1>5, <1>7
<1>8. CASE Present(Root, a[1]) /\ Present(g4.frame, a[2]) /\ ~Present(g3.frame, a[3])
  BY <1>1, <1>2, <1>5, <1>8
<1>9. CASE /\ Present(Root, a[1]) /\ Present(g4.frame, a[2]) /\ Present(g3.frame, a[3])
           /\ ~Present(g2.frame, a[4])
  BY <1>1, <1>2, <1>3, <1>5, <1>9
<1>10. CASE /\ Present(Root, a[1]) /\ Present(g4.frame, a[2]) /\ Present(g3.frame, a[3])
            /\ Present(g2.frame, a[4])
  <2>1. Walk(a) = [depth |-> 4, table |-> g2.frame]
    BY <1>5, <1>10
  <2>2. Path(entries, a, g4, g3, g2, g1)
    BY <1>1, <1>2, <1>3, <1>4, <1>10 DEF Path
  <2> QED BY <2>1, <2>2, <1>1, <1>2, <1>3, <1>10 DEF g1
<1> QED BY <1>6, <1>7, <1>8, <1>9, <1>10

\* An address whose walk does not come to the end has no page.
LEMMA NoPath ==
  ASSUME MemInv, NEW a \in Addresses, Walk(a).depth # 4
  PROVE  Pages(a) = {}
<1> SUFFICES ASSUME NEW page \in Pages(a) PROVE FALSE
  OBVIOUS
<1>1. PICK e4, e3, e2, e1 \in entries : Path(entries, a, e4, e3, e2, e1)
  BY PagesByPath
<1>2. ~Present(Walk(a).table, a[Walk(a).depth + 1])
  <2>1. Walk(a).depth < 4
    BY WalkEnds DEF MemInv
  <2> QED BY <2>1, WalkEnds DEF MemInv
<1>3. /\ {e4, e3, e2, e1} \subseteq entries
      /\ e4.table = Root /\ e3.table = e4.frame /\ e2.table = e3.frame /\ e1.table = e2.frame
      /\ e4.index = a[1] /\ e3.index = a[2] /\ e2.index = a[3] /\ e1.index = a[4]
  BY <1>1 DEF Path
<1>4. \A e, g \in entries : e.table = g.table /\ e.index = g.index => e = g
  BY DEF MemInv, OneEntryPerIndex
<1>5. CASE Walk(a).depth = 0
  <2>1. Walk(a).table = Root
    BY <1>5, WalkPath
  <2> QED BY <1>2, <1>3, <1>5, <2>1 DEF Present
<1>6. CASE Walk(a).depth = 1
  <2>1. Walk(a).table = e4.frame
    BY <1>3, <1>4, <1>6, WalkPath
  <2> QED BY <1>2, <1>3, <1>6, <2>1 DEF Present
<1>7. CASE Walk(a).depth = 2
  <2>1. Walk(a).table = e3.frame
    BY <1>3, <1>4, <1>7, WalkPath
  <2> QED BY <1>2, <1>3, <1>7, <2>1 DEF Present
<1>8. CASE Walk(a).depth = 3
  <2>1. Walk(a).table = e2.frame
    BY <1>3, <1>4, <1>8, WalkPath
  <2> QED BY <1>2, <1>3, <1>8, <2>1 DEF Present
<1> QED BY <1>5, <1>6, <1>7, <1>8, WalkPath

-----------------------------------------------------------------------------
(* The list of free frames. *)

\* What pmem_alloc leaves is the list without its first n frames.
LEMMA ListAfterAlloc ==
  ASSUME freelist \in Seq(Frames), NEW n \in 0 .. Len(freelist)
  PROVE  /\ pmem_alloc(n) \in Seq(Frames)
         /\ Len(pmem_alloc(n)) = Len(freelist) - n
         /\ \A i \in 1 .. Len(freelist) - n : pmem_alloc(n)[i] = freelist[n + i]
BY SubSeqProperties DEF pmem_alloc

\* unmap_lower_half puts nothing on the list: pmem_free returns at once for
\* every multiple of the page size.
LEMMA UnmapFreesNothing ==
  ASSUME freelist \in Seq(Frames),
         NEW list \in ListsOf(UNION {pmem_free(Physical(f)) : f \in LowerTables})
  PROVE  list \o freelist = freelist
<1>1. UNION {pmem_free(Physical(f)) : f \in LowerTables} = {}
  BY DEF pmem_free, Physical
<1>2. list \in [1 .. 0 -> {}]
  BY <1>1, FS_EmptySet DEF ListsOf
<1>3. list \in Seq({}) /\ Len(list) = 0
  BY <1>2
<1>4. list = << >>
  BY <1>3, EmptySeq
<1> QED BY <1>4, ConcatEmptySeq
-----------------------------------------------------------------------------
(* vm_map. *)

\* What vm_map can add: entries whose frames are the first of the list, the
\* first of them in the table where the walk stopped.
LEMMA ChainEntries ==
  ASSUME MemInv, NEW a \in Addresses, NEW p \in Prots,
         NEW n \in 0 .. Len(freelist), Walk(a).depth + n <= 4
  PROVE  /\ Extended(Walk(a), a, p, n) = entries \cup Chain(Walk(a), a, p, n)
         /\ Chain(Walk(a), a, p, n) \subseteq Entry
         /\ \A x \in Chain(Walk(a), a, p, n) : \E k \in 1 .. n :
              /\ x.frame = freelist[k]
              /\ x.index = a[Walk(a).depth + k]
              /\ x.table = IF k = 1 THEN Walk(a).table ELSE freelist[k - 1]
              /\ \A y \in Chain(Walk(a), a, p, n) : y.frame = x.frame => y = x
<1> DEFINE w == Walk(a)
           link(k) == [table |-> IF k = 1 THEN w.table ELSE freelist[k - 1],
                       index |-> a[w.depth + k],
                       frame |-> freelist[k],
                       prot |-> IF w.depth + k = 4 THEN p ELSE Full]
<1>1. Chain(w, a, p, n) = {link(k) : k \in 1 .. n}
  BY DEF Chain
<1>2. Zeroed(n) = entries
  BY DEF Zeroed, MemInv, MemTypeOK, EntriesExclusive, Free
<1>3. ASSUME NEW k \in 1 .. n PROVE link(k) \in Entry
  <2>1. w.depth \in 0 .. 4 /\ w.table \in Frames \cup {Root}
    BY WalkEnds DEF MemInv
  <2>2. a[w.depth + k] \in Index
    BY <2>1, AddressAssumption
  <2>3. freelist[k] \in Frames /\ (k # 1 => freelist[k - 1] \in Frames)
    BY DEF MemInv, MemTypeOK
  <2> QED BY <2>1, <2>2, <2>3 DEF Entry
<1>4. ASSUME NEW j \in 1 .. n, NEW k \in 1 .. n, link(j).frame = link(k).frame
      PROVE  j = k
  BY <1>4 DEF MemInv, MemTypeOK, EntriesExclusive, NoRepeat
<1>5. Extended(w, a, p, n) = entries \cup Chain(w, a, p, n)
  BY <1>2 DEF Extended
<1>6. Chain(w, a, p, n) \subseteq Entry
  BY <1>1, <1>3
<1>7. ASSUME NEW x \in Chain(w, a, p, n)
      PROVE  \E k \in 1 .. n :
               /\ x.frame = freelist[k]
               /\ x.index = a[w.depth + k]
               /\ x.table = IF k = 1 THEN w.table ELSE freelist[k - 1]
               /\ \A y \in Chain(w, a, p, n) : y.frame = x.frame => y = x
  <2>1. PICK k \in 1 .. n : x = link(k)
    BY <1>1
  <2>2. ASSUME NEW y \in Chain(w, a, p, n), y.frame = x.frame PROVE y = x
    <3>1. PICK j \in 1 .. n : y = link(j)
      BY <1>1
    <3> QED BY <2>1, <2>2, <3>1, <1>4
  <2> QED BY <2>1, <2>2
<1> QED BY <1>5, <1>6, <1>7

\* A table where a walk stops is not free.
LEMMA WalkEndNotFree ==
  ASSUME MemInv, NEW a \in Addresses
  PROVE  Walk(a).table \notin Free
<1>1. Root \notin Free
  BY RootAssumption DEF MemInv, MemTypeOK, Free
<1> QED BY <1>1, WalkEnds DEF MemInv, EntriesExclusive

\* vm_map keeps the invariant.
LEMMA MapKeepsInv ==
  ASSUME MemInv, NEW a \in Addresses, NEW p \in Prots, vm_map(a, p)
  PROVE  MemInv'
<1> DEFINE w == Walk(a)
           missing == 4 - w.depth
           n == Least(missing, Len(freelist))
           new == Chain(w, a, p, n)
<1>1. CASE MapRefused(a) \/ MapAstray(a)
  <2>1. UNCHANGED <<freelist, wild, entries, tlb>> /\ astray' \in {astray, TRUE}
    BY <1>1 DEF MapRefused, MapAstray
  <2> QED BY <2>1 DEF MemInv, MemTypeOK, EntriesExclusive, OneEntryPerIndex, Free
<1>2. CASE MapAdds(a, p)
  <2> USE <1>2
  <2>1. /\ freelist' = pmem_alloc(n)
        /\ entries' = Extended(w, a, p, n)
        /\ wild' \in AfterAlloc(n, missing)
        /\ tlb' \subseteq tlb
        /\ UNCHANGED astray /\ missing > 0
    BY DEF MapAdds, Missing, Invalidated
  <2>2. w.depth \in 0 .. 3 /\ ~Present(w.table, a[w.depth + 1])
    BY <2>1, WalkEnds DEF MemInv
  <2>3. freelist \in Seq(Frames) /\ Len(freelist) \in Nat
    BY DEF MemInv, MemTypeOK
  <2>4. n \in 0 .. Len(freelist) /\ w.depth + n <= 4
    <3> HIDE DEF w
    <3>1. missing \in 0 .. 4 /\ w.depth + missing = 4
      BY <2>2
    <3>2. n \in Nat /\ n <= missing /\ n <= Len(freelist)
      BY <2>3, <3>1 DEF Least
    <3> HIDE DEF n, missing
    <3> QED BY <2>2, <2>3, <3>1, <3>2
  <2> HIDE DEF n
  <2>5. /\ entries' = entries \cup new
        /\ new \subseteq Entry
        /\ \A x \in new : \E k \in 1 .. n :
             /\ x.frame = freelist[k]
             /\ x.index = a[w.depth + k]
             /\ x.table = IF k = 1 THEN w.table ELSE freelist[k - 1]
             /\ \A y \in new : y.frame = x.frame => y = x
    BY <2>1, <2>4, ChainEntries
  <2>6. /\ freelist' \in Seq(Frames)
        /\ Len(freelist') = Len(freelist) - n
        /\ \A i \in 1 .. Len(freelist) - n : freelist'[i] = freelist[n + i]
    BY <2>1, <2>3, <2>4, ListAfterAlloc
  <2> HIDE DEF w, missing, new
  <2>7. MemTypeOK'
    <3>1. wild' \in BOOLEAN
      BY <2>1 DEF AfterAlloc
    <3> QED BY <2>1, <2>5, <2>6, <3>1 DEF MemInv, MemTypeOK
  <2>8. NoRepeat(freelist)
    BY DEF MemInv, EntriesExclusive
  <2>17. DOMAIN freelist = 1 .. Len(freelist) /\ DOMAIN freelist' = 1 .. Len(freelist')
    BY <2>3, <2>6
  <2>9. NoRepeat(freelist')
    <3> SUFFICES ASSUME NEW i \in 1 .. Len(freelist) - n, NEW j \in 1 .. Len(freelist) - n,
                        freelist'[i] = freelist'[j]
                 PROVE  i = j
      BY <2>6, <2>17 DEF NoRepeat
    <3>1. n + i \in DOMAIN freelist /\ n + j \in DOMAIN freelist
      BY <2>3, <2>4, <2>17
    <3>2. freelist[n + i] = freelist[n + j]
      BY <2>6
    <3>3. n + i = n + j
      BY <2>8, <3>1, <3>2 DEF NoRepeat
    <3> QED BY <3>3, <2>4
  <2>10. ASSUME NEW f \in Free'
         PROVE  f \in Free /\ \A k \in 1 .. n : freelist[k] # f
    <3>1. PICK i \in 1 .. Len(freelist) - n : f = freelist[n + i]
      BY <2>6, <2>17 DEF Free
    <3>2. n + i \in DOMAIN freelist
      BY <2>3, <2>4, <2>17
    <3>3. ASSUME NEW k \in 1 .. n, freelist[k] = f PROVE FALSE
      BY <2>3, <2>4, <2>8, <2>17, <3>1, <3>2, <3>3 DEF NoRepeat
    <3> QED BY <3>1, <3>2, <3>3 DEF Free
  <2>11. \A k \in 1 .. n : freelist[k] \in Free
    BY <2>3, <2>4 DEF Free
  <2>12. w.table \notin Free
    BY WalkEndNotFree DEF w
  <2>13. \A e \in entries : e.frame \notin Free /\ e.table \notin Free
    BY DEF MemInv, EntriesExclusive
  <2>14. ASSUME NEW e \in entries' PROVE e.frame \notin Free' /\ e.table \notin Free'
    <3>1. CASE e \in entries
      BY <3>1, <2>10, <2>13
    <3>2. CASE e \in new
      <4>1. PICK k \in 1 .. n :
               /\ e.frame = freelist[k]
               /\ e.table = IF k = 1 THEN w.table ELSE freelist[k - 1]
        BY <3>2, <2>5
      <4> QED BY <4>1, <2>10, <2>12, <2>4
    <3> QED BY <3>1, <3>2, <2>5
  <2>15. ASSUME NEW e \in entries', NEW g \in entries', e.frame = g.frame PROVE e = g
    <3>1. \A x \in new : x.frame \in Free /\ \A y \in new : y.frame = x.frame => y = x
      BY <2>5, <2>11
    <3>2. \A x, y \in entries : x.frame = y.frame => x = y
      BY DEF MemInv, EntriesExclusive
    <3> QED BY <2>15, <2>5, <2>13, <3>1, <3>2
  <2>16. ASSUME NEW e \in entries', NEW g \in entries',
                e.table = g.table, e.index = g.index
         PROVE  e = g
    <3>1. \A x, y \in entries : x.table = y.table /\ x.index = y.index => x = y
      BY DEF MemInv, OneEntryPerIndex
    <3>2. ASSUME NEW x \in entries, NEW y \in new
          PROVE  ~(x.table = y.table /\ x.index = y.index)
      <4>1. PICK k \in 1 .. n :
               /\ y.index = a[w.depth + k]
               /\ y.table = IF k = 1 THEN w.table ELSE freelist[k - 1]
        BY <2>5
      <4>2. CASE k = 1
        BY <4>1, <4>2, <2>2 DEF Present, w
      <4>3. CASE k # 1
        BY <4>1, <4>3, <2>11, <2>13, <2>4
      <4> QED BY <4>2, <4>3
    <3>3. ASSUME NEW x \in new, NEW y \in new, x.table = y.table PROVE x = y
      <4>1. PICK k \in 1 .. n :
               /\ x.frame = freelist[k]
               /\ x.table = IF k = 1 THEN w.table ELSE freelist[k - 1]
               /\ \A z \in new : z.frame = x.frame => z = x
        BY <2>5
      <4>2. PICK j \in 1 .. n :
               /\ y.frame = freelist[j]
               /\ y.table = IF j = 1 THEN w.table ELSE freelist[j - 1]
        BY <2>5
      <4>3. j = k
        BY <4>1, <4>2, <3>3, <2>3, <2>4, <2>8, <2>11, <2>12 DEF NoRepeat
      <4> QED BY <4>1, <4>2, <4>3
    <3> QED BY <2>16, <2>5, <3>1, <3>2, <3>3
  <2> QED BY <2>7, <2>9, <2>14, <2>15, <2>16
          DEF MemInv, EntriesExclusive, OneEntryPerIndex
<1> QED BY <1>1, <1>2 DEF vm_map

-----------------------------------------------------------------------------
(* The other operations. *)

\* vm_protect replaces one entry by one that differs in its protection.
LEMMA ProtectKeepsInv ==
  ASSUME MemInv, NEW a \in Addresses, NEW p \in Prots, vm_protect(a, p)
  PROVE  MemInv'
<1> DEFINE e == EntryAt(Walk(a).table, a[4])
           new == [e EXCEPT !.prot = p]
<1>1. CASE ~Mapped(a)
  <2>1. UNCHANGED <<freelist, wild, entries, tlb, astray>>
    BY <1>1 DEF vm_protect
  <2> QED BY <2>1 DEF MemInv, MemTypeOK, EntriesExclusive, OneEntryPerIndex, Free
<1>2. CASE Mapped(a)
  <2>1. /\ entries' = (entries \ {e}) \cup {new}
        /\ tlb' \subseteq tlb
        /\ UNCHANGED <<freelist, wild, astray>>
    BY <1>2 DEF vm_protect, Invalidated
  <2>2. e \in entries
    BY <1>2, WalkEnds, EntryFound DEF Mapped, MemInv
  <2>3. e \in Entry
    BY <2>2 DEF MemInv, MemTypeOK
  <2> HIDE DEF e
  <2>4. /\ new \in Entry
        /\ new.frame = e.frame /\ new.table = e.table /\ new.index = e.index
    BY <2>3 DEF Entry
  <2> HIDE DEF new
  <2>5. MemTypeOK'
    BY <2>1, <2>4 DEF MemInv, MemTypeOK
  <2>6. EntriesExclusive'
    BY <2>1, <2>2, <2>4 DEF MemInv, EntriesExclusive, Free
  <2>7. OneEntryPerIndex'
    BY <2>1, <2>2, <2>4 DEF MemInv, OneEntryPerIndex
  <2> QED BY <2>5, <2>6, <2>7 DEF MemInv
<1> QED BY <1>1, <1>2

\* unmap_lower_half removes entries and frees nothing.
LEMMA UnmapKeepsInv ==
  ASSUME MemInv, unmap_lower_half
  PROVE  MemInv'
<1>1. PICK list \in ListsOf(UNION {pmem_free(Physical(f)) : f \in LowerTables}) :
        freelist' = list \o freelist
  BY DEF unmap_lower_half
<1>2. UNCHANGED freelist
  BY <1>1, UnmapFreesNothing DEF MemInv, MemTypeOK
<1>3. entries' \subseteq entries /\ tlb' = {} /\ UNCHANGED <<wild, astray>>
  BY DEF unmap_lower_half
<1> QED BY <1>2, <1>3 DEF MemInv, MemTypeOK, EntriesExclusive, OneEntryPerIndex, Free

\* An access of the processor caches what an entry says.
LEMMA AccessKeepsInv ==
  ASSUME MemInv, NEW a \in Addresses, Access(a)
  PROVE  MemInv'
<1>1. UNCHANGED <<freelist, wild, entries, astray>>
  BY DEF Access
<1>2. PICK page \in Pages(a) : tlb' = tlb \cup {[addr |-> a, page |-> page]}
  BY DEF Access
<1>3. page \in [frame : Frames, prot : Prots \cup {Full}]
  BY DEF Pages, MemInv, MemTypeOK, Entry
<1>4. tlb' \subseteq [addr : Addresses, page : [frame : Frames, prot : Prots \cup {Full}]]
  BY <1>2, <1>3 DEF MemInv, MemTypeOK
<1> QED BY <1>1, <1>4 DEF MemInv, MemTypeOK, EntriesExclusive, OneEntryPerIndex, Free

-----------------------------------------------------------------------------
(* The invariant. *)

LEMMA MemInvInit == MemInit => MemInv
<1> SUFFICES ASSUME MemInit PROVE MemInv
  OBVIOUS
<1>1. freelist \in Seq(Frames) /\ NoRepeat(freelist)
  BY UsableAssumption DEF MemInit
<1> QED BY <1>1 DEF MemInit, MemInv, MemTypeOK, EntriesExclusive, OneEntryPerIndex

LEMMA MemInvStep == MemInv /\ [MemNext]_memVars => MemInv'
<1> SUFFICES ASSUME MemInv, [MemNext]_memVars PROVE MemInv'
  OBVIOUS
<1>1. ASSUME NEW a \in Addresses, NEW p \in Prots, vm_map(a, p) \/ vm_protect(a, p)
      PROVE  MemInv'
  BY <1>1, MapKeepsInv, ProtectKeepsInv
<1>2. CASE unmap_lower_half
  BY <1>2, UnmapKeepsInv
<1>3. ASSUME NEW a \in Addresses, Access(a) PROVE MemInv'
  BY <1>3, AccessKeepsInv
<1>4. CASE UNCHANGED memVars
  BY <1>4 DEF memVars, MemInv, MemTypeOK, EntriesExclusive, OneEntryPerIndex, Free
<1> QED BY <1>1, <1>2, <1>3, <1>4 DEF MemNext

-----------------------------------------------------------------------------
(* What the operations do to the pages. *)

\* How many entries vm_map adds, and the k-th of them.
Added(a) == Least(Missing(a), Len(freelist))

Link(a, p, k) == [table |-> IF k = 1 THEN Walk(a).table ELSE freelist[k - 1],
                  index |-> a[Walk(a).depth + k],
                  frame |-> freelist[k],
                  prot |-> IF Walk(a).depth + k = 4 THEN p ELSE Full]

LEMMA MapAddsLinks ==
  ASSUME MemInv, NEW a \in Addresses, NEW p \in Prots, MapAdds(a, p)
  PROVE  /\ Walk(a).depth \in 0 .. 3 /\ Missing(a) = 4 - Walk(a).depth
         /\ Added(a) \in 0 .. Missing(a)
         /\ entries' = entries \cup {Link(a, p, k) : k \in 1 .. Added(a)}
         /\ \A k \in 1 .. Added(a) : freelist[k] \in Free
         /\ \A j, k \in 1 .. Added(a) : freelist[j] = freelist[k] => j = k
         /\ \A e \in entries : e.frame \notin Free /\ e.table \notin Free
         /\ Walk(a).table \notin Free /\ Root \notin Free
         /\ result' = (Added(a) = Missing(a))
         /\ tlb' = IF Added(a) = Missing(a) THEN Invalidated(a) ELSE tlb
<1>1. Walk(a).depth \in 0 .. 3 /\ Missing(a) = 4 - Walk(a).depth
  BY WalkEnds DEF MapAdds, MemInv, Missing
<1>2. freelist \in Seq(Frames) /\ Len(freelist) \in Nat
  BY DEF MemInv, MemTypeOK
<1>3. Added(a) \in 0 .. Missing(a) /\ Added(a) <= Len(freelist)
  <2>1. Missing(a) \in Nat
    BY <1>1
  <2> QED BY <1>2, <2>1 DEF Added, Least
<1>4. entries' = entries \cup {Link(a, p, k) : k \in 1 .. Added(a)}
  <2>1. entries' = Extended(Walk(a), a, p, Added(a))
    BY DEF MapAdds, Added
  <2>2. Extended(Walk(a), a, p, Added(a)) = entries \cup Chain(Walk(a), a, p, Added(a))
    <3>1. Added(a) \in 0 .. Len(freelist) /\ Walk(a).depth + Added(a) <= 4
      BY <1>1, <1>2, <1>3
    <3> QED BY <3>1, ChainEntries
  <2> QED BY <2>1, <2>2 DEF Chain, Link
<1>5. \A k \in 1 .. Added(a) : freelist[k] \in Free
  BY <1>1, <1>2, <1>3 DEF Free
<1>6. \A j, k \in 1 .. Added(a) : freelist[j] = freelist[k] => j = k
  BY <1>1, <1>2, <1>3 DEF MemInv, EntriesExclusive, NoRepeat
<1>7. \A e \in entries : e.frame \notin Free /\ e.table \notin Free
  BY DEF MemInv, EntriesExclusive
<1>8. Walk(a).table \notin Free /\ Root \notin Free
  BY WalkEndNotFree, RootAssumption DEF MemInv, MemTypeOK, Free
<1>9. /\ result' = (Added(a) = Missing(a))
      /\ tlb' = IF Added(a) = Missing(a) THEN Invalidated(a) ELSE tlb
  BY DEF MapAdds, Added
<1> QED BY <1>1, <1>3, <1>4, <1>5, <1>6, <1>7, <1>8, <1>9

\* A path that vm_map makes is that of its address, and its last entries are
\* those added: all that are missing, so vm_map returns true.
LEMMA MapPath ==
  ASSUME MemInv, NEW a \in Addresses, NEW p \in Prots, MapAdds(a, p),
         NEW b \in Addresses, NEW e4, NEW e3, NEW e2, NEW e1,
         Path(entries', b, e4, e3, e2, e1)
  PROVE  \/ Path(entries, b, e4, e3, e2, e1)
         \/ b = a /\ Added(a) = Missing(a) /\ e1 = Link(a, p, Missing(a))
<1> DEFINE d == Walk(a).depth
           t == Walk(a).table
           n == Added(a)
           link(k) == Link(a, p, k)
<1>1. /\ d \in 0 .. 3 /\ Missing(a) = 4 - d /\ n \in 0 .. 4 - d
      /\ entries' = entries \cup {link(k) : k \in 1 .. n}
      /\ \A k \in 1 .. n : freelist[k] \in Free
      /\ \A j, k \in 1 .. n : freelist[j] = freelist[k] => j = k
      /\ \A e \in entries : e.frame \notin Free /\ e.table \notin Free
      /\ t \notin Free /\ Root \notin Free
  <2>1. n \in 0 .. Missing(a) /\ Missing(a) = 4 - d
    BY MapAddsLinks
  <2> QED BY <2>1, MapAddsLinks
<1>2. \A k \in 1 .. n : /\ link(k).table = IF k = 1 THEN t ELSE freelist[k - 1]
                        /\ link(k).index = a[d + k]
                        /\ link(k).frame = freelist[k]
  BY DEF Link
<1>3. \A e \in entries : e.frame # Root
  BY RootAssumption DEF MemInv, MemTypeOK, Entry
<1>4. \A e, g \in entries : e.frame = g.frame => e = g
  BY DEF MemInv, EntriesExclusive
<1>5. \/ d = 0 /\ t = Root
      \/ d = 1 /\ \E g4 \in entries : g4.table = Root /\ g4.index = a[1] /\ t = g4.frame
      \/ d = 2 /\ \E g4, g3 \in entries :
                    /\ g4.table = Root /\ g4.index = a[1]
                    /\ g3.table = g4.frame /\ g3.index = a[2] /\ t = g3.frame
      \/ d = 3 /\ \E g4, g3, g2 \in entries :
                    /\ g4.table = Root /\ g4.index = a[1]
                    /\ g3.table = g4.frame /\ g3.index = a[2]
                    /\ g2.table = g3.frame /\ g2.index = a[3] /\ t = g2.frame
  <2>1. d # 4
    BY <1>1
  <2> QED BY <2>1, WalkPath
<1> HIDE DEF d, t, n, link
\* What follows an entry that is added is the next one.
<1>6. ASSUME NEW k \in 1 .. n, NEW f \in entries', f.table = link(k).frame
      PROVE  k + 1 \in 1 .. n /\ f = link(k + 1)
  <2>1. f.table \in Free
    BY <1>1, <1>2, <1>6
  <2>2. PICK j \in 1 .. n : f = link(j)
    BY <1>1, <2>1
  <2>3. j # 1
    BY <1>1, <1>2, <2>1, <2>2
  <2>4. j - 1 \in 1 .. n /\ freelist[j - 1] = freelist[k]
    BY <1>1, <1>2, <1>6, <2>2, <2>3
  <2>5. j - 1 = k
    BY <1>1, <2>4
  <2> QED BY <2>2, <2>5, <1>1
\* One that is added to a table there was is the first.
<1>7. ASSUME NEW f \in entries', f \notin entries, f.table \notin Free
      PROVE  1 \in 1 .. n /\ f = link(1) /\ f.table = t /\ f.index = a[d + 1]
  <2>1. PICK j \in 1 .. n : f = link(j)
    BY <1>1, <1>7
  <2>2. j = 1
    BY <1>1, <1>2, <1>7, <2>1
  <2> QED BY <1>2, <2>1, <2>2
<1>8. /\ {e4, e3, e2, e1} \subseteq entries'
      /\ e4.table = Root /\ e3.table = e4.frame /\ e2.table = e3.frame /\ e1.table = e2.frame
      /\ e4.index = b[1] /\ e3.index = b[2] /\ e2.index = b[3] /\ e1.index = b[4]
  BY DEF Path
<1>9. CASE e4 \notin entries
  <2>1. 1 \in 1 .. n /\ e4 = link(1) /\ t = Root /\ b[1] = a[d + 1]
    BY <1>1, <1>7, <1>8, <1>9
  <2>2. d = 0
    BY <1>3, <1>5, <2>1
  <2>3. 2 \in 1 .. n /\ e3 = link(2)
    BY <1>6, <1>8, <2>1
  <2>4. 3 \in 1 .. n /\ e2 = link(3)
    BY <1>6, <1>8, <2>3
  <2>5. 4 \in 1 .. n /\ e1 = link(4)
    BY <1>6, <1>8, <2>4
  <2>6. n = 4 /\ Missing(a) = 4
    BY <1>1, <2>2, <2>5
  <2>7. b[1] = a[1] /\ b[2] = a[2] /\ b[3] = a[3] /\ b[4] = a[4]
    BY <1>2, <1>8, <2>1, <2>2, <2>3, <2>4, <2>5
  <2> QED BY <2>5, <2>6, <2>7, SameAddress DEF n, link
<1>10. CASE e4 \in entries /\ e3 \notin entries
  <2>1. 1 \in 1 .. n /\ e3 = link(1) /\ t = e4.frame /\ b[2] = a[d + 1]
    BY <1>1, <1>7, <1>8, <1>10
  <2>2. d = 1 /\ a[1] = b[1]
    BY <1>3, <1>4, <1>5, <1>8, <1>10, <2>1
  <2>3. 2 \in 1 .. n /\ e2 = link(2)
    BY <1>6, <1>8, <2>1
  <2>4. 3 \in 1 .. n /\ e1 = link(3)
    BY <1>6, <1>8, <2>3
  <2>5. n = 3 /\ Missing(a) = 3
    BY <1>1, <2>2, <2>4
  <2>6. b[2] = a[2] /\ b[3] = a[3] /\ b[4] = a[4]
    BY <1>2, <1>8, <2>1, <2>2, <2>3, <2>4
  <2> QED BY <2>2, <2>4, <2>5, <2>6, SameAddress DEF n, link
<1>11. CASE e4 \in entries /\ e3 \in entries /\ e2 \notin entries
  <2>1. 1 \in 1 .. n /\ e2 = link(1) /\ t = e3.frame /\ b[3] = a[d + 1]
    BY <1>1, <1>7, <1>8, <1>11
  <2>2. d = 2 /\ a[1] = b[1] /\ a[2] = b[2]
    BY <1>3, <1>4, <1>5, <1>8, <1>11, <2>1
  <2>3. 2 \in 1 .. n /\ e1 = link(2)
    BY <1>6, <1>8, <2>1
  <2>4. n = 2 /\ Missing(a) = 2
    BY <1>1, <2>2, <2>3
  <2>5. b[3] = a[3] /\ b[4] = a[4]
    BY <1>2, <1>8, <2>1, <2>2, <2>3
  <2> QED BY <2>2, <2>3, <2>4, <2>5, SameAddress DEF n, link
<1>12. CASE {e4, e3, e2} \subseteq entries /\ e1 \notin entries
  <2>1. 1 \in 1 .. n /\ e1 = link(1) /\ t = e2.frame /\ b[4] = a[d + 1]
    BY <1>1, <1>7, <1>8, <1>12
  <2>2. d = 3 /\ a[1] = b[1] /\ a[2] = b[2] /\ a[3] = b[3]
    BY <1>3, <1>4, <1>5, <1>8, <1>12, <2>1
  <2>3. n = 1 /\ Missing(a) = 1
    BY <1>1, <2>1, <2>2
  <2>4. b[4] = a[4]
    BY <2>1, <2>2
  <2> QED BY <2>1, <2>2, <2>3, <2>4, SameAddress DEF n, link
<1>13. CASE {e4, e3, e2, e1} \subseteq entries
  BY <1>8, <1>13 DEF Path
<1> QED BY <1>9, <1>10, <1>11, <1>12, <1>13

\* When nothing is missing in the end, the entries added complete the path.
LEMMA MapCompletes ==
  ASSUME MemInv, NEW a \in Addresses, NEW p \in Prots, MapAdds(a, p),
         Added(a) = Missing(a)
  PROVE  PageOf(Link(a, p, Missing(a))) \in Pages(a)'
<1> DEFINE d == Walk(a).depth
           t == Walk(a).table
           link(k) == Link(a, p, k)
<1>1. /\ d \in 0 .. 3 /\ Missing(a) = 4 - d
      /\ entries' = entries \cup {link(k) : k \in 1 .. 4 - d}
  BY MapAddsLinks
<1>2. /\ \A k \in 1 .. 4 - d : link(k).frame = freelist[k] /\ link(k).index = a[d + k]
      /\ link(1).table = t
      /\ \A k \in 2 .. 4 : link(k).table = freelist[k - 1]
  BY DEF Link
<1>3. d \in 0 .. 4 /\ d # 4
  BY <1>1
<1> HIDE DEF link
<1>4. CASE d = 0
  <2>1. t = Root
    BY <1>4, WalkPath
  <2>2. {link(1), link(2), link(3), link(4)} \subseteq entries'
    BY <1>1, <1>4
  <2>3. Path(entries', a, link(1), link(2), link(3), link(4))
    BY <1>2, <1>4, <2>1, <2>2 DEF Path
  <2>4. link(4) = Link(a, p, Missing(a))
    BY <1>1, <1>4 DEF link
  <2> QED BY <2>3, <2>4, PathGivesPageNext
<1>5. CASE d = 1
  <2>1. PICK g4 \in entries : g4.table = Root /\ g4.index = a[1] /\ t = g4.frame
    BY <1>5, WalkPath
  <2>2. {g4, link(1), link(2), link(3)} \subseteq entries'
    BY <1>1, <1>5
  <2>3. Path(entries', a, g4, link(1), link(2), link(3))
    BY <1>2, <1>5, <2>1, <2>2 DEF Path
  <2>4. link(3) = Link(a, p, Missing(a))
    BY <1>1, <1>5 DEF link
  <2> QED BY <2>3, <2>4, PathGivesPageNext
<1>6. CASE d = 2
  <2>1. PICK g4, g3 \in entries : /\ g4.table = Root /\ g4.index = a[1]
                                  /\ g3.table = g4.frame /\ g3.index = a[2] /\ t = g3.frame
    BY <1>6, WalkPath
  <2>2. {g4, g3, link(1), link(2)} \subseteq entries'
    BY <1>1, <1>6
  <2>3. Path(entries', a, g4, g3, link(1), link(2))
    BY <1>2, <1>6, <2>1, <2>2 DEF Path
  <2>4. link(2) = Link(a, p, Missing(a))
    BY <1>1, <1>6 DEF link
  <2> QED BY <2>3, <2>4, PathGivesPageNext
<1>7. CASE d = 3
  <2>1. PICK g4, g3, g2 \in entries : /\ g4.table = Root /\ g4.index = a[1]
                                      /\ g3.table = g4.frame /\ g3.index = a[2]
                                      /\ g2.table = g3.frame /\ g2.index = a[3]
                                      /\ t = g2.frame
    BY <1>7, WalkPath
  <2>2. {g4, g3, g2, link(1)} \subseteq entries'
    BY <1>1, <1>7
  <2>3. Path(entries', a, g4, g3, g2, link(1))
    BY <1>2, <1>7, <2>1, <2>2 DEF Path
  <2>4. link(1) = Link(a, p, Missing(a))
    BY <1>1, <1>7 DEF link
  <2> QED BY <2>3, <2>4, PathGivesPageNext
<1> HIDE DEF d
<1> QED BY <1>3, <1>4, <1>5, <1>6, <1>7

\* A call of vm_map changes the page of its address only, and only when it
\* returns true.
LEMMA MapPages ==
  ASSUME MemInv, NEW a \in Addresses, NEW p \in Prots, MapAdds(a, p),
         NEW b \in Addresses
  PROVE  IF b = a /\ Added(a) = Missing(a)
         THEN Pages(b)' = {[frame |-> freelist[Missing(a)], prot |-> p]}
         ELSE Pages(b)' = Pages(b)
<1>1. entries \subseteq entries'
  BY MapAddsLinks
<1>2. CASE b = a /\ Added(a) = Missing(a)
  <2>1. PageOf(Link(a, p, Missing(a))) = [frame |-> freelist[Missing(a)], prot |-> p]
    <3>1. Walk(a).depth + Missing(a) = 4
      BY MapAddsLinks
    <3> QED BY <3>1 DEF PageOf, Link
  <2>2. Pages(a) = {}
    <3>1. Walk(a).depth # 4
      BY MapAddsLinks
    <3> QED BY <3>1, NoPath
  <2>3. ASSUME NEW page \in Pages(a)' PROVE page = PageOf(Link(a, p, Missing(a)))
    <3>1. PICK e4, e3, e2, e1 \in entries' :
            Path(entries', a, e4, e3, e2, e1) /\ page = PageOf(e1)
      BY PagesByPathNext
    <3>2. ~Path(entries, a, e4, e3, e2, e1)
      BY <2>2, PathGivesPage
    <3> QED BY <3>1, <3>2, MapPath
  <2> QED BY <1>2, <2>1, <2>3, MapCompletes
<1>3. CASE ~(b = a /\ Added(a) = Missing(a))
  <2>1. ASSUME NEW page \in Pages(b) PROVE page \in Pages(b)'
    <3>1. PICK e4, e3, e2, e1 \in entries :
            Path(entries, b, e4, e3, e2, e1) /\ page = PageOf(e1)
      BY PagesByPath
    <3>2. Path(entries', b, e4, e3, e2, e1)
      BY <1>1, <3>1 DEF Path
    <3> QED BY <3>1, <3>2, PathGivesPageNext
  <2>2. ASSUME NEW page \in Pages(b)' PROVE page \in Pages(b)
    <3>1. PICK e4, e3, e2, e1 \in entries' :
            Path(entries', b, e4, e3, e2, e1) /\ page = PageOf(e1)
      BY PagesByPathNext
    <3>2. Path(entries, b, e4, e3, e2, e1)
      BY <1>3, <3>1, MapPath
    <3> QED BY <3>1, <3>2, PathGivesPage
  <2>3. Pages(b)' = Pages(b)
    BY <2>1, <2>2
  <2> QED BY <1>3, <2>3
<1> QED BY <1>2, <1>3

\* vm_protect changes the protection of one page, which keeps its frame.
LEMMA ProtectPages ==
  ASSUME MemInv, NEW a \in Addresses, NEW p \in Prots, vm_protect(a, p),
         NEW b \in Addresses
  PROVE  IF b = a /\ Mapped(a)
         THEN \E page \in Pages(a) : Pages(a)' = {[frame |-> page.frame, prot |-> p]}
         ELSE Pages(b)' = Pages(b)
<1> DEFINE e == EntryAt(Walk(a).table, a[4])
           new == [e EXCEPT !.prot = p]
           Old(x) == IF x = new THEN e ELSE x
           New(x) == IF x = e THEN new ELSE x
<1>1. CASE ~Mapped(a)
  <2>1. UNCHANGED entries
    BY <1>1 DEF vm_protect
  <2> QED BY <1>1, <2>1 DEF Pages
<1>2. CASE Mapped(a)
  <2>1. entries' = (entries \ {e}) \cup {new}
    BY <1>2 DEF vm_protect
  <2>2. PICK g4, g3, g2 \in entries : Path(entries, a, g4, g3, g2, e)
    BY <1>2, WalkPath DEF Mapped
  <2>3. e \in entries /\ e \in Entry
    BY <2>2 DEF Path, MemInv, MemTypeOK
  <2> HIDE DEF e
  <2>4. /\ new.table = e.table /\ new.index = e.index /\ new.frame = e.frame
        /\ new.prot = p
    BY <2>3 DEF Entry
  <2> HIDE DEF new
  <2>5. ASSUME NEW x \in entries'
        PROVE  /\ Old(x) \in entries
               /\ Old(x).table = x.table /\ Old(x).index = x.index /\ Old(x).frame = x.frame
    BY <2>1, <2>3, <2>4
  <2>6. ASSUME NEW x \in entries
        PROVE  /\ New(x) \in entries'
               /\ New(x).table = x.table /\ New(x).index = x.index /\ New(x).frame = x.frame
    BY <2>1, <2>3, <2>4
  <2> HIDE DEF Old, New
  <2>7. ASSUME NEW c, NEW e4, NEW e3, NEW e2, NEW e1, Path(entries', c, e4, e3, e2, e1)
        PROVE  Path(entries, c, Old(e4), Old(e3), Old(e2), Old(e1))
    BY <2>5, <2>7 DEF Path
  <2>8. ASSUME NEW c, NEW e4, NEW e3, NEW e2, NEW e1, Path(entries, c, e4, e3, e2, e1)
        PROVE  Path(entries', c, New(e4), New(e3), New(e2), New(e1))
    BY <2>6, <2>8 DEF Path
  <2>9. CASE b = a
    <3>1. PageOf(new) = [frame |-> e.frame, prot |-> p] /\ PageOf(e).frame = e.frame
      BY <2>4 DEF PageOf
    <3>2. PageOf(e) \in Pages(a)
      BY <2>2, PathGivesPage
    <3>3. PageOf(new) \in Pages(a)'
      <4>1. New(e) = new
        BY DEF New
      <4> QED BY <2>2, <2>8, <4>1, PathGivesPageNext
    <3>4. ASSUME NEW page \in Pages(a)' PROVE page = PageOf(new)
      <4>1. PICK e4, e3, e2, e1 \in entries' :
              Path(entries', a, e4, e3, e2, e1) /\ page = PageOf(e1)
        BY PagesByPathNext
      <4>2. Old(e1) = e
        BY <2>2, <2>7, <4>1, OnePath
      <4>3. e1 = new
        BY <2>1, <4>2 DEF Old
      <4> QED BY <4>1, <4>3
    <3>5. Pages(a)' = {PageOf(new)}
      BY <3>3, <3>4
    <3> QED BY <1>2, <2>9, <3>1, <3>2, <3>5
  <2>10. CASE b # a
    <3>1. ASSUME NEW page \in Pages(b)' PROVE page \in Pages(b)
      <4>1. PICK e4, e3, e2, e1 \in entries' :
              Path(entries', b, e4, e3, e2, e1) /\ page = PageOf(e1)
        BY PagesByPathNext
      <4>2. Path(entries, b, Old(e4), Old(e3), Old(e2), Old(e1))
        BY <2>7, <4>1
      <4>3. Old(e1) # e
        BY <2>2, <2>10, <4>2, OneAddress
      <4>4. Old(e1) = e1
        BY <4>3 DEF Old
      <4> QED BY <4>1, <4>2, <4>4, PathGivesPage
    <3>2. ASSUME NEW page \in Pages(b) PROVE page \in Pages(b)'
      <4>1. PICK e4, e3, e2, e1 \in entries :
              Path(entries, b, e4, e3, e2, e1) /\ page = PageOf(e1)
        BY PagesByPath
      <4>2. e1 # e
        BY <2>2, <2>10, <4>1, OneAddress
      <4>3. New(e1) = e1
        BY <4>2 DEF New
      <4> QED BY <2>8, <4>1, <4>3, PathGivesPageNext
    <3>3. Pages(b)' = Pages(b)
      BY <3>1, <3>2
    <3> QED BY <2>10, <3>3
  <2> QED BY <2>9, <2>10
<1> QED BY <1>1, <1>2

\* Unmapping the lower half leaves the pages of the upper half.
LEMMA UnmapPages ==
  ASSUME MemInv, unmap_lower_half, NEW b \in Addresses
  PROVE  /\ b[1] \notin LowerHalf => Pages(b)' = Pages(b)
         /\ b[1] \in LowerHalf => Pages(b)' = {}
<1>1. entries' = entries \ LowerEntries
  BY DEF unmap_lower_half
<1>2. ASSUME NEW page \in Pages(b)' PROVE page \in Pages(b) /\ b[1] \notin LowerHalf
  <2>1. PICK e4, e3, e2, e1 \in entries' :
          Path(entries', b, e4, e3, e2, e1) /\ page = PageOf(e1)
    BY PagesByPathNext
  <2>2. Path(entries, b, e4, e3, e2, e1)
    BY <1>1, <2>1 DEF Path
  <2>3. b[1] \notin LowerHalf
    BY <1>1, <2>1 DEF Path, LowerEntries
  <2> QED BY <2>1, <2>2, <2>3, PathGivesPage
<1>3. ASSUME NEW page \in Pages(b), b[1] \notin LowerHalf PROVE page \in Pages(b)'
  <2>1. PICK e4, e3, e2, e1 \in entries :
          Path(entries, b, e4, e3, e2, e1) /\ page = PageOf(e1)
    BY PagesByPath
  <2>2. \A e \in entries : e.frame # Root
    BY RootAssumption DEF MemInv, MemTypeOK, Entry
  <2>3. Path(entries', b, e4, e3, e2, e1)
    BY <1>1, <1>3, <2>1, <2>2 DEF Path, LowerEntries
  <2> QED BY <2>1, <2>3, PathGivesPageNext
<1>4. b[1] \notin LowerHalf => Pages(b)' = Pages(b)
  BY <1>2, <1>3
<1>5. b[1] \in LowerHalf => Pages(b)' = {}
  BY <1>2
<1> QED BY <1>4, <1>5

\* What any step does to the page of an address, whatever the step is: the
\* theorems below need no more of the operations.
LEMMA StepPages ==
  ASSUME MemInv, [MemNext]_memVars, NEW a \in Addresses, Pages(a)' # Pages(a)
  PROVE  \/ result' /\ \E p \in Prots : vm_map(a, p) \/ vm_protect(a, p)
         \/ unmap_lower_half /\ a[1] \in LowerHalf
<1>1. ASSUME NEW b \in Addresses, NEW p \in Prots, vm_map(b, p)
      PROVE  b = a /\ result'
  <2>1. CASE MapRefused(b) \/ MapAstray(b)
    BY <2>1 DEF MapRefused, MapAstray, Pages
  <2>2. CASE MapAdds(b, p)
    BY <2>2, MapPages, MapAddsLinks
  <2> QED BY <1>1, <2>1, <2>2 DEF vm_map
<1>2. ASSUME NEW b \in Addresses, NEW p \in Prots, vm_protect(b, p)
      PROVE  b = a /\ result'
  <2>1. a = b /\ Mapped(b)
    BY <1>2, ProtectPages
  <2> QED BY <1>2, <2>1 DEF vm_protect
<1>3. CASE unmap_lower_half
  BY <1>3, UnmapPages
<1>4. ASSUME NEW b \in Addresses, Access(b) PROVE FALSE
  BY <1>4 DEF Access, Pages
<1>5. CASE UNCHANGED memVars
  BY <1>5 DEF memVars, Pages
<1> QED BY <1>1, <1>2, <1>3, <1>4, <1>5 DEF MemNext

-----------------------------------------------------------------------------
(* The processor's cache. *)

CoherentInv == MemInv /\ TlbCoherent

\* An operation that changes the page of an address leaves no translation of it
\* in the cache.
LEMMA ChangedIsFlushed ==
  ASSUME MemInv, [MemNext]_memVars, NEW x \in tlb',
         Pages(x.addr)' # Pages(x.addr), x.addr \in Addresses
  PROVE  FALSE
<1>1. ASSUME NEW p \in Prots, vm_map(x.addr, p), result' PROVE FALSE
  <2>1. CASE MapRefused(x.addr) \/ MapAstray(x.addr)
    BY <2>1 DEF MapRefused, MapAstray, Pages
  <2>2. CASE MapAdds(x.addr, p)
    BY <1>1, <2>2, MapAddsLinks DEF Invalidated
  <2> QED BY <1>1, <2>1, <2>2 DEF vm_map
<1>2. ASSUME NEW p \in Prots, vm_protect(x.addr, p), result' PROVE FALSE
  BY <1>2 DEF vm_protect, Invalidated
<1>3. CASE unmap_lower_half
  BY <1>3 DEF unmap_lower_half
<1> QED BY <1>1, <1>2, <1>3, StepPages

\* Nothing enters the cache but what the processor finds in the tables.
LEMMA CachedFromPages ==
  ASSUME [MemNext]_memVars, NEW x \in tlb', x \notin tlb
  PROVE  x.page \in Pages(x.addr)
<1>1. ASSUME NEW a \in Addresses, NEW p \in Prots, vm_map(a, p) \/ vm_protect(a, p)
      PROVE  FALSE
  <2>1. tlb' \subseteq tlb
    BY <1>1 DEF vm_map, MapRefused, MapAstray, MapAdds, vm_protect, Invalidated
  <2> QED BY <2>1
<1>2. CASE unmap_lower_half
  BY <1>2 DEF unmap_lower_half
<1>3. ASSUME NEW a \in Addresses, Access(a) PROVE x.page \in Pages(x.addr)
  BY <1>3 DEF Access
<1>4. CASE UNCHANGED memVars
  BY <1>4 DEF memVars
<1> QED BY <1>1, <1>2, <1>3, <1>4 DEF MemNext

LEMMA CoherentStep == CoherentInv /\ [MemNext]_memVars => CoherentInv'
<1> SUFFICES ASSUME CoherentInv, [MemNext]_memVars PROVE CoherentInv'
  OBVIOUS
<1>1. MemInv /\ TlbCoherent /\ MemInv'
  BY MemInvStep DEF CoherentInv
<1>2. ASSUME NEW x \in tlb' PROVE Pages(x.addr)' = {x.page}
  <2>1. x.addr \in Addresses
    BY <1>1 DEF MemInv, MemTypeOK
  <2>2. Pages(x.addr)' = Pages(x.addr)
    BY <1>1, <2>1, ChangedIsFlushed
  <2>3. CASE x \in tlb
    BY <1>1, <2>2, <2>3 DEF TlbCoherent
  <2>4. CASE x \notin tlb
    BY <1>1, <2>2, <2>4, CachedFromPages, PageUnique
  <2> QED BY <2>3, <2>4
<1> QED BY <1>1, <1>2 DEF CoherentInv, TlbCoherent

-----------------------------------------------------------------------------
(* The theorems. *)

\* The free list holds frames, page-table entries hold tables, frames and
\* protections of the address space, and the processor caches pages of it.
THEOREM MemTypeCorrect == MemSpec => []MemTypeOK
<1>1. MemInv => MemTypeOK
  BY DEF MemInv
<1> QED BY <1>1, MemInvInit, MemInvStep, PTL DEF MemSpec

\* For every amount of memory, every set of addresses and every sequence of
\* vm_map, vm_protect and unmap_lower_half, no page frame has two uses.
THEOREM FramesNeverShared == MemSpec => []FramesExclusive
<1>1. MemInv => FramesExclusive
  BY DEF MemInv, EntriesExclusive, FramesExclusive, Live
<1> QED BY <1>1, MemInvInit, MemInvStep, PTL DEF MemSpec

\* A call of vm_map or vm_protect changes the translation of its own address
\* only, and only when it returns true, and unmap_lower_half those of the lower
\* half only, for every number of addresses that share tables.
THEOREM OthersKeepTheirPages == MemSpec => OnlyTargetChanges
<1> DEFINE Targeted ==
      \A a \in Addresses :
        Pages(a)' # Pages(a) =>
          \/ result' /\ \E p \in Prots : vm_map(a, p) \/ vm_protect(a, p)
          \/ unmap_lower_half /\ a[1] \in LowerHalf
<1>1. MemInv /\ [MemNext]_memVars => [Targeted]_memVars
  BY StepPages
<1> QED BY <1>1, MemInvInit, MemInvStep, PTL DEF MemSpec, OnlyTargetChanges

\* vm_map gives an address a frame that was free: never one that another address
\* or a table uses (mem.c:176 and 330-365).
THEOREM MapGivesFreshPage == MemSpec => MapsFreshPage
<1> DEFINE Fresh ==
      \A a \in Addresses, p \in Prots :
        freelist' # freelist /\ result' /\ vm_map(a, p) =>
          \E f \in Free : Pages(a)' = {[frame |-> f, prot |-> p]}
<1>1. ASSUME MemInv, NEW a \in Addresses, NEW p \in Prots,
             freelist' # freelist, result', vm_map(a, p)
      PROVE  \E f \in Free : Pages(a)' = {[frame |-> f, prot |-> p]}
  <2>1. MapAdds(a, p)
    BY <1>1 DEF vm_map, MapRefused, MapAstray
  <2>2. Added(a) = Missing(a) /\ Missing(a) \in 1 .. Added(a)
    <3>1. Added(a) = Missing(a) /\ Walk(a).depth \in 0 .. 3 /\ Missing(a) = 4 - Walk(a).depth
      BY <1>1, <2>1, MapAddsLinks
    <3> QED BY <3>1
  <2>3. freelist[Missing(a)] \in Free
    BY <1>1, <2>1, <2>2, MapAddsLinks
  <2>4. Pages(a)' = {[frame |-> freelist[Missing(a)], prot |-> p]}
    BY <1>1, <2>1, <2>2, MapPages
  <2> QED BY <2>3, <2>4
<1>2. MemInv /\ [MemNext]_memVars => [Fresh]_memVars
  BY <1>1
<1> QED BY <1>2, MemInvInit, MemInvStep, PTL DEF MemSpec, MapsFreshPage

\* What the processor has cached is what the tables say, for every sequence of
\* calls and of accesses between them: no operation forgets an invlpg that is
\* needed (mem.c:330-440).
THEOREM CacheStaysCoherent == MemSpec => []TlbCoherent
<1>1. MemInit => CoherentInv
  BY MemInvInit DEF MemInit, CoherentInv, TlbCoherent
<1>2. CoherentInv => TlbCoherent
  BY DEF CoherentInv
<1> QED BY <1>1, <1>2, CoherentStep, PTL DEF MemSpec
=============================================================================
