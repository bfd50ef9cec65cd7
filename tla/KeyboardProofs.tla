--------------------------- MODULE KeyboardProofs ----------------------------
(***************************************************************************)
(* Proofs about the keyboard's path to a program.                          *)
(*                                                                         *)
(* First the buffer, KeyRing, for every size, every set of characters and  *)
(* every number of keys: its invariants, and that it implements the        *)
(* bounded queue of KeyQueue until a key is stored between kgetc's two     *)
(* updates.                                                                *)
(*                                                                         *)
(* Then Keyboard, for every layout, every set of modifiers, every length   *)
(* of the wire and every sequence of reads: types, that the buffer is used *)
(* as KeyRing says, that the flags follow the keys, that what is stored is *)
(* what was typed, and that a program receives it in order.                *)
(***************************************************************************)
EXTENDS Keyboard, TLAPS, SequenceTheorems, WellFoundedInduction

\* Where kgetc is bounds what it has read: past the loop there is a key, the
\* register of a split "count--" was loaded with a positive count no larger
\* than the present one, and until a race it still equals it.
Flow == /\ pc \in {"fetch", "advance"} \cup Between => count > 0
        /\ pc = "store" => build = "split" /\ loaded \in 1 .. count
        /\ ~raced /\ pc = "store" => loaded = count

\* The inductive invariant behind TypeOK.
TypeInv == TypeOK /\ Flow

\* A key that kgetc has fetched is still in its slot until start moves on.
Fetched == pc = "advance" => c = char_buffer[start]

\* The inductive invariant behind FifoUnlessRaced and KeysAccounted.
RingInv == TypeInv /\ Fetched /\ FifoUnlessRaced /\ KeysAccounted

-----------------------------------------------------------------------------
(* Arithmetic of the slot indices. *)

\* A remainder by the size of the buffer is a slot.
LEMMA SlotRange == ASSUME NEW a \in Int PROVE a % BUFFER_SIZE \in Slots
BY BufferSizeAssumption DEF Slots

\* One wrap at most turns a sum of a slot and an offset into a slot.
LEMMA Wrap ==
  ASSUME NEW a \in 0 .. 2 * BUFFER_SIZE - 1
  PROVE  a % BUFFER_SIZE = IF a < BUFFER_SIZE THEN a ELSE a - BUFFER_SIZE
BY BufferSizeAssumption

\* Two offsets less than the size of the buffer lead to different slots.
LEMMA SlotsDiffer ==
  ASSUME NEW s \in Slots, NEW i \in Slots, NEW j \in Slots, i # j
  PROVE  (s + i) % BUFFER_SIZE # (s + j) % BUFFER_SIZE
<1>1. s + i \in 0 .. 2 * BUFFER_SIZE - 1 /\ s + j \in 0 .. 2 * BUFFER_SIZE - 1
  BY BufferSizeAssumption DEF Slots
<1> QED BY <1>1, Wrap, BufferSizeAssumption DEF Slots

\* Moving start on by one moves every key one place nearer to it.
LEMMA SlotAdvances ==
  ASSUME NEW s \in Slots, NEW i \in Nat, i + 1 < BUFFER_SIZE
  PROVE  (((s + 1) % BUFFER_SIZE) + i) % BUFFER_SIZE = (s + (i + 1)) % BUFFER_SIZE
<1>1. s + 1 \in 0 .. 2 * BUFFER_SIZE - 1 /\ s + (i + 1) \in 0 .. 2 * BUFFER_SIZE - 1
  BY BufferSizeAssumption DEF Slots
<1>2. (s + 1) % BUFFER_SIZE = IF s + 1 < BUFFER_SIZE THEN s + 1 ELSE 0
  BY <1>1, Wrap, BufferSizeAssumption DEF Slots
<1>3. ((s + 1) % BUFFER_SIZE) + i \in 0 .. 2 * BUFFER_SIZE - 1
  BY <1>2, BufferSizeAssumption DEF Slots
<1> QED BY <1>1, <1>2, <1>3, Wrap, BufferSizeAssumption DEF Slots

-----------------------------------------------------------------------------
(* Type correctness. *)

LEMMA InitTypeInv == Init => TypeInv
<1> SUFFICES ASSUME Init PROVE TypeInv
  OBVIOUS
<1>1. char_buffer \in [Slots -> Char \cup {NUL}]
  BY DEF Init
<1>2. start \in Slots /\ count \in 0 .. BUFFER_SIZE /\ loaded \in 0 .. BUFFER_SIZE
  BY BufferSizeAssumption DEF Init, Slots
<1>3. accepted \in Seq(Char) /\ delivered \in Seq(Char \cup {NUL})
  BY DEF Init
<1> QED
  BY <1>1, <1>2, <1>3 DEF Init, TypeInv, TypeOK, Flow, Locations, Between

LEMMA StepTypeInv == TypeInv /\ [Next]_vars => TypeInv'
<1> SUFFICES ASSUME TypeInv, [Next]_vars PROVE TypeInv'
  OBVIOUS
<1> USE BufferSizeAssumption
        DEF TypeInv, TypeOK, Flow, Between, Locations, ringVars, callVars
<1>1. ASSUME KeyArrives PROVE TypeInv'
  <2> PICK ch \in Char : buffer_put(ch)
    BY <1>1 DEF KeyArrives
  <2>1. CASE count # BUFFER_SIZE
    <3>1. NextSlot \in Slots
      <4>1. start + count \in Int
        BY DEF Slots
      <4> QED BY ONLY <4>1, SlotRange DEF NextSlot
    <3>2. char_buffer' \in [Slots -> Char \cup {NUL}]
      BY <2>1, <3>1 DEF buffer_put
    <3>3. accepted' \in Seq(Char)
      BY <2>1 DEF buffer_put
    <3>4. /\ count' = count + 1 /\ count' \in 0 .. BUFFER_SIZE
          /\ UNCHANGED <<start, pc, blocking, c, loaded, build, delivered>>
      BY <1>1, <2>1 DEF buffer_put, KeyArrives
    <3>5. raced' = (raced \/ pc \in Between)
      BY <2>1 DEF buffer_put
    <3>6. raced' \in BOOLEAN /\ (~raced' => ~raced /\ pc \notin Between)
      BY ONLY <3>5, Zenon
    <3>7. TypeOK'
      BY <3>2, <3>3, <3>4, <3>6
    <3>8. Flow'
      BY <3>4, <3>6
    <3> QED BY <3>7, <3>8
  <2>2. CASE count = BUFFER_SIZE
    BY <1>1, <2>2 DEF buffer_put, KeyArrives
  <2> QED BY <2>1, <2>2
<1>2. ASSUME NEW b \in BOOLEAN, Call(b) PROVE TypeInv'
  BY <1>2 DEF Call
<1>3. ASSUME ReturnEmpty PROVE TypeInv'
  BY <1>3 DEF ReturnEmpty
<1>4. ASSUME StartWaiting PROVE TypeInv'
  BY <1>4 DEF StartWaiting
<1>5. ASSUME StopWaiting PROVE TypeInv'
  BY <1>5 DEF StopWaiting
<1>6. ASSUME Fetch PROVE TypeInv'
  BY <1>6 DEF Fetch
<1>7. ASSUME Advance PROVE TypeInv'
  <2>1. start + 1 \in Int /\ start' = (start + 1) % BUFFER_SIZE
    BY <1>7 DEF Advance, Slots
  <2>2. start' \in Slots
    BY ONLY <2>1, SlotRange
  <2> QED BY <1>7, <2>2 DEF Advance
<1>8. ASSUME Decrement PROVE TypeInv'
  BY <1>8 DEF Decrement, Return
<1>9. ASSUME Load PROVE TypeInv'
  BY <1>9 DEF Load
<1>10. ASSUME Store PROVE TypeInv'
  BY <1>10 DEF Store, Return
<1>11. ASSUME UNCHANGED vars PROVE TypeInv'
  BY <1>11 DEF vars
<1> QED
  BY <1>1, <1>2, <1>3, <1>4, <1>5, <1>6, <1>7, <1>8, <1>9, <1>10, <1>11
     DEF Next, Step

\* The indices of the buffer stay in range whatever the interleaving of the
\* keyboard interrupt with kgetc (char.c:113-145).
THEOREM TypeCorrect == Spec => []TypeOK
<1>1. TypeInv => TypeOK
  BY DEF TypeInv
<1> QED BY InitTypeInv, StepTypeInv, <1>1, PTL DEF Spec
-----------------------------------------------------------------------------
(* The order of the keys, and their number. *)

\* The slot of the oldest key is start.
LEMMA SlotAtZero == TypeOK => SlotAt(0) = start
<1> SUFFICES ASSUME TypeOK PROVE SlotAt(0) = start
  OBVIOUS
<1>1. /\ start + 0 = start
      /\ start + 0 \in 0 .. 2 * BUFFER_SIZE - 1 /\ start < BUFFER_SIZE
  BY BufferSizeAssumption DEF TypeOK, Slots
<1> QED BY ONLY <1>1, Wrap DEF SlotAt

\* A full buffer has no free slot; otherwise the slot buffer_put writes holds
\* no key.
LEMMA FreshSlot ==
  ASSUME TypeOK, count # BUFFER_SIZE, NEW i \in 0 .. count - 1
  PROVE  SlotAt(i) # NextSlot
<1>1. start \in Slots /\ count \in Slots /\ i \in Slots /\ i # count
  BY BufferSizeAssumption DEF TypeOK, Slots
<1> QED BY ONLY <1>1, SlotsDiffer DEF SlotAt, NextSlot

\* A step that leaves the keys and their histories alone, and does not move
\* kgetc past its updates, preserves the order.
LEMMA QuietStep ==
  ASSUME RingInv, TypeInv', UNCHANGED <<ringVars, accepted, delivered, raced, build>>,
         pc' \notin Between \cup {"advance"}, pc \notin Between
  PROVE  RingInv'
BY DEF RingInv, Fetched, FifoUnlessRaced, KeysAccounted, Pending, SlotAt, ringVars

LEMMA InitRingInv == Init => RingInv
<1> SUFFICES ASSUME Init PROVE RingInv
  OBVIOUS
<1>1. TypeInv
  BY InitTypeInv
<1>2. Fetched
  BY DEF Init, Fetched
<1>3. FifoUnlessRaced /\ KeysAccounted
  BY DEF Init, FifoUnlessRaced, KeysAccounted, Pending, Between
<1> QED BY <1>1, <1>2, <1>3 DEF RingInv

LEMMA KeyArrivesRingInv ==
  ASSUME RingInv, TypeInv', KeyArrives PROVE RingInv'
<1> USE DEF TypeInv
<1>1. UNCHANGED <<callVars, build, delivered>>
  BY DEF KeyArrives
<1> PICK ch \in Char : buffer_put(ch)
  BY DEF KeyArrives
<1>2. CASE count = BUFFER_SIZE
  BY <1>1, <1>2 DEF RingInv, buffer_put, Fetched, FifoUnlessRaced, KeysAccounted,
                    Pending, SlotAt, ringVars, callVars
<1>3. CASE count # BUFFER_SIZE
  <2>1. /\ char_buffer' = [char_buffer EXCEPT ![NextSlot] = ch]
        /\ count' = count + 1 /\ accepted' = Append(accepted, ch)
        /\ start' = start /\ pc' = pc /\ c' = c /\ build' = build
        /\ delivered' = delivered
    BY <1>1, <1>3 DEF buffer_put, callVars
  <2>2. raced' = (raced \/ pc \in Between)
    BY <1>3 DEF buffer_put
  <2>3. ~raced' => ~raced /\ pc \notin Between
    BY ONLY <2>2, Zenon
  <2>4. /\ count \in Nat /\ start \in Slots /\ char_buffer \in [Slots -> Char \cup {NUL}]
        /\ accepted \in Seq(Char) /\ delivered \in Seq(Char \cup {NUL})
    BY BufferSizeAssumption DEF RingInv, TypeOK
  <2>5. /\ Len(accepted') = Len(accepted) + 1
        /\ accepted'[Len(accepted) + 1] = ch
        /\ \A i \in 1 .. Len(accepted) : accepted'[i] = accepted[i]
    BY <2>1, <2>4
  <2>6. NextSlot \in Slots
    <3>1. start + count \in Int
      BY <2>4 DEF Slots
    <3> QED BY ONLY <3>1, SlotRange DEF NextSlot
  <2>7. char_buffer'[NextSlot] = ch
    BY <2>1, <2>4, <2>6
  <2>8. ASSUME NEW i \in 0 .. count - 1
        PROVE  char_buffer'[SlotAt(i)] = char_buffer[SlotAt(i)]
    <3>1. SlotAt(i) # NextSlot
      BY <1>3, FreshSlot DEF RingInv
    <3>2. start + i \in Int
      BY <2>4 DEF Slots
    <3>3. SlotAt(i) \in Slots
      BY ONLY <3>2, SlotRange DEF SlotAt
    <3> QED BY <2>1, <2>4, <3>1, <3>3
  <2>9. Fetched'
    <3> SUFFICES ASSUME pc' = "advance" PROVE c' = char_buffer'[start']
      BY DEF Fetched
    <3>1. count > 0 /\ c = char_buffer[start]
      BY <2>1 DEF RingInv, Flow, Fetched
    <3>2. SlotAt(0) = start
      BY SlotAtZero DEF RingInv
    <3> QED BY <2>1, <2>4, <2>8, <3>1, <3>2
  <2>10. KeysAccounted'
    <3>1. Len(accepted) \in Nat /\ Len(delivered) \in Nat
      BY <2>4
    <3>2. /\ Len(delivered) + count <= Len(accepted)
          /\ build = "rmw" => Len(delivered) + count = Len(accepted)
      BY DEF RingInv, KeysAccounted
    <3>3. /\ Len(delivered') = Len(delivered) /\ build' = build
          /\ count' = count + 1 /\ Len(accepted') = Len(accepted) + 1
      BY <2>1, <2>5
    <3> QED BY ONLY <2>4, <3>1, <3>2, <3>3 DEF KeysAccounted
  <2>11. FifoUnlessRaced'
    <3> SUFFICES ASSUME ~raced' PROVE FifoUnlessRaced'
      BY DEF FifoUnlessRaced
    <3>1. pc \notin Between /\ ~raced /\ Pending = count /\ Pending' = count + 1
      BY <2>1, <2>3 DEF Pending, Between
    <3>2. /\ Len(accepted) = Len(delivered) + count
          /\ \A i \in 1 .. Len(delivered) : accepted[i] = delivered[i]
          /\ \A i \in 0 .. count - 1 :
               accepted[Len(accepted) - count + 1 + i] = char_buffer[SlotAt(i)]
      BY <3>1 DEF RingInv, FifoUnlessRaced
    <3>3. Len(accepted') = Len(delivered') + count'
      BY <2>1, <2>4, <2>5, <3>2
    <3>4. \A i \in 1 .. Len(delivered') : accepted'[i] = delivered'[i]
      BY <2>1, <2>4, <2>5, <3>2
    <3>5. ASSUME NEW i \in 0 .. Pending' - 1
          PROVE  accepted'[Len(accepted') - Pending' + 1 + i] = char_buffer'[SlotAt(i)']
      <4>1. SlotAt(i)' = SlotAt(i)
        BY <2>1 DEF SlotAt
      <4>2. Len(accepted') - Pending' + 1 + i = Len(accepted) - count + 1 + i
        BY <2>4, <2>5, <3>1
      <4>3. CASE i = count
        <5>1. SlotAt(i) = NextSlot
          BY <4>3 DEF SlotAt, NextSlot
        <5>2. Len(accepted) - count + 1 + i = Len(accepted) + 1
          BY <2>4, <4>3
        <5> QED BY <2>5, <2>7, <4>1, <4>2, <5>1, <5>2
      <4>4. CASE i # count
        <5>1. i \in 0 .. count - 1
          BY <2>4, <3>1, <4>4
        <5>2. Len(accepted) - count + 1 + i \in 1 .. Len(accepted)
          BY <2>4, <3>2, <5>1
        <5> QED BY <2>5, <2>8, <3>2, <4>1, <4>2, <5>1, <5>2
      <4> QED BY <4>3, <4>4
    <3> QED BY <2>1, <3>1, <3>3, <3>4, <3>5 DEF FifoUnlessRaced
  <2> QED BY <2>9, <2>10, <2>11 DEF RingInv
<1> QED BY <1>2, <1>3
LEMMA AdvanceRingInv ==
  ASSUME RingInv, TypeInv', Advance PROVE RingInv'
<1>1. /\ pc = "advance" /\ pc' = "decrement" /\ start' = (start + 1) % BUFFER_SIZE
      /\ UNCHANGED <<char_buffer, count, c, build, accepted, delivered, raced>>
  BY DEF Advance
<1>2. /\ count \in 1 .. BUFFER_SIZE /\ start \in Slots
      /\ accepted \in Seq(Char) /\ delivered \in Seq(Char \cup {NUL})
  BY <1>1, BufferSizeAssumption DEF RingInv, TypeInv, TypeOK, Flow
<1>3. Fetched'
  BY <1>1 DEF Fetched
<1>4. KeysAccounted'
  BY <1>1 DEF RingInv, KeysAccounted
<1>5. FifoUnlessRaced'
  <2> SUFFICES ASSUME ~raced' PROVE FifoUnlessRaced'
    BY DEF FifoUnlessRaced
  <2>1. Pending = count /\ Pending' = count - 1
    BY <1>1 DEF Pending, Between
  <2>2. /\ Len(accepted) = Len(delivered) + count
        /\ \A i \in 1 .. Len(delivered) : accepted[i] = delivered[i]
        /\ \A i \in 0 .. count - 1 :
             accepted[Len(accepted) - count + 1 + i] = char_buffer[SlotAt(i)]
    BY <1>1, <2>1 DEF RingInv, FifoUnlessRaced
  <2>3. accepted[Len(delivered) + 1] = c
    <3>1. c = char_buffer[start]
      BY <1>1 DEF RingInv, Fetched
    <3>2. SlotAt(0) = start
      BY SlotAtZero DEF RingInv, TypeInv
    <3>3. Len(accepted) - count + 1 + 0 = Len(delivered) + 1
      BY <1>2, <2>2
    <3>4. accepted[Len(accepted) - count + 1 + 0] = char_buffer[SlotAt(0)]
      <4>1. 0 \in 0 .. count - 1
        BY <1>2
      <4> QED BY ONLY <2>2, <4>1
    <3> QED BY ONLY <3>1, <3>2, <3>3, <3>4
  <2>4. ASSUME NEW i \in 0 .. Pending' - 1
        PROVE  accepted'[Len(accepted') - Pending' + 1 + i] = char_buffer'[SlotAt(i)']
    <3>1. i \in Nat /\ i + 1 < BUFFER_SIZE /\ i + 1 \in 0 .. count - 1
      BY <1>2, <2>1, BufferSizeAssumption
    <3>2. SlotAt(i)' = SlotAt(i + 1)
      BY <1>1, <1>2, <3>1, SlotAdvances DEF SlotAt
    <3>3. Len(accepted') - Pending' + 1 + i = Len(accepted) - count + 1 + (i + 1)
      BY <1>1, <1>2, <2>1, <3>1
    <3> QED BY <1>1, <2>2, <3>1, <3>2, <3>3
  <2> QED BY <1>1, <2>2, <2>3, <2>4 DEF FifoUnlessRaced
<1> QED BY <1>3, <1>4, <1>5 DEF RingInv

\* kgetc returns: the last of its steps, whichever way "count--" was compiled.
LEMMA ReturnRingInv ==
  ASSUME RingInv, TypeInv', pc \in Between, Return,
         count' \in Nat, count' < count, (~raced \/ build = "rmw") => count' = count - 1
  PROVE  RingInv'
<1>1. /\ pc' = "idle" /\ delivered' = Append(delivered, c)
      /\ UNCHANGED <<char_buffer, start, c, build, accepted, raced>>
  BY DEF Return
<1>2. /\ count \in Nat /\ c \in Char \cup {NUL}
      /\ accepted \in Seq(Char) /\ delivered \in Seq(Char \cup {NUL})
  BY BufferSizeAssumption DEF RingInv, TypeInv, TypeOK
<1>3. /\ Len(accepted) \in Nat /\ Len(delivered) \in Nat
      /\ Len(delivered') = Len(delivered) + 1
      /\ delivered'[Len(delivered) + 1] = c
      /\ \A i \in 1 .. Len(delivered) : delivered'[i] = delivered[i]
  BY <1>1, <1>2
<1>4. Fetched'
  BY <1>1 DEF Fetched
<1>5. KeysAccounted'
  <2>1. /\ Len(delivered) + count <= Len(accepted)
        /\ build = "rmw" => Len(delivered) + count = Len(accepted)
    BY DEF RingInv, KeysAccounted
  <2>2. Len(delivered') + count' <= Len(accepted)
    BY <1>2, <1>3, <2>1
  <2>3. build = "rmw" => Len(delivered') + count' = Len(accepted)
    BY <1>2, <1>3, <2>1
  <2> QED BY <1>1, <2>2, <2>3 DEF KeysAccounted
<1>6. FifoUnlessRaced'
  <2> SUFFICES ASSUME ~raced' PROVE FifoUnlessRaced'
    BY DEF FifoUnlessRaced
  <2>1. ~raced /\ count' = count - 1 /\ Pending = count' /\ Pending' = count'
    BY <1>1 DEF Pending, Between
  <2>2. /\ Len(accepted) = Len(delivered) + count
        /\ \A i \in 1 .. Len(delivered) : accepted[i] = delivered[i]
        /\ accepted[Len(delivered) + 1] = c
        /\ \A i \in 0 .. count' - 1 :
             accepted[Len(accepted) - count' + 1 + i] = char_buffer[SlotAt(i)]
    BY <2>1 DEF RingInv, FifoUnlessRaced
  <2>3. Len(accepted') = Len(delivered') + count'
    BY <1>1, <1>2, <1>3, <2>1, <2>2
  <2>4. \A i \in 1 .. Len(delivered') : accepted'[i] = delivered'[i]
    BY <1>1, <1>2, <1>3, <2>2
  <2>5. \A i \in 0 .. Pending' - 1 :
          accepted'[Len(accepted') - Pending' + 1 + i] = char_buffer'[SlotAt(i)']
    BY <1>1, <2>1, <2>2 DEF SlotAt
  <2> QED BY <1>1, <2>3, <2>4, <2>5 DEF FifoUnlessRaced, Between
<1> QED BY <1>4, <1>5, <1>6 DEF RingInv

LEMMA StepRingInv == RingInv /\ [Next]_vars => RingInv'
<1> SUFFICES ASSUME RingInv, [Next]_vars PROVE RingInv'
  OBVIOUS
<1>0. TypeInv'
  BY StepTypeInv DEF RingInv
<1> USE DEF Between, ringVars, callVars
<1>1. ASSUME KeyArrives PROVE RingInv'
  BY <1>0, <1>1, KeyArrivesRingInv
<1>2. ASSUME NEW b \in BOOLEAN, Call(b) PROVE RingInv'
  BY <1>0, <1>2, QuietStep DEF Call
<1>3. ASSUME ReturnEmpty PROVE RingInv'
  BY <1>0, <1>3, QuietStep DEF ReturnEmpty
<1>4. ASSUME StartWaiting PROVE RingInv'
  BY <1>0, <1>4, QuietStep DEF StartWaiting
<1>5. ASSUME StopWaiting PROVE RingInv'
  BY <1>0, <1>5, QuietStep DEF StopWaiting
<1>6. ASSUME Fetch PROVE RingInv'
  BY <1>0, <1>6 DEF Fetch, RingInv, Fetched, FifoUnlessRaced, KeysAccounted, Pending, SlotAt
<1>7. ASSUME Advance PROVE RingInv'
  BY <1>0, <1>7, AdvanceRingInv
<1>8. ASSUME Decrement PROVE RingInv'
  <2>1. count \in Nat /\ count > 0
    BY <1>8, BufferSizeAssumption DEF Decrement, RingInv, TypeInv, TypeOK, Flow
  <2>2. pc \in Between /\ Return /\ count' = count - 1
    BY <1>8 DEF Decrement
  <2>3. count' \in Nat /\ count' < count
    BY <2>1, <2>2
  <2> QED BY <1>0, <2>2, <2>3, ReturnRingInv
<1>9. ASSUME Load PROVE RingInv'
  BY <1>0, <1>9 DEF Load, RingInv, Fetched, FifoUnlessRaced, KeysAccounted, Pending, SlotAt
<1>10. ASSUME Store PROVE RingInv'
  <2>1. /\ count \in Nat /\ loaded \in 1 .. count /\ build = "split"
        /\ ~raced => loaded = count
    BY <1>10, BufferSizeAssumption DEF Store, RingInv, TypeInv, TypeOK, Flow
  <2>2. pc \in Between /\ Return /\ count' = loaded - 1
    BY <1>10 DEF Store
  <2>3. count' \in Nat /\ count' < count
    BY <2>1, <2>2
  <2>4. ~raced \/ build = "rmw" => count' = count - 1
    BY <2>1, <2>2
  <2> QED BY <1>0, <2>2, <2>3, <2>4, ReturnRingInv
<1>11. ASSUME UNCHANGED vars PROVE RingInv'
  BY <1>0, <1>11
     DEF vars, RingInv, Fetched, FifoUnlessRaced, KeysAccounted, Pending, SlotAt
<1> QED
  BY <1>1, <1>2, <1>3, <1>4, <1>5, <1>6, <1>7, <1>8, <1>9, <1>10, <1>11
     DEF Next, Step

\* Until a key is stored between kgetc's updates of start and count, the keys
\* come out of the buffer in the order in which they went in, with none lost
\* (char.c:113-145).
THEOREM KeysInOrder == Spec => []FifoUnlessRaced
<1>1. RingInv => FifoUnlessRaced
  BY DEF RingInv
<1> QED BY InitRingInv, StepRingInv, <1>1, PTL DEF Spec

\* A race never makes kgetc return more keys than were stored, and loses no
\* key from count when "count--" is one instruction (char.c:143).
THEOREM KeysCounted == Spec => []KeysAccounted
<1>1. RingInv => KeysAccounted
  BY DEF RingInv
<1> QED BY InitRingInv, StepRingInv, <1>1, PTL DEF Spec

\* buffer_put never overwrites a key that kgetc has still to fetch
\* (char.c:113-119), whatever the interleaving.
THEOREM KeysNotOverwritten == Spec => PendingKeysKept
<1> DEFINE Kept == \A i \in 0 .. Pending - 1 :
                     char_buffer'[SlotAt(i)] = char_buffer[SlotAt(i)]
<1>1. ASSUME RingInv, Next PROVE Kept
  <2>1. ASSUME KeyArrives PROVE Kept
    <3> PICK ch \in Char : buffer_put(ch)
      BY <2>1 DEF KeyArrives
    <3>1. CASE count = BUFFER_SIZE
      BY <3>1 DEF buffer_put, ringVars
    <3>2. CASE count # BUFFER_SIZE
      <4> SUFFICES ASSUME NEW i \in 0 .. Pending - 1
                   PROVE  char_buffer'[SlotAt(i)] = char_buffer[SlotAt(i)]
        OBVIOUS
      <4>1. /\ i \in 0 .. count - 1 /\ start \in Int
            /\ char_buffer \in [Slots -> Char \cup {NUL}]
        BY <1>1, BufferSizeAssumption DEF Pending, RingInv, TypeInv, TypeOK, Slots
      <4>2. SlotAt(i) # NextSlot
        BY <1>1, <3>2, <4>1, FreshSlot DEF RingInv, TypeInv
      <4>3. start + i \in Int
        BY <4>1
      <4>4. SlotAt(i) \in Slots
        BY ONLY <4>3, SlotRange DEF SlotAt
      <4>5. char_buffer' = [char_buffer EXCEPT ![NextSlot] = ch]
        BY <3>2 DEF buffer_put
      <4> QED BY <4>1, <4>2, <4>4, <4>5
    <3> QED BY <3>1, <3>2
  <2>2. ASSUME NEW b \in BOOLEAN, Call(b) \/ Step PROVE Kept
    BY <2>2 DEF Call, Step, ReturnEmpty, StartWaiting, StopWaiting, Fetch, Advance,
                Decrement, Load, Store, Return, ringVars
  <2> QED BY <1>1, <2>1, <2>2 DEF Next
<1>2. RingInv /\ [Next]_vars => [Kept]_vars
  BY <1>1
<1> QED BY InitRingInv, StepRingInv, <1>2, PTL DEF Spec, PendingKeysKept

-----------------------------------------------------------------------------
(* The buffer implements the queue. *)

Chars == Char \cup {NUL}

\* What the invariant says of the queue that the buffer stands for.
QueuedFacts ==
  /\ Unfetched \in Nat /\ Unfetched <= count /\ Offset \in {0, 1}
  /\ Offset + Unfetched <= count
  /\ Queued \in Seq(Chars) /\ Len(Queued) = Unfetched
  /\ \A i \in 1 .. Unfetched : Queued[i] = char_buffer[SlotAt(Offset + i - 1)]

LEMMA QueuedType == TypeInv => QueuedFacts
<1> SUFFICES ASSUME TypeInv PROVE QueuedFacts
  OBVIOUS
<1>1. /\ Unfetched \in Nat /\ Unfetched <= count /\ Offset \in {0, 1}
      /\ Offset + Unfetched <= count
  BY BufferSizeAssumption DEF TypeInv, TypeOK, Flow, Unfetched, Offset, Between
<1>2. ASSUME NEW i \in 1 .. Unfetched
      PROVE  char_buffer[SlotAt(Offset + i - 1)] \in Chars
  <2>1. start + (Offset + i - 1) \in Int
    BY <1>1 DEF TypeInv, TypeOK, Slots
  <2>2. SlotAt(Offset + i - 1) \in Slots
    BY ONLY <2>1, SlotRange DEF SlotAt
  <2> QED BY <2>2 DEF TypeInv, TypeOK, Chars
<1>3. Queued \in [1 .. Unfetched -> Chars]
  BY <1>2 DEF Queued
<1>4. Queued \in Seq(Chars) /\ Len(Queued) = Unfetched
  BY <1>1, <1>3
<1> QED BY <1>1, <1>4 DEF Queued, QueuedFacts

LEMMA QueuedTypeNext == TypeInv' => QueuedFacts'
BY QueuedType, PTL

\* The values of the abstract variables before a race and after one.
LEMMA Abstract ==
  ASSUME TypeInv
  PROVE  /\ raced \in BOOLEAN
         /\ ~raced => raced = FALSE /\ QueueBar = Queued /\ OutBar = c
         /\ raced => raced = TRUE /\ QueueBar = <<>> /\ OutBar = 0
BY DEF TypeInv, TypeOK, QueueBar, OutBar, NUL

\* Two queues with the same keys are one.
LEMMA SameQueue ==
  ASSUME TypeInv, TypeInv', Unfetched' = Unfetched,
         \A i \in 1 .. Unfetched :
           char_buffer'[SlotAt(Offset + i - 1)'] = char_buffer[SlotAt(Offset + i - 1)]
  PROVE  Queued' = Queued
BY DEF Queued

LEMMA InitRefines == Init => Promise!Init
<1> SUFFICES ASSUME Init PROVE Promise!Init
  OBVIOUS
<1>1. TypeInv
  BY InitTypeInv
<1>2. Queued \in Seq(Chars) /\ Len(Queued) = 0
  BY <1>1, QueuedType DEF QueuedFacts, Init, Unfetched, Between
<1>3. Queued = <<>>
  BY <1>2, EmptySeq
<1> QED BY <1>3 DEF Init, Promise!Init, QueueBar, OutBar, NUL

LEMMA KeyArrivesRefines ==
  ASSUME RingInv, TypeInv', KeyArrives
  PROVE  Promise!Next \/ UNCHANGED Promise!queueVars
<1>1. UNCHANGED <<callVars, build, delivered>>
  BY DEF KeyArrives
<1> PICK ch \in Char : buffer_put(ch)
  BY DEF KeyArrives
<1>2. CASE count = BUFFER_SIZE
  BY <1>1, <1>2 DEF buffer_put, Promise!queueVars, QueueBar, OutBar, Queued, Unfetched,
                    Offset, SlotAt, ringVars, callVars
<1>3. CASE count # BUFFER_SIZE
  <2>1. /\ char_buffer' = [char_buffer EXCEPT ![NextSlot] = ch]
        /\ count' = count + 1 /\ start' = start /\ pc' = pc /\ c' = c
    BY <1>1, <1>3 DEF buffer_put, callVars
  <2>2. raced' = (raced \/ pc \in Between)
    BY <1>3 DEF buffer_put
  <2>3. raced \in BOOLEAN /\ count \in Nat /\ count < BUFFER_SIZE /\ start \in Slots
        /\ char_buffer \in [Slots -> Chars]
    BY <1>3, BufferSizeAssumption DEF RingInv, TypeInv, TypeOK, Chars
  <2>4. CASE raced
    <3>1. raced' = TRUE
      BY <2>2, <2>4, Zenon
    <3> QED BY <2>1, <2>3, <2>4, <3>1 DEF Promise!queueVars, QueueBar, OutBar
  <2>5. CASE ~raced /\ pc \in Between
    <3>1. raced' = TRUE
      BY <2>2, <2>5, Zenon
    <3>2. Promise!Lapse
      BY <2>5, <3>1 DEF Promise!Lapse, QueueBar, OutBar, NUL
    <3> QED BY <3>2 DEF Promise!Next
  <2>6. CASE ~raced /\ pc \notin Between
    <3>1. raced' = FALSE
      BY ONLY <2>2, <2>6, Zenon
    <3>2. /\ Unfetched' = Unfetched + 1 /\ Offset' = Offset
          /\ Offset + Unfetched = count
      BY <2>1, <2>3, <2>6 DEF Unfetched, Offset, Between
    <3>3. /\ Unfetched \in Nat /\ Unfetched <= count /\ Offset \in {0, 1}
          /\ Queued \in Seq(Chars) /\ Len(Queued) = Unfetched
          /\ \A i \in 1 .. Unfetched : Queued[i] = char_buffer[SlotAt(Offset + i - 1)]
      BY QueuedType DEF RingInv, QueuedFacts
    <3>4. /\ Queued' \in Seq(Chars) /\ Len(Queued') = Unfetched + 1
          /\ \A i \in 1 .. Unfetched + 1 :
               Queued'[i] = char_buffer'[SlotAt(Offset + i - 1)]
      <4>1. /\ Queued' \in Seq(Chars) /\ Len(Queued') = Unfetched'
            /\ \A i \in 1 .. Unfetched' :
                 Queued'[i] = char_buffer'[SlotAt(Offset + i - 1)']
        BY QueuedTypeNext DEF QueuedFacts
      <4> QED BY <2>1, <3>2, <4>1 DEF SlotAt
    <3>5. NextSlot \in Slots
      <4>1. start + count \in Int
        BY <2>3 DEF Slots
      <4> QED BY ONLY <4>1, SlotRange DEF NextSlot
    <3>6. Queued'[Unfetched + 1] = ch
      <4>1. Offset + (Unfetched + 1) - 1 = count
        BY <3>2, <3>3, <2>3
      <4>2. SlotAt(Offset + (Unfetched + 1) - 1) = NextSlot
        BY ONLY <4>1 DEF SlotAt, NextSlot
      <4> QED BY <2>1, <2>3, <3>3, <3>4, <3>5, <4>2
    <3>7. ASSUME NEW i \in 1 .. Unfetched PROVE Queued'[i] = Queued[i]
      <4>1. Offset + i - 1 \in 0 .. count - 1
        BY <2>3, <3>2, <3>3
      <4>2. SlotAt(Offset + i - 1) # NextSlot
        BY <1>3, <4>1, FreshSlot DEF RingInv, TypeInv
      <4>3. start + (Offset + i - 1) \in Int
        BY <2>3, <4>1 DEF Slots
      <4>4. SlotAt(Offset + i - 1) \in Slots
        BY ONLY <4>3, SlotRange DEF SlotAt
      <4>5. i \in 1 .. Unfetched + 1
        BY <3>3
      <4> QED BY <2>1, <2>3, <3>3, <3>4, <4>2, <4>4, <4>5
    <3>8. Queued' = Append(Queued, ch)
      <4>1. ch \in Chars
        BY DEF Chars
      <4>2. /\ Append(Queued, ch) \in Seq(Chars)
            /\ Len(Append(Queued, ch)) = Unfetched + 1
            /\ \A i \in 1 .. Unfetched : Append(Queued, ch)[i] = Queued[i]
            /\ Append(Queued, ch)[Unfetched + 1] = ch
        BY <3>3, <4>1, AppendProperties
      <4>3. \A i \in 1 .. Len(Queued') : Queued'[i] = Append(Queued, ch)[i]
        BY <3>3, <3>4, <3>6, <3>7, <4>2
      <4> QED BY <3>4, <4>2, <4>3, SeqEqual
    <3>9. Promise!Put
      <4>1. Len(Queued) < BUFFER_SIZE
        BY <2>3, <3>3, BufferSizeAssumption
      <4>2. QueueBar = Queued /\ QueueBar' = Append(Queued, ch) /\ OutBar' = OutBar
        BY <2>1, <2>6, <3>1, <3>8 DEF QueueBar, OutBar
      <4>3. raced' = raced
        BY <2>3, <2>6, <3>1
      <4> QED BY <2>6, <4>1, <4>2, <4>3 DEF Promise!Put
    <3> QED BY <3>9 DEF Promise!Next
  <2> QED BY <2>3, <2>4, <2>5, <2>6
<1> QED BY <1>2, <1>3
LEMMA FetchRefines ==
  ASSUME RingInv, TypeInv', Fetch
  PROVE  Promise!Next \/ UNCHANGED Promise!queueVars
<1>1. /\ pc = "fetch" /\ pc' = "advance" /\ c' = char_buffer[start]
      /\ UNCHANGED <<char_buffer, start, count, raced>>
  BY DEF Fetch, ringVars
<1>2. CASE raced
  BY <1>1, <1>2 DEF Promise!queueVars, QueueBar, OutBar
<1>3. CASE ~raced
  <2>1. /\ count \in Nat /\ count > 0 /\ start \in Slots
        /\ Unfetched = count /\ Offset = 0 /\ Unfetched' = count - 1 /\ Offset' = 1
    BY <1>1, BufferSizeAssumption
       DEF RingInv, TypeInv, TypeOK, Flow, Unfetched, Offset, Between
  <2>2. /\ Queued \in Seq(Chars) /\ Len(Queued) = count
        /\ \A i \in 1 .. count : Queued[i] = char_buffer[SlotAt(0 + i - 1)]
    BY <2>1, QueuedType DEF RingInv, QueuedFacts
  <2>3. /\ Queued' \in Seq(Chars) /\ Len(Queued') = count - 1
        /\ \A i \in 1 .. count - 1 : Queued'[i] = char_buffer[SlotAt(1 + i - 1)]
    <3>1. /\ Queued' \in Seq(Chars) /\ Len(Queued') = Unfetched'
          /\ \A i \in 1 .. Unfetched' :
               Queued'[i] = char_buffer'[SlotAt(Offset + i - 1)']
      BY QueuedTypeNext DEF QueuedFacts
    <3> QED BY <1>1, <2>1, <3>1 DEF SlotAt
  <2>4. Queued # <<>>
    BY <2>1, <2>2, EmptySeq
  <2>5. c' = Head(Queued)
    <3>1. SlotAt(0) = start
      BY SlotAtZero DEF RingInv, TypeInv
    <3>2. 0 + 1 - 1 = 0 /\ 1 \in 1 .. count
      BY <2>1
    <3>3. Queued[1] = char_buffer[start]
      BY <2>2, <3>1, <3>2
    <3> QED BY <1>1, <2>2, <2>4, <3>3
  <2>6. Queued' = Tail(Queued)
    <3>1. /\ Tail(Queued) \in Seq(Chars) /\ Len(Tail(Queued)) = count - 1
          /\ \A i \in 1 .. count - 1 : Tail(Queued)[i] = Queued[i + 1]
      BY <2>2, <2>4, HeadTailProperties
    <3>2. ASSUME NEW i \in 1 .. count - 1 PROVE Queued'[i] = Tail(Queued)[i]
      <4>1. i + 1 \in 1 .. count /\ 0 + (i + 1) - 1 = i /\ 1 + i - 1 = i
        BY <2>1
      <4> QED BY <2>2, <2>3, <3>1, <4>1, SMTT(30)
    <3> QED BY <2>3, <3>1, <3>2, SeqEqual
  <2>7. Promise!Take
    <3>1. QueueBar = Queued /\ QueueBar' = Queued' /\ OutBar' = c' /\ raced' = raced
      BY <1>1, <1>3 DEF QueueBar, OutBar
    <3> QED BY <1>3, <2>4, <2>5, <2>6, <3>1 DEF Promise!Take
  <2> QED BY <2>7 DEF Promise!Next
<1> QED BY <1>2, <1>3

LEMMA ReturnEmptyRefines ==
  ASSUME RingInv, TypeInv', ReturnEmpty
  PROVE  Promise!Next \/ UNCHANGED Promise!queueVars
<1>1. /\ pc = "test" /\ count = 0 /\ pc' = "idle" /\ c' = NUL
      /\ UNCHANGED <<char_buffer, start, count, raced>>
  BY DEF ReturnEmpty, ringVars
<1>2. CASE raced
  BY <1>1, <1>2 DEF Promise!queueVars, QueueBar, OutBar
<1>3. CASE ~raced
  <2>1. Unfetched = 0 /\ Unfetched' = 0
    BY <1>1 DEF Unfetched, Between
  <2>2. Queued = <<>>
    BY <2>1, QueuedType, EmptySeq DEF RingInv, QueuedFacts
  <2>3. Queued' = <<>>
    BY <2>1, QueuedTypeNext, EmptySeq DEF QueuedFacts
  <2>4. QueueBar = <<>> /\ QueueBar' = <<>> /\ OutBar' = 0 /\ raced' = raced
    BY <1>1, <1>3, <2>2, <2>3 DEF QueueBar, OutBar, NUL
  <2>5. Promise!TakeNothing
    BY <1>3, <2>4 DEF Promise!TakeNothing
  <2> QED BY <2>5 DEF Promise!Next
<1> QED BY <1>2, <1>3

\* A step that leaves alone the keys kgetc has not fetched is no step of the
\* queue.
LEMMA NoStep ==
  ASSUME RingInv, TypeInv', UNCHANGED <<c, raced, char_buffer>>,
         ~raced => /\ Unfetched' = Unfetched
                   /\ \A i \in 1 .. Unfetched :
                        SlotAt(Offset + i - 1)' = SlotAt(Offset + i - 1)
  PROVE  UNCHANGED Promise!queueVars
<1>1. CASE raced
  BY <1>1 DEF Promise!queueVars, QueueBar, OutBar
<1>2. CASE ~raced
  <2>1. Queued' = Queued
    BY <1>2 DEF Queued
  <2> QED BY <1>2, <2>1 DEF Promise!queueVars, QueueBar, OutBar
<1> QED BY <1>1, <1>2

LEMMA AdvanceNoStep ==
  ASSUME RingInv, TypeInv', Advance PROVE UNCHANGED Promise!queueVars
<1>1. /\ pc = "advance" /\ pc' = "decrement" /\ start' = (start + 1) % BUFFER_SIZE
      /\ UNCHANGED <<char_buffer, count, c, raced>>
  BY DEF Advance
<1>2. /\ start \in Slots /\ count \in 1 .. BUFFER_SIZE
      /\ Offset = 1 /\ Offset' = 0 /\ Unfetched = count - 1 /\ Unfetched' = count - 1
  BY <1>1, BufferSizeAssumption
     DEF RingInv, TypeInv, TypeOK, Flow, Offset, Unfetched, Between
<1>3. ASSUME NEW i \in 1 .. Unfetched
      PROVE  SlotAt(Offset + i - 1)' = SlotAt(Offset + i - 1)
  <2>1. i - 1 \in Nat /\ (i - 1) + 1 < BUFFER_SIZE
    BY <1>2, BufferSizeAssumption
  <2>2. (((start + 1) % BUFFER_SIZE) + (i - 1)) % BUFFER_SIZE
           = (start + ((i - 1) + 1)) % BUFFER_SIZE
    BY <1>2, <2>1, SlotAdvances
  <2>3. 0 + i - 1 = i - 1 /\ 1 + i - 1 = (i - 1) + 1
    BY <1>2
  <2>4. SlotAt(Offset + i - 1)' = (start' + (Offset' + i - 1)) % BUFFER_SIZE
    BY DEF SlotAt
  <2> QED BY <1>1, <1>2, <2>2, <2>3, <2>4 DEF SlotAt
<1> QED BY <1>1, <1>2, <1>3, NoStep

LEMMA StepRefines ==
  ASSUME RingInv, TypeInv', [Next]_vars
  PROVE  Promise!Next \/ UNCHANGED Promise!queueVars
<1> USE DEF ringVars, callVars
<1>1. ASSUME KeyArrives PROVE Promise!Next \/ UNCHANGED Promise!queueVars
  BY <1>1, KeyArrivesRefines
<1>2. ASSUME Fetch PROVE Promise!Next \/ UNCHANGED Promise!queueVars
  BY <1>2, FetchRefines
<1>3. ASSUME ReturnEmpty PROVE Promise!Next \/ UNCHANGED Promise!queueVars
  BY <1>3, ReturnEmptyRefines
<1>4. ASSUME Advance PROVE UNCHANGED Promise!queueVars
  BY <1>4, AdvanceNoStep
<1>5. ASSUME NEW b \in BOOLEAN, Call(b) \/ StartWaiting \/ StopWaiting \/ Load
      PROVE  UNCHANGED Promise!queueVars
  <2>1. /\ UNCHANGED <<c, raced, char_buffer, start, count>>
        /\ Offset' = Offset /\ Unfetched' = Unfetched
    BY <1>5 DEF Call, StartWaiting, StopWaiting, Load, Offset, Unfetched, Between
  <2> QED BY <2>1, NoStep DEF SlotAt
<1>6. ASSUME Decrement \/ Store PROVE UNCHANGED Promise!queueVars
  <2>1. UNCHANGED <<c, raced, char_buffer, start>> /\ pc \in Between /\ pc' = "idle"
    BY <1>6 DEF Decrement, Store, Return, Between
  <2>2. ~raced => count' = count - 1
    BY <1>6 DEF Decrement, Store, RingInv, TypeInv, Flow
  <2>3. Offset' = Offset /\ (~raced => Unfetched' = Unfetched)
    BY <2>1, <2>2 DEF Offset, Unfetched, Between
  <2> QED BY <2>1, <2>3, NoStep DEF SlotAt
<1>7. ASSUME UNCHANGED vars PROVE UNCHANGED Promise!queueVars
  <2>1. /\ UNCHANGED <<c, raced, char_buffer, start, count>>
        /\ Offset' = Offset /\ Unfetched' = Unfetched
    BY <1>7 DEF vars, Offset, Unfetched
  <2> QED BY <2>1, NoStep DEF SlotAt
<1> QED BY <1>1, <1>2, <1>3, <1>4, <1>5, <1>6, <1>7 DEF Next, Step

\* Until a race, buffer_put and kgetc (char.c:113-145) are the operations of a
\* bounded first-in first-out queue: every step of theirs is one step of the
\* queue or none.
THEOREM RingImplementsQueue == Spec => KeepsPromise
<1>1. RingInv => TypeInv
  BY DEF RingInv
<1>2. RingInv /\ TypeInv' /\ [Next]_vars => [Promise!Next]_(Promise!queueVars)
  BY StepRefines
<1> QED
  BY InitRingInv, StepRingInv, InitRefines, <1>1, <1>2, PTL
     DEF Spec, KeepsPromise, Promise!Spec

-----------------------------------------------------------------------------
(* Induction over the natural numbers, with a set in the place of a predicate. *)

LEMMA LeastElement ==
  ASSUME NEW T, T \subseteq Nat, T # {}
  PROVE  \E x \in T : \A y \in T : x <= y
<1>1. PICK x \in T : \A y \in T : <<y, x>> \notin OpToRel(<, Nat)
  BY WFMin, NatLessThanWellFounded, Zenon
<1>2. \A y \in T : ~(y < x)
  BY <1>1, Zenon DEF OpToRel
<1> QED BY <1>2, SMT

LEMMA SetInduction ==
  ASSUME NEW S, 0 \in S, \A n \in Nat : n \in S => n + 1 \in S
  PROVE  Nat \subseteq S
<1> SUFFICES ASSUME Nat \ S # {} PROVE FALSE
  OBVIOUS
<1>1. PICK x \in Nat \ S : \A y \in Nat \ S : x <= y
  BY LeastElement
<1>2. x - 1 \in Nat /\ x - 1 \in S
  BY <1>1
<1> QED BY <1>1, <1>2

-----------------------------------------------------------------------------
(* Filter. *)

\* What f says of the first n members of seq is what the recursion of Filter
\* says.
Filters(f, n, seq, S) ==
  /\ f[0] = <<>>
  /\ \A i \in 1 .. n : f[i] = IF seq[i] \in S THEN Append(f[i - 1], seq[i]) ELSE f[i - 1]

LEMMA FilterExists ==
  ASSUME NEW A, NEW seq \in Seq(A), NEW S
  PROVE  \E f \in [0 .. Len(seq) -> Seq(A)] : Filters(f, Len(seq), seq, S)
<1> DEFINE Good == {n \in Nat : n <= Len(seq) =>
                       \E f \in [0 .. n -> Seq(A)] : Filters(f, n, seq, S)}
<1>1. 0 \in Good
  <2>1. [i \in 0 .. 0 |-> <<>>] \in [0 .. 0 -> Seq(A)]
    BY EmptySeq
  <2>2. Filters([i \in 0 .. 0 |-> <<>>], 0, seq, S)
    BY DEF Filters
  <2> QED BY <2>1, <2>2
<1>2. ASSUME NEW n \in Nat, n \in Good PROVE n + 1 \in Good
  <2> SUFFICES ASSUME n + 1 <= Len(seq)
               PROVE  \E f \in [0 .. n + 1 -> Seq(A)] : Filters(f, n + 1, seq, S)
    OBVIOUS
  <2>1. PICK f \in [0 .. n -> Seq(A)] : Filters(f, n, seq, S)
    BY <1>2
  <2> DEFINE x == IF seq[n + 1] \in S THEN Append(f[n], seq[n + 1]) ELSE f[n]
             g == [i \in 0 .. n + 1 |-> IF i = n + 1 THEN x ELSE f[i]]
  <2>2. x \in Seq(A)
    <3>1. f[n] \in Seq(A) /\ seq[n + 1] \in A
      OBVIOUS
    <3> QED BY <3>1, AppendProperties
  <2> HIDE DEF x
  <2>3. g \in [0 .. n + 1 -> Seq(A)]
    BY <2>2
  <2>4. g[n + 1] = x /\ \A i \in 0 .. n : g[i] = f[i]
    OBVIOUS
  <2> HIDE DEF g
  <2>5. ASSUME NEW i \in 1 .. n + 1
        PROVE  g[i] = IF seq[i] \in S THEN Append(g[i - 1], seq[i]) ELSE g[i - 1]
    <3>1. CASE i = n + 1
      BY <2>4, <3>1 DEF x
    <3>2. CASE i # n + 1
      <4>1. i \in 1 .. n /\ i - 1 \in 0 .. n
        BY <3>2
      <4> QED BY <2>1, <2>4, <4>1 DEF Filters
    <3> QED BY <3>1, <3>2
  <2>6. Filters(g, n + 1, seq, S)
    BY <2>1, <2>4, <2>5 DEF Filters
  <2> QED BY <2>3, <2>6
<1> HIDE DEF Good
<1>3. Len(seq) \in Good
  BY <1>1, <1>2, SetInduction, LenProperties
<1> QED BY <1>3 DEF Good

LEMMA FilterIs ==
  ASSUME NEW A, NEW seq \in Seq(A), NEW S
  PROVE  \E f \in [0 .. Len(seq) -> Seq(A)] :
           Filters(f, Len(seq), seq, S) /\ Filter(seq, S) = f[Len(seq)]
<1> DEFINE kept[i \in 0 .. Len(seq)] ==
             IF i = 0 THEN <<>>
             ELSE IF seq[i] \in S THEN Append(kept[i - 1], seq[i]) ELSE kept[i - 1]
           Rec(f) == f = [i \in 0 .. Len(seq) |->
                            IF i = 0 THEN <<>>
                            ELSE IF seq[i] \in S THEN Append(f[i - 1], seq[i]) ELSE f[i - 1]]
<1>1. PICK f \in [0 .. Len(seq) -> Seq(A)] : Filters(f, Len(seq), seq, S)
  BY FilterExists
<1>2. Rec(f)
  <2>1. Len(seq) \in Nat
    OBVIOUS
  <2>2. ASSUME NEW i \in 0 .. Len(seq)
        PROVE  f[i] = IF i = 0 THEN <<>>
                      ELSE IF seq[i] \in S THEN Append(f[i - 1], seq[i]) ELSE f[i - 1]
    <3>1. CASE i = 0
      BY <1>1, <3>1 DEF Filters
    <3>2. CASE i # 0
      <4>1. i \in 1 .. Len(seq)
        BY <2>1, <3>2
      <4> QED BY <1>1, <3>2, <4>1 DEF Filters
    <3> QED BY <3>1, <3>2
  <2>3. DOMAIN f = 0 .. Len(seq) /\ f = [i \in 0 .. Len(seq) |-> f[i]]
    OBVIOUS
  <2> QED BY ONLY <2>2, <2>3
<1>3. kept = CHOOSE g : Rec(g)
  OBVIOUS
<1>4. Filter(seq, S) = kept[Len(seq)]
  BY DEF Filter
<1> HIDE DEF kept
<1>5. Rec(kept)
  BY <1>2, <1>3
<1>6. Len(seq) \in Nat
  OBVIOUS
<1> DEFINE Same == {n \in Nat : n <= Len(seq) => kept[n] = f[n]}
<1>7. 0 \in Same
  BY <1>5, <1>1, <1>6 DEF Filters
<1>8. ASSUME NEW n \in Nat, n \in Same PROVE n + 1 \in Same
  <2> SUFFICES ASSUME n + 1 <= Len(seq) PROVE kept[n + 1] = f[n + 1]
    OBVIOUS
  <2>1. kept[n] = f[n]
    BY <1>8
  <2>2. n + 1 \in 0 .. Len(seq) /\ n + 1 \in 1 .. Len(seq) /\ n + 1 # 0 /\ (n + 1) - 1 = n
    BY <1>6
  <2>3. kept[n + 1] = IF seq[n + 1] \in S THEN Append(kept[n], seq[n + 1]) ELSE kept[n]
    BY <1>5, <2>2
  <2>4. f[n + 1] = IF seq[n + 1] \in S THEN Append(f[n], seq[n + 1]) ELSE f[n]
    BY <1>1, <2>2 DEF Filters
  <2> QED BY <2>1, <2>3, <2>4
<1> HIDE DEF Same
<1>9. Len(seq) \in Same
  BY <1>6, <1>7, <1>8, SetInduction
<1> QED BY <1>1, <1>4, <1>6, <1>9 DEF Same

\* Two functions the recursion is true of agree.
LEMMA FiltersUnique ==
  ASSUME NEW n \in Nat, NEW seq, NEW S, NEW f, NEW g,
         Filters(f, n, seq, S), Filters(g, n, seq, S)
  PROVE  f[n] = g[n]
<1> DEFINE Same == {m \in Nat : m <= n => f[m] = g[m]}
<1>1. 0 \in Same
  BY DEF Filters
<1>2. ASSUME NEW m \in Nat, m \in Same PROVE m + 1 \in Same
  <2> SUFFICES ASSUME m + 1 <= n PROVE f[m + 1] = g[m + 1]
    OBVIOUS
  <2>1. f[m] = g[m] /\ m + 1 \in 1 .. n /\ (m + 1) - 1 = m
    BY <1>2
  <2> QED BY <2>1 DEF Filters
<1> HIDE DEF Same
<1>3. n \in Same
  BY <1>1, <1>2, SetInduction
<1> QED BY <1>3 DEF Same

LEMMA FilterEmpty == ASSUME NEW S PROVE Filter(<<>>, S) = <<>>
<1>1. <<>> \in Seq({}) /\ Len(<<>>) = 0
  OBVIOUS
<1>2. PICK f : Filters(f, Len(<<>>), <<>>, S) /\ Filter(<<>>, S) = f[Len(<<>>)]
  BY <1>1, FilterIs, Zenon
<1> QED BY <1>1, <1>2 DEF Filters

LEMMA FilterType ==
  ASSUME NEW A, NEW seq \in Seq(A), NEW S PROVE Filter(seq, S) \in Seq(A)
BY FilterIs, LenProperties

LEMMA FilterAppend ==
  ASSUME NEW A, NEW seq \in Seq(A), NEW x \in A, NEW S
  PROVE  Filter(Append(seq, x), S) =
           IF x \in S THEN Append(Filter(seq, S), x) ELSE Filter(seq, S)
<1> DEFINE longer == Append(seq, x)
           n == Len(seq)
<1>1. longer \in Seq(A) /\ Len(longer) = n + 1 /\ longer[n + 1] = x
      /\ \A i \in 1 .. n : longer[i] = seq[i]
  BY AppendProperties
<1>2. n \in Nat
  BY LenProperties
<1> HIDE DEF longer
<1>3. PICK f \in [0 .. n -> Seq(A)] : Filters(f, n, seq, S) /\ Filter(seq, S) = f[n]
  BY FilterIs
<1>4. PICK g \in [0 .. n + 1 -> Seq(A)] :
        Filters(g, n + 1, longer, S) /\ Filter(longer, S) = g[n + 1]
  <2>1. \E g \in [0 .. Len(longer) -> Seq(A)] :
          Filters(g, Len(longer), longer, S) /\ Filter(longer, S) = g[Len(longer)]
    BY ONLY <1>1, FilterIs
  <2> QED BY ONLY <1>1, <2>1
<1> HIDE DEF n
<1>5. Filters(g, n, seq, S)
  <2>1. \A i \in 1 .. n : i \in 1 .. n + 1 /\ longer[i] = seq[i]
    BY <1>1, <1>2
  <2> QED BY ONLY <1>4, <2>1 DEF Filters
<1>6. g[n] = f[n]
  BY <1>2, <1>3, <1>5, FiltersUnique
<1>7. g[n + 1] = IF x \in S THEN Append(g[n], x) ELSE g[n]
  <2>1. n + 1 \in 1 .. n + 1 /\ (n + 1) - 1 = n
    BY <1>2
  <2> QED BY <1>1, <1>4, <2>1 DEF Filters
<1> QED BY <1>3, <1>4, <1>6, <1>7 DEF longer

-----------------------------------------------------------------------------
(* The decoding of one byte. *)

Flags == [lshift : 0 .. 1, rshift : 0 .. 1, capslock : 0 .. 1]

\* The bytes the keyboard sends.
Codes == DOMAIN Layout \cup Extended \cup Modifiers \cup {224}
           \cup {k + 128 : k \in Modifiers}

\* The entries of both tables that are cited: none for the modifiers, more
\* than 127 from Home to Delete.
LEMMA TableEntries ==
  /\ \A i \in {43, 55, 59} : table[i] = 0 /\ uppercase_table[i] = 0
  /\ \A i \in 72 .. 84 : table[i] \in 128 .. 255 /\ uppercase_table[i] = table[i]
<1>1. /\ keypad = [i \in 1 .. 30 |-> IF i <= 25 THEN 128 + i
                                     ELSE IF i = 29 THEN 154 ELSE IF i = 30 THEN 155 ELSE 0]
  BY DEF keypad
<1> QED BY <1>1 DEF table, uppercase_table

\* The character the handler decodes byte to, when the flags are m after it.
CharOf(m, byte) == AsChar(getchar(m, byte))

Capital(m) == 1 \in {m.lshift, m.rshift, m.capslock}

LEMMA Decoding ==
  ASSUME NEW m \in Flags, NEW b \in Codes
  PROVE  /\ b \in DOMAIN Layout =>
              /\ CharOf(m, b) = Layout[b][IF Capital(m) THEN 2 ELSE 1]
              /\ CharOf(m, b) \in Char \cap Printable
              /\ FlagsAfter(m, b) = m
         /\ b \in Extended => CharOf(m, b) \in Char \ Printable /\ FlagsAfter(m, b) = m
         /\ b \notin DOMAIN Layout \cup Extended => CharOf(m, b) = 0
         /\ b = 224 => FlagsAfter(m, b) = m
         /\ FlagsAfter(m, b) \in Flags
         /\ b \in 0 .. 255
<1> USE LayoutAssumption, ExtendedAssumption, ModifiersAssumption, CharAssumption
        DEF NUL, CharOf, AsChar, getchar, Capital, Printable, LShiftDown, RShiftDown,
            CapsUp, LShiftUp, RShiftUp, Backspace, BACKSPACE
<1>0. ASSUME NEW k \in DOMAIN Layout PROVE k \notin 71 .. 83
  <2> SUFFICES ASSUME k \in 71 .. 83 PROVE FALSE
    OBVIOUS
  <2>1. k + 1 \in 72 .. 84 /\ k # 14
    OBVIOUS
  <2>2. table[k + 1] \in 128 .. 255
    BY ONLY <2>1, TableEntries
  <2>3. Layout[k] = <<table[k + 1], uppercase_table[k + 1]>> /\ Layout[k][1] \in 1 .. 127
    BY ONLY <2>1, LayoutAssumption DEF Backspace
  <2> QED BY ONLY <2>2, <2>3
<1>1. CASE b \in DOMAIN Layout
  <2>1. b \in 1 .. 88 /\ b \notin {42, 54, 58} /\ b \notin Extended
    BY <1>0, <1>1
  <2>2. FlagsAfter(m, b) = m
    BY <2>1 DEF FlagsAfter, Flags
  <2> QED BY <1>1, <2>1, <2>2, SMTT(30)
<1>2. CASE b \in Extended
  <2>1. b \in 71 .. 83 /\ b + 1 \in 72 .. 84
    BY <1>2
  <2>2. FlagsAfter(m, b) = m
    BY <2>1 DEF FlagsAfter, Flags
  <2>3. b \notin DOMAIN Layout
    BY <1>0, <2>1
  <2>4. \A x \in {table[b + 1], uppercase_table[b + 1]} : x \in 128 .. 255
    BY ONLY <2>1, TableEntries
  <2>5. getchar(m, b) \in 128 .. 255
    BY ONLY <2>1, <2>4 DEF getchar, Backspace
  <2>6. CharOf(m, b) \in Char \ Printable
    <3>1. CharOf(m, b) = getchar(m, b) - 256
      BY ONLY <2>5 DEF CharOf, AsChar
    <3>2. CharOf(m, b) \in -128 .. 127 /\ CharOf(m, b) < 0
      BY ONLY <2>5, <3>1
    <3>3. CharOf(m, b) \in Char
      BY ONLY <3>2, CharAssumption DEF NUL
    <3>4. CharOf(m, b) \notin Printable
      BY ONLY <3>2 DEF Printable
    <3> QED BY ONLY <3>3, <3>4
  <2> QED BY ONLY <1>2, <2>1, <2>2, <2>3, <2>6
<1>3. CASE b \in Modifiers
  <2>1. b \in {42, 54, 58} /\ b + 1 \in {43, 55, 59}
    BY <1>3
  <2>2. FlagsAfter(m, b) \in Flags
    BY DEF FlagsAfter, Flags
  <2> QED BY <2>1, <2>2, TableEntries, SMTT(30)
<1>4. CASE b \in {224} \cup {k + 128 : k \in Modifiers}
  <2>1. b \in {224, 170, 182, 186}
    BY <1>4
  <2>2. FlagsAfter(m, b) \in Flags /\ (b = 224 => FlagsAfter(m, b) = m)
    BY DEF FlagsAfter, Flags
  <2> QED BY <2>1, <2>2, SMTT(30)
<1> QED BY <1>1, <1>2, <1>3, <1>4 DEF Codes

-----------------------------------------------------------------------------
(* The bytes on the wire, decoded one after the other. *)

\* The flags, the number of characters stored and the printable ones.
State == [flags : Flags, room : Nat, typed : Seq(Printable)]

\* The state once the handler has had byte in state s, with room in the buffer.
After(s, byte) ==
  LET m == FlagsAfter(s.flags, byte)
      ch == CharOf(m, byte)
  IN  [flags |-> m,
       room |-> IF Stored(ch) THEN s.room + 1 ELSE s.room,
       typed |-> IF ch \in Printable THEN Append(s.typed, ch) ELSE s.typed]

\* h[i] is the state before byte i of w, and the last one that after them all.
Chain(h, w) ==
  /\ h \in [1 .. Len(w) + 1 -> State]
  /\ \A i \in 1 .. Len(w) : h[i + 1] = After(h[i], w[i])

LEMMA AfterType ==
  ASSUME NEW s \in State, NEW b \in Codes PROVE After(s, b) \in State
<1>1. s.flags \in Flags /\ s.room \in Nat /\ s.typed \in Seq(Printable)
  BY DEF State
<1>2. FlagsAfter(s.flags, b) \in Flags
  BY <1>1, Decoding
<1>3. \A ch \in Printable : Append(s.typed, ch) \in Seq(Printable)
  BY <1>1, AppendProperties
<1> QED BY <1>1, <1>2, <1>3 DEF After, State

\* Another byte is sent.
LEMMA ChainAppend ==
  ASSUME NEW w \in Seq(Codes), NEW h, Chain(h, w), NEW b \in Codes
  PROVE  \E g : /\ Chain(g, Append(w, b))
                /\ \A i \in 1 .. Len(w) + 1 : g[i] = h[i]
                /\ g[Len(Append(w, b)) + 1] = After(h[Len(w) + 1], b)
<1> DEFINE n == Len(w)
           longer == Append(w, b)
           g == [i \in 1 .. n + 2 |-> IF i = n + 2 THEN After(h[n + 1], b) ELSE h[i]]
<1>1. /\ n \in Nat /\ Len(longer) = n + 1 /\ longer[n + 1] = b
      /\ \A i \in 1 .. n : longer[i] = w[i]
  BY AppendProperties, LenProperties
<1>2. h \in [1 .. n + 1 -> State] /\ \A i \in 1 .. n : h[i + 1] = After(h[i], w[i])
  BY DEF Chain
<1> HIDE DEF n, longer
<1>3. n + 1 \in 1 .. n + 1 /\ h[n + 1] \in State
  BY <1>1, <1>2
<1>4. After(h[n + 1], b) \in State
  BY <1>3, AfterType
<1>5. g \in [1 .. n + 2 -> State]
  BY <1>1, <1>2, <1>4
<1>6. g[n + 2] = After(h[n + 1], b) /\ \A i \in 1 .. n + 1 : g[i] = h[i]
  BY <1>1
<1> HIDE DEF g
<1>7. ASSUME NEW i \in 1 .. n + 1 PROVE g[i + 1] = After(g[i], longer[i])
  <2>1. CASE i = n + 1
    BY <1>1, <1>3, <1>6, <2>1
  <2>2. CASE i # n + 1
    <3>1. i \in 1 .. n /\ i + 1 \in 1 .. n + 1
      BY <1>1, <2>2
    <3> QED BY <1>1, <1>2, <1>6, <3>1
  <2> QED BY <2>1, <2>2
<1>8. Chain(g, longer)
  <2>1. (n + 1) + 1 = n + 2
    BY <1>1
  <2> QED BY ONLY <1>1, <1>5, <1>7, <2>1 DEF Chain
<1>9. g[Len(longer) + 1] = After(h[n + 1], b)
  BY <1>1, <1>6
<1> QED BY ONLY <1>6, <1>8, <1>9 DEF longer, n

\* The first byte is handled.
LEMMA ChainTail ==
  ASSUME NEW w \in Seq(Codes), NEW h, Chain(h, w), w # <<>>
  PROVE  \E g : /\ Chain(g, Tail(w))
                /\ \A i \in 1 .. Len(w) : g[i] = h[i + 1]
                /\ h[2] = After(h[1], Head(w))
<1> DEFINE n == Len(w)
           g == [i \in 1 .. n |-> h[i + 1]]
<1>1. /\ n \in Nat \ {0} /\ Len(Tail(w)) = n - 1 /\ Head(w) = w[1]
      /\ \A i \in 1 .. n - 1 : Tail(w)[i] = w[i + 1]
  BY HeadTailProperties, EmptySeq, LenProperties
<1>2. h \in [1 .. n + 1 -> State] /\ \A i \in 1 .. n : h[i + 1] = After(h[i], w[i])
  BY DEF Chain
<1> HIDE DEF n
<1>3. g \in [1 .. n -> State] /\ \A i \in 1 .. n : g[i] = h[i + 1]
  BY <1>1, <1>2
<1> HIDE DEF g
<1>4. ASSUME NEW i \in 1 .. n - 1 PROVE g[i + 1] = After(g[i], Tail(w)[i])
  <2>1. i \in 1 .. n /\ i + 1 \in 1 .. n
    BY <1>1
  <2> QED BY <1>1, <1>2, <1>3, <2>1
<1>5. Chain(g, Tail(w))
  <2>1. (n - 1) + 1 = n
    BY <1>1
  <2> QED BY ONLY <1>1, <1>3, <1>4, <2>1 DEF Chain
<1>6. h[2] = After(h[1], Head(w))
  BY <1>1, <1>2
<1> QED BY <1>3, <1>5, <1>6 DEF n

-----------------------------------------------------------------------------
(* The invariant. *)

\* The types of what KeyRing does not have.
Types ==
  /\ held \subseteq Modifiers /\ capsPresses \in 0 .. 1
  /\ wire \in Seq(Codes) /\ Len(wire) <= MaxWire
  /\ presses \in 0 .. MaxKeys
  /\ typed \in Seq(Printable)
  /\ dropped \in BOOLEAN
  /\ flags \in Flags

ReadTypes ==
  /\ rd \in {"user", "first", "rest"}
  /\ rd = "user" => pc = "idle"
  /\ size \in Sizes \cup {0}
  /\ output \in Seq(Char \cup {NUL}) /\ Len(output) <= size
  /\ received \in Seq(Char \cup {NUL})
  /\ rd # "rest" => output = <<>>

\* The flags that say what the keyboard does.
KeyFlags ==
  [lshift |-> IF LShiftDown \in held THEN 1 ELSE 0,
   rshift |-> IF RShiftDown \in held THEN 1 ELSE 0,
   capslock |-> capsPresses]

\* Decoding what is on the wire leads from what the handler has done to what
\* the keyboard has.
Links(h) ==
  /\ Chain(h, wire)
  /\ h[1].flags = flags
  /\ Len(accepted) <= h[1].room
  /\ ~dropped => h[1].typed = Filter(accepted, Printable)
  /\ \A i \in 1 .. Len(wire) + 1 : h[i].room <= presses
  /\ h[Len(wire) + 1].flags = KeyFlags
  /\ h[Len(wire) + 1].typed = typed

Decoded == \E h : Links(h)

NoBackspace == \A i \in 1 .. Len(accepted) : accepted[i] # BACKSPACE

\* The keys kgetc returned are those of the calls that returned, those in the
\* program's buffer and the one sys_read has still to look at.
Kept == received \o Filter(output, Char)
Ordered ==
  ~raced /\ NoBackspace =>
    delivered = IF rd # "user" /\ pc = "idle" /\ c # NUL THEN Append(Kept, c) ELSE Kept

\* Only the keys, the handler and read change these.
KbInv == RingInv /\ Types /\ ReadTypes /\ Decoded /\ Ordered

LEMMA InitKbInv == KeyboardInit => KbInv
<1> SUFFICES ASSUME KeyboardInit PROVE KbInv
  OBVIOUS
<1> USE DEF KeyboardInit
<1>1. RingInv
  BY InitRingInv
<1>2. Types /\ ReadTypes
  <2>1. Len(<<>>) = 0 /\ \A S : <<>> \in Seq(S)
    OBVIOUS
  <2>2. held \subseteq Modifiers /\ capsPresses \in 0 .. 1
    OBVIOUS
  <2>3. wire \in Seq(Codes) /\ typed \in Seq(Printable)
    BY <2>1
  <2>4. Len(wire) <= MaxWire /\ presses \in 0 .. MaxKeys
    BY <2>1, MaxKeysAssumption, BoundsAssumption
  <2>5. flags \in Flags
    BY DEF Flags
  <2>6. dropped \in BOOLEAN
    BY Zenon
  <2>7. Types
    BY <2>2, <2>3, <2>4, <2>5, <2>6 DEF Types
  <2> QED BY <2>1, <2>7 DEF ReadTypes, Init
<1>3. accepted = <<>> /\ delivered = <<>>
  BY DEF Init
<1>4. Decoded
  <2> DEFINE h == [i \in 1 .. 1 |-> [flags |-> flags, room |-> 0, typed |-> <<>>]]
  <2>1. Len(wire) = 0 /\ Len(accepted) = 0 /\ Filter(accepted, Printable) = <<>>
    BY <1>3, FilterEmpty
  <2>2. h[1] = [flags |-> flags, room |-> 0, typed |-> <<>>] /\ h[1] \in State
    BY <1>2 DEF Types, State
  <2>3. h \in [1 .. 1 -> State]
    BY <2>2
  <2> HIDE DEF h
  <2>4. Chain(h, wire)
    BY <2>1, <2>3 DEF Chain
  <2>5. KeyFlags = flags
    BY DEF KeyFlags
  <2>6. Links(h)
    BY <2>1, <2>2, <2>4, <2>5 DEF Links
  <2> QED BY <2>6 DEF Decoded
<1>5. Ordered
  BY <1>3, FilterEmpty DEF Ordered, Kept
<1> QED BY <1>1, <1>2, <1>4, <1>5 DEF KbInv

\* The handler stores a key as KeyRing says.
LEMMA HandlerUsesRing ==
  ASSUME KbInv, irq1_interrupt_handler
  PROVE  [Next]_vars
<1> DEFINE b == Head(wire)
           ch == CharOf(flags', b)
<1>1. wire # <<>> /\ wire \in Seq(Codes) /\ flags \in Flags
  BY DEF irq1_interrupt_handler, KbInv, Types
<1>2. b \in Codes
  BY <1>1, HeadTailProperties
<1>3. flags' = FlagsAfter(flags, b) /\ flags' \in Flags
  BY <1>1, <1>2, Decoding DEF irq1_interrupt_handler
<1>4. CASE Stored(ch)
  <2>1. ch \in Char
    BY <1>2, <1>3, <1>4, Decoding DEF Stored
  <2>2. buffer_put(ch) /\ UNCHANGED <<callVars, build, delivered>>
    BY <1>4 DEF irq1_interrupt_handler, CharOf
  <2>3. Len(accepted) < MaxKeys
    <3>1. PICK h : Links(h)
      BY DEF KbInv, Decoded
    <3>2. h[2] = After(h[1], b)
      BY <1>1, <3>1, ChainTail DEF Links
    <3>3. h[1].flags = flags /\ Len(accepted) <= h[1].room
      BY <3>1 DEF Links
    <3>4. h[2].room = h[1].room + 1
      BY <1>3, <1>4, <3>2, <3>3 DEF After
    <3>5. Len(wire) \in Nat /\ Len(wire) > 0
      BY <1>1, LenProperties, EmptySeq
    <3>6. h[2].room <= presses /\ h[1] \in State
      BY <3>1, <3>5 DEF Links, Chain
    <3>7. Len(accepted) \in Nat
      BY LenProperties DEF KbInv, RingInv, TypeInv, TypeOK
    <3> QED BY <3>3, <3>4, <3>6, <3>7, MaxKeysAssumption DEF KbInv, Types, State
  <2>4. KeyArrives
    BY <2>1, <2>2, <2>3 DEF KeyArrives
  <2> QED BY <2>4 DEF Next
<1>5. CASE ~Stored(ch)
  <2>1. UNCHANGED vars
    BY <1>5 DEF irq1_interrupt_handler, CharOf, vars
  <2> QED BY <2>1
<1> QED BY <1>4, <1>5

LEMMA StepUsesRing ==
  ASSUME KbInv, [KeyboardNext]_allVars PROVE [Next]_vars
<1>0. blocking \in BOOLEAN
  BY DEF KbInv, RingInv, TypeInv, TypeOK
<1>1. ASSUME NEW k \in Keys, Press(k) \/ Release(k) PROVE [Next]_vars
  BY <1>1 DEF Press, Release
<1>2. ASSUME irq1_interrupt_handler PROVE [Next]_vars
  BY <1>2, HandlerUsesRing
<1>3. ASSUME NEW fd \in {STDIN, 1}, ReadRefused(fd) PROVE [Next]_vars
  BY <1>3 DEF ReadRefused
<1>4. ASSUME NEW fd, NEW n, ReadEnter(fd, n) PROVE [Next]_vars
  BY <1>4 DEF ReadEnter, Next
<1>5. ASSUME NEW bytes, ReadGoesOn(bytes) PROVE [Next]_vars
  BY <1>0, <1>5 DEF ReadGoesOn, Next
<1>6. ASSUME ReadStep PROVE [Next]_vars
  <2>1. CASE KgetcStep
    BY <2>1 DEF KgetcStep, Next
  <2>2. CASE ReadFirst
    BY <1>5, <2>2 DEF ReadFirst
  <2>3. CASE ReadNext
    BY <1>5, <2>3 DEF ReadNext
  <2> QED BY <1>6, <2>1, <2>2, <2>3 DEF ReadStep
<1>7. ASSUME UNCHANGED allVars PROVE [Next]_vars
  BY <1>7 DEF allVars
<1> QED BY <1>1, <1>2, <1>3, <1>4, <1>6, <1>7 DEF KeyboardNext

\* A modifier goes down, or up: one byte, no character.
LEMMA SendQuiet ==
  ASSUME KbInv, NEW b \in Codes, b \notin DOMAIN Layout \cup Extended,
         wire' = Append(wire, b), KeyFlags' = FlagsAfter(KeyFlags, b),
         presses' = presses, typed' = typed,
         UNCHANGED <<flags, accepted, dropped>>
  PROVE  Decoded'
<1>1. PICK h : Links(h)
  BY DEF KbInv, Decoded
<1> DEFINE n == Len(wire)
<1>2. wire \in Seq(Codes) /\ n \in Nat
  BY LenProperties DEF KbInv, Types
<1>3. /\ Chain(h, wire) /\ h[1].flags = flags /\ Len(accepted) <= h[1].room
      /\ ~dropped => h[1].typed = Filter(accepted, Printable)
      /\ \A i \in 1 .. n + 1 : h[i].room <= presses
      /\ h[n + 1].flags = KeyFlags /\ h[n + 1].typed = typed
  BY <1>1 DEF Links
<1>4. PICK g : /\ Chain(g, Append(wire, b))
               /\ \A i \in 1 .. n + 1 : g[i] = h[i]
               /\ g[Len(Append(wire, b)) + 1] = After(h[n + 1], b)
  BY <1>2, <1>3, ChainAppend
<1>5. Len(wire') = n + 1 /\ 1 \in 1 .. n + 1 /\ n + 1 \in 1 .. n + 1
  BY <1>2, AppendProperties
<1> HIDE DEF n
<1>6. h[n + 1] \in State
  BY <1>3, <1>5 DEF Chain, n
<1>7. CharOf(FlagsAfter(h[n + 1].flags, b), b) = 0
  <2>1. FlagsAfter(h[n + 1].flags, b) \in Flags
    BY <1>6, Decoding DEF State
  <2> QED BY <2>1, Decoding
<1>8. /\ g[n + 2].flags = FlagsAfter(KeyFlags, b)
      /\ g[n + 2].room = h[n + 1].room /\ g[n + 2].typed = typed
  <2>1. g[n + 2] = After(h[n + 1], b)
    BY <1>2, <1>4, <1>5
  <2> QED BY <1>3, <1>7, <2>1 DEF After, Stored, Printable
<1>9. ASSUME NEW i \in 1 .. n + 2 PROVE g[i].room <= presses
  <2>1. CASE i = n + 2
    BY <1>3, <1>5, <1>8, <2>1
  <2>2. CASE i # n + 2
    <3>1. i \in 1 .. n + 1
      BY <1>2, <2>2
    <3> QED BY <1>3, <1>4, <3>1
  <2> QED BY <2>1, <2>2
<1>10. (n + 1) + 1 = n + 2
  BY <1>2
<1>11. g[1] = h[1]
  BY <1>4, <1>5
<1>12. Links(g)'
  BY <1>3, <1>4, <1>5, <1>8, <1>9, <1>10, <1>11 DEF Links
<1> QED BY <1>12 DEF Decoded

\* A character key goes down: one byte, after the prefix if it has one.
LEMMA SendKey ==
  ASSUME KbInv, NEW k \in DOMAIN Layout \cup Extended,
         NEW w \in Seq(Codes), NEW h, Chain(h, w),
         h[1].flags = flags, Len(accepted) <= h[1].room,
         ~dropped => h[1].typed = Filter(accepted, Printable),
         \A i \in 1 .. Len(w) + 1 : h[i].room <= presses,
         h[Len(w) + 1].flags = KeyFlags, h[Len(w) + 1].typed = typed,
         wire' = Append(w, k), KeyFlags' = KeyFlags, presses' = presses + 1,
         typed' = IF k \in DOMAIN Layout THEN Append(typed, Meaning(k)) ELSE typed,
         UNCHANGED <<flags, accepted, dropped>>
  PROVE  Decoded'
<1> DEFINE n == Len(w)
<1>2. n \in Nat /\ k \in Codes /\ presses \in Nat
  BY LenProperties, MaxKeysAssumption DEF Codes, KbInv, Types
<1>4. PICK g : /\ Chain(g, Append(w, k))
               /\ \A i \in 1 .. n + 1 : g[i] = h[i]
               /\ g[Len(Append(w, k)) + 1] = After(h[n + 1], k)
  BY <1>2, ChainAppend
<1>5. Len(wire') = n + 1 /\ 1 \in 1 .. n + 1 /\ n + 1 \in 1 .. n + 1
  BY <1>2, AppendProperties
<1>6. /\ h[n + 1] \in State /\ h[n + 1].room \in Nat /\ KeyFlags \in Flags
      /\ \A i \in 1 .. n + 1 : h[i] \in State
  BY <1>5 DEF Chain, State
<1>7. /\ h[n + 1].flags = KeyFlags /\ h[n + 1].typed = typed
      /\ \A i \in 1 .. n + 1 : h[i].room <= presses
  OBVIOUS
<1> HIDE DEF n
<1>8. g[n + 2] = After(h[n + 1], k)
  BY <1>2, <1>4, <1>5
<1>9. Capital(KeyFlags) <=> held \cap {LShiftDown, RShiftDown} # {} \/ capsPresses = 1
  BY DEF Capital, KeyFlags, KbInv, Types
<1>10. FlagsAfter(KeyFlags, k) = KeyFlags
  BY <1>2, <1>6, Decoding
<1>11. g[n + 2].flags = KeyFlags
  BY <1>7, <1>8, <1>10 DEF After
<1>12. g[n + 2].room <= presses + 1
  BY <1>2, <1>5, <1>6, <1>7, <1>8 DEF After
<1>13. g[n + 2].typed = typed'
  <2>1. CASE k \in DOMAIN Layout
    <3>1. /\ CharOf(KeyFlags, k) = Layout[k][IF Capital(KeyFlags) THEN 2 ELSE 1]
          /\ CharOf(KeyFlags, k) \in Printable
      BY <1>2, <1>6, <2>1, Decoding
    <3>2. CharOf(KeyFlags, k) = Meaning(k)
      BY <1>9, <3>1 DEF Meaning
    <3> QED BY <1>7, <1>8, <1>10, <2>1, <3>1, <3>2 DEF After
  <2>2. CASE k \notin DOMAIN Layout
    <3>1. CharOf(KeyFlags, k) \notin Printable
      BY <1>2, <1>6, <2>2, Decoding
    <3> QED BY <1>7, <1>8, <1>10, <2>2, <3>1 DEF After
  <2> QED BY <2>1, <2>2
<1>14. ASSUME NEW i \in 1 .. n + 2 PROVE g[i].room <= presses + 1
  <2>1. CASE i = n + 2
    BY <1>12, <2>1
  <2>2. CASE i # n + 2
    <3>1. i \in 1 .. n + 1
      BY <1>2, <2>2
    <3>2. g[i].room <= presses /\ g[i].room \in Nat
      BY <1>4, <1>6, <1>7, <3>1 DEF State
    <3> QED BY <1>2, <3>2
  <2> QED BY <2>1, <2>2
<1>15. (n + 1) + 1 = n + 2
  BY <1>2
<1>16. g[1] = h[1]
  BY <1>4, <1>5
<1>17. Links(g)'
  BY <1>4, <1>5, <1>11, <1>13, <1>14, <1>15, <1>16 DEF Links
<1> QED BY <1>17 DEF Decoded

\* The flags before and after a modifier moves.
LEMMA KeyFlagsFollow ==
  ASSUME Types, NEW k \in Modifiers
  PROVE  /\ k \in {LShiftDown, RShiftDown, CapsUp - 128}
         /\ held' = held \cup {k} /\ capsPresses' = capsPresses
              => KeyFlags' = FlagsAfter(KeyFlags, k)
         /\ (/\ held' = held \ {k}
             /\ capsPresses' = IF k = CapsUp - 128 THEN 1 - capsPresses ELSE capsPresses)
              => KeyFlags' = FlagsAfter(KeyFlags, k + 128)
BY ModifiersAssumption
   DEF KeyFlags, FlagsAfter, LShiftDown, RShiftDown, CapsUp, LShiftUp, RShiftUp

\* No modifier has a character.
LEMMA ModifierHasNoCharacter ==
  ASSUME NEW k \in Modifiers
  PROVE  /\ {k, k + 128} \subseteq Codes
         /\ k \notin DOMAIN Layout \cup Extended
         /\ k + 128 \notin DOMAIN Layout \cup Extended
BY ModifiersAssumption, LayoutAssumption, ExtendedAssumption
   DEF Codes, LShiftDown, RShiftDown, CapsUp

LEMMA PressDecoded ==
  ASSUME KbInv, NEW k \in Keys, Press(k) PROVE Decoded' /\ Types'
<1>1. /\ UNCHANGED <<flags, accepted, dropped, capsPresses>>
      /\ wire' = wire \o Bytes(k) /\ Len(wire) + Len(Bytes(k)) <= MaxWire
  BY DEF Press, vars
<1>2. wire \in Seq(Codes) /\ 224 \in Codes /\ k \in Codes /\ Types
  BY DEF KbInv, Types, Codes, Keys
<1>3. wire' \in Seq(Codes) /\ Len(wire') <= MaxWire
  <2>1. Bytes(k) \in Seq(Codes)
    BY <1>2 DEF Bytes
  <2> QED BY <1>1, <1>2, <2>1, ConcatProperties
<1>4. CASE k \in Modifiers
  <2>1. /\ held' = held \cup {k} /\ presses' = presses /\ typed' = typed
    BY <1>4 DEF Press
  <2>2. k \notin DOMAIN Layout \cup Extended
    BY <1>4, ModifierHasNoCharacter
  <2>3. wire' = Append(wire, k)
    BY <1>1, <1>2, <2>2 DEF Bytes
  <2>4. KeyFlags' = FlagsAfter(KeyFlags, k)
    BY <1>1, <1>2, <1>4, <2>1, KeyFlagsFollow
  <2>5. Decoded'
    BY <1>1, <1>2, <2>1, <2>2, <2>3, <2>4, SendQuiet
  <2> QED BY <1>1, <1>2, <1>3, <1>4, <2>1, <2>5 DEF Types
<1>5. CASE k \notin Modifiers
  <2>1. /\ held' = held /\ presses < MaxKeys /\ presses' = presses + 1
        /\ typed' = IF k \in DOMAIN Layout THEN Append(typed, Meaning(k)) ELSE typed
    BY <1>5 DEF Press
  <2>2. k \in DOMAIN Layout \cup Extended
    BY <1>5 DEF Keys
  <2>3. KeyFlags' = KeyFlags
    BY <1>1, <2>1 DEF KeyFlags
  <2>4. typed' \in Seq(Printable)
    <3>1. ASSUME k \in DOMAIN Layout PROVE Meaning(k) \in Printable
      BY <3>1, LayoutAssumption DEF Meaning, Printable
    <3> QED BY <1>2, <2>1, <3>1, AppendProperties DEF Types
  <2>5. Types'
    BY <1>1, <1>2, <1>3, <2>1, <2>4, MaxKeysAssumption DEF Types
  <2>6. PICK h : Links(h)
    BY DEF KbInv, Decoded
  <2> DEFINE n == Len(wire)
  <2>7. /\ Chain(h, wire) /\ h[1].flags = flags /\ Len(accepted) <= h[1].room
        /\ ~dropped => h[1].typed = Filter(accepted, Printable)
        /\ \A i \in 1 .. n + 1 : h[i].room <= presses
        /\ h[n + 1].flags = KeyFlags /\ h[n + 1].typed = typed
    BY <2>6 DEF Links
  <2>8. CASE k \notin Extended
    <3>1. wire' = Append(wire, k)
      BY <1>1, <1>2, <2>8 DEF Bytes
    <3>2. Decoded'
      BY <1>1, <1>2, <2>1, <2>2, <2>3, <2>7, <3>1, SendKey
    <3> QED BY <2>5, <3>2
  <2>9. CASE k \in Extended
    <3> DEFINE w == Append(wire, 224)
    <3>1. wire' = Append(w, k)
      <4>1. wire' = wire \o <<224, k>>
        BY <1>1, <2>9 DEF Bytes
      <4> QED BY <1>2, <4>1
    <3>2. w \in Seq(Codes) /\ Len(w) = n + 1 /\ n \in Nat
      BY <1>2, AppendProperties, LenProperties
    <3>3. PICK g : /\ Chain(g, w)
                   /\ \A i \in 1 .. n + 1 : g[i] = h[i]
                   /\ g[Len(w) + 1] = After(h[n + 1], 224)
      BY <1>2, <2>7, ChainAppend
    <3> HIDE DEF w, n
    <3>4. 1 \in 1 .. n + 1 /\ n + 1 \in 1 .. n + 1 /\ g[1] = h[1]
      BY <3>2, <3>3
    <3>5. h[n + 1] \in State
      BY <2>7, <3>4 DEF Chain, n
    <3>6. g[n + 2] = h[n + 1]
      <4>1. FlagsAfter(h[n + 1].flags, 224) = h[n + 1].flags
        BY <1>2, <3>5, Decoding DEF State
      <4>2. 224 \notin DOMAIN Layout \cup Extended
        BY LayoutAssumption, ExtendedAssumption
      <4>3. CharOf(h[n + 1].flags, 224) = 0
        BY <1>2, <3>5, <4>2, Decoding DEF State
      <4>4. g[n + 2] = After(h[n + 1], 224)
        BY <3>2, <3>3
      <4>5. h[n + 1] = [flags |-> h[n + 1].flags, room |-> h[n + 1].room,
                        typed |-> h[n + 1].typed]
        BY <3>5 DEF State
      <4>6. ~Stored(0) /\ 0 \notin Printable
        BY DEF Stored, Printable
      <4>7. After(h[n + 1], 224) =
              [flags |-> h[n + 1].flags, room |-> h[n + 1].room, typed |-> h[n + 1].typed]
        BY ONLY <4>1, <4>3, <4>6, Zenon DEF After
      <4> QED BY ONLY <4>4, <4>5, <4>7
    <3>7. ASSUME NEW i \in 1 .. n + 2 PROVE g[i].room <= presses
      <4>1. CASE i = n + 2
        BY <2>7, <3>4, <3>6, <4>1 DEF n
      <4>2. CASE i # n + 2
        <5>1. i \in 1 .. n + 1
          BY <3>2, <4>2
        <5> QED BY <2>7, <3>3, <5>1 DEF n
      <4> QED BY <4>1, <4>2
    <3>8. Len(w) + 1 = n + 2
      BY <3>2
    <3>9. /\ h[n + 1].flags = KeyFlags /\ h[n + 1].typed = typed
          /\ h[1].flags = flags /\ Len(accepted) <= h[1].room
          /\ ~dropped => h[1].typed = Filter(accepted, Printable)
      BY <2>7 DEF n
    <3>10. Decoded'
      BY <1>1, <2>1, <2>2, <2>3, <3>1, <3>2, <3>3, <3>4, <3>6, <3>7, <3>8, <3>9, SendKey
    <3> QED BY <2>5, <3>10
  <2> QED BY <2>8, <2>9
<1> QED BY <1>4, <1>5

LEMMA ReleaseDecoded ==
  ASSUME KbInv, NEW k \in Keys, Release(k) PROVE Decoded' /\ Types'
<1>1. /\ UNCHANGED <<flags, accepted, dropped, presses, typed>>
      /\ wire' = Append(wire, k + 128) /\ Len(wire) < MaxWire
      /\ held' = held \ {k}
      /\ capsPresses' = IF k = CapsUp - 128 THEN 1 - capsPresses ELSE capsPresses
      /\ k \in held
  BY DEF Release, vars
<1>2. wire \in Seq(Codes) /\ Len(wire) \in Nat /\ k \in Modifiers /\ Types
  BY <1>1, LenProperties DEF KbInv, Types
<1>3. k + 128 \in Codes /\ k + 128 \notin DOMAIN Layout \cup Extended
  BY <1>2, ModifierHasNoCharacter
<1>4. KeyFlags' = FlagsAfter(KeyFlags, k + 128)
  BY <1>1, <1>2, KeyFlagsFollow
<1>5. Decoded'
  BY <1>1, <1>3, <1>4, SendQuiet
<1>6. wire' \in Seq(Codes) /\ Len(wire') = Len(wire) + 1
  BY <1>1, <1>2, <1>3, AppendProperties
<1>7. Types'
  BY <1>1, <1>2, <1>6, BoundsAssumption DEF Types
<1> QED BY <1>5, <1>7

LEMMA HandlerDecoded ==
  ASSUME KbInv, irq1_interrupt_handler PROVE Decoded' /\ Types'
<1> DEFINE b == Head(wire)
           ch == CharOf(flags', b)
           n == Len(wire)
<1>1. /\ wire # <<>> /\ wire' = Tail(wire) /\ flags' = FlagsAfter(flags, b)
      /\ UNCHANGED <<held, capsPresses, presses, typed>>
  BY DEF irq1_interrupt_handler
<1>2. wire \in Seq(Codes) /\ flags \in Flags /\ Types /\ dropped \in BOOLEAN
  BY DEF KbInv, Types
<1>3. /\ n \in Nat /\ n > 0 /\ b \in Codes /\ flags' \in Flags
      /\ wire' \in Seq(Codes) /\ Len(wire') = n - 1
  <2>1. n \in Nat /\ n > 0 /\ b \in Codes /\ wire' \in Seq(Codes) /\ Len(wire') = n - 1
    BY <1>1, <1>2, HeadTailProperties, EmptySeq, LenProperties
  <2> QED BY <1>1, <1>2, <2>1, Decoding
<1>4. KeyFlags' = KeyFlags
  BY <1>1 DEF KeyFlags
<1>5. PICK h : Links(h)
  BY DEF KbInv, Decoded
<1>6. /\ Chain(h, wire) /\ h[1].flags = flags /\ Len(accepted) <= h[1].room
      /\ ~dropped => h[1].typed = Filter(accepted, Printable)
      /\ \A i \in 1 .. n + 1 : h[i].room <= presses
      /\ h[n + 1].flags = KeyFlags /\ h[n + 1].typed = typed
  BY <1>5 DEF Links
<1>7. PICK g : /\ Chain(g, Tail(wire))
               /\ \A i \in 1 .. n : g[i] = h[i + 1]
               /\ h[2] = After(h[1], b)
  BY <1>1, <1>2, <1>6, ChainTail
<1>8. h[1] \in State
  BY <1>3, <1>6 DEF Chain
<1>9. /\ g[1] = h[2] /\ g[n] = h[n + 1]
      /\ \A i \in 1 .. n : g[i].room <= presses
  <2>1. 1 \in 1 .. n /\ n \in 1 .. n /\ \A i \in 1 .. n : i + 1 \in 1 .. n + 1
    BY <1>3
  <2> QED BY <1>6, <1>7, <2>1
<1>10. accepted \in Seq(Char) /\ Len(accepted) \in Nat
  BY LenProperties DEF KbInv, RingInv, TypeInv, TypeOK
<1> HIDE DEF n
<1>11. /\ h[2].flags = flags'
       /\ h[2].room = IF Stored(ch) THEN h[1].room + 1 ELSE h[1].room
       /\ h[2].typed = IF ch \in Printable THEN Append(h[1].typed, ch) ELSE h[1].typed
  BY <1>1, <1>6, <1>7 DEF After
<1>12. /\ Len(accepted') <= h[2].room
       /\ ~dropped' => h[2].typed = Filter(accepted', Printable)
       /\ dropped' \in BOOLEAN
  <2>1. CASE Stored(ch)
    <3>1. buffer_put(ch) /\ dropped' = (dropped \/ count = BUFFER_SIZE)
      BY <2>1 DEF irq1_interrupt_handler, CharOf
    <3>2. ch \in Char
      BY <1>3, <2>1, Decoding DEF Stored
    <3>3. CASE count = BUFFER_SIZE
      <4>1. dropped' = TRUE /\ accepted' = accepted
        BY <3>1, <3>3 DEF buffer_put
      <4> QED BY <1>6, <1>8, <1>10, <1>11, <2>1, <4>1 DEF State
    <3>4. CASE count # BUFFER_SIZE
      <4>1. dropped' = dropped /\ accepted' = Append(accepted, ch)
        BY <1>2, <3>1, <3>4 DEF buffer_put
      <4>2. Len(accepted') = Len(accepted) + 1
        BY <1>10, <3>2, <4>1, AppendProperties
      <4>3. Filter(accepted', Printable) =
              IF ch \in Printable THEN Append(Filter(accepted, Printable), ch)
              ELSE Filter(accepted, Printable)
        BY <1>10, <3>2, <4>1, FilterAppend
      <4>4. Len(accepted') <= h[2].room
        BY <1>6, <1>8, <1>10, <1>11, <2>1, <4>2 DEF State
      <4> QED BY <1>2, <1>6, <1>11, <4>1, <4>3, <4>4
    <3> QED BY <3>3, <3>4
  <2>2. CASE ~Stored(ch)
    <3>1. UNCHANGED <<accepted, dropped>>
      BY <2>2 DEF irq1_interrupt_handler, CharOf
    <3>2. ch \notin Printable
      BY <2>2 DEF Stored, Printable
    <3> QED BY <1>2, <1>6, <1>11, <2>2, <3>1, <3>2
  <2> QED BY <2>1, <2>2
<1>13. (n - 1) + 1 = n
  BY <1>3
<1>14. Links(g)'
  BY <1>1, <1>3, <1>4, <1>6, <1>7, <1>9, <1>11, <1>12, <1>13 DEF Links
<1>15. Types'
  <2>1. Len(wire') <= MaxWire
    BY <1>2, <1>3, BoundsAssumption DEF Types, n
  <2> QED BY <1>1, <1>2, <1>3, <1>12, <2>1 DEF Types
<1> QED BY <1>14, <1>15 DEF Decoded

\* A step of the keyboard or of the handler: kgetc and read stay as they are.
LEMMA OrderKept ==
  ASSUME KbInv, UNCHANGED <<pc, c, delivered, rd, size, output, received>>,
         ~raced' /\ NoBackspace' => ~raced /\ NoBackspace
  PROVE  ReadTypes' /\ Ordered'
BY DEF KbInv, ReadTypes, Ordered, Kept

LEMMA HandlerOrder ==
  ASSUME KbInv, irq1_interrupt_handler PROVE ReadTypes' /\ Ordered'
<1> DEFINE ch == AsChar(getchar(flags', Head(wire)))
<1>1. UNCHANGED <<pc, c, delivered, rd, size, output, received>>
  BY DEF irq1_interrupt_handler, callVars, readVars
<1>2. CASE Stored(ch) /\ count # BUFFER_SIZE
  <2>1. accepted' = Append(accepted, ch)
    BY <1>2 DEF irq1_interrupt_handler, buffer_put
  <2>2. raced' = (raced \/ pc \in Between)
    BY <1>2 DEF irq1_interrupt_handler, buffer_put
  <2>3. ~raced' => ~raced
    BY ONLY <2>2, Zenon
  <2>4. accepted \in Seq(Char)
    BY DEF KbInv, RingInv, TypeInv, TypeOK
  <2>5. /\ Len(accepted') = Len(accepted) + 1 /\ Len(accepted) \in Nat
        /\ \A i \in 1 .. Len(accepted) : accepted'[i] = accepted[i]
    BY <2>1, <2>4, LenProperties
  <2>6. NoBackspace' => NoBackspace
    BY <2>5 DEF NoBackspace, BACKSPACE
  <2> QED BY <1>1, <2>3, <2>6, OrderKept
<1>3. CASE ~(Stored(ch) /\ count # BUFFER_SIZE)
  <2>1. UNCHANGED <<accepted, raced>>
    BY <1>3 DEF irq1_interrupt_handler, buffer_put
  <2> QED BY <1>1, <2>1, OrderKept DEF NoBackspace
<1> QED BY <1>2, <1>3

LEMMA EnterOrder ==
  ASSUME KbInv, NEW fd, NEW n \in Sizes, ReadEnter(fd, n) PROVE ReadTypes' /\ Ordered'
<1>1. /\ rd = "user" /\ rd' = "first" /\ size' = n /\ pc = "idle" /\ pc' = "test"
      /\ UNCHANGED <<accepted, delivered, raced, c, output, received>>
  BY DEF ReadEnter, Call
<1>2. output = <<>> /\ n \in Nat /\ ReadTypes /\ Ordered
  BY <1>1, BoundsAssumption DEF KbInv, ReadTypes
<1>3. ReadTypes'
  BY <1>1, <1>2 DEF ReadTypes
<1>4. Ordered'
  BY <1>1, <1>2 DEF Ordered, Kept, NoBackspace
<1> QED BY <1>3, <1>4

\* kgetc returns keys only.
LEMMA ReturnsKey ==
  ASSUME KbInv, pc \in Between, ~raced PROVE c # NUL
<1>1. RingInv
  BY DEF KbInv
<1>2. /\ accepted \in Seq(Char) /\ delivered \in Seq(Char \cup {NUL})
      /\ count \in Nat /\ count > 0
  BY <1>1, BufferSizeAssumption DEF RingInv, TypeInv, TypeOK, Flow
<1>3. Len(accepted) = Len(delivered) + count /\ accepted[Len(delivered) + 1] = c
  BY <1>1 DEF RingInv, FifoUnlessRaced
<1>4. Len(delivered) + 1 \in 1 .. Len(accepted)
  BY <1>2, <1>3, LenProperties
<1>5. c \in Char
  BY <1>2, <1>3, <1>4
<1> QED BY <1>5, CharAssumption

LEMMA KgetcOrder ==
  ASSUME KbInv, KgetcStep PROVE ReadTypes' /\ Ordered'
<1>1. Step /\ UNCHANGED <<rd, size, output, received>>
  BY DEF KgetcStep, readVars
<1>2. ReadTypes /\ Ordered
  BY DEF KbInv
<1>3. pc # "idle" /\ UNCHANGED <<accepted, raced>>
  BY <1>1 DEF Step, ReturnEmpty, StartWaiting, StopWaiting, Fetch, Advance,
              Decrement, Load, Store, Return, ringVars
<1>4. rd # "user" /\ ReadTypes'
  BY <1>1, <1>2, <1>3 DEF ReadTypes
<1>5. Kept' = Kept /\ NoBackspace' = NoBackspace
  BY <1>1, <1>3 DEF Kept, NoBackspace
<1>6. ~raced /\ NoBackspace => delivered = Kept
  BY <1>2, <1>3 DEF Ordered
<1>7. CASE pc' # "idle"
  <2>1. delivered' = delivered
    BY <1>1, <1>7 DEF Step, ReturnEmpty, StartWaiting, StopWaiting, Fetch, Advance,
                      Decrement, Load, Store, Return
  <2> QED BY <1>3, <1>4, <1>5, <1>6, <1>7, <2>1 DEF Ordered
<1>8. CASE ReturnEmpty
  <2>1. delivered' = delivered /\ c' = NUL
    BY <1>8 DEF ReturnEmpty
  <2> QED BY <1>3, <1>4, <1>5, <1>6, <2>1 DEF Ordered
<1>9. CASE Return /\ pc \in Between
  <2>1. delivered' = Append(delivered, c) /\ c' = c /\ pc' = "idle"
    BY <1>9 DEF Return
  <2>2. ~raced => c # NUL
    BY <1>9, ReturnsKey
  <2> QED BY <1>1, <1>3, <1>4, <1>5, <1>6, <2>1, <2>2 DEF Ordered
<1> QED BY <1>1, <1>7, <1>8, <1>9
        DEF Step, StartWaiting, StopWaiting, Fetch, Advance, Decrement, Load, Store, Between

\* read has handled a byte: what kgetc returned is what it has kept.
LEMMA GoesOnOrder ==
  ASSUME KbInv, NEW bytes \in Seq(Char \cup {NUL}), ReadGoesOn(bytes),
         rd # "user", pc = "idle",
         ~raced /\ NoBackspace => delivered = received \o Filter(bytes, Char)
  PROVE  ReadTypes' /\ Ordered'
<1>1. /\ ReadTypes /\ received \in Seq(Char \cup {NUL}) /\ Len(bytes) \in Nat
      /\ size \in Sizes \cup {0} /\ size \in Nat
  BY BoundsAssumption, LenProperties DEF KbInv, ReadTypes
<1>2. CASE Len(bytes) < size
  <2>1. /\ rd' = "rest" /\ output' = bytes /\ pc' = "test"
        /\ UNCHANGED <<size, received, accepted, delivered, raced>>
    BY <1>2 DEF ReadGoesOn, Call
  <2>2. ReadTypes'
    BY <1>1, <1>2, <2>1 DEF ReadTypes
  <2> QED BY <2>1, <2>2 DEF Ordered, Kept, NoBackspace
<1>3. CASE ~(Len(bytes) < size)
  <2>1. /\ rd' = "user" /\ output' = <<>> /\ size' = 0
        /\ received' = received \o Filter(bytes, Char)
        /\ UNCHANGED <<pc, accepted, delivered, raced>>
    BY <1>3 DEF ReadGoesOn, vars, callVars
  <2>2. Filter(bytes, Char) \in Seq(Char \cup {NUL})
    BY FilterType
  <2>3. received' \in Seq(Char \cup {NUL})
    BY <1>1, <2>1, <2>2, ConcatProperties
  <2>4. Len(output') = 0 /\ output' \in Seq(Char \cup {NUL})
    BY <2>1
  <2>5. ReadTypes'
    BY <1>1, <2>1, <2>3, <2>4 DEF ReadTypes
  <2>6. Kept' = received'
    <3>1. Filter(output', Char) = <<>>
      BY <2>1, FilterEmpty
    <3> QED BY <2>3, <3>1 DEF Kept
  <2> QED BY <2>1, <2>5, <2>6 DEF Ordered, NoBackspace
<1> QED BY <1>2, <1>3

LEMMA FirstOrder ==
  ASSUME KbInv, ReadFirst PROVE ReadTypes' /\ Ordered'
<1>1. rd = "first" /\ pc = "idle" /\ ReadGoesOn(<<c>>)
  BY DEF ReadFirst
<1>2. c \in Char \cup {NUL} /\ output = <<>> /\ received \in Seq(Char \cup {NUL})
  BY <1>1 DEF KbInv, RingInv, TypeInv, TypeOK, ReadTypes
<1>3. <<c>> \in Seq(Char \cup {NUL}) /\ <<c>> = Append(<<>>, c)
      /\ <<>> \in Seq(Char \cup {NUL})
  BY <1>2
<1>4. Filter(<<c>>, Char) = IF c \in Char THEN <<c>> ELSE <<>>
  <2>1. Filter(Append(<<>>, c), Char) =
          IF c \in Char THEN Append(Filter(<<>>, Char), c) ELSE Filter(<<>>, Char)
    BY ONLY <1>2, <1>3, FilterAppend, ZenonT(30)
  <2>2. Filter(<<>>, Char) = <<>>
    BY FilterEmpty, Zenon
  <2> QED BY ONLY <1>3, <2>1, <2>2, Zenon
<1>5. c \in Char <=> c # NUL
  BY <1>2, CharAssumption
<1>6. Kept = received
  BY <1>2, FilterEmpty, ConcatEmptySeq DEF Kept
<1>7. received \o <<>> = received /\ received \o <<c>> = Append(received, c)
  BY <1>2
<1>8. ~raced /\ NoBackspace => delivered = received \o Filter(<<c>>, Char)
  BY <1>1, <1>4, <1>5, <1>6, <1>7 DEF KbInv, Ordered
<1> QED BY <1>1, <1>3, <1>8, GoesOnOrder

LEMMA NextOrder ==
  ASSUME KbInv, ReadNext PROVE ReadTypes' /\ Ordered'
<1> DEFINE bytes == IF c = BACKSPACE THEN SubSeq(output, 1, Len(output) - 1)
                    ELSE Append(output, c)
<1>1. rd = "rest" /\ pc = "idle" /\ ReadGoesOn(bytes)
  BY DEF ReadNext
<1>2. /\ c \in Char \cup {NUL} /\ output \in Seq(Char \cup {NUL})
      /\ received \in Seq(Char \cup {NUL}) /\ RingInv
      /\ accepted \in Seq(Char) /\ delivered \in Seq(Char \cup {NUL}) /\ count \in Nat
  BY BufferSizeAssumption DEF KbInv, RingInv, TypeInv, TypeOK, ReadTypes
<1>3. bytes \in Seq(Char \cup {NUL})
  <2>1. SubSeq(output, 1, Len(output) - 1) \in Seq(Char \cup {NUL})
    <3>1. Len(output) \in Nat /\ \A i \in 1 .. Len(output) - 1 : output[i] \in Char \cup {NUL}
      BY <1>2, ElementOfSeq, LenProperties
    <3> QED BY <1>2, <3>1
  <2> QED BY <1>2, <2>1, AppendProperties
<1>4. c \in Char <=> c # NUL
  BY <1>2, CharAssumption
<1>5. ASSUME ~raced, NoBackspace PROVE delivered = received \o Filter(bytes, Char)
  <2>1. delivered = IF c # NUL THEN Append(Kept, c) ELSE Kept
    BY <1>1, <1>5 DEF KbInv, Ordered
  <2>2. Filter(output, Char) \in Seq(Char \cup {NUL}) /\ Kept \in Seq(Char \cup {NUL})
    BY <1>2, FilterType, ConcatProperties DEF Kept
  <2>3. CASE c = NUL
    <3>1. bytes = Append(output, c) /\ c \notin Char
      BY <1>4, <2>3 DEF BACKSPACE, NUL
    <3>2. Filter(bytes, Char) = Filter(output, Char)
      BY ONLY <1>2, <3>1, FilterAppend
    <3> QED BY <2>1, <2>3, <3>2 DEF Kept
  <2>4. CASE c # NUL
    <3>1. /\ Len(delivered) \in Nat \ {0} /\ delivered[Len(delivered)] = c
      BY <2>1, <2>2, <2>4, <1>2, AppendProperties, LenProperties
    <3>2. /\ Len(accepted) = Len(delivered) + count
          /\ \A i \in 1 .. Len(delivered) : accepted[i] = delivered[i]
      BY <1>2, <1>5 DEF RingInv, FifoUnlessRaced
    <3>3. accepted[Len(delivered)] = c /\ Len(delivered) \in 1 .. Len(accepted)
      <4>1. Len(delivered) \in 1 .. Len(delivered)
        BY ONLY <3>1
      <4>2. Len(delivered) \in 1 .. Len(accepted)
        BY ONLY <1>2, <3>1, <3>2
      <4> QED BY ONLY <3>1, <3>2, <4>1, <4>2
    <3>4. c # BACKSPACE
      BY <1>5, <3>3 DEF NoBackspace
    <3>5. Filter(bytes, Char) = Append(Filter(output, Char), c)
      BY <1>2, <1>4, <2>4, <3>4, FilterAppend
    <3>6. received \o Append(Filter(output, Char), c) = Append(Kept, c)
      BY <1>2, <2>2 DEF Kept
    <3> QED BY <2>1, <2>4, <3>5, <3>6
  <2> QED BY <2>3, <2>4
<1> HIDE DEF bytes
<1> QED BY <1>1, <1>3, <1>5, GoesOnOrder

-----------------------------------------------------------------------------
(* The theorems. *)

LEMMA StepKbInv == KbInv /\ [KeyboardNext]_allVars => KbInv'
<1> SUFFICES ASSUME KbInv, [KeyboardNext]_allVars PROVE KbInv'
  OBVIOUS
<1>1. RingInv'
  BY StepUsesRing, StepRingInv DEF KbInv
<1> SUFFICES Decoded' /\ Types' /\ ReadTypes' /\ Ordered'
  BY <1>1 DEF KbInv
<1>2. ASSUME UNCHANGED <<flags, accepted, dropped, keyboardVars>>
      PROVE  Decoded' /\ Types'
  <2>1. KeyFlags' = KeyFlags
    BY <1>2 DEF KeyFlags, keyboardVars
  <2>2. \A h : Links(h) => Links(h)'
    BY <1>2, <2>1 DEF Links, keyboardVars
  <2>3. Types'
    BY <1>2 DEF KbInv, Types, keyboardVars
  <2> QED BY <2>2, <2>3 DEF KbInv, Decoded
<1>3. ASSUME NEW k \in Keys, Press(k) \/ Release(k)
      PROVE  Decoded' /\ Types' /\ ReadTypes' /\ Ordered'
  <2>1. UNCHANGED <<vars, readVars>>
    BY <1>3 DEF Press, Release
  <2>2. ReadTypes' /\ Ordered'
    BY <2>1, OrderKept DEF vars, callVars, readVars, NoBackspace
  <2> QED BY <1>3, <2>2, PressDecoded, ReleaseDecoded
<1>4. ASSUME irq1_interrupt_handler PROVE Decoded' /\ Types' /\ ReadTypes' /\ Ordered'
  BY <1>4, HandlerDecoded, HandlerOrder
<1>5. ASSUME NEW fd, ReadRefused(fd) PROVE Decoded' /\ Types' /\ ReadTypes' /\ Ordered'
  <2>1. UNCHANGED <<vars, keyboardVars, dropped, flags, rd, size, output, received>>
    BY <1>5 DEF ReadRefused
  <2>2. ReadTypes' /\ Ordered'
    BY <2>1, OrderKept DEF vars, callVars, NoBackspace
  <2> QED BY <1>2, <2>1, <2>2 DEF vars
<1>6. ASSUME NEW fd, NEW n \in Sizes, ReadEnter(fd, n)
      PROVE  Decoded' /\ Types' /\ ReadTypes' /\ Ordered'
  <2>1. UNCHANGED <<accepted, keyboardVars, dropped, flags>>
    BY <1>6 DEF ReadEnter, Call
  <2> QED BY <1>2, <1>6, <2>1, EnterOrder
<1>7. ASSUME ReadStep PROVE Decoded' /\ Types' /\ ReadTypes' /\ Ordered'
  <2>1. UNCHANGED <<keyboardVars, dropped, flags>>
    BY <1>7 DEF ReadStep, KgetcStep, ReadFirst, ReadNext, ReadGoesOn
  <2>2. accepted' = accepted
    BY <1>7 DEF ReadStep, KgetcStep, ReadFirst, ReadNext, ReadGoesOn, Call, vars,
                Step, ReturnEmpty, StartWaiting, StopWaiting, Fetch, Advance,
                Decrement, Load, Store, Return
  <2>3. ReadTypes' /\ Ordered'
    BY <1>7, KgetcOrder, FirstOrder, NextOrder DEF ReadStep
  <2> QED BY <1>2, <2>1, <2>2, <2>3
<1>8. ASSUME UNCHANGED allVars PROVE Decoded' /\ Types' /\ ReadTypes' /\ Ordered'
  <2>1. UNCHANGED <<vars, keyboardVars, dropped, flags, rd, size, output, received>>
    BY <1>8 DEF allVars, readVars
  <2>2. ReadTypes' /\ Ordered'
    BY <2>1, OrderKept DEF vars, callVars, NoBackspace
  <2> QED BY <1>2, <2>1, <2>2 DEF vars
<1> QED BY <1>3, <1>4, <1>5, <1>6, <1>7, <1>8 DEF KeyboardNext

\* The types of the whole input path.
THEOREM KeyboardTypeCorrect == KeyboardSpec => []KeyboardTypeOK
<1>1. KbInv => KeyboardTypeOK
  <2> SUFFICES ASSUME KbInv PROVE KeyboardTypeOK
    OBVIOUS
  <2>1. Codes \subseteq Byte
    <3>1. [lshift |-> 0, rshift |-> 0, capslock |-> 0] \in Flags
      BY DEF Flags
    <3> QED BY <3>1, Decoding DEF Byte
  <2>2. wire \in Seq(Byte)
    BY <2>1, SeqMonotonic DEF KbInv, Types
  <2> QED BY <2>2 DEF KbInv, RingInv, TypeInv, Types, ReadTypes, Flags, KeyboardTypeOK
<1> QED BY InitKbInv, StepKbInv, <1>1, PTL DEF KeyboardSpec

\* Every step of the handler of IRQ 1 (handler.c:128-152) and of sys_read
\* (posix.c:45-105) is a step of the buffer or leaves it alone: what is proved
\* of the buffer holds for every mix of keys and reads.
THEOREM InputUsesRing == KeyboardSpec => UsesRing
<1>1. KeyboardInit => Init
  BY DEF KeyboardInit
<1>2. KbInv /\ [KeyboardNext]_allVars => [Next]_vars
  BY StepUsesRing
<1> QED BY InitKbInv, StepKbInv, <1>1, <1>2, PTL DEF KeyboardSpec, UsesRing

\* Once it has seen every byte, getchar knows which shift keys are down and
\* which way caps lock is (char.c:56-95).
THEOREM FlagsAreKeys == KeyboardSpec => []FlagsFollowKeys
<1>1. KbInv => FlagsFollowKeys
  <2> SUFFICES ASSUME KbInv, wire = <<>>
               PROVE  /\ flags.lshift = 1 <=> LShiftDown \in held
                      /\ flags.rshift = 1 <=> RShiftDown \in held
                      /\ flags.capslock = capsPresses
    BY DEF FlagsFollowKeys
  <2>1. PICK h : Links(h)
    BY DEF KbInv, Decoded
  <2>2. flags = KeyFlags
    BY <2>1 DEF Links
  <2> QED BY <2>2 DEF KeyFlags
<1> QED BY InitKbInv, StepKbInv, <1>1, PTL DEF KeyboardSpec

\* What the handler stores is what was typed (handler.c:128-152), until the
\* buffer is full.
THEOREM TypedIsStored == KeyboardSpec => []StoredAsTyped
<1>1. KbInv => StoredAsTyped
  <2> SUFFICES ASSUME KbInv, wire = <<>>, ~dropped
               PROVE  Filter(accepted, Printable) = typed
    BY DEF StoredAsTyped
  <2>1. PICK h : Links(h)
    BY DEF KbInv, Decoded
  <2> QED BY <2>1 DEF Links
<1> QED BY InitKbInv, StepKbInv, <1>1, PTL DEF KeyboardSpec

\* kgetc and sys_read (char.c:124-145, posix.c:45-105) hand the keys to the
\* program in the order in which they were stored, each once.
THEOREM ReadInOrder == KeyboardSpec => []ReceivedInOrder
<1>1. KbInv => ReceivedInOrder
  <2> SUFFICES ASSUME KbInv, ~raced, rd = "user", NoBackspace
               PROVE  received = SubSeq(accepted, 1, Len(delivered))
    BY DEF ReceivedInOrder, NoBackspace
  <2>1. /\ received \in Seq(Char \cup {NUL}) /\ output = <<>>
        /\ accepted \in Seq(Char) /\ delivered \in Seq(Char \cup {NUL}) /\ count \in Nat
    BY BufferSizeAssumption DEF KbInv, ReadTypes, RingInv, TypeInv, TypeOK
  <2>2. Filter(output, Char) = <<>>
    BY <2>1, FilterEmpty
  <2>3. delivered = received
    BY <2>1, <2>2 DEF KbInv, Ordered, Kept
  <2>4. /\ Len(accepted) = Len(delivered) + count
        /\ \A i \in 1 .. Len(delivered) : accepted[i] = delivered[i]
    BY DEF KbInv, RingInv, FifoUnlessRaced
  <2> QED BY <2>1, <2>3, <2>4
<1> QED BY InitKbInv, StepKbInv, <1>1, PTL DEF KeyboardSpec
=============================================================================
