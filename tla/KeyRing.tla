------------------------------- MODULE KeyRing -------------------------------
(***************************************************************************)
(* The keyboard buffer of kernel/char.c: buffer_put, which the keyboard    *)
(* interrupt runs, and kgetc, which a system call runs.                    *)
(*                                                                         *)
(* The kernel has one processor.  IRQ 1 is an interrupt gate (IDT.c:82),   *)
(* so its handler runs to the end without being interrupted: it is one     *)
(* action.  The system call gate is a trap gate (IDT.c:84): interrupts     *)
(* stay enabled while kgetc runs, so kgetc is a sequence of steps, one for *)
(* each access to the volatile variables start and count, and the handler  *)
(* may run between any two of them.                                        *)
(***************************************************************************)
EXTENDS Integers, Sequences

CONSTANTS Char,          \* the characters the interrupt handler stores
          BUFFER_SIZE,   \* the number of slots of char_buffer
          Builds,        \* how "count--" is compiled, see build
          MaxKeys        \* bound: keys stored in one behaviour

ASSUME BufferSizeAssumption == BUFFER_SIZE \in Nat \ {0}
ASSUME BuildsAssumption == Builds \subseteq {"rmw", "split"}
ASSUME MaxKeysAssumption == MaxKeys \in Nat

VARIABLES char_buffer,   \* the slots
          start, count,  \* index of the oldest key, number of keys
          pc,            \* where kgetc is, "idle" when it is not running
          blocking,      \* the parameter of the call in progress
          c,             \* kgetc's local c, its result when it returns
          loaded,        \* the register a split "count--" works on
          build,         \* "rmw" if "count--" is one read-modify-write
                         \* instruction, "split" if it is a load and a store;
                         \* C allows both for a volatile int
          accepted,      \* history: the keys buffer_put stored, in order
          delivered,     \* history: the keys kgetc returned, in order
          raced          \* history: a key was stored between kgetc's
                         \* update of start and its update of count

ringVars == <<char_buffer, start, count>>
callVars == <<pc, blocking, c, loaded>>
vars == <<ringVars, callVars, build, accepted, delivered, raced>>

Slots == 0 .. BUFFER_SIZE - 1

\* The value of a slot nobody wrote, and kgetc's answer when there is no key.
NUL == 0

\* The steps of kgetc at which it has moved start but not yet count.
Between == {"decrement", "store"}

Locations == {"idle", "test", "spin", "fetch", "advance"} \cup Between

Init == /\ char_buffer = [s \in Slots |-> NUL]
        /\ start = 0 /\ count = 0
        /\ pc = "idle" /\ blocking = FALSE /\ c = NUL /\ loaded = 0
        /\ build \in Builds
        /\ accepted = <<>> /\ delivered = <<>> /\ raced = FALSE

-----------------------------------------------------------------------------
(* The producer, in the interrupt handler. *)

\* The slot buffer_put writes.
NextSlot_OneFurther == (start + count + 1) % BUFFER_SIZE
NextSlot == (start + count) % BUFFER_SIZE

\* A full buffer loses the key.
buffer_put_TestsTooLate(ch) ==
  /\ char_buffer' = [char_buffer EXCEPT ![NextSlot] = ch]
  /\ count' = IF count # BUFFER_SIZE THEN count + 1 ELSE count
  /\ accepted' = Append(accepted, ch)
  /\ raced' = (raced \/ pc \in Between)
  /\ UNCHANGED start

buffer_put(ch) ==
  IF count # BUFFER_SIZE
  THEN /\ char_buffer' = [char_buffer EXCEPT ![NextSlot] = ch]
       /\ count' = count + 1
       /\ accepted' = Append(accepted, ch)
       /\ raced' = (raced \/ pc \in Between)
       /\ UNCHANGED start
  ELSE UNCHANGED <<ringVars, accepted, raced>>

KeyArrives == /\ Len(accepted) < MaxKeys
              /\ \E ch \in Char : buffer_put(ch)
              /\ UNCHANGED <<callVars, build, delivered>>

-----------------------------------------------------------------------------
(* The consumer: the steps of kgetc. *)

Call(b) == /\ pc = "idle"
           /\ pc' = "test" /\ blocking' = b
           /\ UNCHANGED <<ringVars, c, loaded, build, accepted, delivered, raced>>

\* A caller that does not want to wait gets 0 when there is no key.
ReturnEmpty == /\ pc = "test" /\ count = 0 /\ ~blocking
               /\ pc' = "idle" /\ c' = NUL
               /\ UNCHANGED <<ringVars, blocking, loaded, build, accepted,
                              delivered, raced>>

StartWaiting == /\ pc = "test" /\ (count # 0 \/ blocking)
                /\ pc' = "spin"
                /\ UNCHANGED <<ringVars, blocking, c, loaded, build, accepted,
                               delivered, raced>>

StopWaiting_OneMore == /\ pc = "spin" /\ count > 1
                       /\ pc' = "fetch"
                       /\ UNCHANGED <<ringVars, blocking, c, loaded, build,
                                      accepted, delivered, raced>>

\* The loop "while(count == 0);" ends at the first read that is not 0.
StopWaiting == /\ pc = "spin" /\ count # 0
               /\ pc' = "fetch"
               /\ UNCHANGED <<ringVars, blocking, c, loaded, build, accepted,
                              delivered, raced>>

Fetch_Newest == /\ pc = "fetch"
                /\ c' = char_buffer[(start + count - 1) % BUFFER_SIZE]
                /\ pc' = "advance"
                /\ UNCHANGED <<ringVars, blocking, loaded, build, accepted,
                               delivered, raced>>

Fetch == /\ pc = "fetch"
         /\ c' = char_buffer[start]
         /\ pc' = "advance"
         /\ UNCHANGED <<ringVars, blocking, loaded, build, accepted,
                        delivered, raced>>

Advance_NoWrap == /\ pc = "advance"
                  /\ start' = start + 1
                  /\ pc' = "decrement"
                  /\ UNCHANGED <<char_buffer, count, blocking, c, loaded, build,
                                 accepted, delivered, raced>>

Advance == /\ pc = "advance"
           /\ start' = (start + 1) % BUFFER_SIZE
           /\ pc' = "decrement"
           /\ UNCHANGED <<char_buffer, count, blocking, c, loaded, build,
                          accepted, delivered, raced>>

\* kgetc returns c to its caller.
Return == /\ pc' = "idle"
          /\ delivered' = Append(delivered, c)
          /\ UNCHANGED <<char_buffer, start, blocking, c, build, accepted, raced>>

Decrement == /\ pc = "decrement" /\ build = "rmw"
             /\ count' = count - 1
             /\ Return
             /\ UNCHANGED loaded

Load_Late == /\ pc = "decrement" /\ build = "split"
             /\ loaded' = count + 1
             /\ pc' = "store"
             /\ UNCHANGED <<ringVars, blocking, c, build, accepted, delivered, raced>>

Load == /\ pc = "decrement" /\ build = "split"
        /\ loaded' = count
        /\ pc' = "store"
        /\ UNCHANGED <<ringVars, blocking, c, build, accepted, delivered, raced>>

Store == /\ pc = "store"
         /\ count' = loaded - 1
         /\ loaded' = 0
         /\ Return

\* A step of a kgetc that has been called.
Step == \/ ReturnEmpty \/ StartWaiting \/ StopWaiting \/ Fetch \/ Advance
        \/ Decrement \/ Load \/ Store

Next == KeyArrives \/ (\E b \in BOOLEAN : Call(b)) \/ Step

\* The processor returns to kgetc after every interrupt, so kgetc takes the
\* steps it can take.  Nothing obliges a key to be pressed or kgetc to be
\* called.
Fairness == WF_vars(Step)

Spec == Init /\ [][Next]_vars /\ Fairness
-----------------------------------------------------------------------------
(* What holds. *)

\* The slot that holds the key i places behind the oldest one.
SlotAt(i) == (start + i) % BUFFER_SIZE

\* The number of keys kgetc has not fetched yet and still has to find in the
\* slots from start on: between its two updates count is one too many.
Pending == IF pc \in Between THEN count - 1 ELSE count

\* The types, and the range of the two indices of the buffer: no interrupt,
\* whenever it comes, and no translation of "count--" drives start or count
\* out of the array.
TypeOK == /\ char_buffer \in [Slots -> Char \cup {NUL}]
          /\ start \in Slots
          /\ count \in 0 .. BUFFER_SIZE
          /\ pc \in Locations
          /\ blocking \in BOOLEAN
          /\ c \in Char \cup {NUL}
          /\ loaded \in 0 .. BUFFER_SIZE
          /\ build \in Builds
          /\ accepted \in Seq(Char)
          /\ delivered \in Seq(Char \cup {NUL})
          /\ raced \in BOOLEAN

\* As long as no key was stored between kgetc's two updates, the keys
\* kgetc returned, then the key it holds, then the keys in the slots from
\* start on, are the keys buffer_put stored: none lost, repeated or swapped.
FifoUnlessRaced ==
  ~raced =>
    /\ Len(accepted) = Len(delivered) + count
    /\ \A i \in 1 .. Len(delivered) : accepted[i] = delivered[i]
    /\ pc \in Between => accepted[Len(delivered) + 1] = c
    /\ \A i \in 0 .. Pending - 1 :
         accepted[Len(accepted) - Pending + 1 + i] = char_buffer[SlotAt(i)]

\* A race costs order, and with a split "count--" keys: but kgetc never
\* returns more keys than were stored, and when "count--" is one instruction
\* count stays the number of keys stored and not returned, raced or not.
KeysAccounted ==
  /\ Len(delivered) + count <= Len(accepted)
  /\ build = "rmw" => Len(delivered) + count = Len(accepted)

\* No step ever overwrites a key that kgetc has still to fetch, even one that
\* a race put into the wrong slot.
PendingKeysKept ==
  [][\A i \in 0 .. Pending - 1 :
       char_buffer'[SlotAt(i)] = char_buffer[SlotAt(i)]]_vars

\* A kgetc that waits while a key is stored and not returned comes back to
\* its caller, unless a race with a split "count--" lost the key.
BlockedReaderServed ==
  (/\ pc = "spin"
   /\ Len(delivered) < Len(accepted)
   /\ build = "rmw" \/ ~raced) ~> (pc = "idle")

\* The keys kgetc has not fetched, oldest first.  Once it has fetched one,
\* and until it moves start, the next one is a slot further on.
Offset == IF pc = "advance" THEN 1 ELSE 0
Unfetched == IF pc \in {"advance"} \cup Between THEN count - 1 ELSE count
Queued == [i \in 1 .. Unfetched |-> char_buffer[SlotAt(Offset + i - 1)]]

\* The buffer implements the bounded queue until a race.
QueueBar == IF raced THEN <<>> ELSE Queued
OutBar == IF raced THEN NUL ELSE c
Promise == INSTANCE KeyQueue WITH queue <- QueueBar, out <- OutBar, lapsed <- raced
KeepsPromise == Promise!Spec

\* char.c:101 "ordinarily we remove things from the buffer following FIFO":
\* the keys kgetc returned are the first of the keys buffer_put stored.
DeliveredInOrder ==
  /\ Len(delivered) <= Len(accepted)
  /\ \A i \in 1 .. Len(delivered) : delivered[i] = accepted[i]
=============================================================================
