------------------------------ MODULE KeyQueue ------------------------------
(***************************************************************************)
(* What the keyboard buffer of kernel/char.c promises to its callers: a    *)
(* bounded first-in first-out queue.  A key that arrives joins the end of  *)
(* the queue or, when there is no room, is lost; a reader takes the oldest *)
(* key.  "lapsed" says that the promise has been given up: the code gives  *)
(* it up when an interrupt stores a key while kgetc has moved start and    *)
(* has not yet moved count (see KeyRing).                                  *)
(***************************************************************************)
EXTENDS Naturals, Sequences

CONSTANTS Char,         \* the characters a key press can produce
          BUFFER_SIZE   \* the capacity of the queue

VARIABLES queue,        \* the keys not yet taken, oldest first
          out,          \* the last key taken, or 0
          lapsed        \* has the promise been given up?

queueVars == <<queue, out, lapsed>>

Init == queue = <<>> /\ out = 0 /\ lapsed = FALSE

\* A key joins the end of the queue.
Put == /\ ~lapsed
       /\ Len(queue) < BUFFER_SIZE
       /\ \E ch \in Char : queue' = Append(queue, ch)
       /\ UNCHANGED <<out, lapsed>>

\* The reader takes the oldest key.
Take == /\ ~lapsed
        /\ queue # <<>>
        /\ out' = Head(queue)
        /\ queue' = Tail(queue)
        /\ UNCHANGED lapsed

\* A reader that does not wait finds the queue empty and gets 0.
TakeNothing == /\ ~lapsed
               /\ queue = <<>>
               /\ out' = 0
               /\ UNCHANGED <<queue, lapsed>>

\* The promise is given up, for good.
Lapse == /\ ~lapsed
         /\ lapsed' = TRUE
         /\ queue' = <<>>
         /\ out' = 0

Next == Put \/ Take \/ TakeNothing \/ Lapse

Spec == Init /\ [][Next]_queueVars
=============================================================================
