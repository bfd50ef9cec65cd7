------------------------------- MODULE Console -------------------------------
(***************************************************************************)
(* What is written to the terminal, and when: kprintf of kernel/kprint.c,  *)
(* printf and write of stdlib/unistd.c, sys_write of kernel/posix.c, and   *)
(* the handlers of exceptions in kernel/handler.c.                         *)
(*                                                                         *)
(* A format is a sequence of pieces: a character, or a specifier with its  *)
(* argument.  What it makes is written a character at a time.  Nothing in  *)
(* the repository calls term_init: the model may call it or not.           *)
(***************************************************************************)
EXTENDS Terminal, Conversions

CONSTANTS Formats,      \* what programs print
          Exceptions,   \* the formats of the handlers of exceptions
          NotSupported, \* the text for an unknown specifier
          MaxPrints     \* bound: calls of printf

VARIABLES out,          \* the characters still to be written
          status,       \* of the processor: "runs", "handler", "halted" or "dead"
          prints        \* the number of calls of printf

conVars == <<termVars, out, status, prints>>

Piece(kind, value) == [kind |-> kind, value |-> value]

\* The text of a piece (kprint_c, kprint_s, kprint_d, kprint_x, kprint_p).
Text(piece) ==
  CASE piece.kind \in {"char", "c"} -> <<piece.value>>
    [] piece.kind = "%" -> <<37>>
    [] piece.kind = "s" -> piece.value
    [] piece.kind = "d" -> Printed(piece.value, 10)
    [] piece.kind = "x" -> Printed(piece.value, 16)
    [] piece.kind = "p" -> <<Zero, 120>> \o Printed(piece.value, 16)
    [] OTHER -> NotSupported

kprintf(format) == FlattenSeq([i \in DOMAIN format |-> Text(format[i])])

ConsoleInit == TermInit /\ out = <<>> /\ status = "runs" /\ prints = 0

StartTerminal == /\ ~ready /\ prints = 0 /\ status = "runs"
                 /\ term_init
                 /\ UNCHANGED <<out, status, prints>>

\* printf makes a system call for each piece of its text: sys_write calls kprintf
\* for each character.
printf(format) == /\ status = "runs" /\ out = <<>> /\ prints < MaxPrints
                  /\ out' = kprintf(format) /\ prints' = prints + 1
                  /\ UNCHANGED <<termVars, status>>

\* An exception of the program.  The handler prints and never returns.
exception(format) == /\ status = "runs" /\ out = <<>>
                     /\ out' = kprintf(format) /\ status' = "handler"
                     /\ UNCHANGED <<termVars, prints>>

term_write == /\ status \in {"runs", "handler"} /\ out # <<>>
              /\ term_putchar(Head(out))
              /\ out' = Tail(out)
              /\ UNCHANGED <<status, prints>>

\* Writing to a NULL buffer is a page fault, whose handler prints, which is one
\* again, until there is no stack.
Fault == /\ status \in {"runs", "handler"} /\ out # <<>>
         /\ ~ready /\ Touches(Head(out))
         /\ status' = "dead"
         /\ UNCHANGED <<termVars, out, prints>>

halt_Returns == /\ status = "handler" /\ out = <<>>
                /\ status' = "runs"
                /\ UNCHANGED <<termVars, out, prints>>
halt == /\ status = "handler" /\ out = <<>>
        /\ status' = "halted"
        /\ UNCHANGED <<termVars, out, prints>>

ConsoleStep == term_write \/ Fault \/ halt

ConsoleNext == \/ StartTerminal \/ ConsoleStep
               \/ \E f \in Formats : printf(f)
               \/ \E f \in Exceptions : exception(f)

\* The processor goes on with what it has begun.
ConsoleSpec == ConsoleInit /\ [][ConsoleNext]_conVars /\ WF_conVars(ConsoleStep)

-----------------------------------------------------------------------------
(* What holds. *)

\* A program that causes an exception never runs again (handler.c:6-136): the
\* handler comes to its end, with a terminal or without, and stays there.
HandlerEnds == status = "handler" ~> [](status \in {"halted", "dead"})
=============================================================================
