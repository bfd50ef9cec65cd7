----------------------------- MODULE Conversions -----------------------------
(***************************************************************************)
(* Numbers and their digits: atoi, atoi_x and itoa_x of stdlib/string.c,   *)
(* the digits that printf of stdlib/unistd.c and kprintf of kernel/kprint.c *)
(* write.  Characters are their codes.  A loop over a string is modelled   *)
(* by the first position at which it stops.  Numbers are not negative, and *)
(* those that are read are small enough not to overflow.                   *)
(***************************************************************************)
EXTENDS Integers, SequencesExt

NUL == 0

\* The first position from which a loop does not go on.
Stop(s, P(_)) == Min({i \in DOMAIN s : P(i)})

Zero == 48
Numerals == 48 .. 57
Lower == 97 .. 102
Upper == 65 .. 70

\* What digits make, one after the other.
Number(digits, base) == FoldLeft(LAMBDA res, digit : res * base + digit, 0, digits)

\* atoi and atoi_x stop at the first character that is no digit (the NUL is
\* none).  atoi_x counts the letters from 0.
Leading(s, digits) == SubSeq(s, 1, Stop(s, LAMBDA i : s[i] \notin digits) - 1)

atoi(s) == LET part == Leading(s, Numerals)
           IN  Number([i \in DOMAIN part |-> part[i] - Zero], 10)

HexDigit(c) == CASE c \in Numerals -> c - Zero
                 [] c \in Lower -> c - 97
                 [] c \in Upper -> c - 65
atoi_x(s) == LET part == Leading(s, Numerals \cup Lower \cup Upper)
             IN  Number([i \in DOMAIN part |-> HexDigit(part[i])], 16)

\* print_d_helper, print_x_helper and those of the kernel: the digits of the
\* quotient and then the last one; nothing for 0.
helper(base, value) ==
  LET digits[v \in 0 .. value] ==
        IF v = 0 THEN <<>> ELSE Append(digits[v \div base], v % base)
  IN  digits[value]

Char(digit, letters) == IF digit < 10 THEN digit + Zero ELSE digit - 10 + letters

Printed(value, base) ==
  LET digits == IF value = 0 THEN <<0>> ELSE helper(base, value)
  IN  [i \in DOMAIN digits |-> Char(digits[i], 97)]

\* itoa_x divides by 16, no more often than it has room for digits: what is left
\* of the value each time.
ArrSize == 20
Left(value) == LET left[i \in 0 .. ArrSize] == IF i = 0 THEN value ELSE left[i - 1] \div 16
               IN  left

\* It stops when nothing is left and there are num_digits digits.
Enough_Width(left, num_digits) == {i \in 1 .. ArrSize : i >= num_digits}
Enough(left, num_digits) == {i \in 1 .. ArrSize : left[i] = 0 /\ i >= num_digits}

\* It has written them from the last to the first.
itoa_x(value, num_digits) ==
  LET n == Min(Enough(Left(value), num_digits))
  IN  [j \in 1 .. n |-> Char(Left(value)[n - j] % 16, 65)] \o <<NUL>>
=============================================================================
