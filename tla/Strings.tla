------------------------------- MODULE Strings -------------------------------
(***************************************************************************)
(* The functions of stdlib/string.c on strings, without malloc, and the    *)
(* conversions of Conversions, as programs call them.                      *)
(*                                                                         *)
(* Memory that holds a string is a sequence of bytes with a NUL somewhere  *)
(* and perhaps bytes after it.  Pointers are positions in it, from 1 on.   *)
(* A loop over a string is modelled by the first position at which it      *)
(* stops.  The program asks for one thing at a time.                       *)
(***************************************************************************)
EXTENDS Conversions

CONSTANTS Chars,      \* the characters of strings, NUL aside
          Size,       \* the size of a buffer
          Values,     \* the numbers converted: 0 .. n
          Widths      \* the values of num_digits

MaxInt == 2147483647

\* Strings are ASCII, and the numbers are an int's.  num_digits is positive and
\* itoa_x has room for as many: of 0 it takes one off, as a size_t.
ASSUME CharsAssumption == Chars \subseteq 1 .. 127
ASSUME SizeIsNatural == Size \in Nat \ {0}
ASSUME NumbersAssumption == Values \subseteq 0 .. MaxInt /\ Widths \subseteq 1 .. ArrSize

NULL == 0

Buffers == {b \in [1 .. Size -> Chars \cup {NUL}] : \E i \in 1 .. Size : b[i] = NUL}

VARIABLES call,       \* the function called last, its arguments and its result
          string,     \* what is being divided by strsep or strtok
          stringp,    \* strsep's place in it
          strtok_s,   \* strtok's place in it
          given,      \* history: the string as it was given
          parts       \* history: what strsep has returned, and the character after it

vars == <<call, string, stringp, strtok_s, given, parts>>

-----------------------------------------------------------------------------
(* Strings. *)

strlen(s) == Stop(s, LAMBDA i : s[i] = NUL) - 1

\* The string that begins at position p of memory b.
StringAt(b, p) == LET rest == SubSeq(b, p, Len(b)) IN SubSeq(rest, 1, strlen(rest))

contain(c, l) == c \in ToSet(StringAt(l, 1))

strcmp_Prefix(s1, s2) ==
  LET i == Stop(s1, LAMBDA j : s1[j] = NUL \/ s2[j] = NUL \/ s1[j] # s2[j])
  IN  IF s1[i] = NUL THEN 0 ELSE s1[i] - s2[i]
strcmp(s1, s2) ==
  LET i == Stop(s1, LAMBDA j : s1[j] = NUL \/ s2[j] = NUL \/ s1[j] # s2[j])
  IN  s1[i] - s2[i]

\* strncmp does not stop at the end of a string.
strncmp(s1, s2, n) ==
  LET differ == {i \in 1 .. n : s1[i] # s2[i]}
  IN  IF differ = {} THEN 0 ELSE s1[Min(differ)] - s2[Min(differ)]

strpbrk(s, charset) ==
  LET found == {i \in 1 .. strlen(s) : contain(s[i], charset)}
  IN  IF found = {} THEN NULL ELSE Min(found)

memset(arr, c, size) == [i \in DOMAIN arr |-> IF i <= size THEN c ELSE arr[i]]
memcpy(des, src, size) == [i \in DOMAIN des |-> IF i <= size THEN src[i] ELSE des[i]]
strcpy(dst, src) == memcpy(dst, src, strlen(src) + 1)
strncpy(dst, src, len) ==
  [i \in DOMAIN dst |-> IF i > len THEN dst[i]
                        ELSE IF i <= strlen(src) THEN src[i] ELSE NUL]

-----------------------------------------------------------------------------
(* What programs ask. *)

Init == /\ call = [f |-> "none", in |-> <<>>, out |-> 0]
        /\ string = <<NUL>> /\ stringp = NULL /\ strtok_s = NULL
        /\ given = <<>> /\ parts = <<>>

\* The functions but strsep and strtok share nothing: each is asked for one
\* thing, from the beginning.
Fresh == call.f = "none" /\ stringp = NULL /\ strtok_s = NULL /\ parts = <<>>

Answers(f, in, out) == /\ call' = [f |-> f, in |-> in, out |-> out]
                       /\ UNCHANGED <<string, stringp, strtok_s, given, parts>>

Compare ==
  /\ Fresh
  /\ \E s, t \in Buffers :
       \/ Answers("strcmp", <<s, t>>, strcmp(s, t))
       \/ \E n \in 0 .. Size : Answers("strncmp", <<s, t, n>>, strncmp(s, t, n))
       \/ Answers("strpbrk", <<s, t>>, strpbrk(s, t))

Copy ==
  /\ Fresh
  /\ \E d, s \in Buffers :
       \/ Answers("strcpy", <<d, s>>, strcpy(d, s))
       \/ \E n \in 0 .. Size : \/ Answers("strncpy", <<d, s, n>>, strncpy(d, s, n))
                               \/ Answers("memcpy", <<d, s, n>>, memcpy(d, s, n))

Fill ==
  /\ Fresh
  /\ \E d \in Buffers, c \in Chars, n \in 0 .. Size :
       Answers("memset", <<d, c, n>>, memset(d, c, n))

Convert ==
  /\ Fresh
  /\ \E v \in Values :
       \/ \E tail \in Buffers :
            \/ Answers("atoi", <<v, tail>>, atoi(Printed(v, 10) \o tail))
            \/ Answers("atoi_x", <<v, tail>>, atoi_x(Printed(v, 16) \o tail))
       \/ \E w \in Widths : Answers("itoa_x", <<v, w>>, itoa_x(v, w))

BeginStrtok == /\ Fresh
               /\ \E b \in Buffers : string' = b
               /\ strtok_s' = 1
               /\ UNCHANGED <<call, stringp, given, parts>>

\* strtok(str, sep), the first time with the string and then with NULL.  It never
\* moves its pointer: at a separator it goes on for ever (no step), and at any
\* other character it ends the string there.
Strtok ==
  /\ strtok_s # NULL
  /\ \E sep \in Buffers :
       /\ string[strtok_s] = NUL \/ ~contain(string[strtok_s], sep)
       /\ IF string[strtok_s] = NUL THEN strtok_s' = NULL /\ UNCHANGED string
          ELSE strtok_s' = strtok_s + 1 /\ string' = [string EXCEPT ![strtok_s] = NUL]
       /\ call' = [f |-> "strtok", in |-> <<sep>>, out |-> StringAt(string', strtok_s)]
  /\ UNCHANGED <<stringp, given, parts>>

BeginStrsep == /\ Fresh
               /\ \E b \in Buffers : string' = b /\ given' = StringAt(b, 1)
               /\ stringp' = 1
               /\ UNCHANGED <<call, strtok_s, parts>>

\* strsep(stringp, delim).  It compares the first character with the delimiters
\* from an uninitialised index on: it may find it among them or not, whatever
\* it is.
After(i) == i + 1

Strsep ==
  /\ stringp # NULL
  /\ \E delim \in Buffers, first \in BOOLEAN :
       LET length == Len(StringAt(string, stringp))
           found == {i \in stringp .. stringp + length - 1 :
                       IF i = stringp THEN first ELSE contain(string[i], delim)}
           at == Min(found)
       IN  IF found = {}
           THEN /\ stringp' = NULL /\ UNCHANGED string
                /\ parts' = Append(parts, StringAt(string, stringp))
           ELSE /\ string' = [string EXCEPT ![at] = NUL]
                /\ stringp' = After(at)
                /\ parts' = Append(parts, Append(StringAt(string', stringp), string[at]))
  /\ UNCHANGED <<call, strtok_s, given>>

Done == /\ ~Fresh /\ stringp = NULL
        /\ call' = [f |-> "none", in |-> <<>>, out |-> 0]
        /\ string' = <<NUL>> /\ strtok_s' = NULL /\ given' = <<>> /\ parts' = <<>>
        /\ UNCHANGED stringp

Next == Compare \/ Copy \/ Fill \/ Convert \/ BeginStrtok \/ Strtok
        \/ BeginStrsep \/ Strsep \/ Done

StringsSpec == Init /\ [][Next]_vars

-----------------------------------------------------------------------------
(* What holds. *)

Str(b) == StringAt(b, 1)

\* The order of a dictionary.
Before(s, t) ==
  \E n \in 0 .. Len(s) : /\ n < Len(t) /\ SubSeq(s, 1, n) = SubSeq(t, 1, n)
                         /\ n = Len(s) \/ s[n + 1] < t[n + 1]

\* strcmp tells the order of two strings, strncmp that of their beginnings as
\* long as neither ends before, and strpbrk finds the first character of a set,
\* whatever lies in memory after the strings.
ComparesAndFinds ==
  LET s == Str(call.in[1])
      t == Str(call.in[2])
      Tells(a, b) == (call.out < 0 <=> Before(a, b)) /\ (call.out = 0 <=> a = b)
  IN  CASE call.f = "strcmp" -> Tells(s, t)
        [] call.f = "strncmp" ->
             LET n == call.in[3]
             IN  n <= Len(s) + 1 /\ n <= Len(t) + 1 =>
                   Tells(SubSeq(s, 1, Min({n, Len(s)})), SubSeq(t, 1, Min({n, Len(t)})))
        [] call.f = "strpbrk" ->
             IF call.out = NULL THEN ToSet(s) \cap ToSet(t) = {}
             ELSE /\ s[call.out] \in ToSet(t)
                  /\ ToSet(SubSeq(s, 1, call.out - 1)) \cap ToSet(t) = {}
        [] OTHER -> TRUE

\* A copy is the string that was copied, and nothing after it, or after the
\* length that was given, has changed.
CopiesExactly ==
  LET d == call.in[1]
      s == call.in[2]
      Untouched(n) == \A i \in n + 1 .. Size : call.out[i] = d[i]
  IN  CASE call.f = "strcpy" -> Str(call.out) = Str(s) /\ Untouched(strlen(s) + 1)
        [] call.f = "strncpy" ->
             /\ strlen(s) < call.in[3] => Str(call.out) = Str(s)
             /\ \A i \in 1 .. Min({call.in[3], strlen(s)}) : call.out[i] = s[i]
             /\ Untouched(call.in[3])
        [] OTHER -> TRUE

\* The digits that are printed for a number are read as that number, in
\* hexadecimal as long as there is no letter among them; itoa_x writes the
\* number with as many zeroes as it takes, and no more.
NumbersRoundTrip ==
  LET v == call.in[1]
  IN  CASE call.f = "atoi" ->
             /\ call.in[2][1] \notin Numerals => call.out = v
             /\ v # 0 => Printed(v, 10)[1] # Zero
        [] call.f = "atoi_x" ->
             call.in[2][1] = NUL /\ ToSet(Printed(v, 16)) \subseteq Numerals => call.out = v
        [] call.f = "itoa_x" ->
             LET n == Len(call.out) - 1
                 Digit(c) == IF c \in Upper THEN c - 55 ELSE c - Zero
             IN  /\ Number([i \in 1 .. n |-> Digit(call.out[i])], 16) = v
                 /\ n >= call.in[2]
                 /\ n > call.in[2] => call.out[1] # Zero
        [] OTHER -> TRUE

\* Whatever strsep takes for a delimiter, it loses nothing: what it has returned,
\* with the characters it has overwritten, and what is left make the string
\* that was given.
TokensRebuild ==
  given = FlattenSeq(parts) \o (IF stringp = NULL THEN <<>> ELSE StringAt(string, stringp))

\* What the functions on strings answer is right, whatever lies behind a string.
StringsBehave == ComparesAndFinds /\ CopiesExactly /\ TokensRebuild

\* string.c:133: what itoa_x writes in hexadecimal, atoi_x reads.
HexRoundTrip == call.f = "itoa_x" => atoi_x(call.out) = call.in[1]

\* string.c:88: strtok returns "a pointer to the beginning of the first token",
\* and NULL when none remain: never an empty string.
StrtokFindsTokens == call.f = "strtok" => call.out # <<>>

\* string.c:222: "Characters after '\0' are not compared."
StrncmpStopsAtEnd ==
  call.f = "strncmp" /\ Str(call.in[1]) = Str(call.in[2]) => call.out = 0
=============================================================================
