----------------------------- MODULE BootProofs ------------------------------
(***************************************************************************)
(* Proofs about the boot sequence, for every memory map, every firmware    *)
(* and every number of keys and packets: interrupts find what they need,   *)
(* the driver of the mouse falls into step whatever the handshake and its  *)
(* handler have taken from each other, and the free list has each usable   *)
(* page at most once and no other.                                         *)
(***************************************************************************)
EXTENDS Boot, MouseProofs, SequenceTheorems, WellFoundedInduction

-----------------------------------------------------------------------------
(* The script. *)

\* Sequences of a few elements.
LEMMA Two ==
  ASSUME NEW S, NEW a \in S, NEW b \in S
  PROVE  /\ <<a, b>> \in Seq(S) /\ Len(<<a, b>>) = 2
         /\ <<a, b>>[1] = a /\ <<a, b>>[2] = b
BY SMT

LEMMA Three ==
  ASSUME NEW S, NEW a \in S, NEW b \in S, NEW c \in S
  PROVE  /\ <<a, b, c>> \in Seq(S) /\ Len(<<a, b, c>>) = 3
         /\ <<a, b, c>>[1] = a /\ <<a, b, c>>[2] = b /\ <<a, b, c>>[3] = c
BY SMT

LEMMA One ==
  ASSUME NEW S, NEW a \in S
  PROVE  <<a>> \in Seq(S) /\ Len(<<a>>) = 1 /\ <<a>>[1] = a
BY SMT

LEMMA Four ==
  ASSUME NEW S, NEW a \in S, NEW b \in S, NEW c \in S, NEW d \in S
  PROVE  <<a, b, c, d>> \in Seq(S)
BY SMT

LEMMA Ten ==
  ASSUME NEW S, NEW a \in S, NEW b \in S, NEW c \in S, NEW d \in S, NEW e \in S,
         NEW f \in S, NEW g \in S, NEW h \in S, NEW i \in S, NEW j \in S
  PROVE  <<a, b, c, d, e, f, g, h, i, j>> \in Seq(S)
BY SMT

\* Where the elements of two joined sequences are.
LEMMA Joined ==
  ASSUME NEW S, NEW a \in Seq(S), NEW b \in Seq(S)
  PROVE  /\ a \o b \in Seq(S) /\ Len(a \o b) = Len(a) + Len(b)
         /\ \A k \in 1 .. Len(a) : (a \o b)[k] = a[k]
         /\ \A k \in Len(a) + 1 .. Len(a) + Len(b) : (a \o b)[k] = b[k - Len(a)]
BY ConcatProperties

HandshakeWhats == {"wait_to_send", "wait_to_read", "out 0x64", "out 0x60", "in 0x60",
                   "read status", "write status"}
Whats == HandshakeWhats \cup {"idt_setup", "freelist_init", "mask all", "sti", "unmask",
                              "initialize_cursor"}

HandshakeSteps == [what : HandshakeWhats, arg : Nat]
Instructions == [what : Whats, arg : Nat]

\* The handshake sets nothing of the kernel up.
LEMMA HandshakeType == initialize_mouse \in Seq(HandshakeSteps)
<1> DEFINE H == HandshakeSteps
           a == <<Do("wait_to_send", 0), Do("out 0x64", 168),
                  Do("wait_to_send", 0), Do("out 0x64", 32),
                  Do("wait_to_read", 0), Do("read status", 0),
                  Do("wait_to_send", 0), Do("out 0x64", 96),
                  Do("wait_to_send", 0), Do("write status", 0)>>
<1>1. \A n \in Nat :
        /\ Do("wait_to_send", n) \in H /\ Do("wait_to_read", n) \in H
        /\ Do("out 0x64", n) \in H /\ Do("out 0x60", n) \in H /\ Do("in 0x60", n) \in H
        /\ Do("read status", n) \in H /\ Do("write status", n) \in H
  <2>1. \A w \in HandshakeWhats, n \in Nat : Do(w, n) \in H
    BY DEF HandshakeSteps, Do
  <2> QED BY <2>1 DEF HandshakeWhats
<1>2. {0, 32, 96, 168, 212, 244, 246, 255} \subseteq Nat
  BY SMT
<1> HIDE DEF H
<1>3. ASSUME NEW n \in Nat
      PROVE  mouse_write(n) \in Seq(H)
  <2>1. /\ Do("wait_to_send", 0) \in H /\ Do("out 0x64", 212) \in H
        /\ Do("out 0x60", n) \in H
    BY <1>1, <1>2, ZenonT(30)
  <2> QED BY <2>1, Four, Zenon DEF mouse_write
<1>31. mouse_write(244) \in Seq(H) /\ mouse_write(246) \in Seq(H)
       /\ mouse_write(255) \in Seq(H)
  BY <1>2, <1>3, ZenonT(30)
<1>4. mouse_read \in Seq(H)
  BY <1>1, <1>2, Two, ZenonT(30) DEF mouse_read
<1>5. a \in Seq(H)
  <2>1. /\ Do("wait_to_send", 0) \in H /\ Do("out 0x64", 168) \in H
        /\ Do("out 0x64", 32) \in H /\ Do("wait_to_read", 0) \in H
        /\ Do("read status", 0) \in H /\ Do("out 0x64", 96) \in H
        /\ Do("write status", 0) \in H
    BY <1>1, <1>2, ZenonT(30)
  <2> QED BY <2>1, Ten, Zenon
<1> HIDE DEF a
<1> DEFINE s1 == a \o mouse_write(255)
           s2 == s1 \o mouse_read
           s3 == s2 \o mouse_write(246)
           s4 == s3 \o mouse_read
           s5 == s4 \o mouse_write(244)
           s6 == s5 \o mouse_read
<1>6. s6 \in Seq(H)
  <2>1. s1 \in Seq(H) BY <1>31, <1>5, Joined, Zenon
  <2> HIDE DEF s1
  <2>2. s2 \in Seq(H) BY <1>4, <2>1, Joined, Zenon
  <2> HIDE DEF s2
  <2>3. s3 \in Seq(H) BY <1>31, <2>2, Joined, Zenon
  <2> HIDE DEF s3
  <2>4. s4 \in Seq(H) BY <1>4, <2>3, Joined, Zenon
  <2> HIDE DEF s4
  <2>5. s5 \in Seq(H) BY <1>31, <2>4, Joined, Zenon
  <2> HIDE DEF s5
  <2> QED BY <1>4, <2>5, Joined, Zenon
<1> QED BY <1>6, Zenon DEF initialize_mouse, a, H

\* What the instructions are, and in which order.
LEMMA Script ==
  /\ Len(start) \in Nat /\ Len(start) >= 8
  /\ start[1].what = "idt_setup" /\ start[2].what = "freelist_init"
  /\ start[3].what = "mask all" /\ start[4].what = "sti"
  /\ \A k \in 5 .. 7 : start[k].what = "unmask" /\ start[k].arg \in {1, 2, 12}
  /\ start[8].what = "initialize_cursor"
  /\ \A k \in 9 .. Len(start) : start[k].what \in HandshakeWhats
<1> DEFINE I == Instructions
           a == <<Do("idt_setup", 0), Do("freelist_init", 0)>>
           c == <<Do("unmask", 1), Do("unmask", 2), Do("unmask", 12)>>
           d == <<Do("initialize_cursor", 0)>>
<1>1. \A n \in Nat :
        /\ Do("idt_setup", n) \in I /\ Do("freelist_init", n) \in I
        /\ Do("mask all", n) \in I /\ Do("sti", n) \in I
        /\ Do("unmask", n) \in I /\ Do("initialize_cursor", n) \in I
  <2>1. \A w \in Whats, n \in Nat : Do(w, n) \in I
    BY DEF Instructions, Do
  <2> QED BY <2>1 DEF Whats
<1>2. {0, 1, 2, 12} \subseteq Nat
  BY SMT
<1>3. \A what \in Whats, arg \in Nat : Do(what, arg).what = what /\ Do(what, arg).arg = arg
  BY Zenon DEF Do
<1>4. initialize_mouse \in Seq(I) /\ Len(initialize_mouse) \in Nat
      /\ \A k \in 1 .. Len(initialize_mouse) : initialize_mouse[k].what \in HandshakeWhats
  <2> DEFINE m == initialize_mouse
  <2>1. m \in Seq(HandshakeSteps)
    BY HandshakeType
  <2>2. HandshakeSteps \subseteq I
    BY DEF HandshakeSteps, Instructions, Whats
  <2> HIDE DEF m, I
  <2>3. m \in Seq(I) /\ Len(m) \in Nat
    BY <2>1, <2>2, SMT
  <2>4. \A k \in 1 .. Len(m) : m[k] \in HandshakeSteps
    BY <2>1, Elements, Zenon
  <2>5. \A s \in HandshakeSteps : s.what \in HandshakeWhats
    BY DEF HandshakeSteps
  <2> QED BY <2>3, <2>4, <2>5, Zenon DEF m
<1> HIDE DEF I
<1>5. a \in Seq(I) /\ Len(a) = 2 /\ a[1].what = "idt_setup" /\ a[2].what = "freelist_init"
  <2>1. Do("idt_setup", 0) \in I /\ Do("freelist_init", 0) \in I
    BY <1>1, <1>2, Zenon
  <2>2. Do("idt_setup", 0).what = "idt_setup" /\ Do("freelist_init", 0).what = "freelist_init"
    BY <1>2, <1>3, Zenon DEF Whats
  <2>3. a \in Seq(I) /\ Len(a) = 2 /\ a[1] = Do("idt_setup", 0) /\ a[2] = Do("freelist_init", 0)
    BY <2>1, Two, Zenon
  <2> QED BY <2>2, <2>3, Zenon
<1>6. pic_init \in Seq(I) /\ Len(pic_init) = 2
      /\ pic_init[1].what = "mask all" /\ pic_init[2].what = "sti"
  <2>1. Do("mask all", 0) \in I /\ Do("sti", 0) \in I
    BY <1>1, <1>2, Zenon
  <2>2. Do("mask all", 0).what = "mask all" /\ Do("sti", 0).what = "sti"
    BY <1>2, <1>3, Zenon DEF Whats
  <2>3. pic_init \in Seq(I) /\ Len(pic_init) = 2
        /\ pic_init[1] = Do("mask all", 0) /\ pic_init[2] = Do("sti", 0)
    BY <2>1, Two, Zenon DEF pic_init
  <2> QED BY <2>2, <2>3, Zenon
<1>7. /\ c \in Seq(I) /\ Len(c) = 3
      /\ \A k \in 1 .. 3 : c[k].what = "unmask" /\ c[k].arg \in {1, 2, 12}
  <2>1. Do("unmask", 1) \in I /\ Do("unmask", 2) \in I /\ Do("unmask", 12) \in I
    BY <1>1, <1>2, Zenon
  <2>2. \A n \in {1, 2, 12} : Do("unmask", n).what = "unmask" /\ Do("unmask", n).arg = n
    <3>1. "unmask" \in Whats /\ \A n \in {1, 2, 12} : n \in Nat
      BY DEF Whats
    <3> QED BY ONLY <1>3, <3>1, Zenon
  <2>3. c \in Seq(I) /\ Len(c) = 3
        /\ c[1] = Do("unmask", 1) /\ c[2] = Do("unmask", 2) /\ c[3] = Do("unmask", 12)
    <3> DEFINE x == Do("unmask", 1)
               y == Do("unmask", 2)
               z == Do("unmask", 12)
    <3>1. x \in I /\ y \in I /\ z \in I /\ c = <<x, y, z>>
      BY <2>1
    <3> HIDE DEF x, y, z, c
    <3>2. /\ <<x, y, z>> \in Seq(I) /\ Len(<<x, y, z>>) = 3
          /\ <<x, y, z>>[1] = x /\ <<x, y, z>>[2] = y /\ <<x, y, z>>[3] = z
      BY <3>1, Three
    <3>3. c \in Seq(I) /\ Len(c) = 3 /\ c[1] = x /\ c[2] = y /\ c[3] = z
      BY ONLY <3>1, <3>2, Zenon
    <3> QED BY <3>3 DEF x, y, z
  <2>4. \A k \in 1 .. 3 : k = 1 \/ k = 2 \/ k = 3
    BY SMT
  <2> QED BY <2>2, <2>3, <2>4, Zenon
<1>8. d \in Seq(I) /\ Len(d) = 1 /\ d[1].what = "initialize_cursor"
  <2>1. Do("initialize_cursor", 0) \in I
    BY <1>1, <1>2, Zenon
  <2>2. Do("initialize_cursor", 0).what = "initialize_cursor"
    BY <1>2, <1>3, Zenon DEF Whats
  <2>3. d \in Seq(I) /\ Len(d) = 1 /\ d[1] = Do("initialize_cursor", 0)
    BY <2>1, One, Zenon
  <2> QED BY <2>2, <2>3, Zenon
<1> HIDE DEF a, c, d
<1> DEFINE p == a \o pic_init
           q == p \o c
           r == d \o initialize_mouse
<1>9. start = q \o r
  BY Zenon DEF start, devices, a, c, d
<1>10. p \in Seq(I) /\ Len(p) = 4 /\ p[1] = a[1] /\ p[2] = a[2]
       /\ p[3] = pic_init[1] /\ p[4] = pic_init[2]
  <2>1. /\ p \in Seq(I) /\ Len(p) = Len(a) + Len(pic_init)
        /\ \A k \in 1 .. Len(a) : p[k] = a[k]
        /\ \A k \in Len(a) + 1 .. Len(a) + Len(pic_init) : p[k] = pic_init[k - Len(a)]
    BY <1>5, <1>6, Joined, Zenon
  <2> HIDE DEF p
  <2>2. /\ Len(p) = 2 + 2
        /\ \A k \in 1 .. 2 : p[k] = a[k]
        /\ \A k \in 2 + 1 .. 2 + 2 : p[k] = pic_init[k - 2]
    BY ONLY <1>5, <1>6, <2>1, Zenon
  <2>3. p[1] = a[1] /\ p[2] = a[2] /\ p[3] = pic_init[3 - 2] /\ p[4] = pic_init[4 - 2]
    BY ONLY <2>2, SMT
  <2>4. 3 - 2 = 1 /\ 4 - 2 = 2 /\ 2 + 2 = 4
    BY SMT
  <2> QED BY ONLY <2>1, <2>2, <2>3, <2>4, Zenon
<1> HIDE DEF p
<1>11. /\ q \in Seq(I) /\ Len(q) = 7 /\ \A k \in 1 .. 4 : q[k] = p[k]
       /\ \A k \in 5 .. 7 : k - 4 \in 1 .. 3 /\ q[k] = c[k - 4]
  <2>1. /\ q \in Seq(I) /\ Len(q) = Len(p) + Len(c)
        /\ \A k \in 1 .. Len(p) : q[k] = p[k]
        /\ \A k \in Len(p) + 1 .. Len(p) + Len(c) : q[k] = c[k - Len(p)]
    BY <1>7, <1>10, Joined, Zenon
  <2> HIDE DEF q
  <2> QED BY ONLY <1>7, <1>10, <2>1, SMT
<1> HIDE DEF q
<1> DEFINE n == Len(initialize_mouse)
<1>12. /\ r \in Seq(I) /\ Len(r) = 1 + n /\ r[1] = d[1]
       /\ \A k \in 2 .. 1 + n : k - 1 \in 1 .. n /\ r[k] = initialize_mouse[k - 1]
  <2>1. /\ r \in Seq(I) /\ Len(r) = Len(d) + n
        /\ \A k \in 1 .. Len(d) : r[k] = d[k]
        /\ \A k \in Len(d) + 1 .. Len(d) + n : r[k] = initialize_mouse[k - Len(d)]
    BY <1>4, <1>8, Joined, Zenon
  <2>2. n \in Nat
    BY <1>4 DEF n
  <2> HIDE DEF r, n
  <2> QED BY ONLY <1>8, <2>1, <2>2, SMT
<1> HIDE DEF r
<1>13. /\ Len(start) = Len(q) + Len(r)
       /\ \A k \in 1 .. Len(q) : start[k] = q[k]
       /\ \A k \in Len(q) + 1 .. Len(q) + Len(r) : start[k] = r[k - Len(q)]
  <2> DEFINE s == q \o r
  <2>1. /\ Len(s) = Len(q) + Len(r)
        /\ \A k \in 1 .. Len(q) : s[k] = q[k]
        /\ \A k \in Len(q) + 1 .. Len(q) + Len(r) : s[k] = r[k - Len(q)]
    <3>1. q \in Seq(I) /\ r \in Seq(I)
      BY <1>11, <1>12
    <3> HIDE DEF n
    <3> QED BY ONLY <3>1, Joined
  <2>2. start = s
    BY <1>9
  <2> HIDE DEF s
  <2> QED BY ONLY <2>1, <2>2, Zenon
<1>14. /\ n \in Nat
       /\ \A k \in 1 .. n : initialize_mouse[k].what \in HandshakeWhats
  BY <1>4
<1> HIDE DEF n
<1>15. /\ Len(start) \in Nat /\ Len(start) >= 8
       /\ start[8] = r[1]
       /\ \A k \in 9 .. Len(start) : k - 7 \in 2 .. 1 + n /\ start[k] = r[k - 7]
       /\ \A k \in 1 .. 4 : start[k] = p[k]
       /\ \A k \in 5 .. 7 : start[k] = q[k]
  BY ONLY <1>11, <1>12, <1>13, <1>14, SMT
<1>16. 1 \in 1 .. 4 /\ 2 \in 1 .. 4 /\ 3 \in 1 .. 4 /\ 4 \in 1 .. 4
  BY SMT
<1>17. \A k \in 5 .. 7 : start[k].what = "unmask" /\ start[k].arg \in {1, 2, 12}
  <2> TAKE k \in 5 .. 7
  <2>1. start[k] = q[k] /\ k - 4 \in 1 .. 3 /\ q[k] = c[k - 4]
    BY <1>11, <1>15
  <2> QED BY <1>7, <2>1
<1>18. \A k \in 9 .. Len(start) : start[k].what \in HandshakeWhats
  <2> TAKE k \in 9 .. Len(start)
  <2>1. k - 7 \in 2 .. 1 + n /\ start[k] = r[k - 7]
    BY ONLY <1>15, Zenon
  <2> QED  BY ONLY <1>12, <1>14, <2>1, ZenonT(30)
<1> QED BY ONLY <1>5, <1>6, <1>8, <1>10, <1>12, <1>15, <1>16, <1>17, <1>18, ZenonT(30)

-----------------------------------------------------------------------------
(* The memory map. *)

\* Division by m leaves a remainder below m.
LEMMA DivBounds ==
  ASSUME NEW n \in Nat, NEW m \in Nat, m >= 1
  PROVE  /\ n \div m \in Nat /\ (n \div m) * m \in Nat
         /\ (n \div m) * m <= n /\ n < (n \div m) * m + m
         /\ n % m \in 0 .. m - 1
         /\ n = (n \div m) * m + (n % m)
<1>1. /\ n \div m \in Nat /\ (n \div m) * m \in Nat
      /\ (n \div m) * m <= n /\ n < (n \div m) * m + m
      /\ n % m \in 0 .. m - 1
  OBVIOUS
<1>2. n % m = n - (n \div m) * m
  OBVIOUS
<1> DEFINE p == (n \div m) * m
           r == n % m
<1>3. p \in Nat /\ r = n - p
  BY <1>1, <1>2
<1> HIDE DEF p, r
<1>4. n = p + r
  BY <1>3
<1> QED BY <1>1, <1>4, Zenon DEF p, r

LEMMA MultipleDiv ==
  ASSUME NEW k \in Nat, NEW m \in Nat, m >= 1
  PROVE  (k * m) \div m \in Nat /\ ((k * m) \div m) * m = k * m
<1> DEFINE q == (k * m) \div m
<1>1. k * m \in Nat
  OBVIOUS
<1>2. /\ q \in Nat /\ q * m \in Nat /\ q * m <= k * m /\ k * m < q * m + m
  BY <1>1, DivBounds
<1> HIDE DEF q
<1>3. ASSUME q < k PROVE FALSE
  <2>1. (q + 1) * m <= k * m
    BY <1>3, <1>2
  <2> QED  BY <2>1, <1>2
<1>4. ASSUME k < q PROVE FALSE
  <2>1. (k + 1) * m <= q * m
    BY <1>4, <1>2
  <2> QED  BY <2>1, <1>2
<1>5. q = k
  BY <1>2, <1>3, <1>4
<1> QED  BY <1>2, <1>5 DEF q

\* The gap is what a number lacks to a multiple of m.
LEMMA GapFills ==
  ASSUME NEW n \in Nat, NEW m \in Nat, m >= 1, NEW g, g = (m - (n % m)) % m
  PROVE  g \in Nat /\ \E k \in Nat : n + g = k * m
<1> DEFINE p == n \div m
           r == n % m
<1>1. p \in Nat /\ p * m \in Nat /\ r \in 0 .. m - 1 /\ n = p * m + r
  BY DivBounds, Zenon
<1>2. g = (m - r) % m
  OBVIOUS
<1> HIDE DEF p, r
<1>3. CASE r = 0
  <2>1. g = 0
    BY <1>2, <1>3
  <2>2. n + g = p * m
    BY <1>1, <1>3, <2>1
  <2>3. g \in Nat
    BY <2>1
  <2> QED BY ONLY <1>1, <2>2, <2>3, Zenon
<1>4. CASE r # 0
  <2>1. m - r \in 1 .. m - 1
    BY <1>1, <1>4
  <2>2. g = m - r /\ g \in Nat
    BY <1>2, <2>1
  <2>3. n + g = (p + 1) * m /\ p + 1 \in Nat
    BY <1>1, <2>2
  <2> QED BY ONLY <2>2, <2>3, Zenon
<1> QED BY <1>3, <1>4

Region == [base : Nat, length : Nat, usable : BOOLEAN]

LEMMA RegionsType ==
  /\ Len(Regions) \in Nat /\ DOMAIN Regions = 1 .. Len(Regions)
  /\ \A k \in 1 .. Len(Regions) :
       Regions[k] \in Region /\ (Regions[k].usable => Regions[k].length >= Gap(Regions[k]))
<1>1. Regions \in Seq(Region)
  BY RegionsAssumption, Zenon DEF Region
<1> DEFINE m == Regions
<1>2. /\ Len(m) \in Nat /\ DOMAIN m = 1 .. Len(m)
      /\ \A k \in 1 .. Len(m) : m[k] \in Region
  <2> HIDE DEF m
  <2> QED BY <1>1, SMT DEF m
<1> QED BY <1>2, RegionsAssumption, Zenon

\* Multiples grow with their factor.
LEMMA Scaled ==
  ASSUME NEW m \in Nat, NEW a \in Nat, NEW b \in Nat, a <= b
  PROVE  a * m \in Nat /\ b * m \in Nat /\ a * m <= b * m
OBVIOUS

\* The pages of a region lie wholly in it.
LEMMA PagesInRegion ==
  ASSUME NEW r \in Region, r.length >= Gap(r)
  PROVE  /\ Rounded(r).first \in Nat /\ Rounded(r).count \in Nat
         /\ r.base <= Rounded(r).first * PAGE_SIZE
         /\ (Rounded(r).first + Rounded(r).count) * PAGE_SIZE <= r.base + r.length
<1>1. PAGE_SIZE \in Nat /\ PAGE_SIZE >= 1
  BY RegionsAssumption
<1>2. r.base \in Nat /\ r.length \in Nat
  BY DEF Region
<1>3. PICK k \in Nat : Gap(r) \in Nat /\ r.base + Gap(r) = k * PAGE_SIZE
  <2> DEFINE g == Gap(r)
  <2>1. g = (PAGE_SIZE - (r.base % PAGE_SIZE)) % PAGE_SIZE
    BY DEF Gap
  <2> HIDE DEF g
  <2>2. g \in Nat /\ \E k \in Nat : r.base + g = k * PAGE_SIZE
    <3>1. r.base \in Nat
      BY <1>2
    <3> QED BY <1>1, <2>1, <3>1, GapFills, Zenon
  <2> QED BY <2>2 DEF g
<1> DEFINE m == PAGE_SIZE
           f == (k * m) \div m
           c == (r.length - Gap(r)) \div m
<1>4. f \in Nat /\ f * m = k * m
  BY <1>1, MultipleDiv
<1>5. r.length - Gap(r) \in Nat
  BY <1>2, <1>3
<1>6. c \in Nat /\ c * m \in Nat /\ c * m <= r.length - Gap(r)
  BY <1>1, <1>5, DivBounds
<1>7. Rounded(r).first = f /\ Rounded(r).count = c
  BY <1>3 DEF Rounded
<1> HIDE DEF f, c, m
<1>8. r.base + Gap(r) = f * m /\ m \in Nat /\ f * m \in Nat
  <2>1. r.base + Gap(r) = f * m
    BY <1>3, <1>4, Zenon DEF m
  <2>2. m \in Nat
    BY <1>1 DEF m
  <2> QED BY <1>4, <2>1, <2>2
<1>9. (f + c) * m = f * m + c * m
  BY <1>4, <1>6, <1>8
<1>10. r.base <= f * m /\ (f + c) * m <= r.base + r.length
  BY <1>2, <1>3, <1>5, <1>6, <1>8, <1>9
<1> QED BY <1>4, <1>6, <1>7, <1>10 DEF m

\* What the i-th entry of the memory map makes of the list.
NextList(i, list) ==
  IF Regions[i].usable THEN add_memory(list, Regions[i]) ELSE list

\* Induction over the entries.
LEMMA LeastElement ==
  ASSUME NEW T, T \subseteq Nat, T # {}
  PROVE  \E x \in T : \A y \in T : x <= y
<1>1. PICK x \in T : \A y \in T : <<y, x>> \notin OpToRel(<, Nat)
  BY WFMin, NatLessThanWellFounded, Zenon
<1>2. \A y \in T : ~(y < x)
  BY <1>1, Zenon DEF OpToRel
<1> QED BY <1>2, SMT

LEMMA SetInduction ==
  ASSUME NEW S, 0 \in S, \A n \in Nat : n \in S => n + 1 \in S
  PROVE  Nat \subseteq S
<1> SUFFICES ASSUME Nat \ S # {} PROVE FALSE
  OBVIOUS
<1>1. PICK x \in Nat \ S : \A y \in Nat \ S : x <= y
  BY LeastElement
<1>2. x - 1 \in Nat /\ x - 1 \in S
  BY <1>1
<1> QED BY <1>1, <1>2

\* The recursion of added has a solution, and added is one.
LEMMA AddedSteps ==
  /\ added[0] = <<>>
  /\ \A i \in 1 .. Len(Regions) : added[i] = NextList(i, added[i - 1])
<1> DEFINE G(f, i) == IF i = 0 THEN <<>> ELSE NextList(i, f[i - 1])
           S == {n \in Nat : \E f : f = [i \in 0 .. n |-> G(f, i)]}
<1>1. 0 \in S
  <2> DEFINE f == [i \in 0 .. 0 |-> <<>>]
  <2>1. f = [i \in 0 .. 0 |-> G(f, i)]
    BY SMT
  <2> QED BY <2>1
<1>2. \A n \in Nat : n \in S => n + 1 \in S
  <2> SUFFICES ASSUME NEW n \in Nat, n \in S PROVE n + 1 \in S
    OBVIOUS
  <2>1. PICK f : f = [i \in 0 .. n |-> G(f, i)]
    OBVIOUS
  <2> DEFINE g == [i \in 0 .. n + 1 |-> IF i = n + 1 THEN NextList(i, f[n]) ELSE f[i]]
  <2>2. ASSUME NEW i \in 0 .. n + 1
        PROVE  g[i] = G(g, i)
    <3>1. CASE i = n + 1
      <4>1. g[i] = NextList(i, f[n]) /\ i - 1 = n /\ g[n] = f[n] /\ i # 0
        BY <3>1
      <4> QED BY <4>1
    <3>2. CASE i # n + 1 /\ i # 0
      <4>1. /\ g[i] = f[i] /\ g[i - 1] = f[i - 1] /\ i \in 0 .. n
        BY <3>2
      <4>2. f[i] = G(f, i)
        BY <2>1, <4>1, Zenon
      <4> QED BY <3>2, <4>1, <4>2, Zenon
    <3>3. CASE i = 0
      <4>1. g[i] = f[i] /\ i \in 0 .. n
        BY <3>3
      <4>2. f[i] = G(f, i)
        BY <2>1, <4>1, Zenon
      <4> QED BY <3>3, <4>1, <4>2, Zenon
    <3> QED BY <3>1, <3>2, <3>3
  <2>3. g = [i \in 0 .. n + 1 |-> G(g, i)]
    <3>1. g = [i \in 0 .. n + 1 |-> IF i = n + 1 THEN NextList(i, f[n]) ELSE f[i]]
      OBVIOUS
    <3> HIDE DEF g
    <3> DEFINE h == [i \in 0 .. n + 1 |-> G(g, i)]
    <3>2. \A i \in 0 .. n + 1 : g[i] = h[i]
      BY <2>2, Zenon
    <3>3. DOMAIN h = 0 .. n + 1 /\ h = [i \in DOMAIN h |-> h[i]]
      OBVIOUS
    <3>4. DOMAIN g = 0 .. n + 1 /\ g = [i \in DOMAIN g |-> g[i]]
      BY <3>1
    <3> HIDE DEF h
    <3>5. g = h
      BY <3>2, <3>3, <3>4
    <3> QED BY <3>5 DEF h
  <2> HIDE DEF g
  <2>4. n + 1 \in Nat
    BY SMT
  <2> QED BY <2>3, <2>4
<1>3. Len(Regions) \in Nat
  BY RegionsAssumption
<1>4. \E f : f = [i \in 0 .. Len(Regions) |-> G(f, i)]
  <2> HIDE DEF S
  <2>1. Len(Regions) \in S
    BY <1>1, <1>2, <1>3, SetInduction
  <2> QED BY <2>1 DEF S
<1>5. added = [i \in 0 .. Len(Regions) |-> G(added, i)]
  BY <1>4, Zenon DEF added, NextList
<1>6. 0 \in 0 .. Len(Regions) /\ \A i \in 1 .. Len(Regions) : i \in 0 .. Len(Regions) /\ i # 0
  BY <1>3
<1> QED BY <1>5, <1>6, Zenon
\* Page p lies in entry k, which is usable.
Within(p, k) == /\ Regions[k].usable
                /\ Regions[k].base <= p * PAGE_SIZE
                /\ (p + 1) * PAGE_SIZE <= Regions[k].base + Regions[k].length

\* What the list is like after n entries.
ListOK(list, n) ==
  /\ list \in Seq(Nat)
  /\ \A a, b \in 1 .. Len(list) : list[a] = list[b] => a = b
  /\ \A a \in 1 .. Len(list) : \E k \in 1 .. n : Within(list[a], k)

\* No page lies in two entries.
LEMMA WithinOne ==
  ASSUME NEW p \in Nat, NEW j \in 1 .. Len(Regions), NEW k \in 1 .. Len(Regions),
         Within(p, j), Within(p, k)
  PROVE  j = k
<1> SUFFICES ASSUME j # k PROVE FALSE
  OBVIOUS
<1>1. /\ Regions[j] \in Region /\ Regions[k] \in Region
      /\ Regions[j].usable /\ Regions[k].usable
      /\ j \in DOMAIN Regions /\ k \in DOMAIN Regions
  BY RegionsType, Zenon DEF Within
<1>2. /\ PAGE_SIZE \in Nat /\ PAGE_SIZE >= 1
      /\ \/ Regions[j].base + Regions[j].length <= Regions[k].base
         \/ Regions[k].base + Regions[k].length <= Regions[j].base
  <2>1. PAGE_SIZE \in Nat \ {0}
    BY RegionsAssumption, Zenon
  <2>2. PAGE_SIZE \in Nat /\ PAGE_SIZE >= 1
    BY ONLY <2>1
  <2>3. \/ Regions[j].base + Regions[j].length <= Regions[k].base
        \/ Regions[k].base + Regions[k].length <= Regions[j].base
    BY <1>1, RegionsAssumption, Zenon
  <2> QED  BY <2>2, <2>3
<1> DEFINE x == p * PAGE_SIZE
           y == (p + 1) * PAGE_SIZE
<1>3. x \in Nat /\ y \in Nat /\ x < y
  BY <1>2
<1>4. /\ Regions[j].base <= x /\ y <= Regions[j].base + Regions[j].length
      /\ Regions[k].base <= x /\ y <= Regions[k].base + Regions[k].length
  BY DEF Within
<1>5. /\ Regions[j].base \in Nat /\ Regions[j].length \in Nat
      /\ Regions[k].base \in Nat /\ Regions[k].length \in Nat
  BY <1>1 DEF Region
<1>6. \A b, l, c, m \in Nat :
         b <= x /\ y <= b + l /\ c <= x /\ y <= c + m => ~(b + l <= c) /\ ~(c + m <= b)
  <2> HIDE DEF x, y
  <2> QED BY <1>3, SMT
<1> HIDE DEF x, y
<1> QED BY ONLY <1>2, <1>4, <1>5, <1>6, Zenon

\* An entry's pages, put before the others.
LEMMA NextKeepsListOK ==
  ASSUME NEW i \in 1 .. Len(Regions), NEW list, ListOK(list, i - 1)
  PROVE  ListOK(NextList(i, list), i)
<1> DEFINE r == Regions[i]
           first == Rounded(r).first
           count == Rounded(r).count
           new == [k \in 1 .. count |-> first + count - k]
           next == new \o list
<1>1. Len(Regions) \in Nat /\ i \in Nat
  BY RegionsAssumption
<1>2. /\ list \in Seq(Nat) /\ Len(list) \in Nat
      /\ \A a, b \in 1 .. Len(list) : list[a] = list[b] => a = b
      /\ \A a \in 1 .. Len(list) :
           list[a] \in Nat /\ \E k \in 1 .. i : k # i /\ k \in 1 .. Len(Regions) /\ Within(list[a], k)
  <2>1. /\ list \in Seq(Nat) /\ Len(list) \in Nat
        /\ \A a, b \in 1 .. Len(list) : list[a] = list[b] => a = b
        /\ \A a \in 1 .. Len(list) : \E k \in 1 .. i - 1 : Within(list[a], k)
    BY DEF ListOK
  <2>2. \A k \in 1 .. i - 1 : k \in 1 .. i /\ k # i /\ k \in 1 .. Len(Regions)
    BY <1>1
  <2>3. \A a \in 1 .. Len(list) : list[a] \in Nat
    BY <2>1
  <2> QED BY ONLY <2>1, <2>2, <2>3, Zenon
<1>3. CASE ~r.usable
  <2>1. NextList(i, list) = list
    BY <1>3 DEF NextList
  <2> QED BY ONLY <1>2, <2>1, Zenon DEF ListOK
<1>4. CASE r.usable
  <2>1. r \in Region /\ r.length >= Gap(r)
    BY <1>4, RegionsType, Zenon
  <2>2. /\ first \in Nat /\ count \in Nat
        /\ r.base <= first * PAGE_SIZE
        /\ (first + count) * PAGE_SIZE <= r.base + r.length
    BY <2>1, PagesInRegion
  <2>3. NextList(i, list) = next
    BY <1>4 DEF NextList, add_memory
  <2>4. r.base \in Nat /\ r.length \in Nat /\ PAGE_SIZE \in Nat /\ PAGE_SIZE >= 1
    BY <2>1, RegionsAssumption DEF Region
  <2> HIDE DEF first, count, r
  <2>5. /\ new \in Seq(Nat) /\ Len(new) = count
        /\ \A a \in 1 .. count : new[a] = first + count - a
    <3>1. \A a \in 1 .. count : first + count - a \in Nat
      BY <2>2
    <3> QED BY <2>2, <3>1
  <2> HIDE DEF new
  <2>6. \A a \in 1 .. count : new[a] \in Nat /\ Within(new[a], i)
    <3> TAKE a \in 1 .. count
    <3>1. PICK p \in Nat : p = new[a] /\ first <= p /\ p + 1 <= first + count
      <4>1. new[a] = first + count - a
        BY <2>5
      <4> QED BY <2>2, <4>1
    <3>2. /\ first * PAGE_SIZE <= p * PAGE_SIZE
          /\ first * PAGE_SIZE \in Nat /\ p * PAGE_SIZE \in Nat
      BY <2>2, <2>4, <3>1, Scaled
    <3>0. p + 1 \in Nat /\ first + count \in Nat
      BY <2>2
    <3>3. /\ (p + 1) * PAGE_SIZE <= (first + count) * PAGE_SIZE
          /\ (p + 1) * PAGE_SIZE \in Nat /\ (first + count) * PAGE_SIZE \in Nat
      BY <2>4, <3>0, <3>1, Scaled, Zenon
    <3> DEFINE x == p * PAGE_SIZE
               y == (p + 1) * PAGE_SIZE
               u == first * PAGE_SIZE
               v == (first + count) * PAGE_SIZE
    <3>4. x \in Nat /\ y \in Nat /\ u \in Nat /\ v \in Nat
      BY <3>2, <3>3, Zenon
    <3>5. u <= x /\ y <= v /\ r.base <= u /\ v <= r.base + r.length
      BY <2>2, <3>2, <3>3
    <3> HIDE DEF x, y, u, v
    <3>6. r.base <= x /\ y <= r.base + r.length
      BY ONLY <2>4, <3>4, <3>5, SMT
    <3>7. Within(p, i)
      BY <1>4, <3>6, Zenon DEF Within, x, y, r
    <3> QED BY <3>1, <3>7
  <2>7. /\ next \in Seq(Nat) /\ Len(next) = count + Len(list)
        /\ \A a \in 1 .. count : next[a] = new[a]
        /\ \A a \in count + 1 .. count + Len(list) : next[a] = list[a - count]
    <3>1. /\ next \in Seq(Nat) /\ Len(next) = Len(new) + Len(list)
          /\ \A k \in 1 .. Len(new) : next[k] = new[k]
          /\ \A k \in Len(new) + 1 .. Len(new) + Len(list) : next[k] = list[k - Len(new)]
      BY <1>2, <2>5, Joined, ZenonT(30)
    <3>2. Len(new) = count
      BY <2>5
    <3> HIDE DEF next
    <3> QED BY ONLY <3>1, <3>2, Zenon
  <2> HIDE DEF next
  <2>8. ASSUME NEW a \in 1 .. Len(next)
        PROVE  \/ a \in 1 .. count /\ next[a] = first + count - a /\ Within(next[a], i)
               \/ /\ a - count \in 1 .. Len(list) /\ next[a] = list[a - count]
                  /\ a \notin 1 .. count
                  /\ \E k \in 1 .. i : k # i /\ k \in 1 .. Len(Regions) /\ Within(next[a], k)
    <3>1. CASE a \in 1 .. count
      BY <2>5, <2>6, <2>7, <3>1
    <3>2. CASE a \notin 1 .. count
      <4>1. a \in count + 1 .. count + Len(list) /\ a - count \in 1 .. Len(list)
        BY <1>2, <2>2, <2>7, <3>2
      <4>2. next[a] = list[a - count]
        BY <2>7, <4>1
      <4> QED BY ONLY <1>2, <3>2, <4>1, <4>2, Zenon
    <3> QED BY <3>1, <3>2
  <2>9. \A a \in 1 .. Len(next) : next[a] \in Nat
    BY <2>7
  <2>10. ASSUME NEW a \in 1 .. Len(next), NEW b \in 1 .. Len(next), next[a] = next[b]
         PROVE  a = b
    <3>1. CASE a \in 1 .. count /\ b \in 1 .. count
      <4>1. first + count - a = first + count - b
        BY <2>8, <2>10, <3>1
      <4> QED BY <2>2, <3>1, <4>1
    <3>2. CASE a \notin 1 .. count /\ b \notin 1 .. count
      <4>1. a - count = b - count
        <5>1. /\ a - count \in 1 .. Len(list) /\ b - count \in 1 .. Len(list)
              /\ list[a - count] = list[b - count]
          BY <2>8, <2>10, <3>2
        <5> QED BY ONLY <1>2, <5>1, Zenon
      <4> QED BY <2>2, <2>7, <4>1
    <3>3. ASSUME NEW c \in 1 .. Len(next), NEW d \in 1 .. Len(next), next[c] = next[d],
                 c \in 1 .. count, d \notin 1 .. count
          PROVE  FALSE
      <4>1. Within(next[c], i)
        BY <2>8, <3>3
      <4>2. \E k \in 1 .. i : k # i /\ k \in 1 .. Len(Regions) /\ Within(next[d], k)
        BY <2>8, <3>3
      <4>3. PICK k \in 1 .. Len(Regions) : k # i /\ Within(next[c], k)
        BY <3>3, <4>2, Zenon
      <4> QED BY <2>9, <4>1, <4>3, WithinOne
    <3> QED BY <2>10, <3>1, <3>2, <3>3, Zenon
  <2>11. \A a \in 1 .. Len(next) : \E k \in 1 .. i : Within(next[a], k)
    <3>1. i \in 1 .. i
      BY <1>1
    <3> QED BY <2>8, <3>1, Zenon
  <2> QED BY ONLY <2>3, <2>7, <2>10, <2>11, Zenon DEF ListOK
<1> QED BY <1>3, <1>4

\* The list freelist_init makes.
LEMMA FreeListOK == ListOK(freelist_init, Len(Regions))
<1> DEFINE S == {n \in Nat : n <= Len(Regions) => ListOK(added[n], n)}
<1>1. Len(Regions) \in Nat
  BY RegionsAssumption
<1>2. 0 \in S
  <2>1. ListOK(<<>>, 0)
    BY DEF ListOK
  <2> QED BY <2>1, AddedSteps
<1>3. \A n \in Nat : n \in S => n + 1 \in S
  <2> SUFFICES ASSUME NEW n \in Nat, n \in S, n + 1 <= Len(Regions)
               PROVE  ListOK(added[n + 1], n + 1)
    OBVIOUS
  <2>1. n <= Len(Regions) /\ n + 1 \in 1 .. Len(Regions) /\ (n + 1) - 1 = n
    BY <1>1
  <2>2. ListOK(added[n], n)
    BY <2>1
  <2>3. added[n + 1] = NextList(n + 1, added[n])
    BY <2>1, AddedSteps, Zenon
  <2>4. ListOK(added[n], (n + 1) - 1)
    BY <2>1, <2>2, Zenon
  <2>5. ListOK(NextList(n + 1, added[n]), n + 1)
    BY <2>1, <2>4, NextKeepsListOK
  <2> QED BY <2>3, <2>5, Zenon
<1>4. Len(Regions) \in S
  <2> HIDE DEF S
  <2> QED BY <1>1, <1>2, <1>3, SetInduction
<1> QED BY <1>1, <1>4 DEF freelist_init

-----------------------------------------------------------------------------
(* The invariant. *)

\* How far the kernel has come tells what is set up.
SetUpInv ==
  /\ pc \in Nat \ {0}
  /\ pc > 1 => gates = idt_setup
  /\ pc > 3 => 0 \in masked
  /\ intr => pc > 4
  /\ pc > 8 => cursor = TRUE
  /\ crashed = FALSE

\* Before the handshake the mouse has nothing to say.
QuietInv ==
  pc <= 8 => /\ owed = <<>> /\ streaming = FALSE /\ sending = <<>>
             /\ waiting \in Seq([from : {"keyboard"}, byte : {Key}])

BootInv == SetUpInv /\ QuietInv /\ Realigning

\* The instruction at pc is one of the script.
LEMMA AtWhere ==
  ASSUME pc \in Nat \ {0}
  PROVE  /\ At("idt_setup") => pc = 1
         /\ At("freelist_init") => pc = 2
         /\ At("mask all") => pc = 3
         /\ At("sti") => pc = 4
         /\ At("unmask") => pc > 4 /\ pc <= 7 /\ Arg # 0
         /\ At("initialize_cursor") => pc = 8
         /\ \A what \in HandshakeWhats : At(what) => pc > 8
<1> DEFINE what(k) == start[k].what
<1>1. ~Booted => \/ pc = 1 \/ pc = 2 \/ pc = 3 \/ pc = 4 \/ pc \in 5 .. 7 \/ pc = 8
                 \/ pc \in 9 .. Len(start)
  <2>1. Len(start) \in Nat
    BY Script
  <2> QED BY <2>1, SMT DEF Booted
<1>2. \/ ~Booted
      \/ \A w : ~At(w)
  BY Zenon DEF At
<1>3. CASE pc = 1
  BY <1>3, Script DEF At, HandshakeWhats
<1>4. CASE pc = 2
  BY <1>4, Script DEF At, HandshakeWhats
<1>5. CASE pc = 3
  BY <1>5, Script DEF At, HandshakeWhats
<1>6. CASE pc = 4
  BY <1>6, Script DEF At, HandshakeWhats
<1>7. CASE pc \in 5 .. 7
  <2>1. start[pc].what = "unmask" /\ Arg \in {1, 2, 12}
    BY <1>7, Script DEF Arg
  <2> QED BY <1>7, <2>1 DEF At, HandshakeWhats
<1>8. CASE pc = 8
  BY <1>8, Script DEF At, HandshakeWhats
<1>9. CASE pc \in 9 .. Len(start)
  <2>1. start[pc].what \in HandshakeWhats
    BY <1>9, Script, Zenon
  <2>2. pc > 8
    BY <1>9, SMT
  <2> QED BY <2>1, <2>2 DEF At, HandshakeWhats
<1> QED BY <1>1, <1>2, <1>3, <1>4, <1>5, <1>6, <1>7, <1>8, <1>9 DEF HandshakeWhats

\* It holds at first.
LEMMA BootInvHoldsAtFirst == BootInit => BootInv
<1> SUFFICES ASSUME BootInit PROVE BootInv
  OBVIOUS
<1>1. SetUpInv
  BY SMT DEF BootInit, SetUpInv
<1>2. QuietInv
  BY SMT DEF BootInit, QuietInv, MouseInit
<1>3. Realigning
  <2>1. SendingOK /\ Place % 3 = 0
    BY SMT DEF BootInit, MouseInit, SendingOK, Place
  <2>2. mouse_counter = 0 /\ calm = 4
    BY DEF BootInit, MouseInit, CalmEnough
  <2>3. 4 + Rank(0, 0) <= 4 /\ 4 \in 0 .. 4 /\ 0 \in 0 .. 2
    BY SMT DEF Rank
  <2> QED BY <2>1, <2>2, <2>3, Zenon DEF Realigning, CalmEnough
<1> QED BY <1>1, <1>2, <1>3 DEF BootInv

\* The kernel sets itself up, or waits.
LEMMA InstructionKeepsBootInv ==
  ASSUME BootInv, KernelInstruction
  PROVE  BootInv'
<1>1. pc' = pc + 1 /\ crashed' = crashed /\ UNCHANGED <<mouseVars, controllerVars>>
  BY DEF KernelInstruction
<1>2. pc \in Nat \ {0}
  BY DEF BootInv, SetUpInv
<1>3. SetUpInv'
  <2>1. CASE At("idt_setup") /\ gates' = idt_setup
             /\ UNCHANGED <<intr, masked, freelist, cursor>>
    <3>1. pc = 1
      BY <1>2, <2>1, AtWhere, Zenon
    <3> QED BY <1>1, <2>1, <3>1 DEF BootInv, SetUpInv
  <2>2. CASE At("freelist_init") /\ UNCHANGED <<intr, masked, gates, cursor>>
    <3>1. pc = 2
      BY <1>2, <2>2, AtWhere, Zenon
    <3> QED BY <1>1, <2>2, <3>1 DEF BootInv, SetUpInv
  <2>3. CASE At("mask all") /\ masked' = Lines
             /\ UNCHANGED <<intr, gates, freelist, cursor>>
    <3>1. pc = 3
      BY <1>2, <2>3, AtWhere, Zenon
    <3>2. 0 \in masked' /\ intr' = intr /\ gates' = gates /\ cursor' = cursor
      BY <2>3 DEF Lines
    <3> QED BY <1>1, <3>1, <3>2 DEF BootInv, SetUpInv
  <2>4. CASE At("sti") /\ intr' = TRUE /\ UNCHANGED <<masked, gates, freelist, cursor>>
    <3>1. pc = 4
      BY <1>2, <2>4, AtWhere, Zenon
    <3> QED BY <1>1, <2>4, <3>1 DEF BootInv, SetUpInv
  <2>5. CASE At("unmask") /\ masked' = pic_unmask_irq(Arg)
             /\ UNCHANGED <<intr, gates, freelist, cursor>>
    <3>0. pc > 4 /\ pc <= 7 /\ Arg # 0
      BY <1>2, <2>5, AtWhere, Zenon
    <3>1. pc > 4 /\ pc <= 7 /\ 0 \in masked'
      BY <1>2, <2>5, <3>0 DEF BootInv, SetUpInv, pic_unmask_irq
    <3> QED BY <1>1, <1>2, <2>5, <3>1, SMT DEF BootInv, SetUpInv
  <2>6. CASE At("initialize_cursor") /\ cursor' = TRUE
             /\ UNCHANGED <<intr, masked, gates, freelist>>
    <3>1. pc = 8
      BY <1>2, <2>6, AtWhere, Zenon
    <3> QED BY <1>1, <2>6, <3>1 DEF BootInv, SetUpInv
  <2>7. CASE mouse_wait /\ UNCHANGED <<intr, masked, gates, freelist, cursor>>
    <3>1. pc > 8
      BY <1>2, <2>7, AtWhere DEF mouse_wait, HandshakeWhats
    <3> QED BY <1>1, <1>2, <2>7, <3>1, SMT DEF BootInv, SetUpInv
  <2> QED BY <2>1, <2>2, <2>3, <2>4, <2>5, <2>6, <2>7, Zenon DEF KernelInstruction, Setup
<1>4. QuietInv'
  <2>1. pc' <= 8 => pc <= 8
    BY <1>1, <1>2, SMT
  <2> QED BY <1>1, <2>1 DEF BootInv, QuietInv, mouseVars, controllerVars
<1>5. Realigning'
  BY <1>1 DEF BootInv, Realigning, SendingOK, Place, mouseVars, driverVars
<1> QED BY <1>3, <1>4, <1>5 DEF BootInv

\* A step of the handshake, which sets nothing of the kernel up.
LEMMA HandshakeKeepsSetUp ==
  ASSUME BootInv, pc > 8, pc' = pc + 1 \/ pc' = pc,
         UNCHANGED <<intr, masked, gates, cursor, crashed>>
  PROVE  SetUpInv' /\ QuietInv'
<1>1. pc' > 8 /\ pc' \in Nat \ {0}
  BY SMT DEF BootInv, SetUpInv
<1>2. pc' > 1 /\ pc > 1 /\ pc' > 3 /\ pc > 3 /\ pc' > 4 /\ ~(pc' <= 8)
  BY <1>1, SMT DEF BootInv, SetUpInv
<1> QED BY <1>1, <1>2 DEF BootInv, SetUpInv, QuietInv

LEMMA HandshakeKeepsBootInv ==
  ASSUME BootInv, CommandSent \/ DataSent \/ ReadPort \/ WriteStatus
  PROVE  BootInv'
<1>1. pc \in Nat \ {0} /\ Realigning
  BY DEF BootInv, SetUpInv
<1>2. pc > 8 /\ pc' = pc + 1 /\ UNCHANGED <<intr, masked, gates, cursor, crashed>>
  BY <1>1, AtWhere DEF CommandSent, DataSent, ReadPort, WriteStatus, HandshakeWhats
<1>3. CASE UNCHANGED mouseVars
  <2>1. Realigning'
    BY <1>1, <1>3 DEF Realigning, SendingOK, Place, mouseVars, driverVars
  <2> QED BY <1>2, <2>1, HandshakeKeepsSetUp DEF BootInv
<1>4. CASE sending # <<>> /\ Leaves /\ calm' = 0 /\ UNCHANGED driverVars
  <2>1. SendingOK'
    BY <1>1, <1>4, LeavesPlace DEF Realigning
  <2>2. mouse_counter' \in 0 .. 2
    BY <1>1, <1>4 DEF Realigning, driverVars
  <2>3. Realigning'
    BY <1>4, <2>1, <2>2, AnyRankNext
  <2> QED BY <1>2, <2>3, HandshakeKeepsSetUp DEF BootInv
<1> QED BY <1>3, <1>4 DEF CommandSent, DataSent, ReadPort, WriteStatus, Inb

\* The mouse and the keyboard, which send nothing, or nothing of a packet, before.
LEMMA DevicesKeepBootInv ==
  ASSUME BootInv, MouseReplies \/ MouseSends \/ KeyPressed
  PROVE  BootInv'
<1>1. /\ pc \in Nat \ {0} /\ Realigning /\ QuietInv
      /\ pc' = pc /\ UNCHANGED <<intr, masked, gates, cursor, crashed>>
  BY DEF BootInv, SetUpInv, MouseReplies, MouseSends, KeyPressed, kernelVars
<1>2. SetUpInv'
  BY <1>1 DEF BootInv, SetUpInv
<1>3. CASE MouseReplies
  <2>1. ~(pc <= 8) /\ UNCHANGED mouseVars
    BY <1>1, <1>3 DEF MouseReplies, QuietInv
  <2>2. QuietInv'
    BY <1>1, <2>1 DEF QuietInv
  <2>3. Realigning'
    BY <1>1, <2>1 DEF Realigning, SendingOK, Place, mouseVars, driverVars
  <2> QED BY <1>2, <2>2, <2>3 DEF BootInv
<1>4. CASE MouseSends
  <2>1. PICK packet \in Packets : Send(packet)
    BY <1>4 DEF MouseSends
  <2>2. ~(pc <= 8)
    BY <1>1, <1>4 DEF MouseSends, QuietInv
  <2>3. QuietInv'
    BY <1>1, <2>2 DEF QuietInv
  <2>4. Realigning'
    BY <1>1, <2>1, SendPlace DEF Realigning, Send, driverVars
  <2> QED BY <1>2, <2>3, <2>4 DEF BootInv
<1>5. CASE KeyPressed
  <2>1. /\ waiting' = Append(waiting, Byte("keyboard", Key))
        /\ UNCHANGED mouseVars /\ owed' = owed /\ streaming' = streaming
    BY <1>5 DEF KeyPressed
  <2>2. ASSUME waiting \in Seq([from : {"keyboard"}, byte : {Key}])
        PROVE  waiting' \in Seq([from : {"keyboard"}, byte : {Key}])
    <3> DEFINE S == [from : {"keyboard"}, byte : {Key}]
               key == Byte("keyboard", Key)
    <3>1. key \in S
      BY DEF Byte
    <3>2. waiting \in Seq(S) /\ waiting' = Append(waiting, key)
      BY <2>1, <2>2
    <3> HIDE DEF S, key
    <3>3. waiting' \in Seq(S)
      BY <3>1, <3>2, AppendProperties
    <3> QED BY <3>3 DEF S
  <2>3. QuietInv'
    BY <1>1, <2>1, <2>2 DEF QuietInv, mouseVars
  <2>4. Realigning'
    BY <1>1, <2>1 DEF Realigning, SendingOK, Place, mouseVars, driverVars
  <2> QED BY <1>2, <2>3, <2>4 DEF BootInv
<1> QED BY <1>3, <1>4, <1>5

\* Interrupts.
LEMMA KeyboardInterruptKeepsBootInv ==
  ASSUME BootInv, IRQ1
  PROVE  BootInv'
<1>1. /\ Realigning /\ QuietInv /\ waiting # <<>> /\ waiting' = Tail(waiting)
      /\ UNCHANGED <<mouseVars, kernelVars, owed, streaming>>
  BY DEF BootInv, IRQ1
<1>2. SetUpInv'
  BY <1>1 DEF BootInv, SetUpInv, kernelVars
<1>3. QuietInv'
  <2> DEFINE S == [from : {"keyboard"}, byte : {Key}]
  <2>1. ASSUME waiting \in Seq(S)
        PROVE  waiting' \in Seq(S)
    <3> HIDE DEF S
    <3> QED BY <1>1, <2>1, HeadAndTail
  <2> QED BY <1>1, <2>1 DEF QuietInv, kernelVars, mouseVars
<1>4. Realigning'
  BY <1>1 DEF Realigning, SendingOK, Place, mouseVars, driverVars
<1> QED BY <1>2, <1>3, <1>4 DEF BootInv

LEMMA MouseInterruptKeepsBootInv ==
  ASSUME BootInv, IRQ12
  PROVE  BootInv'
<1>1. /\ pc \in Nat \ {0} /\ Realigning /\ QuietInv
      /\ pc' = pc /\ UNCHANGED <<intr, masked, gates, cursor>> /\ crashed' = ~cursor
      /\ IF waiting = <<>> THEN sending # <<>> ELSE Head(waiting).from = "mouse"
  BY DEF BootInv, SetUpInv, IRQ12, IRQ12Pending
<1>2. pc > 8
  <2>1. ASSUME pc <= 8 PROVE FALSE
    <3> DEFINE S == [from : {"keyboard"}, byte : {Key}]
    <3>1. sending = <<>> /\ waiting \in Seq(S)
      BY <1>1, <2>1 DEF QuietInv
    <3>2. waiting # <<>> /\ Head(waiting).from = "mouse"
      BY <1>1, <3>1
    <3>3. Head(waiting) \in S
      <4> HIDE DEF S
      <4> QED BY <3>1, <3>2, HeadAndTail
    <3> QED BY <3>2, <3>3
  <2> QED BY <1>1, <2>1, SMT
<1>3. crashed' = crashed
  BY <1>1, <1>2 DEF BootInv, SetUpInv
<1>4. Realigning'
  <2>1. CASE waiting = <<>>
    BY <1>1, <2>1, InterruptRealigns DEF IRQ12
  <2>2. CASE waiting # <<>>
    <3>1. /\ store_mouse_data(Head(waiting).byte) /\ calm' = 0 /\ sending' = sending
          /\ mouse_counter \in 0 .. 2
      BY <1>1, <2>2 DEF IRQ12, Realigning
    <3>2. mouse_counter' \in 0 .. 2
      <4>1. mouse_counter' = IF mouse_counter = 2 \/ (mouse_counter = 0 /\ Bit(Head(waiting).byte, 8) = 0)
                             THEN 0 ELSE mouse_counter + 1
        BY <3>1, DriverCounts
      <4> QED BY <3>1, <4>1, SMT
    <3>3. SendingOK'
      BY <1>1, <3>1 DEF Realigning, SendingOK
    <3> QED BY <3>1, <3>2, <3>3, AnyRankNext
  <2> QED BY <2>1, <2>2
<1> QED BY <1>1, <1>2, <1>3, <1>4, HandshakeKeepsSetUp DEF BootInv

\* No behaviour leaves it.
LEMMA BootInvariant == BootSpec => []BootInv
<1>1. ASSUME BootInv, UNCHANGED bootVars
      PROVE  BootInv'
  BY <1>1 DEF BootInv, SetUpInv, QuietInv, Realigning, SendingOK, Place, bootVars, mouseVars,
              driverVars, kernelVars, controllerVars
<1>2. BootInv /\ [BootNext]_bootVars => BootInv'
  BY <1>1, InstructionKeepsBootInv, HandshakeKeepsBootInv, DevicesKeepBootInv,
     KeyboardInterruptKeepsBootInv, MouseInterruptKeepsBootInv DEF BootNext, KernelStep
<1> QED BY <1>2, BootInvHoldsAtFirst, PTL DEF BootSpec

-----------------------------------------------------------------------------
(* The theorems. *)

\* From sti on, every interrupt that comes has a handler, and that of the mouse
\* finds its data, whatever the devices send while the kernel boots.
THEOREM InterruptsFindHandlers == BootSpec => []InterruptsHandled
<1>1. BootInv => InterruptsHandled
  <2> SUFFICES ASSUME BootInv PROVE InterruptsHandled
    OBVIOUS
  <2>1. intr => gates = idt_setup /\ 0 \in masked
    BY SMT DEF BootInv, SetUpInv
  <2> QED BY <2>1 DEF BootInv, SetUpInv, InterruptsHandled, Lines, idt_setup
<1> QED BY <1>1, BootInvariant, PTL

\* Whoever has taken the replies of the mouse, its driver and the handshake, four
\* calm bytes bring the driver in step.
THEOREM SettlesAfterBoot == BootSpec => []BootSettles
<1>1. BootInv => BootSettles
  BY CalmInStep DEF BootInv, BootSettles
<1> QED BY <1>1, BootInvariant, PTL

\* The free list is empty, or what the memory map makes of it: each page once,
\* and none that is not wholly in usable memory.
THEOREM FreeListUsable == BootSpec => []FreePagesUsable
<1> DEFINE ListInv == freelist \in {<<>>, freelist_init}
<1>1. BootInit => ListInv
  BY DEF BootInit
<1>2. ListInv /\ [BootNext]_bootVars => ListInv'
  <2> SUFFICES ASSUME freelist' = freelist \/ freelist' = freelist_init
               PROVE  ListInv => ListInv'
    BY Zenon DEF BootNext, KernelStep, KernelInstruction, Setup, CommandSent, DataSent, ReadPort,
           WriteStatus, IRQ1, IRQ12, MouseReplies, MouseSends, KeyPressed, bootVars, kernelVars
  <2> QED OBVIOUS
<1>3. ListInv => FreePagesUsable
  <2> SUFFICES ASSUME ListInv PROVE FreePagesUsable
    OBVIOUS
  <2>1. ListOK(freelist, Len(Regions))
    <3>1. ListOK(<<>>, Len(Regions))
      BY RegionsType DEF ListOK
    <3> QED BY <3>1, FreeListOK
  <2>2. DOMAIN freelist = 1 .. Len(freelist)
    BY <2>1 DEF ListOK
  <2> QED BY <2>1, <2>2, RegionsType, Zenon DEF FreePagesUsable, ListOK, Within
<1> QED BY <1>1, <1>2, <1>3, PTL DEF BootSpec
=============================================================================
