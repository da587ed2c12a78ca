------------------------------- MODULE Strings -------------------------------
(***************************************************************************)
(* The string, memory block and number routines of src/src/lib: string.c,  *)
(* memory.c and integer.c, with what they are meant to return beside them. *)
(*                                                                         *)
(* A memory maps addresses to bytes; a string is where it starts, and ends *)
(* before the first NUL.  A routine that writes is a                       *)
(* function of the memory, one byte after the other in the code's order,   *)
(* because what an overlapping copy leaves depends on that order.          *)
(***************************************************************************)
EXTENDS Integers, Sequences

CONSTANTS
  Size,       \* bytes of memory a scan may cross
  HexDigits   \* digits of a word: 8 (a word has 32 bits)

\* A scan crosses the longest number.
ASSUME StringConstants ==
  /\ HexDigits \in Nat \ {0}
  /\ Size \in Nat /\ Size > 2 * (HexDigits + 1)

Char == 0 .. 255

\* What a byte is as an int: read as char, which is signed on the i386, and as
\* unsigned char.
Signed == [c \in Char |-> IF c < 128 THEN c ELSE c - 256]
Unsigned == [c \in Char |-> c]

NUL == 0    \* '\0', and the address no string has
TAB == 9
SP == 32    \* ' '
Plus == 43
Minus == 45
Zero == 48  \* '0'
UpperA == 65
UpperX == 88
UpperZ == 90
LowerA == 97
LowerX == 120
LowerZ == 122

\* while (!Stop(k)) k++, from 0.
First(Stop(_)) == CHOOSE k \in 0 .. Size : Stop(k) /\ \A j \in 0 .. (k - 1) : ~Stop(j)

\* for (k = 0; k < n; k++) v = Step(v, k)
Loop(n, v, Step(_, _)) ==
  LET run[k \in 0 .. n] == IF k = 0 THEN v ELSE LET w == run[k - 1] IN Step(w, k - 1)
  IN  run[n]

-----------------------------------------------------------------------------
\* memory.c

memset(m, p, c, n) == Loop(n, m, LAMBDA b, k : [b EXCEPT ![p + k] = c % 256])

memcpy(m, dest, src, n) == Loop(n, m, LAMBDA b, k : [b EXCEPT ![dest + k] = b[src + k]])

\* The copy that starts at the far end, and for every destination a slip.
memmoveDown(m, dest, src, n) ==
  Loop(n, m, LAMBDA b, k : [b EXCEPT ![dest + n - 1 - k] = b[src + n - 1 - k]])

memmove(m, dest, src, n) ==
  IF dest = src THEN m
  ELSE IF dest < src THEN memcpy(m, dest, src, n)
  ELSE memmoveDown(m, dest, src, n)

memcmp(m, s1, s2, n) ==
  LET k == First(LAMBDA j : j = n \/ m[s1 + j] # m[s2 + j])
  IN  IF k = n THEN 0 ELSE IF Unsigned[m[s1 + k]] < Unsigned[m[s2 + k]] THEN -1 ELSE 1

\* The memory and the pointer behind the copied c, or NULL.
memccpy(m, dest, src, c, n) ==
  LET k == First(LAMBDA j : j = n \/ m[src + j] = c)
  IN  IF k = n THEN [mem |-> memcpy(m, dest, src, n), ret |-> NUL]
      ELSE [mem |-> memcpy(m, dest, src, k + 1), ret |-> dest + k + 1]

-----------------------------------------------------------------------------
\* string.c

strlen(m, s) == First(LAMBDA k : m[s + k] = NUL)

strcmp(m, s1, s2) ==
  LET k == First(LAMBDA j : m[s1 + j] = NUL \/ m[s1 + j] # m[s2 + j])
  IN  Signed[m[s1 + k]] - Signed[m[s2 + k]]

strncmp(m, s1, s2, n) ==
  LET k == First(LAMBDA j : j >= n - 1 \/ m[s1 + j] # m[s2 + j] \/ m[s2 + j] = NUL)
  IN  IF n = 0 THEN 0 ELSE Signed[m[s1 + k]] - Signed[m[s2 + k]]

\* n characters of src and a NUL at dest.
Put(m, dest, src, n) == [memcpy(m, dest, src, n) EXCEPT ![dest + n] = NUL]

strcat(m, dest, src) == Put(m, dest + strlen(m, dest), src, strlen(m, src))

strncat(m, dest, src, nb) ==
  Put(m, dest + strlen(m, dest), src, First(LAMBDA k : m[src + k] = NUL \/ k >= nb))

strlcpy(m, dest, src, size) ==
  IF size = 0 THEN m
  ELSE Put(m, dest, src, First(LAMBDA k : k >= size - 1 \/ m[src + k] = NUL))

\* malloc's block is the caller's to name: external.
strdup(m, block, src) == IF block = NUL THEN m ELSE strlcpy(m, block, src, strlen(m, src) + 1)

str_is_uppercase(m, s) ==
  \A k \in 0 .. (strlen(m, s) - 1) :
    ~(m[s + k] < UpperA \/ (m[s + k] > LowerA /\ m[s + k] < LowerZ) \/ m[s + k] > UpperZ)
str_is_lowercase(m, s) ==
  \A k \in 0 .. (strlen(m, s) - 1) :
    ~(m[s + k] < LowerA \/ (m[s + k] > UpperA /\ m[s + k] < UpperZ) \/ m[s + k] > LowerZ)

\* The characters first .. last of the string, moved by so many codes.
Shifted(m, s, first, last, by) ==
  Loop(strlen(m, s), m, LAMBDA b, k :
         [b EXCEPT ![s + k] = IF @ >= first /\ @ <= last THEN @ + by ELSE @])
strupcase(m, s) == Shifted(m, s, LowerA, LowerZ, UpperA - LowerA)
strlowcase(m, s) == Shifted(m, s, UpperA, UpperZ, LowerA - UpperA)

Blank == {SP, TAB}

\* The memory and where the trimmed string starts.
str_trim(m, str) ==
  LET start == str + First(LAMBDA k : m[str + k] \notin Blank)
      last  == start + strlen(m, start) - 1
      cut   == First(LAMBDA k : last - k <= start \/ m[last - k] \notin Blank)
  IN  IF m[start] = NUL THEN [mem |-> m, ret |-> start]
      ELSE [mem |-> memset(m, last - cut + 1, NUL, cut), ret |-> start]

-----------------------------------------------------------------------------
\* integer.c, on words of HexDigits digits

\* What a digit with k others on its right counts.
Weight[k \in 0 .. HexDigits] == IF k = 0 THEN 1 ELSE 16 * Weight[k - 1]

Words == Weight[HexDigits]
Half == Words \div 2
ToInt(n) == ((n + Half) % Words) - Half

IsDigit(c) == c >= Zero /\ c <= Zero + 9

\* Signed overflow is undefined: the build's multiplication wraps.
atoi(m, str) ==
  LET i    == str + First(LAMBDA k : m[str + k] \notin {10, TAB, 11, SP, 12, 13})
      from == IF m[i] \in {Plus, Minus} THEN i + 1 ELSE i
      nbr  == Loop(First(LAMBDA k : ~IsDigit(m[from + k])), 0,
                   LAMBDA n, k : ToInt(ToInt(10 * n) + m[from + k] - Zero))
  IN  IF m[i] = Minus THEN ToInt(-nbr) ELSE nbr

\* while (i < strlen / 2) swap, and a slip that swaps every pair twice.
SwapAll(s) ==
  Loop(Len(s), s, LAMBDA b, k : [b EXCEPT ![k + 1] = b[Len(s) - k], ![Len(s) - k] = b[k + 1]])
SwapHalf(s) ==
  Loop(Len(s) \div 2, s,
       LAMBDA b, k : [b EXCEPT ![k + 1] = b[Len(s) - k], ![Len(s) - k] = b[k + 1]])

\* The texts itoa can leave.  INT_MIN has no positive counterpart: negating it is
\* undefined, and the build skips the loop or runs it once on -8.
itoa(nb) ==
  LET low[n \in 0 .. Half] ==
        IF n = 0 THEN << >> ELSE <<(n % 10) + Zero>> \o low[n \div 10]
  IN  IF nb = -Half THEN {<<Minus>>, <<Minus, Zero - 8>>}
      ELSE IF nb = 0 THEN {<<Zero>>}
      ELSE IF nb < 0 THEN {SwapHalf(Append(low[-nb], Minus))}
      ELSE {SwapHalf(low[nb])}

HexValue(c) ==
  IF IsDigit(c) THEN c - Zero
  ELSE IF c >= LowerA /\ c <= LowerA + 5 THEN c - LowerA + 10
  ELSE IF c >= UpperA /\ c <= UpperA + 5 THEN c - UpperA + 10
  ELSE -1

\* The digits that do not fit are shifted out on the left.
htoi(m, hex_str) ==
  LET i    == hex_str + First(LAMBDA k : m[hex_str + k] # SP)
      from == IF m[i] = Zero /\ m[i + 1] \in {LowerX, UpperX} THEN i + 2 ELSE i
  IN  Loop(First(LAMBDA k : HexValue(m[from + k]) = -1), 0,
           LAMBDA n, k : ((16 * n) % Words) + HexValue(m[from + k]))

\* print_hex and terminal_print_hex: the same text on the two outputs.
terminal_print_hex(val) ==
  <<Zero, LowerX>> \o
  [k \in 1 .. HexDigits |->
     LET nibble == (val \div Weight[HexDigits - k]) % 16
     IN  IF nibble < 10 THEN Zero + nibble ELSE UpperA + nibble - 10]

\* print_unit passes its unsigned value to itoa.
print_unit(val, unit) == {<<<<"number", t>>, <<"unit", unit>>>> : t \in itoa(ToInt(val))}
-----------------------------------------------------------------------------
\* What they are meant to return

Starts(m) == {s \in DOMAIN m : \E e \in DOMAIN m : e >= s /\ m[e] = NUL}

\* The characters of the string at s, which must be one.
EndOf(m, s) == CHOOSE e \in DOMAIN m : e >= s /\ m[e] = NUL /\ \A i \in s .. (e - 1) : m[i] # NUL
Text(m, s) == SubSeq(m, s, EndOf(m, s) - 1)
Stored(t) == Append(t, NUL)
Cut(t, n) == SubSeq(t, 1, IF Len(t) < n THEN Len(t) ELSE n)

\* The order of the characters where the texts part.
Precedes(t, u, value) ==
  \E k \in DOMAIN t \cap DOMAIN u :
    SubSeq(t, 1, k - 1) = SubSeq(u, 1, k - 1) /\ value[t[k]] < value[u[k]]
Ordered(sign, t, u, value) == (sign = 0 <=> t = u) /\ (sign < 0 <=> Precedes(t, u, value))

SameBut(m, n, p, size) == \A i \in DOMAIN m \ (p .. (p + size - 1)) : n[i] = m[i]
Disjoint(p, n, q, k) == p + n <= q \/ q + k <= p

\* Strings are ordered by their first different characters, their NULs included,
\* blocks by their first different bytes: from 128 on a char is negative, and less
\* than the end of a string.
ComparisonsAgree(m) ==
  \A s, t \in Starts(m) :
    LET a == Stored(Text(m, s))
        b == Stored(Text(m, t))
    IN  /\ strlen(m, s) = Len(Text(m, s))
        /\ Ordered(strcmp(m, s, t), a, b, Signed)
        /\ \A n \in 0 .. 2 :
             /\ Ordered(strncmp(m, s, t, n), Cut(a, n), Cut(b, n), Signed)
             /\ s + n <= Len(m) /\ t + n <= Len(m) =>
                  Ordered(memcmp(m, s, t, n),
                          SubSeq(m, s, s + n - 1), SubSeq(m, t, t + n - 1), Unsigned)

\* A block copy moves what the source held before it, overlapping or not, and
\* writes nothing else; memccpy stops behind the first c.
BlockAgrees(m, n, p, q) ==
  LET block == SubSeq(m, q, q + n - 1)
      moved == memmove(m, p, q, n)
      ccpy  == memccpy(m, p, q, SP, n)
      upto  == IF ccpy.ret = NUL THEN n ELSE ccpy.ret - p
  IN  /\ SubSeq(moved, p, p + n - 1) = block /\ SameBut(m, moved, p, n)
      /\ Disjoint(p, n, q, n) =>
           /\ memcpy(m, p, q, n) = moved
           /\ ccpy.mem = memcpy(m, p, q, upto)
           /\ \A k \in 1 .. n : block[k] = SP => upto <= k
           /\ ccpy.ret # NUL => block[upto] = SP
BlocksAgree(m) == \A n \in 0 .. 3 : \A p, q \in 1 .. (Len(m) - n) : BlockAgrees(m, n, p, q)

\* Copying and joining keep every character that fits, end the string, and stay
\* inside the destination.
CopiesAgree(m) ==
  \A p, s \in Starts(m) : \A size \in 0 .. 4 :
    LET t == Text(m, s)
        d == Text(m, p)
        fits(n) == p + n <= Len(m) + 1 /\ Disjoint(p, n, s, Len(t) + 1)
    IN  /\ fits(size) =>
             /\ size > 0 => Text(strlcpy(m, p, s, size), p) = Cut(t, size - 1)
             /\ SameBut(m, strlcpy(m, p, s, size), p, size)
        /\ fits(Len(d) + Len(t) + 1) =>
             /\ Text(strcat(m, p, s), p) = d \o t
             /\ Text(strncat(m, p, s, size), p) = d \o Cut(t, size)
             /\ SameBut(m, strcat(m, p, s), p, Len(d) + Len(t) + 1)
        /\ fits(Len(t) + 1) => Text(strdup(m, p, s), p) = t

\* str_trim hands back what is between the blanks; the case routines change only
\* letters, to the case the tests look for.
TrimsAgree(m) ==
  \A s \in Starts(m) :
    LET t       == Text(m, s)
        trimmed == str_trim(m, s)
        kept    == {k \in DOMAIN t : t[k] \notin Blank}
        up      == strupcase(m, s)
        low     == strlowcase(m, s)
    IN  /\ IF kept = {} THEN Text(trimmed.mem, trimmed.ret) = << >>
           ELSE Text(trimmed.mem, trimmed.ret) =
                  SubSeq(t, CHOOSE i \in kept : \A k \in kept : i <= k,
                            CHOOSE j \in kept : \A k \in kept : k <= j)
        /\ \A k \in DOMAIN t :
             /\ up[s + k - 1] # low[s + k - 1] <=> t[k] \in (UpperA .. UpperZ) \cup (LowerA .. LowerZ)
             /\ t[k] \in {up[s + k - 1], low[s + k - 1]}
             /\ up[s + k - 1] \notin LowerA .. LowerZ
        /\ str_is_uppercase(m, s) <=> \A k \in DOMAIN t : t[k] \in UpperA .. UpperZ
        /\ str_is_lowercase(m, s) <=> \A k \in DOMAIN t : t[k] \in LowerA .. LowerZ

\* The value of a row of digits.
Decimal(t) ==
  LET upto[k \in 0 .. Len(t)] == IF k = 0 THEN 0 ELSE 10 * upto[k - 1] + (t[k] - Zero)
  IN  upto[Len(t)]
IsNumeral(t, n) ==
  /\ t # << >> /\ \A k \in DOMAIN t : IsDigit(t[k])
  /\ Decimal(t) = n /\ (t[1] = Zero => Len(t) = 1)

\* Hexadecimal text reads back as the word it shows, whatever stands to its left.
HexAgrees(val) ==
  LET text == terminal_print_hex(val)
  IN  /\ Len(text) = HexDigits + 2
      /\ htoi(Stored(<<SP>> \o text), 1) = val
      /\ htoi(Stored(<<Zero + 7>> \o SubSeq(text, 3, Len(text)) \o <<Minus>>), 1) = val
      /\ htoi(strlowcase(Stored(text), 1), 1) = val

\* Decimal text reads back as the int it shows, but for INT_MIN; a numeral beyond
\* an int is read modulo 2^32; and print_unit shows its unsigned value only below
\* 2^31, the int it is taken for from there on.
DecimalAgrees(val) ==
  /\ \A t \in itoa(ToInt(val)) :
       val # Half <=> atoi(Stored(<<SP, TAB>> \o t \o <<Minus>>), 1) = ToInt(val)
  /\ \A t \in itoa(val \div 10) :
       atoi(Stored(t \o <<Zero + (val % 10)>>), 1) = ToInt(val)
  /\ \A out \in print_unit(val, "unit") : IsNumeral(out[1][2], val) <=> val < Half
=============================================================================
