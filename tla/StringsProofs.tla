---------------------------- MODULE StringsProofs ----------------------------
(***************************************************************************)
(* The string, memory and number routines hand back what they are meant    *)
(* to, for every memory and every word; the lines a user types keep the    *)
(* shell's memory in shape, are cut into their words, and are answered as  *)
(* these ask, with the prompt of the names set behind the answer.          *)
(***************************************************************************)
EXTENDS Commands, SequenceTheorems, FiniteSetTheorems, WellFoundedInduction, TLAPS

\* A character is a number up to 255, and so are the named ones.
LEMMA CharIs ==
  /\ Char \subseteq Nat /\ 0 .. 255 \subseteq Char /\ \A c \in Char : c \in Nat /\ c < 256
  /\ {NUL, TAB, SP, Minus, Zero, LowerX} \subseteq Char
  /\ \A k \in 0 .. 9 : Zero + k \in Char
BY DEF Char, NUL, TAB, SP, Minus, Zero, LowerX

-----------------------------------------------------------------------------
\* Induction up to a number.

\* A set of numbers that is not empty has a least one.
LEMMA Least ==
  ASSUME NEW T, T \subseteq Nat, T # {}
  PROVE  \E x \in T : \A y \in T : x <= y
<1> DEFINE R == OpToRel(<, Nat)
<1>1. IsWellFoundedOn(R, Nat)
  BY NatLessThanWellFounded
<1>2. \A x, y \in Nat : y < x => <<y, x>> \in R
  BY DEF OpToRel
<1> HIDE DEF R
<1>3. PICK x \in T : \A y \in T : ~(<<y, x>> \in R)
  BY <1>1, WFMin
<1>4. ASSUME NEW y \in T
      PROVE  x <= y
  <2>1. x \in Nat /\ y \in Nat
    OBVIOUS
  <2>2. ~(y < x)
    BY <1>2, <1>3, <2>1
  <2> QED BY <2>1, <2>2
<1> QED BY <1>4

\* A set that has 0, and with a number below n the next one, has all up to n.
LEMMA UpTo ==
  ASSUME NEW n \in Nat, NEW T, 0 \in T, \A i \in 0 .. (n - 1) : i \in T => i + 1 \in T
  PROVE  0 .. n \subseteq T
<1> DEFINE missing == {i \in 0 .. n : i \notin T}
<1> SUFFICES ASSUME missing # {}
             PROVE  FALSE
  OBVIOUS
<1>0. missing \subseteq Nat
  OBVIOUS
<1>1. PICK x \in missing : \A y \in missing : x <= y
  <2> HIDE DEF missing
  <2> QED BY <1>0, Least
<1>2. x \in 0 .. n /\ x # 0 /\ x - 1 \in 0 .. (n - 1) /\ x - 1 \in T
  BY <1>1
<1>3. (x - 1) + 1 \in T
  BY <1>2
<1> QED BY <1>1, <1>3

\* A scan that stops by n stops at a first place.
LEMMA Stops ==
  ASSUME NEW n \in Nat, NEW T, n \in T
  PROVE  \E k \in 0 .. n : k \in T /\ \A j \in 0 .. (k - 1) : j \notin T
<1> DEFINE U == {k \in 0 .. n : k \in T}
<1>1. U \subseteq Nat /\ U # {}
  OBVIOUS
<1>2. PICK k \in U : \A j \in U : k <= j
  <2> HIDE DEF U
  <2> QED BY <1>1, Least
<1>3. \A j \in 0 .. (k - 1) : j \in 0 .. n /\ ~(k <= j)
  BY <1>2
<1> QED BY <1>2, <1>3

\* Two runs that begin alike and go on alike are alike.
LEMMA SameRun ==
  ASSUME NEW n \in Nat, NEW f, NEW g, f[0] = g[0],
         \A k \in 1 .. n : f[k - 1] = g[k - 1] => f[k] = g[k]
  PROVE  f[n] = g[n]
<1> DEFINE T == {k \in 0 .. n : f[k] = g[k]}
<1>1. 0 \in T
  OBVIOUS
<1>2. ASSUME NEW k \in 0 .. (n - 1), k \in T
      PROVE  k + 1 \in T
  <2>1. k + 1 \in 1 .. n /\ (k + 1) - 1 = k /\ k + 1 \in 0 .. n
    OBVIOUS
  <2> QED BY <1>2, <2>1
<1> HIDE DEF T
<1>3. n \in T
  BY <1>1, <1>2, UpTo
<1> QED BY <1>3 DEF T

\* A memory of that many cells.
Memory(size) == [1 .. size -> Char]

\* memset fills its cells, and no other.
LEMMA memsetIs ==
  ASSUME NEW size \in Nat, NEW m \in Memory(size), NEW p \in Nat \ {0}, NEW c \in Char, NEW n \in Nat,
         p + n <= size + 1
  PROVE  memset(m, p, c, n) = [i \in 1 .. size |-> IF i \in p .. (p + n - 1) THEN c ELSE m[i]]
<1> DEFINE d == c % 256
           F(k) == [i \in 1 .. size |-> IF i \in p .. (p + k - 1) THEN d ELSE m[i]]
           f == [k \in 0 .. n |-> F(k)]
           run == CHOOSE run : run = [k \in 0 .. n |->
                    IF k = 0 THEN m ELSE [run[k - 1] EXCEPT ![p + (k - 1)] = d]]
<1>1. memset(m, p, c, n) = run[n]
  BY DEF memset, Loop
<1>0. d = c
  BY CharIs
<1> HIDE DEF d
<1>2. F(0) = m
  BY DEF Memory
<1>3. ASSUME NEW k \in 1 .. n
      PROVE  F(k) = [F(k - 1) EXCEPT ![p + (k - 1)] = d]
  <2>1. p + (k - 1) \in 1 .. size
    OBVIOUS
  <2>2. \A i \in 1 .. size : i \in p .. (p + k - 1) <=> i = p + (k - 1) \/ i \in p .. (p + (k - 1) - 1)
    OBVIOUS
  <2> QED BY <2>1, <2>2
<1> HIDE DEF F
<1>4. f = [k \in 0 .. n |-> IF k = 0 THEN m ELSE [f[k - 1] EXCEPT ![p + (k - 1)] = d]]
  <2>1. \A k \in 1 .. n : k - 1 \in 0 .. n
    OBVIOUS
  <2> QED BY <1>2, <1>3, <2>1
<1> HIDE DEF f
<1>5. run = [k \in 0 .. n |-> IF k = 0 THEN m ELSE [run[k - 1] EXCEPT ![p + (k - 1)] = d]]
  BY <1>4
<1> HIDE DEF run
<1>6. run[0] = f[0]
  BY <1>4, <1>5
<1>7. ASSUME NEW k \in 1 .. n, run[k - 1] = f[k - 1]
      PROVE  run[k] = f[k]
  <2>1. k \in 0 .. n /\ k # 0
    OBVIOUS
  <2>2. run[k] = [run[k - 1] EXCEPT ![p + (k - 1)] = d]
    BY <1>5, <2>1
  <2>3. f[k] = [f[k - 1] EXCEPT ![p + (k - 1)] = d]
    BY <1>4, <2>1
  <2> QED BY <1>7, <2>2, <2>3
<1>8. run[n] = f[n]
  BY <1>6, <1>7, SameRun
<1> QED BY <1>0, <1>1, <1>8 DEF f, F

\* The n cells from src on, in the places of those from dest on.
Copied(m, dest, src, n) ==
  [i \in DOMAIN m |-> IF i \in dest .. (dest + n - 1) THEN m[src + (i - dest)] ELSE m[i]]

\* A copy from the near end on finds every cell as it was if the destination
\* begins before the source, or is apart from it.
LEMMA memcpyIs ==
  ASSUME NEW size \in Nat, NEW m \in Memory(size), NEW dest \in Nat \ {0}, NEW src \in Nat \ {0},
         NEW n \in Nat, dest + n <= size + 1, src + n <= size + 1,
         dest <= src \/ src + n <= dest
  PROVE  memcpy(m, dest, src, n) = Copied(m, dest, src, n)
<1> DEFINE F(k) == [i \in 1 .. size |-> IF i \in dest .. (dest + k - 1) THEN m[src + (i - dest)] ELSE m[i]]
           f == [k \in 0 .. n |-> F(k)]
           run == CHOOSE run : run = [k \in 0 .. n |->
                    IF k = 0 THEN m ELSE [run[k - 1] EXCEPT ![dest + (k - 1)] = run[k - 1][src + (k - 1)]]]
<1>1. memcpy(m, dest, src, n) = run[n]
  BY DEF memcpy, Loop
<1>2. F(0) = m /\ m = [i \in 1 .. size |-> m[i]]
  BY DEF Memory
<1>3. ASSUME NEW k \in 1 .. n
      PROVE  F(k) = [F(k - 1) EXCEPT ![dest + (k - 1)] = F(k - 1)[src + (k - 1)]]
  <2>1. dest + (k - 1) \in 1 .. size /\ src + (k - 1) \in 1 .. size
    OBVIOUS
  <2>2. F(k - 1)[src + (k - 1)] = m[src + (k - 1)]
    BY <2>1
  <2>3. \A i \in 1 .. size : i \in dest .. (dest + k - 1)
                              <=> i = dest + (k - 1) \/ i \in dest .. (dest + (k - 1) - 1)
    OBVIOUS
  <2>4. src + ((dest + (k - 1)) - dest) = src + (k - 1)
    OBVIOUS
  <2>5. \A i \in 1 .. size : F(k)[i] = IF i = dest + (k - 1) THEN m[src + (k - 1)] ELSE F(k - 1)[i]
    BY <2>3, <2>4
  <2>6. F(k) = [i \in 1 .. size |-> F(k)[i]] /\ F(k - 1) = [i \in 1 .. size |-> F(k - 1)[i]]
    OBVIOUS
  <2> HIDE DEF F
  <2> QED BY <2>1, <2>2, <2>5, <2>6
<1> HIDE DEF F
<1>4. f = [k \in 0 .. n |-> IF k = 0 THEN m ELSE [f[k - 1] EXCEPT ![dest + (k - 1)] = f[k - 1][src + (k - 1)]]]
  <2>1. \A k \in 1 .. n : k - 1 \in 0 .. n
    OBVIOUS
  <2> QED BY <1>2, <1>3, <2>1
<1> HIDE DEF f
<1>5. run = [k \in 0 .. n |-> IF k = 0 THEN m ELSE [run[k - 1] EXCEPT ![dest + (k - 1)] = run[k - 1][src + (k - 1)]]]
  BY <1>4
<1> HIDE DEF run
<1>6. run[0] = f[0]
  BY <1>4, <1>5
<1>7. ASSUME NEW k \in 1 .. n, run[k - 1] = f[k - 1]
      PROVE  run[k] = f[k]
  <2>1. k \in 0 .. n /\ k # 0
    OBVIOUS
  <2>2. run[k] = [run[k - 1] EXCEPT ![dest + (k - 1)] = run[k - 1][src + (k - 1)]]
    BY <1>5, <2>1
  <2>3. f[k] = [f[k - 1] EXCEPT ![dest + (k - 1)] = f[k - 1][src + (k - 1)]]
    BY <1>4, <2>1
  <2> QED BY <1>7, <2>2, <2>3
<1>8. run[n] = f[n]
  BY <1>6, <1>7, SameRun
<1> QED BY <1>1, <1>2, <1>8 DEF f, F, Copied

\* From the far end on it does if the destination begins behind the source.
LEMMA memmoveDownIs ==
  ASSUME NEW size \in Nat, NEW m \in Memory(size), NEW dest \in Nat \ {0}, NEW src \in Nat \ {0},
         NEW n \in Nat, dest + n <= size + 1, src + n <= size + 1,
         src <= dest
  PROVE  memmoveDown(m, dest, src, n) = Copied(m, dest, src, n)
<1> DEFINE F(k) == [i \in 1 .. size |-> IF i \in (dest + (n - k)) .. (dest + n - 1) THEN m[src + (i - dest)] ELSE m[i]]
           f == [k \in 0 .. n |-> F(k)]
           run == CHOOSE run : run = [k \in 0 .. n |->
                    IF k = 0 THEN m ELSE [run[k - 1] EXCEPT ![dest + n - 1 - (k - 1)] = run[k - 1][src + n - 1 - (k - 1)]]]
<1>1. memmoveDown(m, dest, src, n) = run[n]
  BY DEF memmoveDown, Loop
<1>2. F(0) = m /\ m = [i \in 1 .. size |-> m[i]]
  BY DEF Memory
<1>3. ASSUME NEW k \in 1 .. n
      PROVE  F(k) = [F(k - 1) EXCEPT ![dest + n - 1 - (k - 1)] = F(k - 1)[src + n - 1 - (k - 1)]]
  <2>1. dest + n - 1 - (k - 1) \in 1 .. size /\ src + n - 1 - (k - 1) \in 1 .. size
    OBVIOUS
  <2>2. F(k - 1)[src + n - 1 - (k - 1)] = m[src + n - 1 - (k - 1)]
    BY <2>1
  <2>3. \A i \in 1 .. size : i \in (dest + (n - k)) .. (dest + n - 1)
                 <=> i = dest + n - 1 - (k - 1) \/ i \in (dest + (n - (k - 1))) .. (dest + n - 1)
    OBVIOUS
  <2>4. src + ((dest + n - 1 - (k - 1)) - dest) = src + n - 1 - (k - 1)
    OBVIOUS
  <2>5. \A i \in 1 .. size : F(k)[i] = IF i = dest + n - 1 - (k - 1) THEN m[src + n - 1 - (k - 1)] ELSE F(k - 1)[i]
    BY <2>3, <2>4
  <2>6. F(k) = [i \in 1 .. size |-> F(k)[i]] /\ F(k - 1) = [i \in 1 .. size |-> F(k - 1)[i]]
    OBVIOUS
  <2> HIDE DEF F
  <2> QED BY <2>1, <2>2, <2>5, <2>6
<1> HIDE DEF F
<1>4. f = [k \in 0 .. n |-> IF k = 0 THEN m ELSE [f[k - 1] EXCEPT ![dest + n - 1 - (k - 1)] = f[k - 1][src + n - 1 - (k - 1)]]]
  <2>1. \A k \in 1 .. n : k - 1 \in 0 .. n
    OBVIOUS
  <2> QED BY <1>2, <1>3, <2>1
<1> HIDE DEF f
<1>5. run = [k \in 0 .. n |-> IF k = 0 THEN m ELSE [run[k - 1] EXCEPT ![dest + n - 1 - (k - 1)] = run[k - 1][src + n - 1 - (k - 1)]]]
  BY <1>4
<1> HIDE DEF run
<1>6. run[0] = f[0]
  BY <1>4, <1>5
<1>7. ASSUME NEW k \in 1 .. n, run[k - 1] = f[k - 1]
      PROVE  run[k] = f[k]
  <2>1. k \in 0 .. n /\ k # 0
    OBVIOUS
  <2>2. run[k] = [run[k - 1] EXCEPT ![dest + n - 1 - (k - 1)] = run[k - 1][src + n - 1 - (k - 1)]]
    BY <1>5, <2>1
  <2>3. f[k] = [f[k - 1] EXCEPT ![dest + n - 1 - (k - 1)] = f[k - 1][src + n - 1 - (k - 1)]]
    BY <1>4, <2>1
  <2> QED BY <1>7, <2>2, <2>3
<1>8. run[n] = f[n]
  BY <1>6, <1>7, SameRun
<1>9. dest + (n - n) = dest /\ n \in 0 .. n
  OBVIOUS
<1> QED BY <1>1, <1>2, <1>8, <1>9 DEF f, F, Copied

\* memmove copies what the source held, however the two overlap.
THEOREM memmoveIs ==
  ASSUME NEW size \in Nat, NEW m \in Memory(size), NEW dest \in Nat \ {0}, NEW src \in Nat \ {0},
         NEW n \in Nat, dest + n <= size + 1, src + n <= size + 1
  PROVE  memmove(m, dest, src, n) = Copied(m, dest, src, n)
<1>1. CASE dest = src
  <2>1. m = [i \in 1 .. size |-> m[i]]
    BY DEF Memory
  <2>2. \A i \in 1 .. size : src + (i - dest) = i
    BY <1>1
  <2> QED BY <1>1, <2>1, <2>2 DEF memmove, Copied
<1>2. CASE dest < src
  BY <1>2, memcpyIs DEF memmove
<1>3. CASE src < dest
  <2>1. memmove(m, dest, src, n) = memmoveDown(m, dest, src, n)
    BY <1>3 DEF memmove
  <2> QED BY <1>3, <2>1, memmoveDownIs
<1> QED BY <1>1, <1>2, <1>3

-----------------------------------------------------------------------------
\* Strings.

\* The string at s ends at e.
Ends(m, s, e) == e >= s /\ m[e] = NUL /\ \A i \in s .. (e - 1) : m[i] # NUL

\* A string has one end.
LEMMA EndsOnce ==
  ASSUME NEW size \in Nat, NEW m \in Memory(size), NEW s \in 1 .. size,
         NEW e \in 1 .. size, Ends(m, s, e)
  PROVE  EndOf(m, s) = e
BY DEF EndOf, Ends, Memory, NUL

\* A string of the memory ends within it.
LEMMA StartEnds ==
  ASSUME NEW size \in Nat, NEW m \in Memory(size), NEW s \in Starts(m)
  PROVE  s \in 1 .. size /\ \E e \in 1 .. size : Ends(m, s, e)
<1>1. s \in 1 .. size /\ \E e \in 1 .. size : e >= s /\ m[e] = NUL
  BY DEF Starts, Memory
<1> DEFINE T == {i \in 1 .. size : i >= s /\ m[i] = NUL}
<1>2. T \subseteq Nat /\ T # {}
  BY <1>1
<1>3. PICK e \in T : \A i \in T : e <= i
  BY <1>2, Least
<1>4. \A i \in s .. (e - 1) : i \in 1 .. size /\ ~(e <= i)
  BY <1>1, <1>3
<1>5. Ends(m, s, e) /\ e \in 1 .. size
  BY <1>1, <1>3, <1>4 DEF Ends
<1> QED BY <1>1, <1>5

\* Cells in a row, as a sequence.
LEMMA BlockIs ==
  ASSUME NEW f, NEW p \in Int, NEW n \in Nat, \A i \in 0 .. (n - 1) : f[p + i] \in Char
  PROVE  /\ SubSeq(f, p, p + n - 1) \in Seq(Char) /\ Len(SubSeq(f, p, p + n - 1)) = n
         /\ \A k \in 1 .. n : SubSeq(f, p, p + n - 1)[k] = f[p + k - 1]
<1> DEFINE last == p + n - 1
<1>1. last \in Int /\ last - p + 1 = n
  OBVIOUS
<1>2. ASSUME NEW i \in p .. last
      PROVE  f[i] \in Char
  <2>1. i - p \in 0 .. (n - 1) /\ p + (i - p) = i
    OBVIOUS
  <2> QED BY <2>1
<1>3. (p <= last <=> n # 0) /\ (IF p <= last THEN last - p + 1 ELSE 0) = n
  OBVIOUS
<1> HIDE DEF last
<1>4. /\ SubSeq(f, p, last) \in Seq(Char)
      /\ Len(SubSeq(f, p, last)) = IF p <= last THEN last - p + 1 ELSE 0
      /\ \A i \in 1 .. (last - p + 1) : SubSeq(f, p, last)[i] = f[p + i - 1]
  BY <1>1, <1>2, SubSeqProperties
<1> QED BY <1>1, <1>3, <1>4 DEF last

\* Blocks of the same cells are the same.
LEMMA SameBlock ==
  ASSUME NEW f, NEW g, NEW p \in Int, NEW q \in Int, NEW n \in Nat,
         \A i \in 0 .. (n - 1) : f[p + i] = g[q + i] /\ f[p + i] \in Char
  PROVE  SubSeq(f, p, p + n - 1) = SubSeq(g, q, q + n - 1)
<1> DEFINE a == SubSeq(f, p, p + n - 1)
           b == SubSeq(g, q, q + n - 1)
<1>1. /\ a \in Seq(Char) /\ Len(a) = n
      /\ \A k \in 1 .. n : a[k] = f[p + k - 1]
  BY BlockIs
<1>2. /\ b \in Seq(Char) /\ Len(b) = n
      /\ \A k \in 1 .. n : b[k] = g[q + k - 1]
  BY BlockIs
<1>3. \A k \in 1 .. n : f[p + (k - 1)] = g[q + (k - 1)]
  OBVIOUS
<1> HIDE DEF a, b
<1>4. \A k \in 1 .. n : a[k] = b[k]
  BY <1>1, <1>2, <1>3
<1>5. a = b
  BY <1>1, <1>2, <1>4, SeqEqual
<1> QED BY <1>5 DEF a, b

\* The characters of a string, one by one.
LEMMA TextIs ==
  ASSUME NEW size \in Nat, NEW m \in Memory(size), NEW s \in 1 .. size,
         NEW e \in 1 .. size, Ends(m, s, e)
  PROVE  /\ Text(m, s) \in Seq(Char) /\ Len(Text(m, s)) = e - s
         /\ \A k \in 1 .. (e - s) : Text(m, s)[k] = m[s + k - 1] /\ Text(m, s)[k] # NUL
<1>1. Text(m, s) = SubSeq(m, s, s + (e - s) - 1) /\ e - s \in Nat
  BY EndsOnce DEF Text, Ends
<1>2. \A i \in 0 .. ((e - s) - 1) : m[s + i] \in Char /\ m[s + i] # NUL
  BY <1>1 DEF Memory, Ends
<1>3. /\ Text(m, s) \in Seq(Char) /\ Len(Text(m, s)) = e - s
      /\ \A k \in 1 .. (e - s) : Text(m, s)[k] = m[s + k - 1]
  <2> DEFINE n == e - s
  <2>1. n \in Nat /\ Text(m, s) = SubSeq(m, s, s + n - 1) /\ \A i \in 0 .. (n - 1) : m[s + i] \in Char
    BY <1>1, <1>2
  <2> HIDE DEF n
  <2>2. /\ SubSeq(m, s, s + n - 1) \in Seq(Char) /\ Len(SubSeq(m, s, s + n - 1)) = n
        /\ \A k \in 1 .. n : SubSeq(m, s, s + n - 1)[k] = m[s + k - 1]
    <3>1. s \in Int
      OBVIOUS
    <3> QED BY <2>1, <3>1, BlockIs
  <2> QED BY <2>1, <2>2 DEF n
<1>4. \A k \in 1 .. (e - s) : m[s + (k - 1)] # NUL
  BY <1>2
<1> QED BY <1>3, <1>4

\* strlen counts the characters before the NUL.
LEMMA strlenIs ==
  ASSUME NEW size \in 0 .. Size, NEW m \in Memory(size), NEW s \in 1 .. size,
         NEW e \in 1 .. size, Ends(m, s, e)
  PROVE  strlen(m, s) = e - s
<1>1. Size \in Nat
  BY StringConstants DEF StringConstants
<1>2. e - s \in 0 .. Size /\ m[s + (e - s)] = NUL /\ \A j \in 0 .. ((e - s) - 1) : m[s + j] # NUL
  BY <1>1 DEF Ends
<1> QED BY <1>2 DEF strlen, First

-----------------------------------------------------------------------------
\* Comparisons.

\* What the characters count for.
LEMMA Values ==
  /\ Signed \in [Char -> Int] /\ Unsigned \in [Char -> Int]
  /\ \A x, y \in Char :
       /\ Signed[x] - Signed[y] \in Int /\ (Signed[x] - Signed[y] = 0 <=> x = y)
       /\ Signed[x] - Signed[y] < 0 <=> Signed[x] < Signed[y]
       /\ Unsigned[x] = x
<1>1. Signed \in [Char -> Int] /\ Unsigned \in [Char -> Int]
  BY CharIs DEF Signed, Unsigned
<1>2. ASSUME NEW x \in Char, NEW y \in Char
      PROVE  /\ Signed[x] - Signed[y] \in Int /\ (Signed[x] - Signed[y] = 0 <=> x = y)
             /\ Signed[x] - Signed[y] < 0 <=> Signed[x] < Signed[y]
             /\ Unsigned[x] = x
  <2>1. /\ Signed[x] = (IF x < 128 THEN x ELSE x - 256) /\ Signed[y] = (IF y < 128 THEN y ELSE y - 256)
        /\ Unsigned[x] = x
    BY DEF Signed, Unsigned
  <2>2. x \in Nat /\ x < 256 /\ y \in Nat /\ y < 256
    BY CharIs
  <2> DEFINE a == Signed[x]
             b == Signed[y]
  <2>3. a = (IF x < 128 THEN x ELSE x - 256) /\ b = (IF y < 128 THEN y ELSE y - 256)
    BY <2>1
  <2> HIDE DEF a, b
  <2>4. a \in Int /\ b \in Int /\ (a = b <=> x = y)
    BY <2>2, <2>3
  <2>5. a - b \in Int /\ (a - b = 0 <=> x = y) /\ (a - b < 0 <=> a < b)
    BY <2>4
  <2> QED BY <2>1, <2>5 DEF a, b
<1> QED BY <1>1, <1>2

\* The first difference decides.
LEMMA PartsOrder ==
  ASSUME NEW t \in Seq(Char), NEW u \in Seq(Char), NEW value \in [Char -> Int], NEW k \in Nat,
         k < Len(t), k < Len(u), \A i \in 1 .. k : t[i] = u[i], t[k + 1] # u[k + 1],
         NEW sign \in Int, sign # 0, sign < 0 <=> value[t[k + 1]] < value[u[k + 1]]
  PROVE  Ordered(sign, t, u, value)
<1>1. Len(t) \in Nat /\ Len(u) \in Nat /\ DOMAIN t = 1 .. Len(t) /\ DOMAIN u = 1 .. Len(u)
  BY LenProperties
<1>2. ASSUME NEW j \in Nat, j <= Len(t), j <= Len(u)
      PROVE  SubSeq(t, 1, j) = SubSeq(u, 1, j) <=> \A i \in 1 .. j : t[i] = u[i]
  <2>1. /\ Len(SubSeq(t, 1, j)) = j /\ SubSeq(t, 1, j) \in Seq(Char)
        /\ \A i \in 1 .. j : SubSeq(t, 1, j)[i] = t[i]
    BY <1>1, <1>2
  <2>2. /\ Len(SubSeq(u, 1, j)) = j /\ SubSeq(u, 1, j) \in Seq(Char)
        /\ \A i \in 1 .. j : SubSeq(u, 1, j)[i] = u[i]
    BY <1>1, <1>2
  <2> DEFINE a == SubSeq(t, 1, j)
             b == SubSeq(u, 1, j)
  <2> HIDE DEF a, b
  <2>3. (\A i \in 1 .. j : a[i] = b[i]) => a = b
    BY <2>1, <2>2, SeqEqual DEF a, b
  <2> QED BY <2>1, <2>2, <2>3 DEF a, b
<1>3. t # u
  OBVIOUS
<1>4. ASSUME value[t[k + 1]] < value[u[k + 1]]
      PROVE  Precedes(t, u, value)
  <2>1. k + 1 \in DOMAIN t \cap DOMAIN u /\ (k + 1) - 1 = k
    BY <1>1
  <2>2. SubSeq(t, 1, k) = SubSeq(u, 1, k)
    BY <1>1, <1>2
  <2> QED BY <1>4, <2>1, <2>2 DEF Precedes
<1>5. ASSUME NEW j \in DOMAIN t \cap DOMAIN u, SubSeq(t, 1, j - 1) = SubSeq(u, 1, j - 1),
             value[t[j]] < value[u[j]]
      PROVE  value[t[k + 1]] < value[u[k + 1]]
  <2>1. j - 1 \in Nat /\ j - 1 <= Len(t) /\ j - 1 <= Len(u) /\ j \in 1 .. Len(t)
    BY <1>1, <1>5
  <2>2. \A i \in 1 .. (j - 1) : t[i] = u[i]
    BY <1>2, <1>5, <2>1
  <2>3. ~(j <= k)
    <3> SUFFICES ASSUME j <= k
                 PROVE  FALSE
      OBVIOUS
    <3>1. t[j] = u[j] /\ t[j] \in Char
      BY <2>1, ElementOfSeq
    <3>2. value[t[j]] \in Int
      BY <3>1
    <3> QED BY <1>5, <3>1, <3>2
  <2>4. ~(k + 1 <= j - 1)
    BY <2>1, <2>2
  <2>5. j = k + 1
    BY <2>1, <2>3, <2>4
  <2> QED BY <1>5, <2>5
<1> QED BY <1>3, <1>4, <1>5 DEF Precedes, Ordered

\* Without a difference nothing comes first.
LEMMA SameOrder ==
  ASSUME NEW t \in Seq(Char), NEW value \in [Char -> Int]
  PROVE  Ordered(0, t, t, value)
<1>1. ASSUME NEW k \in DOMAIN t
      PROVE  value[t[k]] \in Int
  BY <1>1, LenProperties, ElementOfSeq
<1>2. ~Precedes(t, t, value)
  BY <1>1 DEF Precedes
<1> QED BY <1>2 DEF Ordered

\* Rows of cells that are alike up to k, and part or end there.
Parted(m, s, t, a, b, value, k, sign) ==
  /\ \A i \in 1 .. Len(a) : a[i] = m[s + i - 1]
  /\ \A i \in 1 .. Len(b) : b[i] = m[t + i - 1]
  /\ \A j \in 0 .. (k - 1) : m[s + j] = m[t + j]
  /\ \/ /\ k < Len(a) /\ k < Len(b) /\ m[s + k] # m[t + k] /\ sign # 0
        /\ sign < 0 <=> value[m[s + k]] < value[m[t + k]]
     \/ k = Len(a) /\ k = Len(b) /\ sign = 0

\* A sign that goes by the cells at k is that of the order.
LEMMA Compared ==
  ASSUME NEW m, NEW s \in Int, NEW t \in Int, NEW a \in Seq(Char), NEW b \in Seq(Char),
         NEW value \in [Char -> Int], NEW k \in Nat, NEW sign \in Int,
         Parted(m, s, t, a, b, value, k, sign)
  PROVE  Ordered(sign, a, b, value)
<1>1. Len(a) \in Nat /\ Len(b) \in Nat /\ k <= Len(a) /\ k <= Len(b)
  BY LenProperties DEF Parted
<1>2. ASSUME NEW i \in 1 .. k
      PROVE  a[i] = b[i]
  <2>1. i - 1 \in 0 .. (k - 1) /\ i \in 1 .. Len(a) /\ i \in 1 .. Len(b)
    BY <1>1
  <2>2. a[i] = m[s + i - 1] /\ b[i] = m[t + i - 1] /\ m[s + (i - 1)] = m[t + (i - 1)]
    BY <2>1 DEF Parted
  <2>3. s + i - 1 = s + (i - 1) /\ t + i - 1 = t + (i - 1)
    OBVIOUS
  <2> QED BY <2>2, <2>3
<1>3. ASSUME k < Len(a), k < Len(b)
      PROVE  a[k + 1] = m[s + k] /\ b[k + 1] = m[t + k]
  <2>1. (s + (k + 1)) - 1 = s + k /\ (t + (k + 1)) - 1 = t + k
    OBVIOUS
  <2>2. k + 1 \in 1 .. Len(a) /\ k + 1 \in 1 .. Len(b)
    BY <1>1, <1>3
  <2>3. a[k + 1] = m[(s + (k + 1)) - 1] /\ b[k + 1] = m[(t + (k + 1)) - 1]
    BY <2>2 DEF Parted
  <2> QED BY <2>1, <2>3
<1>4. CASE k = Len(a) /\ k = Len(b)
  <2>1. a = b
    BY <1>2, <1>4, SeqEqual
  <2>2. sign = 0
    BY <1>4 DEF Parted
  <2> QED BY <2>1, <2>2, SameOrder
<1>5. CASE ~(k = Len(a) /\ k = Len(b))
  <2>1. /\ k < Len(a) /\ k < Len(b) /\ m[s + k] # m[t + k] /\ sign # 0
        /\ sign < 0 <=> value[m[s + k]] < value[m[t + k]]
    BY <1>5 DEF Parted
  <2>2. /\ a[k + 1] # b[k + 1] /\ \A i \in 1 .. k : a[i] = b[i]
        /\ sign < 0 <=> value[a[k + 1]] < value[b[k + 1]]
    BY <1>2, <1>3, <2>1
  <2> QED BY <2>1, <2>2, PartsOrder
<1> QED BY <1>4, <1>5

\* The first characters of a text, one by one.
LEMMA CutIs ==
  ASSUME NEW t \in Seq(Char), NEW n \in Nat
  PROVE  /\ Cut(t, n) \in Seq(Char) /\ Len(Cut(t, n)) = IF Len(t) < n THEN Len(t) ELSE n
         /\ \A k \in 1 .. Len(Cut(t, n)) : Cut(t, n)[k] = t[k]
<1> DEFINE l == IF Len(t) < n THEN Len(t) ELSE n
<1>1. Len(t) \in Nat /\ l \in Nat /\ l <= Len(t) /\ Cut(t, n) = SubSeq(t, 1, l)
  BY LenProperties DEF Cut
<1>2. SubSeq(t, 1, l) \in Seq(Char) /\ Len(SubSeq(t, 1, l)) = l /\ \A k \in 1 .. l : SubSeq(t, 1, l)[k] = t[k]
  <2> HIDE DEF l
  <2> QED BY <1>1
<1> QED BY <1>1, <1>2

\* A string with its NUL stands where its cells do.
LEMMA StoredStands ==
  ASSUME NEW size \in Nat, NEW m \in Memory(size), NEW s \in 1 .. size,
         NEW e \in 1 .. size, Ends(m, s, e)
  PROVE  LET a == Stored(Text(m, s))
         IN  a \in Seq(Char) /\ Len(a) = e - s + 1 /\ \A i \in 1 .. Len(a) : a[i] = m[s + i - 1]
<1> DEFINE t == Text(m, s)
           a == Stored(t)
           n == e - s
<1>1. n \in Nat /\ m[e] = NUL
  BY DEF Ends
<1>2. t \in Seq(Char) /\ Len(t) = n /\ \A k \in 1 .. n : t[k] = m[s + k - 1]
  BY TextIs
<1>3. NUL \in Char /\ (s + (n + 1)) - 1 = e
  BY <1>1, CharIs
<1> HIDE DEF t, n
<1>4. /\ a \in Seq(Char) /\ Len(a) = n + 1 /\ a[n + 1] = NUL
      /\ \A k \in 1 .. n : a[k] = t[k]
  BY <1>1, <1>2, <1>3, AppendProperties DEF Stored
<1> HIDE DEF a
<1>5. \A i \in 1 .. Len(a) : i \in 1 .. n \/ i = n + 1
  BY <1>1, <1>4
<1>6. \A i \in 1 .. Len(a) : a[i] = m[s + i - 1]
  BY <1>1, <1>2, <1>3, <1>4, <1>5
<1> QED BY <1>4, <1>6 DEF a, t, n

\* What strcmp returns has the sign of the order of the two strings, and is 0 for
\* equal strings only.
THEOREM strcmpAgrees ==
  ASSUME NEW size \in Nat, NEW m \in Memory(size), NEW s \in 1 .. size, NEW t \in 1 .. size,
         NEW d \in 1 .. size, Ends(m, s, d), NEW e \in 1 .. size, Ends(m, t, e), d - s <= Size
  PROVE  Ordered(strcmp(m, s, t), Stored(Text(m, s)), Stored(Text(m, t)), Signed)
<1>1. Size \in Nat /\ size \in Nat /\ d - s \in Nat /\ e - t \in Nat /\ d - s \in 0 .. Size
  BY StringConstants DEF StringConstants, Ends
<1>2. /\ m[s + (d - s)] = NUL /\ \A j \in 0 .. ((d - s) - 1) : m[s + j] # NUL
      /\ m[t + (e - t)] = NUL /\ \A j \in 0 .. ((e - t) - 1) : m[t + j] # NUL
  BY <1>1 DEF Ends
<1> DEFINE P(j) == m[s + j] = NUL \/ m[s + j] # m[t + j]
           T == {j \in 0 .. (d - s) : P(j)}
<1>3. d - s \in T
  BY <1>1, <1>2
<1>4. PICK k \in 0 .. (d - s) : k \in T /\ \A j \in 0 .. (k - 1) : j \notin T
  <2> HIDE DEF T
  <2> QED BY <1>1, <1>3, Stops
<1>5. k \in Nat /\ k <= d - s /\ k \in 0 .. Size /\ P(k) /\ \A j \in 0 .. (k - 1) : ~P(j)
  BY <1>1, <1>4
<1> HIDE DEF T
<1>6. /\ m[s + k] = NUL \/ m[s + k] # m[t + k]
      /\ \A j \in 0 .. (k - 1) : m[s + j] # NUL /\ m[s + j] = m[t + j]
  BY <1>5
<1>7. strcmp(m, s, t) = Signed[m[s + k]] - Signed[m[t + k]]
  <2>1. strcmp(m, s, t) = Signed[m[s + First(P)]] - Signed[m[t + First(P)]]
    BY DEF strcmp
  <2> HIDE DEF P
  <2>2. \A x \in 0 .. Size : (P(x) /\ \A j \in 0 .. (x - 1) : ~P(j)) => x = k
    BY <1>1, <1>5
  <2>3. First(P) = k
    BY <1>5, <2>2 DEF First
  <2> QED BY <2>1, <2>3
<1> HIDE DEF P
<1>8. k <= e - t
  <2> SUFFICES ASSUME e - t < k
               PROVE  FALSE
    BY <1>1, <1>5
  <2>1. e - t \in 0 .. (k - 1)
    BY <1>1, <1>5
  <2> QED BY <1>2, <1>6, <2>1
<1>9. m[s + k] \in Char /\ m[t + k] \in Char
  <2>1. s + k \in 1 .. size /\ t + k \in 1 .. size
    BY <1>1, <1>5, <1>8
  <2> QED BY <2>1 DEF Memory
<1> DEFINE sign == Signed[m[s + k]] - Signed[m[t + k]]
           a == Stored(Text(m, s))
           b == Stored(Text(m, t))
<1>10. /\ sign \in Int /\ (sign = 0 <=> m[s + k] = m[t + k])
       /\ sign < 0 <=> Signed[m[s + k]] < Signed[m[t + k]]
  BY <1>9, Values
<1>11. a \in Seq(Char) /\ Len(a) = d - s + 1 /\ \A i \in 1 .. Len(a) : a[i] = m[s + i - 1]
  BY StoredStands
<1>12. b \in Seq(Char) /\ Len(b) = e - t + 1 /\ \A i \in 1 .. Len(b) : b[i] = m[t + i - 1]
  BY StoredStands
<1>13. s \in Int /\ t \in Int
  OBVIOUS
<1> HIDE DEF sign, a, b
<1>14. CASE m[s + k] # m[t + k]
  <2>1. k < Len(a) /\ k < Len(b)
    BY <1>1, <1>5, <1>8, <1>11, <1>12
  <2>2. Parted(m, s, t, a, b, Signed, k, sign)
    BY <1>6, <1>10, <1>11, <1>12, <1>14, <2>1 DEF Parted
  <2>3. Ordered(sign, a, b, Signed)
    BY <1>5, <1>10, <1>11, <1>12, <1>13, <2>2, Compared, Values
  <2> QED BY <1>7, <2>3 DEF sign, a, b
<1>15. CASE m[s + k] = m[t + k]
  <2>1. k = d - s /\ k = e - t
    BY <1>1, <1>2, <1>5, <1>6, <1>8, <1>15
  <2>2. k + 1 = Len(a) /\ k + 1 = Len(b) /\ k + 1 \in Nat
    BY <1>5, <1>11, <1>12, <2>1
  <2>3. \A j \in 0 .. ((k + 1) - 1) : m[s + j] = m[t + j]
    BY <1>5, <1>6, <1>15
  <2>4. Parted(m, s, t, a, b, Signed, k + 1, sign)
    BY <1>10, <1>11, <1>12, <1>15, <2>2, <2>3 DEF Parted
  <2>5. Ordered(sign, a, b, Signed)
    BY <1>10, <1>11, <1>12, <1>13, <2>2, <2>4, Compared, Values
  <2> QED BY <1>7, <2>5 DEF sign, a, b
<1> QED BY <1>14, <1>15

\* Two lengths, the shorter one.
Shorter(l, n) == IF l < n THEN l ELSE n

\* c are the n characters from s on.
Row(m, s, c, n) ==
  c \in Seq(Char) /\ Len(c) = n /\ \A i \in 1 .. n : c[i] = m[s + i - 1] /\ c[i] # NUL

\* The first characters of a string stand where the string does.
LEMMA CutTextIs ==
  ASSUME NEW size \in Nat, NEW m \in Memory(size), NEW s \in 1 .. size,
         NEW e \in 1 .. size, Ends(m, s, e), NEW n \in Nat
  PROVE  Row(m, s, Cut(Text(m, s), n), Shorter(e - s, n))
<1> DEFINE t == Text(m, s)
           c == Cut(t, n)
<1>1. e - s \in Nat
  BY DEF Ends
<1>2. /\ t \in Seq(Char) /\ Len(t) = e - s
      /\ \A k \in 1 .. (e - s) : t[k] = m[s + k - 1] /\ t[k] # NUL
  BY TextIs
<1> HIDE DEF t
<1>3. c \in Seq(Char) /\ Len(c) = (IF Len(t) < n THEN Len(t) ELSE n) /\ \A k \in 1 .. Len(c) : c[k] = t[k]
  BY <1>2, CutIs
<1> HIDE DEF c
<1>4. Len(c) = (IF e - s < n THEN e - s ELSE n) /\ 1 .. Len(c) \subseteq 1 .. (e - s)
  BY <1>1, <1>2, <1>3
<1>5. \A k \in 1 .. Len(c) : c[k] = m[s + k - 1] /\ c[k] # NUL
  BY <1>2, <1>3, <1>4
<1> QED BY <1>3, <1>4, <1>5 DEF c, t, Shorter, Row

\* The first n cells of a string with its NUL stand where it does.
LEMMA CutStands ==
  ASSUME NEW size \in Nat, NEW m \in Memory(size), NEW s \in 1 .. size,
         NEW e \in 1 .. size, Ends(m, s, e), NEW n \in Nat
  PROVE  LET a == Cut(Stored(Text(m, s)), n)
         IN  /\ a \in Seq(Char) /\ Len(a) = Shorter(e - s + 1, n)
             /\ \A i \in 1 .. Len(a) : a[i] = m[s + i - 1]
<1> DEFINE t == Stored(Text(m, s))
           a == Cut(t, n)
<1>1. t \in Seq(Char) /\ Len(t) = e - s + 1 /\ \A i \in 1 .. Len(t) : t[i] = m[s + i - 1]
  BY StoredStands
<1> HIDE DEF t
<1>2. a \in Seq(Char) /\ Len(a) = (IF Len(t) < n THEN Len(t) ELSE n) /\ \A k \in 1 .. Len(a) : a[k] = t[k]
  BY <1>1, CutIs
<1> HIDE DEF a
<1>3. Len(t) \in Nat /\ Len(a) \in Nat
  BY <1>1, <1>2, LenProperties
<1>4. \A i \in 1 .. Len(a) : i \in 1 .. Len(t)
  BY <1>2, <1>3
<1> QED BY <1>1, <1>2, <1>4 DEF a, t, Shorter

\* strncmp goes by the first n characters of each, for every n.
THEOREM strncmpAgrees ==
  ASSUME NEW size \in 0 .. Size, NEW m \in Memory(size), NEW s \in 1 .. size, NEW t \in 1 .. size,
         NEW d \in 1 .. size, Ends(m, s, d), NEW e \in 1 .. size, Ends(m, t, e), NEW n \in Nat
  PROVE  Ordered(strncmp(m, s, t, n), Cut(Stored(Text(m, s)), n), Cut(Stored(Text(m, t)), n), Signed)
<1> DEFINE a == Cut(Stored(Text(m, s)), n)
           b == Cut(Stored(Text(m, t)), n)
<1>1. Size \in Nat /\ size \in Nat /\ d - s \in Nat /\ e - t \in Nat /\ e - t \in 0 .. Size
  BY StringConstants DEF StringConstants, Ends
<1>2. /\ m[s + (d - s)] = NUL /\ \A j \in 0 .. ((d - s) - 1) : m[s + j] # NUL
      /\ m[t + (e - t)] = NUL /\ \A j \in 0 .. ((e - t) - 1) : m[t + j] # NUL
  BY <1>1 DEF Ends
<1>3. a \in Seq(Char) /\ Len(a) = Shorter(d - s + 1, n) /\ \A i \in 1 .. Len(a) : a[i] = m[s + i - 1]
  BY <1>1, CutStands
<1>4. b \in Seq(Char) /\ Len(b) = Shorter(e - t + 1, n) /\ \A i \in 1 .. Len(b) : b[i] = m[t + i - 1]
  BY <1>1, CutStands
<1>5. s \in Int /\ t \in Int
  OBVIOUS
<1> HIDE DEF a, b
<1>6. ASSUME n = 0
      PROVE  Ordered(strncmp(m, s, t, n), a, b, Signed)
  <2>1. Len(a) = 0 /\ Len(b) = 0
    BY <1>1, <1>3, <1>4, <1>6 DEF Shorter
  <2>2. strncmp(m, s, t, n) = 0
    BY <1>6 DEF strncmp
  <2>3. Parted(m, s, t, a, b, Signed, 0, 0)
    BY <1>3, <1>4, <2>1 DEF Parted
  <2>4. Ordered(0, a, b, Signed)
    BY <1>3, <1>4, <1>5, <2>3, Compared, Values
  <2> QED BY <2>2, <2>4
<1>7. ASSUME n # 0
      PROVE  Ordered(strncmp(m, s, t, n), a, b, Signed)
  <2> DEFINE P(j) == j >= n - 1 \/ m[s + j] # m[t + j] \/ m[t + j] = NUL
             T == {j \in 0 .. (e - t) : P(j)}
  <2>1. e - t \in T
    BY <1>1, <1>2
  <2>2. PICK k \in 0 .. (e - t) : k \in T /\ \A j \in 0 .. (k - 1) : j \notin T
    <3> HIDE DEF T
    <3> QED BY <1>1, <2>1, Stops
  <2>3. k \in Nat /\ k <= e - t /\ k \in 0 .. Size /\ P(k) /\ \A j \in 0 .. (k - 1) : ~P(j)
    BY <1>1, <2>2
  <2> HIDE DEF T
  <2>4. /\ k >= n - 1 \/ m[s + k] # m[t + k] \/ m[t + k] = NUL
        /\ \A j \in 0 .. (k - 1) : ~(j >= n - 1) /\ m[s + j] = m[t + j] /\ m[t + j] # NUL
    BY <2>3
  <2>5. strncmp(m, s, t, n) = Signed[m[s + k]] - Signed[m[t + k]]
    <3>1. strncmp(m, s, t, n) = IF n = 0 THEN 0 ELSE Signed[m[s + First(P)]] - Signed[m[t + First(P)]]
      BY DEF strncmp
    <3> HIDE DEF P
    <3>2. \A x \in 0 .. Size : (P(x) /\ \A j \in 0 .. (x - 1) : ~P(j)) => x = k
      BY <1>1, <2>3
    <3>3. First(P) = k
      BY <2>3, <3>2 DEF First
    <3> QED BY <1>7, <3>1, <3>3
  <2> HIDE DEF P
  <2>6. k <= d - s
    <3> SUFFICES ASSUME d - s < k
                 PROVE  FALSE
      BY <1>1, <2>3
    <3>1. d - s \in 0 .. (k - 1)
      BY <1>1, <2>3
    <3> QED BY <1>2, <2>4, <3>1
  <2>7. k <= n - 1
    <3> SUFFICES ASSUME n - 1 < k
                 PROVE  FALSE
      BY <2>3
    <3>1. k - 1 \in 0 .. (k - 1) /\ k - 1 >= n - 1
      BY <1>7, <2>3
    <3> QED BY <2>4, <3>1
  <2>8. m[s + k] \in Char /\ m[t + k] \in Char
    <3>1. s + k \in 1 .. size /\ t + k \in 1 .. size
      BY <1>1, <2>3, <2>6
    <3> QED BY <3>1 DEF Memory
  <2> DEFINE sign == Signed[m[s + k]] - Signed[m[t + k]]
  <2>9. /\ sign \in Int /\ (sign = 0 <=> m[s + k] = m[t + k])
        /\ sign < 0 <=> Signed[m[s + k]] < Signed[m[t + k]]
    BY <2>8, Values
  <2> HIDE DEF sign
  <2>10. CASE m[s + k] # m[t + k]
    <3>1. k < Len(a) /\ k < Len(b)
      BY <1>1, <1>3, <1>4, <2>3, <2>6, <2>7 DEF Shorter
    <3>2. Parted(m, s, t, a, b, Signed, k, sign)
      BY <1>3, <1>4, <2>4, <2>9, <2>10, <3>1 DEF Parted
    <3>3. Ordered(sign, a, b, Signed)
      BY <1>3, <1>4, <1>5, <2>3, <2>9, <3>2, Compared, Values
    <3> QED BY <2>5, <3>3 DEF sign
  <2>11. CASE m[s + k] = m[t + k]
    <3>1. k = n - 1 \/ (k = d - s /\ k = e - t)
      <4>1. CASE m[t + k] = NUL
        BY <1>1, <1>2, <2>3, <2>6, <2>11, <4>1
      <4>2. CASE m[t + k] # NUL
        BY <2>3, <2>4, <2>7, <2>11, <4>2
      <4> QED BY <4>1, <4>2
    <3>2. k + 1 = Len(a) /\ k + 1 = Len(b) /\ k + 1 \in Nat
      BY <1>1, <1>3, <1>4, <2>3, <2>6, <2>7, <3>1 DEF Shorter
    <3>3. \A j \in 0 .. ((k + 1) - 1) : m[s + j] = m[t + j]
      BY <2>3, <2>4, <2>11
    <3>4. Parted(m, s, t, a, b, Signed, k + 1, sign)
      BY <1>3, <1>4, <2>9, <2>11, <3>2, <3>3 DEF Parted
    <3>5. Ordered(sign, a, b, Signed)
      BY <1>3, <1>4, <1>5, <2>9, <3>2, <3>4, Compared, Values
    <3> QED BY <2>5, <3>5 DEF sign
  <2> QED BY <2>10, <2>11
<1> QED BY <1>6, <1>7 DEF a, b

\* memcmp does so for two blocks of n cells, whatever is in them, as unsigned bytes.
THEOREM memcmpAgrees ==
  ASSUME NEW size \in 0 .. Size, NEW m \in Memory(size), NEW s \in 1 .. size, NEW t \in 1 .. size,
         NEW n \in Nat, s + n <= size + 1, t + n <= size + 1
  PROVE  Ordered(memcmp(m, s, t, n), SubSeq(m, s, s + n - 1), SubSeq(m, t, t + n - 1), Unsigned)
<1> DEFINE a == SubSeq(m, s, s + n - 1)
           b == SubSeq(m, t, t + n - 1)
           P(j) == j = n \/ m[s + j] # m[t + j]
           T == {j \in 0 .. n : P(j)}
<1>1. Size \in Nat /\ size \in Nat /\ n <= Size /\ s \in Int /\ t \in Int
  BY StringConstants DEF StringConstants
<1>2. \A i \in 0 .. (n - 1) : m[s + i] \in Char /\ m[t + i] \in Char
  <2>1. \A i \in 0 .. (n - 1) : s + i \in 1 .. size /\ t + i \in 1 .. size
    BY <1>1
  <2> QED BY <2>1 DEF Memory
<1>3. a \in Seq(Char) /\ Len(a) = n /\ \A i \in 1 .. n : a[i] = m[s + i - 1]
  BY <1>1, <1>2, BlockIs
<1>4. b \in Seq(Char) /\ Len(b) = n /\ \A i \in 1 .. n : b[i] = m[t + i - 1]
  BY <1>1, <1>2, BlockIs
<1> HIDE DEF a, b
<1>5. PICK k \in 0 .. n : k \in T /\ \A j \in 0 .. (k - 1) : j \notin T
  <2>1. n \in T
    OBVIOUS
  <2> HIDE DEF T
  <2> QED BY <2>1, Stops
<1>6. k \in Nat /\ k <= n /\ k \in 0 .. Size /\ P(k) /\ \A j \in 0 .. (k - 1) : ~P(j)
  BY <1>1, <1>5
<1> HIDE DEF T
<1>7. /\ k = n \/ m[s + k] # m[t + k]
      /\ \A j \in 0 .. (k - 1) : m[s + j] = m[t + j]
  BY <1>6
<1> DEFINE sign == IF k = n THEN 0 ELSE IF Unsigned[m[s + k]] < Unsigned[m[t + k]] THEN -1 ELSE 1
<1>8. memcmp(m, s, t, n) = sign
  <2>1. memcmp(m, s, t, n) =
          IF First(P) = n THEN 0 ELSE IF Unsigned[m[s + First(P)]] < Unsigned[m[t + First(P)]] THEN -1 ELSE 1
    BY DEF memcmp
  <2> HIDE DEF P
  <2>2. \A x \in 0 .. Size : (P(x) /\ \A j \in 0 .. (x - 1) : ~P(j)) => x = k
    BY <1>1, <1>6
  <2>3. First(P) = k
    BY <1>6, <2>2 DEF First
  <2> QED BY <2>1, <2>3
<1> HIDE DEF P
<1>9. sign \in Int /\ (sign = 0 <=> k = n) /\ (k # n => (sign < 0 <=> Unsigned[m[s + k]] < Unsigned[m[t + k]]))
  OBVIOUS
<1> HIDE DEF sign
<1>10. Parted(m, s, t, a, b, Unsigned, k, sign)
  BY <1>3, <1>4, <1>6, <1>7, <1>9 DEF Parted
<1>11. Ordered(sign, a, b, Unsigned)
  BY <1>1, <1>3, <1>4, <1>6, <1>9, <1>10, Compared, Values
<1> QED BY <1>8, <1>11 DEF a, b

\* ComparisonsAgree holds of every memory.
LEMMA ComparisonsHold ==
  ASSUME NEW size \in 0 .. Size, NEW m \in Memory(size)
  PROVE  ComparisonsAgree(m)
<1>1. size \in Nat
  BY StringConstants DEF StringConstants
<1>2. Len(m) = size
  BY <1>1 DEF Memory
<1> SUFFICES ASSUME NEW s \in Starts(m), NEW t \in Starts(m)
             PROVE  /\ strlen(m, s) = Len(Text(m, s))
                    /\ Ordered(strcmp(m, s, t), Stored(Text(m, s)), Stored(Text(m, t)), Signed)
                    /\ \A n \in 0 .. 2 :
                         /\ Ordered(strncmp(m, s, t, n), Cut(Stored(Text(m, s)), n),
                                    Cut(Stored(Text(m, t)), n), Signed)
                         /\ s + n <= Len(m) /\ t + n <= Len(m) =>
                              Ordered(memcmp(m, s, t, n), SubSeq(m, s, s + n - 1),
                                      SubSeq(m, t, t + n - 1), Unsigned)
  BY DEF ComparisonsAgree
<1>3. s \in 1 .. size /\ \E d \in 1 .. size : Ends(m, s, d)
  BY <1>1, StartEnds
<1>4. PICK d \in 1 .. size : Ends(m, s, d)
  BY <1>3
<1>5. t \in 1 .. size /\ \E e \in 1 .. size : Ends(m, t, e)
  BY <1>1, StartEnds
<1>6. PICK e \in 1 .. size : Ends(m, t, e)
  BY <1>5
<1>7. strlen(m, s) = Len(Text(m, s))
  <2>1. strlen(m, s) = d - s
    BY <1>3, <1>4, strlenIs
  <2>2. Len(Text(m, s)) = d - s
    BY <1>1, <1>3, <1>4, TextIs
  <2> QED BY <2>1, <2>2
<1>8. Ordered(strcmp(m, s, t), Stored(Text(m, s)), Stored(Text(m, t)), Signed)
  <2>1. d - s <= Size
    BY <1>3, StringConstants DEF StringConstants
  <2> QED BY <1>1, <1>3, <1>4, <1>5, <1>6, <2>1, strcmpAgrees
<1>9. ASSUME NEW n \in 0 .. 2
      PROVE  Ordered(strncmp(m, s, t, n), Cut(Stored(Text(m, s)), n), Cut(Stored(Text(m, t)), n), Signed)
  <2>1. n \in Nat
    OBVIOUS
  <2> QED BY <2>1, <1>3, <1>4, <1>5, <1>6, strncmpAgrees
<1>10. ASSUME NEW n \in 0 .. 2, s + n <= Len(m), t + n <= Len(m)
       PROVE  Ordered(memcmp(m, s, t, n), SubSeq(m, s, s + n - 1), SubSeq(m, t, t + n - 1), Unsigned)
  <2>1. n \in Nat /\ s + n <= size + 1 /\ t + n <= size + 1
    BY <1>2, <1>3, <1>5, <1>10
  <2> QED BY <2>1, <1>3, <1>5, memcmpAgrees
<1> QED BY <1>7, <1>8, <1>9, <1>10

-----------------------------------------------------------------------------
\* Blocks.

\* The cells a copy leaves, one by one.
LEMMA CopiedCells ==
  ASSUME NEW size \in Nat, NEW m \in Memory(size), NEW dest \in Nat \ {0}, NEW src \in Nat \ {0},
         NEW n \in Nat, dest + n <= size + 1, src + n <= size + 1
  PROVE  /\ Copied(m, dest, src, n) \in Memory(size)
         /\ \A i \in 0 .. (n - 1) : Copied(m, dest, src, n)[dest + i] = m[src + i]
         /\ SameBut(m, Copied(m, dest, src, n), dest, n)
<1> DEFINE c == Copied(m, dest, src, n)
<1>1. DOMAIN m = 1 .. size /\ \A i \in 1 .. size : m[i] \in Char
  BY DEF Memory
<1>2. c = [i \in 1 .. size |-> IF i \in dest .. (dest + n - 1) THEN m[src + (i - dest)] ELSE m[i]]
  BY <1>1 DEF Copied
<1>3. \A i \in dest .. (dest + n - 1) : src + (i - dest) \in 1 .. size
  OBVIOUS
<1>4. c \in Memory(size)
  BY <1>1, <1>2, <1>3 DEF Memory
<1>5. ASSUME NEW i \in 0 .. (n - 1)
      PROVE  c[dest + i] = m[src + i]
  <2>1. dest + i \in 1 .. size /\ dest + i \in dest .. (dest + n - 1) /\ src + ((dest + i) - dest) = src + i
    OBVIOUS
  <2> QED BY <1>2, <2>1
<1>6. SameBut(m, c, dest, n)
  BY <1>1, <1>2 DEF SameBut
<1> QED BY <1>4, <1>5, <1>6

\* k cells were free of c, and memccpy copied these, and the c behind them.
StoppedAt(m, p, q, c, n, k) ==
  /\ \A j \in 0 .. (k - 1) : m[q + j] # c
  /\ \/ k = n /\ memccpy(m, p, q, c, n) = [mem |-> memcpy(m, p, q, n), ret |-> NUL]
     \/ /\ k < n /\ m[q + k] = c
        /\ memccpy(m, p, q, c, n) = [mem |-> memcpy(m, p, q, k + 1), ret |-> p + k + 1]

\* memccpy stops at the first c, or has none to stop at.
LEMMA memccpyIs ==
  ASSUME NEW size \in 0 .. Size, NEW m \in Memory(size), NEW p \in Nat \ {0}, NEW q \in Nat \ {0},
         NEW c \in Char, NEW n \in Nat, p + n <= size + 1, q + n <= size + 1
  PROVE  \E k \in 0 .. n : StoppedAt(m, p, q, c, n, k)
<1> DEFINE P(j) == j = n \/ m[q + j] = c
           T == {j \in 0 .. n : P(j)}
<1>1. Size \in Nat /\ n <= Size
  BY StringConstants DEF StringConstants
<1>2. PICK k \in 0 .. n : k \in T /\ \A j \in 0 .. (k - 1) : j \notin T
  <2>1. n \in T
    OBVIOUS
  <2> HIDE DEF T
  <2> QED BY <2>1, Stops
<1>3. k \in 0 .. Size /\ P(k) /\ \A j \in 0 .. (k - 1) : ~P(j)
  BY <1>1, <1>2
<1> HIDE DEF T
<1>4. /\ k = n \/ (k < n /\ m[q + k] = c)
      /\ \A j \in 0 .. (k - 1) : m[q + j] # c
  BY <1>3
<1>5. memccpy(m, p, q, c, n) =
        IF First(P) = n THEN [mem |-> memcpy(m, p, q, n), ret |-> NUL]
        ELSE [mem |-> memcpy(m, p, q, First(P) + 1), ret |-> p + First(P) + 1]
  BY DEF memccpy
<1> HIDE DEF P
<1>6. \A x \in 0 .. Size : (P(x) /\ \A j \in 0 .. (x - 1) : ~P(j)) => x = k
  BY <1>1, <1>3
<1>7. First(P) = k
  BY <1>3, <1>6 DEF First
<1>8. memccpy(m, p, q, c, n) = IF k = n THEN [mem |-> memcpy(m, p, q, n), ret |-> NUL]
                               ELSE [mem |-> memcpy(m, p, q, k + 1), ret |-> p + k + 1]
  BY <1>5, <1>7
<1>9. CASE k = n
  BY <1>4, <1>8, <1>9 DEF StoppedAt
<1>10. CASE k < n
  BY <1>4, <1>8, <1>10 DEF StoppedAt
<1> QED BY <1>4, <1>9, <1>10

\* For blocks of every length: memmove moves what the source held and writes
\* nothing else, overlapping or not; memcpy does so when they are apart; memccpy
\* stops behind the first c.
THEOREM BlockHolds ==
  ASSUME NEW size \in 0 .. Size, NEW m \in Memory(size), NEW n \in Nat,
         NEW p \in 1 .. (size - n), NEW q \in 1 .. (size - n)
  PROVE  BlockAgrees(m, n, p, q)
<1> DEFINE block == SubSeq(m, q, q + n - 1)
           moved == memmove(m, p, q, n)
<1>1. /\ size \in Nat /\ p \in Nat \ {0} /\ q \in Nat \ {0} /\ p \in Int /\ q \in Int
      /\ p + n <= size + 1 /\ q + n <= size + 1
  BY StringConstants DEF StringConstants
<1>2. moved = Copied(m, p, q, n)
  BY <1>1, memmoveIs
<1>3. \A i \in 0 .. (n - 1) : moved[p + i] = m[q + i]
  BY <1>1, <1>2, CopiedCells
<1>4. SameBut(m, moved, p, n)
  BY <1>1, <1>2, CopiedCells
<1>5. \A i \in 0 .. (n - 1) : m[q + i] \in Char
  <2>1. \A i \in 0 .. (n - 1) : q + i \in 1 .. size
    BY <1>1
  <2> QED BY <2>1 DEF Memory
<1>6. Len(block) = n /\ \A k \in 1 .. n : block[k] = m[q + k - 1]
  BY <1>1, <1>5, BlockIs
<1> HIDE DEF moved
<1>7. SubSeq(moved, p, p + n - 1) = block
  <2> HIDE DEF block
  <2>1. \A i \in 0 .. (n - 1) : moved[p + i] \in Char
    BY <1>3, <1>5
  <2> DEFINE copy == SubSeq(moved, p, p + n - 1)
  <2>2. copy \in Seq(Char) /\ Len(copy) = n /\ \A k \in 1 .. n : copy[k] = moved[p + k - 1]
    BY <1>1, <2>1, BlockIs
  <2>3. block \in Seq(Char)
    BY <1>1, <1>5, BlockIs DEF block
  <2> HIDE DEF copy
  <2>4. \A k \in 1 .. n : copy[k] = block[k]
    <3> SUFFICES ASSUME NEW k \in 1 .. n
                 PROVE  copy[k] = block[k]
      OBVIOUS
    <3>1. k - 1 \in 0 .. (n - 1) /\ p + (k - 1) = p + k - 1 /\ q + (k - 1) = q + k - 1
      BY <1>1
    <3> QED BY <1>3, <1>6, <2>2, <3>1
  <2>5. copy = block
    BY <1>6, <2>2, <2>3, <2>4, SeqEqual
  <2> QED BY <2>5 DEF copy
<1> DEFINE ccpy == memccpy(m, p, q, SP, n)
           upto == IF ccpy.ret = NUL THEN n ELSE ccpy.ret - p
<1>8. ASSUME Disjoint(p, n, q, n)
      PROVE  memcpy(m, p, q, n) = moved
  <2>1. p <= q \/ q + n <= p
    BY <1>1, <1>8 DEF Disjoint
  <2>2. memcpy(m, p, q, n) = Copied(m, p, q, n)
    BY <1>1, <2>1, memcpyIs
  <2> QED BY <1>2, <2>2
<1>9. PICK k \in 0 .. n : StoppedAt(m, p, q, SP, n, k)
  <2>1. SP \in Char
    BY CharIs
  <2> QED BY <1>1, <2>1, memccpyIs
<1>10. /\ \A j \in 0 .. (k - 1) : m[q + j] # SP
       /\ \/ k = n /\ ccpy = [mem |-> memcpy(m, p, q, n), ret |-> NUL]
          \/ /\ k < n /\ m[q + k] = SP
             /\ ccpy = [mem |-> memcpy(m, p, q, k + 1), ret |-> p + k + 1]
  BY <1>9 DEF StoppedAt
<1> HIDE DEF ccpy, block
<1>11. /\ ccpy.mem = memcpy(m, p, q, upto)
       /\ \A j \in 1 .. n : block[j] = SP => upto <= j
       /\ ccpy.ret # NUL => block[upto] = SP
  <2>1. ASSUME NEW j \in 1 .. n, block[j] = SP
        PROVE  k + 1 <= j
    <3> SUFFICES ASSUME j <= k
                 PROVE  FALSE
      OBVIOUS
    <3>1. j - 1 \in 0 .. (k - 1)
      OBVIOUS
    <3> QED BY <1>6, <1>10, <2>1, <3>1
  <2>2. CASE k = n /\ ccpy = [mem |-> memcpy(m, p, q, n), ret |-> NUL]
    <3>1. ccpy.ret = NUL /\ ccpy.mem = memcpy(m, p, q, n) /\ upto = n
      BY <2>2
    <3>2. ~\E j \in 1 .. n : block[j] = SP
      BY <2>1, <2>2
    <3> QED BY <3>1, <3>2
  <2>3. CASE k < n /\ m[q + k] = SP /\ ccpy = [mem |-> memcpy(m, p, q, k + 1), ret |-> p + k + 1]
    <3>1. ccpy.ret = p + k + 1 /\ ccpy.mem = memcpy(m, p, q, k + 1)
      BY <2>3
    <3>2. ccpy.ret # NUL /\ upto = k + 1
      BY <1>1, <3>1 DEF NUL
    <3>3. k + 1 \in 1 .. n /\ (k + 1) - 1 = k
      BY <2>3
    <3>4. block[k + 1] = m[q + k]
      BY <1>6, <3>3
    <3> HIDE DEF upto
    <3> QED BY <2>1, <2>3, <3>1, <3>2, <3>4
  <2> QED BY <1>10, <2>2, <2>3
<1> QED BY <1>4, <1>7, <1>8, <1>11 DEF moved, ccpy, block, BlockAgrees

\* BlocksAgree holds of every memory.
LEMMA BlocksHold ==
  ASSUME NEW size \in 0 .. Size, NEW m \in Memory(size)
  PROVE  BlocksAgree(m)
<1>1. Len(m) = size
  BY StringConstants DEF StringConstants, Memory
<1>2. ASSUME NEW n \in 0 .. 3, NEW p \in 1 .. (size - n), NEW q \in 1 .. (size - n)
      PROVE  BlockAgrees(m, n, p, q)
  <2>1. n \in Nat
    OBVIOUS
  <2> QED BY <2>1, BlockHolds
<1> QED BY <1>1, <1>2 DEF BlocksAgree

-----------------------------------------------------------------------------
\* Copies of strings.

\* The room a string of n characters at dest takes lies apart from its source.
Room(size, dest, src, n) == dest + n <= size /\ src + n <= size /\ (dest <= src \/ src + n <= dest)

\* w is the memory m with that string at dest.
Holds(size, m, w, dest, src, n) ==
  /\ w \in Memory(size) /\ w[dest + n] = NUL
  /\ \A i \in 0 .. (n - 1) : w[dest + i] = m[src + i]
  /\ SameBut(m, w, dest, n + 1)

\* A string is put where it is to be when that is apart from it.
LEMMA PutIs ==
  ASSUME NEW size \in Nat, NEW m \in Memory(size), NEW dest \in Nat \ {0}, NEW src \in Nat \ {0},
         NEW n \in Nat, Room(size, dest, src, n)
  PROVE  Holds(size, m, Put(m, dest, src, n), dest, src, n)
<1> DEFINE c == Copied(m, dest, src, n)
           w == Put(m, dest, src, n)
<1>1. dest + n <= size + 1 /\ src + n <= size + 1 /\ (dest <= src \/ src + n <= dest) /\ dest + n \in 1 .. size
  BY DEF Room
<1>2. memcpy(m, dest, src, n) = c
  BY <1>1, memcpyIs
<1>3. /\ c \in Memory(size)
      /\ \A i \in 0 .. (n - 1) : c[dest + i] = m[src + i]
      /\ SameBut(m, c, dest, n)
  BY <1>1, CopiedCells
<1>4. w = [c EXCEPT ![dest + n] = NUL]
  BY <1>2 DEF Put
<1> HIDE DEF c, w
<1>5. w \in Memory(size) /\ w[dest + n] = NUL /\ \A i \in 1 .. size : i # dest + n => w[i] = c[i]
  BY <1>1, <1>3, <1>4, CharIs DEF Memory
<1>6. ASSUME NEW i \in 0 .. (n - 1)
      PROVE  w[dest + i] = m[src + i]
  <2>1. dest + i \in 1 .. size /\ dest + i # dest + n
    BY <1>1
  <2> QED BY <1>3, <1>5, <2>1
<1>7. SameBut(m, w, dest, n + 1)
  <2> SUFFICES ASSUME NEW i \in (1 .. size) \ (dest .. (dest + n))
               PROVE  w[i] = m[i]
    <3>1. dest + (n + 1) - 1 = dest + n /\ DOMAIN m = 1 .. size
      BY DEF Memory
    <3> QED BY <3>1 DEF SameBut
  <2>1. i \in (1 .. size) \ (dest .. (dest + n - 1)) /\ i # dest + n
    OBVIOUS
  <2>2. c[i] = m[i]
    BY <1>3, <2>1 DEF SameBut, Memory
  <2> QED BY <1>5, <2>1, <2>2
<1> QED BY <1>5, <1>6, <1>7 DEF w, Holds

\* The string at p in w has l characters of its own in m, and n of that at s.
Joins(size, m, w, p, l, s, n) ==
  /\ w \in Memory(size) /\ Text(w, p) \in Seq(Char) /\ Len(Text(w, p)) = l + n
  /\ \A i \in 1 .. l : Text(w, p)[i] = m[p + i - 1]
  /\ \A i \in 1 .. n : Text(w, p)[l + i] = m[s + i - 1]
  /\ SameBut(m, w, p + l, n + 1)

\* Put behind the first l characters of a string, it is read as one with these.
LEMMA JoinedText ==
  ASSUME NEW size \in Nat, NEW m \in Memory(size), NEW p \in 1 .. size, NEW l \in Nat,
         \A i \in 0 .. (l - 1) : m[p + i] # NUL,
         NEW s \in 1 .. size, NEW e \in 1 .. size, Ends(m, s, e),
         NEW n \in Nat, n <= e - s, Room(size, p + l, s, n)
  PROVE  Joins(size, m, Put(m, p + l, s, n), p, l, s, n)
<1> DEFINE w == Put(m, p + l, s, n)
           q == p + l
<1>1. q \in Nat \ {0} /\ s \in Nat \ {0} /\ Room(size, q, s, n) /\ q + n \in 1 .. size
  BY DEF Room
<1>2. /\ w \in Memory(size) /\ w[q + n] = NUL
      /\ \A i \in 0 .. (n - 1) : w[q + i] = m[s + i]
      /\ SameBut(m, w, q, n + 1)
  <2> HIDE DEF q
  <2>1. Holds(size, m, Put(m, q, s, n), q, s, n)
    BY <1>1, PutIs
  <2> QED BY <2>1 DEF q, Holds
<1> HIDE DEF w
<1>3. ASSUME NEW i \in 0 .. (l - 1)
      PROVE  w[p + i] = m[p + i] /\ w[p + i] # NUL
  <2>1. p + i \in 1 .. size /\ p + i \notin q .. (q + (n + 1) - 1)
    BY <1>1
  <2> QED BY <1>2, <2>1 DEF SameBut, Memory
<1>4. ASSUME NEW i \in 0 .. (n - 1)
      PROVE  w[q + i] = m[s + i] /\ w[q + i] # NUL
  <2>1. s + i \in s .. (e - 1)
    OBVIOUS
  <2> QED BY <1>2, <2>1 DEF Ends
<1>5. Ends(w, p, q + n)
  <2> SUFFICES ASSUME NEW i \in p .. ((q + n) - 1)
               PROVE  w[i] # NUL
    BY <1>1, <1>2 DEF Ends
  <2>1. CASE i < q
    <3>1. i - p \in 0 .. (l - 1) /\ p + (i - p) = i
      BY <2>1
    <3> QED BY <1>3, <3>1
  <2>2. CASE q <= i
    <3>1. i - q \in 0 .. (n - 1) /\ q + (i - q) = i
      BY <2>2
    <3> QED BY <1>4, <3>1
  <2> QED BY <2>1, <2>2
<1>6. (q + n) - p = l + n
  OBVIOUS
<1>7. /\ Text(w, p) \in Seq(Char) /\ Len(Text(w, p)) = l + n
      /\ \A i \in 1 .. (l + n) : Text(w, p)[i] = w[p + i - 1]
  <2>1. /\ Text(w, p) \in Seq(Char) /\ Len(Text(w, p)) = (q + n) - p
        /\ \A i \in 1 .. ((q + n) - p) : Text(w, p)[i] = w[p + i - 1] /\ Text(w, p)[i] # NUL
    BY <1>1, <1>2, <1>5, TextIs
  <2> QED BY <1>6, <2>1
<1>8. ASSUME NEW i \in 1 .. l
      PROVE  Text(w, p)[i] = m[p + i - 1]
  <2>1. i - 1 \in 0 .. (l - 1) /\ i \in 1 .. (l + n)
    OBVIOUS
  <2> QED BY <1>3, <1>7, <2>1
<1>9. ASSUME NEW i \in 1 .. n
      PROVE  Text(w, p)[l + i] = m[s + i - 1]
  <2>1. i - 1 \in 0 .. (n - 1) /\ l + i \in 1 .. (l + n) /\ p + ((l + i) - 1) = q + (i - 1)
    OBVIOUS
  <2> QED BY <1>4, <1>7, <2>1
<1> QED BY <1>2, <1>7, <1>8, <1>9 DEF w, Joins

\* A text that has the characters of two, one behind the other, is these joined.
LEMMA Joined ==
  ASSUME NEW x \in Seq(Char), NEW y \in Seq(Char), NEW z \in Seq(Char), Len(x) = Len(y) + Len(z),
         \A i \in 1 .. Len(y) : x[i] = y[i], \A i \in 1 .. Len(z) : x[Len(y) + i] = z[i]
  PROVE  x = y \o z
<1> DEFINE w == y \o z
<1>1. Len(y) \in Nat /\ Len(z) \in Nat
  BY LenProperties
<1>2. /\ w \in Seq(Char) /\ Len(w) = Len(y) + Len(z)
      /\ \A i \in 1 .. (Len(y) + Len(z)) : w[i] = IF i <= Len(y) THEN y[i] ELSE z[i - Len(y)]
  BY ConcatProperties
<1> HIDE DEF w
<1>3. ASSUME NEW i \in 1 .. (Len(y) + Len(z))
      PROVE  x[i] = w[i]
  <2>1. CASE i <= Len(y)
    <3>1. i \in 1 .. Len(y)
      BY <1>1, <2>1
    <3> QED BY <1>2, <2>1, <3>1
  <2>2. CASE Len(y) < i
    <3>1. i - Len(y) \in 1 .. Len(z) /\ Len(y) + (i - Len(y)) = i /\ ~(i <= Len(y))
      BY <1>1, <2>2
    <3> QED BY <1>2, <3>1
  <2> QED BY <1>1, <2>1, <2>2
<1>4. x = w
  BY <1>2, <1>3, SeqEqual
<1> QED BY <1>4 DEF w

\* strlcpy copies one character less than its size at most.
LEMMA strlcpyIs ==
  ASSUME NEW size \in 0 .. Size, NEW m \in Memory(size), NEW dest \in Nat, NEW s \in 1 .. size,
         NEW e \in 1 .. size, Ends(m, s, e), NEW lim \in Nat \ {0}
  PROVE  strlcpy(m, dest, s, lim) = Put(m, dest, s, Shorter(e - s, lim - 1))
<1> DEFINE P(j) == j >= lim - 1 \/ m[s + j] = NUL
           k == Shorter(e - s, lim - 1)
<1>1. Size \in Nat /\ e - s \in 0 .. Size
  BY StringConstants DEF StringConstants, Ends
<1>2. m[s + (e - s)] = NUL /\ \A j \in 0 .. ((e - s) - 1) : m[s + j] # NUL
  BY <1>1 DEF Ends
<1>3. k \in 0 .. Size /\ k <= e - s /\ k <= lim - 1 /\ (k = e - s \/ k >= lim - 1)
  BY <1>1 DEF Shorter
<1> HIDE DEF k
<1>4. P(k) /\ \A j \in 0 .. (k - 1) : ~P(j)
  <2>1. P(k)
    BY <1>2, <1>3
  <2>2. ASSUME NEW j \in 0 .. (k - 1)
        PROVE  ~P(j)
    <3>1. j \in 0 .. ((e - s) - 1) /\ ~(j >= lim - 1)
      BY <1>1, <1>3
    <3> QED BY <1>2, <3>1
  <2> QED BY <2>1, <2>2
<1>5. strlcpy(m, dest, s, lim) = Put(m, dest, s, First(P))
  BY DEF strlcpy
<1> HIDE DEF P
<1>6. \A x \in 0 .. Size : (P(x) /\ \A j \in 0 .. (x - 1) : ~P(j)) => x = k
  BY <1>1, <1>3, <1>4
<1>7. First(P) = k
  BY <1>3, <1>4, <1>6 DEF First
<1> QED BY <1>5, <1>7 DEF k

\* strncat copies nb characters at most, behind the end of dest.
LEMMA strncatIs ==
  ASSUME NEW size \in 0 .. Size, NEW m \in Memory(size), NEW p \in 1 .. size, NEW s \in 1 .. size,
         NEW d \in 1 .. size, Ends(m, p, d), NEW e \in 1 .. size, Ends(m, s, e), NEW nb \in Nat
  PROVE  strncat(m, p, s, nb) = Put(m, p + (d - p), s, Shorter(e - s, nb))
<1> DEFINE P(j) == m[s + j] = NUL \/ j >= nb
           k == Shorter(e - s, nb)
<1>1. Size \in Nat /\ e - s \in 0 .. Size
  BY StringConstants DEF StringConstants, Ends
<1>2. m[s + (e - s)] = NUL /\ \A j \in 0 .. ((e - s) - 1) : m[s + j] # NUL
  BY <1>1 DEF Ends
<1>3. k \in 0 .. Size /\ k <= e - s /\ k <= nb /\ (k = e - s \/ k >= nb)
  BY <1>1 DEF Shorter
<1> HIDE DEF k
<1>4. P(k) /\ \A j \in 0 .. (k - 1) : ~P(j)
  <2>1. P(k)
    BY <1>2, <1>3
  <2>2. ASSUME NEW j \in 0 .. (k - 1)
        PROVE  ~P(j)
    <3>1. j \in 0 .. ((e - s) - 1) /\ ~(j >= nb)
      BY <1>1, <1>3
    <3> QED BY <1>2, <3>1
  <2> QED BY <2>1, <2>2
<1>5. strncat(m, p, s, nb) = Put(m, p + (d - p), s, First(P))
  <2>1. strlen(m, p) = d - p
    BY strlenIs
  <2> QED BY <2>1 DEF strncat
<1> HIDE DEF P
<1>6. \A x \in 0 .. Size : (P(x) /\ \A j \in 0 .. (x - 1) : ~P(j)) => x = k
  BY <1>1, <1>3, <1>4
<1>7. First(P) = k
  BY <1>3, <1>4, <1>6 DEF First
<1> QED BY <1>5, <1>7 DEF k

\* What changes nothing outside a range changes nothing outside a wider one.
LEMMA Wider ==
  ASSUME NEW m, NEW w, NEW p \in Int, NEW n \in Int, NEW q \in Int, NEW k \in Int,
         SameBut(m, w, p, n), DOMAIN m \subseteq Int, q <= p, p + n <= q + k
  PROVE  SameBut(m, w, q, k)
<1>1. p .. (p + n - 1) \subseteq q .. (q + k - 1)
  OBVIOUS
<1> QED BY <1>1 DEF SameBut

\* strlcpy leaves all of the source that fits, ended by a NUL, and writes
\* nothing behind the size it was given.
THEOREM strlcpyAgrees ==
  ASSUME NEW size \in 0 .. Size, NEW m \in Memory(size), NEW p \in 1 .. size, NEW s \in 1 .. size,
         NEW e \in 1 .. size, Ends(m, s, e), NEW lim \in Nat,
         p + lim <= size + 1, Disjoint(p, lim, s, (e - s) + 1)
  PROVE  /\ lim > 0 => Text(strlcpy(m, p, s, lim), p) = Cut(Text(m, s), lim - 1)
         /\ SameBut(m, strlcpy(m, p, s, lim), p, lim)
<1>1. size \in Nat /\ e - s \in Nat /\ DOMAIN m \subseteq Int
  BY StringConstants DEF StringConstants, Ends, Memory
<1>2. CASE lim = 0
  BY <1>2 DEF strlcpy, SameBut
<1>3. CASE lim # 0
  <2> DEFINE k == Shorter(e - s, lim - 1)
             w == Put(m, p + 0, s, k)
  <2>1. lim \in Nat \ {0} /\ lim - 1 \in Nat
    BY <1>3
  <2>2. strlcpy(m, p, s, lim) = w
    <3>1. strlcpy(m, p, s, lim) = Put(m, p, s, k)
      <4>1. p \in Nat
        OBVIOUS
      <4> QED BY <2>1, <4>1, strlcpyIs
    <3>2. p + 0 = p
      OBVIOUS
    <3> QED BY <3>1, <3>2
  <2>3. k \in Nat /\ k <= e - s /\ k + 1 <= lim
    BY <1>1, <2>1 DEF Shorter
  <2>4. Room(size, p + 0, s, k)
    BY <1>1, <2>1, <2>3 DEF Room, Disjoint, Ends
  <2>5. Joins(size, m, w, p, 0, s, k)
    <3> HIDE DEF k
    <3>1. 0 \in Nat /\ \A i \in 0 .. (0 - 1) : m[p + i] # NUL
      OBVIOUS
    <3> QED BY <1>1, <2>3, <2>4, <3>1, JoinedText
  <2>6. /\ Cut(Text(m, s), lim - 1) \in Seq(Char) /\ Len(Cut(Text(m, s), lim - 1)) = k
        /\ \A i \in 1 .. k : Cut(Text(m, s), lim - 1)[i] = m[s + i - 1]
    <3>1. Row(m, s, Cut(Text(m, s), lim - 1), Shorter(e - s, lim - 1))
      BY <1>1, <2>1, CutTextIs
    <3> QED BY <3>1 DEF Row
  <2> HIDE DEF w, k
  <2> DEFINE x == Text(w, p)
             y == Cut(Text(m, s), lim - 1)
  <2>7. x \in Seq(Char) /\ Len(x) = k /\ \A i \in 1 .. k : x[i] = m[s + i - 1]
    <3>1. /\ x \in Seq(Char) /\ Len(x) = 0 + k
          /\ \A i \in 1 .. k : x[0 + i] = m[s + i - 1]
      BY <2>5 DEF Joins
    <3>2. 0 + k = k /\ \A i \in 1 .. k : 0 + i = i
      BY <2>3
    <3> HIDE DEF x
    <3> QED BY <3>1, <3>2
  <2>8. y \in Seq(Char) /\ Len(y) = k /\ \A i \in 1 .. k : y[i] = m[s + i - 1]
    BY <2>6
  <2> HIDE DEF x, y
  <2>9. x = y
    BY <2>7, <2>8, SeqEqual
  <2>10. SameBut(m, w, p, lim)
    <3>1. SameBut(m, w, p + 0, k + 1)
      BY <2>5 DEF Joins
    <3>2. p + 0 \in Int /\ k + 1 \in Int /\ p \in Int /\ lim \in Int /\ p <= p + 0 /\ (p + 0) + (k + 1) <= p + lim
      BY <2>3
    <3> QED BY <1>1, <3>1, <3>2, Wider
  <2> QED BY <2>2, <2>9, <2>10 DEF x, y
<1> QED BY <1>2, <1>3

\* The string at p ends at d, the one at s at e, and both fit in the room at p.
RoomForBoth(size, m, p, d, s, e, room) ==
  /\ Ends(m, p, d) /\ Ends(m, s, e) /\ room = (d - p) + (e - s) + 1
  /\ p + room <= size + 1 /\ Disjoint(p, room, s, (e - s) + 1)

\* Copying the first n characters from s to d appends the text c to the one at p.
Appended(m, p, d, s, n, c, room) ==
  /\ Text(Put(m, p + (d - p), s, n), p) = Text(m, p) \o c
  /\ SameBut(m, Put(m, p + (d - p), s, n), p, room)

\* n characters of the string at s behind the whole string at p.
LEMMA AppendedText ==
  ASSUME NEW size \in Nat, NEW m \in Memory(size), NEW p \in 1 .. size, NEW s \in 1 .. size,
         NEW d \in 1 .. size, NEW e \in 1 .. size, NEW room \in Nat, RoomForBoth(size, m, p, d, s, e, room),
         NEW n \in Nat, n <= e - s, NEW c, Row(m, s, c, n)
  PROVE  Appended(m, p, d, s, n, c, room)
<1> DEFINE l == d - p
           w == Put(m, p + l, s, n)
           x == Text(w, p)
           y == Text(m, p)
<1> USE DEF RoomForBoth
<1>1. l \in Nat /\ e - s \in Nat /\ DOMAIN m \subseteq Int
  BY DEF Ends, Memory
<1>2. \A i \in 0 .. (l - 1) : m[p + i] # NUL
  BY DEF Ends
<1>3. Room(size, p + l, s, n)
  BY <1>1 DEF Room, Disjoint, Ends
<1>4. y \in Seq(Char) /\ Len(y) = l /\ \A i \in 1 .. l : y[i] = m[p + i - 1]
  <2>1. /\ Text(m, p) \in Seq(Char) /\ Len(Text(m, p)) = d - p
        /\ \A i \in 1 .. (d - p) : Text(m, p)[i] = m[p + i - 1] /\ Text(m, p)[i] # NUL
    BY TextIs
  <2> QED BY <2>1
<1>5. c \in Seq(Char) /\ Len(c) = n /\ \A i \in 1 .. n : c[i] = m[s + i - 1]
  BY DEF Row
<1>6. Joins(size, m, w, p, l, s, n)
  <2> HIDE DEF l
  <2> QED BY <1>1, <1>2, <1>3, JoinedText
<1>7. /\ p + l \in Int /\ n + 1 \in Int /\ p \in Int /\ room \in Int
      /\ p <= p + l /\ (p + l) + (n + 1) <= p + room
  BY <1>1
<1> HIDE DEF w, y, l
<1>8. /\ x \in Seq(Char) /\ Len(x) = l + n
      /\ \A i \in 1 .. l : x[i] = m[p + i - 1]
      /\ \A i \in 1 .. n : x[l + i] = m[s + i - 1]
      /\ SameBut(m, w, p + l, n + 1)
  BY <1>6 DEF Joins
<1> HIDE DEF x
<1>9. /\ Len(x) = Len(y) + Len(c)
      /\ \A i \in 1 .. Len(y) : x[i] = y[i]
      /\ \A i \in 1 .. Len(c) : x[Len(y) + i] = c[i]
  BY <1>4, <1>5, <1>8
<1>10. x = y \o c
  BY <1>4, <1>5, <1>8, <1>9, Joined
<1>11. SameBut(m, w, p, room)
  BY <1>1, <1>7, <1>8, Wider
<1> QED BY <1>10, <1>11 DEF Appended, x, y, w, l

\* What joining two strings is meant to leave, and nothing outside its room.
JoinAgrees(m, p, s, lim, room) ==
  /\ Text(strcat(m, p, s), p) = Text(m, p) \o Text(m, s)
  /\ Text(strncat(m, p, s, lim), p) = Text(m, p) \o Cut(Text(m, s), lim)
  /\ SameBut(m, strcat(m, p, s), p, room)

\* strcat and strncat leave both strings joined, ended by a NUL, and strcat
\* writes nothing outside the room of the two.
THEOREM strcatAgrees ==
  ASSUME NEW size \in 0 .. Size, NEW m \in Memory(size), NEW p \in 1 .. size, NEW s \in 1 .. size,
         NEW d \in 1 .. size, Ends(m, p, d), NEW e \in 1 .. size, Ends(m, s, e), NEW lim \in Nat,
         NEW room \in Nat, room = (d - p) + (e - s) + 1,
         p + room <= size + 1, Disjoint(p, room, s, (e - s) + 1)
  PROVE  JoinAgrees(m, p, s, lim, room)
<1>1. size \in Nat /\ e - s \in Nat /\ e - s <= e - s /\ Shorter(e - s, lim) \in Nat /\ Shorter(e - s, lim) <= e - s
  BY StringConstants DEF StringConstants, Ends, Shorter
<1>2. strcat(m, p, s) = Put(m, p + (d - p), s, e - s)
  <2>1. strlen(m, p) = d - p
    BY strlenIs
  <2>2. strlen(m, s) = e - s
    BY strlenIs
  <2> QED BY <2>1, <2>2 DEF strcat
<1>3. strncat(m, p, s, lim) = Put(m, p + (d - p), s, Shorter(e - s, lim))
  BY strncatIs
<1>4. Row(m, s, Text(m, s), e - s)
  <2>1. /\ Text(m, s) \in Seq(Char) /\ Len(Text(m, s)) = e - s
        /\ \A i \in 1 .. (e - s) : Text(m, s)[i] = m[s + i - 1] /\ Text(m, s)[i] # NUL
    BY <1>1, TextIs
  <2> QED BY <2>1 DEF Row
<1>5. Row(m, s, Cut(Text(m, s), lim), Shorter(e - s, lim))
  BY <1>1, CutTextIs
<1>6. RoomForBoth(size, m, p, d, s, e, room)
  BY DEF RoomForBoth
<1>7. /\ Text(strcat(m, p, s), p) = Text(m, p) \o Text(m, s)
      /\ SameBut(m, strcat(m, p, s), p, room)
  <2> DEFINE n == e - s
             c == Text(m, s)
  <2>1. n \in Nat /\ n <= e - s /\ Row(m, s, c, n)
    BY <1>1, <1>4
  <2>2. strcat(m, p, s) = Put(m, p + (d - p), s, n)
    BY <1>2
  <2> HIDE DEF n, c
  <2>3. Appended(m, p, d, s, n, c, room)
    BY <1>1, <1>6, <2>1, AppendedText
  <2> QED BY <2>2, <2>3 DEF Appended, c
<1>8. Text(strncat(m, p, s, lim), p) = Text(m, p) \o Cut(Text(m, s), lim)
  <2> DEFINE n == Shorter(e - s, lim)
             c == Cut(Text(m, s), lim)
  <2>1. n \in Nat /\ n <= e - s /\ Row(m, s, c, n)
    BY <1>1, <1>5
  <2>2. strncat(m, p, s, lim) = Put(m, p + (d - p), s, n)
    BY <1>3
  <2> HIDE DEF n, c
  <2>3. Appended(m, p, d, s, n, c, room)
    BY <1>1, <1>6, <2>1, AppendedText
  <2> QED BY <2>2, <2>3 DEF Appended, c
<1> QED BY <1>7, <1>8 DEF JoinAgrees

\* strdup copies the whole string.
LEMMA strdupAgrees ==
  ASSUME NEW size \in 0 .. Size, NEW m \in Memory(size), NEW p \in 1 .. size, NEW s \in 1 .. size,
         NEW e \in 1 .. size, Ends(m, s, e),
         p + ((e - s) + 1) <= size + 1, Disjoint(p, (e - s) + 1, s, (e - s) + 1)
  PROVE  Text(strdup(m, p, s), p) = Text(m, s)
<1> DEFINE t == Text(m, s)
           lim == (e - s) + 1
<1>1. size \in Nat /\ e - s \in Nat
  BY StringConstants DEF StringConstants, Ends
<1>2. strdup(m, p, s) = strlcpy(m, p, s, lim)
  <2>1. strlen(m, s) = e - s
    BY strlenIs
  <2> QED BY <2>1 DEF strdup, NUL
<1>3. lim \in Nat /\ lim > 0 /\ lim - 1 = e - s
  BY <1>1
<1>4. t \in Seq(Char) /\ Len(t) = e - s
  <2>1. /\ Text(m, s) \in Seq(Char) /\ Len(Text(m, s)) = e - s
        /\ \A i \in 1 .. (e - s) : Text(m, s)[i] = m[s + i - 1] /\ Text(m, s)[i] # NUL
    BY <1>1, TextIs
  <2> QED BY <2>1
<1>5. Text(strlcpy(m, p, s, lim), p) = Cut(t, lim - 1)
  <2> HIDE DEF t
  <2>1. p + lim <= size + 1 /\ Disjoint(p, lim, s, (e - s) + 1)
    OBVIOUS
  <2> HIDE DEF lim
  <2>2. lim > 0 => Text(strlcpy(m, p, s, lim), p) = Cut(Text(m, s), lim - 1)
    BY <1>3, <2>1, strlcpyAgrees
  <2> QED BY <1>3, <2>2 DEF t
<1>6. Cut(t, e - s) = t
  <2> DEFINE c == Cut(t, e - s)
  <2> HIDE DEF t
  <2>1. c \in Seq(Char) /\ Len(c) = (IF Len(t) < e - s THEN Len(t) ELSE e - s) /\ \A k \in 1 .. Len(c) : c[k] = t[k]
    BY <1>1, <1>4, CutIs
  <2> HIDE DEF c
  <2>2. Len(c) = Len(t)
    BY <1>4, <2>1
  <2>3. c = t
    BY <1>4, <2>1, <2>2, SeqEqual
  <2> QED BY <2>3 DEF c
<1> QED BY <1>2, <1>3, <1>5, <1>6

\* CopiesAgree holds of every memory.
LEMMA CopiesHold ==
  ASSUME NEW size \in 0 .. Size, NEW m \in Memory(size)
  PROVE  CopiesAgree(m)
<1>1. size \in Nat
  BY StringConstants DEF StringConstants
<1>2. Len(m) = size
  BY <1>1 DEF Memory
<1>3. ASSUME NEW p \in Starts(m), NEW s \in Starts(m), NEW lim \in 0 .. 4
      PROVE  LET t == Text(m, s)
                 d == Text(m, p)
                 fits(n) == p + n <= Len(m) + 1 /\ Disjoint(p, n, s, Len(t) + 1)
             IN  /\ fits(lim) =>
                      /\ lim > 0 => Text(strlcpy(m, p, s, lim), p) = Cut(t, lim - 1)
                      /\ SameBut(m, strlcpy(m, p, s, lim), p, lim)
                 /\ fits(Len(d) + Len(t) + 1) =>
                      /\ Text(strcat(m, p, s), p) = d \o t
                      /\ Text(strncat(m, p, s, lim), p) = d \o Cut(t, lim)
                      /\ SameBut(m, strcat(m, p, s), p, Len(d) + Len(t) + 1)
                 /\ fits(Len(t) + 1) => Text(strdup(m, p, s), p) = t
  <2>0. lim \in Nat
    OBVIOUS
  <2>1. p \in 1 .. size /\ \E f \in 1 .. size : Ends(m, p, f)
    BY <1>1, StartEnds
  <2>2. PICK f \in 1 .. size : Ends(m, p, f)
    BY <2>1
  <2>3. s \in 1 .. size /\ \E e \in 1 .. size : Ends(m, s, e)
    BY <1>1, StartEnds
  <2>4. PICK e \in 1 .. size : Ends(m, s, e)
    BY <2>3
  <2>5. Len(Text(m, s)) = e - s
    BY <1>1, <2>3, <2>4, TextIs
  <2>6. Len(Text(m, p)) = f - p
    BY <1>1, <2>1, <2>2, TextIs
  <2>7. ASSUME p + lim <= size + 1, Disjoint(p, lim, s, (e - s) + 1)
        PROVE  /\ lim > 0 => Text(strlcpy(m, p, s, lim), p) = Cut(Text(m, s), lim - 1)
               /\ SameBut(m, strlcpy(m, p, s, lim), p, lim)
    BY <2>0, <2>1, <2>3, <2>4, <2>7, strlcpyAgrees
  <2>8. ASSUME NEW room \in Nat, room = (f - p) + (e - s) + 1,
               p + room <= size + 1, Disjoint(p, room, s, (e - s) + 1)
        PROVE  JoinAgrees(m, p, s, lim, room)
    BY <2>0, <2>1, <2>2, <2>3, <2>4, <2>8, strcatAgrees
  <2>9. ASSUME p + ((e - s) + 1) <= size + 1, Disjoint(p, (e - s) + 1, s, (e - s) + 1)
        PROVE  Text(strdup(m, p, s), p) = Text(m, s)
    BY <2>1, <2>3, <2>4, <2>9, strdupAgrees
  <2>10. (f - p) + (e - s) + 1 \in Nat
    BY <2>1, <2>2, <2>3, <2>4 DEF Ends
  <2> QED BY <1>2, <2>5, <2>6, <2>7, <2>8, <2>9, <2>10 DEF JoinAgrees
<1> QED BY <1>3 DEF CopiesAgree

-----------------------------------------------------------------------------
\* Case and blanks.

\* The case routines change the letters of the one case, and nothing else.
LEMMA ShiftedIs ==
  ASSUME NEW size \in 0 .. Size, NEW m \in Memory(size), NEW s \in 1 .. size,
         NEW e \in 1 .. size, Ends(m, s, e), NEW first \in Int, NEW last \in Int, NEW by \in Int
  PROVE  Shifted(m, s, first, last, by) =
           [i \in 1 .. size |-> IF i \in s .. (e - 1) /\ m[i] >= first /\ m[i] <= last THEN m[i] + by ELSE m[i]]
<1> DEFINE n == e - s
           To(c) == IF c >= first /\ c <= last THEN c + by ELSE c
           F(k) == [i \in 1 .. size |-> IF i \in s .. (s + k - 1) THEN To(m[i]) ELSE m[i]]
           f == [k \in 0 .. n |-> F(k)]
           run == CHOOSE run : run = [k \in 0 .. n |->
                    IF k = 0 THEN m ELSE [run[k - 1] EXCEPT ![s + (k - 1)] = To(run[k - 1][s + (k - 1)])]]
<1>0. n \in Nat /\ size \in Nat
  BY StringConstants DEF StringConstants, Ends
<1>1. Shifted(m, s, first, last, by) = run[n]
  <2>1. strlen(m, s) = n
    BY strlenIs
  <2> QED BY <2>1 DEF Shifted, Loop
<1>2. F(0) = m
  BY DEF Memory
<1>3. ASSUME NEW k \in 1 .. n
      PROVE  F(k) = [F(k - 1) EXCEPT ![s + (k - 1)] = To(F(k - 1)[s + (k - 1)])]
  <2> HIDE DEF To
  <2>1. s + (k - 1) \in 1 .. size
    BY <1>0
  <2>2. F(k - 1)[s + (k - 1)] = m[s + (k - 1)]
    BY <2>1
  <2>3. \A i \in 1 .. size : i \in s .. (s + k - 1) <=> i = s + (k - 1) \/ i \in s .. (s + (k - 1) - 1)
    OBVIOUS
  <2>4. \A i \in 1 .. size : F(k)[i] = IF i = s + (k - 1) THEN To(m[s + (k - 1)]) ELSE F(k - 1)[i]
    BY <2>3
  <2>5. F(k) = [i \in 1 .. size |-> F(k)[i]] /\ F(k - 1) = [i \in 1 .. size |-> F(k - 1)[i]]
    OBVIOUS
  <2> HIDE DEF F
  <2> QED BY <2>1, <2>2, <2>4, <2>5
<1> HIDE DEF F, To, n
<1>4. f = [k \in 0 .. n |-> IF k = 0 THEN m ELSE [f[k - 1] EXCEPT ![s + (k - 1)] = To(f[k - 1][s + (k - 1)])]]
  <2>1. \A k \in 1 .. n : k - 1 \in 0 .. n
    BY <1>0
  <2> QED BY <1>0, <1>2, <1>3, <2>1
<1> HIDE DEF f
<1>5. run = [k \in 0 .. n |-> IF k = 0 THEN m ELSE [run[k - 1] EXCEPT ![s + (k - 1)] = To(run[k - 1][s + (k - 1)])]]
  BY <1>4
<1> HIDE DEF run
<1>6. run[0] = f[0]
  BY <1>0, <1>4, <1>5
<1>7. ASSUME NEW k \in 1 .. n, run[k - 1] = f[k - 1]
      PROVE  run[k] = f[k]
  <2>1. k \in 0 .. n /\ k # 0
    BY <1>0
  <2>2. run[k] = [run[k - 1] EXCEPT ![s + (k - 1)] = To(run[k - 1][s + (k - 1)])]
    BY <1>5, <2>1
  <2>3. f[k] = [f[k - 1] EXCEPT ![s + (k - 1)] = To(f[k - 1][s + (k - 1)])]
    BY <1>4, <2>1
  <2> QED BY <1>7, <2>2, <2>3
<1>8. run[n] = f[n]
  BY <1>0, <1>6, <1>7, SameRun
<1>9. s + n - 1 = e - 1
  BY DEF n
<1>10. f[n] = F(n)
  BY <1>0 DEF f
<1>11. F(n) = [i \in 1 .. size |-> IF i \in s .. (e - 1) THEN To(m[i]) ELSE m[i]]
  BY <1>9 DEF F
<1>12. \A i \in 1 .. size : (IF i \in s .. (e - 1) THEN To(m[i]) ELSE m[i])
         = IF i \in s .. (e - 1) /\ m[i] >= first /\ m[i] <= last THEN m[i] + by ELSE m[i]
  BY DEF To
<1> QED BY <1>1, <1>8, <1>10, <1>11, <1>12

\* What the case routines make of one character.
CaseAgrees(m, s, k) ==
  LET t   == Text(m, s)
      up  == strupcase(m, s)
      low == strlowcase(m, s)
  IN  /\ up[s + k - 1] # low[s + k - 1] <=> t[k] \in (UpperA .. UpperZ) \cup (LowerA .. LowerZ)
      /\ t[k] \in {up[s + k - 1], low[s + k - 1]}
      /\ up[s + k - 1] \notin LowerA .. LowerZ

\* The case routines change letters and nothing else, each to the case that the
\* str_is routines look for.
THEOREM CaseHolds ==
  ASSUME NEW size \in 0 .. Size, NEW m \in Memory(size), NEW s \in 1 .. size,
         NEW e \in 1 .. size, Ends(m, s, e)
  PROVE  /\ \A k \in DOMAIN Text(m, s) : CaseAgrees(m, s, k)
         /\ str_is_uppercase(m, s) <=> \A k \in DOMAIN Text(m, s) : Text(m, s)[k] \in UpperA .. UpperZ
         /\ str_is_lowercase(m, s) <=> \A k \in DOMAIN Text(m, s) : Text(m, s)[k] \in LowerA .. LowerZ
<1> DEFINE t == Text(m, s)
           up == strupcase(m, s)
           low == strlowcase(m, s)
           n == e - s
<1>1. size \in Nat /\ n \in Nat /\ strlen(m, s) = n
  BY StringConstants, strlenIs DEF StringConstants, Ends
<1>2. t \in Seq(Char) /\ Len(t) = n /\ \A k \in 1 .. n : t[k] = m[s + k - 1]
  <2>1. /\ Text(m, s) \in Seq(Char) /\ Len(Text(m, s)) = e - s
        /\ \A i \in 1 .. (e - s) : Text(m, s)[i] = m[s + i - 1] /\ Text(m, s)[i] # NUL
    BY <1>1, TextIs
  <2> QED BY <2>1
<1>3. DOMAIN t = 1 .. n
  BY <1>2
<1>4. up = [i \in 1 .. size |-> IF i \in s .. (e - 1) /\ m[i] >= LowerA /\ m[i] <= LowerZ
                                THEN m[i] + (UpperA - LowerA) ELSE m[i]]
  <2>1. LowerA \in Int /\ LowerZ \in Int /\ UpperA - LowerA \in Int
    BY DEF LowerA, LowerZ, UpperA
  <2> QED BY <2>1, ShiftedIs DEF strupcase
<1>5. low = [i \in 1 .. size |-> IF i \in s .. (e - 1) /\ m[i] >= UpperA /\ m[i] <= UpperZ
                                 THEN m[i] + (LowerA - UpperA) ELSE m[i]]
  <2>1. UpperA \in Int /\ UpperZ \in Int /\ LowerA - UpperA \in Int
    BY DEF LowerA, UpperZ, UpperA
  <2> QED BY <2>1, ShiftedIs DEF strlowcase
<1>6. \A k \in 1 .. n : s + (k - 1) \in 1 .. size /\ s + (k - 1) \in s .. (e - 1)
  OBVIOUS
<1> HIDE DEF t, up, low, n
<1>7. ASSUME NEW k \in 1 .. n
      PROVE  CaseAgrees(m, s, k)
  <2> DEFINE c == m[s + k - 1]
             u == up[s + k - 1]
             l == low[s + k - 1]
  <2>1. c \in Nat /\ t[k] = c
    <3>1. s + (k - 1) \in 1 .. size /\ s + k - 1 = s + (k - 1)
      BY <1>1, <1>6
    <3>2. m[s + (k - 1)] \in Char
      BY <3>1 DEF Memory
    <3> QED BY <1>2, <3>1, <3>2, CharIs
  <2>2. u = IF c >= 97 /\ c <= 122 THEN c - 32 ELSE c
    BY <1>4, <1>6, <2>1 DEF LowerA, LowerZ, UpperA
  <2>3. l = IF c >= 65 /\ c <= 90 THEN c + 32 ELSE c
    BY <1>5, <1>6, <2>1 DEF LowerA, UpperZ, UpperA
  <2> HIDE DEF c, u, l
  <2>4. /\ u # l <=> t[k] \in (65 .. 90) \cup (97 .. 122)
        /\ t[k] \in {u, l} /\ u \notin 97 .. 122
    BY <2>1, <2>2, <2>3
  <2> QED BY <2>4 DEF CaseAgrees, t, up, low, u, l, LowerA, LowerZ, UpperA, UpperZ
<1>8. \A j \in 0 .. (n - 1) : j + 1 \in 1 .. n /\ m[s + j] = t[j + 1] /\ m[s + j] \in Char
  <2>1. \A j \in 0 .. (n - 1) : j + 1 \in 1 .. n /\ (j + 1) - 1 = j
    BY <1>1
  <2> QED BY <1>2, <1>6, <2>1 DEF Memory
<1>9. \A k \in 1 .. n : k - 1 \in 0 .. (n - 1) /\ m[s + (k - 1)] = t[k] /\ t[k] \in Char
  BY <1>1, <1>2, <1>6 DEF Memory
<1>10. str_is_uppercase(m, s) <=> \A k \in 1 .. n : t[k] \in 65 .. 90
  <2>1. str_is_uppercase(m, s) <=>
          \A j \in 0 .. (n - 1) : ~(m[s + j] < 65 \/ (m[s + j] > 97 /\ m[s + j] < 122) \/ m[s + j] > 90)
    BY <1>1 DEF str_is_uppercase, LowerA, LowerZ, UpperA, UpperZ
  <2>2. \A j \in 0 .. (n - 1) :
          ~(m[s + j] < 65 \/ (m[s + j] > 97 /\ m[s + j] < 122) \/ m[s + j] > 90) <=> m[s + j] \in 65 .. 90
    <3>1. \A x \in Nat : ~(x < 65 \/ (x > 97 /\ x < 122) \/ x > 90) <=> x \in 65 .. 90
      OBVIOUS
    <3>2. \A j \in 0 .. (n - 1) : m[s + j] \in Nat
      BY <1>8, CharIs
    <3> QED BY <3>1, <3>2
  <2>3. (\A j \in 0 .. (n - 1) : m[s + j] \in 65 .. 90) <=> \A k \in 1 .. n : t[k] \in 65 .. 90
    BY <1>8, <1>9
  <2> QED BY <2>1, <2>2, <2>3
<1>11. str_is_lowercase(m, s) <=> \A k \in 1 .. n : t[k] \in 97 .. 122
  <2>1. str_is_lowercase(m, s) <=>
          \A j \in 0 .. (n - 1) : ~(m[s + j] < 97 \/ (m[s + j] > 65 /\ m[s + j] < 90) \/ m[s + j] > 122)
    BY <1>1 DEF str_is_lowercase, LowerA, LowerZ, UpperA, UpperZ
  <2>2. \A j \in 0 .. (n - 1) :
          ~(m[s + j] < 97 \/ (m[s + j] > 65 /\ m[s + j] < 90) \/ m[s + j] > 122) <=> m[s + j] \in 97 .. 122
    <3>1. \A x \in Nat : ~(x < 97 \/ (x > 65 /\ x < 90) \/ x > 122) <=> x \in 97 .. 122
      OBVIOUS
    <3>2. \A j \in 0 .. (n - 1) : m[s + j] \in Nat
      BY <1>8, CharIs
    <3> QED BY <3>1, <3>2
  <2>3. (\A j \in 0 .. (n - 1) : m[s + j] \in 97 .. 122) <=> \A k \in 1 .. n : t[k] \in 97 .. 122
    BY <1>8, <1>9
  <2> QED BY <2>1, <2>2, <2>3
<1>12. /\ str_is_uppercase(m, s) <=> \A k \in 1 .. n : t[k] \in UpperA .. UpperZ
       /\ str_is_lowercase(m, s) <=> \A k \in 1 .. n : t[k] \in LowerA .. LowerZ
  BY <1>10, <1>11 DEF LowerA, LowerZ, UpperA, UpperZ
<1> QED BY <1>3, <1>7, <1>12 DEF t

\* The string at s, which ends at e, without its outer blanks goes from a to z.
TrimmedTo(size, m, s, e, a, z) ==
  /\ str_trim(m, s) = [mem |-> [i \in 1 .. size |-> IF i \in (z + 1) .. (e - 1) THEN NUL ELSE m[i]], ret |-> a]
  /\ \A i \in s .. (a - 1) : m[i] \in Blank
  /\ \A i \in (z + 1) .. (e - 1) : m[i] \in Blank
  /\ \/ a = e /\ z = e - 1
     \/ a <= z /\ z < e /\ m[a] \notin Blank /\ m[z] \notin Blank

\* str_trim finds the first and the last character that is no blank, if there is one.
LEMMA str_trimIs ==
  ASSUME NEW size \in 0 .. Size, NEW m \in Memory(size), NEW s \in 1 .. size,
         NEW e \in 1 .. size, Ends(m, s, e)
  PROVE  \E a \in s .. e, z \in Int : TrimmedTo(size, m, s, e, a, z)
<1> DEFINE n == e - s
           P(j) == m[s + j] \notin Blank
           T == {j \in 0 .. n : P(j)}
<1>1. Size \in Nat /\ size \in Nat /\ n \in Nat /\ n <= Size /\ NUL \notin Blank
  BY StringConstants DEF StringConstants, Ends, NUL, Blank, SP, TAB
<1>2. m[s + n] = NUL /\ (\A i \in s .. (e - 1) : m[i] # NUL) /\ m[e] = NUL /\ s <= e
  BY <1>1 DEF Ends
<1>3. PICK k \in 0 .. n : k \in T /\ \A j \in 0 .. (k - 1) : j \notin T
  <2>1. n \in T
    BY <1>1, <1>2
  <2> HIDE DEF T, n
  <2> QED BY <1>1, <2>1, Stops
<1>4. k \in 0 .. Size /\ P(k) /\ \A j \in 0 .. (k - 1) : ~P(j)
  BY <1>1, <1>3
<1> HIDE DEF T
<1> DEFINE a == s + k
           last == a + strlen(m, a) - 1
           Q(j) == last - j <= a \/ m[last - j] \notin Blank
<1>5. m[a] \notin Blank /\ a \in s .. e /\ a \in 1 .. size
  BY <1>1, <1>4, <1>3
<1>6. \A i \in s .. (a - 1) : m[i] \in Blank
  <2> SUFFICES ASSUME NEW i \in s .. (a - 1)
               PROVE  m[i] \in Blank
    OBVIOUS
  <2>1. i - s \in 0 .. (k - 1) /\ s + (i - s) = i
    BY <1>3
  <2>2. ~P(i - s)
    BY <1>4, <2>1
  <2> QED BY <2>1, <2>2
<1>7. str_trim(m, s) =
        IF m[a] = NUL THEN [mem |-> m, ret |-> a]
        ELSE [mem |-> memset(m, last - First(Q) + 1, NUL, First(Q)), ret |-> a]
  <2>1. First(P) = k
    <3> HIDE DEF P
    <3>1. \A x \in 0 .. Size : (P(x) /\ \A j \in 0 .. (x - 1) : ~P(j)) => x = k
      BY <1>1, <1>4
    <3> QED BY <1>4, <3>1 DEF First
  <2> DEFINE End(x) == x + strlen(m, x) - 1
             From(x) == First(LAMBDA j : End(x) - j <= x \/ m[End(x) - j] \notin Blank)
             G(x) == IF m[x] = NUL THEN [mem |-> m, ret |-> x]
                     ELSE [mem |-> memset(m, End(x) - From(x) + 1, NUL, From(x)), ret |-> x]
  <2>2. str_trim(m, s) = G(s + First(P))
    BY DEF str_trim
  <2>3. G(a) = IF m[a] = NUL THEN [mem |-> m, ret |-> a]
               ELSE [mem |-> memset(m, last - First(Q) + 1, NUL, First(Q)), ret |-> a]
    OBVIOUS
  <2> HIDE DEF G
  <2>4. G(s + First(P)) = G(a)
    BY <2>1
  <2> QED BY <2>2, <2>3, <2>4
<1> HIDE DEF P
<1>8. CASE m[a] = NUL
  <2>1. a = e
    BY <1>2, <1>5, <1>8
  <2>2. m = [i \in 1 .. size |-> IF i \in ((e - 1) + 1) .. (e - 1) THEN NUL ELSE m[i]]
    BY DEF Memory
  <2> HIDE DEF a
  <2>3. TrimmedTo(size, m, s, e, a, e - 1) /\ e - 1 \in Int
    <3>1. str_trim(m, s) = [mem |-> m, ret |-> a]
      BY <1>7, <1>8
    <3>2. \A i \in ((e - 1) + 1) .. (e - 1) : m[i] \in Blank
      OBVIOUS
    <3> DEFINE w == [i \in 1 .. size |-> IF i \in ((e - 1) + 1) .. (e - 1) THEN NUL ELSE m[i]]
    <3>3. m = w
      BY <2>2
    <3> HIDE DEF w
    <3>4. str_trim(m, s) = [mem |-> w, ret |-> a]
      BY <3>1, <3>3
    <3>5. e - 1 \in Int
      OBVIOUS
    <3> QED BY <1>6, <2>1, <3>2, <3>4, <3>5 DEF TrimmedTo, w
  <2> QED BY <1>5, <2>3
<1>9. CASE m[a] # NUL
  <2>1. a < e
    BY <1>2, <1>5, <1>9
  <2>2. last = e - 1
    <3>1. Ends(m, a, e)
      BY <1>5, <1>2, <2>1 DEF Ends
    <3>2. strlen(m, a) = e - a
      <4> HIDE DEF a
      <4> QED BY <1>5, <3>1, strlenIs
    <3> QED BY <1>5, <3>2
  <2> DEFINE U == {j \in 0 .. (last - a) : Q(j)}
  <2> HIDE DEF a, last
  <2>3. last - a \in Nat /\ last - a <= Size /\ a \in Int /\ last \in Int
    BY <1>1, <1>5, <2>1, <2>2
  <2>4. PICK c \in 0 .. (last - a) : c \in U /\ \A j \in 0 .. (c - 1) : j \notin U
    <3>1. last - a \in U
      BY <2>3
    <3> HIDE DEF U, Q
    <3> QED BY <2>3, <3>1, Stops
  <2>5. c \in 0 .. Size /\ Q(c) /\ \A j \in 0 .. (c - 1) : ~Q(j)
    BY <1>1, <2>3, <2>4
  <2> HIDE DEF U
  <2>6. First(Q) = c
    <3> HIDE DEF Q
    <3>1. \A x \in 0 .. Size : (Q(x) /\ \A j \in 0 .. (x - 1) : ~Q(j)) => x = c
      BY <1>1, <2>5
    <3> QED BY <2>5, <3>1 DEF First
  <2> DEFINE z == last - c
  <2>7. z \in Int /\ a <= z /\ z < e /\ c \in Nat /\ z + 1 \in Nat \ {0} /\ (z + 1) + c = e /\ z + c = e - 1
    BY <1>5, <2>2, <2>3, <2>4
  <2>8. m[z] \notin Blank
    <3>1. CASE last - c <= a
      <4>1. z = a
        BY <2>3, <2>7, <3>1
      <4> QED BY <1>5, <4>1
    <3>2. CASE m[last - c] \notin Blank
      BY <3>2
    <3> QED BY <2>5, <3>1, <3>2
  <2>9. \A i \in (z + 1) .. (e - 1) : m[i] \in Blank
    <3> SUFFICES ASSUME NEW i \in (z + 1) .. (e - 1)
                 PROVE  m[i] \in Blank
      OBVIOUS
    <3>1. last - i \in 0 .. (c - 1) /\ last - (last - i) = i
      BY <2>2, <2>3, <2>4
    <3>2. ~Q(last - i)
      BY <2>5, <3>1
    <3> QED BY <3>1, <3>2
  <2> HIDE DEF Q
  <2>10. str_trim(m, s) = [mem |-> memset(m, z + 1, NUL, c), ret |-> a]
    BY <1>7, <1>9, <2>6
  <2> HIDE DEF z
  <2>11. memset(m, z + 1, NUL, c) = [i \in 1 .. size |-> IF i \in (z + 1) .. ((z + 1) + c - 1) THEN NUL ELSE m[i]]
    <3> DEFINE y == z + 1
    <3>1. NUL \in Char /\ y + c <= size + 1 /\ c \in Nat /\ y \in Nat \ {0}
      BY <1>1, <2>7, CharIs
    <3> HIDE DEF y
    <3>2. memset(m, y, NUL, c) = [i \in 1 .. size |-> IF i \in y .. (y + c - 1) THEN NUL ELSE m[i]]
      BY <1>1, <3>1, memsetIs
    <3> QED BY <3>2 DEF y
  <2>12. (z + 1) + c - 1 = e - 1
    BY <2>7
  <2>13. TrimmedTo(size, m, s, e, a, z)
    BY <1>5, <1>6, <2>7, <2>8, <2>9, <2>10, <2>11, <2>12 DEF TrimmedTo
  <2> QED BY <1>5, <2>7, <2>13
<1> QED BY <1>8, <1>9

\* What str_trim is meant to hand back.
TrimAgrees(m, s) ==
  LET t       == Text(m, s)
      trimmed == str_trim(m, s)
      kept    == {k \in DOMAIN t : t[k] \notin Blank}
  IN  IF kept = {} THEN Text(trimmed.mem, trimmed.ret) = << >>
      ELSE Text(trimmed.mem, trimmed.ret) =
             SubSeq(t, CHOOSE i \in kept : \A k \in kept : i <= k,
                       CHOOSE j \in kept : \A k \in kept : k <= j)

\* str_trim hands back what is between the first and the last character that
\* is no blank, and an empty string if all are.
THEOREM TrimHolds ==
  ASSUME NEW size \in 0 .. Size, NEW m \in Memory(size), NEW s \in 1 .. size,
         NEW e \in 1 .. size, Ends(m, s, e)
  PROVE  TrimAgrees(m, s)
<1> DEFINE t == Text(m, s)
           n == e - s
           kept == {k \in DOMAIN t : t[k] \notin Blank}
<1>1. size \in Nat /\ n \in Nat
  BY StringConstants DEF StringConstants, Ends
<1>2. t \in Seq(Char) /\ Len(t) = n /\ \A k \in 1 .. n : t[k] = m[s + k - 1]
  <2>1. /\ Text(m, s) \in Seq(Char) /\ Len(Text(m, s)) = e - s
        /\ \A i \in 1 .. (e - s) : Text(m, s)[i] = m[s + i - 1] /\ Text(m, s)[i] # NUL
    BY <1>1, TextIs
  <2> QED BY <2>1
<1>3. DOMAIN t = 1 .. n
  BY <1>2
<1>4. PICK a \in s .. e, z \in Int : TrimmedTo(size, m, s, e, a, z)
  BY str_trimIs
<1> DEFINE w == [i \in 1 .. size |-> IF i \in (z + 1) .. (e - 1) THEN NUL ELSE m[i]]
<1>5. str_trim(m, s).mem = w /\ str_trim(m, s).ret = a
  BY <1>4 DEF TrimmedTo
<1>6. /\ \A i \in s .. (a - 1) : m[i] \in Blank
      /\ \A i \in (z + 1) .. (e - 1) : m[i] \in Blank
      /\ \/ a = e /\ z = e - 1
         \/ a <= z /\ z < e /\ m[a] \notin Blank /\ m[z] \notin Blank
  BY <1>4 DEF TrimmedTo
<1>7. w \in Memory(size)
  BY CharIs DEF Memory
<1>8. a \in 1 .. size /\ z + 1 \in 1 .. size /\ a <= z + 1
  BY <1>1, <1>6
<1>9. Ends(w, a, z + 1)
  <2>1. w[z + 1] = NUL
    <3>1. CASE z + 1 = e
      BY <1>8, <3>1 DEF Ends
    <3>2. CASE z + 1 < e
      BY <1>8, <3>2
    <3> QED BY <1>6, <3>1, <3>2
  <2>2. \A i \in a .. ((z + 1) - 1) : w[i] = m[i] /\ i \in s .. (e - 1)
    BY <1>6, <1>8
  <2> HIDE DEF w
  <2> QED BY <1>8, <2>1, <2>2 DEF Ends
<1>10. \A i \in a .. z : w[i] = m[i]
  BY <1>6, <1>8
<1> HIDE DEF w
<1> DEFINE x == Text(w, a)
<1>11. x \in Seq(Char) /\ Len(x) = (z + 1) - a /\ \A k \in 1 .. ((z + 1) - a) : x[k] = w[a + k - 1]
  <2> DEFINE y == z + 1
  <2>1. size \in Nat /\ w \in Memory(size) /\ a \in 1 .. size /\ y \in 1 .. size /\ Ends(w, a, y)
    BY <1>1, <1>7, <1>8, <1>9
  <2> HIDE DEF y
  <2>2. /\ Text(w, a) \in Seq(Char) /\ Len(Text(w, a)) = y - a
        /\ \A i \in 1 .. (y - a) : Text(w, a)[i] = w[a + i - 1] /\ Text(w, a)[i] # NUL
    BY <2>1, TextIs
  <2> QED BY <2>2 DEF y
<1> HIDE DEF t, x
<1>12. CASE a = e /\ z = e - 1
  <2>1. kept = {}
    <3> SUFFICES ASSUME NEW k \in 1 .. n
                 PROVE  t[k] \in Blank
      BY <1>3
    <3>1. s + (k - 1) \in s .. (a - 1)
      BY <1>12
    <3> QED BY <1>2, <1>6, <3>1
  <2>2. Len(x) = 0
    BY <1>11, <1>12
  <2>3. x = << >>
    BY <1>11, <2>2, EmptySeq
  <2> QED BY <1>5, <2>1, <2>3 DEF TrimAgrees, t, x
<1>13. CASE a <= z /\ z < e /\ m[a] \notin Blank /\ m[z] \notin Blank
  <2> DEFINE i0 == a - s + 1
             j0 == z - s + 1
  <2>1. i0 \in 1 .. n /\ j0 \in 1 .. n /\ i0 <= j0 /\ s + (i0 - 1) = a /\ s + (j0 - 1) = z /\ (j0 - i0) + 1 = (z + 1) - a
    BY <1>13
  <2>2. i0 \in kept /\ j0 \in kept
    BY <1>2, <1>3, <1>13, <2>1
  <2>3. ASSUME NEW k \in kept
        PROVE  i0 <= k /\ k <= j0
    <3>1. k \in 1 .. n /\ m[s + (k - 1)] \notin Blank
      BY <1>2, <1>3
    <3>2. s + (k - 1) \notin s .. (a - 1) /\ s + (k - 1) \notin (z + 1) .. (e - 1)
      BY <1>6, <3>1
    <3> QED BY <3>1, <3>2, <1>1
  <2> HIDE DEF i0, j0
  <2>4. kept \subseteq Int
    BY <1>3
  <2> HIDE DEF kept
  <2>5. (CHOOSE i \in kept : \A k \in kept : i <= k) = i0
    <3> DEFINE c == CHOOSE i \in kept : \A k \in kept : i <= k
    <3>1. i0 \in kept /\ \A k \in kept : i0 <= k
      BY <2>2, <2>3
    <3>2. c \in kept /\ \A k \in kept : c <= k
      BY <3>1
    <3> HIDE DEF c
    <3>3. c = i0
      BY <2>4, <3>1, <3>2
    <3> QED BY <3>3 DEF c
  <2>6. (CHOOSE j \in kept : \A k \in kept : k <= j) = j0
    <3> DEFINE c == CHOOSE j \in kept : \A k \in kept : k <= j
    <3>1. j0 \in kept /\ \A k \in kept : k <= j0
      BY <2>2, <2>3
    <3>2. c \in kept /\ \A k \in kept : k <= c
      BY <3>1
    <3> HIDE DEF c
    <3>3. c = j0
      BY <2>4, <3>1, <3>2
    <3> QED BY <3>3 DEF c
  <2> DEFINE y == SubSeq(t, i0, j0)
  <2>7. y \in Seq(Char) /\ Len(y) = (z + 1) - a /\ \A k \in 1 .. ((z + 1) - a) : y[k] = t[i0 + k - 1]
    <3>1. i0 \in 1 .. Len(t) /\ j0 \in 1 .. Len(t) /\ i0 <= j0
      BY <1>2, <2>1
    <3>2. \A i \in i0 .. j0 : t[i] \in Char
      BY <1>2, <3>1, ElementOfSeq
    <3>3. /\ SubSeq(t, i0, j0) \in Seq(Char)
          /\ Len(SubSeq(t, i0, j0)) = IF i0 <= j0 THEN j0 - i0 + 1 ELSE 0
          /\ \A i \in 1 .. (j0 - i0 + 1) : SubSeq(t, i0, j0)[i] = t[i0 + i - 1]
      BY <3>1, <3>2, SubSeqProperties
    <3> QED BY <2>1, <3>1, <3>3
  <2>8. ASSUME NEW k \in 1 .. ((z + 1) - a)
        PROVE  x[k] = y[k]
    <3> DEFINE i == i0 + k - 1
               p == a + k - 1
    <3>1. i \in 1 .. n /\ s + i - 1 = p /\ p \in a .. z
      BY <2>1
    <3>2. x[k] = w[p] /\ y[k] = t[i]
      BY <1>11, <2>7
    <3> HIDE DEF i, p, y
    <3>3. w[p] = m[p] /\ t[i] = m[p]
      BY <1>2, <1>10, <3>1
    <3> QED BY <3>2, <3>3
  <2> HIDE DEF y
  <2>9. x = y
    BY <1>11, <2>7, <2>8, SeqEqual
  <2>10. Text(str_trim(m, s).mem, str_trim(m, s).ret) = SubSeq(t, i0, j0)
    BY <1>5, <2>9 DEF x, y
  <2> QED BY <2>2, <2>5, <2>6, <2>10 DEF TrimAgrees, t, kept
<1> QED BY <1>6, <1>12, <1>13

\* TrimsAgree holds of every memory.
LEMMA TrimsHold ==
  ASSUME NEW size \in 0 .. Size, NEW m \in Memory(size)
  PROVE  TrimsAgree(m)
<1>1. size \in Nat
  BY StringConstants DEF StringConstants
<1>2. ASSUME NEW s \in Starts(m)
      PROVE  /\ TrimAgrees(m, s)
             /\ \A k \in DOMAIN Text(m, s) : CaseAgrees(m, s, k)
             /\ str_is_uppercase(m, s) <=> \A k \in DOMAIN Text(m, s) : Text(m, s)[k] \in UpperA .. UpperZ
             /\ str_is_lowercase(m, s) <=> \A k \in DOMAIN Text(m, s) : Text(m, s)[k] \in LowerA .. LowerZ
  <2>1. s \in 1 .. size /\ \E e \in 1 .. size : Ends(m, s, e)
    BY <1>1, StartEnds
  <2>2. PICK e \in 1 .. size : Ends(m, s, e)
    BY <2>1
  <2>3. TrimAgrees(m, s)
    BY <2>1, <2>2, TrimHolds
  <2> QED BY <2>1, <2>2, <2>3, CaseHolds
<1> QED BY <1>2 DEF TrimsAgree, TrimAgrees, CaseAgrees

-----------------------------------------------------------------------------
\* Numbers.

\* How a division comes out.
LEMMA Divided ==
  ASSUME NEW w \in Nat \ {0}, NEW v \in Int, NEW q \in Int, NEW r \in 0 .. (w - 1), v = w * q + r
  PROVE  v \div w = q /\ v % w = r
<1> DEFINE d == v \div w
           e == v % w
<1>1. d \in Int /\ e \in 0 .. (w - 1) /\ v = w * d + e
  OBVIOUS
<1> HIDE DEF d, e
<1>2. w * (q - d) = e - r
  BY <1>1
<1>3. q - d <= 0
  <2> SUFFICES ASSUME q - d >= 1
               PROVE  FALSE
    BY <1>1
  <2>1. w * (q - d) >= w
    BY <1>1
  <2> QED BY <1>1, <1>2, <2>1
<1>4. q - d >= 0
  <2> SUFFICES ASSUME q - d <= -1
               PROVE  FALSE
    BY <1>1
  <2>1. w * (q - d) <= -w
    BY <1>1
  <2> QED BY <1>1, <1>2, <2>1
<1>5. d = q
  BY <1>1, <1>3, <1>4
<1>6. e = r
  BY <1>1, <1>5
<1> QED BY <1>5, <1>6 DEF d, e

\* The digits' weights.
LEMMA WeightIs ==
  /\ Weight[0] = 1
  /\ \A k \in 1 .. HexDigits : Weight[k] = 16 * Weight[k - 1]
  /\ \A k \in 0 .. HexDigits : Weight[k] \in Nat \ {0}
<1> DEFINE Good(n, f) == f = [k \in 0 .. n |-> IF k = 0 THEN 1 ELSE 16 * f[k - 1]]
           T == {n \in Nat : \E f : Good(n, f)}
<1>0. HexDigits \in Nat
  BY StringConstants DEF StringConstants
<1>1. 0 \in T
  <2> DEFINE f == [k \in 0 .. 0 |-> 1]
  <2>1. Good(0, f)
    OBVIOUS
  <2> QED BY <2>1
<1>2. ASSUME NEW n \in 0 .. (HexDigits - 1), n \in T
      PROVE  n + 1 \in T
  <2>1. PICK f : Good(n, f)
    BY <1>2
  <2> DEFINE g == [k \in 0 .. (n + 1) |-> IF k = n + 1 THEN 16 * f[n] ELSE f[k]]
  <2>2. ASSUME NEW k \in 0 .. (n + 1)
        PROVE  g[k] = IF k = 0 THEN 1 ELSE 16 * g[k - 1]
    <3>1. CASE k = n + 1
      <4>1. k # 0 /\ k - 1 = n /\ n \in 0 .. (n + 1) /\ n # n + 1
        BY <3>1
      <4> QED BY <3>1, <4>1
    <3>2. CASE k \in 0 .. n
      <4>1. k # n + 1 /\ k - 1 # n + 1 /\ (k # 0 => k - 1 \in 0 .. (n + 1))
        BY <3>2
      <4>2. f[k] = IF k = 0 THEN 1 ELSE 16 * f[k - 1]
        BY <2>1, <3>2
      <4> QED BY <4>1, <4>2
    <3> QED BY <3>1, <3>2
  <2>3. DOMAIN g = 0 .. (n + 1)
    OBVIOUS
  <2>4. Good(n + 1, g)
    <3>1. g = [k \in 0 .. (n + 1) |-> g[k]]
      OBVIOUS
    <3> HIDE DEF g
    <3> QED BY <2>2, <3>1
  <2> HIDE DEF g, Good
  <2>5. \E h : Good(n + 1, h)
    BY <2>4
  <2> QED BY <2>5
<1>3. HexDigits \in T
  <2> HIDE DEF T
  <2> QED BY <1>0, <1>1, <1>2, UpTo
<1>4. Good(HexDigits, Weight)
  <2>1. \E f : Good(HexDigits, f)
    BY <1>3
  <2>2. Weight = CHOOSE f : Good(HexDigits, f)
    BY DEF Weight
  <2> HIDE DEF Good
  <2> QED BY <2>1, <2>2
<1> HIDE DEF T
<1>5. /\ Weight[0] = 1
      /\ \A k \in 1 .. HexDigits : Weight[k] = 16 * Weight[k - 1]
  BY <1>0, <1>4
<1> DEFINE U == {k \in 0 .. HexDigits : Weight[k] \in Nat \ {0}}
<1>6. 0 \in U
  BY <1>0, <1>5
<1>7. ASSUME NEW k \in 0 .. (HexDigits - 1), k \in U
      PROVE  k + 1 \in U
  <2>1. k + 1 \in 1 .. HexDigits /\ (k + 1) - 1 = k /\ k + 1 \in 0 .. HexDigits
    BY <1>0
  <2>2. Weight[k + 1] = 16 * Weight[k]
    BY <1>5, <2>1
  <2> QED BY <1>7, <2>1, <2>2
<1>8. 0 .. HexDigits \subseteq U
  <2> HIDE DEF U
  <2> QED BY <1>0, <1>6, <1>7, UpTo
<1> QED BY <1>5, <1>8

\* Words and ints.
LEMMA WordIs ==
  /\ Half \in Nat /\ Half >= 8 /\ Words = 2 * Half /\ Words \in Nat
  /\ HexDigits \in Nat /\ HexDigits >= 1
<1>1. HexDigits \in Nat /\ HexDigits >= 1
  BY StringConstants DEF StringConstants
<1> DEFINE u == Weight[HexDigits - 1]
<1>2. u \in Nat \ {0} /\ Words = 16 * u
  <2>1. HexDigits \in 1 .. HexDigits /\ HexDigits - 1 \in 0 .. HexDigits
    BY <1>1
  <2> QED BY <2>1, WeightIs DEF Words
<1> HIDE DEF u
<1> QED BY <1>1, <1>2 DEF Half

\* An int is read off its word, also off one that is a turn away.
LEMMA ToIntIs ==
  ASSUME NEW x \in Int
  PROVE  /\ x \in -Half .. (Half - 1) => ToInt(x) = x
         /\ x \in Half .. (Words - 1) => ToInt(x) = x - Words
         /\ x \in -Words .. (-Half - 1) => ToInt(x) = x + Words
<1>1. Half \in Nat /\ Words = 2 * Half /\ Words \in Nat \ {0}
  BY WordIs
<1>2. ASSUME NEW q \in Int, NEW r \in 0 .. (Words - 1), x + Half = Words * q + r
      PROVE  ToInt(x) = r - Half
  <2>1. x + Half \in Int
    BY <1>1
  <2>2. (x + Half) % Words = r
    BY <1>1, <1>2, <2>1, Divided
  <2> QED BY <2>2 DEF ToInt
<1>3. ASSUME x \in -Half .. (Half - 1)
      PROVE  ToInt(x) = x
  <2>1. x + Half \in 0 .. (Words - 1) /\ x + Half = Words * 0 + (x + Half) /\ 0 \in Int /\ (x + Half) - Half = x
    BY <1>1, <1>3
  <2> QED BY <1>2, <2>1
<1>4. ASSUME x \in Half .. (Words - 1)
      PROVE  ToInt(x) = x - Words
  <2>1. x + Half - Words \in 0 .. (Words - 1)
    BY <1>1, <1>4
  <2>2. x + Half = Words * 1 + (x + Half - Words) /\ 1 \in Int /\ (x + Half - Words) - Half = x - Words
    BY <1>1
  <2> QED BY <1>2, <2>1, <2>2
<1>5. ASSUME x \in -Words .. (-Half - 1)
      PROVE  ToInt(x) = x + Words
  <2>1. x + Half + Words \in 0 .. (Words - 1)
    BY <1>1, <1>5
  <2>2. x + Half = Words * (-1) + (x + Half + Words) /\ -1 \in Int /\ (x + Half + Words) - Half = x + Words
    BY <1>1
  <2> QED BY <1>2, <2>1, <2>2
<1> QED BY <1>3, <1>4, <1>5

\* The first k digits of a word.
Lead(val, k) == val \div Weight[HexDigits - k]

\* Each digit more makes sixteen times the number, and itself.
LEMMA LeadIs ==
  ASSUME NEW val \in 0 .. (Words - 1)
  PROVE  /\ Lead(val, 0) = 0 /\ Lead(val, HexDigits) = val
         /\ \A k \in 1 .. HexDigits :
              /\ Lead(val, k) % 16 \in 0 .. 15
              /\ Lead(val, k) = 16 * Lead(val, k - 1) + (Lead(val, k) % 16)
         /\ \A k \in 0 .. HexDigits : Lead(val, k) \in 0 .. (Weight[k] - 1)
<1>1. HexDigits \in Nat /\ Words \in Nat \ {0}
  BY WordIs
<1>2. Lead(val, 0) = 0
  <2>1. val = Words * 0 + val /\ 0 \in Int /\ val \in Int
    BY <1>1
  <2>2. val \div Words = 0
    BY <1>1, <2>1, Divided
  <2>3. HexDigits - 0 = HexDigits
    BY <1>1
  <2> QED BY <2>2, <2>3 DEF Lead, Words
<1>3. Lead(val, HexDigits) = val
  <2>1. val = 1 * val + 0 /\ 0 \in 0 .. (1 - 1) /\ val \in Int /\ 1 \in Nat \ {0}
    BY <1>1
  <2>2. val \div 1 = val
    BY <2>1, Divided
  <2>3. HexDigits - HexDigits = 0
    BY <1>1
  <2> QED BY <2>2, <2>3, WeightIs DEF Lead
<1>4. ASSUME NEW k \in 1 .. HexDigits
      PROVE  Lead(val, k) % 16 \in 0 .. 15 /\ Lead(val, k) = 16 * Lead(val, k - 1) + (Lead(val, k) % 16)
  <2> DEFINE w == Weight[HexDigits - k]
             d == val \div w
             r == val % w
             q == d \div 16
             e == d % 16
  <2>1. /\ HexDigits - k \in 0 .. HexDigits /\ HexDigits - (k - 1) \in 1 .. HexDigits
        /\ (HexDigits - (k - 1)) - 1 = HexDigits - k
    BY <1>1
  <2>2. w \in Nat \ {0} /\ Weight[HexDigits - (k - 1)] = 16 * w
    BY <2>1, WeightIs
  <2>3. Lead(val, k) = d /\ Lead(val, k - 1) = val \div Weight[HexDigits - (k - 1)]
    BY DEF Lead
  <2> HIDE DEF w
  <2>4. d \in Int /\ r \in 0 .. (w - 1) /\ val = w * d + r
    BY <1>1, <2>2
  <2> HIDE DEF d, r
  <2>5. q \in Int /\ e \in 0 .. 15 /\ d = 16 * q + e
    BY <2>4
  <2>6. d % 16 = e
    OBVIOUS
  <2> HIDE DEF q, e
  <2>7. w * e >= 0 /\ w * e <= 15 * w
    BY <2>2, <2>5
  <2>8. w * e + r \in 0 .. (16 * w - 1)
    BY <2>2, <2>4, <2>5, <2>7
  <2>9. val = (16 * w) * q + (w * e + r)
    <3>1. w * d = w * (16 * q) + w * e
      BY <2>2, <2>5
    <3>2. w * (16 * q) = (16 * w) * q
      BY <2>2, <2>5
    <3> QED BY <2>2, <2>4, <2>5, <3>1, <3>2
  <2>10. 16 * w \in Nat \ {0} /\ val \in Int
    BY <1>1, <2>2
  <2>11. val \div (16 * w) = q
    <3> DEFINE x == 16 * w
               y == w * e + r
    <3>1. x \in Nat \ {0} /\ y \in 0 .. (x - 1) /\ val = x * q + y /\ q \in Int
      BY <2>5, <2>8, <2>9, <2>10
    <3> HIDE DEF x, y
    <3>2. val \div x = q
      BY <2>10, <3>1, Divided
    <3> QED BY <3>2 DEF x
  <2>12. Lead(val, k - 1) = q
    BY <2>2, <2>3, <2>11
  <2> QED BY <2>3, <2>5, <2>6, <2>12
<1> DEFINE U == {k \in 0 .. HexDigits : Lead(val, k) \in 0 .. (Weight[k] - 1)}
<1>5. 0 \in U
  BY <1>1, <1>2, WeightIs
<1>6. ASSUME NEW k \in 0 .. (HexDigits - 1), k \in U
      PROVE  k + 1 \in U
  <2>1. k + 1 \in 1 .. HexDigits /\ (k + 1) - 1 = k /\ k + 1 \in 0 .. HexDigits /\ k \in 0 .. HexDigits
    BY <1>1
  <2>2. /\ Lead(val, k + 1) % 16 \in 0 .. 15
        /\ Lead(val, k + 1) = 16 * Lead(val, k) + (Lead(val, k + 1) % 16)
    BY <1>4, <2>1
  <2>3. Weight[k + 1] = 16 * Weight[k] /\ Weight[k] \in Nat
    BY <2>1, WeightIs
  <2>4. Lead(val, k) \in 0 .. (Weight[k] - 1)
    BY <1>6
  <2>5. Lead(val, k + 1) \in 0 .. (Weight[k + 1] - 1)
    <3> DEFINE a == Lead(val, k + 1)
               b == Lead(val, k)
               c == Lead(val, k + 1) % 16
    <3>1. a = 16 * b + c /\ c \in 0 .. 15 /\ b \in 0 .. (Weight[k] - 1)
      BY <2>2, <2>4
    <3> HIDE DEF a, b, c
    <3>2. a \in 0 .. (Weight[k + 1] - 1)
      BY <2>3, <3>1
    <3> QED BY <3>2 DEF a
  <2> QED BY <2>1, <2>5
<1>7. 0 .. HexDigits \subseteq U
  <2> HIDE DEF U
  <2> QED BY <1>1, <1>5, <1>6, UpTo
<1> QED BY <1>2, <1>3, <1>4, <1>7

\* The loop of htoi.
HexLoop(m, from) ==
  Loop(First(LAMBDA k : HexValue(m[from + k]) = -1), 0,
       LAMBDA n, k : ((16 * n) % Words) + HexValue(m[from + k]))

\* It reads the digits one by one, up to what is none.
LEMMA HexLoopIs ==
  ASSUME NEW m, NEW from \in Nat, NEW n \in 0 .. Size, NEW r, r[0] = 0,
         HexValue(m[from + n]) = -1,
         \A k \in 1 .. n :
           /\ HexValue(m[from + (k - 1)]) # -1
           /\ r[k] = ((16 * r[k - 1]) % Words) + HexValue(m[from + (k - 1)])
  PROVE  HexLoop(m, from) = r[n]
<1> DEFINE value(k) == HexValue(m[from + k])
           step(v, k) == ((16 * v) % Words) + value(k)
           f == [k \in 0 .. n |-> r[k]]
           run == CHOOSE run : run = [k \in 0 .. n |-> IF k = 0 THEN 0 ELSE step(run[k - 1], k - 1)]
<1>0. n \in Nat /\ Size \in Nat
  BY StringConstants DEF StringConstants
<1>1. First(LAMBDA k : value(k) = -1) = n
  <2>1. value(n) = -1 /\ \A j \in 0 .. (n - 1) : value(j) # -1
    <3> SUFFICES ASSUME NEW j \in 0 .. (n - 1)
                 PROVE  value(j) # -1
      OBVIOUS
    <3>1. j + 1 \in 1 .. n /\ (j + 1) - 1 = j
      BY <1>0
    <3> QED BY <3>1
  <2> HIDE DEF value
  <2> QED BY <1>0, <2>1 DEF First
<1>2. HexLoop(m, from) = run[n]
  BY <1>1 DEF HexLoop, Loop
<1>3. \A k \in 1 .. n : r[k] = step(r[k - 1], k - 1)
  OBVIOUS
<1> HIDE DEF step
<1>4. f = [k \in 0 .. n |-> IF k = 0 THEN 0 ELSE step(f[k - 1], k - 1)]
  <2>1. \A k \in 1 .. n : k - 1 \in 0 .. n
    BY <1>0
  <2> QED BY <1>3, <2>1
<1>5. run = [k \in 0 .. n |-> IF k = 0 THEN 0 ELSE step(run[k - 1], k - 1)]
  <2> HIDE DEF f
  <2> QED BY <1>4
<1>6. f[0] = 0 /\ f[n] = r[n]
  BY <1>0
<1>7. f[0] = run[0]
  <2> HIDE DEF f, run
  <2> QED BY <1>0, <1>5, <1>6
<1>8. ASSUME NEW k \in 1 .. n, f[k - 1] = run[k - 1]
      PROVE  f[k] = run[k]
  <2> HIDE DEF f, run
  <2>1. k \in 0 .. n /\ k # 0
    BY <1>0
  <2>2. f[k] = step(f[k - 1], k - 1) /\ run[k] = step(run[k - 1], k - 1)
    BY <1>4, <1>5, <2>1
  <2> QED BY <1>8, <2>2
<1>9. f[n] = run[n]
  <2> HIDE DEF f, run
  <2> QED BY <1>0, <1>7, <1>8, SameRun
<1> QED BY <1>2, <1>6, <1>9

\* The character of a hexadecimal digit, and the value it is read as, also in
\* lower case.
HexChar(n) == IF n < 10 THEN Zero + n ELSE UpperA + n - 10
Lowered(c) == IF c >= UpperA /\ c <= UpperZ THEN c + (LowerA - UpperA) ELSE c

\* The character of a digit, as it is shown and in lower case.
LEMMA HexCharIs ==
  ASSUME NEW n \in 0 .. 15
  PROVE  HexChar(n) \in Char /\ HexValue(HexChar(n)) = n /\ HexValue(Lowered(HexChar(n))) = n
<1>1. CASE n < 10
  BY <1>1, CharIs DEF HexChar, Lowered, HexValue, IsDigit, Zero, UpperA, UpperZ, LowerA
<1>2. CASE n >= 10
  <2>1. HexChar(n) = UpperA + n - 10 /\ HexChar(n) \in 65 .. 70
    BY <1>2 DEF HexChar, UpperA
  <2>2. HexValue(HexChar(n)) = n
    BY <1>2, <2>1 DEF HexValue, IsDigit, Zero, UpperA, LowerA
  <2>3. Lowered(HexChar(n)) = LowerA + n - 10 /\ Lowered(HexChar(n)) \in 97 .. 102
    BY <1>2, <2>1 DEF Lowered, UpperA, UpperZ, LowerA
  <2>4. HexValue(Lowered(HexChar(n))) = n
    BY <1>2, <2>3 DEF HexValue, IsDigit, Zero, LowerA
  <2>5. HexChar(n) \in Char
    BY <2>1, CharIs
  <2> QED BY <2>2, <2>4, <2>5
<1> QED BY <1>1, <1>2

\* The digits of a word stand in a memory, and no digit behind them.
HexStands(m, from, val) ==
  /\ \A k \in 1 .. HexDigits : HexValue(m[from + (k - 1)]) = Lead(val, k) % 16
  /\ HexValue(m[from + HexDigits]) = -1

\* They are read as the word.
LEMMA HexRead ==
  ASSUME NEW val \in 0 .. (Words - 1), NEW m, NEW from \in Nat, HexStands(m, from, val)
  PROVE  HexLoop(m, from) = val
<1> DEFINE r == [k \in 0 .. HexDigits |-> Lead(val, k)]
<1>1. HexDigits \in Nat /\ HexDigits \in 0 .. Size /\ Words \in Nat
  BY WordIs, StringConstants DEF StringConstants
<1>2. r[0] = 0 /\ r[HexDigits] = val
  BY <1>1, LeadIs
<1>3. ASSUME NEW k \in 1 .. HexDigits
      PROVE  /\ HexValue(m[from + (k - 1)]) # -1
             /\ r[k] = ((16 * r[k - 1]) % Words) + HexValue(m[from + (k - 1)])
  <2> DEFINE a == Lead(val, k)
             b == Lead(val, k - 1)
             c == Lead(val, k) % 16
  <2>1. k \in 0 .. HexDigits /\ k - 1 \in 0 .. HexDigits
    BY <1>1
  <2>2. c \in 0 .. 15 /\ a = 16 * b + c
    BY LeadIs
  <2>3. b \in Nat /\ a \in 0 .. (Words - 1)
    <3>1. b \in 0 .. (Weight[k - 1] - 1) /\ Weight[k - 1] \in Nat
      BY <2>1, LeadIs, WeightIs
    <3>2. a \in Nat /\ a <= val
      <4>1. HexDigits - k \in 0 .. HexDigits
        BY <1>1
      <4> DEFINE w == Weight[HexDigits - k]
      <4>2. w \in Nat \ {0} /\ a = val \div w
        BY <4>1, WeightIs DEF Lead
      <4> HIDE DEF w, a
      <4>3. val = w * a + (val % w) /\ val % w \in 0 .. (w - 1) /\ a \in Int
        BY <1>1, <4>2
      <4>4. a >= 0
        <5> SUFFICES ASSUME a <= -1
                     PROVE  FALSE
          BY <4>3
        <5>1. w * a <= -w
          BY <4>2, <4>3
        <5> QED BY <1>1, <4>2, <4>3, <5>1
      <4>5. w * a >= a
        BY <4>2, <4>3, <4>4
      <4> QED BY <1>1, <4>2, <4>3, <4>4, <4>5
    <3> HIDE DEF a, b
    <3> QED BY <1>1, <3>1, <3>2
  <2>4. HexValue(m[from + (k - 1)]) = c
    BY DEF HexStands
  <2>5. r[k] = a /\ r[k - 1] = b
    BY <2>1
  <2> HIDE DEF a, b, c, r
  <2>6. 16 * b \in 0 .. (Words - 1)
    BY <1>1, <2>2, <2>3
  <2>7. (16 * b) % Words = 16 * b
    BY <1>1, <2>6
  <2>8. c # -1
    BY <2>2
  <2> QED BY <2>2, <2>4, <2>5, <2>7, <2>8
<1>4. HexValue(m[from + HexDigits]) = -1
  BY DEF HexStands
<1> HIDE DEF r
<1>5. HexLoop(m, from) = r[HexDigits]
  BY <1>1, <1>2, <1>3, <1>4, HexLoopIs
<1> QED BY <1>2, <1>5

\* Also with one more digit on the left, which is shifted out.
LEMMA HexShiftedOut ==
  ASSUME NEW val \in 0 .. (Words - 1), NEW m, NEW from \in Nat, HexValue(m[from]) = 7,
         HexStands(m, from + 1, val)
  PROVE  HexLoop(m, from) = val
<1> DEFINE n == HexDigits + 1
           r == [k \in 0 .. n |-> IF k = 0 THEN 0 ELSE IF k = n THEN val
                                  ELSE 7 * Weight[k - 1] + Lead(val, k - 1)]
<1>1. HexDigits \in Nat /\ HexDigits >= 1 /\ n \in 0 .. Size /\ Words \in Nat \ {0}
  BY WordIs, StringConstants DEF StringConstants
<1>2. r[0] = 0 /\ r[n] = val
  BY <1>1
<1>3. HexValue(m[from + n]) = -1
  <2>1. from + n = from + 1 + HexDigits
    BY <1>1
  <2> QED BY <2>1 DEF HexStands
<1>4. r[1] = 7 /\ HexValue(m[from + (1 - 1)]) = 7 /\ (16 * 0) % Words = 0
  <2>1. r[1] = 7 * Weight[0] + Lead(val, 0)
    BY <1>1
  <2>2. r[1] = 7 /\ from + (1 - 1) = from
    BY <2>1, LeadIs, WeightIs
  <2> QED BY <1>1, <2>2
<1>5. ASSUME NEW k \in 1 .. HexDigits
      PROVE  /\ HexValue(m[from + k]) = Lead(val, k) % 16 /\ HexValue(m[from + k]) # -1
             /\ r[k + 1] = ((16 * r[k]) % Words) + HexValue(m[from + k])
  <2> DEFINE a == Lead(val, k)
             b == Lead(val, k - 1)
             c == Lead(val, k) % 16
             v == Weight[k - 1]
             w == Weight[k]
  <2>1. /\ k \in 0 .. HexDigits /\ k - 1 \in 0 .. HexDigits /\ k \in 0 .. n /\ k # 0 /\ k # n
        /\ k + 1 \in 0 .. n /\ k + 1 # 0 /\ (k + 1) - 1 = k
        /\ (k + 1 = n <=> k = HexDigits)
    BY <1>1
  <2>2. c \in 0 .. 15 /\ a = 16 * b + c /\ b \in 0 .. (v - 1) /\ a \in 0 .. (w - 1)
    BY <2>1, LeadIs
  <2>3. v \in Nat \ {0} /\ w = 16 * v
    BY <2>1, WeightIs
  <2>4. HexValue(m[from + k]) = c
    <3>1. from + 1 + (k - 1) = from + k
      BY <1>1
    <3> QED BY <3>1 DEF HexStands
  <2>5. r[k] = 7 * v + b
    BY <2>1
  <2>6. c # -1
    BY <2>2
  <2>7. CASE k = HexDigits
    <3>1. r[k + 1] = val /\ val = a /\ Words = w
      BY <2>1, <2>7, LeadIs DEF Words
    <3> HIDE DEF a, b, c, v, w, r
    <3> DEFINE x == 16 * r[k]
               y == 16 * b
    <3>2. y \in 0 .. (w - 1) /\ x = w * 7 + y /\ w \in Nat \ {0} /\ x \in Int /\ 7 \in Int
      BY <2>2, <2>3, <2>5
    <3>3. a = y + c
      BY <2>2
    <3> HIDE DEF x, y
    <3>4. x % w = y
      BY <3>2, Divided
    <3>5. r[k + 1] = (x % Words) + HexValue(m[from + k])
      BY <2>4, <3>1, <3>3, <3>4
    <3> QED BY <2>4, <2>6, <3>5 DEF x, c
  <2>8. CASE k # HexDigits
    <3>1. r[k + 1] = 7 * w + a
      BY <2>1, <2>8
    <3>2. 8 * w <= Words
      <4>1. HexDigits - k \in 1 .. HexDigits /\ k + 1 \in 1 .. HexDigits
        BY <1>1, <2>8
      <4>2. Weight[k + 1] = 16 * w
        BY <2>1, <4>1, WeightIs
      <4> DEFINE U == {j \in 0 .. (HexDigits - (k + 1)) : Weight[k + 1 + j] >= 16 * w}
      <4> HIDE DEF w
      <4>3. 0 \in U
        <5>1. k + 1 + 0 = k + 1 /\ 16 * w \in Nat
          BY <2>3
        <5> QED BY <1>1, <4>1, <4>2, <5>1
      <4>4. ASSUME NEW j \in 0 .. (HexDigits - (k + 1) - 1), j \in U
            PROVE  j + 1 \in U
        <5>1. /\ k + 1 + (j + 1) \in 1 .. HexDigits /\ (k + 1 + (j + 1)) - 1 = k + 1 + j
              /\ k + 1 + j \in 0 .. HexDigits /\ j + 1 \in 0 .. (HexDigits - (k + 1))
          BY <1>1
        <5>2. Weight[k + 1 + (j + 1)] = 16 * Weight[k + 1 + j] /\ Weight[k + 1 + j] \in Nat
          BY <5>1, WeightIs
        <5>3. Weight[k + 1 + j] >= 16 * w
          BY <4>4
        <5>4. Weight[k + 1 + (j + 1)] >= 16 * w
          BY <2>3, <5>2, <5>3
        <5> QED BY <5>1, <5>4
      <4>5. HexDigits - (k + 1) \in U
        <5>1. HexDigits - (k + 1) \in Nat
          BY <1>1, <4>1
        <5> HIDE DEF U
        <5> QED BY <4>3, <4>4, <5>1, UpTo
      <4>6. k + 1 + (HexDigits - (k + 1)) = HexDigits
        BY <1>1
      <4>7. Words >= 16 * w
        BY <4>5, <4>6 DEF Words
      <4> QED BY <1>1, <2>3, <4>7
    <3> HIDE DEF a, b, c, v, w, r
    <3> DEFINE x == 16 * r[k]
    <3>3. x \in 0 .. (8 * w - 1) /\ 7 * w + a = x + c /\ w \in Nat
      BY <2>2, <2>3, <2>5
    <3> HIDE DEF x
    <3>4. x \in 0 .. (Words - 1)
      BY <1>1, <3>2, <3>3
    <3>5. x % Words = x
      BY <1>1, <3>4
    <3>6. r[k + 1] = (x % Words) + HexValue(m[from + k])
      BY <2>4, <3>1, <3>3, <3>5
    <3> QED BY <2>4, <2>6, <3>6 DEF x, c
  <2> QED BY <2>4, <2>7, <2>8
<1>6. ASSUME NEW k \in 1 .. n
      PROVE  /\ HexValue(m[from + (k - 1)]) # -1
             /\ r[k] = ((16 * r[k - 1]) % Words) + HexValue(m[from + (k - 1)])
  <2> HIDE DEF r, n
  <2>1. CASE k = 1
    BY <1>2, <1>4, <2>1
  <2>2. CASE k # 1
    <3>1. k - 1 \in 1 .. HexDigits /\ (k - 1) + 1 = k
      BY <1>1, <2>2 DEF n
    <3> QED BY <1>5, <3>1
  <2> QED BY <2>1, <2>2
<1> HIDE DEF r, n
<1>7. HexLoop(m, from) = r[n]
  BY <1>1, <1>2, <1>3, <1>6, HexLoopIs
<1> QED BY <1>2, <1>7

\* Where htoi's loop begins.
LEMMA htoiIs ==
  ASSUME NEW m
  PROVE  /\ m[1] = Zero + 7 => htoi(m, 1) = HexLoop(m, 1)
         /\ m[1] = Zero /\ m[2] = LowerX => htoi(m, 1) = HexLoop(m, 3)
         /\ m[1] = SP /\ m[2] = Zero /\ m[3] = LowerX => htoi(m, 1) = HexLoop(m, 4)
<1> DEFINE start == First(LAMBDA k : m[1 + k] # SP)
           i == 1 + start
           from == IF m[i] = Zero /\ m[i + 1] \in {LowerX, UpperX} THEN i + 2 ELSE i
<1>1. htoi(m, 1) = HexLoop(m, from)
  BY DEF htoi, HexLoop
<1>2. Size \in Nat /\ Size >= 1
  BY WordIs, StringConstants DEF StringConstants
<1>3. ASSUME m[1] # SP
      PROVE  start = 0
  BY <1>2, <1>3 DEF First
<1>4. ASSUME m[1] = SP, m[2] # SP
      PROVE  start = 1
  BY <1>2, <1>4 DEF First
<1>5. SP # Zero /\ SP # Zero + 7 /\ Zero # Zero + 7
  BY DEF SP, Zero
<1> HIDE DEF start
<1>6. ASSUME m[1] = Zero + 7
      PROVE  from = 1
  BY <1>3, <1>5, <1>6
<1>7. ASSUME m[1] = Zero, m[2] = LowerX
      PROVE  from = 3
  BY <1>3, <1>5, <1>7
<1>8. ASSUME m[1] = SP, m[2] = Zero, m[3] = LowerX
      PROVE  from = 4
  BY <1>4, <1>5, <1>8
<1> HIDE DEF from
<1> QED BY <1>1, <1>6, <1>7, <1>8

\* The characters a word is shown as.
LEMMA ShownHex ==
  ASSUME NEW val \in 0 .. (Words - 1)
  PROVE  LET text == terminal_print_hex(val)
         IN  /\ text \in Seq(Char) /\ Len(text) = HexDigits + 2
             /\ text[1] = Zero /\ text[2] = LowerX
             /\ \A k \in 1 .. HexDigits : text[2 + k] = HexChar(Lead(val, k) % 16)
<1> DEFINE zero == <<Zero, LowerX>>
           digits == [k \in 1 .. HexDigits |-> HexChar(Lead(val, k) % 16)]
           text == terminal_print_hex(val)
<1>1. HexDigits \in Nat
  BY WordIs
<1>2. text = zero \o digits
  BY DEF terminal_print_hex, HexChar, Lead
<1>3. zero \in Seq(Char) /\ Len(zero) = 2 /\ zero[1] = Zero /\ zero[2] = LowerX
  BY CharIs
<1>4. digits \in Seq(Char) /\ Len(digits) = HexDigits
  <2>1. ASSUME NEW k \in 1 .. HexDigits
        PROVE  HexChar(Lead(val, k) % 16) \in Char
    <3>1. Lead(val, k) % 16 \in 0 .. 15
      BY LeadIs
    <3> QED BY <3>1, HexCharIs
  <2> QED BY <1>1, <2>1
<1>5. \A k \in 1 .. HexDigits : digits[k] = HexChar(Lead(val, k) % 16)
  OBVIOUS
<1> HIDE DEF zero, digits, text
<1>6. /\ text \in Seq(Char) /\ Len(text) = Len(zero) + Len(digits)
      /\ \A i \in 1 .. (Len(zero) + Len(digits)) :
           text[i] = IF i <= Len(zero) THEN zero[i] ELSE digits[i - Len(zero)]
  BY <1>2, <1>3, <1>4, ConcatProperties
<1>7. text[1] = Zero /\ text[2] = LowerX
  BY <1>1, <1>3, <1>4, <1>6
<1>8. ASSUME NEW k \in 1 .. HexDigits
      PROVE  text[2 + k] = HexChar(Lead(val, k) % 16)
  <2>1. 2 + k \in 1 .. (Len(zero) + Len(digits)) /\ ~(2 + k <= Len(zero)) /\ (2 + k) - Len(zero) = k
    BY <1>1, <1>3, <1>4
  <2> QED BY <1>5, <1>6, <2>1
<1> QED BY <1>1, <1>3, <1>4, <1>6, <1>7, <1>8 DEF text

\* Where the two parts of a sequence stand in it.
LEMMA JoinedAt ==
  ASSUME NEW t \in Seq(Char), NEW u \in Seq(Char)
  PROVE  /\ t \o u \in Seq(Char) /\ Len(t \o u) = Len(t) + Len(u)
         /\ \A k \in 1 .. Len(t) : (t \o u)[k] = t[k]
         /\ \A k \in 1 .. Len(u) : (t \o u)[Len(t) + k] = u[k]
<1>1. Len(t) \in Nat /\ Len(u) \in Nat
  BY LenProperties
<1>2. /\ t \o u \in Seq(Char) /\ Len(t \o u) = Len(t) + Len(u)
      /\ \A i \in 1 .. (Len(t) + Len(u)) :
           (t \o u)[i] = IF i <= Len(t) THEN t[i] ELSE u[i - Len(t)]
  BY ConcatProperties
<1>3. \A k \in 1 .. Len(t) : k \in 1 .. (Len(t) + Len(u)) /\ k <= Len(t)
  BY <1>1
<1>4. \A k \in 1 .. Len(u) :
        Len(t) + k \in 1 .. (Len(t) + Len(u)) /\ ~(Len(t) + k <= Len(t)) /\ (Len(t) + k) - Len(t) = k
  BY <1>1
<1> QED BY <1>2, <1>3, <1>4

\* A text in memory.
LEMMA StoredAt ==
  ASSUME NEW t \in Seq(Char)
  PROVE  /\ Stored(t) \in Memory(Len(t) + 1) /\ Stored(t) \in Seq(Char) /\ Len(t) \in Nat
         /\ \A k \in 1 .. Len(t) : Stored(t)[k] = t[k]
         /\ Stored(t)[Len(t) + 1] = NUL
<1>1. Len(t) \in Nat
  BY LenProperties
<1>2. NUL \in Char
  BY CharIs
<1>3. /\ Stored(t) \in Seq(Char) /\ Len(Stored(t)) = Len(t) + 1
      /\ \A k \in 1 .. Len(t) : Stored(t)[k] = t[k]
      /\ Stored(t)[Len(t) + 1] = NUL
  BY <1>1, <1>2, AppendProperties DEF Stored
<1>4. Stored(t) \in Memory(Len(t) + 1)
  <2> DEFINE u == Stored(t)
  <2> HIDE DEF u
  <2>1. u \in Seq(Char) /\ Len(u) = Len(t) + 1
    BY <1>3 DEF u
  <2>2. u \in Memory(Len(t) + 1)
    BY <2>1, LenProperties DEF Memory
  <2> QED BY <2>2 DEF u
<1> QED BY <1>1, <1>3, <1>4

\* Digits that stand in a text are read off it, and the character behind them is
\* none.
LEMMA DigitsStand ==
  ASSUME NEW val \in 0 .. (Words - 1), NEW m, NEW from \in Nat,
         \A k \in 1 .. HexDigits : m[from + (k - 1)] = HexChar(Lead(val, k) % 16),
         m[from + HexDigits] \in {NUL, Minus}
  PROVE  HexStands(m, from, val)
<1>1. HexValue(m[from + HexDigits]) = -1
  BY DEF HexValue, IsDigit, NUL, Minus, Zero, LowerA, UpperA
<1>2. ASSUME NEW k \in 1 .. HexDigits
      PROVE  HexValue(m[from + (k - 1)]) = Lead(val, k) % 16
  <2>1. Lead(val, k) % 16 \in 0 .. 15
    BY LeadIs
  <2> QED BY <2>1, HexCharIs
<1> QED BY <1>1, <1>2 DEF HexStands

\* A word that is printed is read back, behind a blank,
LEMMA HexBehindBlank ==
  ASSUME NEW val \in 0 .. (Words - 1)
  PROVE  htoi(Stored(<<SP>> \o terminal_print_hex(val)), 1) = val
<1> DEFINE text == terminal_print_hex(val)
           sp == <<SP>>
           t == sp \o text
           m == Stored(t)
<1>1. HexDigits \in Nat
  BY WordIs
<1>2. /\ text \in Seq(Char) /\ Len(text) = HexDigits + 2
      /\ text[1] = Zero /\ text[2] = LowerX
      /\ \A k \in 1 .. HexDigits : text[2 + k] = HexChar(Lead(val, k) % 16)
  BY ShownHex
<1>3. sp \in Seq(Char) /\ Len(sp) = 1 /\ sp[1] = SP
  BY CharIs
<1> HIDE DEF text, sp
<1>4. /\ t \in Seq(Char) /\ Len(t) = Len(sp) + Len(text)
      /\ \A k \in 1 .. Len(sp) : t[k] = sp[k]
      /\ \A k \in 1 .. Len(text) : t[Len(sp) + k] = text[k]
  BY <1>2, <1>3, JoinedAt
<1>5. Len(t) = HexDigits + 3 /\ t[1] = SP /\ \A k \in 1 .. (HexDigits + 2) : t[1 + k] = text[k]
  BY <1>1, <1>2, <1>3, <1>4
<1> HIDE DEF t
<1>6. (\A k \in 1 .. Len(t) : m[k] = t[k]) /\ m[Len(t) + 1] = NUL
  BY <1>4, StoredAt
<1> HIDE DEF m
<1>7. m[1] = SP /\ \A k \in 1 .. (HexDigits + 2) : m[1 + k] = text[k]
  BY <1>1, <1>5, <1>6
<1>8. m[2] = Zero /\ m[3] = LowerX
  <2>1. 1 \in 1 .. (HexDigits + 2) /\ 2 \in 1 .. (HexDigits + 2) /\ 1 + 1 = 2 /\ 1 + 2 = 3
    BY <1>1
  <2> QED BY <1>2, <1>7, <2>1
<1>9. \A k \in 1 .. HexDigits : m[4 + (k - 1)] = HexChar(Lead(val, k) % 16)
  <2>1. \A k \in 1 .. HexDigits : 2 + k \in 1 .. (HexDigits + 2) /\ 4 + (k - 1) = 1 + (2 + k)
    BY <1>1
  <2> QED BY <1>2, <1>7, <2>1
<1>10. m[4 + HexDigits] = NUL
  <2>1. 4 + HexDigits = Len(t) + 1
    BY <1>1, <1>5
  <2> QED BY <1>6, <2>1
<1>11. HexStands(m, 4, val)
  BY <1>9, <1>10, DigitsStand
<1>12. HexLoop(m, 4) = val
  BY <1>11, HexRead
<1> QED BY <1>7, <1>8, <1>12, htoiIs DEF m, t, sp, text

\* behind another digit,
LEMMA HexBehindDigit ==
  ASSUME NEW val \in 0 .. (Words - 1)
  PROVE  LET text == terminal_print_hex(val)
         IN  htoi(Stored(<<Zero + 7>> \o SubSeq(text, 3, Len(text)) \o <<Minus>>), 1) = val
<1> DEFINE text == terminal_print_hex(val)
           seven == <<Zero + 7>>
           minus == <<Minus>>
           digits == SubSeq(text, 3, Len(text))
           t == seven \o digits
           u == t \o minus
           m == Stored(u)
<1>1. HexDigits \in Nat
  BY WordIs
<1>2. /\ text \in Seq(Char) /\ Len(text) = HexDigits + 2
      /\ \A k \in 1 .. HexDigits : text[2 + k] = HexChar(Lead(val, k) % 16)
  BY ShownHex
<1>3. /\ seven \in Seq(Char) /\ Len(seven) = 1 /\ seven[1] = Zero + 7
      /\ minus \in Seq(Char) /\ Len(minus) = 1 /\ minus[1] = Minus
  <2>1. Zero + 7 \in Char /\ Minus \in Char
    BY CharIs
  <2> QED BY <2>1
<1> HIDE DEF text, seven, minus
<1>4. /\ digits \in Seq(Char) /\ Len(digits) = HexDigits
      /\ \A k \in 1 .. HexDigits : digits[k] = HexChar(Lead(val, k) % 16)
  <2>1. 3 + HexDigits - 1 = Len(text) /\ 3 \in Int
    BY <1>1, <1>2
  <2>2. \A i \in 0 .. (HexDigits - 1) : text[3 + i] \in Char
    <3>1. \A i \in 0 .. (HexDigits - 1) : 3 + i \in 1 .. Len(text)
      BY <1>1, <1>2
    <3> QED BY <1>2, <3>1, ElementOfSeq
  <2>5. digits = SubSeq(text, 3, 3 + HexDigits - 1)
    BY <2>1
  <2> HIDE DEF digits
  <2>3. /\ digits \in Seq(Char) /\ Len(digits) = HexDigits
        /\ \A k \in 1 .. HexDigits : digits[k] = text[3 + k - 1]
    BY <1>1, <2>1, <2>2, <2>5, BlockIs
  <2>4. \A k \in 1 .. HexDigits : 3 + k - 1 = 2 + k
    BY <1>1
  <2> QED BY <1>2, <2>3, <2>4
<1> HIDE DEF digits
<1>5. /\ t \in Seq(Char) /\ Len(t) = 1 + HexDigits
      /\ t[1] = Zero + 7 /\ \A k \in 1 .. HexDigits : t[1 + k] = digits[k]
  <2>1. /\ t \in Seq(Char) /\ Len(t) = Len(seven) + Len(digits)
        /\ \A k \in 1 .. Len(seven) : t[k] = seven[k]
        /\ \A k \in 1 .. Len(digits) : t[Len(seven) + k] = digits[k]
    BY <1>3, <1>4, JoinedAt
  <2>2. 1 \in 1 .. Len(seven)
    BY <1>3
  <2> HIDE DEF t
  <2> QED BY <1>3, <1>4, <2>1, <2>2
<1> HIDE DEF t
<1>6. /\ u \in Seq(Char) /\ Len(u) = 2 + HexDigits
      /\ (\A k \in 1 .. Len(t) : u[k] = t[k]) /\ u[Len(t) + 1] = Minus
  <2>1. /\ u \in Seq(Char) /\ Len(u) = Len(t) + Len(minus)
        /\ \A k \in 1 .. Len(t) : u[k] = t[k]
        /\ \A k \in 1 .. Len(minus) : u[Len(t) + k] = minus[k]
    BY <1>3, <1>5, JoinedAt
  <2>2. 1 \in 1 .. Len(minus)
    BY <1>3
  <2> HIDE DEF u
  <2>3. u[Len(t) + 1] = Minus
    BY <1>3, <2>1, <2>2
  <2>4. Len(u) = 2 + HexDigits
    BY <1>1, <1>3, <1>5, <2>1
  <2> QED BY <2>1, <2>3, <2>4
<1> HIDE DEF u
<1>7. \A k \in 1 .. Len(u) : m[k] = u[k]
  BY <1>6, StoredAt
<1> HIDE DEF m
<1>8. m[1] = Zero + 7
  <2>1. 1 \in 1 .. Len(u) /\ 1 \in 1 .. Len(t)
    BY <1>1, <1>5, <1>6
  <2> QED BY <1>5, <1>6, <1>7, <2>1
<1>9. ASSUME NEW k \in 1 .. HexDigits
      PROVE  m[2 + (k - 1)] = HexChar(Lead(val, k) % 16)
  <2>1. 2 + (k - 1) = 1 + k /\ 1 + k \in 1 .. Len(u) /\ 1 + k \in 1 .. Len(t)
    BY <1>1, <1>5, <1>6
  <2>2. m[1 + k] = u[1 + k] /\ u[1 + k] = t[1 + k] /\ t[1 + k] = digits[k]
    BY <1>5, <1>6, <1>7, <2>1
  <2>3. digits[k] = HexChar(Lead(val, k) % 16)
    BY <1>4
  <2> QED BY <2>1, <2>2, <2>3
<1>10. m[2 + HexDigits] = Minus
  <2>1. 2 + HexDigits = Len(t) + 1 /\ 2 + HexDigits \in 1 .. Len(u)
    BY <1>1, <1>5, <1>6
  <2> QED BY <1>6, <1>7, <2>1
<1>11. HexStands(m, 2, val)
  BY <1>9, <1>10, DigitsStand
<1>12. HexValue(m[1]) = 7
  BY <1>8 DEF HexValue, IsDigit, Zero
<1>13. HexLoop(m, 1) = val
  <2>1. 1 + 1 = 2 /\ 1 \in Nat
    OBVIOUS
  <2> QED BY <1>11, <1>12, <2>1, HexShiftedOut
<1> QED BY <1>8, <1>13, htoiIs DEF m, u, t, digits, seven, minus, text

\* and in lower case.
LEMMA HexLowered ==
  ASSUME NEW val \in 0 .. (Words - 1)
  PROVE  htoi(strlowcase(Stored(terminal_print_hex(val)), 1), 1) = val
<1> DEFINE text == terminal_print_hex(val)
           m == Stored(text)
           n == HexDigits + 3
           low == strlowcase(m, 1)
<1>1. HexDigits \in Nat /\ n \in 0 .. Size /\ Size \in Nat /\ n \in 1 .. n /\ 1 \in 1 .. n
  BY StringConstants DEF StringConstants
<1>2. /\ text \in Seq(Char) /\ Len(text) = HexDigits + 2
      /\ text[1] = Zero /\ text[2] = LowerX
      /\ \A k \in 1 .. HexDigits : text[2 + k] = HexChar(Lead(val, k) % 16)
  BY ShownHex
<1> HIDE DEF text
<1>3. m \in Memory(n) /\ (\A k \in 1 .. (HexDigits + 2) : m[k] = text[k]) /\ m[n] = NUL
  <2>1. Len(text) + 1 = n
    BY <1>1, <1>2
  <2>2. /\ m \in Memory(Len(text) + 1) /\ \A k \in 1 .. Len(text) : m[k] = text[k]
        /\ m[Len(text) + 1] = NUL
    BY <1>2, StoredAt
  <2> HIDE DEF m
  <2> QED BY <1>2, <2>1, <2>2
<1> HIDE DEF m
<1>4. m[1] = Zero /\ m[2] = LowerX
  <2>1. 1 \in 1 .. (HexDigits + 2) /\ 2 \in 1 .. (HexDigits + 2)
    BY <1>1
  <2> QED BY <1>2, <1>3, <2>1
<1>5. ASSUME NEW k \in 1 .. HexDigits
      PROVE  m[2 + k] = HexChar(Lead(val, k) % 16)
  <2>1. 2 + k \in 1 .. (HexDigits + 2)
    BY <1>1
  <2> QED BY <1>2, <1>3, <2>1
<1>6. Ends(m, 1, n)
  <2>1. ASSUME NEW i \in 1 .. (n - 1)
        PROVE  m[i] # NUL
    <3>1. CASE i \in 1 .. 2
      BY <1>4, <3>1 DEF Zero, LowerX, NUL
    <3>2. CASE i > 2
      <4> DEFINE c == Lead(val, i - 2) % 16
      <4>1. i - 2 \in 1 .. HexDigits /\ 2 + (i - 2) = i
        BY <1>1, <3>2
      <4>2. c \in 0 .. 15 /\ m[i] = HexChar(c)
        BY <1>5, <4>1, LeadIs
      <4> HIDE DEF c
      <4> QED BY <4>2 DEF HexChar, NUL, Zero, UpperA
    <3> QED BY <1>1, <3>1, <3>2
  <2> QED BY <1>1, <1>3, <2>1 DEF Ends
<1>7. \A i \in 1 .. n : low[i] = IF i <= n - 1 THEN Lowered(m[i]) ELSE m[i]
  <2>1. UpperA \in Int /\ UpperZ \in Int /\ LowerA - UpperA \in Int
    BY DEF UpperA, UpperZ, LowerA
  <2>2. low = [i \in 1 .. n |-> IF i \in 1 .. (n - 1) /\ m[i] >= UpperA /\ m[i] <= UpperZ
                                THEN m[i] + (LowerA - UpperA) ELSE m[i]]
    BY <1>1, <1>3, <1>6, <2>1, ShiftedIs DEF strlowcase
  <2>3. \A i \in 1 .. n : i \in 1 .. (n - 1) <=> i <= n - 1
    BY <1>1
  <2> HIDE DEF low
  <2> QED BY <2>2, <2>3 DEF Lowered
<1> HIDE DEF low
<1>8. low[1] = Zero /\ low[2] = LowerX
  <2>1. 1 \in 1 .. n /\ 1 <= n - 1 /\ 2 \in 1 .. n /\ 2 <= n - 1
    BY <1>1
  <2>2. Lowered(Zero) = Zero /\ Lowered(LowerX) = LowerX
    BY DEF Lowered, Zero, LowerX, UpperA, UpperZ
  <2> QED BY <1>4, <1>7, <2>1, <2>2
<1>9. HexStands(low, 3, val)
  <2>1. ASSUME NEW k \in 1 .. HexDigits
        PROVE  HexValue(low[3 + (k - 1)]) = Lead(val, k) % 16
    <3>1. 3 + (k - 1) = 2 + k /\ 2 + k \in 1 .. n /\ 2 + k <= n - 1
      BY <1>1
    <3>2. low[3 + (k - 1)] = Lowered(HexChar(Lead(val, k) % 16))
      BY <1>5, <1>7, <3>1
    <3>3. Lead(val, k) % 16 \in 0 .. 15
      BY LeadIs
    <3> QED BY <3>2, <3>3, HexCharIs
  <2>2. HexValue(low[3 + HexDigits]) = -1
    <3>1. 3 + HexDigits = n /\ n \in 1 .. n /\ ~(n <= n - 1)
      BY <1>1
    <3>2. low[3 + HexDigits] = NUL
      BY <1>3, <1>7, <3>1
    <3> QED BY <3>2 DEF HexValue, IsDigit, NUL, Zero, LowerA, UpperA
  <2> QED BY <2>1, <2>2 DEF HexStands
<1>10. HexLoop(low, 3) = val
  BY <1>9, HexRead
<1> QED BY <1>8, <1>10, htoiIs DEF low, m, text

\* Every word that is printed in hexadecimal is read back, whatever stands to its
\* left and in either case.
THEOREM HexHolds ==
  ASSUME NEW val \in 0 .. (Words - 1)
  PROVE  HexAgrees(val)
BY ShownHex, HexBehindBlank, HexBehindDigit, HexLowered DEF HexAgrees

\* itoa's digits, the last one first.
LowDigits[n \in 0 .. Half] ==
  IF n = 0 THEN << >> ELSE <<(n % 10) + Zero>> \o LowDigits[n \div 10]

\* itoa takes the low digit first.
LEMMA LowDigitsIs ==
  /\ LowDigits[0] = << >>
  /\ \A n \in 1 .. Half : LowDigits[n] = <<(n % 10) + Zero>> \o LowDigits[n \div 10]
<1> DEFINE step(n, d) == <<(n % 10) + Zero>> \o d
           Good(b, f) == f = [n \in 0 .. b |-> IF n = 0 THEN << >> ELSE step(n, f[n \div 10])]
           T == {b \in Nat : \E f : Good(b, f)}
<1>0. Half \in Nat
  BY WordIs
<1> HIDE DEF step
<1>1. 0 \in T
  <2> DEFINE f == [n \in 0 .. 0 |-> << >>]
  <2>1. Good(0, f)
    OBVIOUS
  <2> QED BY <2>1
<1>2. ASSUME NEW b \in 0 .. (Half - 1), b \in T
      PROVE  b + 1 \in T
  <2>1. PICK f : Good(b, f)
    BY <1>2
  <2> DEFINE g == [n \in 0 .. (b + 1) |-> IF n = b + 1 THEN step(b + 1, f[(b + 1) \div 10]) ELSE f[n]]
  <2>2. ASSUME NEW n \in 0 .. (b + 1)
        PROVE  g[n] = IF n = 0 THEN << >> ELSE step(n, g[n \div 10])
    <3>1. n # 0 => n \div 10 \in 0 .. b /\ n \div 10 \in 0 .. (b + 1) /\ n \div 10 # b + 1
      OBVIOUS
    <3>2. n # 0 => g[n \div 10] = f[n \div 10]
      BY <3>1
    <3>3. CASE n = b + 1
      <4>1. n # 0 /\ g[n] = step(n, f[n \div 10])
        BY <3>3
      <4> QED BY <3>2, <4>1
    <3>4. CASE n \in 0 .. b
      <4>1. g[n] = f[n]
        BY <3>4
      <4>2. f[n] = IF n = 0 THEN << >> ELSE step(n, f[n \div 10])
        BY <2>1, <3>4
      <4> HIDE DEF g
      <4> QED BY <3>2, <4>1, <4>2
    <3> QED BY <3>3, <3>4
  <2>3. Good(b + 1, g)
    <3>1. g = [n \in 0 .. (b + 1) |-> g[n]]
      OBVIOUS
    <3> HIDE DEF g
    <3> QED BY <2>2, <3>1
  <2> HIDE DEF g, Good
  <2>4. \E h : Good(b + 1, h)
    BY <2>3
  <2> QED BY <2>4
<1>3. Half \in T
  <2> HIDE DEF T
  <2> QED BY <1>0, <1>1, <1>2, UpTo
<1>4. Good(Half, LowDigits)
  <2>1. \E f : Good(Half, f)
    BY <1>3
  <2>2. LowDigits = CHOOSE f : Good(Half, f)
    BY DEF LowDigits, step
  <2> HIDE DEF Good
  <2> QED BY <2>1, <2>2
<1>5. LowDigits[0] = << >> /\ \A n \in 1 .. Half : LowDigits[n] = step(n, LowDigits[n \div 10])
  BY <1>0, <1>4
<1> QED BY <1>5 DEF step

\* The digits of n, last first, are what is left over when it is divided by ten
\* until nothing is left.
Falls(s, n, q) ==
  /\ q \in [0 .. Len(s) -> 0 .. n] /\ q[0] = n /\ q[Len(s)] = 0
  /\ \A j \in 1 .. Len(s) :
       q[j - 1] # 0 /\ s[j] = (q[j - 1] % 10) + Zero /\ q[j] = q[j - 1] \div 10

\* What itoa has still to take falls to 0.
LEMMA LowFalls ==
  ASSUME NEW n \in 0 .. Half
  PROVE  LowDigits[n] \in Seq(Char) /\ \E q : Falls(LowDigits[n], n, q)
<1> DEFINE Good(k) == LowDigits[k] \in Seq(Char) /\ \E q : Falls(LowDigits[k], k, q)
           T == {b \in 0 .. Half : \A k \in 0 .. b : Good(k)}
<1>0. Half \in Nat
  BY WordIs
<1>1. Good(0)
  <2> DEFINE q == [j \in 0 .. 0 |-> 0]
  <2>1. LowDigits[0] = << >> /\ << >> \in Seq(Char) /\ Len(<< >>) = 0
    BY LowDigitsIs
  <2>2. Falls(<< >>, 0, q)
    BY <2>1 DEF Falls
  <2> QED BY <2>1, <2>2
<1>2. ASSUME NEW b \in 0 .. (Half - 1), Good((b + 1) \div 10)
      PROVE  Good(b + 1)
  <2> DEFINE k == b + 1
             l == k \div 10
             c == (k % 10) + Zero
             s == LowDigits[l]
             t == LowDigits[k]
             one == <<c>>
  <2>1. k \in 1 .. Half /\ k \in Nat /\ l \in 0 .. k /\ c \in Nat /\ k # 0
    BY <1>0 DEF Zero
  <2>2. t = one \o s
    BY <2>1, LowDigitsIs
  <2>3. s \in Seq(Char)
    BY <1>2
  <2>4. PICK p : Falls(s, l, p)
    BY <1>2
  <2>5. one \in Seq(Char) /\ Len(one) = 1 /\ one[1] = c /\ Len(s) \in Nat
    <3>1. k % 10 \in 0 .. 9
      BY <2>1
    <3>2. c \in Char
      BY <3>1, CharIs DEF Zero, Char
    <3> HIDE DEF c
    <3> QED BY <2>3, <3>2, LenProperties
  <2> HIDE DEF one, s, t, k
  <2>6. /\ t \in Seq(Char) /\ Len(t) = Len(one) + Len(s)
        /\ \A j \in 1 .. Len(one) : t[j] = one[j]
        /\ \A j \in 1 .. Len(s) : t[Len(one) + j] = s[j]
    BY <2>2, <2>3, <2>5, JoinedAt
  <2>7. Len(t) = Len(s) + 1 /\ t[1] = c /\ \A j \in 1 .. Len(s) : t[j + 1] = s[j]
    BY <2>5, <2>6
  <2> DEFINE q == [j \in 0 .. Len(t) |-> IF j = 0 THEN k ELSE p[j - 1]]
  <2>8. /\ p \in [0 .. Len(s) -> 0 .. l] /\ p[0] = l /\ p[Len(s)] = 0
        /\ \A j \in 1 .. Len(s) :
             p[j - 1] # 0 /\ s[j] = (p[j - 1] % 10) + Zero /\ p[j] = p[j - 1] \div 10
    BY <2>4 DEF Falls
  <2> HIDE DEF l
  <2>9. q \in [0 .. Len(t) -> 0 .. k]
    <3>1. \A j \in 1 .. Len(t) : j - 1 \in 0 .. Len(s)
      BY <2>5, <2>7
    <3>2. \A j \in 1 .. Len(t) : p[j - 1] \in 0 .. k
      <4>1. 0 .. l \subseteq 0 .. k
        BY <2>1
      <4> QED BY <2>8, <3>1, <4>1
    <3> QED BY <2>1, <2>5, <2>7, <3>2
  <2>10. q[0] = k /\ q[1] = l /\ q[Len(t)] = 0 /\ \A j \in 1 .. Len(t) : q[j] = p[j - 1]
    BY <2>5, <2>7, <2>8
  <2> HIDE DEF q
  <2>11. ASSUME NEW j \in 1 .. Len(t)
         PROVE  q[j - 1] # 0 /\ t[j] = (q[j - 1] % 10) + Zero /\ q[j] = q[j - 1] \div 10
    <3>1. CASE j = 1
      <4>1. j - 1 = 0 /\ t[j] = (k % 10) + Zero /\ q[j] = k \div 10
        BY <2>7, <2>10, <3>1 DEF l
      <4> QED BY <2>1, <2>10, <4>1
    <3>2. CASE j # 1
      <4> DEFINE i == j - 1
      <4>1. i \in 1 .. Len(s) /\ i + 1 = j /\ i \in 1 .. Len(t)
        BY <2>5, <2>7, <3>2
      <4> HIDE DEF i
      <4>2. t[j] = s[i] /\ q[i] = p[i - 1] /\ q[j] = p[i]
        <5>1. j - 1 = i
          BY DEF i
        <5> QED BY <2>7, <2>10, <4>1, <5>1
      <4>3. q[i] # 0 /\ t[j] = (q[i] % 10) + Zero /\ q[j] = q[i] \div 10
        BY <2>8, <4>1, <4>2
      <4> QED BY <4>3 DEF i
    <3> QED BY <3>1, <3>2
  <2>12. Falls(t, k, q)
    BY <2>9, <2>10, <2>11 DEF Falls
  <2> QED BY <2>6, <2>12 DEF t, k
<1> HIDE DEF Good
<1>3. 0 \in T
  BY <1>0, <1>1
<1>4. ASSUME NEW b \in 0 .. (Half - 1), b \in T
      PROVE  b + 1 \in T
  <2>1. b \in Nat /\ b + 1 \in 0 .. Half /\ (b + 1) \div 10 \in 0 .. b
    BY <1>0
  <2>2. \A k \in 0 .. b : Good(k)
    BY <1>4
  <2>3. Good(b + 1)
    BY <1>2, <2>1, <2>2
  <2>4. \A k \in 0 .. (b + 1) : k \in 0 .. b \/ k = b + 1
    BY <2>1
  <2> QED BY <2>1, <2>2, <2>3, <2>4
<1>5. Half \in T
  <2> HIDE DEF T
  <2> QED BY <1>0, <1>3, <1>4, UpTo
<1>6. Good(n)
  BY <1>5
<1> QED BY <1>6 DEF Good

\* A word has at most twice as many digits as in hexadecimal.
LEMMA FewDigits ==
  ASSUME NEW n \in 0 .. (Words - 1), NEW s \in Seq(Char), NEW q, Falls(s, n, q)
  PROVE  Len(s) <= 2 * HexDigits
<1>0. HexDigits \in Nat /\ Words \in Nat /\ Len(s) \in Nat
  BY WordIs, LenProperties
<1> SUFFICES ASSUME Len(s) > 2 * HexDigits
             PROVE  FALSE
  BY <1>0
<1> DEFINE T == {i \in 0 .. HexDigits : q[2 * i] < Weight[HexDigits - i]}
<1>1. q \in [0 .. Len(s) -> Nat] /\ q[0] = n /\ \A j \in 1 .. Len(s) : q[j - 1] # 0 /\ q[j] = q[j - 1] \div 10
  BY DEF Falls
<1>2. 0 \in T
  <2>1. HexDigits - 0 = HexDigits /\ 2 * 0 = 0 /\ n < Words
    BY <1>0
  <2> QED BY <1>0, <1>1, <2>1 DEF Words
<1>3. ASSUME NEW i \in 0 .. (HexDigits - 1), i \in T
      PROVE  i + 1 \in T
  <2> DEFINE a == q[2 * i]
             b == q[2 * i + 1]
             c == q[2 * i + 2]
             w == Weight[HexDigits - (i + 1)]
  <2>1. /\ 2 * i \in 0 .. Len(s) /\ 2 * i + 1 \in 1 .. Len(s) /\ 2 * i + 2 \in 1 .. Len(s)
        /\ (2 * i + 1) - 1 = 2 * i /\ (2 * i + 2) - 1 = 2 * i + 1
        /\ HexDigits - i \in 1 .. HexDigits /\ (HexDigits - i) - 1 = HexDigits - (i + 1)
        /\ HexDigits - (i + 1) \in 0 .. HexDigits /\ 2 * (i + 1) = 2 * i + 2 /\ i + 1 \in 0 .. HexDigits
    BY <1>0
  <2>2. a \in Nat /\ b = a \div 10 /\ c = b \div 10
    BY <1>1, <2>1
  <2>3. w \in Nat \ {0} /\ Weight[HexDigits - i] = 16 * w
    BY <2>1, WeightIs
  <2>4. a < 16 * w
    BY <1>3, <2>3
  <2> HIDE DEF a, b, c, w
  <2>5. b \in Nat /\ 10 * b <= a /\ c \in Nat /\ 10 * c <= b
    BY <2>2
  <2>6. c < w
    BY <2>2, <2>3, <2>4, <2>5
  <2> QED BY <2>1, <2>6 DEF c, w
<1>4. HexDigits \in T
  <2> HIDE DEF T
  <2>1. 0 .. HexDigits \subseteq T
    BY <1>0, <1>2, <1>3, UpTo
  <2> QED BY <1>0, <2>1
<1>5. q[2 * HexDigits] < 1
  <2>1. HexDigits - HexDigits = 0
    BY <1>0
  <2> QED BY <1>4, <2>1, WeightIs
<1>6. q[2 * HexDigits] \in Nat /\ q[2 * HexDigits] # 0
  <2>1. 2 * HexDigits + 1 \in 1 .. Len(s) /\ (2 * HexDigits + 1) - 1 = 2 * HexDigits /\ 2 * HexDigits \in 0 .. Len(s)
    BY <1>0
  <2> QED BY <1>1, <2>1
<1> QED BY <1>5, <1>6

\* Swapping the pairs from outside in turns a sequence around.
Turned(s) == [k \in 1 .. Len(s) |-> s[Len(s) + 1 - k]]

\* Swapping the pairs of the first half turns a text round.
LEMMA SwapHalfIs ==
  ASSUME NEW s \in Seq(Char)
  PROVE  SwapHalf(s) = Turned(s)
<1> DEFINE len == Len(s)
           n == len \div 2
           step(b, k) == [b EXCEPT ![k + 1] = b[len - k], ![len - k] = b[k + 1]]
           F(k) == [i \in 1 .. len |-> IF i <= k \/ i > len - k THEN s[len + 1 - i] ELSE s[i]]
           f == [k \in 0 .. n |-> F(k)]
           run == CHOOSE run : run = [k \in 0 .. n |-> IF k = 0 THEN s ELSE step(run[k - 1], k - 1)]
<1>0. len \in Nat /\ n \in Nat /\ 2 * n <= len /\ len <= 2 * n + 1 /\ s = [i \in 1 .. len |-> s[i]]
  BY LenProperties
<1>1. SwapHalf(s) = run[n]
  BY DEF SwapHalf, Loop
<1> HIDE DEF len, n
<1>2. F(0) = s
  <2>1. \A i \in 1 .. len : ~(i <= 0 \/ i > len - 0)
    BY <1>0
  <2> QED BY <1>0, <2>1
<1>3. ASSUME NEW k \in 1 .. n
      PROVE  F(k) = step(F(k - 1), k - 1)
  <2> DEFINE b == F(k - 1)
             far == len + 1 - k
  <2>1. /\ k \in 1 .. len /\ far \in 1 .. len /\ k < far /\ (k - 1) + 1 = k /\ len - (k - 1) = far
        /\ len + 1 - far = k
    BY <1>0
  <2>2. b[k] = s[k] /\ b[far] = s[far]
    <3>1. ~(k <= k - 1) /\ ~(k > len - (k - 1)) /\ ~(far <= k - 1) /\ ~(far > len - (k - 1))
      <4> HIDE DEF far, F
      <4>1. len - (k - 1) = far /\ far \in Int /\ k \in Int /\ k < far
        BY <2>1
      <4> QED BY <4>1
    <3> QED BY <2>1, <3>1
  <2>3. F(k)[k] = s[far] /\ F(k)[far] = s[k]
    <3>1. k <= k /\ far > len - k
      BY <1>0
    <3> QED BY <2>1, <3>1
  <2>4. ASSUME NEW i \in 1 .. len, i # k, i # far
        PROVE  F(k)[i] = b[i]
    <3>1. i <= k \/ i > len - k <=> i <= k - 1 \/ i > len - (k - 1)
      <4>1. i <= k <=> i <= k - 1
        BY <2>4
      <4>2. i > len - k <=> i > len - (k - 1)
        <5>1. len - k = far - 1
          BY <1>0
        <5> HIDE DEF far, F
        <5>2. len - (k - 1) = far /\ far \in Int /\ i \in Int /\ i # far
          BY <2>1, <2>4
        <5> QED BY <5>1, <5>2
      <4> QED BY <4>1, <4>2
    <3> QED BY <3>1
  <2>5. b = [i \in 1 .. len |-> b[i]] /\ F(k) = [i \in 1 .. len |-> F(k)[i]]
    OBVIOUS
  <2> HIDE DEF b, F, far
  <2>6. step(b, k - 1) = [b EXCEPT ![k] = b[far], ![far] = b[k]]
    BY <2>1
  <2>7. [b EXCEPT ![k] = b[far], ![far] = b[k]] = F(k)
    <3> DEFINE c == [b EXCEPT ![k] = b[far], ![far] = b[k]]
    <3>1. c = [i \in 1 .. len |-> c[i]]
      BY <2>5
    <3>2. c[k] = b[far] /\ c[far] = b[k] /\ \A i \in 1 .. len : i # k /\ i # far => c[i] = b[i]
      BY <2>1, <2>5
    <3> HIDE DEF c
    <3>3. \A i \in 1 .. len : c[i] = F(k)[i]
      BY <2>1, <2>2, <2>3, <2>4, <3>2
    <3>4. c = F(k)
      BY <2>5, <3>1, <3>3
    <3> QED BY <3>4 DEF c
  <2> QED BY <2>6, <2>7 DEF b
<1> HIDE DEF F, step
<1>4. f = [k \in 0 .. n |-> IF k = 0 THEN s ELSE step(f[k - 1], k - 1)]
  <2>1. \A k \in 1 .. n : k - 1 \in 0 .. n
    BY <1>0
  <2> QED BY <1>0, <1>2, <1>3, <2>1
<1>5. run = [k \in 0 .. n |-> IF k = 0 THEN s ELSE step(run[k - 1], k - 1)]
  <2> HIDE DEF f
  <2> QED BY <1>4
<1>6. f[n] = F(n)
  BY <1>0
<1>7. f[0] = run[0]
  <2> HIDE DEF f, run
  <2> QED BY <1>0, <1>4, <1>5
<1>8. ASSUME NEW k \in 1 .. n, f[k - 1] = run[k - 1]
      PROVE  f[k] = run[k]
  <2> HIDE DEF f, run
  <2>1. k \in 0 .. n /\ k # 0
    BY <1>0
  <2>2. f[k] = step(f[k - 1], k - 1) /\ run[k] = step(run[k - 1], k - 1)
    BY <1>4, <1>5, <2>1
  <2> QED BY <1>8, <2>2
<1>9. f[n] = run[n]
  <2> HIDE DEF f, run
  <2> QED BY <1>0, <1>7, <1>8, SameRun
<1>10. F(n) = Turned(s)
  <2>1. ASSUME NEW i \in 1 .. len
        PROVE  (IF i <= n \/ i > len - n THEN s[len + 1 - i] ELSE s[i]) = s[len + 1 - i]
    <3>1. CASE i <= n \/ i > len - n
      BY <3>1
    <3>2. CASE ~(i <= n \/ i > len - n)
      <4>1. len + 1 - i = i
        BY <1>0, <3>2
      <4> QED BY <3>2, <4>1
    <3> QED BY <3>1, <3>2
  <2> QED BY <2>1 DEF F, Turned, len
<1> QED BY <1>1, <1>6, <1>9, <1>10

\* t is the numeral of n: v is the value of its first digits, and no zero leads.
Spelt(t, n, v) ==
  /\ t \in Seq(Char) /\ Len(t) \in 1 .. (2 * HexDigits)
  /\ v \in [0 .. Len(t) -> 0 .. n] /\ v[0] = 0 /\ v[Len(t)] = n
  /\ \A k \in 1 .. Len(t) :
       t[k] \in Zero .. (Zero + 9) /\ v[k] = 10 * v[k - 1] + (t[k] - Zero)
  /\ t[1] = Zero => Len(t) = 1
IsSpelt(t, n) == \E v : Spelt(t, n, v)

\* The digits of a number that is not zero, turned around, are its numeral.
LEMMA TurnedSpelt ==
  ASSUME NEW n \in 1 .. Half
  PROVE  IsSpelt(Turned(LowDigits[n]), n)
<1> DEFINE s == LowDigits[n]
           t == Turned(s)
<1>0. Half \in Nat /\ n \in 0 .. Half /\ n \in 0 .. (Words - 1) /\ n # 0 /\ HexDigits \in Nat
  BY WordIs
<1>1. s \in Seq(Char) /\ \E q : Falls(s, n, q)
  BY <1>0, LowFalls
<1> HIDE DEF s
<1>2. PICK q : Falls(s, n, q)
  BY <1>1
<1> DEFINE len == Len(s)
           v == [k \in 0 .. len |-> q[len - k]]
<1>3. /\ q \in [0 .. len -> 0 .. n] /\ q[0] = n /\ q[len] = 0
      /\ \A j \in 1 .. len : q[j - 1] # 0 /\ s[j] = (q[j - 1] % 10) + Zero /\ q[j] = q[j - 1] \div 10
  BY <1>2 DEF Falls
<1>4. len \in Nat /\ len <= 2 * HexDigits
  BY <1>0, <1>1, <1>2, FewDigits, LenProperties
<1> HIDE DEF len
<1>5. len # 0
  BY <1>0, <1>3
<1>6. t = [k \in 1 .. len |-> s[len + 1 - k]]
  BY DEF Turned, len
<1>7. \A k \in 1 .. len : s[len + 1 - k] \in Char
  <2>1. \A k \in 1 .. len : len + 1 - k \in 1 .. len
    BY <1>4
  <2> QED BY <1>1, <2>1, ElementOfSeq DEF len
<1> HIDE DEF t
<1>8. t \in Seq(Char) /\ Len(t) = len
  BY <1>4, <1>6, <1>7
<1>9. v \in [0 .. len -> 0 .. n] /\ v[0] = 0 /\ v[len] = n
  <2>1. \A k \in 0 .. len : len - k \in 0 .. len
    BY <1>4
  <2>2. len - 0 = len /\ len - len = 0 /\ 0 \in 0 .. len /\ len \in 0 .. len
    BY <1>4
  <2> QED BY <1>3, <2>1, <2>2
<1>10. ASSUME NEW k \in 1 .. len
       PROVE  t[k] \in Zero .. (Zero + 9) /\ v[k] = 10 * v[k - 1] + (t[k] - Zero) /\ v[k] # 0
  <2> DEFINE j == len + 1 - k
             a == q[j - 1]
             b == q[j]
  <2>1. j \in 1 .. len /\ j - 1 = len - k /\ j = len - (k - 1) /\ k \in 0 .. len /\ k - 1 \in 0 .. len /\ j - 1 \in 0 .. len
    BY <1>4
  <2>2. v[k] = a /\ v[k - 1] = b /\ t[k] = s[j]
    BY <1>6, <2>1
  <2>3. a # 0 /\ s[j] = (a % 10) + Zero /\ b = a \div 10 /\ a \in Nat
    BY <1>3, <2>1
  <2> HIDE DEF a, b, j, v
  <2>4. a = 10 * b + (a % 10) /\ a % 10 \in 0 .. 9
    BY <2>3
  <2> QED BY <2>2, <2>3, <2>4 DEF Zero
<1>11. t[1] # Zero
  <2>1. 1 \in 1 .. len /\ 1 - 1 = 0
    BY <1>4, <1>5
  <2>2. v[1] # 0 /\ v[1] = 10 * v[0] + (t[1] - Zero)
    BY <1>10, <2>1
  <2> HIDE DEF v
  <2> QED BY <1>9, <2>2 DEF Zero
<1> HIDE DEF v
<1>12. Spelt(t, n, v)
  BY <1>4, <1>5, <1>8, <1>9, <1>10, <1>11 DEF Spelt
<1> QED BY <1>12 DEF IsSpelt, t, s

\* A numeral is one.
LEMMA NumeralIs ==
  ASSUME NEW t, NEW n \in Nat, NEW v, Spelt(t, n, v)
  PROVE  IsNumeral(t, n)
<1> DEFINE len == Len(t)
           step(x, k) == 10 * x + (t[k] - Zero)
           run == CHOOSE run : run = [k \in 0 .. len |-> IF k = 0 THEN 0 ELSE step(run[k - 1], k)]
<1>1. /\ t \in Seq(Char) /\ len \in Nat /\ len # 0 /\ v[0] = 0 /\ v[len] = n
      /\ v = [k \in 0 .. len |-> v[k]]
      /\ \A k \in 1 .. len : t[k] \in Zero .. (Zero + 9) /\ v[k] = step(v[k - 1], k)
      /\ t[1] = Zero => len = 1
  BY LenProperties DEF Spelt
<1>2. Decimal(t) = run[len]
  BY DEF Decimal
<1>3. \A k \in DOMAIN t : IsDigit(t[k])
  <2> SUFFICES ASSUME NEW k \in DOMAIN t
               PROVE  IsDigit(t[k])
    OBVIOUS
  <2>1. k \in 1 .. len
    BY <1>1, LenProperties
  <2> HIDE DEF run, step, len
  <2>2. t[k] \in Zero .. (Zero + 9)
    BY <1>1, <2>1
  <2> QED BY <2>2 DEF IsDigit, Zero
<1>4. t # << >>
  BY <1>1
<1> HIDE DEF len, step
<1>5. v = [k \in 0 .. len |-> IF k = 0 THEN 0 ELSE step(v[k - 1], k)]
  <2> HIDE DEF run
  <2>1. ASSUME NEW k \in 0 .. len
        PROVE  v[k] = IF k = 0 THEN 0 ELSE step(v[k - 1], k)
    <3>1. k = 0 \/ k \in 1 .. len
      BY <1>1
    <3>2. CASE k = 0
      BY <1>1, <3>2
    <3>3. CASE k \in 1 .. len
      <4>1. k # 0
        BY <3>3
      <4> QED BY <1>1, <3>3, <4>1
    <3> QED BY <3>1, <3>2, <3>3
  <2> QED BY <1>1, <2>1
<1>6. run = [k \in 0 .. len |-> IF k = 0 THEN 0 ELSE step(run[k - 1], k)]
  BY <1>5
<1> HIDE DEF run
<1>7. v[0] = run[0]
  BY <1>1, <1>6
<1>8. ASSUME NEW k \in 1 .. len, v[k - 1] = run[k - 1]
      PROVE  v[k] = run[k]
  <2>1. k \in 0 .. len /\ k # 0
    BY <1>1
  <2>2. v[k] = step(v[k - 1], k) /\ run[k] = step(run[k - 1], k)
    BY <1>1, <1>6, <2>1
  <2> QED BY <1>8, <2>2
<1>9. v[len] = run[len]
  <2>1. len \in Nat
    BY <1>1
  <2> QED BY <1>7, <1>8, <2>1, SameRun
<1> QED BY <1>1, <1>2, <1>3, <1>4, <1>9 DEF IsNumeral, len

\* itoa's cases.
LEMMA itoaIs ==
  ASSUME NEW nb
  PROVE  itoa(nb) =
           IF nb = -Half THEN {<<Minus>>, <<Minus, Zero - 8>>}
           ELSE IF nb = 0 THEN {<<Zero>>}
           ELSE IF nb < 0 THEN {SwapHalf(Append(LowDigits[-nb], Minus))}
           ELSE {SwapHalf(LowDigits[nb])}
BY DEF itoa, LowDigits

\* What it writes for a number that is not negative,
LEMMA itoaSpelt ==
  ASSUME NEW n \in 0 .. (Half - 1), NEW t \in itoa(n)
  PROVE  IsSpelt(t, n)
<1>1. Half \in Nat /\ Half >= 8 /\ HexDigits \in Nat /\ HexDigits >= 1 /\ n # -Half /\ ~(n < 0)
  BY WordIs
<1>2. CASE n = 0
  <2>1. t = <<Zero>>
    BY <1>1, <1>2, itoaIs
  <2> DEFINE v == [k \in 0 .. 1 |-> 0]
  <2>2. t \in Seq(Char) /\ Len(t) = 1 /\ t[1] = Zero /\ 1 \in 1 .. (2 * HexDigits)
    BY <1>1, <2>1, CharIs
  <2>3. v \in [0 .. 1 -> 0 .. 0] /\ v[0] = 0 /\ v[1] = 0
    OBVIOUS
  <2> HIDE DEF v
  <2>4. \A k \in 1 .. 1 : t[k] \in Zero .. (Zero + 9) /\ v[k] = 10 * v[k - 1] + (t[k] - Zero)
    <3>1. \A k \in 1 .. 1 : k = 1 /\ k - 1 = 0
      OBVIOUS
    <3> QED BY <2>2, <2>3, <3>1 DEF Zero
  <2>5. Spelt(t, 0, v)
    BY <2>2, <2>3, <2>4 DEF Spelt
  <2> QED BY <1>2, <2>5 DEF IsSpelt
<1>3. CASE n # 0
  <2>1. t = SwapHalf(LowDigits[n])
    BY <1>1, <1>3, itoaIs
  <2>2. n \in 1 .. Half /\ n \in 0 .. Half
    BY <1>1, <1>3
  <2>3. LowDigits[n] \in Seq(Char)
    BY <2>2, LowFalls
  <2> QED BY <2>1, <2>2, <2>3, SwapHalfIs, TurnedSpelt
<1> QED BY <1>2, <1>3

\* and for a negative one.
LEMMA itoaMinus ==
  ASSUME NEW n \in 1 .. (Half - 1), NEW t \in itoa(-n)
  PROVE  \E u : IsSpelt(u, n) /\ t = <<Minus>> \o u
<1>1. Half \in Nat /\ n \in 1 .. Half /\ n \in 0 .. Half /\ -n # -Half /\ -n # 0 /\ -n < 0 /\ -(-n) = n
  BY WordIs
<1> DEFINE s == LowDigits[n]
           m == Append(s, Minus)
           u == Turned(s)
           len == Len(s)
           minus == <<Minus>>
<1>2. t = SwapHalf(m)
  BY <1>1, itoaIs
<1>3. IsSpelt(u, n) /\ s \in Seq(Char)
  BY <1>1, LowFalls, TurnedSpelt
<1> HIDE DEF s
<1>4. /\ m \in Seq(Char) /\ Len(m) = len + 1 /\ m[len + 1] = Minus
      /\ (\A k \in 1 .. len : m[k] = s[k]) /\ len \in Nat
  <2>1. Minus \in Char
    BY CharIs
  <2> QED BY <1>3, <2>1, AppendProperties, LenProperties
<1> HIDE DEF m
<1>5. u \in Seq(Char) /\ Len(u) = len /\ \A k \in 1 .. len : u[k] = s[len + 1 - k]
  <2>1. u \in Seq(Char)
    BY <1>3 DEF IsSpelt, Spelt
  <2> QED BY <1>4, <2>1 DEF Turned
<1>6. minus \in Seq(Char) /\ Len(minus) = 1 /\ minus[1] = Minus
  BY CharIs
<1> HIDE DEF u, minus
<1>7. /\ minus \o u \in Seq(Char) /\ Len(minus \o u) = Len(minus) + Len(u)
      /\ \A k \in 1 .. Len(minus) : (minus \o u)[k] = minus[k]
      /\ \A k \in 1 .. Len(u) : (minus \o u)[Len(minus) + k] = u[k]
  BY <1>5, <1>6, JoinedAt
<1> DEFINE w == minus \o u
<1> HIDE DEF w, len
<1>8. w \in Seq(Char) /\ Len(w) = len + 1 /\ w[1] = Minus /\ \A k \in 1 .. len : w[k + 1] = u[k]
  <2>1. /\ w \in Seq(Char) /\ Len(w) = 1 + len /\ \A k \in 1 .. 1 : w[k] = minus[k]
        /\ \A k \in 1 .. len : w[1 + k] = u[k]
    BY <1>5, <1>6, <1>7 DEF w
  <2>2. w[1] = Minus
    <3>1. 1 \in 1 .. 1
      OBVIOUS
    <3> QED BY <1>6, <2>1, <3>1
  <2>3. 1 + len = len + 1 /\ \A k \in 1 .. len : k + 1 = 1 + k
    BY <1>4
  <2> QED BY <2>1, <2>2, <2>3
<1>9. t = [k \in 1 .. (len + 1) |-> m[(len + 1) + 1 - k]]
  BY <1>2, <1>4, SwapHalfIs DEF Turned
<1>10. ASSUME NEW k \in 1 .. (len + 1)
       PROVE  m[(len + 1) + 1 - k] = w[k]
  <2>1. CASE k = 1
    <3>1. (len + 1) + 1 - k = len + 1
      BY <1>4, <2>1
    <3> QED BY <1>4, <1>8, <2>1, <3>1
  <2>2. CASE k # 1
    <3> DEFINE i == k - 1
    <3>1. i \in 1 .. len /\ i + 1 = k /\ len + 1 - i \in 1 .. len /\ (len + 1) + 1 - k = len + 1 - i
      BY <1>4, <2>2
    <3> HIDE DEF i
    <3>2. w[k] = u[i] /\ u[i] = s[len + 1 - i]
      BY <1>5, <1>8, <3>1
    <3> QED BY <1>4, <3>1, <3>2
  <2> QED BY <2>1, <2>2
<1>11. w = [k \in 1 .. (len + 1) |-> w[k]]
  BY <1>8, LenProperties
<1>12. t = w
  BY <1>9, <1>10, <1>11
<1> QED BY <1>3, <1>12 DEF w, minus

\* The loop of atoi.
AtoiLoop(m, from) ==
  Loop(First(LAMBDA k : ~IsDigit(m[from + k])), 0,
       LAMBDA n, k : ToInt(ToInt(10 * n) + m[from + k] - Zero))

\* It reads the digits one by one, up to what is none.
LEMMA AtoiLoopIs ==
  ASSUME NEW m, NEW from \in Nat, NEW n \in 0 .. Size, NEW r, r[0] = 0,
         ~IsDigit(m[from + n]),
         \A k \in 1 .. n :
           /\ IsDigit(m[from + (k - 1)])
           /\ r[k] = ToInt(ToInt(10 * r[k - 1]) + m[from + (k - 1)] - Zero)
  PROVE  AtoiLoop(m, from) = r[n]
<1> DEFINE digit(k) == m[from + k]
           step(v, k) == ToInt(ToInt(10 * v) + digit(k) - Zero)
           f == [k \in 0 .. n |-> r[k]]
           run == CHOOSE run : run = [k \in 0 .. n |-> IF k = 0 THEN 0 ELSE step(run[k - 1], k - 1)]
<1>0. n \in Nat /\ Size \in Nat
  BY StringConstants DEF StringConstants
<1>1. First(LAMBDA k : ~IsDigit(digit(k))) = n
  <2>1. ~IsDigit(digit(n)) /\ \A j \in 0 .. (n - 1) : IsDigit(digit(j))
    <3> SUFFICES ASSUME NEW j \in 0 .. (n - 1)
                 PROVE  IsDigit(digit(j))
      OBVIOUS
    <3>1. j + 1 \in 1 .. n /\ (j + 1) - 1 = j
      BY <1>0
    <3> QED BY <3>1
  <2> HIDE DEF digit
  <2> QED BY <1>0, <2>1 DEF First
<1>2. AtoiLoop(m, from) = run[n]
  BY <1>1 DEF AtoiLoop, Loop
<1>3. \A k \in 1 .. n : r[k] = step(r[k - 1], k - 1)
  OBVIOUS
<1> HIDE DEF step
<1>4. f = [k \in 0 .. n |-> IF k = 0 THEN 0 ELSE step(f[k - 1], k - 1)]
  <2>1. \A k \in 1 .. n : k - 1 \in 0 .. n
    BY <1>0
  <2> QED BY <1>3, <2>1
<1>5. run = [k \in 0 .. n |-> IF k = 0 THEN 0 ELSE step(run[k - 1], k - 1)]
  <2> HIDE DEF f
  <2> QED BY <1>4
<1>6. f[0] = 0 /\ f[n] = r[n]
  BY <1>0
<1>7. f[0] = run[0]
  <2> HIDE DEF f, run
  <2> QED BY <1>0, <1>5, <1>6
<1>8. ASSUME NEW k \in 1 .. n, f[k - 1] = run[k - 1]
      PROVE  f[k] = run[k]
  <2> HIDE DEF f, run
  <2>1. k \in 0 .. n /\ k # 0
    BY <1>0
  <2>2. f[k] = step(f[k - 1], k - 1) /\ run[k] = step(run[k - 1], k - 1)
    BY <1>4, <1>5, <2>1
  <2> QED BY <1>8, <2>2
<1>9. f[n] = run[n]
  <2> HIDE DEF f, run
  <2> QED BY <1>0, <1>7, <1>8, SameRun
<1> QED BY <1>2, <1>6, <1>9

\* A numeral of n stands in a memory.
NumeralStands(m, from, t, n) ==
  IsSpelt(t, n) /\ \A k \in 1 .. Len(t) : m[from + (k - 1)] = t[k]

\* Each digit read goes on with the value of those before it.
LEMMA NumeralRuns ==
  ASSUME NEW n \in 0 .. (Half - 1), NEW m, NEW from \in Nat, NEW t, NEW v, Spelt(t, n, v),
         NumeralStands(m, from, t, n), NEW k \in 1 .. Len(t)
  PROVE  /\ IsDigit(m[from + (k - 1)])
         /\ v[k] = ToInt(ToInt(10 * v[k - 1]) + m[from + (k - 1)] - Zero)
<1>1. Half \in Nat /\ Half >= 8 /\ Len(t) \in Nat
  BY WordIs DEF Spelt
<1>2. k \in 0 .. Len(t) /\ k - 1 \in 0 .. Len(t) /\ m[from + (k - 1)] = t[k]
  BY <1>1 DEF NumeralStands
<1> DEFINE a == v[k - 1]
           b == v[k]
           c == t[k]
<1>3. a \in 0 .. n /\ b \in 0 .. n /\ c \in Zero .. (Zero + 9) /\ b = 10 * a + (c - Zero)
  BY <1>2 DEF Spelt
<1> HIDE DEF a, b, c
<1>4. IsDigit(c)
  BY <1>3 DEF IsDigit, Zero
<1>5. 10 * a \in -Half .. (Half - 1) /\ b \in -Half .. (Half - 1) /\ 10 * a \in Int /\ b \in Int
  BY <1>1, <1>3 DEF Zero
<1>6. ToInt(10 * a) = 10 * a /\ ToInt(b) = b
  BY <1>5, ToIntIs
<1>7. ToInt(10 * a) + c - Zero = b
  BY <1>3, <1>5, <1>6 DEF Zero
<1> QED BY <1>2, <1>4, <1>6, <1>7 DEF a, b, c

\* What no digit follows is read as the number it spells.
LEMMA NumeralRead ==
  ASSUME NEW n \in 0 .. (Half - 1), NEW m, NEW from \in Nat, NEW t,
         NumeralStands(m, from, t, n), ~IsDigit(m[from + Len(t)])
  PROVE  AtoiLoop(m, from) = n
<1>1. PICK v : Spelt(t, n, v)
  BY DEF NumeralStands, IsSpelt
<1> DEFINE len == Len(t)
<1>2. len \in 0 .. Size /\ v[0] = 0 /\ v[len] = n
  <2>1. len \in 1 .. (2 * HexDigits) /\ v[0] = 0 /\ v[len] = n
    BY <1>1 DEF Spelt
  <2> QED BY <2>1, StringConstants DEF StringConstants
<1>3. \A k \in 1 .. len :
        /\ IsDigit(m[from + (k - 1)])
        /\ v[k] = ToInt(ToInt(10 * v[k - 1]) + m[from + (k - 1)] - Zero)
  BY <1>1, NumeralRuns
<1>4. AtoiLoop(m, from) = v[len]
  BY <1>2, <1>3, AtoiLoopIs
<1> QED BY <1>2, <1>4

\* One more digit makes ten times the number, and itself, as an int.
LEMMA NumeralMore ==
  ASSUME NEW val \in 0 .. (Words - 1), NEW m, NEW from \in Nat, NEW t,
         NumeralStands(m, from, t, val \div 10),
         m[from + Len(t)] = Zero + (val % 10), ~IsDigit(m[from + Len(t) + 1])
  PROVE  AtoiLoop(m, from) = ToInt(val)
<1> DEFINE n == val \div 10
           d == val % 10
           len == Len(t)
<1>1. Half \in Nat /\ Words = 2 * Half /\ Half >= 8
  BY WordIs
<1>2. n \in 0 .. (Half - 1) /\ d \in 0 .. 9 /\ val = 10 * n + d
  BY <1>1
<1> HIDE DEF n, d
<1>3. PICK v : Spelt(t, n, v)
  BY DEF NumeralStands, IsSpelt, n
<1>4. len \in Nat /\ len + 1 \in 0 .. Size /\ v[0] = 0 /\ v[len] = n
  <2>1. len \in 1 .. (2 * HexDigits) /\ v[0] = 0 /\ v[len] = n
    BY <1>3 DEF Spelt
  <2> QED BY <2>1, StringConstants DEF StringConstants
<1> DEFINE r == [k \in 0 .. (len + 1) |-> IF k = len + 1 THEN ToInt(val) ELSE v[k]]
<1> HIDE DEF len
<1>5. /\ IsDigit(m[from + len])
      /\ ToInt(val) = ToInt(ToInt(10 * n) + m[from + len] - Zero)
  <2>1. m[from + len] = Zero + d
    BY DEF d, len
  <2>2. IsDigit(Zero + d)
    BY <1>2 DEF IsDigit, Zero
  <2>3. CASE 10 * n < Half
    <3>1. 10 * n \in -Half .. (Half - 1) /\ 10 * n \in Int
      BY <1>1, <1>2, <2>3
    <3>2. ToInt(10 * n) + (Zero + d) - Zero = val
      BY <1>2, <3>1, ToIntIs DEF Zero
    <3> QED BY <2>1, <2>2, <3>2
  <2>4. CASE 10 * n >= Half
    <3>1. 10 * n \in Half .. (Words - 1) /\ 10 * n \in Int
      BY <1>1, <1>2, <2>4
    <3>2. ToInt(10 * n) = 10 * n - Words
      BY <3>1, ToIntIs
    <3>3. ToInt(10 * n) + (Zero + d) - Zero = val - Words
      BY <1>1, <1>2, <3>2 DEF Zero
    <3>4. val \in Half .. (Words - 1) /\ val \in Int
      BY <1>1, <1>2, <2>4
    <3>5. ToInt(val) = val - Words
      BY <3>4, ToIntIs
    <3>6. val - Words \in -Half .. (Half - 1) /\ val - Words \in Int
      BY <1>1, <3>4
    <3>7. ToInt(val - Words) = val - Words
      BY <3>6, ToIntIs
    <3> QED BY <2>1, <2>2, <3>3, <3>5, <3>7
  <2>5. 10 * n \in Int
    BY <1>2
  <2> QED BY <1>1, <2>3, <2>4, <2>5
<1>6. ASSUME NEW k \in 1 .. (len + 1)
      PROVE  /\ IsDigit(m[from + (k - 1)])
             /\ r[k] = ToInt(ToInt(10 * r[k - 1]) + m[from + (k - 1)] - Zero)
  <2>1. k \in 0 .. (len + 1) /\ k - 1 \in 0 .. (len + 1) /\ k - 1 # len + 1
    BY <1>4
  <2>2. r[k - 1] = v[k - 1]
    BY <2>1
  <2>3. CASE k = len + 1
    <3>1. r[k] = ToInt(val) /\ k - 1 = len
      BY <1>4, <2>1, <2>3
    <3> HIDE DEF r
    <3> QED BY <1>4, <1>5, <2>2, <3>1
  <2>4. CASE k # len + 1
    <3>1. r[k] = v[k] /\ k \in 1 .. len
      BY <1>4, <2>1, <2>4
    <3> HIDE DEF r
    <3>2. /\ IsDigit(m[from + (k - 1)])
          /\ v[k] = ToInt(ToInt(10 * v[k - 1]) + m[from + (k - 1)] - Zero)
      BY <1>2, <1>3, <3>1, NumeralRuns DEF n, len
    <3> QED BY <2>2, <3>1, <3>2
  <2> QED BY <2>3, <2>4
<1>7. r[0] = 0 /\ r[len + 1] = ToInt(val)
  BY <1>4
<1>8. ~IsDigit(m[from + (len + 1)])
  <2>1. from + (len + 1) = from + len + 1
    BY <1>4
  <2> QED BY <2>1 DEF len
<1> HIDE DEF r
<1>9. AtoiLoop(m, from) = r[len + 1]
  BY <1>4, <1>6, <1>7, <1>8, AtoiLoopIs
<1> QED BY <1>7, <1>9

\* Where atoi's loop begins, and what it makes of a minus sign.
LEMMA atoiIs ==
  ASSUME NEW m
  PROVE  /\ IsDigit(m[1]) => atoi(m, 1) = AtoiLoop(m, 1)
         /\ m[1] = SP /\ m[2] = TAB /\ IsDigit(m[3]) => atoi(m, 1) = AtoiLoop(m, 3)
         /\ m[1] = SP /\ m[2] = TAB /\ m[3] = Minus => atoi(m, 1) = ToInt(-AtoiLoop(m, 4))
<1> DEFINE Space == {10, TAB, 11, SP, 12, 13}
           start == First(LAMBDA k : m[1 + k] \notin Space)
           i == 1 + start
           from == IF m[i] \in {Plus, Minus} THEN i + 1 ELSE i
<1>1. atoi(m, 1) = IF m[i] = Minus THEN ToInt(-AtoiLoop(m, from)) ELSE AtoiLoop(m, from)
  BY DEF atoi, AtoiLoop
<1>2. Size \in Nat /\ Size >= 2
  BY WordIs, StringConstants DEF StringConstants
<1>3. SP \in Space /\ TAB \in Space /\ Minus \notin Space
  BY DEF SP, TAB, Minus
<1>4. \A c : IsDigit(c) => c \notin Space /\ c \notin {Plus, Minus}
  BY DEF IsDigit, SP, TAB, Zero, Plus, Minus
<1> HIDE DEF Space
<1>5. ASSUME m[1] \notin Space
      PROVE  start = 0
  BY <1>2, <1>5 DEF First
<1>6. ASSUME m[1] \in Space, m[2] \in Space, m[3] \notin Space
      PROVE  start = 2
  <2>1. 2 \in 0 .. Size /\ m[1 + 2] \notin Space /\ \A j \in 0 .. (2 - 1) : ~(m[1 + j] \notin Space)
    <3>1. \A j \in 0 .. (2 - 1) : j = 0 \/ j = 1
      OBVIOUS
    <3>2. 1 + 0 = 1 /\ 1 + 1 = 2 /\ 1 + 2 = 3
      OBVIOUS
    <3> QED BY <1>2, <1>6, <3>1, <3>2
  <2> DEFINE Solid(k) == m[1 + k] \notin Space
  <2>2. 2 \in 0 .. Size /\ Solid(2) /\ \A j \in 0 .. (2 - 1) : ~Solid(j)
    BY <2>1
  <2> HIDE DEF Solid
  <2>3. \A k \in 0 .. Size : Solid(k) /\ (\A j \in 0 .. (k - 1) : ~Solid(j)) => k = 2
    <3> SUFFICES ASSUME NEW k \in 0 .. Size, Solid(k), \A j \in 0 .. (k - 1) : ~Solid(j)
                 PROVE  k = 2
      OBVIOUS
    <3>1. k \in Nat /\ ~(2 \in 0 .. (k - 1)) /\ ~(k \in 0 .. (2 - 1))
      BY <1>2, <2>2
    <3> QED BY <3>1
  <2>4. First(Solid) = 2
    BY <2>2, <2>3 DEF First
  <2> QED BY <2>4 DEF Solid
<1> HIDE DEF start
<1>7. ASSUME IsDigit(m[1])
      PROVE  atoi(m, 1) = AtoiLoop(m, 1)
  <2>1. i = 1 /\ from = 1 /\ m[i] # Minus
    BY <1>4, <1>5, <1>7
  <2> HIDE DEF from, i
  <2> QED BY <1>1, <2>1
<1>8. ASSUME m[1] = SP, m[2] = TAB, IsDigit(m[3])
      PROVE  atoi(m, 1) = AtoiLoop(m, 3)
  <2>1. start = 2
    BY <1>3, <1>4, <1>6, <1>8
  <2>2. i = 3
    BY <2>1
  <2>3. from = 3 /\ m[i] # Minus
    BY <1>4, <1>8, <2>2
  <2> HIDE DEF from, i
  <2> QED BY <1>1, <2>3
<1>9. ASSUME m[1] = SP, m[2] = TAB, m[3] = Minus
      PROVE  atoi(m, 1) = ToInt(-AtoiLoop(m, 4))
  <2>1. start = 2
    BY <1>3, <1>6, <1>9
  <2>2. i = 3
    BY <2>1
  <2>3. from = 4 /\ m[i] = Minus
    BY <1>9, <2>2
  <2> HIDE DEF from, i
  <2> QED BY <1>1, <2>3
<1> QED BY <1>7, <1>8, <1>9

\* A text between blanks and a sign.
LEMMA FramedAt ==
  ASSUME NEW t \in Seq(Char)
  PROVE  LET m == Stored(<<SP, TAB>> \o t \o <<Minus>>)
         IN  /\ m[1] = SP /\ m[2] = TAB /\ m[3 + Len(t)] = Minus
             /\ \A k \in 1 .. Len(t) : m[2 + k] = t[k]
<1> DEFINE blanks == <<SP, TAB>>
           minus == <<Minus>>
           s == blanks \o t
           u == s \o minus
           m == Stored(u)
           len == Len(t)
<1>1. /\ blanks \in Seq(Char) /\ Len(blanks) = 2 /\ blanks[1] = SP /\ blanks[2] = TAB
      /\ minus \in Seq(Char) /\ Len(minus) = 1 /\ minus[1] = Minus /\ len \in Nat
  BY CharIs, LenProperties
<1> HIDE DEF blanks, minus
<1>2. /\ s \in Seq(Char) /\ Len(s) = 2 + len
      /\ (\A k \in 1 .. 2 : s[k] = blanks[k]) /\ \A k \in 1 .. len : s[2 + k] = t[k]
  <2>1. /\ s \in Seq(Char) /\ Len(s) = Len(blanks) + Len(t)
        /\ (\A k \in 1 .. Len(blanks) : s[k] = blanks[k])
        /\ \A k \in 1 .. Len(t) : s[Len(blanks) + k] = t[k]
    BY <1>1, JoinedAt
  <2> HIDE DEF s
  <2> QED BY <1>1, <2>1
<1> HIDE DEF s, len
<1>3. /\ u \in Seq(Char) /\ Len(u) = 3 + len
      /\ (\A k \in 1 .. (2 + len) : u[k] = s[k]) /\ u[3 + len] = Minus
  <2>1. /\ u \in Seq(Char) /\ Len(u) = Len(s) + Len(minus)
        /\ (\A k \in 1 .. Len(s) : u[k] = s[k])
        /\ \A k \in 1 .. Len(minus) : u[Len(s) + k] = minus[k]
    BY <1>1, <1>2, JoinedAt
  <2>2. 1 \in 1 .. Len(minus) /\ Len(s) + 1 = 3 + len /\ Len(s) + Len(minus) = 3 + len
    BY <1>1, <1>2
  <2> HIDE DEF u
  <2>3. u[3 + len] = Minus
    BY <1>1, <2>1, <2>2
  <2> QED BY <1>2, <2>1, <2>2, <2>3
<1> HIDE DEF u
<1>4. \A k \in 1 .. (3 + len) : m[k] = u[k]
  BY <1>3, StoredAt
<1> HIDE DEF m
<1>5. ASSUME NEW k \in 1 .. (2 + len)
      PROVE  m[k] = s[k]
  <2>1. k \in 1 .. (3 + len)
    BY <1>1
  <2> QED BY <1>3, <1>4, <2>1
<1>6. m[1] = SP /\ m[2] = TAB
  <2>1. 1 \in 1 .. 2 /\ 2 \in 1 .. 2 /\ 1 \in 1 .. (2 + len) /\ 2 \in 1 .. (2 + len)
    BY <1>1
  <2>2. s[1] = SP /\ s[2] = TAB
    BY <1>1, <1>2, <2>1
  <2> QED BY <1>5, <2>1, <2>2
<1>7. m[3 + len] = Minus
  <2>1. 3 + len \in 1 .. (3 + len)
    BY <1>1
  <2> QED BY <1>3, <1>4, <2>1
<1>8. ASSUME NEW k \in 1 .. len
      PROVE  m[2 + k] = t[k]
  <2>1. 2 + k \in 1 .. (2 + len)
    BY <1>1
  <2> QED BY <1>2, <1>5, <2>1
<1> QED BY <1>6, <1>7, <1>8 DEF m, u, s, blanks, minus, len

\* What is not a digit.
LEMMA NoDigits ==
  ~IsDigit(Minus) /\ ~IsDigit(NUL) /\ ~IsDigit(Zero - 8)
BY DEF IsDigit, Minus, NUL, Zero

\* A numeral has a digit, and digits only.
LEMMA SpeltDigits ==
  ASSUME NEW t, NEW n, IsSpelt(t, n)
  PROVE  t \in Seq(Char) /\ Len(t) \in Nat /\ Len(t) >= 1 /\ IsDigit(t[1])
<1>1. /\ t \in Seq(Char) /\ Len(t) \in 1 .. (2 * HexDigits) /\ HexDigits \in Nat
      /\ \A k \in 1 .. Len(t) : t[k] \in Zero .. (Zero + 9)
  BY WordIs DEF IsSpelt, Spelt
<1>2. 1 \in 1 .. Len(t) /\ Len(t) \in Nat
  BY <1>1
<1>3. t[1] \in Zero .. (Zero + 9)
  BY <1>1, <1>2
<1>4. IsDigit(t[1])
  BY <1>3 DEF IsDigit, Zero
<1> QED BY <1>1, <1>2, <1>4

\* An int that is shown is read back,
LEMMA IntRead ==
  ASSUME NEW n \in 0 .. (Half - 1), NEW t, IsSpelt(t, n)
  PROVE  atoi(Stored(<<SP, TAB>> \o t \o <<Minus>>), 1) = n
<1> DEFINE m == Stored(<<SP, TAB>> \o t \o <<Minus>>)
<1>1. t \in Seq(Char) /\ Len(t) \in Nat /\ Len(t) >= 1 /\ IsDigit(t[1])
  BY SpeltDigits
<1>2. /\ m[1] = SP /\ m[2] = TAB /\ m[3 + Len(t)] = Minus
      /\ \A k \in 1 .. Len(t) : m[2 + k] = t[k]
  BY <1>1, FramedAt
<1> HIDE DEF m
<1>3. IsDigit(m[3])
  <2>1. 1 \in 1 .. Len(t) /\ 2 + 1 = 3
    BY <1>1
  <2> QED BY <1>1, <1>2, <2>1
<1>4. NumeralStands(m, 3, t, n)
  <2>1. \A k \in 1 .. Len(t) : 3 + (k - 1) = 2 + k
    BY <1>1
  <2> QED BY <1>2, <2>1 DEF NumeralStands
<1>5. AtoiLoop(m, 3) = n
  BY <1>2, <1>4, NoDigits, NumeralRead
<1> QED BY <1>2, <1>3, <1>5, atoiIs DEF m

\* also a negative one,
LEMMA MinusRead ==
  ASSUME NEW n \in 1 .. (Half - 1), NEW u, IsSpelt(u, n)
  PROVE  atoi(Stored(<<SP, TAB>> \o (<<Minus>> \o u) \o <<Minus>>), 1) = -n
<1> DEFINE minus == <<Minus>>
           t == minus \o u
           m == Stored(<<SP, TAB>> \o t \o <<Minus>>)
<1>0. Half \in Nat /\ n \in 0 .. (Half - 1) /\ -n \in -Half .. (Half - 1) /\ -n \in Int
  BY WordIs
<1>1. u \in Seq(Char) /\ Len(u) \in Nat /\ Len(u) >= 1 /\ IsDigit(u[1])
  BY SpeltDigits
<1>2. minus \in Seq(Char) /\ Len(minus) = 1 /\ minus[1] = Minus
  BY CharIs
<1> HIDE DEF minus
<1>3. /\ t \in Seq(Char) /\ Len(t) = 1 + Len(u) /\ t[1] = Minus
      /\ \A k \in 1 .. Len(u) : t[1 + k] = u[k]
  <2>1. /\ t \in Seq(Char) /\ Len(t) = Len(minus) + Len(u)
        /\ (\A k \in 1 .. Len(minus) : t[k] = minus[k])
        /\ \A k \in 1 .. Len(u) : t[Len(minus) + k] = u[k]
    BY <1>1, <1>2, JoinedAt
  <2>2. 1 \in 1 .. Len(minus)
    BY <1>2
  <2> HIDE DEF t
  <2> QED BY <1>2, <2>1, <2>2
<1> HIDE DEF t
<1>4. /\ m[1] = SP /\ m[2] = TAB /\ m[3 + Len(t)] = Minus
      /\ \A k \in 1 .. Len(t) : m[2 + k] = t[k]
  BY <1>3, FramedAt
<1> HIDE DEF m
<1>5. m[3] = Minus
  <2>1. 1 \in 1 .. Len(t) /\ 2 + 1 = 3
    BY <1>1, <1>3
  <2> QED BY <1>3, <1>4, <2>1
<1>6. \A k \in 1 .. Len(u) : m[4 + (k - 1)] = u[k]
  <2> SUFFICES ASSUME NEW k \in 1 .. Len(u)
               PROVE  m[4 + (k - 1)] = u[k]
    OBVIOUS
  <2>1. 1 + k \in 1 .. Len(t) /\ 2 + (1 + k) = 4 + (k - 1)
    BY <1>1, <1>3
  <2> QED BY <1>3, <1>4, <2>1
<1>7. NumeralStands(m, 4, u, n)
  BY <1>6 DEF NumeralStands
<1>8. m[4 + Len(u)] = Minus
  <2>1. 4 + Len(u) = 3 + Len(t)
    BY <1>1, <1>3
  <2> QED BY <1>4, <2>1
<1>9. AtoiLoop(m, 4) = n
  BY <1>0, <1>7, <1>8, NoDigits, NumeralRead
<1>10. atoi(m, 1) = -n
  <2>1. ToInt(-n) = -n
    BY <1>0, ToIntIs
  <2> QED BY <1>4, <1>5, <1>9, <2>1, atoiIs
<1> QED BY <1>10 DEF m, t, minus

\* but for the least one, of which atoi sees no digit.
LEMMA LeastRead ==
  ASSUME NEW t \in {<<Minus>>, <<Minus, Zero - 8>>}
  PROVE  atoi(Stored(<<SP, TAB>> \o t \o <<Minus>>), 1) = 0
<1> DEFINE m == Stored(<<SP, TAB>> \o t \o <<Minus>>)
<1>0. Half \in Nat /\ Half >= 8 /\ Size \in Nat
  BY WordIs, StringConstants DEF StringConstants
<1>1. /\ t \in Seq(Char) /\ t[1] = Minus
      /\ (Len(t) = 1 \/ (Len(t) = 2 /\ t[2] = Zero - 8))
  <2>0. Minus \in Char /\ Zero - 8 \in Char
    BY DEF Char, Minus, Zero
  <2>1. CASE t = <<Minus>>
    BY <2>0, <2>1
  <2>2. CASE t = <<Minus, Zero - 8>>
    BY <2>0, <2>2
  <2> QED BY <2>1, <2>2
<1>2. /\ m[1] = SP /\ m[2] = TAB /\ m[3 + Len(t)] = Minus
      /\ \A k \in 1 .. Len(t) : m[2 + k] = t[k]
  BY <1>1, FramedAt
<1> HIDE DEF m
<1>3. m[3] = Minus
  <2>1. 1 \in 1 .. Len(t) /\ 2 + 1 = 3
    BY <1>1
  <2> QED BY <1>1, <1>2, <2>1
<1>4. m[4] = Minus \/ m[4] = Zero - 8
  <2>1. CASE Len(t) = 1
    <3>1. 3 + Len(t) = 4
      BY <2>1
    <3> QED BY <1>2, <3>1
  <2>2. CASE Len(t) = 2
    <3>1. 2 \in 1 .. Len(t) /\ 2 + 2 = 4
      BY <2>2
    <3> QED BY <1>1, <1>2, <2>2, <3>1
  <2> QED BY <1>1, <2>1, <2>2
<1>5. AtoiLoop(m, 4) = 0
  <2> DEFINE r == [k \in 0 .. 0 |-> 0]
  <2>1. r[0] = 0 /\ 4 + 0 = 4 /\ 0 \in 0 .. Size /\ 4 \in Nat
    BY <1>0
  <2> HIDE DEF r
  <2>2. ~IsDigit(m[4 + 0])
    BY <1>4, <2>1, NoDigits
  <2>3. \A k \in 1 .. 0 : FALSE
    OBVIOUS
  <2> QED BY <2>1, <2>2, <2>3, AtoiLoopIs
<1>6. atoi(m, 1) = 0
  <2>1. 0 \in -Half .. (Half - 1) /\ 0 \in Int
    BY <1>0
  <2>2. ToInt(0) = 0
    BY <2>1, ToIntIs
  <2>3. \A z \in Int : z >= 0 /\ z <= 0 => -z = 0
    OBVIOUS
  <2>4. atoi(m, 1) = ToInt(-AtoiLoop(m, 4))
    BY <1>2, <1>3, atoiIs
  <2>5. -AtoiLoop(m, 4) = 0
    BY <1>5, <2>1, <2>3
  <2> QED BY <2>2, <2>4, <2>5
<1> QED BY <1>6 DEF m

\* What itoa makes of a word that is taken for an int.
LEMMA WordShown ==
  ASSUME NEW val \in 0 .. (Words - 1), NEW t \in itoa(ToInt(val))
  PROVE  \/ val < Half /\ ToInt(val) = val /\ IsSpelt(t, val)
         \/ val = Half /\ ToInt(val) = -Half /\ t \in {<<Minus>>, <<Minus, Zero - 8>>}
         \/ /\ val > Half /\ Words - val \in 1 .. (Half - 1) /\ ToInt(val) = -(Words - val)
            /\ \E u : IsSpelt(u, Words - val) /\ t = <<Minus>> \o u
<1>1. Half \in Nat /\ Half >= 8 /\ Words = 2 * Half /\ val \in Int
  BY WordIs
<1>2. CASE val < Half
  <2>1. val \in 0 .. (Half - 1) /\ val \in -Half .. (Half - 1)
    BY <1>1, <1>2
  <2>2. ToInt(val) = val
    BY <1>1, <2>1, ToIntIs
  <2> QED BY <1>2, <2>1, <2>2, itoaSpelt
<1>3. CASE val = Half
  <2>1. val \in Half .. (Words - 1) /\ val - Words = -Half
    BY <1>1, <1>3
  <2>2. ToInt(val) = -Half
    BY <1>1, <2>1, ToIntIs
  <2> QED BY <1>3, <2>2, itoaIs
<1>4. CASE val > Half
  <2> DEFINE n == Words - val
  <2>1. val \in Half .. (Words - 1) /\ val - Words = -n /\ n \in 1 .. (Half - 1)
    BY <1>1, <1>4
  <2>2. ToInt(val) = -n
    BY <1>1, <2>1, ToIntIs
  <2> HIDE DEF n
  <2>3. \E u : IsSpelt(u, n) /\ t = <<Minus>> \o u
    BY <2>1, <2>2, itoaMinus
  <2> QED BY <1>4, <2>1, <2>2, <2>3 DEF n
<1> QED BY <1>1, <1>2, <1>3, <1>4

\* A word that is shown in two parts, ten times the first and one digit, is read
\* as its int.
LEMMA PartsRead ==
  ASSUME NEW val \in 0 .. (Words - 1), NEW t \in itoa(val \div 10)
  PROVE  atoi(Stored(t \o <<Zero + (val % 10)>>), 1) = ToInt(val)
<1> DEFINE n == val \div 10
           c == Zero + (val % 10)
           one == <<c>>
           u == t \o one
           m == Stored(u)
<1>0. n \in 0 .. (Half - 1) /\ c \in Nat
  BY WordIs DEF Zero
<1>1. IsSpelt(t, n)
  BY <1>0, itoaSpelt
<1>2. t \in Seq(Char) /\ Len(t) \in Nat /\ Len(t) >= 1 /\ IsDigit(t[1])
  BY <1>1, SpeltDigits
<1>3. one \in Seq(Char) /\ Len(one) = 1 /\ one[1] = c
  <2>1. val \in Nat /\ val % 10 \in 0 .. 9
    BY WordIs
  <2>2. c \in Char
    BY <2>1, CharIs
  <2> HIDE DEF c
  <2> QED BY <2>2
<1> HIDE DEF n, c, one
<1>4. /\ u \in Seq(Char) /\ Len(u) = Len(t) + 1 /\ u[Len(t) + 1] = c
      /\ \A k \in 1 .. Len(t) : u[k] = t[k]
  <2>1. /\ u \in Seq(Char) /\ Len(u) = Len(t) + Len(one)
        /\ (\A k \in 1 .. Len(t) : u[k] = t[k])
        /\ \A k \in 1 .. Len(one) : u[Len(t) + k] = one[k]
    BY <1>2, <1>3, JoinedAt
  <2>2. 1 \in 1 .. Len(one)
    BY <1>3
  <2> HIDE DEF u
  <2> QED BY <1>3, <2>1, <2>2
<1> HIDE DEF u
<1>5. (\A k \in 1 .. Len(u) : m[k] = u[k]) /\ m[Len(u) + 1] = NUL
  BY <1>4, StoredAt
<1> HIDE DEF m
<1>6. ASSUME NEW k \in 1 .. Len(t)
      PROVE  m[k] = t[k]
  <2>1. k \in 1 .. Len(u)
    BY <1>2, <1>4
  <2> QED BY <1>4, <1>5, <2>1
<1>7. IsDigit(m[1])
  <2>1. 1 \in 1 .. Len(t)
    BY <1>2
  <2> QED BY <1>2, <1>6, <2>1
<1>8. NumeralStands(m, 1, t, n)
  <2>1. \A k \in 1 .. Len(t) : 1 + (k - 1) = k
    BY <1>2
  <2> QED BY <1>1, <1>6, <2>1 DEF NumeralStands
<1>9. m[1 + Len(t)] = c
  <2>1. 1 + Len(t) = Len(t) + 1 /\ Len(t) + 1 \in 1 .. Len(u)
    BY <1>2, <1>4
  <2> QED BY <1>4, <1>5, <2>1
<1>10. m[1 + Len(t) + 1] = NUL
  <2>1. 1 + Len(t) + 1 = Len(u) + 1
    BY <1>2, <1>4
  <2> QED BY <1>5, <2>1
<1>11. AtoiLoop(m, 1) = ToInt(val)
  <2>1. 1 \in Nat /\ ~IsDigit(m[1 + Len(t) + 1])
    BY <1>10, NoDigits
  <2>2. NumeralStands(m, 1, t, val \div 10) /\ m[1 + Len(t)] = Zero + (val % 10)
    BY <1>8, <1>9 DEF n, c
  <2> QED BY <2>1, <2>2, NumeralMore
<1> QED BY <1>7, <1>11, atoiIs DEF m, u, one, c

\* Every word that is shown in decimal is read back as the int it is taken for,
\* but for the least one; it is shown as itself if an int has room for it, and one
\* digit more is read modulo the number of words.
THEOREM DecimalHolds ==
  ASSUME NEW val \in 0 .. (Words - 1)
  PROVE  DecimalAgrees(val)
<1>1. Half \in Nat /\ Half >= 8 /\ Words = 2 * Half /\ Words \in Nat
  BY WordIs
<1>2. ASSUME NEW t \in itoa(ToInt(val))
      PROVE  /\ val # Half <=> atoi(Stored(<<SP, TAB>> \o t \o <<Minus>>), 1) = ToInt(val)
             /\ IsNumeral(t, val) <=> val < Half
  <2>1. CASE val < Half /\ ToInt(val) = val /\ IsSpelt(t, val)
    <3>1. val \in 0 .. (Half - 1) /\ val \in Nat /\ val # Half
      BY <1>1, <2>1
    <3>2. IsNumeral(t, val)
      <4>1. PICK v : Spelt(t, val, v)
        BY <2>1 DEF IsSpelt
      <4> QED BY <3>1, <4>1, NumeralIs
    <3>3. atoi(Stored(<<SP, TAB>> \o t \o <<Minus>>), 1) = val
      BY <2>1, <3>1, IntRead
    <3> QED BY <2>1, <3>1, <3>2, <3>3
  <2>2. CASE val = Half /\ ToInt(val) = -Half /\ t \in {<<Minus>>, <<Minus, Zero - 8>>}
    <3>1. ~IsNumeral(t, val)
      <4>1. 1 \in DOMAIN t /\ t[1] = Minus
        BY <2>2
      <4> QED BY <4>1, NoDigits DEF IsNumeral
    <3>2. atoi(Stored(<<SP, TAB>> \o t \o <<Minus>>), 1) = 0
      BY <2>2, LeastRead
    <3>3. 0 # -Half /\ ~(val < Half)
      BY <1>1, <2>2
    <3> QED BY <2>2, <3>1, <3>2, <3>3
  <2>3. CASE /\ val > Half /\ Words - val \in 1 .. (Half - 1) /\ ToInt(val) = -(Words - val)
             /\ \E u : IsSpelt(u, Words - val) /\ t = <<Minus>> \o u
    <3>1. PICK u : IsSpelt(u, Words - val) /\ t = <<Minus>> \o u
      BY <2>3
    <3>2. ~IsNumeral(t, val)
      <4> DEFINE minus == <<Minus>>
      <4>1. minus \in Seq(Char) /\ Len(minus) = 1 /\ minus[1] = Minus
        BY CharIs
      <4>2. u \in Seq(Char) /\ Len(u) \in Nat
        BY <3>1, SpeltDigits
      <4> HIDE DEF minus
      <4>3. /\ minus \o u \in Seq(Char) /\ Len(minus \o u) = Len(minus) + Len(u)
            /\ \A k \in 1 .. Len(minus) : (minus \o u)[k] = minus[k]
        BY <4>1, <4>2, JoinedAt
      <4>4. t = minus \o u
        BY <3>1 DEF minus
      <4>5. 1 \in 1 .. Len(minus) /\ 1 \in 1 .. Len(t)
        BY <4>1, <4>2, <4>3, <4>4
      <4>6. t[1] = Minus
        BY <4>1, <4>3, <4>4, <4>5
      <4>7. 1 \in DOMAIN t
        BY <4>3, <4>4, <4>5, LenProperties
      <4> QED BY <4>6, <4>7, NoDigits DEF IsNumeral
    <3>3. atoi(Stored(<<SP, TAB>> \o t \o <<Minus>>), 1) = ToInt(val)
      BY <2>3, <3>1, MinusRead
    <3>4. val # Half /\ ~(val < Half)
      BY <1>1, <2>3
    <3> QED BY <3>2, <3>3, <3>4
  <2> QED BY <2>1, <2>2, <2>3, WordShown
<1>3. \A t \in itoa(val \div 10) : atoi(Stored(t \o <<Zero + (val % 10)>>), 1) = ToInt(val)
  BY PartsRead
<1>4. ASSUME NEW out \in print_unit(val, "unit")
      PROVE  IsNumeral(out[1][2], val) <=> val < Half
  <2>1. PICK t \in itoa(ToInt(val)) : out = <<<<"number", t>>, <<"unit", "unit">>>>
    BY DEF print_unit
  <2>2. out[1][2] = t
    BY <2>1
  <2> QED BY <1>2, <2>2
<1> QED BY <1>2, <1>3, <1>4 DEF DecimalAgrees

-----------------------------------------------------------------------------
\* The line is cut into its words.

Cells == BufferSize + 2 * NameSize

\* What the constants are.
LEMMA Sizes ==
  /\ BufferSize \in Nat \ {0} /\ NameSize \in Nat \ {0} /\ MaxArgs \in Nat \ {0}
  /\ Size \in Nat /\ Cells \in 0 .. Size /\ BufferSize \in 0 .. Size /\ Cells \in Nat
  /\ DefaultUser \in Seq(Char) /\ DefaultOs \in Seq(Char) /\ Lines \subseteq Seq(Char)
  /\ \A line \in Lines : Len(line) < BufferSize
<1>1. /\ {BufferSize, NameSize, MaxArgs, MaxDump, Sixty, Bytes} \subseteq Nat \ {0}
      /\ BufferSize + 2 * NameSize <= Size
      /\ Lines \cup {DefaultUser, DefaultOs} \subseteq Seq(Char)
      /\ \A line \in Lines : Len(line) < BufferSize
  BY CommandConstants, Zenon DEF CommandConstants
<1>2. BufferSize \in Nat \ {0} /\ NameSize \in Nat \ {0} /\ MaxArgs \in Nat \ {0}
  BY <1>1
<1>3. DefaultUser \in Seq(Char) /\ DefaultOs \in Seq(Char) /\ Lines \subseteq Seq(Char)
  BY <1>1, Zenon
<1>4. Size \in Nat
  BY StringConstants DEF StringConstants
<1>5. Cells \in 0 .. Size /\ BufferSize \in 0 .. Size /\ Cells \in Nat
  BY <1>1, <1>2, <1>4 DEF Cells
<1> QED BY <1>1, <1>2, <1>3, <1>4, <1>5

\* One more word.
NextWord(p) ==
  LET end == p.at + First(LAMBDA j : p.mem[p.at + j] \in {NUL, SP})
  IN  IF p.mem[p.at] = NUL THEN p
      ELSE [mem  |-> WordEnded(p.mem, end),
            at   |-> end + First(LAMBDA j : p.mem[end + j] # SP),
            args |-> Append(p.args, p.at)]

\* A string without its outer blanks, and the places where its words begin.
Bare(t, a, z) ==
  /\ t \in Memory(Cells) /\ a \in 1 .. BufferSize /\ z \in a .. BufferSize /\ Ends(t, a, z)
  /\ a < z => t[a] # SP
Begins(t, a, z) == {i \in a .. (z - 1) : t[i] # SP /\ (i = a \/ t[i - 1] = SP)}

\* How many elements of S are not greater than k.
Rank(S, k) == Cardinality({j \in S : j <= k})

\* The word that begins at i ends at f, and the memory m has it there with its NUL.
WordTo(t, m, i, f) ==
  /\ f > i /\ t[f] \in {SP, NUL} /\ m[f] = NUL
  /\ \A j \in i .. (f - 1) : t[j] # SP /\ m[j] = t[j]

\* What is cut out so far: the words that begin before p.at, one behind the other.
CutOut(t, a, z, k, p) ==
  /\ p.mem \in Memory(Cells) /\ p.at \in a .. z /\ (p.at < z => p.at \in Begins(t, a, z))
  /\ \A i \in 1 .. Cells : i < a \/ i >= p.at => p.mem[i] = t[i]
  /\ p.args \in Seq(a .. (z - 1)) /\ Len(p.args) <= k /\ (Len(p.args) < k => p.at = z)
  /\ Cardinality({j \in Begins(t, a, z) : j < p.at}) = Len(p.args)
  /\ \A n \in 1 .. Len(p.args) :
       /\ p.args[n] \in Begins(t, a, z) /\ Rank(Begins(t, a, z), p.args[n]) = n
       /\ \E f \in a .. p.at : WordTo(t, p.mem, p.args[n], f)

\* The word at p.at, and where the next one begins.
Passed(t, a, z, p, f, g) ==
  /\ f \in (p.at + 1) .. z /\ g \in f .. z
  /\ NextWord(p) = [mem |-> IF p.mem[f] = SP THEN [p.mem EXCEPT ![f] = NUL] ELSE p.mem,
                    at |-> g, args |-> Append(p.args, p.at)]
  /\ t[f] \in {SP, NUL} /\ \A j \in p.at .. (f - 1) : t[j] # SP
  /\ t[g] # SP /\ \A j \in f .. (g - 1) : t[j] = SP

\* Cutting out the word at p.at passes it and the spaces behind it.
LEMMA WordPassed ==
  ASSUME NEW t, NEW a, NEW z, Bare(t, a, z), NEW k \in Nat, NEW p, CutOut(t, a, z, k, p), p.at < z
  PROVE  \E f, g \in Int : Passed(t, a, z, p, f, g)
<1> DEFINE m == p.mem
           b == p.at
           P(j) == m[b + j] \in {NUL, SP}
           end == b + First(P)
           Q(j) == m[end + j] # SP
<1>1. /\ a \in Nat /\ z \in Nat /\ b \in Nat /\ a >= 1 /\ a <= b /\ b < z /\ z <= Cells
      /\ z - b \in Nat /\ z - b <= Size /\ Size \in Nat /\ t[z] = NUL /\ Cells \in Nat
      /\ \A i \in a .. (z - 1) : t[i] # NUL
  <2>1. b \in a .. z
    BY DEF CutOut
  <2>2. a \in 1 .. BufferSize /\ z \in a .. BufferSize /\ t[z] = NUL /\ \A i \in a .. (z - 1) : t[i] # NUL
    BY DEF Bare, Ends
  <2>3. BufferSize \in Nat /\ BufferSize <= Cells /\ Cells \in Nat /\ Cells <= Size /\ Size \in Nat
    BY Sizes DEF Cells
  <2> HIDE DEF b
  <2>4. b < z
    BY DEF b
  <2> QED BY <2>1, <2>2, <2>3, <2>4
<1>2. \A i \in b .. z : m[i] = t[i]
  <2>1. \A i \in 1 .. Cells : i < a \/ i >= b => m[i] = t[i]
    BY DEF CutOut
  <2> HIDE DEF b, m
  <2>2. \A i \in b .. z : i \in 1 .. Cells /\ i >= b
    BY <1>1
  <2> QED BY <2>1, <2>2
<1>3. NextWord(p) = IF m[b] = NUL THEN p
                    ELSE [mem |-> WordEnded(m, end), at |-> end + First(Q), args |-> Append(p.args, b)]
  BY DEF NextWord
<1>4. m[b] # NUL /\ m[b] # SP
  <2>1. b \in Begins(t, a, z)
    BY DEF CutOut
  <2> HIDE DEF b, m
  <2>2. b \in a .. (z - 1) /\ t[b] # SP /\ b \in b .. z
    BY <1>1, <2>1 DEF Begins
  <2> QED BY <1>1, <1>2, <2>2
<1> HIDE DEF m, b
<1>5. PICK k1 \in 0 .. (z - b) : First(P) = k1 /\ P(k1) /\ \A j \in 0 .. (k1 - 1) : ~P(j)
  <2> DEFINE T == {j \in 0 .. (z - b) : P(j)}
  <2>1. z - b \in T
    BY <1>1, <1>2
  <2>2. PICK k1 \in 0 .. (z - b) : k1 \in T /\ \A j \in 0 .. (k1 - 1) : j \notin T
    <3> HIDE DEF T
    <3> QED BY <1>1, <2>1, Stops
  <2> HIDE DEF P
  <2>3. k1 \in 0 .. Size /\ P(k1) /\ \A j \in 0 .. (k1 - 1) : ~P(j)
    BY <1>1, <2>2
  <2> HIDE DEF T
  <2>4. \A x \in 0 .. Size : (P(x) /\ \A j \in 0 .. (x - 1) : ~P(j)) => x = k1
    BY <1>1, <2>3
  <2>5. First(P) = k1
    BY <2>3, <2>4 DEF First
  <2> QED BY <2>3, <2>5
<1> DEFINE f == b + k1
<1>6. end = f /\ f \in b .. z /\ m[f] \in {NUL, SP} /\ \A j \in b .. (f - 1) : m[j] \notin {NUL, SP}
  <2>1. ASSUME NEW j \in b .. (f - 1)
        PROVE  m[j] \notin {NUL, SP}
    <3>1. j - b \in 0 .. (k1 - 1) /\ b + (j - b) = j
      BY <1>1, <1>5
    <3> QED BY <1>5, <3>1
  <2> QED BY <1>1, <1>5, <2>1
<1>7. f # b
  BY <1>4, <1>6
<1>8. f \in (b + 1) .. z /\ z - f \in Nat /\ z - f <= Size /\ f \in Int
  BY <1>1, <1>6, <1>7
<1> HIDE DEF f, end, P
<1>9. PICK k2 \in 0 .. (z - f) : First(Q) = k2 /\ Q(k2) /\ \A j \in 0 .. (k2 - 1) : ~Q(j)
  <2> DEFINE T == {j \in 0 .. (z - f) : Q(j)}
  <2>1. z - f \in T
    <3>1. m[z] = NUL /\ f + (z - f) = z
      BY <1>1, <1>2, <1>8
    <3> QED BY <1>6, <1>8, <3>1 DEF NUL, SP
  <2>2. PICK k2 \in 0 .. (z - f) : k2 \in T /\ \A j \in 0 .. (k2 - 1) : j \notin T
    <3> HIDE DEF T
    <3> QED BY <1>8, <2>1, Stops
  <2> HIDE DEF Q
  <2>3. k2 \in 0 .. Size /\ Q(k2) /\ \A j \in 0 .. (k2 - 1) : ~Q(j)
    BY <1>1, <1>8, <2>2
  <2> HIDE DEF T
  <2>4. \A x \in 0 .. Size : (Q(x) /\ \A j \in 0 .. (x - 1) : ~Q(j)) => x = k2
    BY <1>1, <2>3
  <2>5. First(Q) = k2
    BY <2>3, <2>4 DEF First
  <2> QED BY <2>3, <2>5
<1> DEFINE g == f + k2
<1>10. end + First(Q) = g /\ g \in f .. z /\ m[g] # SP /\ \A j \in f .. (g - 1) : m[j] = SP
  <2>1. ASSUME NEW j \in f .. (g - 1)
        PROVE  m[j] = SP
    <3>1. j - f \in 0 .. (k2 - 1) /\ f + (j - f) = j
      BY <1>8, <1>9
    <3> QED BY <1>6, <1>9, <3>1
  <2>2. m[g] # SP
    <3>1. m[end + k2] # SP
      BY <1>9
    <3> QED BY <1>6, <3>1
  <2> HIDE DEF Q
  <2>4. end + First(Q) = g
    BY <1>6, <1>9
  <2>3. g \in f .. z
    BY <1>1, <1>8, <1>9
  <2> QED BY <2>1, <2>2, <2>3, <2>4
<1> HIDE DEF g, Q
<1>11. NextWord(p) = [mem |-> IF m[f] = SP THEN [m EXCEPT ![f] = NUL] ELSE m, at |-> g, args |-> Append(p.args, b)]
  BY <1>3, <1>4, <1>6, <1>10 DEF WordEnded
<1>12. /\ m[f] = t[f] /\ m[g] = t[g]
       /\ \A j \in b .. (f - 1) : m[j] = t[j]
       /\ \A j \in f .. (g - 1) : m[j] = t[j]
  BY <1>1, <1>2, <1>8, <1>10
<1>13. f \in (b + 1) .. z /\ g \in f .. z /\ f \in Int /\ g \in Int
  BY <1>8, <1>10
<1> USE DEF m, b
<1> HIDE DEF end
<1>14. Passed(t, a, z, p, f, g)
  BY <1>6, <1>10, <1>11, <1>12, <1>13 DEF Passed
<1> QED BY <1>13, <1>14

\* One more word is cut out.
LEMMA NextWordCuts ==
  ASSUME NEW t, NEW a, NEW z, Bare(t, a, z), NEW k \in Nat, NEW p, CutOut(t, a, z, k, p)
  PROVE  CutOut(t, a, z, k + 1, NextWord(p))
<1> DEFINE B == Begins(t, a, z)
           m == p.mem
           b == p.at
           l == Len(p.args)
           q == NextWord(p)
<1>1. /\ m \in Memory(Cells) /\ b \in a .. z /\ (b < z => b \in B)
      /\ \A i \in 1 .. Cells : i < a \/ i >= b => m[i] = t[i]
      /\ p.args \in Seq(a .. (z - 1)) /\ l <= k /\ (l < k => b = z)
      /\ Cardinality({j \in B : j < b}) = l
  BY DEF CutOut
<1>2. ASSUME NEW n \in 1 .. l
      PROVE  /\ p.args[n] \in B /\ Rank(B, p.args[n]) = n
             /\ \E f \in a .. b : WordTo(t, m, p.args[n], f)
  BY DEF CutOut
<1>3. /\ a \in Nat /\ a >= 1 /\ z \in Nat /\ a <= z /\ z <= Cells /\ Cells \in Nat
      /\ t \in Memory(Cells) /\ t[z] = NUL /\ \A i \in a .. (z - 1) : t[i] # NUL
  BY Sizes DEF Bare, Ends, Cells
<1>4. l \in Nat /\ b \in Nat /\ a <= b /\ b <= z
  BY <1>1, <1>3, LenProperties
<1>5. CASE b = z
  <2>1. q = p
    <3>1. m[b] = NUL
      BY <1>1, <1>3, <1>4, <1>5
    <3> QED BY <3>1 DEF NextWord
  <2>2. l <= k + 1 /\ (l < k + 1 => b = z)
    BY <1>1, <1>4, <1>5
  <2> HIDE DEF B, q
  <2> QED BY <2>1, <2>2 DEF CutOut, q
<1>6. CASE b < z
  <2>1. PICK f \in Int, g \in Int : Passed(t, a, z, p, f, g)
    BY <1>6, WordPassed
  <2> DEFINE w == IF m[f] = SP THEN [m EXCEPT ![f] = NUL] ELSE m
             args == Append(p.args, b)
  <2>2. /\ f \in (b + 1) .. z /\ g \in f .. z
        /\ q = [mem |-> w, at |-> g, args |-> args]
        /\ t[f] \in {SP, NUL} /\ \A j \in b .. (f - 1) : t[j] # SP
        /\ t[g] # SP /\ \A j \in f .. (g - 1) : t[j] = SP
    BY <2>1 DEF Passed
  <2>3. q.mem = w /\ q.at = g /\ q.args = args
    BY <2>2
  <2>4. f \in 1 .. Cells /\ g \in a .. z /\ b < f /\ f <= g /\ g <= z
    BY <1>3, <1>4, <2>2
  <2>5. /\ w \in Memory(Cells) /\ w[f] = NUL
        /\ \A i \in 1 .. Cells : i # f => w[i] = m[i]
    <3>1. m[f] = t[f]
      <4> HIDE DEF m, b, l, B, q, w, args
      <4>1. f \in 1 .. Cells /\ f >= b
        BY <1>4, <2>4
      <4> QED BY <1>1, <4>1
    <3>2. NUL \in Char
      BY CharIs
    <3> QED BY <1>1, <2>2, <2>4, <3>1, <3>2 DEF Memory
  <2>6. /\ args \in Seq(a .. (z - 1)) /\ Len(args) = l + 1 /\ args[l + 1] = b
        /\ \A n \in 1 .. l : args[n] = p.args[n]
    <3>1. b \in a .. (z - 1)
      BY <1>3, <1>4, <1>6
    <3> QED BY <1>1, <3>1, AppendProperties
  <2> HIDE DEF w, args, q, m, b, l
  <2>7. B \subseteq a .. (z - 1) /\ \A i \in a .. (z - 1) : i \in B <=> t[i] # SP /\ (i = a \/ t[i - 1] = SP)
    BY DEF Begins
  <2> HIDE DEF B
  <2>8. b \in B /\ {j \in B : j < g} = {j \in B : j < b} \cup {b}
        /\ {j \in B : j <= b} = {j \in B : j < b} \cup {b}
    <3>1. ASSUME NEW j \in B, j > b, j < g
          PROVE  FALSE
      <4>1. j \in a .. (z - 1) /\ j # a /\ t[j] # SP /\ t[j - 1] = SP
        BY <1>3, <1>4, <2>7, <3>1
      <4>2. j < f
        <5> SUFFICES ASSUME ~(j < f)
                     PROVE  FALSE
          OBVIOUS
        <5>1. j \in f .. (g - 1)
          BY <2>2, <3>1, <4>1
        <5> QED BY <2>2, <4>1, <5>1
      <4>3. j - 1 \in b .. (f - 1)
        BY <1>4, <2>2, <3>1, <4>1, <4>2
      <4> QED BY <2>2, <4>1, <4>3
    <3>2. b \in B /\ b < g /\ g \in Nat
      BY <1>1, <1>3, <1>4, <1>6, <2>4
    <3>3. \A j \in B : j \in Int
      BY <2>7
    <3>4. \A j \in B : j < g => j <= b
      BY <1>4, <3>1, <3>3
    <3>5. \A j \in B : (j < g <=> j < b \/ j = b) /\ (j <= b <=> j < b \/ j = b)
      BY <1>4, <3>2, <3>3, <3>4
    <3> QED BY <3>2, <3>5
  <2>9. /\ Cardinality({j \in B : j < g}) = l + 1
        /\ Rank(B, b) = l + 1
    <3> DEFINE S == {j \in B : j < b}
    <3>1. IsFiniteSet(a .. (z - 1))
      BY <1>3, FS_Interval
    <3>2. IsFiniteSet(S)
      BY <2>7, <3>1, FS_Subset
    <3>3. b \notin S
      BY <1>4
    <3>4. Cardinality(S) = l
      BY <1>1
    <3> HIDE DEF S
    <3>5. Cardinality(S \cup {b}) = l + 1
      BY <3>2, <3>3, <3>4, FS_AddElement
    <3> QED BY <2>8, <3>5 DEF S, Rank
  <2>10. g < z => g \in B
    <3> SUFFICES ASSUME g < z
                 PROVE  g \in B
      OBVIOUS
    <3>1. t[f] = SP /\ f < g
      <4>1. f # z
        BY <1>3, <2>2, <2>4
      <4>2. f \in a .. (z - 1)
        BY <1>3, <1>4, <2>2, <2>4, <4>1
      <4>3. t[f] = SP
        BY <1>3, <2>2, <4>2
      <4> QED BY <2>2, <2>4, <4>3
    <3>2. g - 1 \in f .. (g - 1) /\ g \in a .. (z - 1)
      BY <1>3, <1>4, <2>2, <2>4, <3>1
    <3> QED BY <2>2, <2>7, <3>2
  <2>11. \A i \in 1 .. Cells : i < a \/ i >= g => w[i] = t[i]
    <3> SUFFICES ASSUME NEW i \in 1 .. Cells, i < a \/ i >= g
                 PROVE  w[i] = t[i]
      OBVIOUS
    <3>1. m[i] = t[i]
      BY <1>1, <1>4, <2>4
    <3>2. i # f => w[i] = t[i]
      BY <2>5, <3>1
    <3>3. i = f => t[i] = NUL
      <4> SUFFICES ASSUME i = f
                   PROVE  t[i] = NUL
        OBVIOUS
      <4>1. f = g
        BY <1>3, <1>4, <2>4
      <4> QED BY <2>2, <4>1
    <3> QED BY <2>5, <3>2, <3>3
  <2>12. ASSUME NEW n \in 1 .. (l + 1)
         PROVE  /\ args[n] \in B /\ Rank(B, args[n]) = n
                /\ \E h \in a .. g : WordTo(t, w, args[n], h)
    <3>1. CASE n = l + 1
      <4>1. WordTo(t, w, b, f)
        <5>1. \A j \in b .. (f - 1) : j \in 1 .. Cells /\ j # f /\ j >= b
          BY <1>3, <1>4, <2>4
        <5>2. \A j \in b .. (f - 1) : w[j] = t[j]
          BY <1>1, <2>5, <5>1
        <5> QED BY <2>2, <2>4, <2>5, <5>2 DEF WordTo
      <4>2. f \in a .. g
        BY <1>3, <1>4, <2>4
      <4> QED BY <2>6, <2>8, <2>9, <3>1, <4>1, <4>2
    <3>2. CASE n \in 1 .. l
      <4>1. args[n] = p.args[n] /\ args[n] \in B /\ Rank(B, args[n]) = n
        BY <1>2, <2>6, <3>2
      <4>2. PICK h \in a .. b : WordTo(t, m, p.args[n], h)
        BY <1>2, <3>2
      <4> DEFINE i == p.args[n]
      <4>3. i \in a .. (z - 1)
        BY <2>7, <4>1
      <4> HIDE DEF i
      <4>4. /\ h > i /\ t[h] \in {SP, NUL} /\ m[h] = NUL
            /\ \A j \in i .. (h - 1) : t[j] # SP /\ m[j] = t[j]
        BY <4>2 DEF WordTo, i
      <4>5. \A j \in i .. h : j \in 1 .. Cells /\ j # f
        BY <1>3, <1>4, <2>4, <4>3
      <4>6. h \in i .. h /\ \A j \in i .. (h - 1) : j \in i .. h
        BY <1>4, <4>3, <4>4
      <4>7. WordTo(t, w, i, h)
        BY <2>5, <4>4, <4>5, <4>6 DEF WordTo
      <4>8. h \in a .. g
        BY <1>3, <1>4, <2>4
      <4> QED BY <4>1, <4>7, <4>8 DEF i
    <3> QED BY <1>4, <3>1, <3>2
  <2>13. Len(args) <= k + 1 /\ (Len(args) < k + 1 => g = z)
    <3>1. l = k
      BY <1>1, <1>4, <1>6
    <3> QED BY <1>4, <2>6, <3>1
  <2> QED BY <2>3, <2>4, <2>5, <2>6, <2>9, <2>10, <2>11, <2>12, <2>13 DEF CutOut, B, q
<1>7. b = z \/ b < z
  <2> HIDE DEF b
  <2> QED BY <1>3, <1>4
<1> QED BY <1>5, <1>6, <1>7

\* shell_parse goes from word to word.
LEMMA ParseRuns ==
  ASSUME NEW m
  PROVE  \E parse :
           /\ parse[0] = [mem |-> str_trim(m, Buffer).mem, at |-> str_trim(m, Buffer).ret, args |-> << >>]
           /\ \A k \in 0 .. (MaxArgs - 1) : parse[k + 1] = NextWord(parse[k])
           /\ shell_parse(m, Buffer) = parse[MaxArgs]
<1> DEFINE p0 == [mem |-> str_trim(m, Buffer).mem, at |-> str_trim(m, Buffer).ret, args |-> << >>]
           parse == CHOOSE parse : parse = [k \in 0 .. MaxArgs |-> IF k = 0 THEN p0 ELSE NextWord(parse[k - 1])]
<1>1. shell_parse(m, Buffer) = parse[MaxArgs]
  BY DEF shell_parse, NextWord
<1> HIDE DEF p0
<1> DEFINE T == {n \in Nat : \E f : f = [k \in 0 .. n |-> IF k = 0 THEN p0 ELSE NextWord(f[k - 1])]}
<1>3. 0 \in T
  <2> DEFINE f == [k \in 0 .. 0 |-> p0]
  <2>1. f = [k \in 0 .. 0 |-> IF k = 0 THEN p0 ELSE NextWord(f[k - 1])]
    OBVIOUS
  <2> QED BY <2>1
<1>4. ASSUME NEW n \in 0 .. (MaxArgs - 1), n \in T
      PROVE  n + 1 \in T
  <2>1. PICK f : f = [k \in 0 .. n |-> IF k = 0 THEN p0 ELSE NextWord(f[k - 1])]
    BY <1>4
  <2> DEFINE g == [k \in 0 .. (n + 1) |-> IF k = n + 1 THEN NextWord(f[n]) ELSE f[k]]
  <2>2. ASSUME NEW k \in 0 .. (n + 1)
        PROVE  g[k] = IF k = 0 THEN p0 ELSE NextWord(g[k - 1])
    <3>1. CASE k = n + 1
      <4>1. k # 0 /\ k - 1 = n /\ n \in 0 .. (n + 1) /\ n # n + 1
        BY <3>1
      <4> QED BY <3>1, <4>1
    <3>2. CASE k # n + 1
      <4>1. k \in 0 .. n
        BY <3>2
      <4>2. f[k] = IF k = 0 THEN p0 ELSE NextWord(f[k - 1])
        BY <2>1, <4>1
      <4>3. g[k] = f[k]
        BY <3>2
      <4>4. k # 0 => g[k - 1] = f[k - 1]
        BY <4>1
      <4> QED BY <4>2, <4>3, <4>4
    <3> QED BY <3>1, <3>2
  <2>3. g = [k \in 0 .. (n + 1) |-> g[k]]
    OBVIOUS
  <2> HIDE DEF g
  <2>4. g = [k \in 0 .. (n + 1) |-> IF k = 0 THEN p0 ELSE NextWord(g[k - 1])]
    BY <2>2, <2>3
  <2> QED BY <2>4
<1>5. MaxArgs \in T
  <2> HIDE DEF T
  <2>1. MaxArgs \in Nat
    BY Sizes
  <2> QED BY <1>3, <1>4, <2>1, UpTo
<1>6. parse = [k \in 0 .. MaxArgs |-> IF k = 0 THEN p0 ELSE NextWord(parse[k - 1])]
  BY <1>5
<1> HIDE DEF parse
<1>7. parse[0] = p0
  BY <1>6, Sizes
<1>8. ASSUME NEW k \in 0 .. (MaxArgs - 1)
      PROVE  parse[k + 1] = NextWord(parse[k])
  <2>1. k + 1 \in 0 .. MaxArgs /\ k + 1 # 0 /\ (k + 1) - 1 = k
    BY Sizes
  <2> QED BY <1>6, <2>1
<1> QED BY <1>1, <1>7, <1>8 DEF p0

\* The line m without its outer blanks.
Bared(m, e, t, a, z) ==
  /\ Bare(t, a, z) /\ z <= e /\ t[e] = NUL
  /\ \A i \in 1 .. Cells : i \notin z .. (e - 1) => t[i] = m[i]
  /\ \A i \in 1 .. (a - 1) : m[i] \in Blank
  /\ \A i \in z .. (e - 1) : m[i] \in Blank
  /\ a < z => m[a] \notin Blank /\ m[z - 1] \notin Blank

\* shell_parse cuts as many words out of it as fit the argument array.
LEMMA ParseCuts ==
  ASSUME NEW m \in Memory(Cells), NEW e \in 1 .. BufferSize, Ends(m, Buffer, e)
  PROVE  \E t, a, z : Bared(m, e, t, a, z) /\ CutOut(t, a, z, MaxArgs, shell_parse(m, Buffer))
<1>1. /\ Buffer \in 1 .. Cells /\ e \in 1 .. Cells /\ Cells \in 0 .. Size /\ Buffer = 1 /\ e \in Nat
      /\ Cells \in Nat /\ m[e] = NUL /\ \A i \in 1 .. (e - 1) : m[i] # NUL
  BY Sizes DEF Buffer, Cells, Ends
<1>2. PICK a \in Buffer .. e, y \in Int : TrimmedTo(Cells, m, Buffer, e, a, y)
  BY <1>1, str_trimIs
<1> DEFINE t == [i \in 1 .. Cells |-> IF i \in (y + 1) .. (e - 1) THEN NUL ELSE m[i]]
           z == y + 1
<1>3. /\ str_trim(m, Buffer) = [mem |-> t, ret |-> a]
      /\ \A i \in 1 .. (a - 1) : m[i] \in Blank
      /\ \A i \in z .. (e - 1) : m[i] \in Blank
      /\ \/ a = e /\ y = e - 1
         \/ a <= y /\ y < e /\ m[a] \notin Blank /\ m[y] \notin Blank
  BY <1>1, <1>2 DEF TrimmedTo
<1>4. /\ a \in 1 .. e /\ z \in a .. e /\ z - 1 = y
      /\ a < z => m[a] \notin Blank /\ m[z - 1] \notin Blank
  BY <1>1, <1>3
<1>5. /\ t \in Memory(Cells)
      /\ \A i \in 1 .. Cells : i \notin z .. (e - 1) => t[i] = m[i]
      /\ \A i \in 1 .. Cells : i \in z .. (e - 1) => t[i] = NUL
  BY <1>1 DEF Memory, NUL
<1> HIDE DEF t, z
<1>6. t[e] = NUL /\ t[z] = NUL
  BY <1>1, <1>4, <1>5
<1>7. \A i \in a .. (z - 1) : i \in 1 .. (e - 1) /\ i \in 1 .. Cells /\ i \notin z .. (e - 1)
  BY <1>1, <1>4
<1>8. Bare(t, a, z)
  <2>1. \A i \in a .. (z - 1) : t[i] # NUL
    BY <1>1, <1>5, <1>7
  <2>2. a < z => t[a] # SP
    <3>1. a < z => a \in a .. (z - 1)
      BY <1>1, <1>4
    <3>2. SP \in Blank
      BY DEF Blank
    <3> QED BY <1>4, <1>5, <1>7, <3>1, <3>2
  <2>3. a \in 1 .. BufferSize /\ z \in a .. BufferSize /\ z >= a
    BY <1>1, <1>4, Sizes
  <2> QED BY <1>5, <1>6, <2>1, <2>2, <2>3 DEF Bare, Ends
<1>9. Bared(m, e, t, a, z)
  <2>1. z <= e
    BY <1>1, <1>4
  <2> QED BY <1>3, <1>4, <1>5, <1>6, <1>8, <2>1 DEF Bared
<1>10. PICK parse :
         /\ parse[0] = [mem |-> t, at |-> a, args |-> << >>]
         /\ \A k \in 0 .. (MaxArgs - 1) : parse[k + 1] = NextWord(parse[k])
         /\ shell_parse(m, Buffer) = parse[MaxArgs]
  BY <1>3, ParseRuns
<1>11. CutOut(t, a, z, 0, parse[0])
  <2> DEFINE p == parse[0]
  <2>1. p.mem = t /\ p.at = a /\ p.args = << >>
    BY <1>10
  <2> HIDE DEF p
  <2>2. a < z => a \in Begins(t, a, z)
    BY <1>1, <1>4, <1>8 DEF Begins, Bare
  <2>3. Cardinality({j \in Begins(t, a, z) : j < a}) = 0
    <3>1. {j \in Begins(t, a, z) : j < a} = {}
      BY <1>1, <1>4 DEF Begins
    <3> QED BY <3>1, FS_EmptySet
  <2>4. << >> \in Seq(a .. (z - 1)) /\ Len(<< >>) = 0 /\ 1 .. 0 = {}
    OBVIOUS
  <2>5. a \in a .. z
    BY <1>1, <1>4
  <2>6. p.args \in Seq(a .. (z - 1)) /\ Len(p.args) <= 0 /\ ~(Len(p.args) < 0) /\ 1 .. Len(p.args) = {}
    BY <2>1, <2>4
  <2>7. Cardinality({j \in Begins(t, a, z) : j < p.at}) = Len(p.args)
    BY <2>1, <2>3, <2>4
  <2> QED BY <1>5, <2>1, <2>2, <2>5, <2>6, <2>7 DEF CutOut, p
<1> DEFINE U == {k \in 0 .. MaxArgs : CutOut(t, a, z, k, parse[k])}
<1>12. 0 \in U
  BY <1>11, Sizes
<1>13. ASSUME NEW k \in 0 .. (MaxArgs - 1), k \in U
       PROVE  k + 1 \in U
  <2>1. k + 1 \in 0 .. MaxArgs /\ k \in Nat
    BY Sizes
  <2>2. parse[k + 1] = NextWord(parse[k])
    BY <1>10
  <2>3. CutOut(t, a, z, k, parse[k])
    BY <1>13
  <2>4. CutOut(t, a, z, k + 1, parse[k + 1])
    BY <1>8, <2>1, <2>2, <2>3, NextWordCuts
  <2> QED BY <2>1, <2>4
<1>14. MaxArgs \in U
  <2> HIDE DEF U
  <2>1. MaxArgs \in Nat
    BY Sizes
  <2> QED BY <1>12, <1>13, <2>1, UpTo
<1> QED BY <1>9, <1>10, <1>14

\* No two elements have as many elements up to them.
LEMMA CountedOnce ==
  ASSUME NEW S, S \subseteq Nat, IsFiniteSet(S), NEW i \in S, NEW j \in S,
         Rank(S, i) = Rank(S, j)
  PROVE  i = j
<1>1. ASSUME NEW x \in S, NEW y \in S, x < y, Rank(S, x) = Rank(S, y)
      PROVE  FALSE
  <2> DEFINE X == {k \in S : k <= x}
             Y == {k \in S : k <= y}
  <2>0. x < y /\ x \in Nat /\ y \in Nat
    BY <1>1
  <2>3. ~(y <= x) /\ y <= y /\ \A k \in S : k <= x => k <= y
    BY <2>0
  <2>1. y \notin X /\ y \in Y /\ X \subseteq Y
    BY <2>3
  <2>2. IsFiniteSet(Y)
    BY FS_Subset
  <2> HIDE DEF X, Y
  <2>4. X = Y
    BY <2>1, <2>2, <1>1, FS_Subset DEF X, Y, Rank
  <2> QED BY <2>1, <2>4
<1>2. i \in Nat /\ j \in Nat
  OBVIOUS
<1>3. ~(i < j) /\ ~(j < i)
  BY <1>1
<1> QED BY <1>2, <1>3

\* The element of S with so many up to it, and the end of the run of I that k is in.
NthOf(S, n) == CHOOSE k \in S : Rank(S, k) = n
RunEnd(I, k) == CHOOSE f \in I : k .. f \subseteq I /\ k <= f /\ f + 1 \notin I
ByPlaces(u, I, S) ==
  [n \in 1 .. (IF Cardinality(S) < MaxArgs THEN Cardinality(S) ELSE MaxArgs) |->
     SubSeq(u, NthOf(S, n), RunEnd(I, NthOf(S, n)))]

\* The words the user typed, in terms of the line without its blanks.
LEMMA WordsOfIs ==
  ASSUME NEW m \in Memory(Cells), NEW e \in 1 .. BufferSize, Ends(m, Buffer, e),
         NEW t, NEW a, NEW z, Bared(m, e, t, a, z)
  PROVE  WordsOf(Text(m, Buffer)) =
           ByPlaces(Text(m, Buffer), {k \in a .. (z - 1) : t[k] # SP}, Begins(t, a, z))
<1> DEFINE u      == Text(m, Buffer)
           B      == Begins(t, a, z)
           I      == {k \in a .. (z - 1) : t[k] # SP}
           solid  == {k \in DOMAIN u : u[k] \notin Blank}
           inside == {k \in DOMAIN u : u[k] # SP /\ (\E i \in solid : i <= k) /\ \E j \in solid : k <= j}
           begins == {k \in inside : k - 1 \notin inside}
<1>1. WordsOf(u) = ByPlaces(u, inside, begins)
  BY DEF WordsOf, ByPlaces, NthOf, RunEnd, Rank
<1>2. DOMAIN u = 1 .. (e - 1) /\ \A k \in 1 .. (e - 1) : u[k] = m[k]
  <2>1. Buffer \in 1 .. Cells /\ e \in 1 .. Cells /\ Cells \in Nat /\ Buffer = 1
    BY Sizes DEF Cells, Buffer
  <2>2. u \in Seq(Char) /\ Len(u) = e - 1 /\ \A k \in 1 .. (e - 1) : u[k] = m[1 + k - 1]
    BY <2>1, TextIs
  <2>3. \A k \in 1 .. (e - 1) : 1 + k - 1 = k
    BY <2>1
  <2> HIDE DEF u
  <2> QED BY <2>2, <2>3, LenProperties
<1>3. /\ a \in Nat /\ a >= 1 /\ z \in Nat /\ a <= z /\ z <= e /\ e \in Nat /\ e <= Cells /\ Cells \in Nat
      /\ \A i \in 1 .. Cells : i \notin z .. (e - 1) => t[i] = m[i]
      /\ \A i \in 1 .. (a - 1) : m[i] \in Blank
      /\ \A i \in z .. (e - 1) : m[i] \in Blank
      /\ a < z => m[a] \notin Blank /\ m[z - 1] \notin Blank
  <2>1. a \in 1 .. BufferSize /\ z \in a .. BufferSize
    BY DEF Bared, Bare
  <2>2. BufferSize \in Nat /\ BufferSize <= Cells /\ Cells \in Nat
    BY Sizes DEF Cells
  <2> QED BY <2>1, <2>2 DEF Bared
<1> HIDE DEF u
<1>4. \A k \in a .. (z - 1) : k \in 1 .. (e - 1) /\ u[k] = t[k]
  BY <1>2, <1>3
<1>5. solid \subseteq a .. (z - 1)
  BY <1>2, <1>3
<1>6. a < z => a \in solid /\ z - 1 \in solid
  BY <1>2, <1>3
<1> HIDE DEF solid
<1>7. inside = I
  <2>1. ASSUME NEW k \in inside
        PROVE  k \in I
    <3>1. PICK i \in solid, j \in solid : i <= k /\ k <= j
      OBVIOUS
    <3>2. k \in a .. (z - 1)
      BY <1>2, <1>3, <1>5, <3>1
    <3> QED BY <1>4, <3>2
  <2>2. ASSUME NEW k \in I
        PROVE  k \in inside
    <3>1. k \in a .. (z - 1) /\ a < z /\ a <= k /\ k <= z - 1
      BY <1>3
    <3> QED BY <1>2, <1>4, <1>6, <3>1
  <2> QED BY <2>1, <2>2
<1> HIDE DEF inside
<1>8. {k \in I : k - 1 \notin I} = B
  BY <1>3 DEF Begins
<1> HIDE DEF I, B
<1>9. begins = B
  BY <1>7, <1>8
<1> HIDE DEF begins
<1>10. WordsOf(u) = ByPlaces(u, I, B)
  BY <1>1, <1>7, <1>9
<1> QED BY <1>10 DEF u, I, B

\* shell_parse cuts the line, where it stands, into the words it shows between
\* its blanks, as many as fit the argument array.
THEOREM WordsCut ==
  ASSUME NEW m \in Memory(Cells), NEW e \in 1 .. BufferSize, Ends(m, Buffer, e)
  PROVE  LET p == shell_parse(m, Buffer)
             w == WordsOf(Text(m, Buffer))
         IN  /\ w \in Seq(Seq(Char)) /\ Len(w) = Len(p.args)
             /\ \A n \in 1 .. Len(w) :
                  w[n] = Text(p.mem, p.args[n]) /\ \E f \in 1 .. e : Ends(p.mem, p.args[n], f)
<1> DEFINE p == shell_parse(m, Buffer)
           u == Text(m, Buffer)
           w == WordsOf(u)
<1>1. PICK t, a, z : Bared(m, e, t, a, z) /\ CutOut(t, a, z, MaxArgs, p)
  BY ParseCuts
<1> DEFINE B == Begins(t, a, z)
           I == {k \in a .. (z - 1) : t[k] # SP}
           l == Len(p.args)
           number == IF Cardinality(B) < MaxArgs THEN Cardinality(B) ELSE MaxArgs
<1>2. w = [n \in 1 .. number |-> SubSeq(u, NthOf(B, n), RunEnd(I, NthOf(B, n)))]
  <2>1. w = ByPlaces(u, I, B)
    BY <1>1, WordsOfIs
  <2> HIDE DEF w, u, I, B
  <2> QED BY <2>1 DEF ByPlaces
<1>3. /\ a \in Nat /\ a >= 1 /\ z \in Nat /\ a <= z /\ z <= e /\ e \in Nat /\ e <= Cells /\ Cells \in Nat
      /\ t[z] = NUL /\ \A i \in a .. (z - 1) : t[i] # NUL
      /\ \A i \in 1 .. Cells : i \notin z .. (e - 1) => t[i] = m[i]
  <2>1. a \in 1 .. BufferSize /\ z \in a .. BufferSize
    BY <1>1 DEF Bared, Bare
  <2>2. BufferSize \in Nat /\ BufferSize <= Cells /\ Cells \in Nat
    BY Sizes DEF Cells
  <2>3. t[z] = NUL /\ \A i \in a .. (z - 1) : t[i] # NUL
    BY <1>1 DEF Bared, Bare, Ends
  <2> QED BY <1>1, <2>1, <2>2, <2>3 DEF Bared
<1>4. /\ p.mem \in Memory(Cells) /\ p.at \in a .. z /\ (p.at < z => p.at \in B)
      /\ p.args \in Seq(a .. (z - 1)) /\ l <= MaxArgs /\ (l < MaxArgs => p.at = z)
      /\ Cardinality({j \in B : j < p.at}) = l
  BY <1>1 DEF CutOut
<1>5. ASSUME NEW n \in 1 .. l
      PROVE  /\ p.args[n] \in B /\ Rank(B, p.args[n]) = n
             /\ \E f \in a .. p.at : WordTo(t, p.mem, p.args[n], f)
  BY <1>1 DEF CutOut
<1>6. /\ u \in Seq(Char) /\ Len(u) = e - 1
      /\ \A k \in 1 .. (e - 1) : u[k] = m[k] /\ u[k] \in Char
  <2>1. Buffer \in 1 .. Cells /\ e \in 1 .. Cells /\ Cells \in Nat /\ Buffer = 1
    BY Sizes DEF Cells, Buffer
  <2>2. u \in Seq(Char) /\ Len(u) = e - 1 /\ \A k \in 1 .. (e - 1) : u[k] = m[1 + k - 1]
    BY <2>1, TextIs
  <2>3. \A k \in 1 .. (e - 1) : 1 + k - 1 = k /\ k \in 1 .. Cells
    BY <2>1, <1>3
  <2> HIDE DEF u
  <2> QED BY <2>2, <2>3 DEF Memory
<1> HIDE DEF p, u, w
<1>7. B \subseteq a .. (z - 1) /\ B \subseteq Nat /\ IsFiniteSet(B)
  <2>1. B \subseteq a .. (z - 1)
    BY DEF Begins
  <2>2. IsFiniteSet(a .. (z - 1))
    BY <1>3, FS_Interval
  <2> HIDE DEF B
  <2>3. IsFiniteSet(B)
    BY <2>1, <2>2, FS_Subset
  <2>4. B \subseteq Nat
    BY <1>3, <2>1
  <2> QED BY <2>1, <2>3, <2>4
<1> HIDE DEF B
<1>8. number = l /\ l \in Nat
  <2> DEFINE S == {j \in B : j < p.at}
             c == Cardinality(B)
  <2>1. S \subseteq B
    OBVIOUS
  <2>2. l <= c /\ c \in Nat /\ l \in Nat
    <3>1. Cardinality(S) <= c
      BY <1>7, <2>1, FS_Subset
    <3>2. c \in Nat
      BY <1>7, FS_CardinalityType
    <3>3. l \in Nat
      BY <1>4, LenProperties
    <3> QED BY <1>4, <3>1, <3>2, <3>3
  <2>3. CASE p.at = z
    <3>1. S = B
      <4>1. \A j \in B : j < z
        BY <1>3, <1>7
      <4> QED BY <2>3, <4>1
    <3>2. l = c
      BY <1>4, <3>1
    <3> HIDE DEF c, l
    <3>3. MaxArgs \in Nat
      BY Sizes
    <3> QED BY <1>4, <2>2, <3>2, <3>3 DEF c
  <2>4. CASE p.at # z
    <3> HIDE DEF c, l
    <3>1. MaxArgs \in Nat
      BY Sizes
    <3>2. l = MaxArgs
      BY <1>4, <2>2, <2>4, <3>1
    <3> QED BY <2>2, <3>1, <3>2 DEF c
  <2> QED BY <2>3, <2>4
<1> HIDE DEF number, l
<1>9. ASSUME NEW n \in 1 .. l
      PROVE  /\ w[n] = Text(p.mem, p.args[n]) /\ w[n] \in Seq(Char)
             /\ \E f \in 1 .. e : Ends(p.mem, p.args[n], f)
  <2> DEFINE i == p.args[n]
  <2>1. i \in B /\ Rank(B, i) = n
    BY <1>5
  <2>2. PICK f \in a .. p.at : WordTo(t, p.mem, i, f)
    BY <1>5
  <2> HIDE DEF i
  <2>3. NthOf(B, n) = i
    <3>1. ASSUME NEW k \in B, Rank(B, k) = n
          PROVE  k = i
      <4>1. Rank(B, k) = Rank(B, i)
        BY <2>1, <3>1
      <4> QED BY <1>7, <2>1, <4>1, CountedOnce
    <3> QED BY <2>1, <3>1 DEF NthOf
  <2>4. /\ f > i /\ t[f] \in {SP, NUL} /\ p.mem[f] = NUL
        /\ \A j \in i .. (f - 1) : t[j] # SP /\ p.mem[j] = t[j]
    BY <2>2 DEF WordTo
  <2>5. i \in Nat /\ a <= i /\ f \in Nat /\ f <= z /\ i < f /\ f - 1 \in Int
    <3>1. i \in a .. (z - 1)
      BY <1>7, <2>1
    <3>2. f \in a .. z
      BY <1>3, <1>4
    <3> QED BY <1>3, <2>4, <3>1, <3>2
  <2>6. i .. (f - 1) \subseteq I /\ f - 1 \in I /\ f \notin I
    <3>1. \A j \in i .. (f - 1) : j \in a .. (z - 1)
      BY <1>3, <2>5
    <3>2. f - 1 \in i .. (f - 1)
      BY <2>5
    <3>3. f \notin I
      BY <1>3, <2>4
    <3> QED BY <2>4, <3>1, <3>2, <3>3
  <2>7. RunEnd(I, i) = f - 1
    <3>1. \A k \in I : k \in Int
      OBVIOUS
    <3> HIDE DEF I
    <3>2. f - 1 \in I /\ i .. (f - 1) \subseteq I /\ i <= f - 1 /\ (f - 1) + 1 \notin I
      BY <2>5, <2>6
    <3>3. ASSUME NEW k \in I, i .. k \subseteq I, i <= k, k + 1 \notin I
          PROVE  k = f - 1
      <4>1. k \in Int
        BY <3>1
      <4>2. ~(k < f - 1)
        <5> SUFFICES ASSUME k < f - 1
                     PROVE  k + 1 \in i .. (f - 1)
          BY <2>6, <3>3
        <5> QED BY <2>5, <3>3, <4>1
      <4>3. ~(k > f - 1)
        <5> SUFFICES ASSUME k > f - 1
                     PROVE  f \in i .. k
          BY <2>6, <3>3
        <5> QED BY <2>5, <4>1
      <4> QED BY <2>5, <4>1, <4>2, <4>3
    <3> QED BY <3>2, <3>3 DEF RunEnd
  <2> HIDE DEF I
  <2>8. w[n] = SubSeq(u, i, f - 1)
    BY <1>2, <1>8, <2>3, <2>7
  <2>9. \A j \in i .. (f - 1) : /\ j \in 1 .. (e - 1) /\ j \in a .. (z - 1) /\ j \in 1 .. Cells
                                /\ j \notin z .. (e - 1)
    BY <1>3, <2>5
  <2>10. \A j \in i .. (f - 1) : p.mem[j] = u[j] /\ p.mem[j] # NUL
    <3> SUFFICES ASSUME NEW j \in i .. (f - 1)
                 PROVE  p.mem[j] = u[j] /\ p.mem[j] # NUL
      OBVIOUS
    <3>1. p.mem[j] = t[j]
      BY <2>4
    <3>2. t[j] # NUL
      BY <1>3, <2>9
    <3>3. t[j] = m[j]
      BY <1>3, <2>9
    <3>4. m[j] = u[j]
      BY <1>6, <2>9
    <3> QED BY <3>1, <3>2, <3>3, <3>4
  <2>11. Ends(p.mem, i, f) /\ f \in 1 .. e /\ i \in 1 .. Cells /\ f \in 1 .. Cells
    BY <1>3, <2>4, <2>5, <2>10 DEF Ends
  <2>12. Text(p.mem, i) = SubSeq(p.mem, i, f - 1)
    <3>1. EndOf(p.mem, i) = f
      BY <1>3, <1>4, <2>11, EndsOnce
    <3> QED BY <3>1 DEF Text
  <2>13. SubSeq(u, i, f - 1) = SubSeq(p.mem, i, f - 1)
    <3> DEFINE d == f - i
    <3>1. d \in Nat /\ f - 1 = i + d - 1 /\ i \in Int
      BY <2>5
    <3>2. \A k \in 0 .. (d - 1) : i + k \in i .. (f - 1) /\ i + k \in 1 .. (e - 1)
      BY <2>5, <2>9
    <3>3. \A k \in 0 .. (d - 1) : u[i + k] = p.mem[i + k] /\ u[i + k] \in Char
      BY <1>6, <2>10, <3>2
    <3> DEFINE g == p.mem
    <3> HIDE DEF d, g
    <3>4. \A k \in 0 .. (d - 1) : u[i + k] = g[i + k] /\ u[i + k] \in Char
      BY <3>3 DEF g
    <3>5. SubSeq(u, i, i + d - 1) = SubSeq(g, i, i + d - 1)
      BY <3>1, <3>4, SameBlock
    <3> QED BY <3>1, <3>5 DEF g
  <2>14. Text(p.mem, i) \in Seq(Char)
    BY <1>3, <1>4, <2>11, TextIs
  <2> QED BY <2>8, <2>11, <2>12, <2>13, <2>14 DEF i
<1>10. w \in Seq(Seq(Char)) /\ Len(w) = l
  <2>1. w = [n \in 1 .. l |-> w[n]]
    BY <1>2, <1>8
  <2>2. \A n \in 1 .. l : w[n] \in Seq(Char)
    BY <1>9
  <2>3. w \in [1 .. l -> Seq(Char)]
    BY <2>1, <2>2
  <2> QED BY <1>8, <2>3
<1> QED BY <1>9, <1>10 DEF p, w, u, l

-----------------------------------------------------------------------------
\* Words and literals.

\* A string is where it was as long as its cells hold what they held.
LEMMA SameText ==
  ASSUME NEW size \in Nat, NEW m \in Memory(size), NEW n \in Memory(size), NEW s \in 1 .. size,
         NEW f \in 1 .. size, Ends(m, s, f), \A i \in s .. f : n[i] = m[i]
  PROVE  Ends(n, s, f) /\ Text(n, s) = Text(m, s)
<1>1. Ends(n, s, f)
  BY DEF Ends
<1>2. EndOf(n, s) = f /\ EndOf(m, s) = f
  BY <1>1, EndsOnce
<1>3. SubSeq(n, s, f - 1) = SubSeq(m, s, f - 1)
  <2> DEFINE d == f - s
  <2>1. d \in Nat /\ f - 1 = s + d - 1 /\ s \in Int
    BY DEF Ends
  <2>2. \A k \in 0 .. (d - 1) : s + k \in s .. f /\ s + k \in 1 .. size
    BY <2>1
  <2>3. \A k \in 0 .. (d - 1) : n[s + k] = m[s + k] /\ n[s + k] \in Char
    BY <2>2 DEF Memory
  <2> HIDE DEF d
  <2>4. SubSeq(n, s, s + d - 1) = SubSeq(m, s, s + d - 1)
    BY <2>1, <2>3, SameBlock
  <2> QED BY <2>1, <2>4
<1> QED BY <1>1, <1>2, <1>3 DEF Text

\* strcmp with a literal tells whether the string is this text.
LEMMA IsText ==
  ASSUME NEW m \in Memory(Cells), NEW s \in 1 .. Cells, NEW f \in 1 .. Cells, Ends(m, s, f),
         NEW lit \in Seq(Char \ {NUL})
  PROVE  Is(m, s, lit) <=> Text(m, s) = lit
<1> DEFINE u == Stored(lit)
           l == Len(lit)
           n == m \o u
           size == Cells + l + 1
           t == Cells + 1
<1>1. /\ lit \in Seq(Char) /\ l \in Nat /\ \A k \in 1 .. l : lit[k] # NUL
      /\ Cells \in Nat /\ Cells <= Size /\ Size \in Nat /\ size \in Nat
  BY Sizes, LenProperties, ElementOfSeq
<1>2. m \in Seq(Char) /\ Len(m) = Cells
  BY <1>1 DEF Memory
<1>3. u \in Seq(Char) /\ Len(u) = l + 1 /\ (\A k \in 1 .. l : u[k] = lit[k]) /\ u[l + 1] = NUL
  BY <1>1, StoredAt, AppendProperties DEF Stored, NUL
<1> HIDE DEF u, l
<1>4. /\ n \in Seq(Char) /\ Len(n) = size
      /\ \A k \in 1 .. Cells : n[k] = m[k]
      /\ \A k \in 1 .. (l + 1) : n[Cells + k] = u[k]
  <2>1. /\ m \o u \in Seq(Char) /\ Len(m \o u) = Len(m) + Len(u)
        /\ \A k \in 1 .. Len(m) : (m \o u)[k] = m[k]
        /\ \A k \in 1 .. Len(u) : (m \o u)[Len(m) + k] = u[k]
    BY <1>2, <1>3, JoinedAt
  <2>2. Cells + (l + 1) = size
    BY <1>1
  <2> HIDE DEF size
  <2> QED BY <1>2, <1>3, <2>1, <2>2
<1> HIDE DEF n
<1>5. n \in Memory(size)
  BY <1>4, LenProperties DEF Memory
<1>6. Ends(n, s, f) /\ f - s <= Size
  <2>1. \A k \in s .. f : k \in 1 .. Cells
    BY <1>1
  <2>2. f \in s .. f /\ \A k \in s .. (f - 1) : k \in s .. f
    BY <1>1 DEF Ends
  <2> QED BY <1>1, <1>4, <2>1, <2>2 DEF Ends
<1>7. /\ t \in 1 .. size /\ size \in 1 .. size /\ size - t = l /\ s \in 1 .. size /\ f \in 1 .. size
      /\ \A k \in t .. (size - 1) : k - Cells \in 1 .. l /\ k - Cells \in 1 .. (l + 1) /\ Cells + (k - Cells) = k
      /\ l + 1 \in 1 .. (l + 1) /\ Cells + (l + 1) = size /\ size >= t
  BY <1>1
<1>8. Ends(n, t, size)
  <2>1. n[size] = NUL
    BY <1>3, <1>4, <1>7
  <2>2. \A k \in t .. (size - 1) : n[k] = lit[k - Cells]
    <3> SUFFICES ASSUME NEW k \in t .. (size - 1)
                 PROVE  n[k] = lit[k - Cells]
      OBVIOUS
    <3>1. n[Cells + (k - Cells)] = u[k - Cells]
      BY <1>4, <1>7
    <3> QED BY <1>3, <1>7, <3>1
  <2> QED BY <1>1, <1>7, <2>1, <2>2 DEF Ends
<1>9. Text(n, t) = lit
  <2>1. /\ Text(n, t) \in Seq(Char) /\ Len(Text(n, t)) = l
        /\ \A k \in 1 .. l : Text(n, t)[k] = n[t + k - 1]
    BY <1>1, <1>5, <1>7, <1>8, TextIs
  <2>2. \A k \in 1 .. l : t + k - 1 = Cells + k /\ k \in 1 .. (l + 1)
    BY <1>1
  <2>3. \A k \in 1 .. l : Text(n, t)[k] = lit[k]
    BY <1>3, <1>4, <2>1, <2>2
  <2> QED BY <1>1, <2>1, <2>3, SeqEqual DEF l
<1>10. Text(n, s) = Text(m, s)
  <2>1. Text(n, s) \in Seq(Char) /\ Len(Text(n, s)) = f - s /\ \A k \in 1 .. (f - s) : Text(n, s)[k] = n[s + k - 1]
    BY <1>1, <1>5, <1>6, <1>7, TextIs
  <2>2. Text(m, s) \in Seq(Char) /\ Len(Text(m, s)) = f - s /\ \A k \in 1 .. (f - s) : Text(m, s)[k] = m[s + k - 1]
    <3>1. Cells \in Nat
      BY <1>1
    <3> QED BY <3>1, TextIs
  <2>3. \A k \in 1 .. (f - s) : s + k - 1 \in 1 .. Cells
    BY <1>1
  <2>4. \A k \in 1 .. (f - s) : Text(n, s)[k] = Text(m, s)[k]
    BY <1>4, <2>1, <2>2, <2>3
  <2> QED BY <2>1, <2>2, <2>4, SeqEqual
<1>11. Ordered(strcmp(n, s, t), Stored(Text(n, s)), Stored(Text(n, t)), Signed)
  BY <1>1, <1>5, <1>6, <1>7, <1>8, strcmpAgrees
<1>12. Is(m, s, lit) <=> strcmp(n, s, t) = 0
  BY <1>2 DEF Is, n, u
<1>13. Text(m, s) \in Seq(Char)
  BY <1>1, TextIs
<1>14. Stored(Text(m, s)) = Stored(lit) <=> Text(m, s) = lit
  BY <1>1, <1>13, AppendProperties DEF Stored, NUL
<1> QED BY <1>9, <1>10, <1>11, <1>12, <1>14 DEF Ordered

\* What is written of a string is its text.
LEMMA StringWritten ==
  ASSUME NEW m \in Memory(Cells), NEW s \in 1 .. Cells, NEW f \in 1 .. Cells, Ends(m, s, f)
  PROVE  writestring(m, s) = <<"string", Text(m, s)>> /\ Text(m, s) \in Seq(Char)
<1>1. Cells \in Nat /\ Cells \in 0 .. Size
  BY Sizes
<1>2. strlen(m, s) = f - s /\ EndOf(m, s) = f
  BY <1>1, strlenIs, EndsOnce
<1>3. s + (f - s) - 1 = f - 1
  OBVIOUS
<1> QED BY <1>1, <1>2, <1>3, TextIs DEF writestring, Text

\* The words w as the arguments of a command.
Handed(m, args, w) ==
  /\ m \in Memory(Cells) /\ w \in Seq(Seq(Char)) /\ args \in Seq(1 .. BufferSize)
  /\ Len(args) = Len(w) /\ Len(w) <= Size
  /\ \A n \in 1 .. Len(w) : w[n] = Text(m, args[n]) /\ \E f \in 1 .. BufferSize : Ends(m, args[n], f)

\* What comparing and writing an argument comes to.
LEMMA WordIsText ==
  ASSUME NEW m, NEW args, NEW w, Handed(m, args, w), NEW n \in 1 .. Len(w)
  PROVE  /\ w[n] \in Seq(Char) /\ args[n] \in 1 .. BufferSize
         /\ writestring(m, args[n]) = <<"string", w[n]>>
         /\ \A lit \in Seq(Char \ {NUL}) : Is(m, args[n], lit) <=> w[n] = lit
<1>1. /\ m \in Memory(Cells) /\ w[n] \in Seq(Char) /\ args[n] \in 1 .. BufferSize
      /\ w[n] = Text(m, args[n]) /\ \E f \in 1 .. BufferSize : Ends(m, args[n], f)
  <2>1. Len(w) = Len(args) /\ w \in Seq(Seq(Char)) /\ args \in Seq(1 .. BufferSize)
    BY DEF Handed
  <2>2. w[n] \in Seq(Char) /\ args[n] \in 1 .. BufferSize
    BY <2>1, ElementOfSeq
  <2> QED BY <2>2 DEF Handed
<1>2. PICK f \in 1 .. BufferSize : Ends(m, args[n], f)
  BY <1>1
<1>3. args[n] \in 1 .. Cells /\ f \in 1 .. Cells
  BY <1>1, Sizes DEF Cells
<1>4. writestring(m, args[n]) = <<"string", Text(m, args[n])>>
  BY <1>1, <1>2, <1>3, StringWritten
<1>5. \A lit \in Seq(Char \ {NUL}) : Is(m, args[n], lit) <=> Text(m, args[n]) = lit
  BY <1>1, <1>2, <1>3, IsText
<1> QED BY <1>1, <1>4, <1>5

\* What shell_parse hands to a command.
LEMMA ParseHands ==
  ASSUME NEW m \in Memory(Cells), NEW e \in 1 .. BufferSize, Ends(m, Buffer, e)
  PROVE  LET p == shell_parse(m, Buffer)
         IN  Handed(p.mem, p.args, WordsOf(Text(m, Buffer))) /\ \A i \in e .. Cells : p.mem[i] = m[i]
<1> DEFINE p == shell_parse(m, Buffer)
           w == WordsOf(Text(m, Buffer))
<1>1. /\ w \in Seq(Seq(Char)) /\ Len(w) = Len(p.args)
      /\ \A n \in 1 .. Len(w) : w[n] = Text(p.mem, p.args[n]) /\ \E f \in 1 .. e : Ends(p.mem, p.args[n], f)
  BY WordsCut
<1>2. PICK t, a, z : Bared(m, e, t, a, z) /\ CutOut(t, a, z, MaxArgs, p)
  BY ParseCuts
<1> HIDE DEF p, w
<1>3. /\ p.mem \in Memory(Cells) /\ p.at \in a .. z /\ p.args \in Seq(a .. (z - 1))
      /\ \A i \in 1 .. Cells : i < a \/ i >= p.at => p.mem[i] = t[i]
  BY <1>2 DEF CutOut
<1>4. /\ a \in 1 .. BufferSize /\ z \in a .. BufferSize /\ z <= e
      /\ \A i \in 1 .. Cells : i \notin z .. (e - 1) => t[i] = m[i]
  BY <1>2 DEF Bared, Bare
<1>5. BufferSize \in Nat /\ Cells \in Nat
  BY Sizes
<1>6. \A i \in e .. Cells : p.mem[i] = m[i]
  <2>1. \A i \in e .. Cells : i \in 1 .. Cells /\ i >= p.at /\ i \notin z .. (e - 1)
    BY <1>3, <1>4, <1>5
  <2> QED BY <1>3, <1>4, <2>1
<1>7. p.args \in Seq(1 .. BufferSize)
  <2>1. a .. (z - 1) \subseteq 1 .. BufferSize
    BY <1>4, <1>5
  <2> DEFINE S == a .. (z - 1)
             R == 1 .. BufferSize
             q == p.args
  <2>2. S \subseteq R /\ q \in Seq(S)
    BY <1>3, <2>1
  <2> HIDE DEF S, R, q
  <2>3. q \in Seq(R)
    BY <2>2
  <2> QED BY <2>3 DEF R, q
<1>8. 1 .. e \subseteq 1 .. BufferSize
  BY <1>5
<1>9. Len(w) <= Size
  <2> DEFINE S == {j \in Begins(t, a, z) : j < p.at}
             R == a .. (z - 1)
  <2>1. Cardinality(S) = Len(w) /\ S \subseteq R
    BY <1>1, <1>2 DEF CutOut, Begins
  <2>2. IsFiniteSet(R) /\ Cardinality(R) <= BufferSize
    <3>1. a \in Int /\ z - 1 \in Int
      BY <1>4
    <3>2. IsFiniteSet(R) /\ Cardinality(R) = IF a > z - 1 THEN 0 ELSE (z - 1) - a + 1
      BY <3>1, FS_Interval
    <3> HIDE DEF R
    <3> QED BY <1>4, <1>5, <3>2
  <2> HIDE DEF S, R
  <2>3. Cardinality(S) <= Cardinality(R) /\ Cardinality(S) \in Nat /\ Cardinality(R) \in Nat
    BY <2>1, <2>2, FS_Subset, FS_CardinalityType
  <2> QED BY <1>5, <2>1, <2>2, <2>3, Sizes
<1>10. Handed(p.mem, p.args, w)
  BY <1>1, <1>3, <1>7, <1>8, <1>9 DEF Handed
<1> QED BY <1>6, <1>10 DEF p, w

\* Which command a line names.
LEMMA Dispatched ==
  ASSUME NEW m, NEW args, NEW w, Handed(m, args, w)
  PROVE  /\ w = << >> => Results(m, args) = Answered(m, {<< >>})
         /\ w # << >> =>
              /\ w[1] \notin Range(Spelling) =>
                   Results(m, args) = Answered(m, {<<Say("not found"), <<"string", w[1]>>, NewLine>>})
              /\ \A c \in DOMAIN Spelling : w[1] = Spelling[c] => Results(m, args) = Command(c, m, args)
<1> DEFINE named == {c \in DOMAIN Spelling : Is(m, args[1], Spelling[c])}
<1>1. w \in Seq(Seq(Char)) /\ args \in Seq(1 .. BufferSize) /\ Len(args) = Len(w)
  BY DEF Handed
<1>2. w = << >> <=> args = << >>
  BY <1>1, EmptySeq
<1>3. CASE w = << >>
  BY <1>2, <1>3 DEF Results
<1>4. CASE w # << >>
  <2>1. 1 \in 1 .. Len(w) /\ args # << >>
    BY <1>1, <1>2, <1>4, EmptySeq
  <2>2. named = {c \in DOMAIN Spelling : w[1] = Spelling[c]}
    <3>1. \A c \in DOMAIN Spelling : Spelling[c] \in Seq(Char \ {NUL})
      BY CommandConstants DEF CommandConstants
    <3>2. \A lit \in Seq(Char \ {NUL}) : Is(m, args[1], lit) <=> w[1] = lit
      BY <2>1, WordIsText
    <3> QED BY <3>1, <3>2
  <2>3. Results(m, args) =
          IF named = {} THEN Answered(m, {<<Say("not found"), writestring(m, args[1]), NewLine>>})
          ELSE Command(CHOOSE c \in named : TRUE, m, args)
    BY <2>1 DEF Results
  <2>4. writestring(m, args[1]) = <<"string", w[1]>>
    BY <2>1, WordIsText
  <2> HIDE DEF named
  <2>5. ASSUME w[1] \notin Range(Spelling)
        PROVE  named = {}
    BY <2>2, <2>5 DEF Range
  <2>6. ASSUME NEW c \in DOMAIN Spelling, w[1] = Spelling[c]
        PROVE  named = {c}
    <3>1. \A d \in DOMAIN Spelling : Spelling[c] = Spelling[d] => c = d
      BY CommandConstants DEF CommandConstants
    <3> QED BY <2>2, <2>6, <3>1
  <2>7. ASSUME NEW c \in DOMAIN Spelling, w[1] = Spelling[c]
        PROVE  Results(m, args) = Command(c, m, args)
    <3>1. named = {c}
      BY <2>6, <2>7
    <3>2. (CHOOSE x \in named : TRUE) = c
      BY <3>1
    <3> QED BY <2>3, <3>1, <3>2
  <2> QED BY <1>4, <2>3, <2>4, <2>5, <2>7
<1> QED BY <1>3, <1>4

-----------------------------------------------------------------------------
\* The names.

\* Each name ends in its array.
NamesEnd(m) ==
  /\ \E f \in prompt_user .. (prompt_os - 1) : Ends(m, prompt_user, f)
  /\ \E f \in prompt_os .. Cells : Ends(m, prompt_os, f)

\* Where the buffer and the names stand.
LEMMA Places ==
  /\ BufferSize \in Nat /\ NameSize \in Nat \ {0} /\ Cells \in Nat /\ Cells \in 0 .. Size
  /\ BufferSize < Cells /\ prompt_user \in 1 .. Cells /\ prompt_os \in 1 .. Cells
  /\ prompt_user = BufferSize + 1 /\ prompt_os = prompt_user + NameSize /\ Cells + 1 = prompt_os + NameSize
BY Sizes DEF Cells, prompt_user, prompt_os

\* A name cut off to its array.
LEMMA NameCopied ==
  ASSUME NEW m \in Memory(Cells), NEW s \in 1 .. BufferSize, NEW f \in 1 .. BufferSize, Ends(m, s, f),
         NEW dest \in {prompt_user, prompt_os}
  PROVE  LET n == strlcpy(m, dest, s, NameSize)
         IN  /\ n \in Memory(Cells) /\ Text(n, dest) = Cut(Text(m, s), NameSize - 1)
             /\ \E g \in dest .. (dest + NameSize - 1) : Ends(n, dest, g)
             /\ \A i \in 1 .. Cells : i < dest \/ i >= dest + NameSize => n[i] = m[i]
<1> DEFINE n == strlcpy(m, dest, s, NameSize)
           l == Shorter(f - s, NameSize - 1)
<1>1. /\ Cells \in 0 .. Size /\ Cells \in Nat /\ s \in 1 .. Cells /\ f \in 1 .. Cells /\ s <= f
      /\ dest \in Nat \ {0} /\ dest \in Nat /\ dest \in 1 .. Cells /\ NameSize \in Nat /\ NameSize \in Nat \ {0}
      /\ f < dest /\ dest + NameSize <= Cells + 1
  BY Places DEF Ends
<1>2. l \in Nat /\ l <= f - s /\ l <= NameSize - 1
  BY <1>1 DEF Shorter
<1>3. n = Put(m, dest, s, l)
  BY <1>1, strlcpyIs
<1> HIDE DEF l
<1>4. Room(Cells, dest, s, l) /\ s \in Nat \ {0}
  BY <1>1, <1>2 DEF Room
<1>5. Holds(Cells, m, Put(m, dest, s, l), dest, s, l)
  BY <1>1, <1>2, <1>4, PutIs
<1>6. n \in Memory(Cells) /\ n[dest + l] = NUL
  BY <1>3, <1>5 DEF Holds
<1>7. Disjoint(dest, NameSize, s, (f - s) + 1)
  BY <1>1 DEF Disjoint
<1>8. /\ NameSize > 0 => Text(n, dest) = Cut(Text(m, s), NameSize - 1)
      /\ SameBut(m, n, dest, NameSize)
  BY <1>1, <1>7, strlcpyAgrees
<1> HIDE DEF n
<1>9. \A i \in 1 .. Cells : i < dest \/ i >= dest + NameSize => n[i] = m[i]
  <2>1. DOMAIN m = 1 .. Cells
    BY DEF Memory
  <2>2. \A i \in 1 .. Cells : i < dest \/ i >= dest + NameSize => i \notin dest .. (dest + NameSize - 1)
    BY <1>1
  <2> QED BY <1>8, <2>1, <2>2 DEF SameBut
<1>10. \E g \in dest .. (dest + NameSize - 1) : Ends(n, dest, g)
  <2>1. dest + l \in 1 .. Cells /\ dest + l >= dest
    BY <1>1, <1>2
  <2>2. dest \in Starts(n)
    BY <1>1, <1>6, <2>1 DEF Starts, Memory
  <2>3. PICK g \in 1 .. Cells : Ends(n, dest, g)
    BY <1>1, <1>6, <2>2, StartEnds
  <2>4. ~(dest + l < g)
    <3> SUFFICES ASSUME dest + l < g
                 PROVE  FALSE
      OBVIOUS
    <3>1. dest + l \in dest .. (g - 1)
      BY <1>1, <1>2
    <3> QED BY <1>6, <2>3, <3>1 DEF Ends
  <2>5. g >= dest
    BY <2>3 DEF Ends
  <2>6. g \in dest .. (dest + NameSize - 1)
    BY <1>1, <1>2, <2>4, <2>5
  <2> QED BY <2>3, <2>6
<1> QED BY <1>1, <1>6, <1>8, <1>9, <1>10 DEF n

\* A name stays as long as its array does.
LEMMA NameStays ==
  ASSUME NEW m \in Memory(Cells), NEW n \in Memory(Cells), NamesEnd(m)
  PROVE  /\ (\A i \in prompt_user .. (prompt_os - 1) : n[i] = m[i]) =>
              /\ \E f \in prompt_user .. (prompt_os - 1) : Ends(n, prompt_user, f)
              /\ Text(n, prompt_user) = Text(m, prompt_user)
         /\ (\A i \in prompt_os .. Cells : n[i] = m[i]) =>
              /\ \E f \in prompt_os .. Cells : Ends(n, prompt_os, f)
              /\ Text(n, prompt_os) = Text(m, prompt_os)
<1>1. PICK f \in prompt_user .. (prompt_os - 1) : Ends(m, prompt_user, f)
  BY DEF NamesEnd
<1>2. PICK g \in prompt_os .. Cells : Ends(m, prompt_os, g)
  BY DEF NamesEnd
<1>3. ASSUME \A i \in prompt_user .. (prompt_os - 1) : n[i] = m[i]
      PROVE  Ends(n, prompt_user, f) /\ Text(n, prompt_user) = Text(m, prompt_user)
  <2>1. f \in 1 .. Cells /\ \A i \in prompt_user .. f : i \in prompt_user .. (prompt_os - 1)
    BY Places
  <2>2. \A i \in prompt_user .. f : n[i] = m[i]
    BY <1>3, <2>1
  <2> QED BY <1>1, <2>1, <2>2, Places, SameText
<1>4. ASSUME \A i \in prompt_os .. Cells : n[i] = m[i]
      PROVE  Ends(n, prompt_os, g) /\ Text(n, prompt_os) = Text(m, prompt_os)
  <2>1. g \in 1 .. Cells /\ \A i \in prompt_os .. g : i \in prompt_os .. Cells
    BY Places
  <2>2. \A i \in prompt_os .. g : n[i] = m[i]
    BY <1>4, <2>1
  <2> QED BY <1>2, <2>1, <2>2, Places, SameText
<1> QED BY <1>3, <1>4

\* The names a setprompt asks for.
UserAsked(m, w) == IF Len(w) > 1 THEN Cut(w[2], NameSize - 1) ELSE Text(m, prompt_user)
OsAsked(m, w) == IF Len(w) > 2 THEN Cut(w[3], NameSize - 1) ELSE Text(m, prompt_os)
Renamed(m, n, w) ==
  /\ n \in Memory(Cells) /\ NamesEnd(n)
  /\ Text(n, prompt_user) = UserAsked(m, w) /\ Text(n, prompt_os) = OsAsked(m, w)

\* setprompt leaves the names it was asked for.
LEMMA setpromptIs ==
  ASSUME NEW m, NEW args, NEW w, Handed(m, args, w), NamesEnd(m)
  PROVE  Renamed(m, setprompt(m, args), w)
<1>1. /\ m \in Memory(Cells) /\ Len(args) = Len(w) /\ Len(w) \in Nat
      /\ args \in Seq(1 .. BufferSize)
  BY LenProperties DEF Handed
<1>2. ASSUME NEW n \in 1 .. Len(w)
      PROVE  /\ args[n] \in 1 .. BufferSize /\ w[n] = Text(m, args[n])
             /\ \E f \in 1 .. BufferSize : Ends(m, args[n], f)
  BY <1>1, <1>2, ElementOfSeq DEF Handed
<1> DEFINE named == strlcpy(m, prompt_user, args[2], NameSize)
<1>3. CASE Len(w) < 2
  <2>1. setprompt(m, args) = m
    BY <1>1, <1>3 DEF setprompt
  <2>2. ~(Len(w) > 1) /\ ~(Len(w) > 2)
    BY <1>1, <1>3
  <2> QED BY <1>1, <2>1, <2>2 DEF Renamed, UserAsked, OsAsked
<1>4. ASSUME Len(w) >= 2
      PROVE  /\ named \in Memory(Cells) /\ Text(named, prompt_user) = Cut(w[2], NameSize - 1)
             /\ \E g \in prompt_user .. (prompt_os - 1) : Ends(named, prompt_user, g)
             /\ \A i \in 1 .. Cells : i < prompt_user \/ i >= prompt_os => named[i] = m[i]
  <2>1. 2 \in 1 .. Len(w)
    BY <1>1, <1>4
  <2>2. PICK f \in 1 .. BufferSize : Ends(m, args[2], f)
    BY <1>2, <2>1
  <2>3. args[2] \in 1 .. BufferSize /\ w[2] = Text(m, args[2]) /\ prompt_os = prompt_user + NameSize
    BY <1>2, <2>1, Places
  <2> HIDE DEF named
  <2>4. /\ named \in Memory(Cells) /\ Text(named, prompt_user) = Cut(Text(m, args[2]), NameSize - 1)
        /\ \E g \in prompt_user .. (prompt_user + NameSize - 1) : Ends(named, prompt_user, g)
        /\ \A i \in 1 .. Cells : i < prompt_user \/ i >= prompt_user + NameSize => named[i] = m[i]
    BY <1>1, <2>2, <2>3, NameCopied DEF named
  <2>5. prompt_user + NameSize - 1 = prompt_os - 1 /\ prompt_user + NameSize = prompt_os
    BY Places
  <2>6. Text(named, prompt_user) = Cut(w[2], NameSize - 1)
    BY <2>3, <2>4
  <2>7. \A i \in 1 .. Cells : i < prompt_user \/ i >= prompt_os => named[i] = m[i]
    BY <2>4, <2>5
  <2> QED BY <2>4, <2>5, <2>6, <2>7
<1>5. ASSUME Len(w) >= 2
      PROVE  /\ \E g \in prompt_os .. Cells : Ends(named, prompt_os, g)
             /\ Text(named, prompt_os) = Text(m, prompt_os)
  <2>1. \A i \in prompt_os .. Cells : i \in 1 .. Cells /\ i >= prompt_os
    BY Places
  <2>2. named \in Memory(Cells) /\ \A i \in prompt_os .. Cells : named[i] = m[i]
    BY <1>4, <1>5, <2>1
  <2> HIDE DEF named
  <2> QED BY <1>1, <2>2, NameStays
<1>6. CASE Len(w) = 2
  <2>1. setprompt(m, args) = named
    BY <1>1, <1>6 DEF setprompt
  <2>2. Len(w) > 1 /\ ~(Len(w) > 2) /\ Len(w) >= 2
    BY <1>6
  <2> HIDE DEF named
  <2>3. NamesEnd(named)
    BY <1>4, <1>5, <2>2 DEF NamesEnd
  <2> QED BY <1>4, <1>5, <2>1, <2>2, <2>3 DEF Renamed, UserAsked, OsAsked
<1>7. CASE Len(w) > 2
  <2> DEFINE last == strlcpy(named, prompt_os, args[3], NameSize)
  <2>1. 3 \in 1 .. Len(w) /\ Len(w) >= 2 /\ Len(w) > 1 /\ Len(w) # 2 /\ ~(Len(w) < 2)
    BY <1>1, <1>7
  <2>2. setprompt(m, args) = last
    BY <1>1, <2>1 DEF setprompt
  <2> HIDE DEF named
  <2>3. /\ named \in Memory(Cells) /\ Text(named, prompt_user) = Cut(w[2], NameSize - 1)
        /\ \E g \in prompt_user .. (prompt_os - 1) : Ends(named, prompt_user, g)
        /\ \A i \in 1 .. Cells : i < prompt_user \/ i >= prompt_os => named[i] = m[i]
    BY <1>4, <2>1
  <2>4. PICK f \in 1 .. BufferSize : Ends(m, args[3], f)
    BY <1>2, <2>1
  <2>5. args[3] \in 1 .. BufferSize /\ w[3] = Text(m, args[3])
    BY <1>2, <2>1
  <2>6. Ends(named, args[3], f) /\ Text(named, args[3]) = w[3]
    <3>1. \A i \in args[3] .. f : i \in 1 .. Cells /\ i < prompt_user
      BY <2>5, Places
    <3>2. \A i \in args[3] .. f : named[i] = m[i]
      BY <2>3, <3>1
    <3>3. args[3] \in 1 .. Cells /\ f \in 1 .. Cells
      BY <2>5, Places
    <3> QED BY <1>1, <2>3, <2>4, <2>5, <3>2, <3>3, Places, SameText
  <2>7. /\ last \in Memory(Cells) /\ Text(last, prompt_os) = Cut(w[3], NameSize - 1)
        /\ \E g \in prompt_os .. (prompt_os + NameSize - 1) : Ends(last, prompt_os, g)
        /\ \A i \in 1 .. Cells : i < prompt_os \/ i >= prompt_os + NameSize => last[i] = named[i]
    BY <2>3, <2>5, <2>6, NameCopied
  <2> HIDE DEF last
  <2>8. prompt_os + NameSize - 1 = Cells
    BY Places
  <2>9. NamesEnd(named)
    BY <1>5, <2>1, <2>3 DEF NamesEnd, named
  <2>10. /\ \E g \in prompt_user .. (prompt_os - 1) : Ends(last, prompt_user, g)
         /\ Text(last, prompt_user) = Text(named, prompt_user)
    <3>1. \A i \in prompt_user .. (prompt_os - 1) : i \in 1 .. Cells /\ i < prompt_os
      BY Places
    <3>2. \A i \in prompt_user .. (prompt_os - 1) : last[i] = named[i]
      BY <2>7, <3>1
    <3> QED BY <2>3, <2>7, <2>9, <3>2, NameStays
  <2>11. NamesEnd(last)
    BY <2>7, <2>8, <2>10 DEF NamesEnd
  <2> QED BY <1>7, <2>1, <2>2, <2>3, <2>7, <2>10, <2>11 DEF Renamed, UserAsked, OsAsked
<1>8. Len(w) < 2 \/ Len(w) = 2 \/ Len(w) > 2
  <2> DEFINE l == Len(w)
  <2>1. l \in Nat
    BY <1>1
  <2> HIDE DEF l
  <2>2. l < 2 \/ l = 2 \/ l > 2
    BY <2>1
  <2> QED BY <2>2 DEF l
<1> QED BY <1>3, <1>6, <1>7, <1>8

\* Whatever is answered, the pages stay and the shell goes on.
LEMMA AnsweredIs ==
  ASSUME NEW m, NEW outs, NEW r \in Answered(m, outs)
  PROVE  r.mem = m /\ r.out \in outs /\ r.returns /\ r.pages = pages
BY DEF Answered, Ran, Done

\* What a command runs to is one of its runs, in the memory it leaves.
LEMMA RanIs ==
  ASSUME NEW m, NEW runs, NEW r \in Ran(m, runs)
  PROVE  r.mem = m /\ \E q \in runs : r.out = q.out /\ r.returns = q.returns /\ r.pages = q.pages
BY DEF Ran

\* The memory a command leaves: only setprompt writes to it, and only the names.
LEMMA ResultsLeave ==
  ASSUME NEW m, NEW args, NEW w, Handed(m, args, w), NEW r \in Results(m, args)
  PROVE  IF w # << >> /\ w[1] = Spelling["setprompt"]
         THEN r.returns /\ r.mem = setprompt(m, args)
         ELSE r.mem = m
<1>0. /\ \A c, d \in DOMAIN Spelling : Spelling[c] = Spelling[d] => c = d
      /\ "setprompt" \in DOMAIN Spelling
  BY CommandConstants DEF CommandConstants
<1>1. ASSUME NEW outs, r \in Answered(m, outs)
      PROVE  r.mem = m
  BY <1>1, AnsweredIs
<1>2. ASSUME NEW runs, r \in Ran(m, runs)
      PROVE  r.mem = m
  BY <1>2, RanIs
<1>3. ASSUME NEW outs, r \in Answered(setprompt(m, args), outs)
      PROVE  r.returns /\ r.mem = setprompt(m, args)
  BY <1>3, AnsweredIs
<1>4. CASE w = << >>
  BY <1>1, <1>4, Dispatched
<1>5. CASE w # << >> /\ w[1] \notin Range(Spelling)
  <2>1. w[1] # Spelling["setprompt"]
    BY <1>0, <1>5 DEF Range
  <2> QED BY <1>1, <1>5, <2>1, Dispatched
<1>6. ASSUME w # << >>, NEW c \in DOMAIN Spelling, w[1] = Spelling[c]
      PROVE  IF w[1] = Spelling["setprompt"] THEN r.returns /\ r.mem = setprompt(m, args) ELSE r.mem = m
  <2>1. r \in Command(c, m, args)
    BY <1>6, Dispatched
  <2>2. w[1] = Spelling["setprompt"] <=> c = "setprompt"
    BY <1>0, <1>6
  <2>3. CASE c = "setprompt"
    BY <1>3, <2>1, <2>2, <2>3 DEF Command
  <2>4. CASE c # "setprompt"
    <3>1. c \in {"echo", "exit", "uptime", "memdump", "memtest", "mia", "mmap", "peek", "poke",
                 "help", "fetch", "clear", "crash", "reboot"}
      BY <1>6, <2>4, CommandConstants DEF CommandConstants
    <3>2. r.mem = m
      BY <1>1, <1>2, <2>1, <3>1 DEF Command
    <3> QED BY <2>2, <2>4, <3>2
  <2> QED BY <2>3, <2>4
<1> QED BY <1>4, <1>5, <1>6 DEF Range

-----------------------------------------------------------------------------
\* The shell's memory.

\* The memory keeps its cells, each with a character, a name that ends in each
\* array, and while a line is typed it is ended within the buffer.
MemoryOK ==
  /\ mem \in Memory(Cells) /\ NamesEnd(mem)
  /\ shown = << >> => \E e \in 1 .. BufferSize : mem[e] = NUL

\* The line that is entered, as its command finds it.
LEMMA LineEntered ==
  ASSUME MemoryOK, shown = << >>
  PROVE  LET p == shell_parse(mem, Buffer)
         IN  /\ Handed(p.mem, p.args, WordsOf(Text(mem, Buffer))) /\ NamesEnd(p.mem)
             /\ Text(p.mem, prompt_user) = Text(mem, prompt_user)
             /\ Text(p.mem, prompt_os) = Text(mem, prompt_os)
             /\ \E e \in 1 .. BufferSize : p.mem[e] = NUL
<1> DEFINE p == shell_parse(mem, Buffer)
<1>1. mem \in Memory(Cells) /\ NamesEnd(mem) /\ Cells \in Nat /\ Buffer = 1 /\ Buffer \in 1 .. BufferSize
  BY Sizes DEF MemoryOK, Buffer
<1>2. PICK x \in 1 .. BufferSize : mem[x] = NUL
  BY DEF MemoryOK
<1>3. Buffer \in Starts(mem)
  <2>1. x \in 1 .. Cells /\ Buffer \in 1 .. Cells /\ x >= Buffer
    BY <1>1, Places
  <2> QED BY <1>1, <1>2, <2>1 DEF Starts, Memory
<1>4. PICK e \in 1 .. Cells : Ends(mem, Buffer, e)
  BY <1>1, <1>3, StartEnds
<1>5. e \in 1 .. BufferSize
  <2>1. ~(x < e)
    <3> SUFFICES ASSUME x < e
                 PROVE  FALSE
      OBVIOUS
    <3>1. x \in Buffer .. (e - 1)
      BY <1>1
    <3> QED BY <1>2, <1>4, <3>1 DEF Ends
  <2> QED BY <1>1, <2>1, Places
<1>6. /\ Handed(p.mem, p.args, WordsOf(Text(mem, Buffer)))
      /\ \A i \in e .. Cells : p.mem[i] = mem[i]
  BY <1>1, <1>4, <1>5, ParseHands
<1> HIDE DEF p
<1>7. p.mem \in Memory(Cells)
  BY <1>6 DEF Handed
<1>8. /\ \A i \in prompt_user .. (prompt_os - 1) : p.mem[i] = mem[i]
      /\ \A i \in prompt_os .. Cells : p.mem[i] = mem[i]
  <2>1. /\ \A i \in prompt_user .. (prompt_os - 1) : i \in e .. Cells
        /\ \A i \in prompt_os .. Cells : i \in e .. Cells
    BY <1>5, Places
  <2> QED BY <1>6, <2>1
<1>9. /\ NamesEnd(p.mem)
      /\ Text(p.mem, prompt_user) = Text(mem, prompt_user)
      /\ Text(p.mem, prompt_os) = Text(mem, prompt_os)
  BY <1>1, <1>7, <1>8, NameStays DEF NamesEnd
<1>10. p.mem[e] = NUL
  <2>1. e \in e .. Cells /\ mem[e] = NUL
    BY <1>1, <1>4 DEF Ends
  <2> QED BY <1>6, <2>1
<1> QED BY <1>5, <1>6, <1>9, <1>10 DEF p

\* The names as the line asks for them.
Named(w) == w # << >> /\ w[1] = Spelling["setprompt"]
UserAfter(w) == IF Named(w) /\ Len(w) > 1 THEN Cut(w[2], NameSize - 1) ELSE Text(mem, prompt_user)
OsAfter(w) == IF Named(w) /\ Len(w) > 2 THEN Cut(w[3], NameSize - 1) ELSE Text(mem, prompt_os)

\* What the entered line leaves in memory.
LEMMA LineLeaves ==
  ASSUME MemoryOK, shown = << >>, NEW r \in shell_execute
  PROVE  LET w == WordsOf(Text(mem, Buffer))
         IN  /\ r.mem \in Memory(Cells) /\ NamesEnd(r.mem)
             /\ Text(r.mem, prompt_user) = UserAfter(w) /\ Text(r.mem, prompt_os) = OsAfter(w)
             /\ r.returns \/ \E e \in 1 .. BufferSize : r.mem[e] = NUL
<1> DEFINE p == shell_parse(mem, Buffer)
           w == WordsOf(Text(mem, Buffer))
<1>1. /\ Handed(p.mem, p.args, w) /\ NamesEnd(p.mem)
      /\ Text(p.mem, prompt_user) = Text(mem, prompt_user)
      /\ Text(p.mem, prompt_os) = Text(mem, prompt_os)
      /\ \E e \in 1 .. BufferSize : p.mem[e] = NUL
  BY LineEntered
<1>2. r \in Results(p.mem, p.args)
  BY DEF shell_execute
<1> HIDE DEF p, w
<1>3. IF Named(w) THEN r.returns /\ r.mem = setprompt(p.mem, p.args) ELSE r.mem = p.mem
  BY <1>1, <1>2, ResultsLeave DEF Named
<1>4. CASE Named(w)
  <2>1. Renamed(p.mem, r.mem, w)
    BY <1>1, <1>3, <1>4, setpromptIs
  <2> QED BY <1>1, <1>3, <1>4, <2>1 DEF Renamed, UserAsked, OsAsked, UserAfter, OsAfter, w
<1>5. CASE ~Named(w)
  <2>1. p.mem \in Memory(Cells)
    BY <1>1 DEF Handed
  <2> QED BY <1>1, <1>3, <1>5, <2>1 DEF UserAfter, OsAfter, w
<1> QED BY <1>4, <1>5

\* Text that is filled up with NULs ends before its cells do.
LEMMA PaddedIs ==
  ASSUME NEW t \in Seq(Char), NEW n \in Nat
  PROVE  /\ Padded(t, n) \in Seq(Char) /\ Len(Padded(t, n)) = n
         /\ Len(t) < n => Padded(t, n)[Len(t) + 1] = NUL
<1>1. \A i \in 1 .. n : (IF i <= Len(t) THEN t[i] ELSE NUL) \in Char
  <2> SUFFICES ASSUME NEW i \in 1 .. n, i <= Len(t)
               PROVE  t[i] \in Char
    BY CharIs
  <2>1. i \in 1 .. Len(t)
    BY LenProperties
  <2> QED BY <2>1, ElementOfSeq
<1>2. Padded(t, n) \in Seq(Char) /\ Len(Padded(t, n)) = n
  BY <1>1 DEF Padded
<1>3. ASSUME Len(t) < n
      PROVE  Padded(t, n)[Len(t) + 1] = NUL
  <2>1. Len(t) + 1 \in 1 .. n /\ ~(Len(t) + 1 <= Len(t))
    BY <1>3, LenProperties
  <2> QED BY <2>1 DEF Padded
<1> QED BY <1>2, <1>3

\* A string with a NUL between two places ends between them.
LEMMA EndsBetween ==
  ASSUME NEW size \in Nat, NEW m \in Memory(size), NEW s \in 1 .. size, NEW x \in s .. size, m[x] = NUL
  PROVE  \E f \in s .. x : Ends(m, s, f)
<1>1. x \in 1 .. size /\ x >= s
  OBVIOUS
<1>2. s \in Starts(m)
  BY <1>1 DEF Starts, Memory
<1>3. PICK f \in 1 .. size : Ends(m, s, f)
  BY <1>2, StartEnds
<1>4. ~(x < f)
  <2> SUFFICES ASSUME x < f
               PROVE  FALSE
    OBVIOUS
  <2>1. x \in s .. (f - 1)
    BY <1>1
  <2> QED BY <1>3, <2>1 DEF Ends
<1>5. f \in s .. x
  BY <1>3, <1>4 DEF Ends
<1> QED BY <1>3, <1>5

\* The memory the kernel starts with.
LEMMA MemoryInit ==
  CommandsInit => MemoryOK
<1> SUFFICES ASSUME CommandsInit
             PROVE  MemoryOK
  OBVIOUS
<1> DEFINE a == Padded(<< >>, BufferSize)
           b == Padded(DefaultUser, NameSize)
           c == Padded(DefaultOs, NameSize)
           lu == Len(DefaultUser) + 1
           lo == Len(DefaultOs) + 1
<1>0. /\ BufferSize \in Nat \ {0} /\ NameSize \in Nat
      /\ DefaultUser \in Seq(Char) /\ DefaultOs \in Seq(Char)
      /\ Len(DefaultUser) < NameSize /\ Len(DefaultOs) < NameSize
      /\ << >> \in Seq(Char) /\ Len(<< >>) = 0
  BY Sizes, CommandConstants DEF CommandConstants
<1>1. lu \in 1 .. NameSize /\ lo \in 1 .. NameSize
  BY <1>0, LenProperties
<1>2. /\ a \in Seq(Char) /\ Len(a) = BufferSize /\ a[1] = NUL
      /\ b \in Seq(Char) /\ Len(b) = NameSize /\ b[lu] = NUL
      /\ c \in Seq(Char) /\ Len(c) = NameSize /\ c[lo] = NUL
  <2>1. a \in Seq(Char) /\ Len(a) = BufferSize /\ (0 < BufferSize => a[0 + 1] = NUL)
    BY <1>0, PaddedIs
  <2>2. b \in Seq(Char) /\ Len(b) = NameSize /\ b[lu] = NUL
    BY <1>0, PaddedIs
  <2>3. c \in Seq(Char) /\ Len(c) = NameSize /\ c[lo] = NUL
    BY <1>0, PaddedIs
  <2>4. 0 < BufferSize /\ 0 + 1 = 1
    BY <1>0
  <2> HIDE DEF a, b, c, lu, lo
  <2> QED BY <2>1, <2>2, <2>3, <2>4
<1>3. mem = a \o b \o c
  BY DEF CommandsInit
<1> HIDE DEF a, b, c, lu, lo
<1> DEFINE d == a \o b
<1>4. /\ d \in Seq(Char) /\ Len(d) = BufferSize + NameSize
      /\ \A k \in 1 .. BufferSize : d[k] = a[k]
      /\ \A k \in 1 .. NameSize : d[BufferSize + k] = b[k]
  <2>1. /\ d \in Seq(Char) /\ Len(d) = Len(a) + Len(b)
        /\ \A k \in 1 .. Len(a) : d[k] = a[k]
        /\ \A k \in 1 .. Len(b) : d[Len(a) + k] = b[k]
    BY <1>2, JoinedAt
  <2> HIDE DEF d
  <2> QED BY <1>2, <2>1
<1> HIDE DEF d
<1>5. /\ mem \in Seq(Char) /\ Len(mem) = BufferSize + NameSize + NameSize
      /\ \A k \in 1 .. (BufferSize + NameSize) : mem[k] = d[k]
      /\ \A k \in 1 .. NameSize : mem[BufferSize + NameSize + k] = c[k]
  <2>1. mem = d \o c
    BY <1>3 DEF d
  <2>2. /\ d \o c \in Seq(Char) /\ Len(d \o c) = Len(d) + Len(c)
        /\ \A k \in 1 .. Len(d) : (d \o c)[k] = d[k]
        /\ \A k \in 1 .. Len(c) : (d \o c)[Len(d) + k] = c[k]
    BY <1>2, <1>4, JoinedAt
  <2> QED BY <1>2, <1>4, <2>1, <2>2
<1>6. BufferSize + NameSize + NameSize = Cells
  BY <1>0 DEF Cells
<1>7. mem \in Memory(Cells)
  BY <1>5, <1>6, LenProperties DEF Memory
<1>8. mem[1] = NUL
  <2>1. 1 \in 1 .. BufferSize /\ 1 \in 1 .. (BufferSize + NameSize)
    BY <1>0
  <2> QED BY <1>2, <1>4, <1>5, <2>1
<1>9. mem[BufferSize + lu] = NUL
  <2>1. BufferSize + lu \in 1 .. (BufferSize + NameSize)
    BY <1>0, <1>1
  <2> QED BY <1>1, <1>2, <1>4, <1>5, <2>1
<1>10. mem[BufferSize + NameSize + lo] = NUL
  BY <1>1, <1>2, <1>5
<1>11. NamesEnd(mem)
  <2> DEFINE x == BufferSize + lu
             y == BufferSize + NameSize + lo
  <2>1. /\ x \in prompt_user .. Cells /\ y \in prompt_os .. Cells /\ x <= prompt_os - 1
        /\ prompt_user \in 1 .. Cells /\ prompt_os \in 1 .. Cells /\ Cells \in Nat
    BY <1>1, Places
  <2> HIDE DEF x, y
  <2>2. \E f \in prompt_user .. x : Ends(mem, prompt_user, f)
    BY <1>7, <1>9, <2>1, EndsBetween DEF x
  <2>3. \E f \in prompt_os .. y : Ends(mem, prompt_os, f)
    BY <1>7, <1>10, <2>1, EndsBetween DEF y
  <2>4. prompt_user .. x \subseteq prompt_user .. (prompt_os - 1) /\ prompt_os .. y \subseteq prompt_os .. Cells
    BY <2>1
  <2> QED BY <2>2, <2>3, <2>4 DEF NamesEnd
<1>12. 1 \in 1 .. BufferSize
  BY <1>0
<1> QED BY <1>7, <1>8, <1>11, <1>12 DEF MemoryOK

\* Every line that is typed, and every command, keeps it so.
LEMMA MemoryNext ==
  MemoryOK /\ [CommandsNext]_commandVars => MemoryOK'
<1> SUFFICES ASSUME MemoryOK, [CommandsNext]_commandVars
             PROVE  MemoryOK'
  OBVIOUS
<1>1. /\ mem \in Memory(Cells) /\ NamesEnd(mem) /\ Cells \in Nat /\ BufferSize \in Nat /\ BufferSize <= Cells
      /\ Buffer = 1 /\ 1 \in 1 .. BufferSize
  BY Sizes DEF MemoryOK, Cells, Buffer
<1>2. ASSUME NEW n \in Memory(Cells), \A i \in 1 .. Cells : i > BufferSize => n[i] = mem[i]
      PROVE  NamesEnd(n)
  <2>1. /\ \A i \in prompt_user .. (prompt_os - 1) : i \in 1 .. Cells /\ i > BufferSize
        /\ \A i \in prompt_os .. Cells : i \in 1 .. Cells /\ i > BufferSize
    BY Places
  <2>2. /\ \A i \in prompt_user .. (prompt_os - 1) : n[i] = mem[i]
        /\ \A i \in prompt_os .. Cells : n[i] = mem[i]
    BY <1>2, <2>1
  <2> QED BY <1>1, <2>2, NameStays DEF NamesEnd
<1>3. ASSUME NEW line \in Lines, Type(line)
      PROVE  MemoryOK'
  <2> DEFINE t == Stored(line)
             n == Len(line) + 1
  <2>1. line \in Seq(Char) /\ Len(line) \in Nat /\ n \in 1 .. BufferSize
    BY Sizes, LenProperties
  <2>2. t \in Seq(Char) /\ Len(t) = n /\ t[n] = NUL
    BY <2>1, CharIs, AppendProperties DEF Stored
  <2>3. mem' = [i \in 1 .. Cells |-> IF i <= n THEN t[i] ELSE mem[i]]
    BY <1>3, <1>1 DEF Type, Memory
  <2> HIDE DEF t, n
  <2>4. \A i \in 1 .. Cells : i <= n => t[i] \in Char
    BY <1>1, <2>1, <2>2, ElementOfSeq
  <2>5. mem' \in Memory(Cells)
    BY <1>1, <2>3, <2>4 DEF Memory
  <2>6. mem'[n] = NUL
    BY <1>1, <2>1, <2>2, <2>3
  <2>7. \A i \in 1 .. Cells : i > BufferSize => mem'[i] = mem[i]
    BY <1>1, <2>1, <2>3
  <2>8. NamesEnd(mem')
    BY <1>2, <2>5, <2>7
  <2> QED BY <2>1, <2>5, <2>6, <2>8 DEF MemoryOK, Cells, NamesEnd, Ends, prompt_user, prompt_os
<1>4. ASSUME Enter
      PROVE  MemoryOK'
  <2>1. PICK r \in shell_execute : mem' = [r.mem EXCEPT ![Buffer] = NUL]
    BY <1>4 DEF Enter
  <2>2. r.mem \in Memory(Cells) /\ NamesEnd(r.mem)
    BY <1>4, LineLeaves DEF Enter
  <2>3. mem' \in Memory(Cells) /\ mem'[1] = NUL /\ \A i \in 1 .. Cells : i # 1 => mem'[i] = r.mem[i]
    <3>1. NUL \in Char
      BY CharIs
    <3> QED BY <1>1, <2>1, <2>2, <3>1 DEF Memory
  <2>4. NamesEnd(mem')
    <3> DEFINE m == r.mem
    <3> HIDE DEF m
    <3>1. /\ \A i \in prompt_user .. (prompt_os - 1) : i \in 1 .. Cells /\ i # 1
          /\ \A i \in prompt_os .. Cells : i \in 1 .. Cells /\ i # 1
      BY Places, <1>1
    <3>2. /\ \A i \in prompt_user .. (prompt_os - 1) : mem'[i] = m[i]
          /\ \A i \in prompt_os .. Cells : mem'[i] = m[i]
      BY <2>3, <3>1 DEF m
    <3>3. m \in Memory(Cells) /\ NamesEnd(m)
      BY <2>2 DEF m
    <3> QED BY <2>3, <3>2, <3>3, NameStays DEF NamesEnd
  <2> QED BY <1>1, <2>3, <2>4 DEF MemoryOK, Cells, NamesEnd, Ends, prompt_user, prompt_os
<1>5. ASSUME EnterLast
      PROVE  MemoryOK'
  <2>1. PICK r \in shell_execute : ~r.returns /\ mem' = r.mem
    BY <1>5 DEF EnterLast
  <2>2. r.mem \in Memory(Cells) /\ NamesEnd(r.mem) /\ (r.returns \/ \E e \in 1 .. BufferSize : r.mem[e] = NUL)
    BY <1>5, LineLeaves DEF EnterLast
  <2>3. mem' \in Memory(Cells) /\ NamesEnd(mem') /\ \E e \in 1 .. BufferSize : mem'[e] = NUL
    BY <2>1, <2>2
  <2> QED BY <2>3 DEF MemoryOK, Cells, NamesEnd, Ends, prompt_user, prompt_os
<1>6. CASE UNCHANGED commandVars
  BY <1>6 DEF MemoryOK, Cells, NamesEnd, Ends, prompt_user, prompt_os, commandVars
<1> QED BY <1>3, <1>4, <1>5, <1>6 DEF CommandsNext

\* The line buffer, as a memory of its own.
LEMMA LineIs ==
  ASSUME mem \in Memory(Cells)
  PROVE  SubSeq(mem, 1, BufferSize) \in Memory(BufferSize)
<1>1. BufferSize \in Nat /\ 1 + BufferSize - 1 = BufferSize /\ BufferSize <= Cells
  BY Sizes DEF Cells
<1>2. \A i \in 0 .. (BufferSize - 1) : mem[1 + i] \in Char
  <2>1. \A i \in 0 .. (BufferSize - 1) : 1 + i \in 1 .. Cells
    BY <1>1, Sizes
  <2> QED BY <2>1 DEF Memory
<1>3. SubSeq(mem, 1, 1 + BufferSize - 1) \in Seq(Char) /\ Len(SubSeq(mem, 1, 1 + BufferSize - 1)) = BufferSize
  <2> DEFINE f == mem
             n == BufferSize
  <2> HIDE DEF f, n
  <2>1. n \in Nat /\ 1 \in Int /\ \A i \in 0 .. (n - 1) : f[1 + i] \in Char
    BY <1>1, <1>2 DEF f, n
  <2>2. SubSeq(f, 1, 1 + n - 1) \in Seq(Char) /\ Len(SubSeq(f, 1, 1 + n - 1)) = n
    BY ONLY <2>1, BlockIs
  <2> QED BY <2>2 DEF f, n
<1> DEFINE l == SubSeq(mem, 1, BufferSize)
<1>4. l \in Seq(Char) /\ Len(l) = BufferSize
  BY <1>1, <1>3
<1> HIDE DEF l
<1>5. l \in Memory(BufferSize)
  BY <1>4, LenProperties DEF Memory
<1> QED BY <1>5 DEF l

\* Whatever lines are typed, parsed and executed, the shell's memory keeps its
\* cells with a character in each, a line that is typed ends in its buffer, and
\* each name of the prompt in its array.
THEOREM MemoryInvariant ==
  CommandsSpec => []MemoryOK
<1> QED BY MemoryInit, MemoryNext, PTL DEF CommandsSpec

\* The routines of src/src/lib hand back what their names promise for every
\* string and block of every line that is typed.
THEOREM StringsAgreeCorrect ==
  CommandsSpec => []StringsAgree
<1>1. MemoryOK => StringsAgree
  <2> SUFFICES ASSUME MemoryOK
               PROVE  StringsAgree
    OBVIOUS
  <2> DEFINE line == SubSeq(mem, 1, BufferSize)
  <2>1. line \in Memory(BufferSize) /\ BufferSize \in 0 .. Size
    BY Sizes, LineIs DEF MemoryOK
  <2> HIDE DEF line
  <2>2. ComparisonsAgree(line) /\ BlocksAgree(line) /\ CopiesAgree(line) /\ TrimsAgree(line)
    BY <2>1, ComparisonsHold, BlocksHold, CopiesHold, TrimsHold
  <2> QED BY <2>2 DEF StringsAgree, line
<1> QED BY <1>1, MemoryInvariant, PTL

\* The timer's count is a word.
TicksOK == ticks \in 0 .. (Words - 1)

\* The timer starts at a word.
LEMMA TicksInit ==
  CommandsInit => TicksOK
BY WordIs DEF CommandsInit, TicksOK

\* The timer stays a word.
LEMMA TicksNext ==
  TicksOK /\ [CommandsNext]_commandVars => TicksOK'
<1> SUFFICES ASSUME TicksOK, [CommandsNext]_commandVars
             PROVE  TicksOK'
  OBVIOUS
<1>1. ASSUME NEW line \in Lines, Type(line)
      PROVE  TicksOK'
  BY <1>1, CommandConstants DEF Type, TicksOK, CommandConstants
<1>2. CASE Enter
  BY <1>2 DEF Enter, TicksOK
<1>3. CASE EnterLast
  BY <1>3 DEF EnterLast, TicksOK
<1>4. CASE UNCHANGED commandVars
  BY <1>4 DEF commandVars, TicksOK
<1> QED BY <1>1, <1>2, <1>3, <1>4 DEF CommandsNext

\* The times and addresses the commands print and read survive it, but for what
\* an int has no room for.
THEOREM NumbersAgreeCorrect ==
  CommandsSpec => []NumbersAgree
<1>1. TicksOK => NumbersAgree
  BY CommandConstants, HexHolds, DecimalHolds DEF NumbersAgree, TicksOK, CommandConstants
<1> QED BY <1>1, TicksInit, TicksNext, PTL DEF CommandsSpec

-----------------------------------------------------------------------------
\* What a row of tokens says, and the prompt.

-----------------------------------------------------------------------------
\* What is written, joined.

\* Joining rows goes from row to row.
LEMMA FlatRuns ==
  ASSUME NEW S, NEW rows \in Seq(Seq(S)), rows # << >>
  PROVE  \E f : /\ f \in [1 .. Len(rows) -> Seq(S)] /\ f[1] = rows[1]
                /\ \A i \in 2 .. Len(rows) : f[i] = f[i - 1] \o rows[i]
                /\ FlattenSeq(rows) = f[Len(rows)]
<1> DEFINE n == Len(rows)
           E(i, f) == IF i = 1 THEN rows[i] ELSE f[i - 1] \o rows[i]
           Good(b, f) == f = [i \in 1 .. b |-> E(i, f)]
           T == {b \in 0 .. n : \E f : Good(b, f)}
           flat == CHOOSE f : Good(n, f)
<1>1. n \in Nat /\ n # 0 /\ \A i \in 1 .. n : rows[i] \in Seq(S)
  BY EmptySeq, ElementOfSeq
<1>2. FlattenSeq(rows) = flat[n]
  BY <1>1 DEF FlattenSeq
<1> HIDE DEF n
<1>3. 0 \in T
  <2> DEFINE f == [i \in 1 .. 0 |-> rows[i]]
  <2>1. Good(0, f)
    OBVIOUS
  <2> HIDE DEF f, Good
  <2>2. 0 \in 0 .. n
    BY <1>1
  <2> QED BY <2>1, <2>2
<1>4. ASSUME NEW b \in 0 .. (n - 1), b \in T
      PROVE  b + 1 \in T
  <2>1. PICK f : Good(b, f)
    BY <1>4
  <2> DEFINE g == [i \in 1 .. (b + 1) |-> IF i = b + 1 THEN E(b + 1, f) ELSE f[i]]
  <2>2. ASSUME NEW i \in 1 .. (b + 1)
        PROVE  g[i] = E(i, g)
    <3>1. i # 1 => i - 1 \in 1 .. b /\ i - 1 \in 1 .. (b + 1) /\ i - 1 # b + 1
      BY <1>1
    <3>2. i # 1 => g[i - 1] = f[i - 1]
      BY <3>1
    <3>3. CASE i = b + 1
      <4>1. g[i] = E(i, f)
        BY <3>3
      <4> HIDE DEF g
      <4> QED BY <3>2, <4>1
    <3>4. CASE i \in 1 .. b
      <4>1. i # b + 1
        BY <1>1, <3>4
      <4>2. g[i] = f[i]
        BY <4>1
      <4>3. f[i] = E(i, f)
        BY <2>1, <3>4
      <4> HIDE DEF g
      <4> QED BY <3>2, <4>2, <4>3
    <3>5. i = b + 1 \/ i \in 1 .. b
      BY <1>1
    <3> QED BY <3>3, <3>4, <3>5
  <2>3. Good(b + 1, g)
    <3>1. g = [i \in 1 .. (b + 1) |-> g[i]]
      OBVIOUS
    <3> HIDE DEF g
    <3> QED BY <2>2, <3>1
  <2> HIDE DEF g, Good
  <2>4. b + 1 \in 0 .. n
    BY <1>1
  <2> QED BY <2>3, <2>4
<1>5. Good(n, flat)
  <2> HIDE DEF Good
  <2>1. n \in T
    <3> HIDE DEF T
    <3>1. n \in Nat
      BY <1>1
    <3>2. 0 .. n \subseteq T
      BY <1>3, <1>4, <3>1, UpTo
    <3> QED BY <3>1, <3>2
  <2> QED BY <2>1
<1> HIDE DEF flat
<1>6. /\ flat[1] = rows[1] /\ \A i \in 2 .. n : flat[i] = flat[i - 1] \o rows[i]
      /\ flat = [i \in 1 .. n |-> flat[i]]
  <2>1. flat = [i \in 1 .. n |-> E(i, flat)]
    BY <1>5
  <2>2. \A i \in 1 .. n : flat[i] = E(i, flat)
    BY <2>1
  <2> HIDE DEF Good
  <2>3. 1 \in 1 .. n /\ \A i \in 2 .. n : i \in 1 .. n /\ i # 1
    BY <1>1
  <2> QED BY <2>1, <2>2, <2>3
<1> DEFINE U == {b \in 0 .. n : b # 0 => flat[b] \in Seq(S)}
<1>7. 0 \in U
  BY <1>1
<1>8. ASSUME NEW b \in 0 .. (n - 1), b \in U
      PROVE  b + 1 \in U
  <2>1. b + 1 \in 1 .. n /\ b + 1 \in 0 .. n /\ (b # 0 => b + 1 \in 2 .. n) /\ (b + 1) - 1 = b
    BY <1>1
  <2>2. CASE b = 0
    BY <1>1, <1>6, <2>1, <2>2
  <2>3. CASE b # 0
    <3>1. flat[b + 1] = flat[b] \o rows[b + 1]
      BY <1>6, <2>1, <2>3
    <3>2. flat[b] \in Seq(S) /\ rows[b + 1] \in Seq(S)
      BY <1>1, <1>8, <2>1, <2>3
    <3>3. flat[b] \o rows[b + 1] \in Seq(S)
      BY <3>2, ConcatProperties
    <3> QED BY <2>1, <3>1, <3>3
  <2> QED BY <2>2, <2>3
<1>9. 0 .. n \subseteq U
  <2> HIDE DEF U
  <2> QED BY <1>1, <1>7, <1>8, UpTo
<1>10. \A b \in 1 .. n : flat[b] \in Seq(S)
  <2>1. \A b \in 1 .. n : b \in 0 .. n /\ b # 0
    BY <1>1
  <2> QED BY <1>9, <2>1
<1>11. flat \in [1 .. n -> Seq(S)]
  BY <1>6, <1>10
<1> QED BY <1>2, <1>6, <1>11 DEF n

\* Rows are joined in any order.
Regroups(S) == \A x, y, z \in Seq(S) : (x \o y) \o z = x \o (y \o z)

\* Joining two of three rows first makes no difference.
LEMMA Regroup ==
  \A S : Regroups(S)
<1> SUFFICES ASSUME NEW S, NEW x \in Seq(S), NEW y \in Seq(S), NEW z \in Seq(S)
             PROVE  (x \o y) \o z = x \o (y \o z)
  BY DEF Regroups
<1> QED BY ConcatAssociative

\* A row in front is joined in front.
LEMMA FlatBehind ==
  ASSUME NEW S, NEW rows \in Seq(Seq(S)), rows # << >>, NEW all \in Seq(Seq(S)),
         Len(all) = Len(rows) + 1, \A i \in 1 .. Len(rows) : all[i + 1] = rows[i]
  PROVE  FlattenSeq(all) = all[1] \o FlattenSeq(rows) /\ FlattenSeq(rows) \in Seq(S)
<1> DEFINE n == Len(rows)
<1>1. n \in Nat /\ n # 0
  BY EmptySeq
<1>2. Len(all) = n + 1 /\ all # << >> /\ \A i \in 1 .. n : all[i + 1] = rows[i]
  BY <1>1, EmptySeq
<1>3. PICK f : /\ f \in [1 .. Len(rows) -> Seq(S)] /\ f[1] = rows[1]
               /\ \A i \in 2 .. Len(rows) : f[i] = f[i - 1] \o rows[i]
               /\ FlattenSeq(rows) = f[Len(rows)]
  BY FlatRuns
<1>4. PICK g : /\ g \in [1 .. Len(all) -> Seq(S)] /\ g[1] = all[1]
               /\ \A i \in 2 .. Len(all) : g[i] = g[i - 1] \o all[i]
               /\ FlattenSeq(all) = g[Len(all)]
  BY <1>2, FlatRuns
<1>5. all[1] \in Seq(S) /\ \A i \in 1 .. n : f[i] \in Seq(S) /\ rows[i] \in Seq(S)
  <2>1. 1 \in 1 .. Len(all)
    BY <1>1, <1>2
  <2>2. all[1] \in Seq(S)
    BY <2>1, ElementOfSeq
  <2>3. \A i \in 1 .. n : rows[i] \in Seq(S)
    BY ElementOfSeq
  <2>4. \A i \in 1 .. n : f[i] \in Seq(S)
    BY <1>3
  <2> QED BY <2>2, <2>3, <2>4
<1> HIDE DEF n
<1> DEFINE U == {b \in 0 .. n : b # 0 => g[b + 1] = all[1] \o f[b]}
<1>6. 0 \in U
  BY <1>1
<1>7. ASSUME NEW b \in 0 .. (n - 1), b \in U
      PROVE  b + 1 \in U
  <2> DEFINE i == b + 1
  <2>1. i \in 1 .. n /\ i + 1 \in 2 .. (n + 1) /\ (i + 1) - 1 = i /\ i - 1 = b /\ i \in 0 .. n /\ b \in Nat
    BY <1>1
  <2> HIDE DEF i
  <2>2. g[i + 1] = g[i] \o rows[i]
    <3>1. i + 1 \in 2 .. Len(all) /\ all[i + 1] = rows[i]
      BY <1>2, <2>1
    <3>2. g[i + 1] = g[(i + 1) - 1] \o all[i + 1]
      BY <1>4, <3>1
    <3> QED BY <2>1, <3>1, <3>2
  <2>3. CASE b = 0
    <3>1. i = 1
      BY <2>3 DEF i
    <3>2. g[i + 1] = all[1] \o f[i]
      BY <1>3, <1>4, <2>2, <3>1
    <3> QED BY <2>1, <3>2 DEF i
  <2>4. CASE b # 0
    <3>1. i \in 2 .. n /\ b \in 1 .. n
      BY <1>1, <2>1, <2>4
    <3>2. f[i] = f[b] \o rows[i]
      BY <1>3, <2>1, <3>1 DEF n
    <3>3. g[i] = all[1] \o f[b]
      BY <1>7, <2>4 DEF i
    <3>4. (all[1] \o f[b]) \o rows[i] = all[1] \o (f[b] \o rows[i])
      <4> DEFINE x == all[1]
                 y == f[b]
                 z == rows[i]
      <4>1. x \in Seq(S) /\ y \in Seq(S) /\ z \in Seq(S)
        BY <1>5, <2>1, <3>1
      <4> HIDE DEF x, y, z
      <4>2. (x \o y) \o z = x \o (y \o z)
        <5>1. Regroups(S)
          BY Regroup, Zenon
        <5> QED BY <4>1, <5>1, Zenon DEF Regroups
      <4> QED BY <4>2 DEF x, y, z
    <3>5. g[i + 1] = all[1] \o f[i]
      BY <2>2, <3>2, <3>3, <3>4
    <3> QED BY <2>1, <3>5 DEF i
  <2> QED BY <2>3, <2>4
<1>8. n \in U
  <2> HIDE DEF U
  <2>1. n \in Nat
    BY <1>1
  <2>2. 0 .. n \subseteq U
    BY <1>6, <1>7, <2>1, UpTo
  <2> QED BY <2>1, <2>2
<1>9. g[n + 1] = all[1] \o f[n] /\ f[n] \in Seq(S)
  <2>1. n \in 1 .. n
    BY <1>1
  <2>2. g[n + 1] = all[1] \o f[n]
    BY <1>1, <1>8
  <2> QED BY <1>5, <2>1, <2>2
<1> QED BY <1>2, <1>3, <1>4, <1>9 DEF n

\* The same for a row that is put in front.
LEMMA FlatFirst ==
  ASSUME NEW S, NEW rows \in Seq(Seq(S)), NEW row \in Seq(S)
  PROVE  /\ FlattenSeq(<<row>> \o rows) = row \o FlattenSeq(rows)
         /\ FlattenSeq(rows) \in Seq(S) /\ FlattenSeq(<< >>) = << >>
<1> DEFINE all == <<row>> \o rows
           n == Len(rows)
           one == <<row>>
<1>1. one \in Seq(Seq(S)) /\ Len(one) = 1 /\ one[1] = row /\ n \in Nat
  BY LenProperties
<1> HIDE DEF one
<1>2. /\ all \in Seq(Seq(S)) /\ Len(all) = n + 1 /\ all[1] = row
      /\ \A i \in 1 .. n : all[i + 1] = rows[i]
  <2>1. /\ one \o rows \in Seq(Seq(S)) /\ Len(one \o rows) = Len(one) + Len(rows)
        /\ \A i \in 1 .. (Len(one) + Len(rows)) :
             (one \o rows)[i] = IF i <= Len(one) THEN one[i] ELSE rows[i - Len(one)]
    BY <1>1, ConcatProperties
  <2>2. all = one \o rows
    BY DEF one
  <2> HIDE DEF all
  <2>3. /\ 1 \in 1 .. (1 + n) /\ 1 <= 1
        /\ \A i \in 1 .. n : i + 1 \in 1 .. (1 + n) /\ ~(i + 1 <= 1) /\ (i + 1) - 1 = i
    BY <1>1
  <2>4. 1 + n = n + 1
    BY <1>1
  <2> QED BY <1>1, <2>1, <2>2, <2>3, <2>4
<1>3. FlattenSeq(<< >>) = << >>
  BY DEF FlattenSeq
<1>4. CASE rows = << >>
  <2>1. all = one
    BY <1>1, <1>4, ConcatEmptySeq DEF one
  <2> HIDE DEF all
  <2>2. one # << >>
    <3>1. one \in Seq(Seq(S)) /\ Len(one) # 0
      BY <1>1
    <3> QED BY <3>1, EmptySeq
  <2>3. PICK g : g[1] = one[1] /\ FlattenSeq(one) = g[Len(one)]
    BY <1>1, <2>2, FlatRuns
  <2>4. FlattenSeq(all) = row
    BY <1>1, <2>1, <2>3
  <2>5. row \o << >> = row /\ << >> \in Seq(S)
    BY ConcatEmptySeq, EmptySeq
  <2> QED BY <1>3, <1>4, <2>4, <2>5 DEF all
<1>5. CASE rows # << >>
  <2> HIDE DEF all
  <2>1. all \in Seq(Seq(S)) /\ Len(all) = Len(rows) + 1 /\ \A i \in 1 .. Len(rows) : all[i + 1] = rows[i]
    BY <1>2
  <2>2. FlattenSeq(all) = all[1] \o FlattenSeq(rows) /\ FlattenSeq(rows) \in Seq(S)
    BY <1>5, <2>1, FlatBehind
  <2> QED BY <1>2, <1>3, <2>2 DEF all
<1> QED BY <1>4, <1>5

\* The characters that a row of strings writes.
StringTokens == {<<"string", x>> : x \in Seq(Char)}
Said(out) == FlattenSeq([j \in 1 .. Len(out) |-> out[j][2]])

\* A string written first puts its characters in front.
LEMMA SaidFirst ==
  ASSUME NEW out \in Seq(StringTokens), NEW x \in Seq(Char)
  PROVE  /\ <<<<"string", x>>>> \o out \in Seq(StringTokens)
         /\ Said(<<<<"string", x>>>> \o out) = x \o Said(out)
         /\ Said(out) \in Seq(Char) /\ Said(<< >>) = << >>
<1> DEFINE piece == <<"string", x>>
           one == <<piece>>
           all == one \o out
           n == Len(out)
           rows == [j \in 1 .. n |-> out[j][2]]
           first == <<x>>
<1>1. piece \in StringTokens /\ piece[2] = x
  BY DEF StringTokens
<1> HIDE DEF piece
<1>2. one \in Seq(StringTokens) /\ Len(one) = 1 /\ one[1] = piece /\ n \in Nat
  BY <1>1, LenProperties
<1>3. first \in Seq(Seq(Char)) /\ Len(first) = 1 /\ first[1] = x
  OBVIOUS
<1>4. \A j \in 1 .. n : out[j][2] \in Seq(Char)
  <2> SUFFICES ASSUME NEW j \in 1 .. n
               PROVE  out[j][2] \in Seq(Char)
    OBVIOUS
  <2>1. out[j] \in StringTokens
    BY ElementOfSeq
  <2> QED BY <2>1 DEF StringTokens
<1> HIDE DEF one, n, first
<1>5. rows \in Seq(Seq(Char)) /\ Len(rows) = n /\ \A j \in 1 .. n : rows[j] = out[j][2]
  BY <1>2, <1>4
<1>6. Said(out) = FlattenSeq(rows)
  BY DEF Said, n
<1> HIDE DEF rows
<1>7. /\ all \in Seq(StringTokens) /\ Len(all) = 1 + n
      /\ \A i \in 1 .. (1 + n) : all[i] = IF i <= 1 THEN one[i] ELSE out[i - 1]
  <2>1. /\ one \o out \in Seq(StringTokens) /\ Len(one \o out) = Len(one) + Len(out)
        /\ \A i \in 1 .. (Len(one) + Len(out)) :
             (one \o out)[i] = IF i <= Len(one) THEN one[i] ELSE out[i - Len(one)]
    BY <1>2, ConcatProperties
  <2> HIDE DEF all
  <2> QED BY <1>2, <2>1 DEF n, all
<1>8. /\ first \o rows \in Seq(Seq(Char)) /\ Len(first \o rows) = 1 + n
      /\ \A i \in 1 .. (1 + n) : (first \o rows)[i] = IF i <= 1 THEN first[i] ELSE rows[i - 1]
  <2>1. /\ first \o rows \in Seq(Seq(Char)) /\ Len(first \o rows) = Len(first) + Len(rows)
        /\ \A i \in 1 .. (Len(first) + Len(rows)) :
             (first \o rows)[i] = IF i <= Len(first) THEN first[i] ELSE rows[i - Len(first)]
    BY <1>3, <1>5, ConcatProperties
  <2> QED BY <1>3, <1>5, <2>1
<1> HIDE DEF all
<1>9. [j \in 1 .. Len(all) |-> all[j][2]] = first \o rows
  <2> DEFINE l == first \o rows
             r == [j \in 1 .. Len(all) |-> all[j][2]]
  <2>1. l = [j \in 1 .. (1 + n) |-> l[j]]
    BY <1>8, LenProperties
  <2>2. ASSUME NEW j \in 1 .. (1 + n)
        PROVE  l[j] = all[j][2]
    <3>1. CASE j <= 1
      <4>1. j = 1
        BY <1>2, <3>1
      <4> QED BY <1>1, <1>2, <1>3, <1>7, <1>8, <4>1
    <3>2. CASE ~(j <= 1)
      <4>1. j - 1 \in 1 .. n
        BY <1>2, <3>2
      <4> QED BY <1>5, <1>7, <1>8, <3>2, <4>1
    <3> QED BY <3>1, <3>2
  <2> HIDE DEF l
  <2> QED BY <1>7, <2>1, <2>2 DEF l
<1>10. Said(all) = FlattenSeq(first \o rows)
  BY <1>9 DEF Said
<1>11. FlattenSeq(first \o rows) = x \o FlattenSeq(rows) /\ FlattenSeq(rows) \in Seq(Char)
  BY <1>5, FlatFirst DEF first
<1>12. Said(<< >>) = << >>
  BY DEF Said, FlattenSeq
<1> QED BY <1>6, <1>7, <1>10, <1>11, <1>12 DEF all, one, piece

-----------------------------------------------------------------------------
\* The prompt.

\* A set that has every number up to n whose successors up to n it has.
LEMMA DownFrom ==
  ASSUME NEW n \in Nat, NEW T, \A i \in 1 .. n : (i + 1) .. n \subseteq T => i \in T
  PROVE  1 .. n \subseteq T
<1> DEFINE U == {b \in 0 .. n : (n + 1 - b) .. n \subseteq T}
<1>1. 0 \in U
  OBVIOUS
<1>2. ASSUME NEW b \in 0 .. (n - 1), b \in U
      PROVE  b + 1 \in U
  <2> DEFINE i == n - b
  <2>1. i \in 1 .. n /\ n + 1 - b = i + 1 /\ n + 1 - (b + 1) = i /\ b + 1 \in 0 .. n
    OBVIOUS
  <2> HIDE DEF i
  <2>2. (i + 1) .. n \subseteq T
    BY <1>2, <2>1
  <2>3. i \in T
    BY <2>1, <2>2
  <2>4. i .. n \subseteq T
    BY <2>1, <2>2, <2>3
  <2> QED BY <2>1, <2>4
<1>3. n \in U
  <2> HIDE DEF U
  <2>1. 0 .. n \subseteq U
    BY <1>1, <1>2, UpTo
  <2> QED BY <2>1
<1>4. n + 1 - n = 1
  OBVIOUS
<1> QED BY <1>3, <1>4

\* Where the tokens stand in the template.
TokensAt(i, j) ==
  /\ i \in 1 .. Len(PromptTemplate) /\ j \in 1 .. Len(PromptTemplate)
  /\ i + Len(UserToken) <= j /\ j + Len(OsToken) <= Len(PromptTemplate) + 1
  /\ \A k \in 1 .. Len(PromptTemplate) :
       (prompt_match(k, UserToken) <=> k = i) /\ (prompt_match(k, OsToken) <=> k = j)

\* The template has such places, and they are where the renderer looks.
LEMMA Tokens ==
  /\ PromptTemplate \in Seq(Char) /\ Len(PromptTemplate) \in Nat
  /\ Len(UserToken) \in Nat \ {0} /\ Len(OsToken) \in Nat \ {0}
  /\ \E i, j : TokensAt(i, j)
<1> DEFINE l == Len(PromptTemplate)
<1>1. /\ PromptTemplate \in Seq(Char) /\ UserToken \in Seq(Char) \ {<< >>} /\ OsToken \in Seq(Char) \ {<< >>}
      /\ \E i, j \in DOMAIN PromptTemplate :
           /\ i + Len(UserToken) <= j
           /\ \A k \in DOMAIN PromptTemplate :
                (prompt_match(k, UserToken) <=> k = i) /\ (prompt_match(k, OsToken) <=> k = j)
  BY TemplateConstants, Zenon DEF TemplateConstants
<1>2. DOMAIN PromptTemplate = 1 .. l /\ l \in Nat
  BY <1>1, LenProperties
<1>3. Len(UserToken) \in Nat \ {0} /\ Len(OsToken) \in Nat \ {0}
  BY <1>1, EmptySeq
<1>4. PICK i \in 1 .. l, j \in 1 .. l :
        /\ i + Len(UserToken) <= j
        /\ \A k \in 1 .. l :
             (prompt_match(k, UserToken) <=> k = i) /\ (prompt_match(k, OsToken) <=> k = j)
  <2> DEFINE D == DOMAIN PromptTemplate
  <2>1. D = 1 .. l
    BY <1>2
  <2>2. PICK i \in D, j \in D :
          /\ i + Len(UserToken) <= j
          /\ \A k \in D : (prompt_match(k, UserToken) <=> k = i) /\ (prompt_match(k, OsToken) <=> k = j)
    BY <1>1
  <2> HIDE DEF D, l
  <2> QED BY <2>1, <2>2
<1>5. j + Len(OsToken) <= l + 1
  <2>1. prompt_match(j, OsToken)
    BY <1>4
  <2>2. Len(OsToken) <= Len(SubSeq(PromptTemplate, j, l))
    BY <2>1 DEF prompt_match, IsPrefix
  <2>3. \A k \in j .. l : PromptTemplate[k] \in Char
    <3> SUFFICES ASSUME NEW k \in j .. l
                 PROVE  PromptTemplate[k] \in Char
      OBVIOUS
    <3>1. k \in 1 .. l
      BY <1>2
    <3> QED BY <1>1, <3>1, ElementOfSeq
  <2>4. Len(SubSeq(PromptTemplate, j, l)) = l - j + 1
    <3>1. j \in Int /\ l \in Int /\ j <= l
      BY <1>2
    <3> QED BY <2>3, <3>1, SubSeqProperties
  <2> HIDE DEF l
  <2>5. Len(OsToken) \in Nat
    BY <1>3
  <2> QED BY <1>2, <2>2, <2>4, <2>5 DEF l
<1>6. TokensAt(i, j)
  BY <1>4, <1>5 DEF TokensAt
<1> QED BY <1>1, <1>2, <1>3, <1>6

\* What the renderer writes from each place of the template on.
RenderedFrom(m, from) ==
  \A i \in 1 .. (Len(PromptTemplate) + 1) :
    from[i] = IF i > Len(PromptTemplate) THEN << >>
              ELSE IF prompt_match(i, UserToken)
                   THEN <<writestring(m, prompt_user)>> \o from[i + Len(UserToken)]
              ELSE IF prompt_match(i, OsToken)
                   THEN <<writestring(m, prompt_os)>> \o from[i + Len(OsToken)]
              ELSE <<<<"string", <<PromptTemplate[i]>>>>>> \o from[i + 1]

\* The renderer goes from token to token.
LEMMA PromptRuns ==
  ASSUME NEW m
  PROVE  \E from : RenderedFrom(m, from) /\ shell_render_prompt(m) = from[1]
<1> DEFINE l == Len(PromptTemplate)
           wu == writestring(m, prompt_user)
           wo == writestring(m, prompt_os)
           E(f, i) == IF i > l THEN << >>
                      ELSE IF prompt_match(i, UserToken) THEN <<wu>> \o f[i + Len(UserToken)]
                      ELSE IF prompt_match(i, OsToken) THEN <<wo>> \o f[i + Len(OsToken)]
                      ELSE <<<<"string", <<PromptTemplate[i]>>>>>> \o f[i + 1]
           from == CHOOSE f : f = [i \in 1 .. (l + 1) |-> E(f, i)]
<1>1. shell_render_prompt(m) = from[1]
  BY DEF shell_render_prompt
<1>2. l \in Nat /\ Len(UserToken) \in Nat \ {0} /\ Len(OsToken) \in Nat \ {0}
  BY Tokens
<1>3. PICK iu, jo : TokensAt(iu, jo)
  BY Tokens
<1>4. ASSUME NEW c \in 1 .. (l + 1), NEW i \in c .. (l + 1), ~(i > l)
      PROVE  /\ prompt_match(i, UserToken) => i + Len(UserToken) \in (i + 1) .. (l + 1)
             /\ prompt_match(i, OsToken) => i + Len(OsToken) \in (i + 1) .. (l + 1)
             /\ i + 1 \in (i + 1) .. (l + 1)
  <2>1. i \in 1 .. l
    BY <1>2, <1>4
  <2>2. (prompt_match(i, UserToken) <=> i = iu) /\ (prompt_match(i, OsToken) <=> i = jo)
    BY <1>3, <2>1 DEF TokensAt
  <2>3. /\ iu \in 1 .. l /\ jo \in 1 .. l
        /\ iu + Len(UserToken) <= jo /\ jo + Len(OsToken) <= l + 1
    BY <1>3 DEF TokensAt
  <2> HIDE DEF l
  <2> QED BY <1>2, <2>1, <2>2, <2>3
<1> HIDE DEF wu, wo, l
<1> DEFINE Good(c, f) == f = [i \in c .. (l + 1) |-> E(f, i)]
           T == {b \in 0 .. l : \E f : Good(l + 1 - b, f)}
<1>5. 0 \in T
  <2> DEFINE f == [i \in (l + 1) .. (l + 1) |-> << >>]
  <2>1. Good(l + 1 - 0, f)
    <3>1. l + 1 - 0 = l + 1 /\ \A i \in (l + 1) .. (l + 1) : i > l
      BY <1>2
    <3> QED BY <3>1
  <2> HIDE DEF f, Good
  <2>2. 0 \in 0 .. l
    BY <1>2
  <2> QED BY <2>1, <2>2
<1>6. ASSUME NEW b \in 0 .. (l - 1), b \in T
      PROVE  b + 1 \in T
  <2> DEFINE c == l - b
  <2>1. c \in 1 .. l /\ c \in 1 .. (l + 1) /\ l + 1 - b = c + 1 /\ l + 1 - (b + 1) = c /\ b + 1 \in 0 .. l
    BY <1>2
  <2> HIDE DEF c
  <2>2. PICK f : Good(c + 1, f)
    BY <1>6, <2>1
  <2> DEFINE g == [i \in c .. (l + 1) |-> IF i = c THEN E(f, c) ELSE f[i]]
  <2>3. ASSUME NEW i \in (c + 1) .. (l + 1)
        PROVE  g[i] = f[i]
    <3>1. i \in c .. (l + 1) /\ i # c
      BY <1>2, <2>1
    <3> QED BY <3>1
  <2>4. c \in c .. (l + 1) /\ g[c] = E(f, c)
    <3>1. c \in c .. (l + 1)
      BY <1>2, <2>1
    <3> QED BY <3>1
  <2>5. g = [i \in c .. (l + 1) |-> g[i]]
    OBVIOUS
  <2> HIDE DEF g
  <2>6. ASSUME NEW i \in c .. (l + 1)
        PROVE  E(f, i) = E(g, i)
    <3>1. CASE i > l
      BY <3>1
    <3>2. CASE ~(i > l)
      <4>1. \A k \in (i + 1) .. (l + 1) : f[k] = g[k]
        <5>1. \A k \in (i + 1) .. (l + 1) : k \in (c + 1) .. (l + 1)
          BY <1>2, <2>1
        <5> QED BY <2>3, <5>1
      <4>2. /\ prompt_match(i, UserToken) => f[i + Len(UserToken)] = g[i + Len(UserToken)]
            /\ prompt_match(i, OsToken) => f[i + Len(OsToken)] = g[i + Len(OsToken)]
            /\ f[i + 1] = g[i + 1]
        BY <1>4, <2>1, <3>2, <4>1
      <4> QED BY <4>2
    <3> QED BY <3>1, <3>2
  <2>7. ASSUME NEW i \in c .. (l + 1)
        PROVE  g[i] = E(f, i)
    <3>1. CASE i = c
      BY <2>4, <3>1
    <3>2. CASE i # c
      <4>1. i \in (c + 1) .. (l + 1)
        BY <1>2, <2>1, <3>2
      <4>2. f[i] = E(f, i)
        <5> DEFINE h == [k \in (c + 1) .. (l + 1) |-> E(f, k)]
        <5>1. f = h
          BY <2>2
        <5>2. h[i] = E(f, i)
          BY <4>1
        <5> HIDE DEF h, Good, E
        <5> QED BY <5>1, <5>2
      <4> HIDE DEF E, Good
      <4> QED BY <2>3, <4>1, <4>2
    <3> QED BY <3>1, <3>2
  <2>8. Good(c, g)
    <3> HIDE DEF E
    <3>1. \A i \in c .. (l + 1) : g[i] = E(g, i)
      BY <2>6, <2>7
    <3> QED BY <2>5, <3>1
  <2> HIDE DEF Good
  <2> QED BY <2>1, <2>8
<1>7. \E f : Good(1, f)
  <2> HIDE DEF Good
  <2>1. l \in T
    <3> HIDE DEF T
    <3>1. 0 .. l \subseteq T
      BY <1>2, <1>5, <1>6, UpTo
    <3> QED BY <1>2, <3>1
  <2>2. l + 1 - l = 1
    BY <1>2
  <2> QED BY <2>1, <2>2
<1>8. Good(1, from)
  <2> HIDE DEF E
  <2> QED BY <1>7
<1> HIDE DEF from
<1>9. RenderedFrom(m, from)
  <2> SUFFICES ASSUME NEW i \in 1 .. (l + 1)
               PROVE  from[i] = E(from, i)
    BY DEF RenderedFrom, l, wu, wo
  <2> DEFINE h == [k \in 1 .. (l + 1) |-> E(from, k)]
  <2>1. from = h
    BY <1>8
  <2>2. h[i] = E(from, i)
    OBVIOUS
  <2> HIDE DEF h, Good, E
  <2> QED BY <2>1, <2>2
<1> QED BY <1>1, <1>9

\* What is left to write from place i on, the tokens being at iu and jo.
Ending(jo) == SubSeq(PromptTemplate, jo + Len(OsToken), Len(PromptTemplate))
Rest(iu, jo, user, os, i) ==
  LET behindOs == os \o Ending(jo)
      behindUser == SubSeq(PromptTemplate, iu + Len(UserToken), jo - 1) \o behindOs
  IN  IF i > jo THEN SubSeq(PromptTemplate, i, Len(PromptTemplate))
      ELSE IF i > iu THEN SubSeq(PromptTemplate, i, jo - 1) \o behindOs
      ELSE SubSeq(PromptTemplate, i, iu - 1) \o (user \o behindUser)

\* Any stretch of the template is a text, and begins with its first character.
LEMMA Stretch ==
  ASSUME NEW i \in 1 .. (Len(PromptTemplate) + 1), NEW j \in 0 .. Len(PromptTemplate)
  PROVE  /\ SubSeq(PromptTemplate, i, j) \in Seq(Char)
         /\ i > j => SubSeq(PromptTemplate, i, j) = << >>
         /\ i <= j => /\ PromptTemplate[i] \in Char
                      /\ SubSeq(PromptTemplate, i, j) = <<PromptTemplate[i]>> \o SubSeq(PromptTemplate, i + 1, j)
<1>1. PromptTemplate \in Seq(Char) /\ Len(PromptTemplate) \in Nat
  BY Tokens
<1>2. i \in Int /\ j \in Int /\ \A k \in i .. j : k \in 1 .. Len(PromptTemplate)
  BY <1>1
<1>3. \A k \in i .. j : PromptTemplate[k] \in Char
  BY <1>1, <1>2, ElementOfSeq
<1>4. SubSeq(PromptTemplate, i, j) \in Seq(Char)
  BY <1>2, <1>3, SubSeqProperties
<1>5. ASSUME i > j
      PROVE  SubSeq(PromptTemplate, i, j) = << >>
  <2>1. j < i
    BY <1>2, <1>5
  <2> QED BY <1>2, <2>1, SubSeqEmpty
<1>6. ASSUME i <= j
      PROVE  /\ PromptTemplate[i] \in Char
             /\ SubSeq(PromptTemplate, i, j) = <<PromptTemplate[i]>> \o SubSeq(PromptTemplate, i + 1, j)
  <2>1. i \in 1 .. Len(PromptTemplate) /\ j \in i .. Len(PromptTemplate) /\ i \in i .. j
    BY <1>1, <1>2, <1>6
  <2> QED BY <1>1, <1>3, <2>1, SubSeqRecursiveFirst
<1> QED BY <1>4, <1>5, <1>6

\* One more character in front of a text.
LEMMA InFront ==
  ASSUME NEW c \in Char, NEW t \in Seq(Char), NEW u \in Seq(Char)
  PROVE  (<<c>> \o t) \o u = <<c>> \o (t \o u) /\ t \o u \in Seq(Char)
<1>1. <<c>> \in Seq(Char)
  OBVIOUS
<1>2. t \o u \in Seq(Char)
  BY ConcatProperties
<1>3. Regroups(Char)
  BY Regroup, Zenon
<1> QED BY <1>1, <1>2, <1>3, Zenon DEF Regroups

\* Five texts are joined in any order.
JoinedAnyhow(a, b, c, d, e) == (((a \o b) \o c) \o d) \o e = a \o (b \o (c \o (d \o e)))

\* However five texts are bracketed, the same text comes out.
LEMMA FiveJoined ==
  ASSUME NEW a \in Seq(Char), NEW b \in Seq(Char), NEW c \in Seq(Char), NEW d \in Seq(Char), NEW e \in Seq(Char)
  PROVE  JoinedAnyhow(a, b, c, d, e)
<1> DEFINE S == Seq(Char)
           ab == a \o b
           abc == ab \o c
           de == d \o e
           cde == c \o de
<1>1. ab \in S /\ de \in S
  BY ConcatProperties
<1>2. abc \in S /\ cde \in S
  <2> HIDE DEF ab, de
  <2> QED BY <1>1, ConcatProperties
<1>3. \A x, y, z \in S : (x \o y) \o z = x \o (y \o z)
  <2>1. Regroups(Char)
    BY Regroup, Zenon
  <2> QED BY <2>1 DEF Regroups
<1>4. a \in S /\ b \in S /\ c \in S /\ d \in S /\ e \in S
  OBVIOUS
<1> HIDE DEF S
<1>5. (a \o b) \o cde = a \o (b \o cde)
  <2> HIDE DEF cde
  <2>1. cde \in S
    BY <1>2
  <2>2. a \in S /\ b \in S
    BY <1>4
  <2> QED BY <1>3, <2>1, <2>2, Zenon
<1>6. (ab \o c) \o de = ab \o (c \o de)
  <2> HIDE DEF ab, de
  <2>1. ab \in S /\ de \in S
    BY <1>1
  <2>2. c \in S
    BY <1>4
  <2> QED BY <1>3, <2>1, <2>2, Zenon
<1>7. (abc \o d) \o e = abc \o (d \o e)
  <2> HIDE DEF abc
  <2>1. abc \in S
    BY <1>2
  <2>2. d \in S /\ e \in S
    BY <1>4
  <2> QED BY <1>3, <2>1, <2>2, Zenon
<1> QED BY <1>5, <1>6, <1>7, Zenon DEF JoinedAnyhow

\* What is left from i on is what is written at i, and what is left behind it.
GoesOn(iu, jo, user, os) ==
  LET R(i) == Rest(iu, jo, user, os, i)
  IN  /\ R(iu) = user \o R(iu + Len(UserToken)) /\ R(jo) = os \o R(jo + Len(OsToken))
      /\ R(Len(PromptTemplate) + 1) = << >>
      /\ \A i \in 1 .. Len(PromptTemplate) :
           i \notin {iu, jo} => R(i) = <<PromptTemplate[i]>> \o R(i + 1)

\* This is so at every place of the template.
LEMMA RestIs ==
  ASSUME NEW iu, NEW jo, TokensAt(iu, jo), NEW user \in Seq(Char), NEW os \in Seq(Char)
  PROVE  GoesOn(iu, jo, user, os)
<1> DEFINE T == PromptTemplate
           l == Len(T)
           R(i) == Rest(iu, jo, user, os, i)
           t == Ending(jo)
           bo == os \o t
           mid == SubSeq(T, iu + Len(UserToken), jo - 1)
           bu == mid \o bo
           ub == user \o bu
<1>1. T \in Seq(Char) /\ l \in Nat /\ Len(UserToken) \in Nat \ {0} /\ Len(OsToken) \in Nat \ {0}
  BY Tokens
<1>2. /\ iu \in 1 .. l /\ jo \in 1 .. l
      /\ iu + Len(UserToken) <= jo /\ jo + Len(OsToken) <= l + 1
  BY DEF TokensAt
<1>3. ASSUME NEW i \in 1 .. (l + 1), NEW j \in 0 .. l
      PROVE  /\ SubSeq(T, i, j) \in Seq(Char)
             /\ i > j => SubSeq(T, i, j) = << >>
             /\ i <= j => T[i] \in Char /\ SubSeq(T, i, j) = <<T[i]>> \o SubSeq(T, i + 1, j)
  BY Stretch
<1>4. \A i : R(i) = IF i > jo THEN SubSeq(T, i, l) ELSE IF i > iu THEN SubSeq(T, i, jo - 1) \o bo
                    ELSE SubSeq(T, i, iu - 1) \o ub
  BY DEF Rest
<1>5. t = SubSeq(T, jo + Len(OsToken), l)
  BY DEF Ending
<1> HIDE DEF R, t, T, l
<1>6. /\ l \in 0 .. l /\ jo - 1 \in 0 .. l /\ iu - 1 \in 0 .. l /\ iu + Len(UserToken) \in 1 .. (l + 1)
      /\ jo + Len(OsToken) \in 1 .. (l + 1) /\ iu \in 1 .. (l + 1) /\ jo \in 1 .. (l + 1) /\ l + 1 \in 1 .. (l + 1)
  BY <1>1, <1>2
<1>7. t \in Seq(Char) /\ mid \in Seq(Char)
  BY <1>3, <1>5, <1>6
<1>8. bo \in Seq(Char)
  BY <1>7, ConcatProperties
<1> HIDE DEF mid, bo
<1>9. bu \in Seq(Char)
  BY <1>7, <1>8, ConcatProperties
<1> HIDE DEF bu
<1>10. ub \in Seq(Char)
  BY <1>9, ConcatProperties
<1> HIDE DEF ub
<1>11. R(iu) = user \o R(iu + Len(UserToken))
  <2>1. ~(iu > jo) /\ ~(iu > iu) /\ iu > iu - 1
    BY <1>1, <1>2
  <2>2. R(iu) = << >> \o ub
    <3>1. R(iu) = SubSeq(T, iu, iu - 1) \o ub
      BY <1>4, <2>1
    <3>2. SubSeq(T, iu, iu - 1) = << >>
      BY <1>3, <1>6, <2>1
    <3> QED BY <3>1, <3>2
  <2>3. R(iu) = ub
    BY <1>10, <2>2, ConcatEmptySeq
  <2>4. ~(iu + Len(UserToken) > jo) /\ iu + Len(UserToken) > iu
    BY <1>1, <1>2
  <2>5. R(iu + Len(UserToken)) = bu
    BY <1>4, <2>4 DEF bu, mid
  <2> QED BY <2>3, <2>5 DEF ub
<1>12. R(jo) = os \o R(jo + Len(OsToken))
  <2>1. ~(jo > jo) /\ jo > iu /\ jo > jo - 1
    BY <1>1, <1>2
  <2>2. R(jo) = << >> \o bo
    <3>1. R(jo) = SubSeq(T, jo, jo - 1) \o bo
      BY <1>4, <2>1
    <3>2. SubSeq(T, jo, jo - 1) = << >>
      BY <1>3, <1>6, <2>1
    <3> QED BY <3>1, <3>2
  <2>3. R(jo) = bo
    BY <1>8, <2>2, ConcatEmptySeq
  <2>4. jo + Len(OsToken) > jo
    BY <1>1, <1>2
  <2>5. R(jo + Len(OsToken)) = t
    BY <1>4, <1>5, <2>4
  <2> QED BY <2>3, <2>5 DEF bo
<1>13. R(l + 1) = << >>
  <2>1. l + 1 > jo /\ l + 1 > l
    BY <1>1, <1>2
  <2>2. R(l + 1) = SubSeq(T, l + 1, l)
    BY <1>4, <2>1
  <2> QED BY <1>3, <1>6, <2>1, <2>2
<1>14. ASSUME NEW i \in 1 .. l, i \notin {iu, jo}
       PROVE  R(i) = <<T[i]>> \o R(i + 1)
  <2>1. i \in 1 .. (l + 1) /\ i + 1 \in 1 .. (l + 1) /\ i \in Int /\ i <= l
    BY <1>1
  <2>2. CASE i > jo
    <3>1. i + 1 > jo
      BY <1>2, <2>1, <2>2
    <3>2. R(i) = SubSeq(T, i, l) /\ R(i + 1) = SubSeq(T, i + 1, l)
      BY <1>4, <2>2, <3>1
    <3>3. SubSeq(T, i, l) = <<T[i]>> \o SubSeq(T, i + 1, l)
      BY <1>3, <1>6, <2>1
    <3> QED BY <3>2, <3>3, Zenon
  <2>3. CASE i > iu /\ ~(i > jo)
    <3>1. ~(i + 1 > jo) /\ i + 1 > iu /\ i <= jo - 1
      BY <1>2, <1>14, <2>1, <2>3
    <3>2. R(i) = SubSeq(T, i, jo - 1) \o bo /\ R(i + 1) = SubSeq(T, i + 1, jo - 1) \o bo
      BY <1>4, <2>3, <3>1
    <3>3. T[i] \in Char /\ SubSeq(T, i, jo - 1) = <<T[i]>> \o SubSeq(T, i + 1, jo - 1)
      BY <1>3, <1>6, <2>1, <3>1
    <3>4. SubSeq(T, i + 1, jo - 1) \in Seq(Char)
      BY <1>3, <1>6, <2>1
    <3> DEFINE x == SubSeq(T, i + 1, jo - 1)
    <3> HIDE DEF x
    <3>5. (<<T[i]>> \o x) \o bo = <<T[i]>> \o (x \o bo)
      BY <1>8, <3>3, <3>4, InFront DEF x
    <3> QED BY <3>2, <3>3, <3>5 DEF x
  <2>4. CASE ~(i > iu)
    <3>1. ~(i > jo) /\ ~(i + 1 > jo) /\ ~(i + 1 > iu) /\ i <= iu - 1
      BY <1>1, <1>2, <1>14, <2>1, <2>4
    <3>2. R(i) = SubSeq(T, i, iu - 1) \o ub /\ R(i + 1) = SubSeq(T, i + 1, iu - 1) \o ub
      BY <1>4, <2>4, <3>1
    <3>3. T[i] \in Char /\ SubSeq(T, i, iu - 1) = <<T[i]>> \o SubSeq(T, i + 1, iu - 1)
      BY <1>3, <1>6, <2>1, <3>1
    <3>4. SubSeq(T, i + 1, iu - 1) \in Seq(Char)
      BY <1>3, <1>6, <2>1
    <3> DEFINE x == SubSeq(T, i + 1, iu - 1)
    <3> HIDE DEF x
    <3>5. (<<T[i]>> \o x) \o ub = <<T[i]>> \o (x \o ub)
      BY <1>10, <3>3, <3>4, InFront DEF x
    <3> QED BY <3>2, <3>3, <3>5 DEF x
  <2> QED BY <2>2, <2>3, <2>4
<1> QED BY <1>11, <1>12, <1>13, <1>14 DEF R, T, l, GoesOn

\* The renderer writes the template with the names in the places of their tokens.
LEMMA PromptSaid ==
  ASSUME NEW m \in Memory(Cells), NamesEnd(m)
  PROVE  /\ shell_render_prompt(m) \in Seq(StringTokens)
         /\ Said(shell_render_prompt(m)) = Prompt(Text(m, prompt_user), Text(m, prompt_os))
<1> DEFINE T == PromptTemplate
           l == Len(T)
           user == Text(m, prompt_user)
           os == Text(m, prompt_os)
<1>1. PICK from : RenderedFrom(m, from) /\ shell_render_prompt(m) = from[1]
  BY PromptRuns
<1>2. PICK iu, jo : TokensAt(iu, jo)
  BY Tokens
<1>3. T \in Seq(Char) /\ l \in Nat /\ Len(UserToken) \in Nat \ {0} /\ Len(OsToken) \in Nat \ {0}
  BY Tokens
<1>4. /\ iu \in 1 .. l /\ jo \in 1 .. l
      /\ iu + Len(UserToken) <= jo /\ jo + Len(OsToken) <= l + 1
      /\ \A k \in 1 .. l : (prompt_match(k, UserToken) <=> k = iu) /\ (prompt_match(k, OsToken) <=> k = jo)
  BY <1>2 DEF TokensAt
<1>5. /\ writestring(m, prompt_user) = <<"string", user>> /\ user \in Seq(Char)
      /\ writestring(m, prompt_os) = <<"string", os>> /\ os \in Seq(Char)
  <2>1. PICK f \in prompt_user .. (prompt_os - 1), g \in prompt_os .. Cells :
          Ends(m, prompt_user, f) /\ Ends(m, prompt_os, g)
    BY DEF NamesEnd
  <2>2. f \in 1 .. Cells /\ g \in 1 .. Cells /\ prompt_user \in 1 .. Cells /\ prompt_os \in 1 .. Cells
    BY Places
  <2> QED BY <2>1, <2>2, StringWritten
<1> DEFINE R(i) == Rest(iu, jo, user, os, i)
<1>6. /\ R(iu) = user \o R(iu + Len(UserToken)) /\ R(jo) = os \o R(jo + Len(OsToken)) /\ R(l + 1) = << >>
      /\ \A i \in 1 .. l : i \notin {iu, jo} => R(i) = <<T[i]>> \o R(i + 1)
  <2>1. user \in Seq(Char) /\ os \in Seq(Char)
    BY <1>5
  <2> HIDE DEF user, os
  <2>2. GoesOn(iu, jo, user, os)
    BY <1>2, <2>1, RestIs
  <2> QED BY <2>2 DEF GoesOn
<1>7. ASSUME NEW i \in 1 .. (l + 1)
      PROVE  from[i] = IF i > l THEN << >>
                       ELSE IF prompt_match(i, UserToken)
                            THEN <<<<"string", user>>>> \o from[i + Len(UserToken)]
                       ELSE IF prompt_match(i, OsToken) THEN <<<<"string", os>>>> \o from[i + Len(OsToken)]
                       ELSE <<<<"string", <<T[i]>>>>>> \o from[i + 1]
  BY <1>1, <1>5 DEF RenderedFrom
<1> HIDE DEF user, os, R, l
<1> DEFINE V == {i \in 1 .. (l + 1) : from[i] \in Seq(StringTokens) /\ Said(from[i]) = R(i)}
<1>8. ASSUME NEW i \in 1 .. (l + 1), (i + 1) .. (l + 1) \subseteq V
      PROVE  i \in V
  <2>1. i \in Int /\ (i > l => i = l + 1) /\ (~(i > l) => i \in 1 .. l)
    BY <1>3
  <2>2. ASSUME NEW x \in Seq(Char), NEW k \in (i + 1) .. (l + 1),
               from[i] = <<<<"string", x>>>> \o from[k], R(i) = x \o R(k)
        PROVE  i \in V
    <3>1. from[k] \in Seq(StringTokens) /\ Said(from[k]) = R(k)
      BY <1>8
    <3>2. <<<<"string", x>>>> \o from[k] \in Seq(StringTokens) /\ Said(<<<<"string", x>>>> \o from[k]) = x \o Said(from[k])
      BY <3>1, SaidFirst
    <3> QED BY <2>2, <3>1, <3>2
  <2>3. CASE i > l
    <3>1. << >> \in Seq(StringTokens) /\ Said(<< >>) = << >>
      BY DEF Said, FlattenSeq
    <3>2. from[i] = << >> /\ R(i) = << >>
      BY <1>6, <1>7, <2>1, <2>3
    <3> QED BY <3>1, <3>2
  <2> HIDE DEF V
  <2>4. CASE ~(i > l) /\ i = iu
    <3>1. from[i] = <<<<"string", user>>>> \o from[i + Len(UserToken)]
      BY <1>4, <1>7, <2>4
    <3>2. i + Len(UserToken) \in (i + 1) .. (l + 1)
      BY <1>3, <1>4, <2>4
    <3>3. R(i) = user \o R(i + Len(UserToken))
      BY <1>6, <2>4
    <3> QED BY <1>5, <2>2, <3>1, <3>2, <3>3
  <2>5. CASE ~(i > l) /\ i = jo
    <3>1. i # iu
      BY <1>3, <1>4, <2>5
    <3>2. from[i] = <<<<"string", os>>>> \o from[i + Len(OsToken)]
      BY <1>4, <1>7, <2>5, <3>1
    <3>3. i + Len(OsToken) \in (i + 1) .. (l + 1)
      BY <1>3, <1>4, <2>5
    <3>4. R(i) = os \o R(i + Len(OsToken))
      BY <1>6, <2>5
    <3> QED BY <1>5, <2>2, <3>2, <3>3, <3>4
  <2>6. CASE ~(i > l) /\ i \notin {iu, jo}
    <3>1. i \in 1 .. l /\ i + 1 \in (i + 1) .. (l + 1)
      BY <1>3, <2>1, <2>6
    <3>2. from[i] = <<<<"string", <<T[i]>>>>>> \o from[i + 1]
      BY <1>4, <1>7, <2>6, <3>1
    <3>3. R(i) = <<T[i]>> \o R(i + 1)
      BY <1>6, <2>6, <3>1
    <3>4. T[i] \in Char
      BY <1>3, <3>1, ElementOfSeq DEF l
    <3>5. <<T[i]>> \in Seq(Char)
      BY <3>4
    <3> DEFINE x == <<T[i]>>
    <3> HIDE DEF x
    <3>6. x \in Seq(Char) /\ from[i] = <<<<"string", x>>>> \o from[i + 1] /\ R(i) = x \o R(i + 1)
      BY <3>2, <3>3, <3>5 DEF x
    <3> QED BY <2>2, <3>1, <3>6
  <2> QED BY <2>3, <2>4, <2>5, <2>6
<1>9. 1 \in V
  <2> HIDE DEF V
  <2>1. l + 1 \in Nat /\ 1 \in 1 .. (l + 1)
    BY <1>3
  <2>2. 1 .. (l + 1) \subseteq V
    BY <1>8, <2>1, DownFrom
  <2> QED BY <2>1, <2>2
<1>10. from[1] \in Seq(StringTokens) /\ Said(from[1]) = R(1)
  BY <1>9
<1>11. R(1) = Prompt(user, os)
  <2> DEFINE at(token) == CHOOSE i \in DOMAIN PromptTemplate : prompt_match(i, token)
             a == SubSeq(T, 1, iu - 1)
             b == SubSeq(T, iu + Len(UserToken), jo - 1)
             c == SubSeq(T, jo + Len(OsToken), l)
  <2>1. DOMAIN PromptTemplate = 1 .. l
    BY <1>3, LenProperties DEF l
  <2>2. at(UserToken) = iu /\ at(OsToken) = jo
    BY <1>4, <2>1
  <2>3. Prompt(user, os) =
          SubSeq(T, 1, at(UserToken) - 1) \o user
          \o SubSeq(T, at(UserToken) + Len(UserToken), at(OsToken) - 1) \o os
          \o SubSeq(T, at(OsToken) + Len(OsToken), l)
    BY DEF Prompt, l
  <2> HIDE DEF at
  <2>4. Prompt(user, os) = a \o user \o b \o os \o c
    BY <2>2, <2>3
  <2>5. R(1) = a \o (user \o (b \o (os \o c)))
    <3>1. ~(1 > jo) /\ ~(1 > iu)
      BY <1>3, <1>4
    <3> QED BY <3>1 DEF R, Rest, Ending, l
  <2>6. a \in Seq(Char) /\ b \in Seq(Char) /\ c \in Seq(Char)
    <3>1. /\ 1 \in 1 .. (l + 1) /\ iu - 1 \in 0 .. l /\ iu + Len(UserToken) \in 1 .. (l + 1)
          /\ jo - 1 \in 0 .. l /\ jo + Len(OsToken) \in 1 .. (l + 1) /\ l \in 0 .. l
      BY <1>3, <1>4
    <3> QED BY <3>1, Stretch DEF l
  <2> HIDE DEF a, b, c
  <2>7. (((a \o user) \o b) \o os) \o c = a \o (user \o (b \o (os \o c)))
    <3>1. user \in Seq(Char) /\ os \in Seq(Char)
      BY <1>5
    <3>2. JoinedAnyhow(a, user, b, os, c)
      BY <2>6, <3>1, FiveJoined
    <3> QED BY <3>2 DEF JoinedAnyhow
  <2> QED BY <2>4, <2>5, <2>7
<1> QED BY <1>1, <1>10, <1>11 DEF user, os

-----------------------------------------------------------------------------
\* What the commands read from their arguments.

-----------------------------------------------------------------------------
\* Words that are numbers.

\* A word as it stands in memory.
LEMMA WordStands ==
  ASSUME NEW m, NEW args, NEW w, Handed(m, args, w), NEW n \in 1 .. Len(w)
  PROVE  /\ w[n] \in Seq(Char) /\ Len(w[n]) \in 0 .. Size /\ args[n] \in Nat
         /\ \A k \in 1 .. Len(w[n]) : m[args[n] + (k - 1)] = w[n][k]
         /\ m[args[n] + Len(w[n])] = NUL
<1> DEFINE t == w[n]
           s == args[n]
<1>1. t \in Seq(Char) /\ s \in 1 .. BufferSize
  BY WordIsText
<1>2. m \in Memory(Cells) /\ t = Text(m, s) /\ \E f \in 1 .. BufferSize : Ends(m, s, f)
  BY DEF Handed
<1> HIDE DEF t, s
<1>3. PICK f \in 1 .. BufferSize : Ends(m, s, f)
  BY <1>2
<1>4. BufferSize \in Nat /\ Cells \in Nat /\ BufferSize <= Cells /\ Cells \in 0 .. Size /\ Size \in Nat
  BY Sizes, Places
<1>5. s \in 1 .. Cells /\ f \in 1 .. Cells
  BY <1>1, <1>4
<1>6. /\ Len(Text(m, s)) = f - s
      /\ \A k \in 1 .. (f - s) : Text(m, s)[k] = m[s + k - 1] /\ Text(m, s)[k] # NUL
  <2>1. m \in Memory(Cells)
    BY <1>2
  <2> QED BY <1>3, <1>4, <1>5, <2>1, TextIs
<1>7. Len(t) = f - s /\ f - s \in 0 .. Size /\ s + (f - s) = f /\ m[f] = NUL
  BY <1>2, <1>3, <1>4, <1>5, <1>6 DEF Ends
<1>8. ASSUME NEW k \in 1 .. (f - s)
      PROVE  m[s + (k - 1)] = t[k]
  <2>1. s + (k - 1) = s + k - 1
    BY <1>5
  <2> QED BY <1>2, <1>6, <2>1
<1> QED BY <1>1, <1>5, <1>7, <1>8 DEF t, s

\* htoi begins behind the 0x.
LEMMA AddressBegins ==
  ASSUME NEW m, NEW s \in Nat, m[s] = Zero, m[s + 1] = LowerX
  PROVE  htoi(m, s) = HexLoop(m, s + 2)
<1> DEFINE start == First(LAMBDA k : m[s + k] # SP)
           i == s + start
           from == IF m[i] = Zero /\ m[i + 1] \in {LowerX, UpperX} THEN i + 2 ELSE i
<1>1. htoi(m, s) = HexLoop(m, from)
  BY DEF htoi, HexLoop
<1>2. Size \in Nat
  BY StringConstants DEF StringConstants
<1>3. m[s + 0] # SP
  BY DEF SP, Zero
<1>4. start = 0
  BY <1>2, <1>3 DEF First
<1> HIDE DEF start
<1>5. from = s + 2
  BY <1>4
<1> QED BY <1>1, <1>5

\* An address that is typed as addresses are shown is read as it.
LEMMA AddressRead ==
  ASSUME NEW m, NEW args, NEW w, Handed(m, args, w), NEW n \in 1 .. Len(w),
         NEW v \in 0 .. (Words - 1), w[n] = terminal_print_hex(v)
  PROVE  htoi(m, args[n]) = v
<1> DEFINE t == w[n]
           s == args[n]
<1>1. /\ t \in Seq(Char) /\ s \in Nat
      /\ \A k \in 1 .. Len(t) : m[s + (k - 1)] = t[k]
      /\ m[s + Len(t)] = NUL
  BY WordStands
<1>2. /\ Len(t) = HexDigits + 2 /\ t[1] = Zero /\ t[2] = LowerX
      /\ \A k \in 1 .. HexDigits : t[2 + k] = HexChar(Lead(v, k) % 16)
  BY ShownHex
<1> HIDE DEF t, s
<1>3. HexDigits \in Nat
  BY WordIs
<1>4. m[s] = Zero /\ m[s + 1] = LowerX
  <2>1. 1 \in 1 .. Len(t) /\ 2 \in 1 .. Len(t) /\ s + (1 - 1) = s /\ s + (2 - 1) = s + 1
    BY <1>1, <1>2, <1>3
  <2>2. m[s + (1 - 1)] = t[1] /\ m[s + (2 - 1)] = t[2]
    BY <1>1, <2>1
  <2> QED BY <1>2, <2>1, <2>2
<1>5. ASSUME NEW k \in 1 .. HexDigits
      PROVE  m[(s + 2) + (k - 1)] = HexChar(Lead(v, k) % 16)
  <2> DEFINE j == 2 + k
  <2>1. j \in 1 .. Len(t) /\ (s + 2) + (k - 1) = s + (j - 1)
    BY <1>1, <1>2, <1>3
  <2>2. t[j] = HexChar(Lead(v, k) % 16)
    BY <1>2
  <2> HIDE DEF j
  <2>3. m[s + (j - 1)] = t[j]
    BY <1>1, <2>1
  <2> QED BY <2>1, <2>2, <2>3
<1>6. (s + 2) + HexDigits = s + Len(t) /\ s + 2 \in Nat
  BY <1>1, <1>2, <1>3
<1>7. m[(s + 2) + HexDigits] \in {NUL, Minus}
  BY <1>1, <1>6
<1>8. HexStands(m, s + 2, v)
  BY <1>5, <1>6, <1>7, DigitsStand
<1>9. HexLoop(m, s + 2) = v
  BY <1>6, <1>8, HexRead
<1> QED BY <1>1, <1>4, <1>9, AddressBegins DEF t, s

\* So is every word of a line.
LEMMA AddressesRead ==
  ASSUME NEW m, NEW args, NEW w, Handed(m, args, w), NEW n \in 1 .. Len(w)
  PROVE  \A v \in 0 .. (Words - 1) : w[n] = terminal_print_hex(v) => htoi(m, args[n]) = v
BY AddressRead

\* atoi begins at the first digit.
LEMMA NumberBegins ==
  ASSUME NEW m, NEW s \in Nat, IsDigit(m[s])
  PROVE  atoi(m, s) = AtoiLoop(m, s)
<1> DEFINE Space == {10, TAB, 11, SP, 12, 13}
           start == First(LAMBDA k : m[s + k] \notin Space)
           i == s + start
           from == IF m[i] \in {Plus, Minus} THEN i + 1 ELSE i
<1>1. atoi(m, s) = IF m[i] = Minus THEN ToInt(-AtoiLoop(m, from)) ELSE AtoiLoop(m, from)
  BY DEF atoi, AtoiLoop
<1>2. Size \in Nat
  BY StringConstants DEF StringConstants
<1>3. m[s + 0] \notin Space /\ m[s] \notin {Plus, Minus} /\ m[s] # Minus
  BY DEF IsDigit, SP, TAB, Zero, Plus, Minus
<1> HIDE DEF Space
<1>4. start = 0
  BY <1>2, <1>3 DEF First
<1> HIDE DEF start
<1>5. i = s
  BY <1>4
<1>6. from = s
  BY <1>3, <1>5
<1> HIDE DEF i, from
<1> QED BY <1>1, <1>3, <1>5, <1>6

\* Values that follow one from the other.
Follows(r, S, a, n, F) ==
  r \in [0 .. n -> S] /\ r[0] = a /\ \A k \in 1 .. n : r[k] = F[k][r[k - 1]]

\* There are some for every step that is defined on them.
LEMMA RunExists ==
  ASSUME NEW S, NEW a \in S, NEW n \in Nat, NEW F \in [1 .. n -> [S -> S]]
  PROVE  \E r : Follows(r, S, a, n, F)
<1> DEFINE T == {b \in 0 .. n : \E r : Follows(r, S, a, b, F)}
<1>1. 0 \in T
  <2> DEFINE r == [k \in 0 .. 0 |-> a]
  <2>1. r \in [0 .. 0 -> S] /\ r[0] = a
    OBVIOUS
  <2>2. Follows(r, S, a, 0, F)
    BY <2>1 DEF Follows
  <2>3. 0 \in 0 .. n
    OBVIOUS
  <2> HIDE DEF r
  <2> QED BY <2>2, <2>3
<1>2. ASSUME NEW b \in 0 .. (n - 1), b \in T
      PROVE  b + 1 \in T
  <2>1. PICK r : Follows(r, S, a, b, F)
    BY <1>2
  <2> DEFINE next == F[b + 1][r[b]]
             g == [k \in 0 .. (b + 1) |-> IF k = b + 1 THEN next ELSE r[k]]
  <2>2. r \in [0 .. b -> S] /\ r[0] = a /\ (\A k \in 1 .. b : r[k] = F[k][r[k - 1]]) /\ b \in Nat
    BY <2>1 DEF Follows
  <2>3. next \in S
    <3>1. r[b] \in S /\ b + 1 \in 1 .. n
      BY <2>2
    <3>2. F[b + 1] \in [S -> S]
      BY <3>1
    <3> QED BY <3>1, <3>2
  <2>4. g \in [0 .. (b + 1) -> S]
    <3> HIDE DEF next
    <3>1. \A k \in 0 .. (b + 1) : k # b + 1 => k \in 0 .. b
      BY <2>2
    <3> QED BY <2>2, <2>3, <3>1
  <2>5. g[0] = a /\ g[b + 1] = next
    <3> HIDE DEF next
    <3>1. 0 \in 0 .. (b + 1) /\ b + 1 \in 0 .. (b + 1) /\ 0 # b + 1
      BY <2>2
    <3> QED BY <2>2, <3>1
  <2>6. ASSUME NEW k \in 1 .. (b + 1)
        PROVE  g[k] = F[k][g[k - 1]]
    <3>1. k - 1 \in 0 .. (b + 1) /\ k - 1 # b + 1 /\ k \in 0 .. (b + 1)
      BY <2>2
    <3>2. g[k - 1] = r[k - 1]
      BY <3>1
    <3>3. CASE k = b + 1
      <4>1. g[k - 1] = r[b]
        <5>1. k - 1 = b
          BY <2>2, <3>3
        <5> HIDE DEF g
        <5> QED BY <3>2, <5>1
      <4> HIDE DEF g
      <4> QED BY <2>5, <3>3, <4>1
    <3>4. CASE k # b + 1
      <4>1. g[k] = r[k] /\ k \in 1 .. b
        BY <2>2, <3>1, <3>4
      <4> HIDE DEF g
      <4> QED BY <2>2, <3>2, <4>1
    <3> QED BY <3>3, <3>4
  <2> HIDE DEF g
  <2>7. Follows(g, S, a, b + 1, F)
    BY <2>4, <2>5, <2>6 DEF Follows
  <2>8. b + 1 \in 0 .. n
    BY <2>2
  <2> QED BY <2>7, <2>8
<1>3. n \in T
  <2> HIDE DEF T
  <2>1. 0 .. n \subseteq T
    BY <1>1, <1>2, UpTo
  <2> QED BY <2>1
<1> QED BY <1>3

\* The value of a row of digits is reached from digit to digit.
Tens(t, v) ==
  /\ v \in [0 .. Len(t) -> Int] /\ v[0] = 0 /\ Decimal(t) = v[Len(t)]
  /\ \A k \in 1 .. Len(t) : v[k] = 10 * v[k - 1] + (t[k] - Zero)

\* Decimal has such a row of values, and ends with it.
LEMMA DecimalRuns ==
  ASSUME NEW t \in Seq(Char)
  PROVE  \E v : Tens(t, v)
<1> DEFINE n == Len(t)
           E(k, x) == 10 * x + (t[k] - Zero)
           F == [k \in 1 .. n |-> [x \in Int |-> E(k, x)]]
           upto == CHOOSE upto : upto = [k \in 0 .. n |-> IF k = 0 THEN 0 ELSE 10 * upto[k - 1] + (t[k] - Zero)]
<1>1. n \in Nat /\ \A k \in 1 .. n : t[k] \in Nat
  BY CharIs, LenProperties, ElementOfSeq
<1>2. Decimal(t) = upto[n]
  BY DEF Decimal
<1> HIDE DEF n
<1>3. F \in [1 .. n -> [Int -> Int]]
  <2>1. ASSUME NEW k \in 1 .. n, NEW x \in Int
        PROVE  E(k, x) \in Int
    <3>1. t[k] \in Nat /\ Zero \in Int
      BY <1>1 DEF Zero
    <3> QED BY <3>1
  <2> HIDE DEF E
  <2> QED BY <2>1
<1>4. ASSUME NEW k \in 1 .. n, NEW x \in Int
      PROVE  F[k][x] = E(k, x)
  <2> HIDE DEF E
  <2> QED OBVIOUS
<1> HIDE DEF F
<1>0. n \in Nat /\ 0 \in Int
  BY <1>1
<1>5. PICK v : Follows(v, Int, 0, n, F)
  BY <1>0, <1>3, RunExists
<1>6. v \in [0 .. n -> Int] /\ v[0] = 0 /\ \A k \in 1 .. n : v[k] = E(k, v[k - 1])
  <2>1. v \in [0 .. n -> Int] /\ v[0] = 0 /\ \A k \in 1 .. n : v[k] = F[k][v[k - 1]]
    BY <1>5 DEF Follows
  <2>2. \A k \in 1 .. n : v[k - 1] \in Int
    <3>1. \A k \in 1 .. n : k - 1 \in 0 .. n
      BY <1>1
    <3> QED BY <2>1, <3>1
  <2> HIDE DEF E
  <2> QED BY <1>4, <2>1, <2>2
<1> HIDE DEF E
<1>7. v = [k \in 0 .. n |-> IF k = 0 THEN 0 ELSE E(k, v[k - 1])]
  <2>1. ASSUME NEW k \in 0 .. n
        PROVE  v[k] = IF k = 0 THEN 0 ELSE E(k, v[k - 1])
    <3> HIDE DEF upto
    <3>1. k = 0 \/ k \in 1 .. n
      BY <1>0
    <3>2. CASE k = 0
      BY <1>6, <3>2
    <3>3. CASE k \in 1 .. n
      <4>1. k # 0
        BY <3>3
      <4> QED BY <1>6, <3>3, <4>1
    <3> QED BY <3>1, <3>2, <3>3
  <2>2. v = [k \in 0 .. n |-> v[k]]
    BY <1>6
  <2> QED BY <2>1, <2>2
<1>8. upto = [k \in 0 .. n |-> IF k = 0 THEN 0 ELSE E(k, upto[k - 1])]
  BY <1>7 DEF E
<1> HIDE DEF upto
<1>9. v[0] = upto[0]
  BY <1>1, <1>6, <1>8
<1>10. ASSUME NEW k \in 1 .. n, v[k - 1] = upto[k - 1]
       PROVE  v[k] = upto[k]
  <2>1. k \in 0 .. n /\ k # 0
    BY <1>1
  <2>2. upto[k] = E(k, upto[k - 1]) /\ v[k] = E(k, v[k - 1])
    BY <1>6, <1>8, <2>1
  <2> QED BY <1>10, <2>2
<1>11. v[n] = upto[n]
  BY <1>1, <1>9, <1>10, SameRun
<1> QED BY <1>2, <1>6, <1>11 DEF Tens, E, n

\* The value of the first digits grows with their number.
LEMMA TensGrow ==
  ASSUME NEW t \in Seq(Char), NEW v, Tens(t, v), \A k \in 1 .. Len(t) : IsDigit(t[k]), NEW j \in 0 .. Len(t)
  PROVE  v[j] \in 0 .. Decimal(t)
<1> DEFINE n == Len(t)
           T == {k \in 0 .. n : \A i \in 0 .. k : 0 <= v[i] /\ v[i] <= v[k]}
<1>1. n \in Nat
  BY LenProperties
<1>2. /\ \A k \in 0 .. n : v[k] \in Int
      /\ v[0] = 0 /\ Decimal(t) = v[n]
      /\ \A k \in 1 .. n : v[k] = 10 * v[k - 1] + (t[k] - Zero)
  BY DEF Tens
<1> HIDE DEF n
<1>3. 0 \in T
  <2>1. 0 \in 0 .. n /\ \A i \in 0 .. 0 : i = 0
    BY <1>1
  <2> QED BY <1>2, <2>1
<1>4. ASSUME NEW b \in 0 .. (n - 1), b \in T
      PROVE  b + 1 \in T
  <2>1. b \in 0 .. n /\ b \in 0 .. b /\ b + 1 \in 0 .. n /\ b + 1 \in 1 .. n /\ (b + 1) - 1 = b
    BY <1>1
  <2>2. \A i \in 0 .. b : 0 <= v[i] /\ v[i] <= v[b]
    BY <1>4
  <2> DEFINE x == v[b]
             y == v[b + 1]
             d == t[b + 1]
  <2>3. x \in Nat
    <3>1. x \in Int /\ 0 <= x
      BY <1>2, <2>1, <2>2
    <3> HIDE DEF x
    <3> QED BY <3>1
  <2>4. d \in Nat /\ d - Zero >= 0
    <3>1. d \in Nat
      BY <2>1, CharIs, ElementOfSeq DEF n
    <3>2. IsDigit(d)
      BY <2>1 DEF n
    <3> HIDE DEF d
    <3> QED BY <3>1, <3>2 DEF IsDigit, Zero
  <2>5. y = 10 * x + (d - Zero) /\ y \in Int
    BY <1>2, <2>1
  <2> HIDE DEF x, y, d
  <2>6. x <= y /\ 0 <= y
    BY <2>3, <2>4, <2>5 DEF Zero
  <2>7. ASSUME NEW i \in 0 .. (b + 1)
        PROVE  0 <= v[i] /\ v[i] <= y
    <3>1. CASE i = b + 1
      <4>1. v[i] = y
        BY <3>1 DEF y
      <4> QED BY <2>5, <2>6, <4>1
    <3>2. CASE i \in 0 .. b
      <4>1. 0 <= v[i] /\ v[i] <= x /\ v[i] \in Int
        <5>1. i \in 0 .. n
          BY <1>1, <3>2
        <5> QED BY <1>2, <2>2, <3>2, <5>1 DEF x
      <4> QED BY <2>3, <2>5, <2>6, <4>1
    <3>3. i = b + 1 \/ i \in 0 .. b
      BY <2>1
    <3> QED BY <3>1, <3>2, <3>3
  <2> QED BY <2>1, <2>7 DEF y
<1>5. n \in T
  <2> HIDE DEF T
  <2>1. 0 .. n \subseteq T
    BY <1>1, <1>3, <1>4, UpTo
  <2> QED BY <1>1, <2>1
<1>6. 0 <= v[j] /\ v[j] <= v[n] /\ v[j] \in Int /\ v[n] \in Int
  <2>1. n \in 0 .. n /\ j \in 0 .. n
    BY <1>1 DEF n
  <2> QED BY <1>2, <1>5, <2>1
<1> QED BY <1>2, <1>6

\* A size that is typed as a numeral is read as the number.
LEMMA SizeRead ==
  ASSUME NEW m, NEW args, NEW w, Handed(m, args, w), NEW n \in 1 .. Len(w),
         NEW val \in 0 .. (Half - 1), IsNumeral(w[n], val)
  PROVE  atoi(m, args[n]) = val
<1> DEFINE t == w[n]
           s == args[n]
           len == Len(t)
<1>1. /\ t \in Seq(Char) /\ len \in 0 .. Size /\ s \in Nat
      /\ \A k \in 1 .. len : m[s + (k - 1)] = t[k]
      /\ m[s + len] = NUL
  BY WordStands
<1>2. t # << >> /\ (\A k \in DOMAIN t : IsDigit(t[k])) /\ Decimal(t) = val
  BY DEF IsNumeral
<1> HIDE DEF t, s
<1>3. Half \in Nat /\ Size \in Nat
  BY WordIs, StringConstants DEF StringConstants
<1>4. len \in Nat /\ len # 0 /\ DOMAIN t = 1 .. len
  BY <1>1, <1>2, LenProperties, EmptySeq
<1>5. PICK v : Tens(t, v)
  BY <1>1, DecimalRuns
<1>6. \A j \in 0 .. len : v[j] \in 0 .. val
  BY <1>1, <1>2, <1>4, <1>5, TensGrow
<1>7. v[0] = 0 /\ v[len] = val /\ \A k \in 1 .. len : v[k] = 10 * v[k - 1] + (t[k] - Zero)
  BY <1>2, <1>5 DEF Tens
<1> HIDE DEF len
<1>8. ASSUME NEW k \in 1 .. len
      PROVE  /\ IsDigit(m[s + (k - 1)])
             /\ v[k] = ToInt(ToInt(10 * v[k - 1]) + m[s + (k - 1)] - Zero)
  <2> DEFINE a == v[k - 1]
             b == v[k]
             c == t[k]
  <2>1. a \in 0 .. val /\ b \in 0 .. val
    <3>1. k \in 0 .. len /\ k - 1 \in 0 .. len
      BY <1>4
    <3> QED BY <1>6, <3>1
  <2>2. IsDigit(c) /\ c \in Nat
    BY <1>1, <1>2, <1>4, CharIs, ElementOfSeq DEF len
  <2>3. b = 10 * a + (c - Zero) /\ m[s + (k - 1)] = c
    BY <1>1, <1>7
  <2> HIDE DEF a, b, c
  <2>4. 10 * a \in -Half .. (Half - 1) /\ b \in -Half .. (Half - 1) /\ 10 * a \in Int /\ b \in Int
    BY <1>3, <2>1, <2>2, <2>3 DEF Zero, IsDigit
  <2>5. ToInt(10 * a) = 10 * a /\ ToInt(b) = b
    BY <2>4, ToIntIs
  <2>6. ToInt(10 * a) + c - Zero = b
    BY <2>2, <2>3, <2>4, <2>5 DEF Zero
  <2> QED BY <2>2, <2>3, <2>5, <2>6 DEF a, b
<1>9. ~IsDigit(m[s + len])
  BY <1>1, NoDigits
<1>10. AtoiLoop(m, s) = v[len]
  <2>1. s \in Nat /\ len \in 0 .. Size
    BY <1>1
  <2>2. v[0] = 0
    BY <1>7
  <2> QED BY <1>8, <1>9, <2>1, <2>2, AtoiLoopIs
<1>11. IsDigit(m[s])
  <2>1. 1 \in 1 .. len /\ s + (1 - 1) = s
    BY <1>1, <1>4
  <2>2. IsDigit(m[s + (1 - 1)])
    BY <1>8, <2>1
  <2> QED BY <2>1, <2>2
<1> QED BY <1>1, <1>7, <1>10, <1>11, NumberBegins DEF t, s

\* memdump dumps for a size it takes.
LEMMA memdumpAnswers ==
  ASSUME NEW m, NEW args, NEW w, Handed(m, args, w), Len(w) = 2, NEW out \in memdump(m, args),
         NEW n \in 0 .. (Half - 1), IsNumeral(w[2], n)
  PROVE  out # << >> /\ out[1][1] = "dump" <=> n \in 1 .. MaxDump
<1>1. Len(args) = 2
  BY DEF Handed
<1>2. atoi(m, args[2]) = n
  <2> DEFINE k == 2
  <2>1. k \in 1 .. Len(w) /\ IsNumeral(w[k], n)
    OBVIOUS
  <2> HIDE DEF k
  <2>2. atoi(m, args[k]) = n
    BY <2>1, SizeRead
  <2> QED BY <2>2 DEF k
<1>3. Half \in Nat /\ MaxDump \in Nat
  BY WordIs, CommandConstants DEF CommandConstants
<1>4. CASE n < 1 \/ n > MaxDump
  <2>1. out = <<Say("memdump size")>>
    BY <1>1, <1>2, <1>4 DEF memdump
  <2>2. out[1][1] = "say"
    BY <2>1 DEF Say
  <2> QED BY <1>3, <1>4, <2>2
<1>5. CASE ~(n < 1 \/ n > MaxDump)
  <2>1. out = <<<<"dump", IF n < BitmapBytes THEN n ELSE BitmapBytes>>>>
    BY <1>1, <1>2, <1>5 DEF memdump
  <2>2. out # << >> /\ out[1][1] = "dump"
    BY <2>1
  <2> QED BY <1>3, <1>5, <2>2
<1> QED BY <1>4, <1>5

\* Two rows of one side by side.
LEMMA OneAndOne ==
  ASSUME NEW a, NEW b
  PROVE  <<a>> \o <<b>> = <<a, b>>
<1> DEFINE S == {a, b}
           p == <<a>>
           q == <<b>>
           two == <<a, b>>
<1>1. /\ p \in Seq(S) /\ Len(p) = 1 /\ p[1] = a /\ q \in Seq(S) /\ Len(q) = 1 /\ q[1] = b
      /\ two \in Seq(S) /\ Len(two) = 2 /\ two[1] = a /\ two[2] = b
  OBVIOUS
<1> HIDE DEF S, p, q, two
<1>2. /\ p \o q \in Seq(S) /\ Len(p \o q) = Len(p) + Len(q)
      /\ \A i \in 1 .. (Len(p) + Len(q)) : (p \o q)[i] = IF i <= Len(p) THEN p[i] ELSE q[i - Len(p)]
  BY <1>1, ConcatProperties
<1>3. Len(p \o q) = 2 /\ (p \o q)[1] = a /\ (p \o q)[2] = b
  BY <1>1, <1>2
<1> DEFINE r == p \o q
<1> HIDE DEF r
<1>4. r \in Seq(S) /\ Len(r) = 2 /\ \A i \in 1 .. 2 : r[i] = two[i]
  BY <1>1, <1>2, <1>3 DEF r
<1>5. r = two
  BY <1>1, <1>4, SeqEqual
<1> QED BY <1>5 DEF p, q, r, two

\* What a command that runs to r leaves behind: the pages, and whether the shell
\* goes on.
Left(r) == (running' <=> r.returns) /\ pages' = r.pages

\* What an access to an address is answered by.
LEMMA AccessAnswers ==
  ASSUME NEW v \in 0 .. (Words - 1), NEW x, NEW r \in Access(v, <<x>>), Left(r)
  PROVE  AccessAnswer(v, x, r.out)
<1> DEFINE page == v \div PageSize
           fault == <<Say("page fault")>>
           later == Done(fault \o <<x>>)
<1>0. v \in Int /\ HeapStart \in Int
  BY WordIs, CommandConstants DEF CommandConstants
<1>1. CASE page \in pages
  <2>1. r = Done(<<x>>)
    BY <1>1 DEF Access
  <2>2. r.out = <<x>> /\ running'
    BY <2>1 DEF Done, Left
  <2> QED BY <1>1, <2>2 DEF AccessAnswer
<1>2. CASE page \notin pages /\ r = Stop(fault)
  <2>1. r.out = fault /\ ~running'
    BY <1>2 DEF Stop, Left
  <2> QED BY <1>2, <2>1 DEF AccessAnswer
<1>3. CASE page \notin pages /\ r # Stop(fault)
  <2>1. ~(v < HeapStart) /\ r = [later EXCEPT !.pages = @ \cup {page}]
    BY <1>3 DEF Access
  <2>2. r.out = fault \o <<x>> /\ r.returns /\ r.pages = pages \cup {page}
    BY <2>1 DEF Done
  <2>3. r.out = <<Say("page fault"), x>>
    BY <2>2, OneAndOne
  <2>4. running' /\ page \in pages'
    BY <2>2 DEF Left
  <2>5. ~(v < HeapStart)
    BY <2>1
  <2>6. v >= HeapStart
    BY <1>0, <2>5
  <2> QED BY <1>3, <2>3, <2>4, <2>6 DEF AccessAnswer
<1> QED BY <1>1, <1>2, <1>3

\* peek and poke reach the address that is typed.
LEMMA peekAnswers ==
  ASSUME NEW m, NEW args, NEW w, Handed(m, args, w), Len(w) = 2, NEW r \in peek(m, args), Left(r)
  PROVE  AddressAnswer(w, r.out, LAMBDA v : <<"peek", v>>)
<1>0. \A v \in 0 .. (Words - 1) : w[2] = terminal_print_hex(v) => htoi(m, args[2]) = v
  <2> DEFINE n == 2
  <2>1. n \in 1 .. Len(w)
    OBVIOUS
  <2> HIDE DEF n
  <2>2. \A v \in 0 .. (Words - 1) : w[n] = terminal_print_hex(v) => htoi(m, args[n]) = v
    BY <2>1, AddressRead
  <2> QED BY <2>2 DEF n
<1>1. Len(args) = 2
  BY DEF Handed
<1>2. ASSUME NEW v \in 0 .. (Words - 1), w[2] = terminal_print_hex(v)
      PROVE  AccessAnswer(v, <<"peek", v>>, r.out)
  <2> DEFINE row == <<"peek", v>>
  <2>1. htoi(m, args[2]) = v
    BY <1>0, <1>2
  <2>2. r \in Access(v, <<row>>)
    BY <1>1, <2>1 DEF peek
  <2> HIDE DEF row
  <2>3. AccessAnswer(v, row, r.out)
    BY <2>2, AccessAnswers
  <2> QED BY <2>3 DEF row
<1> QED BY <1>2 DEF AddressAnswer

\* The two numbers poke is given.
LEMMA TwoRead ==
  ASSUME NEW m, NEW args, NEW w, Handed(m, args, w), Len(w) = 3
  PROVE  /\ \A v \in 0 .. (Words - 1) : w[2] = terminal_print_hex(v) => htoi(m, args[2]) = v
         /\ \A v \in 0 .. (Words - 1) : w[3] = terminal_print_hex(v) => htoi(m, args[3]) = v
<1> DEFINE n == 2
           k == 3
<1>1. n \in 1 .. Len(w) /\ k \in 1 .. Len(w)
  OBVIOUS
<1> HIDE DEF n, k
<1>2. \A v \in 0 .. (Words - 1) : w[n] = terminal_print_hex(v) => htoi(m, args[n]) = v
  BY <1>1, AddressesRead
<1>3. \A v \in 0 .. (Words - 1) : w[k] = terminal_print_hex(v) => htoi(m, args[k]) = v
  BY <1>1, AddressesRead
<1> QED BY <1>2, <1>3 DEF n, k

\* poke writes the low byte of the value that is typed to that address.
LEMMA pokeAnswers ==
  ASSUME NEW m, NEW args, NEW w, Handed(m, args, w), Len(w) = 3, NEW r \in poke(m, args), Left(r),
         NEW b \in 0 .. (Bytes - 1), w[3] = terminal_print_hex(b)
  PROVE  AddressAnswer(w, r.out, LAMBDA v : <<"poke", terminal_print_hex(b), terminal_print_hex(v)>>)
<1>0. /\ \A v \in 0 .. (Words - 1) : w[2] = terminal_print_hex(v) => htoi(m, args[2]) = v
      /\ \A v \in 0 .. (Words - 1) : w[3] = terminal_print_hex(v) => htoi(m, args[3]) = v
  BY TwoRead, Zenon
<1>1. Len(args) = 3
  BY DEF Handed
<1>2. b \in 0 .. (Words - 1) /\ b % Bytes = b
  <2>1. Words \in Nat /\ Bytes \in Nat \ {0} /\ Bytes <= Words
    BY WordIs, CommandConstants DEF CommandConstants
  <2>2. b \in Int /\ 0 \in Int /\ b = Bytes * 0 + b
    BY <2>1
  <2>3. b % Bytes = b
    BY <2>1, <2>2, Divided
  <2> QED BY <2>1, <2>3
<1>3. htoi(m, args[3]) = b
  BY <1>0, <1>2
<1>4. ASSUME NEW v \in 0 .. (Words - 1), w[2] = terminal_print_hex(v)
      PROVE  AccessAnswer(v, <<"poke", terminal_print_hex(b), terminal_print_hex(v)>>, r.out)
  <2> DEFINE row == <<"poke", terminal_print_hex(b), terminal_print_hex(v)>>
  <2>1. htoi(m, args[2]) = v
    BY <1>0, <1>4
  <2>2. r \in Access(v, <<row>>)
    BY <1>1, <1>2, <1>3, <2>1 DEF poke
  <2> HIDE DEF row
  <2>3. AccessAnswer(v, row, r.out)
    BY <2>2, AccessAnswers
  <2> QED BY <2>3 DEF row
<1> QED BY <1>4 DEF AddressAnswer

\* The commands that are answered by their arguments.
LEMMA ArgumentsAnswered ==
  ASSUME NEW m, NEW args, NEW w, Handed(m, args, w), NEW c \in DOMAIN Spelling, w[1] = Spelling[c],
         NEW r \in Command(c, m, args), Left(r)
  PROVE  ArgumentsAnswer(w, r.out)
<1>0. /\ \A d, e \in DOMAIN Spelling : Spelling[d] = Spelling[e] => d = e
      /\ {"memdump", "peek", "poke"} \subseteq DOMAIN Spelling
  BY CommandConstants DEF CommandConstants
<1>1. CASE c = "memdump"
  <2>0. r \in Answered(m, memdump(m, args))
    BY <1>1 DEF Command
  <2>1. r.out \in memdump(m, args)
    BY <2>0, AnsweredIs
  <2>2. Len(w) = 2 => \A n \in 0 .. (Half - 1) :
          IsNumeral(w[2], n) => (r.out # << >> /\ r.out[1][1] = "dump" <=> n \in 1 .. MaxDump)
    BY <2>1, memdumpAnswers
  <2>3. w[1] = Spelling["memdump"] /\ w[1] # Spelling["peek"] /\ w[1] # Spelling["poke"]
    BY <1>0, <1>1
  <2> QED BY <2>2, <2>3 DEF ArgumentsAnswer
<1>2. CASE c = "peek"
  <2>0. r \in Ran(m, peek(m, args))
    BY <1>2 DEF Command
  <2>1. PICK q \in peek(m, args) : r.out = q.out /\ r.returns = q.returns /\ r.pages = q.pages
    BY <2>0, RanIs
  <2>2. Left(q)
    BY <2>1 DEF Left
  <2>3. Len(w) = 2 => AddressAnswer(w, q.out, LAMBDA v : <<"peek", v>>)
    BY <2>2, peekAnswers
  <2>4. Len(w) = 2 => AddressAnswer(w, r.out, LAMBDA v : <<"peek", v>>)
    BY <2>1, <2>3 DEF AddressAnswer
  <2>5. w[1] = Spelling["peek"] /\ w[1] # Spelling["memdump"] /\ w[1] # Spelling["poke"]
    BY <1>0, <1>2
  <2> QED BY <2>4, <2>5 DEF ArgumentsAnswer
<1>3. CASE c = "poke"
  <2>0. r \in Ran(m, poke(m, args))
    BY <1>3 DEF Command
  <2>1. PICK q \in poke(m, args) : r.out = q.out /\ r.returns = q.returns /\ r.pages = q.pages
    BY <2>0, RanIs
  <2>2. Left(q)
    BY <2>1 DEF Left
  <2>3. Len(w) = 3 => \A b \in 0 .. (Bytes - 1) : w[3] = terminal_print_hex(b) =>
          AddressAnswer(w, q.out, LAMBDA v : <<"poke", terminal_print_hex(b), terminal_print_hex(v)>>)
    BY <2>2, pokeAnswers
  <2>4. Len(w) = 3 => \A b \in 0 .. (Bytes - 1) : w[3] = terminal_print_hex(b) =>
          AddressAnswer(w, r.out, LAMBDA v : <<"poke", terminal_print_hex(b), terminal_print_hex(v)>>)
    BY <2>1, <2>3 DEF AddressAnswer
  <2>5. w[1] = Spelling["poke"] /\ w[1] # Spelling["memdump"] /\ w[1] # Spelling["peek"]
    BY <1>0, <1>3
  <2> QED BY <2>4, <2>5 DEF ArgumentsAnswer
<1>4. CASE c \notin {"memdump", "peek", "poke"}
  <2>1. w[1] # Spelling["poke"] /\ w[1] # Spelling["memdump"] /\ w[1] # Spelling["peek"]
    BY <1>0, <1>4
  <2> QED BY <2>1 DEF ArgumentsAnswer
<1> QED BY <1>1, <1>2, <1>3, <1>4

-----------------------------------------------------------------------------
\* Options, and what echo writes.

\* A text of a minus sign and a letter.
Flag(f) == <<Minus, f>>

\* A flag is a text without a NUL whose second character is its letter.
LEMMA FlagIs ==
  ASSUME NEW f \in Char \ {NUL}
  PROVE  Flag(f) \in Seq(Char \ {NUL}) /\ Flag(f)[2] = f
<1>1. Minus \in Char \ {NUL}
  BY CharIs DEF Minus, NUL
<1> QED BY <1>1 DEF Flag

\* A command takes an argument for a flag exactly when it was typed so.
LEMMA FlagRead ==
  ASSUME NEW m, NEW args, NEW w, Handed(m, args, w), NEW n \in 1 .. Len(w), NEW f \in Char \ {NUL}
  PROVE  Is(m, args[n], Flag(f)) <=> w[n] = Flag(f)
<1>1. \A lit \in Seq(Char \ {NUL}) : Is(m, args[n], lit) <=> w[n] = lit
  BY WordIsText
<1> QED BY <1>1, FlagIs, Zenon

\* The options of a line end before its argument j.
OptionsTo(w, flags, j) ==
  /\ j \in 2 .. (Len(w) + 1)
  /\ j <= Len(w) => ~\E f \in flags : w[j] = Flag(f)
  /\ \A i \in 2 .. (j - 1) : \E f \in flags : w[i] = Flag(f)

\* The commands find this argument.
LEMMA FirstBehindIs ==
  ASSUME NEW m, NEW args, NEW w, Handed(m, args, w), w # << >>, NEW flags, flags \subseteq Char \ {NUL}
  PROVE  OptionsTo(w, flags, FirstBehind(m, args, flags))
<1> DEFINE Halts(k) == k + 2 > Len(args) \/ ~\E f \in flags : Is(m, args[k + 2], Flag(f))
           T == {k \in Nat : Halts(k)}
           n == Len(w) - 1
<1>1. Len(w) \in Nat /\ Len(w) >= 1 /\ Len(args) = Len(w) /\ n \in Nat /\ n <= Size /\ Size \in Nat
  <2>1. w \in Seq(Seq(Char)) /\ Len(args) = Len(w) /\ Len(w) <= Size /\ Size \in Nat
    BY StringConstants DEF Handed, StringConstants
  <2>2. Len(w) \in Nat /\ Len(w) # 0
    BY <2>1, LenProperties, EmptySeq
  <2> QED BY <2>1, <2>2
<1>2. \A i \in 1 .. Len(w) : \A f \in flags : Is(m, args[i], Flag(f)) <=> w[i] = Flag(f)
  BY FlagRead
<1>3. n \in T
  <2>1. n + 2 > Len(args)
    BY <1>1
  <2> QED BY <1>1, <2>1
<1> HIDE DEF T
<1>4. PICK k \in 0 .. n : k \in T /\ \A i \in 0 .. (k - 1) : i \notin T
  BY <1>1, <1>3, Stops
<1>5. Halts(k) /\ \A i \in 0 .. (k - 1) : ~Halts(i)
  <2> HIDE DEF Halts
  <2>1. \A i \in 0 .. (k - 1) : i \in Nat
    OBVIOUS
  <2> QED BY <1>4, <2>1 DEF T
<1>6. FirstBehind(m, args, flags) = 2 + First(Halts)
  BY DEF FirstBehind, Flag
<1>7. First(Halts) = k
  <2> HIDE DEF Halts
  <2>1. k \in 0 .. Size /\ k \in Nat
    BY <1>1, <1>4
  <2>2. \A x \in 0 .. Size : Halts(x) /\ (\A i \in 0 .. (x - 1) : ~Halts(i)) => x = k
    <3> SUFFICES ASSUME NEW x \in 0 .. Size, Halts(x), \A i \in 0 .. (x - 1) : ~Halts(i)
                 PROVE  x = k
      OBVIOUS
    <3>1. ~(x \in 0 .. (k - 1)) /\ ~(k \in 0 .. (x - 1))
      BY <1>5
    <3> QED BY <1>1, <2>1, <3>1
  <2> QED BY <1>5, <2>1, <2>2 DEF First
<1> DEFINE j == FirstBehind(m, args, flags)
<1>8. j = k + 2
  BY <1>4, <1>6, <1>7
<1> HIDE DEF j
<1>9. j \in 2 .. (Len(w) + 1)
  BY <1>1, <1>4, <1>8
<1>10. ASSUME j <= Len(w)
       PROVE  ~\E f \in flags : w[j] = Flag(f)
  <2>1. j \in 1 .. Len(w) /\ ~(k + 2 > Len(args))
    BY <1>1, <1>8, <1>9, <1>10
  <2>2. ~\E f \in flags : Is(m, args[j], Flag(f))
    BY <1>5, <1>8, <2>1
  <2> QED BY <1>2, <2>1, <2>2
<1>11. ASSUME NEW i \in 2 .. (j - 1)
       PROVE  \E f \in flags : w[i] = Flag(f)
  <2>1. i - 2 \in 0 .. (k - 1) /\ (i - 2) + 2 = i /\ i \in 1 .. Len(w)
    BY <1>1, <1>8, <1>9
  <2>2. ~Halts(i - 2)
    BY <1>5, <2>1
  <2>3. \E f \in flags : Is(m, args[i], Flag(f))
    BY <2>1, <2>2
  <2> QED BY <1>2, <2>1, <2>3
<1> QED BY <1>9, <1>10, <1>11 DEF OptionsTo, j

\* It is the one behind the options the user typed.
LEMMA OptionsAre ==
  ASSUME NEW w, Len(w) \in Nat, NEW flags, NEW j, OptionsTo(w, flags, j)
  PROVE  Options(w, flags) = 2 .. (j - 1) /\ LastOption(w, flags) = j - 1
<1> DEFINE Good(i) == \E f \in flags : w[i] = Flag(f)
<1>1. /\ j \in 2 .. (Len(w) + 1) /\ (j <= Len(w) => ~Good(j)) /\ \A i \in 2 .. (j - 1) : Good(i)
  BY DEF OptionsTo
<1>2. Options(w, flags) = {k \in 2 .. Len(w) : \A i \in 2 .. k : Good(i)}
  BY DEF Options, Flag
<1> HIDE DEF Good
<1>3. Options(w, flags) = 2 .. (j - 1)
  <2>1. ASSUME NEW k \in 2 .. Len(w), \A i \in 2 .. k : Good(i)
        PROVE  k \in 2 .. (j - 1)
    <3>1. ~(j <= k)
      <4> SUFFICES ASSUME j <= k
                   PROVE  FALSE
        OBVIOUS
      <4>1. j \in 2 .. k /\ j <= Len(w)
        BY <1>1
      <4> QED BY <1>1, <2>1, <4>1
    <3> QED BY <1>1, <3>1
  <2>2. ASSUME NEW k \in 2 .. (j - 1)
        PROVE  k \in 2 .. Len(w) /\ \A i \in 2 .. k : Good(i)
    <3>1. k \in 2 .. Len(w) /\ \A i \in 2 .. k : i \in 2 .. (j - 1)
      BY <1>1
    <3> QED BY <1>1, <3>1
  <2> QED BY <1>2, <2>1, <2>2
<1>4. Cardinality(2 .. (j - 1)) = j - 2
  <2>1. 2 \in Int /\ j - 1 \in Int
    BY <1>1
  <2>2. Cardinality(2 .. (j - 1)) = IF 2 > j - 1 THEN 0 ELSE (j - 1) - 2 + 1
    BY <2>1, FS_Interval
  <2> QED BY <1>1, <2>2
<1> QED BY <1>1, <1>3, <1>4 DEF LastOption

\* An option among them.
Among(w, j, f) == \E i \in 2 .. (j - 1) : w[i] = Flag(f)

\* What a command asks of its options is what was typed.
LEMMA OptionsRead ==
  ASSUME NEW m, NEW args, NEW w, Handed(m, args, w), w # << >>, NEW flags, flags \subseteq Char \ {NUL}
  PROVE  LET j == FirstBehind(m, args, flags)
         IN  /\ OptionsTo(w, flags, j) /\ Options(w, flags) = 2 .. (j - 1) /\ LastOption(w, flags) = j - 1
             /\ AsksHelp(m, args, j) <=> Help(w, flags)
             /\ \A f \in Char \ {NUL} : Flagged(m, args, j, f) <=> Among(w, j, f)
<1> DEFINE j == FirstBehind(m, args, flags)
<1>1. Len(w) \in Nat /\ Len(args) = Len(w)
  BY LenProperties DEF Handed
<1>2. OptionsTo(w, flags, j)
  BY FirstBehindIs
<1> HIDE DEF j
<1>3. Options(w, flags) = 2 .. (j - 1) /\ LastOption(w, flags) = j - 1
  BY <1>1, <1>2, OptionsAre
<1>4. j \in 2 .. (Len(w) + 1)
  BY <1>2 DEF OptionsTo
<1>5. \A i \in 1 .. Len(w) : \A f \in Char \ {NUL} : Is(m, args[i], Flag(f)) <=> w[i] = Flag(f)
  BY FlagRead
<1>6. AsksHelp(m, args, j) <=> Help(w, flags)
  <2>1. AsksHelp(m, args, j) <=> j <= Len(w) /\ Is(m, args[j], Flag(104))
    BY <1>1 DEF AsksHelp, Flag
  <2>2. Help(w, flags) <=> j - 1 < Len(w) /\ w[(j - 1) + 1] = Flag(104)
    BY <1>3 DEF Help, Flag
  <2>3. 104 \in Char \ {NUL} /\ (j - 1) + 1 = j /\ (j - 1 < Len(w) <=> j <= Len(w))
        /\ (j <= Len(w) => j \in 1 .. Len(w))
    BY <1>1, <1>4 DEF NUL, Char
  <2>4. j <= Len(w) => (Is(m, args[j], Flag(104)) <=> w[j] = Flag(104))
    BY <1>5, <2>3
  <2> QED BY <2>1, <2>2, <2>3, <2>4
<1>7. ASSUME NEW f \in Char \ {NUL}
      PROVE  Flagged(m, args, j, f) <=> Among(w, j, f)
  <2>1. \A i \in 2 .. (j - 1) : i \in 1 .. Len(w)
    BY <1>1, <1>4
  <2>2. \A i \in 2 .. (j - 1) : Is(m, args[i], Flag(f)) <=> w[i] = Flag(f)
    BY <1>5, <2>1
  <2> QED BY <2>2 DEF Flagged, Flag, Among
<1> QED BY <1>2, <1>3, <1>6, <1>7 DEF j

\* Rows are joined one behind the other, beginning with nothing.
JoinsUp(r, rows) ==
  /\ r[0] = << >> /\ FlattenSeq(rows) = r[Len(rows)]
  /\ \A k \in 1 .. Len(rows) : r[k] = r[k - 1] \o rows[k]

\* Flattening a row of rows is joining them so.
LEMMA FlatJoins ==
  ASSUME NEW S, NEW rows \in Seq(Seq(S))
  PROVE  FlattenSeq(rows) \in Seq(S) /\ \E r : JoinsUp(r, rows)
<1> DEFINE n == Len(rows)
<1>1. n \in Nat /\ (rows # << >> => n # 0) /\ \A k \in 1 .. n : rows[k] \in Seq(S)
  BY EmptySeq, ElementOfSeq, LenProperties
<1>2. FlattenSeq(rows) \in Seq(S) /\ FlattenSeq(<< >>) = << >>
  <2>1. << >> \in Seq(S)
    BY EmptySeq
  <2> QED BY <2>1, FlatFirst
<1>3. CASE rows = << >>
  <2> DEFINE r == [k \in 0 .. 0 |-> << >>]
  <2>1. n = 0 /\ r[0] = << >>
    BY <1>3, EmptySeq
  <2> HIDE DEF r
  <2>2. JoinsUp(r, rows)
    BY <1>2, <1>3, <2>1 DEF JoinsUp
  <2> QED BY <1>2, <2>2
<1>4. CASE rows # << >>
  <2>1. PICK f : /\ f \in [1 .. n -> Seq(S)] /\ f[1] = rows[1]
                 /\ \A i \in 2 .. n : f[i] = f[i - 1] \o rows[i]
                 /\ FlattenSeq(rows) = f[n]
    BY <1>4, FlatRuns
  <2> DEFINE r == [k \in 0 .. n |-> IF k = 0 THEN << >> ELSE f[k]]
  <2> HIDE DEF n
  <2>2. r[0] = << >> /\ \A k \in 1 .. n : r[k] = f[k]
    BY <1>1
  <2> HIDE DEF r
  <2>3. ASSUME NEW k \in 1 .. n
        PROVE  r[k] = r[k - 1] \o rows[k]
    <3>1. CASE k = 1
      <4>1. rows[1] \in Seq(S) /\ r[k] = rows[1] /\ r[k - 1] = << >>
        BY <1>1, <2>1, <2>2, <3>1
      <4>2. << >> \o rows[1] = rows[1]
        BY <4>1, ConcatEmptySeq
      <4> QED BY <3>1, <4>1, <4>2
    <3>2. CASE k # 1
      <4>1. k \in 2 .. n /\ k - 1 \in 1 .. n
        BY <1>1, <3>2
      <4> QED BY <2>1, <2>2, <4>1
    <3> QED BY <3>1, <3>2
  <2>4. n \in 1 .. n
    BY <1>1, <1>4
  <2>5. FlattenSeq(rows) = r[n]
    BY <2>1, <2>2, <2>4
  <2>6. JoinsUp(r, rows)
    BY <2>2, <2>3, <2>5 DEF JoinsUp, n
  <2> QED BY <1>2, <2>6
<1> QED BY <1>3, <1>4

\* What echo writes of a word.
EchoRow(x) == <<<<"string", x>>, Say("space")>>
Echoed == {<<"string", x>> : x \in Seq(Char)} \cup {Say("space")}
EchoRows(w, j) == [k \in 1 .. (Len(w) + 1 - j) |-> EchoRow(w[j + k - 1])]

\* The rows echo writes are rows of its tokens.
LEMMA EchoRowsAre ==
  ASSUME NEW w \in Seq(Seq(Char)), NEW j \in 2 .. (Len(w) + 1)
  PROVE  /\ EchoRows(w, j) \in Seq(Seq(Echoed)) /\ Len(EchoRows(w, j)) = Len(w) + 1 - j
         /\ \A k \in 1 .. (Len(w) + 1 - j) : EchoRows(w, j)[k] = EchoRow(w[j + k - 1])
<1> DEFINE n == Len(w) + 1 - j
<1>1. Len(w) \in Nat /\ n \in Nat
  BY LenProperties
<1>2. ASSUME NEW k \in 1 .. n
      PROVE  EchoRow(w[j + k - 1]) \in Seq(Echoed)
  <2>1. j + k - 1 \in 1 .. Len(w)
    BY <1>1
  <2>2. w[j + k - 1] \in Seq(Char)
    BY <2>1, ElementOfSeq
  <2> DEFINE x == w[j + k - 1]
             a == <<"string", x>>
             b == Say("space")
  <2>3. a \in Echoed /\ b \in Echoed
    BY <2>2 DEF Echoed
  <2> HIDE DEF a, b
  <2>4. <<a, b>> \in Seq(Echoed)
    BY <2>3
  <2> QED BY <2>4 DEF EchoRow, a, b
<1> DEFINE rows == EchoRows(w, j)
<1>3. rows = [k \in 1 .. n |-> EchoRow(w[j + k - 1])]
  BY DEF EchoRows
<1> HIDE DEF n, rows
<1>4. rows \in Seq(Seq(Echoed)) /\ Len(rows) = n /\ \A k \in 1 .. n : rows[k] = EchoRow(w[j + k - 1])
  BY <1>1, <1>2, <1>3
<1> QED BY <1>4 DEF n, rows

\* Its loop.
EchoLoop(m, args, j) ==
  Loop(Len(args) + 1 - j, << >>, LAMBDA out, k : out \o <<writestring(m, args[j + k]), Say("space")>>)

\* The loop writes the words behind the options, in their order.
LEMMA EchoLoopIs ==
  ASSUME NEW m, NEW args, NEW w, Handed(m, args, w), NEW j \in 2 .. (Len(w) + 1)
  PROVE  EchoLoop(m, args, j) = FlattenSeq(EchoRows(w, j))
<1> DEFINE n == Len(w) + 1 - j
           step(v, k) == v \o <<writestring(m, args[j + k]), Say("space")>>
           run == CHOOSE run : run = [k \in 0 .. n |-> IF k = 0 THEN << >> ELSE step(run[k - 1], k - 1)]
<1>1. w \in Seq(Seq(Char)) /\ Len(args) = Len(w) /\ Len(w) \in Nat /\ n \in Nat
  BY LenProperties DEF Handed
<1>2. EchoLoop(m, args, j) = run[n]
  BY <1>1 DEF EchoLoop, Loop
<1>3. /\ EchoRows(w, j) \in Seq(Seq(Echoed)) /\ Len(EchoRows(w, j)) = n
      /\ \A k \in 1 .. n : EchoRows(w, j)[k] = EchoRow(w[j + k - 1])
  BY <1>1, EchoRowsAre
<1>4. PICK r : JoinsUp(r, EchoRows(w, j))
  BY <1>3, FlatJoins
<1>5. r[0] = << >> /\ FlattenSeq(EchoRows(w, j)) = r[n]
      /\ \A k \in 1 .. n : r[k] = r[k - 1] \o EchoRow(w[j + k - 1])
  BY <1>3, <1>4 DEF JoinsUp
<1>6. \A k \in 1 .. n : r[k] = step(r[k - 1], k - 1)
  <2> SUFFICES ASSUME NEW k \in 1 .. n
               PROVE  r[k] = step(r[k - 1], k - 1)
    OBVIOUS
  <2> DEFINE i == j + k - 1
  <2>1. i \in 1 .. Len(w) /\ j + (k - 1) = i
    BY <1>1
  <2> HIDE DEF i
  <2>2. writestring(m, args[i]) = <<"string", w[i]>>
    BY <2>1, WordIsText
  <2>3. EchoRow(w[i]) = <<writestring(m, args[j + (k - 1)]), Say("space")>>
    BY <2>1, <2>2 DEF EchoRow
  <2> QED BY <1>5, <2>3 DEF i
<1> HIDE DEF step, n
<1> DEFINE f == [k \in 0 .. n |-> r[k]]
<1>7. f = [k \in 0 .. n |-> IF k = 0 THEN << >> ELSE step(f[k - 1], k - 1)]
  <2>1. \A k \in 1 .. n : k - 1 \in 0 .. n
    BY <1>1
  <2>2. ASSUME NEW k \in 0 .. n
        PROVE  f[k] = IF k = 0 THEN << >> ELSE step(f[k - 1], k - 1)
    <3>1. k = 0 \/ k \in 1 .. n
      BY <1>1
    <3>2. CASE k = 0
      BY <1>5, <3>2
    <3>3. CASE k \in 1 .. n
      <4>1. f[k] = r[k] /\ f[k - 1] = r[k - 1] /\ k # 0
        BY <2>1, <3>3
      <4> HIDE DEF f
      <4> QED BY <1>6, <3>3, <4>1
    <3> QED BY <3>1, <3>2, <3>3
  <2>3. f = [k \in 0 .. n |-> f[k]]
    OBVIOUS
  <2> HIDE DEF f
  <2> QED BY <2>2, <2>3
<1>8. run = [k \in 0 .. n |-> IF k = 0 THEN << >> ELSE step(run[k - 1], k - 1)]
  <2> HIDE DEF f
  <2> QED BY <1>7
<1>9. f[0] = << >> /\ f[n] = r[n]
  BY <1>1, <1>5
<1> HIDE DEF f, run
<1>10. f[0] = run[0]
  BY <1>1, <1>8, <1>9
<1>11. ASSUME NEW k \in 1 .. n, f[k - 1] = run[k - 1]
       PROVE  f[k] = run[k]
  <2>1. k \in 0 .. n /\ k # 0
    BY <1>1
  <2>2. f[k] = step(f[k - 1], k - 1) /\ run[k] = step(run[k - 1], k - 1)
    BY <1>7, <1>8, <2>1
  <2> QED BY <1>11, <2>2
<1>12. f[n] = run[n]
  BY <1>1, <1>10, <1>11, SameRun
<1> QED BY <1>2, <1>5, <1>9, <1>12

\* An answer is a row.
IsRow(out) == \E S : out \in Seq(S)

\* echo writes the words behind its options, and a new line unless -n is one.
LEMMA echoAnswers ==
  ASSUME NEW m, NEW args, NEW w, Handed(m, args, w), w # << >>, NEW out \in echo(m, args)
  PROVE  EchoAnswer(w, out) /\ IsRow(out)
<1> DEFINE flags == {110}
           j == FirstBehind(m, args, flags)
           n == LastOption(w, flags)
           said == SubSeq(w, n + 1, Len(w))
           rows == EchoRows(w, j)
           end == IF n = 1 THEN <<NewLine>> ELSE << >>
<1>0. flags \subseteq Char \ {NUL} /\ 110 \in Char \ {NUL} /\ flags = {110}
  BY DEF NUL, Char
<1>1. w \in Seq(Seq(Char)) /\ Len(w) \in Nat
  BY LenProperties DEF Handed
<1> HIDE DEF flags
<1>2. /\ OptionsTo(w, flags, j) /\ n = j - 1
      /\ AsksHelp(m, args, j) <=> Help(w, flags)
      /\ \A f \in Char \ {NUL} : Flagged(m, args, j, f) <=> Among(w, j, f)
  BY <1>0, OptionsRead
<1>3. /\ j \in 2 .. (Len(w) + 1)
      /\ \A i \in 2 .. (j - 1) : \E f \in flags : w[i] = Flag(f)
  BY <1>2 DEF OptionsTo
<1>4. out = IF AsksHelp(m, args, j) THEN <<Say("echo help")>>
            ELSE EchoLoop(m, args, j) \o (IF Flagged(m, args, j, 110) THEN << >> ELSE <<NewLine>>)
  BY DEF echo, EchoLoop, flags
<1> HIDE DEF j, n
<1>5. Flagged(m, args, j, 110) <=> ~(n = 1)
  <2>1. Flagged(m, args, j, 110) <=> \E i \in 2 .. (j - 1) : w[i] = Flag(110)
    BY <1>0, <1>2 DEF Among
  <2>2. \A i \in 2 .. (j - 1) : w[i] = Flag(110)
    BY <1>0, <1>3
  <2>3. (\E i \in 2 .. (j - 1) : w[i] = Flag(110)) <=> 2 <= j - 1
    <3>1. 2 <= j - 1 => 2 \in 2 .. (j - 1)
      BY <1>3
    <3>2. \A i \in 2 .. (j - 1) : 2 <= j - 1
      BY <1>3
    <3> QED BY <2>2, <3>1, <3>2
  <2> QED BY <1>2, <1>3, <2>1, <2>3
<1>6. EchoLoop(m, args, j) = FlattenSeq(rows) /\ FlattenSeq(rows) \in Seq(Echoed)
  BY <1>1, <1>3, EchoLoopIs, EchoRowsAre, FlatJoins
<1>7. out = IF Help(w, flags) THEN <<Say("echo help")>> ELSE FlattenSeq(rows) \o end
  BY <1>2, <1>4, <1>5, <1>6
<1>8. [k \in DOMAIN said |-> <<<<"string", said[k]>>, Say("space")>>] = rows
  <2>1. n + 1 = j /\ j \in Int /\ Len(w) \in Int
    BY <1>1, <1>2, <1>3
  <2>2. \A i \in j .. Len(w) : w[i] \in Seq(Char)
    <3>1. \A i \in j .. Len(w) : i \in 1 .. Len(w)
      BY <1>1, <1>3
    <3> QED BY <1>1, <3>1, ElementOfSeq
  <2> DEFINE s == SubSeq(w, j, Len(w))
  <2>3. /\ s \in Seq(Seq(Char)) /\ Len(s) = IF j <= Len(w) THEN Len(w) - j + 1 ELSE 0
        /\ \A i \in 1 .. (Len(w) - j + 1) : s[i] = w[j + i - 1]
    BY <2>1, <2>2, SubSeqProperties
  <2> HIDE DEF s
  <2>4. Len(w) - j + 1 = Len(w) + 1 - j /\ Len(s) = Len(w) + 1 - j
    <3> DEFINE l == Len(w)
               a == Len(s)
    <3>1. a = (IF j <= l THEN l - j + 1 ELSE 0) /\ l \in Nat /\ j \in 2 .. (l + 1)
      BY <1>1, <1>3, <2>3
    <3> HIDE DEF l, a
    <3>2. l - j + 1 = l + 1 - j /\ a = l + 1 - j
      BY <3>1
    <3> QED BY <3>2 DEF l, a
  <2>5. DOMAIN s = 1 .. (Len(w) + 1 - j)
    BY <2>3, <2>4, LenProperties
  <2>6. \A k \in 1 .. (Len(w) + 1 - j) : s[k] = w[j + k - 1]
    BY <2>3, <2>4
  <2>7. [k \in DOMAIN s |-> <<<<"string", s[k]>>, Say("space")>>] = rows
    BY <2>5, <2>6 DEF EchoRows, EchoRow
  <2>8. said = s
    BY <2>1 DEF s
  <2> HIDE DEF said
  <2> QED BY <2>7, <2>8
<1>9. [k \in 1 .. (IF n = 1 THEN 1 ELSE 0) |-> NewLine] = end
  <2>1. CASE n = 1
    <3>1. [k \in 1 .. 1 |-> NewLine] = <<NewLine>>
      OBVIOUS
    <3> QED BY <2>1, <3>1
  <2>2. CASE n # 1
    <3>1. [k \in 1 .. 0 |-> NewLine] = << >>
      OBVIOUS
    <3> QED BY <2>2, <3>1
  <2> QED BY <2>1, <2>2
<1>10. EchoAnswer(w, out)
  <2>1. EchoAnswer(w, out) <=>
          IF Help(w, flags) THEN out = <<Say("echo help")>>
          ELSE out = FlattenSeq([k \in DOMAIN said |-> <<<<"string", said[k]>>, Say("space")>>])
                     \o [k \in 1 .. (IF n = 1 THEN 1 ELSE 0) |-> NewLine]
    BY DEF EchoAnswer, n, flags
  <2> HIDE DEF said, rows, end
  <2> QED BY <1>7, <1>8, <1>9, <2>1
<1>11. IsRow(out)
  <2>1. CASE Help(w, flags)
    <3>1. <<Say("echo help")>> \in Seq({Say("echo help")})
      OBVIOUS
    <3> QED BY <1>7, <2>1, <3>1 DEF IsRow
  <2>2. CASE ~Help(w, flags)
    <3> DEFINE S == Echoed \cup {NewLine}
               said1 == FlattenSeq(rows)
    <3>1. Echoed \subseteq S /\ NewLine \in S
      OBVIOUS
    <3> HIDE DEF S
    <3>2. said1 \in Seq(S)
      <4> HIDE DEF said1
      <4>1. said1 \in Seq(Echoed)
        BY <1>6 DEF said1
      <4> QED BY <3>1, <4>1
    <3>3. end \in Seq(S)
      BY <3>1
    <3> HIDE DEF said1, end, rows
    <3>4. said1 \o end \in Seq(S)
      BY <3>2, <3>3, ConcatProperties
    <3>5. out = said1 \o end
      BY <1>7, <2>2 DEF said1
    <3> QED BY <3>4, <3>5 DEF IsRow
  <2> QED BY <2>1, <2>2
<1> QED BY <1>10, <1>11

-----------------------------------------------------------------------------
\* What uptime writes.

\* What is left of a division.
LEMMA DivIs ==
  ASSUME NEW a \in Nat, NEW b \in Nat \ {0}
  PROVE  /\ a \div b \in Nat /\ a % b \in 0 .. (b - 1) /\ a = b * (a \div b) + (a % b)
         /\ a \div b <= a
<1> DEFINE q == a \div b
           r == a % b
<1>1. q \in Int /\ r \in 0 .. (b - 1) /\ a = b * q + r
  OBVIOUS
<1> HIDE DEF q, r
<1>2. q >= 0
  <2> SUFFICES ASSUME q <= -1
               PROVE  FALSE
    BY <1>1
  <2>1. b * q <= -b
    BY <1>1
  <2> QED BY <1>1, <2>1
<1>3. b * q >= q
  BY <1>1, <1>2
<1> QED BY <1>1, <1>2, <1>3 DEF q, r

\* A quotient is below a bound exactly when the dividend is below its multiple.
LEMMA DivLess ==
  ASSUME NEW a \in Nat, NEW b \in Nat \ {0}, NEW c \in Nat
  PROVE  a \div b < c <=> a < b * c
<1> DEFINE q == a \div b
           r == a % b
<1>1. q \in Nat /\ r \in 0 .. (b - 1) /\ a = b * q + r
  BY DivIs
<1> HIDE DEF q, r
<1>2. ASSUME q < c
      PROVE  a < b * c
  <2>1. q + 1 <= c /\ b * (q + 1) = b * q + b
    BY <1>1, <1>2
  <2>2. b * (q + 1) <= b * c
    BY <1>1, <2>1
  <2> QED BY <1>1, <2>1, <2>2
<1>3. ASSUME ~(q < c)
      PROVE  ~(a < b * c)
  <2>1. b * c <= b * q /\ b * c \in Int /\ b * q \in Int
    BY <1>1, <1>3
  <2> QED BY <1>1, <2>1
<1> QED BY <1>2, <1>3 DEF q

\* Hours, minutes and seconds, as uptime takes them from the ticks.
Total == ticks \div TicksPerSecond
Minutes == Total \div Sixty

\* They fit in an int, stay below sixty and add up to the time.
LEMMA TimeIs ==
  ASSUME ticks \in 0 .. (Words - 1)
  PROVE  /\ {Total, Minutes \div Sixty, Minutes % Sixty, Total % Sixty} \subseteq 0 .. (Half - 1)
         /\ Minutes % Sixty < Sixty /\ Total % Sixty < Sixty
         /\ Total = Sixty * (Sixty * (Minutes \div Sixty) + (Minutes % Sixty)) + (Total % Sixty)
         /\ Minutes \div Sixty = 0 <=> ticks < TicksPerSecond * Sixty * Sixty
<1> DEFINE T == TicksPerSecond
           S == Sixty
           t == ticks
           h == Minutes \div S
           m == Minutes % S
           s == Total % S
           a == Total
           b == Minutes
<1>1. T \in Nat \ {0} /\ T > 1 /\ S \in Nat \ {0} /\ Half \in Nat /\ Words = 2 * Half /\ t \in Nat /\ t < Words
  BY WordIs, CommandConstants DEF CommandConstants
<1>2. a \in Nat /\ t % T \in 0 .. (T - 1) /\ t = T * a + (t % T)
  BY <1>1, DivIs DEF Total
<1>3. b \in Nat /\ s \in 0 .. (S - 1) /\ a = S * b + s /\ b <= a
  BY <1>1, <1>2, DivIs DEF Minutes
<1>4. h \in Nat /\ m \in 0 .. (S - 1) /\ b = S * h + m /\ h <= b
  BY <1>1, <1>3, DivIs
<1>5. h < 1 <=> t < T * S * S
  <2>1. h < 1 <=> b < S * 1
    BY <1>1, <1>3, DivLess
  <2>2. b < S <=> a < S * S
    BY <1>1, <1>2, DivLess DEF Minutes
  <2>3. S * S \in Nat
    BY <1>1
  <2> DEFINE c == S * S
  <2>4. a < c <=> t < T * c
    <3> HIDE DEF c
    <3>1. c \in Nat
      BY <2>3 DEF c
    <3> QED BY <1>1, <3>1, DivLess DEF Total
  <2>5. T * c = T * S * S /\ S * 1 = S
    BY <1>1
  <2> HIDE DEF h, a, b
  <2> QED BY <2>1, <2>2, <2>4, <2>5
<1> HIDE DEF a, b, h, m, s
<1>6. a < Half
  <2> DEFINE r == t % T
  <2>1. r \in 0 .. (T - 1) /\ t = T * a + r
    BY <1>2
  <2> HIDE DEF r
  <2>2. T * a >= 2 * a
    BY <1>1, <1>2
  <2>3. 2 * a <= t
    BY <1>1, <1>2, <2>1, <2>2
  <2> QED BY <1>1, <1>2, <2>3
<1>7. S * b >= 0 /\ S * h >= 0
  BY <1>1, <1>3, <1>4
<1>8. s <= a /\ m <= b
  <2> DEFINE x == S * b
             y == S * h
  <2>1. x >= 0 /\ y >= 0 /\ x \in Int /\ y \in Int /\ a = x + s /\ b = y + m
    BY <1>1, <1>3, <1>4, <1>7
  <2> HIDE DEF x, y
  <2> QED BY <1>2, <1>3, <1>4, <2>1
<1>9. {a, h, m, s} \subseteq 0 .. (Half - 1)
  BY <1>1, <1>2, <1>3, <1>4, <1>6, <1>8
<1>10. a = S * (S * h + m) + s /\ m < S /\ s < S /\ (h = 0 <=> h < 1)
  BY <1>1, <1>3, <1>4
<1> QED BY <1>5, <1>9, <1>10 DEF a, b, h, m, s

\* Parts of a time add up from the left.
InSeconds(parts) ==
  LET inSeconds[k \in 0 .. Len(parts)] == IF k = 0 THEN 0 ELSE Sixty * inSeconds[k - 1] + parts[k]
  IN  inSeconds[Len(parts)]

\* The sum is reached from part to part.
LEMMA InSecondsRuns ==
  ASSUME NEW p \in Seq(Nat)
  PROVE  \E r : /\ r[0] = 0 /\ InSeconds(p) = r[Len(p)]
                /\ \A k \in 1 .. Len(p) : r[k] = Sixty * r[k - 1] + p[k]
<1> DEFINE n == Len(p)
           E(k, x) == Sixty * x + p[k]
           F == [k \in 1 .. n |-> [x \in Int |-> E(k, x)]]
           run == CHOOSE run : run = [k \in 0 .. n |-> IF k = 0 THEN 0 ELSE E(k, run[k - 1])]
<1>1. n \in Nat /\ \A k \in 1 .. n : p[k] \in Nat
  BY LenProperties, ElementOfSeq
<1>2. InSeconds(p) = run[n]
  BY DEF InSeconds
<1> HIDE DEF n
<1>3. F \in [1 .. n -> [Int -> Int]]
  <2>1. ASSUME NEW k \in 1 .. n, NEW x \in Int
        PROVE  E(k, x) \in Int
    <3>1. p[k] \in Nat /\ Sixty \in Int
      BY <1>1, CommandConstants DEF CommandConstants
    <3> QED BY <3>1
  <2> HIDE DEF E
  <2> QED BY <2>1
<1>4. ASSUME NEW k \in 1 .. n, NEW x \in Int
      PROVE  F[k][x] = E(k, x)
  <2> HIDE DEF E
  <2> QED OBVIOUS
<1> HIDE DEF F
<1>0. n \in Nat /\ 0 \in Int
  BY <1>1
<1>5. PICK v : Follows(v, Int, 0, n, F)
  BY <1>0, <1>3, RunExists
<1>6. v \in [0 .. n -> Int] /\ v[0] = 0 /\ \A k \in 1 .. n : v[k] = E(k, v[k - 1])
  <2>1. v \in [0 .. n -> Int] /\ v[0] = 0 /\ \A k \in 1 .. n : v[k] = F[k][v[k - 1]]
    BY <1>5 DEF Follows
  <2>2. \A k \in 1 .. n : v[k - 1] \in Int
    <3>1. \A k \in 1 .. n : k - 1 \in 0 .. n
      BY <1>1
    <3> QED BY <2>1, <3>1
  <2> HIDE DEF E
  <2> QED BY <1>4, <2>1, <2>2
<1> HIDE DEF E
<1>7. v = [k \in 0 .. n |-> IF k = 0 THEN 0 ELSE E(k, v[k - 1])]
  <2>1. ASSUME NEW k \in 0 .. n
        PROVE  v[k] = IF k = 0 THEN 0 ELSE E(k, v[k - 1])
    <3> HIDE DEF run
    <3>1. k = 0 \/ k \in 1 .. n
      BY <1>0
    <3>2. CASE k = 0
      BY <1>6, <3>2
    <3>3. CASE k \in 1 .. n
      <4>1. k # 0
        BY <3>3
      <4> QED BY <1>6, <3>3, <4>1
    <3> QED BY <3>1, <3>2, <3>3
  <2>2. v = [k \in 0 .. n |-> v[k]]
    BY <1>6
  <2> QED BY <2>1, <2>2
<1>8. run = [k \in 0 .. n |-> IF k = 0 THEN 0 ELSE E(k, run[k - 1])]
  BY <1>7
<1> HIDE DEF run
<1>9. v[0] = run[0]
  BY <1>1, <1>6, <1>8
<1>10. ASSUME NEW k \in 1 .. n, v[k - 1] = run[k - 1]
       PROVE  v[k] = run[k]
  <2>1. k \in 0 .. n /\ k # 0
    BY <1>1
  <2>2. run[k] = E(k, run[k - 1]) /\ v[k] = E(k, v[k - 1])
    BY <1>6, <1>8, <2>1
  <2> QED BY <1>10, <2>2
<1>11. v[n] = run[n]
  BY <1>1, <1>9, <1>10, SameRun
<1> QED BY <1>2, <1>6, <1>11 DEF E, n

\* Hours, minutes and seconds, or what is left of them, in a row.
Parts(out) == [k \in 1 .. (Len(out) \div 2) |-> Decimal(out[2 * k - 1][2])]

\* What two parts add up to.
LEMMA TwoParts ==
  ASSUME NEW m \in Nat, NEW s \in Nat
  PROVE  LET p == <<m, s>>
         IN  Len(p) = 2 /\ DOMAIN p = 1 .. 2 /\ p[1] = m /\ p[2] = s /\ InSeconds(p) = Sixty * m + s
<1> DEFINE p == <<m, s>>
<1>1. p \in Seq(Nat) /\ Len(p) = 2 /\ DOMAIN p = 1 .. 2 /\ p[1] = m /\ p[2] = s
  OBVIOUS
<1> HIDE DEF p
<1>2. PICK r : /\ r[0] = 0 /\ InSeconds(p) = r[Len(p)]
               /\ \A k \in 1 .. Len(p) : r[k] = Sixty * r[k - 1] + p[k]
  BY <1>1, InSecondsRuns
<1>3. 1 \in 1 .. 2 /\ 2 \in 1 .. 2 /\ 1 - 1 = 0 /\ 2 - 1 = 1 /\ Sixty \in Nat
  BY CommandConstants DEF CommandConstants
<1>4. r[1] = Sixty * r[0] + p[1] /\ r[2] = Sixty * r[1] + p[2]
  BY <1>1, <1>2, <1>3
<1>5. r[1] = m
  BY <1>1, <1>2, <1>3, <1>4
<1>6. InSeconds(p) = r[2]
  BY <1>1, <1>2
<1> QED BY <1>1, <1>4, <1>5, <1>6 DEF p

\* What three parts add up to.
LEMMA ThreeParts ==
  ASSUME NEW h \in Nat, NEW m \in Nat, NEW s \in Nat
  PROVE  LET p == <<h, m, s>>
         IN  /\ Len(p) = 3 /\ DOMAIN p = 1 .. 3 /\ p[1] = h /\ p[2] = m /\ p[3] = s
             /\ InSeconds(p) = Sixty * (Sixty * h + m) + s
<1> DEFINE p == <<h, m, s>>
<1>1. p \in Seq(Nat) /\ Len(p) = 3 /\ DOMAIN p = 1 .. 3 /\ p[1] = h /\ p[2] = m /\ p[3] = s
  OBVIOUS
<1> HIDE DEF p
<1>2. PICK r : /\ r[0] = 0 /\ InSeconds(p) = r[Len(p)]
               /\ \A k \in 1 .. Len(p) : r[k] = Sixty * r[k - 1] + p[k]
  BY <1>1, InSecondsRuns
<1>3. 1 \in 1 .. 3 /\ 2 \in 1 .. 3 /\ 3 \in 1 .. 3 /\ 1 - 1 = 0 /\ 2 - 1 = 1 /\ 3 - 1 = 2 /\ Sixty \in Nat
  BY CommandConstants DEF CommandConstants
<1>4. r[1] = Sixty * r[0] + p[1] /\ r[2] = Sixty * r[1] + p[2] /\ r[3] = Sixty * r[2] + p[3]
  BY <1>1, <1>2, <1>3
<1>5. r[1] = h
  BY <1>1, <1>2, <1>3, <1>4
<1>6. r[2] = Sixty * h + m
  BY <1>1, <1>4, <1>5
<1>7. InSeconds(p) = r[3]
  BY <1>1, <1>2
<1> QED BY <1>1, <1>4, <1>6, <1>7 DEF p

\* A number with its unit.
Piece(t, unit) == <<<<"number", t>>, <<"unit", unit>>>>

\* print_unit writes the numeral of an int that is not negative, then its unit.
LEMMA print_unitIs ==
  ASSUME NEW val \in 0 .. (Half - 1), NEW unit, NEW out \in print_unit(val, unit)
  PROVE  \E t : IsNumeral(t, val) /\ Decimal(t) = val /\ out = Piece(t, unit)
<1>1. Half \in Nat /\ val \in Int /\ val \in -Half .. (Half - 1) /\ val \in Nat
  BY WordIs
<1>2. ToInt(val) = val
  BY <1>1, ToIntIs
<1>3. PICK t \in itoa(val) : out = Piece(t, unit)
  BY <1>2 DEF print_unit, Piece
<1>4. PICK v : Spelt(t, val, v)
  BY <1>3, itoaSpelt DEF IsSpelt
<1>5. IsNumeral(t, val)
  BY <1>1, <1>4, NumeralIs
<1> QED BY <1>3, <1>5 DEF IsNumeral

\* Two pieces, and three, side by side.
LEMMA PairsJoined ==
  ASSUME NEW a, NEW b, NEW c, NEW d
  PROVE  <<a, b>> \o <<c, d>> = <<a, b, c, d>>
<1> DEFINE S == {a, b, c, d}
           x == <<a, b>>
           y == <<c, d>>
           z == <<a, b, c, d>>
<1>1. /\ x \in Seq(S) /\ Len(x) = 2 /\ x[1] = a /\ x[2] = b
      /\ y \in Seq(S) /\ Len(y) = 2 /\ y[1] = c /\ y[2] = d
      /\ z \in Seq(S) /\ Len(z) = 4 /\ z[1] = a /\ z[2] = b /\ z[3] = c /\ z[4] = d
  OBVIOUS
<1> HIDE DEF x, y, z, S
<1>2. /\ x \o y \in Seq(S) /\ Len(x \o y) = Len(x) + Len(y)
      /\ \A i \in 1 .. (Len(x) + Len(y)) : (x \o y)[i] = IF i <= Len(x) THEN x[i] ELSE y[i - Len(x)]
  BY <1>1, ConcatProperties
<1>3. \A i \in 1 .. 4 : (x \o y)[i] = z[i]
  <2>1. \A i \in 1 .. 4 : i = 1 \/ i = 2 \/ i = 3 \/ i = 4
    OBVIOUS
  <2> QED BY <1>1, <1>2, <2>1
<1>4. x \o y = z
  <2>1. Len(x \o y) = Len(z) /\ Len(z) = 4
    BY <1>1, <1>2
  <2> QED BY <1>1, <1>2, <1>3, <2>1, SeqEqual
<1> QED BY <1>4 DEF x, y, z

\* A pair in front of four.
LEMMA TriplesJoined ==
  ASSUME NEW a, NEW b, NEW c, NEW d, NEW e, NEW f
  PROVE  <<a, b>> \o <<c, d, e, f>> = <<a, b, c, d, e, f>>
<1> DEFINE S == {a, b, c, d, e, f}
           x == <<a, b>>
           y == <<c, d, e, f>>
           z == <<a, b, c, d, e, f>>
<1>1. /\ x \in Seq(S) /\ Len(x) = 2 /\ x[1] = a /\ x[2] = b
      /\ y \in Seq(S) /\ Len(y) = 4 /\ y[1] = c /\ y[2] = d /\ y[3] = e /\ y[4] = f
      /\ z \in Seq(S) /\ Len(z) = 6 /\ z[1] = a /\ z[2] = b /\ z[3] = c /\ z[4] = d /\ z[5] = e /\ z[6] = f
  OBVIOUS
<1> HIDE DEF x, y, z, S
<1>2. /\ x \o y \in Seq(S) /\ Len(x \o y) = Len(x) + Len(y)
      /\ \A i \in 1 .. (Len(x) + Len(y)) : (x \o y)[i] = IF i <= Len(x) THEN x[i] ELSE y[i - Len(x)]
  BY <1>1, ConcatProperties
<1>3. \A i \in 1 .. 6 : (x \o y)[i] = z[i]
  <2>1. \A i \in 1 .. 6 : i = 1 \/ i = 2 \/ i = 3 \/ i = 4 \/ i = 5 \/ i = 6
    OBVIOUS
  <2> QED BY <1>1, <1>2, <2>1
<1>4. x \o y = z
  <2>1. Len(x \o y) = Len(z) /\ Len(z) = 6
    BY <1>1, <1>2
  <2> QED BY <1>1, <1>2, <1>3, <2>1, SeqEqual
<1> QED BY <1>4 DEF x, y, z

\* The numbers in two pieces, and in three.
LEMMA TwoPieces ==
  ASSUME NEW a, NEW b, NEW u, NEW v, NEW out, out = Piece(a, u) \o Piece(b, v)
  PROVE  Parts(out) = <<Decimal(a), Decimal(b)>> /\ IsRow(out)
<1> DEFINE o == <<<<"number", a>>, <<"unit", u>>, <<"number", b>>, <<"unit", v>>>>
<1>1. out = o
  BY PairsJoined DEF Piece
<1>2. /\ Len(o) = 4 /\ o[1][2] = a /\ o[3][2] = b
      /\ o \in Seq({<<"number", a>>, <<"unit", u>>, <<"number", b>>, <<"unit", v>>})
  OBVIOUS
<1> HIDE DEF o
<1>3. 4 \div 2 = 2 /\ 2 * 1 - 1 = 1 /\ 2 * 2 - 1 = 3
  OBVIOUS
<1>4. Parts(o) = [k \in 1 .. 2 |-> Decimal(o[2 * k - 1][2])]
  BY <1>2, <1>3 DEF Parts
<1>5. [k \in 1 .. 2 |-> Decimal(o[2 * k - 1][2])] = <<Decimal(a), Decimal(b)>>
  <2> DEFINE p == [k \in 1 .. 2 |-> Decimal(o[2 * k - 1][2])]
  <2>1. p[1] = Decimal(a) /\ p[2] = Decimal(b)
    BY <1>2, <1>3
  <2>2. p = [k \in 1 .. 2 |-> p[k]]
    OBVIOUS
  <2> HIDE DEF p
  <2>3. p = <<p[1], p[2]>>
    <3>1. \A k \in 1 .. 2 : k = 1 \/ k = 2
      OBVIOUS
    <3> QED BY <2>2, <3>1
  <2> QED BY <2>1, <2>3 DEF p
<1> QED BY <1>1, <1>2, <1>4, <1>5 DEF IsRow

\* The numbers in three pieces.
LEMMA ThreePieces ==
  ASSUME NEW a, NEW b, NEW c, NEW u, NEW v, NEW x, NEW out,
         out = Piece(a, u) \o (Piece(b, v) \o Piece(c, x))
  PROVE  Parts(out) = <<Decimal(a), Decimal(b), Decimal(c)>> /\ IsRow(out)
<1> DEFINE o == <<<<"number", a>>, <<"unit", u>>, <<"number", b>>, <<"unit", v>>, <<"number", c>>, <<"unit", x>>>>
<1>1. out = o
  <2>1. Piece(b, v) \o Piece(c, x) = <<<<"number", b>>, <<"unit", v>>, <<"number", c>>, <<"unit", x>>>>
    BY PairsJoined DEF Piece
  <2> DEFINE p == <<"number", a>>
             q == <<"unit", u>>
             r == <<"number", b>>
             s == <<"unit", v>>
             t == <<"number", c>>
             w == <<"unit", x>>
  <2>2. out = <<p, q>> \o <<r, s, t, w>>
    BY <2>1 DEF Piece
  <2> HIDE DEF p, q, r, s, t, w
  <2>3. <<p, q>> \o <<r, s, t, w>> = <<p, q, r, s, t, w>>
    BY TriplesJoined
  <2> QED BY <2>2, <2>3 DEF p, q, r, s, t, w
<1>2. /\ Len(o) = 6 /\ o[1][2] = a /\ o[3][2] = b /\ o[5][2] = c
      /\ o \in Seq({<<"number", a>>, <<"unit", u>>, <<"number", b>>, <<"unit", v>>, <<"number", c>>, <<"unit", x>>})
  OBVIOUS
<1> HIDE DEF o
<1>3. 6 \div 2 = 3 /\ 2 * 1 - 1 = 1 /\ 2 * 2 - 1 = 3 /\ 2 * 3 - 1 = 5
  OBVIOUS
<1>4. Parts(o) = [k \in 1 .. 3 |-> Decimal(o[2 * k - 1][2])]
  BY <1>2, <1>3 DEF Parts
<1>5. [k \in 1 .. 3 |-> Decimal(o[2 * k - 1][2])] = <<Decimal(a), Decimal(b), Decimal(c)>>
  <2> DEFINE p == [k \in 1 .. 3 |-> Decimal(o[2 * k - 1][2])]
  <2>1. p[1] = Decimal(a) /\ p[2] = Decimal(b) /\ p[3] = Decimal(c)
    BY <1>2, <1>3
  <2>2. p = [k \in 1 .. 3 |-> p[k]]
    OBVIOUS
  <2> HIDE DEF p
  <2>3. p = <<p[1], p[2], p[3]>>
    <3>1. \A k \in 1 .. 3 : k = 1 \/ k = 2 \/ k = 3
      OBVIOUS
    <3> QED BY <2>2, <3>1
  <2> QED BY <2>1, <2>3 DEF p
<1> QED BY <1>1, <1>2, <1>4, <1>5 DEF IsRow

\* Hours, minutes and seconds that add up to the time.
TimeTold(out, parts) ==
  LET p == Parts(out)
  IN  /\ InSeconds(p) = Total /\ (\A k \in DOMAIN p : k > Len(p) - 2 => p[k] < Sixty)
      /\ Len(p) = parts /\ IsRow(out)

\* The pieces of hours, minutes and seconds tell the time.
LEMMA ThreeTold ==
  ASSUME ticks \in 0 .. (Words - 1), NEW u, NEW v, NEW x,
         NEW f \in print_unit(Minutes \div Sixty, u), NEW g \in print_unit(Minutes % Sixty, v),
         NEW i \in print_unit(Total % Sixty, x), NEW out, out = f \o (g \o i)
  PROVE  TimeTold(out, 3)
<1> DEFINE h == Minutes \div Sixty
           m == Minutes % Sixty
           s == Total % Sixty
<1>1. /\ h \in 0 .. (Half - 1) /\ m \in 0 .. (Half - 1) /\ s \in 0 .. (Half - 1) /\ m < Sixty /\ s < Sixty
      /\ Total = Sixty * (Sixty * h + m) + s
  BY TimeIs
<1>2. PICK a : Decimal(a) = h /\ f = Piece(a, u)
  BY <1>1, print_unitIs
<1>3. PICK b : Decimal(b) = m /\ g = Piece(b, v)
  BY <1>1, print_unitIs
<1>4. PICK c : Decimal(c) = s /\ i = Piece(c, x)
  BY <1>1, print_unitIs
<1> HIDE DEF h, m, s
<1>5. out = Piece(a, u) \o (Piece(b, v) \o Piece(c, x))
  BY <1>2, <1>3, <1>4
<1>6. Parts(out) = <<Decimal(a), Decimal(b), Decimal(c)>> /\ IsRow(out)
  BY <1>5, ThreePieces
<1>7. Parts(out) = <<h, m, s>>
  BY <1>2, <1>3, <1>4, <1>6
<1>8. h \in Nat /\ m \in Nat /\ s \in Nat
  BY <1>1
<1> DEFINE p == <<h, m, s>>
<1>9. /\ Len(p) = 3 /\ DOMAIN p = 1 .. 3 /\ p[1] = h /\ p[2] = m /\ p[3] = s
      /\ InSeconds(p) = Sixty * (Sixty * h + m) + s
  BY <1>8, ThreeParts
<1> HIDE DEF p
<1>10. \A k \in 1 .. 3 : k > 3 - 2 => p[k] < Sixty
  <2>1. \A k \in 1 .. 3 : k > 3 - 2 => k = 2 \/ k = 3
    OBVIOUS
  <2> QED BY <1>1, <1>9, <2>1
<1>11. Parts(out) = p
  BY <1>7 DEF p
<1> QED BY <1>1, <1>6, <1>9, <1>10, <1>11 DEF TimeTold

\* While no hour is full, those of minutes and seconds do.
LEMMA TwoTold ==
  ASSUME ticks \in 0 .. (Words - 1), Minutes \div Sixty = 0, NEW v, NEW x,
         NEW g \in print_unit(Minutes % Sixty, v),
         NEW i \in print_unit(Total % Sixty, x), NEW out, out = g \o i
  PROVE  TimeTold(out, 2)
<1> DEFINE m == Minutes % Sixty
           s == Total % Sixty
<1>1. /\ m \in 0 .. (Half - 1) /\ s \in 0 .. (Half - 1) /\ m < Sixty /\ s < Sixty
      /\ Total = Sixty * (Sixty * 0 + m) + s
  BY TimeIs
<1>2. PICK b : Decimal(b) = m /\ g = Piece(b, v)
  BY <1>1, print_unitIs
<1>3. PICK c : Decimal(c) = s /\ i = Piece(c, x)
  BY <1>1, print_unitIs
<1> HIDE DEF m, s
<1>4. out = Piece(b, v) \o Piece(c, x)
  BY <1>2, <1>3
<1>5. Parts(out) = <<Decimal(b), Decimal(c)>> /\ IsRow(out)
  BY <1>4, TwoPieces
<1>6. Parts(out) = <<m, s>>
  BY <1>2, <1>3, <1>5
<1>7. m \in Nat /\ s \in Nat
  BY <1>1
<1> DEFINE p == <<m, s>>
<1>8. Len(p) = 2 /\ DOMAIN p = 1 .. 2 /\ p[1] = m /\ p[2] = s /\ InSeconds(p) = Sixty * m + s
  BY <1>7, TwoParts
<1> HIDE DEF p
<1>9. \A k \in 1 .. 2 : p[k] < Sixty
  <2>1. \A k \in 1 .. 2 : k = 1 \/ k = 2
    OBVIOUS
  <2> QED BY <1>1, <1>8, <2>1
<1>10. Sixty * 0 = 0 /\ Sixty * (0 + m) = Sixty * m
  <2>1. Sixty \in Nat
    BY CommandConstants DEF CommandConstants
  <2> QED BY <1>7, <2>1
<1>11. Parts(out) = p
  BY <1>6 DEF p
<1> QED BY <1>1, <1>5, <1>8, <1>9, <1>10, <1>11 DEF TimeTold

\* The two forms of the whole time.
Pretty ==
  Then(IF Minutes \div Sixty # 0
       THEN print_unit(Minutes \div Sixty, Several(Minutes \div Sixty, "hour", "hours")) ELSE {<< >>},
       Then(print_unit(Minutes % Sixty, Several(Minutes % Sixty, "minute", "minutes")),
            print_unit(Total % Sixty, Several(Total % Sixty, "second", "seconds"))))
Plain ==
  Then(print_unit(Minutes \div Sixty, "h"),
       Then(print_unit(Minutes % Sixty, "m"), print_unit(Total % Sixty, "s")))

\* What one output and then another make is their concatenation.
LEMMA ThenIs ==
  ASSUME NEW A, NEW B, NEW out \in Then(A, B)
  PROVE  \E f \in A : \E g \in B : out = f \o g
BY SMT DEF Then

InThree(A, B, C, out) == \E f \in A : \E g \in B : \E i \in C : out = f \o (g \o i)

\* So it is with three.
LEMMA ThreeThen ==
  ASSUME NEW A, NEW B, NEW C, NEW out \in Then(A, Then(B, C))
  PROVE  InThree(A, B, C, out)
<1>1. PICK f \in A : \E y \in Then(B, C) : out = f \o y
  BY ThenIs
<1>2. PICK y \in Then(B, C) : out = f \o y
  BY <1>1
<1>3. PICK g \in B : \E i \in C : y = g \o i
  BY ThenIs
<1>4. PICK i \in C : y = g \o i
  BY <1>3
<1> QED BY <1>2, <1>4 DEF InThree

\* uptime without an option tells the time in three parts.
LEMMA PlainTold ==
  ASSUME ticks \in 0 .. (Words - 1), NEW out \in Plain
  PROVE  TimeTold(out, 3)
<1>1. PICK f \in print_unit(Minutes \div Sixty, "h"), g \in print_unit(Minutes % Sixty, "m"),
           i \in print_unit(Total % Sixty, "s") : out = f \o (g \o i)
  <2> DEFINE a == print_unit(Minutes \div Sixty, "h")
             b == print_unit(Minutes % Sixty, "m")
             c == print_unit(Total % Sixty, "s")
  <2>1. out \in Then(a, Then(b, c))
    BY DEF Plain
  <2> HIDE DEF a, b, c
  <2>2. InThree(a, b, c, out)
    BY <2>1, ThreeThen
  <2>3. PICK f \in a : \E g \in b : \E i \in c : out = f \o (g \o i)
    BY <2>2 DEF InThree
  <2>4. PICK g \in b : \E i \in c : out = f \o (g \o i)
    BY <2>3
  <2>5. PICK i \in c : out = f \o (g \o i)
    BY <2>4
  <2> QED BY <2>5 DEF a, b, c
<1> QED BY <1>1, ThreeTold

\* uptime -p leaves the hours out while there are none.
LEMMA PrettyTold ==
  ASSUME ticks \in 0 .. (Words - 1), NEW out \in Pretty
  PROVE  TimeTold(out, IF ticks < TicksPerSecond * Sixty * Sixty THEN 2 ELSE 3)
<1> DEFINE h == Minutes \div Sixty
           a == IF h # 0 THEN print_unit(h, Several(h, "hour", "hours")) ELSE {<< >>}
           b == print_unit(Minutes % Sixty, Several(Minutes % Sixty, "minute", "minutes"))
           c == print_unit(Total % Sixty, Several(Total % Sixty, "second", "seconds"))
<1>1. h = 0 <=> ticks < TicksPerSecond * Sixty * Sixty
  BY TimeIs
<1>0. out \in Then(a, Then(b, c))
  BY DEF Pretty
<1>2. PICK f \in a, g \in b, i \in c : out = f \o (g \o i)
  <2> HIDE DEF a, b, c
  <2>0. InThree(a, b, c, out)
    BY <1>0, ThreeThen
  <2>1. PICK f \in a : \E g \in b : \E i \in c : out = f \o (g \o i)
    BY <2>0 DEF InThree
  <2>2. PICK g \in b : \E i \in c : out = f \o (g \o i)
    BY <2>1
  <2>3. PICK i \in c : out = f \o (g \o i)
    BY <2>2
  <2> QED BY <2>3
<1>3. CASE h # 0
  <2>1. f \in print_unit(h, Several(h, "hour", "hours"))
    BY <1>2, <1>3
  <2> DEFINE v == Several(Minutes % Sixty, "minute", "minutes")
             x == Several(Total % Sixty, "second", "seconds")
             u == Several(h, "hour", "hours")
  <2>2. f \in print_unit(h, u) /\ g \in print_unit(Minutes % Sixty, v) /\ i \in print_unit(Total % Sixty, x)
    BY <2>1
  <2> HIDE DEF u, v, x
  <2>3. TimeTold(out, 3)
    BY <1>2, <2>2, ThreeTold
  <2> QED BY <1>1, <1>3, <2>3
<1>4. CASE h = 0
  <2>1. f = << >>
    BY <1>2, <1>4
  <2> DEFINE v == Several(Minutes % Sixty, "minute", "minutes")
             x == Several(Total % Sixty, "second", "seconds")
             rest == g \o i
  <2>2. g \in print_unit(Minutes % Sixty, v) /\ i \in print_unit(Total % Sixty, x)
    OBVIOUS
  <2> HIDE DEF v, x
  <2>3. TimeTold(rest, 2)
    BY <1>4, <2>2, TwoTold
  <2>4. out = << >> \o rest
    BY <1>2, <2>1
  <2> HIDE DEF rest
  <2>5. PICK S : rest \in Seq(S)
    BY <2>3 DEF TimeTold, IsRow
  <2>6. out = rest
    BY <2>4, <2>5, ConcatEmptySeq
  <2> QED BY <1>1, <1>4, <2>3, <2>6
<1> QED BY <1>3, <1>4

\* A number printed of a word is that word up to the largest int.
LEMMA UnitIs ==
  ASSUME NEW val \in 0 .. (Words - 1), NEW unit, NEW out \in print_unit(val, unit)
  PROVE  (Number(out[1], val) <=> val < Half) /\ IsRow(out)
<1>1. PICK t \in itoa(ToInt(val)) : out = Piece(t, unit)
  BY DEF print_unit, Piece
<1>2. IsNumeral(t, val) <=> val < Half
  <2> DEFINE o == Piece(t, "unit")
  <2>1. o \in print_unit(val, "unit") /\ o[1][2] = t
    BY DEF print_unit, Piece
  <2> HIDE DEF o
  <2>2. DecimalAgrees(val)
    BY DecimalHolds
  <2>3. IsNumeral(o[1][2], val) <=> val < Half
    BY <2>1, <2>2 DEF DecimalAgrees
  <2> QED BY <2>1, <2>3
<1>3. out[1][1] = "number" /\ out[1][2] = t
  BY <1>1 DEF Piece
<1>4. out \in Seq({<<"number", t>>, <<"unit", unit>>})
  BY <1>1 DEF Piece
<1> QED BY <1>2, <1>3, <1>4 DEF Number, IsRow

\* The options asked for, as uptime's answer names them.
Asked(w, flags) == {w[k][2] : k \in Options(w, flags)}

\* They are those that stand before the end of the options.
LEMMA AskedAre ==
  ASSUME NEW w, NEW flags, flags \subseteq Char \ {NUL}, NEW j, OptionsTo(w, flags, j),
         Options(w, flags) = 2 .. (j - 1), NEW f \in flags
  PROVE  f \in Asked(w, flags) <=> Among(w, j, f)
<1>1. \A i \in 2 .. (j - 1) : \E g \in flags : w[i] = Flag(g)
  BY DEF OptionsTo
<1>2. \A g \in flags : Flag(g)[2] = g
  BY FlagIs
<1>3. \A i \in 2 .. (j - 1) : w[i] = Flag(f) <=> w[i][2] = f
  <2> SUFFICES ASSUME NEW i \in 2 .. (j - 1)
               PROVE  w[i] = Flag(f) <=> w[i][2] = f
    OBVIOUS
  <2>1. PICK g \in flags : w[i] = Flag(g)
    BY <1>1
  <2> QED BY <1>2, <2>1
<1> QED BY <1>3 DEF Asked, Among

\* What a command knows of its options once it is at its argument j.
OptionsKnown(m, args, w, flags, j) ==
  /\ OptionsTo(w, flags, j) /\ Options(w, flags) = 2 .. (j - 1)
  /\ AsksHelp(m, args, j) <=> Help(w, flags)
  /\ \A f \in flags : Flagged(m, args, j, f) <=> f \in Asked(w, flags)

\* It knows this at the first argument behind them.
LEMMA OptionsGiven ==
  ASSUME NEW m, NEW args, NEW w, Handed(m, args, w), w # << >>, NEW flags, flags \subseteq Char \ {NUL}
  PROVE  OptionsKnown(m, args, w, flags, FirstBehind(m, args, flags))
<1> DEFINE j == FirstBehind(m, args, flags)
<1>1. /\ OptionsTo(w, flags, j) /\ Options(w, flags) = 2 .. (j - 1)
      /\ AsksHelp(m, args, j) <=> Help(w, flags)
      /\ \A f \in Char \ {NUL} : Flagged(m, args, j, f) <=> Among(w, j, f)
  BY OptionsRead
<1> HIDE DEF j
<1>2. ASSUME NEW f \in flags
      PROVE  Flagged(m, args, j, f) <=> f \in Asked(w, flags)
  <2>1. f \in Asked(w, flags) <=> Among(w, j, f)
    BY <1>1, AskedAre
  <2>2. f \in Char \ {NUL}
    OBVIOUS
  <2> QED BY <1>1, <2>1, <2>2
<1> QED BY <1>1, <1>2 DEF OptionsKnown, j

\* What uptime writes for the time it is.
LEMMA uptimeAnswers ==
  ASSUME NEW m, NEW args, NEW w, Handed(m, args, w), w # << >>, ticks \in 0 .. (Words - 1),
         NEW out \in uptime(m, args)
  PROVE  UptimeAnswer(w, out) /\ IsRow(out)
<1> DEFINE flags == {114, 115, 112}
           j == FirstBehind(m, args, flags)
           asked == Asked(w, flags)
           helps == Help(w, flags)
           raw == print_unit(ticks, "ms")
           inSeconds == print_unit(Total, "s")
           says == {<<Say("uptime help")>>}
           Shows(h, r, s, p) ==
             /\ h => out \in says
             /\ ~h /\ r => out \in raw
             /\ ~h /\ ~r /\ s => out \in inSeconds
             /\ ~h /\ ~r /\ ~s /\ p => out \in Pretty
             /\ ~h /\ ~r /\ ~s /\ ~p => out \in Plain
<1>0. flags \subseteq Char \ {NUL} /\ 114 \in flags /\ 115 \in flags /\ 112 \in flags
  BY DEF NUL, Char
<1>1. Shows(AsksHelp(m, args, j), Flagged(m, args, j, 114), Flagged(m, args, j, 115), Flagged(m, args, j, 112))
  <2>1. out \in IF AsksHelp(m, args, j) THEN says
                ELSE IF Flagged(m, args, j, 114) THEN raw
                ELSE IF Flagged(m, args, j, 115) THEN inSeconds
                ELSE IF Flagged(m, args, j, 112) THEN Pretty
                ELSE Plain
    BY DEF uptime, Total, Minutes, Pretty, Plain
  <2> HIDE DEF j, says, raw, inSeconds
  <2> QED BY <2>1
<1> HIDE DEF says, raw, inSeconds
<1>2. UptimeAnswer(w, out) <=>
        IF helps THEN out = <<Say("uptime help")>>
        ELSE IF 114 \in asked THEN Number(out[1], ticks) <=> ticks < Half
        ELSE IF 115 \in asked THEN Number(out[1], Total)
        ELSE /\ InSeconds(Parts(out)) = Total
             /\ \A k \in DOMAIN Parts(out) : k > Len(Parts(out)) - 2 => Parts(out)[k] < Sixty
             /\ Len(Parts(out)) = (IF 112 \in asked /\ ticks < TicksPerSecond * Sixty * Sixty THEN 2 ELSE 3)
  BY DEF UptimeAnswer, InSeconds, Parts, Total, Asked
<1> HIDE DEF flags
<1>3. OptionsKnown(m, args, w, flags, j)
  BY <1>0, OptionsGiven
<1> HIDE DEF j
<1>4. /\ AsksHelp(m, args, j) <=> helps
      /\ Flagged(m, args, j, 114) <=> 114 \in asked
      /\ Flagged(m, args, j, 115) <=> 115 \in asked
      /\ Flagged(m, args, j, 112) <=> 112 \in asked
  BY <1>0, <1>3 DEF OptionsKnown
<1> HIDE DEF asked, helps
<1>5. Shows(helps, 114 \in asked, 115 \in asked, 112 \in asked)
  BY <1>1, <1>4
<1>6. CASE helps
  <2>1. out \in {<<Say("uptime help")>>}
    BY <1>5, <1>6 DEF says
  <2>2. out = <<Say("uptime help")>>
    BY <2>1
  <2>3. <<Say("uptime help")>> \in Seq({Say("uptime help")})
    OBVIOUS
  <2> QED BY <1>2, <1>6, <2>2, <2>3 DEF IsRow
<1>7. CASE ~helps /\ 114 \in asked
  <2>1. out \in print_unit(ticks, "ms")
    BY <1>5, <1>7 DEF raw
  <2>2. (Number(out[1], ticks) <=> ticks < Half) /\ IsRow(out)
    BY <2>1, UnitIs
  <2> QED BY <1>2, <1>7, <2>2
<1>8. CASE ~helps /\ 114 \notin asked /\ 115 \in asked
  <2>1. out \in print_unit(Total, "s")
    BY <1>5, <1>8 DEF inSeconds
  <2>2. Total \in 0 .. (Words - 1) /\ Total < Half
    <3>1. Total \in 0 .. (Half - 1)
      BY TimeIs
    <3> QED BY <3>1, WordIs
  <2>3. Number(out[1], Total) /\ IsRow(out)
    BY <2>1, <2>2, UnitIs
  <2> QED BY <1>2, <1>8, <2>3
<1>9. CASE ~helps /\ 114 \notin asked /\ 115 \notin asked /\ 112 \in asked
  <2> DEFINE parts == IF ticks < TicksPerSecond * Sixty * Sixty THEN 2 ELSE 3
  <2>1. out \in Pretty
    BY <1>5, <1>9
  <2>2. TimeTold(out, parts)
    BY <2>1, PrettyTold
  <2> QED BY <1>2, <1>9, <2>2 DEF TimeTold
<1>10. CASE ~helps /\ 114 \notin asked /\ 115 \notin asked /\ 112 \notin asked
  <2>1. out \in Plain
    BY <1>5, <1>10
  <2>2. TimeTold(out, 3)
    BY <2>1, PlainTold
  <2> QED BY <1>2, <1>10, <2>2 DEF TimeTold
<1> QED BY <1>6, <1>7, <1>8, <1>9, <1>10

-----------------------------------------------------------------------------
\* What a line is answered.

\* Rows of nothing, of one and of two, and two rows side by side.
LEMMA RowsAre ==
  /\ IsRow(<< >>) /\ (\A x : IsRow(<<x>>)) /\ (\A x, y : IsRow(<<x, y>>))
<1>1. << >> \in Seq({})
  OBVIOUS
<1>2. ASSUME NEW x
      PROVE  <<x>> \in Seq({x})
  OBVIOUS
<1>3. ASSUME NEW x, NEW y
      PROVE  <<x, y>> \in Seq({x, y})
  OBVIOUS
<1> QED BY <1>1, <1>2, <1>3 DEF IsRow

\* So is a row with a row behind it.
LEMMA RowsJoin ==
  ASSUME NEW a, NEW b, IsRow(a), IsRow(b)
  PROVE  IsRow(a \o b)
<1>1. PICK S : a \in Seq(S)
  BY DEF IsRow
<1>2. PICK T : b \in Seq(T)
  BY DEF IsRow
<1>3. a \in Seq(S \cup T) /\ b \in Seq(S \cup T)
  BY <1>1, <1>2
<1>4. a \o b \in Seq(S \cup T)
  BY <1>3, ConcatProperties
<1> QED BY <1>4 DEF IsRow

\* What an access to memory writes is a row.
LEMMA AccessRow ==
  ASSUME NEW addr, NEW out, IsRow(out), NEW q \in Access(addr, out)
  PROVE  IsRow(q.out)
<1> DEFINE fault == <<Say("page fault")>>
<1>1. IsRow(fault)
  BY RowsAre
<1>2. q.out = out \/ q.out = fault \/ q.out = fault \o out
  <2> DEFINE page == addr \div PageSize
             later == Done(fault \o out)
  <2>1. q \in {Done(out)} \/ q = Stop(fault) \/ q = [later EXCEPT !.pages = @ \cup {page}]
    BY DEF Access
  <2>2. Done(out).out = out /\ Stop(fault).out = fault
    BY DEF Done, Stop
  <2>3. [later EXCEPT !.pages = @ \cup {page}].out = fault \o out
    BY DEF Done
  <2> QED BY <2>1, <2>2, <2>3
<1> HIDE DEF fault
<1>3. IsRow(fault \o out)
  BY <1>1, RowsJoin
<1> QED BY <1>1, <1>2, <1>3

\* Every command answers with a row.
LEMMA CommandRow ==
  ASSUME NEW m, NEW args, NEW w, Handed(m, args, w), w # << >>, ticks \in 0 .. (Words - 1),
         NEW c \in DOMAIN Spelling, NEW r \in Command(c, m, args)
  PROVE  IsRow(r.out)
<1>0. /\ IsRow(<< >>) /\ (\A x : IsRow(<<x>>)) /\ (\A x, y : IsRow(<<x, y>>))
  BY RowsAre
<1>1. ASSUME NEW outs, NEW n, r \in Answered(n, outs)
      PROVE  r.out \in outs
  BY <1>1, AnsweredIs
<1>2. ASSUME NEW runs, NEW n, r \in Ran(n, runs)
      PROVE  \E q \in runs : r.out = q.out
  BY <1>2, RanIs
<1>3. CASE c \in {"help", "fetch", "clear", "mmap"}
  <2>1. CASE c = "help"
    <3>1. r \in Answered(m, {<<Say("help")>>})
      BY <2>1 DEF Command, help
    <3>2. r.out \in {<<Say("help")>>}
      BY <1>1, <3>1
    <3> QED BY <1>0, <3>2
  <2>2. CASE c = "fetch"
    <3>1. r \in Answered(m, {<<Say("fetch")>>})
      BY <2>2 DEF Command, fetch
    <3>2. r.out \in {<<Say("fetch")>>}
      BY <1>1, <3>1
    <3> QED BY <1>0, <3>2
  <2>3. CASE c \in {"clear", "mmap"}
    <3>1. r \in Answered(m, {<<Say(c)>>})
      BY <2>3 DEF Command
    <3>2. r.out \in {<<Say(c)>>}
      BY <1>1, <3>1
    <3> QED BY <1>0, <3>2
  <2> QED BY <1>3, <2>1, <2>2, <2>3
<1>4. CASE c \in {"crash", "reboot", "exit"}
  <2>1. r \in Ran(m, crash) \/ r \in Ran(m, reboot) \/ r \in Ran(m, poweroff)
    BY <1>4 DEF Command
  <2>2. PICK q \in crash \cup reboot \cup poweroff : r.out = q.out
    BY <1>2, <2>1
  <2>3. PICK o \in {<< >>, <<Say("rebooting")>>, <<Say("powering off")>>} : q = Stop(o)
    BY DEF crash, reboot, poweroff
  <2>4. q.out = o
    BY <2>3 DEF Stop
  <2> QED BY <1>0, <2>2, <2>3, <2>4
<1>5. CASE c = "echo"
  <2>1. r \in Answered(m, echo(m, args))
    BY <1>5 DEF Command
  <2>2. r.out \in echo(m, args)
    BY <1>1, <2>1
  <2> QED BY <2>2, echoAnswers
<1>6. CASE c = "uptime"
  <2>1. r \in Answered(m, uptime(m, args))
    BY <1>6 DEF Command
  <2>2. r.out \in uptime(m, args)
    BY <1>1, <2>1
  <2> QED BY <2>2, uptimeAnswers
<1>7. CASE c = "memdump"
  <2>1. r \in Answered(m, memdump(m, args))
    BY <1>7 DEF Command
  <2>2. r.out \in memdump(m, args)
    BY <1>1, <2>1
  <2>3. \E x : r.out = <<x>>
    BY <2>2 DEF memdump
  <2> QED BY <1>0, <2>3
<1>8. CASE c = "memtest"
  <2>1. r \in Answered(m, memtest)
    BY <1>8 DEF Command
  <2>2. r.out \in memtest
    BY <1>1, <2>1
  <2>3. PICK b \in HeapBlocks : \E o \in print_unit(b, "addr") : r.out = <<Say("alloc"), Say("reuse")>> \o o
    BY <2>2 DEF memtest
  <2>4. PICK o \in print_unit(b, "addr") : r.out = <<Say("alloc"), Say("reuse")>> \o o
    BY <2>3
  <2>5. b \in 0 .. (Words - 1)
    BY CommandConstants DEF CommandConstants
  <2>6. IsRow(o) /\ IsRow(<<Say("alloc"), Say("reuse")>>)
    BY <1>0, <2>5, UnitIs
  <2> DEFINE two == <<Say("alloc"), Say("reuse")>>
  <2> HIDE DEF two
  <2>7. IsRow(two \o o)
    BY <2>6, RowsJoin DEF two
  <2> QED BY <2>4, <2>7 DEF two
<1>9. CASE c = "mia"
  <2> DEFINE none == << >>
             nl == <<NewLine>>
  <2>1. r \in Ran(m, mia)
    BY <1>9 DEF Command
  <2>2. PICK q \in mia : r.out = q.out
    BY <1>2, <2>1
  <2>3. PICK x \in Access(BadAddress, none) : q = [x EXCEPT !.out = nl \o @]
    BY <2>2 DEF mia
  <2>4. IsRow(none) /\ IsRow(nl)
    BY <1>0
  <2> HIDE DEF none, nl
  <2>5. IsRow(nl \o x.out)
    BY <2>4, AccessRow, RowsJoin
  <2>6. q.out = nl \o x.out
    BY <2>3 DEF Access, Done, Stop
  <2> QED BY <2>2, <2>5, <2>6
<1>10. CASE c = "peek"
  <2> DEFINE a == htoi(m, args[2])
             o == <<<<"peek", a>>>>
  <2>1. r \in Ran(m, peek(m, args))
    BY <1>10 DEF Command
  <2>2. PICK q \in peek(m, args) : r.out = q.out
    BY <1>2, <2>1
  <2>3. q.out = <<Say("peek usage")>> \/ q \in Access(a, o)
    <3>1. CASE q = Done(<<Say("peek usage")>>)
      BY <3>1 DEF Done
    <3> QED BY <2>2, <3>1 DEF peek
  <2>4. IsRow(o)
    BY <1>0
  <2> HIDE DEF a, o
  <2> QED BY <1>0, <2>2, <2>3, <2>4, AccessRow
<1>11. CASE c = "poke"
  <2> DEFINE a == htoi(m, args[2])
             v == htoi(m, args[3]) % Bytes
             o == <<<<"poke", terminal_print_hex(v), terminal_print_hex(a)>>>>
  <2>1. r \in Ran(m, poke(m, args))
    BY <1>11 DEF Command
  <2>2. PICK q \in poke(m, args) : r.out = q.out
    BY <1>2, <2>1
  <2>3. q.out = <<Say("poke usage")>> \/ q \in Access(a, o)
    <3>1. CASE q = Done(<<Say("poke usage")>>)
      BY <3>1 DEF Done
    <3> QED BY <2>2, <3>1 DEF poke
  <2>4. IsRow(o)
    BY <1>0
  <2> HIDE DEF a, o
  <2> QED BY <1>0, <2>2, <2>3, <2>4, AccessRow
<1>12. CASE c = "setprompt"
  <2>1. r \in Answered(setprompt(m, args), {IF Len(args) < 2 THEN <<Say("setprompt usage")>> ELSE << >>})
    BY <1>12 DEF Command
  <2>2. r.out \in {IF Len(args) < 2 THEN <<Say("setprompt usage")>> ELSE << >>}
    BY <1>1, <2>1
  <2>3. r.out = << >> \/ \E x : r.out = <<x>>
    BY <2>2
  <2> QED BY <1>0, <2>3
<1>13. c \in {"echo", "exit", "uptime", "memdump", "memtest", "mia", "mmap", "peek", "poke",
              "setprompt", "help", "fetch", "clear", "crash", "reboot"}
  BY CommandConstants DEF CommandConstants
<1> QED BY <1>3, <1>4, <1>5, <1>6, <1>7, <1>8, <1>9, <1>10, <1>11, <1>12, <1>13

\* A line is answered by what its words ask for, in a row.
LEMMA LineAnswered ==
  ASSUME NEW m, NEW args, NEW w, Handed(m, args, w), ticks \in 0 .. (Words - 1),
         NEW r \in Results(m, args), Left(r)
  PROVE  Answer(w, r.out) /\ IsRow(r.out)
<1>0. /\ \A c, d \in DOMAIN Spelling : Spelling[c] = Spelling[d] => c = d
      /\ "echo" \in DOMAIN Spelling /\ "uptime" \in DOMAIN Spelling
      /\ \A x : x \in Range(Spelling) <=> \E c \in DOMAIN Spelling : x = Spelling[c]
  <2>1. \A x : x \in Range(Spelling) <=> \E c \in DOMAIN Spelling : x = Spelling[c]
    BY DEF Range
  <2> QED BY <2>1, CommandConstants DEF CommandConstants
<1>1. /\ w = << >> => Results(m, args) = Answered(m, {<< >>})
      /\ w # << >> =>
           /\ w[1] \notin Range(Spelling) =>
                Results(m, args) = Answered(m, {<<Say("not found"), <<"string", w[1]>>, NewLine>>})
           /\ \A c \in DOMAIN Spelling : w[1] = Spelling[c] => Results(m, args) = Command(c, m, args)
  BY Dispatched
<1>2. CASE w = << >>
  <2>1. r.out = << >>
    BY <1>1, <1>2, AnsweredIs
  <2> QED BY <1>2, <2>1, RowsAre DEF Answer
<1>3. CASE w # << >> /\ w[1] \notin Range(Spelling)
  <2> DEFINE o == <<Say("not found"), <<"string", w[1]>>, NewLine>>
  <2>1. r.out = o
    <3>1. r \in Answered(m, {o})
      BY <1>1, <1>3
    <3> HIDE DEF o
    <3> QED BY <3>1, AnsweredIs
  <2>2. o \in Seq({Say("not found"), <<"string", w[1]>>, NewLine})
    OBVIOUS
  <2> HIDE DEF o
  <2>3. IsRow(o)
    BY <2>2 DEF IsRow
  <2>4. w[1] # Spelling["echo"] /\ w[1] # Spelling["uptime"]
    BY <1>0, <1>3
  <2>5. Answer(w, o)
    BY <1>3, <2>4 DEF Answer, o
  <2> QED BY <2>1, <2>3, <2>5
<1>4. CASE w # << >> /\ w[1] \in Range(Spelling)
  <2>1. PICK c \in DOMAIN Spelling : w[1] = Spelling[c]
    BY <1>0, <1>4
  <2>2. r \in Command(c, m, args)
    BY <1>1, <1>4, <2>1
  <2>3. IsRow(r.out)
    BY <1>4, <2>2, CommandRow
  <2>4. CASE c = "echo"
    <3>0. r \in Answered(m, echo(m, args))
      BY <2>2, <2>4 DEF Command
    <3>1. r.out \in echo(m, args)
      BY <3>0, AnsweredIs
    <3>2. EchoAnswer(w, r.out)
      BY <1>4, <3>1, echoAnswers
    <3>3. w[1] = Spelling["echo"] /\ w[1] # Spelling["uptime"]
      BY <1>0, <2>1, <2>4
    <3> QED BY <1>4, <2>3, <3>2, <3>3 DEF Answer
  <2>5. CASE c = "uptime"
    <3>0. r \in Answered(m, uptime(m, args))
      BY <2>2, <2>5 DEF Command
    <3>1. r.out \in uptime(m, args)
      BY <3>0, AnsweredIs
    <3>2. UptimeAnswer(w, r.out)
      BY <1>4, <3>1, uptimeAnswers
    <3>3. w[1] # Spelling["echo"] /\ w[1] = Spelling["uptime"]
      BY <1>0, <2>1, <2>5
    <3> QED BY <1>4, <2>3, <3>2, <3>3 DEF Answer
  <2>6. CASE c # "echo" /\ c # "uptime"
    <3>1. ArgumentsAnswer(w, r.out)
      BY <2>1, <2>2, ArgumentsAnswered
    <3>2. w[1] # Spelling["echo"] /\ w[1] # Spelling["uptime"]
      BY <1>0, <2>1, <2>6
    <3> QED BY <1>4, <2>3, <3>1, <3>2 DEF Answer
  <2> QED BY <2>4, <2>5, <2>6
<1> QED BY <1>2, <1>3, <1>4

\* A row is what it is where it stands behind one element.
LEMMA BehindOne ==
  ASSUME NEW U, NEW show \in Seq(U), NEW out \in Seq(U), 1 + Len(out) <= Len(show),
         \A i \in 1 .. Len(out) : show[i + 1] = out[i]
  PROVE  SubSeq(show, 2, 1 + Len(out)) = out
<1> DEFINE a == Len(out)
           k == 1 + a
           s == SubSeq(show, 2, k)
<1>1. a \in Nat /\ k \in Int /\ Len(show) \in Nat
  BY LenProperties
<1>2. \A i \in 2 .. k : show[i] \in U
  BY <1>1, ElementOfSeq
<1>3. s \in Seq(U) /\ Len(s) = a
  BY <1>1, <1>2, SubSeqProperties
<1>4. ASSUME NEW i \in 1 .. a
      PROVE  s[i] = out[i]
  <2>1. i \in 1 .. (k - 2 + 1) /\ 2 + i - 1 = i + 1
    BY <1>1
  <2>2. s[i] = show[2 + i - 1]
    BY <1>1, <1>2, <2>1, SubSeqProperties
  <2> QED BY <2>1, <2>2
<1> HIDE DEF s
<1>5. s = out
  BY <1>3, <1>4, SeqEqual
<1> QED BY <1>5 DEF s

\* An answer up to position k, from the second on, and what follows it.
StandsTo(show, k, out, p) ==
  /\ k \in 1 .. Len(show) /\ k \in Nat /\ Len(p) \in Nat /\ Len(show) = k + Len(p)
  /\ SubSeq(show, 2, k) = out /\ \A j \in 1 .. Len(p) : show[k + j] = p[j]

\* So they stand behind a new line.
LEMMA RowCut ==
  ASSUME NEW x, NEW out, NEW p, IsRow(out), IsRow(p), NEW show, show = (<<x>> \o out) \o p
  PROVE  StandsTo(show, 1 + Len(out), out, p)
<1> DEFINE a == Len(out)
           b == Len(p)
           k == 1 + a
           one == <<x>>
           first == one \o out
<1>1. PICK S : out \in Seq(S)
  BY DEF IsRow
<1>2. PICK T : p \in Seq(T)
  BY DEF IsRow
<1> DEFINE U == S \cup T \cup {x}
<1>3. /\ one \in Seq(U) /\ out \in Seq(U) /\ p \in Seq(U) /\ Len(one) = 1 /\ one[1] = x
      /\ a \in Nat /\ b \in Nat
  BY <1>1, <1>2, LenProperties
<1> HIDE DEF one, U
<1>4. /\ first \in Seq(U) /\ Len(first) = Len(one) + Len(out)
      /\ \A i \in 1 .. (Len(one) + Len(out)) : first[i] = IF i <= Len(one) THEN one[i] ELSE out[i - Len(one)]
  BY <1>3, ConcatProperties
<1>5. /\ first \in Seq(U) /\ Len(first) = k
      /\ \A i \in 1 .. k : first[i] = IF i <= 1 THEN one[i] ELSE out[i - 1]
  BY <1>3, <1>4
<1> HIDE DEF first
<1>6. /\ first \o p \in Seq(U) /\ Len(first \o p) = Len(first) + Len(p)
      /\ \A i \in 1 .. (Len(first) + Len(p)) : (first \o p)[i] = IF i <= Len(first) THEN first[i] ELSE p[i - Len(first)]
  BY <1>3, <1>5, ConcatProperties
<1>7. show = first \o p
  BY DEF first, one
<1>8. /\ show \in Seq(U) /\ Len(show) = k + b
      /\ \A i \in 1 .. (k + b) : show[i] = IF i <= k THEN first[i] ELSE p[i - k]
  BY <1>5, <1>6, <1>7
<1> HIDE DEF a, b
<1>9. ASSUME NEW j \in 1 .. b
      PROVE  show[k + j] = p[j]
  <2>1. k + j \in 1 .. (k + b) /\ ~(k + j <= k) /\ (k + j) - k = j
    BY <1>3
  <2> QED BY <1>8, <2>1
<1>10. ASSUME NEW i \in 1 .. a
       PROVE  show[i + 1] = out[i]
  <2>1. i + 1 \in 1 .. (k + b) /\ i + 1 <= k /\ i + 1 \in 1 .. k /\ ~(i + 1 <= 1) /\ (i + 1) - 1 = i
    BY <1>3
  <2>2. show[i + 1] = first[i + 1]
    BY <1>8, <2>1
  <2> QED BY <1>5, <2>1, <2>2
<1>11. SubSeq(show, 2, k) = out
  <2>1. 1 + Len(out) <= Len(show) /\ \A i \in 1 .. Len(out) : show[i + 1] = out[i]
    BY <1>3, <1>8, <1>10 DEF a
  <2>2. SubSeq(show, 2, 1 + Len(out)) = out
    BY <1>3, <1>8, <2>1, BehindOne
  <2> QED BY <2>2 DEF a
<1>12. k \in 1 .. (k + b) /\ k \in Nat
  BY <1>3
<1> QED BY <1>3, <1>8, <1>9, <1>11, <1>12 DEF a, b, StandsTo

\* An answer is told, with the prompt behind it while the machine runs.
Told(w, user, os, show, runs) ==
  \E k \in 1 .. Len(show) :
    /\ IF runs
       THEN /\ \A j \in (k + 1) .. Len(show) : show[j][1] = "string"
            /\ FlattenSeq([j \in 1 .. (Len(show) - k) |-> show[k + j][2]]) = Prompt(user, os)
       ELSE k = Len(show)
    /\ Answer(w, SubSeq(show, 2, k))

\* What Enter shows.
LEMMA EnterTold ==
  ASSUME MemoryOK, TicksOK, shown = << >>, NEW r \in shell_execute, Left(r), NEW show,
         show = <<NewLine>> \o r.out \o shell_render_prompt(r.mem), NEW runs, runs
  PROVE  LET w == WordsOf(Text(mem, Buffer)) IN Told(w, UserAfter(w), OsAfter(w), show, runs)
<1> DEFINE w == WordsOf(Text(mem, Buffer))
           p == shell_parse(mem, Buffer)
           out == r.out
           next == shell_render_prompt(r.mem)
           k == 1 + Len(out)
           user == UserAfter(w)
           os == OsAfter(w)
<1>1. Handed(p.mem, p.args, w)
  BY LineEntered
<1>2. r \in Results(p.mem, p.args)
  BY DEF shell_execute
<1>3. /\ r.mem \in Memory(Cells) /\ NamesEnd(r.mem)
      /\ Text(r.mem, prompt_user) = user /\ Text(r.mem, prompt_os) = os
  BY LineLeaves
<1>4. next \in Seq(StringTokens) /\ Said(next) = Prompt(user, os)
  BY <1>3, PromptSaid
<1> HIDE DEF p, w, user, os
<1>5. Answer(w, out) /\ IsRow(out)
  BY <1>1, <1>2, LineAnswered DEF TicksOK
<1> HIDE DEF next, out
<1>6. IsRow(next)
  BY <1>4 DEF IsRow
<1>7. show = (<<NewLine>> \o out) \o next
  BY DEF next, out
<1> DEFINE nl == NewLine
<1> HIDE DEF nl
<1>8. StandsTo(show, k, out, next)
  <2>1. show = (<<nl>> \o out) \o next
    BY <1>7 DEF nl
  <2> QED BY <1>5, <1>6, <2>1, RowCut
<1> DEFINE n == Len(next)
<1> HIDE DEF k
<1>9. /\ k \in 1 .. Len(show) /\ k \in Nat /\ n \in Nat /\ Len(show) = k + n
      /\ SubSeq(show, 2, k) = out /\ \A j \in 1 .. n : show[k + j] = next[j]
  BY <1>8 DEF StandsTo
<1> DEFINE l == Len(show)
<1>0. l = k + n /\ k \in Nat /\ n \in Nat
  BY <1>9
<1> HIDE DEF l, n
<1>10. ASSUME NEW j \in (k + 1) .. l
       PROVE  show[j][1] = "string"
  <2> DEFINE i == j - k
             x == next[i]
  <2>1. i \in 1 .. n /\ k + i = j
    BY <1>0
  <2> HIDE DEF i
  <2>2. show[j] = x
    BY <1>9, <2>1
  <2>3. x \in StringTokens
    BY <1>4, <2>1, ElementOfSeq DEF n
  <2> HIDE DEF x
  <2>4. PICK y \in Seq(Char) : x = <<"string", y>>
    BY <2>3 DEF StringTokens
  <2>5. x[1] = "string"
    BY <2>4
  <2> QED BY <2>2, <2>5
<1>11. [j \in 1 .. (Len(show) - k) |-> show[k + j][2]] = [j \in 1 .. Len(next) |-> next[j][2]]
  <2>1. l - k = n
    BY <1>0
  <2>2. Len(show) - k = n
    BY <2>1 DEF l
  <2>3. Len(next) = n
    BY DEF n
  <2> QED BY <1>9, <2>2, <2>3
<1>12. FlattenSeq([j \in 1 .. (Len(show) - k) |-> show[k + j][2]]) = Prompt(user, os)
  BY <1>4, <1>11 DEF Said
<1>13. Answer(w, SubSeq(show, 2, k))
  BY <1>5, <1>9
<1>14. k \in 1 .. Len(show)
  BY <1>9
<1>15. Told(w, user, os, show, runs)
  BY <1>10, <1>12, <1>13, <1>14 DEF Told, l
<1> QED BY <1>15 DEF w, user, os

\* What EnterLast shows.
LEMMA LastTold ==
  ASSUME MemoryOK, TicksOK, shown = << >>, NEW r \in shell_execute, Left(r), NEW show,
         show = <<NewLine>> \o r.out, NEW runs, ~runs
  PROVE  LET w == WordsOf(Text(mem, Buffer)) IN Told(w, UserAfter(w), OsAfter(w), show, runs)
<1> DEFINE w == WordsOf(Text(mem, Buffer))
           p == shell_parse(mem, Buffer)
           out == r.out
           k == 1 + Len(out)
           nl == NewLine
<1>1. Handed(p.mem, p.args, w)
  BY LineEntered
<1>2. r \in Results(p.mem, p.args)
  BY DEF shell_execute
<1> HIDE DEF p, w
<1>3. Answer(w, out) /\ IsRow(out)
  BY <1>1, <1>2, LineAnswered DEF TicksOK
<1>4. show = <<nl>> \o out
  OBVIOUS
<1> HIDE DEF out, nl
<1>5. IsRow(<<nl>>) /\ IsRow(<< >>) /\ Len(<< >>) = 0
  BY RowsAre
<1>6. show = (<<nl>> \o out) \o << >>
  <2>1. IsRow(<<nl>> \o out)
    BY <1>3, <1>5, RowsJoin
  <2>2. PICK S : show \in Seq(S)
    BY <1>4, <2>1 DEF IsRow
  <2>3. show \o << >> = show
    BY <2>2, ConcatEmptySeq
  <2> QED BY <1>4, <2>3
<1> DEFINE none == << >>
<1>7. IsRow(none) /\ Len(none) = 0 /\ show = (<<nl>> \o out) \o none
  BY <1>5, <1>6
<1> HIDE DEF none
<1>8. StandsTo(show, k, out, none)
  BY <1>3, <1>7, RowCut
<1> HIDE DEF k
<1>9. k \in 1 .. Len(show) /\ k = Len(show) /\ SubSeq(show, 2, k) = out
  BY <1>7, <1>8 DEF StandsTo
<1>10. Answer(w, SubSeq(show, 2, k))
  BY <1>3, <1>9
<1>11. Told(w, UserAfter(w), OsAfter(w), show, runs)
  BY <1>9, <1>10 DEF Told
<1> QED BY <1>11 DEF w

\* Every step that answers a line answers it as the line asks.
LEMMA StepTold ==
  ASSUME MemoryOK, TicksOK, CommandsNext, shown = << >>, shown' # << >>
  PROVE  LET w == WordsOf(Text(mem, Buffer)) IN Told(w, UserAfter(w), OsAfter(w), shown', running')
<1> DEFINE w == WordsOf(Text(mem, Buffer))
<1>1. CASE Enter
  <2>1. PICK r \in shell_execute :
          r.returns /\ pages' = r.pages /\ shown' = <<NewLine>> \o r.out \o shell_render_prompt(r.mem)
    BY <1>1 DEF Enter
  <2>2. running'
    BY <1>1 DEF Enter
  <2>3. Left(r)
    BY <2>1, <2>2 DEF Left
  <2> QED BY <2>1, <2>2, <2>3, EnterTold
<1>2. CASE EnterLast
  <2>1. PICK r \in shell_execute : ~r.returns /\ pages' = r.pages /\ shown' = <<NewLine>> \o r.out
    BY <1>2 DEF EnterLast
  <2>2. ~running'
    BY <1>2 DEF EnterLast
  <2>3. Left(r)
    BY <2>1, <2>2 DEF Left
  <2> QED BY <2>1, <2>2, <2>3, LastTold
<1>3. ~\E line \in Lines : Type(line)
  BY DEF Type
<1> QED BY <1>1, <1>2, <1>3 DEF CommandsNext

\* A line is answered as the words between its blanks ask, with the prompt of
\* the names setprompt left behind it: shell_parse, shell_execute, the commands
\* and shell_render_prompt together.
THEOREM AnswersLineCorrect ==
  CommandsSpec => AnswersLine
<1> DEFINE Inv == MemoryOK /\ TicksOK
           Asks == shown = << >> /\ shown' # << >> =>
                     LET w == WordsOf(Text(mem, Buffer)) IN Told(w, UserAfter(w), OsAfter(w), shown', running')
<1>1. Inv /\ [CommandsNext]_commandVars => [Asks]_commandVars
  BY StepTold
<1>2. AnswersLine <=> [][Asks]_commandVars
  BY DEF AnswersLine, Told, UserAfter, OsAfter, Named
<1>3. CommandsSpec => []Inv
  BY MemoryInvariant, TicksInit, TicksNext, PTL DEF CommandsSpec
<1> HIDE DEF Inv, Asks
<1> QED BY <1>1, <1>2, <1>3, PTL DEF CommandsSpec
=============================================================================
