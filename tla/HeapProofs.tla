----------------------------- MODULE HeapProofs -----------------------------
(***************************************************************************)
(* Safety of the kernel heap, for every size of header, page, heap and     *)
(* word and every set of requests that fits the word (RequestsFit).        *)
(*                                                                         *)
(* The inductive invariant IInv adds to the invariants of Heap what holds  *)
(* inside a call: how much malloc has scanned, how many pages heap_grow    *)
(* still owes, that a block about to be taken is free and fits.  The steps *)
(* that rewrite headers are Absorb, SplitAndMark and GrowLink; a lemma on  *)
(* each says, field by field, what it does to a well formed list.          *)
(***************************************************************************)
EXTENDS Heap, TLAPS

-----------------------------------------------------------------------------
\* Arithmetic of machine words.

\* A sum inside the word is not changed by taking it modulo the word.
LEMMA ModSmall ==
  ASSUME NEW x \in Nat, NEW w \in Nat \ {0}, x < w
  PROVE  x % w = x
OBVIOUS

\* Rounding up, when the sum stays inside the word: the result is a multiple,
\* at least the argument and less than one unit above it.
LEMMA AlignUpBounds ==
  ASSUME NEW x \in Nat, NEW a \in Nat \ {0}, x + a < WordMod
  PROVE  /\ AlignUp(x, a) \in Nat
         /\ x <= AlignUp(x, a) /\ AlignUp(x, a) < x + a
         /\ (AlignUp(x, a) \div a) * a = AlignUp(x, a)
         /\ AlignUp(x, a) \div a \in Nat
<1> USE HeapConstants DEF HeapConstants
<1> DEFINE y == x + (a - 1)
           q == y \div a
<1>1. y \in Nat /\ y < WordMod
  OBVIOUS
<1>2. y % WordMod = y
  BY <1>1, ModSmall
<1>3. AlignUp(x, a) = q * a
  BY <1>2 DEF AlignUp
<1>4. q \in Nat /\ q * a <= y /\ y < q * a + a
  <2> HIDE DEF y
  <2> QED BY <1>1
<1>5. (q * a) \div a = q
  <2> HIDE DEF q
  <2> QED BY <1>4
<1>6. x <= q * a /\ q * a < x + a /\ q * a \in Nat
  <2> HIDE DEF q
  <2> QED BY <1>4
<1> QED
  <2> HIDE DEF q
  <2> QED BY <1>3, <1>4, <1>5, <1>6

-----------------------------------------------------------------------------
\* Well formed block lists.

Linked(h) ==
  \A b \in DOMAIN h :
    /\ h[b].next # NULL => /\ h[b].next \in DOMAIN h /\ b < h[b].next
                           /\ h[h[b].next].prev = b
    /\ h[b].prev # NULL => /\ h[b].prev \in DOMAIN h /\ h[b].prev < b
                           /\ h[h[b].prev].next = b
    /\ \A c \in DOMAIN h :
         /\ b < c => h[b].next # NULL /\ h[b].next <= c
         /\ c < b => h[b].prev # NULL /\ c <= h[b].prev

Typed(h) == DOMAIN h \subseteq Nat \ {0} /\ h \in [DOMAIN h -> Block]

Placed(h, limit) ==
  /\ \A b \in DOMAIN h : HeapStart <= b /\ EndOf(h, b) <= limit
  /\ \A b, c \in DOMAIN h : b < c => EndOf(h, b) <= c

GoodList(h, limit) == Typed(h) /\ Placed(h, limit) /\ Linked(h)

\* Each block ends where the next one starts, the last one at limit.
Tiled(h, limit) ==
  \A b \in DOMAIN h : EndOf(h, b) = IF h[b].next = NULL THEN limit ELSE h[b].next

\* b and its successor are free and touch.
FreePair(h, b) ==
  /\ h[b].free /\ h[b].next # NULL /\ h[h[b].next].free
  /\ EndOf(h, b) = h[b].next

-----------------------------------------------------------------------------
\* g is h after a absorbed its successor b, field by field.
Absorbed(g, h, a, b) ==
  /\ Typed(g) /\ DOMAIN g = DOMAIN h \ {b}
  /\ \A c \in DOMAIN g :
       /\ g[c].free = h[c].free
       /\ g[c].size = IF c = a THEN h[a].size + HeaderSize + h[b].size ELSE h[c].size
       /\ g[c].next = IF c = a THEN h[b].next ELSE h[c].next
       /\ g[c].prev = IF c = h[b].next THEN a ELSE h[c].prev

\* Absorb yields the fields of Absorbed: a free block and its successor become one.
LEMMA AbsorbFields ==
  ASSUME NEW h, Typed(h), NEW a \in DOMAIN h, NEW b \in DOMAIN h
  PROVE  Absorbed(Absorb(h, a, b), h, a, b)
<1> USE HeapConstants DEF HeapConstants
<1>1. Typed(Absorb(h, a, b))
  <2>1. \A c \in DOMAIN h : h[c] \in Block /\ c \in Nat
    BY DEF Typed
  <2> QED BY <2>1 DEF Typed, Absorb, MergedSize, Block
<1> QED BY <1>1 DEF Absorbed, Absorb, MergedSize

\* Absorbing the successor that starts where a ends keeps the list well
\* formed, and keeps it tiled if it was.
LEMMA AbsorbGood ==
  ASSUME NEW h, NEW limit \in Nat, GoodList(h, limit),
         NEW a \in DOMAIN h, NEW b \in DOMAIN h,
         h[a].next = b, EndOf(h, a) = b,
         NEW g, Absorbed(g, h, a, b)
  PROVE  /\ GoodList(g, limit)
         /\ Tiled(h, limit) => Tiled(g, limit)
<1> USE HeapConstants DEF HeapConstants
<1>1. /\ Typed(h) /\ Placed(h, limit) /\ Linked(h)
      /\ a \in Nat \ {0} /\ b \in Nat \ {0} /\ a < b
  BY DEF GoodList, Typed, Linked, NULL
<1>2. \A c \in DOMAIN h : /\ c \in Nat \ {0} /\ h[c].size \in Nat
                          /\ h[c].next \in Nat /\ h[c].prev \in Nat
  BY <1>1 DEF Typed, Block
<1>3. /\ DOMAIN g = DOMAIN h \ {b}
      /\ g[a].size = h[a].size + HeaderSize + h[b].size
      /\ g[a].next = h[b].next /\ g[a].prev = h[a].prev
      /\ \A c \in DOMAIN h \ {a, b} :
           /\ g[c].size = h[c].size /\ g[c].next = h[c].next
           /\ g[c].prev = IF c = h[b].next THEN a ELSE h[c].prev
      /\ Typed(g)
  <2>1. a # b /\ a # h[b].next
    BY <1>1, <1>2 DEF Linked, NULL
  <2> QED BY <2>1 DEF Absorbed
<1>4. /\ EndOf(g, a) = EndOf(h, b)
      /\ \A c \in DOMAIN h \ {a, b} : EndOf(g, c) = EndOf(h, c)
  BY <1>1, <1>2, <1>3 DEF EndOf
<1>5. Placed(g, limit)
  BY <1>1, <1>2, <1>3, <1>4 DEF Placed, EndOf
<1>6. Linked(g)
  <2> SUFFICES ASSUME NEW c \in DOMAIN g
               PROVE  /\ g[c].next # NULL => /\ g[c].next \in DOMAIN g /\ c < g[c].next
                                             /\ g[g[c].next].prev = c
                      /\ g[c].prev # NULL => /\ g[c].prev \in DOMAIN g /\ g[c].prev < c
                                             /\ g[g[c].prev].next = c
                      /\ \A d \in DOMAIN g :
                           /\ c < d => g[c].next # NULL /\ g[c].next <= d
                           /\ d < c => g[c].prev # NULL /\ d <= g[c].prev
    BY DEF Linked
  <2>1. CASE c = a
    BY <2>1, <1>1, <1>2, <1>3 DEF Linked, NULL
  <2>2. CASE c # a /\ c = h[b].next
    <3>1. /\ c \in DOMAIN h \ {a, b} /\ g[c].next = h[c].next /\ g[c].prev = a
          /\ h[c].prev = b /\ h[b].prev = a /\ b < c
      BY <1>1, <1>3, <2>2 DEF Linked, NULL
    <3>2. ASSUME h[c].next # NULL
          PROVE  h[c].next \in DOMAIN g /\ c < h[c].next /\ g[h[c].next].prev = c
      <4>1. h[c].next \in DOMAIN h /\ c < h[c].next /\ h[h[c].next].prev = c
        BY <1>1, <3>1, <3>2 DEF Linked
      <4>2. h[c].next # a /\ h[c].next # b /\ h[c].next # h[b].next
        BY <1>1, <1>2, <2>2, <3>1, <4>1
      <4> QED BY <1>3, <4>1, <4>2
    <3>3. a \in DOMAIN g /\ a < c /\ g[a].next = c
      BY <1>1, <1>2, <1>3, <2>2, <3>1
    <3>4. ASSUME NEW d \in DOMAIN g
          PROVE  /\ c < d => h[c].next # NULL /\ h[c].next <= d
                 /\ d < c => a # NULL /\ d <= a
      <4>1. d \in DOMAIN h /\ d # b
        BY <1>3
      <4>2. c < d => h[c].next # NULL /\ h[c].next <= d
        BY <1>1, <3>1, <4>1 DEF Linked
      <4>3. d < c => d <= b
        BY <1>1, <3>1, <4>1 DEF Linked
      <4>4. d < b => d <= a
        BY <1>1, <3>1, <4>1 DEF Linked
      <4> QED BY <1>1, <1>2, <4>1, <4>2, <4>3, <4>4 DEF NULL
    <3> QED BY <3>1, <3>2, <3>3, <3>4
  <2>3. CASE c # a /\ c # h[b].next
    <3>1. c \in DOMAIN h /\ c # b /\ g[c].next = h[c].next /\ g[c].prev = h[c].prev
      BY <1>3, <2>3
    <3>2. h[c].next # b /\ h[c].prev # b
      BY <1>1, <2>3, <3>1 DEF Linked, NULL
    <3>3. ASSUME h[c].next # NULL
          PROVE  h[c].next \in DOMAIN g /\ c < h[c].next /\ g[h[c].next].prev = c
      <4>1. h[c].next \in DOMAIN h /\ c < h[c].next /\ h[h[c].next].prev = c
        BY <1>1, <3>1, <3>3 DEF Linked
      <4>2. h[c].next # h[b].next
        BY <1>1, <3>1, <3>3, <4>1 DEF Linked
      <4> QED BY <1>3, <3>2, <4>1, <4>2
    <3>4. ASSUME h[c].prev # NULL
          PROVE  h[c].prev \in DOMAIN g /\ h[c].prev < c /\ g[h[c].prev].next = c
      <4>1. h[c].prev \in DOMAIN h /\ h[c].prev < c /\ h[h[c].prev].next = c
        BY <1>1, <3>1, <3>4 DEF Linked
      <4>2. h[c].prev # a
        BY <3>1, <4>1
      <4> QED BY <1>3, <3>2, <4>1, <4>2
    <3>5. \A d \in DOMAIN g : /\ c < d => h[c].next # NULL /\ h[c].next <= d
                              /\ d < c => h[c].prev # NULL /\ d <= h[c].prev
      BY <1>1, <1>3, <3>1 DEF Linked
    <3> QED BY <3>1, <3>3, <3>4, <3>5
  <2> QED BY <2>1, <2>2, <2>3
<1>7. Tiled(h, limit) => Tiled(g, limit)
  BY <1>1, <1>2, <1>3, <1>4 DEF Tiled
<1> QED BY <1>3, <1>5, <1>6, <1>7 DEF GoodList

-----------------------------------------------------------------------------
\* g is h with the tail of block cut off as a free block, field by field.
WasSplit(g, h, block, n) ==
  LET new == block + HeaderSize + n IN
  /\ Typed(g) /\ DOMAIN g = DOMAIN h \cup {new}
  /\ g[new].size = (h[block].size - n) - HeaderSize
  /\ g[new].free /\ g[new].next = h[block].next /\ g[new].prev = block
  /\ \A c \in DOMAIN h : c # new =>
       /\ g[c].free = h[c].free
       /\ g[c].size = IF c = block THEN n ELSE h[c].size
       /\ g[c].next = IF c = block THEN new ELSE h[c].next
       /\ g[c].prev = IF c = h[block].next THEN new ELSE h[c].prev

\* split_block leaves the list alone or cuts off room for a header at least.
LEMMA SplitFields ==
  ASSUME NEW h, Typed(h), NEW block \in DOMAIN h, NEW n \in Nat,
         n <= h[block].size, h[block].size < WordMod
  PROVE  \/ Split(h, block, n) = h
         \/ /\ n + HeaderSize <= h[block].size
            /\ WasSplit(Split(h, block, n), h, block, n)
<1> USE HeapConstants DEF HeapConstants
<1> DEFINE rest == (h[block].size - n) % WordMod
           new  == block + HeaderSize + n
           cut  == [b \in DOMAIN h \cup {new} |->
                     IF b = new
                     THEN [size |-> rest - HeaderSize, free |-> TRUE,
                           next |-> h[block].next, prev |-> block]
                     ELSE [size |-> IF b = block THEN n ELSE h[b].size,
                           free |-> h[b].free,
                           next |-> IF b = block THEN new ELSE h[b].next,
                           prev |-> IF b = h[block].next THEN new ELSE h[b].prev]]
<1>1. \A c \in DOMAIN h : h[c] \in Block /\ c \in Nat \ {0}
  BY DEF Typed
<1>2. h[block].size \in Nat /\ h[block].next \in Nat /\ block \in Nat
  BY <1>1 DEF Block
<1>3. rest = h[block].size - n
  BY <1>2, ModSmall
<1>4. Split(h, block, n) = IF rest < HeaderSize + MinSplit THEN h ELSE cut
  BY DEF Split
<1>5. CASE rest < HeaderSize + MinSplit
  BY <1>4, <1>5
<1>6. CASE ~(rest < HeaderSize + MinSplit)
  <2>1. Split(h, block, n) = cut
    BY <1>4, <1>6
  <2>2. rest \in Nat /\ HeaderSize <= rest /\ new \in Nat \ {0}
    BY <1>2, <1>3, <1>6
  <2>3. Typed(cut)
    <3> HIDE DEF rest, new
    <3>1. rest - HeaderSize \in Nat
      BY <2>2
    <3>2. \A c \in DOMAIN cut : cut[c] \in Block
      BY <1>1, <1>2, <2>2, <3>1 DEF Block
    <3> QED BY <1>1, <2>2, <3>2 DEF Typed
  <2>4. WasSplit(cut, h, block, n)
    BY <1>3, <2>3 DEF WasSplit
  <2> QED BY <1>2, <1>3, <2>1, <2>2, <2>4
<1> QED BY <1>5, <1>6

\* Splitting keeps the list well formed and tiled.
LEMMA SplitGood ==
  ASSUME NEW h, NEW limit \in Nat, GoodList(h, limit),
         NEW block \in DOMAIN h, NEW n \in Nat, n + HeaderSize <= h[block].size,
         NEW g, WasSplit(g, h, block, n)
  PROVE  /\ GoodList(g, limit)
         /\ Tiled(h, limit) => Tiled(g, limit)
         /\ block + HeaderSize + n \notin DOMAIN h
<1> USE HeapConstants DEF HeapConstants
<1> DEFINE new == block + HeaderSize + n
<1>1. Typed(h) /\ Placed(h, limit) /\ Linked(h)
  BY DEF GoodList
<1>2. \A c \in DOMAIN h : /\ c \in Nat \ {0} /\ h[c].size \in Nat
                          /\ h[c].next \in Nat /\ h[c].prev \in Nat
  BY <1>1 DEF Typed, Block
<1>3. new \in Nat /\ block < new /\ new < EndOf(h, block)
  BY <1>2 DEF EndOf
<1>4. \A c \in DOMAIN h : c > block => EndOf(h, block) <= c /\ new < c
  BY <1>1, <1>2, <1>3 DEF Placed, EndOf
<1>5. new \notin DOMAIN h
  BY <1>2, <1>3, <1>4
<1>6. /\ Typed(g) /\ DOMAIN g = DOMAIN h \cup {new}
      /\ g[new].size = (h[block].size - n) - HeaderSize
      /\ g[new].next = h[block].next /\ g[new].prev = block
      /\ g[block].size = n /\ g[block].next = new /\ g[block].prev = h[block].prev
      /\ \A c \in DOMAIN h \ {block} :
           /\ g[c].size = h[c].size /\ g[c].next = h[c].next
           /\ g[c].prev = IF c = h[block].next THEN new ELSE h[c].prev
  <2>1. block # h[block].next
    BY <1>1, <1>2 DEF Linked, NULL
  <2> QED BY <1>5, <2>1 DEF WasSplit
<1> HIDE DEF new
<1>7. /\ EndOf(g, block) = new /\ EndOf(g, new) = EndOf(h, block)
      /\ \A c \in DOMAIN h \ {block} : EndOf(g, c) = EndOf(h, c)
  BY <1>2, <1>3, <1>5, <1>6 DEF EndOf, new
<1>8. Placed(g, limit)
  <2>1. \A c \in DOMAIN g : HeapStart <= c /\ EndOf(g, c) <= limit
    BY <1>1, <1>2, <1>3, <1>4, <1>6, <1>7 DEF Placed, EndOf
  <2>2. \A b, c \in DOMAIN g : b < c => EndOf(g, b) <= c
    BY <1>1, <1>2, <1>3, <1>4, <1>6, <1>7 DEF Placed, EndOf
  <2> QED BY <2>1, <2>2 DEF Placed
<1>9. Linked(g)
  <2> SUFFICES ASSUME NEW c \in DOMAIN g
               PROVE  /\ g[c].next # NULL => /\ g[c].next \in DOMAIN g /\ c < g[c].next
                                             /\ g[g[c].next].prev = c
                      /\ g[c].prev # NULL => /\ g[c].prev \in DOMAIN g /\ g[c].prev < c
                                             /\ g[g[c].prev].next = c
                      /\ \A d \in DOMAIN g :
                           /\ c < d => g[c].next # NULL /\ g[c].next <= d
                           /\ d < c => g[c].prev # NULL /\ d <= g[c].prev
    BY DEF Linked
  <2>1. CASE c = block
    BY <2>1, <1>1, <1>2, <1>3, <1>4, <1>5, <1>6 DEF Linked, NULL
  <2>2. CASE c = new
    BY <2>2, <1>1, <1>2, <1>3, <1>4, <1>5, <1>6 DEF Linked, NULL
  <2>3. CASE c \in DOMAIN h /\ c = h[block].next
    BY <2>3, <1>1, <1>2, <1>3, <1>4, <1>5, <1>6 DEF Linked, NULL
  <2>4. CASE c \in DOMAIN h /\ c # block /\ c # h[block].next
    BY <2>4, <1>1, <1>2, <1>3, <1>4, <1>5, <1>6 DEF Linked, NULL
  <2> QED BY <1>6, <2>1, <2>2, <2>3, <2>4
<1>10. Tiled(h, limit) => Tiled(g, limit)
  BY <1>2, <1>3, <1>5, <1>6, <1>7 DEF Tiled, NULL
<1> QED BY <1>5, <1>6, <1>8, <1>9, <1>10 DEF GoodList, new

-----------------------------------------------------------------------------
\* g is h with block behind its tail, field by field.
WasLinked(g, h, tail, block, n) ==
  /\ Typed(g) /\ DOMAIN g = DOMAIN h \cup {block}
  /\ g[block].size = n /\ g[block].free
  /\ g[block].next = NULL /\ g[block].prev = tail
  /\ \A c \in DOMAIN h : c # block =>
       /\ g[c].free = h[c].free /\ g[c].size = h[c].size /\ g[c].prev = h[c].prev
       /\ g[c].next = IF c = tail THEN block ELSE h[c].next

\* LinkBehind yields the fields of WasLinked: heap_grow's block behind the tail.
LEMMA LinkFields ==
  ASSUME NEW h, Typed(h), NEW tail \in DOMAIN h, NEW block \in Nat \ {0}, NEW n \in Nat
  PROVE  WasLinked(LinkBehind(h, tail, block, n), h, tail, block, n)
<1>1. \A c \in DOMAIN h : h[c] \in Block /\ c \in Nat \ {0}
  BY DEF Typed
<1>2. Typed(LinkBehind(h, tail, block, n))
  BY <1>1 DEF Typed, LinkBehind, Block, NULL
<1> QED BY <1>2 DEF WasLinked, LinkBehind

\* Putting a block behind the tail, past the end of every other block, keeps
\* the list well formed; it stays tiled when the tail reached the block.
LEMMA LinkGood ==
  ASSUME NEW h, NEW limit \in Nat, GoodList(h, limit),
         NEW tail \in DOMAIN h, h[tail].next = NULL,
         NEW block \in Nat \ {0}, HeapStart <= block,
         \A c \in DOMAIN h : EndOf(h, c) <= block,
         NEW n \in Nat, block + HeaderSize + n <= limit,
         NEW g, WasLinked(g, h, tail, block, n)
  PROVE  /\ GoodList(g, limit)
         /\ block \notin DOMAIN h
         /\ EndOf(g, block) = block + HeaderSize + n
         /\ \A c \in DOMAIN h : EndOf(g, c) = EndOf(h, c)
         /\ Tiled(h, block) /\ block + HeaderSize + n = limit => Tiled(g, limit)
<1> USE HeapConstants DEF HeapConstants
<1>1. Typed(h) /\ Placed(h, limit) /\ Linked(h)
  BY DEF GoodList
<1>2. \A c \in DOMAIN h : /\ c \in Nat \ {0} /\ h[c].size \in Nat
                          /\ h[c].next \in Nat /\ h[c].prev \in Nat
  BY <1>1 DEF Typed, Block
<1>3. \A c \in DOMAIN h : c < block /\ c <= tail
  BY <1>1, <1>2 DEF EndOf, Linked
<1>4. block \notin DOMAIN h
  BY <1>2, <1>3
<1>5. /\ Typed(g) /\ DOMAIN g = DOMAIN h \cup {block}
      /\ g[block].size = n /\ g[block].next = NULL /\ g[block].prev = tail
      /\ \A c \in DOMAIN h :
           /\ g[c].size = h[c].size /\ g[c].prev = h[c].prev
           /\ g[c].next = IF c = tail THEN block ELSE h[c].next
  BY <1>4 DEF WasLinked
<1>6. /\ EndOf(g, block) = block + HeaderSize + n
      /\ \A c \in DOMAIN h : EndOf(g, c) = EndOf(h, c)
  BY <1>2, <1>5 DEF EndOf
<1>7. Placed(g, limit)
  BY <1>1, <1>2, <1>3, <1>5, <1>6 DEF Placed, EndOf
<1>8. Linked(g)
  <2> SUFFICES ASSUME NEW c \in DOMAIN g
               PROVE  /\ g[c].next # NULL => /\ g[c].next \in DOMAIN g /\ c < g[c].next
                                             /\ g[g[c].next].prev = c
                      /\ g[c].prev # NULL => /\ g[c].prev \in DOMAIN g /\ g[c].prev < c
                                             /\ g[g[c].prev].next = c
                      /\ \A d \in DOMAIN g :
                           /\ c < d => g[c].next # NULL /\ g[c].next <= d
                           /\ d < c => g[c].prev # NULL /\ d <= g[c].prev
    BY DEF Linked
  <2>1. CASE c = block
    BY <2>1, <1>1, <1>2, <1>3, <1>4, <1>5 DEF Linked, NULL
  <2>2. CASE c \in DOMAIN h
    BY <2>2, <1>1, <1>2, <1>3, <1>4, <1>5 DEF Linked, NULL
  <2> QED BY <1>5, <2>1, <2>2
<1>9. Tiled(h, block) /\ block + HeaderSize + n = limit => Tiled(g, limit)
  <2> SUFFICES ASSUME Tiled(h, block), block + HeaderSize + n = limit,
                      NEW c \in DOMAIN g
               PROVE  EndOf(g, c) = IF g[c].next = NULL THEN limit ELSE g[c].next
    BY DEF Tiled
  <2>1. CASE c = block
    BY <2>1, <1>5, <1>6
  <2>2. CASE c \in DOMAIN h /\ c = tail
    BY <2>2, <1>4, <1>5, <1>6 DEF Tiled, NULL
  <2>3. CASE c \in DOMAIN h /\ c # tail
    <3>1. h[c].next # NULL
      BY <2>3, <1>1, <1>3, <1>2 DEF Linked
    <3> QED BY <2>3, <3>1, <1>5, <1>6 DEF Tiled
  <2> QED BY <1>5, <2>1, <2>2, <2>3
<1> QED BY <1>4, <1>5, <1>6, <1>7, <1>8, <1>9 DEF GoodList

-----------------------------------------------------------------------------
\* g is h with the free flag of block set to f, field by field.
Flagged(g, h, block, f) ==
  /\ Typed(g) /\ DOMAIN g = DOMAIN h
  /\ \A c \in DOMAIN h :
       /\ g[c].size = h[c].size /\ g[c].next = h[c].next /\ g[c].prev = h[c].prev
       /\ g[c].free = IF c = block THEN f ELSE h[c].free

\* SetFree yields the fields of Flagged: only block->free changes.
LEMMA SetFreeFields ==
  ASSUME NEW h, Typed(h), NEW block, NEW f \in BOOLEAN
  PROVE  Flagged(SetFree(h, block, f), h, block, f)
<1>1. \A c \in DOMAIN h : h[c] \in Block
  BY DEF Typed
<1>2. Typed(SetFree(h, block, f))
  BY <1>1 DEF Typed, SetFree, Block
<1> QED BY <1>2 DEF Flagged, SetFree

\* Setting block->free keeps the list well formed and tiled.
LEMMA SetFreeGood ==
  ASSUME NEW h, NEW limit \in Nat, GoodList(h, limit), NEW block, NEW f \in BOOLEAN,
         NEW g, Flagged(g, h, block, f)
  PROVE  /\ GoodList(g, limit)
         /\ Tiled(h, limit) => Tiled(g, limit)
<1>1. \A c \in DOMAIN h : EndOf(g, c) = EndOf(h, c)
  BY DEF Flagged, EndOf
<1>2. Placed(g, limit)
  BY <1>1 DEF GoodList, Placed, Flagged
<1>3. Linked(g)
  BY DEF GoodList, Linked, Flagged
<1>4. Tiled(h, limit) => Tiled(g, limit)
  BY <1>1 DEF Tiled, Flagged
<1> QED BY <1>2, <1>3, <1>4 DEF GoodList, Flagged

-----------------------------------------------------------------------------
\* One merge of free(): it keeps the list well formed, touches no used block,
\* and the free pairs left are those that were there, except that a may now
\* pair with what b paired with.
LEMMA CoalesceGood ==
  ASSUME NEW h, NEW limit \in Nat, GoodList(h, limit), NEW a, NEW b,
         a # NULL => a \in DOMAIN h /\ h[a].next = b,
         b # NULL => b \in DOMAIN h,
         NEW g, g = Coalesce(h, a, b)
  PROVE  /\ GoodList(g, limit)
         /\ Tiled(h, limit) => Tiled(g, limit)
         /\ DOMAIN g \subseteq DOMAIN h
         /\ \A c \in DOMAIN h : ~h[c].free \/ c = a \/ c = HeapStart => c \in DOMAIN g
         /\ a = NULL /\ b # NULL => b \in DOMAIN g
         /\ \A c \in DOMAIN g : g[c].free = h[c].free
         /\ \A c \in DOMAIN g : ~h[c].free => g[c].size = h[c].size
         /\ \A c \in DOMAIN g : FreePair(g, c) =>
              \/ c # a /\ FreePair(h, c) /\ g[c].next = h[c].next
              \/ c = a /\ b # NULL /\ FreePair(h, b)
<1> USE HeapConstants DEF HeapConstants
<1>1. /\ Typed(h) /\ Placed(h, limit) /\ Linked(h)
      /\ \A c \in DOMAIN h : /\ c \in Nat \ {0} /\ h[c].size \in Nat
                             /\ h[c].next \in Nat /\ h[c].prev \in Nat
  BY DEF GoodList, Typed, Block
<1>2. CASE a # NULL /\ b # NULL /\ Mergeable(h, a, b)
  <2>1. /\ a \in DOMAIN h /\ b \in DOMAIN h /\ h[a].next = b
        /\ h[a].free /\ h[b].free /\ EndOf(h, a) = b /\ a < b
    BY <1>1, <1>2 DEF Mergeable, Linked
  <2>2. Absorbed(g, h, a, b)
    BY <1>1, <1>2, <2>1, AbsorbFields DEF Coalesce
  <2>3. GoodList(g, limit) /\ (Tiled(h, limit) => Tiled(g, limit))
    BY <2>1, <2>2, AbsorbGood
  <2>4. /\ DOMAIN g = DOMAIN h \ {b} /\ b # HeapStart /\ a # b
        /\ \A c \in DOMAIN g : g[c].free = h[c].free
        /\ \A c \in DOMAIN g : c # a => g[c].size = h[c].size /\ g[c].next = h[c].next
        /\ g[a].next = h[b].next
    BY <1>1, <2>1, <2>2 DEF Absorbed, Placed
  <2>5. /\ EndOf(g, a) = EndOf(h, b)
        /\ \A c \in DOMAIN g : c # a => EndOf(g, c) = EndOf(h, c)
    BY <1>1, <2>1, <2>2, <2>4 DEF Absorbed, EndOf
  <2>6. \A c \in DOMAIN g : c # a => h[c].next # b
    BY <1>1, <2>1, <2>4 DEF Linked
  <2>7. ASSUME NEW c \in DOMAIN g, FreePair(g, c)
        PROVE  \/ c # a /\ FreePair(h, c) /\ g[c].next = h[c].next
               \/ c = a /\ b # NULL /\ FreePair(h, b)
    <3>1. g[c].next \in DOMAIN g /\ g[c].next \in DOMAIN h
      BY <2>3, <2>4, <2>7 DEF GoodList, Linked, FreePair
    <3>2. CASE c = a
      BY <3>1, <3>2, <1>2, <2>1, <2>4, <2>5, <2>7 DEF FreePair
    <3>3. CASE c # a
      BY <3>1, <3>3, <2>4, <2>5, <2>7 DEF FreePair
    <3> QED BY <3>2, <3>3
  <2> QED BY <1>2, <2>1, <2>3, <2>4, <2>7
<1>3. CASE ~(a # NULL /\ b # NULL /\ Mergeable(h, a, b))
  <2>1. g = h
    BY <1>3 DEF Coalesce
  <2>2. ~(a \in DOMAIN h /\ FreePair(h, a))
    BY <1>1, <1>3 DEF FreePair, Mergeable, NULL
  <2> QED BY <1>1, <2>1, <2>2
<1> QED BY <1>2, <1>3

\* The headers free() leaves, from the headers it finds.
Freed(h, b) ==
  LET freed == SetFree(h, b, TRUE)
      right == Coalesce(freed, b, freed[b].next)
  IN  Coalesce(right, right[b].prev, b)

\* All of free(): the list stays well formed and tiled, exactly block b stops
\* being used, and no two free blocks touch if none did.
LEMMA FreedGood ==
  ASSUME NEW h, NEW limit \in Nat, GoodList(h, limit), NEW b \in DOMAIN h,
         \A c \in DOMAIN h : ~FreePair(h, c),
         NEW g, g = Freed(h, b)
  PROVE  /\ GoodList(g, limit)
         /\ Tiled(h, limit) => Tiled(g, limit)
         /\ HeapStart \in DOMAIN h => HeapStart \in DOMAIN g
         /\ DOMAIN g \subseteq DOMAIN h
         /\ \A c \in DOMAIN h : ~h[c].free /\ c # b =>
              c \in DOMAIN g /\ ~g[c].free /\ g[c].size = h[c].size
         /\ \A c \in DOMAIN g : ~g[c].free => ~h[c].free /\ c # b
         /\ \A c \in DOMAIN g : ~FreePair(g, c)
<1> DEFINE freed == SetFree(h, b, TRUE)
           right == Coalesce(freed, b, freed[b].next)
<1>0. Typed(h) /\ Linked(h) /\ b # NULL /\ b \in Nat
  BY DEF GoodList, Typed, NULL
<1>1. Flagged(freed, h, b, TRUE)
  BY <1>0, SetFreeFields
<1> HIDE DEF freed
<1>2. /\ GoodList(freed, limit) /\ (Tiled(h, limit) => Tiled(freed, limit))
      /\ \A c \in DOMAIN h : EndOf(freed, c) = EndOf(h, c)
  <2>1. \A c \in DOMAIN h : EndOf(freed, c) = EndOf(h, c)
    BY <1>1 DEF Flagged, EndOf
  <2> QED BY <1>1, <2>1, SetFreeGood
<1>3. /\ DOMAIN freed = DOMAIN h
      /\ \A c \in DOMAIN h : freed[c].size = h[c].size /\ freed[c].next = h[c].next
      /\ \A c \in DOMAIN h : freed[c].free = IF c = b THEN TRUE ELSE h[c].free
  BY <1>1 DEF Flagged
<1>4. g = Coalesce(right, right[b].prev, b)
  BY DEF Freed, freed
<1>5. Linked(freed) /\ Typed(freed)
  BY <1>2 DEF GoodList
<1>6. ASSUME NEW c \in DOMAIN freed, FreePair(freed, c)
      PROVE  c = b \/ freed[c].next = b
  <2>1. freed[c].next \in DOMAIN h
    BY <1>3, <1>5, <1>6 DEF Linked, FreePair
  <2> QED BY <2>1, <1>2, <1>3, <1>6 DEF FreePair
<1>7. freed[b].next # NULL => freed[b].next \in DOMAIN freed /\ freed[b].next > b
  BY <1>3, <1>5 DEF Linked
<1>8. /\ GoodList(right, limit) /\ (Tiled(freed, limit) => Tiled(right, limit))
      /\ DOMAIN right \subseteq DOMAIN freed
      /\ \A c \in DOMAIN freed : ~freed[c].free \/ c = b \/ c = HeapStart => c \in DOMAIN right
      /\ \A c \in DOMAIN right : right[c].free = freed[c].free
      /\ \A c \in DOMAIN right : ~freed[c].free => right[c].size = freed[c].size
      /\ \A c \in DOMAIN right : FreePair(right, c) =>
           \/ c # b /\ FreePair(freed, c) /\ right[c].next = freed[c].next
           \/ c = b /\ freed[b].next # NULL /\ FreePair(freed, freed[b].next)
  BY <1>0, <1>2, <1>3, <1>7, CoalesceGood
<1> HIDE DEF right
<1>9. \A c \in DOMAIN right : FreePair(right, c) => c # b /\ right[c].next = b
  <2> SUFFICES ASSUME NEW c \in DOMAIN right, FreePair(right, c)
               PROVE  c # b /\ right[c].next = b
    OBVIOUS
  <2>1. CASE c # b /\ FreePair(freed, c) /\ right[c].next = freed[c].next
    BY <2>1, <1>6, <1>8
  <2>2. CASE c = b /\ freed[b].next # NULL /\ FreePair(freed, freed[b].next)
    <3> DEFINE n == freed[b].next
    <3>1. n \in DOMAIN freed /\ n > b /\ n \in Nat /\ FreePair(freed, n)
      BY <2>2, <1>5, <1>7 DEF Typed
    <3>2. freed[n].next # NULL /\ freed[n].next > n
      BY <3>1, <1>5 DEF FreePair, Linked
    <3> HIDE DEF n
    <3>3. n # b /\ freed[n].next # b
      BY <3>1, <3>2, <1>0
    <3> QED BY <3>1, <3>3, <1>6
  <2> QED BY <2>1, <2>2, <1>8
<1> DEFINE p == right[b].prev
<1>10. /\ b \in DOMAIN right
       /\ p # NULL => p \in DOMAIN right /\ right[p].next = b
       /\ \A c \in DOMAIN right : right[c].next = b => c = p
  BY <1>0, <1>3, <1>8 DEF GoodList, Linked
<1>11. g = Coalesce(right, p, b)
  BY <1>4
<1> HIDE DEF p
<1>12. /\ GoodList(g, limit) /\ (Tiled(right, limit) => Tiled(g, limit))
       /\ DOMAIN g \subseteq DOMAIN right
       /\ \A c \in DOMAIN right : ~right[c].free \/ c = p \/ c = HeapStart => c \in DOMAIN g
       /\ \A c \in DOMAIN g : g[c].free = right[c].free
       /\ \A c \in DOMAIN g : ~right[c].free => g[c].size = right[c].size
       /\ \A c \in DOMAIN g : FreePair(g, c) =>
            \/ c # p /\ FreePair(right, c) /\ g[c].next = right[c].next
            \/ c = p /\ b # NULL /\ FreePair(right, b)
  BY <1>8, <1>10, <1>11, CoalesceGood
<1>13. \A c \in DOMAIN g : ~FreePair(g, c)
  <2> SUFFICES ASSUME NEW c \in DOMAIN g, FreePair(g, c)
               PROVE  FALSE
    OBVIOUS
  <2>1. c \in DOMAIN right
    BY <1>12
  <2>2. CASE c # p /\ FreePair(right, c)
    <3>1. right[c].next = b
      BY <1>9, <2>1, <2>2
    <3> QED BY <1>10, <2>1, <2>2, <3>1
  <2>3. CASE c = p /\ b # NULL /\ FreePair(right, b)
    BY <1>9, <1>10, <2>3
  <2> QED BY <1>12, <2>2, <2>3
<1>14. GoodList(g, limit) /\ (Tiled(h, limit) => Tiled(g, limit))
  BY <1>2, <1>8, <1>12
<1>15. DOMAIN g \subseteq DOMAIN h /\ (HeapStart \in DOMAIN h => HeapStart \in DOMAIN g)
  BY <1>3, <1>8, <1>12
<1>16. ASSUME NEW c \in DOMAIN h, ~h[c].free, c # b
       PROVE  c \in DOMAIN g /\ ~g[c].free /\ g[c].size = h[c].size
  <2>1. ~freed[c].free /\ freed[c].size = h[c].size
    BY <1>3, <1>16
  <2>2. c \in DOMAIN right /\ ~right[c].free /\ right[c].size = h[c].size
    BY <1>3, <1>8, <2>1
  <2> QED BY <1>12, <2>2
<1>17. ASSUME NEW c \in DOMAIN g, ~g[c].free
       PROVE  ~h[c].free /\ c # b
  <2>1. c \in DOMAIN right /\ ~right[c].free
    BY <1>12, <1>17
  <2>2. c \in DOMAIN freed /\ ~freed[c].free
    BY <1>8, <2>1
  <2> QED BY <1>3, <2>2
<1> QED BY <1>13, <1>14, <1>15, <1>16, <1>17

-----------------------------------------------------------------------------
\* The inductive invariant.

\* The heap never outgrows the PMM, so it stays inside the word.
Bounded ==
  /\ HeapStart <= heap_end
  /\ heap_end + frames * PageSize <= HeapStart + Frames * PageSize

\* The list is well formed and head is its first block.
ListGood ==
  /\ GoodList(hdr, heap_end)
  /\ (head = NULL) = (DOMAIN hdr = {})
  /\ head # NULL => head \in DOMAIN hdr

\* memory_init: no block yet, and a page is mapped once one was counted.
Booting ==
  pc = "boot" => /\ DOMAIN hdr = {} /\ DOMAIN live = {} /\ head = NULL
                 /\ pages = InitialPages \/ HeapStart + PageSize <= heap_end

\* malloc: what it asks for and has passed over.
Searching ==
  pc \in {"scan", "grow", "take"} => req \in Requests /\ want = AlignUp(req, Alignment)

\* heap_grow: the pages mapped and still owed make room for the block behind
\* everything in the list.
Growing ==
  pc = "grow" =>
    /\ cursor = NULL /\ HeapStart <= old_end /\ old_end <= heap_end
    /\ \A b \in DOMAIN hdr : EndOf(hdr, b) <= old_end
    /\ old_end + want + HeaderSize <= heap_end + pages * PageSize
    /\ frames > 0 => Tiled(hdr, old_end)

IInv ==
  /\ TypeOK /\ Bounded /\ ListGood /\ NoAdjacentFree /\ LiveBlocks
  /\ FirstFit /\ TakeFits /\ HeapTiled /\ Booting /\ Searching /\ Growing

\* What a request becomes: rounded up and still far from the end of the word.
LEMMA WantBounds ==
  ASSUME RequestsFit, NEW n \in Requests
  PROVE  /\ AlignUp(n, Alignment) \in Nat /\ n <= AlignUp(n, Alignment)
         /\ n \in Nat \ {0}
         /\ AlignUp(n, Alignment) + HeaderSize + PageSize < WordMod
<1> USE HeapConstants DEF HeapConstants
<1>1. n \in Nat \ {0} /\ n + Alignment + HeaderSize + PageSize < WordMod
  BY DEF RequestsFit
<1>2. n + Alignment < WordMod
  BY <1>1
<1>3. /\ AlignUp(n, Alignment) \in Nat /\ n <= AlignUp(n, Alignment)
      /\ AlignUp(n, Alignment) < n + Alignment
  BY <1>1, <1>2, AlignUpBounds
<1> QED BY <1>1, <1>3

\* heap_end and with it every block stay below the end of the word.
LEMMA HeapInWord ==
  ASSUME TypeOK, Bounded
  PROVE  heap_end < WordMod
<1> USE HeapConstants DEF HeapConstants
<1>1. frames * PageSize \in Nat /\ Frames * PageSize \in Nat /\ heap_end \in Nat
  BY DEF TypeOK
<1> QED BY <1>1 DEF Bounded

\* The inductive invariant holds before memory_init.
LEMMA InitIInv == Init => IInv
<1> USE HeapConstants DEF HeapConstants
<1> SUFFICES ASSUME Init PROVE IInv
  OBVIOUS
<1>0. DOMAIN hdr = {} /\ DOMAIN live = {}
  BY DEF Init, NoBlocks
<1>1. TypeOK
  BY <1>0 DEF Init, TypeOK, NoBlocks, NULL
<1>2. ListGood
  BY <1>0, <1>1 DEF Init, ListGood, GoodList, Typed, Placed, Linked, TypeOK
<1>3. LiveBlocks
  BY <1>0 DEF LiveBlocks
<1> QED BY <1>0, <1>1, <1>2, <1>3 DEF Init, IInv, Bounded, NoAdjacentFree, FirstFit,
     TakeFits, HeapTiled, Booting, Searching, Growing

-----------------------------------------------------------------------------
\* One lemma per action: it preserves the inductive invariant.

\* heap_map_pages, one page mapped.
LEMMA MapPageIInv == ASSUME IInv, MapPage PROVE IInv'
<1> USE HeapConstants DEF HeapConstants
<1>1. PICK taken \in {1, 2} : taken <= frames /\ frames' = frames - taken
  BY DEF MapPage
<1>2. /\ pc \in {"boot", "grow"} /\ pages > 0 /\ pages' = pages - 1
      /\ heap_end' = heap_end + PageSize /\ frames' < frames
      /\ UNCHANGED <<head, hdr, pc, req, want, cursor, old_end, live>>
      /\ frames \in Nat /\ heap_end \in Nat /\ pages \in Nat
  BY <1>1 DEF MapPage, IInv, TypeOK
<1>3. TypeOK'
  BY <1>1, <1>2 DEF IInv, TypeOK
<1>4. Bounded'
  <2>1. frames' * PageSize = frames * PageSize - taken * PageSize
    BY <1>1, <1>2
  <2>2. PageSize <= taken * PageSize
    BY <1>1
  <2>3. frames * PageSize \in Nat /\ taken * PageSize \in Nat
    BY <1>1, <1>2
  <2> QED BY <1>2, <2>1, <2>2, <2>3 DEF IInv, Bounded
<1>5. ListGood'
  <2>1. Typed(hdr)' /\ Linked(hdr)'
    BY <1>2 DEF IInv, ListGood, GoodList, Typed, Linked
  <2>2. Placed(hdr, heap_end)'
    <3>1. \A b \in DOMAIN hdr : EndOf(hdr, b) \in Nat
      BY DEF IInv, TypeOK, Block, EndOf
    <3> QED BY <1>2, <3>1 DEF IInv, ListGood, GoodList, Placed, EndOf
  <2> QED BY <1>2, <2>1, <2>2 DEF IInv, ListGood, GoodList
<1>6. NoAdjacentFree' /\ LiveBlocks' /\ FirstFit' /\ TakeFits' /\ HeapTiled'
  BY <1>2 DEF IInv, NoAdjacentFree, LiveBlocks, FirstFit, TakeFits, HeapTiled, EndOf
<1>7. Booting' /\ Searching'
  BY <1>2 DEF IInv, Bounded, Booting, Searching
<1>8. Growing'
  <2>1. pages' * PageSize = pages * PageSize - PageSize
    BY <1>2
  <2>2. pages * PageSize \in Nat
    BY <1>2
  <2>3. want \in Nat /\ old_end \in Nat
    BY DEF IInv, TypeOK
  <2> SUFFICES ASSUME pc' = "grow" PROVE Growing'
    BY DEF Growing
  <2>4. /\ cursor = NULL /\ HeapStart <= old_end /\ old_end <= heap_end
        /\ \A b \in DOMAIN hdr : EndOf(hdr, b) <= old_end
        /\ old_end + want + HeaderSize <= heap_end + pages * PageSize
        /\ frames > 0 => Tiled(hdr, old_end)
    BY <1>2 DEF IInv, Growing
  <2>5. old_end' <= heap_end' /\ (frames' > 0 => frames > 0)
    BY <1>1, <1>2, <2>3, <2>4
  <2>6. old_end + want + HeaderSize <= heap_end' + pages' * PageSize
    BY <1>2, <2>1, <2>2, <2>3, <2>4
  <2> QED BY <1>2, <2>4, <2>5, <2>6 DEF Growing, Tiled, EndOf
<1> QED BY <1>3, <1>4, <1>5, <1>6, <1>7, <1>8 DEF IInv

\* heap_map_pages without a frame: the call gives up.
LEMMA MapFailsIInv == ASSUME IInv, MapFails PROVE IInv'
<1> USE HeapConstants DEF HeapConstants
<1>1. /\ pc' = "idle" /\ frames = 0
      /\ req' = 0 /\ want' = 0 /\ cursor' = NULL /\ pages' = 0 /\ old_end' = 0
      /\ UNCHANGED <<head, heap_end, hdr, frames, live>>
  BY DEF MapFails, Return
<1>2. TypeOK'
  BY <1>1 DEF IInv, TypeOK, NULL
<1>3. ListGood'
  BY <1>1 DEF IInv, ListGood, GoodList, Typed, Placed, Linked, EndOf
<1>4. NoAdjacentFree'
  BY <1>1 DEF IInv, NoAdjacentFree, EndOf, MapFails
<1> QED BY <1>1, <1>2, <1>3, <1>4 DEF IInv, Bounded, LiveBlocks, FirstFit,
     TakeFits, HeapTiled, Booting, Searching, Growing

\* memory_init: the heap is one free block.
LEMMA MemoryInitIInv == ASSUME IInv, MemoryInit PROVE IInv'
<1> USE HeapConstants DEF HeapConstants
<1> DEFINE n == (heap_end - HeapStart) - HeaderSize
<1>1. /\ pc = "boot" /\ pages = 0 /\ head' = HeapStart /\ pc' = "idle"
      /\ hdr' = [b \in {HeapStart} |->
                   [size |-> n, free |-> TRUE, next |-> NULL, prev |-> NULL]]
      /\ req' = 0 /\ want' = 0 /\ cursor' = NULL /\ pages' = 0 /\ old_end' = 0
      /\ UNCHANGED <<heap_end, frames, live>>
  BY DEF MemoryInit, Return
<1>2. /\ DOMAIN live = {} /\ heap_end \in Nat /\ HeapStart + PageSize <= heap_end
  BY <1>1 DEF IInv, TypeOK, Booting
<1>3. n \in Nat
  BY <1>2
<1>4. /\ DOMAIN hdr' = {HeapStart} /\ hdr'[HeapStart].size = n
      /\ hdr'[HeapStart].free /\ hdr'[HeapStart].next = NULL /\ hdr'[HeapStart].prev = NULL
      /\ EndOf(hdr', HeapStart) = heap_end
  BY <1>1, <1>2 DEF EndOf
<1>5. Typed(hdr')
  BY <1>1, <1>3 DEF Typed, Block, NULL
<1> HIDE DEF n
<1>6. GoodList(hdr', heap_end')
  <2>1. Placed(hdr', heap_end')
    BY <1>1, <1>2, <1>4 DEF Placed
  <2>2. Linked(hdr')
    BY <1>4 DEF Linked
  <2> QED BY <1>5, <2>1, <2>2 DEF GoodList
<1>7. TypeOK'
  BY <1>1, <1>4, <1>5 DEF IInv, TypeOK, Typed, NULL
<1>8. ListGood'
  BY <1>1, <1>4, <1>6 DEF ListGood, NULL
<1>9. LiveBlocks' /\ NoAdjacentFree' /\ HeapTiled'
  BY <1>1, <1>2, <1>4 DEF LiveBlocks, NoAdjacentFree, HeapTiled
<1> QED BY <1>1, <1>7, <1>8, <1>9 DEF IInv, Bounded, FirstFit, TakeFits, Booting,
     Searching, Growing

\* What the actions that leave the headers alone preserve without more ado.
LEMMA SameList ==
  ASSUME IInv, UNCHANGED <<head, heap_end, hdr, frames, live>>
  PROVE  ListGood' /\ Bounded' /\ LiveBlocks'
BY DEF IInv, ListGood, GoodList, Typed, Placed, Linked, EndOf, Bounded, LiveBlocks

\* malloc is entered with the head of the list.
LEMMA MallocIInv == ASSUME IInv, NEW n \in Requests, Malloc(n), RequestsFit PROVE IInv'
<1>1. /\ pc = "idle" /\ pc' = "scan" /\ req' = n /\ want' = AlignUp(n, Alignment)
      /\ cursor' = head
      /\ UNCHANGED <<head, heap_end, hdr, frames, pages, old_end, live>>
  BY DEF Malloc
<1>2. want' \in Nat /\ n \in Nat
  BY <1>1, WantBounds
<1>3. ListGood' /\ Bounded' /\ LiveBlocks'
  BY <1>1, SameList
<1>4. TypeOK'
  <2>1. head \in DOMAIN hdr \cup {NULL}
    BY DEF IInv, ListGood
  <2>2. head \in Nat
    BY HeapConstants DEF IInv, TypeOK, NULL, HeapConstants
  <2> QED BY <1>1, <1>2, <2>1, <2>2 DEF IInv, TypeOK
<1>5. FirstFit'
  \* Nothing lies below the head: it has the heap's lowest address.
  <2>1. \A b \in DOMAIN hdr : ~(head = NULL) /\ ~(b < head)
    <3> SUFFICES ASSUME NEW b \in DOMAIN hdr
                 PROVE  ~(head = NULL) /\ ~(b < head)
      OBVIOUS
    <3>1. head # NULL
      BY DEF IInv, ListGood
    <3>2. head = HeapStart
      BY <3>1 DEF IInv, TypeOK
    <3>3. HeapStart <= b
      BY DEF IInv, ListGood, GoodList, Placed
    <3>4. b \in Nat /\ HeapStart \in Nat
      BY HeapConstants DEF IInv, TypeOK, HeapConstants
    <3> QED BY <3>1, <3>2, <3>3, <3>4
  <2> QED BY <1>1, <2>1 DEF FirstFit
<1>6. HeapTiled' /\ NoAdjacentFree'
  BY <1>1 DEF IInv, HeapTiled, NoAdjacentFree, EndOf
<1> QED BY <1>1, <1>3, <1>4, <1>5, <1>6 DEF IInv, TakeFits, Booting, Searching, Growing

\* malloc passes over a block that does not fit.
LEMMA ScanOnIInv == ASSUME IInv, ScanOn PROVE IInv'
<1>1. /\ pc = "scan" /\ cursor # NULL /\ ~Fits(cursor) /\ pc' = "scan"
      /\ cursor' = hdr[cursor].next /\ cursor \in DOMAIN hdr
      /\ UNCHANGED <<head, heap_end, hdr, frames, req, want, pages, old_end, live>>
  BY DEF ScanOn, IInv, TypeOK
<1>2. Linked(hdr) /\ Typed(hdr)
  BY DEF IInv, ListGood, GoodList
<1>3. /\ cursor' # NULL => cursor' \in DOMAIN hdr
      /\ cursor' \in Nat
  BY <1>1, <1>2 DEF Linked, Typed, Block
<1>4. ListGood' /\ Bounded' /\ LiveBlocks'
  BY <1>1, SameList
<1>5. TypeOK'
  BY <1>1, <1>3 DEF IInv, TypeOK, Block
<1>6. FirstFit'
  \* What lies below the successor is the block itself or below it.
  <2> SUFFICES ASSUME NEW b \in DOMAIN hdr, cursor' = NULL \/ b < cursor'
               PROVE  ~(hdr[b].free /\ hdr[b].size >= want)
    BY <1>1 DEF FirstFit
  <2>1. b \in Nat /\ cursor \in Nat
    BY <1>1, <1>2 DEF Typed
  <2>2. ~(cursor < b)
    BY <1>1, <1>2, <1>3, <2>1 DEF Linked, NULL
  <2>3. CASE b = cursor
    BY <1>1, <2>3 DEF Fits
  <2>4. CASE b < cursor
    BY <1>1, <2>4 DEF IInv, FirstFit
  <2> QED BY <2>1, <2>2, <2>3, <2>4
<1>7. HeapTiled' /\ NoAdjacentFree'
  BY <1>1 DEF IInv, HeapTiled, NoAdjacentFree, EndOf
<1> QED BY <1>1, <1>4, <1>5, <1>6, <1>7 DEF IInv, TakeFits, Booting, Searching, Growing

\* malloc finds a block that fits.
LEMMA ScanHitIInv == ASSUME IInv, ScanHit, RequestsFit PROVE IInv'
<1>1. /\ pc = "scan" /\ cursor # NULL /\ Fits(cursor) /\ pc' = "take"
      /\ cursor \in DOMAIN hdr
      /\ UNCHANGED <<head, heap_end, hdr, frames, req, want, cursor, pages, old_end, live>>
  BY DEF ScanHit, IInv, TypeOK
<1>2. ListGood' /\ Bounded' /\ LiveBlocks'
  BY <1>1, SameList
<1>3. TypeOK'
  BY <1>1 DEF IInv, TypeOK, Block
<1>4. TakeFits'
  <2>1. req \in Requests /\ want = AlignUp(req, Alignment)
    BY <1>1 DEF IInv, Searching
  <2>2. req <= want
    BY <2>1, WantBounds
  <2> QED BY <1>1, <2>1, <2>2, WantBounds DEF TakeFits, Fits
<1>5. HeapTiled' /\ NoAdjacentFree' /\ FirstFit'
  BY <1>1 DEF IInv, HeapTiled, NoAdjacentFree, EndOf, FirstFit
<1> QED BY <1>1, <1>2, <1>3, <1>4, <1>5 DEF IInv, Booting, Searching, Growing

\* malloc reaches the end of the list and calls heap_grow.
LEMMA ScanMissIInv == ASSUME IInv, ScanMiss, RequestsFit PROVE IInv'
<1> USE HeapConstants DEF HeapConstants
<1> DEFINE needed == want + HeaderSize
<1>1. /\ pc = "scan" /\ cursor = NULL /\ pc' = "grow" /\ old_end' = heap_end
      /\ pages' = AlignUp(needed % WordMod, PageSize) \div PageSize
      /\ UNCHANGED <<head, heap_end, hdr, frames, req, want, cursor, live>>
  BY DEF ScanMiss
<1>2. req \in Requests /\ want = AlignUp(req, Alignment)
  BY <1>1 DEF IInv, Searching
<1>3. want \in Nat /\ want + HeaderSize + PageSize < WordMod
  BY <1>2, WantBounds
<1>4. needed \in Nat /\ needed % WordMod = needed /\ needed + PageSize < WordMod
  BY <1>3, ModSmall
<1> HIDE DEF needed
<1>5. /\ needed <= pages' * PageSize /\ pages' \in Nat
  <2>1. PageSize \in Nat \ {0}
    OBVIOUS
  <2>2. /\ AlignUp(needed, PageSize) \in Nat /\ needed <= AlignUp(needed, PageSize)
        /\ (AlignUp(needed, PageSize) \div PageSize) * PageSize = AlignUp(needed, PageSize)
        /\ AlignUp(needed, PageSize) \div PageSize \in Nat
    BY <1>4, <2>1, AlignUpBounds
  <2> QED BY <1>1, <1>4, <2>2
<1>6. ListGood' /\ Bounded' /\ LiveBlocks'
  BY <1>1, SameList
<1>7. TypeOK'
  BY <1>1, <1>5 DEF IInv, TypeOK, Block
<1>8. Growing'
  <2>1. heap_end \in Nat /\ pages' * PageSize \in Nat
    BY <1>5 DEF IInv, TypeOK
  <2>2. heap_end + want + HeaderSize <= heap_end + pages' * PageSize
    <3> DEFINE mapped == pages' * PageSize
    <3>1. mapped \in Nat /\ want + HeaderSize <= mapped
      BY <1>5, <2>1 DEF needed
    <3> HIDE DEF mapped
    <3>2. heap_end + want + HeaderSize <= heap_end + mapped
      BY <1>3, <2>1, <3>1
    <3> QED BY <3>2 DEF mapped
  <2>3. \A b \in DOMAIN hdr : EndOf(hdr, b) <= heap_end
    BY DEF IInv, ListGood, GoodList, Placed
  <2>4. frames > 0 => Tiled(hdr, heap_end)
    BY <1>1 DEF IInv, HeapTiled, Tiled
  <2> QED BY <1>1, <2>1, <2>2, <2>3, <2>4 DEF IInv, Bounded, Growing, Tiled, EndOf
<1>9. HeapTiled' /\ NoAdjacentFree' /\ FirstFit'
  BY <1>1 DEF IInv, HeapTiled, NoAdjacentFree, EndOf, FirstFit
<1> QED BY <1>1, <1>6, <1>7, <1>8, <1>9 DEF IInv, TakeFits, Booting, Searching

\* heap_grow puts the pages it mapped behind the tail.
LEMMA GrowLinkIInv == ASSUME IInv, GrowLink, RequestsFit PROVE IInv'
<1> USE HeapConstants DEF HeapConstants
<1> DEFINE n == (heap_end - old_end) - HeaderSize
<1>1. PICK tail \in DOMAIN hdr :
        /\ hdr[tail].next = NULL
        /\ hdr' = LinkBehind(hdr, tail, old_end, n % WordMod)
  BY DEF GrowLink
<1>2. /\ pc = "grow" /\ pages = 0 /\ cursor' = old_end /\ pc' = "take"
      /\ UNCHANGED <<head, heap_end, frames, req, want, pages, old_end, live>>
  BY DEF GrowLink
<1>3. /\ cursor = NULL /\ HeapStart <= old_end
      /\ \A b \in DOMAIN hdr : EndOf(hdr, b) <= old_end
      /\ frames > 0 => Tiled(hdr, old_end)
      /\ old_end \in Nat \ {0} /\ heap_end \in Nat /\ want \in Nat
  BY <1>2 DEF IInv, TypeOK, Growing
<1>4. old_end + want + HeaderSize <= heap_end
  <2>1. pages * PageSize = 0
    BY <1>2
  <2>2. old_end + want + HeaderSize <= heap_end + pages * PageSize
    BY <1>2 DEF IInv, Growing
  <2> QED BY <1>3, <2>1, <2>2
<1>5. heap_end < WordMod
  BY HeapInWord DEF IInv
<1>6. n \in Nat /\ n % WordMod = n /\ want <= n /\ old_end + HeaderSize + n = heap_end
  BY <1>3, <1>4, <1>5, ModSmall
<1> HIDE DEF n
<1>7. /\ GoodList(hdr, heap_end) /\ Typed(hdr) /\ Linked(hdr)
      /\ \A b \in DOMAIN hdr : b \in Nat \ {0} /\ b < EndOf(hdr, b)
  <2>1. GoodList(hdr, heap_end) /\ Typed(hdr) /\ Linked(hdr)
    BY DEF IInv, ListGood, GoodList
  <2>2. \A b \in DOMAIN hdr : b \in Nat \ {0} /\ hdr[b].size \in Nat
    BY <2>1 DEF Typed, Block
  <2> QED BY <2>1, <2>2 DEF EndOf
<1>8. WasLinked(hdr', hdr, tail, old_end, n)
  BY <1>1, <1>3, <1>6, <1>7, LinkFields
<1>9. /\ GoodList(hdr', heap_end) /\ old_end \notin DOMAIN hdr
      /\ \A c \in DOMAIN hdr : EndOf(hdr', c) = EndOf(hdr, c)
      /\ frames > 0 => Tiled(hdr', heap_end)
  BY <1>1, <1>3, <1>6, <1>7, <1>8, LinkGood
<1>10. /\ DOMAIN hdr' = DOMAIN hdr \cup {old_end}
       /\ hdr'[old_end].size = n /\ hdr'[old_end].free /\ hdr'[old_end].next = NULL
       /\ \A c \in DOMAIN hdr :
            /\ c < old_end /\ c # old_end
            /\ hdr'[c].free = hdr[c].free /\ hdr'[c].size = hdr[c].size
            /\ hdr'[c].next = IF c = tail THEN old_end ELSE hdr[c].next
  <2>1. \A c \in DOMAIN hdr : c < old_end
    <3> SUFFICES ASSUME NEW c \in DOMAIN hdr PROVE c < old_end
      OBVIOUS
    <3>1. c < EndOf(hdr, c) /\ EndOf(hdr, c) <= old_end /\ EndOf(hdr, c) \in Nat
      BY <1>3, <1>7 DEF EndOf, IInv, TypeOK, Block
    <3> QED BY <1>3, <1>7, <3>1
  <2>2. \A c \in DOMAIN hdr : c # old_end
    BY <1>9
  <2> QED BY <1>8, <2>1, <2>2 DEF WasLinked
<1>11. TypeOK'
  BY <1>2, <1>3, <1>9, <1>10 DEF IInv, TypeOK, GoodList, Typed
<1>12. ListGood'
  BY <1>2, <1>9, <1>10 DEF IInv, ListGood
<1>13. LiveBlocks'
  <2>1. {c \in DOMAIN hdr : ~hdr[c].free} = {c \in DOMAIN hdr' : ~hdr'[c].free}
    BY <1>10
  <2> QED BY <1>2, <1>10, <2>1 DEF IInv, LiveBlocks
<1>14. FirstFit' /\ TakeFits'
  <2>1. FirstFit'
    BY <1>2, <1>3, <1>7, <1>10 DEF IInv, FirstFit, NULL
  <2>2. want >= req
    BY <1>2, WantBounds DEF IInv, Searching
  <2> QED BY <1>2, <1>6, <1>10, <2>1, <2>2 DEF TakeFits
<1>15. NoAdjacentFree'
  <2> SUFFICES ASSUME NEW b \in DOMAIN hdr', hdr'[b].free, hdr'[b].next # NULL,
                      hdr'[hdr'[b].next].free, EndOf(hdr', b) = hdr'[b].next
               PROVE  hdr'[b].next = old_end
    BY <1>2 DEF NoAdjacentFree
  <2>1. b \in DOMAIN hdr
    BY <1>10
  <2>2. CASE b # tail
    <3>1. hdr'[b].next = hdr[b].next /\ hdr[b].next \in DOMAIN hdr
      BY <2>1, <2>2, <1>7, <1>10 DEF Linked
    <3> QED BY <2>1, <3>1, <1>2, <1>9, <1>10 DEF IInv, NoAdjacentFree
  <2> QED BY <2>1, <2>2, <1>10
<1>16. HeapTiled'
  BY <1>2, <1>9 DEF HeapTiled, Tiled
<1> QED BY <1>2, <1>11, <1>12, <1>13, <1>14, <1>15, <1>16 DEF IInv, Bounded, Booting,
     Searching, Growing

\* malloc splits the block, marks it used and returns it.
LEMMA TakeIInv == ASSUME IInv, Take PROVE IInv'
<1> USE HeapConstants DEF HeapConstants
<1> DEFINE h == Split(hdr, cursor, want)
           p == cursor + HeaderSize
           new == cursor + HeaderSize + want
<1>1. /\ pc = "take" /\ hdr' = SetFree(h, cursor, FALSE)
      /\ live' = [q \in DOMAIN live \cup {p} |-> IF q = p THEN req ELSE live[q]]
      /\ pc' = "idle"
      /\ req' = 0 /\ want' = 0 /\ cursor' = NULL /\ pages' = 0 /\ old_end' = 0
      /\ UNCHANGED <<head, heap_end, frames>>
  BY DEF Take, Return
<1>2. /\ cursor \in DOMAIN hdr /\ hdr[cursor].free /\ hdr[cursor].size >= want
      /\ want >= req /\ req \in Requests /\ want \in Nat /\ heap_end \in Nat
  BY <1>1 DEF IInv, TypeOK, TakeFits, Searching
<1>3. /\ GoodList(hdr, heap_end) /\ Typed(hdr) /\ Linked(hdr)
      /\ \A b \in DOMAIN hdr : /\ b \in Nat \ {0} /\ hdr[b].size \in Nat
                               /\ hdr[b].next \in Nat
                               /\ EndOf(hdr, b) <= heap_end
  BY DEF IInv, ListGood, GoodList, Typed, Placed, Block
<1>4. hdr[cursor].size < WordMod
  <2>1. heap_end < WordMod
    BY HeapInWord DEF IInv
  <2> QED BY <1>2, <1>3, <2>1 DEF EndOf
<1>5. \/ h = hdr
      \/ want + HeaderSize <= hdr[cursor].size /\ WasSplit(h, hdr, cursor, want)
  BY <1>2, <1>3, <1>4, SplitFields
<1> HIDE DEF h
\* The list after split_block, whether it cut anything off or not.
<1>6. /\ GoodList(h, heap_end) /\ (Tiled(hdr, heap_end) => Tiled(h, heap_end))
      /\ DOMAIN hdr \subseteq DOMAIN h /\ DOMAIN h \subseteq DOMAIN hdr \cup {new}
      /\ \A c \in DOMAIN hdr : /\ h[c].free = hdr[c].free
                               /\ c # cursor => h[c].size = hdr[c].size
                               /\ c # cursor => h[c].next = hdr[c].next
      /\ want <= h[cursor].size
      /\ \A c \in DOMAIN h \ DOMAIN hdr :
           /\ c = new /\ h[c].free /\ h[c].next = hdr[cursor].next
           /\ EndOf(h, c) = EndOf(hdr, cursor)
  <2>1. CASE h = hdr
    BY <2>1, <1>2, <1>3
  <2>2. CASE want + HeaderSize <= hdr[cursor].size /\ WasSplit(h, hdr, cursor, want)
    <3>1. /\ GoodList(h, heap_end) /\ (Tiled(hdr, heap_end) => Tiled(h, heap_end))
          /\ new \notin DOMAIN hdr
      BY <2>2, <1>2, <1>3, SplitGood
    <3>2. EndOf(h, new) = EndOf(hdr, cursor)
      BY <2>2, <1>2, <1>3 DEF WasSplit, EndOf
    <3> QED BY <2>2, <1>2, <3>1, <3>2 DEF WasSplit
  <2> QED BY <2>1, <2>2, <1>5
<1>7. Flagged(hdr', h, cursor, FALSE)
  BY <1>1, <1>6, SetFreeFields DEF GoodList
<1>8. GoodList(hdr', heap_end) /\ (Tiled(h, heap_end) => Tiled(hdr', heap_end))
  BY <1>2, <1>6, <1>7, SetFreeGood
<1>9. /\ DOMAIN hdr' = DOMAIN h
      /\ \A c \in DOMAIN h : /\ hdr'[c].size = h[c].size /\ hdr'[c].next = h[c].next
                             /\ hdr'[c].free = IF c = cursor THEN FALSE ELSE h[c].free
                             /\ EndOf(hdr', c) = EndOf(h, c)
  BY <1>7 DEF Flagged, EndOf
<1>10. TypeOK'
  <2>1. p \in Nat \ {0}
    BY <1>2, <1>3
  <2>2. live' \in [DOMAIN live' -> Requests] /\ DOMAIN live' \subseteq Nat \ {0}
    <3> HIDE DEF p
    <3> QED BY <1>1, <1>2, <2>1 DEF IInv, TypeOK
  <2> QED BY <1>1, <1>8, <2>2 DEF IInv, TypeOK, GoodList, Typed, NULL
<1>11. ListGood'
  BY <1>1, <1>2, <1>6, <1>8, <1>9 DEF IInv, ListGood
<1>12. LiveBlocks'
  <2>1. {c \in DOMAIN hdr' : ~hdr'[c].free} = {c \in DOMAIN hdr : ~hdr[c].free} \cup {cursor}
    BY <1>2, <1>6, <1>9
  <2>2. DOMAIN live' = DOMAIN live \cup {p}
    BY <1>1
  <2>3. DOMAIN live' = {b + HeaderSize : b \in {c \in DOMAIN hdr' : ~hdr'[c].free}}
    BY <2>1, <2>2 DEF IInv, LiveBlocks
  <2>4. ASSUME NEW b \in DOMAIN hdr', ~hdr'[b].free
        PROVE  live'[b + HeaderSize] <= hdr'[b].size
    <3>1. CASE b = cursor
      <4>1. live'[p] = req
        BY <1>1
      <4>2. hdr'[cursor].size = h[cursor].size /\ hdr'[cursor].size \in Nat
        BY <1>2, <1>6, <1>8, <1>9 DEF GoodList, Typed, Block
      <4>3. req \in Nat /\ req <= hdr'[cursor].size
        BY <1>2, <1>6, <4>2
      <4> QED BY <3>1, <4>1, <4>3
    <3>2. CASE b # cursor
      <4>1. b \in DOMAIN hdr /\ ~hdr[b].free /\ hdr'[b].size = hdr[b].size
        BY <2>1, <2>4, <3>2, <1>6, <1>9
      <4>2. b + HeaderSize # p /\ b + HeaderSize \in DOMAIN live
        BY <1>2, <1>3, <3>2, <4>1 DEF IInv, LiveBlocks
      <4>3. live'[b + HeaderSize] = live[b + HeaderSize]
        <5> HIDE DEF p
        <5> QED BY <1>1, <4>2
      <4> QED BY <4>1, <4>3 DEF IInv, LiveBlocks
    <3> QED BY <3>1, <3>2
  <2> QED BY <2>3, <2>4 DEF LiveBlocks
<1>13. NoAdjacentFree'
  <2> SUFFICES ASSUME NEW b \in DOMAIN hdr', hdr'[b].free, hdr'[b].next # NULL,
                      hdr'[hdr'[b].next].free, EndOf(hdr', b) = hdr'[b].next
               PROVE  FALSE
    BY DEF NoAdjacentFree
  <2> DEFINE x == hdr'[b].next
  <2>1. b # cursor /\ b \in DOMAIN h /\ x \in DOMAIN h /\ x # cursor
    BY <1>8, <1>9, <1>2, <1>6 DEF GoodList, Linked
  <2>2. CASE b \in DOMAIN hdr
    <3>1. /\ hdr[b].free /\ x = hdr[b].next /\ x \in DOMAIN hdr
          /\ EndOf(hdr, b) = x /\ hdr[x].free
      <4>1. x = hdr[b].next /\ hdr[b].free /\ EndOf(hdr', b) = EndOf(hdr, b)
        BY <2>1, <2>2, <1>6, <1>9 DEF EndOf
      <4>2. x \in DOMAIN hdr
        BY <4>1, <2>2, <1>3 DEF Linked
      <4> QED BY <4>1, <4>2, <2>1, <1>6, <1>9
    <3> QED BY <3>1, <2>1, <2>2 DEF IInv, NoAdjacentFree
  <2>3. CASE b \notin DOMAIN hdr
    <3>1. /\ x = hdr[cursor].next /\ EndOf(hdr, cursor) = x
      <4>1. h[b].next = hdr[cursor].next /\ EndOf(h, b) = EndOf(hdr, cursor)
        BY <1>6, <2>1, <2>3
      <4>2. hdr'[b].next = h[b].next /\ EndOf(hdr', b) = EndOf(h, b)
        BY <1>9, <2>1
      <4> QED BY <4>1, <4>2
    <3>2. x \in DOMAIN hdr /\ x # cursor
      BY <3>1, <2>1, <1>2, <1>3 DEF Linked
    <3>3. hdr[x].free
      <4>1. h[x].free
        BY <1>9, <2>1
      <4> QED BY <1>6, <3>2, <4>1
    <3> QED BY <3>1, <3>2, <3>3, <1>2 DEF IInv, NoAdjacentFree
  <2> QED BY <2>2, <2>3
<1>14. HeapTiled'
  BY <1>1, <1>6, <1>8 DEF IInv, HeapTiled, Tiled
<1> QED BY <1>1, <1>10, <1>11, <1>12, <1>13, <1>14 DEF IInv, Bounded, FirstFit,
     TakeFits, Booting, Searching, Growing

\* free marks the block and merges it with both neighbours.
LEMMA FreeIInv == ASSUME IInv, NEW p \in DOMAIN live, Free(p) PROVE IInv'
<1> USE HeapConstants DEF HeapConstants
<1> DEFINE b == p - HeaderSize
<1>1. /\ pc = "idle" /\ hdr' = Freed(hdr, b)
      /\ live' = [q \in DOMAIN live \ {p} |-> live[q]]
      /\ UNCHANGED <<head, heap_end, frames, pc, req, want, cursor, pages, old_end>>
  BY DEF Free, Freed
<1>2. b \in DOMAIN hdr /\ ~hdr[b].free /\ p = b + HeaderSize
  <2>1. PICK c \in DOMAIN hdr : ~hdr[c].free /\ p = c + HeaderSize
    BY DEF IInv, LiveBlocks
  <2>2. c \in Nat
    BY <2>1 DEF IInv, TypeOK
  <2> QED BY <2>1, <2>2
<1> HIDE DEF b
<1>3. GoodList(hdr, heap_end) /\ Typed(hdr) /\ heap_end \in Nat
  BY DEF IInv, TypeOK, ListGood, GoodList
<1>4. \A c \in DOMAIN hdr : ~FreePair(hdr, c)
  BY <1>1 DEF IInv, NoAdjacentFree, FreePair
<1>5. /\ GoodList(hdr', heap_end)
      /\ Tiled(hdr, heap_end) => Tiled(hdr', heap_end)
      /\ HeapStart \in DOMAIN hdr => HeapStart \in DOMAIN hdr'
      /\ DOMAIN hdr' \subseteq DOMAIN hdr
      /\ \A c \in DOMAIN hdr : ~hdr[c].free /\ c # b =>
           c \in DOMAIN hdr' /\ ~hdr'[c].free /\ hdr'[c].size = hdr[c].size
      /\ \A c \in DOMAIN hdr' : ~hdr'[c].free => ~hdr[c].free /\ c # b
      /\ \A c \in DOMAIN hdr' : ~FreePair(hdr', c)
  BY <1>1, <1>2, <1>3, <1>4, FreedGood
<1>6. TypeOK'
  BY <1>1, <1>5 DEF IInv, TypeOK, GoodList, Typed
<1>7. ListGood'
  <2>1. head = HeapStart /\ HeapStart \in DOMAIN hdr
    BY <1>2 DEF IInv, ListGood, TypeOK
  <2> QED BY <2>1, <1>1, <1>5 DEF IInv, ListGood, NULL
<1>8. LiveBlocks'
  <2>1. {c \in DOMAIN hdr' : ~hdr'[c].free} = {c \in DOMAIN hdr : ~hdr[c].free} \ {b}
    BY <1>5
  <2>2. DOMAIN live' = DOMAIN live \ {p}
    BY <1>1
  <2>3. \A c \in DOMAIN hdr : c # b => c + HeaderSize # p
    BY <1>2, <1>3 DEF Typed
  <2>4. DOMAIN live' = {c + HeaderSize : c \in {d \in DOMAIN hdr' : ~hdr'[d].free}}
    BY <1>2, <2>1, <2>2, <2>3 DEF IInv, LiveBlocks
  <2>5. ASSUME NEW c \in DOMAIN hdr', ~hdr'[c].free
        PROVE  live'[c + HeaderSize] <= hdr'[c].size
    <3>1. c \in DOMAIN hdr /\ ~hdr[c].free /\ hdr'[c].size = hdr[c].size
      BY <2>5, <1>5
    <3>2. c + HeaderSize \in DOMAIN live'
      BY <2>4, <2>5
    <3>3. live'[c + HeaderSize] = live[c + HeaderSize]
      BY <1>1, <3>2
    <3> QED BY <3>1, <3>3 DEF IInv, LiveBlocks
  <2> QED BY <2>4, <2>5 DEF LiveBlocks
<1>9. NoAdjacentFree' /\ HeapTiled'
  BY <1>1, <1>5 DEF IInv, NoAdjacentFree, HeapTiled, Tiled, FreePair
<1> QED BY <1>1, <1>6, <1>7, <1>8, <1>9 DEF IInv, Bounded, FirstFit, TakeFits,
     Booting, Searching, Growing

-----------------------------------------------------------------------------
\* Every step of the specification preserves the inductive invariant.
LEMMA NextIInv == ASSUME RequestsFit, IInv, [Next]_vars PROVE IInv'
<1>1. CASE MapPage
  BY <1>1, MapPageIInv
<1>2. CASE MapFails
  BY <1>2, MapFailsIInv
<1>3. CASE MemoryInit
  BY <1>3, MemoryInitIInv
<1>4. CASE ScanOn
  BY <1>4, ScanOnIInv
<1>5. CASE ScanHit
  BY <1>5, ScanHitIInv
<1>6. CASE ScanMiss
  BY <1>6, ScanMissIInv
<1>7. CASE GrowLink
  BY <1>7, GrowLinkIInv
<1>8. CASE Take
  BY <1>8, TakeIInv
<1>9. CASE \E n \in Requests : Malloc(n)
  BY <1>9, MallocIInv
<1>10. CASE \E p \in DOMAIN live : Free(p)
  BY <1>10, FreeIInv
<1>11. CASE UNCHANGED vars
  <2>1. TypeOK' /\ ListGood' /\ Bounded' /\ LiveBlocks'
    BY <1>11, SameList DEF vars, IInv, TypeOK
  <2> QED BY <1>11, <2>1 DEF vars, IInv, NoAdjacentFree, FirstFit, TakeFits,
       HeapTiled, Booting, Searching, Growing, Tiled, EndOf
<1> QED BY <1>1, <1>2, <1>3, <1>4, <1>5, <1>6, <1>7, <1>8, <1>9, <1>10, <1>11
     DEF Next, Step

\* The inductive invariant of memory.c's heap: from memory_init on, whatever is
\* allocated and freed in whatever order, the list is well formed, holds what the
\* callers hold, and malloc's scan and growth stand where their code left them.
THEOREM HeapInvariant == RequestsFit => (Spec => []IInv)
<1> SUFFICES ASSUME RequestsFit PROVE Spec => []IInv
  OBVIOUS
<1>1. Init => IInv
  BY InitIInv
<1>2. IInv /\ [Next]_vars => IInv'
  BY NextIInv
<1> QED BY <1>1, <1>2, PTL DEF Spec

-----------------------------------------------------------------------------
\* The invariants of Heap are conjuncts of the inductive one, or follow from it.

\* Every variable of memory.c keeps its type, and a list pointer in use is NULL
\* or a header.
THEOREM HeapTypeCorrect == RequestsFit => (Spec => []TypeOK)
<1>1. IInv => TypeOK
  BY DEF IInv
<1> QED BY <1>1, HeapInvariant, PTL

\* Splitting, coalescing and growth never make two blocks of the heap overlap.
THEOREM HeapBlocksDisjoint == RequestsFit => (Spec => []BlocksDisjoint)
<1>1. IInv => BlocksDisjoint
  BY DEF IInv, ListGood, GoodList, Placed, BlocksDisjoint
<1> QED BY <1>1, HeapInvariant, PTL

\* The list of headers stays doubly linked in the order of their addresses.
THEOREM HeapWellLinked == RequestsFit => (Spec => []WellLinked)
<1>1. IInv => WellLinked
  BY DEF IInv, ListGood, GoodList, Linked, WellLinked
<1> QED BY <1>1, HeapInvariant, PTL

\* free() never leaves two free blocks side by side.
THEOREM HeapCoalesced == RequestsFit => (Spec => []NoAdjacentFree)
<1>1. IInv => NoAdjacentFree
  BY DEF IInv
<1> QED BY <1>1, HeapInvariant, PTL

\* The blocks marked used are the callers' allocations, none too small.
THEOREM HeapLiveBlocks == RequestsFit => (Spec => []LiveBlocks)
<1>1. IInv => LiveBlocks
  BY DEF IInv
<1> QED BY <1>1, HeapInvariant, PTL

\* malloc takes the first block that fits and grows only when none does.
THEOREM HeapFirstFit == RequestsFit => (Spec => []FirstFit)
<1>1. IInv => FirstFit
  BY DEF IInv
<1> QED BY <1>1, HeapInvariant, PTL

\* The list covers the mapped heap while no growth has failed.
THEOREM HeapIsTiled == RequestsFit => (Spec => []HeapTiled)
<1>1. IInv => HeapTiled
  BY DEF IInv
<1> QED BY <1>1, HeapInvariant, PTL

-----------------------------------------------------------------------------
\* What malloc's last step does to the allocations: it adds one, apart from all
\* others, and resizes none.
LEMMA TakeAllocates ==
  ASSUME RequestsFit, IInv, Take
  PROVE  /\ Contract!ContractNext
         /\ \A p \in DOMAIN live :
              /\ p - HeaderSize \in DOMAIN hdr'
              /\ hdr'[p - HeaderSize].size = hdr[p - HeaderSize].size
              /\ live'[p] = live[p]
<1> USE HeapConstants DEF HeapConstants
<1> DEFINE p == cursor + HeaderSize
<1>1. /\ cursor \in DOMAIN hdr /\ hdr[cursor].free /\ want <= hdr[cursor].size
      /\ req \in Requests /\ req \in Nat /\ req <= want /\ want \in Nat
      /\ live' = [q \in DOMAIN live \cup {p} |-> IF q = p THEN req ELSE live[q]]
  BY DEF Take, IInv, TypeOK, TakeFits, Searching
<1>2. /\ GoodList(hdr, heap_end) /\ Placed(hdr, heap_end) /\ Typed(hdr)
      /\ \A c \in DOMAIN hdr : c \in Nat \ {0} /\ hdr[c].size \in Nat
      /\ heap_end \in Nat /\ heap_end < WordMod
  BY HeapInWord DEF IInv, TypeOK, ListGood, GoodList, Typed, Block
\* Each allocation is the payload of a used block other than the one taken.
<1>3. ASSUME NEW q \in DOMAIN live
      PROVE  /\ q - HeaderSize \in DOMAIN hdr /\ q - HeaderSize # cursor
             /\ q # p /\ q \in Nat /\ ~hdr[q - HeaderSize].free
             /\ live[q] \in Nat /\ live[q] <= hdr[q - HeaderSize].size
  <2>1. PICK b \in DOMAIN hdr : ~hdr[b].free /\ q = b + HeaderSize
    BY DEF IInv, LiveBlocks
  <2>2. b \in Nat /\ b = q - HeaderSize /\ b # cursor /\ q # p
    BY <2>1, <1>1, <1>2
  <2>3. live[q] <= hdr[b].size /\ live[q] \in Nat
    BY <2>1 DEF IInv, LiveBlocks, TypeOK
  <2> QED BY <2>1, <2>2, <2>3
<1>4. p \in 1 .. (WordMod - 1)
  BY <1>1, <1>2 DEF Placed, EndOf
<1>5. \A q \in DOMAIN live : Contract!Apart(p, req, q, live[q])
  <2> SUFFICES ASSUME NEW q \in DOMAIN live PROVE p + req <= q \/ q + live[q] <= p
    BY DEF Contract!Apart
  <2> DEFINE b == q - HeaderSize
  <2>1. /\ b \in DOMAIN hdr /\ b # cursor /\ q = b + HeaderSize /\ b \in Nat
        /\ live[q] \in Nat /\ live[q] <= hdr[b].size /\ hdr[b].size \in Nat
    BY <1>2, <1>3
  <2>2. CASE b < cursor
    <3>1. EndOf(hdr, b) <= cursor
      BY <2>1, <2>2, <1>1, <1>2 DEF Placed
    <3> HIDE DEF b
    <3> QED BY <2>1, <3>1, <1>1, <1>2 DEF EndOf
  <2>3. CASE cursor < b
    <3>1. EndOf(hdr, cursor) <= b
      BY <2>1, <2>3, <1>1, <1>2 DEF Placed
    <3> HIDE DEF b
    <3> QED BY <2>1, <3>1, <1>1, <1>2 DEF EndOf
  <2>4. b < cursor \/ cursor < b
    <3> HIDE DEF b
    <3> QED BY <2>1, <1>1, <1>2
  <2> QED BY <2>2, <2>3, <2>4
<1>6. Contract!ContractMalloc(p, req)
  <2>1. p \notin DOMAIN live
    BY <1>3
  <2> QED BY <1>1, <1>5, <2>1 DEF Contract!ContractMalloc
<1>7. Contract!ContractNext
  BY <1>1, <1>4, <1>6 DEF Contract!ContractNext
<1>8. ASSUME NEW q \in DOMAIN live
      PROVE  /\ q - HeaderSize \in DOMAIN hdr'
             /\ hdr'[q - HeaderSize].size = hdr[q - HeaderSize].size
             /\ live'[q] = live[q]
  <2> DEFINE h == Split(hdr, cursor, want)
             b == q - HeaderSize
  <2>1. hdr' = SetFree(h, cursor, FALSE)
    BY DEF Take
  <2>2. hdr[cursor].size < WordMod
    BY <1>1, <1>2 DEF Placed, EndOf
  <2>3. \/ h = hdr
        \/ want + HeaderSize <= hdr[cursor].size /\ WasSplit(h, hdr, cursor, want)
    BY <1>1, <1>2, <2>2, SplitFields
  <2>4. b \in DOMAIN hdr /\ b # cursor
    BY <1>3
  <2> HIDE DEF h, b
  <2>5. b \in DOMAIN h /\ h[b].size = hdr[b].size
    <3>1. CASE h = hdr
      BY <3>1, <2>4
    <3>2. CASE want + HeaderSize <= hdr[cursor].size /\ WasSplit(h, hdr, cursor, want)
      <4>1. cursor + HeaderSize + want \notin DOMAIN hdr
        BY <1>1, <1>2, <3>2, SplitGood
      <4> QED BY <2>4, <3>2, <4>1 DEF WasSplit
    <3> QED BY <2>3, <3>1, <3>2
  <2>6. b \in DOMAIN hdr' /\ hdr'[b].size = h[b].size
    BY <2>1, <2>5 DEF SetFree
  <2>7. live'[q] = live[q]
    <3> HIDE DEF p
    <3> QED BY <1>1, <1>3 DEF p
  <2> QED BY <2>5, <2>6, <2>7 DEF b
<1> QED BY <1>7, <1>8

\* What free does to the allocations: it gives up its own, resizes none.
LEMMA FreeReleases ==
  ASSUME IInv, NEW p \in DOMAIN live, Free(p)
  PROVE  /\ Contract!ContractNext
         /\ \A q \in DOMAIN live' :
              /\ q - HeaderSize \in DOMAIN hdr'
              /\ hdr'[q - HeaderSize].size = hdr[q - HeaderSize].size
              /\ live'[q] = live[q]
<1> USE HeapConstants DEF HeapConstants
<1> DEFINE b == p - HeaderSize
<1>1. /\ pc = "idle" /\ hdr' = Freed(hdr, b)
      /\ live' = [q \in DOMAIN live \ {p} |-> live[q]]
  BY DEF Free, Freed
<1>2. \A q \in DOMAIN live :
        /\ q - HeaderSize \in DOMAIN hdr /\ ~hdr[q - HeaderSize].free /\ q \in Nat
  <2> SUFFICES ASSUME NEW q \in DOMAIN live
               PROVE  /\ q - HeaderSize \in DOMAIN hdr /\ ~hdr[q - HeaderSize].free
                      /\ q \in Nat
    OBVIOUS
  <2>1. PICK c \in DOMAIN hdr : ~hdr[c].free /\ q = c + HeaderSize
    BY DEF IInv, LiveBlocks
  <2>2. c \in Nat
    BY <2>1 DEF IInv, TypeOK
  <2> QED BY <2>1, <2>2
<1>3. GoodList(hdr, heap_end) /\ heap_end \in Nat /\ b \in DOMAIN hdr
  BY <1>2 DEF IInv, TypeOK, ListGood
<1>4. \A c \in DOMAIN hdr : ~FreePair(hdr, c)
  BY <1>1 DEF IInv, NoAdjacentFree, FreePair
<1>5. \A c \in DOMAIN hdr : ~hdr[c].free /\ c # b =>
        c \in DOMAIN hdr' /\ ~hdr'[c].free /\ hdr'[c].size = hdr[c].size
  BY <1>1, <1>3, <1>4, FreedGood
<1>6. \A q \in DOMAIN live' :
        /\ q \in DOMAIN live /\ live'[q] = live[q]
        /\ q - HeaderSize \in DOMAIN hdr /\ q - HeaderSize # b
        /\ ~hdr[q - HeaderSize].free
  BY <1>1, <1>2
<1>7. Contract!ContractNext
  BY <1>1 DEF Contract!ContractNext, Contract!ContractFree
<1> QED BY <1>5, <1>6, <1>7

\* Every other action leaves the allocations and the sizes of blocks alone.
LEMMA OthersKeep ==
  ASSUME IInv, [Next]_vars, ~Take, ~\E p \in DOMAIN live : Free(p)
  PROVE  /\ live' = live
         /\ \A p \in DOMAIN live :
              /\ p - HeaderSize \in DOMAIN hdr'
              /\ hdr'[p - HeaderSize].size = hdr[p - HeaderSize].size
<1> USE HeapConstants DEF HeapConstants
<1>1. live' = live
  BY DEF Next, Step, MapPage, MapFails, MemoryInit, Malloc, ScanOn, ScanHit,
         ScanMiss, GrowLink, vars
<1>2. \A p \in DOMAIN live : p - HeaderSize \in DOMAIN hdr
  <2> SUFFICES ASSUME NEW p \in DOMAIN live PROVE p - HeaderSize \in DOMAIN hdr
    OBVIOUS
  <2>1. PICK c \in DOMAIN hdr : p = c + HeaderSize
    BY DEF IInv, LiveBlocks
  <2> QED BY <2>1 DEF IInv, TypeOK
<1>3. CASE MemoryInit
  BY <1>1, <1>3 DEF MemoryInit, IInv, Booting
<1>4. CASE GrowLink
  <2>1. PICK tail \in DOMAIN hdr, n \in Int : hdr' = LinkBehind(hdr, tail, old_end, n)
    BY <1>4 DEF GrowLink, IInv, TypeOK
  <2>2. old_end \notin DOMAIN hdr
    <3>1. \A c \in DOMAIN hdr : c < EndOf(hdr, c) /\ c \in Nat
      BY DEF IInv, TypeOK, Block, EndOf
    <3>2. \A c \in DOMAIN hdr : EndOf(hdr, c) <= old_end
      BY <1>4 DEF GrowLink, IInv, Growing
    <3> QED BY <3>1, <3>2 DEF IInv, TypeOK, Block, EndOf
  <2> QED BY <1>1, <1>2, <2>1, <2>2 DEF LinkBehind
<1>5. CASE hdr' = hdr
  BY <1>1, <1>2, <1>5
<1> QED BY <1>1, <1>3, <1>4, <1>5 DEF Next, Step, MapPage, MapFails, Malloc, ScanOn,
     ScanHit, ScanMiss, vars

\* No call on one pointer resizes, moves or absorbs the block of another.
THEOREM HeapHeldBlocksStay == RequestsFit => (Spec => HeldBlocksStay)
<1> SUFFICES ASSUME RequestsFit PROVE Spec => HeldBlocksStay
  OBVIOUS
<1> DEFINE Stay == \A p \in DOMAIN live \cap DOMAIN live' :
                     /\ p - HeaderSize \in DOMAIN hdr'
                     /\ hdr'[p - HeaderSize].size = hdr[p - HeaderSize].size
                     /\ live'[p] = live[p]
<1>1. IInv /\ [Next]_vars => [Stay]_vars
  <2> SUFFICES ASSUME IInv, [Next]_vars PROVE Stay
    OBVIOUS
  <2>1. CASE Take
    BY <2>1, TakeAllocates
  <2>2. CASE \E p \in DOMAIN live : Free(p)
    BY <2>2, FreeReleases
  <2>3. CASE ~Take /\ ~\E p \in DOMAIN live : Free(p)
    BY <2>3, OthersKeep
  <2> QED BY <2>1, <2>2, <2>3
<1> QED BY <1>1, HeapInvariant, PTL DEF Spec, HeldBlocksStay

\* memory.c keeps the promise of AllocatorContract: each malloc that succeeds
\* returns memory apart from every allocation still in use.
THEOREM HeapImplementsContract == RequestsFit => (Spec => ImplementsContract)
<1> SUFFICES ASSUME RequestsFit PROVE Spec => ImplementsContract
  OBVIOUS
<1>1. Init => Contract!ContractInit
  BY DEF Init, Contract!ContractInit, NoBlocks
<1>2. IInv /\ [Next]_vars => [Contract!ContractNext]_live
  <2> SUFFICES ASSUME IInv, [Next]_vars PROVE [Contract!ContractNext]_live
    OBVIOUS
  <2>1. CASE Take
    BY <2>1, TakeAllocates
  <2>2. CASE \E p \in DOMAIN live : Free(p)
    BY <2>2, FreeReleases
  <2>3. CASE ~Take /\ ~\E p \in DOMAIN live : Free(p)
    BY <2>3, OthersKeep
  <2> QED BY <2>1, <2>2, <2>3
<1> QED BY <1>1, <1>2, HeapInvariant, PTL DEF Spec, ImplementsContract, Contract!ContractSpec

=============================================================================
