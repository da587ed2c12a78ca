------------------------------ MODULE PmmProofs ------------------------------
(***************************************************************************)
(* Safety of the physical memory manager for every bitmap: the accounting  *)
(* of the bits is inductive with the type invariant, and the byte-wise     *)
(* search implements the abstract allocator.                               *)
(***************************************************************************)
EXTENDS Pmm, TLAPS

\* Pages and (byte, bit) pairs correspond.
LEMMA PageSplit ==
  ASSUME NEW page \in Pages
  PROVE  /\ ByteOf(page) \in 0 .. (Bytes - 1) /\ BitOf(page) \in Bits
         /\ page = PageAt(ByteOf(page), BitOf(page))
<1> USE PmmConstants DEF PmmConstants
<1> DEFINE q == page \div ByteBits
           r == page % ByteBits
<1>1. page \in Nat /\ page < ByteBits * Bytes
  BY DEF Pages
<1>2. q \in Nat /\ r \in 0 .. (ByteBits - 1) /\ page = (q * ByteBits) + r
  BY <1>1
<1>3. q < Bytes
  <2> HIDE DEF q, r
  <2> SUFFICES ASSUME Bytes <= q PROVE FALSE
    BY <1>2
  <2>1. Bytes * ByteBits <= q * ByteBits
    BY <1>2
  <2> QED BY <1>1, <1>2, <2>1
<1> QED BY <1>2, <1>3 DEF ByteOf, BitOf, Bits, PageAt

\* Byte and bit of PageAt's page are those it was made from.
LEMMA PageJoin ==
  ASSUME NEW b \in 0 .. (Bytes - 1), NEW i \in Bits
  PROVE  /\ PageAt(b, i) \in Pages
         /\ ByteOf(PageAt(b, i)) = b /\ BitOf(PageAt(b, i)) = i
<1> USE PmmConstants DEF PmmConstants
<1> DEFINE p == (b * ByteBits) + i
<1>1. i \in 0 .. (ByteBits - 1)
  BY DEF Bits
<1>2. b * ByteBits \in Nat /\ p \in Nat
  BY <1>1
<1>3. (b + 1) * ByteBits <= Bytes * ByteBits
  BY <1>2
<1>4. (b + 1) * ByteBits = (b * ByteBits) + ByteBits
  OBVIOUS
<1>5. p < ByteBits * Bytes
  BY <1>1, <1>2, <1>3, <1>4
<1>6. p \div ByteBits = b /\ p % ByteBits = i
  BY <1>1, <1>2
<1> QED BY <1>2, <1>5, <1>6 DEF PageAt, Pages, ByteOf, BitOf

\* Lower bytes, then lower bits, make lower pages.
LEMMA PageOrder ==
  ASSUME NEW b \in 0 .. (Bytes - 1), NEW i \in Bits, NEW p \in Pages,
         \/ b < ByteOf(p)
         \/ b = ByteOf(p) /\ i <= BitOf(p)
  PROVE  PageAt(b, i) <= p
<1> USE PmmConstants DEF PmmConstants
<1> DEFINE c == ByteOf(p)
           j == BitOf(p)
<1>1. c \in 0 .. (Bytes - 1) /\ j \in 0 .. (ByteBits - 1) /\ p = (c * ByteBits) + j
  BY PageSplit DEF PageAt, Bits
<1>2. i \in 0 .. (ByteBits - 1)
  BY DEF Bits
<1> HIDE DEF c, j
<1>3. CASE b = c /\ i <= j
  BY <1>1, <1>2, <1>3 DEF PageAt
<1>4. CASE b < c
  <2>1. (b + 1) * ByteBits <= c * ByteBits
    BY <1>1, <1>4
  <2>2. (b + 1) * ByteBits = (b * ByteBits) + ByteBits
    OBVIOUS
  <2>3. b * ByteBits \in Nat /\ c * ByteBits \in Nat
    BY <1>1
  <2> QED BY <1>1, <1>2, <2>1, <2>2, <2>3 DEF PageAt
<1> QED BY <1>3, <1>4 DEF c, j

\* Setting or clearing the bit of a page changes that page and no other.
LEMMA BitEffect ==
  ASSUME NEW bm \in [0 .. (Bytes - 1) -> SUBSET Bits], NEW page \in Pages
  PROVE  /\ SetBit(bm, page) \in [0 .. (Bytes - 1) -> SUBSET Bits]
         /\ ClearBit(bm, page) \in [0 .. (Bytes - 1) -> SUBSET Bits]
         /\ UsedPages(SetBit(bm, page)) = UsedPages(bm) \cup {page}
         /\ UsedPages(ClearBit(bm, page)) = UsedPages(bm) \ {page}
<1>1. ByteOf(page) \in 0 .. (Bytes - 1) /\ BitOf(page) \in Bits
  BY PageSplit
<1>2. ASSUME NEW p \in Pages
      PROVE  /\ IsUsed(SetBit(bm, page), p) = (IsUsed(bm, p) \/ p = page)
             /\ IsUsed(ClearBit(bm, page), p) = (IsUsed(bm, p) /\ p # page)
  <2>1. ByteOf(p) \in 0 .. (Bytes - 1)
    BY PageSplit
  <2>2. (ByteOf(p) = ByteOf(page) /\ BitOf(p) = BitOf(page)) = (p = page)
    BY PageSplit
  <2> QED BY <1>1, <2>1, <2>2 DEF IsUsed, SetBit, ClearBit
<1>3. UsedPages(SetBit(bm, page)) = UsedPages(bm) \cup {page}
  BY <1>2 DEF UsedPages
<1>4. UsedPages(ClearBit(bm, page)) = UsedPages(bm) \ {page}
  BY <1>2 DEF UsedPages
<1> QED BY <1>1, <1>3, <1>4 DEF SetBit, ClearBit

\* What the search of pmm_alloc_frame ends at: a free page, and the first one.
LEMMA SearchFinds ==
  ASSUME PmmTypeOK, NEW b \in 0 .. (Bytes - 1), NEW i \in Bits, FirstFree(b, i)
  PROVE  /\ PageAt(b, i) \in FreePages(bitmap)
         /\ \A p \in FreePages(bitmap) : PageAt(b, i) <= p
<1> USE PmmConstants DEF PmmConstants
<1>1. /\ i \notin bitmap[b] /\ \A c \in 0 .. (b - 1) : Full(bitmap[c])
      /\ \A j \in Bits \ bitmap[b] : i <= j
  BY DEF FirstFree
<1>2. PageAt(b, i) \in FreePages(bitmap)
  BY <1>1, PageJoin DEF FreePages, IsUsed
<1>3. ASSUME NEW p \in FreePages(bitmap)
      PROVE  PageAt(b, i) <= p
  <2>1. p \in Pages /\ BitOf(p) \notin bitmap[ByteOf(p)]
    BY DEF FreePages, IsUsed
  <2>2. ByteOf(p) \in 0 .. (Bytes - 1) /\ BitOf(p) \in Bits
    BY <2>1, PageSplit
  <2>3. ~(ByteOf(p) < b)
    BY <1>1, <2>1, <2>2 DEF Full
  <2>4. b < ByteOf(p) \/ (b = ByteOf(p) /\ i <= BitOf(p))
    BY <1>1, <2>1, <2>2, <2>3
  <2> QED BY <2>1, <2>4, PageOrder
<1> QED BY <1>2, <1>3

-----------------------------------------------------------------------------
PmmInv == PmmTypeOK /\ Accounted

\* The bitmap init_mem leaves satisfies the invariant.
LEMMA PmmInitInv == PmmInit => PmmInv
<1> USE PmmConstants DEF PmmConstants
<1> SUFFICES ASSUME PmmInit PROVE PmmInv
  OBVIOUS
<1>1. 0 \in Pages /\ ByteOf(0) = 0 /\ BitOf(0) = 0
  <2>1. ByteBits * Bytes \in Nat \ {0}
    OBVIOUS
  <2> QED BY <2>1 DEF Pages, ByteOf, BitOf
<1>2. 0 \in UsedPages(bitmap) /\ UsedPages(bitmap) \subseteq Pages
  BY <1>1 DEF PmmInit, UsedPages, IsUsed
<1> QED BY <1>1, <1>2 DEF PmmInit, PmmInv, PmmTypeOK, Accounted

\* pmm_alloc_frame: what one call changes, when it finds a free page.
LEMMA AllocEffect ==
  ASSUME PmmInv, AllocFrame
  PROVE  \E page \in FreePages(bitmap) :
           /\ \A p \in FreePages(bitmap) : page <= p
           /\ page \notin reserved \cup held /\ page # 0
           /\ UsedPages(bitmap') = UsedPages(bitmap) \cup {page}
           /\ bitmap' \in [0 .. (Bytes - 1) -> SUBSET Bits]
           /\ held' = held \cup {page} /\ last' = page /\ reserved' = reserved
<1>1. PICK b \in 0 .. (Bytes - 1), i \in Bits :
        /\ FirstFree(b, i)
        /\ bitmap' = SetBit(bitmap, PageAt(b, i))
        /\ held' = held \cup {PageAt(b, i)} /\ last' = PageAt(b, i)
        /\ reserved' = reserved
  BY DEF AllocFrame
<1> DEFINE page == PageAt(b, i)
<1>2. page \in FreePages(bitmap) /\ \A p \in FreePages(bitmap) : page <= p
  BY <1>1, SearchFinds DEF PmmInv
<1>3. page \in Pages /\ page \notin UsedPages(bitmap)
  BY <1>2 DEF FreePages, UsedPages
<1>4. page \notin reserved \cup held /\ page # 0
  BY <1>3 DEF PmmInv, Accounted
<1>5. /\ UsedPages(bitmap') = UsedPages(bitmap) \cup {page}
      /\ bitmap' \in [0 .. (Bytes - 1) -> SUBSET Bits]
  BY <1>1, <1>3, BitEffect DEF PmmInv, PmmTypeOK
<1> QED BY <1>1, <1>2, <1>4, <1>5

\* pmm_alloc_frame and pmm_free_frame preserve it.
LEMMA PmmNextInv == PmmInv /\ [PmmNext]_pmmVars => PmmInv'
<1> SUFFICES ASSUME PmmInv, [PmmNext]_pmmVars PROVE PmmInv'
  OBVIOUS
<1>1. CASE AllocFrame
  <2>1. PICK page \in FreePages(bitmap) :
           /\ page \notin reserved \cup held /\ page # 0
           /\ UsedPages(bitmap') = UsedPages(bitmap) \cup {page}
           /\ bitmap' \in [0 .. (Bytes - 1) -> SUBSET Bits]
           /\ held' = held \cup {page} /\ last' = page /\ reserved' = reserved
    BY <1>1, AllocEffect
  <2>2. page \in Pages
    BY DEF FreePages
  <2> QED BY <2>1, <2>2 DEF PmmInv, PmmTypeOK, Accounted
<1>2. CASE AllocFails
  BY <1>2 DEF AllocFails, PmmInv, PmmTypeOK, Accounted
<1>3. CASE \E page \in held : FreeFrame(page)
  <2>1. PICK page \in held : FreeFrame(page)
    BY <1>3
  <2>2. page \in Pages
    BY DEF PmmInv, PmmTypeOK
  <2>3. /\ UsedPages(bitmap') = UsedPages(bitmap) \ {page}
        /\ bitmap' \in [0 .. (Bytes - 1) -> SUBSET Bits]
    BY <2>1, <2>2, BitEffect DEF FreeFrame, PmmInv, PmmTypeOK
  <2> QED BY <2>1, <2>3 DEF FreeFrame, PmmInv, PmmTypeOK, Accounted
<1>4. CASE UNCHANGED pmmVars
  BY <1>4 DEF pmmVars, PmmInv, PmmTypeOK, Accounted
<1> QED BY <1>1, <1>2, <1>3, <1>4 DEF PmmNext

\* It holds in every state of the bitmap allocator.
LEMMA PmmInvariant == PmmSpec => []PmmInv
BY PmmInitInv, PmmNextInv, PTL DEF PmmSpec

\* The bitmap stays a bitmap.
THEOREM PmmTypeCorrect == PmmSpec => []PmmTypeOK
<1>1. PmmInv => PmmTypeOK
  BY DEF PmmInv
<1> QED BY <1>1, PmmInvariant, PTL

\* A page is used because it was reserved or because exactly one caller has it.
THEOREM PmmAccounted == PmmSpec => []Accounted
<1>1. PmmInv => Accounted
  BY DEF PmmInv
<1> QED BY <1>1, PmmInvariant, PTL

\* pmm_alloc_frame returns the first free page.
THEOREM PmmLowestFirst == PmmSpec => LowestFirst
<1> DEFINE Lowest == \A page \in held' \ held : \A p \in FreePages(bitmap) : page <= p
<1>1. PmmInv /\ [PmmNext]_pmmVars => [Lowest]_pmmVars
  <2> SUFFICES ASSUME PmmInv, PmmNext PROVE Lowest
    OBVIOUS
  <2>1. CASE AllocFrame
    BY <2>1, AllocEffect
  <2>2. CASE AllocFails
    BY <2>2 DEF AllocFails
  <2>3. CASE \E page \in held : FreeFrame(page)
    BY <2>3 DEF FreeFrame
  <2> QED BY <2>1, <2>2, <2>3 DEF PmmNext
<1> QED BY <1>1, PmmInvariant, PTL DEF PmmSpec, LowestFirst

\* pmm.zig implements the allocator: a frame nobody has, or 0 when none is left.
THEOREM PmmImplementsAllocator == PmmSpec => ImplementsAllocator
<1>1. PmmInit => Allocator!AllocatorInit
  <2> SUFFICES ASSUME PmmInit PROVE Allocator!AllocatorInit
    OBVIOUS
  <2>1. PmmInv
    BY PmmInitInv
  <2>2. FreePages(bitmap) \subseteq Nat \ {0}
    BY <2>1 DEF PmmInv, Accounted, FreePages, UsedPages, Pages
  <2> QED BY <2>2 DEF PmmInit, Allocator!AllocatorInit, Allocator!NoFrame
<1>2. PmmInv /\ [PmmNext]_pmmVars
        => [Allocator!AllocatorNext]_<<FreePages(bitmap), held, last>>
  <2> SUFFICES ASSUME PmmInv, [PmmNext]_pmmVars
               PROVE  [Allocator!AllocatorNext]_<<FreePages(bitmap), held, last>>
    OBVIOUS
  <2>0. /\ FreePages(bitmap) = Pages \ UsedPages(bitmap)
        /\ FreePages(bitmap') = Pages \ UsedPages(bitmap')
    BY DEF FreePages, UsedPages
  <2>1. CASE AllocFrame
    <3>1. PICK page \in FreePages(bitmap) :
            /\ UsedPages(bitmap') = UsedPages(bitmap) \cup {page}
            /\ held' = held \cup {page} /\ last' = page
      BY <2>1, AllocEffect
    <3>2. FreePages(bitmap)' = FreePages(bitmap) \ {page}
      BY <2>0, <3>1
    <3> QED BY <3>1, <3>2 DEF Allocator!AllocatorNext, Allocator!Grant
  <2>2. CASE AllocFails
    <3>1. FreePages(bitmap) = {}
      <4> SUFFICES ASSUME NEW p \in FreePages(bitmap) PROVE FALSE
        OBVIOUS
      <4>1. p \in Pages /\ ~IsUsed(bitmap, p)
        BY DEF FreePages
      <4>2. ByteOf(p) \in 0 .. (Bytes - 1) /\ BitOf(p) \in Bits
        BY <4>1, PageSplit
      <4> QED BY <4>1, <4>2, <2>2 DEF AllocFails, Full, IsUsed
    <3> QED BY <2>2, <3>1 DEF AllocFails, Allocator!AllocatorNext, Allocator!Refuse,
             Allocator!NoFrame, FreePages
  <2>3. CASE \E page \in held : FreeFrame(page)
    <3>1. PICK page \in held : FreeFrame(page)
      BY <2>3
    <3>2. page \in Pages
      BY DEF PmmInv, PmmTypeOK
    <3>3. UsedPages(bitmap') = UsedPages(bitmap) \ {page}
      BY <3>1, <3>2, BitEffect DEF FreeFrame, PmmInv, PmmTypeOK
    <3>4. FreePages(bitmap)' = FreePages(bitmap) \cup {page}
      BY <2>0, <3>2, <3>3
    <3> QED BY <3>1, <3>4 DEF FreeFrame, Allocator!AllocatorNext, Allocator!GiveBack
  <2>4. CASE UNCHANGED pmmVars
    BY <2>4 DEF pmmVars, FreePages
  <2> QED BY <2>1, <2>2, <2>3, <2>4 DEF PmmNext
<1> QED BY <1>1, <1>2, PmmInvariant, PTL DEF PmmSpec, ImplementsAllocator,
     Allocator!AllocatorSpec

=============================================================================
