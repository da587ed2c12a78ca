--------------------------------- MODULE Pmm ---------------------------------
(***************************************************************************)
(* The physical memory manager of src/src/mm/pmm.zig once init_mem has set *)
(* its bitmap up (BootMemory models that part): one bit per 4 KB frame, 1  *)
(* for used or reserved, searched byte by byte.                            *)
(*                                                                         *)
(* A byte of the bitmap is the set of its bits that are 1.  held, reserved *)
(* and last are the specification's record of what the callers have.       *)
(* pmm_free_frame has no caller in the kernel yet; it is modelled for one  *)
(* that returns frames it was given.                                       *)
(***************************************************************************)
EXTENDS Integers

CONSTANTS
  ByteBits,  \* bits in a byte: 8
  Bytes      \* length of the bitmap slice

\* The slice is not empty: RAM reaches beyond the first byte's frames.
ASSUME PmmConstants == ByteBits \in Nat \ {0} /\ Bytes \in Nat \ {0}

VARIABLES
  bitmap,    \* byte index |-> its bits that are 1
  held,      \* frame numbers handed out and not given back
  reserved,  \* frame numbers that were used before the first request
  last       \* what the latest pmm_alloc_frame returned, as a frame number

pmmVars == <<bitmap, held, reserved, last>>

Bits == 0 .. (ByteBits - 1)
ByteOf(page) == page \div ByteBits
BitOf(page) == page % ByteBits

\* A page number that is one too high.
PageAfter(b, i) == (b * ByteBits) + i + 1

\* page_idx of bit i of byte b.
PageAt(b, i) == (b * ByteBits) + i

Pages == 0 .. (ByteBits * Bytes - 1)

IsUsed(bm, page) == BitOf(page) \in bm[ByteOf(page)]
UsedPages(bm) == {p \in Pages : IsUsed(bm, p)}
FreePages(bm) == {p \in Pages : ~IsUsed(bm, p)}

\* A test that takes a byte with its top bit set for a full one.
FullByTopBit(byte) == ByteBits - 1 \in byte

\* byte == 0xFF
Full(byte) == byte = Bits

\* A frame handed out without being marked.
LeaveBit(bm, page) == bm

\* The bitmap with the bit of one page set or cleared: pmm_mark_region_used
\* and pmm_mark_region_free called with the size of one page.
SetBit(bm, page) == [bm EXCEPT ![ByteOf(page)] = @ \cup {BitOf(page)}]
ClearBit(bm, page) == [bm EXCEPT ![ByteOf(page)] = @ \ {BitOf(page)}]

\* Whatever init_mem leaves: any bitmap that reserves page 0.
PmmInit ==
  /\ bitmap \in [0 .. (Bytes - 1) -> SUBSET Bits] /\ 0 \in bitmap[0]
  /\ held = {} /\ reserved = UsedPages(bitmap) /\ last = 0

\* A search that ends at the last bit that is 0 instead of the first.
TakesHighBit(b, i) ==
  /\ ~Full(bitmap[b]) /\ \A c \in 0 .. (b - 1) : Full(bitmap[c])
  /\ i \in Bits \ bitmap[b] /\ \A j \in Bits \ bitmap[b] : j <= i

\* The first byte that is not full, and its first bit that is 0.
FirstFree(b, i) ==
  /\ ~Full(bitmap[b]) /\ \A c \in 0 .. (b - 1) : Full(bitmap[c])
  /\ i \in Bits \ bitmap[b] /\ \A j \in Bits \ bitmap[b] : i <= j

AllocFrame ==
  \E b \in 0 .. (Bytes - 1), i \in Bits :
    /\ FirstFree(b, i)
    /\ LET page == PageAt(b, i)
       IN  /\ bitmap' = SetBit(bitmap, page)
           /\ held' = held \cup {page} /\ last' = page
    /\ UNCHANGED reserved

\* Every byte is full: return 0.
AllocFails ==
  /\ \A b \in 0 .. (Bytes - 1) : Full(bitmap[b])
  /\ last' = 0
  /\ UNCHANGED <<bitmap, held, reserved>>

FreeFrame(page) ==
  /\ page \in held
  /\ bitmap' = ClearBit(bitmap, page)
  /\ held' = held \ {page}
  /\ UNCHANGED <<reserved, last>>

PmmNext == AllocFrame \/ AllocFails \/ \E page \in held : FreeFrame(page)

PmmSpec == PmmInit /\ [][PmmNext]_pmmVars

-----------------------------------------------------------------------------
\* The bitmap keeps its length and its bytes their bits; what was handed out
\* are page numbers of the bitmap.
PmmTypeOK ==
  /\ bitmap \in [0 .. (Bytes - 1) -> SUBSET Bits]
  /\ held \subseteq Pages /\ reserved \subseteq Pages
  /\ last \in Pages

\* Every bit that is 1 has exactly one reason: its page was reserved at boot or
\* one caller has it.  So no page is handed out twice, none that was reserved is
\* handed out at all, and none is lost.
Accounted ==
  /\ UsedPages(bitmap) = reserved \cup held
  /\ reserved \cap held = {}
  /\ 0 \in reserved

\* The byte-wise search finds the first free page of all: no page below the one
\* returned is free, in its byte or in an earlier one.
LowestFirst ==
  [][\A page \in held' \ held : \A p \in FreePages(bitmap) : page <= p]_pmmVars

\* The bitmap implements the allocator the kernel relies on; in particular 0 is
\* returned only when nothing is free, and never as a page number.
Allocator == INSTANCE FrameAllocator WITH avail <- FreePages(bitmap)
ImplementsAllocator == Allocator!AllocatorSpec
=============================================================================
