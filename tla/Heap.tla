-------------------------------- MODULE Heap --------------------------------
(***************************************************************************)
(* The kernel heap of src/src/lib/memory.c: a doubly linked list of block  *)
(* headers kept inside the heap itself, first-fit malloc with splitting,   *)
(* free with coalescing in both directions, growth page by page from the   *)
(* physical memory manager.                                                *)
(*                                                                         *)
(* hdr maps the address of every header that is in the list to its         *)
(* fields; a header that coalescing absorbs leaves the list and the        *)
(* domain.  malloc is a small state machine (pc), because its page loop    *)
(* may stop half way; free runs in one step.  live is what the callers     *)
(* hold: the specification's own record of the pointers returned and not   *)
(* yet freed, with the size asked for.                                     *)
(*                                                                         *)
(* Sizes and addresses are uint32_t in the code: every addition that could *)
(* leave the word is taken modulo WordMod.                                 *)
(***************************************************************************)
EXTENDS Integers, FiniteSets

CONSTANTS
  HeaderSize,    \* HEADER_SIZE: sizeof(block_header_t), 16 on i386
  MinSplit,      \* the 16 of split_block: smallest payload worth a header
  Alignment,     \* malloc rounds sizes up to a multiple of it: 8
  PageSize,      \* PAGE_SIZE: 4096
  HeapStart,     \* HEAP_VIRT_START: 0xD0000000
  InitialPages,  \* HEAP_INITIAL_PAGES: 16
  WordMod,       \* 2^32
  Frames,        \* frames the PMM has left when memory_init runs
  Requests       \* the non-zero sizes callers pass to malloc

NULL == 0

\* The constants of the code, and RAM small enough that the heap cannot reach
\* the end of the address space (768 MB above HEAP_VIRT_START).
ASSUME HeapConstants ==
  /\ HeaderSize \in Nat \ {0} /\ MinSplit \in Nat /\ Alignment \in Nat \ {0}
  /\ PageSize \in Nat /\ HeaderSize < PageSize
  /\ HeapStart \in Nat \ {0} /\ InitialPages \in Nat \ {0} /\ Frames \in Nat
  /\ WordMod \in Nat \ {0} /\ HeapStart + Frames * PageSize < WordMod
  /\ Requests \subseteq Nat \ {0}

VARIABLES
  head,      \* the first header of the list, NULL before memory_init
  heap_end,  \* end of the mapped heap
  hdr,       \* header address |-> [size, free, next, prev]
  frames,    \* frames the PMM can still hand out
  pc,        \* where the heap code is; "idle" between calls
  req,       \* malloc: the size asked for
  want,      \* malloc: that size rounded up
  cursor,    \* malloc: the variable block
  pages,     \* heap_map_pages: pages still to map
  old_end,   \* heap_grow: heap_end on entry
  live       \* pointer returned and not freed |-> size asked for

vars == <<head, heap_end, hdr, frames, pc, req, want, cursor, pages, old_end, live>>

AlignUp(x, a) == (((x + (a - 1)) % WordMod) \div a) * a

EndOf(h, b) == b + HeaderSize + h[b].size

\* Slips in the test of malloc's loop: one that asks for more than it needs,
\* one that counts the header as payload, one that forgets block->free.
FitsStrictly(b) == hdr[b].free /\ hdr[b].size > want
FitsWithHeader(b) == hdr[b].free /\ hdr[b].size + HeaderSize >= want
FitsUsed(b) == hdr[b].size >= want

Fits(b) == hdr[b].free /\ hdr[b].size >= want
NoBlocks == [b \in {} |-> 0]

\* A call returns: its local variables are gone.
Return ==
  /\ pc' = "idle"
  /\ req' = 0 /\ want' = 0 /\ cursor' = NULL /\ pages' = 0 /\ old_end' = 0

Init ==
  /\ head = NULL /\ heap_end = HeapStart /\ hdr = NoBlocks /\ frames = Frames
  /\ pc = "boot" /\ pages = InitialPages
  /\ req = 0 /\ want = 0 /\ cursor = NULL /\ old_end = 0
  /\ live = NoBlocks

-----------------------------------------------------------------------------
\* heap_map_pages, the loop that memory_init and heap_grow both run.

\* One iteration that gets its frame.  mmu_map_page may take one more for a
\* page table.
MapPage ==
  /\ pc \in {"boot", "grow"} /\ pages > 0 /\ frames > 0
  /\ \E taken \in {1, 2} : taken <= frames /\ frames' = frames - taken
  /\ heap_end' = heap_end + PageSize
  /\ pages' = pages - 1
  /\ UNCHANGED <<head, hdr, pc, req, want, cursor, old_end, live>>

\* pmm_alloc_frame() returned 0: the pages mapped so far stay mapped and
\* heap_end keeps them.  memory_init logs and returns with head still NULL,
\* malloc returns NULL.
MapFails ==
  /\ pc \in {"boot", "grow"} /\ pages > 0 /\ frames = 0
  /\ Return
  /\ UNCHANGED <<head, heap_end, hdr, frames, live>>

\* memory_init after the initial pages are mapped: one free block.
MemoryInit ==
  /\ pc = "boot" /\ pages = 0
  /\ head' = HeapStart
  /\ hdr' = [b \in {HeapStart} |->
               [size |-> (heap_end - HeapStart) - HeaderSize, free |-> TRUE,
                next |-> NULL, prev |-> NULL]]
  /\ Return
  /\ UNCHANGED <<heap_end, frames, live>>

-----------------------------------------------------------------------------
\* malloc.  malloc(0) returns NULL at once and changes nothing.

Malloc(n) ==
  /\ pc = "idle"
  /\ req' = n /\ want' = AlignUp(n, Alignment)
  /\ cursor' = head
  /\ pc' = "scan"
  /\ UNCHANGED <<head, heap_end, hdr, frames, pages, old_end, live>>

\* A loop that forgets block = block->next.
ScanStays ==
  /\ pc = "scan" /\ cursor # NULL /\ ~Fits(cursor)
  /\ UNCHANGED vars

ScanOn ==
  /\ pc = "scan" /\ cursor # NULL /\ ~Fits(cursor)
  /\ cursor' = hdr[cursor].next
  /\ UNCHANGED <<head, heap_end, hdr, frames, pc, req, want, pages, old_end, live>>

ScanHit ==
  /\ pc = "scan" /\ cursor # NULL /\ Fits(cursor)
  /\ pc' = "take"
  /\ UNCHANGED <<head, heap_end, hdr, frames, req, want, cursor, pages, old_end, live>>

\* No block fits: heap_grow(size + HEADER_SIZE) computes its page count.
ScanMiss ==
  /\ pc = "scan" /\ cursor = NULL
  /\ pages' = AlignUp((want + HeaderSize) % WordMod, PageSize) \div PageSize
  /\ old_end' = heap_end
  /\ pc' = "grow"
  /\ UNCHANGED <<head, heap_end, hdr, frames, req, want, cursor, live>>

\* The new block goes behind the tail of the list.
LinkBehind(h, tail, block, n) ==
  [b \in DOMAIN h \cup {block} |->
     IF b = block
     THEN [size |-> n, free |-> TRUE, next |-> NULL, prev |-> tail]
     ELSE [size |-> h[b].size, free |-> h[b].free,
           next |-> IF b = tail THEN block ELSE h[b].next, prev |-> h[b].prev]]

\* heap_grow after its pages are mapped; malloc goes on with the new block.
GrowLink ==
  /\ pc = "grow" /\ pages = 0
  /\ \E tail \in DOMAIN hdr :
       /\ hdr[tail].next = NULL
       /\ hdr' = LinkBehind(hdr, tail, old_end, ((heap_end - old_end) - HeaderSize) % WordMod)
  /\ cursor' = old_end
  /\ pc' = "take"
  /\ UNCHANGED <<head, heap_end, frames, req, want, pages, old_end, live>>

\* split_block(block, size) on the headers h.
Split(h, block, n) ==
  LET rest      == (h[block].size - n) % WordMod
      new_block == block + HeaderSize + n
  IN  IF rest < HeaderSize + MinSplit THEN h
      ELSE [b \in DOMAIN h \cup {new_block} |->
              IF b = new_block
              THEN [size |-> rest - HeaderSize, free |-> TRUE,
                    next |-> h[block].next, prev |-> block]
              ELSE [size |-> IF b = block THEN n ELSE h[b].size,
                    free |-> h[b].free,
                    next |-> IF b = block THEN new_block ELSE h[b].next,
                    prev |-> IF b = h[block].next THEN new_block ELSE h[b].prev]]

\* block->free = is_free.
SetFree(h, block, is_free) ==
  [b \in DOMAIN h |->
     [size |-> h[b].size, free |-> IF b = block THEN is_free ELSE h[b].free,
      next |-> h[b].next, prev |-> h[b].prev]]

\* The end of malloc on both paths: split, mark used, return the payload.
Take ==
  /\ pc = "take"
  /\ hdr' = SetFree(Split(hdr, cursor, want), cursor, FALSE)
  /\ live' = [p \in DOMAIN live \cup {cursor + HeaderSize} |->
                IF p = cursor + HeaderSize THEN req ELSE live[p]]
  /\ Return
  /\ UNCHANGED <<head, heap_end, frames>>

-----------------------------------------------------------------------------
\* free.  free(NULL) returns at once and changes nothing.

\* A merge that loses the header's size, one that forgets to unlink b.
MergedSizeNoHeader(h, a, b) == h[a].size + h[b].size
AbsorbKeepsNext(h, a, b) ==
  [c \in DOMAIN h \ {b} |->
     [h[c] EXCEPT !.size = IF c = a THEN @ + HeaderSize + h[b].size ELSE @]]

MergedSize(h, a, b) == h[a].size + HeaderSize + h[b].size

\* Block a absorbs its successor b, whose own successor learns of it.
Absorb(h, a, b) ==
  [c \in DOMAIN h \ {b} |->
     [size |-> IF c = a THEN MergedSize(h, a, b) ELSE h[c].size,
      free |-> h[c].free,
      next |-> IF c = a THEN h[b].next ELSE h[c].next,
      prev |-> IF c = h[b].next THEN a ELSE h[c].prev]]

\* A free that never merges, one that forgets to ask whether both are free.
NeverMergeable(h, a, b) == FALSE
MergeableUsed(h, a, b) == EndOf(h, a) = b

Mergeable(h, a, b) == h[a].free /\ h[b].free /\ EndOf(h, a) = b

\* The merge of free(), run once with the block and its next and once with
\* its prev and the block.
Coalesce(h, a, b) ==
  IF a # NULL /\ b # NULL /\ Mergeable(h, a, b) THEN Absorb(h, a, b) ELSE h

\* The caller passes a pointer it holds.
Free(p) ==
  LET b     == p - HeaderSize
      freed == SetFree(hdr, b, TRUE)
      right == Coalesce(freed, b, freed[b].next)
  IN  /\ pc = "idle"
      /\ hdr' = Coalesce(right, right[b].prev, b)
      /\ live' = [q \in DOMAIN live \ {p} |-> live[q]]
      /\ UNCHANGED <<head, heap_end, frames, pc, req, want, cursor, pages, old_end>>

-----------------------------------------------------------------------------
\* The code that runs on by itself once malloc or memory_init is called.
Step ==
  \/ MapPage \/ MapFails \/ MemoryInit
  \/ ScanOn \/ ScanHit \/ ScanMiss \/ GrowLink \/ Take

Next ==
  \/ Step
  \/ \E n \in Requests : Malloc(n)
  \/ \E p \in DOMAIN live : Free(p)

Spec == Init /\ [][Next]_vars

\* The processor goes on executing a call that has begun: heap code neither
\* waits nor loops on anything but its list and its page count.
FairSpec == Spec /\ WF_vars(Step)

-----------------------------------------------------------------------------
\* The requests whose rounding and page count stay inside the word.
RequestsFit ==
  \A n \in Requests : n + Alignment + HeaderSize + PageSize < WordMod

Block == [size : Nat, free : BOOLEAN, next : Nat, prev : Nat]

\* Every variable of memory.c and of the model keeps its type; a list pointer
\* in use is NULL or the address of a header.
TypeOK ==
  /\ head \in {NULL, HeapStart} /\ heap_end \in Nat
  /\ DOMAIN hdr \subseteq Nat \ {0} /\ hdr \in [DOMAIN hdr -> Block]
  /\ frames \in 0 .. Frames
  /\ pc \in {"boot", "idle", "scan", "grow", "take"}
  /\ req \in Nat /\ want \in Nat /\ pages \in Nat /\ old_end \in Nat
  /\ cursor \in Nat
  /\ pc \in {"scan", "take"} => cursor \in DOMAIN hdr \cup {NULL}
  /\ DOMAIN live \subseteq Nat \ {0} /\ live \in [DOMAIN live -> Requests]

\* No header and no payload overlaps another or leaves the mapped heap,
\* whatever splitting, coalescing and growth did.
BlocksDisjoint ==
  /\ \A b \in DOMAIN hdr : HeapStart <= b /\ EndOf(hdr, b) <= heap_end
  /\ \A b, c \in DOMAIN hdr : b < c => EndOf(hdr, b) <= c

\* The list holds every header in the order of their addresses, and each prev
\* mirrors the next it stands against: the updates of split_block, heap_grow
\* and the two merges of free never lose or misplace a block.
WellLinked ==
  /\ (head = NULL) = (DOMAIN hdr = {})
  /\ head # NULL => head \in DOMAIN hdr
  /\ \A b \in DOMAIN hdr :
       /\ hdr[b].next # NULL => /\ hdr[b].next \in DOMAIN hdr /\ b < hdr[b].next
                                /\ hdr[hdr[b].next].prev = b
       /\ hdr[b].prev # NULL => /\ hdr[b].prev \in DOMAIN hdr /\ hdr[b].prev < b
                                /\ hdr[hdr[b].prev].next = b
       /\ \A c \in DOMAIN hdr :
            /\ b < c => hdr[b].next # NULL /\ hdr[b].next <= c
            /\ c < b => hdr[b].prev # NULL /\ c <= hdr[b].prev

\* free merges on both sides, so two free blocks never touch; the only pair
\* that may is the tail and the block heap_grow put behind it, until malloc
\* takes that block.
NoAdjacentFree ==
  \A b \in DOMAIN hdr :
    LET n == hdr[b].next
    IN  hdr[b].free /\ n # NULL /\ hdr[n].free /\ EndOf(hdr, b) = n
          => pc = "take" /\ cursor = n

\* The blocks marked used are exactly the payloads callers hold, each at least
\* as large as they asked for: nothing held is ever handed out, split or
\* absorbed, and nothing freed stays used.
LiveBlocks ==
  /\ DOMAIN live = {b + HeaderSize : b \in {c \in DOMAIN hdr : ~hdr[c].free}}
  /\ \A b \in DOMAIN hdr : ~hdr[b].free => live[b + HeaderSize] <= hdr[b].size

\* malloc is first-fit: it never passes over a free block that is large
\* enough, so it takes the lowest one and grows the heap only when none fits.
FirstFit ==
  pc \in {"scan", "grow", "take"} =>
    \A b \in DOMAIN hdr :
      cursor = NULL \/ b < cursor => ~(hdr[b].free /\ hdr[b].size >= want)

\* The block malloc is about to take is free and large enough, also when it
\* has just been grown from a rounded page count.
TakeFits ==
  pc = "take" => /\ cursor \in DOMAIN hdr
                 /\ hdr[cursor].free /\ hdr[cursor].size >= want /\ want >= req

\* No byte of the mapped heap is lost to the list as long as no growth failed
\* half way (it then left the PMM empty, for good): each block ends where the
\* next one starts, the last one at heap_end.
HeapTiled ==
  frames > 0 /\ pc \in {"idle", "scan", "take"} =>
    \A b \in DOMAIN hdr :
      EndOf(hdr, b) = IF hdr[b].next = NULL THEN heap_end ELSE hdr[b].next

\* What a caller holds stays as large as it was until it is freed: no call on
\* another pointer resizes, moves or absorbs its block.
HeldBlocksStay ==
  [][\A p \in DOMAIN live \cap DOMAIN live' :
       /\ p - HeaderSize \in DOMAIN hdr'
       /\ hdr'[p - HeaderSize].size = hdr[p - HeaderSize].size
       /\ live'[p] = live[p]]_vars

\* The heap implements the contract of malloc and free.
Contract == INSTANCE AllocatorContract WITH Addresses <- 1 .. (WordMod - 1)
ImplementsContract == Contract!ContractSpec

\* Every call returns: the list has no cycle and growth is bounded by the PMM.
CallsReturn == pc # "idle" ~> pc = "idle"
=============================================================================
