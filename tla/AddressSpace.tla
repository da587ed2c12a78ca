---------------------------- MODULE AddressSpace ----------------------------
(***************************************************************************)
(* The kernel's address space: src/src/mm/mmu.zig with the page loop of    *)
(* src/src/lib/memory.c that extends the heap, on the i386's two levels of *)
(* tables.  The last slot of the page directory refers to the directory    *)
(* itself, so the table of slot d is seen at the page Window(d), and the   *)
(* directory at the last page of all.                                      *)
(*                                                                         *)
(* Pages and frames are numbers.  Every mapping the kernel makes is        *)
(* present, writable and kernel-only, so an entry is just its frame.  What *)
(* a frame holds that nobody cleared is Junk: whatever the previous owner, *)
(* the firmware or a write left there.  The TLB keeps every translation    *)
(* used since its page's last invlpg, the most that an eviction could have *)
(* kept; translations fetched ahead of any use are not modelled.           *)
(*                                                                         *)
(* The physical memory manager is FrameAllocator with the lowest frame     *)
(* first, which Pmm implements.                                            *)
(***************************************************************************)
EXTENDS Integers, FiniteSets

CONSTANTS
  Entries,       \* slots of a table and of the directory: 1024
  HeapSlot,      \* the directory slot of HEAP_VIRT_START: 832
  InitialPages,  \* HEAP_INITIAL_PAGES: 16
  Frame,         \* page frames of the machine
  Ram,           \* those whose bit is 0 when mmu_init runs
  GrowSizes,     \* page counts heap_grow asks for
  Touched,       \* pages the kernel touches: heap data, peek, poke; of the
                 \* window the directory only
  Absent,        \* an entry whose present bit is 0
  Junk           \* an entry nobody wrote

Slot == 0 .. (Entries - 1)
Page == 0 .. (Entries * Entries - 1)
HeapStart == HeapSlot * Entries
Window(d) == (Entries - 1) * Entries + d

\* RAM that cannot fill the address space between the heap's start and the
\* window (764 MB), and that has room for the two frames of mmu_init.
ASSUME SpaceConstants ==
  /\ Entries \in Nat /\ HeapSlot \in 1 .. (Entries - 2) /\ InitialPages \in Nat \ {0}
  /\ Frame \subseteq Nat /\ IsFiniteSet(Frame) /\ Slot \subseteq Frame
  /\ Ram \subseteq Frame \ {0} /\ Cardinality(Ram) >= 2
  /\ HeapStart + Cardinality(Ram) <= Window(0)
  /\ GrowSizes \subseteq Nat \ {0}
  /\ Touched \subseteq 0 .. (Window(0) - 1) \cup {Window(Entries - 1)}
  /\ Absent \notin Frame /\ Junk \notin Frame /\ Absent # Junk

VARIABLES
  mem,       \* frame |-> its contents as a table: slot |-> entry
  pd,        \* the frame of kernel_directory, and of CR3
  tlb,       \* page |-> frame
  avail,     \* frames the PMM can still hand out
  held,      \* frames it has handed out
  last,      \* what the latest pmm_alloc_frame returned
  heap_end,  \* the page after the last one heap_map_pages mapped
  pages,     \* heap_map_pages: pages still to map, 0 outside of it
  touch,     \* the page of the access in progress, if pc is "access"
  phys,      \* mmu_map_page: the frame to map
  virt,      \* mmu_map_page: the page to map it at
  pc

spaceVars == <<mem, pd, tlb, avail, held, last, heap_end, pages, touch, phys, virt, pc>>

Frames == INSTANCE FrameAllocator

Lowest(f) == f \in avail /\ \A g \in avail : f <= g

-----------------------------------------------------------------------------
\* The processor.

\* What it finds in the tables for a page: a frame, Absent or Junk.
Walk(page) ==
  LET pde == mem[pd][page \div Entries]
  IN  IF pde \in {Absent, Junk} THEN pde ELSE mem[pde][page % Entries]

Lookup(page) == IF page \in DOMAIN tlb THEN tlb[page] ELSE Walk(page)

\* Where an access may lead: junk may be present, for any frame, or absent.
Resolves(page) == IF Lookup(page) = Junk THEN Frame \cup {Absent} ELSE {Lookup(page)}

\* The TLB after an access to page through frame.
Cached(t, page, frame) == [p \in DOMAIN t \cup {page} |-> IF p = page THEN frame ELSE t[p]]

\* invlpg left out, and invlpg.
Kept(t, page) == t
Invlpg(t, page) == [p \in DOMAIN t \ {page} |-> t[p]]

Uncleared == [s \in Slot |-> Junk]
Cleared == [s \in Slot |-> Absent]

-----------------------------------------------------------------------------
\* mmu_init and mmu_enable.

SpaceInit ==
  /\ mem = [f \in Frame |-> Uncleared] /\ pd = 0
  /\ tlb = [p \in {} |-> 0]
  /\ avail = Ram /\ held = {} /\ last = 0
  /\ heap_end = 0 /\ pages = 0 /\ touch = 0 /\ phys = 0 /\ virt = 0
  /\ pc = "directory"

\* The directory: a frame of zeros.  Paging is still off.
InitDirectory ==
  /\ pc = "directory"
  /\ \E f \in avail :
       /\ Lowest(f) /\ Frames!Grant(f)
       /\ pd' = f /\ mem' = [mem EXCEPT ![f] = Cleared]
  /\ pc' = "table0"
  /\ UNCHANGED <<tlb, heap_end, pages, touch, phys, virt>>

\* The table that maps the first pages to the frames of the same numbers, the
\* two slots of the directory, and mmu_enable, which loads CR3.
InitTable ==
  /\ pc = "table0"
  /\ \E f \in avail :
       /\ Lowest(f) /\ Frames!Grant(f)
       /\ mem' = [mem EXCEPT ![f]  = [s \in Slot |-> s],
                             ![pd] = [@ EXCEPT ![0] = f, ![Entries - 1] = pd]]
  /\ pc' = "paging"
  /\ UNCHANGED <<pd, tlb, heap_end, pages, touch, phys, virt>>

-----------------------------------------------------------------------------
\* heap_map_pages, for memory_init and for heap_grow.

\* heap_end = HEAP_VIRT_START.
InitHeap ==
  /\ pc = "paging"
  /\ heap_end' = HeapStart /\ pages' = InitialPages /\ pc' = "loop"
  /\ UNCHANGED <<mem, pd, tlb, avail, held, last, touch, phys, virt>>

GrowHeap(n) ==
  /\ pc = "idle"
  /\ pages' = n /\ pc' = "loop"
  /\ UNCHANGED <<mem, pd, tlb, avail, held, last, heap_end, touch, phys, virt>>

\* One round of the loop calls mmu_map_page(phys, heap_end).
TakeFrame ==
  /\ pc = "loop" /\ pages > 0
  /\ \E f \in avail : Lowest(f) /\ Frames!Grant(f) /\ phys' = f
  /\ virt' = heap_end /\ pc' = "map"
  /\ UNCHANGED <<mem, pd, tlb, heap_end, pages, touch>>

\* The loop ends: all pages are mapped, or there is no frame left.
LoopEnds ==
  /\ pc = "loop"
  /\ \/ pages = 0 /\ UNCHANGED <<avail, held, last>>
     \/ pages > 0 /\ Frames!Refuse
  /\ pages' = 0 /\ pc' = "idle"
  /\ UNCHANGED <<mem, pd, tlb, heap_end, touch, phys, virt>>

-----------------------------------------------------------------------------
\* mmu_map_page(phys, virt).

\* Slips: the table of the next slot, the entry of the next page, a table that
\* is not cleared, one allocated every time, a heap_end that moves twice.
NextDirectorySlot(page) == (page \div Entries) + 1
NextTableSlot(page) == (page + 1) % Entries
NotCleared(contents, table) == contents
NeverTable(slot) == FALSE
TwoPages(page) == page + 2

pd_index(page) == page \div Entries
pt_index(page) == page % Entries
MemsetZero(contents, table) == [contents EXCEPT ![table] = Cleared]
NextPage(page) == page + 1

\* The directory is written and the table cleared through their windows.
Directory == Lookup(Window(Entries - 1))
SeenDirectory == Cached(tlb, Window(Entries - 1), Directory)
HasTable(slot) == mem[Directory][slot] # Absent

\* The directory has a table for the page.
TablePresent ==
  /\ pc = "map" /\ HasTable(pd_index(virt))
  /\ tlb' = SeenDirectory /\ pc' = "entry"
  /\ UNCHANGED <<mem, pd, avail, held, last, heap_end, pages, touch, phys, virt>>

\* It gets one.  The result of pmm_alloc_frame is not looked at: when there is
\* no frame left, the table is in frame 0.
NewTable ==
  /\ pc = "map" /\ ~HasTable(pd_index(virt))
  /\ \/ \E f \in avail : Lowest(f) /\ Frames!Grant(f)
     \/ Frames!Refuse
  /\ mem' = MemsetZero([mem EXCEPT ![Directory][pd_index(virt)] = last'], last')
  /\ tlb' = Cached(Invlpg(SeenDirectory, Window(pd_index(virt))), Window(pd_index(virt)), last')
  /\ pc' = "entry"
  /\ UNCHANGED <<pd, heap_end, pages, touch, phys, virt>>

\* The page's entry and invlpg; then heap_map_pages or the faulting
\* instruction goes on.
WriteEntry ==
  /\ pc = "entry"
  /\ \E table \in Resolves(Window(pd_index(virt))) \ {Absent} :
       /\ mem' = [mem EXCEPT ![table][pt_index(virt)] = phys]
       /\ tlb' = Invlpg(Cached(tlb, Window(pd_index(virt)), table), virt)
  /\ IF pages > 0
     THEN heap_end' = NextPage(heap_end) /\ pages' = pages - 1 /\ pc' = "loop"
     ELSE pc' = "access" /\ UNCHANGED <<heap_end, pages>>
  /\ UNCHANGED <<pd, avail, held, last, touch, phys, virt>>

-----------------------------------------------------------------------------
\* An access of the kernel to a page, and the page fault handler.

Touch(page) ==
  /\ pc = "idle"
  /\ touch' = page /\ pc' = "access"
  /\ UNCHANGED <<mem, pd, tlb, avail, held, last, heap_end, pages, phys, virt>>

HeapPage == HeapStart .. (Window(0) - 1)

Tables == {mem[pd][d] : d \in Slot} \ {Absent}

\* A write at one of the entries a frame has as a table.
Overwritten(f) == \E s \in Slot : mem' = [mem EXCEPT ![f][s] = Junk]

\* The page is there: it is read, or something that is no table is written.
AccessDone ==
  /\ pc = "access"
  /\ \E f \in Resolves(touch) \ {Absent} :
       /\ tlb' = Cached(tlb, touch, f)
       /\ \/ UNCHANGED mem
          \/ f \notin Tables /\ Overwritten(f)
  /\ pc' = "idle"
  /\ UNCHANGED <<pd, avail, held, last, heap_end, pages, touch, phys, virt>>

\* A poke into the directory, which is its own table, or into another table.
\* From here on a page may lead anywhere: the model stops.
TableOverwritten ==
  /\ pc = "access"
  /\ \E f \in Resolves(touch) \cap Tables :
       tlb' = Cached(tlb, touch, f) /\ Overwritten(f)
  /\ pc' = "poked"
  /\ UNCHANGED <<pd, avail, held, last, heap_end, pages, touch, phys, virt>>

\* From HEAP_START on, the handler maps a frame and the access is retried.
FaultMaps ==
  /\ pc = "access" /\ Absent \in Resolves(touch) /\ touch >= HeapStart
  /\ \E f \in avail : Lowest(f) /\ Frames!Grant(f) /\ phys' = f
  /\ virt' = touch /\ pc' = "map"
  /\ UNCHANGED <<mem, pd, tlb, heap_end, pages, touch>>

\* Below it, or without a frame, the kernel reports the fault and halts.
FaultHalts ==
  /\ pc = "access" /\ Absent \in Resolves(touch)
  /\ \/ touch < HeapStart /\ UNCHANGED <<avail, held, last>>
     \/ touch >= HeapStart /\ Frames!Refuse
  /\ pc' = "halted"
  /\ UNCHANGED <<mem, pd, tlb, heap_end, pages, touch, phys, virt>>

-----------------------------------------------------------------------------
\* What runs on by itself once it was called.
SpaceStep ==
  \/ InitDirectory \/ InitTable \/ InitHeap
  \/ TakeFrame \/ LoopEnds \/ TablePresent \/ NewTable \/ WriteEntry
  \/ AccessDone \/ TableOverwritten \/ FaultMaps \/ FaultHalts

SpaceNext ==
  \/ SpaceStep
  \/ \E n \in GrowSizes : GrowHeap(n)
  \/ \E page \in Touched : Touch(page)

\* The processor executes what has begun: nothing here waits.
SpaceSpec == SpaceInit /\ [][SpaceNext]_spaceVars /\ WF_spaceVars(SpaceStep)

-----------------------------------------------------------------------------
\* mmu_init is through and no poke has gone into a table.
OwnTables == pc \notin {"directory", "table0", "poked"}
Mapped == {page \in HeapPage : Walk(page) # Absent}

\* The variables keep their types; heap_end stays below the window because the
\* heap has no more pages than the PMM handed out after mmu_init's two.
SpaceTypeOK ==
  /\ mem \in [Frame -> [Slot -> Frame \cup {Absent, Junk}]] /\ pd \in Frame
  /\ DOMAIN tlb \subseteq Page /\ tlb \in [DOMAIN tlb -> Frame]
  /\ avail \subseteq Ram /\ held = Ram \ avail /\ last \in held \cup {0}
  /\ heap_end \in {0} \cup HeapStart .. (HeapStart + Cardinality(held) - 2)
  /\ pages \in Nat /\ touch \in Page /\ phys \in Frame /\ virt \in Page
  /\ pc \in {"directory", "table0", "paging", "loop", "idle",
             "map", "entry", "access", "halted", "poked"}

\* As long as no poke goes into a table, nothing that is mapped, cleared or
\* written disturbs what mmu_init set up: the first pages stay identical to their
\* frames, so every pointer the kernel had before paging stays good, and the
\* window stays open.
KernelMapIntact ==
  OwnTables => /\ \A page \in Slot : Walk(page) = page
               /\ Walk(Window(Entries - 1)) = pd

\* Under the same condition the processor never uses a translation the tables no
\* longer hold, also when the heap grows over a page that an earlier fault had
\* mapped and cached.
TlbCoherent == OwnTables => \A page \in DOMAIN tlb : tlb[page] = Walk(page)

\* What the heap range shows is frames that the PMM handed out, none of them at
\* two pages, none of them a table or the directory: no write to the heap can
\* reach another page or a translation, even after the PMM ran out.
NoSharedFrame ==
  OwnTables => /\ \A page \in Mapped : Walk(page) \in held \ Tables
               /\ \A p, q \in Mapped : p # q => Walk(p) # Walk(q)

\* A page below heap_end is mapped, and its frame, with what the heap keeps
\* there, is not exchanged by any step but a poke into a table.
HeapStays ==
  [][pc' # "poked" => \A page \in HeapPage : page < heap_end =>
       Walk(page) \in Frame /\ Walk(page)' = Walk(page)]_spaceVars

\* An access ends: the kernel goes on, reports the fault or has written a table;
\* it goes on when the page is the heap's and the PMM has a frame.
AccessEnds ==
  /\ pc = "access" ~> pc \in {"idle", "halted", "poked"}
  /\ pc = "access" /\ touch \in HeapPage /\ avail # {} ~> pc = "idle"

\* mmu.zig reports a page that cannot be mapped as "Page not present (OOM)".  A
\* table is never taken from an allocation that failed.
TablesAllocated == OwnTables => Tables \subseteq held
=============================================================================
