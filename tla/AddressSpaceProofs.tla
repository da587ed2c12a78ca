------------------------- MODULE AddressSpaceProofs -------------------------
(***************************************************************************)
(* Safety of the address space for every size of table, every RAM and      *)
(* every sequence of faults and heap growth: the kernel's own mappings, the *)
(* TLB, the frames behind the heap and what the heap has mapped.            *)
(*                                                                         *)
(* The tables are reasoned about as a pair of a memory and a directory, so *)
(* that one lemma for each way the kernel writes to them says what every   *)
(* page resolves to before and after.                                      *)
(***************************************************************************)
EXTENDS AddressSpace, FiniteSetTheorems, TLAPS

-----------------------------------------------------------------------------
\* Pages and their two indices.

\* The slots of a page, and the page of two slots.
LEMMA PageSplit ==
  ASSUME NEW page \in Page
  PROVE  /\ pd_index(page) \in Slot /\ pt_index(page) \in Slot
         /\ page = pd_index(page) * Entries + pt_index(page)
<1> USE SpaceConstants DEF SpaceConstants
<1> DEFINE q == page \div Entries
           r == page % Entries
<1>1. page \in Nat /\ page < Entries * Entries /\ Entries \in Nat \ {0}
  BY DEF Page
<1>2. q \in Nat /\ r \in 0 .. (Entries - 1) /\ page = q * Entries + r
  BY <1>1
<1>3. q < Entries
  <2> HIDE DEF q, r
  <2> SUFFICES ASSUME Entries <= q PROVE FALSE
    BY <1>1, <1>2
  <2>1. Entries * Entries <= q * Entries
    BY <1>1, <1>2
  <2> QED BY <1>1, <1>2, <2>1
<1> QED BY <1>1, <1>2, <1>3 DEF pd_index, pt_index, Slot

\* A page is found from its slots.
LEMMA PageJoin ==
  ASSUME NEW d \in Slot, NEW s \in Slot
  PROVE  /\ d * Entries + s \in Page
         /\ pd_index(d * Entries + s) = d /\ pt_index(d * Entries + s) = s
<1> USE SpaceConstants DEF SpaceConstants
<1> DEFINE p == d * Entries + s
<1>1. d \in 0 .. (Entries - 1) /\ s \in 0 .. (Entries - 1) /\ Entries \in Nat \ {0}
  BY DEF Slot
<1>2. d * Entries \in Nat /\ p \in Nat
  BY <1>1
<1>3. (d + 1) * Entries <= Entries * Entries
  BY <1>1
<1>4. (d + 1) * Entries = (d * Entries) + Entries
  BY <1>1
<1>5. p < Entries * Entries
  BY <1>1, <1>2, <1>3, <1>4
<1>6. p \div Entries = d /\ p % Entries = s
  BY <1>1, <1>2
<1> QED BY <1>2, <1>5, <1>6 DEF Page, pd_index, pt_index

\* Two pages with the same slots are one.
LEMMA SamePage ==
  ASSUME NEW p \in Page, NEW q \in Page,
         pd_index(p) = pd_index(q), pt_index(p) = pt_index(q)
  PROVE  p = q
BY PageSplit

\* The window's pages, seen through the directory's last slot.
LEMMA WindowSplit ==
  ASSUME NEW d \in Slot
  PROVE  /\ Window(d) \in Page
         /\ pd_index(Window(d)) = Entries - 1 /\ pt_index(Window(d)) = d
<1>1. Entries - 1 \in Slot
  BY SpaceConstants DEF SpaceConstants, Slot
<1> QED BY <1>1, PageJoin DEF Window

\* The identity map's pages are those of slot 0.
LEMMA LowSplit ==
  ASSUME NEW page \in Slot
  PROVE  page \in Page /\ pd_index(page) = 0 /\ pt_index(page) = page
<1>1. 0 \in Slot /\ 0 * Entries + page = page
  BY SpaceConstants DEF SpaceConstants, Slot
<1> QED BY <1>1, PageJoin

\* The heap's pages lie in the slots from its own to the one before the window.
LEMMA HeapSplit ==
  ASSUME NEW page \in HeapPage
  PROVE  page \in Page /\ page > 0 /\ pd_index(page) \in 1 .. (Entries - 2)
<1> USE SpaceConstants DEF SpaceConstants
<1>1. /\ Entries \in Nat /\ HeapSlot \in Nat \ {0} /\ HeapSlot <= Entries - 2
      /\ page \in Int /\ HeapSlot * Entries <= page /\ page < (Entries - 1) * Entries
  BY DEF HeapPage, HeapStart, Window
<1>2. /\ (Entries - 1) * Entries = Entries * Entries - Entries
      /\ HeapSlot * Entries >= Entries
  BY <1>1
<1>3. page \in Page /\ page >= Entries /\ page > 0
  BY <1>1, <1>2 DEF Page
<1>4. /\ pd_index(page) \in Slot /\ pt_index(page) \in Slot
      /\ page = pd_index(page) * Entries + pt_index(page)
  BY <1>3, PageSplit
<1>5. pd_index(page) # 0
  BY <1>1, <1>3, <1>4 DEF Slot
<1>6. pd_index(page) # Entries - 1
  <2> SUFFICES ASSUME pd_index(page) = Entries - 1 PROVE FALSE
    OBVIOUS
  <2> QED BY <1>1, <1>2, <1>4 DEF Slot
<1> QED BY <1>3, <1>4, <1>5, <1>6 DEF Slot

-----------------------------------------------------------------------------
\* The tables as memory m with directory d.

WalkIn(m, d, page) ==
  IF m[d][pd_index(page)] \in {Absent, Junk} THEN m[d][pd_index(page)]
  ELSE m[m[d][pd_index(page)]][pt_index(page)]

TablesIn(m, d) == {m[d][i] : i \in Slot} \ {Absent}

Memories == [Frame -> [Slot -> Frame \cup {Absent, Junk}]]

\* The directory refers to itself in its last slot, its first table is the
\* identity, nothing in use is junk and no frame is the table of two slots.
GoodTables(m, d) ==
  /\ m[d][Entries - 1] = d
  /\ m[d][0] \in Frame /\ m[m[d][0]] = [s \in Slot |-> s]
  /\ \A i \in Slot : /\ m[d][i] # Junk
                     /\ m[d][i] # Absent => \A s \in Slot : m[m[d][i]][s] # Junk
  /\ \A i, j \in Slot : i # j /\ m[d][i] = m[d][j] => m[d][i] = Absent

\* Walk and Tables are these operators of the current memory, before and after a
\* step.
LEMMA WalkIs ==
  /\ \A page : Walk(page) = WalkIn(mem, pd, page)
  /\ \A page : Walk(page)' = WalkIn(mem', pd', page)
  /\ Tables = TablesIn(mem, pd) /\ Tables' = TablesIn(mem', pd')
BY DEF Walk, WalkIn, pd_index, pt_index, Tables, TablesIn

\* The first, the heap's and the last slots.
LEMMA SlotFacts ==
  /\ 0 \in Slot /\ Entries - 1 \in Slot /\ 0 # Entries - 1
  /\ Slot \subseteq Frame /\ 0 \in Frame
  /\ 1 .. (Entries - 2) \subseteq Slot
  /\ \A i \in 1 .. (Entries - 2) : i # 0 /\ i # Entries - 1
  /\ Absent \notin Frame /\ Junk \notin Frame /\ Absent # Junk
BY SpaceConstants DEF SpaceConstants, Slot

\* What a page of good tables resolves to: a frame or nothing, through the
\* identity map its own number, through the window the directory's entry.
LEMMA WalkGood ==
  ASSUME NEW m \in Memories, NEW d \in Frame, GoodTables(m, d)
  PROVE  /\ \A page \in Page : WalkIn(m, d, page) \in Frame \cup {Absent}
         /\ \A page \in Slot : WalkIn(m, d, page) = page
         /\ \A i \in Slot : WalkIn(m, d, Window(i)) = m[d][i]
         /\ TablesIn(m, d) \subseteq Frame /\ d \in TablesIn(m, d)
<1>1. ASSUME NEW page \in Page
      PROVE  WalkIn(m, d, page) \in Frame \cup {Absent}
  <2>1. pd_index(page) \in Slot /\ pt_index(page) \in Slot
    BY PageSplit
  <2>2. m[d][pd_index(page)] \in Frame \cup {Absent}
    BY <2>1 DEF GoodTables, Memories
  <2> QED BY <2>1, <2>2 DEF GoodTables, WalkIn, Memories
<1>2. ASSUME NEW page \in Slot
      PROVE  WalkIn(m, d, page) = page
  <2>1. pd_index(page) = 0 /\ pt_index(page) = page
    BY LowSplit
  <2> QED BY <2>1, SlotFacts DEF GoodTables, WalkIn
<1>3. ASSUME NEW i \in Slot
      PROVE  WalkIn(m, d, Window(i)) = m[d][i]
  <2>1. pd_index(Window(i)) = Entries - 1 /\ pt_index(Window(i)) = i
    BY WindowSplit
  <2> QED BY <2>1, SlotFacts DEF GoodTables, WalkIn
<1>4. TablesIn(m, d) \subseteq Frame /\ d \in TablesIn(m, d)
  BY SlotFacts DEF GoodTables, TablesIn, Memories
<1> QED BY <1>1, <1>2, <1>3, <1>4

\* A write to a frame that is no table, or in the course of clearing one, moves
\* no page.
LEMMA DataWrite ==
  ASSUME NEW m \in Memories, NEW d \in Frame, GoodTables(m, d),
         NEW f \in Frame, f \notin TablesIn(m, d),
         NEW n \in Memories, \A g \in Frame : g # f => n[g] = m[g]
  PROVE  /\ GoodTables(n, d)
         /\ \A page \in Page : WalkIn(n, d, page) = WalkIn(m, d, page)
         /\ TablesIn(n, d) = TablesIn(m, d) /\ n[d] = m[d]
<1>1. d # f /\ \A i \in Slot : m[d][i] # Absent => m[d][i] # f
  BY WalkGood DEF TablesIn
<1>2. n[d] = m[d] /\ \A i \in Slot : m[d][i] \in Frame => n[m[d][i]] = m[m[d][i]]
  BY <1>1, SlotFacts
<1>3. \A i \in Slot : m[d][i] \in Frame \cup {Absent}
  BY DEF GoodTables, Memories
<1>4. GoodTables(n, d)
  BY <1>2, <1>3, SlotFacts DEF GoodTables
<1>5. ASSUME NEW page \in Page
      PROVE  WalkIn(n, d, page) = WalkIn(m, d, page)
  BY <1>2, <1>3, PageSplit DEF WalkIn
<1> QED BY <1>2, <1>4, <1>5 DEF TablesIn

\* A new table, cleared, in an empty slot: nothing else moves, its own pages stay
\* unmapped, and the window shows it.
LEMMA TableInstall ==
  ASSUME NEW m \in Memories, NEW d \in Frame, GoodTables(m, d),
         NEW i \in Slot, m[d][i] = Absent, NEW t \in Frame, t \notin TablesIn(m, d),
         NEW n \in Memories, n[d] = [m[d] EXCEPT ![i] = t], n[t] = Cleared,
         \A f \in Frame : f # d /\ f # t => n[f] = m[f]
  PROVE  /\ GoodTables(n, d)
         /\ \A page \in Page : page # Window(i) => WalkIn(n, d, page) = WalkIn(m, d, page)
         /\ WalkIn(n, d, Window(i)) = t
         /\ TablesIn(n, d) = TablesIn(m, d) \cup {t}
<1>1. d # t /\ d \in Frame /\ m[d] \in [Slot -> Frame \cup {Absent, Junk}]
  BY WalkGood DEF Memories
<1>2. \A j \in Slot : m[d][j] \in Frame \cup {Absent} /\ m[d][j] # t
  BY SlotFacts DEF GoodTables, Memories, TablesIn
<1>3. Cleared \in [Slot -> Frame \cup {Absent, Junk}] /\ \A s \in Slot : Cleared[s] = Absent
  BY DEF Cleared
<1>6. i # 0 /\ i # Entries - 1
  BY SlotFacts DEF GoodTables
<1>7. /\ n[d][i] = t
      /\ \A j \in Slot : j # i => n[d][j] = m[d][j]
      /\ \A j \in Slot : m[d][j] \in Frame /\ m[d][j] # d => n[m[d][j]] = m[m[d][j]]
  BY <1>1, <1>2
<1>8. GoodTables(n, d)
  <2>1. n[d][Entries - 1] = d /\ n[d][0] = m[d][0]
    BY <1>6, <1>7, SlotFacts DEF GoodTables
  <2>2. n[n[d][0]] = [s \in Slot |-> s]
    BY <1>7, <2>1, SlotFacts DEF GoodTables
  <2>3. ASSUME NEW j \in Slot
        PROVE  /\ n[d][j] # Junk
               /\ n[d][j] # Absent => \A s \in Slot : n[n[d][j]][s] # Junk
    <3>1. CASE j = i
      BY <1>3, <1>7, <3>1, SlotFacts
    <3>2. CASE m[d][j] = d
      BY <1>1, <1>2, <1>7, <3>2, SlotFacts DEF GoodTables
    <3>3. CASE j # i /\ m[d][j] # d
      BY <1>2, <1>7, <3>3, SlotFacts DEF GoodTables
    <3> QED BY <3>1, <3>2, <3>3
  <2>4. \A j, k \in Slot : j # k /\ n[d][j] = n[d][k] => n[d][j] = Absent
    BY <1>2, <1>7 DEF GoodTables
  <2> QED BY <2>1, <2>2, <2>3, <2>4, SlotFacts DEF GoodTables
<1>9. ASSUME NEW page \in Page, page # Window(i)
      PROVE  WalkIn(n, d, page) = WalkIn(m, d, page)
  <2>1. pd_index(page) \in Slot /\ pt_index(page) \in Slot
    BY PageSplit
  <2>2. CASE pd_index(page) = i
    BY <1>3, <1>7, <2>1, <2>2, SlotFacts DEF WalkIn
  <2>3. CASE pd_index(page) = Entries - 1
    <3>1. pt_index(page) # i
      BY <1>9, <2>3, SamePage, WindowSplit
    <3>2. m[d][Entries - 1] = d /\ n[d][Entries - 1] = d
      BY <1>8 DEF GoodTables
    <3>3. n[d][pt_index(page)] = m[d][pt_index(page)]
      BY <1>7, <2>1, <3>1
    <3> QED BY <2>3, <3>2, <3>3, SlotFacts DEF WalkIn
  <2>4. CASE pd_index(page) # i /\ pd_index(page) # Entries - 1
    <3>1. m[d][pd_index(page)] # d
      BY <2>1, <2>4, SlotFacts DEF GoodTables
    <3> QED BY <1>2, <1>7, <2>1, <2>4, <3>1 DEF WalkIn
  <2> QED BY <2>2, <2>3, <2>4
<1>10. WalkIn(n, d, Window(i)) = t
  <2>1. \A j \in Slot : WalkIn(n, d, Window(j)) = n[d][j]
    BY <1>8, WalkGood
  <2> QED BY <1>7, <2>1
<1>11. TablesIn(n, d) = TablesIn(m, d) \cup {t}
  <2>1. t # Absent
    BY SlotFacts
  <2> QED BY <1>7, <2>1 DEF TablesIn
<1> QED BY <1>8, <1>9, <1>10, <1>11

\* An entry of a table other than the directory and the identity's: its page
\* moves to the frame, no other page does.
LEMMA EntryWrite ==
  ASSUME NEW m \in Memories, NEW d \in Frame, GoodTables(m, d),
         NEW i \in 1 .. (Entries - 2), m[d][i] # Absent,
         NEW s \in Slot, NEW f \in Frame,
         NEW n \in Memories, \A g \in Frame : g # m[d][i] => n[g] = m[g],
         n[m[d][i]] = [m[m[d][i]] EXCEPT ![s] = f]
  PROVE  /\ GoodTables(n, d)
         /\ \A page \in Page :
              WalkIn(n, d, page) = IF pd_index(page) = i /\ pt_index(page) = s THEN f
                                   ELSE WalkIn(m, d, page)
         /\ TablesIn(n, d) = TablesIn(m, d) /\ n[d] = m[d]
<1> DEFINE t == m[d][i]
<1>1. i \in Slot /\ i # 0 /\ i # Entries - 1
  BY SlotFacts
<1>2. t \in Frame /\ t # d /\ \A j \in Slot : j # i => m[d][j] # t
  <2>1. t \in Frame \cup {Absent, Junk} /\ t # Junk /\ t # Absent
    BY <1>1 DEF GoodTables, Memories
  <2>2. \A j \in Slot : j # i => m[d][j] # t
    BY <1>1 DEF GoodTables
  <2>3. m[d][Entries - 1] = d
    BY DEF GoodTables
  <2> QED BY <1>1, <2>1, <2>2, <2>3, SlotFacts
<1>3. m[t] \in [Slot -> Frame \cup {Absent, Junk}]
  BY <1>2 DEF Memories
<1>4. /\ n[d] = m[d]
      /\ \A g \in Frame : g # t => n[g] = m[g]
      /\ n[t][s] = f /\ \A r \in Slot : r # s => n[t][r] = m[t][r]
  BY <1>2, <1>3
<1>5. \A j \in Slot : m[d][j] \in Frame \cup {Absent}
  BY DEF GoodTables, Memories
<1> HIDE DEF t
<1>6. GoodTables(n, d)
  <2>1. n[d][Entries - 1] = d /\ n[d][0] \in Frame /\ n[n[d][0]] = [r \in Slot |-> r]
    BY <1>1, <1>2, <1>4, SlotFacts DEF GoodTables
  <2>2. ASSUME NEW j \in Slot
        PROVE  /\ n[d][j] # Junk
               /\ n[d][j] # Absent => \A r \in Slot : n[n[d][j]][r] # Junk
    <3>1. CASE j = i
      <4>1. \A r \in Slot : m[t][r] # Junk
        BY <1>1 DEF GoodTables, t
      <4>2. \A r \in Slot : n[t][r] # Junk
        BY <1>4, <4>1, SlotFacts
      <4>3. n[d][i] = t /\ t # Junk
        BY <1>2, <1>4, SlotFacts DEF t
      <4> QED BY <3>1, <4>2, <4>3
    <3>2. CASE j # i
      BY <1>2, <1>4, <1>5, <3>2 DEF GoodTables
    <3> QED BY <3>1, <3>2
  <2> QED BY <1>4, <2>1, <2>2 DEF GoodTables
<1>7. ASSUME NEW page \in Page
      PROVE  WalkIn(n, d, page) = IF pd_index(page) = i /\ pt_index(page) = s THEN f
                                  ELSE WalkIn(m, d, page)
  <2>1. pd_index(page) \in Slot /\ pt_index(page) \in Slot
    BY PageSplit
  <2>2. CASE pd_index(page) = i
    <3>1. n[d][i] = t /\ m[d][i] = t /\ t \notin {Absent, Junk}
      BY <1>2, <1>4, SlotFacts DEF t
    <3>2. WalkIn(n, d, page) = n[t][pt_index(page)] /\ WalkIn(m, d, page) = m[t][pt_index(page)]
      BY <2>2, <3>1 DEF WalkIn
    <3> QED BY <1>4, <2>1, <2>2, <3>2
  <2>3. CASE pd_index(page) # i
    BY <1>2, <1>4, <1>5, <2>1, <2>3, SlotFacts DEF WalkIn
  <2> QED BY <2>2, <2>3
<1> QED BY <1>4, <1>6, <1>7 DEF TablesIn

-----------------------------------------------------------------------------
\* The invariant.

\* From mmu_enable on the tables are good ones; the directory and the tables are
\* frames the PMM gave, but for the table frame 0 becomes when it has none left,
\* after which nothing more is mapped.
TablesGood ==
  OwnTables =>
    /\ pd \in held /\ GoodTables(mem, pd)
    /\ Tables \subseteq held \cup {0}
    /\ 0 \in Tables => avail = {} /\ pc # "map"

\* What mmu_init and memory_init have reached.
Setup ==
  /\ pc = "directory" => avail = Ram
  /\ pc = "table0" => held = {pd} /\ mem[pd] = Cleared
  /\ pc \in {"directory", "table0"} => DOMAIN tlb = {}
  /\ pc \in {"directory", "table0", "paging"} => heap_end = 0
  /\ OwnTables => Cardinality(held) >= 2
  /\ OwnTables /\ pc # "paging" => heap_end >= HeapStart

HeapMapped == OwnTables => \A page \in HeapPage : page < heap_end => Walk(page) \in Frame

\* The job of mmu_map_page: a fresh frame for a heap page, the heap's next one or,
\* for a fault, one the heap has not reached; its table is there when the entry is
\* written.  An access in progress belongs to no heap_map_pages.
Job ==
  /\ pc \in {"map", "entry"} =>
       /\ virt \in HeapPage
       /\ phys \in held \ Tables /\ \A page \in Mapped : Walk(page) # phys
       /\ IF pages > 0
          THEN virt = heap_end /\ heap_end < HeapStart + Cardinality(held) - 2
          ELSE heap_end <= virt /\ touch \in Touched
  /\ pc = "entry" => mem[pd][pd_index(virt)] # Absent
  /\ pc \in {"idle", "access", "halted"} => pages = 0
  /\ pc = "access" => touch \in Touched

IInv ==
  SpaceTypeOK /\ TlbCoherent /\ NoSharedFrame /\ TablesGood /\ Setup /\ HeapMapped /\ Job

\* RAM and the heap's bounds as numbers.
LEMMA Bounds ==
  /\ IsFiniteSet(Ram) /\ Cardinality(Ram) \in Nat /\ Ram \subseteq Frame /\ 0 \notin Ram
  /\ HeapStart \in Nat \ {0} /\ Window(0) \in Nat
  /\ HeapStart + Cardinality(Ram) <= Window(0)
  /\ \A S \in SUBSET Ram : /\ IsFiniteSet(S) /\ Cardinality(S) \in Nat
                           /\ Cardinality(S) <= Cardinality(Ram)
<1> USE SpaceConstants DEF SpaceConstants
<1>1. IsFiniteSet(Ram) /\ Cardinality(Ram) \in Nat
  BY FS_Subset, FS_CardinalityType
<1>2. \A S \in SUBSET Ram : /\ IsFiniteSet(S) /\ Cardinality(S) \in Nat
                            /\ Cardinality(S) <= Cardinality(Ram)
  BY <1>1, FS_Subset, FS_CardinalityType
<1>3. HeapStart \in Nat \ {0} /\ Window(0) \in Nat
  BY DEF HeapStart, Window
<1> QED BY <1>1, <1>2, <1>3

\* A frame that pmm_alloc_frame grants was nobody's.
LEMMA GrantEffect ==
  ASSUME SpaceTypeOK, NEW f \in avail, Frames!Grant(f)
  PROVE  /\ avail' \subseteq Ram /\ held' = Ram \ avail' /\ last' = f
         /\ f \in Ram \ held /\ f # 0 /\ f \in Frame
         /\ held' = held \cup {f} /\ held \subseteq Ram
         /\ Cardinality(held) \in Nat /\ Cardinality(held') = Cardinality(held) + 1
         /\ Cardinality(held') <= Cardinality(Ram)
<1>1. avail' = avail \ {f} /\ held' = held \cup {f} /\ last' = f
  BY DEF Frames!Grant
<1>2. avail \subseteq Ram /\ held = Ram \ avail
  BY DEF SpaceTypeOK
<1>3. held' \subseteq Ram /\ f \notin held
  BY <1>1, <1>2
<1>4. /\ IsFiniteSet(held) /\ Cardinality(held) \in Nat
      /\ Cardinality(held') <= Cardinality(Ram)
  BY <1>2, <1>3, Bounds
<1>5. Cardinality(held') = Cardinality(held) + 1
  BY <1>1, <1>3, <1>4, FS_AddElement
<1> QED BY <1>1, <1>2, <1>3, <1>4, <1>5, Bounds

\* With paging on, the processor finds every page by its tables alone.
LEMMA Settled ==
  ASSUME IInv, OwnTables
  PROVE  /\ pd \in Frame /\ mem \in Memories /\ GoodTables(mem, pd)
         /\ \A page \in Page : /\ Lookup(page) = WalkIn(mem, pd, page)
                               /\ Resolves(page) = {WalkIn(mem, pd, page)}
                               /\ WalkIn(mem, pd, page) \in Frame \cup {Absent}
         /\ Directory = pd
         /\ \A i \in Slot : /\ Lookup(Window(i)) = mem[pd][i]
                            /\ Resolves(Window(i)) = {mem[pd][i]}
                            /\ Window(i) \in Page
                            /\ mem[pd][i] \in Frame \cup {Absent}
<1>1. pd \in Frame /\ mem \in Memories /\ GoodTables(mem, pd)
  BY DEF IInv, SpaceTypeOK, TablesGood, Memories
<1>2. ASSUME NEW page \in Page
      PROVE  /\ Lookup(page) = WalkIn(mem, pd, page)
             /\ Resolves(page) = {WalkIn(mem, pd, page)}
             /\ WalkIn(mem, pd, page) \in Frame \cup {Absent}
  <2>1. WalkIn(mem, pd, page) \in Frame \cup {Absent}
    BY <1>1, WalkGood
  <2>2. Lookup(page) = WalkIn(mem, pd, page)
    BY WalkIs DEF IInv, TlbCoherent, Lookup
  <2> QED BY <2>1, <2>2, SlotFacts DEF Resolves
<1>3. \A i \in Slot : Window(i) \in Page /\ WalkIn(mem, pd, Window(i)) = mem[pd][i]
  BY <1>1, WalkGood, WindowSplit
<1>4. mem[pd][Entries - 1] = pd
  BY <1>1 DEF GoodTables
<1>5. Directory = pd
  BY <1>2, <1>3, <1>4, SlotFacts DEF Directory
<1>6. \A i \in Slot : mem[pd][i] \in Frame \cup {Absent}
  BY <1>1 DEF GoodTables, Memories
<1> QED BY <1>1, <1>2, <1>3, <1>5, <1>6

-----------------------------------------------------------------------------
\* The TLB.

\* It holds pages and frames, and only what the tables (m, d) say.
TlbIn(t, m, d) ==
  /\ DOMAIN t \subseteq Page /\ t \in [DOMAIN t -> Frame]
  /\ \A page \in DOMAIN t : t[page] = WalkIn(m, d, page)

LEMMA TlbIs ==
  ASSUME IInv, OwnTables
  PROVE  TlbIn(tlb, mem, pd)
BY WalkIs DEF IInv, SpaceTypeOK, TlbCoherent, TlbIn

\* What it is to show after a step.
LEMMA TlbBecomes ==
  ASSUME TlbIn(tlb', mem', pd')
  PROVE  TlbCoherent' /\ DOMAIN tlb' \subseteq Page /\ tlb' \in [DOMAIN tlb' -> Frame]
BY WalkIs DEF TlbCoherent, TlbIn

\* An access caches what it found; invlpg forgets a page.
LEMMA TlbUse ==
  ASSUME NEW t, NEW m, NEW d, TlbIn(t, m, d),
         NEW page \in Page, NEW f \in Frame, WalkIn(m, d, page) = f
  PROVE  TlbIn(Cached(t, page, f), m, d) /\ TlbIn(Invlpg(t, page), m, d)
<1>1. TlbIn(Cached(t, page, f), m, d)
  <2> DEFINE c == Cached(t, page, f)
  <2>1. /\ DOMAIN c = DOMAIN t \cup {page}
        /\ \A p \in DOMAIN c : c[p] = IF p = page THEN f ELSE t[p]
        /\ c \in [DOMAIN c -> Frame]
    BY DEF Cached, TlbIn
  <2> HIDE DEF c
  <2>2. \A p \in DOMAIN c : c[p] = WalkIn(m, d, p)
    BY <2>1 DEF TlbIn
  <2> QED BY <2>1, <2>2 DEF TlbIn, c
<1>2. TlbIn(Invlpg(t, page), m, d)
  BY DEF TlbIn, Invlpg
<1> QED BY <1>1, <1>2

\* When only one page resolves differently, forgetting it keeps the TLB true.
LEMMA TlbFlush ==
  ASSUME NEW t, NEW m, NEW d, TlbIn(t, m, d), NEW n, NEW page \in Page,
         \A p \in Page : p # page => WalkIn(n, d, p) = WalkIn(m, d, p)
  PROVE  TlbIn(Invlpg(t, page), n, d)
<1> DEFINE c == Invlpg(t, page)
<1>1. /\ DOMAIN c = DOMAIN t \ {page} /\ \A p \in DOMAIN c : c[p] = t[p]
      /\ c \in [DOMAIN c -> Frame]
  BY DEF TlbIn, Invlpg
<1> HIDE DEF c
<1> QED BY <1>1 DEF TlbIn, c

\* When none does, it stays true as it is.
LEMMA TlbStays ==
  ASSUME NEW t, NEW m, NEW d, TlbIn(t, m, d), NEW n,
         \A p \in Page : WalkIn(n, d, p) = WalkIn(m, d, p)
  PROVE  TlbIn(t, n, d)
BY DEF TlbIn

-----------------------------------------------------------------------------
\* The steps.

\* NoSharedFrame of memory m with directory d, h being the frames handed out.
HeapApart(m, d, h) ==
  \A p \in HeapPage : WalkIn(m, d, p) # Absent =>
    /\ WalkIn(m, d, p) \in h \ TablesIn(m, d)
    /\ \A q \in HeapPage : p # q => WalkIn(m, d, p) # WalkIn(m, d, q)

LEMMA HeapApartIs ==
  /\ IInv /\ OwnTables => HeapApart(mem, pd, held)
  /\ HeapApart(mem', pd', held') => NoSharedFrame'
  /\ \A f : (\A p \in Mapped : Walk(p) # f) <=>
            (\A p \in HeapPage : WalkIn(mem, pd, p) # Absent => WalkIn(mem, pd, p) # f)
  /\ \A f : (\A p \in Mapped' : Walk(p)' # f) <=>
            (\A p \in HeapPage : WalkIn(mem', pd', p) # Absent => WalkIn(mem', pd', p) # f)
<1>1. IInv /\ OwnTables => HeapApart(mem, pd, held)
  BY WalkIs DEF IInv, NoSharedFrame, Mapped, HeapApart
<1>2. HeapApart(mem', pd', held') => NoSharedFrame'
  BY WalkIs DEF NoSharedFrame, Mapped, HeapApart
<1>3. \A f : (\A p \in Mapped : Walk(p) # f) <=>
             (\A p \in HeapPage : WalkIn(mem, pd, p) # Absent => WalkIn(mem, pd, p) # f)
  BY WalkIs DEF Mapped
<1>4. \A f : (\A p \in Mapped' : Walk(p)' # f) <=>
             (\A p \in HeapPage : WalkIn(mem', pd', p) # Absent => WalkIn(mem', pd', p) # f)
  BY WalkIs DEF Mapped
<1> QED BY <1>1, <1>2, <1>3, <1>4

\* A step that moves no page keeps what is said of pages and tables, whatever
\* else it does to the memory.
LEMMA NothingMoves ==
  ASSUME IInv, OwnTables, OwnTables', pd' = pd, mem' \in Memories, GoodTables(mem', pd),
         \A page \in Page : WalkIn(mem', pd, page) = WalkIn(mem, pd, page),
         TablesIn(mem', pd) = TablesIn(mem, pd),
         held \subseteq held', held' \subseteq Frame,
         0 \in Tables => avail' = {} /\ pc' # "map",
         heap_end' = heap_end \/ heap_end' = HeapStart
  PROVE  /\ NoSharedFrame' /\ TablesGood' /\ HeapMapped'
         /\ Tables' = Tables /\ Mapped' = Mapped /\ \A page \in Page : Walk(page)' = Walk(page)
<1>1. \A page \in HeapPage : page \in Page
  BY HeapSplit
<1>2. \A page \in Page : Walk(page)' = Walk(page)
  BY WalkIs
<1>3. Tables' = Tables /\ Mapped' = Mapped
  BY <1>1, <1>2, WalkIs DEF Mapped
<1>4. NoSharedFrame'
  BY <1>1, HeapApartIs DEF HeapApart
<1>5. TablesGood'
  BY <1>3 DEF TablesGood, IInv
<1>6. HeapMapped'
  BY <1>1, <1>2, Bounds DEF HeapMapped, HeapPage, IInv
<1> QED BY <1>2, <1>3, <1>4, <1>5, <1>6

\* The same for a step that leaves the memory alone.
LEMMA NothingWritten ==
  ASSUME IInv, OwnTables, OwnTables', UNCHANGED <<mem, pd>>, SpaceTypeOK',
         held \subseteq held',
         0 \in Tables => avail' = {} /\ pc' # "map",
         heap_end' = heap_end \/ heap_end' = HeapStart
  PROVE  /\ NoSharedFrame' /\ TablesGood' /\ HeapMapped'
         /\ Tables' = Tables /\ Mapped' = Mapped /\ \A page \in Page : Walk(page)' = Walk(page)
<1>1. mem' \in Memories /\ GoodTables(mem', pd)
  BY Settled
<1>2. held' \subseteq Frame
  BY Bounds DEF SpaceTypeOK
<1> QED BY <1>1, <1>2, NothingMoves

\* mmu_init: the directory.
LEMMA InitDirectoryKeeps == IInv /\ InitDirectory => IInv'
<1> SUFFICES ASSUME IInv, InitDirectory PROVE IInv'
  OBVIOUS
<1>1. PICK f \in avail : /\ Frames!Grant(f) /\ pd' = f
                         /\ mem' = [mem EXCEPT ![f] = Cleared]
  BY DEF InitDirectory
<1>2. /\ pc = "directory" /\ pc' = "table0"
      /\ UNCHANGED <<tlb, heap_end, pages, touch, phys, virt>>
  BY DEF InitDirectory
<1>3. SpaceTypeOK
  BY DEF IInv
<1>4. /\ avail = Ram /\ held = {} /\ DOMAIN tlb = {} /\ heap_end = 0
  BY <1>2, <1>3 DEF IInv, Setup, OwnTables, SpaceTypeOK
<1>5. /\ avail' \subseteq Ram /\ held' = Ram \ avail' /\ last' = f /\ f \in Frame
      /\ held' = {f}
  BY <1>1, <1>3, <1>4, GrantEffect
<1>6. Cleared \in [Slot -> Frame \cup {Absent, Junk}]
  BY DEF Cleared
<1>7. mem' \in Memories /\ mem'[f] = Cleared
  BY <1>1, <1>3, <1>5, <1>6 DEF SpaceTypeOK, Memories
<1>8. SpaceTypeOK'
  BY <1>1, <1>2, <1>3, <1>4, <1>5, <1>7 DEF SpaceTypeOK, Memories
<1>9. ~OwnTables'
  BY <1>2 DEF OwnTables
<1>10. Setup'
  BY <1>1, <1>2, <1>4, <1>5, <1>7, <1>9 DEF Setup
<1>11. TlbCoherent' /\ NoSharedFrame' /\ TablesGood'
  BY <1>2, <1>4, <1>9 DEF TlbCoherent, NoSharedFrame, TablesGood
<1>12. HeapMapped' /\ Job'
  BY <1>2, <1>4, HeapSplit, Bounds DEF HeapMapped, HeapPage, Job
<1> QED BY <1>8, <1>10, <1>11, <1>12 DEF IInv

\* mmu_init: the identity table and the directory's own slot, then paging.
LEMMA InitTableKeeps == IInv /\ InitTable => IInv'
<1> SUFFICES ASSUME IInv, InitTable PROVE IInv'
  OBVIOUS
<1>1. PICK f \in avail :
        /\ Frames!Grant(f)
        /\ mem' = [mem EXCEPT ![f]  = [s \in Slot |-> s],
                              ![pd] = [@ EXCEPT ![0] = f, ![Entries - 1] = pd]]
  BY DEF InitTable
<1>2. /\ pc = "table0" /\ pc' = "paging"
      /\ UNCHANGED <<pd, tlb, heap_end, pages, touch, phys, virt>>
  BY DEF InitTable
<1>3. SpaceTypeOK
  BY DEF IInv
<1>4. held = {pd} /\ mem[pd] = Cleared /\ DOMAIN tlb = {} /\ heap_end = 0
  BY <1>2 DEF IInv, Setup, OwnTables
<1>5. /\ avail' \subseteq Ram /\ held' = Ram \ avail' /\ last' = f
      /\ f \in Frame /\ f # pd /\ held' = {pd, f} /\ pd \in Frame
      /\ Cardinality(held) \in Nat /\ Cardinality(held') = Cardinality(held) + 1
  BY <1>1, <1>3, <1>4, GrantEffect, Bounds DEF SpaceTypeOK
<1>6. Cardinality(held') = 2
  <2>1. Cardinality({pd}) = 1
    BY FS_Singleton
  <2> QED BY <1>4, <1>5, <2>1
<1>7. /\ mem'[f] = [s \in Slot |-> s]
      /\ mem'[pd] = [[Cleared EXCEPT ![0] = f] EXCEPT ![Entries - 1] = pd]
      /\ \A g \in Frame : g # f /\ g # pd => mem'[g] = mem[g]
      /\ DOMAIN mem' = Frame /\ mem' = [g \in Frame |-> mem'[g]]
  BY <1>1, <1>3, <1>4, <1>5 DEF SpaceTypeOK
<1>8. /\ mem'[pd] \in [Slot -> Frame \cup {Absent, Junk}]
      /\ \A i \in Slot : mem'[pd][i] = IF i = 0 THEN f ELSE IF i = Entries - 1 THEN pd ELSE Absent
  BY <1>5, <1>7, SlotFacts DEF Cleared
<1>9. mem' \in Memories
  <2>1. [s \in Slot |-> s] \in [Slot -> Frame \cup {Absent, Junk}]
    BY SlotFacts
  <2>2. \A g \in Frame : mem'[g] \in [Slot -> Frame \cup {Absent, Junk}]
    <3>1. \A g \in Frame : mem[g] \in [Slot -> Frame \cup {Absent, Junk}]
      BY <1>3 DEF SpaceTypeOK
    <3>2. mem'[f] \in [Slot -> Frame \cup {Absent, Junk}]
      BY <1>7, <2>1
    <3>3. ASSUME NEW g \in Frame, g # f, g # pd
          PROVE  mem'[g] \in [Slot -> Frame \cup {Absent, Junk}]
      BY <1>7, <3>1, <3>3
    <3> QED BY <1>8, <3>2, <3>3
  <2> QED BY <1>7, <2>2 DEF Memories
<1>10. SpaceTypeOK'
  BY <1>2, <1>3, <1>4, <1>5, <1>9 DEF SpaceTypeOK, Memories
<1>11. GoodTables(mem', pd')
  BY <1>2, <1>5, <1>7, <1>8, SlotFacts DEF GoodTables
<1>12. TablesIn(mem', pd') = {f, pd}
  <2>1. f # Absent /\ pd # Absent /\ pd' = pd
    BY <1>2, <1>5, SlotFacts
  <2>2. mem'[pd][0] = f /\ mem'[pd][Entries - 1] = pd
    BY <1>8, SlotFacts
  <2> QED BY <1>8, <2>1, <2>2, SlotFacts DEF TablesIn
<1>13. TablesGood'
  <2>1. 0 \notin held'
    BY <1>5, Bounds
  <2> QED BY <1>2, <1>5, <1>11, <1>12, <2>1, WalkIs DEF TablesGood
<1>14. \A p \in HeapPage : WalkIn(mem', pd', p) = Absent
  <2> SUFFICES ASSUME NEW p \in HeapPage PROVE WalkIn(mem', pd', p) = Absent
    OBVIOUS
  <2>1. pd_index(p) \in Slot /\ pd_index(p) # 0 /\ pd_index(p) # Entries - 1
    BY HeapSplit, SlotFacts
  <2> QED BY <1>2, <1>8, <2>1 DEF WalkIn
<1>15. NoSharedFrame'
  BY <1>14, HeapApartIs DEF HeapApart
<1>16. TlbCoherent' /\ HeapMapped' /\ Job'
  BY <1>2, <1>4, HeapSplit, Bounds DEF TlbCoherent, HeapMapped, HeapPage, Job
<1>17. Setup'
  BY <1>2, <1>4, <1>6 DEF Setup, OwnTables
<1> QED BY <1>10, <1>13, <1>15, <1>16, <1>17 DEF IInv

\* What the kernel touches: pages, and of those from the window on the directory.
LEMMA TouchedPages ==
  ASSUME NEW page \in Touched
  PROVE  /\ page \in Page
         /\ page >= HeapStart => page \in HeapPage \/ page = Window(Entries - 1)
<1>1. page \in 0 .. (Window(0) - 1) \/ page = Window(Entries - 1)
  BY SpaceConstants DEF SpaceConstants
<1>2. Window(0) \in Page /\ Window(Entries - 1) \in Page
  BY WindowSplit, SlotFacts
<1>3. Entries * Entries \in Nat
  BY SpaceConstants DEF SpaceConstants
<1>4. page \in Page
  <2> DEFINE last_page == Entries * Entries - 1
  <2>1. last_page \in Int /\ Page = 0 .. last_page
    BY <1>3 DEF Page
  <2> HIDE DEF last_page
  <2> QED BY <1>1, <1>2, <2>1
<1> QED BY <1>1, <1>4, <1>3, Bounds DEF Page, HeapPage

\* Reading the directory through its window.
LEMMA SeenGood ==
  ASSUME IInv, OwnTables
  PROVE  TlbIn(SeenDirectory, mem, pd)
<1>1. /\ Window(Entries - 1) \in Page /\ Directory = pd /\ pd \in Frame
      /\ WalkIn(mem, pd, Window(Entries - 1)) = pd
  BY Settled, SlotFacts, WalkGood DEF GoodTables
<1> QED BY <1>1, TlbIs, TlbUse DEF SeenDirectory

\* heap_map_pages and the kernel's accesses begin: nothing but their own state.
LEMMA InitHeapKeeps == IInv /\ InitHeap => IInv'
<1> SUFFICES ASSUME IInv, InitHeap PROVE IInv'
  OBVIOUS
<1>1. /\ pc = "paging" /\ pc' = "loop" /\ heap_end' = HeapStart /\ pages' = InitialPages
      /\ UNCHANGED <<mem, pd, tlb, avail, held, last, touch, phys, virt>>
  BY DEF InitHeap
<1>2. OwnTables /\ OwnTables' /\ SpaceTypeOK /\ Setup /\ TablesGood
  BY <1>1 DEF OwnTables, IInv
<1>3. Cardinality(held) \in Nat /\ Cardinality(held) >= 2
  BY <1>2, Bounds DEF SpaceTypeOK, Setup
<1>4. SpaceTypeOK'
  <2>1. HeapStart \in HeapStart .. (HeapStart + Cardinality(held) - 2)
    BY <1>3, Bounds
  <2>2. InitialPages \in Nat
    BY SpaceConstants DEF SpaceConstants
  <2> QED BY <1>1, <1>2, <2>1, <2>2 DEF SpaceTypeOK
<1>5. NoSharedFrame' /\ TablesGood' /\ HeapMapped'
  BY <1>1, <1>2, <1>4, NothingWritten DEF TablesGood
<1>6. TlbCoherent'
  BY <1>1, <1>2, TlbIs, TlbBecomes
<1>7. Setup' /\ Job'
  BY <1>1, <1>2, <1>3, Bounds DEF Setup, Job, OwnTables
<1> QED BY <1>4, <1>5, <1>6, <1>7 DEF IInv

LEMMA GrowHeapKeeps == ASSUME NEW n \in GrowSizes PROVE IInv /\ GrowHeap(n) => IInv'
<1> SUFFICES ASSUME IInv, GrowHeap(n) PROVE IInv'
  OBVIOUS
<1>1. /\ pc = "idle" /\ pc' = "loop" /\ pages' = n
      /\ UNCHANGED <<mem, pd, tlb, avail, held, last, heap_end, touch, phys, virt>>
  BY DEF GrowHeap
<1>2. OwnTables /\ OwnTables' /\ SpaceTypeOK /\ Setup /\ TablesGood
  BY <1>1 DEF OwnTables, IInv
<1>3. SpaceTypeOK'
  <2>1. n \in Nat
    BY SpaceConstants DEF SpaceConstants
  <2> QED BY <1>1, <1>2, <2>1 DEF SpaceTypeOK
<1>4. NoSharedFrame' /\ TablesGood' /\ HeapMapped'
  BY <1>1, <1>2, <1>3, NothingWritten DEF TablesGood
<1>5. TlbCoherent'
  BY <1>1, <1>2, TlbIs, TlbBecomes
<1>6. Setup' /\ Job'
  BY <1>1, <1>2 DEF Setup, Job, OwnTables
<1> QED BY <1>3, <1>4, <1>5, <1>6 DEF IInv

LEMMA TouchKeeps == ASSUME NEW page \in Touched PROVE IInv /\ Touch(page) => IInv'
<1> SUFFICES ASSUME IInv, Touch(page) PROVE IInv'
  OBVIOUS
<1>1. /\ pc = "idle" /\ pc' = "access" /\ touch' = page
      /\ UNCHANGED <<mem, pd, tlb, avail, held, last, heap_end, pages, phys, virt>>
  BY DEF Touch
<1>2. OwnTables /\ OwnTables' /\ SpaceTypeOK /\ Setup /\ TablesGood
  BY <1>1 DEF OwnTables, IInv
<1>3. SpaceTypeOK'
  BY <1>1, <1>2, TouchedPages DEF SpaceTypeOK
<1>4. NoSharedFrame' /\ TablesGood' /\ HeapMapped'
  BY <1>1, <1>2, <1>3, NothingWritten DEF TablesGood
<1>5. TlbCoherent'
  BY <1>1, <1>2, TlbIs, TlbBecomes
<1>6. Setup' /\ Job'
  BY <1>1, <1>2 DEF Setup, Job, OwnTables, IInv
<1> QED BY <1>3, <1>4, <1>5, <1>6 DEF IInv

\* A frame the PMM grants while paging is on is nobody's table and behind no page.
LEMMA FreshFrame ==
  ASSUME IInv, OwnTables, NEW f \in avail, Frames!Grant(f)
  PROVE  /\ f \notin Tables /\ 0 \notin Tables
         /\ \A p \in Mapped : Walk(p) # f
         /\ held \subseteq held' /\ f \in held'
<1>1. f \notin held /\ f # 0 /\ held' = held \cup {f}
  BY GrantEffect DEF IInv
<1>2. Tables \subseteq held \cup {0} /\ 0 \notin Tables
  BY DEF IInv, TablesGood
<1>3. \A p \in Mapped : Walk(p) # f
  BY <1>1 DEF IInv, NoSharedFrame
<1> QED BY <1>1, <1>2, <1>3

\* A round of heap_map_pages takes its frame for the heap's next page.
LEMMA TakeFrameKeeps == IInv /\ TakeFrame => IInv'
<1> SUFFICES ASSUME IInv, TakeFrame PROVE IInv'
  OBVIOUS
<1>1. PICK f \in avail : Frames!Grant(f) /\ phys' = f
  BY DEF TakeFrame
<1>2. /\ pc = "loop" /\ pages > 0 /\ pc' = "map" /\ virt' = heap_end
      /\ UNCHANGED <<mem, pd, tlb, heap_end, pages, touch>>
  BY DEF TakeFrame
<1>3. OwnTables /\ OwnTables' /\ SpaceTypeOK /\ Setup /\ TablesGood
  BY <1>2 DEF OwnTables, IInv
<1>4. /\ avail' \subseteq Ram /\ held' = Ram \ avail' /\ last' = f /\ f \in Frame
      /\ Cardinality(held) \in Nat /\ Cardinality(held') = Cardinality(held) + 1
      /\ Cardinality(held') <= Cardinality(Ram)
  BY <1>1, <1>3, GrantEffect
<1>5. f \notin Tables /\ 0 \notin Tables /\ held \subseteq held' /\ f \in held'
      /\ \A p \in Mapped : Walk(p) # f
  BY <1>1, <1>3, FreshFrame
<1>6. /\ heap_end \in Int /\ HeapStart <= heap_end
      /\ heap_end <= HeapStart + Cardinality(held) - 2
  BY <1>2, <1>3, <1>4, Bounds DEF SpaceTypeOK, Setup, OwnTables
<1>7. heap_end \in HeapPage
  <2>1. heap_end < Window(0)
    BY <1>4, <1>6, Bounds
  <2> QED BY <1>6, <2>1, Bounds DEF HeapPage
<1>8. SpaceTypeOK'
  <2>1. heap_end' \in HeapStart .. (HeapStart + Cardinality(held') - 2)
    BY <1>2, <1>4, <1>6, <1>7, Bounds DEF HeapPage
  <2> QED BY <1>1, <1>2, <1>3, <1>4, <1>5, <1>7, <2>1, HeapSplit DEF SpaceTypeOK
<1>9. NoSharedFrame' /\ TablesGood' /\ HeapMapped' /\ Tables' = Tables /\ Mapped' = Mapped
      /\ \A page \in Page : Walk(page)' = Walk(page)
  BY <1>2, <1>3, <1>5, <1>8, NothingWritten
<1>10. TlbCoherent'
  BY <1>2, <1>3, TlbIs, TlbBecomes
<1>11. Job'
  <2>1. \A p \in Mapped' : Walk(p)' # f
    BY <1>5, <1>9, HeapSplit DEF Mapped
  <2>2. heap_end < HeapStart + Cardinality(held') - 2
    BY <1>4, <1>6, Bounds
  <2> QED BY <1>1, <1>2, <1>5, <1>7, <1>9, <2>1, <2>2 DEF Job
<1>12. Setup'
  BY <1>2, <1>3, <1>4 DEF Setup, OwnTables
<1> QED BY <1>8, <1>9, <1>10, <1>11, <1>12 DEF IInv

LEMMA LoopEndsKeeps == IInv /\ LoopEnds => IInv'
<1> SUFFICES ASSUME IInv, LoopEnds PROVE IInv'
  OBVIOUS
<1>1. /\ pc = "loop" /\ pc' = "idle" /\ pages' = 0
      /\ UNCHANGED <<mem, pd, tlb, heap_end, touch, phys, virt>>
      /\ UNCHANGED <<avail, held>> /\ last' \in {last, 0}
  BY DEF LoopEnds, Frames!Refuse, Frames!NoFrame
<1>2. OwnTables /\ OwnTables' /\ SpaceTypeOK /\ Setup /\ TablesGood
  BY <1>1 DEF OwnTables, IInv
<1>3. SpaceTypeOK'
  BY <1>1, <1>2 DEF SpaceTypeOK
<1>4. NoSharedFrame' /\ TablesGood' /\ HeapMapped'
  BY <1>1, <1>2, <1>3, NothingWritten DEF TablesGood
<1>5. TlbCoherent'
  BY <1>1, <1>2, TlbIs, TlbBecomes
<1>6. Setup' /\ Job'
  BY <1>1, <1>2 DEF Setup, Job, OwnTables
<1> QED BY <1>3, <1>4, <1>5, <1>6 DEF IInv

\* mmu_map_page finds the page's table.
LEMMA TablePresentKeeps == IInv /\ TablePresent => IInv'
<1> SUFFICES ASSUME IInv, TablePresent PROVE IInv'
  OBVIOUS
<1>1. /\ pc = "map" /\ pc' = "entry" /\ HasTable(pd_index(virt)) /\ tlb' = SeenDirectory
      /\ UNCHANGED <<mem, pd, avail, held, last, heap_end, pages, touch, phys, virt>>
  BY DEF TablePresent
<1>2. OwnTables /\ OwnTables' /\ SpaceTypeOK /\ Setup /\ TablesGood /\ Job
  BY <1>1 DEF OwnTables, IInv
<1>3. TlbIn(tlb', mem, pd)
  BY <1>1, <1>2, SeenGood
<1>4. TlbCoherent' /\ DOMAIN tlb' \subseteq Page /\ tlb' \in [DOMAIN tlb' -> Frame]
  BY <1>1, <1>3, TlbBecomes
<1>5. SpaceTypeOK'
  BY <1>1, <1>2, <1>4 DEF SpaceTypeOK
<1>6. NoSharedFrame' /\ TablesGood' /\ HeapMapped' /\ Tables' = Tables /\ Mapped' = Mapped
      /\ \A page \in Page : Walk(page)' = Walk(page)
  BY <1>1, <1>2, <1>5, NothingWritten DEF TablesGood
<1>7. Job'
  <2>1. \A p \in Mapped' : Walk(p)' # phys
    BY <1>1, <1>2, <1>6, HeapSplit DEF Mapped, Job
  <2>2. mem[pd][pd_index(virt)] # Absent
    BY <1>1, <1>2, Settled DEF HasTable
  <2> QED BY <1>1, <1>2, <1>6, <2>1, <2>2 DEF Job
<1>8. Setup'
  BY <1>1, <1>2 DEF Setup, OwnTables
<1> QED BY <1>4, <1>5, <1>6, <1>7, <1>8 DEF IInv

\* mmu_map_page makes the page's table, in frame 0 when the PMM has none left.
\* No page moves but the table's own in the window, and the frame is nobody's.
LEMMA NewTableEffect ==
  ASSUME IInv, NewTable
  PROVE  /\ OwnTables /\ OwnTables' /\ pd' = pd /\ mem' \in Memories /\ GoodTables(mem', pd)
         /\ \A page \in HeapPage : WalkIn(mem', pd, page) = WalkIn(mem, pd, page)
         /\ TablesIn(mem', pd) = TablesIn(mem, pd) \cup {last'}
         /\ mem'[pd][pd_index(virt)] # Absent
         /\ TlbIn(tlb', mem', pd)
         /\ last' \notin held /\ last' \in held' \cup {0} /\ 0 \notin Tables
         /\ held \subseteq held' /\ avail' \subseteq Ram /\ held' = Ram \ avail'
         /\ last' = 0 => avail' = {}
         /\ Cardinality(held) \in Nat /\ Cardinality(held') \in Nat
         /\ Cardinality(held) <= Cardinality(held')
<1> DEFINE i == pd_index(virt)
           t == last'
<1>1. /\ pc = "map" /\ pc' = "entry" /\ ~HasTable(i)
      /\ mem' = MemsetZero([mem EXCEPT ![Directory][i] = t], t)
      /\ tlb' = Cached(Invlpg(SeenDirectory, Window(i)), Window(i), t)
      /\ UNCHANGED <<pd, heap_end, pages, touch, phys, virt>>
  BY DEF NewTable
<1>2. OwnTables /\ OwnTables' /\ SpaceTypeOK /\ Setup /\ TablesGood /\ Job
  BY <1>1 DEF OwnTables, IInv
<1>3. /\ pd \in Frame /\ mem \in Memories /\ GoodTables(mem, pd) /\ Directory = pd
  BY <1>2, Settled
<1>4. i \in 1 .. (Entries - 2) /\ i \in Slot /\ virt \in HeapPage
  BY <1>1, <1>2, HeapSplit, SlotFacts DEF Job
<1>5. /\ mem[pd][i] = Absent /\ Tables = TablesIn(mem, pd) /\ 0 \notin Tables
      /\ phys \in held \ Tables
  BY <1>1, <1>2, <1>3, <1>4, WalkIs DEF HasTable, TablesGood, Job
<1>6. /\ t \in Frame /\ t \notin Tables /\ t \notin held /\ t \in held' \cup {0}
      /\ held \subseteq held' /\ avail' \subseteq Ram /\ held' = Ram \ avail'
      /\ t = 0 => avail' = {}
      /\ Cardinality(held) \in Nat /\ Cardinality(held') \in Nat
      /\ Cardinality(held) <= Cardinality(held')
  <2>1. CASE \E f \in avail : Frames!Grant(f)
    <3>1. PICK f \in avail : Frames!Grant(f)
      BY <2>1
    <3>2. /\ t = f /\ f \in Ram \ held /\ f # 0 /\ f \in Frame
          /\ avail' \subseteq Ram /\ held' = Ram \ avail' /\ held' = held \cup {f}
          /\ Cardinality(held) \in Nat /\ Cardinality(held') = Cardinality(held) + 1
      BY <1>2, <3>1, GrantEffect
    <3>3. f \notin Tables
      BY <1>2, <3>1, FreshFrame
    <3> QED BY <3>2, <3>3
  <2>2. CASE Frames!Refuse
    <3>1. t = 0 /\ avail = {} /\ UNCHANGED <<avail, held>>
      BY <2>2 DEF Frames!Refuse, Frames!NoFrame
    <3>2. held = Ram \ avail /\ avail \subseteq Ram /\ Cardinality(held) \in Nat
      BY <1>2, Bounds DEF SpaceTypeOK
    <3> QED BY <1>5, <3>1, <3>2, SlotFacts, Bounds
  <2> QED BY <2>1, <2>2 DEF NewTable
<1> HIDE DEF i, t
<1>7. t # pd
  BY <1>3, <1>5, <1>6, WalkGood
<1>8. /\ mem' \in Memories /\ mem'[pd] = [mem[pd] EXCEPT ![i] = t] /\ mem'[t] = Cleared
      /\ \A f \in Frame : f # pd /\ f # t => mem'[f] = mem[f]
  <2> DEFINE m1 == [mem EXCEPT ![pd] = [mem[pd] EXCEPT ![i] = t]]
  <2>1. mem' = [m1 EXCEPT ![t] = Cleared]
    BY <1>1, <1>3 DEF MemsetZero
  <2>2. m1 \in Memories
    BY <1>3, <1>4, <1>6 DEF Memories
  <2>3. m1[pd] = [mem[pd] EXCEPT ![i] = t] /\ \A f \in Frame : f # pd => m1[f] = mem[f]
    BY <1>3 DEF Memories
  <2> HIDE DEF m1
  <2>4. Cleared \in [Slot -> Frame \cup {Absent, Junk}]
    BY DEF Cleared
  <2> QED BY <1>3, <1>6, <1>7, <2>1, <2>2, <2>3, <2>4 DEF Memories
<1>9. /\ GoodTables(mem', pd)
      /\ \A page \in Page : page # Window(i) => WalkIn(mem', pd, page) = WalkIn(mem, pd, page)
      /\ WalkIn(mem', pd, Window(i)) = t
      /\ TablesIn(mem', pd) = TablesIn(mem, pd) \cup {t}
  BY <1>3, <1>4, <1>5, <1>6, <1>8, TableInstall
<1>10. Window(i) \in Page /\ \A p \in HeapPage : p \in Page /\ p # Window(i)
  BY <1>4, WindowSplit, HeapSplit, SlotFacts
<1>11. TlbIn(tlb', mem', pd')
  <2>1. TlbIn(Invlpg(SeenDirectory, Window(i)), mem', pd)
    BY <1>2, <1>9, <1>10, SeenGood, TlbFlush
  <2> QED BY <1>1, <1>6, <1>9, <1>10, <2>1, TlbUse
<1>12. mem'[pd][i] # Absent
  BY <1>3, <1>4, <1>6, <1>8, SlotFacts DEF Memories
<1> QED BY <1>1, <1>2, <1>5, <1>6, <1>8, <1>9, <1>10, <1>11, <1>12 DEF i, t

LEMMA NewTableKeeps == IInv /\ NewTable => IInv'
<1> SUFFICES ASSUME IInv, NewTable PROVE IInv'
  OBVIOUS
<1>1. /\ pc = "map" /\ pc' = "entry"
      /\ UNCHANGED <<pd, heap_end, pages, touch, phys, virt>>
  BY DEF NewTable
<1>2. SpaceTypeOK /\ Setup /\ TablesGood /\ Job
  BY DEF IInv
<1>3. /\ OwnTables /\ OwnTables' /\ pd' = pd /\ mem' \in Memories /\ GoodTables(mem', pd)
      /\ \A page \in HeapPage : WalkIn(mem', pd, page) = WalkIn(mem, pd, page)
      /\ TablesIn(mem', pd) = TablesIn(mem, pd) \cup {last'}
      /\ mem'[pd][pd_index(virt)] # Absent
      /\ TlbIn(tlb', mem', pd)
  BY NewTableEffect
<1>4. /\ last' \notin held /\ last' \in held' \cup {0} /\ 0 \notin Tables
      /\ held \subseteq held' /\ avail' \subseteq Ram /\ held' = Ram \ avail'
      /\ last' = 0 => avail' = {}
      /\ Cardinality(held) \in Nat /\ Cardinality(held') \in Nat
      /\ Cardinality(held) <= Cardinality(held')
  BY NewTableEffect
<1>5. TlbCoherent' /\ DOMAIN tlb' \subseteq Page /\ tlb' \in [DOMAIN tlb' -> Frame]
  BY <1>3, TlbBecomes
<1>6. SpaceTypeOK'
  <2>1. heap_end' \in {0} \cup HeapStart .. (HeapStart + Cardinality(held') - 2)
    BY <1>1, <1>2, <1>4, Bounds DEF SpaceTypeOK
  <2> QED BY <1>1, <1>2, <1>3, <1>4, <1>5, <2>1 DEF SpaceTypeOK, Memories
<1>7. Tables' = Tables \cup {last'} /\ TablesGood'
  <2>1. Tables' = Tables \cup {last'}
    BY <1>3, WalkIs
  <2> QED BY <1>1, <1>2, <1>3, <1>4, <2>1 DEF TablesGood
<1>8. \A p \in HeapPage : Walk(p)' = Walk(p)
  BY <1>3, WalkIs
<1>9. NoSharedFrame'
  <2>1. HeapApart(mem, pd, held)
    BY <1>3, HeapApartIs
  <2>2. HeapApart(mem', pd', held')
    BY <1>3, <1>4, <2>1 DEF HeapApart
  <2> QED BY <2>2, HeapApartIs
<1>10. HeapMapped'
  BY <1>1, <1>3, <1>8 DEF IInv, HeapMapped
<1>11. Job'
  <2>1. phys' \in held' \ Tables' /\ virt' \in HeapPage
    BY <1>1, <1>2, <1>4, <1>7 DEF Job
  <2>2. \A p \in Mapped' : Walk(p)' # phys'
    BY <1>1, <1>2, <1>8 DEF Mapped, Job
  <2>3. mem'[pd'][pd_index(virt')] # Absent
    BY <1>1, <1>3
  <2>4. /\ pages > 0 => virt = heap_end /\ heap_end < HeapStart + Cardinality(held) - 2
        /\ ~(pages > 0) => heap_end <= virt /\ touch \in Touched
    BY <1>1, <1>2 DEF Job
  <2>5. pages' > 0 => heap_end' < HeapStart + Cardinality(held') - 2
    <3>1. HeapStart \in Nat /\ heap_end \in Int
      BY <1>2, Bounds DEF SpaceTypeOK
    <3> QED BY <1>1, <1>4, <2>4, <3>1
  <2> QED BY <1>1, <2>1, <2>2, <2>3, <2>4, <2>5 DEF Job
<1>12. Setup'
  BY <1>1, <1>2, <1>3, <1>4 DEF Setup, OwnTables
<1> QED BY <1>5, <1>6, <1>7, <1>9, <1>10, <1>11, <1>12 DEF IInv

\* What the write of an entry does to the pages: virt gets phys, no other moves.
LEMMA WriteEntryEffect ==
  ASSUME IInv, WriteEntry
  PROVE  /\ OwnTables /\ OwnTables' /\ pd' = pd /\ mem' \in Memories /\ GoodTables(mem', pd)
         /\ virt \in HeapPage /\ virt \in Page /\ phys \in Frame
         /\ WalkIn(mem', pd, virt) = phys
         /\ \A page \in Page : page # virt => WalkIn(mem', pd, page) = WalkIn(mem, pd, page)
         /\ TablesIn(mem', pd) = TablesIn(mem, pd)
         /\ TlbIn(tlb', mem', pd)
<1> DEFINE i == pd_index(virt)
<1>1. pc = "entry" /\ pd' = pd /\ pc' \in {"loop", "access"}
  BY DEF WriteEntry
<1>2. OwnTables /\ OwnTables' /\ SpaceTypeOK /\ Job
  BY <1>1 DEF OwnTables, IInv
<1>3. /\ virt \in HeapPage /\ virt \in Page /\ mem[pd][i] # Absent
      /\ i \in 1 .. (Entries - 2) /\ i \in Slot /\ pt_index(virt) \in Slot /\ phys \in Frame
  BY <1>1, <1>2, HeapSplit, SlotFacts, PageSplit DEF Job, SpaceTypeOK
<1>4. /\ pd \in Frame /\ mem \in Memories /\ GoodTables(mem, pd)
      /\ Resolves(Window(i)) = {mem[pd][i]} /\ mem[pd][i] \in Frame
      /\ Window(i) \in Page /\ WalkIn(mem, pd, Window(i)) = mem[pd][i]
  BY <1>2, <1>3, Settled, WalkGood
<1>5. /\ mem' = [mem EXCEPT ![mem[pd][i]][pt_index(virt)] = phys]
      /\ tlb' = Invlpg(Cached(tlb, Window(i), mem[pd][i]), virt)
  BY <1>4 DEF WriteEntry
<1> HIDE DEF i
<1>6. /\ mem' \in Memories /\ \A g \in Frame : g # mem[pd][i] => mem'[g] = mem[g]
      /\ mem'[mem[pd][i]] = [mem[mem[pd][i]] EXCEPT ![pt_index(virt)] = phys]
  <2> DEFINE t == mem[pd][i]
  <2>1. mem[t] \in [Slot -> Frame \cup {Absent, Junk}]
    BY <1>4 DEF Memories
  <2>2. mem' = [mem EXCEPT ![t] = [mem[t] EXCEPT ![pt_index(virt)] = phys]]
    BY <1>5
  <2>3. t \in Frame
    BY <1>4
  <2> HIDE DEF t
  <2>4. /\ mem' \in Memories /\ \A g \in Frame : g # t => mem'[g] = mem[g]
        /\ mem'[t] = [mem[t] EXCEPT ![pt_index(virt)] = phys]
    BY <1>3, <1>4, <2>1, <2>2, <2>3 DEF Memories
  <2> QED BY <2>4 DEF t
<1>7. /\ GoodTables(mem', pd)
      /\ \A page \in Page :
           WalkIn(mem', pd, page) = IF pd_index(page) = i /\ pt_index(page) = pt_index(virt)
                                    THEN phys ELSE WalkIn(mem, pd, page)
      /\ TablesIn(mem', pd) = TablesIn(mem, pd)
  BY <1>3, <1>4, <1>6, EntryWrite
<1>8. WalkIn(mem', pd, virt) = phys
  BY <1>3, <1>7 DEF i
<1>9. \A page \in Page : page # virt => WalkIn(mem', pd, page) = WalkIn(mem, pd, page)
  BY <1>3, <1>7, SamePage DEF i
<1>10. TlbIn(tlb', mem', pd)
  <2>1. TlbIn(Cached(tlb, Window(i), mem[pd][i]), mem, pd)
    BY <1>2, <1>4, TlbIs, TlbUse
  <2> QED BY <1>3, <1>5, <1>9, <2>1, TlbFlush
<1> QED BY <1>1, <1>2, <1>3, <1>6, <1>7, <1>8, <1>9, <1>10

\* mmu_map_page writes the entry, and heap_map_pages or the access goes on.
LEMMA WriteEntryKeeps == IInv /\ WriteEntry => IInv'
<1> SUFFICES ASSUME IInv, WriteEntry PROVE IInv'
  OBVIOUS
<1>1. /\ pc = "entry" /\ UNCHANGED <<pd, avail, held, last, touch, phys, virt>>
      /\ \/ pages > 0 /\ heap_end' = heap_end + 1 /\ pages' = pages - 1 /\ pc' = "loop"
         \/ ~(pages > 0) /\ pc' = "access" /\ UNCHANGED <<heap_end, pages>>
  BY DEF WriteEntry, NextPage
<1>2. SpaceTypeOK /\ Setup /\ TablesGood /\ Job /\ NoSharedFrame
  BY DEF IInv
<1>3. /\ OwnTables /\ OwnTables' /\ pd' = pd /\ mem' \in Memories /\ GoodTables(mem', pd)
      /\ virt \in HeapPage /\ virt \in Page /\ phys \in Frame
      /\ WalkIn(mem', pd, virt) = phys
      /\ \A page \in Page : page # virt => WalkIn(mem', pd, page) = WalkIn(mem, pd, page)
      /\ TablesIn(mem', pd) = TablesIn(mem, pd)
      /\ TlbIn(tlb', mem', pd)
  BY WriteEntryEffect
<1>4. TlbCoherent' /\ DOMAIN tlb' \subseteq Page /\ tlb' \in [DOMAIN tlb' -> Frame]
  BY <1>3, TlbBecomes
<1>5. /\ phys \in held \ Tables
      /\ \A p \in HeapPage : WalkIn(mem, pd, p) # Absent => WalkIn(mem, pd, p) # phys
      /\ IF pages > 0
         THEN virt = heap_end /\ heap_end < HeapStart + Cardinality(held) - 2
         ELSE heap_end <= virt /\ touch \in Touched
  BY <1>1, <1>2, HeapApartIs DEF Job
<1>6. /\ heap_end \in Int /\ HeapStart \in Nat \ {0} /\ pages \in Nat
      /\ Cardinality(held) \in Nat /\ HeapStart <= heap_end
  BY <1>1, <1>2, <1>3, Bounds DEF SpaceTypeOK, Setup
<1>7. SpaceTypeOK'
  <2>1. heap_end' \in {0} \cup HeapStart .. (HeapStart + Cardinality(held') - 2)
    BY <1>1, <1>2, <1>5, <1>6 DEF SpaceTypeOK
  <2>2. pages' \in Nat
    BY <1>1, <1>6
  <2>3. pc' \in {"loop", "access"}
    BY <1>1
  <2> QED BY <1>1, <1>2, <1>3, <1>4, <2>1, <2>2, <2>3 DEF SpaceTypeOK, Memories
<1>8. \A p \in HeapPage : p \in Page
  BY HeapSplit
<1>9. Tables' = Tables /\ Tables = TablesIn(mem, pd) /\ TablesGood'
  <2>1. Tables' = Tables /\ Tables = TablesIn(mem, pd)
    BY <1>3, WalkIs
  <2> QED BY <1>1, <1>2, <1>3, <2>1 DEF TablesGood
<1>10. NoSharedFrame'
  <2>1. HeapApart(mem, pd, held)
    BY <1>3, HeapApartIs
  <2>2. ASSUME NEW p \in HeapPage, WalkIn(mem', pd', p) # Absent
        PROVE  /\ WalkIn(mem', pd', p) \in held' \ TablesIn(mem', pd')
               /\ \A q \in HeapPage : p # q => WalkIn(mem', pd', p) # WalkIn(mem', pd', q)
    <3>1. CASE p = virt
      BY <1>1, <1>3, <1>5, <1>8, <1>9, <2>2, <3>1, SlotFacts
    <3>2. CASE p # virt
      BY <1>1, <1>3, <1>5, <1>8, <2>1, <2>2, <3>2 DEF HeapApart
    <3> QED BY <3>1, <3>2
  <2> QED BY <2>2, HeapApartIs DEF HeapApart
<1>11. HeapMapped'
  <2> SUFFICES ASSUME NEW p \in HeapPage, p < heap_end' PROVE Walk(p)' \in Frame
    BY DEF HeapMapped
  <2>1. Walk(p)' = WalkIn(mem', pd, p) /\ Walk(p) = WalkIn(mem, pd, p)
    BY <1>3, WalkIs
  <2>2. CASE p = virt
    BY <1>3, <2>1, <2>2
  <2>3. CASE p # virt
    <3>1. p < heap_end
      BY <1>1, <1>5, <1>6, <1>8, <2>3 DEF Page
    <3>2. Walk(p) \in Frame
      BY <1>3, <3>1 DEF IInv, HeapMapped
    <3> QED BY <1>3, <1>8, <2>1, <2>3, <3>2
  <2> QED BY <2>2, <2>3
<1>12. Job' /\ Setup'
  <2>1. ~(pages > 0) => pages = 0
    BY <1>6
  <2>2. pc' = "access" => touch \in Touched
    BY <1>1, <1>5
  <2> QED BY <1>1, <1>2, <1>3, <1>6, <2>1, <2>2 DEF Job, Setup, OwnTables
<1> QED BY <1>4, <1>7, <1>9, <1>10, <1>11, <1>12 DEF IInv

\* A frame that an entry of its own was written to.
LEMMA OverwrittenFrame ==
  ASSUME mem \in Memories, NEW f \in Frame, Overwritten(f)
  PROVE  mem' \in Memories /\ \A g \in Frame : g # f => mem'[g] = mem[g]
<1>1. PICK s \in Slot : mem' = [mem EXCEPT ![f][s] = Junk]
  BY DEF Overwritten
<1>2. [mem[f] EXCEPT ![s] = Junk] \in [Slot -> Frame \cup {Absent, Junk}]
  BY DEF Memories
<1>3. mem' = [mem EXCEPT ![f] = [mem[f] EXCEPT ![s] = Junk]]
  BY <1>1
<1> QED BY <1>2, <1>3 DEF Memories

\* An access goes through: what it writes reaches no table.
LEMMA AccessDoneEffect ==
  ASSUME IInv, AccessDone
  PROVE  /\ OwnTables /\ OwnTables' /\ pd' = pd /\ mem' \in Memories /\ GoodTables(mem', pd)
         /\ \A page \in Page : WalkIn(mem', pd, page) = WalkIn(mem, pd, page)
         /\ TablesIn(mem', pd) = TablesIn(mem, pd)
         /\ TlbIn(tlb', mem', pd)
<1>1. pc = "access" /\ pc' = "idle" /\ pd' = pd
  BY DEF AccessDone
<1>2. OwnTables /\ OwnTables' /\ touch \in Touched
  BY <1>1 DEF OwnTables, IInv, Job
<1>3. touch \in Page
  BY <1>2, TouchedPages
<1>4. pd \in Frame /\ mem \in Memories /\ GoodTables(mem, pd)
      /\ Resolves(touch) = {WalkIn(mem, pd, touch)} /\ WalkIn(mem, pd, touch) \in Frame \cup {Absent}
  BY <1>2, <1>3, Settled
<1>5. PICK f \in Frame :
        /\ WalkIn(mem, pd, touch) = f
        /\ tlb' = Cached(tlb, touch, f)
        /\ UNCHANGED mem \/ (f \notin TablesIn(mem, pd) /\ Overwritten(f))
  BY <1>4, WalkIs DEF AccessDone
<1>6. TlbIn(tlb', mem, pd)
  BY <1>2, <1>3, <1>5, TlbIs, TlbUse
<1>7. CASE f \notin TablesIn(mem, pd) /\ Overwritten(f)
  <2>1. mem' \in Memories /\ \A g \in Frame : g # f => mem'[g] = mem[g]
    BY <1>4, <1>7, OverwrittenFrame
  <2>2. /\ GoodTables(mem', pd)
        /\ \A page \in Page : WalkIn(mem', pd, page) = WalkIn(mem, pd, page)
        /\ TablesIn(mem', pd) = TablesIn(mem, pd)
    BY <1>4, <1>7, <2>1, DataWrite
  <2> QED BY <1>1, <1>2, <1>6, <2>1, <2>2, TlbStays
<1>8. CASE UNCHANGED mem
  BY <1>1, <1>2, <1>4, <1>6, <1>8
<1> QED BY <1>5, <1>7, <1>8

LEMMA AccessDoneKeeps == IInv /\ AccessDone => IInv'
<1> SUFFICES ASSUME IInv, AccessDone PROVE IInv'
  OBVIOUS
<1>1. /\ pc = "access" /\ pc' = "idle"
      /\ UNCHANGED <<pd, avail, held, last, heap_end, pages, touch, phys, virt>>
  BY DEF AccessDone
<1>2. SpaceTypeOK /\ Setup /\ TablesGood /\ Job
  BY DEF IInv
<1>3. /\ OwnTables /\ OwnTables' /\ pd' = pd /\ mem' \in Memories /\ GoodTables(mem', pd)
      /\ \A page \in Page : WalkIn(mem', pd, page) = WalkIn(mem, pd, page)
      /\ TablesIn(mem', pd) = TablesIn(mem, pd)
      /\ TlbIn(tlb', mem', pd)
  BY AccessDoneEffect
<1>4. TlbCoherent' /\ DOMAIN tlb' \subseteq Page /\ tlb' \in [DOMAIN tlb' -> Frame]
  BY <1>3, TlbBecomes
<1>5. SpaceTypeOK'
  BY <1>1, <1>2, <1>3, <1>4 DEF SpaceTypeOK, Memories
<1>6. NoSharedFrame' /\ TablesGood' /\ HeapMapped'
  <2>1. held' \subseteq Frame
    BY <1>5, Bounds DEF SpaceTypeOK
  <2> QED BY <1>1, <1>2, <1>3, <2>1, NothingMoves DEF TablesGood
<1>7. Setup' /\ Job'
  BY <1>1, <1>2, <1>3 DEF Setup, Job, OwnTables
<1> QED BY <1>4, <1>5, <1>6, <1>7 DEF IInv

\* A poke into a table: the variables keep their types, and nothing else is said.
LEMMA TableOverwrittenKeeps == IInv /\ TableOverwritten => IInv'
<1> SUFFICES ASSUME IInv, TableOverwritten PROVE IInv'
  OBVIOUS
<1>1. /\ pc = "access" /\ pc' = "poked"
      /\ UNCHANGED <<pd, avail, held, last, heap_end, pages, touch, phys, virt>>
  BY DEF TableOverwritten
<1>2. OwnTables /\ ~OwnTables' /\ touch \in Touched /\ SpaceTypeOK /\ Setup
  BY <1>1 DEF OwnTables, IInv, Job
<1>3. touch \in Page
  BY <1>2, TouchedPages
<1>4. mem \in Memories /\ Resolves(touch) = {WalkIn(mem, pd, touch)}
      /\ WalkIn(mem, pd, touch) \in Frame \cup {Absent}
  BY <1>2, <1>3, Settled
<1>5. PICK f \in Frame : /\ WalkIn(mem, pd, touch) = f
                         /\ tlb' = Cached(tlb, touch, f) /\ Overwritten(f)
  BY <1>4 DEF TableOverwritten, Tables
<1>6. mem' \in Memories
  BY <1>4, <1>5, OverwrittenFrame
<1>7. TlbIn(tlb', mem, pd)
  BY <1>2, <1>3, <1>5, TlbIs, TlbUse
<1>8. SpaceTypeOK'
  BY <1>1, <1>2, <1>6, <1>7 DEF SpaceTypeOK, Memories, TlbIn
<1>9. TlbCoherent' /\ NoSharedFrame' /\ TablesGood' /\ HeapMapped'
  BY <1>2 DEF TlbCoherent, NoSharedFrame, TablesGood, HeapMapped
<1>10. Setup' /\ Job'
  BY <1>1, <1>2 DEF Setup, Job, OwnTables
<1> QED BY <1>8, <1>9, <1>10 DEF IInv

\* The page fault handler maps a frame at the page: one of the heap range, where
\* the heap has not come yet.
LEMMA FaultMapsKeeps == IInv /\ FaultMaps => IInv'
<1> SUFFICES ASSUME IInv, FaultMaps PROVE IInv'
  OBVIOUS
<1>1. PICK f \in avail : Frames!Grant(f) /\ phys' = f
  BY DEF FaultMaps
<1>2. /\ pc = "access" /\ pc' = "map" /\ virt' = touch /\ touch >= HeapStart
      /\ Absent \in Resolves(touch)
      /\ UNCHANGED <<mem, pd, tlb, heap_end, pages, touch>>
  BY DEF FaultMaps
<1>3. /\ OwnTables /\ OwnTables' /\ SpaceTypeOK /\ Setup /\ TablesGood
      /\ touch \in Touched /\ pages = 0
  BY <1>2 DEF OwnTables, IInv, Job
<1>4. /\ avail' \subseteq Ram /\ held' = Ram \ avail' /\ last' = f /\ f \in Frame
      /\ Cardinality(held) \in Nat /\ Cardinality(held') = Cardinality(held) + 1
  BY <1>1, <1>3, GrantEffect
<1>5. f \notin Tables /\ 0 \notin Tables /\ held \subseteq held' /\ f \in held'
      /\ \A p \in Mapped : Walk(p) # f
  BY <1>1, <1>3, FreshFrame
<1>6. touch \in Page /\ WalkIn(mem, pd, touch) = Absent
  BY <1>2, <1>3, TouchedPages, Settled
<1>7. touch \in HeapPage
  <2>1. touch # Window(Entries - 1)
    BY <1>3, <1>6, Settled, WalkGood, SlotFacts DEF GoodTables
  <2> QED BY <1>2, <1>3, <2>1, TouchedPages
<1>8. heap_end <= touch
  <2>1. Walk(touch) \notin Frame
    BY <1>6, WalkIs, SlotFacts
  <2>2. ~(touch < heap_end)
    BY <1>3, <1>7, <2>1 DEF IInv, HeapMapped
  <2>3. heap_end \in Int /\ touch \in Int
    BY <1>3, <1>6, Bounds DEF SpaceTypeOK, Page
  <2> QED BY <2>2, <2>3
<1>9. SpaceTypeOK'
  <2>1. heap_end' \in {0} \cup HeapStart .. (HeapStart + Cardinality(held') - 2)
    BY <1>2, <1>3, <1>4, Bounds DEF SpaceTypeOK
  <2> QED BY <1>1, <1>2, <1>3, <1>4, <1>5, <1>6, <2>1 DEF SpaceTypeOK
<1>10. NoSharedFrame' /\ TablesGood' /\ HeapMapped' /\ Tables' = Tables /\ Mapped' = Mapped
      /\ \A page \in Page : Walk(page)' = Walk(page)
  BY <1>2, <1>3, <1>5, <1>9, NothingWritten
<1>11. TlbCoherent'
  BY <1>2, <1>3, TlbIs, TlbBecomes
<1>12. Job'
  <2>1. \A p \in Mapped' : Walk(p)' # f
    BY <1>5, <1>10, HeapSplit DEF Mapped
  <2> QED BY <1>1, <1>2, <1>3, <1>5, <1>7, <1>8, <1>10, <2>1 DEF Job
<1>13. Setup'
  BY <1>2, <1>3, <1>4 DEF Setup, OwnTables
<1> QED BY <1>9, <1>10, <1>11, <1>12, <1>13 DEF IInv

\* It reports the fault and halts.
LEMMA FaultHaltsKeeps == IInv /\ FaultHalts => IInv'
<1> SUFFICES ASSUME IInv, FaultHalts PROVE IInv'
  OBVIOUS
<1>1. /\ pc = "access" /\ pc' = "halted"
      /\ UNCHANGED <<mem, pd, tlb, heap_end, pages, touch, phys, virt>>
      /\ UNCHANGED <<avail, held>> /\ last' \in {last, 0}
  BY DEF FaultHalts, Frames!Refuse, Frames!NoFrame
<1>2. OwnTables /\ OwnTables' /\ SpaceTypeOK /\ Setup /\ TablesGood
  BY <1>1 DEF OwnTables, IInv
<1>3. SpaceTypeOK'
  BY <1>1, <1>2 DEF SpaceTypeOK
<1>4. NoSharedFrame' /\ TablesGood' /\ HeapMapped'
  BY <1>1, <1>2, <1>3, NothingWritten DEF TablesGood
<1>5. TlbCoherent'
  BY <1>1, <1>2, TlbIs, TlbBecomes
<1>6. Setup' /\ Job'
  BY <1>1, <1>2 DEF Setup, Job, OwnTables, IInv
<1> QED BY <1>3, <1>4, <1>5, <1>6 DEF IInv

-----------------------------------------------------------------------------
\* The memory before mmu_init satisfies the invariant.
LEMMA SpaceInitInv == SpaceInit => IInv
<1> SUFFICES ASSUME SpaceInit PROVE IInv
  OBVIOUS
<1> USE DEF SpaceInit
<1>1. mem \in Memories
  BY DEF Memories, Uncleared
<1>2. 0 \in Page /\ 0 \in Frame
  BY SlotFacts, LowSplit
<1>3. SpaceTypeOK
  BY <1>1, <1>2, Bounds DEF SpaceTypeOK, Memories
<1>4. Setup /\ TlbCoherent /\ NoSharedFrame /\ TablesGood /\ Job
  BY DEF Setup, TlbCoherent, NoSharedFrame, TablesGood, Job, OwnTables
<1>5. HeapMapped
  BY HeapSplit, Bounds DEF HeapMapped, HeapPage
<1> QED BY <1>3, <1>4, <1>5 DEF IInv

\* Every step keeps it.
LEMMA SpaceNextInv == IInv /\ [SpaceNext]_spaceVars => IInv'
<1> SUFFICES ASSUME IInv, [SpaceNext]_spaceVars PROVE IInv'
  OBVIOUS
<1>1. CASE SpaceStep
  BY <1>1, InitDirectoryKeeps, InitTableKeeps, InitHeapKeeps, TakeFrameKeeps,
     LoopEndsKeeps, TablePresentKeeps, NewTableKeeps, WriteEntryKeeps,
     AccessDoneKeeps, TableOverwrittenKeeps, FaultMapsKeeps, FaultHaltsKeeps DEF SpaceStep
<1>2. CASE \E n \in GrowSizes : GrowHeap(n)
  BY <1>2, GrowHeapKeeps
<1>3. CASE \E page \in Touched : Touch(page)
  BY <1>3, TouchKeeps
<1>4. CASE UNCHANGED spaceVars
  <2>1. /\ \A page : Walk(page)' = Walk(page)
        /\ Tables' = Tables /\ Mapped' = Mapped /\ (OwnTables' <=> OwnTables)
    BY <1>4 DEF spaceVars, Walk, Tables, Mapped, OwnTables
  <2>2. SpaceTypeOK' /\ TlbCoherent' /\ NoSharedFrame' /\ HeapMapped'
    BY <1>4, <2>1 DEF spaceVars, IInv, SpaceTypeOK, TlbCoherent, NoSharedFrame, HeapMapped
  <2>3. TablesGood' /\ Setup' /\ Job'
    BY <1>4, <2>1 DEF spaceVars, IInv, TablesGood, GoodTables, Setup, Job
  <2> QED BY <2>2, <2>3 DEF IInv
<1> QED BY <1>1, <1>2, <1>3, <1>4 DEF SpaceNext

\* The invariant holds for every number of slots, every RAM and every sequence of
\* heap growth and accesses.
THEOREM SpaceInvariant == SpaceSpec => []IInv
BY SpaceInitInv, SpaceNextInv, PTL DEF SpaceSpec

\* The variables keep their types, and heap_end stays below the window.
THEOREM SpaceTypeCorrect == SpaceSpec => []SpaceTypeOK
<1>1. IInv => SpaceTypeOK
  BY DEF IInv
<1> QED BY <1>1, SpaceInvariant, PTL

\* What mmu_init set up stays: the identity map and the window, under every later
\* mapping, cleared table and write, until a poke goes into a table.
THEOREM SpaceKernelMap == SpaceSpec => []KernelMapIntact
<1>1. IInv => KernelMapIntact
  <2> SUFFICES ASSUME IInv, OwnTables
               PROVE  /\ \A page \in Slot : Walk(page) = page
                      /\ Walk(Window(Entries - 1)) = pd
    BY DEF KernelMapIntact
  <2>1. pd \in Frame /\ mem \in Memories /\ GoodTables(mem, pd)
    BY Settled
  <2>2. WalkIn(mem, pd, Window(Entries - 1)) = pd
    BY <2>1, WalkGood, SlotFacts DEF GoodTables
  <2> QED BY <2>1, <2>2, WalkGood, WalkIs
<1> QED BY <1>1, SpaceInvariant, PTL

\* Until then the TLB never holds a translation the tables no longer have.
THEOREM SpaceTlbCoherent == SpaceSpec => []TlbCoherent
<1>1. IInv => TlbCoherent
  BY DEF IInv
<1> QED BY <1>1, SpaceInvariant, PTL

\* Until then no frame is behind two heap pages, none is also a table.
THEOREM SpaceNoSharedFrame == SpaceSpec => []NoSharedFrame
<1>1. IInv => NoSharedFrame
  BY DEF IInv
<1> QED BY <1>1, SpaceInvariant, PTL

\* What the heap has mapped stays mapped to the same frames in every step but a
\* poke into a table.
THEOREM SpaceHeapStays == SpaceSpec => HeapStays
<1> DEFINE Stay == pc' # "poked" => \A page \in HeapPage : page < heap_end =>
                     Walk(page) \in Frame /\ Walk(page)' = Walk(page)
<1>1. IInv /\ [SpaceNext]_spaceVars => [Stay]_spaceVars
  <2> SUFFICES ASSUME IInv, SpaceNext, pc' # "poked",
                      NEW page \in HeapPage, page < heap_end
               PROVE  Walk(page) \in Frame /\ Walk(page)' = Walk(page)
    OBVIOUS
  <2>1. OwnTables
    <3>1. heap_end # 0
      BY HeapSplit, Bounds DEF HeapPage
    <3>2. pc \notin {"directory", "table0"}
      BY <3>1 DEF IInv, Setup
    <3>3. pc # "poked"
      BY DEF SpaceNext, SpaceStep, InitDirectory, InitTable, InitHeap, TakeFrame, LoopEnds,
         TablePresent, NewTable, WriteEntry, AccessDone, TableOverwritten, FaultMaps,
         FaultHalts, GrowHeap, Touch
    <3> QED BY <3>2, <3>3 DEF OwnTables
  <2>2. Walk(page) \in Frame
    BY <2>1 DEF IInv, HeapMapped
  <2>3. page \in Page /\ page \in Int /\ Walk(page) = WalkIn(mem, pd, page)
        /\ Walk(page)' = WalkIn(mem', pd', page)
    BY HeapSplit, WalkIs DEF HeapPage
  <2>4. CASE WriteEntry
    <3>1. page # virt
      <4>1. heap_end \in Int /\ heap_end <= virt
        BY <2>4, Bounds DEF IInv, Job, WriteEntry, SpaceTypeOK
      <4> QED BY <2>3, <4>1, HeapSplit DEF HeapPage
    <3> QED BY <2>2, <2>3, <2>4, <3>1, WriteEntryEffect
  <2>5. CASE NewTable
    BY <2>2, <2>3, <2>5, NewTableEffect
  <2>6. CASE AccessDone
    BY <2>2, <2>3, <2>6, AccessDoneEffect
  <2>7. CASE UNCHANGED <<mem, pd>>
    BY <2>2, <2>3, <2>7
  <2>8. ~InitDirectory /\ ~InitTable /\ ~TableOverwritten
    BY <2>1 DEF OwnTables, InitDirectory, InitTable, TableOverwritten
  <2> QED BY <2>2, <2>4, <2>5, <2>6, <2>7, <2>8 DEF SpaceNext, SpaceStep, InitHeap, TakeFrame,
       LoopEnds, TablePresent, FaultMaps, FaultHalts, GrowHeap, Touch
<1> QED BY <1>1, SpaceInvariant, PTL DEF SpaceSpec, HeapStays
=============================================================================
