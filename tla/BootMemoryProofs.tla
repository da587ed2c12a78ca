-------------------------- MODULE BootMemoryProofs --------------------------
(***************************************************************************)
(* Safety of init_mem for every memory map: which pages the bitmap may     *)
(* have free once the boot is through it.  What is said of RAM needs the   *)
(* maps to be PlainMaps; nothing else does.                                *)
(***************************************************************************)
EXTENDS BootMemory, TLAPS

-----------------------------------------------------------------------------
\* Rounding to pages.

\* A number lies in the page its quotient names.
LEMMA PageOf ==
  ASSUME NEW x \in Nat
  PROVE  /\ x \div PageSize \in Nat
         /\ (x \div PageSize) * PageSize <= x
         /\ x < (x \div PageSize) * PageSize + PageSize
         /\ x % PageSize = 0 => x = (x \div PageSize) * PageSize
<1> USE BootConstants DEF BootConstants
<1> DEFINE q == x \div PageSize
           r == x % PageSize
<1>1. q \in Nat /\ r \in 0 .. (PageSize - 1) /\ x = q * PageSize + r
  OBVIOUS
<1> HIDE DEF q, r
<1>2. q * PageSize \in Nat
  BY <1>1
<1>3. q * PageSize <= x /\ x < q * PageSize + PageSize /\ (r = 0 => x = q * PageSize)
  BY <1>1, <1>2
<1> QED BY <1>1, <1>3 DEF q, r

\* Pages and the addresses they begin at are in the same order.
LEMMA PageOrder ==
  ASSUME NEW p \in Nat, NEW q \in Nat
  PROVE  /\ p <= q => p * PageSize <= q * PageSize
         /\ p < q => p * PageSize + PageSize <= q * PageSize
         /\ (p + 1) * PageSize = p * PageSize + PageSize
         /\ p * PageSize \in Nat
<1> USE BootConstants DEF BootConstants
<1>1. PageSize \in Nat \ {0} /\ p * PageSize \in Nat /\ q * PageSize \in Nat
  OBVIOUS
<1>2. (p + 1) * PageSize = p * PageSize + PageSize
  BY <1>1
<1>3. p <= q => p * PageSize <= q * PageSize
  BY <1>1
<1>4. p + 1 <= q => (p + 1) * PageSize <= q * PageSize
  BY <1>1
<1> QED BY <1>1, <1>2, <1>3, <1>4

\* The pages a range marks, by the addresses they begin and end at: those that
\* end inside the range and do not end before it begins.
LEMMA RegionIs ==
  ASSUME NEW base \in Nat, NEW size \in Nat, NEW p \in Nat
  PROVE  /\ p \in RegionPages(base, size) =>
              /\ base < p * PageSize + PageSize /\ p * PageSize + PageSize <= base + size
              /\ base % PageSize = 0 => base <= p * PageSize
         /\ base <= p * PageSize /\ p * PageSize + PageSize <= base + size =>
              p \in RegionPages(base, size)
<1> DEFINE a == base \div PageSize
           z == (base + size) \div PageSize
<1>1. base + size \in Nat /\ PageSize \in Nat \ {0}
  BY BootConstants DEF BootConstants
<1>2. /\ a \in Nat /\ a * PageSize <= base /\ base < a * PageSize + PageSize
      /\ base % PageSize = 0 => base = a * PageSize
  BY PageOf
<1>3. /\ z \in Nat /\ z * PageSize <= base + size /\ base + size < z * PageSize + PageSize
  BY <1>1, PageOf
<1>4. RegionPages(base, size) = a .. (z - 1)
  BY DEF RegionPages
<1> HIDE DEF a, z
<1>5. /\ p * PageSize \in Nat /\ a * PageSize \in Nat /\ z * PageSize \in Nat
      /\ a <= p => a * PageSize <= p * PageSize
      /\ p < a => p * PageSize + PageSize <= a * PageSize
      /\ p < z => p * PageSize + PageSize <= z * PageSize
      /\ z <= p => z * PageSize <= p * PageSize
  BY <1>2, <1>3, PageOrder
<1>6. ASSUME p \in RegionPages(base, size)
      PROVE  /\ base < p * PageSize + PageSize /\ p * PageSize + PageSize <= base + size
             /\ base % PageSize = 0 => base <= p * PageSize
  <2>1. a <= p /\ p < z
    BY <1>2, <1>3, <1>4, <1>6
  <2> QED BY <1>1, <1>2, <1>3, <1>5, <2>1
<1>7. ASSUME base <= p * PageSize, p * PageSize + PageSize <= base + size
      PROVE  p \in RegionPages(base, size)
  <2>1. ~(p < a) /\ ~(z <= p)
    BY <1>1, <1>2, <1>3, <1>5, <1>7
  <2> QED BY <1>2, <1>3, <1>4, <2>1
<1> QED BY <1>6, <1>7

\* A range that passes the bounds checks marks pages that have a bit.
LEMMA InBounds ==
  ASSUME NEW base \in Nat, NEW size \in Nat, bits \in Nat, ~OutOfBounds(base, size)
  PROVE  RegionPages(base, size) \subseteq 0 .. (bits - 1)
<1>1. base \div PageSize \in Nat /\ (base + size) \div PageSize \in Nat
  BY PageOf
<1> QED BY <1>1 DEF OutOfBounds, RegionPages

-----------------------------------------------------------------------------
\* The invariant.

\* Nothing is free before the second pass nor without a map; nothing is handed
\* out before init_mem returns; the slice is as long as the top of RAM asks for.
Progress ==
  /\ phase \in {"start", "scan"} => avail = {}
  /\ phase # "run" => held = {}
  /\ ~given => avail = {} /\ held = {} /\ phase \notin {"scan", "free"}
  /\ given /\ phase \in {"free", "run"} => bits = BitmapBytes(max_ram) * ByteBits

\* A page that the second pass freed lies in an available region.
InRam ==
  phase \in {"free", "run"} =>
    \A page \in InUse : \E r \in MapEntries : r.available /\ Inside(page, r)

BootInv == BootTypeOK /\ Progress /\ KernelReserved

\* What an entry of the map is.
LEMMA EntryIs ==
  ASSUME BootTypeOK, entry <= Len(mmap)
  PROVE  /\ entry \in DOMAIN mmap /\ mmap[entry] \in MapEntries
         /\ mmap[entry].base \in Nat /\ mmap[entry].length \in Nat
         /\ mmap[entry].available \in BOOLEAN
         /\ entry + 1 \in 1 .. (Len(mmap) + 1) /\ Len(mmap) \in Nat
         /\ ZoneEnd(mmap[entry]) \in 0 .. (WordMod - 1)
<1>1. mmap \in Seq(Region) /\ entry \in 1 .. (Len(mmap) + 1)
  BY BootConstants DEF BootConstants, BootTypeOK
<1>2. /\ entry \in DOMAIN mmap /\ mmap[entry] \in Region
      /\ Len(mmap) \in Nat /\ entry + 1 \in 1 .. (Len(mmap) + 1)
  BY <1>1
<1>3. mmap[entry].base \in Nat /\ mmap[entry].length \in Nat /\ mmap[entry].available \in BOOLEAN
  BY <1>2 DEF Region
<1>4. ZoneEnd(mmap[entry]) \in 0 .. (WordMod - 1)
  BY <1>3, BootConstants DEF ZoneEnd, BootConstants
<1> QED BY <1>2, <1>3, <1>4 DEF MapEntries

\* The stack's region begins and ends at a page: a page that meets it is marked.
LEMMA StackApart ==
  ASSUME NEW p \in Nat, p \notin RegionPages(StackBase, StackSize)
  PROVE  ~(StackBase < p * PageSize + PageSize /\ p * PageSize < StackBase + StackSize)
<1> USE BootConstants DEF BootConstants
<1> DEFINE a == StackBase \div PageSize
           n == StackSize \div PageSize
<1>1. a \in Nat /\ n \in Nat /\ StackBase = a * PageSize /\ StackSize = n * PageSize
  BY PageOf
<1> HIDE DEF a, n
<1>2. (a + n) * PageSize = a * PageSize + n * PageSize /\ a + n \in Nat
  BY <1>1
<1>3. StackBase + StackSize = (a + n) * PageSize
  BY <1>1, <1>2
<1>4. /\ p * PageSize \in Nat /\ a * PageSize \in Nat /\ (a + n) * PageSize \in Nat
      /\ a <= p => a * PageSize <= p * PageSize
      /\ p < a => p * PageSize + PageSize <= a * PageSize
      /\ p < a + n => p * PageSize + PageSize <= (a + n) * PageSize
      /\ a + n <= p => (a + n) * PageSize <= p * PageSize
  BY <1>1, <1>2, PageOrder
<1>5. ~(a <= p /\ p < a + n)
  BY <1>1, <1>3, <1>4, RegionIs
<1> QED BY <1>1, <1>2, <1>3, <1>4, <1>5

\* What the three reservations leave free.
LEMMA ReserveEffect ==
  ASSUME BootInv, Reserve
  PROVE  /\ phase = "free" /\ given /\ held = {} /\ held' = {}
         /\ UNCHANGED <<mmap, given, entry, max_ram, bits, last>>
         /\ \/ phase' = "panic" /\ avail' = avail
            \/ /\ phase' = "run" /\ avail' \subseteq avail
               /\ \A page \in avail' :
                    /\ page # 0
                    /\ ~Meets(page, StackBase, StackBase + StackSize)
                    /\ ~(/\ KernelStart <= page * PageSize
                         /\ (page + 1) * PageSize <= KernelEnd + (bits \div ByteBits))
<1> USE BootConstants DEF BootConstants
<1> DEFINE length == KernelLength(BitmapBytes(max_ram))
<1>1. /\ phase = "free" /\ given /\ held = {} /\ held' = held
      /\ UNCHANGED <<mmap, given, entry, max_ram, bits, last>>
  BY DEF Reserve, Panic, BootInv, Progress
<1>2. CASE Panic
  BY <1>1, <1>2 DEF Panic
<1>3. CASE ~Panic
  <2>1. /\ phase' = "run"
        /\ avail' = avail \ (RegionPages(KernelStart, length)
                               \cup RegionPages(0, PageSize)
                               \cup RegionPages(StackBase, StackSize))
    BY <1>3 DEF Reserve
  <2>2. max_ram \in Nat /\ bits = BitmapBytes(max_ram) * ByteBits
    BY <1>1 DEF BootInv, BootTypeOK, Progress
  <2>3. BitmapBytes(max_ram) \in Nat /\ bits \div ByteBits = BitmapBytes(max_ram)
    <3>1. max_ram \div PageSize \in Nat
      BY <2>2
    <3>2. BitmapBytes(max_ram) \in Nat
      BY <3>1 DEF BitmapBytes
    <3> QED BY <2>2, <3>2
  <2>4. length \in Nat /\ KernelStart + length = KernelEnd + (bits \div ByteBits)
    BY <2>3 DEF KernelLength
  <2> HIDE DEF length
  <2>5. ASSUME NEW page \in avail'
        PROVE  /\ page # 0
               /\ ~Meets(page, StackBase, StackBase + StackSize)
               /\ ~(/\ KernelStart <= page * PageSize
                    /\ (page + 1) * PageSize <= KernelEnd + (bits \div ByteBits))
    <3>1. page \in Nat /\ page \in avail
      BY <2>1, <2>5 DEF BootInv, BootTypeOK
    <3>2. /\ page \notin RegionPages(KernelStart, length)
          /\ page \notin RegionPages(0, PageSize) /\ page \notin RegionPages(StackBase, StackSize)
      BY <2>1, <2>5
    <3>3. (page + 1) * PageSize = page * PageSize + PageSize /\ page * PageSize \in Nat
      BY <3>1, PageOrder
    <3>4. page # 0
      <4> SUFFICES ASSUME page = 0 PROVE FALSE
        OBVIOUS
      <4>1. page * PageSize = 0
        BY <3>1
      <4> QED BY <3>1, <3>2, <4>1, RegionIs
    <3>5. ~(/\ KernelStart <= page * PageSize
            /\ (page + 1) * PageSize <= KernelEnd + (bits \div ByteBits))
      BY <2>4, <3>1, <3>2, <3>3, RegionIs
    <3>6. ~Meets(page, StackBase, StackBase + StackSize)
      BY <3>1, <3>2, <3>3, StackApart DEF Meets
    <3> QED BY <3>4, <3>5, <3>6
  <2> QED BY <1>1, <2>1, <2>5
<1> QED BY <1>2, <1>3

\* A round of the second pass.
LEMMA FreeEntryEffect ==
  ASSUME BootInv, FreeEntry
  PROVE  /\ phase = "free" /\ UNCHANGED <<mmap, given, max_ram, bits, held, last>>
         /\ entry \in DOMAIN mmap /\ entry' \in {entry, entry + 1}
         /\ entry + 1 \in 1 .. (Len(mmap) + 1)
         /\ \/ phase' \in {"free", "panic"} /\ avail' = avail
            \/ /\ phase' = "free" /\ mmap[entry].available
               /\ avail' = avail \cup RegionPages(mmap[entry].base, mmap[entry].length)
               /\ RegionPages(mmap[entry].base, mmap[entry].length) \subseteq 0 .. (bits - 1)
<1>1. phase = "free" /\ entry <= Len(mmap)
  BY DEF FreeEntry
<1>2. /\ entry \in DOMAIN mmap /\ entry + 1 \in 1 .. (Len(mmap) + 1)
      /\ mmap[entry].base \in Nat /\ mmap[entry].length \in Nat
  BY <1>1, EntryIs DEF BootInv
<1>3. bits \in Nat
  BY DEF BootInv, BootTypeOK
<1>4. ~OutOfBounds(mmap[entry].base, mmap[entry].length) =>
        RegionPages(mmap[entry].base, mmap[entry].length) \subseteq 0 .. (bits - 1)
  BY <1>2, <1>3, InBounds
<1> QED BY <1>1, <1>2, <1>4 DEF FreeEntry, Panic

\* pmm_alloc_frame moves a page from the free ones to those handed out.
LEMMA AllocEffect ==
  ASSUME AllocFrame
  PROVE  /\ phase = "run" /\ UNCHANGED <<mmap, given, phase, entry, max_ram, bits>>
         /\ InUse' = InUse /\ last' \in held' \cup {0}
         /\ avail' \subseteq avail \cup held /\ held' \subseteq avail \cup held
         /\ avail = {} => UNCHANGED <<avail, held>>
BY DEF AllocFrame, Frames!Grant, Frames!Refuse, Frames!NoFrame, InUse

LEMMA BootInitInv == BootInit => BootInv /\ InRam
<1> SUFFICES ASSUME BootInit PROVE BootInv /\ InRam
  OBVIOUS
<1> USE BootConstants DEF BootConstants, BootInit
<1>1. mmap \in Seq(Region)
  OBVIOUS
<1>2. 1 \in 1 .. (Len(mmap) + 1)
  BY <1>1
<1>3. BootTypeOK
  BY <1>2 DEF BootTypeOK
<1> QED BY <1>3 DEF BootInv, Progress, KernelReserved, InRam

\* Every step of init_mem and every frame taken later keep the invariant.
LEMMA BootNextInv == BootInv /\ [BootNext]_bootVars => BootInv'
<1> SUFFICES ASSUME BootInv, [BootNext]_bootVars PROVE BootInv'
  OBVIOUS
<1> USE DEF BootInv
<1>1. CASE Start
  BY <1>1 DEF Start, BootTypeOK, Progress, KernelReserved, InUse
<1>2. CASE ScanEntry
  <2>1. /\ ZoneEnd(mmap[entry]) \in 0 .. (WordMod - 1) /\ entry + 1 \in 1 .. (Len(mmap) + 1)
    BY <1>2, EntryIs DEF ScanEntry
  <2> QED BY <1>2, <2>1 DEF ScanEntry, BootTypeOK, Progress, KernelReserved
<1>3. CASE InitBitmap
  <2>1. BitmapBytes(max_ram) * ByteBits \in Nat
    <3>1. max_ram \div PageSize \in Nat
      BY BootConstants DEF BootConstants, BootTypeOK
    <3>2. BitmapBytes(max_ram) \in Nat
      BY <3>1, BootConstants DEF BootConstants, BitmapBytes
    <3> QED BY <3>2, BootConstants DEF BootConstants
  <2>2. 1 \in 1 .. (Len(mmap) + 1)
    <3>1. mmap \in Seq(Region)
      BY BootConstants DEF BootConstants, BootTypeOK
    <3> QED BY <3>1
  <2>3. avail = {} /\ held = {} /\ given
    BY <1>3 DEF InitBitmap, Progress
  <2> QED BY <1>3, <2>1, <2>2, <2>3 DEF InitBitmap, BootTypeOK, Progress, KernelReserved
<1>4. CASE FreeEntry
  <2>1. /\ phase = "free" /\ UNCHANGED <<mmap, given, max_ram, bits, held, last>>
        /\ entry' \in 1 .. (Len(mmap) + 1) /\ avail' \subseteq 0 .. (bits - 1)
        /\ phase' \in {"free", "panic"}
    BY <1>4, FreeEntryEffect DEF BootTypeOK
  <2> QED BY <2>1 DEF BootTypeOK, Progress, KernelReserved
<1>5. CASE Reserve
  <2>1. /\ phase = "free" /\ given /\ held = {} /\ held' = {}
        /\ UNCHANGED <<mmap, given, entry, max_ram, bits, last>>
        /\ avail' \subseteq avail /\ phase' \in {"run", "panic"}
    BY <1>5, ReserveEffect
  <2>2. BootTypeOK' /\ Progress'
    BY <2>1 DEF BootTypeOK, Progress
  <2>3. KernelReserved'
    BY <1>5, <2>1, ReserveEffect DEF KernelReserved, InUse, Meets
  <2> QED BY <2>2, <2>3
<1>6. CASE AllocFrame
  <2>1. /\ phase = "run" /\ UNCHANGED <<mmap, given, phase, entry, max_ram, bits>>
        /\ InUse' = InUse /\ last' \in held' \cup {0}
        /\ avail' \subseteq avail \cup held /\ held' \subseteq avail \cup held
        /\ avail = {} => UNCHANGED <<avail, held>>
    BY <1>6, AllocEffect
  <2> QED BY <2>1 DEF BootTypeOK, Progress, KernelReserved, Meets
<1>7. CASE UNCHANGED bootVars
  BY <1>7 DEF bootVars, BootTypeOK, Progress, KernelReserved, InUse, Meets
<1> QED BY <1>1, <1>2, <1>3, <1>4, <1>5, <1>6, <1>7 DEF BootNext, InitMem

\* What the bitmap has free stays RAM.
LEMMA InRamStep ==
  ASSUME PlainMaps, BootInv, InRam, [BootNext]_bootVars
  PROVE  InRam'
<1>1. mmap' = mmap
  BY DEF BootNext, InitMem, Start, ScanEntry, InitBitmap, FreeEntry, Reserve, Panic,
         AllocFrame, bootVars
<1>2. MapEntries' = MapEntries
  BY <1>1 DEF MapEntries
<1>3. CASE Start \/ ScanEntry \/ InitBitmap
  <2>1. avail' = {} /\ held' = {}
    BY <1>3 DEF BootInv, Progress, Start, ScanEntry, InitBitmap
  <2> QED BY <2>1 DEF InRam, InUse
<1>4. CASE FreeEntry
  <2> SUFFICES ASSUME NEW page \in InUse'
               PROVE  \E r \in MapEntries : r.available /\ Inside(page, r)
    BY <1>2 DEF InRam, Inside
  <2>1. /\ phase = "free" /\ held' = held
        /\ \/ avail' = avail
           \/ /\ mmap[entry].available
              /\ avail' = avail \cup RegionPages(mmap[entry].base, mmap[entry].length)
              /\ RegionPages(mmap[entry].base, mmap[entry].length) \subseteq 0 .. (bits - 1)
    BY <1>4, FreeEntryEffect
  <2>2. CASE page \in InUse
    BY <2>1, <2>2 DEF InRam
  <2>3. CASE page \notin InUse
    <3> DEFINE r == mmap[entry]
    <3>1. r.available /\ page \in RegionPages(r.base, r.length) /\ page \in Nat
      BY <2>1, <2>3 DEF InUse
    <3>2. entry \in DOMAIN mmap /\ r \in MapEntries /\ r.base \in Nat /\ r.length \in Nat
      BY <1>4, EntryIs DEF BootInv, FreeEntry
    <3>3. r.base % PageSize = 0
      BY <3>1, <3>2 DEF PlainMaps, BootInv, BootTypeOK
    <3> HIDE DEF r
    <3>4. r.base <= page * PageSize /\ page * PageSize + PageSize <= r.base + r.length
      BY <3>1, <3>2, <3>3, RegionIs
    <3>5. (page + 1) * PageSize = page * PageSize + PageSize
      BY <3>1, PageOrder
    <3> QED BY <3>1, <3>2, <3>4, <3>5 DEF Inside
  <2> QED BY <2>2, <2>3
<1>5. CASE Reserve
  <2>1. phase = "free" /\ avail' \subseteq avail /\ held' = held
    BY <1>5, ReserveEffect
  <2> QED BY <1>2, <2>1 DEF InRam, InUse, Inside
<1>6. CASE AllocFrame
  BY <1>2, <1>6, AllocEffect DEF InRam, Inside
<1>7. CASE UNCHANGED bootVars
  BY <1>2, <1>7 DEF bootVars, InRam, InUse, Inside
<1> QED BY <1>3, <1>4, <1>5, <1>6, <1>7 DEF BootNext, InitMem

\* A page inside an available region of a plain map meets no reserved region.
LEMMA InRamIsOnlyRam ==
  ASSUME PlainMaps, BootInv, InRam
  PROVE  OnlyRamFree
<1> SUFFICES ASSUME phase = "run", NEW page \in InUse, NEW h \in MapEntries, ~h.available
             PROVE  ~Meets(page, h.base, h.base + h.length)
  BY DEF InRam, OnlyRamFree
<1>1. PICK r \in MapEntries : r.available /\ Inside(page, r)
  BY DEF InRam
<1>2. mmap \in MemoryMaps /\ mmap \in Seq(Region) /\ page \in Nat
  BY BootConstants DEF BootConstants, BootInv, BootTypeOK, InUse
<1>3. PICK i \in DOMAIN mmap : r = mmap[i]
  BY DEF MapEntries
<1>4. PICK j \in DOMAIN mmap : h = mmap[j]
  BY DEF MapEntries
<1>5. \/ h.base + h.length <= r.base
      \/ r.base + r.length <= h.base
  BY <1>1, <1>2, <1>3, <1>4 DEF PlainMaps
<1>6. /\ r.base \in Nat /\ r.length \in Nat /\ h.base \in Nat /\ h.length \in Nat
  <2>1. r \in Region /\ h \in Region
    BY <1>2, <1>3, <1>4
  <2> QED BY <2>1 DEF Region
<1>7. page * PageSize \in Nat /\ (page + 1) * PageSize \in Nat
  BY <1>2, BootConstants DEF BootConstants
<1> QED BY <1>1, <1>5, <1>6, <1>7 DEF Inside, Meets

-----------------------------------------------------------------------------
THEOREM BootInvariant == BootSpec => []BootInv
BY BootInitInv, BootNextInv, PTL DEF BootSpec

\* The types: only pages that have a bit are ever free or handed out, and the top
\* of RAM is a word.
THEOREM BootTypeCorrect == BootSpec => []BootTypeOK
<1>1. BootInv => BootTypeOK
  BY DEF BootInv
<1> QED BY <1>1, BootInvariant, PTL

\* pmm_alloc_frame never hands out page 0, a page of the boot stack or one that
\* lies in the kernel image and its bitmap, whatever the map said.
THEOREM BootKernelReserved == BootSpec => []KernelReserved
<1>1. BootInv => KernelReserved
  BY DEF BootInv
<1> QED BY <1>1, BootInvariant, PTL

\* With a plain map every frame handed out is RAM and meets no reserved region.
THEOREM BootOnlyRamFree == PlainMaps => (BootSpec => []OnlyRamFree)
<1> SUFFICES ASSUME PlainMaps PROVE BootSpec => []OnlyRamFree
  OBVIOUS
<1>1. BootInit => InRam
  BY BootInitInv
<1>2. BootInv /\ InRam /\ [BootNext]_bootVars => InRam'
  BY InRamStep
<1>3. BootInv /\ InRam => OnlyRamFree
  BY InRamIsOnlyRam
<1> QED BY <1>1, <1>2, <1>3, BootInvariant, PTL DEF BootSpec
=============================================================================
