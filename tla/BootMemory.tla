----------------------------- MODULE BootMemory -----------------------------
(***************************************************************************)
(* How init_mem (src/src/kernel/kernel.c) turns the boot loader's memory   *)
(* map into the bitmap of the physical memory manager: one pass for the    *)
(* top of RAM, pmm_init, one pass that frees the available regions, three  *)
(* reservations.  After that the kernel takes frames from it.              *)
(*                                                                         *)
(* The bitmap is seen as the set of its pages whose bit is 0 (avail) and   *)
(* the number of bits it has; Pmm models it byte by byte.  The Zig code is *)
(* built ReleaseSafe: an index outside the slice or a sum outside the word *)
(* ends in the panic handler, cli; hlt for ever.                           *)
(***************************************************************************)
EXTENDS Integers, Sequences

CONSTANTS
  PageSize,     \* 4096
  ByteBits,     \* bits in a byte: 8
  WordMod,      \* 2^32
  KernelStart,  \* 0x100000
  KernelEnd,    \* the linker's kernel_end: not aligned to anything
  StackBase,    \* 0x80000
  StackSize,    \* 0x10000
  MemoryMaps    \* the maps a boot loader may hand over: sequences of Region

\* A multiboot map entry as the code reads it: the low words of base and length,
\* and its type.  The maps here are those of machines without RAM above the word.
Region == [base : 0 .. (WordMod - 1), length : 0 .. (WordMod - 1), available : BOOLEAN]

ASSUME BootConstants ==
  /\ PageSize \in Nat \ {0} /\ ByteBits \in Nat \ {0} /\ WordMod \in Nat \ {0}
  /\ KernelStart \in Nat /\ KernelEnd \in Nat /\ KernelStart <= KernelEnd
  /\ StackBase \in Nat /\ StackSize \in Nat
  /\ StackBase % PageSize = 0 /\ StackSize % PageSize = 0
  /\ \A m \in MemoryMaps : m \in Seq(Region)

VARIABLES
  mmap,     \* the memory map
  given,    \* whether the boot loader set bit 6 of flags
  phase,    \* where init_mem is; "run" once it has returned
  entry,    \* the map entry the current pass looks at
  max_ram,  \* max_ram_addr
  bits,     \* pages the bitmap slice has a bit for
  avail,    \* pages whose bit is 0
  held,     \* pages handed out since
  last      \* what the latest pmm_alloc_frame returned

bootVars == <<mmap, given, phase, entry, max_ram, bits, avail, held, last>>

Frames == INSTANCE FrameAllocator

\* Slips: an end rounded up to a whole page, a sum that never wraps, a bitmap
\* one byte short, a kernel reserved without its bitmap.
PagesRoundedUp(base, size) ==
  (base \div PageSize) .. (((base + size + PageSize - 1) \div PageSize) - 1)
UnwrappedEnd(r) == r.base + r.length
ShortBitmap(ram) == ((ram \div PageSize) \div ByteBits) - 1
KernelOnly(bytes) == KernelEnd - KernelStart

\* The pages pmm_mark_region_free and _used walk: both ends rounded down.
RegionPages(base, size) == (base \div PageSize) .. (((base + size) \div PageSize) - 1)

\* base + size leaves the word, or a page has no bit.
OutOfBounds(base, size) ==
  base + size >= WordMod \/ \E p \in RegionPages(base, size) : p >= bits

ZoneEnd(r) == (r.base + r.length) % WordMod
BitmapBytes(ram) == (ram \div PageSize) \div ByteBits
KernelLength(bytes) == (KernelEnd - KernelStart) + bytes

BootInit ==
  /\ mmap \in MemoryMaps /\ given \in BOOLEAN
  /\ phase = "start" /\ entry = 1 /\ max_ram = 0 /\ bits = 0
  /\ avail = {} /\ held = {} /\ last = 0

Panic ==
  /\ phase' = "panic"
  /\ UNCHANGED <<mmap, given, entry, max_ram, bits, avail, held, last>>

\* Without a map KPANIC only logs: init_mem returns and the boot goes on with
\* the bitmap slice pmm.zig never set, which the build leaves empty.
Start ==
  /\ phase = "start"
  /\ phase' = IF given THEN "scan" ELSE "run"
  /\ UNCHANGED <<mmap, given, entry, max_ram, bits, avail, held, last>>

\* One round of the first loop.
ScanEntry ==
  /\ phase = "scan" /\ entry <= Len(mmap)
  /\ max_ram' = IF ZoneEnd(mmap[entry]) > max_ram THEN ZoneEnd(mmap[entry]) ELSE max_ram
  /\ entry' = entry + 1
  /\ UNCHANGED <<mmap, given, phase, bits, avail, held, last>>

\* pmm_init: every bit is 1.
InitBitmap ==
  /\ phase = "scan" /\ entry > Len(mmap)
  /\ bits' = BitmapBytes(max_ram) * ByteBits
  /\ phase' = "free" /\ entry' = 1
  /\ UNCHANGED <<mmap, given, max_ram, avail, held, last>>

\* One round of the second loop.
FreeEntry ==
  /\ phase = "free" /\ entry <= Len(mmap)
  /\ LET r == mmap[entry] IN
       \/ /\ ~r.available
          /\ entry' = entry + 1
          /\ UNCHANGED <<mmap, given, phase, max_ram, bits, avail, held, last>>
       \/ /\ r.available /\ ~OutOfBounds(r.base, r.length)
          /\ avail' = avail \cup RegionPages(r.base, r.length)
          /\ entry' = entry + 1
          /\ UNCHANGED <<mmap, given, phase, max_ram, bits, held, last>>
       \/ /\ r.available /\ OutOfBounds(r.base, r.length)
          /\ Panic

\* The three reservations: kernel image and bitmap, page 0, boot stack.
Reserve ==
  /\ phase = "free" /\ entry > Len(mmap)
  /\ LET length == KernelLength(BitmapBytes(max_ram)) IN
       \/ /\ ~OutOfBounds(KernelStart, length) /\ ~OutOfBounds(0, PageSize)
          /\ ~OutOfBounds(StackBase, StackSize)
          /\ avail' = avail \ (RegionPages(KernelStart, length)
                                 \cup RegionPages(0, PageSize)
                                 \cup RegionPages(StackBase, StackSize))
          /\ phase' = "run"
          /\ UNCHANGED <<mmap, given, entry, max_ram, bits, held, last>>
       \/ /\ \/ OutOfBounds(KernelStart, length) \/ OutOfBounds(0, PageSize)
             \/ OutOfBounds(StackBase, StackSize)
          /\ Panic

\* The kernel takes the first free frame, or learns that there is none.
AllocFrame ==
  /\ phase = "run"
  /\ \/ \E f \in avail : (\A g \in avail : f <= g) /\ Frames!Grant(f)
     \/ Frames!Refuse
  /\ UNCHANGED <<mmap, given, phase, entry, max_ram, bits>>

InitMem == Start \/ ScanEntry \/ InitBitmap \/ FreeEntry \/ Reserve

BootNext == InitMem \/ AllocFrame

\* init_mem runs on the boot processor and waits for nothing.
BootSpec == BootInit /\ [][BootNext]_bootVars /\ WF_bootVars(InitMem)

-----------------------------------------------------------------------------
\* Maps whose available regions begin at a page and are apart from the reserved
\* ones, as firmware reports them.
PlainMaps ==
  \A m \in MemoryMaps : \A i \in DOMAIN m : m[i].available =>
    /\ m[i].base % PageSize = 0
    /\ \A j \in DOMAIN m : ~m[j].available =>
         \/ m[j].base + m[j].length <= m[i].base
         \/ m[i].base + m[i].length <= m[j].base

\* A page lies in a region, or has an address in common with a range.
Inside(page, r) ==
  r.base <= page * PageSize /\ (page + 1) * PageSize <= r.base + r.length
Meets(page, base, end) == base < (page + 1) * PageSize /\ page * PageSize < end

MapEntries == {mmap[i] : i \in DOMAIN mmap}
InUse == avail \cup held

\* max_ram_addr stays a 32-bit word, and only pages with a bit are ever free.
BootTypeOK ==
  /\ mmap \in MemoryMaps /\ given \in BOOLEAN
  /\ phase \in {"start", "scan", "free", "run", "panic"}
  /\ entry \in 1 .. (Len(mmap) + 1)
  /\ max_ram \in 0 .. (WordMod - 1) /\ bits \in Nat
  /\ avail \subseteq 0 .. (bits - 1) /\ held \subseteq 0 .. (bits - 1)
  /\ last \in held \cup {0}

\* A frame the kernel may get is RAM: it lies in one available region and meets
\* no reserved one, also where a region ends inside a page.
OnlyRamFree ==
  phase = "run" => \A page \in InUse :
    /\ \E r \in MapEntries : r.available /\ Inside(page, r)
    /\ \A r \in MapEntries :
         ~r.available => ~Meets(page, r.base, r.base + r.length)

\* No frame the kernel may get meets the boot stack or is page 0, none lies
\* wholly in the kernel image and its bitmap (BitmapReserved asks for more).
KernelReserved ==
  phase = "run" => \A page \in InUse :
    /\ page # 0
    /\ ~Meets(page, StackBase, StackBase + StackSize)
    /\ ~(/\ KernelStart <= page * PageSize
         /\ (page + 1) * PageSize <= KernelEnd + (bits \div ByteBits))

\* Every whole page of available RAM, the kernel's and the stack's are below
\* the last multiple of eight pages under the top of the map.
Representable ==
  LET ends == {(r.base + r.length) % WordMod : r \in MapEntries}
      top  == CHOOSE t \in ends : \A e \in ends : e <= t
      bytes == top \div (PageSize * ByteBits)
      Fits(end) == end \div PageSize <= bytes * ByteBits
  IN  /\ \A r \in MapEntries : r.available => Fits(r.base + r.length)
      /\ Fits(KernelEnd + bytes) /\ Fits(StackBase + StackSize)

\* The boot gets through init_mem when the bitmap can represent the machine's
\* RAM; when it cannot, the bounds checks stop it (MCBootRagged).
BootReachesRun == given /\ Representable => <>(phase = "run")

\* pmm.zig: "Bit is 1 : Page is USED or RESERVED".  No page that holds a byte of
\* the kernel image or of the bitmap itself has bit 0.
BitmapReserved ==
  phase = "run" =>
    \A page \in InUse : ~Meets(page, KernelStart, KernelEnd + (bits \div ByteBits))

\* pmm.zig: "The entire RAM is represented as an array of bytes (the bitmap)".
\* Every whole page of available RAM has a bit once init_mem has gone through the
\* map, or has stopped in it.
RamRepresented ==
  phase \in {"run", "panic"} /\ given =>
    \A r \in MapEntries : r.available =>
      \A page \in RegionPages(r.base, r.length) : page < bits
=============================================================================
