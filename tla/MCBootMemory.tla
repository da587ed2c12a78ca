---------------------------- MODULE MCBootMemory ----------------------------
(***************************************************************************)
(* Memory maps of a PC in miniature: pages of 4 units, 4 bits to a byte,   *)
(* the kernel at page 8, the boot stack in pages 4 and 5.                  *)
(***************************************************************************)
EXTENDS BootMemory

MCPageSize == 4
MCByteBits == 4
MCWordMod == 256
MCKernelStart == 32
MCKernelEnd == 42
MCStackBase == 16
MCStackSize == 8

Ram(base, end) == [base |-> base, length |-> end - base, available |-> TRUE]
Hole(base, end) == [base |-> base, length |-> end - base, available |-> FALSE]

\* Low memory that ends at, or inside, page 7 or 6; the video hole; extended
\* memory up to a reserved region that fills the last byte of the bitmap; and,
\* on some machines, the firmware's flash just below the end of the word.
LowEnds == {25, 28, 31}
ExtendedEnds == {60, 61, 64, 90, 95, 96}
RoundUp(x) == ((x + 15) \div 16) * 16
MCMemoryMaps ==
  {<<Ram(0, low), Hole(low, 32), Ram(32, top), Hole(top, RoundUp(top))>> \o flash :
     low \in LowEnds, top \in ExtendedEnds, flash \in {<< >>, <<Hole(248, 256)>>}}

\* Machines whose RAM does not end at a multiple of eight pages.
MCRaggedMaps == {<<Ram(0, 28), Hole(28, 32), Ram(32, top)>> : top \in {68, 72, 76}}

\* Maps in no order, with regions that overlap, with regions of no length.
MCOddMaps ==
  {<<Ram(32, top), Hole(26, 32), Ram(0, 26), Hole(top, RoundUp(top))>> : top \in ExtendedEnds}
    \cup {<<Ram(0, 20), Ram(8, 28), Hole(28, 32), Ram(32, 56), Ram(48, 64)>>,
          <<Ram(0, 28), Ram(28, 28), Hole(28, 32), Hole(32, 32), Ram(32, 64)>>}
MCAllMaps == MCMemoryMaps \cup MCRaggedMaps \cup MCOddMaps

ASSUME MapsArePlain == PlainMaps
=============================================================================
