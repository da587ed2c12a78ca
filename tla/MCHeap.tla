------------------------------- MODULE MCHeap -------------------------------
(***************************************************************************)
(* The kernel heap at a small scale: a header of 2 units, pages of 8,      *)
(* a heap that starts with 3 pages and a PMM with 4 frames, so that a run  *)
(* splits, coalesces on either side, grows by a page, and fails to grow at *)
(* its first page or at its second.                                        *)
(***************************************************************************)
EXTENDS Heap

MCHeaderSize == 2
MCMinSplit == 2
MCAlignment == 2
MCPageSize == 8
MCHeapStart == 16
MCInitialPages == 3
MCWordMod == 64
MCFrames == 4
\* One that leaves no room to split, one that is rounded up, one larger than
\* a page.
MCRequests == {1, 7, 11}
=============================================================================
