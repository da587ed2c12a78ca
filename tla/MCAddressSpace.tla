--------------------------- MODULE MCAddressSpace ---------------------------
(***************************************************************************)
(* Tables of 5 slots: slot 0 is the identity map, slot 1 unmapped, slots 2  *)
(* and 3 the heap, slot 4 the window.  12 frames, of which 5 lie below the *)
(* end of the identity map.                                                *)
(***************************************************************************)
EXTENDS AddressSpace

MCFrame == 0 .. 11
MCRam == {1, 3, 4, 6, 7, 9, 10, 11}

\* Page 0, whose frame becomes a table when the PMM has no other, a page of plain
\* RAM, the directory and the identity table through the identity map, an
\* unmapped page, heap pages inside and beyond the initial heap, in both of its
\* slots, up to the last one below the window, and the directory's own page.
MCTouched == {0, 1, 2, 3, 7, 11, 12, 14, 15, 19, 24}
=============================================================================
