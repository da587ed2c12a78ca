----------------------------- MODULE MCTerminal -----------------------------
(***************************************************************************)
(* A screen of 3 by 2, sequences of 2 parameters, one glyph.  1 and 10 are *)
(* the foreground codes, 3 and 12 the background codes.  A logo of two     *)
(* columns, the first with a pixel above another, and a text that begins   *)
(* with a space, as the kernel's does.                                     *)
(***************************************************************************)
EXTENDS Logo

MCGlyphs == {"x"}
MCDigits == {0, 1, 2, 3}
MCForeground == {1, 10}
MCBackground == {3, 12}
MCMoves == {-3, -1, 1, 3}
MCLogo == <<<<"x">>, <<"x", "x">>>>
MCText == <<" ", "x">>
MCTextColor == <<1, 12>>
=============================================================================
