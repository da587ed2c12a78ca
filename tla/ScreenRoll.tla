----------------------------- MODULE ScreenRoll -----------------------------
(***************************************************************************)
(* What a text screen promises its writers: a strip of cells and a place   *)
(* in it.  Text goes on from cell to cell; past the last one the strip is  *)
(* pulled up by a row.                                                     *)
(***************************************************************************)
EXTENDS Integers

CONSTANTS RowLength, Rows, Glyph, Empty

VARIABLES strip, place

rollVars == <<strip, place>>

Strip == 0 .. (RowLength * Rows - 1)

RollInit == strip = [k \in Strip |-> Empty] /\ place = 0

Pulled(s) == [k \in Strip |-> IF k + RowLength \in Strip THEN s[k + RowLength] ELSE Empty]

\* A step to the place n, with the strip s.
Advance(s, n) ==
  IF n \in Strip THEN strip' = s /\ place' = n
                 ELSE strip' = Pulled(s) /\ place' = n - RowLength

Type(c) == Advance([strip EXCEPT ![place] = c], place + 1)
NewRow == Advance(strip, ((place \div RowLength) + 1) * RowLength)
Move == place' \in Strip /\ UNCHANGED strip
RubOut ==
  /\ place' = IF place = 0 THEN 0 ELSE place - 1
  /\ strip' = [strip EXCEPT ![place'] = Empty]

\* Clear the strip up to the place, or from it on, or all of it.
ClearBefore == strip' = [k \in Strip |-> IF k < place THEN Empty ELSE strip[k]] /\ UNCHANGED place
ClearAfter == strip' = [k \in Strip |-> IF k >= place THEN Empty ELSE strip[k]] /\ UNCHANGED place
Wipe == strip' = [k \in Strip |-> Empty] /\ place' = 0

RollNext ==
  \/ \E c \in Glyph : Type(c)
  \/ NewRow \/ Move \/ RubOut \/ ClearBefore \/ ClearAfter \/ Wipe

RollSpec == RollInit /\ [][RollNext]_rollVars
=============================================================================
