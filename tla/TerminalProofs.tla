--------------------------- MODULE TerminalProofs ---------------------------
(***************************************************************************)
(* Safety of the terminal for every size of screen and every text: its     *)
(* positions stay on the screen, rows and scrolling come to a strip of     *)
(* cells, and moving back over a line undoes drawing it.                   *)
(*                                                                         *)
(* The screen is reasoned about as a value, its place as the index of its  *)
(* cell: one lemma for each operator says what it does to both.            *)
(***************************************************************************)
EXTENDS Logo, WellFoundedInduction, TLAPS

-----------------------------------------------------------------------------
\* Cells and numbers.

LEMMA Size ==
  Width \in Nat \ {0} /\ Height \in Nat \ {0} /\ Width * Height \in Nat \ {0}
<1>1. Width \in Nat \ {0} /\ Height \in Nat \ {0}
  BY TerminalConstants DEF TerminalConstants
<1>2. \A a, b \in Nat \ {0} : a * b \in Nat \ {0}
  OBVIOUS
<1> QED BY <1>1, <1>2

LEMMA Split ==
  ASSUME NEW p \in Nat
  PROVE  /\ p \div Width \in Nat /\ p % Width \in 0 .. (Width - 1)
         /\ p = (p \div Width) * Width + (p % Width)
BY Size

LEMMA Joint ==
  ASSUME NEW x \in 0 .. (Width - 1), NEW y \in Nat
  PROVE  (y * Width + x) \div Width = y /\ (y * Width + x) % Width = x
BY Size

LEMMA CellInside ==
  ASSUME NEW x \in 0 .. (Width - 1), NEW y \in 0 .. (Height - 1)
  PROVE  /\ y * Width + x \in Index
         /\ y * Width + x \in Nat
         /\ y = Height - 1 => y * Width + Width = Width * Height
         /\ y # Height - 1 => y * Width + Width < Width * Height
<1>1. y * Width \in Nat
  BY Size
<1>2. (Height - 1) * Width = Width * Height - Width
  BY Size
<1>3. y * Width <= (Height - 1) * Width
  BY Size
<1> QED BY <1>1, <1>2, <1>3, Size DEF Index

LEMMA SplitInside ==
  ASSUME NEW p \in Index
  PROVE  p % Width \in 0 .. (Width - 1) /\ p \div Width \in 0 .. (Height - 1)
<1>1. p \in Nat /\ p < Width * Height
  BY Size DEF Index
<1>2. ~(p \div Width >= Height)
  <2> SUFFICES ASSUME p \div Width >= Height
               PROVE  FALSE
    OBVIOUS
  <2>1. (p \div Width) * Width >= Height * Width
    BY <1>1, Split, Size
  <2> QED BY <1>1, <2>1, Split, Size
<1> QED BY <1>1, <1>2, Split, Size

\* Some number of a bounded set is its greatest.
LEMMA Greatest ==
  ASSUME NEW n \in Nat, NEW T, T \subseteq 0 .. n, T # {}
  PROVE  \E x \in T : \A y \in T : y <= x
<1> DEFINE R == OpToRel(<, Nat)
           below == {n - x : x \in T}
<1>1. IsWellFoundedOn(R, Nat)
  BY NatLessThanWellFounded
<1>2. below \subseteq Nat /\ below # {}
  <2>1. \A x \in T : n - x \in Nat
    OBVIOUS
  <2> QED BY <2>1
<1>3. \A x, y \in Nat : y < x => <<y, x>> \in R
  BY DEF OpToRel
<1> HIDE DEF R, below
<1>4. PICK m \in below : \A y \in below : ~(<<y, m>> \in R)
  BY <1>1, <1>2, WFMin
<1>5. PICK x \in T : m = n - x
  BY DEF below
<1>6. ASSUME NEW y \in T
      PROVE  y <= x
  <2>1. n - y \in below /\ m \in Nat /\ n - y \in Nat
    BY <1>2 DEF below
  <2>2. ~(n - y < m)
    BY <1>3, <1>4, <2>1
  <2>3. x \in 0 .. n /\ y \in 0 .. n
    OBVIOUS
  <2> QED BY <1>5, <2>2, <2>3
<1> QED BY <1>6

-----------------------------------------------------------------------------
\* Screens.

Cellful == Glyphs \cup {Space}
Screens == [cells : [Index -> Cellful], x : 0 .. (Width - 1), y : 0 .. (Height - 1)]
PlaceOf(s) == IndexOf(s.x, s.y)

LEMMA ScreenIs ==
  ASSUME NEW b \in [Index -> Cellful], NEW x \in 0 .. (Width - 1), NEW y \in 0 .. (Height - 1)
  PROVE  /\ Screen(b, x, y) \in Screens /\ Screen(b, x, y).cells = b
         /\ PlaceOf(Screen(b, x, y)) = y * Width + x
BY DEF Screen, Screens, PlaceOf, IndexOf

LEMMA PlaceIs ==
  ASSUME NEW s \in Screens
  PROVE  /\ s.cells \in [Index -> Cellful] /\ s.x \in 0 .. (Width - 1) /\ s.y \in 0 .. (Height - 1)
         /\ PlaceOf(s) = s.y * Width + s.x /\ PlaceOf(s) \in Index /\ PlaceOf(s) \in Nat
<1>1. s.cells \in [Index -> Cellful] /\ s.x \in 0 .. (Width - 1) /\ s.y \in 0 .. (Height - 1)
  BY DEF Screens
<1>2. PlaceOf(s) = s.y * Width + s.x
  BY DEF PlaceOf, IndexOf
<1> QED BY <1>1, <1>2, CellInside

\* What a text of cells is when the strip is pulled up by a row.
Pulled(b) == [k \in Index |-> IF k + Width \in Index THEN b[k + Width] ELSE Space]

\* RowBelow and Put step to a place of the strip, which is pulled up when that
\* is behind it.
StepsTo(s, b, n) ==
  IF n \in Index THEN s.cells = b /\ PlaceOf(s) = n
                 ELSE s.cells = Pulled(b) /\ PlaceOf(s) = n - Width

LEMMA RowBelowIs ==
  ASSUME NEW b \in [Index -> Cellful], NEW y \in 0 .. (Height - 1)
  PROVE  RowBelow(b, y) \in Screens /\ StepsTo(RowBelow(b, y), b, (y + 1) * Width)
<1>1. (y + 1) * Width = y * Width + Width /\ y * Width \in Nat /\ y \in Nat
  BY Size
<1>2. Scrolled(b) = Pulled(b) /\ Pulled(b) \in [Index -> Cellful]
  BY DEF Scrolled, Pulled, Cellful
<1>3. 0 \in 0 .. (Width - 1)
  BY Size
<1>4. CASE y + 1 = Height
  <2>1. RowBelow(b, y) = Screen(Pulled(b), 0, y)
    BY <1>2, <1>4 DEF RowBelow
  <2>2. y = Height - 1
    BY <1>1, <1>4
  <2>3. (y + 1) * Width = Width * Height /\ (y + 1) * Width \notin Index
    BY <1>1, <1>3, <2>2, CellInside DEF Index
  <2>4. (y + 1) * Width - Width = y * Width + 0
    BY <1>1, Size
  <2>5. /\ Screen(Pulled(b), 0, y) \in Screens /\ Screen(Pulled(b), 0, y).cells = Pulled(b)
        /\ PlaceOf(Screen(Pulled(b), 0, y)) = y * Width + 0
    BY <1>2, <1>3, ScreenIs
  <2> QED BY <2>1, <2>3, <2>4, <2>5 DEF StepsTo
<1>5. CASE y + 1 # Height
  <2>1. RowBelow(b, y) = Screen(b, 0, y + 1) /\ y + 1 \in 0 .. (Height - 1)
    BY <1>1, <1>5, Size DEF RowBelow
  <2>2. /\ Screen(b, 0, y + 1) \in Screens /\ Screen(b, 0, y + 1).cells = b
        /\ PlaceOf(Screen(b, 0, y + 1)) = (y + 1) * Width + 0
    BY <1>3, <2>1, ScreenIs
  <2>3. (y + 1) * Width + 0 = (y + 1) * Width /\ (y + 1) * Width + 0 \in Index
    BY <1>1, <1>3, <2>1, CellInside, Size
  <2> QED BY <2>1, <2>2, <2>3 DEF StepsTo
<1> QED BY <1>4, <1>5

LEMMA PutIs ==
  ASSUME NEW s \in Screens, NEW c \in Cellful
  PROVE  /\ Put(s, c) \in Screens
         /\ StepsTo(Put(s, c), [s.cells EXCEPT ![PlaceOf(s)] = c], PlaceOf(s) + 1)
<1> DEFINE b == [s.cells EXCEPT ![PlaceOf(s)] = c]
<1>1. /\ s.cells \in [Index -> Cellful] /\ s.x \in 0 .. (Width - 1) /\ s.y \in 0 .. (Height - 1)
      /\ PlaceOf(s) = s.y * Width + s.x /\ PlaceOf(s) \in Index /\ PlaceOf(s) \in Nat
  BY PlaceIs
<1>2. b \in [Index -> Cellful]
  BY <1>1
<1>3. Put(s, c) = IF s.x + 1 = Width THEN RowBelow(b, s.y) ELSE Screen(b, s.x + 1, s.y)
  BY DEF Put, PlaceOf
<1> HIDE DEF b
<1>4. CASE s.x + 1 = Width
  <2>1. (s.y + 1) * Width = PlaceOf(s) + 1
    <3>1. s.y \in Nat /\ Width \in Nat
      BY <1>1, Size
    <3>2. (s.y + 1) * Width = s.y * Width + Width /\ s.y * Width \in Nat
      BY <3>1
    <3> QED BY <1>1, <1>4, <3>1, <3>2
  <2> QED BY <1>1, <1>2, <1>3, <1>4, <2>1, RowBelowIs DEF b
<1>5. CASE s.x + 1 # Width
  <2>1. s.x + 1 \in 0 .. (Width - 1)
    BY <1>1, <1>5, Size
  <2>2. /\ Screen(b, s.x + 1, s.y) \in Screens /\ Screen(b, s.x + 1, s.y).cells = b
        /\ PlaceOf(Screen(b, s.x + 1, s.y)) = s.y * Width + (s.x + 1)
    BY <1>1, <1>2, <2>1, ScreenIs
  <2>3. s.y * Width + (s.x + 1) = PlaceOf(s) + 1 /\ s.y * Width + (s.x + 1) \in Index
    <3>1. s.y * Width \in Nat
      BY <1>1, Size
    <3> QED BY <1>1, <2>1, <3>1, CellInside
  <2> QED BY <1>3, <1>5, <2>2, <2>3 DEF StepsTo, b
<1> QED BY <1>4, <1>5

LEMMA MovedIs ==
  ASSUME NEW s \in Screens, NEW offset \in Int
  PROVE  /\ Moved(s, offset) \in Screens /\ Moved(s, offset).cells = s.cells
         /\ PlaceOf(Moved(s, offset)) =
              IF PlaceOf(s) + offset < 0 THEN 0
              ELSE IF PlaceOf(s) + offset \in Index THEN PlaceOf(s) + offset ELSE Width * Height - 1
<1> DEFINE pos == IF PlaceOf(s) + offset < 0 THEN 0
                  ELSE IF PlaceOf(s) + offset \in Index THEN PlaceOf(s) + offset ELSE Width * Height - 1
<1>1. s.cells \in [Index -> Cellful] /\ PlaceOf(s) \in Nat
  BY PlaceIs
<1>2. pos \in Index /\ pos \in Nat
  BY <1>1, Size DEF Index
<1>3. Moved(s, offset) = Screen(s.cells, pos % Width, pos \div Width)
  BY DEF Moved, PlaceOf
<1> HIDE DEF pos
<1>4. pos % Width \in 0 .. (Width - 1) /\ pos \div Width \in 0 .. (Height - 1)
  BY <1>2, SplitInside
<1>5. (pos \div Width) * Width + (pos % Width) = pos
  BY <1>2, Split
<1> QED BY <1>1, <1>3, <1>4, <1>5, ScreenIs DEF pos

LEMMA BackspacedIs ==
  ASSUME NEW s \in Screens
  PROVE  /\ Backspaced(s) \in Screens
         /\ PlaceOf(Backspaced(s)) = IF PlaceOf(s) = 0 THEN 0 ELSE PlaceOf(s) - 1
         /\ Backspaced(s).cells = [s.cells EXCEPT ![PlaceOf(Backspaced(s))] = Space]
<1> DEFINE x == IF s.x > 0 THEN s.x - 1 ELSE IF s.y > 0 THEN Width - 1 ELSE 0
           y == IF s.x = 0 /\ s.y > 0 THEN s.y - 1 ELSE s.y
           b == [s.cells EXCEPT ![IndexOf(x, y)] = Space]
<1>1. /\ s.cells \in [Index -> Cellful] /\ s.x \in 0 .. (Width - 1) /\ s.y \in 0 .. (Height - 1)
      /\ PlaceOf(s) = s.y * Width + s.x /\ PlaceOf(s) \in Nat
  BY PlaceIs
<1>2. x \in 0 .. (Width - 1) /\ y \in 0 .. (Height - 1)
  BY <1>1, Size
<1>3. y * Width + x = IF PlaceOf(s) = 0 THEN 0 ELSE PlaceOf(s) - 1
  <2>1. CASE s.x > 0
    <3>1. s.y * Width \in Nat
      BY <1>1, Size
    <3> QED BY <1>1, <2>1, <3>1
  <2>2. CASE s.x = 0 /\ s.y > 0
    <3>1. s.y \in Nat \ {0} /\ Width \in Nat \ {0}
      BY <1>1, <2>2, Size
    <3>2. (s.y - 1) * Width = (s.y * Width) - Width /\ s.y * Width \in Nat \ {0}
      BY <3>1
    <3>3. x = Width - 1 /\ y = s.y - 1
      BY <2>2, <3>1
    <3>4. PlaceOf(s) = s.y * Width
      BY <1>1, <2>2, <3>2
    <3> QED BY <3>1, <3>2, <3>3, <3>4
  <2>3. CASE s.x = 0 /\ s.y = 0
    BY <1>1, <2>3, Size
  <2> QED BY <1>1, <2>1, <2>2, <2>3
<1>4. b \in [Index -> Cellful]
  BY <1>1 DEF Cellful
<1>5. Backspaced(s) = Screen(b, x, y)
  BY DEF Backspaced
<1>6. IndexOf(x, y) = y * Width + x
  BY DEF IndexOf
<1> HIDE DEF x, y
<1>7. /\ Screen(b, x, y) \in Screens /\ Screen(b, x, y).cells = b
      /\ PlaceOf(Screen(b, x, y)) = y * Width + x
  BY <1>2, <1>4, ScreenIs
<1> QED BY <1>3, <1>5, <1>6, <1>7

-----------------------------------------------------------------------------
\* The types, part by part.

ScreenTypes ==
  /\ terminal_buffer \in [Index -> Cellful]
  /\ terminal_row \in 0 .. (Height - 1) /\ terminal_column \in 0 .. (Width - 1)
ParserTypes ==
  /\ current_state \in {"normal", "escape", "bracket"}
  /\ params \in [0 .. (MaxParams - 1) -> 0 .. ParamMax] /\ param_index \in 0 .. (MaxParams - 1)
ColorTypes == fg \in Foreground /\ bg \in Background /\ terminal_color \in Foreground \X Background

LEMMA Parts == TerminalTypeOK <=> ScreenTypes /\ ParserTypes /\ ColorTypes
BY DEF TerminalTypeOK, ScreenTypes, ParserTypes, ColorTypes, Cellful

LEMMA PartsNext == TerminalTypeOK' <=> ScreenTypes' /\ ParserTypes' /\ ColorTypes'
BY DEF TerminalTypeOK, ScreenTypes, ParserTypes, ColorTypes, Cellful, Index

LEMMA NowIs ==
  ASSUME ScreenTypes
  PROVE  /\ Now \in Screens /\ Now.cells = terminal_buffer
         /\ PlaceOf(Now) = IndexOf(terminal_column, terminal_row)
         /\ Now.x = terminal_column /\ Now.y = terminal_row
<1>1. Now = [cells |-> terminal_buffer, x |-> terminal_column, y |-> terminal_row]
  BY DEF Now, Screen
<1> QED BY <1>1 DEF ScreenTypes, Screens, PlaceOf

LEMMA BecomesIs ==
  ASSUME NEW s \in Screens, Becomes(s)
  PROVE  /\ ScreenTypes' /\ terminal_buffer' = s.cells
         /\ IndexOf(terminal_column, terminal_row)' = PlaceOf(s)
<1>1. terminal_buffer' = s.cells /\ terminal_column' = s.x /\ terminal_row' = s.y
  BY DEF Becomes
<1>2. s.cells \in [Index -> Cellful] /\ s.x \in 0 .. (Width - 1) /\ s.y \in 0 .. (Height - 1)
  BY PlaceIs
<1>3. ScreenTypes'
  BY <1>1, <1>2 DEF ScreenTypes, Index, Cellful
<1> QED BY <1>1, <1>3 DEF IndexOf, PlaceOf

LEMMA ScreenStays ==
  ASSUME ScreenTypes, UNCHANGED screen
  PROVE  ScreenTypes'
BY DEF ScreenTypes, screen, Index, Cellful

LEMMA ParserStays ==
  ASSUME ParserTypes, UNCHANGED parser
  PROVE  ParserTypes'
BY DEF ParserTypes, parser

LEMMA ColorsStay ==
  ASSUME ColorTypes, UNCHANGED colors
  PROVE  ColorTypes'
BY DEF ColorTypes, colors

LEMMA LeaveTypes ==
  ASSUME Leave
  PROVE  ParserTypes'
<1>1. 0 \in 0 .. ParamMax /\ 0 \in 0 .. (MaxParams - 1)
  BY TerminalConstants DEF TerminalConstants
<1> QED BY <1>1 DEF Leave, ParserTypes

LEMMA BlankIs == Blank \in [Index -> Cellful]
BY DEF Blank, Cellful

LEMMA HomeIs ==
  /\ Screen(Blank, 0, 0) \in Screens /\ Screen(Blank, 0, 0).cells = Blank
  /\ PlaceOf(Screen(Blank, 0, 0)) = 0
<1>1. 0 \in 0 .. (Width - 1) /\ 0 \in 0 .. (Height - 1) /\ 0 * Width + 0 = 0
  BY Size
<1> QED BY <1>1, BlankIs, ScreenIs

LEMMA InitTypes ==
  ASSUME TerminalInit
  PROVE  TerminalTypeOK
<1>1. 0 \in 0 .. (Width - 1) /\ 0 \in 0 .. (Height - 1)
  BY Size
<1>2. 0 \in 0 .. ParamMax /\ 0 \in 0 .. (MaxParams - 1)
  BY TerminalConstants DEF TerminalConstants
<1>3. DefaultFg \in Foreground /\ DefaultBg \in Background
  BY TerminalConstants DEF TerminalConstants
<1>4. ScreenTypes
  BY <1>1, BlankIs DEF TerminalInit, ScreenTypes
<1>5. ParserTypes /\ ColorTypes
  BY <1>2, <1>3 DEF TerminalInit, ParserTypes, ColorTypes
<1> QED BY <1>4, <1>5, Parts

\* The last parameter that is a colour code is one of these.
LEMMA LastIs ==
  ASSUME ParserTypes, NEW codes, NEW default \in codes, NEW old \in codes
  PROVE  LastOf(codes, default, old) \in codes
<1> DEFINE acts == {i \in 0 .. param_index : params[i] \in codes \cup {0}}
<1>1. CASE acts = {}
  BY <1>1 DEF LastOf
<1>2. CASE acts # {}
  <2>1. param_index \in Nat /\ acts \subseteq 0 .. param_index
    BY TerminalConstants DEF ParserTypes, TerminalConstants
  <2>2. \E i \in acts : \A j \in acts : j <= i
    BY <1>2, <2>1, Greatest
  <2> DEFINE i == CHOOSE i \in acts : \A j \in acts : j <= i
  <2>3. i \in acts
    BY <2>2
  <2>4. LastOf(codes, default, old) = IF params[i] = 0 THEN default ELSE params[i]
    BY <1>2 DEF LastOf
  <2>5. params[i] \in codes \cup {0}
    BY <2>3
  <2> QED BY <2>4, <2>5
<1> QED BY <1>1, <1>2

-----------------------------------------------------------------------------
\* The steps of the screen, as those of the strip.

LEMMA StripIs == Roll!Strip = Index
BY DEF Roll!Strip, Index

LEMMA AdvanceIs ==
  ASSUME NEW s \in Screens, Becomes(s), NEW b, NEW n, StepsTo(s, b, n)
  PROVE  Roll!Advance(b, n)
<1>1. /\ terminal_buffer' = s.cells
      /\ IndexOf(terminal_column, terminal_row)' = PlaceOf(s)
  BY BecomesIs
<1>2. Roll!Pulled(b) = Pulled(b)
  BY StripIs DEF Roll!Pulled, Pulled
<1> QED BY <1>1, <1>2, StripIs DEF Roll!Advance, StepsTo

LEMMA RollStays ==
  ASSUME UNCHANGED screen
  PROVE  UNCHANGED Roll!rollVars
BY DEF screen, Roll!rollVars, IndexOf

LEMMA CharSteps ==
  ASSUME TerminalTypeOK, NEW c \in Cellful, Char(c)
  PROVE  TerminalTypeOK' /\ Roll!RollNext
<1>1. Becomes(Put(Now, c)) /\ UNCHANGED parser /\ UNCHANGED colors
  BY DEF Char
<1>2. ScreenTypes /\ ParserTypes /\ ColorTypes
  BY Parts
<1>3. /\ Now \in Screens /\ Now.cells = terminal_buffer
      /\ PlaceOf(Now) = IndexOf(terminal_column, terminal_row)
  BY <1>2, NowIs
<1>4. /\ Put(Now, c) \in Screens
      /\ StepsTo(Put(Now, c), [Now.cells EXCEPT ![PlaceOf(Now)] = c], PlaceOf(Now) + 1)
  BY <1>3, PutIs
<1>5. Roll!Advance([Now.cells EXCEPT ![PlaceOf(Now)] = c], PlaceOf(Now) + 1)
  BY <1>1, <1>4, AdvanceIs
<1>6. Roll!Type(c)
  BY <1>3, <1>5 DEF Roll!Type
<1>7. Roll!RollNext
  BY <1>6 DEF Roll!RollNext, Cellful
<1> QED BY <1>1, <1>2, <1>4, <1>7, BecomesIs, ParserStays, ColorsStay, PartsNext

LEMMA NewlineSteps ==
  ASSUME TerminalTypeOK, Newline
  PROVE  TerminalTypeOK' /\ Roll!RollNext
<1> DEFINE s == RowBelow(terminal_buffer, terminal_row)
<1>1. Becomes(s) /\ UNCHANGED parser /\ UNCHANGED colors
  BY DEF Newline
<1>2. ScreenTypes /\ ParserTypes /\ ColorTypes
  BY Parts
<1>3. s \in Screens /\ StepsTo(s, terminal_buffer, (terminal_row + 1) * Width)
  BY <1>2, RowBelowIs DEF ScreenTypes
<1> HIDE DEF s
<1>4. Roll!Advance(terminal_buffer, (terminal_row + 1) * Width)
  BY <1>1, <1>3, AdvanceIs
<1>5. IndexOf(terminal_column, terminal_row) \div Width = terminal_row
  BY <1>2, Joint, Size DEF IndexOf, ScreenTypes
<1>6. Roll!NewRow
  BY <1>4, <1>5 DEF Roll!NewRow
<1>7. Roll!RollNext
  BY <1>6 DEF Roll!RollNext
<1> QED BY <1>1, <1>2, <1>3, <1>7, BecomesIs, ParserStays, ColorsStay, PartsNext

LEMMA BackspaceSteps ==
  ASSUME TerminalTypeOK, Backspace
  PROVE  TerminalTypeOK' /\ Roll!RollNext
<1> DEFINE s == Backspaced(Now)
<1>1. Becomes(s) /\ UNCHANGED parser /\ UNCHANGED colors
  BY DEF Backspace
<1>2. ScreenTypes /\ ParserTypes /\ ColorTypes
  BY Parts
<1>3. /\ Now \in Screens /\ Now.cells = terminal_buffer
      /\ PlaceOf(Now) = IndexOf(terminal_column, terminal_row)
  BY <1>2, NowIs
<1>4. /\ s \in Screens /\ PlaceOf(s) = IF PlaceOf(Now) = 0 THEN 0 ELSE PlaceOf(Now) - 1
      /\ s.cells = [Now.cells EXCEPT ![PlaceOf(s)] = Space]
  BY <1>3, BackspacedIs
<1> HIDE DEF s
<1>5. /\ terminal_buffer' = s.cells
      /\ IndexOf(terminal_column, terminal_row)' = PlaceOf(s)
  BY <1>1, <1>4, BecomesIs
<1>6. Roll!RubOut
  BY <1>3, <1>4, <1>5 DEF Roll!RubOut
<1>7. Roll!RollNext
  BY <1>6 DEF Roll!RollNext
<1> QED BY <1>1, <1>2, <1>4, <1>7, BecomesIs, ParserStays, ColorsStay, PartsNext

LEMMA MoveSteps ==
  ASSUME TerminalTypeOK, NEW offset \in Moves, MoveCursor(offset)
  PROVE  TerminalTypeOK' /\ Roll!RollNext
<1> DEFINE s == Moved(Now, offset)
<1>1. Becomes(s) /\ UNCHANGED parser /\ UNCHANGED colors
  BY DEF MoveCursor
<1>2. ScreenTypes /\ ParserTypes /\ ColorTypes
  BY Parts
<1>3. Now \in Screens /\ Now.cells = terminal_buffer /\ offset \in Int
  BY <1>2, NowIs, TerminalConstants DEF TerminalConstants
<1>4. s \in Screens /\ s.cells = terminal_buffer
  BY <1>3, MovedIs
<1> HIDE DEF s
<1>5. /\ terminal_buffer' = terminal_buffer
      /\ IndexOf(terminal_column, terminal_row)' = PlaceOf(s) /\ PlaceOf(s) \in Index
  BY <1>1, <1>4, BecomesIs, PlaceIs
<1>6. Roll!Move
  BY <1>5, StripIs DEF Roll!Move
<1>7. Roll!RollNext
  BY <1>6 DEF Roll!RollNext
<1> QED BY <1>1, <1>2, <1>4, <1>7, BecomesIs, ParserStays, ColorsStay, PartsNext

LEMMA WipeSteps ==
  ASSUME TerminalTypeOK, Becomes(Screen(Blank, 0, 0))
  PROVE  ScreenTypes' /\ Roll!RollNext
<1>1. /\ ScreenTypes' /\ terminal_buffer' = Blank
      /\ IndexOf(terminal_column, terminal_row)' = 0
  BY HomeIs, BecomesIs
<1>2. Roll!Wipe
  BY <1>1, StripIs DEF Roll!Wipe, Blank
<1> QED BY <1>1, <1>2 DEF Roll!RollNext

LEMMA ClearSteps ==
  ASSUME TerminalTypeOK, Clear
  PROVE  TerminalTypeOK' /\ Roll!RollNext
<1>1. Becomes(Screen(Blank, 0, 0)) /\ UNCHANGED parser /\ UNCHANGED colors
  BY DEF Clear
<1>2. ParserTypes /\ ColorTypes
  BY Parts
<1> QED BY <1>1, <1>2, WipeSteps, ParserStays, ColorsStay, PartsNext

\* Two of the sequences for clearing keep the place and blank one side of it.
LEMMA ClearAfterSteps ==
  ASSUME ScreenTypes, ClearAfterCursor
  PROVE  ScreenTypes' /\ Roll!RollNext
<1>1. /\ terminal_buffer' = [k \in Index |->
           IF k >= IndexOf(terminal_column, terminal_row) THEN Space ELSE terminal_buffer[k]]
      /\ terminal_row' = terminal_row /\ terminal_column' = terminal_column
  BY DEF ClearAfterCursor
<1>2. terminal_buffer' \in [Index -> Cellful]
  BY <1>1 DEF ScreenTypes, Cellful
<1>3. ScreenTypes'
  BY <1>1, <1>2 DEF ScreenTypes, Index, Cellful
<1>4. IndexOf(terminal_column, terminal_row)' = IndexOf(terminal_column, terminal_row)
  BY <1>1 DEF IndexOf
<1>5. Roll!ClearAfter
  BY <1>1, <1>4, StripIs DEF Roll!ClearAfter
<1> QED BY <1>3, <1>5 DEF Roll!RollNext

LEMMA ClearUntilSteps ==
  ASSUME ScreenTypes, ClearUntilCursor
  PROVE  ScreenTypes' /\ Roll!RollNext
<1>1. /\ terminal_buffer' = [k \in Index |->
           IF k < IndexOf(terminal_column, terminal_row) THEN Space ELSE terminal_buffer[k]]
      /\ terminal_row' = terminal_row /\ terminal_column' = terminal_column
  BY DEF ClearUntilCursor
<1>2. terminal_buffer' \in [Index -> Cellful]
  BY <1>1 DEF ScreenTypes, Cellful
<1>3. ScreenTypes'
  BY <1>1, <1>2 DEF ScreenTypes, Index, Cellful
<1>4. IndexOf(terminal_column, terminal_row)' = IndexOf(terminal_column, terminal_row)
  BY <1>1 DEF IndexOf
<1>5. Roll!ClearBefore
  BY <1>1, <1>4, StripIs DEF Roll!ClearBefore
<1> QED BY <1>3, <1>5 DEF Roll!RollNext

LEMMA EraseSteps ==
  ASSUME TerminalTypeOK, EraseDisplay
  PROVE  TerminalTypeOK' /\ (Roll!RollNext \/ UNCHANGED Roll!rollVars)
<1>1. ScreenTypes /\ ParserTypes /\ ColorTypes
  BY Parts
<1>2. Leave /\ UNCHANGED colors
  BY DEF EraseDisplay
<1>3. ParserTypes' /\ ColorTypes'
  BY <1>1, <1>2, LeaveTypes, ColorsStay
<1>4. CASE ClearAfterCursor
  BY <1>1, <1>3, <1>4, ClearAfterSteps, PartsNext
<1>5. CASE ClearUntilCursor
  BY <1>1, <1>3, <1>5, ClearUntilSteps, PartsNext
<1>6. CASE ClearAll
  BY <1>3, <1>6, WipeSteps, PartsNext DEF ClearAll
<1>7. CASE UNCHANGED screen
  BY <1>1, <1>3, <1>7, ScreenStays, RollStays, PartsNext
<1> QED BY <1>4, <1>5, <1>6, <1>7 DEF EraseDisplay

\* A position of a sequence, from 1 and of any size, is clipped to the screen.
LEMMA ClippedIs ==
  ASSUME NEW n \in Nat, NEW size \in Nat \ {0}
  PROVE  Clipped(FromOne(n), size) \in 0 .. (size - 1)
BY DEF Clipped, FromOne

LEMMA PositionSteps ==
  ASSUME TerminalTypeOK, CursorPosition
  PROVE  TerminalTypeOK' /\ Roll!RollNext
<1>1. ScreenTypes /\ ParserTypes /\ ColorTypes
  BY Parts
<1>2. /\ terminal_row' = Clipped(FromOne(params[0]), Height)
      /\ terminal_column' = Clipped(FromOne(params[1]), Width)
      /\ terminal_buffer' = terminal_buffer /\ Leave /\ UNCHANGED colors
  BY DEF CursorPosition
<1>3. params[0] \in Nat /\ params[1] \in Nat
  <2>1. 0 \in 0 .. (MaxParams - 1) /\ 1 \in 0 .. (MaxParams - 1) /\ ParamMax \in Nat
    BY TerminalConstants DEF TerminalConstants
  <2> QED BY <1>1, <2>1 DEF ParserTypes
<1>4. terminal_row' \in 0 .. (Height - 1) /\ terminal_column' \in 0 .. (Width - 1)
  BY <1>2, <1>3, ClippedIs, Size
<1>5. ScreenTypes'
  BY <1>1, <1>2, <1>4 DEF ScreenTypes, Index, Cellful
<1>6. IndexOf(terminal_column, terminal_row)' \in Index
  BY <1>4, CellInside DEF IndexOf
<1>7. Roll!Move
  BY <1>2, <1>6, StripIs DEF Roll!Move
<1>8. Roll!RollNext
  BY <1>7 DEF Roll!RollNext
<1> QED BY <1>1, <1>2, <1>5, <1>8, LeaveTypes, ColorsStay, PartsNext

LEMMA RenditionSteps ==
  ASSUME TerminalTypeOK, GraphicRendition
  PROVE  TerminalTypeOK' /\ UNCHANGED Roll!rollVars
<1>1. ScreenTypes /\ ParserTypes /\ ColorTypes
  BY Parts
<1>2. DefaultFg \in Foreground /\ DefaultBg \in Background
  BY TerminalConstants DEF TerminalConstants
<1>3. LastOf(Foreground, DefaultFg, fg) \in Foreground /\ LastOf(Background, DefaultBg, bg) \in Background
  BY <1>1, <1>2, LastIs DEF ColorTypes
<1>4. ColorTypes'
  BY <1>3 DEF GraphicRendition, ColorTypes
<1>5. UNCHANGED screen /\ Leave
  BY DEF GraphicRendition
<1> QED BY <1>1, <1>4, <1>5, LeaveTypes, ScreenStays, RollStays, PartsNext

LEMMA ParserSteps ==
  ASSUME TerminalTypeOK, Escape \/ Bracket \/ Abort \/ Separator
  PROVE  TerminalTypeOK' /\ UNCHANGED Roll!rollVars
<1>1. ScreenTypes /\ ParserTypes /\ ColorTypes
  BY Parts
<1>2. UNCHANGED screen /\ UNCHANGED colors
  BY DEF Escape, Bracket, Abort, Separator
<1>3. ScreenTypes' /\ ColorTypes' /\ UNCHANGED Roll!rollVars
  BY <1>1, <1>2, ScreenStays, ColorsStay, RollStays
<1>4. ParserTypes'
  <2>1. CASE Escape \/ Bracket
    BY <1>1, <2>1 DEF Escape, Bracket, ParserTypes
  <2>2. CASE Abort
    BY <2>2, LeaveTypes DEF Abort
  <2>3. CASE Separator
    <3>1. MaxParams \in Nat \ {0} /\ param_index \in Nat
      BY <1>1, TerminalConstants DEF TerminalConstants, ParserTypes
    <3>2. (param_index + 1) % MaxParams \in 0 .. (MaxParams - 1)
      BY <3>1
    <3> QED BY <1>1, <2>3, <3>2 DEF Separator, ParserTypes
  <2> QED BY <2>1, <2>2, <2>3
<1> QED BY <1>3, <1>4, PartsNext

LEMMA DigitSteps ==
  ASSUME TerminalTypeOK, NEW n \in Digits, Digit(n)
  PROVE  TerminalTypeOK' /\ UNCHANGED Roll!rollVars
<1>1. ScreenTypes /\ ParserTypes /\ ColorTypes
  BY Parts
<1>2. UNCHANGED screen /\ UNCHANGED colors
  BY DEF Digit
<1>3. n \in 0 .. 9 /\ ParamMax \in Nat
  BY TerminalConstants DEF TerminalConstants
<1>4. \A v \in 0 .. ParamMax : Saturated(v, n) \in 0 .. ParamMax
  BY <1>3 DEF Saturated
<1>5. params' \in [0 .. (MaxParams - 1) -> 0 .. ParamMax]
  BY <1>1, <1>4 DEF Digit, ParserTypes
<1>6. ParserTypes'
  BY <1>1, <1>5 DEF Digit, ParserTypes
<1> QED BY <1>1, <1>2, <1>6, ScreenStays, ColorsStay, RollStays, PartsNext

LEMMA TerminalStep ==
  ASSUME TerminalTypeOK, [TerminalNext]_terminalVars
  PROVE  TerminalTypeOK' /\ [Roll!RollNext]_(Roll!rollVars)
<1>1. ASSUME NEW c \in Glyphs \cup {Space}, Char(c)
      PROVE  TerminalTypeOK' /\ Roll!RollNext
  BY <1>1, CharSteps DEF Cellful
<1>2. CASE Newline
  BY <1>2, NewlineSteps
<1>3. CASE Escape \/ Bracket \/ Abort \/ Separator
  BY <1>3, ParserSteps
<1>4. ASSUME NEW n \in Digits, Digit(n)
      PROVE  TerminalTypeOK' /\ UNCHANGED Roll!rollVars
  BY <1>4, DigitSteps
<1>5. CASE EraseDisplay
  BY <1>5, EraseSteps
<1>6. CASE CursorPosition
  BY <1>6, PositionSteps
<1>7. CASE GraphicRendition
  BY <1>7, RenditionSteps
<1>8. CASE Backspace
  BY <1>8, BackspaceSteps
<1>9. CASE Clear
  BY <1>9, ClearSteps
<1>10. ASSUME NEW offset \in Moves, MoveCursor(offset)
       PROVE  TerminalTypeOK' /\ Roll!RollNext
  BY <1>10, MoveSteps
<1>11. CASE UNCHANGED terminalVars
  <2>1. UNCHANGED screen /\ UNCHANGED parser /\ UNCHANGED colors
    BY <1>11 DEF terminalVars
  <2>2. ScreenTypes /\ ParserTypes /\ ColorTypes
    BY Parts
  <2> QED BY <2>1, <2>2, ScreenStays, ParserStays, ColorsStay, RollStays, PartsNext
<1> QED BY <1>1, <1>2, <1>3, <1>4, <1>5, <1>6, <1>7, <1>8, <1>9, <1>10, <1>11 DEF TerminalNext

-----------------------------------------------------------------------------
\* MovesBack: what n characters draw and what moving back over them does, by
\* induction on n.

\* A set that has 0, and with a number below n the next one, has all up to n.
LEMMA UpTo ==
  ASSUME NEW n \in Nat, NEW T, 0 \in T, \A i \in 0 .. (n - 1) : i \in T => i + 1 \in T
  PROVE  0 .. n \subseteq T
<1> DEFINE R == OpToRel(<, Nat)
           missing == {i \in Nat : i <= n /\ i \notin T}
<1>1. IsWellFoundedOn(R, Nat)
  BY NatLessThanWellFounded
<1>2. \A x, y \in Nat : y < x => <<y, x>> \in R
  BY DEF OpToRel
<1>3. ASSUME missing # {}
      PROVE  FALSE
  <2> HIDE DEF R, missing
  <2>1. missing \subseteq Nat
    BY DEF missing
  <2>2. PICK m \in missing : \A y \in missing : ~(<<y, m>> \in R)
    BY <1>1, <1>3, <2>1, WFMin
  <2>3. m \in Nat /\ m <= n /\ m \notin T
    BY <2>2 DEF missing
  <2>4. m # 0 /\ m - 1 \in Nat /\ m - 1 < m /\ m - 1 \in 0 .. (n - 1)
    BY <2>3
  <2>5. m - 1 \notin missing
    BY <1>2, <2>2, <2>3, <2>4
  <2>6. m - 1 \in T
    BY <2>3, <2>4, <2>5 DEF missing
  <2>7. (m - 1) + 1 \in T /\ (m - 1) + 1 = m
    BY <2>3, <2>4, <2>6
  <2> QED BY <2>3, <2>7
<1> QED BY <1>3

\* A step repeated up to n times is a function of the number of times.
LEMMA Repeated ==
  ASSUME NEW step \in [Screens -> Screens], NEW first \in Screens, NEW n \in Nat
  PROVE  \E f \in [0 .. n -> Screens] : f[0] = first /\ \A i \in 1 .. n : f[i] = step[f[i - 1]]
<1> DEFINE Good(m, f) == f[0] = first /\ \A i \in 1 .. m : f[i] = step[f[i - 1]]
           T == {m \in Nat : \E f \in [0 .. m -> Screens] : Good(m, f)}
<1>1. 0 \in T
  <2> DEFINE f == [i \in 0 .. 0 |-> first]
  <2>1. f \in [0 .. 0 -> Screens] /\ f[0] = first
    OBVIOUS
  <2>2. \A i \in 1 .. 0 : FALSE
    OBVIOUS
  <2> QED BY <2>1, <2>2
<1>2. ASSUME NEW m \in 0 .. (n - 1), m \in T
      PROVE  m + 1 \in T
  <2>1. PICK f \in [0 .. m -> Screens] : Good(m, f)
    BY <1>2
  <2>2. m \in Nat
    OBVIOUS
  <2> DEFINE h == [i \in 0 .. (m + 1) |-> IF i = m + 1 THEN step[f[m]] ELSE f[i]]
  <2>3. f[m] \in Screens /\ step[f[m]] \in Screens
    BY <2>2
  <2>4. h \in [0 .. (m + 1) -> Screens]
    BY <2>2, <2>3
  <2>5. h[0] = first
    BY <2>1, <2>2
  <2>6. ASSUME NEW i \in 1 .. (m + 1)
        PROVE  h[i] = step[h[i - 1]]
    <3>1. i - 1 \in 0 .. m /\ h[i - 1] = f[i - 1]
      BY <2>2
    <3>2. CASE i = m + 1
      BY <2>2, <3>1, <3>2
    <3>3. CASE i # m + 1
      <4>1. i \in 1 .. m /\ h[i] = f[i]
        BY <2>2, <3>3
      <4> QED BY <2>1, <3>1, <4>1
    <3> QED BY <3>2, <3>3
  <2>7. m + 1 \in Nat
    BY <2>2
  <2> HIDE DEF h
  <2>8. Good(m + 1, h)
    BY <2>5, <2>6
  <2> QED BY <2>4, <2>7, <2>8
<1>3. n \in 0 .. n
  OBVIOUS
<1> HIDE DEF T
<1>4. n \in T
  BY <1>1, <1>2, <1>3, UpTo
<1> QED BY <1>4 DEF T

LEMMA WrittenIs ==
  ASSUME ScreenTypes, NEW g \in Cellful
  PROVE  /\ Written(g) \in [0 .. LineMax -> Screens] /\ Written(g)[0] = Now
         /\ \A i \in 1 .. LineMax : Written(g)[i] = Put(Written(g)[i - 1], g)
<1> DEFINE step == [s \in Screens |-> Put(s, g)]
<1>1. Now \in Screens /\ step \in [Screens -> Screens] /\ LineMax \in Nat
  BY NowIs, PutIs, TerminalConstants DEF TerminalConstants
<1> HIDE DEF step
<1>2. \E f \in [0 .. LineMax -> Screens] :
        f[0] = Now /\ \A i \in 1 .. LineMax : f[i] = step[f[i - 1]]
  BY <1>1, Repeated
<1>3. PICK f \in [0 .. LineMax -> Screens] :
        f[0] = Now /\ \A i \in 1 .. LineMax : f[i] = step[f[i - 1]]
  BY <1>2
<1>4. ASSUME NEW i \in 1 .. LineMax
      PROVE  i - 1 \in 0 .. LineMax /\ f[i - 1] \in Screens /\ f[i] = Put(f[i - 1], g)
  <2>1. i - 1 \in 0 .. LineMax
    BY <1>1
  <2>2. f[i - 1] \in Screens
    BY <1>3, <2>1
  <2>3. f[i] = step[f[i - 1]]
    BY <1>3
  <2> QED BY <2>1, <2>2, <2>3 DEF step
<1>5. f = [n \in 0 .. LineMax |-> IF n = 0 THEN Now ELSE Put(f[n - 1], g)]
  BY <1>1, <1>3, <1>4
<1> DEFINE w == Written(g)
<1>6. w = [n \in 0 .. LineMax |-> IF n = 0 THEN Now ELSE Put(w[n - 1], g)]
  BY <1>5 DEF Written
<1> HIDE DEF w
<1>7. w[0] = Now /\ \A i \in 1 .. LineMax : w[i] = Put(w[i - 1], g)
  BY <1>1, <1>6
<1> DEFINE T == {i \in 0 .. LineMax : w[i] \in Screens}
<1>8. 0 \in T
  BY <1>1, <1>7
<1>9. ASSUME NEW i \in 0 .. (LineMax - 1), i \in T
      PROVE  i + 1 \in T
  <2>1. i + 1 \in 1 .. LineMax /\ i + 1 \in 0 .. LineMax /\ (i + 1) - 1 = i
    BY <1>1
  <2>2. w[i + 1] = Put(w[i], g)
    BY <1>7, <2>1
  <2> QED BY <1>9, <2>1, <2>2, PutIs
<1> HIDE DEF T
<1>10. 0 .. LineMax \subseteq T
  BY <1>1, <1>8, <1>9, UpTo
<1>11. w \in [0 .. LineMax -> Screens]
  BY <1>6, <1>10 DEF T
<1> QED BY <1>7, <1>11 DEF w

LEMMA RubbedIs ==
  ASSUME NEW d \in Screens
  PROVE  /\ Rubbed(d) \in [0 .. LineMax -> Screens] /\ Rubbed(d)[0] = d
         /\ \A i \in 1 .. LineMax : Rubbed(d)[i] = Backspaced(Rubbed(d)[i - 1])
<1> DEFINE step == [s \in Screens |-> Backspaced(s)]
<1>1. step \in [Screens -> Screens] /\ LineMax \in Nat
  BY BackspacedIs, TerminalConstants DEF TerminalConstants
<1> HIDE DEF step
<1>2. \E f \in [0 .. LineMax -> Screens] :
        f[0] = d /\ \A i \in 1 .. LineMax : f[i] = step[f[i - 1]]
  BY <1>1, Repeated
<1>3. PICK f \in [0 .. LineMax -> Screens] :
        f[0] = d /\ \A i \in 1 .. LineMax : f[i] = step[f[i - 1]]
  BY <1>2
<1>4. ASSUME NEW i \in 1 .. LineMax
      PROVE  i - 1 \in 0 .. LineMax /\ f[i - 1] \in Screens /\ f[i] = Backspaced(f[i - 1])
  <2>1. i - 1 \in 0 .. LineMax
    BY <1>1
  <2>2. f[i - 1] \in Screens
    BY <1>3, <2>1
  <2>3. f[i] = step[f[i - 1]]
    BY <1>3
  <2> QED BY <2>1, <2>2, <2>3 DEF step
<1>5. f = [n \in 0 .. LineMax |-> IF n = 0 THEN d ELSE Backspaced(f[n - 1])]
  BY <1>1, <1>3, <1>4
<1> DEFINE w == Rubbed(d)
<1>6. w = [n \in 0 .. LineMax |-> IF n = 0 THEN d ELSE Backspaced(w[n - 1])]
  BY <1>5 DEF Rubbed
<1> HIDE DEF w
<1>7. w[0] = d /\ \A i \in 1 .. LineMax : w[i] = Backspaced(w[i - 1])
  BY <1>1, <1>6
<1> DEFINE T == {i \in 0 .. LineMax : w[i] \in Screens}
<1>8. 0 \in T
  BY <1>1, <1>7
<1>9. ASSUME NEW i \in 0 .. (LineMax - 1), i \in T
      PROVE  i + 1 \in T
  <2>1. i + 1 \in 1 .. LineMax /\ i + 1 \in 0 .. LineMax /\ (i + 1) - 1 = i
    BY <1>1
  <2>2. w[i + 1] = Backspaced(w[i])
    BY <1>7, <2>1
  <2> QED BY <1>9, <2>1, <2>2, BackspacedIs
<1> HIDE DEF T
<1>10. 0 .. LineMax \subseteq T
  BY <1>1, <1>8, <1>9, UpTo
<1>11. w \in [0 .. LineMax -> Screens]
  BY <1>6, <1>10 DEF T
<1> QED BY <1>7, <1>11 DEF w

LEMMA RowLess ==
  ASSUME NEW q \in Nat, q >= Width
  PROVE  (q - Width) % Width = q % Width
<1> DEFINE y == (q - Width) \div Width
           x == (q - Width) % Width
<1>1. q - Width \in Nat
  BY Size
<1>2. y \in Nat /\ x \in 0 .. (Width - 1) /\ q - Width = y * Width + x
  BY <1>1, Split
<1> HIDE DEF x, y
<1>3. (y + 1) * Width = y * Width + Width /\ y * Width \in Nat
  BY <1>2, Size
<1>4. q = (y + 1) * Width + x
  BY <1>2, <1>3, Size
<1>5. ((y + 1) * Width + x) % Width = x
  BY <1>2, Joint
<1> QED BY <1>4, <1>5 DEF x

\* The n cells in front of the place of s hold g, from column x on.
Drawn(s, g, n, x) ==
  /\ PlaceOf(s) >= n /\ (PlaceOf(s) - n) % Width = x
  /\ \A k \in (PlaceOf(s) - n) .. (PlaceOf(s) - 1) : s.cells[k] = g

LEMMA DrawsOn ==
  ASSUME NEW s \in Screens, NEW g \in Cellful, NEW n \in 0 .. (LineMax - 1), NEW x, Drawn(s, g, n, x)
  PROVE  Drawn(Put(s, g), g, n + 1, x)
<1> DEFINE b == [s.cells EXCEPT ![PlaceOf(s)] = g]
           d == Put(s, g)
           p == PlaceOf(s)
<1>1. s.cells \in [Index -> Cellful] /\ p \in Index /\ p \in Nat /\ n \in Nat /\ Width \in Nat \ {0}
  BY PlaceIs, Size
<1>2. d \in Screens /\ StepsTo(d, b, p + 1)
  BY PutIs
<1>3. p >= n /\ (p - n) % Width = x /\ \A k \in (p - n) .. (p - 1) : s.cells[k] = g
  BY DEF Drawn
<1>4. b \in [Index -> Cellful] /\ \A k \in (p - n) .. p : b[k] = g
  BY <1>1, <1>3, Size DEF Index
<1> HIDE DEF b, d, p
<1>5. CASE p + 1 \in Index
  <2>1. d.cells = b /\ PlaceOf(d) = p + 1
    BY <1>2, <1>5 DEF StepsTo
  <2>2. PlaceOf(d) >= n + 1 /\ PlaceOf(d) - (n + 1) = p - n /\ PlaceOf(d) - 1 = p
    BY <1>1, <1>3, <2>1
  <2>3. Drawn(d, g, n + 1, x)
    BY <1>3, <1>4, <2>1, <2>2 DEF Drawn
  <2> QED BY <2>3 DEF d
<1>6. CASE p + 1 \notin Index
  <2>1. d.cells = Pulled(b) /\ PlaceOf(d) = (p + 1) - Width
    BY <1>2, <1>6 DEF StepsTo
  <2>2. p + 1 = Width * Height
    BY <1>1, <1>6, Size DEF Index
  <2>3. Width * (Height - 1) = Width * Height - Width
    BY Size
  <2>4. n + 1 <= (p + 1) - Width
    BY <1>1, <2>2, <2>3, TerminalConstants, Size DEF TerminalConstants
  <2>5. /\ PlaceOf(d) >= n + 1 /\ PlaceOf(d) - (n + 1) = (p - n) - Width
        /\ PlaceOf(d) - 1 = p - Width /\ p - n \in Nat /\ p - n >= Width
    BY <1>1, <2>1, <2>4
  <2>6. (PlaceOf(d) - (n + 1)) % Width = x
    BY <1>3, <2>5, RowLess
  <2>7. ASSUME NEW k \in (PlaceOf(d) - (n + 1)) .. (PlaceOf(d) - 1)
        PROVE  d.cells[k] = g
    <3>1. k + Width \in (p - n) .. p /\ k + Width \in Index /\ k \in Index
      BY <1>1, <2>2, <2>5 DEF Index
    <3>2. d.cells[k] = b[k + Width]
      BY <2>1, <3>1 DEF Pulled
    <3> QED BY <1>4, <3>1, <3>2
  <2>8. Drawn(d, g, n + 1, x)
    BY <2>5, <2>6, <2>7 DEF Drawn
  <2> QED BY <2>8 DEF d
<1> QED BY <1>5, <1>6

LEMMA WrittenDrawn ==
  ASSUME ScreenTypes, NEW g \in Cellful
  PROVE  \A n \in 0 .. LineMax : Drawn(Written(g)[n], g, n, terminal_column)
<1> DEFINE w == Written(g)
           T == {n \in 0 .. LineMax : Drawn(w[n], g, n, terminal_column)}
<1>1. /\ w \in [0 .. LineMax -> Screens] /\ w[0] = Now
      /\ \A i \in 1 .. LineMax : w[i] = Put(w[i - 1], g)
  BY WrittenIs
<1>2. LineMax \in Nat
  BY TerminalConstants DEF TerminalConstants
<1> HIDE DEF w
<1>3. 0 \in T
  <2>1. Now \in Screens /\ Now.x = terminal_column
    BY NowIs
  <2>2. PlaceOf(Now) \in Nat /\ PlaceOf(Now) = Now.y * Width + Now.x /\ Now.y \in Nat /\ Now.x \in 0 .. (Width - 1)
    BY <2>1, PlaceIs
  <2>3. PlaceOf(Now) - 0 = PlaceOf(Now) /\ PlaceOf(Now) >= 0 /\ (PlaceOf(Now) - 0) .. (PlaceOf(Now) - 1) = {}
    BY <2>2
  <2>4. PlaceOf(Now) % Width = terminal_column
    BY <2>1, <2>2, Joint
  <2>5. Drawn(Now, g, 0, terminal_column)
    BY <2>3, <2>4 DEF Drawn
  <2> QED BY <1>1, <1>2, <2>5
<1>4. ASSUME NEW n \in 0 .. (LineMax - 1), n \in T
      PROVE  n + 1 \in T
  <2>1. n + 1 \in 1 .. LineMax /\ n + 1 \in 0 .. LineMax /\ (n + 1) - 1 = n /\ n \in 0 .. LineMax
    BY <1>2
  <2>2. w[n + 1] = Put(w[n], g) /\ w[n] \in Screens
    BY <1>1, <2>1
  <2>3. Drawn(w[n], g, n, terminal_column)
    BY <1>4
  <2> QED BY <2>1, <2>2, <2>3, DrawsOn
<1> HIDE DEF T
<1>5. 0 .. LineMax \subseteq T
  BY <1>2, <1>3, <1>4, UpTo
<1> QED BY <1>5 DEF T, w

\* The screen s is d with the last n cells in front of its place rubbed out.
Blanked(d, n) ==
  [k \in Index |-> IF k \in (PlaceOf(d) - n) .. (PlaceOf(d) - 1) THEN Space ELSE d.cells[k]]
RubbedOut(s, d, n) == PlaceOf(s) = PlaceOf(d) - n /\ s.cells = Blanked(d, n)

LEMMA RubsOut ==
  ASSUME NEW s \in Screens, NEW d \in Screens, NEW n \in Nat, n < PlaceOf(d), RubbedOut(s, d, n)
  PROVE  RubbedOut(Backspaced(s), d, n + 1)
<1> DEFINE r == Backspaced(s)
           p == PlaceOf(d)
<1>1. p \in Nat /\ p \in Index /\ PlaceOf(s) = p - n /\ s.cells = Blanked(d, n) /\ n < p
  BY PlaceIs DEF RubbedOut
<1>2. PlaceOf(r) = (IF PlaceOf(s) = 0 THEN 0 ELSE PlaceOf(s) - 1) /\ r.cells = [s.cells EXCEPT ![PlaceOf(r)] = Space]
  BY BackspacedIs
<1> HIDE DEF r
<1>3. PlaceOf(r) = p - (n + 1)
  BY <1>1, <1>2
<1>4. r.cells = [Blanked(d, n) EXCEPT ![p - (n + 1)] = Space]
  BY <1>1, <1>2, <1>3
<1>5. ASSUME NEW k \in Index
      PROVE  [Blanked(d, n) EXCEPT ![p - (n + 1)] = Space][k] = Blanked(d, n + 1)[k]
  <2>1. k \in Nat
    BY DEF Index
  <2>2. CASE k = p - (n + 1)
    <3>1. k \in (p - (n + 1)) .. (p - 1)
      BY <1>1, <2>2
    <3> QED BY <2>2, <3>1 DEF Blanked
  <2>3. CASE k # p - (n + 1)
    <3>1. k \in (p - (n + 1)) .. (p - 1) <=> k \in (p - n) .. (p - 1)
      BY <1>1, <2>1, <2>3
    <3> QED BY <2>3, <3>1 DEF Blanked
  <2> QED BY <2>2, <2>3
<1>6. [Blanked(d, n) EXCEPT ![p - (n + 1)] = Space] = Blanked(d, n + 1)
  <2> DEFINE u == [Blanked(d, n) EXCEPT ![p - (n + 1)] = Space]
             v == Blanked(d, n + 1)
  <2>1. u = [k \in Index |-> u[k]] /\ v = [k \in Index |-> v[k]]
    BY DEF Blanked
  <2>2. \A k \in Index : u[k] = v[k]
    BY <1>5
  <2> HIDE DEF u, v
  <2>3. u = v
    BY <2>1, <2>2
  <2> QED BY <2>3 DEF u, v
<1> QED BY <1>3, <1>4, <1>6 DEF RubbedOut, r

LEMMA RubbedBlanked ==
  ASSUME NEW d \in Screens, NEW n \in 0 .. LineMax, n <= PlaceOf(d)
  PROVE  RubbedOut(Rubbed(d)[n], d, n)
<1> DEFINE w == Rubbed(d)
           T == {i \in 0 .. n : RubbedOut(w[i], d, i)}
<1>1. /\ w \in [0 .. LineMax -> Screens] /\ w[0] = d
      /\ \A i \in 1 .. LineMax : w[i] = Backspaced(w[i - 1])
  BY RubbedIs
<1>2. LineMax \in Nat /\ n \in Nat /\ n <= LineMax /\ PlaceOf(d) \in Nat /\ d.cells \in [Index -> Cellful]
  BY PlaceIs, TerminalConstants DEF TerminalConstants
<1> HIDE DEF w
<1>3. 0 \in T
  <2>1. (PlaceOf(d) - 0) .. (PlaceOf(d) - 1) = {} /\ PlaceOf(d) - 0 = PlaceOf(d)
    BY <1>2
  <2>2. Blanked(d, 0) = [k \in Index |-> d.cells[k]]
    BY <2>1 DEF Blanked
  <2>3. d.cells = Blanked(d, 0)
    BY <1>2, <2>2
  <2>4. RubbedOut(d, d, 0)
    BY <2>1, <2>3 DEF RubbedOut
  <2> QED BY <1>1, <1>2, <2>4
<1>4. ASSUME NEW i \in 0 .. (n - 1), i \in T
      PROVE  i + 1 \in T
  <2>1. /\ i + 1 \in 1 .. LineMax /\ i + 1 \in 0 .. n /\ (i + 1) - 1 = i
        /\ i \in 0 .. LineMax /\ i \in Nat /\ i < PlaceOf(d)
    BY <1>2
  <2>2. w[i + 1] = Backspaced(w[i]) /\ w[i] \in Screens
    BY <1>1, <2>1
  <2>3. RubbedOut(w[i], d, i)
    BY <1>4
  <2> QED BY <2>1, <2>2, <2>3, RubsOut
<1> HIDE DEF T
<1>5. 0 .. n \subseteq T
  BY <1>2, <1>3, <1>4, UpTo
<1>6. n \in 0 .. n
  BY <1>2
<1> QED BY <1>5, <1>6 DEF T, w

\* Two screens with one place and the same cells are one.
LEMMA SameScreen ==
  ASSUME NEW s \in Screens, NEW d \in Screens, PlaceOf(s) = PlaceOf(d)
  PROVE  s = [d EXCEPT !.cells = s.cells]
<1>1. /\ PlaceOf(s) = s.y * Width + s.x /\ s.x \in 0 .. (Width - 1) /\ s.y \in Nat
      /\ PlaceOf(d) = d.y * Width + d.x /\ d.x \in 0 .. (Width - 1) /\ d.y \in Nat
  BY PlaceIs
<1>2. s.x = d.x /\ s.y = d.y
  <2>1. PlaceOf(s) % Width = s.x /\ PlaceOf(s) \div Width = s.y
    BY <1>1, Joint
  <2>2. PlaceOf(d) % Width = d.x /\ PlaceOf(d) \div Width = d.y
    BY <1>1, Joint
  <2> QED BY <2>1, <2>2
<1> QED BY <1>2 DEF Screens

LEMMA ScreenMovesBack ==
  ASSUME ScreenTypes
  PROVE  MovesBack
<1> SUFFICES ASSUME NEW g \in Glyphs, NEW n \in 0 .. LineMax
             PROVE  LET drawn == Written(g)[n]
                        back  == Moved(drawn, -n)
                        start == IndexOf(back.x, back.y)
                    IN  /\ \A k \in start .. (start + n - 1) : drawn.cells[k] = g
                        /\ Rubbed(drawn)[n] = [back EXCEPT !.cells =
                             [k \in Index |-> IF k \in start .. (start + n - 1) THEN Space ELSE @[k]]]
                        /\ back.x = terminal_column
  BY DEF MovesBack
<1> DEFINE drawn == Written(g)[n]
           back  == Moved(drawn, -n)
           start == IndexOf(back.x, back.y)
           left  == Rubbed(drawn)[n]
<1>1. g \in Cellful /\ LineMax \in Nat /\ n \in Nat
  BY TerminalConstants DEF Cellful, TerminalConstants
<1>2. drawn \in Screens
  BY <1>1, WrittenIs
<1>3. Drawn(drawn, g, n, terminal_column)
  BY <1>1, WrittenDrawn
<1>4. /\ left \in Screens /\ (n <= PlaceOf(drawn) => RubbedOut(left, drawn, n))
  BY <1>2, RubbedIs, RubbedBlanked
<1> HIDE DEF drawn, left
<1>5. PlaceOf(drawn) \in Nat /\ PlaceOf(drawn) \in Index /\ n <= PlaceOf(drawn)
  BY <1>1, <1>2, <1>3, PlaceIs DEF Drawn
<1>6. PlaceOf(drawn) + (-n) = PlaceOf(drawn) - n /\ PlaceOf(drawn) - n \in Index /\ PlaceOf(drawn) - n \in Nat
  BY <1>1, <1>5, Size DEF Index
<1>7. back \in Screens /\ back.cells = drawn.cells /\ PlaceOf(back) = PlaceOf(drawn) - n
  BY <1>1, <1>2, <1>6, MovedIs
<1> HIDE DEF back
<1>8. start = PlaceOf(drawn) - n
  BY <1>7 DEF PlaceOf
<1>9. (start + n) - 1 = PlaceOf(drawn) - 1 /\ start + (n - 1) = PlaceOf(drawn) - 1
  BY <1>1, <1>5, <1>8
<1>10. back.x = terminal_column
  <2>1. PlaceOf(back) = back.y * Width + back.x /\ back.y \in Nat /\ back.x \in 0 .. (Width - 1)
    BY <1>7, PlaceIs
  <2>2. PlaceOf(back) % Width = back.x
    BY <2>1, Joint
  <2> QED BY <1>3, <1>7, <2>2 DEF Drawn
<1>11. \A k \in start .. (start + n - 1) : drawn.cells[k] = g
  BY <1>3, <1>8, <1>9 DEF Drawn
<1>12. PlaceOf(left) = PlaceOf(back) /\ left.cells = Blanked(drawn, n)
  BY <1>4, <1>5, <1>7 DEF RubbedOut
<1>13. left = [back EXCEPT !.cells = left.cells]
  BY <1>4, <1>7, <1>12, SameScreen
<1>14. Blanked(drawn, n) = [k \in Index |-> IF k \in start .. (start + n - 1) THEN Space ELSE back.cells[k]]
  BY <1>7, <1>8, <1>9 DEF Blanked
<1>15. left = [back EXCEPT !.cells =
         [k \in Index |-> IF k \in start .. (start + n - 1) THEN Space ELSE @[k]]]
  BY <1>7, <1>12, <1>13, <1>14
<1> QED BY <1>10, <1>11, <1>15 DEF drawn, back, left

-----------------------------------------------------------------------------
\* Theorems.

\* TerminalTypeOK: whatever is written through terminal_putchar and the parser
\* and in whatever order, the next character goes to a cell of the screen, and
\* no parameter leaves its u16 or its array.
THEOREM TerminalTypeCorrect == TerminalSpec => []TerminalTypeOK
<1>1. TerminalInit => TerminalTypeOK
  BY InitTypes
<1>2. TerminalTypeOK /\ [TerminalNext]_terminalVars => TerminalTypeOK'
  BY TerminalStep
<1> QED BY <1>1, <1>2, PTL DEF TerminalSpec

\* MovesBack: wherever a line is drawn, moving back over it returns to its first
\* cell and as many backspaces clear exactly it, also when the screen scrolled
\* in between: what refreshing a line in the line editor rests on.
THEOREM TerminalMovesBack == TerminalSpec => []MovesBack
<1>1. TerminalTypeOK => MovesBack
  BY Parts, ScreenMovesBack
<1> QED BY <1>1, TerminalTypeCorrect, PTL

\* ImplementsRoll: rows, columns, wrapping and scrolling of terminal.c implement
\* one strip of cells that is pulled up by a row when it is full.
THEOREM TerminalImplementsRoll == TerminalSpec => ImplementsRoll
<1>1. TerminalInit => TerminalTypeOK
  BY InitTypes
<1>2. TerminalInit => Roll!RollInit
  <2> SUFFICES ASSUME TerminalInit
               PROVE  Roll!RollInit
    OBVIOUS
  <2>1. IndexOf(terminal_column, terminal_row) = 0
    BY Size DEF TerminalInit, IndexOf
  <2> QED BY <2>1, StripIs DEF TerminalInit, Roll!RollInit, Blank
<1>3. TerminalTypeOK /\ [TerminalNext]_terminalVars => TerminalTypeOK' /\ [Roll!RollNext]_(Roll!rollVars)
  BY TerminalStep
<1> QED BY <1>1, <1>2, <1>3, PTL DEF TerminalSpec, ImplementsRoll, Roll!RollSpec

LEMMA PutcharIs ==
  ASSUME NEW t \in Characters, putchar(t)
  PROVE  TerminalNext
<1>1. \/ t[1] \in {"noise", "esc", "[", ";", "H", "m"}
      \/ t[1] = "glyph" /\ t[2] \in Glyphs \cup {Space}
      \/ t[1] = "digit" /\ t[2] \in Digits
  <2>1. ASSUME NEW s \in {"esc", "[", ";", "H", "m"}, t = Sign(s)
        PROVE  t[1] = s
    BY <2>1 DEF Sign
  <2>2. CASE t = Noise
    BY <2>2 DEF Noise
  <2>3. ASSUME NEW c \in Glyphs \cup {Space}, t = Glyph(c)
        PROVE  t[1] = "glyph" /\ t[2] = c
    BY <2>3 DEF Glyph
  <2>4. ASSUME NEW n \in Digits, t = <<"digit", n>>
        PROVE  t[1] = "digit" /\ t[2] = n
    BY <2>4
  <2> QED BY <2>1, <2>2, <2>3, <2>4 DEF Characters
<1>2. CASE \E c \in Glyphs \cup {Space} : Char(c)
  BY <1>2 DEF TerminalNext
<1>3. CASE \E n \in Digits : Digit(n)
  BY <1>3 DEF TerminalNext
<1>4. CASE Escape \/ Bracket \/ Separator \/ CursorPosition \/ GraphicRendition
  BY <1>4 DEF TerminalNext
<1> QED BY <1>1, <1>2, <1>3, <1>4 DEF putchar

\* The animation, and the terminal's other writers around it, are behaviours of
\* the terminal: what is proved above holds while it draws.
THEOREM LogoIsTerminal == LogoSpec => TerminalSpec
<1>1. LogoInit => TerminalInit
  BY DEF LogoInit
<1>2. [LogoNext]_logoVars => [TerminalNext]_terminalVars
  <2> SUFFICES ASSUME [LogoNext]_logoVars
               PROVE  [TerminalNext]_terminalVars
    OBVIOUS
  <2>1. CASE TerminalNext
    BY <2>1
  <2>2. CASE Start
    BY <2>2 DEF Start, TerminalNext
  <2>3. CASE Draw
    <3> DEFINE t == animate_logo[at + 1]
    <3>1. putchar(t) /\ at + 1 \in 1 .. Len(animate_logo)
      BY <2>3, ScriptCharacters DEF Draw, ScriptCharacters
    <3>2. t \in Characters
      BY <3>1, ScriptCharacters DEF ScriptCharacters
    <3> HIDE DEF t
    <3> QED BY <3>1, <3>2, PutcharIs
  <2>4. CASE Finish
    BY <2>4 DEF Finish
  <2>5. CASE UNCHANGED logoVars
    BY <2>5 DEF logoVars
  <2> QED BY <2>1, <2>2, <2>3, <2>4, <2>5 DEF LogoNext
<1> QED BY <1>1, <1>2, PTL DEF LogoSpec, TerminalSpec
=============================================================================
