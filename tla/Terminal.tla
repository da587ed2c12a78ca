------------------------------ MODULE Terminal ------------------------------
(***************************************************************************)
(* The VGA text terminal of src/src/kernel/terminal.c and the parser of    *)
(* escape sequences in front of it, src/src/kernel/ainsi.zig.              *)
(*                                                                         *)
(* A cell is its character; its colour is left out, the colour of the next *)
(* one is kept.  Positions are size_t: the model keeps them where the code *)
(* does, and TerminalTypeOK says that this is on the screen.  The parser   *)
(* is built ReleaseSafe: a sum outside its u16 would hang the kernel.      *)
(***************************************************************************)
EXTENDS Integers

CONSTANTS
  Width, Height,  \* VGA_WIDTH, VGA_HEIGHT: 80 by 25
  Glyphs,         \* what is drawn, besides the space
  Space,
  MaxParams,      \* MAX_PARAMS: 8
  ParamMax,       \* 2^16 - 1
  Digits,         \* the digits a sequence may have
  Foreground,     \* SGR codes 30..39 and 90..97
  Background,     \* SGR codes 40..49
  DefaultFg,      \* 37
  DefaultBg,      \* 40
  Moves,          \* offsets passed to terminal_move_cursor
  LineMax         \* the longest text the line editor draws and moves back over

ASSUME TerminalConstants ==
  /\ Width \in Nat \ {0} /\ Height \in Nat \ {0} /\ Space \notin Glyphs
  /\ MaxParams \in Nat /\ MaxParams >= 2 /\ ParamMax \in Nat /\ Digits \subseteq 0 .. 9
  /\ Foreground \cap Background = {} /\ 0 \notin Foreground \cup Background
  /\ DefaultFg \in Foreground /\ DefaultBg \in Background
  /\ Moves \subseteq Int /\ LineMax \in Nat /\ LineMax <= Width * (Height - 1)

VARIABLES
  terminal_buffer,  \* index |-> character
  terminal_row,
  terminal_column,
  current_state,    \* "normal", "escape" or "bracket"
  params,           \* the sequence's parameters
  param_index,
  fg, bg,           \* active_color
  terminal_color    \* what terminal_setcolor was given

screen == <<terminal_buffer, terminal_row, terminal_column>>
parser == <<current_state, params, param_index>>
colors == <<fg, bg, terminal_color>>
terminalVars == <<screen, parser, colors>>

Index == 0 .. (Width * Height - 1)
IndexOf(x, y) == y * Width + x
Blank == [k \in Index |-> Space]

\* A screen: its cells, its row and its column.
Screen(b, x, y) == [cells |-> b, x |-> x, y |-> y]
Now == Screen(terminal_buffer, terminal_column, terminal_row)
Becomes(s) == terminal_buffer' = s.cells /\ terminal_column' = s.x /\ terminal_row' = s.y

Scrolled(b) == [k \in Index |-> IF k + Width \in Index THEN b[k + Width] ELSE Space]

\* Slips: a scroll that is forgotten, a cursor moved within its row.
RowBelowNoScroll(b, y) == IF y + 1 = Height THEN Screen(b, 0, y) ELSE Screen(b, 0, y + 1)
MovedInRow(s, offset) ==
  Screen(s.cells, IF s.x + offset < 0 THEN 0 ELSE (s.x + offset) % Width, s.y)

\* To the start of the next row, scrolling at the last one.
RowBelow(b, y) == IF y + 1 = Height THEN Screen(Scrolled(b), 0, y) ELSE Screen(b, 0, y + 1)

\* terminal_putchar_raw of a character that is not a newline.
Put(s, c) ==
  LET b == [s.cells EXCEPT ![IndexOf(s.x, s.y)] = c]
  IN  IF s.x + 1 = Width THEN RowBelow(b, s.y) ELSE Screen(b, s.x + 1, s.y)

\* terminal_move_cursor
Moved(s, offset) ==
  LET to  == IndexOf(s.x, s.y) + offset
      pos == IF to < 0 THEN 0 ELSE IF to \in Index THEN to ELSE Width * Height - 1
  IN  Screen(s.cells, pos % Width, pos \div Width)

\* terminal_backspace
Backspaced(s) ==
  LET x == IF s.x > 0 THEN s.x - 1 ELSE IF s.y > 0 THEN Width - 1 ELSE 0
      y == IF s.x = 0 /\ s.y > 0 THEN s.y - 1 ELSE s.y
  IN  Screen([s.cells EXCEPT ![IndexOf(x, y)] = Space], x, y)

\* The clipping of terminal_set_cursor.
Clipped(n, size) == IF n >= size THEN size - 1 ELSE n

TerminalInit ==
  /\ terminal_buffer = Blank /\ terminal_row = 0 /\ terminal_column = 0
  /\ current_state = "normal" /\ params = [i \in 0 .. (MaxParams - 1) |-> 0] /\ param_index = 0
  /\ fg = DefaultFg /\ bg = DefaultBg /\ terminal_color = <<DefaultFg, DefaultBg>>

-----------------------------------------------------------------------------
\* ansi_process_char, by the parser's state.

\* The parameters live in the state "bracket" only.
Leave ==
  /\ current_state' = "normal"
  /\ params' = [i \in 0 .. (MaxParams - 1) |-> 0] /\ param_index' = 0

Char(c) ==
  /\ current_state = "normal"
  /\ Becomes(Put(Now, c))
  /\ UNCHANGED <<parser, colors>>

Newline ==
  /\ current_state = "normal"
  /\ Becomes(RowBelow(terminal_buffer, terminal_row))
  /\ UNCHANGED <<parser, colors>>

Escape ==
  /\ current_state = "normal"
  /\ current_state' = "escape"
  /\ UNCHANGED <<screen, params, param_index, colors>>

\* After ESC: '[', or anything else, which is dropped.
Bracket ==
  /\ current_state = "escape"
  /\ current_state' = "bracket"
  /\ UNCHANGED <<screen, params, param_index, colors>>

Abort == current_state \in {"escape", "bracket"} /\ Leave /\ UNCHANGED <<screen, colors>>

\* A sum that is not saturated, and one that is: *| 10 +| n
Summed(v, n) == v * 10 + n
Saturated(v, n) == IF v * 10 + n > ParamMax THEN ParamMax ELSE v * 10 + n

Digit(n) ==
  /\ current_state = "bracket"
  /\ params' = [params EXCEPT ![param_index] = Saturated(@, n)]
  /\ UNCHANGED <<screen, current_state, param_index, colors>>

\* ';': behind the last parameter comes the first one again.
Separator ==
  /\ current_state = "bracket"
  /\ param_index' = (param_index + 1) % MaxParams
  /\ UNCHANGED <<screen, current_state, params, colors>>

\* 'J', by its first parameter: after the cursor, up to it, or all, which also
\* moves the cursor home.
ClearAfterCursor ==
  /\ params[0] = 0
  /\ terminal_buffer' = [k \in Index |->
       IF k >= IndexOf(terminal_column, terminal_row) THEN Space ELSE terminal_buffer[k]]
  /\ UNCHANGED <<terminal_row, terminal_column>>
ClearUntilCursor ==
  /\ params[0] = 1
  /\ terminal_buffer' = [k \in Index |->
       IF k < IndexOf(terminal_column, terminal_row) THEN Space ELSE terminal_buffer[k]]
  /\ UNCHANGED <<terminal_row, terminal_column>>
ClearAll == params[0] = 2 /\ Becomes(Screen(Blank, 0, 0))

EraseDisplay ==
  /\ current_state = "bracket"
  /\ ClearAfterCursor \/ ClearUntilCursor \/ ClearAll \/ (params[0] > 2 /\ UNCHANGED screen)
  /\ Leave /\ UNCHANGED colors

\* 'H': rows and columns count from 1, and 0 means 1.
FromOne(n) == IF n = 0 THEN 0 ELSE n - 1
CursorPosition ==
  /\ current_state = "bracket"
  /\ terminal_row' = Clipped(FromOne(params[0]), Height)
  /\ terminal_column' = Clipped(FromOne(params[1]), Width)
  /\ UNCHANGED terminal_buffer
  /\ Leave /\ UNCHANGED colors

\* 'm': the parameters so far are drained in their order.
LastOf(codes, default, old) ==
  LET acts == {i \in 0 .. param_index : params[i] \in codes \cup {0}}
  IN  IF acts = {} THEN old
      ELSE LET i == CHOOSE i \in acts : \A j \in acts : j <= i
           IN  IF params[i] = 0 THEN default ELSE params[i]
GraphicRendition ==
  /\ current_state = "bracket"
  /\ fg' = LastOf(Foreground, DefaultFg, fg) /\ bg' = LastOf(Background, DefaultBg, bg)
  /\ terminal_color' = <<fg', bg'>>
  /\ Leave /\ UNCHANGED screen

-----------------------------------------------------------------------------
\* Calls past the parser.

Backspace == Becomes(Backspaced(Now)) /\ UNCHANGED <<parser, colors>>
MoveCursor(offset) == Becomes(Moved(Now, offset)) /\ UNCHANGED <<parser, colors>>
Clear == Becomes(Screen(Blank, 0, 0)) /\ UNCHANGED <<parser, colors>>

TerminalNext ==
  \/ \E c \in Glyphs \cup {Space} : Char(c)
  \/ Newline \/ Escape \/ Bracket \/ Abort
  \/ \E n \in Digits : Digit(n)
  \/ Separator \/ EraseDisplay \/ CursorPosition \/ GraphicRendition
  \/ Backspace \/ Clear
  \/ \E offset \in Moves : MoveCursor(offset)

TerminalSpec == TerminalInit /\ [][TerminalNext]_terminalVars

-----------------------------------------------------------------------------
\* Whatever is written and in whatever order, the next character goes to a cell
\* of the screen and a parameter stays in its word and its array.
TerminalTypeOK ==
  /\ terminal_buffer \in [Index -> Glyphs \cup {Space}]
  /\ terminal_row \in 0 .. (Height - 1) /\ terminal_column \in 0 .. (Width - 1)
  /\ current_state \in {"normal", "escape", "bracket"}
  /\ params \in [0 .. (MaxParams - 1) -> 0 .. ParamMax] /\ param_index \in 0 .. (MaxParams - 1)
  /\ fg \in Foreground /\ bg \in Background /\ terminal_color \in Foreground \X Background

\* Rows, columns, wrapping and scrolling amount to one strip of cells: no text
\* is lost, doubled or drawn out of place, and no sequence draws any.
Roll == INSTANCE ScreenRoll
  WITH RowLength <- Width, Rows <- Height, Glyph <- Glyphs \cup {Space}, Empty <- Space,
       strip <- terminal_buffer, place <- IndexOf(terminal_column, terminal_row)
ImplementsRoll == Roll!RollSpec

\* The screen after text of n glyphs, and after n backspaces.
Written(g) ==
  LET after[n \in 0 .. LineMax] == IF n = 0 THEN Now ELSE Put(after[n - 1], g) IN after
Rubbed(s) ==
  LET after[n \in 0 .. LineMax] == IF n = 0 THEN s ELSE Backspaced(after[n - 1]) IN after

\* What LineEditor takes for granted: moving back over text just drawn returns
\* to its first cell, and as many backspaces clear all of it, on whatever row it
\* began, also when the screen scrolled in between.
MovesBack ==
  \A g \in Glyphs, n \in 0 .. LineMax :
    LET drawn == Written(g)[n]
        back  == Moved(drawn, -n)
        start == IndexOf(back.x, back.y)
    IN  /\ \A k \in start .. (start + n - 1) : drawn.cells[k] = g
        /\ Rubbed(drawn)[n] = [back EXCEPT !.cells =
             [k \in Index |-> IF k \in start .. (start + n - 1) THEN Space ELSE @[k]]]
        /\ back.x = terminal_column
=============================================================================
