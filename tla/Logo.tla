-------------------------------- MODULE Logo --------------------------------
(***************************************************************************)
(* The boot animation of src/src/kernel/kernel.c, drawn through the        *)
(* terminal's escape sequences character by character: the logo's pixels   *)
(* fall from the top row into their cells, then a text comes out of noise. *)
(*                                                                         *)
(* The animation is a script of characters and a place in it.  Before and  *)
(* after it the rest of the kernel writes what it likes.                   *)
(***************************************************************************)
EXTENDS Terminal, SequencesExt

CONSTANTS
  logo,                \* rows of characters
  max_width,           \* 48
  start_y,             \* 6, counted from 1
  target_text,
  text_x, text_y,      \* 28 and 17, counted from 1
  end_y,               \* 20
  Frames,              \* 30
  LogoColor, TextColor, Reset  \* the parameters of the colour sequences

ASSUME LogoConstants ==
  /\ start_y >= 1 /\ start_y + Len(logo) - 1 <= Height /\ max_width <= Width
  /\ text_x + Len(target_text) - 1 <= Width /\ text_y <= Height
  /\ \A row \in DOMAIN logo : \A col \in DOMAIN logo[row] :
       logo[row][col] # Space =>
         ~(start_y + row - 1 = text_y /\ col \in text_x .. (text_x + Len(target_text) - 1))

VARIABLE at  \* characters of the animation written so far, -1 outside it

logoVars == <<terminalVars, at>>

\* The characters a writer hands to terminal_putchar: some glyph stands for
\* those that depend on the clock.
Glyph(c) == <<"glyph", c>>
Noise == <<"noise">>
Sign(s) == <<s>>
Figures(n) ==
  LET of[k \in 0 .. n] == IF k < 10 THEN <<<<"digit", k>>>> ELSE Append(of[k \div 10], <<"digit", k % 10>>)
  IN  of[n]

CSI == <<Sign("esc"), Sign("[")>>
Sgr(code) == CSI \o Figures(code) \o <<Sign("m")>>

\* ANSI rows come before columns.
set_cursor_ansi(x, y) == CSI \o Figures(y) \o <<Sign(";")>> \o Figures(x) \o <<Sign("H")>>

\* The pixels in the order they are let fall, and a slip: from the top row.
TopFirst(col) == [k \in DOMAIN logo |-> <<col, k>>]
BottomFirst(col) == [k \in DOMAIN logo |-> <<col, Len(logo) + 1 - k>>]
Pixels ==
  SelectSeq(FlattenSeq([col \in 1 .. max_width |-> BottomFirst(col)]),
            LAMBDA p : p[1] <= Len(logo[p[2]]) /\ logo[p[2]][p[1]] # Space)

PixelOf(p) == logo[p[2]][p[1]]
TargetY(p) == start_y + p[2] - 1

\* One pixel: erased where it was, drawn one row below, down to its own.
Fall(p) ==
  FlattenSeq([y \in 1 .. TargetY(p) |->
    (IF y > 1 THEN set_cursor_ansi(p[1], y - 1) \o <<Glyph(Space)>> ELSE << >>)
    \o set_cursor_ansi(p[1], y) \o <<Glyph(PixelOf(p))>>])

Frame(f) ==
  set_cursor_ansi(text_x, text_y)
  \o [i \in DOMAIN target_text |-> IF f > i - 1 THEN Glyph(target_text[i]) ELSE Noise]

Fallen(n) == Sgr(LogoColor) \o FlattenSeq([k \in 1 .. n |-> Fall(Pixels[k])])
FinalText == set_cursor_ansi(text_x, text_y) \o [i \in DOMAIN target_text |-> Glyph(target_text[i])]

\* animate_logo behind its terminal_clear; the sleeps take no character.
animate_logo ==
  Fallen(Len(Pixels))
  \o FlattenSeq([k \in DOMAIN TextColor |-> Sgr(TextColor[k])])
  \o FlattenSeq([f \in 1 .. Frames |-> Frame(f - 1)])
  \o FinalText \o Sgr(Reset) \o set_cursor_ansi(1, end_y)

\* The logo, the text and the numbers are of the terminal's characters.
Characters ==
  {Sign(s) : s \in {"esc", "[", ";", "H", "m"}} \cup {Noise}
  \cup {Glyph(c) : c \in Glyphs \cup {Space}} \cup {<<"digit", n>> : n \in Digits}

ASSUME ScriptCharacters == animate_logo \in Seq(Characters)

\* terminal_putchar of one of these characters.
putchar(t) ==
  \/ t[1] = "glyph" /\ Char(t[2])
  \/ t[1] = "noise" /\ \E c \in Glyphs : Char(c)
  \/ t[1] = "esc" /\ Escape
  \/ t[1] = "[" /\ Bracket
  \/ t[1] = "digit" /\ Digit(t[2])
  \/ t[1] = ";" /\ Separator
  \/ t[1] = "H" /\ CursorPosition
  \/ t[1] = "m" /\ GraphicRendition

LogoInit == TerminalInit /\ at = -1

\* The kernel's other texts end their sequences.
Start == at = -1 /\ current_state = "normal" /\ Clear /\ at' = 0
Draw == at \in 0 .. (Len(animate_logo) - 1) /\ putchar(animate_logo[at + 1]) /\ at' = at + 1
Finish == at = Len(animate_logo) /\ at' = -1 /\ UNCHANGED terminalVars

LogoNext == (at = -1 /\ TerminalNext /\ UNCHANGED at) \/ Start \/ Draw \/ Finish

LogoSpec == LogoInit /\ [][LogoNext]_logoVars

-----------------------------------------------------------------------------
Cell(p) == IndexOf(p[1] - 1, TargetY(p) - 1)
Landed == {n \in DOMAIN Pixels : at >= Len(Fallen(n))}
TextCell(i) == IndexOf(text_x + i - 2, text_y - 1)
TextCells == {TextCell(i) : i \in DOMAIN target_text}

\* A pixel that has landed stays, though others fall past its column, and one
\* that falls leaves no trail; at the end the logo and the text are on the screen
\* and nothing else is.
LogoStands ==
  at > 0 =>
    LET drawn == {k \in Index \ TextCells : terminal_buffer[k] # Space}
    IN  /\ \A n \in Landed : terminal_buffer[Cell(Pixels[n])] = PixelOf(Pixels[n])
        /\ Cardinality(drawn) <= Cardinality(Landed) + 1
        /\ at = Len(animate_logo) =>
             /\ Landed = DOMAIN Pixels /\ drawn = {Cell(Pixels[n]) : n \in Landed}
             /\ \A i \in DOMAIN target_text : terminal_buffer[TextCell(i)] = target_text[i]
=============================================================================
