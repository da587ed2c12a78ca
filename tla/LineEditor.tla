----------------------------- MODULE LineEditor -----------------------------
(***************************************************************************)
(* The line editor of src/src/kernel/shell.c over the history: the buffer, *)
(* the position in it, and what it draws on the screen behind the prompt.  *)
(* Every operation runs in an interrupt handler, so it is one step.        *)
(*                                                                         *)
(* The screen is the cells from the end of the prompt on, row behind row,  *)
(* and the terminal cursor's place in them; a cell nobody wrote looks like *)
(* a space.  The cursor movements used here count cells across rows; only  *)
(* '\n' asks where a row begins.  That a screen scrolls moves all cells     *)
(* alike.                                                                  *)
(***************************************************************************)
EXTENDS History, FiniteSets

CONSTANTS
  BufferSize,  \* BUFFER_SIZE: 256
  Width,       \* VGA_WIDTH: 80
  Output,      \* from the start of the row where it begins, the cells that a
               \* command's output and the prompt behind it take
  Space,       \* ' '
  Keys,        \* the characters that are inserted as they are
  Commands     \* command_list, as lines

ASSUME EditorConstants ==
  /\ BufferSize \in Nat /\ BufferSize >= 2
  /\ Width \in Nat \ {0} /\ Output \subseteq Nat
  /\ Space \in Char /\ Keys \subseteq Char
  /\ Commands \in Seq(Seq(Char))
  /\ \A i \in DOMAIN Commands : Len(Commands[i]) \in 1 .. (BufferSize - 2)

VARIABLES
  buffer,      \* the line
  buffer_pos,  \* characters before the cursor
  cells,       \* cell |-> character on the screen
  column,      \* the cell of the terminal's cursor
  margin,      \* where in its row the first cell stands
  key          \* the key that was handled last

editorVars == <<buffer, buffer_pos, cells, column, margin>>
shellVars == <<entries, head, count, cursor, draft,
               buffer, buffer_pos, cells, column, margin, key>>

\* As many cells as the line can be drawn on when it starts at the far end of
\* another line, the furthest it is ever drawn from the prompt.
Cells == 0 .. (2 * BufferSize)
BlankCells == [k \in Cells |-> Space]

Before == SubSeq(buffer, 1, buffer_pos)
After == SubSeq(buffer, buffer_pos + 1, Len(buffer))

\* terminal_writestring with the cursor at cell at; terminal_backspace n times.
Drawn(on, at, text) ==
  [k \in Cells |-> IF k \in at .. (at + Len(text) - 1) THEN text[k - at + 1] ELSE on[k]]
Erased(on, at, n) == [k \in Cells |-> IF k \in (at - n) .. (at - 1) THEN Space ELSE on[k]]

EditorInit ==
  /\ HistoryInit
  /\ buffer = << >> /\ buffer_pos = 0 /\ cells = BlankCells /\ column = 0
  /\ margin \in {o % Width : o \in Output}
  /\ key = "none"

\* '\n' goes to the first cell of the row below the cursor and clears nothing:
\* what stands o cells from there on, behind a prompt that ends there.
NextRow == Width * ((margin + column) \div Width + 1) - margin
Below(o) ==
  [k \in Cells |-> IF k + NextRow + o \in Cells THEN cells[k + NextRow + o] ELSE Space]

\* A prompt that ends o cells behind the start of a row, on a screen that shows on
\* from there, and the line drawn behind it.
Prompt(o, on, line) ==
  /\ cells' = Drawn(on, 0, line) /\ column' = Len(line)
  /\ margin' = o % Width

EmptyBuffer == buffer' = << >> /\ buffer_pos' = 0

-----------------------------------------------------------------------------
\* shell_handle_key

\* Slips: a buffer without room for its NUL, a cursor that is not moved back
\* behind the inserted character.
HasRoomNoNul == Len(buffer) < BufferSize
StaysAtEnd(at, n) == at

HasRoom == Len(buffer) < BufferSize - 1
MovedBack(at, n) == at - n

Insert(c) ==
  /\ HasRoom
  /\ buffer' = Before \o <<c>> \o After
  /\ buffer_pos' = buffer_pos + 1
  /\ cells' = Drawn(cells, column, <<c>> \o After)
  /\ column' = MovedBack(column + 1 + Len(After), Len(After))
  /\ UNCHANGED <<historyVars, margin>>

\* A character beyond the end of the buffer is dropped.
Drop == ~HasRoom /\ UNCHANGED <<editorVars, historyVars>>

Backspace ==
  /\ buffer_pos > 0
  /\ buffer' = SubSeq(buffer, 1, buffer_pos - 1) \o After
  /\ buffer_pos' = buffer_pos - 1
  /\ cells' = Drawn(Erased(cells, column, 1), column - 1, After \o <<Space>>)
  /\ column' = MovedBack(column + Len(After), Len(After) + 1)
  /\ UNCHANGED <<historyVars, margin>>

\* '\n': the line is executed, which starts by pushing it, and a new prompt.  Its
\* output leaves what stands behind the prompt as it is, or is that of clear.
Enter ==
  /\ Push(buffer) /\ EmptyBuffer
  /\ \E o \in Output : Prompt(o, Below(o), << >>) \/ Prompt(o, BlankCells, << >>)

\* Ctrl-L: terminal_clear and shell_init.
ClearScreen ==
  /\ EmptyBuffer
  /\ \E o \in Output : Prompt(o, BlankCells, << >>)
  /\ UNCHANGED historyVars

-----------------------------------------------------------------------------
\* '\t': command_completion

CommonLength(a, b) ==
  CHOOSE n \in 0 .. Len(a) :
    /\ n <= Len(b) /\ SubSeq(a, 1, n) = SubSeq(b, 1, n)
    /\ n < Len(a) /\ n < Len(b) => a[n + 1] # b[n + 1]

StartsWith(line, prefix) ==
  Len(prefix) <= Len(line) /\ SubSeq(line, 1, Len(prefix)) = prefix
Matches(prefix) == {i \in DOMAIN Commands : StartsWith(Commands[i], prefix)}

FirstMatch == Commands[CHOOSE i \in Matches(Before) : \A j \in Matches(Before) : i <= j]

\* What the matches have in common, and a slip that asks for it of one of them.
LongestCommon == CHOOSE n \in {CommonLength(FirstMatch, Commands[j]) : j \in Matches(Before)} :
  \A j \in Matches(Before) : CommonLength(FirstMatch, Commands[j]) <= n
CommonPrefix == CHOOSE n \in {CommonLength(FirstMatch, Commands[j]) : j \in Matches(Before)} :
  \A j \in Matches(Before) : n <= CommonLength(FirstMatch, Commands[j])

\* shell_insert_completion: it ends the line after the inserted text.
InsertCompletion(added) ==
  /\ buffer' = Before \o added /\ buffer_pos' = buffer_pos + Len(added)
  /\ cells' = Drawn(cells, column, added) /\ column' = column + Len(added)
  /\ UNCHANGED margin

Complete ==
  /\ \A k \in DOMAIN Before : Before[k] # Space
  /\ \/ /\ Matches(Before) # {} /\ \A i, j \in Matches(Before) : i = j
        /\ InsertCompletion(SubSeq(FirstMatch, buffer_pos + 1, Len(FirstMatch)) \o <<Space>>)
     \/ /\ \E i, j \in Matches(Before) : i # j
        /\ CommonPrefix > buffer_pos
        /\ InsertCompletion(SubSeq(FirstMatch, buffer_pos + 1, CommonPrefix))
     \/ /\ \E i, j \in Matches(Before) : i # j
        /\ CommonPrefix <= buffer_pos
        /\ \E o \in Output : Prompt(o, Below(o), buffer)
        /\ UNCHANGED <<buffer, buffer_pos>>
  /\ UNCHANGED historyVars

-----------------------------------------------------------------------------
\* The arrow keys.

\* The rest of shell_history: erase the line, show what the history hands back.
ShowCurrent ==
  LET start == column - buffer_pos
      line  == Copied(CurrentCommand', BufferSize)
  IN  /\ buffer' = line /\ buffer_pos' = Len(line)
      /\ cells' = Drawn(Erased(cells, start + Len(buffer), Len(buffer)), start, line)
      /\ column' = start + Len(line)
      /\ UNCHANGED margin

Up == HistoryPrev(buffer) /\ ShowCurrent
Down == HistoryNext /\ ShowCurrent

Left ==
  /\ buffer_pos > 0
  /\ buffer_pos' = buffer_pos - 1 /\ column' = MovedBack(column, 1)
  /\ UNCHANGED <<historyVars, buffer, cells, margin>>

Right ==
  /\ buffer_pos < Len(buffer)
  /\ buffer_pos' = buffer_pos + 1 /\ column' = column + 1
  /\ UNCHANGED <<historyVars, buffer, cells, margin>>

EditorNext ==
  \/ key' = "char" /\ (Drop \/ \E c \in Keys : Insert(c))
  \/ key' = "backspace" /\ Backspace
  \/ key' = "enter" /\ Enter
  \/ key' = "ctrl_l" /\ ClearScreen
  \/ key' = "tab" /\ Complete
  \/ key' = "up" /\ Up
  \/ key' = "down" /\ Down
  \/ key' = "left" /\ Left
  \/ key' = "right" /\ Right

EditorSpec == EditorInit /\ [][EditorNext]_shellVars

-----------------------------------------------------------------------------
\* The line fits its buffer with its NUL, the position lies in the line, and the
\* terminal's cursor never falls behind it.
EditorTypeOK ==
  /\ HistoryTypeOK
  /\ buffer \in Seq(Char) /\ Len(buffer) < BufferSize
  /\ buffer_pos \in 0 .. Len(buffer)
  /\ cells \in [Cells -> Char] /\ column \in Cells /\ buffer_pos <= column
  /\ margin \in 0 .. (Width - 1)

\* The user sees the line and the cursor where it is; and nothing behind it.
LineShown == column = buffer_pos /\ \A k \in DOMAIN buffer : cells[k - 1] = buffer[k]
InSync == LineShown /\ \A k \in Cells : k >= Len(buffer) => cells[k] = Space

\* Every operation leaves the screen in step with the line if it finds it so, but
\* for a completion in the middle of a line, which leaves the tail it cuts off on
\* the screen or the cursor at the end of the line.  It leaves nothing behind the
\* line, but for Enter with the cursor in an upper row of a line that goes on
\* below: that tail may still stand behind the new prompt.
Echo ==
  [][~(key' = "tab" /\ buffer_pos < Len(buffer)) =>
       /\ LineShown => LineShown'
       /\ InSync /\ ~(key' = "enter" /\ NextRow < Len(buffer)) => InSync']_shellVars

\* A completion keeps what was typed, rules out no command that it could become,
\* and stops only where these differ.
CompletionKeepsChoices ==
  [][key' = "tab" /\ Matches(Before) # {} =>
       LET completed == SubSeq(buffer', 1, buffer_pos')
           choices   == {Commands[i] : i \in Matches(Before)}
       IN  /\ StartsWith(completed, Before)
           /\ \A cmd \in choices : StartsWith(cmd \o <<Space>>, completed)
           /\ Cardinality(choices) > 1 =>
                ~\E c \in Char : \A cmd \in choices : StartsWith(cmd, Append(completed, c))]_shellVars

\* history.c: the draft is the "Current line", set aside when browsing leaves it.
\* An arrow key that replaces the line being edited leaves it in the draft.
LineSetAside ==
  [][key' \in {"up", "down"} /\ cursor = 0 => buffer' = buffer \/ draft' = buffer]_shellVars
=============================================================================
