-------------------------- MODULE LineEditorProofs --------------------------
(***************************************************************************)
(* Safety of the line editor for every buffer, ring and table of commands: *)
(* the types, what a completion keeps, that the screen follows the line,   *)
(* and that the ring of the history is the log of the latest commands.     *)
(***************************************************************************)
EXTENDS LineEditor, SequenceTheorems, FiniteSetTheorems, WellFoundedInduction, TLAPS

-----------------------------------------------------------------------------
\* Numbers and parts of sequences.

LEMMA Least ==
  ASSUME NEW T, T \subseteq Nat, T # {}
  PROVE  \E x \in T : \A y \in T : x <= y
<1> DEFINE R == OpToRel(<, Nat)
<1>1. IsWellFoundedOn(R, Nat)
  BY NatLessThanWellFounded
<1>2. \A x, y \in Nat : y < x => <<y, x>> \in R
  BY DEF OpToRel
<1> HIDE DEF R
<1>3. PICK x \in T : \A y \in T : ~(<<y, x>> \in R)
  BY <1>1, WFMin
<1>4. ASSUME NEW y \in T
      PROVE  x <= y
  <2>1. x \in Nat /\ y \in Nat
    OBVIOUS
  <2>2. ~(y < x)
    BY <1>2, <1>3, <2>1
  <2> QED BY <2>1, <2>2
<1> QED BY <1>4

LEMMA Greatest ==
  ASSUME NEW T, NEW n \in Nat, T \subseteq 0 .. n, T # {}
  PROVE  \E x \in T : \A y \in T : y <= x
<1> DEFINE below == {n - x : x \in T}
<1>1. below \subseteq Nat /\ below # {}
  <2>1. \A x \in T : n - x \in Nat
    OBVIOUS
  <2> QED BY <2>1
<1>2. PICK m \in below : \A y \in below : m <= y
  BY <1>1, Least
<1>3. PICK x \in T : m = n - x
  OBVIOUS
<1>4. ASSUME NEW y \in T
      PROVE  y <= x
  <2>1. m <= n - y
    BY <1>2
  <2> QED BY <1>3, <2>1
<1> QED BY <1>4

\* A number below twice the capacity, on the ring.
LEMMA OnRing ==
  ASSUME NEW x \in Nat, x < 2 * Capacity
  PROVE  /\ x % Capacity = IF x < Capacity THEN x ELSE x - Capacity
         /\ x % Capacity \in 0 .. (Capacity - 1)
<1>1. Capacity \in Nat \ {0}
  BY HistoryConstants DEF HistoryConstants
<1>2. CASE x < Capacity
  BY <1>1, <1>2
<1>3. CASE ~(x < Capacity)
  <2>1. x - Capacity \in 0 .. (Capacity - 1)
    BY <1>1, <1>3
  <2>2. \A y \in 0 .. (Capacity - 1) : (y + Capacity) % Capacity = y
    BY <1>1
  <2>3. x = (x - Capacity) + Capacity
    BY <1>1
  <2> QED BY <1>1, <1>3, <2>1, <2>2, <2>3
<1> QED BY <1>2, <1>3

LEMMA PartIs ==
  ASSUME NEW S, NEW s \in Seq(S), NEW n \in 0 .. Len(s), NEW m \in 0 .. n
  PROVE  /\ SubSeq(s, m + 1, n) \in Seq(S) /\ Len(SubSeq(s, m + 1, n)) = n - m
         /\ \A i \in 1 .. (n - m) : SubSeq(s, m + 1, n)[i] = s[m + i]
<1>1. Len(s) \in Nat
  BY LenProperties
<1>2. \A i \in (m + 1) .. n : s[i] \in S
  BY <1>1, ElementOfSeq
<1>3. /\ SubSeq(s, m + 1, n) \in Seq(S)
      /\ Len(SubSeq(s, m + 1, n)) = IF m + 1 <= n THEN n - (m + 1) + 1 ELSE 0
      /\ \A i \in 1 .. (n - (m + 1) + 1) : SubSeq(s, m + 1, n)[i] = s[(m + 1) + i - 1]
  BY <1>1, <1>2, SubSeqProperties
<1>4. ASSUME NEW i \in 1 .. (n - m)
      PROVE  SubSeq(s, m + 1, n)[i] = s[m + i]
  <2>1. i \in 1 .. (n - (m + 1) + 1) /\ (m + 1) + i - 1 = m + i
    BY <1>1
  <2> QED BY <1>3, <2>1
<1> QED BY <1>1, <1>3, <1>4

LEMMA PrefixIs ==
  ASSUME NEW S, NEW s \in Seq(S), NEW n \in 0 .. Len(s)
  PROVE  /\ SubSeq(s, 1, n) \in Seq(S) /\ Len(SubSeq(s, 1, n)) = n
         /\ \A i \in 1 .. n : SubSeq(s, 1, n)[i] = s[i]
<1>1. Len(s) \in Nat /\ 0 \in 0 .. n /\ n - 0 = n /\ 0 + 1 = 1
  BY LenProperties
<1>2. /\ SubSeq(s, 1, n) \in Seq(S) /\ Len(SubSeq(s, 1, n)) = n
      /\ \A i \in 1 .. n : SubSeq(s, 1, n)[i] = s[0 + i]
  BY <1>1, PartIs
<1> QED BY <1>2

\* strlcpy keeps the line, up to the room for it.
LEMMA CopiedIs ==
  ASSUME NEW S, NEW text \in Seq(S), NEW size \in Nat \ {0}
  PROVE  /\ Copied(text, size) \in Seq(S)
         /\ Len(Copied(text, size)) <= size - 1 /\ Len(Copied(text, size)) <= Len(text)
         /\ Len(Copied(text, size)) \in Nat
<1>1. Len(text) \in Nat
  BY LenProperties
<1>2. (IF Len(text) < size THEN Len(text) ELSE size - 1) \in 0 .. Len(text)
  BY <1>1
<1> QED BY <1>1, <1>2, PrefixIs DEF Copied

-----------------------------------------------------------------------------
\* The history's types.

LEMMA KeptIs ==
  ASSUME NEW text \in Seq(Char)
  PROVE  Kept(text) \in Seq(Char)
<1>1. EntrySize - 1 \in Nat \ {0}
  BY HistoryConstants DEF HistoryConstants
<1> QED BY <1>1, CopiedIs DEF Kept

LEMMA PushTypes ==
  ASSUME HistoryTypeOK, NEW text \in Seq(Char), Push(text)
  PROVE  HistoryTypeOK'
<1> USE DEF HistoryTypeOK
<1>1. Capacity \in Nat \ {0}
  BY HistoryConstants DEF HistoryConstants
<1>2. CASE PushEmpty(text)
  BY <1>2 DEF PushEmpty, historyVars
<1>3. CASE PushCommand(text)
  <2>1. entries' \in [0 .. (Capacity - 1) -> Seq(Char)]
    BY <1>3, KeptIs DEF PushCommand
  <2>2. head' \in 0 .. (Capacity - 1)
    <3>1. head + 1 \in Nat /\ head + 1 < 2 * Capacity
      BY <1>1
    <3> QED BY <1>3, <3>1, OnRing DEF PushCommand, SlotAfter
  <2>3. count' \in 0 .. Capacity
    BY <1>1, <1>3 DEF PushCommand
  <2>4. cursor' \in 0 .. count' /\ draft' \in Seq(Char)
    BY <1>3, <2>3, EmptySeq DEF PushCommand
  <2> QED BY <2>1, <2>2, <2>3, <2>4
<1> QED BY <1>2, <1>3 DEF Push

LEMMA PrevTypes ==
  ASSUME HistoryTypeOK, NEW text \in Seq(Char), HistoryPrev(text)
  PROVE  HistoryTypeOK'
<1> USE DEF HistoryTypeOK
<1>1. draft' \in Seq(Char) /\ UNCHANGED <<entries, head, count>>
  BY KeptIs DEF HistoryPrev
<1>2. cursor' \in 0 .. count
  BY HistoryConstants DEF HistoryPrev, HistoryConstants
<1> QED BY <1>1, <1>2

LEMMA NextTypes ==
  ASSUME HistoryTypeOK, HistoryNext
  PROVE  HistoryTypeOK'
<1> USE DEF HistoryTypeOK
<1>1. UNCHANGED <<entries, head, count, draft>>
  BY DEF HistoryNext
<1>2. cursor' \in 0 .. count
  BY HistoryConstants DEF HistoryNext, HistoryConstants
<1> QED BY <1>1, <1>2

\* Where the ring holds the command at a position.
LEMMA SlotIs ==
  ASSUME NEW h \in 0 .. (Capacity - 1), NEW b \in 1 .. Capacity
  PROVE  /\ (h - b + Capacity) % Capacity = IF b <= h THEN h - b ELSE h - b + Capacity
         /\ (h - b + Capacity) % Capacity \in 0 .. (Capacity - 1)
<1>1. Capacity \in Nat \ {0}
  BY HistoryConstants DEF HistoryConstants
<1>2. h - b + Capacity \in Nat /\ h - b + Capacity < 2 * Capacity
  BY <1>1
<1>3. (h - b + Capacity) - Capacity = h - b
  BY <1>1
<1> QED BY <1>1, <1>2, <1>3, OnRing

LEMMA CurrentIs ==
  ASSUME HistoryTypeOK'
  PROVE  CurrentCommand' \in Seq(Char)
<1>1. CASE cursor' = 0
  BY <1>1 DEF HistoryTypeOK, CurrentCommand
<1>2. CASE cursor' # 0
  <2>1. cursor' \in 1 .. Capacity /\ head' \in 0 .. (Capacity - 1)
    BY <1>2, HistoryConstants DEF HistoryTypeOK, HistoryConstants
  <2>2. (head' - cursor' + Capacity) % Capacity \in 0 .. (Capacity - 1)
    BY <2>1, SlotIs
  <2> QED BY <1>2, <2>2 DEF HistoryTypeOK, CurrentCommand, slot
<1> QED BY <1>1, <1>2

-----------------------------------------------------------------------------
\* The editor's types.

\* The line is never drawn further from the prompt than a line is long: only a
\* completion in the middle of one moves it there, and it starts at the prompt.
EditorInv == EditorTypeOK /\ column - buffer_pos < BufferSize

LEMMA Room ==
  /\ BufferSize \in Nat /\ BufferSize >= 2 /\ Space \in Char
  /\ Width \in Nat \ {0} /\ \A o \in Output : o \in Nat /\ o % Width \in 0 .. (Width - 1)
BY EditorConstants DEF EditorConstants

LEMMA EmptyLine ==
  << >> \in Seq(Char) /\ Len(<< >>) = 0
BY EmptySeq

\* The line before and after the position.
LEMMA Pieces ==
  ASSUME EditorTypeOK
  PROVE  /\ buffer \in Seq(Char) /\ Len(buffer) \in Nat /\ Len(buffer) < BufferSize
         /\ buffer_pos \in 0 .. Len(buffer) /\ buffer_pos \in Nat /\ column \in Nat
         /\ buffer_pos <= column
         /\ Before \in Seq(Char) /\ Len(Before) = buffer_pos
         /\ \A i \in 1 .. buffer_pos : Before[i] = buffer[i]
         /\ After \in Seq(Char) /\ Len(After) = Len(buffer) - buffer_pos
         /\ \A i \in 1 .. (Len(buffer) - buffer_pos) : After[i] = buffer[buffer_pos + i]
<1>1. /\ buffer \in Seq(Char) /\ Len(buffer) \in Nat /\ Len(buffer) < BufferSize
      /\ buffer_pos \in 0 .. Len(buffer) /\ column \in Cells /\ buffer_pos <= column
  BY LenProperties DEF EditorTypeOK
<1>2. /\ Before \in Seq(Char) /\ Len(Before) = buffer_pos
      /\ \A i \in 1 .. buffer_pos : Before[i] = buffer[i]
  BY <1>1, PrefixIs DEF Before
<1>3. /\ After \in Seq(Char) /\ Len(After) = Len(buffer) - buffer_pos
      /\ \A i \in 1 .. (Len(buffer) - buffer_pos) : After[i] = buffer[buffer_pos + i]
  <2>1. Len(buffer) \in 0 .. Len(buffer)
    BY <1>1
  <2> QED BY <1>1, <2>1, PartIs DEF After
<1>4. buffer_pos \in Nat /\ column \in Nat
  BY <1>1, Room DEF Cells
<1> QED BY <1>1, <1>2, <1>3, <1>4

LEMMA OneMore ==
  ASSUME NEW c \in Char, NEW text \in Seq(Char)
  PROVE  /\ <<c>> \in Seq(Char) /\ Len(<<c>>) = 1 /\ <<c>>[1] = c
         /\ <<c>> \o text \in Seq(Char) /\ Len(<<c>> \o text) = 1 + Len(text)
         /\ text \o <<c>> \in Seq(Char) /\ Len(text \o <<c>>) = Len(text) + 1
         /\ Len(text) \in Nat
<1>1. <<c>> \in Seq(Char) /\ Len(<<c>>) = 1 /\ <<c>>[1] = c
  OBVIOUS
<1> QED BY <1>1, ConcatProperties, LenProperties

LEMMA DrawnIs ==
  ASSUME NEW on \in [Cells -> Char], NEW text \in Seq(Char), NEW at \in Int
  PROVE  Drawn(on, at, text) \in [Cells -> Char]
<1>1. Len(text) \in Nat
  BY LenProperties
<1>2. ASSUME NEW k \in Cells, k \in at .. (at + Len(text) - 1)
      PROVE  text[k - at + 1] \in Char
  <2>1. k - at + 1 \in 1 .. Len(text)
    BY <1>1, <1>2
  <2> QED BY <2>1, ElementOfSeq
<1> QED BY <1>2 DEF Drawn

LEMMA ErasedIs ==
  ASSUME NEW on \in [Cells -> Char], NEW at, NEW n
  PROVE  Erased(on, at, n) \in [Cells -> Char]
BY Room DEF Erased

\* What every operation leaves behind.
LEMMA LineTypes ==
  ASSUME HistoryTypeOK',
         buffer' \in Seq(Char), Len(buffer') < BufferSize,
         buffer_pos' \in 0 .. Len(buffer'), cells' \in [Cells -> Char],
         column' \in Int, column' - buffer_pos' \in 0 .. (BufferSize - 1),
         margin' \in 0 .. (Width - 1)
  PROVE  EditorInv'
<1>1. Len(buffer') \in Nat
  BY LenProperties
<1>2. buffer_pos' \in Nat /\ buffer_pos' < BufferSize
  BY <1>1, Room
<1>3. column' \in 0 .. (2 * BufferSize) /\ buffer_pos' <= column' /\ column' - buffer_pos' < BufferSize
  <2> DEFINE c == column'
             b == buffer_pos'
  <2>1. c \in Int /\ b \in Nat /\ b < BufferSize /\ c - b \in 0 .. (BufferSize - 1)
    BY <1>2
  <2> HIDE DEF c, b
  <2>2. c \in 0 .. (2 * BufferSize) /\ b <= c /\ c - b < BufferSize
    BY <2>1, Room
  <2> QED BY <2>2 DEF c, b
<1> QED BY <1>1, <1>3 DEF EditorInv, EditorTypeOK, Cells

LEMMA SameHistory ==
  ASSUME HistoryTypeOK, UNCHANGED historyVars
  PROVE  HistoryTypeOK'
BY DEF HistoryTypeOK, historyVars

\* The row below the cursor begins behind it.
LEMMA RowBelow ==
  ASSUME EditorTypeOK
  PROVE  NextRow \in Nat /\ column < NextRow
<1> DEFINE x == margin + column
           q == x \div Width
           r == x % Width
<1>1. Width \in Nat \ {0} /\ margin \in Nat /\ margin < Width /\ column \in Nat
  BY Room DEF EditorTypeOK, Cells
<1>2. q \in Nat /\ r \in 0 .. (Width - 1) /\ x = Width * q + r
  BY <1>1
<1>3. NextRow = Width * (q + 1) - margin
  BY DEF NextRow
<1> HIDE DEF q, r
<1>4. Width * (q + 1) = Width * q + Width /\ Width * q \in Nat
  BY <1>1, <1>2
<1> QED BY <1>1, <1>2, <1>3, <1>4

\* What a prompt leaves behind it.
LEMMA BelowIs ==
  ASSUME EditorTypeOK, NEW o \in Output
  PROVE  /\ Below(o) \in [Cells -> Char]
         /\ \A k \in Cells : Below(o)[k] = IF k + NextRow + o \in Cells THEN cells[k + NextRow + o]
                                          ELSE Space
BY Room DEF Below, EditorTypeOK

LEMMA BlankIs ==
  BlankCells \in [Cells -> Char] /\ \A k \in Cells : BlankCells[k] = Space
BY Room DEF BlankCells

\* A line drawn behind a prompt.
LEMMA PromptTypes ==
  ASSUME HistoryTypeOK', NEW o \in Output, NEW on \in [Cells -> Char],
         NEW line \in Seq(Char), Len(line) < BufferSize, Prompt(o, on, line),
         buffer' = line, buffer_pos' \in 0 .. Len(line)
  PROVE  EditorInv'
<1>1. cells' = Drawn(on, 0, line) /\ column' = Len(line) /\ margin' = o % Width
  BY DEF Prompt
<1>2. cells' \in [Cells -> Char] /\ Len(line) \in Nat /\ margin' \in 0 .. (Width - 1)
  BY <1>1, DrawnIs, LenProperties, Room
<1>3. column' \in Int /\ column' - buffer_pos' \in 0 .. (BufferSize - 1)
  BY <1>1, <1>2, Room
<1> QED BY <1>1, <1>2, <1>3, LineTypes

\* An empty one, behind Enter or Ctrl-L.
LEMMA FreshTypes ==
  ASSUME HistoryTypeOK', EmptyBuffer,
         NEW o \in Output, NEW on \in [Cells -> Char], Prompt(o, on, << >>)
  PROVE  EditorInv'
<1>1. buffer' = << >> /\ buffer_pos' \in 0 .. Len(<< >>) /\ Len(<< >>) < BufferSize
  BY EmptyLine, Room DEF EmptyBuffer
<1> QED BY <1>1, EmptyLine, PromptTypes

LEMMA InitTypes ==
  ASSUME EditorInit
  PROVE  EditorInv
<1>1. entries \in [0 .. (Capacity - 1) -> Seq(Char)] /\ draft \in Seq(Char)
  BY EmptyLine DEF EditorInit, HistoryInit
<1>2. head \in 0 .. (Capacity - 1) /\ count \in 0 .. Capacity /\ cursor \in 0 .. count
  BY HistoryConstants DEF EditorInit, HistoryInit, HistoryConstants
<1>3. HistoryTypeOK
  BY <1>1, <1>2 DEF HistoryTypeOK
<1>4. buffer \in Seq(Char) /\ Len(buffer) = 0 /\ buffer_pos = 0 /\ column = 0
  BY EmptyLine DEF EditorInit
<1>5. cells \in [Cells -> Char]
  BY Room DEF EditorInit, BlankCells
<1>6. 0 \in Cells /\ 0 < BufferSize
  BY Room DEF Cells
<1>7. margin \in 0 .. (Width - 1)
  BY Room DEF EditorInit
<1> QED BY <1>7, <1>3, <1>4, <1>5, <1>6 DEF EditorInv, EditorTypeOK

LEMMA InsertTypes ==
  ASSUME EditorInv, NEW c \in Char, Insert(c)
  PROVE  EditorInv'
<1> DEFINE inserted == <<c>> \o After
<1>1. HistoryTypeOK'
  BY SameHistory DEF EditorInv, EditorTypeOK, Insert
<1>2. /\ buffer' = Before \o inserted /\ buffer_pos' = buffer_pos + 1
      /\ cells' = Drawn(cells, column, inserted)
      /\ column' = (column + 1 + Len(After)) - Len(After)
      /\ Len(buffer) < BufferSize - 1
  <2>1. Before \in Seq(Char) /\ <<c>> \in Seq(Char) /\ After \in Seq(Char)
    BY Pieces, OneMore DEF EditorInv
  <2>2. (Before \o <<c>>) \o After = Before \o inserted
    BY <2>1, ConcatAssociative
  <2>3. buffer' = (Before \o <<c>>) \o After /\ buffer_pos' = buffer_pos + 1
    BY DEF Insert
  <2>4. cells' = Drawn(cells, column, inserted)
    BY DEF Insert
  <2>5. column' = (column + 1 + Len(After)) - Len(After)
    BY DEF Insert, MovedBack
  <2>6. Len(buffer) < BufferSize - 1
    BY DEF Insert, HasRoom
  <2> QED BY <2>2, <2>3, <2>4, <2>5, <2>6
<1>3. /\ Before \in Seq(Char) /\ Len(Before) = buffer_pos /\ inserted \in Seq(Char)
      /\ Len(inserted) = 1 + (Len(buffer) - buffer_pos)
      /\ Len(After) \in Nat /\ Len(buffer) \in Nat /\ buffer_pos \in 0 .. Len(buffer)
      /\ column \in Nat /\ buffer_pos <= column /\ column - buffer_pos < BufferSize
      /\ cells \in [Cells -> Char]
  BY Pieces, OneMore DEF EditorInv, EditorTypeOK
<1> HIDE DEF inserted
<1>4. buffer' \in Seq(Char) /\ Len(buffer') = Len(buffer) + 1
  <2>1. Before \o inserted \in Seq(Char) /\ Len(Before \o inserted) = Len(Before) + Len(inserted)
    BY <1>3, ConcatProperties
  <2> QED BY <1>2, <1>3, <2>1
<1>5. cells' \in [Cells -> Char]
  BY <1>2, <1>3, DrawnIs
<1>6. /\ Len(buffer') < BufferSize /\ buffer_pos' \in 0 .. Len(buffer')
      /\ column' \in Int /\ column' - buffer_pos' \in 0 .. (BufferSize - 1)
  BY <1>2, <1>3, <1>4, Room
<1>9. margin' \in 0 .. (Width - 1)
  BY DEF Insert, EditorInv, EditorTypeOK
<1> QED BY <1>9, <1>1, <1>4, <1>5, <1>6, LineTypes

LEMMA BackspaceTypes ==
  ASSUME EditorInv, Backspace
  PROVE  EditorInv'
<1> DEFINE kept == SubSeq(buffer, 1, buffer_pos - 1)
           tail == After \o <<Space>>
<1>1. HistoryTypeOK'
  BY SameHistory DEF EditorInv, EditorTypeOK, Backspace
<1>2. /\ buffer' = kept \o After /\ buffer_pos' = buffer_pos - 1 /\ buffer_pos > 0
      /\ cells' = Drawn(Erased(cells, column, 1), column - 1, tail)
      /\ column' = (column + Len(After)) - (Len(After) + 1)
  <2>1. buffer' = kept \o After /\ buffer_pos' = buffer_pos - 1 /\ buffer_pos > 0
    BY DEF Backspace
  <2>2. cells' = Drawn(Erased(cells, column, 1), column - 1, tail)
    BY DEF Backspace
  <2>3. column' = (column + Len(After)) - (Len(After) + 1)
    BY DEF Backspace, MovedBack
  <2> QED BY <2>1, <2>2, <2>3
<1>3. /\ buffer \in Seq(Char) /\ After \in Seq(Char) /\ Len(After) = Len(buffer) - buffer_pos
      /\ Len(buffer) \in Nat /\ buffer_pos \in 0 .. Len(buffer) /\ Len(buffer) < BufferSize
      /\ column \in Nat /\ buffer_pos <= column /\ column - buffer_pos < BufferSize
      /\ cells \in [Cells -> Char]
  BY Pieces DEF EditorInv, EditorTypeOK
<1>4. kept \in Seq(Char) /\ Len(kept) = buffer_pos - 1
  <2>1. buffer_pos - 1 \in 0 .. Len(buffer)
    BY <1>2, <1>3
  <2> QED BY <1>3, <2>1, PrefixIs
<1>5. tail \in Seq(Char) /\ column - 1 \in Int
  BY <1>3, OneMore, Room
<1> HIDE DEF kept, tail
<1>6. buffer' \in Seq(Char) /\ Len(buffer') = Len(buffer) - 1
  BY <1>2, <1>3, <1>4, ConcatProperties
<1>7. cells' \in [Cells -> Char]
  BY <1>2, <1>3, <1>5, DrawnIs, ErasedIs
<1>8. /\ Len(buffer') < BufferSize /\ buffer_pos' \in 0 .. Len(buffer')
      /\ column' \in Int /\ column' - buffer_pos' \in 0 .. (BufferSize - 1)
  BY <1>2, <1>3, <1>6, Room
<1>9. margin' \in 0 .. (Width - 1)
  BY DEF Backspace, EditorInv, EditorTypeOK
<1> QED BY <1>9, <1>1, <1>6, <1>7, <1>8, LineTypes

LEMMA ShowTypes ==
  ASSUME EditorInv, HistoryTypeOK', ShowCurrent
  PROVE  EditorInv'
<1> DEFINE start == column - buffer_pos
           text == Copied(CurrentCommand', BufferSize)
<1>1. /\ buffer' = text /\ buffer_pos' = Len(text) /\ column' = start + Len(text)
      /\ cells' = Drawn(Erased(cells, start + Len(buffer), Len(buffer)), start, text)
  BY DEF ShowCurrent
<1>2. text \in Seq(Char) /\ Len(text) \in Nat /\ Len(text) < BufferSize
  <2>1. BufferSize \in Nat \ {0}
    BY Room
  <2>2. /\ text \in Seq(Char) /\ Len(text) \in Nat /\ Len(text) <= BufferSize - 1
    BY <2>1, CurrentIs, CopiedIs
  <2> HIDE DEF text
  <2> QED BY <2>1, <2>2
<1>3. start \in Int /\ start \in 0 .. (BufferSize - 1) /\ cells \in [Cells -> Char]
  <2>1. column \in Nat /\ buffer_pos \in Nat /\ buffer_pos <= column
    BY Pieces DEF EditorInv
  <2> QED BY <2>1, Room DEF EditorInv, EditorTypeOK
<1> HIDE DEF start, text
<1>4. cells' \in [Cells -> Char]
  BY <1>1, <1>2, <1>3, DrawnIs, ErasedIs
<1>5. column' \in Int /\ column' - buffer_pos' \in 0 .. (BufferSize - 1)
  BY <1>1, <1>2, <1>3, Room
<1>6. buffer_pos' \in 0 .. Len(buffer')
  BY <1>1, <1>2
<1>9. margin' \in 0 .. (Width - 1)
  BY DEF ShowCurrent, EditorInv, EditorTypeOK
<1> QED BY <1>9, <1>1, <1>2, <1>4, <1>5, <1>6, LineTypes

LEMMA ArrowTypes ==
  ASSUME EditorInv, Left \/ Right
  PROVE  EditorInv'
<1>1. /\ buffer' = buffer /\ cells' = cells /\ UNCHANGED historyVars
      /\ \/ buffer_pos > 0 /\ buffer_pos' = buffer_pos - 1 /\ column' = column - 1
         \/ buffer_pos < Len(buffer) /\ buffer_pos' = buffer_pos + 1 /\ column' = column + 1
  BY DEF Left, Right, MovedBack, historyVars
<1>2. /\ buffer \in Seq(Char) /\ Len(buffer) \in Nat /\ buffer_pos \in 0 .. Len(buffer)
      /\ Len(buffer) < BufferSize
      /\ column \in Nat /\ buffer_pos <= column /\ column - buffer_pos < BufferSize
      /\ cells \in [Cells -> Char]
  BY Pieces DEF EditorInv, EditorTypeOK
<1>3. /\ buffer_pos' \in 0 .. Len(buffer') /\ column' \in Int
      /\ column' - buffer_pos' \in 0 .. (BufferSize - 1)
  BY <1>1, <1>2, Room
<1>4. HistoryTypeOK'
  BY <1>1, SameHistory DEF EditorInv, EditorTypeOK
<1>9. margin' \in 0 .. (Width - 1)
  BY DEF Left, Right, EditorInv, EditorTypeOK
<1> QED BY <1>9, <1>1, <1>2, <1>3, <1>4, LineTypes

-----------------------------------------------------------------------------
\* What a completion finds.

LEMMA CommandIs ==
  ASSUME NEW i \in DOMAIN Commands
  PROVE  /\ Commands[i] \in Seq(Char) /\ Len(Commands[i]) \in 1 .. (BufferSize - 2)
         /\ i \in Nat
<1>1. Commands \in Seq(Seq(Char)) /\ Len(Commands[i]) \in 1 .. (BufferSize - 2)
  BY EditorConstants DEF EditorConstants
<1>2. DOMAIN Commands = 1 .. Len(Commands) /\ Len(Commands) \in Nat
  BY <1>1, LenProperties
<1> QED BY <1>1, <1>2, ElementOfSeq

\* How far two lines agree.
LEMMA CommonLengthIs ==
  ASSUME NEW a \in Seq(Char), NEW b \in Seq(Char)
  PROVE  /\ CommonLength(a, b) \in 0 .. Len(a) /\ CommonLength(a, b) <= Len(b)
         /\ \A k \in 1 .. CommonLength(a, b) : a[k] = b[k]
         /\ CommonLength(a, b) < Len(a) /\ CommonLength(a, b) < Len(b) =>
              a[CommonLength(a, b) + 1] # b[CommonLength(a, b) + 1]
<1> DEFINE P(n) == /\ n <= Len(b) /\ SubSeq(a, 1, n) = SubSeq(b, 1, n)
                   /\ n < Len(a) /\ n < Len(b) => a[n + 1] # b[n + 1]
           T == {n \in 0 .. Len(a) : n <= Len(b) /\ \A k \in 1 .. n : a[k] = b[k]}
<1>1. Len(a) \in Nat /\ Len(b) \in Nat
  BY LenProperties
<1>2. ASSUME NEW n \in 0 .. Len(a), n <= Len(b)
      PROVE  SubSeq(a, 1, n) = SubSeq(b, 1, n) <=> \A k \in 1 .. n : a[k] = b[k]
  <2>1. n \in 0 .. Len(b)
    BY <1>1, <1>2
  <2>2. /\ SubSeq(a, 1, n) \in Seq(Char) /\ Len(SubSeq(a, 1, n)) = n
        /\ \A k \in 1 .. n : SubSeq(a, 1, n)[k] = a[k]
    BY PrefixIs
  <2>3. /\ SubSeq(b, 1, n) \in Seq(Char) /\ Len(SubSeq(b, 1, n)) = n
        /\ \A k \in 1 .. n : SubSeq(b, 1, n)[k] = b[k]
    BY <2>1, PrefixIs
  <2>4. ASSUME \A k \in 1 .. n : a[k] = b[k]
        PROVE  SubSeq(a, 1, n) = SubSeq(b, 1, n)
    BY <2>2, <2>3, <2>4, SeqEqual
  <2>5. ASSUME SubSeq(a, 1, n) = SubSeq(b, 1, n), NEW k \in 1 .. n
        PROVE  a[k] = b[k]
    BY <2>2, <2>3, <2>5
  <2> QED BY <2>4, <2>5
<1>3. \E n \in 0 .. Len(a) : P(n)
  <2>1. 0 \in T
    BY <1>1
  <2>2. PICK n \in T : \A m \in T : m <= n
    BY <1>1, <2>1, Greatest
  <2>3. ASSUME n < Len(a), n < Len(b), a[n + 1] = b[n + 1]
        PROVE  FALSE
    <3>1. n + 1 \in 0 .. Len(a) /\ n + 1 <= Len(b)
      BY <1>1, <2>3
    <3>2. \A k \in 1 .. (n + 1) : a[k] = b[k]
      BY <1>1, <2>3
    <3>3. n + 1 \in T
      BY <3>1, <3>2
    <3>4. n + 1 <= n /\ n \in Nat
      BY <2>2, <3>3
    <3> QED BY <3>4
  <2> QED BY <1>2, <2>3
<1>4. CommonLength(a, b) \in 0 .. Len(a) /\ P(CommonLength(a, b))
  <2>1. CommonLength(a, b) = CHOOSE n \in 0 .. Len(a) : P(n)
    BY DEF CommonLength
  <2> HIDE DEF P
  <2> QED BY <1>3, <2>1
<1> QED BY <1>2, <1>4

LEMMA StartsIs ==
  ASSUME NEW text \in Seq(Char), NEW prefix \in Seq(Char)
  PROVE  StartsWith(text, prefix) <=>
           Len(prefix) <= Len(text) /\ \A k \in 1 .. Len(prefix) : text[k] = prefix[k]
<1> DEFINE n == Len(prefix)
<1>1. Len(text) \in Nat /\ n \in Nat
  BY LenProperties
<1>2. CASE n <= Len(text)
  <2>1. /\ SubSeq(text, 1, n) \in Seq(Char) /\ Len(SubSeq(text, 1, n)) = n
        /\ \A k \in 1 .. n : SubSeq(text, 1, n)[k] = text[k]
    <3>1. n \in 0 .. Len(text)
      BY <1>1, <1>2
    <3> QED BY <3>1, PrefixIs
  <2>2. ASSUME \A k \in 1 .. n : text[k] = prefix[k]
        PROVE  SubSeq(text, 1, n) = prefix
    BY <2>1, <2>2, SeqEqual
  <2>3. ASSUME SubSeq(text, 1, n) = prefix, NEW k \in 1 .. n
        PROVE  text[k] = prefix[k]
    BY <2>1, <2>3
  <2> QED BY <1>2, <2>2, <2>3 DEF StartsWith
<1> QED BY <1>2 DEF StartsWith

LEMMA MatchIs ==
  ASSUME EditorTypeOK, NEW i \in Matches(Before)
  PROVE  /\ i \in DOMAIN Commands /\ i \in Nat
         /\ Commands[i] \in Seq(Char) /\ Len(Commands[i]) \in Nat
         /\ Len(Commands[i]) <= BufferSize - 2 /\ buffer_pos <= Len(Commands[i])
         /\ \A k \in 1 .. buffer_pos : Commands[i][k] = buffer[k]
<1>1. i \in DOMAIN Commands /\ StartsWith(Commands[i], Before)
  BY DEF Matches
<1>2. /\ Commands[i] \in Seq(Char) /\ Len(Commands[i]) \in 1 .. (BufferSize - 2)
      /\ i \in Nat
  BY <1>1, CommandIs
<1>3. /\ Before \in Seq(Char) /\ Len(Before) = buffer_pos
      /\ \A k \in 1 .. buffer_pos : Before[k] = buffer[k]
  BY Pieces
<1>4. /\ Len(Before) <= Len(Commands[i])
      /\ \A k \in 1 .. Len(Before) : Commands[i][k] = Before[k]
  BY <1>1, <1>2, <1>3, StartsIs
<1>5. Len(Commands[i]) \in Nat /\ Len(Commands[i]) <= BufferSize - 2
  BY <1>2, Room
<1> QED BY <1>1, <1>2, <1>3, <1>4, <1>5

LEMMA FirstMatchIs ==
  ASSUME EditorTypeOK, Matches(Before) # {}
  PROVE  \E i \in Matches(Before) : FirstMatch = Commands[i]
<1>1. Matches(Before) \subseteq Nat
  BY MatchIs
<1>2. \E i \in Matches(Before) : \A j \in Matches(Before) : i <= j
  BY <1>1, Least
<1> QED BY <1>2 DEF FirstMatch

LEMMA CommonPrefixIs ==
  ASSUME EditorTypeOK, Matches(Before) # {}
  PROVE  /\ \E j \in Matches(Before) : CommonPrefix = CommonLength(FirstMatch, Commands[j])
         /\ \A j \in Matches(Before) : CommonPrefix <= CommonLength(FirstMatch, Commands[j])
         /\ CommonPrefix \in Nat /\ CommonPrefix <= Len(FirstMatch)
<1> DEFINE T == {CommonLength(FirstMatch, Commands[j]) : j \in Matches(Before)}
<1>1. FirstMatch \in Seq(Char) /\ Len(FirstMatch) \in Nat
  BY FirstMatchIs, MatchIs
<1>2. ASSUME NEW j \in Matches(Before)
      PROVE  /\ CommonLength(FirstMatch, Commands[j]) \in Nat
             /\ CommonLength(FirstMatch, Commands[j]) <= Len(FirstMatch)
  <2>1. Commands[j] \in Seq(Char)
    BY MatchIs
  <2>2. CommonLength(FirstMatch, Commands[j]) \in 0 .. Len(FirstMatch)
    BY <1>1, <2>1, CommonLengthIs
  <2> QED BY <1>1, <2>2
<1>3. T \subseteq Nat /\ T # {}
  BY <1>2
<1>4. \E n \in T : \A m \in T : n <= m
  BY <1>3, Least
<1>5. \E n \in T : \A j \in Matches(Before) : n <= CommonLength(FirstMatch, Commands[j])
  BY <1>4
<1>6. /\ CommonPrefix \in T
      /\ \A j \in Matches(Before) : CommonPrefix <= CommonLength(FirstMatch, Commands[j])
  <2>1. CommonPrefix = CHOOSE n \in T :
          \A j \in Matches(Before) : n <= CommonLength(FirstMatch, Commands[j])
    BY DEF CommonPrefix
  <2> HIDE DEF T
  <2> QED BY <1>5, <2>1
<1> QED BY <1>2, <1>6

\* The text a completion inserts.
Added == SubSeq(FirstMatch, buffer_pos + 1, Len(FirstMatch)) \o <<Space>>
AddedPart == SubSeq(FirstMatch, buffer_pos + 1, CommonPrefix)

LEMMA AddedIs ==
  ASSUME EditorTypeOK, Matches(Before) # {}
  PROVE  /\ Added \in Seq(Char) /\ buffer_pos + Len(Added) = Len(FirstMatch) + 1
         /\ buffer_pos + Len(Added) < BufferSize /\ Len(Added) \in Nat
         /\ \A k \in 1 .. (Len(FirstMatch) - buffer_pos) : Added[k] = FirstMatch[buffer_pos + k]
         /\ Added[Len(FirstMatch) - buffer_pos + 1] = Space
<1> DEFINE rest == SubSeq(FirstMatch, buffer_pos + 1, Len(FirstMatch))
           n == Len(FirstMatch)
<1>1. /\ FirstMatch \in Seq(Char) /\ n \in Nat /\ n <= BufferSize - 2 /\ buffer_pos <= n
      /\ buffer_pos \in Nat
  BY FirstMatchIs, MatchIs, Pieces
<1>2. /\ rest \in Seq(Char) /\ Len(rest) = n - buffer_pos
      /\ \A k \in 1 .. (n - buffer_pos) : rest[k] = FirstMatch[buffer_pos + k]
  <2>1. n \in 0 .. n /\ buffer_pos \in 0 .. n
    BY <1>1
  <2> QED BY <1>1, <2>1, PartIs
<1>3. <<Space>> \in Seq(Char) /\ Len(<<Space>>) = 1 /\ <<Space>>[1] = Space
  BY Room, OneMore, EmptyLine
<1>4. Added = rest \o <<Space>>
  BY DEF Added
<1> HIDE DEF rest, n
<1>5. /\ Added \in Seq(Char) /\ Len(Added) = n - buffer_pos + 1
      /\ \A k \in 1 .. (n - buffer_pos + 1) :
           Added[k] = IF k <= n - buffer_pos THEN rest[k] ELSE <<Space>>[k - (n - buffer_pos)]
  BY <1>2, <1>3, <1>4, ConcatProperties
<1>6. Added[n - buffer_pos + 1] = Space
  <2>1. /\ n - buffer_pos + 1 \in 1 .. (n - buffer_pos + 1) /\ ~(n - buffer_pos + 1 <= n - buffer_pos)
        /\ (n - buffer_pos + 1) - (n - buffer_pos) = 1
    BY <1>1
  <2> QED BY <1>3, <1>5, <2>1
<1>7. \A k \in 1 .. (n - buffer_pos) : Added[k] = FirstMatch[buffer_pos + k]
  BY <1>1, <1>2, <1>5
<1>8. buffer_pos + Len(Added) = n + 1 /\ buffer_pos + Len(Added) < BufferSize /\ Len(Added) \in Nat
  BY <1>1, <1>5, Room
<1> QED BY <1>5, <1>6, <1>7, <1>8 DEF n

LEMMA AddedPartIs ==
  ASSUME EditorTypeOK, Matches(Before) # {}, CommonPrefix > buffer_pos
  PROVE  /\ AddedPart \in Seq(Char) /\ buffer_pos + Len(AddedPart) = CommonPrefix
         /\ buffer_pos + Len(AddedPart) < BufferSize /\ Len(AddedPart) \in Nat
         /\ \A k \in 1 .. (CommonPrefix - buffer_pos) : AddedPart[k] = FirstMatch[buffer_pos + k]
<1>1. /\ FirstMatch \in Seq(Char) /\ Len(FirstMatch) \in Nat /\ Len(FirstMatch) <= BufferSize - 2
      /\ buffer_pos \in Nat
  BY FirstMatchIs, MatchIs, Pieces
<1>2. CommonPrefix \in Nat /\ CommonPrefix <= Len(FirstMatch)
  BY CommonPrefixIs
<1>3. CommonPrefix \in 0 .. Len(FirstMatch) /\ buffer_pos \in 0 .. CommonPrefix
  BY <1>1, <1>2
<1>4. /\ AddedPart \in Seq(Char) /\ Len(AddedPart) = CommonPrefix - buffer_pos
      /\ \A k \in 1 .. (CommonPrefix - buffer_pos) : AddedPart[k] = FirstMatch[buffer_pos + k]
  BY <1>1, <1>3, PartIs DEF AddedPart
<1> QED BY <1>1, <1>2, <1>4, Room

LEMMA InsertedTypes ==
  ASSUME EditorInv, UNCHANGED historyVars, NEW added \in Seq(Char),
         buffer_pos + Len(added) < BufferSize, InsertCompletion(added)
  PROVE  EditorInv'
<1>1. HistoryTypeOK'
  BY SameHistory DEF EditorInv, EditorTypeOK
<1>2. /\ Before \in Seq(Char) /\ Len(Before) = buffer_pos /\ Len(added) \in Nat
      /\ column \in Nat /\ buffer_pos \in Nat /\ buffer_pos <= column
      /\ column - buffer_pos < BufferSize /\ cells \in [Cells -> Char]
  BY Pieces, LenProperties DEF EditorInv, EditorTypeOK
<1>3. /\ buffer' = Before \o added /\ buffer_pos' = buffer_pos + Len(added)
      /\ cells' = Drawn(cells, column, added) /\ column' = column + Len(added)
  BY DEF InsertCompletion
<1>4. buffer' \in Seq(Char) /\ Len(buffer') = buffer_pos + Len(added)
  <2>1. Before \o added \in Seq(Char) /\ Len(Before \o added) = Len(Before) + Len(added)
    BY <1>2, ConcatProperties
  <2> QED BY <1>2, <1>3, <2>1
<1>5. cells' \in [Cells -> Char]
  BY <1>2, <1>3, DrawnIs
<1>6. /\ Len(buffer') < BufferSize /\ buffer_pos' \in 0 .. Len(buffer')
      /\ column' \in Int /\ column' - buffer_pos' \in 0 .. (BufferSize - 1)
  BY <1>2, <1>3, <1>4, Room
<1>9. margin' \in 0 .. (Width - 1)
  BY DEF InsertCompletion, EditorInv, EditorTypeOK
<1> QED BY <1>9, <1>1, <1>4, <1>5, <1>6, LineTypes

\* The three ways of a completion.
Single == Matches(Before) # {} /\ InsertCompletion(Added)
Partial == CommonPrefix > buffer_pos /\ InsertCompletion(AddedPart)
Listing ==
  /\ CommonPrefix <= buffer_pos
  /\ \E o \in Output : Prompt(o, Below(o), buffer)
  /\ UNCHANGED <<buffer, buffer_pos>>

LEMMA CompleteIs ==
  ASSUME Complete
  PROVE  /\ UNCHANGED historyVars /\ Matches(Before) # {}
         /\ \/ Single /\ \A i, j \in Matches(Before) : i = j
            \/ Partial \/ Listing
<1>1. Matches(Before) # {}
  BY DEF Complete
<1> QED BY <1>1 DEF Complete, Single, Partial, Listing, Added, AddedPart

LEMMA CompleteTypes ==
  ASSUME EditorInv, Complete
  PROVE  EditorInv'
<1>1. UNCHANGED historyVars /\ Matches(Before) # {} /\ (Single \/ Partial \/ Listing)
  BY CompleteIs
<1>2. CASE Single
  <2>1. Added \in Seq(Char) /\ buffer_pos + Len(Added) < BufferSize
    BY <1>1, AddedIs DEF EditorInv
  <2> QED BY <1>1, <1>2, <2>1, InsertedTypes DEF Single
<1>3. CASE Partial
  <2>1. AddedPart \in Seq(Char) /\ buffer_pos + Len(AddedPart) < BufferSize
    BY <1>1, <1>3, AddedPartIs DEF EditorInv, Partial
  <2> QED BY <1>1, <1>3, <2>1, InsertedTypes DEF Partial
<1>4. CASE Listing
  <2>1. HistoryTypeOK'
    BY <1>1, SameHistory DEF EditorInv, EditorTypeOK
  <2>2. /\ buffer \in Seq(Char) /\ Len(buffer) \in Nat /\ Len(buffer) < BufferSize
        /\ buffer_pos \in 0 .. Len(buffer)
    BY Pieces DEF EditorInv
  <2>3. PICK o \in Output : Prompt(o, Below(o), buffer)
    BY <1>4 DEF Listing
  <2>4. buffer' = buffer /\ buffer_pos' = buffer_pos /\ Below(o) \in [Cells -> Char]
    BY <1>4, BelowIs DEF Listing, EditorInv
  <2> QED BY <2>1, <2>2, <2>3, <2>4, PromptTypes
<1> QED BY <1>1, <1>2, <1>3, <1>4

LEMMA EditorStep ==
  ASSUME EditorInv, [EditorNext]_shellVars
  PROVE  EditorInv'
<1>1. buffer \in Seq(Char) /\ HistoryTypeOK
  BY DEF EditorInv, EditorTypeOK
<1>2. CASE UNCHANGED shellVars \/ Drop
  BY <1>2 DEF shellVars, Drop, editorVars, historyVars, EditorInv, EditorTypeOK, HistoryTypeOK
<1>3. CASE \E c \in Keys : Insert(c)
  BY <1>3, InsertTypes, EditorConstants DEF EditorConstants
<1>4. CASE Backspace
  BY <1>4, BackspaceTypes
<1>5. CASE Enter
  <2>1. HistoryTypeOK' /\ EmptyBuffer
    BY <1>1, <1>5, PushTypes DEF Enter
  <2>2. PICK o \in Output : Prompt(o, Below(o), << >>) \/ Prompt(o, BlankCells, << >>)
    BY <1>5 DEF Enter
  <2> QED BY <2>1, <2>2, FreshTypes, BelowIs, BlankIs DEF EditorInv
<1>6. CASE ClearScreen
  BY <1>1, <1>6, SameHistory, FreshTypes, BlankIs DEF ClearScreen
<1>7. CASE Complete
  BY <1>7, CompleteTypes
<1>8. CASE Up
  BY <1>1, <1>8, PrevTypes, ShowTypes DEF Up
<1>9. CASE Down
  BY <1>1, <1>9, NextTypes, ShowTypes DEF Down
<1>10. CASE Left \/ Right
  BY <1>10, ArrowTypes
<1> QED
  BY <1>2, <1>3, <1>4, <1>5, <1>6, <1>7, <1>8, <1>9, <1>10 DEF EditorNext

THEOREM EditorInvariant == EditorSpec => []EditorInv
<1>1. EditorInit => EditorInv
  BY InitTypes
<1>2. EditorInv /\ [EditorNext]_shellVars => EditorInv'
  BY EditorStep
<1> QED BY <1>1, <1>2, PTL DEF EditorSpec

\* The line fits its buffer with its NUL, the position lies in the line, the
\* terminal's cursor never falls behind it, and the ring's indices stay in it.
THEOREM EditorTypeCorrect == EditorSpec => []EditorTypeOK
<1>1. EditorInv => EditorTypeOK
  BY DEF EditorInv
<1> QED BY <1>1, EditorInvariant, PTL

-----------------------------------------------------------------------------
\* What a completion leaves open.

\* The text may become any of the commands that match, and not all of them go on
\* from it in the same way.
Keeps(completed) ==
  /\ StartsWith(completed, Before)
  /\ \A i \in Matches(Before) : StartsWith(Commands[i] \o <<Space>>, completed)
Stops(completed) ==
  ~\E c \in Char : \A i \in Matches(Before) : StartsWith(Commands[i], Append(completed, c))

LEMMA SpaceBehind ==
  ASSUME EditorTypeOK, NEW i \in Matches(Before)
  PROVE  /\ Commands[i] \o <<Space>> \in Seq(Char)
         /\ Len(Commands[i] \o <<Space>>) = Len(Commands[i]) + 1
         /\ \A k \in 1 .. Len(Commands[i]) : (Commands[i] \o <<Space>>)[k] = Commands[i][k]
         /\ (Commands[i] \o <<Space>>)[Len(Commands[i]) + 1] = Space
<1> DEFINE n == Len(Commands[i])
<1>1. /\ Commands[i] \in Seq(Char) /\ n \in Nat
      /\ <<Space>> \in Seq(Char) /\ Len(<<Space>>) = 1 /\ <<Space>>[1] = Space
  BY MatchIs, Room, OneMore, EmptyLine
<1>2. /\ Commands[i] \o <<Space>> \in Seq(Char) /\ Len(Commands[i] \o <<Space>>) = n + 1
      /\ \A k \in 1 .. n + 1 : (Commands[i] \o <<Space>>)[k] =
           IF k <= n THEN Commands[i][k] ELSE <<Space>>[k - n]
  BY <1>1, ConcatProperties
<1>3. n + 1 \in 1 .. n + 1 /\ ~(n + 1 <= n) /\ (n + 1) - n = 1
  BY <1>1
<1>4. \A k \in 1 .. n : k \in 1 .. n + 1 /\ k <= n
  BY <1>1
<1> QED BY <1>1, <1>2, <1>3, <1>4

\* What the matches have in common.
LEMMA CommonKeeps ==
  ASSUME EditorTypeOK, Matches(Before) # {}, NEW completed \in Seq(Char),
         Len(completed) = CommonPrefix, CommonPrefix >= buffer_pos,
         \A k \in 1 .. CommonPrefix : completed[k] = FirstMatch[k]
  PROVE  Keeps(completed) /\ Stops(completed)
<1> DEFINE n == CommonPrefix
<1>1. PICK f \in Matches(Before) : FirstMatch = Commands[f]
  BY FirstMatchIs
<1>2. n \in Nat /\ n <= Len(FirstMatch) /\ buffer_pos \in Nat
  BY CommonPrefixIs, Pieces
<1>3. /\ FirstMatch \in Seq(Char) /\ Len(FirstMatch) \in Nat
      /\ \A k \in 1 .. buffer_pos : FirstMatch[k] = buffer[k]
  BY <1>1, MatchIs
<1>4. /\ Before \in Seq(Char) /\ Len(Before) = buffer_pos
      /\ \A k \in 1 .. buffer_pos : Before[k] = buffer[k]
  BY Pieces
<1>5. StartsWith(completed, Before)
  <2>1. \A k \in 1 .. buffer_pos : completed[k] = Before[k]
    BY <1>2, <1>3, <1>4
  <2> QED BY <1>4, <2>1, StartsIs
<1>6. ASSUME NEW i \in Matches(Before)
      PROVE  StartsWith(Commands[i] \o <<Space>>, completed)
  <2> DEFINE m == CommonLength(FirstMatch, Commands[i])
             spaced == Commands[i] \o <<Space>>
  <2>1. Commands[i] \in Seq(Char) /\ Len(Commands[i]) \in Nat
    BY MatchIs
  <2>2. /\ m \in 0 .. Len(FirstMatch) /\ m <= Len(Commands[i])
        /\ \A k \in 1 .. m : FirstMatch[k] = Commands[i][k]
    BY <1>3, <2>1, CommonLengthIs
  <2>3. n <= m
    BY CommonPrefixIs
  <2>4. /\ spaced \in Seq(Char) /\ Len(spaced) = Len(Commands[i]) + 1
        /\ \A k \in 1 .. Len(Commands[i]) : spaced[k] = Commands[i][k]
    BY SpaceBehind
  <2> HIDE DEF m, spaced, n
  <2>5. ASSUME NEW k \in 1 .. n
        PROVE  spaced[k] = completed[k]
    <3>1. k \in 1 .. m /\ k \in 1 .. Len(Commands[i])
      BY <1>2, <1>3, <2>1, <2>2, <2>3
    <3> QED BY <2>2, <2>4, <3>1 DEF n
  <2>6. n <= Len(spaced)
    BY <1>2, <1>3, <2>1, <2>2, <2>3, <2>4
  <2>7. StartsWith(spaced, completed)
    <3>1. Len(completed) = n
      BY DEF n
    <3> QED BY <2>4, <2>5, <2>6, <3>1, StartsIs
  <2> QED BY <2>7 DEF spaced
<1>7. ASSUME NEW c \in Char, \A i \in Matches(Before) : StartsWith(Commands[i], Append(completed, c))
      PROVE  FALSE
  <2> DEFINE further == Append(completed, c)
  <2>1. PICK j \in Matches(Before) : n = CommonLength(FirstMatch, Commands[j])
    BY CommonPrefixIs
  <2>2. Commands[j] \in Seq(Char) /\ Len(Commands[j]) \in Nat
    BY MatchIs
  <2>3. n < Len(FirstMatch) /\ n < Len(Commands[j]) => FirstMatch[n + 1] # Commands[j][n + 1]
    BY <1>3, <2>1, <2>2, CommonLengthIs
  <2>4. further \in Seq(Char) /\ Len(further) = n + 1 /\ further[n + 1] = c
    BY AppendProperties
  <2> HIDE DEF further, n
  <2>5. n + 1 \in 1 .. Len(further)
    BY <1>2, <2>4
  <2>6. ASSUME NEW i \in Matches(Before)
        PROVE  n + 1 <= Len(Commands[i]) /\ Commands[i][n + 1] = c
    <3>1. Commands[i] \in Seq(Char) /\ StartsWith(Commands[i], further)
      BY <1>7, MatchIs DEF further
    <3> QED BY <2>4, <2>5, <3>1, StartsIs
  <2>7. n + 1 <= Len(FirstMatch) /\ FirstMatch[n + 1] = c
    BY <1>1, <2>6
  <2>8. n + 1 <= Len(Commands[j]) /\ Commands[j][n + 1] = c
    BY <2>6
  <2> QED BY <1>2, <1>3, <2>2, <2>3, <2>7, <2>8
<1> QED BY <1>5, <1>6, <1>7 DEF Keeps, Stops

\* A text behind the position.
LEMMA Joined ==
  ASSUME EditorTypeOK, NEW added \in Seq(Char)
  PROVE  /\ Before \o added \in Seq(Char) /\ Len(Before \o added) = buffer_pos + Len(added)
         /\ \A k \in 1 .. buffer_pos : (Before \o added)[k] = buffer[k]
         /\ \A k \in 1 .. Len(added) : (Before \o added)[buffer_pos + k] = added[k]
<1>1. /\ Before \in Seq(Char) /\ Len(Before) = buffer_pos /\ buffer_pos \in Nat
      /\ \A k \in 1 .. buffer_pos : Before[k] = buffer[k]
      /\ Len(added) \in Nat
  BY Pieces, LenProperties
<1>2. /\ Before \o added \in Seq(Char) /\ Len(Before \o added) = buffer_pos + Len(added)
      /\ \A k \in 1 .. buffer_pos + Len(added) : (Before \o added)[k] =
           IF k <= buffer_pos THEN Before[k] ELSE added[k - buffer_pos]
  BY <1>1, ConcatProperties
<1>3. ASSUME NEW k \in 1 .. buffer_pos
      PROVE  (Before \o added)[k] = buffer[k]
  <2>1. k \in 1 .. buffer_pos + Len(added) /\ k <= buffer_pos
    BY <1>1
  <2> QED BY <1>1, <1>2, <2>1
<1>4. ASSUME NEW k \in 1 .. Len(added)
      PROVE  (Before \o added)[buffer_pos + k] = added[k]
  <2>1. /\ buffer_pos + k \in 1 .. buffer_pos + Len(added) /\ ~(buffer_pos + k <= buffer_pos)
        /\ (buffer_pos + k) - buffer_pos = k
    BY <1>1
  <2> QED BY <1>2, <2>1
<1> QED BY <1>2, <1>3, <1>4

LEMMA SingleKeeps ==
  ASSUME EditorTypeOK, Matches(Before) # {}, \A i, j \in Matches(Before) : i = j
  PROVE  Keeps(Before \o Added)
<1> DEFINE completed == Before \o Added
           n == Len(FirstMatch)
<1>1. PICK f \in Matches(Before) : FirstMatch = Commands[f]
  BY FirstMatchIs
<1>2. /\ FirstMatch \in Seq(Char) /\ n \in Nat /\ buffer_pos <= n /\ buffer_pos \in Nat
      /\ \A k \in 1 .. buffer_pos : FirstMatch[k] = buffer[k]
  BY <1>1, MatchIs, Pieces
<1>3. /\ Added \in Seq(Char) /\ buffer_pos + Len(Added) = n + 1 /\ Len(Added) \in Nat
      /\ \A k \in 1 .. (n - buffer_pos) : Added[k] = FirstMatch[buffer_pos + k]
      /\ Added[n - buffer_pos + 1] = Space
  BY AddedIs
<1>4. /\ completed \in Seq(Char) /\ Len(completed) = n + 1
      /\ \A k \in 1 .. buffer_pos : completed[k] = buffer[k]
      /\ \A k \in 1 .. Len(Added) : completed[buffer_pos + k] = Added[k]
  BY <1>3, Joined
<1>5. /\ Commands[f] \o <<Space>> \in Seq(Char) /\ Len(Commands[f] \o <<Space>>) = n + 1
      /\ \A k \in 1 .. n : (Commands[f] \o <<Space>>)[k] = FirstMatch[k]
      /\ (Commands[f] \o <<Space>>)[n + 1] = Space
  BY <1>1, SpaceBehind
<1> HIDE DEF n, completed
<1>6. ASSUME NEW k \in 1 .. n + 1
      PROVE  completed[k] = (Commands[f] \o <<Space>>)[k]
  <2>1. CASE k <= buffer_pos
    <3>1. k \in 1 .. buffer_pos /\ k \in 1 .. n
      BY <1>2, <2>1
    <3> QED BY <1>2, <1>4, <1>5, <3>1
  <2>2. CASE buffer_pos < k /\ k <= n
    <3>1. /\ k - buffer_pos \in 1 .. (n - buffer_pos) /\ k - buffer_pos \in 1 .. Len(Added)
          /\ buffer_pos + (k - buffer_pos) = k /\ k \in 1 .. n
      BY <1>2, <1>3, <2>2
    <3>2. completed[k] = Added[k - buffer_pos] /\ Added[k - buffer_pos] = FirstMatch[k]
      BY <1>3, <1>4, <3>1
    <3> QED BY <1>5, <3>1, <3>2
  <2>3. CASE k = n + 1
    <3>1. /\ n - buffer_pos + 1 \in 1 .. Len(Added) /\ buffer_pos + (n - buffer_pos + 1) = k
      BY <1>2, <1>3, <2>3
    <3> QED BY <1>3, <1>4, <1>5, <2>3, <3>1
  <2>4. k <= buffer_pos \/ (buffer_pos < k /\ k <= n) \/ k = n + 1
    BY <1>2
  <2> QED BY <2>1, <2>2, <2>3, <2>4
<1>7. completed = Commands[f] \o <<Space>>
  BY <1>4, <1>5, <1>6, SeqEqual
<1>8. \A i \in Matches(Before) : StartsWith(Commands[i] \o <<Space>>, completed)
  <2>1. StartsWith(completed, completed)
    BY <1>4, StartsIs, LenProperties
  <2> QED BY <1>7, <2>1
<1>9. StartsWith(completed, Before)
  <2>1. /\ Before \in Seq(Char) /\ Len(Before) = buffer_pos
        /\ \A k \in 1 .. buffer_pos : Before[k] = buffer[k]
    BY Pieces
  <2>2. Len(Before) <= Len(completed) /\ \A k \in 1 .. Len(Before) : completed[k] = Before[k]
    BY <1>2, <1>4, <2>1
  <2> QED BY <1>4, <2>1, <2>2, StartsIs
<1> QED BY <1>8, <1>9 DEF Keeps, completed

LEMMA PartialKeeps ==
  ASSUME EditorTypeOK, Matches(Before) # {}, CommonPrefix > buffer_pos
  PROVE  Keeps(Before \o AddedPart) /\ Stops(Before \o AddedPart)
<1> DEFINE completed == Before \o AddedPart
           n == CommonPrefix
<1>1. /\ n \in Nat /\ buffer_pos \in Nat /\ n <= Len(FirstMatch)
      /\ \A k \in 1 .. buffer_pos : FirstMatch[k] = buffer[k]
  BY CommonPrefixIs, FirstMatchIs, MatchIs, Pieces
<1>2. /\ AddedPart \in Seq(Char) /\ buffer_pos + Len(AddedPart) = n /\ Len(AddedPart) \in Nat
      /\ \A k \in 1 .. (n - buffer_pos) : AddedPart[k] = FirstMatch[buffer_pos + k]
  BY AddedPartIs
<1>3. /\ completed \in Seq(Char) /\ Len(completed) = n
      /\ \A k \in 1 .. buffer_pos : completed[k] = buffer[k]
      /\ \A k \in 1 .. Len(AddedPart) : completed[buffer_pos + k] = AddedPart[k]
  BY <1>2, Joined
<1> HIDE DEF completed
<1>4. ASSUME NEW k \in 1 .. n
      PROVE  completed[k] = FirstMatch[k]
  <2>1. CASE k <= buffer_pos
    BY <1>1, <1>3, <2>1
  <2>2. CASE buffer_pos < k
    <3>1. /\ k - buffer_pos \in 1 .. (n - buffer_pos) /\ k - buffer_pos \in 1 .. Len(AddedPart)
          /\ buffer_pos + (k - buffer_pos) = k
      BY <1>1, <1>2, <2>2
    <3> QED BY <1>2, <1>3, <3>1
  <2> QED BY <1>1, <2>1, <2>2
<1>5. n >= buffer_pos
  BY <1>1
<1>6. Keeps(completed) /\ Stops(completed)
  BY <1>3, <1>4, <1>5, CommonKeeps
<1> QED BY <1>6 DEF completed

LEMMA ListingKeeps ==
  ASSUME EditorTypeOK, Matches(Before) # {}, CommonPrefix <= buffer_pos
  PROVE  Keeps(Before) /\ Stops(Before)
<1>1. PICK j \in Matches(Before) : CommonPrefix = CommonLength(FirstMatch, Commands[j])
  BY CommonPrefixIs
<1>2. /\ FirstMatch \in Seq(Char) /\ Len(FirstMatch) \in Nat /\ buffer_pos <= Len(FirstMatch)
      /\ \A k \in 1 .. buffer_pos : FirstMatch[k] = buffer[k]
  BY FirstMatchIs, MatchIs
<1>3. /\ Commands[j] \in Seq(Char) /\ Len(Commands[j]) \in Nat /\ buffer_pos <= Len(Commands[j])
      /\ \A k \in 1 .. buffer_pos : Commands[j][k] = buffer[k]
  BY MatchIs
<1>4. CommonPrefix \in Nat /\ buffer_pos \in Nat
  BY CommonPrefixIs, Pieces
<1>5. ~(CommonPrefix < buffer_pos)
  <2> SUFFICES ASSUME CommonPrefix < buffer_pos
               PROVE  FALSE
    OBVIOUS
  <2>1. /\ CommonPrefix < Len(FirstMatch) /\ CommonPrefix < Len(Commands[j])
        /\ CommonPrefix + 1 \in 1 .. buffer_pos
    BY <1>2, <1>3, <1>4
  <2>2. FirstMatch[CommonPrefix + 1] # Commands[j][CommonPrefix + 1]
    BY <1>1, <1>2, <1>3, <2>1, CommonLengthIs
  <2> QED BY <1>2, <1>3, <2>1, <2>2
<1>6. CommonPrefix = buffer_pos /\ CommonPrefix >= buffer_pos
  BY <1>4, <1>5
<1>7. /\ Before \in Seq(Char) /\ Len(Before) = CommonPrefix
      /\ \A k \in 1 .. CommonPrefix : Before[k] = FirstMatch[k]
  BY <1>2, <1>6, Pieces
<1> QED BY <1>6, <1>7, CommonKeeps

LEMMA TabCompletes ==
  ASSUME EditorNext, key' = "tab"
  PROVE  Complete
BY DEF EditorNext

LEMMA CompletionKeeps ==
  ASSUME EditorInv, Complete
  PROVE  /\ Keeps(SubSeq(buffer', 1, buffer_pos'))
         /\ ~(\A i, j \in Matches(Before) : i = j) => Stops(SubSeq(buffer', 1, buffer_pos'))
<1> DEFINE completed == SubSeq(buffer', 1, buffer_pos')
<1>1. /\ EditorTypeOK /\ Matches(Before) # {}
      /\ \/ Single /\ \A i, j \in Matches(Before) : i = j
         \/ Partial \/ Listing
  BY CompleteIs DEF EditorInv
<1>2. ASSUME NEW added \in Seq(Char), InsertCompletion(added)
      PROVE  completed = Before \o added
  <2>1. Before \o added \in Seq(Char) /\ Len(Before \o added) = buffer_pos + Len(added)
    BY <1>1, Joined
  <2>2. SubSeq(Before \o added, 1, Len(Before \o added)) = Before \o added
    BY <2>1, SubSeqFull
  <2> QED BY <1>2, <2>1, <2>2 DEF InsertCompletion
<1>3. CASE Single /\ \A i, j \in Matches(Before) : i = j
  <2>1. completed = Before \o Added
    BY <1>1, <1>2, <1>3, AddedIs DEF Single
  <2>2. Keeps(Before \o Added)
    BY <1>1, <1>3, SingleKeeps
  <2> QED BY <1>3, <2>1, <2>2
<1>4. CASE Partial
  <2>1. CommonPrefix > buffer_pos /\ completed = Before \o AddedPart
    BY <1>1, <1>2, <1>4, AddedPartIs DEF Partial
  <2> QED BY <1>1, <2>1, PartialKeeps
<1>5. CASE Listing
  <2>1. CommonPrefix <= buffer_pos /\ completed = Before
    BY <1>5 DEF Listing, Before
  <2> QED BY <1>1, <2>1, ListingKeeps
<1> QED BY <1>1, <1>3, <1>4, <1>5

\* A completion keeps what was typed, rules out no command that it could become,
\* and stops only where these differ.
THEOREM CompletionKeepsChoicesCorrect == EditorSpec => CompletionKeepsChoices
<1> DEFINE completed == SubSeq(buffer', 1, buffer_pos')
           choices == {Commands[i] : i \in Matches(Before)}
<1>1. EditorInv /\ [EditorNext]_shellVars =>
        [key' = "tab" /\ Matches(Before) # {} =>
           /\ StartsWith(completed, Before)
           /\ \A cmd \in choices : StartsWith(cmd \o <<Space>>, completed)
           /\ Cardinality(choices) > 1 =>
                ~\E c \in Char : \A cmd \in choices : StartsWith(cmd, Append(completed, c))]_shellVars
  <2> SUFFICES ASSUME EditorInv, EditorNext, key' = "tab"
               PROVE  /\ StartsWith(completed, Before)
                      /\ \A cmd \in choices : StartsWith(cmd \o <<Space>>, completed)
                      /\ Cardinality(choices) > 1 =>
                           ~\E c \in Char : \A cmd \in choices : StartsWith(cmd, Append(completed, c))
    OBVIOUS
  <2>1. Complete
    BY TabCompletes
  <2>2. /\ Keeps(completed)
        /\ ~(\A i, j \in Matches(Before) : i = j) => Stops(completed)
    BY <2>1, CompletionKeeps
  <2> HIDE DEF completed
  <2>3. ASSUME \A i, j \in Matches(Before) : i = j
        PROVE  ~(Cardinality(choices) > 1)
    <3>1. PICK i \in Matches(Before) : TRUE
      BY <2>1, CompleteIs
    <3>2. choices = {Commands[i]}
      BY <2>3, <3>1
    <3>3. Cardinality(choices) = 1
      BY <3>2, FS_Singleton
    <3> QED BY <3>3
  <2>4. ASSUME Stops(completed)
        PROVE  ~\E c \in Char : \A cmd \in choices : StartsWith(cmd, Append(completed, c))
    BY <2>4 DEF Stops
  <2>5. StartsWith(completed, Before) /\ \A cmd \in choices : StartsWith(cmd \o <<Space>>, completed)
    BY <2>2 DEF Keeps
  <2> QED BY <2>2, <2>3, <2>4, <2>5
<1> QED BY <1>1, EditorInvariant, PTL DEF EditorSpec, CompletionKeepsChoices

-----------------------------------------------------------------------------
\* The screen shows the line.

\* A cell of a line drawn at the prompt.
Shown(text, k) == IF k < Len(text) THEN text[k + 1] ELSE Space

LEMMA CellIs ==
  ASSUME NEW k \in Cells
  PROVE  /\ k \in Nat
         /\ \A on, text : \A at \in Nat : Len(text) \in Nat =>
              Drawn(on, at, text)[k] =
                IF at <= k /\ k < at + Len(text) THEN text[k - at + 1] ELSE on[k]
         /\ \A on : \A at, n \in Nat :
              Erased(on, at, n)[k] = IF at - n <= k /\ k < at THEN Space ELSE on[k]
         /\ \A text : Len(text) \in Nat => Drawn(BlankCells, 0, text)[k] = Shown(text, k)
<1>1. k \in Nat
  BY Room DEF Cells
<1>2. ASSUME NEW on, NEW text, NEW at \in Nat, Len(text) \in Nat
      PROVE  Drawn(on, at, text)[k] =
               IF at <= k /\ k < at + Len(text) THEN text[k - at + 1] ELSE on[k]
  <2>1. k \in at .. (at + Len(text) - 1) <=> at <= k /\ k < at + Len(text)
    BY <1>1, <1>2
  <2> QED BY <2>1 DEF Drawn
<1>3. ASSUME NEW on, NEW at \in Nat, NEW n \in Nat
      PROVE  Erased(on, at, n)[k] = IF at - n <= k /\ k < at THEN Space ELSE on[k]
  <2>1. k \in (at - n) .. (at - 1) <=> at - n <= k /\ k < at
    BY <1>1
  <2> QED BY <2>1 DEF Erased
<1>4. ASSUME NEW text, Len(text) \in Nat
      PROVE  Drawn(BlankCells, 0, text)[k] = Shown(text, k)
  <2>1. 0 \in Nat /\ BlankCells[k] = Space
    BY DEF BlankCells
  <2>2. Drawn(BlankCells, 0, text)[k] =
          IF 0 <= k /\ k < 0 + Len(text) THEN text[k - 0 + 1] ELSE BlankCells[k]
    BY <1>2, <1>4, <2>1
  <2>3. 0 <= k /\ k - 0 + 1 = k + 1 /\ 0 + Len(text) = Len(text)
    BY <1>1, <1>4
  <2> QED BY <2>1, <2>2, <2>3 DEF Shown
<1> QED BY <1>1, <1>2, <1>3, <1>4

\* LineShown, or InSync: what stands behind the line is blank too.
Sync(blank) ==
  /\ column = buffer_pos
  /\ \A k \in Cells : k < Len(buffer) \/ blank => cells[k] = Shown(buffer, k)

LEMMA SyncFrom ==
  ASSUME NEW blank \in BOOLEAN, column' = buffer_pos',
         \A k \in Cells : k < Len(buffer') \/ blank => cells'[k] = Shown(buffer', k)
  PROVE  Sync(blank)'
BY DEF Sync, Cells, Shown

\* The line's cells lie on the screen.
LEMMA LineCells ==
  ASSUME NEW text \in Seq(Char), Len(text) < BufferSize
  PROVE  /\ Len(text) \in Nat /\ \A k \in DOMAIN text : k - 1 \in Cells /\ k - 1 < Len(text)
         /\ \A k \in Cells : k < Len(text) => k + 1 \in DOMAIN text
<1>1. Len(text) \in Nat /\ DOMAIN text = 1 .. Len(text)
  BY LenProperties
<1>2. ASSUME NEW k \in DOMAIN text
      PROVE  k - 1 \in 0 .. (2 * BufferSize) /\ k - 1 < Len(text)
  BY <1>1, <1>2, Room
<1>3. ASSUME NEW k \in Cells, k < Len(text)
      PROVE  k + 1 \in 1 .. Len(text)
  <2>1. k \in Nat
    BY <1>3, CellIs
  <2> QED BY <1>1, <1>3, <2>1
<1> QED BY <1>1, <1>2, <1>3 DEF Cells

LEMMA SyncIs ==
  ASSUME EditorTypeOK
  PROVE  (Sync(FALSE) <=> LineShown) /\ (Sync(TRUE) <=> InSync)
<1>1. buffer \in Seq(Char) /\ Len(buffer) < BufferSize
  BY DEF EditorTypeOK
<1>2. /\ Len(buffer) \in Nat /\ \A k \in DOMAIN buffer : k - 1 \in Cells /\ k - 1 < Len(buffer)
      /\ \A k \in Cells : k \in Nat /\ (k < Len(buffer) => k + 1 \in DOMAIN buffer)
      /\ \A k \in DOMAIN buffer : k \in Nat
  <2>1. \A k \in Cells : k \in Nat
    BY CellIs
  <2>2. \A k \in DOMAIN buffer : k \in Nat
    BY <1>1, LenProperties
  <2> QED BY <1>1, <2>1, <2>2, LineCells
<1>3. ASSUME \A k \in Cells : k < Len(buffer) => cells[k] = buffer[k + 1],
             NEW k \in DOMAIN buffer
      PROVE  cells[k - 1] = buffer[k]
  <2>1. (k - 1) + 1 = k
    BY <1>2
  <2>2. cells[k - 1] = buffer[(k - 1) + 1]
    BY <1>2, <1>3
  <2> QED BY <2>1, <2>2
<1>4. ASSUME \A k \in DOMAIN buffer : cells[k - 1] = buffer[k],
             NEW k \in Cells, k < Len(buffer)
      PROVE  cells[k] = buffer[k + 1]
  <2>1. (k + 1) - 1 = k /\ k + 1 \in DOMAIN buffer
    BY <1>2, <1>4
  <2>2. cells[(k + 1) - 1] = buffer[k + 1]
    BY <1>4, <2>1
  <2> QED BY <2>1, <2>2
<1>5. (\A k \in Cells : k < Len(buffer) => cells[k] = buffer[k + 1])
        <=> \A k \in DOMAIN buffer : cells[k - 1] = buffer[k]
  BY <1>3, <1>4
<1>6. \A k \in Cells : k >= Len(buffer) <=> ~(k < Len(buffer))
  BY <1>2
<1>7. Sync(FALSE) <=> LineShown
  BY <1>5 DEF Sync, Shown, LineShown
<1>8. Sync(TRUE) <=> InSync
  BY <1>5, <1>6 DEF Sync, Shown, LineShown, InSync
<1> QED BY <1>7, <1>8

LEMMA SyncIsNext ==
  ASSUME EditorTypeOK'
  PROVE  (Sync(FALSE)' <=> LineShown') /\ (Sync(TRUE)' <=> InSync')
BY SyncIs, PTL

\* A text that is drawn at the cursor and joins the line there.
LEMMA SyncDrawn ==
  ASSUME EditorInv, NEW blank \in BOOLEAN, Sync(blank), NEW added \in Seq(Char),
         Len(buffer) <= buffer_pos + Len(added),
         buffer' = Before \o added, cells' = Drawn(cells, column, added),
         column' = buffer_pos'
  PROVE  Sync(blank)'
<1>1. /\ buffer_pos \in Nat /\ Len(added) \in Nat /\ Len(buffer) \in Nat
      /\ buffer_pos <= Len(buffer)
  BY Pieces, LenProperties DEF EditorInv
<1>2. /\ Len(Before \o added) = buffer_pos + Len(added)
      /\ \A k \in 1 .. buffer_pos : (Before \o added)[k] = buffer[k]
      /\ \A k \in 1 .. Len(added) : (Before \o added)[buffer_pos + k] = added[k]
  BY Joined DEF EditorInv
<1>3. /\ column = buffer_pos
      /\ \A k \in Cells : k < Len(buffer) \/ blank => cells[k] = Shown(buffer, k)
  BY DEF Sync
<1> DEFINE text == Before \o added
<1> HIDE DEF text
<1>4. ASSUME NEW k \in Cells, k < Len(text) \/ blank
      PROVE  cells'[k] = Shown(text, k)
  <2>1. k \in Nat /\ column \in Nat
    BY <1>1, <1>3, CellIs
  <2>2. cells'[k] =
          IF buffer_pos <= k /\ k < buffer_pos + Len(added) THEN added[k - buffer_pos + 1] ELSE cells[k]
    BY <1>1, <1>3, CellIs
  <2>3. CASE k < buffer_pos
    <3>1. k + 1 \in 1 .. buffer_pos /\ k < Len(buffer) /\ k < Len(text) /\ ~(buffer_pos <= k)
      BY <1>1, <1>2, <2>1, <2>3 DEF text
    <3>2. text[k + 1] = buffer[k + 1] /\ cells[k] = buffer[k + 1]
      BY <1>2, <1>3, <3>1 DEF Shown, text
    <3> QED BY <2>2, <3>1, <3>2 DEF Shown
  <2>4. CASE buffer_pos <= k /\ k < buffer_pos + Len(added)
    <3>1. /\ k - buffer_pos + 1 \in 1 .. Len(added) /\ k < Len(text)
          /\ buffer_pos + (k - buffer_pos + 1) = k + 1
      BY <1>1, <1>2, <2>1, <2>4 DEF text
    <3>2. text[buffer_pos + (k - buffer_pos + 1)] = added[k - buffer_pos + 1]
      BY <1>2, <3>1 DEF text
    <3> QED BY <2>2, <2>4, <3>1, <3>2 DEF Shown
  <2>5. CASE buffer_pos + Len(added) <= k
    <3>1. ~(k < Len(text)) /\ ~(k < Len(buffer)) /\ ~(k < buffer_pos + Len(added))
      BY <1>1, <1>2, <2>1, <2>5 DEF text
    <3> QED BY <1>3, <1>4, <2>2, <3>1 DEF Shown
  <2> QED BY <1>1, <2>1, <2>3, <2>4, <2>5
<1>5. \A k \in Cells : k < Len(buffer') \/ blank => cells'[k] = Shown(buffer', k)
  BY <1>4 DEF text
<1> QED BY <1>5, SyncFrom

LEMMA InsertSync ==
  ASSUME EditorInv, NEW blank \in BOOLEAN, Sync(blank), NEW c \in Char, Insert(c)
  PROVE  Sync(blank)'
<1> DEFINE inserted == <<c>> \o After
<1>2. /\ After \in Seq(Char) /\ Before \in Seq(Char) /\ inserted \in Seq(Char) /\ <<c>> \in Seq(Char)
      /\ Len(inserted) = 1 + Len(After) /\ Len(After) = Len(buffer) - buffer_pos
      /\ Len(buffer) \in Nat /\ buffer_pos \in Nat /\ Len(After) \in Nat /\ column \in Nat
  BY Pieces, OneMore DEF EditorInv
<1>3. buffer' = Before \o inserted
  <2>1. buffer' = (Before \o <<c>>) \o After
    BY DEF Insert
  <2>2. (Before \o <<c>>) \o After = Before \o (<<c>> \o After)
    BY <1>2, ConcatAssociative
  <2> QED BY <2>1, <2>2
<1>4. cells' = Drawn(cells, column, inserted) /\ column' = (column + 1 + Len(After)) - Len(After)
      /\ buffer_pos' = buffer_pos + 1
  <2>1. column' = (column + 1 + Len(After)) - Len(After)
    BY DEF Insert, MovedBack
  <2> QED BY <2>1 DEF Insert
<1> HIDE DEF inserted
<1>5. column' = buffer_pos' /\ Len(buffer) <= buffer_pos + Len(inserted)
  BY <1>2, <1>4 DEF Sync
<1> QED BY <1>2, <1>3, <1>4, <1>5, SyncDrawn

\* A line drawn behind a prompt below the cursor: nothing stands behind it if the
\* old one ended before that row.
LEMMA PromptSync ==
  ASSUME EditorInv, NEW blank \in BOOLEAN, Sync(blank), blank => Len(buffer) <= NextRow,
         NEW o \in Output, NEW line \in Seq(Char), Prompt(o, Below(o), line),
         buffer' = line, buffer_pos' = Len(line)
  PROVE  Sync(blank)'
<1>1. /\ Len(line) \in Nat /\ Len(buffer) \in Nat /\ NextRow \in Nat /\ o \in Nat /\ 0 \in Nat
      /\ EditorTypeOK
  BY Pieces, LenProperties, RowBelow, Room DEF EditorInv
<1>2. cells' = Drawn(Below(o), 0, line) /\ column' = Len(line)
  BY DEF Prompt
<1>3. ASSUME NEW k \in Cells, k < Len(line) \/ blank
      PROVE  cells'[k] = Shown(line, k)
  <2>1. k \in Nat
    BY CellIs
  <2>2. cells'[k] = IF 0 <= k /\ k < 0 + Len(line) THEN line[k - 0 + 1] ELSE Below(o)[k]
    BY <1>1, <1>2, CellIs
  <2>3. 0 <= k /\ k - 0 + 1 = k + 1 /\ 0 + Len(line) = Len(line)
    BY <1>1, <2>1
  <2>4. CASE k < Len(line)
    BY <2>2, <2>3, <2>4 DEF Shown
  <2>5. CASE ~(k < Len(line))
    <3> DEFINE j == k + NextRow + o
    <3>1. ~(j < Len(buffer))
      BY <1>1, <1>3, <2>1, <2>5
    <3>2. Below(o)[k] = IF j \in Cells THEN cells[j] ELSE Space
      BY <1>1, BelowIs
    <3> HIDE DEF j
    <3>3. Below(o)[k] = Space
      BY <1>3, <2>5, <3>1, <3>2 DEF Sync, Shown
    <3> QED BY <2>2, <2>3, <2>5, <3>3 DEF Shown
  <2> QED BY <2>4, <2>5
<1> QED BY <1>2, <1>3, SyncFrom

LEMMA CompleteSync ==
  ASSUME EditorInv, NEW blank \in BOOLEAN, Sync(blank), Complete, ~(buffer_pos < Len(buffer))
  PROVE  Sync(blank)'
<1>2. /\ buffer_pos = Len(buffer) /\ column = buffer_pos /\ Len(buffer) \in Nat
      /\ EditorTypeOK /\ Matches(Before) # {} /\ (Single \/ Partial \/ Listing)
  BY Pieces, CompleteIs DEF EditorInv, Sync
<1>3. ASSUME NEW added \in Seq(Char), InsertCompletion(added)
      PROVE  Sync(blank)'
  <2>1. Len(added) \in Nat
    BY LenProperties
  <2>2. /\ buffer' = Before \o added /\ buffer_pos' = buffer_pos + Len(added)
        /\ cells' = Drawn(cells, column, added) /\ column' = column + Len(added)
    BY <1>3 DEF InsertCompletion
  <2>3. Len(buffer) <= buffer_pos + Len(added) /\ column' = buffer_pos'
    BY <1>2, <2>1, <2>2
  <2> QED BY <2>2, <2>3, SyncDrawn
<1>4. CASE Single
  BY <1>2, <1>3, <1>4, AddedIs DEF Single
<1>5. CASE Partial
  BY <1>2, <1>3, <1>5, AddedPartIs DEF Partial
<1>6. CASE Listing
  <2>1. buffer' = buffer /\ buffer_pos' = buffer_pos
    BY <1>6 DEF Listing
  <2>2. PICK o \in Output : Prompt(o, Below(o), buffer)
    BY <1>6 DEF Listing
  <2>3. Len(buffer) <= NextRow
    BY <1>2, RowBelow
  <2>4. buffer \in Seq(Char) /\ buffer_pos' = Len(buffer)
    BY <1>2, <2>1 DEF EditorTypeOK
  <2> QED BY <2>1, <2>2, <2>3, <2>4, PromptSync
<1> QED BY <1>2, <1>4, <1>5, <1>6

\* A prompt on a cleared screen.
LEMMA FreshSync ==
  ASSUME NEW blank \in BOOLEAN, EmptyBuffer, NEW o, Prompt(o, BlankCells, << >>)
  PROVE  Sync(blank)'
<1>1. buffer' = << >> /\ buffer_pos' = 0 /\ column' = 0 /\ cells' = Drawn(BlankCells, 0, << >>)
  BY EmptyLine DEF EmptyBuffer, Prompt
<1>2. \A k \in Cells : cells'[k] = Shown(buffer', k)
  BY <1>1, CellIs, EmptyLine
<1> QED BY <1>1, <1>2, SyncFrom

\* Enter: only a tail below the cursor's row may stay.
LEMMA EnterSync ==
  ASSUME EditorInv, NEW blank \in BOOLEAN, Sync(blank), blank => Len(buffer) <= NextRow, Enter
  PROVE  Sync(blank)'
<1>1. EmptyBuffer /\ buffer' = << >> /\ buffer_pos' = Len(<< >>) /\ << >> \in Seq(Char)
  BY EmptyLine DEF Enter, EmptyBuffer
<1>2. PICK o \in Output : Prompt(o, Below(o), << >>) \/ Prompt(o, BlankCells, << >>)
  BY DEF Enter
<1> QED BY <1>1, <1>2, PromptSync, FreshSync

LEMMA BackspaceSync ==
  ASSUME EditorInv, NEW blank \in BOOLEAN, Sync(blank), Backspace
  PROVE  Sync(blank)'
<1> DEFINE kept == SubSeq(buffer, 1, buffer_pos - 1)
           tail == After \o <<Space>>
           text == kept \o After
           n == Len(buffer)
           p == buffer_pos
<1>2. /\ buffer' = text /\ p > 0 /\ buffer_pos' = p - 1
      /\ cells' = Drawn(Erased(cells, column, 1), column - 1, tail)
      /\ column' = (column + Len(After)) - (Len(After) + 1)
  BY DEF Backspace, MovedBack
<1>3. /\ buffer \in Seq(Char) /\ n \in Nat /\ p \in 0 .. n /\ p \in Nat
      /\ After \in Seq(Char) /\ Len(After) = n - p
      /\ \A i \in 1 .. (n - p) : After[i] = buffer[p + i]
  BY Pieces DEF EditorInv
<1>4. column = p /\ \A k \in Cells : k < n \/ blank => cells[k] = Shown(buffer, k)
  BY DEF Sync
<1>5. kept \in Seq(Char) /\ Len(kept) = p - 1 /\ \A i \in 1 .. (p - 1) : kept[i] = buffer[i]
  <2>1. p - 1 \in 0 .. n
    BY <1>2, <1>3
  <2> QED BY <1>3, <2>1, PrefixIs
<1>6. /\ <<Space>> \in Seq(Char) /\ Len(<<Space>>) = 1 /\ <<Space>>[1] = Space
  BY Room, OneMore, EmptyLine
<1> HIDE DEF kept
<1>7. /\ Len(tail) = n - p + 1
      /\ \A i \in 1 .. (n - p + 1) : tail[i] = IF i <= n - p THEN After[i] ELSE <<Space>>[i - (n - p)]
  <2>1. /\ Len(tail) = Len(After) + Len(<<Space>>)
        /\ \A i \in 1 .. (Len(After) + Len(<<Space>>)) :
             tail[i] = IF i <= Len(After) THEN After[i] ELSE <<Space>>[i - Len(After)]
    BY <1>3, <1>6, ConcatProperties
  <2>2. Len(After) + Len(<<Space>>) = n - p + 1
    BY <1>3, <1>6
  <2> HIDE DEF tail
  <2> QED BY <1>3, <2>1, <2>2
<1>8. /\ text \in Seq(Char) /\ Len(text) = n - 1
      /\ \A i \in 1 .. (n - 1) : text[i] = IF i <= p - 1 THEN kept[i] ELSE After[i - (p - 1)]
  <2>1. (p - 1) + (n - p) = n - 1
    BY <1>3
  <2>2. /\ text \in Seq(Char) /\ Len(text) = Len(kept) + Len(After)
        /\ \A i \in 1 .. (Len(kept) + Len(After)) :
             text[i] = IF i <= Len(kept) THEN kept[i] ELSE After[i - Len(kept)]
    BY <1>3, <1>5, ConcatProperties
  <2> QED BY <1>3, <1>5, <2>1, <2>2
<1>9. tail[n - p + 1] = Space
  <2>1. n - p + 1 \in 1 .. (n - p + 1) /\ ~(n - p + 1 <= n - p) /\ (n - p + 1) - (n - p) = 1
    BY <1>3
  <2> QED BY <1>6, <1>7, <2>1
<1> HIDE DEF tail, text, n, p
<1>10. ASSUME NEW k \in Cells, k < Len(text) \/ blank
       PROVE  cells'[k] = Shown(text, k)
  <2> DEFINE erased == Erased(cells, p, 1)
  <2>1. k \in Nat /\ p \in Nat /\ 1 \in Nat /\ p - 1 \in Nat /\ Len(tail) \in Nat
    BY <1>2, <1>3, <1>7, CellIs
  <2>2. erased[k] = IF p - 1 <= k /\ k < p THEN Space ELSE cells[k]
    BY <2>1, CellIs
  <2>3. cells' = Drawn(erased, p - 1, tail)
    BY <1>2, <1>4
  <2> HIDE DEF erased
  <2>4. cells'[k] =
          IF p - 1 <= k /\ k < (p - 1) + Len(tail) THEN tail[k - (p - 1) + 1] ELSE erased[k]
    BY <2>1, <2>3, CellIs
  <2>5. (p - 1) + Len(tail) = n
    BY <1>3, <1>7
  <2>6. k < n \/ blank => cells[k] = IF k < n THEN buffer[k + 1] ELSE Space
    BY <1>4 DEF Shown, n
  <2>7. CASE k < p - 1
    <3>1. /\ k + 1 \in 1 .. (p - 1) /\ k + 1 \in 1 .. (n - 1) /\ k + 1 <= p - 1
          /\ k < n /\ k < n - 1 /\ ~(p - 1 <= k)
      BY <1>3, <2>1, <2>7
    <3>2. text[k + 1] = kept[k + 1] /\ kept[k + 1] = buffer[k + 1]
      BY <1>5, <1>8, <3>1
    <3> QED BY <1>8, <2>2, <2>4, <2>6, <3>1, <3>2 DEF Shown
  <2>8. CASE p - 1 <= k /\ k < n - 1
    <3> DEFINE i == k - (p - 1) + 1
    <3>1. /\ i \in 1 .. (n - p + 1) /\ i <= n - p
          /\ k + 1 \in 1 .. (n - 1) /\ ~(k + 1 <= p - 1) /\ (k + 1) - (p - 1) = i /\ k < n
      BY <1>3, <2>1, <2>8
    <3> HIDE DEF i
    <3>2. text[k + 1] = After[i] /\ tail[i] = After[i]
      BY <1>7, <1>8, <3>1
    <3>3. cells'[k] = tail[i]
      BY <2>4, <2>5, <2>8, <3>1 DEF i
    <3> QED BY <1>8, <2>8, <3>2, <3>3 DEF Shown
  <2>9. CASE k = n - 1
    <3>1. p - 1 <= k /\ k < n /\ k - (p - 1) + 1 = n - p + 1 /\ ~(k < n - 1)
      BY <1>3, <2>1, <2>9
    <3>2. cells'[k] = Space
      BY <1>9, <2>4, <2>5, <3>1
    <3> QED BY <1>8, <3>1, <3>2 DEF Shown
  <2>10. CASE n <= k
    <3>1. ~(k < n) /\ ~(k < p) /\ ~(k < n - 1)
      BY <1>3, <2>1, <2>10
    <3> QED BY <1>8, <1>10, <2>2, <2>4, <2>5, <2>6, <3>1 DEF Shown
  <2>11. k < p - 1 \/ (p - 1 <= k /\ k < n - 1) \/ k = n - 1 \/ n <= k
    BY <1>3, <2>1
  <2> QED BY <2>7, <2>8, <2>9, <2>10, <2>11
<1>11. \A k \in Cells : k < Len(buffer') \/ blank => cells'[k] = Shown(buffer', k)
  BY <1>2, <1>10
<1>12. column' = buffer_pos'
  BY <1>2, <1>3, <1>4
<1> QED BY <1>11, <1>12, SyncFrom

LEMMA ShowSync ==
  ASSUME EditorInv, NEW blank \in BOOLEAN, Sync(blank), HistoryTypeOK', ShowCurrent
  PROVE  Sync(blank)'
<1> DEFINE text == Copied(CurrentCommand', BufferSize)
           start == column - buffer_pos
           n == Len(buffer)
<1>2. /\ buffer' = text /\ buffer_pos' = Len(text) /\ column' = start + Len(text)
      /\ cells' = Drawn(Erased(cells, start + n, n), start, text)
  BY DEF ShowCurrent
<1>3. n \in Nat /\ buffer_pos \in Nat /\ Len(text) \in Nat
  <2>1. BufferSize \in Nat \ {0}
    BY Room
  <2> QED BY <2>1, CurrentIs, CopiedIs, Pieces DEF EditorInv
<1>4. column = buffer_pos /\ \A k \in Cells : k < n \/ blank => cells[k] = Shown(buffer, k)
  BY DEF Sync
<1>5. start = 0 /\ start + n = n
  BY <1>3, <1>4
<1> HIDE DEF text, start
<1>6. ASSUME NEW k \in Cells, k < Len(text) \/ blank
      PROVE  cells'[k] = Shown(text, k)
  <2> DEFINE erased == Erased(cells, n, n)
  <2>1. k \in Nat /\ 0 \in Nat
    BY CellIs
  <2>2. erased[k] = IF n - n <= k /\ k < n THEN Space ELSE cells[k]
    BY <1>3, CellIs
  <2>3. cells' = Drawn(erased, 0, text)
    BY <1>2, <1>5
  <2> HIDE DEF erased
  <2>4. cells'[k] = IF 0 <= k /\ k < 0 + Len(text) THEN text[k - 0 + 1] ELSE erased[k]
    BY <1>3, <2>1, <2>3, CellIs
  <2>5. n - n <= k /\ 0 <= k /\ k - 0 + 1 = k + 1 /\ 0 + Len(text) = Len(text)
    BY <1>3, <2>1
  <2>6. ~(k < Len(text)) => erased[k] = Space
    BY <1>4, <1>6, <2>2, <2>5 DEF Shown
  <2> QED BY <2>4, <2>5, <2>6 DEF Shown
<1>7. \A k \in Cells : k < Len(buffer') \/ blank => cells'[k] = Shown(buffer', k)
  BY <1>2, <1>6
<1>8. column' = buffer_pos'
  BY <1>2, <1>3, <1>5
<1> QED BY <1>7, <1>8, SyncFrom

LEMMA ArrowSync ==
  ASSUME EditorInv, NEW blank \in BOOLEAN, Sync(blank), Left \/ Right
  PROVE  Sync(blank)'
<1>1. /\ buffer' = buffer /\ cells' = cells
      /\ \/ buffer_pos' = buffer_pos - 1 /\ column' = column - 1
         \/ buffer_pos' = buffer_pos + 1 /\ column' = column + 1
  BY DEF Left, Right, MovedBack
<1> QED BY <1>1 DEF Sync, Cells, Shown

\* Every operation but a completion in the middle of a line leaves the line on the
\* screen, and nothing behind it unless Enter leaves a tail below the cursor's row.
THEOREM EchoCorrect == EditorSpec => Echo
<1> DEFINE Echoes ==
      ~(key' = "tab" /\ buffer_pos < Len(buffer)) =>
        /\ LineShown => LineShown'
        /\ InSync /\ ~(key' = "enter" /\ NextRow < Len(buffer)) => InSync'
<1>1. ASSUME EditorInv, EditorNext, ~(key' = "tab" /\ buffer_pos < Len(buffer)),
             NEW blank \in BOOLEAN, Sync(blank),
             blank => ~(key' = "enter" /\ NextRow < Len(buffer))
      PROVE  Sync(blank)'
  <2>1. buffer \in Seq(Char) /\ HistoryTypeOK /\ EditorTypeOK /\ Len(buffer) \in Nat
    BY <1>1, LenProperties DEF EditorInv, EditorTypeOK
  <2>2. CASE Drop
    BY <1>1, <2>2 DEF Drop, editorVars, Sync, Cells, Shown
  <2>3. CASE \E c \in Keys : Insert(c)
    BY <1>1, <2>3, InsertSync, EditorConstants DEF EditorConstants
  <2>4. CASE Backspace
    BY <1>1, <2>4, BackspaceSync
  <2>5. CASE key' = "enter" /\ Enter
    <3>1. blank => Len(buffer) <= NextRow
      BY <1>1, <2>1, <2>5, RowBelow
    <3> QED BY <1>1, <2>5, <3>1, EnterSync
  <2>6. CASE ClearScreen
    BY <2>6, FreshSync DEF ClearScreen
  <2>7. CASE key' = "tab" /\ Complete
    BY <1>1, <2>7, CompleteSync
  <2>8. CASE Up
    BY <1>1, <2>1, <2>8, PrevTypes, ShowSync DEF Up
  <2>9. CASE Down
    BY <1>1, <2>1, <2>9, NextTypes, ShowSync DEF Down
  <2>10. CASE Left \/ Right
    BY <1>1, <2>10, ArrowSync
  <2> QED BY <1>1, <2>2, <2>3, <2>4, <2>5, <2>6, <2>7, <2>8, <2>9, <2>10 DEF EditorNext
<1>2. EditorInv /\ [EditorNext]_shellVars => [Echoes]_shellVars
  <2> SUFFICES ASSUME EditorInv, EditorNext, ~(key' = "tab" /\ buffer_pos < Len(buffer))
               PROVE  /\ LineShown => LineShown'
                      /\ InSync /\ ~(key' = "enter" /\ NextRow < Len(buffer)) => InSync'
    OBVIOUS
  <2>1. EditorTypeOK /\ EditorTypeOK'
    BY EditorStep DEF EditorInv
  <2>2. (Sync(FALSE) <=> LineShown) /\ (Sync(TRUE) <=> InSync)
    BY <2>1, SyncIs
  <2>3. (Sync(FALSE)' <=> LineShown') /\ (Sync(TRUE)' <=> InSync')
    BY <2>1, SyncIsNext
  <2>4. LineShown => Sync(FALSE)'
    BY <1>1, <2>2
  <2>5. InSync /\ ~(key' = "enter" /\ NextRow < Len(buffer)) => Sync(TRUE)'
    BY <1>1, <2>2
  <2> QED BY <2>3, <2>4, <2>5
<1> QED BY <1>2, EditorInvariant, PTL DEF EditorSpec, Echo

-----------------------------------------------------------------------------
\* The ring is the log.

\* The slot of the k-th of c commands, when the head is at h.
SlotOf(h, c, k) == (h + Capacity - c + k - 1) % Capacity
PlainSlot(h, c, k) == IF c - k < h THEN h - c + k - 1 ELSE h - c + k - 1 + Capacity

LEMMA SlotOfIs ==
  ASSUME NEW h \in 0 .. (Capacity - 1), NEW c \in 0 .. Capacity, NEW k \in 1 .. c
  PROVE  /\ SlotOf(h, c, k) = PlainSlot(h, c, k)
         /\ SlotOf(h, c, k) \in 0 .. (Capacity - 1)
<1> DEFINE x == h + Capacity - c + k - 1
<1>1. Capacity \in Nat \ {0}
  BY HistoryConstants DEF HistoryConstants
<1>2. x \in Nat /\ x < 2 * Capacity /\ (x < Capacity <=> ~(c - k < h)) /\ x = (h - c + k - 1) + Capacity
  BY <1>1
<1>3. /\ x % Capacity = IF x < Capacity THEN x ELSE x - Capacity
      /\ x % Capacity \in 0 .. (Capacity - 1)
  <2> HIDE DEF x
  <2> QED BY <1>2, OnRing
<1> QED BY <1>1, <1>2, <1>3 DEF SlotOf, PlainSlot

\* A push moves no command to another slot, and overwrites none but the oldest
\* of a full ring.
LEMMA PushSlots ==
  ASSUME NEW h \in 0 .. (Capacity - 1), NEW c \in 0 .. Capacity
  PROVE  /\ SlotAfter(h) \in 0 .. (Capacity - 1)
         /\ c < Capacity =>
              /\ SlotOf(SlotAfter(h), c + 1, c + 1) = h
              /\ \A k \in 1 .. c : /\ SlotOf(SlotAfter(h), c + 1, k) = SlotOf(h, c, k)
                                   /\ SlotOf(h, c, k) # h
         /\ SlotOf(SlotAfter(h), Capacity, Capacity) = h
         /\ \A k \in 1 .. (Capacity - 1) :
              /\ SlotOf(SlotAfter(h), Capacity, k) = SlotOf(h, Capacity, k + 1)
              /\ SlotOf(h, Capacity, k + 1) # h
<1> DEFINE g == SlotAfter(h)
<1>1. Capacity \in Nat \ {0}
  BY HistoryConstants DEF HistoryConstants
<1>2. g = (IF h + 1 = Capacity THEN 0 ELSE h + 1) /\ g \in 0 .. (Capacity - 1)
  <2>1. h + 1 \in Nat /\ h + 1 < 2 * Capacity /\ (h + 1 < Capacity <=> h + 1 # Capacity)
    BY <1>1
  <2> QED BY <1>1, <2>1, OnRing DEF SlotAfter
<1> HIDE DEF g
<1>3. ASSUME c < Capacity
      PROVE  /\ SlotOf(g, c + 1, c + 1) = h
             /\ \A k \in 1 .. c : /\ SlotOf(g, c + 1, k) = SlotOf(h, c, k)
                                  /\ SlotOf(h, c, k) # h
  <2>1. c + 1 \in 0 .. Capacity /\ c + 1 \in 1 .. c + 1
    BY <1>1, <1>3
  <2>2. SlotOf(g, c + 1, c + 1) = PlainSlot(g, c + 1, c + 1)
    BY <1>2, <2>1, SlotOfIs
  <2>3. PlainSlot(g, c + 1, c + 1) = h
    BY <1>1, <1>2 DEF PlainSlot
  <2>4. ASSUME NEW k \in 1 .. c
        PROVE  /\ SlotOf(g, c + 1, k) = SlotOf(h, c, k)
               /\ SlotOf(h, c, k) # h
    <3>1. k \in 1 .. c + 1
      BY <1>1
    <3>2. SlotOf(g, c + 1, k) = PlainSlot(g, c + 1, k) /\ SlotOf(h, c, k) = PlainSlot(h, c, k)
      BY <1>2, <2>1, <3>1, SlotOfIs
    <3>3. PlainSlot(g, c + 1, k) = PlainSlot(h, c, k) /\ PlainSlot(h, c, k) # h
      BY <1>1, <1>2, <1>3 DEF PlainSlot
    <3> QED BY <3>2, <3>3
  <2> QED BY <2>2, <2>3, <2>4
<1>4. SlotOf(g, Capacity, Capacity) = h
  <2>1. Capacity \in 0 .. Capacity /\ Capacity \in 1 .. Capacity
    BY <1>1
  <2>2. SlotOf(g, Capacity, Capacity) = PlainSlot(g, Capacity, Capacity)
    BY <1>2, <2>1, SlotOfIs
  <2>3. PlainSlot(g, Capacity, Capacity) = h
    BY <1>1, <1>2 DEF PlainSlot
  <2> QED BY <2>2, <2>3
<1>5. ASSUME NEW k \in 1 .. (Capacity - 1)
      PROVE  /\ SlotOf(g, Capacity, k) = SlotOf(h, Capacity, k + 1)
             /\ SlotOf(h, Capacity, k + 1) # h
  <2>1. Capacity \in 0 .. Capacity /\ k \in 1 .. Capacity /\ k + 1 \in 1 .. Capacity
    BY <1>1
  <2>2. /\ SlotOf(g, Capacity, k) = PlainSlot(g, Capacity, k)
        /\ SlotOf(h, Capacity, k + 1) = PlainSlot(h, Capacity, k + 1)
    BY <1>2, <2>1, SlotOfIs
  <2>3. /\ PlainSlot(g, Capacity, k) = PlainSlot(h, Capacity, k + 1)
        /\ PlainSlot(h, Capacity, k + 1) # h
    BY <1>1, <1>2 DEF PlainSlot
  <2> QED BY <2>2, <2>3
<1> QED BY <1>2, <1>3, <1>4, <1>5 DEF g

\* The ring as a sequence.
LEMMA RingIs ==
  ASSUME HistoryTypeOK
  PROVE  /\ Ring \in Seq(Seq(Char)) /\ Len(Ring) = count
         /\ \A k \in 1 .. count : Ring[k] = entries[SlotOf(head, count, k)]
<1>1. /\ count \in Nat /\ count \in 0 .. Capacity /\ head \in 0 .. (Capacity - 1)
      /\ entries \in [0 .. (Capacity - 1) -> Seq(Char)]
  BY HistoryConstants DEF HistoryTypeOK, HistoryConstants
<1>2. Ring = [k \in 1 .. count |-> entries[SlotOf(head, count, k)]]
  BY DEF Ring, SlotOf
<1>3. \A k \in 1 .. count : entries[SlotOf(head, count, k)] \in Seq(Char)
  BY <1>1, SlotOfIs
<1> QED BY <1>1, <1>2, <1>3

\* What is handed back is the log's command at the position.
LEMMA CurrentIsAt ==
  ASSUME HistoryTypeOK
  PROVE  CurrentCommand = Log!At
<1>1. CASE cursor = 0
  BY <1>1 DEF CurrentCommand, Log!At
<1>2. CASE cursor # 0
  <2>1. /\ count \in 0 .. Capacity /\ count \in Nat /\ cursor \in 1 .. count
        /\ head \in Nat /\ Capacity \in Nat
    BY <1>2, HistoryConstants DEF HistoryTypeOK, HistoryConstants
  <2>2. count + 1 - cursor \in 1 .. count
    BY <2>1
  <2>3. Ring[count + 1 - cursor] = entries[SlotOf(head, count, count + 1 - cursor)]
    BY <2>2, RingIs
  <2>4. head + Capacity - count + (count + 1 - cursor) - 1 = head - cursor + Capacity
    BY <2>1
  <2>5. SlotOf(head, count, count + 1 - cursor) = slot(cursor)
    BY <2>4 DEF SlotOf, slot
  <2> QED BY <1>2, <2>3, <2>5, RingIs DEF CurrentCommand, Log!At
<1> QED BY <1>1, <1>2

\* Both hold in the next state too.
IsRing ==
  /\ Ring \in Seq(Seq(Char)) /\ Len(Ring) = count
  /\ \A k \in 1 .. count : Ring[k] = entries[SlotOf(head, count, k)]
  /\ CurrentCommand = Log!At

LEMMA IsRingNext == HistoryTypeOK' => IsRing'
<1>1. HistoryTypeOK => IsRing
  BY RingIs, CurrentIsAt DEF IsRing
<1> QED BY <1>1, PTL

\* The ring after a push.
LEMMA PushRing ==
  ASSUME HistoryTypeOK, HistoryTypeOK', NEW cmd, PushCommand(cmd)
  PROVE  /\ Ring' = IF Len(Ring) < Capacity THEN Append(Ring, Kept(cmd))
                                            ELSE Append(Tail(Ring), Kept(cmd))
         /\ Ring' # << >> /\ Ring'[Len(Ring')] = Kept(cmd)
<1>1. /\ count \in 0 .. Capacity /\ count \in Nat /\ Capacity \in Nat \ {0}
      /\ head \in 0 .. (Capacity - 1) /\ entries \in [0 .. (Capacity - 1) -> Seq(Char)]
  BY HistoryConstants DEF HistoryTypeOK, HistoryConstants
<1>2. /\ Ring \in Seq(Seq(Char)) /\ Len(Ring) = count
      /\ \A k \in 1 .. count : Ring[k] = entries[SlotOf(head, count, k)]
  BY RingIs
<1>3. /\ Ring' \in Seq(Seq(Char)) /\ Len(Ring') = count'
      /\ \A k \in 1 .. count' : Ring'[k] = entries'[SlotOf(head', count', k)]
  BY IsRingNext DEF IsRing
<1>4. /\ entries' = [entries EXCEPT ![head] = Kept(cmd)] /\ head' = SlotAfter(head)
      /\ count' = IF count < Capacity THEN count + 1 ELSE Capacity
  BY DEF PushCommand
<1>5. /\ entries'[head] = Kept(cmd) /\ Kept(cmd) \in Seq(Char)
      /\ \A s \in 0 .. (Capacity - 1) : s # head => entries'[s] = entries[s]
  BY <1>1, <1>4 DEF HistoryTypeOK
<1> DEFINE old == Ring
           new == Ring'
<1> HIDE DEF old, new
<1>6. CASE count < Capacity
  <2>1. Append(old, Kept(cmd)) \in Seq(Seq(Char)) /\ Len(Append(old, Kept(cmd))) = count + 1
        /\ Append(old, Kept(cmd))[count + 1] = Kept(cmd)
        /\ \A k \in 1 .. count : Append(old, Kept(cmd))[k] = old[k]
    BY <1>2, <1>5, AppendProperties DEF old
  <2> DEFINE g == SlotAfter(head)
  <2>2. count' = count + 1 /\ head' = g
    BY <1>4, <1>6
  <2>3. /\ SlotOf(g, count + 1, count + 1) = head
        /\ \A k \in 1 .. count : /\ SlotOf(g, count + 1, k) = SlotOf(head, count, k)
                                 /\ SlotOf(head, count, k) # head
    BY <1>1, <1>6, PushSlots
  <2> HIDE DEF g
  <2>4. ASSUME NEW k \in 1 .. count
        PROVE  new[k] = old[k]
    <3>1. SlotOf(head, count, k) \in 0 .. (Capacity - 1) /\ k \in 1 .. count + 1
      BY <1>1, SlotOfIs
    <3>2. new[k] = entries'[SlotOf(g, count + 1, k)] /\ old[k] = entries[SlotOf(head, count, k)]
      BY <1>2, <1>3, <2>2, <3>1 DEF old, new
    <3> QED BY <1>5, <2>3, <3>1, <3>2
  <2>5. new[count + 1] = Kept(cmd)
    <3>1. count + 1 \in 1 .. count + 1
      BY <1>1
    <3>2. new[count + 1] = entries'[SlotOf(g, count + 1, count + 1)]
      BY <1>3, <2>2, <3>1 DEF new
    <3> QED BY <1>5, <2>3, <3>2
  <2>6. new \in Seq(Seq(Char)) /\ Len(new) = count + 1
    BY <1>3, <1>4, <1>6 DEF new
  <2>7. \A k \in 1 .. count + 1 : k \in 1 .. count \/ k = count + 1
    BY <1>1
  <2>8. new = Append(old, Kept(cmd))
    BY <2>1, <2>4, <2>5, <2>6, <2>7, SeqEqual
  <2>9. new # << >> /\ new[Len(new)] = Kept(cmd) /\ Len(old) < Capacity
    BY <1>1, <1>2, <1>6, <2>5, <2>6 DEF old
  <2> QED BY <2>8, <2>9 DEF old, new
<1>7. CASE count = Capacity
  <2> DEFINE rest == Tail(old)
             n == Capacity
  <2>1. /\ rest \in Seq(Seq(Char)) /\ Len(rest) = n - 1
        /\ \A k \in 1 .. (n - 1) : rest[k] = old[k + 1]
    <3>1. old \in Seq(Seq(Char)) /\ Len(old) = n /\ old # << >>
      BY <1>1, <1>2, <1>7 DEF old
    <3> QED BY <3>1, HeadTailProperties
  <2> HIDE DEF rest
  <2>2. /\ Append(rest, Kept(cmd)) \in Seq(Seq(Char)) /\ Len(Append(rest, Kept(cmd))) = n
        /\ Append(rest, Kept(cmd))[n] = Kept(cmd)
        /\ \A k \in 1 .. (n - 1) : Append(rest, Kept(cmd))[k] = rest[k]
    <3>1. (n - 1) + 1 = n
      BY <1>1
    <3> QED BY <1>5, <2>1, <3>1, AppendProperties
  <2>3. ASSUME NEW k \in 1 .. (n - 1)
        PROVE  new[k] = rest[k]
    <3>1. /\ SlotOf(head', n, k) = SlotOf(head, n, k + 1) /\ SlotOf(head, n, k + 1) # head
      BY <1>1, <1>4, PushSlots
    <3>2. k \in 1 .. n /\ k + 1 \in 1 .. n /\ n \in 0 .. Capacity /\ count' = n
      BY <1>1, <1>4, <1>7
    <3>3. SlotOf(head, n, k + 1) \in 0 .. (Capacity - 1)
      BY <1>1, <3>2, SlotOfIs
    <3>4. new[k] = entries'[SlotOf(head', n, k)] /\ old[k + 1] = entries[SlotOf(head, n, k + 1)]
      BY <1>2, <1>3, <1>7, <3>2 DEF old, new
    <3> QED BY <1>5, <2>1, <3>1, <3>3, <3>4
  <2>4. new[n] = Kept(cmd)
    <3>1. SlotOf(head', count', n) = head /\ n \in 1 .. count'
      BY <1>1, <1>4, <1>7, PushSlots
    <3> QED BY <1>3, <1>5, <3>1 DEF new
  <2>5. new \in Seq(Seq(Char)) /\ Len(new) = n
    BY <1>1, <1>3, <1>4, <1>7 DEF new
  <2>6. \A k \in 1 .. n : k \in 1 .. (n - 1) \/ k = n
    BY <1>1
  <2>7. new = Append(rest, Kept(cmd))
    BY <2>2, <2>3, <2>4, <2>5, <2>6, SeqEqual
  <2>8. new # << >> /\ new[Len(new)] = Kept(cmd) /\ ~(Len(old) < Capacity)
    BY <1>1, <1>2, <1>7, <2>4, <2>5 DEF old
  <2> QED BY <2>7, <2>8 DEF old, new, rest
<1> QED BY <1>1, <1>6, <1>7

LEMMA LogStays ==
  ASSUME UNCHANGED historyVars
  PROVE  UNCHANGED Log!logVars
BY DEF historyVars, Log!logVars, Ring, CurrentCommand, slot

LEMMA LogStep ==
  ASSUME EditorInv, [EditorNext]_shellVars
  PROVE  [Log!LogNext]_(Log!logVars)
<1>1. EditorInv' /\ HistoryTypeOK /\ HistoryTypeOK' /\ IsRing'
  BY EditorStep, IsRingNext DEF EditorInv, EditorTypeOK
<1>2. CurrentCommand' = Log!At' /\ Len(Ring) = count /\ count \in Nat /\ Capacity \in Nat
  BY <1>1, RingIs, HistoryConstants DEF IsRing, HistoryTypeOK, HistoryConstants
<1>3. CASE UNCHANGED historyVars
  BY <1>3, LogStays
<1>4. ASSUME NEW cmd, PushCommand(cmd)
      PROVE  Log!LogNext
  <2>1. /\ Ring' = IF Len(Ring) < Capacity THEN Append(Ring, Kept(cmd))
                                           ELSE Append(Tail(Ring), Kept(cmd))
        /\ Ring' # << >> /\ Ring'[Len(Ring')] = Kept(cmd)
    BY <1>1, <1>4, PushRing
  <2>2. Log!Record(Kept(cmd))
    BY <1>4, <2>1 DEF PushCommand, Log!Record
  <2> QED BY <1>2, <2>1, <2>2 DEF Log!LogNext
<1>5. ASSUME NEW text, HistoryPrev(text)
      PROVE  Log!LogNext
  <2>1. Ring' = Ring
    BY <1>5 DEF HistoryPrev, Ring
  <2>2. Log!Older(draft')
    BY <1>2, <1>5, <2>1 DEF HistoryPrev, Log!Older
  <2> QED BY <1>2, <2>2 DEF Log!LogNext
<1>6. CASE HistoryNext
  <2>1. CASE cursor > 0
    <3>1. Ring' = Ring
      BY <1>6 DEF HistoryNext, Ring
    <3>2. Log!Newer
      BY <1>6, <2>1, <3>1 DEF HistoryNext, Log!Newer
    <3> QED BY <1>2, <3>2 DEF Log!LogNext
  <2>2. CASE ~(cursor > 0)
    BY <1>6, <2>2, LogStays DEF HistoryNext, historyVars
  <2> QED BY <2>1, <2>2
<1>7. \/ UNCHANGED historyVars
      \/ \E cmd : PushCommand(cmd)
      \/ \E text : HistoryPrev(text)
      \/ HistoryNext
  <2>1. CASE UNCHANGED shellVars
    BY <2>1 DEF shellVars, historyVars
  <2>2. CASE \E c \in Keys : Insert(c)
    BY <2>2 DEF Insert
  <2>3. CASE Drop \/ Backspace \/ ClearScreen \/ Complete \/ Left \/ Right
    BY <2>3 DEF Drop, Backspace, ClearScreen, Complete, Left, Right, historyVars
  <2>4. CASE Enter
    BY <2>4 DEF Enter, Push, PushEmpty
  <2>5. CASE Up \/ Down
    BY <2>5 DEF Up, Down
  <2> QED BY <2>1, <2>2, <2>3, <2>4, <2>5 DEF EditorNext
<1> QED BY <1>3, <1>4, <1>5, <1>6, <1>7

\* The ring is the log of the latest commands in the order they were entered: a
\* command replaces the oldest one only, browsing loses neither a command nor the
\* line that was set aside, and what is handed back is the log's command at the
\* position or that line.
THEOREM HistoryImplementsLog == EditorSpec => ImplementsLog
<1>1. EditorInit => Log!LogInit
  <2> SUFFICES ASSUME EditorInit
               PROVE  Log!LogInit
    OBVIOUS
  <2>1. HistoryTypeOK /\ count = 0 /\ cursor = 0 /\ draft = << >>
    BY InitTypes DEF EditorInv, EditorTypeOK, EditorInit, HistoryInit
  <2>2. Ring \in Seq(Seq(Char)) /\ Len(Ring) = 0
    BY <2>1, RingIs
  <2>3. Ring = << >>
    BY <2>2, EmptySeq
  <2> QED BY <2>1, <2>3, CurrentIsAt DEF Log!LogInit
<1>2. EditorInv /\ [EditorNext]_shellVars => [Log!LogNext]_(Log!logVars)
  BY LogStep
<1> QED BY <1>1, <1>2, EditorInvariant, PTL DEF EditorSpec, ImplementsLog, Log!LogSpec

=============================================================================
