------------------------------- MODULE History -------------------------------
(***************************************************************************)
(* The shell's command history, src/src/kernel/history.c: a ring of lines, *)
(* a position counted back from its head, and a draft.                     *)
(*                                                                         *)
(* A line is the sequence of its characters before the NUL: a buffer of n  *)
(* bytes holds a line of at most n - 1.                                    *)
(***************************************************************************)
EXTENDS Integers, Sequences

CONSTANTS
  Capacity,   \* HISTORY_CAPACITY: 16
  EntrySize,  \* HISTORY_ENTRY_SIZE: 256
  Char

ASSUME HistoryConstants ==
  Capacity \in Nat \ {0} /\ EntrySize \in Nat /\ EntrySize >= 2

VARIABLES
  entries,  \* slot |-> line
  head,     \* the slot of the next command
  count,    \* commands in the ring
  cursor,   \* position: 0 is the line being edited
  draft     \* the line set aside

historyVars == <<entries, head, count, cursor, draft>>

\* strlcpy(dest, line, size)
Copied(line, size) == SubSeq(line, 1, IF Len(line) < size THEN Len(line) ELSE size - 1)

\* Both copies into the history pass HISTORY_ENTRY_SIZE - 1.
Kept(line) == Copied(line, EntrySize - 1)

\* A ring read from the slot of the next command, one whose head never wraps to
\* its first slot, a position that stays where it was when a command is run.
slotFromHead(back) == (head - back + 1 + Capacity) % Capacity
SlotAfterLast(s) == IF s = Capacity - 1 THEN s ELSE s + 1

slot(back) == (head - back + Capacity) % Capacity
SlotAfter(s) == (s + 1) % Capacity

\* history_getcurrentcommand
CurrentCommand == IF cursor = 0 THEN draft ELSE entries[slot(cursor)]

\* The statics of the kernel image are zero; history_init has no caller.
HistoryInit ==
  /\ entries = [s \in 0 .. (Capacity - 1) |-> << >>]
  /\ head = 0 /\ count = 0 /\ cursor = 0 /\ draft = << >>

\* history_push
PushEmpty(cmd) == cmd = << >> /\ UNCHANGED historyVars

PushCommand(cmd) ==
  /\ cmd # << >>
  /\ entries' = [entries EXCEPT ![head] = Kept(cmd)]
  /\ count' = IF count < Capacity THEN count + 1 ELSE Capacity
  /\ head' = SlotAfter(head)
  /\ cursor' = 0 /\ draft' = << >>

Push(cmd) == PushEmpty(cmd) \/ PushCommand(cmd)

\* history_prev, at a newer position than the oldest command or at it.
HistoryPrev(current) ==
  /\ draft' = IF cursor = 0 THEN Kept(current) ELSE draft
  /\ cursor' = IF cursor < count THEN cursor + 1 ELSE cursor
  /\ UNCHANGED <<entries, head, count>>

\* history_next
HistoryNext ==
  /\ cursor' = IF cursor > 0 THEN cursor - 1 ELSE cursor
  /\ UNCHANGED <<entries, head, count, draft>>

-----------------------------------------------------------------------------
\* The ring's indices stay inside it and the position inside what was pushed.
HistoryTypeOK ==
  /\ entries \in [0 .. (Capacity - 1) -> Seq(Char)]
  /\ head \in 0 .. (Capacity - 1) /\ count \in 0 .. Capacity
  /\ cursor \in 0 .. count /\ draft \in Seq(Char)

\* The ring read from its oldest command.
Ring == [k \in 1 .. count |-> entries[(head + Capacity - count + k - 1) % Capacity]]

Log == INSTANCE CommandLog
  WITH Size <- Capacity, log <- Ring, back <- cursor, aside <- draft,
       shown <- CurrentCommand

\* The ring is the log of the latest commands in the order they were entered,
\* wherever its head has wrapped to: a command replaces the oldest one only,
\* browsing loses neither a command nor the line that was set aside, and what is
\* handed back is the log's command at the position or that line, never a slot
\* that holds nothing or another command.
ImplementsLog == Log!LogSpec
=============================================================================
