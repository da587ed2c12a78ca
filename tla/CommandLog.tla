----------------------------- MODULE CommandLog -----------------------------
(***************************************************************************)
(* What the shell's user sees of its history: the latest commands, oldest  *)
(* first, a position in them (0: the line being edited, k: the k-th latest *)
(* command), the line that was set aside to browse them, and the line that *)
(* is handed back for the position.                                        *)
(***************************************************************************)
EXTENDS Integers, Sequences

CONSTANT Size  \* commands that are kept

VARIABLES log, back, aside, shown

logVars == <<log, back, aside, shown>>

\* The command at the position, or the line that was set aside.
At == IF back = 0 THEN aside ELSE log[Len(log) + 1 - back]

LogInit == log = << >> /\ back = 0 /\ aside = << >> /\ shown = At

\* The command joins the log, which forgets what is too old.
Record(cmd) ==
  /\ log' = IF Len(log) < Size THEN Append(log, cmd) ELSE Append(Tail(log), cmd)
  /\ back' = 0 /\ aside' = << >>

\* To the command before this one, if there is one.
Older(line) ==
  /\ back' = IF back < Len(log) THEN back + 1 ELSE back
  /\ aside' = IF back = 0 THEN line ELSE aside
  /\ UNCHANGED log

Newer ==
  /\ back > 0 /\ back' = back - 1
  /\ UNCHANGED <<log, aside>>

\* The command that was recorded and the line that was set aside are those the
\* step leaves behind.
LogNext ==
  /\ \/ log' # << >> /\ Record(log'[Len(log')])
     \/ Older(aside')
     \/ Newer
  /\ shown' = At'

LogSpec == LogInit /\ [][LogNext]_logVars
=============================================================================
