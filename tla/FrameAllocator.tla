--------------------------- MODULE FrameAllocator ---------------------------
(***************************************************************************)
(* What the rest of the kernel relies on when it asks the physical memory  *)
(* manager for a frame: it gets one that nobody else has, or 0 when there  *)
(* is none left.                                                           *)
(***************************************************************************)
EXTENDS Integers

VARIABLES
  avail,  \* frame numbers nobody has
  held,   \* frame numbers handed out
  last    \* what the latest call returned: a frame number, or 0

NoFrame == 0

AllocatorInit == avail \subseteq Nat \ {NoFrame} /\ held = {} /\ last = NoFrame

Grant(f) ==
  /\ f \in avail
  /\ avail' = avail \ {f} /\ held' = held \cup {f} /\ last' = f

Refuse ==
  /\ avail = {}
  /\ last' = NoFrame /\ UNCHANGED <<avail, held>>

GiveBack(f) ==
  /\ f \in held
  /\ avail' = avail \cup {f} /\ held' = held \ {f} /\ UNCHANGED last

AllocatorNext ==
  \/ \E f \in avail : Grant(f)
  \/ Refuse
  \/ \E f \in held : GiveBack(f)

AllocatorSpec == AllocatorInit /\ [][AllocatorNext]_<<avail, held, last>>
=============================================================================
